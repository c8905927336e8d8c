------------------------ MODULE FirmwareUpdateProofs ------------------------
(***************************************************************************)
(* Proofs about the firmware update: the types, the test boot that never   *)
(* leaves a broken image in place, and the upload that marks nothing but   *)
(* the whole posted image, for every set of images and number of pieces.   *)
(***************************************************************************)
EXTENDS FirmwareUpdate, SequenceTheorems, TLAPS

----------------------------------------------------------------------------
(* Images and slots *)

\* An image is a file with contents.
LEMMA ImageNames ==
    ASSUME NEW image \in Images
    PROVE  image # NoFile /\ image # EmptyFile
  BY UpdateAssumption DEF NoFile, EmptyFile

\* A whole image is a slot full of pieces.
LEMMA WholeType ==
    ASSUME NEW image \in Images
    PROVE  /\ Length(image) = PIECES
           /\ Whole(image) \in Seq(Pieces) /\ Len(Whole(image)) = PIECES
           /\ \A n \in 1..PIECES : Whole(image)[n] = <<image, n>>
  <1>1. Length(image) = PIECES  BY ImageNames DEF Length
  <1>2. Whole(image) = [n \in 1..PIECES |-> <<image, n>>]  BY <1>1 DEF Whole
  <1>3. \A n \in 1..PIECES : <<image, n>> \in Pieces  BY DEF Pieces
  <1> QED  BY <1>1, <1>2, <1>3, UpdateAssumption

\* The first piece names the image: no slot holds two whole images.
LEMMA WholeInjective ==
    ASSUME NEW a \in Images, NEW b \in Images, Whole(a) = Whole(b)
    PROVE  a = b
  <1>1. 1 \in 1..PIECES  BY UpdateAssumption
  <1>2. Whole(a)[1] = <<a, 1>> /\ Whole(b)[1] = <<b, 1>>  BY <1>1, WholeType
  <1> QED  BY <1>2

\* What a swap puts into slot0 is the image that slot1 held.
LEMMA SwapStep ==
    ASSUME slot0 \in Images, Swap, NEW image \in Images, slot1 = Whole(image)
    PROVE  slot0' = image /\ slot1' = Whole(slot0)
  <1>1. slot0' \in Images /\ slot1 = Whole(slot0')
    BY DEF Swap
  <1> QED  BY <1>1, WholeInjective DEF Swap

\* flash_img writes from the beginning of the slot and leaves the rest.
LEMMA Overwrite ==
    ASSUME NEW S, NEW s \in Seq(S), NEW new \in Seq(S), NEW r,
           r = new \o SubSeq(s, Len(new) + 1, Len(s))
    PROVE  /\ r \in Seq(S)
           /\ Len(new) <= Len(s) => Len(r) = Len(s)
           /\ SubSeq(r, 1, Len(new)) = new
           /\ Len(s) <= Len(new) => r = new
  <1> DEFINE rest == SubSeq(s, Len(new) + 1, Len(s))
  <1>1. /\ rest \in Seq(S)
        /\ Len(rest) = IF Len(new) <= Len(s) THEN Len(s) - Len(new) ELSE 0
    OBVIOUS
  <1>2. /\ r \in Seq(S) /\ Len(r) = Len(new) + Len(rest)
        /\ \A i \in 1..Len(new) : r[i] = new[i]
    BY <1>1
  <1>3. SubSeq(r, 1, Len(new)) = new
    <2>1. /\ SubSeq(r, 1, Len(new)) \in Seq(S)
          /\ Len(SubSeq(r, 1, Len(new))) = Len(new)
          /\ \A i \in 1..Len(new) : SubSeq(r, 1, Len(new))[i] = r[i]
      BY <1>1, <1>2
    <2> QED  BY <1>2, <2>1, SeqEqual
  <1>4. Len(s) <= Len(new) => r = new
    <2> SUFFICES ASSUME Len(s) <= Len(new) PROVE r = new  OBVIOUS
    <2>1. Len(r) = Len(new)  BY <1>1, <1>2
    <2> QED  BY <1>2, <2>1, SeqEqual
  <1> QED  BY <1>1, <1>2, <1>3, <1>4

----------------------------------------------------------------------------
(* The inductive invariant *)

DataTypeOK ==
    /\ slot0 \in Images
    /\ slot1 \in Seq(Pieces) /\ Len(slot1) <= PIECES
    /\ flashed \in 0..PIECES
    /\ buffered \in Seq(Pieces) /\ Len(buffered) <= 1
    /\ post \in Files \cup {NoFile}
    /\ sent \in 0..PIECES

FlagsTypeOK ==
    /\ phase \in {"mcuboot", "main", "confirming", "serving"}
    /\ shown \in {"idle", "uploading", "rebooting", "failed"}
    /\ marked \in BOOLEAN /\ confirmed \in BOOLEAN
    /\ fw_in_progress \in BOOLEAN /\ reboot_scheduled \in BOOLEAN /\ sameOrigin \in BOOLEAN
    /\ clean \in BOOLEAN /\ upgrading \in BOOLEAN /\ gambled \in BOOLEAN

\* What flash_img was given since its init.
Given == Written \o Pending

\* flash_img was given at most the pieces handed to firmware_handler, and all
\* of them in order if nothing failed; without a request nothing is in progress,
\* and requests are served only by main.
UploadInStep ==
    /\ ~Up => post = NoFile
    /\ post # NoFile => sent <= Length(post)
    /\ fw_in_progress => post # NoFile /\ flashed <= Len(slot1)
    /\ Len(Given) <= sent
    /\ clean /\ post # NoFile =>
          Len(Given) = sent /\ \A i \in 1..sent : Given[i] = <<post, i>>

\* Unless a handler ran in an unconfirmed image: a confirmed or a serving
\* image works, and next to one on trial is the image to go back to.
TrialIsSafe ==
    ~gambled =>
        /\ confirmed => slot0 \in Working
        /\ Up => slot0 \in Working
        /\ ~confirmed => ~marked /\ \E image \in Working : slot1 = Whole(image)

UpdateIInv == DataTypeOK /\ FlagsTypeOK /\ UploadInStep /\ TrialIsSafe

----------------------------------------------------------------------------
(* The flags *)

\* A call of firmware_handler keeps the flags and the history Boolean.
LEMMA HandlerFlags ==
    ASSUME FlagsTypeOK, firmware_handler
    PROVE  FlagsTypeOK'
  <1> DEFINE Data(n) == IF n = 0 THEN <<>> ELSE << <<post, sent + 1>> >>
  <1>0. PICK n \in {0, 1}, final \in BOOLEAN :
            HandlerError(Data(n), final) \/ HandlerMore(Data(n)) \/ HandlerFinal(Data(n))
    BY Zenon DEF firmware_handler
  <1>1. PICK data : HandlerError(data, final) \/ HandlerMore(data) \/ HandlerFinal(data)
    BY <1>0
  <1>2. marked' \in BOOLEAN /\ fw_in_progress' \in BOOLEAN
    BY <1>1, Zenon DEF FlagsTypeOK, HandlerError, HandlerMore, HandlerFinal, fw_abort
  <1>3. reboot_scheduled' \in BOOLEAN /\ clean' \in BOOLEAN /\ upgrading' \in BOOLEAN
    BY <1>1, Zenon DEF FlagsTypeOK, HandlerError, HandlerMore, HandlerFinal
  <1>4. gambled' \in BOOLEAN /\ UNCHANGED <<confirmed, phase, sameOrigin>>
    BY Zenon DEF firmware_handler
  <1>5. shown' \in {"idle", "uploading", "rebooting", "failed"}
    BY <1>1 DEF FlagsTypeOK, HandlerError, HandlerMore, HandlerFinal, Answer
  <1> QED  BY <1>2, <1>3, <1>4, <1>5, Zenon DEF FlagsTypeOK

\* Every step keeps the flags and the history Boolean.
LEMMA FlagsStep ==
    ASSUME FlagsTypeOK, [Next]_vars
    PROVE  FlagsTypeOK'
  <1>1. CASE UNCHANGED vars
    BY <1>1 DEF FlagsTypeOK, vars, flash, ram, request, history
  <1>2. CASE Mcuboot
    <2>1. marked' \in BOOLEAN /\ confirmed' \in BOOLEAN
      BY <1>2, Zenon DEF Mcuboot, FlagsTypeOK
    <2> QED  BY <1>2, <2>1 DEF Mcuboot, FlagsTypeOK, request, history
  <1>3. CASE Main \/ Confirm
    <2>1. confirmed' \in BOOLEAN  BY <1>3 DEF Main, Confirm, FlagsTypeOK, flash
    <2> QED  BY <1>3, <2>1 DEF Main, Confirm, FlagsTypeOK, flash, request, history
  <1>4. CASE Reset
    <2>1. fw_in_progress' \in BOOLEAN /\ reboot_scheduled' \in BOOLEAN  BY <1>4, Zenon DEF Reset
    <2> QED  BY <1>4, <2>1 DEF Reset, FlagsTypeOK, flash, history
  <1>5. CASE firmware_handler  BY <1>5, HandlerFlags
  <1>6. CASE TransactionAborted
    <2>1. fw_in_progress' \in BOOLEAN  BY <1>6, Zenon DEF TransactionAborted, fw_abort
    <2> QED  BY <1>6, <2>1 DEF TransactionAborted, FlagsTypeOK, flash, history
  <1>7. CASE Upload
    <2>1. clean' \in BOOLEAN /\ upgrading' \in BOOLEAN /\ sameOrigin' \in BOOLEAN
      BY <1>7, Zenon DEF Upload
    <2> QED  BY <1>7, <2>1 DEF Upload, FlagsTypeOK, flash, ram
  <1> QED
    BY <1>1, <1>2, <1>3, <1>4, <1>5, <1>6, <1>7
    DEF Next, fw_reboot_handler, Crash, PowerLoss

----------------------------------------------------------------------------
(* The test boot *)

\* Every step keeps a broken image on trial with a working one to go back to.
LEMMA TrialStep ==
    ASSUME DataTypeOK, FlagsTypeOK, TrialIsSafe, [Next]_vars
    PROVE  TrialIsSafe'
  <1>1. CASE UNCHANGED <<flash, phase, gambled>>
    BY <1>1 DEF TrialIsSafe, Up, flash, Whole, Length
  <1>2. CASE Mcuboot
    <2> SUFFICES ASSUME ~gambled PROVE TrialIsSafe'
      BY <1>2 DEF Mcuboot, history, TrialIsSafe
    <2>1. ~Up' /\ marked' = FALSE /\ gambled' = gambled /\ slot0 \in Images
      BY <1>2 DEF Mcuboot, Up, history, DataTypeOK
    <2>2. CASE marked /\ Valid(slot1) /\ Swap /\ confirmed' = FALSE
      <3>1. slot0 \in Working  BY <2>2 DEF TrialIsSafe
      <3>2. slot1' = Whole(slot0)  BY <2>2 DEF Swap
      <3> QED  BY <2>1, <2>2, <3>1, <3>2 DEF TrialIsSafe
    <2>3. CASE marked /\ UNCHANGED <<slot0, confirmed>>
      BY <2>1, <2>3 DEF TrialIsSafe
    <2>4. CASE ~marked /\ ~confirmed /\ Swap /\ confirmed' = TRUE
      <3>1. PICK image \in Working : slot1 = Whole(image)  BY <2>4 DEF TrialIsSafe
      <3>2. image \in Images  BY UpdateAssumption
      <3>3. slot0' = image  BY <2>1, <2>4, <3>1, <3>2, SwapStep
      <3> QED  BY <2>1, <2>4, <3>3 DEF TrialIsSafe
    <2>5. CASE UNCHANGED <<slot0, slot1, confirmed>>
      BY <2>1, <2>5 DEF TrialIsSafe, Whole, Length
    <2> QED  BY <1>2, <2>2, <2>3, <2>4, <2>5 DEF Mcuboot
  <1>3. CASE Main \/ Confirm
    <2>1. UNCHANGED <<slot0, slot1, marked, gambled>> /\ (~confirmed' => ~confirmed)
      BY <1>3 DEF Main, Confirm, FlagsTypeOK, flash, history
    <2>2. ~gambled => slot0 \in Working  BY <1>3 DEF Main, Confirm, Up, TrialIsSafe
    <2> QED  BY <2>1, <2>2 DEF TrialIsSafe, Whole, Length
  <1>4. CASE Reset
    BY <1>4 DEF Reset, Up, flash, history, TrialIsSafe, Whole, Length
  <1>5. CASE firmware_handler
    <2>1. UNCHANGED <<slot0, confirmed, phase>> /\ (~gambled' => ~gambled /\ confirmed)
      BY <1>5 DEF firmware_handler
    <2> QED  BY <2>1 DEF TrialIsSafe, Up
  <1> QED
    BY <1>1, <1>2, <1>3, <1>4, <1>5
    DEF Next, fw_reboot_handler, Crash, PowerLoss, TransactionAborted, Upload, vars, ram, history

----------------------------------------------------------------------------
(* The upload *)

\* No file is longer than the slot.
LEMMA LengthType ==
    ASSUME NEW file \in Files
    PROVE  Length(file) \in Nat /\ Length(file) <= PIECES
  BY UpdateAssumption DEF Length

\* What flash_img was given is what it wrote, then what it still buffers.
LEMMA GivenType ==
    ASSUME DataTypeOK, UploadInStep
    PROVE  /\ Written \in Seq(Pieces) /\ Pending \in Seq(Pieces) /\ Given \in Seq(Pieces)
           /\ Len(Written) \in 0..PIECES /\ Len(Pending) <= 1
           /\ Len(Given) = Len(Written) + Len(Pending)
           /\ Len(Given) \in Nat
  <1>1. CASE fw_in_progress
    <2>1. Written = SubSeq(slot1, 1, flashed) /\ Pending = buffered  BY <1>1 DEF Written, Pending
    <2>2. flashed \in Nat /\ flashed <= Len(slot1) /\ Len(slot1) <= PIECES
          /\ slot1 \in Seq(Pieces) /\ buffered \in Seq(Pieces) /\ Len(buffered) <= 1
      BY <1>1 DEF DataTypeOK, UploadInStep
    <2>3. Written \in Seq(Pieces) /\ Len(Written) = flashed  BY <2>1, <2>2
    <2> QED  BY <2>1, <2>2, <2>3, UpdateAssumption DEF Given
  <1>2. CASE ~fw_in_progress
    <2>1. Written = <<>> /\ Pending = <<>>  BY <1>2 DEF Written, Pending
    <2> QED  BY <2>1, UpdateAssumption DEF Given
  <1> QED  BY <1>1, <1>2

\* flash_img takes a piece: it buffers it, after writing the one before it,
\* or writes it too.
LEMMA ReceiveStep ==
    ASSUME DataTypeOK, UploadInStep,
           NEW data \in Seq(Pieces), NEW flush \in BOOLEAN, Receive(data, flush),
           Len(data) <= 1, Len(Given) + Len(data) <= PIECES
    PROVE  /\ slot1' \in Seq(Pieces) /\ Len(slot1') <= PIECES
           /\ flashed' \in 0..PIECES
           /\ buffered' \in Seq(Pieces) /\ Len(buffered') <= 1
           /\ data # <<>> /\ ~flush =>
                 /\ flashed' <= Len(slot1')
                 /\ SubSeq(slot1', 1, flashed') = Given /\ buffered' = data
           /\ data # <<>> /\ flush /\ Len(Given) + Len(data) = PIECES => slot1' = Given \o data
  <1>1. /\ Written \in Seq(Pieces) /\ Pending \in Seq(Pieces) /\ Given \in Seq(Pieces)
        /\ Len(Written) \in 0..PIECES /\ Len(Pending) <= 1 /\ Len(Given) \in Nat
        /\ slot1 \in Seq(Pieces) /\ Len(slot1) \in Nat /\ Len(slot1) <= PIECES /\ PIECES \in Nat
    BY GivenType, UpdateAssumption DEF DataTypeOK
  <1>2. CASE data = <<>>
    BY <1>1, <1>2 DEF Receive
  <1>3. CASE data # <<>>
    <2> DEFINE new == Given \o (IF flush THEN data ELSE <<>>)
    <2>1. /\ slot1' = new \o SubSeq(slot1, Len(new) + 1, Len(slot1))
          /\ flashed' = Len(new)
          /\ buffered' = IF flush THEN <<>> ELSE data
      BY <1>3, Zenon DEF Receive, BufferedWrite, Given
    <2>2. /\ new \in Seq(Pieces) /\ Len(new) \in Nat
          /\ Len(new) = Len(Given) + IF flush THEN Len(data) ELSE 0
      BY <1>1
    <2>3. ~flush => new = Given  BY <1>1, ConcatEmptySeq
    <2>4. flush => new = Given \o data  OBVIOUS
    <2> HIDE DEF new
    <2>5. /\ slot1' \in Seq(Pieces)
          /\ Len(new) <= Len(slot1) => Len(slot1') = Len(slot1)
          /\ SubSeq(slot1', 1, Len(new)) = new
          /\ Len(slot1) <= Len(new) => slot1' = new
      <3>1. new \in Seq(Pieces) /\ slot1 \in Seq(Pieces)  BY <1>1, <2>2
      <3>2. \A r : r = new \o SubSeq(slot1, Len(new) + 1, Len(slot1)) =>
                /\ r \in Seq(Pieces)
                /\ Len(new) <= Len(slot1) => Len(r) = Len(slot1)
                /\ SubSeq(r, 1, Len(new)) = new
                /\ Len(slot1) <= Len(new) => r = new
        <4> SUFFICES ASSUME NEW r, r = new \o SubSeq(slot1, Len(new) + 1, Len(slot1))
                     PROVE  /\ r \in Seq(Pieces)
                            /\ Len(new) <= Len(slot1) => Len(r) = Len(slot1)
                            /\ SubSeq(r, 1, Len(new)) = new
                            /\ Len(slot1) <= Len(new) => r = new
          OBVIOUS
        <4> QED  BY <3>1, Overwrite
      <3> QED  BY <2>1, <3>2, Zenon
    <2>6. Len(new) <= PIECES  BY <1>1, <2>2
    <2>7. buffered' \in Seq(Pieces) /\ Len(buffered') <= 1  BY <2>1
    <2>8. ~flush => SubSeq(slot1', 1, flashed') = Given /\ buffered' = data
                    /\ flashed' <= Len(slot1')
      BY <1>1, <2>1, <2>2, <2>3, <2>5
    <2>9. flush /\ Len(Given) + Len(data) = PIECES => slot1' = Given \o data
      BY <1>1, <2>2, <2>4, <2>5
    <2>10. flashed' \in 0..PIECES /\ Len(slot1') <= PIECES  BY <1>1, <2>1, <2>2, <2>5, <2>6
    <2> QED  BY <2>5, <2>7, <2>8, <2>9, <2>10
  <1> QED  BY <1>2, <1>3

\* Without an upload in progress nothing was given to flash_img.
LEMMA NothingGiven ==
    ASSUME ~fw_in_progress
    PROVE  Given = <<>> /\ Len(Given) = 0 /\ Written = <<>>
  <1>1. Written = <<>> /\ Pending = <<>>  BY DEF Written, Pending
  <1> QED  BY <1>1 DEF Given

\* Without an upload under way flash_img holds nothing of one.
LEMMA NothingGivenNext ==
    ASSUME fw_in_progress' = FALSE
    PROVE  Given' = <<>> /\ Len(Given') = 0
  <1>1. Written' = <<>> /\ Pending' = <<>>  BY DEF Written, Pending
  <1> QED  BY <1>1 DEF Given

\* What a call of firmware_handler is given, and what it leaves of the request.
HandlerCall(data, final) ==
    /\ data \in Seq(Pieces) /\ Len(data) <= 1
    /\ data # <<>> => Len(data) = 1 /\ data[1] = <<post, sent + 1>>
    /\ data = <<>> => final
    /\ sent + Len(data) <= Length(post)
    /\ final => sent + Len(data) = Length(post)
    /\ sent' = IF final THEN 0 ELSE sent + Len(data)
    /\ post' = IF final THEN NoFile ELSE post
    /\ \/ HandlerError(data, final)
       \/ ~final /\ HandlerMore(data)
       \/ final /\ HandlerFinal(data)

\* Every call of firmware_handler has a piece of the body, or none, and a final flag.
LEMMA CallOf ==
    ASSUME DataTypeOK, firmware_handler
    PROVE  \E data \in Seq(Pieces), final \in BOOLEAN : HandlerCall(data, final)
  <1> DEFINE Data(n) == IF n = 0 THEN <<>> ELSE << <<post, sent + 1>> >>
  <1>1. PICK n \in {0, 1}, final \in BOOLEAN :
            /\ sent + n <= Length(post)
            /\ (final => sent + n = Length(post)) /\ (n = 0 => final)
            /\ sent' = IF final THEN 0 ELSE sent + n
            /\ post' = IF final THEN NoFile ELSE post
            /\ \/ HandlerError(Data(n), final)
               \/ ~final /\ HandlerMore(Data(n))
               \/ final /\ HandlerFinal(Data(n))
    BY Zenon DEF firmware_handler
  <1>2. post \in Files /\ sent \in Nat /\ sent <= PIECES
    BY UpdateAssumption DEF DataTypeOK, firmware_handler
  <1>3. CASE n = 0
    <2>1. Data(n) = <<>> /\ Len(Data(n)) = 0 /\ Data(n) \in Seq(Pieces)  BY <1>3
    <2> HIDE DEF Data
    <2>2. final /\ Len(Data(n)) = n  BY <1>1, <1>3, <2>1
    <2>3. Len(Data(n)) <= 1 /\ (Data(n) # <<>> => Len(Data(n)) = 1 /\ Data(n)[1] = <<post, sent + 1>>)
      BY <2>1
    <2>4. HandlerCall(Data(n), final)  BY <1>1, <2>1, <2>2, <2>3, Zenon DEF HandlerCall
    <2> QED  BY <2>1, <2>4
  <1>4. CASE n = 1
    <2>1. post \in Images
      <3>1. Length(post) # 0  BY <1>1, <1>2, <1>4, LengthType
      <3> QED  BY <1>2, <3>1 DEF Length, Files
    <2>2. Length(post) = PIECES  BY <2>1, WholeType
    <2>3. <<post, sent + 1>> \in Pieces  BY <1>1, <1>2, <1>4, <2>1, <2>2, UpdateAssumption DEF Pieces
    <2>4. Data(n) = << <<post, sent + 1>> >>  BY <1>4
    <2>5. /\ Data(n) # <<>> /\ Len(Data(n)) = 1 /\ Data(n)[1] = <<post, sent + 1>>
          /\ Data(n) \in Seq(Pieces)
      BY <2>3, <2>4
    <2> HIDE DEF Data
    <2>6. HandlerCall(Data(n), final)  BY <1>1, <1>4, <2>5 DEF HandlerCall
    <2> QED  BY <2>5, <2>6
  <1> QED  BY <1>3, <1>4

\* The numbers of a call: flash_img is given no more than the image has.
LEMMA CallBounds ==
    ASSUME DataTypeOK, UploadInStep, firmware_handler,
           NEW data \in Seq(Pieces), NEW final \in BOOLEAN, HandlerCall(data, final)
    PROVE  /\ Up /\ Up' /\ slot0' = slot0
           /\ post \in Files /\ sent \in Nat /\ Length(post) \in Nat /\ Length(post) <= PIECES
           /\ Len(data) \in Nat /\ Len(data) <= 1 /\ PIECES \in Nat
           /\ Len(Given) \in Nat /\ Len(Given) <= sent
           /\ Len(Given) + Len(data) <= PIECES
           /\ sent' \in 0..PIECES /\ post' \in Files \cup {NoFile}
  <1>1. Up /\ Up' /\ slot0' = slot0 /\ post # NoFile
    BY DEF firmware_handler, Up
  <1>2. post \in Files /\ sent \in Nat /\ PIECES \in Nat
    BY <1>1, UpdateAssumption DEF DataTypeOK
  <1>3. Length(post) \in Nat /\ Length(post) <= PIECES  BY <1>2, LengthType
  <1>4. Len(data) \in Nat /\ Len(data) <= 1 /\ sent + Len(data) <= Length(post)
    BY DEF HandlerCall
  <1>5. Len(Given) \in Nat /\ Len(Given) <= sent  BY GivenType DEF UploadInStep
  <1>6. sent' = 0 \/ sent' = sent + Len(data)  BY Zenon DEF HandlerCall
  <1>7. post' = NoFile \/ post' = post  BY Zenon DEF HandlerCall
  <1>8. sent' \in 0..PIECES  BY <1>2, <1>3, <1>4, <1>6
  <1>9. post' \in Files \cup {NoFile}  BY <1>2, <1>7
  <1>10. Len(Given) + Len(data) <= PIECES  BY <1>2, <1>3, <1>4, <1>5
  <1> QED  BY <1>1, <1>2, <1>3, <1>4, <1>5, <1>8, <1>9, <1>10

\* An error path of firmware_handler leaves no upload half open.
LEMMA ErrorUpload ==
    ASSUME DataTypeOK, UploadInStep, firmware_handler,
           NEW data \in Seq(Pieces), NEW final \in BOOLEAN, HandlerCall(data, final),
           HandlerError(data, final)
    PROVE  DataTypeOK' /\ UploadInStep'
  <1>1. Len(Given) + Len(data) <= PIECES /\ Len(data) <= 1  BY CallBounds
  <1>2. /\ slot1' \in Seq(Pieces) /\ Len(slot1') <= PIECES
        /\ flashed' \in 0..PIECES
        /\ buffered' \in Seq(Pieces) /\ Len(buffered') <= 1
    <2>1. CASE Receive(data, TRUE)  BY <1>1, <2>1, ReceiveStep
    <2>2. CASE slot1' \in {slot1, Written} /\ UNCHANGED <<flashed, buffered>>
      <3>1. Written \in Seq(Pieces) /\ Len(Written) <= PIECES  BY GivenType, UpdateAssumption
      <3> QED  BY <2>2, <3>1 DEF DataTypeOK
    <2> QED  BY <2>1, <2>2 DEF HandlerError
  <1>3. fw_in_progress' = FALSE /\ clean' = FALSE  BY DEF HandlerError, fw_abort
  <1>4. Given' = <<>> /\ Len(Given') = 0  BY <1>3, NothingGivenNext
  <1>5. DataTypeOK'  BY <1>2, CallBounds DEF DataTypeOK
  <1>6. post' # NoFile => sent' <= Length(post')
    <2>1. post' # NoFile => post' = post /\ sent' = sent + Len(data)  BY DEF HandlerCall
    <2>2. sent + Len(data) <= Length(post)  BY DEF HandlerCall
    <2> QED  BY <2>1, <2>2 DEF Length
  <1>7. sent' \in Nat  BY CallBounds
  <1> QED  BY <1>3, <1>4, <1>5, <1>6, <1>7, CallBounds DEF UploadInStep

\* The last call of an upload leaves no upload open.
LEMMA FinalUpload ==
    ASSUME DataTypeOK, UploadInStep, firmware_handler,
           NEW data \in Seq(Pieces), NEW final \in BOOLEAN, HandlerCall(data, final),
           final, HandlerFinal(data)
    PROVE  DataTypeOK' /\ UploadInStep'
  <1>1. Len(Given) + Len(data) <= PIECES /\ Len(data) <= 1  BY CallBounds
  <1>2. /\ slot1' \in Seq(Pieces) /\ Len(slot1') <= PIECES
        /\ flashed' \in 0..PIECES
        /\ buffered' \in Seq(Pieces) /\ Len(buffered') <= 1
    <2>1. Receive(data, TRUE)  BY DEF HandlerFinal
    <2> QED  BY <1>1, <2>1, ReceiveStep
  <1>3. fw_in_progress' = FALSE /\ post' = NoFile
    <2>1. post' = NoFile  BY Zenon DEF HandlerCall
    <2> QED  BY <2>1 DEF HandlerFinal, fw_abort
  <1>4. Given' = <<>> /\ Len(Given') = 0  BY <1>3, NothingGivenNext
  <1>5. DataTypeOK'  BY <1>2, CallBounds DEF DataTypeOK
  <1>6. sent' = 0  BY Zenon DEF HandlerCall
  <1> QED  BY <1>3, <1>4, <1>5, <1>6 DEF UploadInStep

\* One more piece: it is appended to what flash_img was given.
LEMMA MoreUpload ==
    ASSUME DataTypeOK, UploadInStep, firmware_handler,
           NEW data \in Seq(Pieces), NEW final \in BOOLEAN, HandlerCall(data, final),
           ~final, HandlerMore(data)
    PROVE  DataTypeOK' /\ UploadInStep'
  <1>1. Len(Given) + Len(data) <= PIECES /\ Len(data) <= 1  BY CallBounds
  <1>2. /\ data # <<>> /\ Len(data) = 1 /\ data[1] = <<post, sent + 1>>
        /\ post' = post /\ sent' = sent + 1 /\ sent + 1 <= Length(post) /\ post # NoFile
    BY DEF HandlerCall, firmware_handler
  <1>3. /\ slot1' \in Seq(Pieces) /\ Len(slot1') <= PIECES
        /\ flashed' \in 0..PIECES
        /\ buffered' \in Seq(Pieces) /\ Len(buffered') <= 1
        /\ flashed' <= Len(slot1')
        /\ SubSeq(slot1', 1, flashed') = Given /\ buffered' = data
    <2>1. Receive(data, FALSE)  BY DEF HandlerMore
    <2> QED  BY <1>1, <1>2, <2>1, ReceiveStep
  <1>4. fw_in_progress' = TRUE /\ clean' = clean  BY DEF HandlerMore
  <1>5. Given' = Given \o data  BY <1>3, <1>4 DEF Given, Written, Pending
  <1>6. DataTypeOK'  BY <1>3, CallBounds DEF DataTypeOK
  <1>7. Given \in Seq(Pieces) /\ Len(Given) \in Nat /\ Len(Given) <= sent /\ sent \in Nat
    BY GivenType, CallBounds
  <1>8. Len(Given') = Len(Given) + 1
    <2>1. Len(Given \o data) = Len(Given) + Len(data)  BY <1>7, ConcatProperties
    <2>2. Len(data) = 1  BY <1>2
    <2> QED  BY <1>5, <2>1, <2>2
  <1>9. clean' /\ post' # NoFile =>
            Len(Given') = sent' /\ \A i \in 1..sent' : Given'[i] = <<post', i>>
    <2> SUFFICES ASSUME clean
                 PROVE  Len(Given') = sent' /\ \A i \in 1..sent' : Given'[i] = <<post', i>>
      BY <1>4
    <2>1. Len(Given) = sent /\ \A i \in 1..sent : Given[i] = <<post, i>>
      BY <1>2 DEF UploadInStep
    <2>2. \A i \in 1..sent : Given'[i] = Given[i]  BY <1>5, <1>7, <2>1
    <2>3. Given'[sent + 1] = data[1]  BY <1>2, <1>5, <1>7, <2>1
    <2> QED  BY <1>2, <1>7, <1>8, <2>1, <2>2, <2>3
  <1>10. post' # NoFile => sent' <= Length(post')  BY <1>2 DEF Length
  <1>11. Len(Given') <= sent'  BY <1>2, <1>7, <1>8
  <1> QED  BY <1>2, <1>3, <1>4, <1>6, <1>9, <1>10, <1>11, CallBounds DEF UploadInStep

\* Every step keeps the upload in step with the request.
LEMMA UploadStep ==
    ASSUME DataTypeOK, UploadInStep, [Next]_vars
    PROVE  DataTypeOK' /\ UploadInStep'
  <1>1. CASE UNCHANGED vars
    BY <1>1 DEF vars, flash, ram, request, history, DataTypeOK, UploadInStep, Up, Given,
                Written, Pending, Length
  <1>2. CASE Mcuboot \/ Main
    <2>1. /\ ~Up /\ post = NoFile /\ post' = NoFile /\ ~fw_in_progress
          /\ UNCHANGED <<fw_in_progress, flashed, buffered, sent>>
      BY <1>2 DEF Mcuboot, Main, Up, UploadInStep, request
    <2>2. slot0' \in Images /\ slot1' \in Seq(Pieces) /\ Len(slot1') <= PIECES
      <3>1. CASE UNCHANGED <<slot0, slot1>>  BY <3>1 DEF DataTypeOK
      <3>2. CASE UNCHANGED slot0 /\ slot1' = <<>>  BY <3>2, UpdateAssumption DEF DataTypeOK
      <3>3. CASE Valid(slot1) /\ Swap
        <4>1. PICK image \in Images : slot1 = Whole(image)  BY <3>3 DEF Valid
        <4>2. slot0' = image /\ slot1' = Whole(slot0)  BY <3>3, <4>1, SwapStep DEF DataTypeOK
        <4> QED  BY <4>2, WholeType, UpdateAssumption DEF DataTypeOK
      <3> QED  BY <1>2, <3>1, <3>2, <3>3 DEF Mcuboot, Main, flash
    <2>3. Len(Given') = 0  BY <2>1, NothingGiven DEF Given, Written, Pending
    <2>4. sent' \in Nat  BY <2>1, UpdateAssumption DEF DataTypeOK
    <2> QED  BY <2>1, <2>2, <2>3, <2>4 DEF DataTypeOK, UploadInStep
  <1>3. CASE Confirm
    <2>1. Up /\ Up' /\ UNCHANGED <<slot0, slot1, fw_in_progress, flashed, buffered, post, sent, clean>>
      BY <1>3 DEF Confirm, Up, request, history
    <2> QED  BY <2>1 DEF DataTypeOK, UploadInStep, Given, Written, Pending, Length
  <1>4. CASE Reset \/ TransactionAborted
    <2>1. /\ post' = NoFile /\ sent' = 0 /\ fw_in_progress' = FALSE /\ UNCHANGED <<slot0, slot1>>
          /\ (flashed' = 0 /\ buffered' = <<>>) \/ UNCHANGED <<flashed, buffered>>
      BY <1>4 DEF Reset, TransactionAborted, fw_abort, flash
    <2>2. Len(Given') = 0  BY <2>1, NothingGivenNext
    <2>3. flashed' \in 0..PIECES /\ buffered' \in Seq(Pieces) /\ Len(buffered') <= 1
      <3>1. CASE flashed' = 0 /\ buffered' = <<>>  BY <3>1, UpdateAssumption
      <3>2. CASE UNCHANGED <<flashed, buffered>>  BY <3>2 DEF DataTypeOK
      <3> QED  BY <2>1, <3>1, <3>2
    <2>4. DataTypeOK'  BY <2>1, <2>3, UpdateAssumption DEF DataTypeOK
    <2> QED  BY <2>1, <2>2, <2>4 DEF UploadInStep
  <1>5. CASE firmware_handler
    <2>1. PICK data \in Seq(Pieces), final \in BOOLEAN : HandlerCall(data, final)
      BY <1>5, CallOf
    <2>2. \/ HandlerError(data, final)
          \/ ~final /\ HandlerMore(data)
          \/ final /\ HandlerFinal(data)
      BY <2>1 DEF HandlerCall
    <2>3. CASE HandlerError(data, final)  BY <1>5, <2>1, <2>3, ErrorUpload
    <2>4. CASE ~final /\ HandlerMore(data)  BY <1>5, <2>1, <2>4, MoreUpload
    <2>5. CASE final /\ HandlerFinal(data)  BY <1>5, <2>1, <2>5, FinalUpload
    <2> QED  BY <2>2, <2>3, <2>4, <2>5
  <1>6. CASE Upload
    <2>1. /\ post = NoFile /\ post' \in Files /\ sent' = 0 /\ Up /\ ~fw_in_progress
          /\ UNCHANGED <<slot0, slot1, phase, fw_in_progress, flashed, buffered>>
      BY <1>6 DEF Upload, UploadInStep, flash, ram
    <2>2. Length(post') \in Nat  BY <2>1, LengthType
    <2>3. Len(Given') = 0  BY <2>1, NothingGiven DEF Given, Written, Pending
    <2> QED  BY <2>1, <2>2, <2>3, UpdateAssumption DEF DataTypeOK, UploadInStep, Up
  <1> QED
    BY <1>1, <1>2, <1>3, <1>4, <1>5, <1>6 DEF Next, fw_reboot_handler, Crash, PowerLoss

----------------------------------------------------------------------------
(* The theorems *)

\* The invariant the theorems rest on: holds of the device as it is delivered
\* and is kept by every step of MCUboot, main, firmware_handler and the client.
THEOREM UpdateInvariant == Spec => []UpdateIInv
  <1>1. Init => UpdateIInv
    <2> SUFFICES ASSUME Init PROVE UpdateIInv  OBVIOUS
    <2>1. Given = <<>> /\ Len(Given) = 0  BY NothingGiven DEF Init
    <2>2. DataTypeOK
      BY UpdateAssumption DEF Init, DataTypeOK
    <2>3. FlagsTypeOK  BY DEF Init, FlagsTypeOK
    <2>4. UploadInStep  BY <2>1 DEF Init, UploadInStep, Up
    <2>5. TrialIsSafe  BY UpdateAssumption DEF Init, TrialIsSafe, Up
    <2> QED  BY <2>2, <2>3, <2>4, <2>5 DEF UpdateIInv
  <1>2. UpdateIInv /\ [Next]_vars => UpdateIInv'
    BY FlagsStep, TrialStep, UploadStep DEF UpdateIInv
  <1> QED  BY <1>1, <1>2, PTL DEF Spec

\* The variables keep their types: no upload, aborted, failed or repeated,
\* overruns slot1 or the buffer of flash_img.
THEOREM UpdateTypeOK == Spec => []TypeOK
  <1>1. UpdateIInv => TypeOK
    BY DEF UpdateIInv, DataTypeOK, FlagsTypeOK, TypeOK
  <1> QED  BY <1>1, UpdateInvariant, PTL

\* The test boot of BOOT_UPGRADE_TEST keeps an image that does not reach the
\* end of main from becoming permanent, with a whole working image next to it.
THEOREM BrokenImageIsOnTrial == Spec => []BrokenImageOnTrial
  <1>1. UpdateIInv => BrokenImageOnTrial
    BY DEF UpdateIInv, FlagsTypeOK, TrialIsSafe, BrokenImageOnTrial
  <1> QED  BY <1>1, UpdateInvariant, PTL

\* A call of firmware_handler that gets slot1 marked, without a flash error and
\* with data in the final call, leaves the whole posted image in slot1.
LEMMA MarkedWhole ==
    ASSUME UpdateIInv, [Next]_vars, upgrading', ~upgrading, clean'
    PROVE  slot1' = Whole(post)
  <1>1. CASE firmware_handler
    <2>1. PICK data \in Seq(Pieces), final \in BOOLEAN : HandlerCall(data, final)
      BY <1>1, CallOf DEF UpdateIInv
    <2>2. final /\ HandlerFinal(data)
      <3>1. ~HandlerError(data, final)  BY Zenon DEF HandlerError
      <3>2. ~HandlerMore(data)  BY Zenon DEF HandlerMore
      <3> QED  BY <2>1, <3>1, <3>2, Zenon DEF HandlerCall
    <2>3. Receive(data, TRUE) /\ clean /\ data # <<>>  BY <2>2, Zenon DEF HandlerFinal
    <2>4. /\ Len(data) = 1 /\ data[1] = <<post, sent + 1>> /\ sent + 1 = Length(post)
          /\ post # NoFile
      BY <1>1, <2>1, <2>2, <2>3 DEF HandlerCall, firmware_handler
    <2>5. Len(Given) = sent /\ \A i \in 1..sent : Given[i] = <<post, i>>
      BY <2>3, <2>4 DEF UpdateIInv, UploadInStep
    <2>6. sent \in Nat /\ post \in Files /\ Len(Given) + Len(data) <= PIECES
      BY <1>1, <2>1, CallBounds DEF UpdateIInv
    <2>7. post \in Images
      <3>1. Length(post) # 0  BY <2>4, <2>6
      <3> QED  BY <2>6, <3>1 DEF Length, Files
    <2>8. /\ Length(post) = PIECES /\ Whole(post) \in Seq(Pieces) /\ Len(Whole(post)) = PIECES
          /\ \A i \in 1..PIECES : Whole(post)[i] = <<post, i>>
      BY <2>7, WholeType
    <2>9. slot1' = Given \o data
      <3>1. Len(Given) + Len(data) = PIECES  BY <2>4, <2>5, <2>8
      <3>2. DataTypeOK /\ UploadInStep  BY DEF UpdateIInv
      <3>3. Len(data) <= 1 /\ data # <<>>  BY <2>3, <2>4
      <3>4. \A flush \in BOOLEAN : Receive(data, flush) /\ flush => slot1' = Given \o data
        BY <2>6, <3>1, <3>2, <3>3, ReceiveStep
      <3> QED  BY <2>3, <3>4, Zenon
    <2>10. Given \in Seq(Pieces)  BY GivenType DEF UpdateIInv
    <2>11. /\ Given \o data \in Seq(Pieces) /\ Len(Given \o data) = sent + 1
           /\ \A i \in 1..sent : (Given \o data)[i] = Given[i]
           /\ (Given \o data)[sent + 1] = data[1]
      BY <2>4, <2>5, <2>6, <2>10, ConcatProperties
    <2>12. \A i \in 1..PIECES : (Given \o data)[i] = Whole(post)[i]
      <3> SUFFICES ASSUME NEW i \in 1..PIECES PROVE (Given \o data)[i] = <<post, i>>
        BY <2>8
      <3>1. i \in 1..sent \/ i = sent + 1  BY <2>4, <2>6, <2>8
      <3> QED  BY <2>4, <2>5, <2>11, <3>1
    <2>13. Len(Given \o data) = Len(Whole(post))  BY <2>4, <2>8, <2>11
    <2>14. Given \o data = Whole(post)  BY <2>8, <2>11, <2>12, <2>13, SeqEqual
    <2> QED  BY <2>9, <2>14
  <1>2. CASE ~firmware_handler
    <2>1. upgrading' = upgrading \/ upgrading' = FALSE
      BY <1>2 DEF Next, vars, history, Mcuboot, Main, Confirm, fw_reboot_handler, Crash, PowerLoss,
                  Reset, TransactionAborted, Upload
    <2> QED  BY <2>1
  <1> QED  BY <1>1, <1>2

\* Whatever earlier requests were aborted, failed or cut off by a reset, a clean
\* request marks slot1 only with the whole posted image in it.
THEOREM UploadIsWhole == Spec => CleanUploadIsWhole
  <1>1. UpdateIInv /\ [Next]_vars =>
            [(upgrading' /\ ~upgrading /\ clean') => slot1' = Whole(post)]_vars
    BY MarkedWhole
  <1> QED  BY <1>1, UpdateInvariant, PTL DEF Spec, CleanUploadIsWhole

=============================================================================
