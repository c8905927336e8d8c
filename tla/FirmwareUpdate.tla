--------------------------- MODULE FirmwareUpdate ---------------------------
(***************************************************************************)
(* Firmware update of a t1s_device node: POST /firmware                    *)
(* (app/demos/ethernet_bridge/t1s_device/src/main.c, firmware_handler and  *)
(* main), the dashboard's upload button (t1s_device/web/index.html) and,   *)
(* as far as the code relies on them, the HTTP server, flash_img and       *)
(* MCUboot.                                                                *)
(*                                                                         *)
(* The HTTP server calls firmware_handler once per piece of the body, with *)
(* "final" set on the last call, which may carry no data; it keeps calling *)
(* after the handler answered, until the body ends or the client goes.     *)
(* flash_img buffers the end of what it was given until it is flushed.     *)
(* MCUboot swaps in a marked image that is complete, and swaps it out      *)
(* again on the next boot unless it was confirmed. Power may fail at any   *)
(* time. An image is the sequence of its pieces; an empty file has none.   *)
(***************************************************************************)
EXTENDS Naturals, Sequences

CONSTANTS
    Images,        \* what a user may upload
    Working,       \* the images that reach the end of main
    Factory,       \* the image the device came with
    PIECES,        \* body pieces of an image
    FLASH_FAILS    \* flash operations (an upload's, the confirmation) may fail

ASSUME UpdateAssumption ==
    /\ Working \subseteq Images
    /\ Factory \in Working
    /\ {"none", "empty"} \cap Images = {}
    /\ PIECES \in Nat \ {0}
    /\ FLASH_FAILS \in BOOLEAN

NoFile == "none"
EmptyFile == "empty"
Files == Images \cup {EmptyFile}

VARIABLES
    (* flash, kept over a reset *)
    slot0,            \* the image that runs
    slot1,            \* the pieces in the upload slot
    marked,           \* slot1 is marked for a test boot
    confirmed,        \* slot0 is confirmed
    (* RAM *)
    phase,            \* "mcuboot", "main", "confirming" once the server runs, or "serving"
    fw_in_progress,
    flashed,          \* pieces flash_img has written since its init
    buffered,         \* what flash_img still buffers
    reboot_scheduled, \* fw_reboot_work
    (* the request and the dashboard *)
    post,             \* the file being posted
    sent,             \* pieces handed to firmware_handler
    sameOrigin,       \* the dashboard was served by this node
    shown,            \* what the dashboard tells the user
    (* history *)
    clean,            \* no flash error, data in the final call
    upgrading,        \* this request got slot1 marked
    gambled           \* firmware_handler ran in an image that is not confirmed

flash == <<slot0, slot1, marked, confirmed>>
ram == <<phase, fw_in_progress, flashed, buffered, reboot_scheduled>>
request == <<post, sent, sameOrigin, shown>>
history == <<clean, upgrading, gambled>>
vars == <<flash, ram, request, history>>

\* the pieces of the body
Length(file) == IF file = EmptyFile THEN 0 ELSE PIECES

Whole(file) == [n \in 1..Length(file) |-> <<file, n>>]

Valid(slot) == \E image \in Images : slot = Whole(image)

Init ==
    /\ slot0 = Factory
    /\ slot1 = <<>>
    /\ marked = FALSE
    /\ confirmed = TRUE
    /\ phase = "mcuboot"
    /\ fw_in_progress = FALSE
    /\ flashed = 0
    /\ buffered = <<>>
    /\ reboot_scheduled = FALSE
    /\ post = NoFile
    /\ sent = 0
    /\ sameOrigin = TRUE
    /\ shown = "idle"
    /\ clean = TRUE
    /\ upgrading = FALSE
    /\ gambled = FALSE

-----------------------------------------------------------------------------
(* MCUboot and the start of the application *)

Swap ==
    /\ slot0' = CHOOSE image \in Images : slot1 = Whole(image)
    /\ slot1' = Whole(slot0)

\* MCUboot: a complete marked image is swapped in for one boot, an incomplete
\* one is erased; an unconfirmed image is swapped out again if it can be.
Mcuboot ==
    /\ phase = "mcuboot"
    /\ phase' = "main"
    /\ marked' = FALSE
    /\ \/ marked /\ Valid(slot1) /\ Swap /\ confirmed' = FALSE
       \/ marked /\ ~Valid(slot1) /\ slot1' = <<>> /\ UNCHANGED <<slot0, confirmed>>
       \/ ~marked /\ ~confirmed /\ Valid(slot1) /\ Swap /\ confirmed' = TRUE
       \/ /\ ~marked
          /\ confirmed \/ ~Valid(slot1)
          /\ UNCHANGED <<slot0, slot1, confirmed>>
    /\ UNCHANGED <<fw_in_progress, flashed, buffered, reboot_scheduled,
                   request, history>>

\* (mutant) the image is confirmed at the top of main
MainConfirmsFirst ==
    /\ phase = "main"
    /\ confirmed' = TRUE
    /\ phase' = IF slot0 \in Working THEN "confirming" ELSE "main"
    /\ UNCHANGED <<slot0, slot1, marked, fw_in_progress, flashed, buffered,
                   reboot_scheduled, request, history>>

\* main: start the HTTP server ...
Main ==
    /\ phase = "main"
    /\ slot0 \in Working
    /\ phase' = "confirming"
    /\ UNCHANGED <<flash, fw_in_progress, flashed, buffered, reboot_scheduled,
                   request, history>>

\* ... and confirm the image; a failure is only logged
Confirm ==
    /\ phase = "confirming"
    /\ phase' = "serving"
    /\ confirmed' \in IF FLASH_FAILS THEN {confirmed, TRUE} ELSE {TRUE}
    /\ UNCHANGED <<slot0, slot1, marked, fw_in_progress, flashed, buffered,
                   reboot_scheduled, request, history>>

\* The HTTP server runs.
Up == phase \in {"confirming", "serving"}

\* A reset clears the RAM; a pending upload ends as a network error.
Reset ==
    /\ phase' = "mcuboot"
    /\ fw_in_progress' = FALSE
    /\ flashed' = 0
    /\ buffered' = <<>>
    /\ reboot_scheduled' = FALSE
    /\ post' = NoFile
    /\ sent' = 0
    /\ shown' = IF shown = "uploading" THEN "failed" ELSE shown
    /\ UNCHANGED <<flash, sameOrigin, history>>

\* fw_reboot_handler, two seconds after k_work_schedule
fw_reboot_handler == reboot_scheduled /\ Reset

\* an image that does not work crashes before it is done with main
Crash == phase = "main" /\ slot0 \notin Working /\ Reset

PowerLoss == phase # "mcuboot" /\ Reset

-----------------------------------------------------------------------------
(* firmware_handler *)

\* (mutant) an ended upload is taken for one in progress
fw_abortForgotten == UNCHANGED fw_in_progress

fw_abort == fw_in_progress' = FALSE

\* What the dashboard makes of the first response. No path sets a status, so
\* it is 200; without the CORS header a dashboard served by another node sees
\* a network error.
Answer(cors) ==
    shown' = IF shown # "uploading" THEN shown
             ELSE IF cors \/ sameOrigin THEN "rebooting" ELSE "failed"

\* What this upload has put into slot1, and what flash_img still buffers of it.
Written == IF fw_in_progress THEN SubSeq(slot1, 1, flashed) ELSE <<>>
Pending == IF fw_in_progress THEN buffered ELSE <<>>

\* flash_img_buffered_write(data, flush). Pages are erased one by one
\* (IMG_ERASE_PROGRESSIVELY): beyond them the old contents stay.
BufferedWrite(data, flush) ==
    LET new == Written \o Pending \o IF flush THEN data ELSE <<>>
    IN  /\ slot1' = new \o SubSeq(slot1, Len(new) + 1, Len(slot1))
        /\ flashed' = Len(new)
        /\ buffered' = IF flush THEN <<>> ELSE data

\* flash_img_init when no upload is in progress, then the data, if there is any
Receive(data, final) ==
    IF data # <<>> THEN BufferedWrite(data, final)
    ELSE /\ UNCHANGED slot1
         /\ flashed' = Len(Written)
         /\ buffered' = Pending

\* the error path: flash_img_init failed, the write failed (with slot1 as it
\* was, or erased from there on), or boot_request_upgrade failed, after the
\* final write may have erased the mark and with the CORS header already set
HandlerError(data, final) ==
    /\ FLASH_FAILS
    /\ \/ /\ ~fw_in_progress \/ data # <<>>
          /\ slot1' \in {slot1} \cup IF data = <<>> THEN {} ELSE {Written}
          /\ Answer(FALSE)
          /\ UNCHANGED <<marked, flashed, buffered>>
       \/ /\ final
          /\ Receive(data, TRUE)
          /\ Answer(TRUE)
          /\ marked' \in {marked, FALSE}
    /\ fw_abort
    /\ clean' = FALSE
    /\ UNCHANGED <<reboot_scheduled, upgrading>>

HandlerMore(data) ==
    /\ Receive(data, FALSE)
    /\ fw_in_progress' = TRUE
    /\ UNCHANGED <<marked, reboot_scheduled, shown, clean, upgrading>>

\* (mutant) the last write does not flush the buffer
HandlerFinalUnflushed(data) ==
    /\ Receive(data, FALSE)
    /\ fw_abort
    /\ marked' = TRUE
    /\ Answer(TRUE)
    /\ reboot_scheduled' = TRUE
    /\ clean' = (clean /\ data # <<>>)
    /\ upgrading' = TRUE

\* boot_request_upgrade(BOOT_UPGRADE_TEST), the response, the delayed reboot
HandlerFinal(data) ==
    /\ Receive(data, TRUE)
    /\ fw_abort
    /\ marked' = TRUE
    /\ Answer(TRUE)
    /\ reboot_scheduled' = TRUE
    /\ clean' = (clean /\ data # <<>>)
    /\ upgrading' = TRUE

\* One call of firmware_handler for the request body.
firmware_handler ==
    /\ Up
    /\ post # NoFile
    /\ \E n \in {0, 1}, final \in BOOLEAN :
          LET data == IF n = 0 THEN <<>> ELSE << <<post, sent + 1>> >>
              end == sent + n = Length(post)
          IN  /\ sent + n <= Length(post)
              /\ (final => end) /\ (n = 0 => final)
              /\ sent' = IF final THEN 0 ELSE sent + n
              /\ post' = IF final THEN NoFile ELSE post
              /\ \/ HandlerError(data, final)
                 \/ ~final /\ HandlerMore(data)
                 \/ final /\ HandlerFinal(data)
    /\ gambled' = (gambled \/ ~confirmed)
    /\ UNCHANGED <<slot0, confirmed, phase, sameOrigin>>

\* HTTP_SERVER_TRANSACTION_ABORTED: the client goes away
TransactionAborted ==
    /\ Up
    /\ post # NoFile
    /\ post' = NoFile
    /\ sent' = 0
    /\ fw_abort
    /\ shown' = IF shown = "uploading" THEN "failed" ELSE shown
    /\ UNCHANGED <<flash, phase, flashed, buffered, reboot_scheduled,
                   sameOrigin, history>>

\* The dashboard posts a file; the server serves one request for /firmware at
\* a time.
Upload ==
    /\ Up
    /\ post = NoFile
    /\ post' \in Files
    /\ sameOrigin' \in BOOLEAN
    /\ shown' = "uploading"
    /\ sent' = 0
    /\ clean' = TRUE
    /\ upgrading' = FALSE
    /\ UNCHANGED <<flash, ram, gambled>>

Next ==
    \/ Mcuboot
    \/ Main
    \/ Confirm
    \/ fw_reboot_handler
    \/ Crash
    \/ PowerLoss
    \/ firmware_handler
    \/ TransactionAborted
    \/ Upload

Spec == Init /\ [][Next]_vars

\* The processor runs: MCUboot hands over, a broken image crashes, and a
\* working image that is booted again and again gets through main some time.
Fairness ==
    /\ WF_vars(Mcuboot)
    /\ SF_vars(Main)
    /\ SF_vars(Confirm)
    /\ WF_vars(Crash)

FairSpec == Spec /\ Fairness

-----------------------------------------------------------------------------
(* Properties *)

Pieces == Images \X (1..PIECES)

\* The states of the variables.
TypeOK ==
    /\ slot0 \in Images
    /\ slot1 \in Seq(Pieces) /\ Len(slot1) <= PIECES
    /\ phase \in {"mcuboot", "main", "confirming", "serving"}
    /\ flashed \in 0..PIECES
    /\ buffered \in Seq(Pieces) /\ Len(buffered) <= 1
    /\ post \in Files \cup {NoFile}
    /\ sent \in 0..PIECES
    /\ shown \in {"idle", "uploading", "rebooting", "failed"}
    /\ {marked, confirmed, fw_in_progress, reboot_scheduled, sameOrigin,
        clean, upgrading, gambled} \subseteq BOOLEAN

\* A request without a flash error, whose final call carries data, marks slot1
\* only with the whole posted image in it, whatever earlier requests were
\* aborted, failed or cut off by a reset.
CleanUploadIsWhole ==
    [][(upgrading' /\ ~upgrading /\ clean') => slot1' = Whole(post)]_vars

\* An image that does not reach the end of main is never made permanent, and
\* while it runs on trial slot1 holds a whole working image to go back to (the
\* test boot of BOOT_UPGRADE_TEST). This needs that no upload was handled by an
\* image that is not confirmed, because main has not come to it yet or it failed:
\* firmware_handler does not ask, and what it overwrites is then the image to go
\* back to.
BrokenImageOnTrial ==
    (slot0 \notin Working /\ ~gambled) =>
        /\ ~confirmed
        /\ ~Up
        /\ \E image \in Working : slot1 = Whole(image)

\* From every state, after resets, power failures, failed confirmations and
\* broken images, the device serves again: "the old image comes back
\* automatically".
ServesAgain == [](~gambled) => []<>(phase = "serving")

\* The dashboard announces the reboot ("is rebooting - its card returns with
\* the new version") only for a request that got slot1 marked.
RebootMessageTrue == shown = "rebooting" => upgrading

\* "POST /firmware streams the signed image into slot1 (flash_img), marks it
\* for test boot": what is marked is the whole posted image.
MarkedIsWhole == [][(upgrading' /\ ~upgrading) => slot1' = Whole(post)]_vars

=============================================================================
