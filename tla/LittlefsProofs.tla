--------------------------- MODULE LittlefsProofs ---------------------------
(***************************************************************************)
(* Proofs about the littlefs demo: what the two files hold after any       *)
(* number of boots, interrupted or not, how far they can drift apart, and  *)
(* that no file stays open, for every size of the pattern.                 *)
(***************************************************************************)
EXTENDS Littlefs, TLAPS

----------------------------------------------------------------------------
(* The pattern *)

\* Counting up a byte commutes with its wrap.
LEMMA ByteSucc == \A a \in Nat : ((a % 256) + 1) % 256 = (a + 1) % 256
  OBVIOUS

\* The same with an offset: a byte of the pattern after one more boot.
LEMMA BytePlus == \A a, b \in Nat : (((a + b) % 256) + 1) % 256 = (a + (b + 1)) % 256
  OBVIOUS

\* The wrap keeps odd and even apart.
LEMMA ByteParity == \A a \in Nat : (a % 256) % 2 = a % 2
  OBVIOUS

\* A remainder modulo 256 is a byte.
LEMMA ModByte == \A a \in Nat : a % 256 \in Byte
  BY DEF Byte

\* The pattern is a file of TEST_FILE_SIZE bytes.
LEMMA PatternType ==
    ASSUME NEW n \in Nat
    PROVE  Pattern(n) \in Seq(Byte) /\ Len(Pattern(n)) = TEST_FILE_SIZE
  <1>1. \A k \in 1..TEST_FILE_SIZE : Pattern(n)[k] \in Byte
    <2> SUFFICES ASSUME NEW k \in 1..TEST_FILE_SIZE PROVE Pattern(n)[k] \in Byte  OBVIOUS
    <2>1. (169 + n) % 256 \in Byte  BY ModByte
    <2>2. ((k - 1) \div 8 + n) % 256 \in Byte
      <3>1. (k - 1) \div 8 \in Nat  BY StorageAssumption
      <3> QED  BY <3>1, ModByte
    <2> QED  BY <2>1, <2>2 DEF Pattern, Byte
  <1> QED  BY <1>1, StorageAssumption DEF Pattern

\* A new file gets the first pattern.
LEMMA InitPattern == init_pattern = Pattern(1)
  BY StorageAssumption DEF init_pattern, Pattern

(***************************************************************************)
(* incr_pattern turns the pattern of n boots into the one of n + 1: every  *)
(* eighth byte and the last one are incremented, and the fill byte follows *)
(* the parity of the first byte as it was before.                          *)
(***************************************************************************)
LEMMA IncrPattern ==
    ASSUME NEW n \in Nat \ {0}
    PROVE  incr_pattern(Pattern(n)) = Pattern(n + 1)
  <1> DEFINE p == Pattern(n)
             fill == IF p[1] % 2 = 0 THEN 170 ELSE 85
  <1>1. DOMAIN p = 1..TEST_FILE_SIZE /\ Len(p) = TEST_FILE_SIZE
    BY PatternType DEF Pattern
  <1>2. ASSUME NEW k \in 1..TEST_FILE_SIZE
        PROVE  (IF k = Len(p) \/ (k - 1) % 8 = 0 THEN (p[k] + 1) % 256 ELSE fill)
               = Pattern(n + 1)[k]
    <2>1. CASE k = TEST_FILE_SIZE
      <3>1. p[k] = (169 + n) % 256 /\ Pattern(n + 1)[k] = (169 + (n + 1)) % 256
        BY <2>1 DEF Pattern
      <3> QED  BY <1>1, <2>1, <3>1, BytePlus
    <2>2. CASE k # TEST_FILE_SIZE /\ (k - 1) % 8 = 0
      <3> DEFINE q == (k - 1) \div 8
      <3>1. p[k] = (q + n) % 256 /\ Pattern(n + 1)[k] = (q + (n + 1)) % 256
        BY <2>2 DEF Pattern
      <3>2. q \in Nat  BY StorageAssumption
      <3> QED  BY <1>1, <2>2, <3>1, <3>2, BytePlus
    <2>3. CASE k # TEST_FILE_SIZE /\ (k - 1) % 8 # 0
      <3>1. TEST_FILE_SIZE # 1 /\ 1 \in 1..TEST_FILE_SIZE  BY <2>3, StorageAssumption
      <3>2. p[1] = n % 256  BY <3>1 DEF Pattern
      <3>3. p[1] % 2 = n % 2  BY <3>2, ByteParity
      <3>4. Pattern(n + 1)[k] = IF (n + 1) % 2 = 0 THEN 85 ELSE 170
        BY <2>3 DEF Pattern
      <3>5. n % 2 = 0 <=> (n + 1) % 2 # 0  OBVIOUS
      <3> QED  BY <1>1, <2>3, <3>3, <3>4, <3>5
    <2> QED  BY <2>1, <2>2, <2>3
  <1>3. incr_pattern(p) = [k \in 1..TEST_FILE_SIZE |->
            IF k = Len(p) \/ (k - 1) % 8 = 0 THEN (p[k] + 1) % 256 ELSE fill]
    BY <1>1 DEF incr_pattern
  <1>4. Pattern(n + 1) = [k \in 1..TEST_FILE_SIZE |-> Pattern(n + 1)[k]]
    BY DEF Pattern
  <1> HIDE DEF p, fill
  <1>5. incr_pattern(p) = [k \in 1..TEST_FILE_SIZE |-> Pattern(n + 1)[k]]
    BY <1>2, <1>3
  <1> QED  BY <1>4, <1>5 DEF p

----------------------------------------------------------------------------
(* The inductive invariant *)

\* What is about to be closed is the next content of the file it is for.
BufferIsNext ==
    handle = "out" /\ ~failed => stage \in Files /\ buffer = Rewritten(stage)

\* A file is open only between its open and its close, on a mounted file system.
OpenOnlyMounted ==
    /\ stage \in {"survey", "unmount"} \cup Files => mounted
    /\ handle # "closed" => stage \in Files

\* The count is ahead of the pattern by the faults there were, and by the
\* boot under way once its count is durable.
DriftIsAccounted ==
    /\ advances <= boots
    /\ stage = "pattern" => advances < boots
    /\ boots - advances <= faults + (IF stage = "pattern" /\ ~failed THEN 1 ELSE 0)

StorageIInv ==
    /\ StorageTypeOK
    /\ FilesFollowBoots
    /\ BufferIsNext
    /\ OpenOnlyMounted
    /\ DriftIsAccounted

\* What a boot writes is the contents that FilesFollowBoots expects of the
\* next one, and a file of bytes.
LEMMA RewrittenFollows ==
    ASSUME StorageIInv
    PROVE  /\ Rewritten("count") = <<(boots + 1) % 256>>
           /\ Rewritten("pattern") = Pattern(advances + 1)
           /\ \A f \in Files : Rewritten(f) \in Seq(Byte)
  <1> USE DEF StorageIInv, StorageTypeOK, FilesFollowBoots, Blank
  <1>1. increase_count = <<(boots + 1) % 256>>
    <2>1. CASE boots = 0  BY <2>1 DEF increase_count
    <2>2. CASE boots # 0
      <3>1. disk["count"] # Blank /\ disk["count"][1] = boots % 256  BY <2>2
      <3> QED  BY <3>1, ByteSucc DEF increase_count
    <2> QED  BY <2>1, <2>2
  <1>2. binary_file_adj = Pattern(advances + 1)
    <2>1. CASE advances = 0  BY <2>1, InitPattern DEF binary_file_adj
    <2>2. CASE advances # 0
      <3>1. advances \in Nat \ {0} /\ disk["pattern"] = Pattern(advances)  BY <2>2
      <3>2. disk["pattern"] # Blank  BY <3>1, PatternType, StorageAssumption
      <3> QED  BY <3>1, <3>2, IncrPattern DEF binary_file_adj
    <2> QED  BY <2>1, <2>2
  <1>3. <<(boots + 1) % 256>> \in Seq(Byte)  BY ModByte
  <1>4. Pattern(advances + 1) \in Seq(Byte)  BY PatternType
  <1> QED  BY <1>1, <1>2, <1>3, <1>4 DEF Rewritten, Files

\* Closing a file without an error makes the next contents durable.
LEMMA CommitFollows ==
    ASSUME StorageIInv, NEW f \in Files, stage = f, handle = "out", ~failed, Commit(f)
    PROVE  /\ FilesFollowBoots'
           /\ disk' \in [Files -> Seq(Byte)]
           /\ boots' \in Nat /\ advances' \in Nat
  <1>1. buffer = Rewritten(f)  BY DEF StorageIInv, BufferIsNext
  <1>2. disk' = [disk EXCEPT ![f] = Rewritten(f)]  BY <1>1 DEF Commit
  <1>3. Rewritten(f) \in Seq(Byte)  BY RewrittenFollows
  <1>4. disk \in [Files -> Seq(Byte)] /\ boots \in Nat /\ advances \in Nat
    BY DEF StorageIInv, StorageTypeOK
  <1>5. CASE f = "count"
    <2>1. boots' = boots + 1 /\ advances' = advances  BY <1>5 DEF Commit
    <2>2. disk'["count"] = <<(boots + 1) % 256>> /\ disk'["pattern"] = disk["pattern"]
      BY <1>2, <1>4, <1>5, RewrittenFollows DEF Files
    <2>3. boots' # 0 /\ disk'["count"] = <<boots' % 256>>  BY <1>4, <2>1, <2>2
    <2>4. disk'["pattern"] = IF advances' = 0 THEN Blank ELSE Pattern(advances')
      BY <2>1, <2>2 DEF FilesFollowBoots, StorageIInv
    <2>5. FilesFollowBoots'  BY <2>3, <2>4 DEF FilesFollowBoots
    <2>6. disk' \in [Files -> Seq(Byte)]  BY <1>2, <1>3, <1>4
    <2> QED  BY <1>4, <2>1, <2>5, <2>6
  <1>6. CASE f = "pattern"
    <2>1. boots' = boots /\ advances' = advances + 1  BY <1>6 DEF Commit
    <2>2. disk'["pattern"] = Pattern(advances + 1) /\ disk'["count"] = disk["count"]
      BY <1>2, <1>4, <1>6, RewrittenFollows DEF Files
    <2>3. advances' # 0 /\ disk'["pattern"] = Pattern(advances')  BY <1>4, <2>1, <2>2
    <2>4. disk'["count"] = IF boots' = 0 THEN Blank ELSE <<boots' % 256>>
      BY <2>1, <2>2 DEF FilesFollowBoots, StorageIInv
    <2>5. FilesFollowBoots'  BY <2>3, <2>4 DEF FilesFollowBoots
    <2>6. disk' \in [Files -> Seq(Byte)]  BY <1>2, <1>3, <1>4
    <2> QED  BY <1>4, <2>1, <2>5, <2>6
  <1> QED  BY <1>5, <1>6 DEF Files

\* Steps that leave the disk and the history alone keep FilesFollowBoots.
LEMMA SameFiles ==
    ASSUME FilesFollowBoots, UNCHANGED <<disk, boots, advances>>
    PROVE  FilesFollowBoots'
  BY DEF FilesFollowBoots, Pattern

\* An erased disk is that of a device that never booted.
LEMMA NoFiles ==
    ASSUME disk' = [f \in Files |-> Blank], boots' = 0, advances' = 0
    PROVE  FilesFollowBoots'
  BY DEF FilesFollowBoots, Files

\* The steps without a file handle: the files stay as they are, or are erased.
LEMMA StorageFrameStep ==
    ASSUME StorageIInv, PowerOn \/ littlefs_mount \/ lsdir \/ Unmount \/ PowerOff
    PROVE  StorageIInv'
  <1> USE StorageAssumption DEF StorageIInv, StorageTypeOK, BufferIsNext,
        OpenOnlyMounted, DriftIsAccounted, Fault, Files, Blank
  <1>1. CASE PowerOn  BY <1>1, SameFiles DEF PowerOn
  <1>2. CASE littlefs_mount
    <2>1. FilesFollowBoots'
      BY <1>2, SameFiles, NoFiles DEF littlefs_mount
    <2>2. mounted' \in BOOLEAN /\ failed' \in BOOLEAN  BY <1>2, Zenon DEF littlefs_mount
    <2>3. handle' = "closed" /\ handle = "closed"  BY <1>2 DEF littlefs_mount
    <2>4. StorageTypeOK'
      <3>1. disk' \in [Files -> Seq(Byte)]  BY <1>2 DEF littlefs_mount
      <3>2. {boots, advances, faults}' \subseteq Nat  BY <1>2 DEF littlefs_mount
      <3>3. stage' \in {"survey", "ended"} /\ buffer' = buffer  BY <1>2 DEF littlefs_mount
      <3> QED  BY <2>2, <2>3, <3>1, <3>2, <3>3
    <2>5. DriftIsAccounted'  BY <1>2 DEF littlefs_mount
    <2>6. OpenOnlyMounted'  BY <1>2, <2>3 DEF littlefs_mount
    <2> QED  BY <2>1, <2>3, <2>4, <2>5, <2>6
  <1>3. CASE lsdir  BY <1>3, SameFiles DEF lsdir
  <1>4. CASE Unmount
    <2>1. mounted' \in BOOLEAN /\ failed' \in BOOLEAN  BY <1>4, Zenon DEF Unmount
    <2>2. FilesFollowBoots'  BY <1>4, SameFiles DEF Unmount
    <2>3. faults' = faults \/ faults' = faults + 1  BY <1>4, Zenon DEF Unmount
    <2>4. UNCHANGED <<handle, buffer, failed, disk, boots, advances>> /\ stage = "unmount"
          /\ stage' = "ended"
      BY <1>4 DEF Unmount
    <2>5. StorageTypeOK'  BY <2>1, <2>3, <2>4
    <2>6. DriftIsAccounted'  BY <2>3, <2>4
    <2> QED  BY <2>2, <2>4, <2>5, <2>6
  <1>5. CASE PowerOff
    <2>1. mounted' \in BOOLEAN /\ failed' \in BOOLEAN  BY <1>5, Zenon DEF PowerOff
    <2>2. boots - advances <= faults'  BY <1>5 DEF PowerOff
    <2>3. StorageTypeOK'  BY <1>5, <2>1 DEF PowerOff
    <2>4. FilesFollowBoots'  BY <1>5, SameFiles DEF PowerOff
    <2>5. DriftIsAccounted'  BY <1>5, <2>2, <2>3 DEF PowerOff
    <2> QED  BY <1>5, <2>3, <2>4, <2>5 DEF PowerOff
  <1> QED  BY <1>1, <1>2, <1>3, <1>4, <1>5

\* The steps with a file handle.
LEMMA StorageFileStep ==
    ASSUME StorageIInv, NEW f \in Files, OpenFile(f) \/ UpdateFile(f) \/ CloseFile(f)
    PROVE  StorageIInv'
  <1>1. CASE OpenFile(f)
    BY <1>1, SameFiles DEF OpenFile, StorageIInv, StorageTypeOK, BufferIsNext,
        OpenOnlyMounted, DriftIsAccounted, Fault, Files
  <1>2. CASE UpdateFile(f)
    <2>1. FilesFollowBoots'  BY <1>2, SameFiles DEF UpdateFile, StorageIInv
    <2>2. (~failed' => buffer' = Rewritten(f)) /\ buffer' \in Seq(Byte)
      BY <1>2, RewrittenFollows DEF UpdateFile, StorageIInv, StorageTypeOK, BufferIsNext
    <2>3. Rewritten(stage)' = Rewritten(f)
      BY <1>2 DEF UpdateFile, Rewritten, increase_count, binary_file_adj, incr_pattern, init_pattern
    <2>4. BufferIsNext'  BY <1>2, <2>2, <2>3 DEF UpdateFile, BufferIsNext
    <2>5. StorageTypeOK'
      <3>1. failed' \in BOOLEAN  BY <1>2, Zenon DEF UpdateFile, StorageIInv, StorageTypeOK
      <3> QED  BY <1>2, <2>2, <3>1 DEF UpdateFile, StorageIInv, StorageTypeOK, Fault
    <2>6. OpenOnlyMounted' /\ DriftIsAccounted'
      BY <1>2 DEF UpdateFile, StorageIInv, StorageTypeOK, OpenOnlyMounted, DriftIsAccounted, Fault
    <2> QED  BY <2>1, <2>4, <2>5, <2>6 DEF StorageIInv
  <1>3. CASE CloseFile(f)
    <2>1. handle' = "closed" /\ buffer' = Blank /\ failed' = FALSE /\ mounted' = mounted
          /\ mounted \in BOOLEAN /\ mounted /\ stage = f /\ handle = "out"
      BY <1>3 DEF CloseFile, StorageIInv, StorageTypeOK, OpenOnlyMounted, Files
    <2>2. stage' \in {"pattern", "unmount"}  BY <1>3 DEF CloseFile, NextStage
    <2>3. \/ ~failed /\ Commit(f)
          \/ UNCHANGED <<disk, boots, advances>>
      BY <1>3 DEF CloseFile
    <2>4. /\ FilesFollowBoots'
          /\ disk' \in [Files -> Seq(Byte)]
          /\ boots' \in Nat /\ advances' \in Nat
      BY <2>1, <2>3, CommitFollows, SameFiles DEF StorageIInv, StorageTypeOK
    <2>5. StorageTypeOK'
      <3>1. failed' \in BOOLEAN /\ mounted' \in BOOLEAN  BY <2>1, Zenon
      <3>2. faults' \in Nat
        <4>1. faults' = faults \/ faults' = faults + 1  BY <1>3, Zenon DEF CloseFile, Fault
        <4> QED  BY <4>1 DEF StorageIInv, StorageTypeOK
      <3>3. handle' \in {"closed", "open", "out"} /\ buffer' \in Seq(Byte)  BY <2>1 DEF Blank
      <3>4. stage' \in {"off", "mount", "survey", "unmount", "ended"} \cup Files
        BY <2>2 DEF Files
      <3> QED  BY <2>4, <3>1, <3>2, <3>3, <3>4 DEF StorageTypeOK
    <2>6. BufferIsNext' /\ OpenOnlyMounted'
      BY <2>1, <2>2 DEF BufferIsNext, OpenOnlyMounted, Files
    <2>7. DriftIsAccounted'
      BY <1>3, <2>1 DEF CloseFile, Commit, NextStage, Fault, StorageIInv, StorageTypeOK,
          DriftIsAccounted, Files
    <2> QED  BY <2>4, <2>5, <2>6, <2>7 DEF StorageIInv
  <1> QED  BY <1>1, <1>2, <1>3

\* Every step of main, of a failing call and of the power keeps the invariant.
LEMMA StorageStep ==
    ASSUME StorageIInv, [StorageNext]_storageVars
    PROVE  StorageIInv'
  <1>1. CASE UNCHANGED storageVars
    BY <1>1, SameFiles DEF storageVars, storageRam, StorageIInv, StorageTypeOK,
        BufferIsNext, OpenOnlyMounted, DriftIsAccounted,
        Rewritten, increase_count, binary_file_adj, incr_pattern, init_pattern
  <1>2. CASE StorageNext  BY <1>2, StorageFrameStep, StorageFileStep DEF StorageNext
  <1> QED  BY <1>1, <1>2

\* The invariant holds before the first boot.
LEMMA StorageStart == StorageInit => StorageIInv
  <1> SUFFICES ASSUME StorageInit PROVE StorageIInv  OBVIOUS
  <1>1. mounted \in BOOLEAN /\ failed \in BOOLEAN  BY Zenon DEF StorageInit
  <1> QED  BY <1>1, StorageAssumption DEF StorageInit, StorageIInv, StorageTypeOK,
        FilesFollowBoots, BufferIsNext, OpenOnlyMounted, DriftIsAccounted, Files, Blank

(***************************************************************************)
(* The inductive invariant of the littlefs demo, for every length of the   *)
(* pattern, with and without erasing, for every number of boots, failed    *)
(* calls and power losses.                                                 *)
(***************************************************************************)
THEOREM StorageInvariant == StorageSpec => []StorageIInv
  <1>1. StorageIInv /\ [StorageNext]_storageVars => StorageIInv'  BY StorageStep
  <1> QED  BY <1>1, StorageStart, PTL DEF StorageSpec

(***************************************************************************)
(* The count and the pattern are those of the boots that reached them,     *)
(* whatever failed and whenever the power went.                            *)
(***************************************************************************)
THEOREM FilesAreFollowed == StorageSpec => []FilesFollowBoots
  BY StorageInvariant, PTL DEF StorageIInv

(***************************************************************************)
(* The pattern is never ahead of the count, and behind it by no more than  *)
(* the faults there were.                                                  *)
(***************************************************************************)
THEOREM PatternIsBehind == StorageSpec => []PatternTrailsCount
  <1>1. StorageIInv => PatternTrailsCount
    BY DEF StorageIInv, StorageTypeOK, DriftIsAccounted, PatternTrailsCount
  <1> QED  BY <1>1, StorageInvariant, PTL

(***************************************************************************)
(* Every path of main closes what it opened before it unmounts.            *)
(***************************************************************************)
THEOREM FilesAreClosed == StorageSpec => []NothingLeftOpen
  <1>1. StorageIInv => NothingLeftOpen
    BY DEF StorageIInv, StorageTypeOK, OpenOnlyMounted, NothingLeftOpen, Files
  <1> QED  BY <1>1, StorageInvariant, PTL

=============================================================================
