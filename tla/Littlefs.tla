------------------------------ MODULE Littlefs ------------------------------
(***************************************************************************)
(* The littlefs demo (app/demos/littlefs/src/main.c): main mounts a file   *)
(* system, increments the boot count in one file, advances a byte pattern  *)
(* in a second one and unmounts, on every boot. Any file system call may   *)
(* fail and power may fail between any two calls.                          *)
(*                                                                         *)
(* What a file was given becomes durable when it is closed, all at once;   *)
(* a file with a failed write is closed without being changed (littlefs).  *)
(* fs_open creates a missing file, so that a missing file and an empty one *)
(* behave alike: both are the empty sequence here. Bytes have 8 bits; the  *)
(* length of the pattern is a parameter (TEST_FILE_SIZE).                  *)
(***************************************************************************)
EXTENDS Naturals, Sequences

CONSTANTS
    TEST_FILE_SIZE,
    WIPE_STORAGE,      \* CONFIG_APP_WIPE_STORAGE
    MAX_BOOTS,         \* bound on the boots that are counted
    MAX_FAULTS         \* bound on failed calls and power losses

ASSUME StorageAssumption ==
    /\ TEST_FILE_SIZE \in Nat \ {0}
    /\ WIPE_STORAGE \in BOOLEAN
    /\ MAX_BOOTS \in Nat
    /\ MAX_FAULTS \in Nat

Files == {"count", "pattern"}
Byte == 0..255
Blank == <<>>

VARIABLES
    stage,     \* where main is: "off", "mount", "survey", a file, "unmount" or "ended"
    handle,    \* the file handle: "closed", "open", or "out" (about to be closed)
    buffer,    \* what the open file was given since it was opened
    failed,    \* rc of the function that holds the handle is negative
    mounted,
    disk,      \* the durable contents of the files
    (* history *)
    boots,     \* boots whose count became durable
    advances,  \* boots whose pattern became durable
    faults     \* failed calls and power losses

storageRam == <<stage, handle, buffer, failed, mounted>>
storageVars == <<storageRam, disk, boots, advances, faults>>

StorageTypeOK ==
    /\ stage \in {"off", "mount", "survey", "unmount", "ended"} \cup Files
    /\ handle \in {"closed", "open", "out"}
    /\ failed \in BOOLEAN
    /\ mounted \in BOOLEAN
    /\ buffer \in Seq(Byte)
    /\ disk \in [Files -> Seq(Byte)]
    /\ <<boots, advances, faults>> \in Nat \X Nat \X Nat

StorageInit ==
    /\ stage = "off"
    /\ handle = "closed"
    /\ buffer = Blank
    /\ failed = FALSE
    /\ mounted = FALSE
    /\ disk = [f \in Files |-> Blank]
    /\ boots = 0 /\ advances = 0 /\ faults = 0

Fault == faults < MAX_FAULTS /\ faults' = faults + 1

----------------------------------------------------------------------------
(* The pattern; index i of the C array is i + 1 here. *)

init_pattern ==
    [n \in 1..TEST_FILE_SIZE |->
        IF n = TEST_FILE_SIZE THEN 170
        ELSE IF (n - 1) % 8 = 0 THEN ((n - 1) \div 8 + 1) % 256
        ELSE 85]

\* mutant: the fill byte follows the first byte after it was incremented
incr_patternLate(p) ==
    LET fill == IF (p[1] + 1) % 2 = 0 THEN 170 ELSE 85 IN
    [n \in DOMAIN p |->
        IF n = Len(p) \/ (n - 1) % 8 = 0 THEN (p[n] + 1) % 256 ELSE fill]

incr_pattern(p) ==
    LET fill == IF p[1] % 2 = 0 THEN 170 ELSE 85 IN
    [n \in DOMAIN p |->
        IF n = Len(p) \/ (n - 1) % 8 = 0 THEN (p[n] + 1) % 256 ELSE fill]

increase_count ==
    IF disk["count"] = Blank THEN <<1>> ELSE <<(disk["count"][1] + 1) % 256>>

\* A file that was there is read and incremented, an empty one gets the first pattern.
binary_file_adj ==
    IF disk["pattern"] = Blank THEN init_pattern ELSE incr_pattern(disk["pattern"])

----------------------------------------------------------------------------
(* main *)

PowerOn ==
    /\ stage = "off"
    /\ boots < MAX_BOOTS
    /\ stage' = "mount"
    /\ UNCHANGED <<handle, buffer, failed, mounted, disk, boots, advances, faults>>

\* Erase the partition if so configured, then mount; main ends if that fails.
littlefs_mount ==
    /\ stage = "mount"
    /\ disk' = IF WIPE_STORAGE THEN [f \in Files |-> Blank] ELSE disk
    /\ \/ stage' = "survey" /\ mounted' = TRUE /\ UNCHANGED faults
       \/ stage' = "ended" /\ UNCHANGED mounted /\ Fault
    /\ boots' = IF WIPE_STORAGE THEN 0 ELSE boots
    /\ advances' = IF WIPE_STORAGE THEN 0 ELSE advances
    /\ UNCHANGED <<handle, buffer, failed>>

\* fs_statvfs and lsdir, which closes the directory whatever happened
lsdir ==
    /\ stage = "survey"
    /\ \/ stage' = "count" /\ UNCHANGED faults
       \/ stage' = "unmount" /\ Fault
    /\ UNCHANGED <<handle, buffer, failed, mounted, disk, boots, advances>>

OpenFile(f) ==
    /\ stage = f /\ handle = "closed"
    /\ \/ handle' = "open" /\ UNCHANGED <<stage, faults>>
       \/ stage' = "unmount" /\ UNCHANGED handle /\ Fault
    /\ UNCHANGED <<buffer, failed, mounted, disk, boots, advances>>

Rewritten(f) == IF f = "count" THEN increase_count ELSE binary_file_adj

\* mutant: an error returns at once instead of going to out
UpdateFileReturns(f) ==
    /\ stage = f /\ handle = "open"
    /\ \/ handle' = "out" /\ buffer' = Rewritten(f) /\ UNCHANGED <<failed, faults, stage>>
       \/ stage' = "unmount" /\ UNCHANGED <<handle, failed, buffer>> /\ Fault
    /\ UNCHANGED <<mounted, disk, boots, advances>>

\* Read, seek and write; an error goes to out with nothing to commit.
UpdateFile(f) ==
    /\ stage = f /\ handle = "open"
    /\ handle' = "out"
    /\ \/ buffer' = Rewritten(f) /\ UNCHANGED <<failed, faults>>
       \/ failed' = TRUE /\ UNCHANGED buffer /\ Fault
    /\ UNCHANGED <<stage, mounted, disk, boots, advances>>

Commit(f) ==
    /\ disk' = [disk EXCEPT ![f] = buffer]
    /\ boots' = IF f = "count" THEN boots + 1 ELSE boots
    /\ advances' = IF f = "pattern" THEN advances + 1 ELSE advances

\* mutant: main goes on to the pattern although the count failed
NextStageAnyway(f, error) == IF f = "count" THEN "pattern" ELSE "unmount"

\* The first error skips to the end of main.
NextStage(f, error) == IF f = "count" /\ ~error THEN "pattern" ELSE "unmount"

\* A close that fails may or may not have made the file durable.
CloseFile(f) ==
    /\ stage = f /\ handle = "out"
    /\ handle' = "closed" /\ buffer' = Blank /\ failed' = FALSE
    /\ \/ /\ IF failed THEN UNCHANGED <<disk, boots, advances>> ELSE Commit(f)
          /\ stage' = NextStage(f, failed)
          /\ UNCHANGED faults
       \/ /\ \/ ~failed /\ Commit(f)
             \/ UNCHANGED <<disk, boots, advances>>
          /\ stage' = NextStage(f, TRUE)
          /\ Fault
    /\ UNCHANGED mounted

Unmount ==
    /\ stage = "unmount"
    /\ stage' = "ended"
    /\ \/ mounted' = FALSE /\ UNCHANGED faults
       \/ UNCHANGED mounted /\ Fault
    /\ UNCHANGED <<handle, buffer, failed, disk, boots, advances>>

\* Switched off after main has ended, or in the middle of it.
PowerOff ==
    /\ stage # "off"
    /\ stage' = "off" /\ handle' = "closed" /\ buffer' = Blank
    /\ failed' = FALSE /\ mounted' = FALSE
    /\ IF stage = "ended" THEN UNCHANGED faults ELSE Fault
    /\ UNCHANGED <<disk, boots, advances>>

StorageNext ==
    \/ PowerOn
    \/ littlefs_mount
    \/ lsdir
    \/ \E f \in Files : OpenFile(f) \/ UpdateFile(f) \/ CloseFile(f)
    \/ Unmount
    \/ PowerOff

StorageSpec == StorageInit /\ [][StorageNext]_storageVars

----------------------------------------------------------------------------
(* The pattern after n advances, from n alone. *)
Pattern(n) ==
    [k \in 1..TEST_FILE_SIZE |->
        IF k = TEST_FILE_SIZE THEN (169 + n) % 256
        ELSE IF (k - 1) % 8 = 0 THEN ((k - 1) \div 8 + n) % 256
        ELSE IF n = 1 \/ n % 2 = 0 THEN 85 ELSE 170]

(***************************************************************************)
(* The files hold what the boots that reached them have put there: the     *)
(* count modulo 256 and the pattern of that many increments, whatever was  *)
(* interrupted in between (littlefs_increase_infile_value, incr_pattern).  *)
(***************************************************************************)
FilesFollowBoots ==
    /\ disk["count"] = IF boots = 0 THEN Blank ELSE <<boots % 256>>
    /\ disk["pattern"] = IF advances = 0 THEN Blank ELSE Pattern(advances)

(***************************************************************************)
(* The pattern is never ahead of the count, and every boot that it lacks   *)
(* is one in which a call or the power failed: main takes the two files in *)
(* this order and stops at the first error.                                *)
(***************************************************************************)
PatternTrailsCount ==
    /\ advances <= boots
    /\ stage \in {"ended", "off"} => boots - advances <= faults

(***************************************************************************)
(* No file is open when main unmounts the file system or has returned, and *)
(* none is opened while it is not mounted: every error path of main and of *)
(* the two file functions passes its out label.                            *)
(***************************************************************************)
NothingLeftOpen ==
    /\ stage \in {"unmount", "ended"} => handle = "closed"
    /\ handle # "closed" => mounted

=============================================================================
