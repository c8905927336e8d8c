---------------------------- MODULE CanGenerator ----------------------------
(***************************************************************************)
(* The FRDM CAN traffic generator                                          *)
(* (app/demos/frdm_can_traffic_generator/src/main.c).                      *)
(*                                                                         *)
(* Two threads and one interrupt share a counting semaphore and a streak   *)
(* of failures:                                                            *)
(*   - the main thread sends a set of frames every period and restarts the *)
(*     controller after a streak of failures (maybe_auto_recover);         *)
(*   - the shell thread runs the can_gen commands: start, stop, burst and  *)
(*     restart;                                                            *)
(*   - the transmit interrupt completes queued frames (tx_callback).       *)
(*                                                                         *)
(* Kept: every step of send_frame, send_demo_frames, reset_tx_semaphore    *)
(* and restart_can_controller that another actor can see, the load and the *)
(* store of tx_fail_streak++ as two steps of a thread (an interrupt or the *)
(* other thread may run between them), and the scheduling: main runs at a  *)
(* higher priority than the shell and gives up the processor only when it  *)
(* sleeps or waits inside can_stop or can_start.                           *)
(* Abstracted: frame contents, the statistics counters that are only       *)
(* printed, the burst count (any number of sets), and time, of which only  *)
(* "the back-off is over" is left.                                         *)
(***************************************************************************)
EXTENDS Integers

CONSTANTS
    TX_QUEUE_DEPTH,          \* limit of tx_queue_sem
    RECOVERY_FAILURE_LIMIT,  \* streak that triggers the auto-recovery
    MAILBOXES,               \* transmit mailboxes of the controller (driver)
    SET_SIZE                 \* frames of one set: heartbeat, status, sensor

ASSUME ConstantsAssumption ==
    /\ TX_QUEUE_DEPTH \in Nat \ {0}
    /\ RECOVERY_FAILURE_LIMIT \in Nat \ {0}
    /\ MAILBOXES \in Nat \ {0}
    /\ SET_SIZE \in Nat \ {0}

VARIABLES
    pc,                 \* where each thread is
    frame,              \* the frame of the set each thread is sending
    reg,                \* a thread's register holding tx_fail_streak
    gives,              \* semaphore gives left in reset_tx_semaphore
    permits,            \* the count of tx_queue_sem
    inflight,           \* frames accepted by can_send and not completed
    started,            \* the controller is started
    acking,             \* some node on the bus acknowledges frames
    generator_enabled,
    was_enabled,        \* local of cmd_can_gen_restart
    tx_fail_streak,     \* saturated at RECOVERY_FAILURE_LIMIT
    backoff,            \* k_uptime_get() < next_auto_recovery_ms
    failures            \* history: failures since the last success or restart

vars == <<pc, frame, reg, gives, permits, inflight, started, acking,
          generator_enabled, was_enabled, tx_fail_streak, backoff, failures>>

\* What one thread's call of send_frame may leave alone.
config == <<acking, generator_enabled, was_enabled, backoff>>

Threads == {"main", "shell"}

PCs == {"boot", "exited", "sleep", "take", "send", "busy_load", "busy_store",
        "fail_load", "fail_store", "giveback", "check", "stop", "reset",
        "give", "start", "clear", "restarted", "idle", "burst"}

AtMost(n, bound) == IF n <= bound THEN n ELSE bound

\* n failures counted; the streak is only ever compared with the limit
Bump(streak, n) == AtMost(streak + n, RECOVERY_FAILURE_LIMIT)

\* (mutant) a give that ignores the semaphore's limit
GiveUnlimited(count, n) == count + n

\* n times k_sem_give: the count never passes the semaphore's limit
Give(count, n) == AtMost(count + n, TX_QUEUE_DEPTH)

Init ==
    /\ pc = [t \in Threads |-> IF t = "main" THEN "boot" ELSE "idle"]
    /\ frame = [t \in Threads |-> 1]
    /\ reg = [t \in Threads |-> 0]
    /\ gives = [t \in Threads |-> 0]
    /\ permits = TX_QUEUE_DEPTH
    /\ inflight = 0
    /\ started = FALSE
    /\ acking \in BOOLEAN
    /\ generator_enabled = TRUE
    /\ was_enabled = TRUE
    /\ tx_fail_streak = 0
    /\ backoff = FALSE
    /\ failures = 0

\* Zephyr schedules the shell only while main waits.
Runs(t) ==
    t = "shell" => pc["main"] \in {"boot", "sleep", "stop", "start", "exited"}

At(t, here) == Runs(t) /\ pc[t] = here

Goto(t, there) == pc' = [pc EXCEPT ![t] = there]

-----------------------------------------------------------------------------
(* send_frame and send_demo_frames, on behalf of thread t *)

\* The set is complete: main sleeps for a period, a burst for 10 ms.
AfterSet(t) == IF t = "main" THEN "sleep" ELSE "burst"

\* A frame of the set failed: main considers a restart, a burst gives up.
AfterFailure(t) == IF t = "main" THEN "check" ELSE "idle"

BeginSet(t) ==
    /\ Goto(t, "take")
    /\ frame' = [frame EXCEPT ![t] = 1]

\* k_sem_take(&tx_queue_sem, K_NO_WAIT) succeeds
SemTake(t) ==
    /\ At(t, "take")
    /\ permits > 0
    /\ permits' = permits - 1
    /\ Goto(t, "send")
    /\ UNCHANGED <<config, frame, reg, gives, inflight, started,
                   tx_fail_streak, failures>>

\* (mutant) a full queue is not counted as a failure
SemBusyUncounted(t) ==
    /\ At(t, "take")
    /\ permits = 0
    /\ Goto(t, AfterFailure(t))
    /\ UNCHANGED <<config, frame, reg, gives, permits, inflight, started,
                   tx_fail_streak, failures>>

\* ... or fails: tx_busy++
SemBusy(t) ==
    /\ At(t, "take")
    /\ permits = 0
    /\ failures' = Bump(failures, 1)
    /\ Goto(t, "busy_load")
    /\ UNCHANGED <<config, frame, reg, gives, permits, inflight, started,
                   tx_fail_streak>>

\* can_send accepts the frame into a mailbox; on to the next frame of the set
CanSend(t) ==
    /\ At(t, "send")
    /\ started
    /\ inflight < MAILBOXES
    /\ inflight' = inflight + 1
    /\ IF frame[t] < SET_SIZE
       THEN /\ Goto(t, "take")
            /\ frame' = [frame EXCEPT ![t] = @ + 1]
       ELSE /\ Goto(t, AfterSet(t))
            /\ frame' = [frame EXCEPT ![t] = 1]
    /\ UNCHANGED <<config, reg, gives, permits, started, tx_fail_streak,
                   failures>>

\* (mutant) a refused frame returns its permit but is not counted
CanSendErrorUncounted(t) ==
    /\ At(t, "send")
    /\ Goto(t, "giveback")
    /\ UNCHANGED <<config, frame, reg, gives, permits, inflight, started,
                   tx_fail_streak, failures>>

\* can_send fails: the controller is stopped, off the bus or has no mailbox free
CanSendError(t) ==
    /\ At(t, "send")
    /\ failures' = Bump(failures, 1)
    /\ Goto(t, "fail_load")
    /\ UNCHANGED <<config, frame, reg, gives, permits, inflight, started,
                   tx_fail_streak>>

\* tx_fail_streak++ by a thread: the load ...
LoadStreak(t) ==
    /\ \/ At(t, "busy_load") /\ Goto(t, "busy_store")
       \/ At(t, "fail_load") /\ Goto(t, "fail_store")
    /\ reg' = [reg EXCEPT ![t] = tx_fail_streak]
    /\ UNCHANGED <<config, frame, gives, permits, inflight, started,
                   tx_fail_streak, failures>>

\* ... and the store of what was loaded, plus one
StoreStreak(t) ==
    /\ \/ At(t, "busy_store") /\ Goto(t, AfterFailure(t))
       \/ At(t, "fail_store") /\ Goto(t, "giveback")
    /\ tx_fail_streak' = Bump(reg[t], 1)
    /\ reg' = [reg EXCEPT ![t] = 0]
    /\ UNCHANGED <<config, frame, gives, permits, inflight, started, failures>>

\* (mutant) the error path forgets k_sem_give
GiveBackForgotten(t) ==
    /\ At(t, "giveback")
    /\ Goto(t, AfterFailure(t))
    /\ UNCHANGED <<config, frame, reg, gives, permits, inflight, started,
                   tx_fail_streak, failures>>

\* the permit of a refused frame goes back
GiveBack(t) ==
    /\ At(t, "giveback")
    /\ permits' = Give(permits, 1)
    /\ Goto(t, AfterFailure(t))
    /\ UNCHANGED <<config, frame, reg, gives, inflight, started,
                   tx_fail_streak, failures>>

SendStep(t) ==
    \/ SemTake(t)
    \/ SemBusy(t)
    \/ CanSend(t)
    \/ CanSendError(t)
    \/ LoadStreak(t)
    \/ StoreStreak(t)
    \/ GiveBack(t)

-----------------------------------------------------------------------------
(* restart_can_controller and reset_tx_semaphore, on behalf of thread t *)

\* (mutant) -EALREADY of a controller that is stopped already is an error
CanStopAlreadyFails(t) ==
    /\ At(t, "stop")
    /\ inflight' = 0
    /\ started' = FALSE
    /\ permits' = Give(permits, inflight)
    /\ Goto(t, IF started THEN "reset" ELSE "restarted")
    /\ UNCHANGED <<config, frame, reg, gives, tx_fail_streak, failures>>

\* can_stop: each frame still queued is either reported to tx_callback with an
\* error or forgotten by the driver; -EALREADY on a stopped controller is fine
CanStop(t) ==
    /\ At(t, "stop")
    /\ \E reported \in 0..inflight :
          /\ permits' = Give(permits, reported)
          /\ tx_fail_streak' = Bump(tx_fail_streak, reported)
          /\ failures' = Bump(failures, reported)
    /\ inflight' = 0
    /\ started' = FALSE
    /\ Goto(t, "reset")
    /\ UNCHANGED <<config, frame, reg, gives>>

\* any other error of can_stop gives the restart up
CanStopError(t) ==
    /\ At(t, "stop")
    /\ started
    /\ Goto(t, "restarted")
    /\ UNCHANGED <<config, frame, reg, gives, permits, inflight, started,
                   tx_fail_streak, failures>>

\* (mutant) the refill loop runs one round short
SemResetShort(t) ==
    /\ At(t, "reset")
    /\ permits' = 0
    /\ gives' = [gives EXCEPT ![t] = TX_QUEUE_DEPTH - 1]
    /\ Goto(t, "give")
    /\ UNCHANGED <<config, frame, reg, inflight, started, tx_fail_streak,
                   failures>>

\* k_sem_reset(&tx_queue_sem)
SemReset(t) ==
    /\ At(t, "reset")
    /\ permits' = 0
    /\ gives' = [gives EXCEPT ![t] = TX_QUEUE_DEPTH]
    /\ Goto(t, "give")
    /\ UNCHANGED <<config, frame, reg, inflight, started, tx_fail_streak,
                   failures>>

\* one round of the loop that fills the semaphore again
ResetGive(t) ==
    /\ At(t, "give")
    /\ permits' = Give(permits, 1)
    /\ gives' = [gives EXCEPT ![t] = @ - 1]
    /\ Goto(t, IF gives[t] = 1 THEN "start" ELSE "give")
    /\ UNCHANGED <<config, frame, reg, inflight, started, tx_fail_streak,
                   failures>>

CanStart(t) ==
    /\ At(t, "start")
    /\ ~started
    /\ started' = TRUE
    /\ Goto(t, "clear")
    /\ UNCHANGED <<config, frame, reg, gives, permits, inflight,
                   tx_fail_streak, failures>>

\* can_start fails; a started controller answers -EALREADY, an error here
CanStartError(t) ==
    /\ At(t, "start")
    /\ Goto(t, "restarted")
    /\ UNCHANGED <<config, frame, reg, gives, permits, inflight, started,
                   tx_fail_streak, failures>>

\* tx_fail_streak = 0; tx_recoveries++
ClearStreak(t) ==
    /\ At(t, "clear")
    /\ tx_fail_streak' = 0
    /\ failures' = 0
    /\ Goto(t, "restarted")
    /\ UNCHANGED <<config, frame, reg, gives, permits, inflight, started>>

RestartStep(t) ==
    \/ CanStop(t)
    \/ CanStopError(t)
    \/ SemReset(t)
    \/ ResetGive(t)
    \/ CanStart(t)
    \/ CanStartError(t)
    \/ ClearStreak(t)

-----------------------------------------------------------------------------
(* the main thread *)

\* main returns when the device is not ready or does not start (a can_gen
\* restart that came first is one reason)
Boot ==
    /\ At("main", "boot")
    /\ \/ ~started /\ started' = TRUE /\ Goto("main", "sleep")
       \/ UNCHANGED started /\ Goto("main", "exited")
    /\ UNCHANGED <<config, frame, reg, gives, permits, inflight,
                   tx_fail_streak, failures>>

\* the top of the loop; with the generator disabled main sleeps again
Wake ==
    /\ At("main", "sleep")
    /\ generator_enabled
    /\ BeginSet("main")
    /\ UNCHANGED <<config, reg, gives, permits, inflight, started,
                   tx_fail_streak, failures>>

RecoveryDue == tx_fail_streak >= RECOVERY_FAILURE_LIMIT /\ ~backoff

\* maybe_auto_recover, up to the call of restart_can_controller
MaybeAutoRecover ==
    /\ At("main", "check")
    /\ Goto("main", IF RecoveryDue THEN "stop" ELSE "sleep")
    /\ UNCHANGED <<config, frame, reg, gives, permits, inflight, started,
                   tx_fail_streak, failures>>

\* ... and after it, whatever it returned
AutoRecovered ==
    /\ At("main", "restarted")
    /\ backoff' = TRUE
    /\ Goto("main", "sleep")
    /\ UNCHANGED <<frame, reg, gives, permits, inflight, started, acking,
                   generator_enabled, was_enabled, tx_fail_streak, failures>>

MainStep ==
    \/ SendStep("main")
    \/ RestartStep("main")
    \/ Boot
    \/ Wake
    \/ MaybeAutoRecover
    \/ AutoRecovered

-----------------------------------------------------------------------------
(* the shell thread *)

\* can_gen start and can_gen stop
CmdEnable ==
    /\ At("shell", "idle")
    /\ generator_enabled' \in BOOLEAN
    /\ UNCHANGED <<pc, frame, reg, gives, permits, inflight, started, acking,
                   was_enabled, tx_fail_streak, backoff, failures>>

CmdBurst ==
    /\ At("shell", "idle")
    /\ BeginSet("shell")
    /\ UNCHANGED <<config, reg, gives, permits, inflight, started,
                   tx_fail_streak, failures>>

\* after its 10 ms sleep a burst goes on with the next set or is complete
BurstNext ==
    /\ At("shell", "burst")
    /\ \/ BeginSet("shell")
       \/ Goto("shell", "idle") /\ UNCHANGED frame
    /\ UNCHANGED <<config, reg, gives, permits, inflight, started,
                   tx_fail_streak, failures>>

CmdRestart ==
    /\ At("shell", "idle")
    /\ was_enabled' = generator_enabled
    /\ generator_enabled' = FALSE
    /\ Goto("shell", "stop")
    /\ UNCHANGED <<frame, reg, gives, permits, inflight, started, acking,
                   tx_fail_streak, backoff, failures>>

\* cmd_can_gen_restart after restart_can_controller, failed or not
CmdRestarted ==
    /\ At("shell", "restarted")
    /\ generator_enabled' = was_enabled
    /\ Goto("shell", "idle")
    /\ UNCHANGED <<frame, reg, gives, permits, inflight, started, acking,
                   was_enabled, tx_fail_streak, backoff, failures>>

ShellStep ==
    \/ SendStep("shell")
    \/ RestartStep("shell")
    \/ CmdEnable
    \/ CmdBurst
    \/ BurstNext
    \/ CmdRestart
    \/ CmdRestarted

-----------------------------------------------------------------------------
(* the interrupt, the bus and the clock *)

\* tx_callback(error == 0): a frame was acknowledged
TxOk ==
    /\ started
    /\ acking
    /\ inflight > 0
    /\ inflight' = inflight - 1
    /\ permits' = Give(permits, 1)
    /\ tx_fail_streak' = 0
    /\ failures' = 0
    /\ UNCHANGED <<config, pc, frame, reg, gives, started>>

\* tx_callback(error != 0)
TxError ==
    /\ started
    /\ inflight > 0
    /\ inflight' = inflight - 1
    /\ permits' = Give(permits, 1)
    /\ tx_fail_streak' = Bump(tx_fail_streak, 1)
    /\ failures' = Bump(failures, 1)
    /\ UNCHANGED <<config, pc, frame, reg, gives, started>>

\* acknowledging nodes come and go
BusChange ==
    /\ acking' = ~acking
    /\ UNCHANGED <<pc, frame, reg, gives, permits, inflight, started,
                   generator_enabled, was_enabled, tx_fail_streak, backoff,
                   failures>>

\* AUTO_RECOVERY_BACKOFF_MS have passed
BackoffOver ==
    /\ backoff
    /\ backoff' = FALSE
    /\ UNCHANGED <<pc, frame, reg, gives, permits, inflight, started, acking,
                   generator_enabled, was_enabled, tx_fail_streak, failures>>

Environment == TxOk \/ TxError \/ BusChange \/ BackoffOver

Next == MainStep \/ ShellStep \/ Environment

Spec == Init /\ [][Next]_vars

\* Main is the highest-priority thread, so it always gets on; a restart that is
\* tried again and again works some time, and so does a can_send; on an
\* acknowledging bus not every frame fails; time passes. Nothing is assumed of
\* the shell or of the bus.
Fairness ==
    /\ WF_vars(MainStep)
    /\ SF_vars(CanStop("main"))
    /\ SF_vars(CanStart("main"))
    /\ SF_vars(CanSend("main"))
    /\ SF_vars(TxOk)
    /\ WF_vars(BackoffOver)

FairSpec == Spec /\ Fairness

-----------------------------------------------------------------------------
(* Properties *)

\* The states of the variables: in particular the semaphore's count never
\* passes its limit and a thread's gives are those of reset_tx_semaphore.
TypeOK ==
    /\ pc \in [Threads -> PCs]
    /\ frame \in [Threads -> 1..SET_SIZE]
    /\ reg \in [Threads -> 0..RECOVERY_FAILURE_LIMIT]
    /\ gives \in [Threads -> 0..TX_QUEUE_DEPTH]
    /\ permits \in 0..TX_QUEUE_DEPTH
    /\ inflight \in 0..MAILBOXES
    /\ started \in BOOLEAN
    /\ acking \in BOOLEAN
    /\ generator_enabled \in BOOLEAN
    /\ was_enabled \in BOOLEAN
    /\ tx_fail_streak \in 0..RECOVERY_FAILURE_LIMIT
    /\ backoff \in BOOLEAN
    /\ failures \in 0..RECOVERY_FAILURE_LIMIT

\* The permits thread t still has to return to tx_queue_sem: the one of the
\* frame it is sending, or the ones a restart is about to put back.
Owed(t) ==
    CASE pc[t] \in {"send", "fail_load", "fail_store", "giveback"} -> 1
      [] pc[t] = "reset" -> TX_QUEUE_DEPTH
      [] pc[t] = "give" -> gives[t]
      [] OTHER -> 0

\* No interleaving of send_frame, tx_callback and restart_can_controller makes
\* a permit of tx_queue_sem disappear: what is not in the semaphore is in
\* flight or owed by a thread. (There may be more: a restart refills the
\* semaphore under a sender that still holds a permit.)
PermitsConserved ==
    permits + inflight + Owed("main") + Owed("shell") >= TX_QUEUE_DEPTH

\* A thread in the refill loop of reset_tx_semaphore has a give left.
GivesPending == \A t \in Threads : pc[t] = "give" => gives[t] > 0

\* The inductive strengthening of PermitsConserved.
PermitInv == GivesPending /\ PermitsConserved

\* A thread is inside send_frame or restart_can_controller.
Busy(t) == pc[t] \notin {"boot", "exited", "sleep", "check", "idle", "burst"}

\* With no frame in flight and no thread inside send_frame or
\* restart_can_controller, tx_queue_sem is full again: whatever failed, was
\* dropped or was restarted before, the generator can queue a whole burst.
NoPermitLeak ==
    (inflight = 0 /\ \A t \in Threads : ~Busy(t)) => permits = TX_QUEUE_DEPTH

\* A controller that a failed restart left stopped (can_stop worked, can_start
\* did not) is started again by the auto-recovery, for as long as the user leaves
\* the generator enabled: every frame then fails, which is what the streak counts.
StoppedComesBack ==
    (~started /\ generator_enabled) ~>
        (started \/ ~generator_enabled \/ pc["main"] = "exited")

\* An enabled generator whose mailboxes are all taken frees them again, by an
\* acknowledgement or by restarting the controller (maybe_auto_recover), for as
\* long as the user leaves it enabled.
Unstalls ==
    (generator_enabled /\ permits = 0) ~>
        (permits > 0 \/ ~generator_enabled \/ pc["main"] = "exited")

\* Once a node acknowledges frames for good and the generator stays enabled,
\* frames get through again and again, whatever stalls and failed restarts came
\* before (the recovery described for the no-ACK case).
TrafficResumes ==
    <>[](acking /\ generator_enabled /\ pc["main"] # "exited")
        => []<><<TxOk>>_vars

\* The controller is restarted automatically only after
\* RECOVERY_FAILURE_LIMIT failed attempts with no success among them, as the
\* message "CAN TX stalled after %u failed attempts" says.
RestartOnlyWhenStalled ==
    [][(pc["main"] = "check" /\ pc'["main"] = "stop")
          => failures >= RECOVERY_FAILURE_LIMIT]_vars

=============================================================================
