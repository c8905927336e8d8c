------------------------- MODULE CanGeneratorProofs -------------------------
(***************************************************************************)
(* Proofs about CanGenerator, for every queue depth, failure limit, number *)
(* of mailboxes and size of a frame set.                                   *)
(***************************************************************************)
EXTENDS CanGenerator, TLAPS

-----------------------------------------------------------------------------
(* type correctness *)

\* The steps of send_frame keep the types.
LEMMA SendType ==
    ASSUME TypeOK, GivesPending, NEW t \in Threads, SendStep(t)
    PROVE  TypeOK'
<1> USE ConstantsAssumption DEF TypeOK, At, Goto, config, PCs
<1>1. CASE SemTake(t)
  BY <1>1 DEF SemTake
<1>2. CASE SemBusy(t)
  BY <1>2 DEF SemBusy, Bump, AtMost
<1>3. CASE CanSend(t)
  BY <1>3 DEF CanSend, AfterSet
<1>4. CASE CanSendError(t)
  BY <1>4 DEF CanSendError, Bump, AtMost
<1>5. CASE LoadStreak(t)
  BY <1>5 DEF LoadStreak
<1>6. CASE StoreStreak(t)
  BY <1>6 DEF StoreStreak, AfterFailure, Bump, AtMost
<1>7. CASE GiveBack(t)
  BY <1>7 DEF GiveBack, AfterFailure, Give, AtMost
<1> QED BY <1>1, <1>2, <1>3, <1>4, <1>5, <1>6, <1>7 DEF SendStep

\* The steps of restart_can_controller keep the types.
LEMMA RestartType ==
    ASSUME TypeOK, GivesPending, NEW t \in Threads, RestartStep(t)
    PROVE  TypeOK'
<1> USE ConstantsAssumption DEF TypeOK, At, Goto, config, PCs
<1>1. CASE CanStop(t)
  <2>1. PICK reported \in 0..inflight :
           /\ permits' = Give(permits, reported)
           /\ tx_fail_streak' = Bump(tx_fail_streak, reported)
           /\ failures' = Bump(failures, reported)
    BY <1>1 DEF CanStop
  <2>2. permits' \in 0..TX_QUEUE_DEPTH
    BY <2>1 DEF Give, AtMost
  <2>3. /\ tx_fail_streak' \in 0..RECOVERY_FAILURE_LIMIT
        /\ failures' \in 0..RECOVERY_FAILURE_LIMIT
    BY <2>1 DEF Bump, AtMost
  <2>4. started' \in BOOLEAN
    BY <1>1, Zenon DEF CanStop
  <2>5. /\ inflight' = 0 /\ Goto(t, "reset")
        /\ UNCHANGED <<config, frame, reg, gives>>
    BY <1>1 DEF CanStop
  <2> QED BY <2>2, <2>3, <2>4, <2>5
<1>2. CASE CanStopError(t)
  BY <1>2 DEF CanStopError
<1>3. CASE SemReset(t)
  BY <1>3 DEF SemReset
<1>4. CASE ResetGive(t)
  BY <1>4 DEF ResetGive, GivesPending, Give, AtMost
<1>5. CASE CanStart(t)
  BY <1>5 DEF CanStart
<1>6. CASE CanStartError(t)
  BY <1>6 DEF CanStartError
<1>7. CASE ClearStreak(t)
  BY <1>7 DEF ClearStreak
<1> QED BY <1>1, <1>2, <1>3, <1>4, <1>5, <1>6, <1>7 DEF RestartStep

\* Main's own steps, the shell's commands and the environment keep the types.
LEMMA OtherType ==
    ASSUME TypeOK,
           \/ Boot \/ Wake \/ MaybeAutoRecover \/ AutoRecovered
           \/ CmdEnable \/ CmdBurst \/ BurstNext \/ CmdRestart \/ CmdRestarted
           \/ Environment
    PROVE  TypeOK'
<1> USE ConstantsAssumption DEF TypeOK, At, Goto, BeginSet, config, PCs
<1>0. 1 \in 1..SET_SIZE
  OBVIOUS
<1>1. CASE Boot
  <2>1. started' \in BOOLEAN
    BY <1>1, Zenon DEF Boot
  <2>2. pc' \in [Threads -> PCs]
    BY <1>1 DEF Boot
  <2>3. UNCHANGED <<config, frame, reg, gives, permits, inflight,
                    tx_fail_streak, failures>>
    BY <1>1 DEF Boot
  <2> QED BY <2>1, <2>2, <2>3
<1>2. CASE Wake
  <2>1. frame' \in [Threads -> 1..SET_SIZE] /\ pc' \in [Threads -> PCs]
    BY <1>0, <1>2 DEF Wake
  <2> QED BY <2>1, <1>2 DEF Wake
<1>3. CASE MaybeAutoRecover
  BY <1>3 DEF MaybeAutoRecover
<1>4. CASE AutoRecovered
  BY <1>4 DEF AutoRecovered
<1>5. CASE CmdEnable
  <2>1. generator_enabled' \in BOOLEAN
    BY <1>5, Zenon DEF CmdEnable
  <2>2. UNCHANGED <<pc, frame, reg, gives, permits, inflight, started, acking,
                    was_enabled, tx_fail_streak, backoff, failures>>
    BY <1>5 DEF CmdEnable
  <2> QED BY <2>1, <2>2
<1>6. CASE CmdBurst
  <2>1. frame' \in [Threads -> 1..SET_SIZE] /\ pc' \in [Threads -> PCs]
    BY <1>0, <1>6 DEF CmdBurst
  <2> QED BY <2>1, <1>6 DEF CmdBurst
<1>7. CASE BurstNext
  BY <1>7 DEF BurstNext
<1>8. CASE CmdRestart
  BY <1>8 DEF CmdRestart
<1>9. CASE CmdRestarted
  BY <1>9 DEF CmdRestarted
<1>10. CASE TxOk
  BY <1>10 DEF TxOk, Give, AtMost
<1>11. CASE TxError
  BY <1>11 DEF TxError, Give, Bump, AtMost
<1>12. CASE BusChange
  BY <1>12 DEF BusChange
<1>13. CASE BackoffOver
  BY <1>13 DEF BackoffOver
<1> QED BY <1>1, <1>2, <1>3, <1>4, <1>5, <1>6, <1>7, <1>8, <1>9, <1>10,
           <1>11, <1>12, <1>13 DEF Environment

\* Every step keeps the types.
LEMMA NextType == TypeOK /\ GivesPending /\ [Next]_vars => TypeOK'
<1> SUFFICES ASSUME TypeOK, GivesPending, [Next]_vars PROVE TypeOK'
  OBVIOUS
<1>1. CASE UNCHANGED vars
  BY <1>1 DEF TypeOK, vars
<1>2. CASE MainStep
  BY <1>2, SendType, RestartType, OtherType DEF MainStep, Threads
<1>3. CASE ShellStep
  BY <1>3, SendType, RestartType, OtherType DEF ShellStep, Threads
<1>4. CASE Environment
  BY <1>4, OtherType
<1> QED BY <1>1, <1>2, <1>3, <1>4 DEF Next

-----------------------------------------------------------------------------
(* no permit is lost *)

\* A step that moves thread t from one place to another leaves what the other
\* thread owes alone.
LEMMA OwedFrame ==
    ASSUME TypeOK, NEW t \in Threads, NEW u \in Threads, u # t,
           NEW there, Goto(t, there),
           gives' = gives \/ \E n : gives' = [gives EXCEPT ![t] = n]
    PROVE  Owed(u)' = Owed(u)
BY DEF TypeOK, Goto, Owed

\* What a thread owes is a number of permits, at most the whole semaphore.
LEMMA OwedType ==
    ASSUME TypeOK, NEW t \in Threads
    PROVE  Owed(t) \in 0..TX_QUEUE_DEPTH
BY ConstantsAssumption DEF TypeOK, Owed

\* A step of thread t keeps PermitsConserved when it takes nothing from what t
\* owes, the semaphore and the mailboxes hold together, or leaves a whole
\* semaphore behind, given or owed.
LEMMA StepConserves ==
    ASSUME TypeOK, TypeOK', PermitsConserved,
           NEW t \in Threads, NEW there, Goto(t, there),
           gives' = gives \/ \E n : gives' = [gives EXCEPT ![t] = n],
           \/ permits' + inflight' + Owed(t)' >= permits + inflight + Owed(t)
           \/ permits' = TX_QUEUE_DEPTH
           \/ Owed(t)' = TX_QUEUE_DEPTH
    PROVE  PermitsConserved'
<1> DEFINE u == IF t = "main" THEN "shell" ELSE "main"
<1>1. u \in Threads /\ u # t
  BY DEF Threads
<1>2. Owed(u)' = Owed(u)
  BY <1>1, OwedFrame
<1>3. Owed(t) \in Nat /\ Owed(u) \in Nat
  BY <1>1, OwedType, ConstantsAssumption
<1>4. Owed(t)' \in Nat
  BY ConstantsAssumption DEF TypeOK, Owed
<1>5. permits \in Nat /\ permits' \in Nat /\ inflight \in Nat /\ inflight' \in Nat
  BY ConstantsAssumption DEF TypeOK
<1>6. permits + inflight + Owed(t) + Owed(u) >= TX_QUEUE_DEPTH
  <2>1. CASE t = "main"
    BY <2>1, <1>3, <1>5 DEF PermitsConserved
  <2>2. CASE t = "shell"
    BY <2>2, <1>3, <1>5 DEF PermitsConserved
  <2> QED BY <2>1, <2>2 DEF Threads
<1>7. permits' + inflight' + Owed(t)' + Owed(u)' >= TX_QUEUE_DEPTH
  BY <1>2, <1>3, <1>4, <1>5, <1>6, ConstantsAssumption
<1> HIDE DEF u
<1>8. u = IF t = "main" THEN "shell" ELSE "main"
  BY DEF u
<1>9. CASE t = "main"
  BY <1>7, <1>8, <1>9, <1>2, <1>3, <1>4, <1>5 DEF PermitsConserved
<1>10. CASE t = "shell"
  BY <1>7, <1>8, <1>10, <1>2, <1>3, <1>4, <1>5 DEF PermitsConserved
<1> QED BY <1>9, <1>10 DEF Threads

\* send_frame keeps the permits: a permit taken is owed until the frame is
\* queued or refused, and a refused frame's permit is given back.
LEMMA SendPermits ==
    ASSUME TypeOK, TypeOK', PermitInv, NEW t \in Threads, SendStep(t)
    PROVE  PermitInv'
<1> USE ConstantsAssumption DEF At, Goto
<1>1. PICK there \in PCs \ {"give"} : Goto(t, there) /\ gives' = gives
  BY Zenon DEF SendStep, SemTake, SemBusy, CanSend, CanSendError, LoadStreak,
               StoreStreak, GiveBack, AfterSet, AfterFailure, PCs
<1>2. GivesPending'
  BY <1>1 DEF PermitInv, GivesPending, TypeOK
<1>3. \/ permits' + inflight' + Owed(t)' >= permits + inflight + Owed(t)
      \/ permits' = TX_QUEUE_DEPTH
  <2> USE DEF TypeOK, Owed
  <2>1. CASE SemTake(t)
    BY <2>1 DEF SemTake
  <2>2. CASE SemBusy(t)
    BY <2>2 DEF SemBusy
  <2>3. CASE CanSend(t)
    BY <2>3 DEF CanSend, AfterSet
  <2>4. CASE CanSendError(t)
    BY <2>4 DEF CanSendError
  <2>5. CASE LoadStreak(t)
    BY <2>5 DEF LoadStreak
  <2>6. CASE StoreStreak(t)
    BY <2>6 DEF StoreStreak, AfterFailure
  <2>7. CASE GiveBack(t)
    BY <2>7 DEF GiveBack, AfterFailure, Give, AtMost
  <2> QED BY <2>1, <2>2, <2>3, <2>4, <2>5, <2>6, <2>7 DEF SendStep
<1>4. PermitsConserved'
  BY <1>1, <1>3, StepConserves DEF PermitInv
<1> QED BY <1>2, <1>4 DEF PermitInv

\* restart_can_controller keeps the permits: from can_stop on it owes the whole
\* semaphore, whatever the driver did with the queued frames.
LEMMA RestartPermits ==
    ASSUME TypeOK, TypeOK', PermitInv, NEW t \in Threads, RestartStep(t)
    PROVE  PermitInv'
<1> USE ConstantsAssumption DEF At, Goto
<1>1. CASE CanStop(t)
  <2>1. Goto(t, "reset") /\ gives' = gives
    BY <1>1 DEF CanStop
  <2>2. Owed(t)' = TX_QUEUE_DEPTH
    BY <2>1 DEF Owed, TypeOK
  <2>3. GivesPending'
    BY <2>1 DEF PermitInv, GivesPending, TypeOK
  <2> QED BY <2>1, <2>2, <2>3, StepConserves DEF PermitInv
<1>2. CASE SemReset(t)
  <2>1. Goto(t, "give") /\ gives' = [gives EXCEPT ![t] = TX_QUEUE_DEPTH]
    BY <1>2 DEF SemReset
  <2>2. Owed(t)' = TX_QUEUE_DEPTH
    BY <2>1 DEF Owed, TypeOK
  <2>3. GivesPending'
    BY <2>1 DEF PermitInv, GivesPending, TypeOK
  <2> QED BY <2>1, <2>2, <2>3, StepConserves DEF PermitInv
<1>3. CASE ResetGive(t)
  <2> DEFINE there == IF gives[t] = 1 THEN "start" ELSE "give"
  <2>1. /\ Goto(t, there) /\ gives' = [gives EXCEPT ![t] = gives[t] - 1]
        /\ permits' = Give(permits, 1) /\ inflight' = inflight
        /\ pc[t] = "give" /\ gives[t] > 0
    BY <1>3 DEF ResetGive, PermitInv, GivesPending
  <2>2. GivesPending'
    BY <2>1 DEF PermitInv, GivesPending, TypeOK
  <2>3. \/ permits' + inflight' + Owed(t)' >= permits + inflight + Owed(t)
        \/ permits' = TX_QUEUE_DEPTH
    BY <2>1 DEF Owed, TypeOK, Give, AtMost
  <2> QED BY <2>1, <2>2, <2>3, StepConserves DEF PermitInv
<1>4. CASE CanStopError(t) \/ CanStart(t) \/ CanStartError(t) \/ ClearStreak(t)
  <2>1. PICK there \in {"clear", "restarted"} :
           /\ Goto(t, there) /\ gives' = gives
           /\ UNCHANGED <<permits, inflight>>
           /\ pc[t] \in {"stop", "start", "clear"}
    BY <1>4, Zenon DEF CanStopError, CanStart, CanStartError, ClearStreak
  <2>2. GivesPending'
    BY <2>1 DEF PermitInv, GivesPending, TypeOK
  <2>3. permits' + inflight' + Owed(t)' >= permits + inflight + Owed(t)
    BY <2>1 DEF Owed, TypeOK
  <2> QED BY <2>1, <2>2, <2>3, StepConserves DEF PermitInv
<1> QED BY <1>1, <1>2, <1>3, <1>4 DEF RestartStep

\* A step of main's loop or of a shell command moves a thread between places
\* where it owes nothing.
LEMMA OtherPermits ==
    ASSUME TypeOK, TypeOK', PermitInv,
           \/ Boot \/ Wake \/ MaybeAutoRecover \/ AutoRecovered
           \/ CmdBurst \/ BurstNext \/ CmdRestart \/ CmdRestarted
    PROVE  PermitInv'
<1> DEFINE Idle == {"boot", "exited", "sleep", "take", "check", "stop",
                    "restarted", "idle", "burst"}
<1>1. PICK t \in Threads, there \in Idle :
         /\ pc[t] \in Idle /\ Goto(t, there)
         /\ UNCHANGED <<gives, permits, inflight>>
  BY Zenon DEF Boot, Wake, MaybeAutoRecover, AutoRecovered, CmdBurst,
               BurstNext, CmdRestart, CmdRestarted, At, Goto, BeginSet, Threads
<1>2. GivesPending'
  BY <1>1 DEF PermitInv, GivesPending, TypeOK, Goto
<1>3. permits' + inflight' + Owed(t)' >= permits + inflight + Owed(t)
  BY <1>1, ConstantsAssumption DEF Owed, TypeOK, Goto
<1> QED BY <1>1, <1>2, <1>3, StepConserves DEF PermitInv

\* A completed frame returns its permit unless the semaphore is full already.
LEMMA EnvironmentPermits ==
    ASSUME TypeOK, TypeOK', PermitInv, CmdEnable \/ Environment
    PROVE  PermitInv'
<1>1. UNCHANGED <<pc, gives>>
  BY DEF CmdEnable, Environment, TxOk, TxError, BusChange, BackoffOver
<1>2. \A t \in Threads : Owed(t)' = Owed(t) /\ Owed(t) \in Nat
  <2> TAKE t \in Threads
  <2>1. Owed(t)' = Owed(t)
    BY <1>1 DEF Owed
  <2>2. Owed(t) \in Nat
    BY OwedType, ConstantsAssumption
  <2> QED BY <2>1, <2>2
<1>3. /\ Owed("main")' = Owed("main") /\ Owed("main") \in Nat
      /\ Owed("shell")' = Owed("shell") /\ Owed("shell") \in Nat
  BY <1>2 DEF Threads
<1>4. PermitsConserved'
  <2> USE ConstantsAssumption DEF PermitInv, PermitsConserved
  <2>1. CASE TxOk \/ TxError
    <3>1. inflight' = inflight - 1 /\ permits' = Give(permits, 1)
      BY <2>1, Zenon DEF TxOk, TxError
    <3> QED BY <1>3, <3>1 DEF Give, AtMost, TypeOK
  <2>2. CASE CmdEnable \/ BusChange \/ BackoffOver
    <3>1. inflight' = inflight /\ permits' = permits
      BY <2>2, Zenon DEF CmdEnable, BusChange, BackoffOver
    <3> QED BY <1>3, <3>1
  <2> QED BY <2>1, <2>2 DEF Environment
<1> QED BY <1>1, <1>4 DEF PermitInv, GivesPending

\* Every step keeps the inductive invariant.
LEMMA NextPermits == TypeOK /\ TypeOK' /\ PermitInv /\ [Next]_vars => PermitInv'
<1> SUFFICES ASSUME TypeOK, TypeOK', PermitInv, [Next]_vars PROVE PermitInv'
  OBVIOUS
<1>1. CASE UNCHANGED vars
  BY <1>1 DEF PermitInv, PermitsConserved, GivesPending, Owed, vars
<1>2. CASE MainStep
  BY <1>2, SendPermits, RestartPermits, OtherPermits DEF MainStep, Threads
<1>3. CASE ShellStep
  BY <1>3, SendPermits, RestartPermits, OtherPermits, EnvironmentPermits
     DEF ShellStep, Threads
<1>4. CASE Environment
  BY <1>4, EnvironmentPermits
<1> QED BY <1>1, <1>2, <1>3, <1>4 DEF Next

-----------------------------------------------------------------------------
(* the theorems *)

\* The initial state satisfies the inductive invariant.
LEMMA InitInv == Init => TypeOK /\ PermitInv
<1> SUFFICES ASSUME Init PROVE TypeOK /\ PermitInv
  OBVIOUS
<1> USE ConstantsAssumption
<1>1. /\ permits = TX_QUEUE_DEPTH /\ inflight = 0
      /\ pc["main"] = "boot" /\ pc["shell"] = "idle"
  BY DEF Init, Threads
<1>2. PermitsConserved
  BY <1>1 DEF PermitsConserved, Owed
<1>3. GivesPending
  BY <1>1 DEF GivesPending, Threads
<1>4. /\ started \in BOOLEAN /\ acking \in BOOLEAN /\ backoff \in BOOLEAN
      /\ generator_enabled \in BOOLEAN /\ was_enabled \in BOOLEAN
  BY Zenon DEF Init
<1>5. TypeOK
  BY <1>1, <1>4 DEF Init, TypeOK, PCs
<1> QED BY <1>2, <1>3, <1>5 DEF PermitInv

\* The variables of the generator keep their types, the semaphore's count its
\* limit, and no permit of tx_queue_sem is ever lost between send_frame,
\* tx_callback and restart_can_controller, however they interleave.
THEOREM GeneratorInvariant == Spec => [](TypeOK /\ PermitInv)
<1>1. TypeOK /\ PermitInv /\ [Next]_vars => (TypeOK /\ PermitInv)'
  BY NextType, NextPermits DEF PermitInv
<1> QED BY <1>1, InitInv, PTL DEF Spec

\* The semaphore's count stays within its limit, and the other variables of
\* the generator keep their types (tx_queue_sem, reset_tx_semaphore).
THEOREM GeneratorTypeOK == Spec => []TypeOK
<1> QED BY GeneratorInvariant, PTL

\* Whenever no frame is in flight and no thread is inside send_frame or
\* restart_can_controller, tx_queue_sem is full.
THEOREM GeneratorNeverLeaks == Spec => []NoPermitLeak
<1>1. TypeOK /\ PermitInv => NoPermitLeak
  <2> SUFFICES ASSUME TypeOK, PermitInv, inflight = 0,
                      \A t \in Threads : ~Busy(t)
               PROVE  permits = TX_QUEUE_DEPTH
    BY DEF NoPermitLeak
  <2>1. Owed("main") = 0 /\ Owed("shell") = 0
    BY DEF Owed, Busy, Threads
  <2> QED BY <2>1, ConstantsAssumption DEF PermitInv, PermitsConserved, TypeOK
<1> QED BY <1>1, GeneratorInvariant, PTL

=============================================================================
