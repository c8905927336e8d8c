--------------------------- MODULE Synchronization ---------------------------
(***************************************************************************)
(* The synchronization demo (app/demos/synchronization/src/main.c): two    *)
(* threads greet in turn, each waiting for a semaphore that the other one  *)
(* gives. Thread b runs from the start, main creates thread a, pins both   *)
(* to a processor on a multiprocessor (with b suspended for that long) and *)
(* starts a. The busy wait and the sleep are the step from "said" to the   *)
(* give. Threads preempt each other, or run at the same time.              *)
(***************************************************************************)
EXTENDS Naturals

CONSTANT PIN_THREADS

ASSUME SyncAssumption == PIN_THREADS \in BOOLEAN

Threads == {"a", "b"}
Other(t) == IF t = "a" THEN "b" ELSE "a"

VARIABLES
    starting,    \* where main is: "create", "suspend", "resume", "start" or "done"
    runnable,    \* the threads that were started and are not suspended
    sem,         \* the count of each thread's semaphore; the limit is 1
    greeting,    \* where each thread is: "take", "say" or "said"
    console      \* who printed the last line, and a bit that flips with every line

syncVars == <<starting, runnable, sem, greeting, console>>

SyncInit ==
    /\ starting = "create"
    /\ runnable = {"b"}
    /\ sem = [t \in Threads |-> IF t = "a" THEN 1 ELSE 0]
    /\ greeting = [t \in Threads |-> "take"]
    /\ console = <<"b", 0>>

\* k_thread_create(K_FOREVER), then the steps of main after it
Create ==
    /\ starting = "create"
    /\ starting' = IF PIN_THREADS THEN "suspend" ELSE "start"
    /\ UNCHANGED <<runnable, sem, greeting, console>>

SuspendB ==
    /\ starting = "suspend"
    /\ starting' = "resume"
    /\ runnable' = runnable \ {"b"}
    /\ UNCHANGED <<sem, greeting, console>>

ResumeB ==
    /\ starting = "resume"
    /\ starting' = "start"
    /\ runnable' = runnable \cup {"b"}
    /\ UNCHANGED <<sem, greeting, console>>

StartA ==
    /\ starting = "start"
    /\ starting' = "done"
    /\ runnable' = runnable \cup {"a"}
    /\ UNCHANGED <<sem, greeting, console>>

Take(t) ==
    /\ greeting[t] = "take" /\ sem[t] > 0
    /\ sem' = [sem EXCEPT ![t] = @ - 1]
    /\ greeting' = [greeting EXCEPT ![t] = "say"]
    /\ UNCHANGED <<starting, runnable, console>>

Say(t) ==
    /\ greeting[t] = "say"
    /\ greeting' = [greeting EXCEPT ![t] = "said"]
    /\ console' = <<t, 1 - console[2]>>
    /\ UNCHANGED <<starting, runnable, sem>>

\* mutant: a thread gives its own semaphore
GiveOwn(t) ==
    /\ greeting[t] = "said"
    /\ sem' = [sem EXCEPT ![t] = 1]
    /\ greeting' = [greeting EXCEPT ![t] = "take"]
    /\ UNCHANGED <<starting, runnable, console>>

\* k_sem_give stops at the limit.
Give(t) ==
    /\ greeting[t] = "said"
    /\ sem' = [sem EXCEPT ![Other(t)] = 1]
    /\ greeting' = [greeting EXCEPT ![t] = "take"]
    /\ UNCHANGED <<starting, runnable, console>>

hello_loop(t) == t \in runnable /\ (Take(t) \/ Say(t) \/ Give(t))

Starts == Create \/ SuspendB \/ ResumeB \/ StartA

SyncNext == Starts \/ \E t \in Threads : hello_loop(t)

SyncFairness ==
    /\ WF_syncVars(Starts)
    /\ \A t \in Threads : WF_syncVars(hello_loop(t))

SyncSpec == SyncInit /\ [][SyncNext]_syncVars /\ SyncFairness

----------------------------------------------------------------------------
Turns == INSTANCE TurnTaking WITH
    First <- "a", Second <- "b",
    begun <- starting = "done", last <- console[1], bit <- console[2]

(***************************************************************************)
(* The demo implements turn taking: the threads greet strictly in turn, a  *)
(* first and not before main has started it, and never stop, although each *)
(* semaphore holds at most one permit and b may be suspended by main.      *)
(***************************************************************************)
TakesTurns == Turns!Spec

=============================================================================
