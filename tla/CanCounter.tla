----------------------------- MODULE CanCounter -----------------------------
(***************************************************************************)
(* The CAN counter demo (app/demos/can_counter/src/main.c): what one node  *)
(* sends in its main loop and what another node, which runs the same       *)
(* program, does with it. In loopback mode both are the same node.         *)
(*                                                                         *)
(* The receiving driver puts frames in two message queues from its         *)
(* interrupt, and drops a frame that does not fit. A triggered work item   *)
(* empties the LED queue, a thread the counter queue. The driver's state   *)
(* change interrupt stores the bus state and submits a second work item    *)
(* that prints it; a thread polls the state as well. Both work items run   *)
(* in the system work queue, one at a time; interrupts may come between    *)
(* any two steps of a thread. The counter is a uint16_t that wraps around; *)
(* nth and total number the frames for the properties only.                *)
(***************************************************************************)
EXTENDS Naturals, Sequences, FiniteSets

CONSTANTS
    DEPTH,         \* length of the two message queues
    MAILBOXES,     \* transmit mailboxes of the controller
    States,        \* bus states, the counters that come with them included
    FirstState,    \* the state after can_start
    COUNTER_WRAP,  \* values of the counter on the wire: 2^16, of a uint16_t
    MAX_COUNT,     \* bound on the counter frames sent
    MAX_CHANGES,   \* bound on changes of the bus state
    MAX_STRANGE    \* bound on frames of other nodes with the same identifiers

ASSUME CounterAssumption ==
    /\ DEPTH \in Nat \ {0} /\ MAILBOXES \in Nat \ {0} /\ COUNTER_WRAP \in Nat \ {0}
    /\ FirstState \in States
    /\ {MAX_COUNT, MAX_CHANGES, MAX_STRANGE} \subseteq Nat

LedFrames == {"set", "reset", "rtr"}
\* A counter frame is good if it is a data frame of two bytes; it is the nth
\* that main made.
CounterFrames == [good : BOOLEAN, count : 0..(COUNTER_WRAP - 1), nth : 0..MAX_COUNT]

VARIABLES
    (* the sending node's main *)
    sending,       \* "led", "count", or "wait" while can_send blocks
    toggle,        \* parity of toggle
    counter,
    mailboxes,     \* LED frames in the controller, in a sequence
    outgoing,      \* counter_frame
    total,         \* history: counter frames made
    (* the receiving node's main and threads *)
    setup,         \* "start", "filter", "submit", "threads", "callback", "loop" or "ended"
    filters,       \* the queues that have a filter
    change_led_msgq,
    counter_msgq,
    led,           \* the command the LED last got
    received,      \* history: the nth frame was printed last, plus one
    shown,         \* the counter last printed
    (* the system work queue *)
    polling,       \* change_led_work waits for its event
    work,          \* items submitted and not started, in order
    handler,       \* what the work queue thread runs: "none", "led", "resubmit", "state", "counts"
    (* the bus state *)
    bus,           \* the state in the controller
    current_state, current_err_cnt,
    state_prev,    \* what poll_state_thread printed last
    half,          \* the state that state_change_work_handler has read
    printed,       \* the state and counters it printed last
    (* history *)
    lastLed,       \* the last LED command that was queued
    called,        \* the callback was called at least once
    unpolled,      \* change_led_work_handler could not submit itself again
    changes, strange

sender == <<sending, toggle, counter, mailboxes, outgoing, total>>
leds == <<change_led_msgq, led, lastLed>>
counts == <<counter_msgq, received, shown>>
queue == <<polling, work, handler, unpolled>>
states == <<bus, current_state, current_err_cnt, state_prev, half, printed, called, changes>>
vars == <<sender, setup, filters, leds, counts, queue, states, strange>>

TypeOK ==
    /\ sending \in {"led", "count", "wait"} /\ toggle \in 0..1 /\ counter \in 0..(COUNTER_WRAP - 1)
    /\ mailboxes \in Seq(LedFrames) /\ Len(mailboxes) <= MAILBOXES
    /\ outgoing \in CounterFrames /\ total \in 0..MAX_COUNT
    /\ setup \in {"start", "filter", "submit", "threads", "callback", "loop", "ended"}
    /\ filters \subseteq {"led", "counter"}
    /\ change_led_msgq \in Seq(LedFrames) /\ Len(change_led_msgq) <= DEPTH
    /\ counter_msgq \in Seq(CounterFrames) /\ Len(counter_msgq) <= DEPTH
    /\ {led, lastLed} \subseteq {"set", "reset"}
    /\ received \in 0..MAX_COUNT /\ shown \in 0..(COUNTER_WRAP - 1)
    /\ polling \in BOOLEAN /\ unpolled \in BOOLEAN
    /\ work \in Seq({"led", "state"}) /\ Len(work) <= 2
    /\ handler \in {"none", "led", "resubmit", "state", "counts"}
    /\ {bus, current_state, current_err_cnt, state_prev, half} \subseteq States
    /\ printed \in States \X States
    /\ called \in BOOLEAN /\ changes \in 0..MAX_CHANGES /\ strange \in 0..MAX_STRANGE

Init ==
    /\ sending = "led" /\ toggle = 1 /\ counter = 0 /\ mailboxes = <<>> /\ total = 0
    /\ outgoing = [good |-> TRUE, count |-> 0, nth |-> 0]
    /\ setup = "start" /\ filters = {}
    /\ change_led_msgq = <<>> /\ counter_msgq = <<>>
    /\ led = "set" /\ lastLed = "set" /\ received = 0 /\ shown = 0
    /\ polling = FALSE /\ unpolled = FALSE /\ work = <<>> /\ handler = "none"
    /\ bus = FirstState /\ current_state = FirstState /\ current_err_cnt = FirstState
    /\ state_prev = FirstState /\ half = FirstState /\ printed = <<FirstState, FirstState>>
    /\ called = FALSE /\ changes = 0 /\ strange = 0

----------------------------------------------------------------------------
(* The kernel's work queue *)

Submitted(item) == item \in {work[n] : n \in DOMAIN work}

\* k_work_submit: an item that is queued already is not queued again.
Submit(item) == work' = IF Submitted(item) THEN work ELSE Append(work, item)

\* A message for a queue with a waiting poll event triggers the work item.
Trigger == IF polling THEN polling' = FALSE /\ Submit("led") ELSE UNCHANGED <<polling, work>>

\* mutant: polling starts without a look at what is in the queue
PollSubmitBlind == polling' = TRUE /\ UNCHANGED work

\* k_work_poll_submit: the event may be there already.
PollSubmit ==
    IF change_led_msgq = <<>> THEN polling' = TRUE /\ UNCHANGED work
                              ELSE Submit("led") /\ UNCHANGED polling

----------------------------------------------------------------------------
(* The bus: frames arrive in the driver's interrupt *)

ReceiveLed(frame) ==
    IF "led" \in filters /\ Len(change_led_msgq) < DEPTH
    THEN /\ change_led_msgq' = Append(change_led_msgq, frame)
         /\ lastLed' = IF frame = "rtr" THEN lastLed ELSE frame
         /\ Trigger
    ELSE UNCHANGED <<change_led_msgq, lastLed, polling, work>>

\* mutant: the queue has no end
ReceiveCounterUnbounded(frame) ==
    counter_msgq' = IF "counter" \in filters THEN Append(counter_msgq, frame) ELSE counter_msgq

ReceiveCounter(frame) ==
    counter_msgq' = IF "counter" \in filters /\ Len(counter_msgq) < DEPTH
                    THEN Append(counter_msgq, frame) ELSE counter_msgq

\* A frame of another node with the same identifier: a remote frame or one
\* of another length.
StrangeFrame ==
    /\ strange < MAX_STRANGE /\ strange' = strange + 1
    /\ \/ /\ ReceiveLed("rtr")
          /\ UNCHANGED counter_msgq
       \/ /\ ReceiveCounter([good |-> FALSE, count |-> 0, nth |-> 0])
          /\ UNCHANGED <<change_led_msgq, lastLed, polling, work>>
    /\ UNCHANGED <<sender, setup, filters, led, received, shown, handler, unpolled, states>>

----------------------------------------------------------------------------
(* The main loop of the sender *)

\* can_send with a callback waits for a mailbox and returns once the frame is
\* in it, or with an error, which main does not look at.
SendLed ==
    /\ sending = "led"
    /\ \/ /\ Len(mailboxes) < MAILBOXES
          /\ mailboxes' = Append(mailboxes, IF toggle = 1 THEN "set" ELSE "reset")
       \/ UNCHANGED mailboxes
    /\ toggle' = 1 - toggle
    /\ sending' = "count"
    /\ UNCHANGED <<counter, outgoing, total, setup, filters, leds, counts, queue, states, strange>>

\* The frame is sent, or fails, which the callback logs.
tx_irq_callback ==
    /\ mailboxes # <<>>
    /\ mailboxes' = Tail(mailboxes)
    /\ \/ ReceiveLed(Head(mailboxes))
       \/ UNCHANGED <<change_led_msgq, lastLed, polling, work>>
    /\ UNCHANGED <<sending, toggle, counter, outgoing, total, setup, filters, led, counts,
                   handler, unpolled, states, strange>>

\* can_send without a callback waits for a mailbox for 100 ms, then for the
\* frame to be sent; it may fail, but the counter has moved on in any case.
SendCounter ==
    /\ sending = "count" /\ total < MAX_COUNT
    /\ outgoing' = [good |-> TRUE, count |-> counter, nth |-> total]
    /\ counter' = (counter + 1) % COUNTER_WRAP
    /\ total' = total + 1
    /\ \/ Len(mailboxes) < MAILBOXES /\ sending' = "wait"
       \/ sending' = "led"
    /\ UNCHANGED <<toggle, mailboxes, setup, filters, leds, counts, queue, states, strange>>

CounterSent ==
    /\ sending = "wait"
    /\ sending' = "led"
    /\ \/ ReceiveCounter(outgoing)
       \/ UNCHANGED counter_msgq
    /\ UNCHANGED <<toggle, counter, mailboxes, outgoing, total, setup, filters, leds,
                   received, shown, queue, states, strange>>

----------------------------------------------------------------------------
(* The receiver: main up to its loop, then the threads *)

\* Device, mode, controller or LED: the first failure ends main. No filter
\* left for the LED ends it too.
Start ==
    /\ \/ setup = "start" /\ setup' = "filter" /\ UNCHANGED filters
       \/ setup = "filter" /\ setup' = "submit" /\ filters' = filters \cup {"led"}
       \/ setup \in {"start", "filter"} /\ setup' = "ended" /\ UNCHANGED filters
    /\ UNCHANGED <<sender, leds, counts, queue, states, strange>>

\* The first submission of the work item; main ends if it fails.
FirstPollSubmit ==
    /\ setup = "submit"
    /\ \/ setup' = "threads" /\ PollSubmit
       \/ setup' = "ended" /\ UNCHANGED <<polling, work>>
    /\ UNCHANGED <<sender, filters, leds, counts, handler, unpolled, states, strange>>

\* rx_thread starts by adding its filter; it does not look at the result.
StartThreads ==
    /\ setup = "threads" /\ setup' = "callback"
    /\ \/ filters' = filters \cup {"counter"}
       \/ UNCHANGED filters
    /\ UNCHANGED <<sender, leds, counts, queue, states, strange>>

SetCallback ==
    /\ setup = "callback" /\ setup' = "loop"
    /\ UNCHANGED <<sender, filters, leds, counts, queue, states, strange>>

Started == setup \in {"callback", "loop"}

\* mutant: the length of a frame is not looked at
PrintableAny(frame) == TRUE

Printable(frame) == frame.good

rx_thread ==
    /\ Started /\ counter_msgq # <<>>
    /\ counter_msgq' = Tail(counter_msgq)
    /\ IF Printable(Head(counter_msgq))
       THEN received' = Head(counter_msgq).nth + 1 /\ shown' = Head(counter_msgq).count
       ELSE UNCHANGED <<received, shown>>
    /\ UNCHANGED <<sender, setup, filters, leds, queue, states, strange>>

\* The work queue thread takes the next item.
NextWork ==
    /\ handler = "none" /\ work # <<>>
    /\ handler' = Head(work) /\ work' = Tail(work)
    /\ UNCHANGED <<sender, setup, filters, leds, counts, polling, unpolled, states, strange>>

\* mutant: a remote frame, which has no data, is taken for a command
LedAfterAny(frame) == IF frame = "set" THEN "set" ELSE "reset"

LedAfter(frame) == IF frame = "rtr" THEN led ELSE frame

\* change_led_work_handler takes frames until there is none.
LedWork ==
    /\ handler = "led"
    /\ IF change_led_msgq = <<>>
       THEN handler' = "resubmit" /\ UNCHANGED <<change_led_msgq, led>>
       ELSE /\ change_led_msgq' = Tail(change_led_msgq)
            /\ led' = LedAfter(Head(change_led_msgq))
            /\ UNCHANGED handler
    /\ UNCHANGED <<sender, setup, filters, lastLed, counts, polling, work, unpolled, states, strange>>

\* ... and submits itself again. A failure is logged, and nothing else does it.
Resubmit ==
    /\ handler = "resubmit" /\ handler' = "none"
    /\ \/ PollSubmit /\ UNCHANGED unpolled
       \/ UNCHANGED <<polling, work>> /\ unpolled' = TRUE
    /\ UNCHANGED <<sender, setup, filters, leds, counts, states, strange>>

----------------------------------------------------------------------------
(* The bus state *)

\* mutant: the work is not submitted while it is pending or running
state_change_callbackBusy ==
    IF setup = "loop"
    THEN /\ current_state' = bus' /\ current_err_cnt' = bus' /\ called' = TRUE
         /\ IF handler \in {"state", "counts"} THEN UNCHANGED work ELSE Submit("state")
    ELSE UNCHANGED <<current_state, current_err_cnt, called, work>>

\* The driver calls it from its interrupt once it is set.
state_change_callback ==
    IF setup = "loop"
    THEN /\ current_state' = bus' /\ current_err_cnt' = bus' /\ called' = TRUE
         /\ Submit("state")
    ELSE UNCHANGED <<current_state, current_err_cnt, called, work>>

StateChanges ==
    /\ setup \notin {"start", "ended"} /\ changes < MAX_CHANGES
    /\ bus' \in States \ {bus}
    /\ changes' = changes + 1
    /\ state_change_callback
    /\ UNCHANGED <<sender, setup, filters, leds, counts, polling, handler, unpolled,
                   state_prev, half, printed, strange>>

\* The arguments of LOG_INF are read one after the other.
StateWork ==
    /\ \/ handler = "state" /\ handler' = "counts" /\ half' = current_state /\ UNCHANGED printed
       \/ handler = "counts" /\ handler' = "none" /\ printed' = <<half, current_err_cnt>> /\ UNCHANGED half
    /\ UNCHANGED <<sender, setup, filters, leds, counts, polling, work, unpolled,
                   bus, current_state, current_err_cnt, state_prev, called, changes, strange>>

\* A failed can_get_state and an unchanged state only lead to a pause.
poll_state_thread ==
    /\ Started /\ state_prev # bus
    /\ state_prev' = bus
    /\ UNCHANGED <<sender, setup, filters, leds, counts, queue,
                   bus, current_state, current_err_cnt, half, printed, called, changes, strange>>

Boot == Start \/ FirstPollSubmit \/ StartThreads \/ SetCallback
WorkQueue == NextWork \/ LedWork \/ Resubmit \/ StateWork

Next ==
    \/ SendLed \/ tx_irq_callback \/ SendCounter \/ CounterSent \/ StrangeFrame
    \/ Boot
    \/ rx_thread \/ WorkQueue \/ poll_state_thread
    \/ StateChanges

Fairness ==
    /\ WF_vars(Boot) /\ WF_vars(WorkQueue)
    /\ WF_vars(rx_thread) /\ WF_vars(poll_state_thread)

Spec == Init /\ [][Next]_vars /\ Fairness

----------------------------------------------------------------------------
(***************************************************************************)
(* No wake-up is lost: while LED frames are in the queue and main has      *)
(* submitted the work, the item is queued or running, and an item that     *)
(* waits for its event has nothing in the queue. A frame may arrive        *)
(* between the last k_msgq_get and k_work_poll_submit. Only a handler that *)
(* could not submit itself again (main.c:115-117) stops for good.          *)
(***************************************************************************)
NoLostWakeup ==
    /\ polling => change_led_msgq = <<>> /\ ~Submitted("led")
    /\ setup \in {"threads", "callback", "loop"} =>
          polling \/ Submitted("led") \/ handler \in {"led", "resubmit"} \/ unpolled

(***************************************************************************)
(* When the queue has been worked off, the LED shows the last command that *)
(* found room in it, remote frames and overflows in between or not.        *)
(***************************************************************************)
LedFollows == change_led_msgq = <<>> => led = lastLed

(***************************************************************************)
(* rx_thread prints the counter frames in the order in which main made     *)
(* them, none twice, and each with the number that main gave it, which is  *)
(* its position modulo 2^16: the numbers printed go up by any amount, as   *)
(* an overflow of the queue or a frame that was not sent leaves a gap, and *)
(* start again at zero when the uint16_t wraps. A frame of another length  *)
(* prints nothing.                                                         *)
(***************************************************************************)
CountersInOrder ==
    [][rx_thread => \/ /\ received' > received /\ received' <= total
                       /\ shown' = (received' - 1) % COUNTER_WRAP
                    \/ UNCHANGED <<received, shown>> /\ ~Head(counter_msgq).good]_vars

(***************************************************************************)
(* The last bus state is reported by both ways, the work item and the      *)
(* polling thread, and with its own error counters: a line that mixes two  *)
(* changes, because the interrupt came between the two reads, is always    *)
(* followed by another one. current_state and current_err_cnt are shared   *)
(* with the interrupt without a lock.                                      *)
(***************************************************************************)
StateReported ==
    <>[](/\ called => printed = <<current_state, current_state>>
         /\ Started => state_prev = bus)

=============================================================================
