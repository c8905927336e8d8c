-------------------------- MODULE CanCounterProofs --------------------------
(***************************************************************************)
(* Proofs about the CAN counter demo: no wake-up of the LED work item is   *)
(* lost, the LED shows the last command queued and the counters printed    *)
(* are those sent, in their order, wrapped around or not, for every depth  *)
(* of the queues, range of the counter and number of mailboxes, of bus     *)
(* states and of frames.                                                   *)
(***************************************************************************)
EXTENDS CanCounter, Integers, SequenceTheorems, TLAPS

----------------------------------------------------------------------------
(* The inductive invariant, one part for each group of variables *)

SenderTypeOK ==
    /\ sending \in {"led", "count", "wait"} /\ toggle \in 0..1 /\ counter \in 0..(COUNTER_WRAP - 1)
    /\ mailboxes \in Seq(LedFrames) /\ Len(mailboxes) <= MAILBOXES
    /\ outgoing \in CounterFrames /\ outgoing.good /\ total \in 0..MAX_COUNT

CountsTypeOK ==
    /\ counter_msgq \in Seq(CounterFrames) /\ Len(counter_msgq) <= DEPTH
    /\ received \in 0..MAX_COUNT /\ shown \in 0..(COUNTER_WRAP - 1)

LedsTypeOK ==
    /\ change_led_msgq \in Seq(LedFrames) /\ Len(change_led_msgq) <= DEPTH
    /\ led \in {"set", "reset"} /\ lastLed \in {"set", "reset"}

StatesTypeOK ==
    /\ {bus, current_state, current_err_cnt, state_prev, half} \subseteq States
    /\ printed \in States \X States
    /\ called \in BOOLEAN /\ changes \in 0..MAX_CHANGES /\ strange \in 0..MAX_STRANGE

\* Each work item is in the queue at most once.
WorkLists == {<<>>, <<"led">>, <<"state">>, <<"led", "state">>, <<"state", "led">>}

Busy == handler \in {"led", "resubmit"}
Begun == setup \in {"threads", "callback", "loop"}

\* Once main has submitted it, the LED work item is in exactly one place: it
\* waits for its event, is queued, or runs. Before that, and after it could not
\* submit itself again, it is nowhere.
LedItem ==
    /\ setup \in {"start", "filter", "submit", "threads", "callback", "loop", "ended"}
    /\ filters \subseteq {"led", "counter"}
    /\ polling \in BOOLEAN /\ unpolled \in BOOLEAN
    /\ work \in WorkLists
    /\ handler \in {"none", "led", "resubmit", "state", "counts"}
    /\ polling => change_led_msgq = <<>> /\ ~Submitted("led") /\ ~Busy
    /\ Busy => ~Submitted("led")
    /\ Begun => polling \/ Submitted("led") \/ Busy \/ unpolled
    /\ unpolled => Begun
    /\ ~Begun \/ unpolled => ~polling /\ ~Submitted("led") /\ ~Busy

\* The last command queued is the last one in the queue that is no remote
\* frame, or the one that the LED got if there is none.
LastCommand ==
    /\ (\A n \in 1..Len(change_led_msgq) : change_led_msgq[n] = "rtr") => lastLed = led
    /\ \A n \in 1..Len(change_led_msgq) :
          /\ change_led_msgq[n] # "rtr"
          /\ \A m \in 1..Len(change_led_msgq) : m > n => change_led_msgq[m] = "rtr"
          => lastLed = change_led_msgq[n]

\* The first frame that is still to be put on the bus.
NextCount == IF sending = "wait" THEN outgoing.nth ELSE total

\* The good frames in the queue are in order, between what was printed last
\* and what is still to be sent.
CountsInOrder ==
    /\ sending = "wait" => outgoing.nth < total
    /\ received <= NextCount
    /\ \A n \in 1..Len(counter_msgq) : counter_msgq[n].good =>
          received <= counter_msgq[n].nth /\ counter_msgq[n].nth < NextCount
    /\ \A m, n \in 1..Len(counter_msgq) :
          m < n /\ counter_msgq[m].good /\ counter_msgq[n].good =>
              counter_msgq[m].nth < counter_msgq[n].nth

\* A frame carries its position, wrapped around.
Numbered(frame) == frame.count = frame.nth % COUNTER_WRAP

\* The counter, the frame on its way and the good ones in the queue are numbered.
CountsNumbered ==
    /\ counter = total % COUNTER_WRAP
    /\ Numbered(outgoing)
    /\ \A n \in 1..Len(counter_msgq) : counter_msgq[n].good => Numbered(counter_msgq[n])

CounterIInv ==
    /\ SenderTypeOK /\ CountsTypeOK /\ LedsTypeOK /\ StatesTypeOK
    /\ LedItem
    /\ LastCommand
    /\ CountsInOrder /\ CountsNumbered

----------------------------------------------------------------------------
(* The work queue *)

WithLed == {<<"led">>, <<"led", "state">>, <<"state", "led">>}
WithState == {<<"state">>, <<"led", "state">>, <<"state", "led">>}

\* Which lists hold which item.
LEMMA ItemsOf ==
    ASSUME NEW w \in WorkLists
    PROVE  /\ "led" \in {w[n] : n \in DOMAIN w} <=> w \in WithLed
           /\ "state" \in {w[n] : n \in DOMAIN w} <=> w \in WithState
  <1> USE DEF WithLed, WithState
  <1>1. CASE w = <<>>  BY <1>1
  <1>2. CASE w = <<"led">>  BY <1>2
  <1>3. CASE w = <<"state">>  BY <1>3
  <1>4. CASE w = <<"led", "state">>  BY <1>4
  <1>5. CASE w = <<"state", "led">>  BY <1>5
  <1> QED  BY <1>1, <1>2, <1>3, <1>4, <1>5 DEF WorkLists

\* A second item behind a single one: the work queue never holds more.
LEMMA AppendToOne ==
    ASSUME NEW x, NEW y
    PROVE  Append(<<x>>, y) = <<x, y>>
  <1> DEFINE S == {x, y}
  <1>1. <<x>> \in Seq(S) /\ Len(<<x>>) = 1  OBVIOUS
  <1>2. Append(<<x>>, y) \in Seq(S) /\ Len(Append(<<x>>, y)) = 2  BY <1>1
  <1>3. Append(<<x>>, y)[1] = x /\ Append(<<x>>, y)[2] = y  BY <1>1
  <1>4. <<x, y>> \in Seq(S) /\ Len(<<x, y>>) = 2  OBVIOUS
  <1>5. \A i \in 1..2 : Append(<<x>>, y)[i] = <<x, y>>[i]  BY <1>3
  <1> QED  BY <1>2, <1>4, <1>5, SeqEqual

\* Submitting an item puts it in the queue and leaves the other one alone.
LEMMA SubmitStep ==
    ASSUME work \in WorkLists, NEW item \in {"led", "state"}, Submit(item)
    PROVE  /\ work' \in WorkLists
           /\ Submitted("led")' <=> Submitted("led") \/ item = "led"
  <1>1. /\ Submitted("led") <=> work \in WithLed
        /\ Submitted("state") <=> work \in WithState
    BY ItemsOf DEF Submitted
  <1>2. work' \in WorkLists /\ (work' \in WithLed <=> work \in WithLed \/ item = "led")
    <2> USE DEF Submit, WorkLists, WithLed, WithState
    <2>1. CASE work = <<>>  BY <1>1, <2>1
    <2>2. CASE work = <<"led">>
      <3>1. Append(<<"led">>, "state") = <<"led", "state">>  BY AppendToOne
      <3>2. item = "led" => work' = work  BY <1>1, <2>2
      <3>3. item = "state" => work' = <<"led", "state">>  BY <1>1, <2>2, <3>1
      <3> QED  BY <2>2, <3>2, <3>3
    <2>3. CASE work = <<"state">>
      <3>1. Append(<<"state">>, "led") = <<"state", "led">>  BY AppendToOne
      <3>2. item = "state" => work' = work  BY <1>1, <2>3
      <3>3. item = "led" => work' = <<"state", "led">>  BY <1>1, <2>3, <3>1
      <3> QED  BY <2>3, <3>2, <3>3
    <2>4. CASE Submitted("led") /\ Submitted("state")  BY <1>1, <2>4
    <2> QED  BY <1>1, <2>1, <2>2, <2>3, <2>4
  <1>3. Submitted("led")' <=> work' \in WithLed  BY <1>2, ItemsOf DEF Submitted
  <1> QED  BY <1>1, <1>2, <1>3

\* Taking the next item removes it from the queue.
LEMMA TakeStep ==
    ASSUME work \in WorkLists, work # <<>>, work' = Tail(work)
    PROVE  /\ Head(work) \in {"led", "state"}
           /\ work' \in WorkLists
           /\ Head(work) = "led" => Submitted("led") /\ ~Submitted("led")'
           /\ Head(work) = "state" => (Submitted("led")' <=> Submitted("led"))
  <1> USE DEF WorkLists, WithLed
  <1>1. /\ Head(work) \in {"led", "state"}
        /\ work' \in WorkLists
        /\ Head(work) = "led" => work \in WithLed /\ work' \notin WithLed
        /\ Head(work) = "state" => (work' \in WithLed <=> work \in WithLed)
    <2>1. CASE work = <<"led">>  BY <2>1
    <2>2. CASE work = <<"state">>  BY <2>2
    <2>3. CASE work = <<"led", "state">>  BY <2>3
    <2>4. CASE work = <<"state", "led">>  BY <2>4
    <2> QED  BY <2>1, <2>2, <2>3, <2>4
  <1>2. Submitted("led") <=> work \in WithLed  BY ItemsOf DEF Submitted
  <1>3. Submitted("led")' <=> work' \in WithLed  BY <1>1, ItemsOf DEF Submitted
  <1> QED  BY <1>1, <1>2, <1>3

----------------------------------------------------------------------------
(* The sender and the counter frames *)

\* Main's start-up and loop and the transmit interrupt keep the sender's types.
LEMMA SenderStep ==
    ASSUME SenderTypeOK, [Next]_vars
    PROVE  SenderTypeOK'
  <1> USE CounterAssumption DEF SenderTypeOK
  <1>1. CASE SendLed  BY <1>1 DEF SendLed, LedFrames
  <1>2. CASE tx_irq_callback  BY <1>2 DEF tx_irq_callback
  <1>3. CASE SendCounter
    <2>1. (counter + 1) % COUNTER_WRAP \in 0..(COUNTER_WRAP - 1)  OBVIOUS
    <2>2. /\ outgoing' = [good |-> TRUE, count |-> counter, nth |-> total]
          /\ total' = total + 1 /\ total < MAX_COUNT
          /\ counter' \in 0..(COUNTER_WRAP - 1)
          /\ sending' \in {"led", "wait"} /\ UNCHANGED <<toggle, mailboxes>>
      BY <1>3, <2>1 DEF SendCounter
    <2>3. outgoing' \in CounterFrames /\ outgoing'.good  BY <2>2 DEF CounterFrames
    <2> QED  BY <2>2, <2>3
  <1>4. CASE CounterSent  BY <1>4 DEF CounterSent
  <1>5. CASE UNCHANGED sender  BY <1>5 DEF sender
  <1> QED
    BY <1>1, <1>2, <1>3, <1>4, <1>5
    DEF Next, vars, StrangeFrame, Boot, Start, FirstPollSubmit, StartThreads, SetCallback,
        rx_thread, WorkQueue, NextWork, LedWork, Resubmit, StateWork, poll_state_thread,
        StateChanges

\* The position of the next frame is a number.
LEMMA NextCountType ==
    ASSUME SenderTypeOK
    PROVE  NextCount \in Nat /\ outgoing.nth \in Nat /\ total \in Nat
  BY DEF SenderTypeOK, NextCount, CounterFrames

\* A frame from the bus: at the end of the queue, or dropped.
LEMMA CounterArrives ==
    ASSUME SenderTypeOK, CountsTypeOK, CountsInOrder,
           NEW frame \in CounterFrames, ReceiveCounter(frame),
           frame.good => frame.nth = NextCount,
           UNCHANGED <<received, shown>>,
           NextCount' \in Nat, NextCount <= NextCount',
           frame.good => NextCount < NextCount',
           sending' = "wait" => outgoing'.nth < total'
    PROVE  CountsTypeOK' /\ CountsInOrder'
  <1>0. \A n \in 1..Len(counter_msgq) : counter_msgq[n].nth \in Nat
    <2> SUFFICES ASSUME NEW n \in 1..Len(counter_msgq) PROVE counter_msgq[n].nth \in Nat
      OBVIOUS
    <2>1. counter_msgq[n] \in CounterFrames  BY DEF CountsTypeOK
    <2> QED  BY <2>1 DEF CounterFrames
  <1>1. NextCount \in Nat /\ received \in Nat
    BY NextCountType DEF CountsTypeOK
  <1>2. CASE counter_msgq' = counter_msgq
    <2>1. CountsTypeOK'  BY <1>2 DEF CountsTypeOK
    <2> QED  BY <1>0, <1>1, <1>2, <2>1 DEF CountsInOrder
  <1>3. CASE counter_msgq' = Append(counter_msgq, frame) /\ Len(counter_msgq) < DEPTH
    <2>1. counter_msgq' \in Seq(CounterFrames) /\ Len(counter_msgq') = Len(counter_msgq) + 1
      BY <1>3 DEF CountsTypeOK
    <2>2. \A n \in 1..Len(counter_msgq) : counter_msgq'[n] = counter_msgq[n]
      BY <1>3 DEF CountsTypeOK
    <2>3. counter_msgq'[Len(counter_msgq) + 1] = frame  BY <1>3 DEF CountsTypeOK
    <2>4. Len(counter_msgq) \in Nat  BY DEF CountsTypeOK
    <2>5. \A n \in 1..Len(counter_msgq') : counter_msgq'[n].good =>
              received <= counter_msgq'[n].nth /\ counter_msgq'[n].nth < NextCount'
      <3> SUFFICES ASSUME NEW n \in 1..Len(counter_msgq'), counter_msgq'[n].good
                   PROVE  received <= counter_msgq'[n].nth /\ counter_msgq'[n].nth < NextCount'
        OBVIOUS
      <3>1. CASE n = Len(counter_msgq) + 1
        BY <1>1, <2>3, <3>1 DEF CountsInOrder
      <3>2. CASE n \in 1..Len(counter_msgq)
        BY <1>0, <1>1, <2>2, <3>2 DEF CountsInOrder
      <3> QED  BY <2>1, <2>4, <3>1, <3>2
    <2>6. \A m, n \in 1..Len(counter_msgq') :
              m < n /\ counter_msgq'[m].good /\ counter_msgq'[n].good =>
                  counter_msgq'[m].nth < counter_msgq'[n].nth
      <3> SUFFICES ASSUME NEW m \in 1..Len(counter_msgq'), NEW n \in 1..Len(counter_msgq'),
                          m < n, counter_msgq'[m].good, counter_msgq'[n].good
                   PROVE  counter_msgq'[m].nth < counter_msgq'[n].nth
        OBVIOUS
      <3>1. m \in 1..Len(counter_msgq)  BY <2>1, <2>4
      <3>2. CASE n = Len(counter_msgq) + 1
        BY <2>2, <2>3, <3>1, <3>2 DEF CountsInOrder
      <3>3. CASE n \in 1..Len(counter_msgq)
        BY <2>2, <3>1, <3>3 DEF CountsInOrder
      <3> QED  BY <2>1, <2>4, <3>2, <3>3
    <2>7. received <= NextCount'  BY <1>1 DEF CountsInOrder
    <2>8. CountsTypeOK'  BY <1>3, <2>1, <2>4, CounterAssumption DEF CountsTypeOK
    <2> QED  BY <2>5, <2>6, <2>7, <2>8 DEF CountsInOrder
  <1> QED  BY <1>2, <1>3 DEF ReceiveCounter

\* Nothing arrives, and the sender goes on or stays.
LEMMA CountsKept ==
    ASSUME SenderTypeOK, CountsTypeOK, CountsInOrder, UNCHANGED counts,
           NextCount' \in Nat, NextCount <= NextCount',
           sending' = "wait" => outgoing'.nth < total'
    PROVE  CountsTypeOK' /\ CountsInOrder'
  <1>1. \A n \in 1..Len(counter_msgq) : counter_msgq[n].nth \in Nat
    <2> SUFFICES ASSUME NEW n \in 1..Len(counter_msgq) PROVE counter_msgq[n].nth \in Nat
      OBVIOUS
    <2>1. counter_msgq[n] \in CounterFrames  BY DEF CountsTypeOK
    <2> QED  BY <2>1 DEF CounterFrames
  <1>2. NextCount \in Nat /\ received \in Nat
    BY NextCountType DEF CountsTypeOK
  <1>3. CountsTypeOK'  BY DEF counts, CountsTypeOK
  <1> QED  BY <1>1, <1>2, <1>3 DEF counts, CountsInOrder

\* rx_thread takes the first frame: the ones behind it are larger.
LEMMA CounterPrinted ==
    ASSUME SenderTypeOK, CountsTypeOK, CountsInOrder, rx_thread
    PROVE  CountsTypeOK' /\ CountsInOrder'
  <1> DEFINE q == counter_msgq
             h == Head(counter_msgq)
  <1>1. /\ q \in Seq(CounterFrames) /\ q # <<>> /\ q' = Tail(q)
        /\ received' = IF h.good THEN h.nth + 1 ELSE received
        /\ shown' = IF h.good THEN h.count ELSE shown
        /\ UNCHANGED <<sending, total, outgoing>>
    BY DEF rx_thread, CountsTypeOK, Printable, sender
  <1>2. /\ Len(q) \in Nat /\ Len(q) >= 1 /\ h = q[1]
        /\ q' \in Seq(CounterFrames) /\ Len(q') = Len(q) - 1
        /\ \A n \in 1..Len(q') : q'[n] = q[n + 1] /\ n + 1 \in 1..Len(q)
    BY <1>1
  <1>3. \A n \in 1..Len(q) : q[n].nth \in Nat
    <2> SUFFICES ASSUME NEW n \in 1..Len(q) PROVE q[n].nth \in Nat  OBVIOUS
    <2>1. q[n] \in CounterFrames  BY <1>1
    <2> QED  BY <2>1 DEF CounterFrames
  <1>4. NextCount \in Nat /\ NextCount' = NextCount /\ NextCount <= total
        /\ total <= MAX_COUNT /\ total \in Nat /\ received \in Nat
    BY <1>1, CounterAssumption, NextCountType
    DEF SenderTypeOK, CountsTypeOK, CountsInOrder, NextCount
  <1>5. 1 \in 1..Len(q) /\ h.nth \in Nat  BY <1>2, <1>3
  <1>6. received' \in Nat /\ received <= received' /\ received' <= NextCount
    <2>1. CASE h.good
      <3>1. received <= h.nth /\ h.nth < NextCount  BY <1>2, <1>5, <2>1 DEF CountsInOrder
      <3> QED  BY <1>1, <1>4, <1>5, <2>1, <3>1
    <2>2. CASE ~h.good  BY <1>1, <1>4, <2>2 DEF CountsInOrder
    <2> QED  BY <2>1, <2>2
  <1>7. \A n \in 1..Len(q') : q'[n].good => received' <= q'[n].nth /\ q'[n].nth < NextCount
    <2> SUFFICES ASSUME NEW n \in 1..Len(q'), q'[n].good
                 PROVE  received' <= q'[n].nth /\ q'[n].nth < NextCount
      OBVIOUS
    <2>1. /\ q'[n] = q[n + 1] /\ n + 1 \in 1..Len(q) /\ 1 < n + 1
          /\ q[n + 1].nth \in Nat
      BY <1>2, <1>3
    <2>2. received <= q[n + 1].nth /\ q[n + 1].nth < NextCount
      BY <2>1 DEF CountsInOrder
    <2>3. h.good => h.nth < q[n + 1].nth
      BY <1>2, <1>5, <2>1 DEF CountsInOrder
    <2> QED  BY <1>1, <1>5, <2>1, <2>2, <2>3
  <1>8. \A m, n \in 1..Len(q') : m < n /\ q'[m].good /\ q'[n].good => q'[m].nth < q'[n].nth
    BY <1>2 DEF CountsInOrder
  <1>9. CountsTypeOK'
    <2>1. h \in CounterFrames  BY <1>1
    <2>2. shown' \in 0..(COUNTER_WRAP - 1)  BY <1>1, <2>1 DEF CounterFrames, CountsTypeOK
    <2> QED  BY <1>2, <1>4, <1>6, <2>2, CounterAssumption DEF CountsTypeOK
  <1> QED  BY <1>1, <1>4, <1>6, <1>7, <1>8, <1>9 DEF CountsInOrder

\* The steps that touch the counter frames.
LEMMA CountsStep ==
    ASSUME SenderTypeOK, CountsTypeOK, CountsInOrder, [Next]_vars
    PROVE  CountsTypeOK' /\ CountsInOrder'
  <1>1. CASE UNCHANGED <<total, outgoing, counts>> /\ (sending' = "wait" <=> sending = "wait")
    BY <1>1 DEF counts, CountsTypeOK, CountsInOrder, NextCount
  <1>2. CASE SendLed  BY <1>1, <1>2 DEF SendLed
  <1>3. CASE SendCounter
    <2>1. sending = "count" /\ outgoing'.nth = total /\ total' = total + 1
      BY <1>3 DEF SendCounter
    <2>2. /\ NextCount' \in Nat /\ NextCount <= NextCount'
          /\ sending' = "wait" => outgoing'.nth < total'
      BY <2>1, NextCountType DEF NextCount
    <2> QED  BY <1>3, <2>2, CountsKept DEF SendCounter
  <1>4. CASE CounterSent
    <2>1. /\ sending = "wait" /\ sending' = "led" /\ UNCHANGED <<total, outgoing, received, shown>>
          /\ NextCount = outgoing.nth /\ NextCount' = total /\ outgoing.nth < total
          /\ total \in Nat /\ outgoing.nth \in Nat /\ outgoing \in CounterFrames
      BY <1>4, NextCountType DEF CounterSent, NextCount, CountsInOrder, SenderTypeOK
    <2>2. CASE ReceiveCounter(outgoing)
      BY <2>1, <2>2, CounterArrives
    <2>3. CASE UNCHANGED counter_msgq
      BY <2>1, <2>3, CountsKept DEF counts
    <2> QED  BY <1>4, <2>2, <2>3 DEF CounterSent
  <1>5. CASE StrangeFrame
    <2>1. UNCHANGED <<sending, total, outgoing, received, shown>>  BY <1>5 DEF StrangeFrame, sender
    <2>2. CASE ReceiveCounter([good |-> FALSE, count |-> 0, nth |-> 0])
      <3> DEFINE frame == [good |-> FALSE, count |-> 0, nth |-> 0]
      <3>1. frame \in CounterFrames /\ ~frame.good  BY CounterAssumption DEF CounterFrames
      <3>2. NextCount' = NextCount /\ NextCount \in Nat  BY <2>1, NextCountType DEF NextCount
      <3>3. sending' = "wait" => outgoing'.nth < total'  BY <2>1 DEF CountsInOrder
      <3> QED  BY <2>1, <2>2, <3>1, <3>2, <3>3, CounterArrives
    <2>3. CASE UNCHANGED counter_msgq  BY <1>1, <2>1, <2>3 DEF counts
    <2> QED  BY <1>5, <2>2, <2>3 DEF StrangeFrame
  <1>6. CASE rx_thread  BY <1>6, CounterPrinted
  <1> QED
    BY <1>1, <1>2, <1>3, <1>4, <1>5, <1>6
    DEF Next, vars, sender, counts, tx_irq_callback, Boot, Start, FirstPollSubmit, StartThreads,
        SetCallback, WorkQueue, NextWork, LedWork, Resubmit, StateWork, poll_state_thread,
        StateChanges

----------------------------------------------------------------------------
(* The numbers that the frames carry *)

\* Quotient and remainder.
LEMMA Division ==
    ASSUME NEW n \in Nat, NEW w \in Nat \ {0}
    PROVE  /\ n = w * (n \div w) + (n % w) /\ n \div w \in Int
           /\ n % w \in 0..(w - 1)
  OBVIOUS

\* A remainder is determined by its number.
LEMMA OneRemainder ==
    ASSUME NEW w \in Nat \ {0}, NEW q \in Int, NEW p \in Int,
           NEW r \in 0..(w - 1), NEW s \in 0..(w - 1), w * q + r = w * p + s
    PROVE  r = s
  <1>1. w * (q - p) = s - r  OBVIOUS
  <1>2. CASE q - p >= 1
    <2>1. w * (q - p) >= w  BY <1>2
    <2> QED  BY <1>1, <2>1
  <1>3. CASE q - p <= -1
    <2>1. w * (q - p) <= -w  BY <1>3
    <2> QED  BY <1>1, <2>1
  <1>4. CASE q = p  BY <1>4
  <1> QED  BY <1>2, <1>3, <1>4

\* counter++ of a wrapped counter is the wrapped increment.
LEMMA WrapStep ==
    ASSUME NEW n \in Nat, NEW w \in Nat \ {0}
    PROVE  ((n % w) + 1) % w = (n + 1) % w
  <1>1. /\ n = w * (n \div w) + (n % w) /\ n \div w \in Int
        /\ n % w \in 0..(w - 1)
    BY Division
  <1>2. /\ n + 1 = w * ((n + 1) \div w) + ((n + 1) % w) /\ (n + 1) \div w \in Int
        /\ (n + 1) % w \in 0..(w - 1)
    BY Division
  <1>3. CASE (n % w) + 1 < w
    <2>1. n + 1 = w * (n \div w) + ((n % w) + 1)  BY <1>1
    <2>2. (n % w) + 1 \in 0..(w - 1)  BY <1>1, <1>3
    <2>3. (n + 1) % w = (n % w) + 1  BY <1>1, <1>2, <2>1, <2>2, OneRemainder
    <2>4. \A k \in 0..(w - 1) : k % w = k  OBVIOUS
    <2> QED  BY <2>2, <2>3, <2>4
  <1>4. CASE (n % w) + 1 = w
    <2>1. w * ((n \div w) + 1) = w * (n \div w) + w  BY <1>1
    <2>2. n + 1 = w * ((n \div w) + 1) + 0 /\ (n \div w) + 1 \in Int /\ 0 \in 0..(w - 1)
      BY <1>1, <1>4, <2>1
    <2>3. (n + 1) % w = 0  BY <1>2, <2>2, OneRemainder
    <2>4. w % w = 0  OBVIOUS
    <2> QED  BY <1>4, <2>3, <2>4
  <1> QED  BY <1>1, <1>3, <1>4

\* A frame from the bus that is numbered, or no good, keeps the queue numbered.
LEMMA NumberArrives ==
    ASSUME CountsTypeOK, CountsNumbered, NEW frame \in CounterFrames, ReceiveCounter(frame),
           frame.good => Numbered(frame), UNCHANGED <<counter, total, outgoing>>
    PROVE  CountsNumbered'
  <1> DEFINE q == counter_msgq
  <1>1. CASE q' = q  BY <1>1 DEF CountsNumbered, Numbered
  <1>2. CASE q' = Append(q, frame)
    <2>1. /\ Len(q) \in Nat /\ Len(q') = Len(q) + 1
          /\ \A n \in 1..Len(q) : q'[n] = q[n]
          /\ q'[Len(q) + 1] = frame
      BY <1>2 DEF CountsTypeOK
    <2>2. ASSUME NEW n \in 1..Len(q'), q'[n].good PROVE Numbered(q'[n])
      <3>1. n \in 1..Len(q) \/ n = Len(q) + 1  BY <2>1
      <3> QED  BY <2>1, <2>2, <3>1 DEF CountsNumbered
    <2> QED  BY <2>2 DEF CountsNumbered, Numbered
  <1> QED  BY <1>1, <1>2 DEF ReceiveCounter

\* Making a frame: it gets the counter, and the counter steps.
LEMMA NumberMade ==
    ASSUME SenderTypeOK, CountsNumbered, SendCounter
    PROVE  CountsNumbered'
  <1>1. /\ outgoing' = [good |-> TRUE, count |-> counter, nth |-> total]
        /\ counter' = (counter + 1) % COUNTER_WRAP /\ total' = total + 1
        /\ counter_msgq' = counter_msgq
    BY DEF SendCounter, counts
  <1>2. outgoing'.count = counter /\ outgoing'.nth = total  BY <1>1
  <1>3. counter = total % COUNTER_WRAP  BY DEF CountsNumbered
  <1>4. Numbered(outgoing')  BY <1>2, <1>3 DEF Numbered
  <1>5. total \in Nat /\ COUNTER_WRAP \in Nat \ {0}  BY CounterAssumption DEF SenderTypeOK
  <1>6. counter' = total' % COUNTER_WRAP  BY <1>1, <1>3, <1>5, WrapStep
  <1> QED  BY <1>1, <1>4, <1>6 DEF CountsNumbered, Numbered

\* rx_thread takes a frame from the front of the queue.
LEMMA NumberTaken ==
    ASSUME CountsTypeOK, CountsNumbered, rx_thread
    PROVE  CountsNumbered'
  <1> DEFINE q == counter_msgq
  <1>1. /\ q \in Seq(CounterFrames) /\ q # <<>> /\ q' = Tail(q)
        /\ UNCHANGED <<counter, total, outgoing>>
    BY DEF rx_thread, CountsTypeOK, sender
  <1>2. \A n \in 1..Len(q') : q'[n] = q[n + 1] /\ n + 1 \in 1..Len(q)
    BY <1>1
  <1> QED  BY <1>1, <1>2 DEF CountsNumbered, Numbered

\* The steps that touch the counter and its frames.
LEMMA NumbersStep ==
    ASSUME SenderTypeOK, CountsTypeOK, CountsNumbered, [Next]_vars
    PROVE  CountsNumbered'
  <1>1. CASE UNCHANGED <<counter, total, outgoing, counter_msgq>>
    BY <1>1 DEF CountsNumbered, Numbered
  <1>2. CASE SendCounter  BY <1>2, NumberMade
  <1>3. CASE CounterSent
    <2>1. /\ UNCHANGED <<counter, total, outgoing>>
          /\ ReceiveCounter(outgoing) \/ UNCHANGED counter_msgq
      BY <1>3 DEF CounterSent
    <2>2. outgoing \in CounterFrames /\ Numbered(outgoing)  BY DEF SenderTypeOK, CountsNumbered
    <2> QED  BY <1>1, <2>1, <2>2, NumberArrives
  <1>4. CASE StrangeFrame
    <2> DEFINE frame == [good |-> FALSE, count |-> 0, nth |-> 0]
    <2>1. /\ UNCHANGED <<counter, total, outgoing>>
          /\ ReceiveCounter(frame) \/ UNCHANGED counter_msgq
      BY <1>4 DEF StrangeFrame, sender
    <2>2. frame \in CounterFrames /\ ~frame.good  BY CounterAssumption DEF CounterFrames
    <2> QED  BY <1>1, <2>1, <2>2, NumberArrives
  <1>5. CASE rx_thread  BY <1>5, NumberTaken
  <1> QED
    BY <1>1, <1>2, <1>3, <1>4, <1>5
    DEF Next, vars, sender, counts, SendLed, tx_irq_callback, Boot, Start, FirstPollSubmit,
        StartThreads, SetCallback, WorkQueue, NextWork, LedWork, Resubmit, StateWork,
        poll_state_thread, StateChanges

\* What rx_thread prints is the next frame's number, or nothing.
LEMMA NumberPrinted ==
    ASSUME SenderTypeOK, CountsTypeOK, CountsInOrder, CountsNumbered, rx_thread
    PROVE  \/ /\ received' > received /\ received' <= total
              /\ shown' = (received' - 1) % COUNTER_WRAP
           \/ UNCHANGED <<received, shown>> /\ ~Head(counter_msgq).good
  <1> DEFINE q == counter_msgq
             h == Head(counter_msgq)
  <1>1. /\ q \in Seq(CounterFrames) /\ q # <<>>
        /\ IF h.good THEN received' = h.nth + 1 /\ shown' = h.count
                     ELSE UNCHANGED <<received, shown>>
    BY DEF rx_thread, CountsTypeOK, Printable
  <1>2. 1 \in 1..Len(q) /\ h = q[1] /\ h \in CounterFrames  BY <1>1
  <1>3. h.nth \in Nat /\ received \in Nat /\ total \in Nat
    BY <1>2 DEF CounterFrames, CountsTypeOK, SenderTypeOK
  <1>4. CASE h.good
    <2>1. received <= h.nth /\ h.nth < NextCount /\ Numbered(h)
      BY <1>2, <1>4 DEF CountsInOrder, CountsNumbered
    <2>2. NextCount \in Nat /\ NextCount <= total
      BY DEF NextCount, SenderTypeOK, CountsInOrder, CounterFrames
    <2>3. received' > received /\ received' <= total /\ received' - 1 = h.nth
      BY <1>1, <1>3, <1>4, <2>1, <2>2
    <2> QED  BY <1>1, <1>4, <2>1, <2>3 DEF Numbered
  <1>5. CASE ~h.good  BY <1>1, <1>5
  <1> QED  BY <1>4, <1>5

----------------------------------------------------------------------------
(* The LED *)

\* A frame from the bus: at the end of the queue, or dropped.
LEMMA LedArrives ==
    ASSUME LedsTypeOK, LastCommand, NEW frame \in LedFrames, ReceiveLed(frame), led' = led
    PROVE  LedsTypeOK' /\ LastCommand'
  <1> DEFINE q == change_led_msgq
  <1>1. CASE UNCHANGED <<change_led_msgq, lastLed>>
    BY <1>1 DEF LedsTypeOK, LastCommand
  <1>2. CASE /\ change_led_msgq' = Append(change_led_msgq, frame)
             /\ lastLed' = IF frame = "rtr" THEN lastLed ELSE frame
             /\ Len(change_led_msgq) < DEPTH
    <2>1. /\ Len(q) \in Nat /\ Len(q') = Len(q) + 1 /\ q' \in Seq(LedFrames)
          /\ \A n \in 1..Len(q) : q'[n] = q[n]
          /\ q'[Len(q) + 1] = frame
      BY <1>2 DEF LedsTypeOK
    <2>2. LedsTypeOK'  BY <1>2, <2>1, CounterAssumption DEF LedsTypeOK, LedFrames
    <2>3. CASE frame = "rtr"
      BY <1>2, <2>1, <2>2, <2>3 DEF LastCommand
    <2>4. CASE frame # "rtr"
      BY <1>2, <2>1, <2>2, <2>4 DEF LastCommand
    <2> QED  BY <2>3, <2>4
  <1> QED  BY <1>1, <1>2 DEF ReceiveLed

\* The work item takes the first frame.
LEMMA LedTaken ==
    ASSUME LedsTypeOK, LastCommand, LedWork
    PROVE  LedsTypeOK' /\ LastCommand'
  <1> DEFINE q == change_led_msgq
  <1>1. CASE q = <<>>  BY <1>1 DEF LedWork, LedsTypeOK, LastCommand
  <1>2. CASE q # <<>>
    <2>1. /\ q \in Seq(LedFrames) /\ q' = Tail(q) /\ lastLed' = lastLed
          /\ led' = IF Head(q) = "rtr" THEN led ELSE Head(q)
      BY <1>2 DEF LedWork, LedsTypeOK, LedAfter
    <2>2. /\ Len(q) \in Nat /\ Len(q) >= 1 /\ Head(q) = q[1] /\ q[1] \in LedFrames
          /\ q' \in Seq(LedFrames) /\ Len(q') = Len(q) - 1
          /\ \A n \in 1..Len(q') : q'[n] = q[n + 1] /\ n + 1 \in 1..Len(q)
      BY <1>2, <2>1
    <2>3. LedsTypeOK'  BY <2>1, <2>2, CounterAssumption DEF LedsTypeOK, LedFrames
    <2>4. \A m \in 1..Len(q) : m > 1 => m - 1 \in 1..Len(q') /\ q[m] = q'[m - 1]
      BY <2>2
    <2>5. (\A n \in 1..Len(q') : q'[n] = "rtr") => lastLed' = led'
      <3> SUFFICES ASSUME \A n \in 1..Len(q') : q'[n] = "rtr" PROVE lastLed' = led'
        OBVIOUS
      <3>1. \A m \in 1..Len(q) : m > 1 => q[m] = "rtr"  BY <2>4
      <3>2. CASE q[1] = "rtr"
        <4>1. \A m \in 1..Len(q) : q[m] = "rtr"  BY <3>1, <3>2
        <4> QED  BY <2>1, <2>2, <3>2, <4>1 DEF LastCommand
      <3>3. CASE q[1] # "rtr"  BY <2>1, <2>2, <3>1, <3>3 DEF LastCommand
      <3> QED  BY <3>2, <3>3
    <2>6. ASSUME NEW n \in 1..Len(q'), q'[n] # "rtr",
                 \A m \in 1..Len(q') : m > n => q'[m] = "rtr"
          PROVE  lastLed' = q'[n]
      <3>1. q'[n] = q[n + 1] /\ n + 1 \in 1..Len(q)  BY <2>2
      <3>2. ASSUME NEW m \in 1..Len(q), m > n + 1 PROVE q[m] = "rtr"
        <4>1. m > 1 /\ m - 1 \in 1..Len(q') /\ m - 1 > n  BY <2>2, <3>2
        <4> QED  BY <2>4, <2>6, <4>1
      <3> QED  BY <2>1, <2>6, <3>1, <3>2 DEF LastCommand
    <2> QED  BY <2>3, <2>5, <2>6 DEF LastCommand
  <1> QED  BY <1>1, <1>2

\* The steps that touch the LED and its queue.
LEMMA LedsStep ==
    ASSUME SenderTypeOK, LedsTypeOK, LastCommand, [Next]_vars
    PROVE  LedsTypeOK' /\ LastCommand'
  <1>1. CASE UNCHANGED leds  BY <1>1 DEF leds, LedsTypeOK, LastCommand
  <1>2. CASE tx_irq_callback
    <2>1. Head(mailboxes) \in LedFrames  BY <1>2 DEF tx_irq_callback, SenderTypeOK
    <2>2. CASE ReceiveLed(Head(mailboxes))
      BY <1>2, <2>1, <2>2, LedArrives DEF tx_irq_callback
    <2>3. CASE UNCHANGED <<change_led_msgq, lastLed>>
      BY <1>1, <1>2, <2>3 DEF tx_irq_callback, leds
    <2> QED  BY <1>2, <2>2, <2>3 DEF tx_irq_callback
  <1>3. CASE StrangeFrame
    <2>1. "rtr" \in LedFrames  BY DEF LedFrames
    <2>2. CASE ReceiveLed("rtr")  BY <1>3, <2>1, <2>2, LedArrives DEF StrangeFrame
    <2>3. CASE UNCHANGED <<change_led_msgq, lastLed>>
      BY <1>1, <1>3, <2>3 DEF StrangeFrame, leds
    <2> QED  BY <1>3, <2>2, <2>3 DEF StrangeFrame
  <1>4. CASE LedWork  BY <1>4, LedTaken
  <1> QED
    BY <1>1, <1>2, <1>3, <1>4
    DEF Next, vars, SendLed, SendCounter, CounterSent, Boot, Start, FirstPollSubmit,
        StartThreads, SetCallback, rx_thread, WorkQueue, NextWork, Resubmit, StateWork,
        poll_state_thread, StateChanges

----------------------------------------------------------------------------
(* The LED work item *)

\* A frame from the bus wakes the work item up if it waits.
LEMMA LedWakes ==
    ASSUME LedItem, NEW frame, ReceiveLed(frame), UNCHANGED <<setup, filters, handler, unpolled>>
    PROVE  LedItem'
  <1> USE DEF LedItem, Busy, Begun
  <1>1. CASE UNCHANGED <<change_led_msgq, polling, work>>  BY <1>1 DEF Submitted
  <1>2. CASE polling /\ polling' = FALSE /\ Submit("led")
    <2>1. work' \in WorkLists /\ Submitted("led")'  BY <1>2, SubmitStep
    <2>2. polling' \in BOOLEAN  BY <1>2, Zenon
    <2> QED  BY <1>2, <2>1, <2>2
  <1>3. CASE ~polling /\ UNCHANGED <<polling, work>>  BY <1>3 DEF Submitted
  <1> QED  BY <1>1, <1>2, <1>3 DEF ReceiveLed, Trigger

\* k_work_poll_submit of an item that is nowhere: it waits or is queued.
LEMMA LedSubmitted ==
    ASSUME LedItem, PollSubmit, UNCHANGED <<filters, change_led_msgq>>,
           ~polling, ~Submitted("led"), ~Busy', ~unpolled, unpolled' = unpolled,
           setup' \in {"threads", "callback", "loop"}, handler' \in {"none", "state", "counts"}
    PROVE  LedItem'
  <1> USE DEF LedItem, Busy, Begun
  <1>1. CASE change_led_msgq = <<>>
    <2>1. polling' \in BOOLEAN /\ polling'  BY <1>1, Zenon DEF PollSubmit
    <2>2. ~Submitted("led")' /\ work' \in WorkLists  BY <1>1 DEF PollSubmit, Submitted
    <2> QED  BY <1>1, <2>1, <2>2
  <1>2. CASE change_led_msgq # <<>>
    <2>1. Submit("led") /\ polling' = polling  BY <1>2 DEF PollSubmit
    <2>2. work' \in WorkLists /\ Submitted("led")'  BY <2>1, SubmitStep
    <2> QED  BY <2>1, <2>2
  <1> QED  BY <1>1, <1>2

\* The steps that touch the work item.
LEMMA LedItemStep ==
    ASSUME LedItem, [Next]_vars
    PROVE  LedItem'
  <1> USE DEF LedItem, Busy, Begun
  <1>1. CASE UNCHANGED <<setup, filters, change_led_msgq, queue>>
    BY <1>1 DEF queue, Submitted
  <1>2. CASE tx_irq_callback
    <2>1. UNCHANGED <<setup, filters, handler, unpolled>>  BY <1>2 DEF tx_irq_callback
    <2>2. CASE ReceiveLed(Head(mailboxes))  BY <2>1, <2>2, LedWakes
    <2>3. CASE UNCHANGED <<change_led_msgq, polling, work>>
      BY <1>1, <2>1, <2>3 DEF queue
    <2> QED  BY <1>2, <2>2, <2>3 DEF tx_irq_callback
  <1>3. CASE StrangeFrame
    <2>1. UNCHANGED <<setup, filters, handler, unpolled>>  BY <1>3 DEF StrangeFrame
    <2>2. CASE ReceiveLed("rtr")  BY <2>1, <2>2, LedWakes
    <2>3. CASE UNCHANGED <<change_led_msgq, polling, work>>
      BY <1>1, <2>1, <2>3 DEF queue
    <2> QED  BY <1>3, <2>2, <2>3 DEF StrangeFrame
  <1>4. CASE Start \/ StartThreads \/ SetCallback
    <2>1. UNCHANGED <<change_led_msgq, polling, work, handler, unpolled>>
      BY <1>4 DEF Start, StartThreads, SetCallback, queue, leds
    <2>2. /\ setup' \in {"filter", "submit", "callback", "loop", "ended"}
          /\ Begun' <=> Begun
          /\ filters' \subseteq {"led", "counter"}
      BY <1>4 DEF Start, StartThreads, SetCallback
    <2> QED  BY <2>1, <2>2 DEF Submitted
  <1>5. CASE FirstPollSubmit
    <2>1. /\ ~polling /\ ~Submitted("led") /\ ~Busy /\ ~Busy' /\ ~unpolled
          /\ UNCHANGED <<filters, change_led_msgq, handler, unpolled>>
      BY <1>5 DEF FirstPollSubmit, leds
    <2>2. CASE setup' = "threads" /\ PollSubmit  BY <2>1, <2>2, LedSubmitted
    <2>3. CASE setup' = "ended" /\ UNCHANGED <<polling, work>>
      BY <2>1, <2>3 DEF Submitted
    <2> QED  BY <1>5, <2>2, <2>3 DEF FirstPollSubmit
  <1>6. CASE NextWork
    <2>1. /\ Head(work) \in {"led", "state"} /\ work' \in WorkLists
          /\ Head(work) = "led" => Submitted("led") /\ ~Submitted("led")'
          /\ Head(work) = "state" => (Submitted("led")' <=> Submitted("led"))
      BY <1>6, TakeStep DEF NextWork
    <2> QED  BY <1>6, <2>1 DEF NextWork, leds
  <1>7. CASE LedWork
    <2>1. handler = "led" /\ handler' \in {"led", "resubmit"} /\ ~polling
          /\ UNCHANGED <<setup, filters, polling, work, unpolled>>
      BY <1>7 DEF LedWork
    <2> QED  BY <2>1 DEF Submitted
  <1>8. CASE Resubmit
    <2>1. /\ ~polling /\ ~Submitted("led") /\ handler' = "none" /\ ~Busy' /\ ~unpolled
          /\ UNCHANGED <<setup, filters, change_led_msgq>> /\ Begun
      BY <1>8 DEF Resubmit, leds
    <2>2. CASE PollSubmit /\ UNCHANGED unpolled  BY <2>1, <2>2, LedSubmitted
    <2>3. CASE UNCHANGED <<polling, work>> /\ unpolled' = TRUE
      <3>1. unpolled' \in BOOLEAN  BY <2>3, Zenon
      <3> QED  BY <2>1, <2>3, <3>1 DEF Submitted
    <2> QED  BY <1>8, <2>2, <2>3 DEF Resubmit
  <1>9. CASE StateWork
    BY <1>9 DEF StateWork, leds, Submitted
  <1>10. CASE StateChanges
    <2>1. UNCHANGED <<setup, filters, change_led_msgq, polling, handler, unpolled>>
      BY <1>10 DEF StateChanges, leds
    <2>2. CASE work' = work  BY <1>1, <2>1, <2>2 DEF queue
    <2>3. CASE Submit("state")
      <3>1. work' \in WorkLists /\ (Submitted("led")' <=> Submitted("led"))
        BY <2>3, SubmitStep
      <3> QED  BY <2>1, <3>1
    <2> QED  BY <1>10, <2>2, <2>3 DEF StateChanges, state_change_callback
  <1> QED
    BY <1>1, <1>2, <1>3, <1>4, <1>5, <1>6, <1>7, <1>8, <1>9, <1>10
    DEF Next, vars, leds, queue, SendLed, SendCounter, CounterSent, Boot, rx_thread, WorkQueue,
        poll_state_thread

----------------------------------------------------------------------------
(* The bus state *)

\* The state-change callback, its work item and poll_state_thread keep their types.
LEMMA StatesStep ==
    ASSUME StatesTypeOK, [Next]_vars
    PROVE  StatesTypeOK'
  <1> USE CounterAssumption DEF StatesTypeOK
  <1>1. CASE UNCHANGED <<states, strange>>  BY <1>1 DEF states
  <1>2. CASE StrangeFrame  BY <1>2 DEF StrangeFrame, states
  <1>3. CASE StateChanges
    <2>1. called' \in BOOLEAN  BY <1>3, Zenon DEF StateChanges, state_change_callback
    <2>2. {bus, current_state, current_err_cnt, state_prev, half}' \subseteq States
      BY <1>3 DEF StateChanges, state_change_callback
    <2>3. changes' \in 0..MAX_CHANGES  BY <1>3 DEF StateChanges
    <2> QED  BY <1>3, <2>1, <2>2, <2>3 DEF StateChanges
  <1>4. CASE StateWork  BY <1>4 DEF StateWork
  <1>5. CASE poll_state_thread  BY <1>5 DEF poll_state_thread
  <1> QED
    BY <1>1, <1>2, <1>3, <1>4, <1>5
    DEF Next, vars, SendLed, tx_irq_callback, SendCounter, CounterSent, Boot, Start,
        FirstPollSubmit, StartThreads, SetCallback, rx_thread, WorkQueue, NextWork, LedWork, Resubmit

----------------------------------------------------------------------------
(* The theorems *)

\* Every step keeps every part of the invariant.
LEMMA CounterStep ==
    ASSUME CounterIInv, [Next]_vars
    PROVE  CounterIInv'
  BY SenderStep, CountsStep, NumbersStep, LedsStep, LedItemStep, StatesStep DEF CounterIInv

\* The invariant holds when main starts.
LEMMA CounterStart == Init => CounterIInv
  <1> SUFFICES ASSUME Init PROVE CounterIInv  OBVIOUS
  <1> USE CounterAssumption DEF Init
  <1>1. polling \in BOOLEAN /\ unpolled \in BOOLEAN /\ called \in BOOLEAN  BY Zenon
  <1>2. SenderTypeOK /\ CountsTypeOK /\ LedsTypeOK
    BY DEF SenderTypeOK, CountsTypeOK, LedsTypeOK, LedFrames, CounterFrames
  <1>3. StatesTypeOK  BY <1>1 DEF StatesTypeOK
  <1>4. LedItem  BY <1>1 DEF LedItem, WorkLists, Busy, Begun, Submitted
  <1>5. LastCommand /\ CountsInOrder  BY DEF LastCommand, CountsInOrder, NextCount
  <1>6. CountsNumbered
    <2>1. 0 % COUNTER_WRAP = 0  OBVIOUS
    <2> QED  BY <2>1 DEF CountsNumbered, Numbered
  <1> QED  BY <1>2, <1>3, <1>4, <1>5, <1>6 DEF CounterIInv

(***************************************************************************)
(* The inductive invariant of the CAN counter demo.                        *)
(***************************************************************************)
THEOREM CounterInvariant == Spec => []CounterIInv
  <1>1. CounterIInv /\ [Next]_vars => CounterIInv'  BY CounterStep
  <1> QED  BY <1>1, CounterStart, PTL DEF Spec

(***************************************************************************)
(* The queues, the mailboxes and the work queue keep within their limits   *)
(* and their types: no item is queued twice in the system work queue.      *)
(***************************************************************************)
THEOREM CounterTypeOK == Spec => []TypeOK
  <1>1. CounterIInv => TypeOK
    <2> SUFFICES ASSUME CounterIInv PROVE TypeOK  OBVIOUS
    <2>1. work \in Seq({"led", "state"}) /\ Len(work) <= 2
      <3>1. CASE work = <<>>  BY <3>1
      <3>2. CASE work = <<"led">>  BY <3>2
      <3>3. CASE work = <<"state">>  BY <3>3
      <3>4. CASE work = <<"led", "state">>  BY <3>4
      <3>5. CASE work = <<"state", "led">>  BY <3>5
      <3> QED  BY <3>1, <3>2, <3>3, <3>4, <3>5 DEF CounterIInv, LedItem, WorkLists
    <2>2. {led, lastLed} \subseteq {"set", "reset"}  BY DEF CounterIInv, LedsTypeOK
    <2> QED  BY <2>1, <2>2, Zenon
          DEF CounterIInv, SenderTypeOK, CountsTypeOK, LedsTypeOK, StatesTypeOK, LedItem, TypeOK
  <1> QED  BY <1>1, CounterInvariant, PTL

(***************************************************************************)
(* No wake-up of the LED work item is lost, wherever a frame arrives       *)
(* between the last k_msgq_get and k_work_poll_submit.                     *)
(***************************************************************************)
THEOREM WakeupIsNotLost == Spec => []NoLostWakeup
  <1>1. CounterIInv => NoLostWakeup
    BY DEF CounterIInv, LedItem, Busy, Begun, NoLostWakeup
  <1> QED  BY <1>1, CounterInvariant, PTL

(***************************************************************************)
(* When its queue is empty the LED shows the last command that was queued. *)
(***************************************************************************)
THEOREM LedIsCurrent == Spec => []LedFollows
  <1>1. CounterIInv => LedFollows
    BY DEF CounterIInv, LastCommand, LedFollows
  <1> QED  BY <1>1, CounterInvariant, PTL

(***************************************************************************)
(* rx_thread prints the frames in the order in which they were made, none  *)
(* twice, and with the numbers that they were given, modulo the range of   *)
(* the counter.                                                            *)
(***************************************************************************)
THEOREM CountersAreInOrder == Spec => CountersInOrder
  <1> DEFINE Printed == rx_thread =>
                \/ /\ received' > received /\ received' <= total
                   /\ shown' = (received' - 1) % COUNTER_WRAP
                \/ UNCHANGED <<received, shown>> /\ ~Head(counter_msgq).good
  <1>1. CounterIInv /\ [Next]_vars => [Printed]_vars
    BY NumberPrinted DEF CounterIInv
  <1> QED  BY <1>1, CounterInvariant, PTL DEF Spec, CountersInOrder

=============================================================================
