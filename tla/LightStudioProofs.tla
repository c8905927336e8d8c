------------------------- MODULE LightStudioProofs -------------------------
(***************************************************************************)
(* Proofs about the LIGHT STUDIO: the types and buffer bounds, who holds   *)
(* state_lock, and that the tabs show the LED's colour, for every number   *)
(* of tabs, slots, descriptors and colours.                                *)
(***************************************************************************)
EXTENDS LightStudio, SequenceTheorems, TLAPS

----------------------------------------------------------------------------
(* The inductive invariant *)

States == {"none", "hello", "hello_send", "poll", "apply", "bcast", "closing", "freeing"}

DeviceTypes ==
    /\ rgb \in Colors
    /\ state_lock \in Slots \cup {Nobody}
    /\ ws_clients \in [Slots -> Socks \cup {NoSock}]
    /\ thread \in [Slots -> States]
    /\ sock \in [Slots -> Socks \cup {NoSock}]
    /\ cmd \in [Slots -> Colors]
    /\ next \in [Slots -> 1..(WS_MAX_CLIENTS + 1)]
    /\ peer \in [Socks -> Tabs \cup {NoTab}]
    /\ up \in [Socks -> Seq(Messages)]

TabTypes ==
    /\ inbox \in [Tabs -> Seq(Colors \cup {"closed"})]
    /\ conn \in [Tabs -> Socks \cup {NoSock}]
    /\ view \in [Tabs -> Colors]
    /\ card \in [Tabs -> BOOLEAN]
    /\ editing \in [Tabs -> BOOLEAN]
    /\ sendTimer \in [Tabs -> BOOLEAN]
    /\ sendDirty \in [Tabs -> BOOLEAN]
    /\ touched \in [Tabs -> BOOLEAN]
    /\ writings \in 0..2
    /\ discarded \in BOOLEAN

\* state_lock is held over a snapshot and its sends, and over nothing else.
LockHeld == \A s \in Slots : state_lock = s <=> thread[s] \in {"hello_send", "bcast"}

\* The thread of slot s still owns its socket.
Serving(s) == thread[s] \notin {"none", "freeing"}

\* A descriptor that is in use belongs to one serving thread; a slot that is
\* only waiting to be freed may name a descriptor of somebody else.
SlotsOwnSockets ==
    /\ ws_clients = sock
    /\ \A s \in Slots : thread[s] = "none" <=> sock[s] = NoSock
    /\ \A s \in Slots : Serving(s) => peer[sock[s]] # NoTab
    /\ \A r, s \in Slots : Serving(r) /\ Serving(s) /\ sock[r] = sock[s] => r = s
    /\ \A f \in Socks : peer[f] # NoTab => \E s \in Slots : Serving(s) /\ sock[s] = f

\* What is on its way to the device: from a writer nothing but colours.
Uplinks ==
    /\ \A f \in Socks : Len(up[f]) <= OUTBOX
    /\ \A f \in Socks : peer[f] = NoTab => up[f] = <<>>
    /\ \A t \in Writers : Reaches(t) => up[conn[t]] \in Seq(Colors)

Last(q) == q[Len(q)]

\* What is on its way to a tab: colours, and at the end of a closed stream one
\* "closed".
DownlinkOK(t) ==
    /\ conn[t] = NoSock => inbox[t] = <<>> /\ ~card[t]
    /\ Reaches(t) => inbox[t] \in Seq(Colors) /\ Len(inbox[t]) <= INBOX
    /\ conn[t] # NoSock /\ ~Reaches(t) =>
          inbox[t] # <<>> /\ Len(inbox[t]) <= INBOX + 1 /\ Last(inbox[t]) = "closed"

Downlinks == \A t \in Tabs : DownlinkOK(t)

\* The editor, the throttle and the history of a tab.
Editors ==
    \A t \in Tabs :
        /\ editing[t] => card[t] /\ t \in Writers
        /\ sendDirty[t] => sendTimer[t] /\ touched[t]
        /\ touched[t] => t \in Writers /\ writings > 0

Colored(q) == \E i \in 1..Len(q) : q[i] \in Colors

\* A colour that comes from a tab over a socket it still uses is one that the
\* tab chose on this connection.
Commands ==
    /\ \A f \in Socks : Live(f) /\ Colored(up[f]) => touched[peer[f]]
    /\ \A s \in Slots :
          thread[s] \in {"apply", "bcast"} /\ Live(sock[s]) => touched[peer[sock[s]]]

\* The colour tab t shows once it has read what is on its way.
Shown(t) == IF inbox[t] = <<>> THEN view[t] ELSE Last(inbox[t])

\* Slot s, which serves t, has yet to send its first state.
HelloDue(t, s) == thread[s] \in {"hello", "hello_send"} /\ sock[s] = conn[t]

\* The broadcast of slot r's thread has yet to come to slot s, which serves t.
BroadcastDue(t, r, s) ==
    /\ thread[r] = "bcast"
    /\ sock[r] # conn[t]
    /\ Serving(s) /\ sock[s] = conn[t]
    /\ next[r] <= s

\* Tab t is up to date, or a state message is due to it.
Fresh(t) ==
    \/ Shown(t) = rgb
    \/ \E s \in Slots : HelloDue(t, s)
    \/ \E r, s \in Slots : BroadcastDue(t, r, s)

Watched == \A t \in Tabs : Reaches(t) /\ ~touched[t] => Fresh(t)

\* Slot s sends tab t one state message.
Greeted(t, s) ==
    /\ thread[s] \in {"hello", "hello_send"} => inbox[t] = <<>> /\ ~card[t]
    /\ card[t] => inbox[t] = <<>>
    /\ Len(inbox[t]) <= 1

\* Before the first edit there is no command, and a tab gets one state message.
NothingWritten ==
    writings = 0 =>
        /\ \A f \in Socks : ~Colored(up[f])
        /\ \A s \in Slots : thread[s] \notin {"apply", "bcast"}
        /\ \A t \in Tabs, s \in Slots :
              Reaches(t) /\ Serving(s) /\ sock[s] = conn[t] => Greeted(t, s)

\* The colour the LED gets once the commands of slot s are applied.
Commanded(s) ==
    IF up[sock[s]] # <<>> THEN Last(up[sock[s]])
    ELSE IF thread[s] = "apply" THEN cmd[s] ELSE rgb

\* Tab t writes alone: all commands come over its connection, no state message
\* comes back over it, and the last command is the tab's colour, unless the
\* throttle is yet to send it or gave it up.
WritesAlone(t) ==
    /\ \A f \in Socks \ {conn[t]} : ~Colored(up[f])
    /\ \A s \in Slots : thread[s] \in {"apply", "bcast"} => sock[s] = conn[t]
    /\ inbox[t] = <<>>
    /\ \A s \in Slots : Serving(s) /\ sock[s] = conn[t] =>
          /\ thread[s] \notin {"hello", "hello_send"}
          /\ discarded \/ sendDirty[t] \/ Commanded(s) = view[t]

LoneWriter ==
    writings <= 1 =>
        /\ \A t, u \in Tabs : touched[t] /\ touched[u] => t = u
        /\ \A t \in Tabs : touched[t] /\ Reaches(t) => WritesAlone(t)

StudioIInv ==
    /\ DeviceTypes /\ TabTypes /\ LockHeld
    /\ SlotsOwnSockets /\ Uplinks /\ Downlinks
    /\ Editors /\ Commands /\ Watched /\ NothingWritten /\ LoneWriter

----------------------------------------------------------------------------
(* Queues *)

\* A message behind the others.
LEMMA AppendFacts ==
    ASSUME NEW S, NEW q \in Seq(S), NEW m \in S
    PROVE  /\ Append(q, m) \in Seq(S)
           /\ Len(Append(q, m)) = Len(q) + 1 /\ Append(q, m) # <<>>
           /\ Last(Append(q, m)) = m
           /\ Colored(Append(q, m)) => Colored(q) \/ m \in Colors
  <1>1. /\ Append(q, m) \in Seq(S)
        /\ Len(Append(q, m)) = Len(q) + 1 /\ Append(q, m) # <<>>
    BY AppendProperties
  <1>2. Last(Append(q, m)) = m  BY DEF Last
  <1>3. Colored(Append(q, m)) => Colored(q) \/ m \in Colors  BY DEF Colored
  <1> QED  BY <1>1, <1>2, <1>3

\* The message at the head is taken.
LEMMA TailFacts ==
    ASSUME NEW S, NEW q \in Seq(S), q # <<>>
    PROVE  /\ Head(q) \in S /\ Tail(q) \in Seq(S) /\ Len(Tail(q)) = Len(q) - 1
           /\ Tail(q) = <<>> => Head(q) = Last(q)
           /\ Tail(q) # <<>> => Last(Tail(q)) = Last(q)
           /\ Colored(Tail(q)) => Colored(q)
           /\ Head(q) \in Colors => Colored(q)
  <1>1. Head(q) \in S /\ Tail(q) \in Seq(S) /\ Len(Tail(q)) = Len(q) - 1
    OBVIOUS
  <1>2. Tail(q) = <<>> => Head(q) = Last(q)
    <2>1. Tail(q) = <<>> => Len(q) = 1  BY <1>1
    <2> QED  BY <2>1 DEF Last
  <1>3. Tail(q) # <<>> => Last(Tail(q)) = Last(q)
    <2>1. Tail(q) # <<>> => Len(q) > 1  BY <1>1, EmptySeq
    <2> QED  BY <1>1, <2>1 DEF Last
  <1>4. Colored(Tail(q)) => Colored(q)  BY DEF Colored
  <1>5. Head(q) \in Colors => Colored(q)  BY DEF Colored
  <1> QED  BY <1>1, <1>2, <1>3, <1>4, <1>5

\* Colours are no control messages.
LEMMA ColorNames ==
    ASSUME NEW color \in Colors
    PROVE  color # "close" /\ color # "noise" /\ color # "closed"
  BY StudioAssumption

----------------------------------------------------------------------------
(* Types *)

\* A thread that runs has a descriptor in its slot.
LEMMA ServingSock ==
    ASSUME DeviceTypes, SlotsOwnSockets, NEW s \in Slots, thread[s] # "none"
    PROVE  sock[s] \in Socks
  BY DEF DeviceTypes, SlotsOwnSockets

\* Every step keeps the types of the node's slots, threads and connections.
LEMMA DeviceTypesStep ==
    ASSUME DeviceTypes, TabTypes, SlotsOwnSockets, [Next]_vars
    PROVE  DeviceTypes'
  <1> USE DEF DeviceTypes, States
  <1>1. CASE UNCHANGED vars  BY <1>1 DEF vars, device
  <1>2. ASSUME NEW t \in Tabs, ws_setup_cb(t) PROVE DeviceTypes'
    BY <1>2 DEF ws_setup_cb, Step, FreeSlots
  <1>3. ASSUME NEW s \in Slots, HelloLock(s) PROVE DeviceTypes'
    BY <1>3 DEF HelloLock, Step
  <1>4. ASSUME NEW s \in Slots, HelloSend(s) PROVE DeviceTypes'
    BY <1>4 DEF HelloSend, Step
  <1>5. ASSUME NEW s \in Slots, Recv(s) PROVE DeviceTypes'
    <2>1. sock[s] \in Socks /\ up[sock[s]] \in Seq(Messages) /\ up[sock[s]] # <<>>
      BY <1>5, ServingSock DEF Recv
    <2> DEFINE msg == Head(up[sock[s]])
    <2>2. msg \in Messages /\ Tail(up[sock[s]]) \in Seq(Messages)  BY <2>1, TailFacts
    <2>3. /\ UNCHANGED <<rgb, state_lock, ws_clients, sock, next, peer>>
          /\ up' = [up EXCEPT ![sock[s]] = Tail(@)]
      BY <1>5 DEF Recv
    <2>4. UNCHANGED thread \/ (\E to \in States : thread' = [thread EXCEPT ![s] = to])
      BY <1>5 DEF Recv, Step
    <2>5. UNCHANGED cmd \/ (msg \notin {"close", "noise"} /\ cmd' = [cmd EXCEPT ![s] = msg])
      BY <1>5 DEF Recv
    <2>6. msg \notin {"close", "noise"} => msg \in Colors  BY <2>2 DEF Messages
    <2>7. cmd' \in [Slots -> Colors]  BY <2>5, <2>6
    <2>8. thread' \in [Slots -> States]  BY <2>4
    <2>9. up' \in [Socks -> Seq(Messages)]  BY <2>1, <2>2, <2>3
    <2> QED  BY <2>3, <2>7, <2>8, <2>9
  <1>6. ASSUME NEW s \in Slots, Break(s) PROVE DeviceTypes'
    BY <1>6 DEF Break, Step
  <1>7. ASSUME NEW s \in Slots, Apply(s) PROVE DeviceTypes'
    BY <1>7, StudioAssumption DEF Apply, Step
  <1>8. ASSUME NEW s \in Slots, Broadcast(s) PROVE DeviceTypes'
    <2>1. next[s] \in Nat /\ next[s] >= 1 /\ next[s] <= WS_MAX_CLIENTS /\ WS_MAX_CLIENTS \in Nat
      BY <1>8, StudioAssumption DEF Broadcast
    <2>2. next[s] + 1 \in 1..(WS_MAX_CLIENTS + 1)  BY <2>1
    <2>3. next' = [next EXCEPT ![s] = next[s] + 1]  BY <1>8 DEF Broadcast
    <2>4. UNCHANGED <<rgb, state_lock, ws_clients, thread, sock, cmd, peer, up>>
      BY <1>8 DEF Broadcast
    <2> QED  BY <2>2, <2>3, <2>4
  <1>9. ASSUME NEW s \in Slots, BroadcastDone(s) PROVE DeviceTypes'
    BY <1>9, StudioAssumption DEF BroadcastDone, Step
  <1>10. ASSUME NEW s \in Slots, Unregister(s) PROVE DeviceTypes'
    <2>1. /\ peer' = [peer EXCEPT ![sock[s]] = NoTab]
          /\ up' = [up EXCEPT ![sock[s]] = <<>>]
          /\ thread' = [thread EXCEPT ![s] = "freeing"]
          /\ UNCHANGED <<rgb, state_lock, ws_clients, sock, cmd, next>>
      BY <1>10 DEF Unregister, Step
    <2>2. <<>> \in Seq(Messages)  OBVIOUS
    <2> QED  BY <2>1, <2>2
  <1>11. ASSUME NEW s \in Slots, FreeSlot(s) PROVE DeviceTypes'
    BY <1>11 DEF FreeSlot, Step
  <1>12. ASSUME NEW t \in Tabs, NEW msg \in Messages, Transmit(t, msg)
         PROVE  up' \in [Socks -> Seq(Messages)]
    <2>1. CASE Reaches(t)
      <3>1. up[conn[t]] \in Seq(Messages)  BY <2>1 DEF Reaches, TabTypes
      <3>2. Append(up[conn[t]], msg) \in Seq(Messages)  BY <3>1
      <3> QED  BY <1>12, <2>1, <3>2 DEF Transmit
    <2>2. CASE ~Reaches(t)  BY <1>12, <2>2 DEF Transmit
    <2> QED  BY <2>1, <2>2
  <1>13. ASSUME NEW t \in Tabs, Tab(t) PROVE DeviceTypes'
    <2>1. UNCHANGED <<device, peer>>
      BY <1>13 DEF Tab, Upsert, Drop, LeavePage, openEditor, closeEditor, Edit, TimerFires, Noise
    <2>2. UNCHANGED up \/ \E msg \in Messages : Transmit(t, msg)
      <3>1. CASE Upsert(t) \/ Drop(t) \/ openEditor(t) \/ closeEditor(t)
        BY <3>1 DEF Upsert, Drop, openEditor, closeEditor
      <3>2. CASE LeavePage(t)  BY <3>2 DEF LeavePage, Messages
      <3>3. ASSUME NEW color \in Colors, Edit(t, color)
            PROVE  UNCHANGED up \/ \E msg \in Messages : Transmit(t, msg)
        BY <3>3 DEF Edit, queueSend, Messages
      <3>4. CASE TimerFires(t)
        <4>1. view[t] \in Messages  BY DEF TabTypes, Messages
        <4> QED  BY <3>4, <4>1 DEF TimerFires
      <3>5. CASE Noise(t)  BY <3>5 DEF Noise, Messages
      <3> QED  BY <1>13, <3>1, <3>2, <3>3, <3>4, <3>5 DEF Tab
    <2>3. up' \in [Socks -> Seq(Messages)]  BY <1>12, <2>2
    <2> QED  BY <2>1, <2>3 DEF device
  <1> QED
    BY <1>1, <1>2, <1>3, <1>4, <1>5, <1>6, <1>7, <1>8, <1>9, <1>10, <1>11, <1>13
    DEF Next, ClientThread

\* A state message gets to the tab at the other end of the socket.
Delivered(t) ==
    /\ Reaches(t) /\ Len(inbox[t]) < INBOX
    /\ inbox' = [inbox EXCEPT ![t] = Append(inbox[t], rgb)]

\* ws_send_state reaches the one tab that still uses the socket, or nobody.
LEMMA SendStep ==
    ASSUME DeviceTypes, TabTypes, NEW f \in Socks, CanSend(f), SendState(f)
    PROVE  \/ ~Live(f) /\ inbox' = inbox
           \/ peer[f] \in Tabs /\ conn[peer[f]] = f /\ Delivered(peer[f])
  <1>1. CASE Live(f)
    <2>1. peer[f] \in Tabs /\ conn[peer[f]] = f /\ f # NoSock
      BY <1>1 DEF Live, DeviceTypes
    <2>2. Reaches(peer[f])  BY <2>1 DEF Reaches
    <2> QED  BY <1>1, <2>1, <2>2 DEF CanSend, SendState, Delivered
  <1>2. CASE ~Live(f)  BY <1>2 DEF SendState
  <1> QED  BY <1>1, <1>2

\* A state message that was sent to a tab is a colour in its inbox.
LEMMA DeliveredType ==
    ASSUME DeviceTypes, TabTypes, NEW t \in Tabs, Delivered(t)
    PROVE  inbox' \in [Tabs -> Seq(Colors \cup {"closed"})]
  <1>1. inbox[t] \in Seq(Colors \cup {"closed"}) /\ rgb \in Colors \cup {"closed"}
    BY DEF DeviceTypes, TabTypes
  <1>2. Append(inbox[t], rgb) \in Seq(Colors \cup {"closed"})  BY <1>1, AppendFacts
  <1> QED  BY <1>2 DEF Delivered, TabTypes

\* What the two sends of a client thread do to the inboxes.
LEMMA HelloSent ==
    ASSUME DeviceTypes, TabTypes, SlotsOwnSockets, NEW s \in Slots, HelloSend(s)
    PROVE  \/ ~Live(sock[s]) /\ inbox' = inbox
           \/ /\ peer[sock[s]] \in Tabs /\ conn[peer[sock[s]]] = sock[s]
              /\ Delivered(peer[sock[s]])
  <1>1. sock[s] \in Socks  BY ServingSock DEF HelloSend, Step
  <1> QED  BY <1>1, SendStep DEF HelloSend

\* One round of ws_broadcast_state passes a slot over or sends to its live tab.
LEMMA BroadcastSent ==
    ASSUME DeviceTypes, TabTypes, SlotsOwnSockets, NEW s \in Slots, Broadcast(s)
    PROVE  LET f == sock[next[s]]
           IN  /\ next[s] \in Slots
               /\ \/ (f = NoSock \/ f = sock[s] \/ ~Live(f)) /\ inbox' = inbox
                  \/ /\ f \in Socks /\ f # sock[s] /\ peer[f] \in Tabs /\ conn[peer[f]] = f
                     /\ Delivered(peer[f])
  <1>1. next[s] \in Slots  BY StudioAssumption DEF Broadcast, DeviceTypes, Slots
  <1>2. ws_clients[next[s]] = sock[next[s]]  BY DEF SlotsOwnSockets
  <1>3. CASE Addressed(s, next[s])
    <2>1. /\ sock[next[s]] \in Socks /\ sock[next[s]] # sock[s]
          /\ CanSend(sock[next[s]]) /\ SendState(sock[next[s]])
      BY <1>1, <1>2, <1>3 DEF Broadcast, Addressed, DeviceTypes
    <2> QED  BY <1>1, <2>1, SendStep
  <1>4. CASE ~Addressed(s, next[s])
    BY <1>1, <1>2, <1>4 DEF Broadcast, Addressed
  <1> QED  BY <1>3, <1>4

\* Every step keeps the types of the tabs.
LEMMA TabTypesStep ==
    ASSUME DeviceTypes, TabTypes, SlotsOwnSockets, [Next]_vars
    PROVE  TabTypes'
  <1>1. CASE UNCHANGED <<inbox, conn, tab, history>>
    BY <1>1 DEF TabTypes, tab, history
  <1>2. ASSUME NEW t \in Tabs, ws_setup_cb(t) PROVE TabTypes'
    <2>1. UNCHANGED <<inbox, tab, writings, discarded>>
          /\ touched' = [touched EXCEPT ![t] = FALSE]
          /\ \E f \in Socks : conn' = [conn EXCEPT ![t] = f]
      BY <1>2 DEF ws_setup_cb
    <2> QED  BY <2>1 DEF TabTypes, tab
  <1>3. ASSUME NEW s \in Slots, HelloSend(s) PROVE TabTypes'
    <2>1. inbox' \in [Tabs -> Seq(Colors \cup {"closed"})]
      BY <1>3, HelloSent, DeliveredType DEF TabTypes
    <2> QED  BY <1>3, <2>1 DEF HelloSend, TabTypes, tab, history
  <1>4. ASSUME NEW s \in Slots, Broadcast(s) PROVE TabTypes'
    <2>1. inbox' \in [Tabs -> Seq(Colors \cup {"closed"})]
      BY <1>4, BroadcastSent, DeliveredType DEF TabTypes
    <2> QED  BY <1>4, <2>1 DEF Broadcast, TabTypes, tab, history
  <1>5. ASSUME NEW s \in Slots, Unregister(s) PROVE TabTypes'
    <2>1. inbox' \in [Tabs -> Seq(Colors \cup {"closed"})]
      <3>1. CASE Live(sock[s])
        <4>1. inbox' = [inbox EXCEPT ![peer[sock[s]]] = Append(@, "closed")]
          BY <1>5, <3>1 DEF Unregister
        <4>2. \A u \in Tabs : Append(inbox[u], "closed") \in Seq(Colors \cup {"closed"})
          BY AppendFacts DEF TabTypes
        <4> QED  BY <4>1, <4>2 DEF TabTypes
      <3>2. CASE ~Live(sock[s])  BY <1>5, <3>2 DEF Unregister, TabTypes
      <3> QED  BY <3>1, <3>2
    <2> QED  BY <1>5, <2>1 DEF Unregister, TabTypes, tab, history
  <1>6. ASSUME NEW t \in Tabs, Upsert(t) PROVE TabTypes'
    <2>1. /\ Head(inbox[t]) \in Colors
          /\ Tail(inbox[t]) \in Seq(Colors \cup {"closed"})
      BY <1>6, TailFacts DEF Upsert, TabTypes
    <2> QED  BY <1>6, <2>1 DEF Upsert, TabTypes, history
  <1>7. ASSUME NEW t \in Tabs, DropCard(t)
        PROVE  /\ inbox' \in [Tabs -> Seq(Colors \cup {"closed"})]
               /\ conn' \in [Tabs -> Socks \cup {NoSock}]
               /\ view' \in [Tabs -> Colors]
               /\ card' \in [Tabs -> BOOLEAN]
               /\ editing' \in [Tabs -> BOOLEAN]
    BY <1>7, StudioAssumption DEF DropCard, TabTypes
  <1>8. ASSUME NEW t \in Tabs, Drop(t) PROVE TabTypes'
    BY <1>7, <1>8 DEF Drop, TabTypes, history
  <1>9. ASSUME NEW t \in Tabs, LeavePage(t) PROVE TabTypes'
    BY <1>7, <1>9 DEF LeavePage, TabTypes, history
  <1>10. ASSUME NEW t \in Tabs, openEditor(t) \/ closeEditor(t) PROVE TabTypes'
    BY <1>10 DEF openEditor, closeEditor, TabTypes, history
  <1>11. ASSUME NEW t \in Tabs, NEW color \in Colors, Edit(t, color) PROVE TabTypes'
    <2>1. /\ sendTimer' \in [Tabs -> BOOLEAN]
          /\ sendDirty' \in [Tabs -> BOOLEAN]
      BY <1>11 DEF Edit, queueSend, TabTypes
    <2>2. writings' = writings \/ (writings # 2 /\ writings' = writings + 1)
      BY <1>11 DEF Edit
    <2>3. writings' \in 0..2  BY <2>2 DEF TabTypes
    <2> QED  BY <1>11, <2>1, <2>3 DEF Edit, TabTypes
  <1>12. ASSUME NEW t \in Tabs, TimerFires(t) PROVE TabTypes'
    <2>1. discarded' \in BOOLEAN  BY <1>12, Zenon DEF TimerFires
    <2>2. sendTimer' \in [Tabs -> BOOLEAN] /\ sendDirty' \in [Tabs -> BOOLEAN]
      BY <1>12 DEF TimerFires, TabTypes
    <2> QED  BY <1>12, <2>1, <2>2 DEF TimerFires, TabTypes
  <1>13. ASSUME NEW t \in Tabs, Noise(t) PROVE TabTypes'
    BY <1>1, <1>13 DEF Noise
  <1>14. ASSUME NEW s \in Slots,
                HelloLock(s) \/ Recv(s) \/ Break(s) \/ Apply(s) \/ BroadcastDone(s) \/ FreeSlot(s)
         PROVE  TabTypes'
    BY <1>1, <1>14 DEF HelloLock, Recv, Break, Apply, BroadcastDone, FreeSlot
  <1> QED
    BY <1>1, <1>2, <1>3, <1>4, <1>5, <1>6, <1>8, <1>9, <1>10, <1>11, <1>12, <1>13, <1>14
    DEF Next, ClientThread, Tab, vars

----------------------------------------------------------------------------
(* Locks, slots and editors *)

\* Every step keeps state_lock with the one thread that is sending under it.
LEMMA LockStep ==
    ASSUME DeviceTypes, LockHeld, [Next]_vars
    PROVE  LockHeld'
  <1>0. Nobody \notin Slots /\ thread \in [Slots -> States]
    BY DEF Nobody, Slots, DeviceTypes
  <1>1. CASE UNCHANGED <<state_lock, thread>>  BY <1>1 DEF LockHeld
  <1>2. ASSUME NEW s \in Slots, NEW from \in States, NEW to \in States,
               Step(s, from, to), UNCHANGED state_lock,
               from \notin {"hello_send", "bcast"}, to \notin {"hello_send", "bcast"}
        PROVE  LockHeld'
    BY <1>0, <1>2 DEF Step, LockHeld
  <1>3. ASSUME NEW t \in Tabs, ws_setup_cb(t) PROVE LockHeld'
    <2>1. PICK s \in Slots : Step(s, "none", "hello") /\ UNCHANGED state_lock
      BY <1>3 DEF ws_setup_cb, FreeSlots
    <2> QED  BY <1>2, <2>1 DEF States
  <1>4. ASSUME NEW s \in Slots, Break(s) \/ Unregister(s) \/ FreeSlot(s) PROVE LockHeld'
    BY <1>2, <1>4 DEF Break, Unregister, FreeSlot, States
  <1>5. ASSUME NEW s \in Slots, Recv(s) PROVE LockHeld'
    BY <1>1, <1>2, <1>5 DEF Recv, States
  <1>6. ASSUME NEW s \in Slots, HelloLock(s) \/ Apply(s) PROVE LockHeld'
    BY <1>0, <1>6 DEF HelloLock, Apply, Step, LockHeld
  <1>7. ASSUME NEW s \in Slots, HelloSend(s) \/ BroadcastDone(s) PROVE LockHeld'
    BY <1>0, <1>7 DEF HelloSend, BroadcastDone, Step, LockHeld
  <1>8. ASSUME NEW s \in Slots, Broadcast(s) PROVE LockHeld'
    BY <1>1, <1>8 DEF Broadcast
  <1>9. ASSUME NEW t \in Tabs, Tab(t) PROVE LockHeld'
    BY <1>1, <1>9 DEF Tab, Upsert, Drop, LeavePage, openEditor, closeEditor, Edit, TimerFires,
                      Noise, device
  <1> QED
    BY <1>1, <1>3, <1>4, <1>5, <1>6, <1>7, <1>8, <1>9 DEF Next, ClientThread, vars, device

\* Every step keeps a slot's descriptor with its thread, each in one slot only.
LEMMA SlotsStep ==
    ASSUME DeviceTypes, SlotsOwnSockets, [Next]_vars
    PROVE  SlotsOwnSockets'
  <1>0. /\ thread \in [Slots -> States] /\ sock \in [Slots -> Socks \cup {NoSock}]
        /\ ws_clients \in [Slots -> Socks \cup {NoSock}]
        /\ peer \in [Socks -> Tabs \cup {NoTab}] /\ NoSock \notin Socks /\ NoTab \notin Tabs
    BY StudioAssumption DEF DeviceTypes, NoSock, Socks
  <1>1. CASE UNCHANGED <<ws_clients, sock, thread, peer>>
    BY <1>1 DEF SlotsOwnSockets, Serving
  <1>2. ASSUME NEW s \in Slots, NEW to \in States \ {"none", "freeing"}, Serving(s),
               thread' = [thread EXCEPT ![s] = to], UNCHANGED <<ws_clients, sock, peer>>
        PROVE  SlotsOwnSockets'
    <2>1. \A r \in Slots : Serving(r)' <=> Serving(r)  BY <1>0, <1>2 DEF Serving
    <2>2. \A r \in Slots : thread'[r] = "none" <=> thread[r] = "none"  BY <1>0, <1>2 DEF Serving
    <2> QED  BY <1>2, <2>1, <2>2 DEF SlotsOwnSockets
  <1>3. ASSUME NEW t \in Tabs, ws_setup_cb(t) PROVE SlotsOwnSockets'
    <2>1. PICK f \in Socks, s \in Slots :
              /\ ws_clients[s] = NoSock /\ peer[f] = NoTab
              /\ peer' = [peer EXCEPT ![f] = t]
              /\ ws_clients' = [ws_clients EXCEPT ![s] = f]
              /\ sock' = [sock EXCEPT ![s] = f]
              /\ thread[s] = "none" /\ thread' = [thread EXCEPT ![s] = "hello"]
      BY <1>3 DEF ws_setup_cb, FreeSlots, Step
    <2>2. \A r \in Slots : Serving(r)' <=> Serving(r) \/ r = s  BY <1>0, <2>1 DEF Serving
    <2>3. ~Serving(s)  BY <2>1 DEF Serving
    <2>4. ws_clients' = sock'  BY <2>1 DEF SlotsOwnSockets
    <2>5. \A r \in Slots : thread'[r] = "none" <=> sock'[r] = NoSock
      BY <1>0, <2>1 DEF SlotsOwnSockets
    <2>6. \A r \in Slots : Serving(r) => r # s /\ sock[r] # f
      BY <2>1, <2>3 DEF SlotsOwnSockets
    <2>7. \A r \in Slots : Serving(r)' => peer'[sock'[r]] # NoTab
      <3> SUFFICES ASSUME NEW r \in Slots, Serving(r)' PROVE peer'[sock'[r]] # NoTab
        OBVIOUS
      <3>1. CASE r = s  BY <1>0, <2>1, <3>1
      <3>2. CASE r # s
        <4>1. Serving(r) /\ sock'[r] = sock[r] /\ sock[r] # f  BY <1>0, <2>1, <2>2, <2>6, <3>2
        <4>2. sock[r] \in Socks  BY <4>1, ServingSock DEF Serving
        <4> QED  BY <1>0, <2>1, <4>1, <4>2 DEF SlotsOwnSockets
      <3> QED  BY <3>1, <3>2
    <2>8. \A r, q \in Slots : Serving(r)' /\ Serving(q)' /\ sock'[r] = sock'[q] => r = q
      BY <1>0, <2>1, <2>2, <2>6 DEF SlotsOwnSockets
    <2>9. \A g \in Socks : peer'[g] # NoTab => \E r \in Slots : Serving(r)' /\ sock'[r] = g
      <3> SUFFICES ASSUME NEW g \in Socks, peer'[g] # NoTab
                   PROVE  \E r \in Slots : Serving(r)' /\ sock'[r] = g
        OBVIOUS
      <3>1. CASE g = f  BY <1>0, <2>1, <2>2, <3>1
      <3>2. CASE g # f
        <4>1. PICK r \in Slots : Serving(r) /\ sock[r] = g
          BY <1>0, <2>1, <3>2 DEF SlotsOwnSockets
        <4> QED  BY <1>0, <2>1, <2>2, <2>6, <4>1
      <3> QED  BY <3>1, <3>2
    <2> QED  BY <2>4, <2>5, <2>7, <2>8, <2>9 DEF SlotsOwnSockets
  <1>4. ASSUME NEW s \in Slots, Unregister(s) PROVE SlotsOwnSockets'
    <2>1. /\ thread[s] = "closing" /\ thread' = [thread EXCEPT ![s] = "freeing"]
          /\ peer' = [peer EXCEPT ![sock[s]] = NoTab] /\ UNCHANGED <<ws_clients, sock>>
      BY <1>4 DEF Unregister, Step
    <2>2. \A r \in Slots : Serving(r)' <=> Serving(r) /\ r # s  BY <1>0, <2>1 DEF Serving
    <2>3. Serving(s) /\ sock[s] \in Socks  BY <2>1, ServingSock DEF Serving
    <2>4. \A r \in Slots : thread'[r] = "none" <=> sock'[r] = NoSock
      BY <1>0, <2>1 DEF SlotsOwnSockets
    <2>5. \A r \in Slots : Serving(r)' => peer'[sock'[r]] # NoTab
      <3> SUFFICES ASSUME NEW r \in Slots, Serving(r)' PROVE peer'[sock'[r]] # NoTab
        OBVIOUS
      <3>1. Serving(r) /\ r # s /\ sock[r] # sock[s] /\ peer[sock[r]] # NoTab
        BY <2>2, <2>3 DEF SlotsOwnSockets
      <3>2. sock[r] \in Socks  BY <3>1, ServingSock DEF Serving
      <3> QED  BY <1>0, <2>1, <3>1, <3>2
    <2>6. \A r, q \in Slots : Serving(r)' /\ Serving(q)' /\ sock'[r] = sock'[q] => r = q
      BY <2>1, <2>2 DEF SlotsOwnSockets
    <2>7. \A g \in Socks : peer'[g] # NoTab => \E r \in Slots : Serving(r)' /\ sock'[r] = g
      <3> SUFFICES ASSUME NEW g \in Socks, peer'[g] # NoTab
                   PROVE  \E r \in Slots : Serving(r)' /\ sock'[r] = g
        OBVIOUS
      <3>1. g # sock[s] /\ peer[g] # NoTab  BY <1>0, <2>1, <2>3
      <3>2. PICK r \in Slots : Serving(r) /\ sock[r] = g  BY <3>1 DEF SlotsOwnSockets
      <3> QED  BY <2>1, <2>2, <3>1, <3>2
    <2>8. ws_clients' = sock'  BY <2>1 DEF SlotsOwnSockets
    <2> QED  BY <2>4, <2>5, <2>6, <2>7, <2>8 DEF SlotsOwnSockets
  <1>5. ASSUME NEW s \in Slots, FreeSlot(s) PROVE SlotsOwnSockets'
    <2>1. /\ thread[s] = "freeing" /\ thread' = [thread EXCEPT ![s] = "none"]
          /\ ws_clients' = [ws_clients EXCEPT ![s] = NoSock]
          /\ sock' = [sock EXCEPT ![s] = NoSock] /\ UNCHANGED peer
      BY <1>5 DEF FreeSlot, Step
    <2>2. \A r \in Slots : Serving(r)' <=> Serving(r)  BY <1>0, <2>1 DEF Serving
    <2>3. \A r \in Slots : Serving(r) => sock'[r] = sock[r]  BY <1>0, <2>1 DEF Serving
    <2>4. ws_clients' = sock'  BY <2>1 DEF SlotsOwnSockets
    <2>5. \A r \in Slots : thread'[r] = "none" <=> sock'[r] = NoSock
      BY <1>0, <2>1 DEF SlotsOwnSockets
    <2> QED  BY <2>1, <2>2, <2>3, <2>4, <2>5 DEF SlotsOwnSockets
  <1>6. ASSUME NEW s \in Slots, HelloLock(s) \/ HelloSend(s) \/ Break(s) \/ Apply(s) \/ BroadcastDone(s)
        PROVE  SlotsOwnSockets'
    BY <1>2, <1>6 DEF HelloLock, HelloSend, Break, Apply, BroadcastDone, Step, Serving, States
  <1>7. ASSUME NEW s \in Slots, Recv(s) PROVE SlotsOwnSockets'
    BY <1>1, <1>2, <1>7 DEF Recv, Step, Serving, States
  <1>8. ASSUME NEW s \in Slots, Broadcast(s) PROVE SlotsOwnSockets'
    BY <1>1, <1>8 DEF Broadcast
  <1>9. ASSUME NEW t \in Tabs, Tab(t) PROVE SlotsOwnSockets'
    BY <1>1, <1>9 DEF Tab, Upsert, Drop, LeavePage, openEditor, closeEditor, Edit, TimerFires,
                      Noise, device
  <1> QED
    BY <1>1, <1>3, <1>4, <1>5, <1>6, <1>7, <1>8, <1>9 DEF Next, ClientThread, vars, device

\* Every step keeps an armed throttle and a dirty flag behind a touched card.
LEMMA EditorsStep ==
    ASSUME TabTypes, Editors, [Next]_vars
    PROVE  Editors'
  <1>1. CASE UNCHANGED <<tab, history>>  BY <1>1 DEF Editors, tab, history
  <1>2. ASSUME NEW s \in Slots, ClientThread(s) \/ Break(s) PROVE Editors'
    BY <1>1, <1>2 DEF ClientThread, HelloLock, HelloSend, Recv, Break, Apply, Broadcast,
                      BroadcastDone, Unregister, FreeSlot
  <1>3. ASSUME NEW t \in Tabs, ws_setup_cb(t) PROVE Editors'
    BY <1>3 DEF ws_setup_cb, Editors, TabTypes, tab
  <1>4. ASSUME NEW t \in Tabs, Upsert(t) PROVE Editors'
    BY <1>4 DEF Upsert, Editors, TabTypes, history
  <1>5. ASSUME NEW t \in Tabs, Drop(t) PROVE Editors'
    BY <1>5 DEF Drop, DropCard, Editors, TabTypes, history
  <1>6. ASSUME NEW t \in Tabs, LeavePage(t) PROVE Editors'
    BY <1>6 DEF LeavePage, DropCard, Editors, TabTypes, history
  <1>7. ASSUME NEW t \in Tabs, openEditor(t) \/ closeEditor(t) PROVE Editors'
    BY <1>7 DEF openEditor, closeEditor, Editors, TabTypes, history
  <1>8. ASSUME NEW t \in Tabs, NEW color \in Colors, Edit(t, color) PROVE Editors'
    <2>1. /\ touched' = [touched EXCEPT ![t] = TRUE] /\ editing[t]
          /\ UNCHANGED <<card, editing>>
      BY <1>8 DEF Edit
    <2>2. writings' > 0
      <3>1. writings' = writings \/ (~touched[t] /\ writings' = writings + 1)  BY <1>8 DEF Edit
      <3>2. touched[t] \/ writings = 2 \/ writings' = writings + 1  BY <1>8 DEF Edit
      <3> QED  BY <3>1, <3>2 DEF Editors, TabTypes
    <2>3. \A u \in Tabs : sendDirty'[u] => sendTimer'[u] /\ touched'[u]
      BY <1>8, <2>1 DEF Edit, queueSend, Editors, TabTypes
    <2>4. \A u \in Tabs : touched'[u] => u \in Writers
      BY <2>1 DEF Editors, TabTypes
    <2> QED  BY <2>1, <2>2, <2>3, <2>4 DEF Editors
  <1>9. ASSUME NEW t \in Tabs, TimerFires(t) PROVE Editors'
    <2>1. /\ UNCHANGED <<card, editing, touched, writings>>
          /\ sendDirty' = [sendDirty EXCEPT ![t] = FALSE]
          /\ sendTimer' = sendTimer \/ sendTimer' = [sendTimer EXCEPT ![t] = FALSE]
      BY <1>9 DEF TimerFires
    <2> QED  BY <2>1 DEF Editors, TabTypes
  <1>10. ASSUME NEW t \in Tabs, Noise(t) PROVE Editors'
    BY <1>1, <1>10 DEF Noise
  <1> QED
    BY <1>1, <1>2, <1>3, <1>4, <1>5, <1>6, <1>7, <1>8, <1>9, <1>10 DEF Next, Tab, vars

----------------------------------------------------------------------------
(* The connections *)

\* What ws.send does: the message goes to the end of the one stream that still
\* reaches the device from this tab.
LEMMA TransmitStep ==
    ASSUME DeviceTypes, TabTypes, NEW t \in Tabs, NEW msg \in Messages, Transmit(t, msg)
    PROVE  /\ Reaches(t) => /\ conn[t] \in Socks /\ up[conn[t]] \in Seq(Messages)
                            /\ up'[conn[t]] = Append(up[conn[t]], msg)
           /\ \A f \in Socks : (~Reaches(t) \/ f # conn[t]) => up'[f] = up[f]
           /\ \A w \in Tabs : Reaches(w) /\ w # t => up'[conn[w]] = up[conn[w]]
  <1>1. /\ Reaches(t) => conn[t] \in Socks /\ up[conn[t]] \in Seq(Messages)
        /\ \A w \in Tabs : Reaches(w) => conn[w] \in Socks /\ peer[conn[w]] = w
    BY DEF Reaches, DeviceTypes, TabTypes
  <1>2. up \in [Socks -> Seq(Messages)]  BY DEF DeviceTypes
  <1>3. CASE Reaches(t)
    <2>1. up' = [up EXCEPT ![conn[t]] = Append(up[conn[t]], msg)]  BY <1>3 DEF Transmit
    <2> QED  BY <1>1, <1>2, <1>3, <2>1
  <1>4. CASE ~Reaches(t)  BY <1>4 DEF Transmit
  <1> QED  BY <1>3, <1>4

\* Every step of a tab sends one message at most, for which there is room; a
\* writer sends colours until it leaves.
TabSends(t) ==
    \/ UNCHANGED up
    \/ \E msg \in Messages :
          /\ Transmit(t, msg)
          /\ Reaches(t) => Len(up[conn[t]]) < OUTBOX
          /\ t \in Writers /\ conn'[t] # NoSock => msg \in Colors

\* A step of a tab leaves the node alone, up to what it sends and a hang-up.
LEMMA TabStep ==
    ASSUME DeviceTypes, TabTypes, NEW t \in Tabs, Tab(t)
    PROVE  /\ TabSends(t) /\ UNCHANGED <<device, peer>>
           /\ conn' = conn \/ conn' = [conn EXCEPT ![t] = NoSock]
  <1> USE DEF TabSends
  <1>1. CASE Upsert(t) \/ openEditor(t) \/ closeEditor(t)
    BY <1>1 DEF Upsert, openEditor, closeEditor
  <1>2. CASE Drop(t)  BY <1>2 DEF Drop, DropCard
  <1>3. CASE LeavePage(t)
    <2>1. /\ UNCHANGED <<device, peer>> /\ conn' = [conn EXCEPT ![t] = NoSock]
          /\ Transmit(t, "close") /\ Room(t)
      BY <1>3 DEF LeavePage, DropCard
    <2>2. conn'[t] = NoSock /\ "close" \in Messages  BY <2>1 DEF TabTypes, Messages
    <2> QED  BY <2>1, <2>2 DEF Room
  <1>4. ASSUME NEW color \in Colors, Edit(t, color)
        PROVE  TabSends(t) /\ UNCHANGED <<device, peer, conn>>
    <2>1. UNCHANGED <<device, peer, conn>> /\ Room(t)  BY <1>4 DEF Edit
    <2>2. UNCHANGED up \/ Transmit(t, color)  BY <1>4 DEF Edit, queueSend
    <2>3. color \in Messages  BY DEF Messages
    <2> QED  BY <2>1, <2>2, <2>3 DEF Room
  <1>5. CASE TimerFires(t)
    <2>1. UNCHANGED <<device, peer, conn>> /\ Room(t)  BY <1>5 DEF TimerFires
    <2>2. UNCHANGED up \/ Transmit(t, view[t])  BY <1>5 DEF TimerFires
    <2>3. view[t] \in Messages /\ view[t] \in Colors  BY DEF Messages, TabTypes
    <2> QED  BY <2>1, <2>2, <2>3 DEF Room
  <1>6. CASE Noise(t)
    <2>1. /\ UNCHANGED <<device, peer, conn>> /\ up[conn[t]] = <<>> /\ t \notin Writers
          /\ Transmit(t, "noise") /\ "noise" \in Messages
      BY <1>6 DEF Noise, Messages
    <2>2. Len(up[conn[t]]) < OUTBOX  BY <2>1, StudioAssumption
    <2> QED  BY <2>1, <2>2
  <1> QED  BY <1>1, <1>2, <1>3, <1>4, <1>5, <1>6 DEF Tab

\* Every step keeps the streams from the tabs within their form and length.
LEMMA UplinksStep ==
    ASSUME DeviceTypes, TabTypes, SlotsOwnSockets, Uplinks, [Next]_vars
    PROVE  Uplinks'
  <1>0. /\ up \in [Socks -> Seq(Messages)] /\ peer \in [Socks -> Tabs \cup {NoTab}]
        /\ conn \in [Tabs -> Socks \cup {NoSock}] /\ Writers \subseteq Tabs /\ NoTab \notin Tabs
        /\ OUTBOX \in Nat
    BY StudioAssumption DEF DeviceTypes, TabTypes
  <1>1. CASE UNCHANGED <<up, peer, conn>>  BY <1>1 DEF Uplinks, Reaches
  <1>2. ASSUME NEW t \in Tabs, ws_setup_cb(t) PROVE Uplinks'
    <2>1. PICK f \in Socks :
              /\ peer[f] = NoTab /\ peer' = [peer EXCEPT ![f] = t]
              /\ conn' = [conn EXCEPT ![t] = f] /\ UNCHANGED up
      BY <1>2 DEF ws_setup_cb
    <2>2. up[f] = <<>>  BY <2>1 DEF Uplinks
    <2>3. \A w \in Tabs : Reaches(w)' => (w = t /\ conn'[w] = f) \/ (Reaches(w) /\ conn'[w] = conn[w])
      BY <1>0, <2>1 DEF Reaches
    <2>4. \A w \in Writers : Reaches(w)' => up'[conn'[w]] \in Seq(Colors)
      BY <1>0, <2>1, <2>2, <2>3 DEF Uplinks
    <2> QED  BY <1>0, <2>1, <2>4 DEF Uplinks
  <1>3. ASSUME NEW s \in Slots, Recv(s) PROVE Uplinks'
    <2>1. /\ sock[s] \in Socks /\ up[sock[s]] \in Seq(Messages) /\ up[sock[s]] # <<>>
          /\ up' = [up EXCEPT ![sock[s]] = Tail(up[sock[s]])] /\ UNCHANGED <<peer, conn>>
      BY <1>0, <1>3, ServingSock DEF Recv
    <2>2. Len(Tail(up[sock[s]])) = Len(up[sock[s]]) - 1  BY <2>1, TailFacts
    <2>3. \A f \in Socks : Len(up'[f]) <= OUTBOX
      <3> SUFFICES ASSUME NEW f \in Socks PROVE Len(up'[f]) <= OUTBOX  OBVIOUS
      <3>1. Len(up[f]) \in Nat /\ Len(up[f]) <= OUTBOX  BY <1>0 DEF Uplinks
      <3>2. up'[f] = IF f = sock[s] THEN Tail(up[f]) ELSE up[f]  BY <1>0, <2>1
      <3> QED  BY <1>0, <2>2, <3>1, <3>2
    <2>4. up[sock[s]] \in Seq(Colors) => Tail(up[sock[s]]) \in Seq(Colors)  BY <2>1, TailFacts
    <2>5. \A w \in Writers : Reaches(w)' => up'[conn'[w]] \in Seq(Colors)
      BY <1>0, <2>1, <2>4 DEF Uplinks, Reaches
    <2>6. \A f \in Socks : peer'[f] = NoTab => up'[f] = <<>>
      BY <1>0, <2>1 DEF Uplinks
    <2> QED  BY <2>3, <2>5, <2>6 DEF Uplinks
  <1>4. ASSUME NEW s \in Slots, Unregister(s) PROVE Uplinks'
    <2>1. /\ sock[s] \in Socks /\ UNCHANGED conn
          /\ peer' = [peer EXCEPT ![sock[s]] = NoTab]
          /\ up' = [up EXCEPT ![sock[s]] = <<>>]
      BY <1>4, ServingSock DEF Unregister, Step
    <2>2. Len(<<>>) = 0 /\ <<>> \in Seq(Colors)  OBVIOUS
    <2> QED  BY <1>0, <2>1, <2>2 DEF Uplinks, Reaches
  <1>5. ASSUME NEW t \in Tabs, Tab(t) PROVE Uplinks'
    <2>1. /\ TabSends(t) /\ UNCHANGED peer
          /\ conn' = conn \/ conn' = [conn EXCEPT ![t] = NoSock]
      BY <1>5, TabStep
    <2>2. \A w \in Tabs : Reaches(w)' => Reaches(w) /\ conn'[w] = conn[w]
      BY <1>0, <2>1 DEF Reaches
    <2>3. CASE UNCHANGED up  BY <1>0, <2>1, <2>2, <2>3 DEF Uplinks
    <2>4. CASE ~UNCHANGED up
      <3>1. PICK msg \in Messages :
              /\ Transmit(t, msg)
              /\ Reaches(t) => Len(up[conn[t]]) < OUTBOX
              /\ t \in Writers /\ conn'[t] # NoSock => msg \in Colors
        BY <2>1, <2>4 DEF TabSends
      <3>2. \A f \in Socks : Len(up'[f]) <= OUTBOX /\ (peer[f] = NoTab => up'[f] = <<>>)
        <4> SUFFICES ASSUME NEW f \in Socks
                     PROVE  Len(up'[f]) <= OUTBOX /\ (peer[f] = NoTab => up'[f] = <<>>)
          OBVIOUS
        <4>1. CASE Reaches(t) /\ f = conn[t]
          <5>1. up'[f] = Append(up[f], msg) /\ Len(up[f]) < OUTBOX /\ up[f] \in Seq(Messages)
            BY <3>1, <4>1, TransmitStep
          <5>2. Len(up'[f]) = Len(up[f]) + 1  BY <5>1, AppendFacts
          <5>3. peer[f] # NoTab  BY <1>0, <4>1 DEF Reaches
          <5> QED  BY <1>0, <5>1, <5>2, <5>3
        <4>2. CASE ~(Reaches(t) /\ f = conn[t])
          <5>1. up'[f] = up[f]  BY <3>1, <4>2, TransmitStep
          <5> QED  BY <5>1 DEF Uplinks
        <4> QED  BY <4>1, <4>2
      <3>3. \A w \in Writers : Reaches(w)' => up'[conn'[w]] \in Seq(Colors)
        <4> SUFFICES ASSUME NEW w \in Writers, Reaches(w)' PROVE up'[conn'[w]] \in Seq(Colors)
          OBVIOUS
        <4>1. Reaches(w) /\ conn'[w] = conn[w] /\ up[conn[w]] \in Seq(Colors) /\ w \in Tabs
          BY <1>0, <2>2 DEF Uplinks
        <4>2. CASE w = t
          <5>1. msg \in Colors  BY <3>1, <4>1, <4>2 DEF Reaches
          <5>2. up'[conn[t]] = Append(up[conn[t]], msg)  BY <3>1, <4>1, <4>2, TransmitStep
          <5> QED  BY <4>1, <4>2, <5>1, <5>2, AppendFacts
        <4>3. CASE w # t
          <5>1. up'[conn[w]] = up[conn[w]]  BY <3>1, <4>1, <4>3, TransmitStep
          <5> QED  BY <4>1, <5>1
        <4> QED  BY <4>2, <4>3
      <3> QED  BY <2>1, <3>2, <3>3 DEF Uplinks
    <2> QED  BY <2>3, <2>4
  <1>6. ASSUME NEW s \in Slots,
               HelloLock(s) \/ HelloSend(s) \/ Break(s) \/ Apply(s) \/ Broadcast(s)
                 \/ BroadcastDone(s) \/ FreeSlot(s)
        PROVE  Uplinks'
    BY <1>1, <1>6 DEF HelloLock, HelloSend, Break, Apply, Broadcast, BroadcastDone, FreeSlot
  <1> QED
    BY <1>1, <1>2, <1>3, <1>4, <1>5, <1>6 DEF Next, ClientThread, vars

\* A delivered state message leaves every stream to a tab in its form.
LEMMA DeliveredDownlinks ==
    ASSUME DeviceTypes, TabTypes, Downlinks, UNCHANGED <<peer, conn, card>>,
           NEW u \in Tabs, Delivered(u)
    PROVE  Downlinks'
  <1> SUFFICES ASSUME NEW t \in Tabs PROVE DownlinkOK(t)'
    BY DEF Downlinks
  <1>0. DownlinkOK(t) /\ (Reaches(t)' <=> Reaches(t))  BY DEF Downlinks, DownlinkOK, Reaches
  <1>1. CASE t = u
    <2>1. inbox'[t] = Append(inbox[t], rgb) /\ Reaches(t) /\ Len(inbox[t]) < INBOX
      BY <1>1 DEF Delivered, TabTypes
    <2>2. inbox[t] \in Seq(Colors) /\ rgb \in Colors  BY <1>0, <2>1 DEF DownlinkOK, DeviceTypes
    <2>3. inbox'[t] \in Seq(Colors) /\ Len(inbox'[t]) = Len(inbox[t]) + 1
      BY <2>1, <2>2, AppendFacts
    <2>4. Len(inbox'[t]) <= INBOX  BY <2>1, <2>2, <2>3, StudioAssumption
    <2>5. conn'[t] # NoSock  BY <2>1 DEF Reaches
    <2> QED  BY <1>0, <2>1, <2>3, <2>4, <2>5 DEF DownlinkOK
  <1>2. CASE t # u
    <2>1. inbox'[t] = inbox[t]  BY <1>2 DEF Delivered, TabTypes
    <2> QED  BY <1>0, <2>1 DEF DownlinkOK
  <1> QED  BY <1>1, <1>2

\* Every step keeps the streams to the tabs within their form and length.
LEMMA DownlinksStep ==
    ASSUME DeviceTypes, TabTypes, SlotsOwnSockets, Downlinks, [Next]_vars
    PROVE  Downlinks'
  <1>0. /\ peer \in [Socks -> Tabs \cup {NoTab}] /\ conn \in [Tabs -> Socks \cup {NoSock}]
        /\ inbox \in [Tabs -> Seq(Colors \cup {"closed"})] /\ card \in [Tabs -> BOOLEAN]
        /\ NoTab \notin Tabs /\ NoSock \notin Socks
    BY StudioAssumption DEF DeviceTypes, TabTypes, NoSock, Socks
  <1>1. CASE UNCHANGED <<peer, conn, inbox, card>>  BY <1>1 DEF Downlinks, DownlinkOK, Reaches
  <1>2. ASSUME NEW t \in Tabs, ws_setup_cb(t) PROVE Downlinks'
    <2>1. PICK f \in Socks :
              /\ conn[t] = NoSock /\ peer[f] = NoTab /\ peer' = [peer EXCEPT ![f] = t]
              /\ conn' = [conn EXCEPT ![t] = f] /\ UNCHANGED <<inbox, card>>
      BY <1>2 DEF ws_setup_cb, tab
    <2>2. ASSUME NEW w \in Tabs PROVE DownlinkOK(w)'
      <3>1. CASE w = t
        <4>1. inbox'[t] = <<>> /\ conn'[t] # NoSock /\ Reaches(t)'
          BY <1>0, <2>1 DEF Downlinks, DownlinkOK, Reaches
        <4>2. <<>> \in Seq(Colors) /\ Len(<<>>) <= INBOX  BY StudioAssumption
        <4> QED  BY <3>1, <4>1, <4>2 DEF DownlinkOK
      <3>2. CASE w # t
        <4>1. conn'[w] = conn[w] /\ (Reaches(w)' <=> Reaches(w))
          BY <1>0, <2>1, <3>2 DEF Reaches
        <4> QED  BY <2>1, <4>1 DEF DownlinkOK, Downlinks
      <3> QED  BY <3>1, <3>2
    <2> QED  BY <2>2 DEF Downlinks
  <1>3. ASSUME NEW s \in Slots, HelloSend(s) PROVE Downlinks'
    <2>1. UNCHANGED <<peer, conn, card>>  BY <1>3 DEF HelloSend, tab
    <2> QED  BY <1>1, <1>3, <2>1, HelloSent, DeliveredDownlinks
  <1>4. ASSUME NEW s \in Slots, Broadcast(s) PROVE Downlinks'
    <2>1. UNCHANGED <<peer, conn, card>>  BY <1>4 DEF Broadcast, tab
    <2>2. UNCHANGED inbox \/ \E u \in Tabs : Delivered(u)  BY <1>4, BroadcastSent
    <2> QED  BY <1>1, <2>1, <2>2, DeliveredDownlinks
  <1>5. ASSUME NEW s \in Slots, Unregister(s) PROVE Downlinks'
    <2>1. /\ sock[s] \in Socks /\ UNCHANGED <<conn, card>>
          /\ peer' = [peer EXCEPT ![sock[s]] = NoTab]
          /\ inbox' = IF Live(sock[s]) THEN [inbox EXCEPT ![peer[sock[s]]] = Append(@, "closed")]
                      ELSE inbox
      BY <1>5, ServingSock DEF Unregister, Step, tab
    <2>2. ASSUME NEW t \in Tabs PROVE DownlinkOK(t)'
      <3>1. CASE Live(sock[s]) /\ t = peer[sock[s]]
        <4>1. /\ Reaches(t) /\ conn'[t] # NoSock /\ ~Reaches(t)'
          BY <1>0, <2>1, <3>1 DEF Live, Reaches
        <4>2. inbox'[t] = Append(inbox[t], "closed")  BY <1>0, <2>1, <3>1
        <4>3. inbox[t] \in Seq(Colors \cup {"closed"}) /\ Len(inbox[t]) <= INBOX
          BY <1>0, <4>1 DEF Downlinks, DownlinkOK
        <4>4. /\ inbox'[t] # <<>> /\ Len(inbox'[t]) = Len(inbox[t]) + 1
              /\ Last(inbox'[t]) = "closed"
          BY <4>2, <4>3, AppendFacts
        <4>5. Len(inbox'[t]) <= INBOX + 1  BY <4>3, <4>4, StudioAssumption
        <4> QED  BY <4>1, <4>4, <4>5 DEF DownlinkOK
      <3>2. CASE ~(Live(sock[s]) /\ t = peer[sock[s]])
        <4>1. inbox'[t] = inbox[t]  BY <1>0, <2>1, <3>2
        <4>2. Reaches(t)' <=> Reaches(t)  BY <1>0, <2>1, <3>2 DEF Live, Reaches
        <4> QED  BY <2>1, <4>1, <4>2 DEF DownlinkOK, Downlinks
      <3> QED  BY <3>1, <3>2
    <2> QED  BY <2>2 DEF Downlinks
  <1>6. ASSUME NEW t \in Tabs, Upsert(t) PROVE Downlinks'
    <2>1. /\ inbox[t] # <<>> /\ Head(inbox[t]) # "closed"
          /\ inbox' = [inbox EXCEPT ![t] = Tail(inbox[t])]
          /\ card' = [card EXCEPT ![t] = TRUE] /\ UNCHANGED <<peer, conn>>
      BY <1>6 DEF Upsert
    <2>2. ASSUME NEW w \in Tabs PROVE DownlinkOK(w)'
      <3>1. conn'[w] = conn[w] /\ (Reaches(w)' <=> Reaches(w)) /\ DownlinkOK(w)
        BY <2>1 DEF Reaches, Downlinks, DownlinkOK
      <3>2. CASE w = t
        <4>1. inbox'[t] = Tail(inbox[t]) /\ conn[t] # NoSock
          BY <1>0, <2>1, <3>1, <3>2 DEF DownlinkOK
        <4>2. /\ Len(Tail(inbox[t])) = Len(inbox[t]) - 1 /\ Len(inbox[t]) \in Nat
              /\ Tail(inbox[t]) = <<>> => Head(inbox[t]) = Last(inbox[t])
              /\ Tail(inbox[t]) # <<>> => Last(Tail(inbox[t])) = Last(inbox[t])
          <5>1. inbox[t] \in Seq(Colors \cup {"closed"}) /\ inbox[t] # <<>>  BY <1>0, <2>1
          <5>2. Len(inbox[t]) \in Nat  BY <5>1
          <5> QED  BY <5>1, <5>2, TailFacts
        <4>3. inbox[t] \in Seq(Colors) => Tail(inbox[t]) \in Seq(Colors)  BY <2>1, TailFacts
        <4> QED  BY <2>1, <3>1, <3>2, <4>1, <4>2, <4>3, StudioAssumption DEF DownlinkOK
      <3>3. CASE w # t
        <4>1. inbox'[w] = inbox[w] /\ card'[w] = card[w]  BY <1>0, <2>1, <3>3
        <4> QED  BY <3>1, <4>1 DEF DownlinkOK
      <3> QED  BY <3>2, <3>3
    <2> QED  BY <2>2 DEF Downlinks
  <1>7. ASSUME NEW t \in Tabs, Drop(t) \/ LeavePage(t) PROVE Downlinks'
    <2>1. /\ conn' = [conn EXCEPT ![t] = NoSock]
          /\ inbox' = [inbox EXCEPT ![t] = <<>>]
          /\ card' = [card EXCEPT ![t] = FALSE] /\ UNCHANGED peer
      BY <1>7 DEF Drop, LeavePage, DropCard
    <2>2. ASSUME NEW w \in Tabs PROVE DownlinkOK(w)'
      <3>1. CASE w = t  BY <1>0, <2>1, <3>1 DEF DownlinkOK, Reaches
      <3>2. CASE w # t
        <4>1. /\ inbox'[w] = inbox[w] /\ card'[w] = card[w] /\ conn'[w] = conn[w]
              /\ Reaches(w)' <=> Reaches(w)
          BY <1>0, <2>1, <3>2 DEF Reaches
        <4>2. DownlinkOK(w)  BY DEF Downlinks
        <4> QED  BY <4>1, <4>2 DEF DownlinkOK
      <3> QED  BY <3>1, <3>2
    <2> QED  BY <2>2 DEF Downlinks
  <1>8. ASSUME NEW t \in Tabs,
               openEditor(t) \/ closeEditor(t) \/ TimerFires(t) \/ Noise(t)
                 \/ \E color \in Colors : Edit(t, color)
        PROVE  Downlinks'
    BY <1>1, <1>8 DEF openEditor, closeEditor, TimerFires, Noise, Edit, tab
  <1>9. ASSUME NEW s \in Slots,
               HelloLock(s) \/ Recv(s) \/ Break(s) \/ Apply(s) \/ BroadcastDone(s) \/ FreeSlot(s)
        PROVE  Downlinks'
    BY <1>1, <1>9 DEF HelloLock, Recv, Break, Apply, BroadcastDone, FreeSlot, tab
  <1> QED
    BY <1>1, <1>2, <1>3, <1>4, <1>5, <1>6, <1>7, <1>8, <1>9
    DEF Next, ClientThread, Tab, vars, tab

----------------------------------------------------------------------------
(* The tabs that watch *)

\* A tab step ends no connection but its own, forgets no touch, and sends a
\* colour only after the user chose one on this connection.
LEMMA TabTouches ==
    ASSUME DeviceTypes, TabTypes, Editors, NEW t \in Tabs, Tab(t)
    PROVE  /\ \A f \in Socks : Live(f)' => Live(f)
           /\ \A u \in Tabs : touched[u] => touched'[u]
           /\ \/ UNCHANGED up
              \/ \E msg \in Messages : Transmit(t, msg) /\ (msg \in Colors => touched'[t])
  <1>1. \A f \in Socks : Live(f)' => Live(f)
    <2>1. UNCHANGED peer /\ (conn' = conn \/ conn' = [conn EXCEPT ![t] = NoSock])
      BY TabStep
    <2> QED  BY <2>1 DEF Live, DeviceTypes, TabTypes
  <1>2. touched' = touched \/ touched' = [touched EXCEPT ![t] = TRUE]
    BY DEF Tab, Upsert, Drop, LeavePage, openEditor, closeEditor, Edit, TimerFires, Noise, history
  <1>3. \A u \in Tabs : touched[u] => touched'[u]  BY <1>2 DEF TabTypes
  <1>4. \/ UNCHANGED up
        \/ \E msg \in Messages : Transmit(t, msg) /\ (msg \in Colors => touched'[t])
    <2>1. CASE Upsert(t) \/ Drop(t) \/ openEditor(t) \/ closeEditor(t)
      BY <2>1 DEF Upsert, Drop, openEditor, closeEditor
    <2>2. CASE LeavePage(t)
      <3>1. Transmit(t, "close") /\ "close" \in Messages /\ "close" \notin Colors
        BY <2>2, ColorNames DEF LeavePage, Messages
      <3> QED  BY <3>1
    <2>3. ASSUME NEW color \in Colors, Edit(t, color)
          PROVE  \/ UNCHANGED up
                 \/ \E msg \in Messages : Transmit(t, msg) /\ (msg \in Colors => touched'[t])
      <3>1. UNCHANGED up \/ Transmit(t, color)  BY <2>3 DEF Edit, queueSend
      <3>2. touched'[t]  BY <2>3 DEF Edit, TabTypes
      <3>3. color \in Messages  BY DEF Messages
      <3> QED  BY <3>1, <3>2, <3>3
    <2>4. CASE TimerFires(t)
      <3>1. UNCHANGED up \/ (sendDirty[t] /\ Transmit(t, view[t]))  BY <2>4 DEF TimerFires
      <3>2. view[t] \in Messages /\ (sendDirty[t] => touched'[t])
        BY <1>3 DEF TabTypes, Messages, Editors
      <3> QED  BY <3>1, <3>2
    <2>5. CASE Noise(t)
      <3>1. Transmit(t, "noise") /\ "noise" \in Messages /\ "noise" \notin Colors
        BY <2>5, ColorNames DEF Noise, Messages
      <3> QED  BY <3>1
    <2> QED  BY <2>1, <2>2, <2>3, <2>4, <2>5 DEF Tab
  <1> QED  BY <1>1, <1>3, <1>4

\* What ws_setup_cb does, with the descriptor and the slot it takes.
SetUp(t, f, s) ==
    /\ conn[t] = NoSock /\ peer[f] = NoTab /\ ~sendTimer[t]
    /\ thread[s] = "none" /\ thread' = [thread EXCEPT ![s] = "hello"]
    /\ sock' = [sock EXCEPT ![s] = f]
    /\ peer' = [peer EXCEPT ![f] = t]
    /\ conn' = [conn EXCEPT ![t] = f]
    /\ touched' = [touched EXCEPT ![t] = FALSE]
    /\ UNCHANGED <<rgb, state_lock, cmd, next, up, inbox, tab, writings, discarded>>

\* What ws_setup_cb does, with the descriptor and the slot it chose.
LEMMA SetUpStep ==
    ASSUME NEW t \in Tabs, ws_setup_cb(t)
    PROVE  \E f \in Socks, s \in Slots : SetUp(t, f, s)
  BY DEF ws_setup_cb, SetUp, FreeSlots, Step

\* Setting up leaves the other connections alone.
LEMMA SetUpOthers ==
    ASSUME DeviceTypes, TabTypes, SlotsOwnSockets,
           NEW t \in Tabs, NEW f \in Socks, NEW s \in Slots, SetUp(t, f, s)
    PROVE  /\ Reaches(t)' /\ conn'[t] = f /\ ~touched'[t]
           /\ \A w \in Tabs : w # t => /\ conn'[w] = conn[w] /\ touched'[w] = touched[w]
                                       /\ (Reaches(w)' <=> Reaches(w))
           /\ Serving(s)' /\ ~Serving(s) /\ sock'[s] = f /\ thread'[s] = "hello"
           /\ \A r \in Slots : r # s =>
                /\ thread'[r] = thread[r] /\ sock'[r] = sock[r]
                /\ (Serving(r)' <=> Serving(r))
                /\ (Serving(r) => sock[r] # f)
           /\ \A g \in Socks : Live(g)' => g = f \/ (Live(g) /\ peer[g] # t)
           /\ \A g \in Socks : g # f => peer'[g] = peer[g]
  <1>0. /\ peer \in [Socks -> Tabs \cup {NoTab}] /\ conn \in [Tabs -> Socks \cup {NoSock}]
        /\ touched \in [Tabs -> BOOLEAN] /\ thread \in [Slots -> States]
        /\ sock \in [Slots -> Socks \cup {NoSock}]
        /\ NoTab \notin Tabs /\ NoSock \notin Socks
    BY StudioAssumption DEF DeviceTypes, TabTypes, NoSock, Socks
  <1>1. Reaches(t)' /\ conn'[t] = f /\ ~touched'[t]  BY <1>0 DEF SetUp, Reaches
  <1>2. ASSUME NEW w \in Tabs, w # t
        PROVE  conn'[w] = conn[w] /\ touched'[w] = touched[w] /\ (Reaches(w)' <=> Reaches(w))
    BY <1>0, <1>2 DEF SetUp, Reaches
  <1>3. Serving(s)' /\ ~Serving(s) /\ sock'[s] = f /\ thread'[s] = "hello"
    BY <1>0 DEF SetUp, Serving
  <1>4. ASSUME NEW r \in Slots, r # s
        PROVE  /\ thread'[r] = thread[r] /\ sock'[r] = sock[r]
               /\ (Serving(r)' <=> Serving(r)) /\ (Serving(r) => sock[r] # f)
    BY <1>0, <1>4 DEF SetUp, Serving, SlotsOwnSockets
  <1>5. \A g \in Socks : g # f => peer'[g] = peer[g]  BY <1>0 DEF SetUp
  <1>6. ASSUME NEW g \in Socks, Live(g)' PROVE g = f \/ (Live(g) /\ peer[g] # t)
    BY <1>0, <1>6 DEF SetUp, Live
  <1> QED  BY <1>1, <1>2, <1>3, <1>4, <1>5, <1>6

\* Every step keeps commands coming only from connections that were touched.
LEMMA CommandsStep ==
    ASSUME DeviceTypes, TabTypes, SlotsOwnSockets, Uplinks, Editors, Commands, [Next]_vars
    PROVE  Commands'
  <1>0. /\ up \in [Socks -> Seq(Messages)] /\ peer \in [Socks -> Tabs \cup {NoTab}]
        /\ thread \in [Slots -> States] /\ sock \in [Slots -> Socks \cup {NoSock}]
        /\ NoSock \notin Socks
    BY DEF DeviceTypes, NoSock, Socks
  <1>1. ASSUME UNCHANGED <<peer, conn, touched, sock, up>>,
               \A s \in Slots : thread'[s] \in {"apply", "bcast"} => thread[s] \in {"apply", "bcast"}
        PROVE  Commands'
    BY <1>1 DEF Commands, Live
  <1>2. ASSUME NEW t \in Tabs, ws_setup_cb(t) PROVE Commands'
    <2>1. PICK f \in Socks, s \in Slots : SetUp(t, f, s)  BY <1>2, SetUpStep
    <2>2. /\ \A g \in Socks : g # f => peer'[g] = peer[g]
          /\ \A g \in Socks : Live(g)' => g = f \/ (Live(g) /\ peer[g] # t)
          /\ \A w \in Tabs : w # t => touched'[w] = touched[w]
          /\ thread'[s] = "hello"
          /\ \A r \in Slots : r # s => /\ thread'[r] = thread[r] /\ sock'[r] = sock[r]
                                       /\ (Serving(r) => sock[r] # f)
      BY <2>1, SetUpOthers
    <2>3. up[f] = <<>> /\ up' = up  BY <2>1 DEF Uplinks, SetUp
    <2>4. ~Colored(up'[f])  BY <2>3 DEF Colored
    <2>5. \A g \in Socks : Live(g)' /\ g # f => Live(g) /\ peer'[g] = peer[g] /\ touched'[peer[g]] = touched[peer[g]]
      BY <1>0, <2>2 DEF Live
    <2>6. ASSUME NEW r \in Slots, thread'[r] \in {"apply", "bcast"}, Live(sock[r])'
          PROVE  touched'[peer'[sock'[r]]]
      <3>1. r # s /\ thread[r] = thread'[r] /\ sock'[r] = sock[r] /\ Serving(r)
        BY <2>2, <2>6 DEF Serving
      <3>2. sock[r] \in Socks /\ sock[r] # f  BY <2>2, <3>1, ServingSock DEF Serving
      <3>3. PICK g \in Socks : g = sock[r]  BY <3>2
      <3>4. Live(g)'  BY <2>6, <3>1, <3>3 DEF Live
      <3>5. Live(g) /\ peer'[g] = peer[g] /\ touched'[peer[g]] = touched[peer[g]]
        BY <2>5, <3>2, <3>3, <3>4
      <3> QED  BY <2>6, <3>1, <3>3, <3>5 DEF Commands
    <2> QED  BY <2>3, <2>4, <2>5, <2>6 DEF Commands, Live
  <1>3. ASSUME NEW s \in Slots, Recv(s) PROVE Commands'
    <2>1. /\ sock[s] \in Socks /\ up[sock[s]] \in Seq(Messages) /\ up[sock[s]] # <<>>
          /\ up' = [up EXCEPT ![sock[s]] = Tail(up[sock[s]])]
          /\ UNCHANGED <<peer, conn, touched, sock>>
      BY <1>0, <1>3, ServingSock DEF Recv, history
    <2> DEFINE msg == Head(up[sock[s]])
    <2>2. /\ msg \in Messages /\ (Colored(Tail(up[sock[s]])) => Colored(up[sock[s]]))
          /\ (msg \in Colors => Colored(up[sock[s]]))
      BY <2>1, TailFacts
    <2>3. \A f \in Socks : Colored(up'[f]) => Colored(up[f])  BY <1>0, <2>1, <2>2
    <2>4. \A r \in Slots : thread'[r] \in {"apply", "bcast"} =>
              thread[r] \in {"apply", "bcast"} \/ (r = s /\ msg \in Colors)
      BY <1>0, <1>3, <2>2 DEF Recv, Step, Messages
    <2> QED  BY <2>1, <2>2, <2>3, <2>4 DEF Commands, Live
  <1>4. ASSUME NEW s \in Slots, Unregister(s) PROVE Commands'
    <2>1. /\ sock[s] \in Socks /\ UNCHANGED <<conn, sock, touched>>
          /\ peer' = [peer EXCEPT ![sock[s]] = NoTab]
          /\ up' = [up EXCEPT ![sock[s]] = <<>>]
          /\ thread' = [thread EXCEPT ![s] = "freeing"]
      BY <1>4, ServingSock DEF Unregister, Step, history
    <2>2. \A f \in Socks : Live(f)' => Live(f) /\ f # sock[s] /\ peer'[f] = peer[f] /\ up'[f] = up[f]
      BY <1>0, <2>1 DEF Live
    <2>3. \A r \in Slots : thread'[r] \in {"apply", "bcast"} =>
              thread[r] \in {"apply", "bcast"} /\ sock[r] \in Socks
      BY <1>0, <2>1, ServingSock
    <2> QED  BY <2>1, <2>2, <2>3 DEF Commands, Live
  <1>5. ASSUME NEW s \in Slots, FreeSlot(s) PROVE Commands'
    <2>1. /\ UNCHANGED <<conn, peer, up, touched>>
          /\ sock' = [sock EXCEPT ![s] = NoSock]
          /\ thread' = [thread EXCEPT ![s] = "none"]
      BY <1>5 DEF FreeSlot, Step, history
    <2>2. \A r \in Slots : thread'[r] \in {"apply", "bcast"} =>
              thread[r] \in {"apply", "bcast"} /\ sock'[r] = sock[r]
      BY <1>0, <2>1
    <2> QED  BY <2>1, <2>2 DEF Commands, Live
  <1>6. ASSUME NEW t \in Tabs, Tab(t) PROVE Commands'
    <2>1. /\ \A f \in Socks : Live(f)' => Live(f)
          /\ \A u \in Tabs : touched[u] => touched'[u]
          /\ \/ UNCHANGED up
             \/ \E msg \in Messages : Transmit(t, msg) /\ (msg \in Colors => touched'[t])
          /\ UNCHANGED <<device, peer>>
      BY <1>6, TabTouches, TabStep
    <2>2. \A f \in Socks : Live(f) => peer[f] \in Tabs  BY <1>0 DEF Live
    <2>3. ASSUME NEW f \in Socks, Live(f)', Colored(up'[f]) PROVE touched'[peer'[f]]
      <3>1. CASE up'[f] = up[f]  BY <2>1, <2>2, <2>3, <3>1 DEF Commands
      <3>2. CASE up'[f] # up[f]
        <4>1. PICK msg \in Messages : Transmit(t, msg) /\ (msg \in Colors => touched'[t])
          BY <2>1, <3>2
        <4>2. /\ Reaches(t) /\ f = conn[t] /\ up[f] \in Seq(Messages)
              /\ up'[f] = Append(up[f], msg)
          BY <3>2, <4>1, TransmitStep
        <4>3. Colored(up[f]) \/ msg \in Colors  BY <2>3, <4>2, AppendFacts
        <4>4. peer[f] = t  BY <4>2 DEF Reaches
        <4> QED  BY <2>1, <2>2, <2>3, <4>1, <4>3, <4>4 DEF Commands
      <3> QED  BY <3>1, <3>2
    <2>4. ASSUME NEW r \in Slots, thread'[r] \in {"apply", "bcast"}, Live(sock[r])'
          PROVE  touched'[peer'[sock'[r]]]
      <3>1. UNCHANGED <<thread, sock, peer>>  BY <2>1 DEF device
      <3>2. sock[r] \in Socks  BY <2>4, <3>1, ServingSock
      <3>3. PICK g \in Socks : g = sock[r]  BY <3>2
      <3>4. Live(g)'  BY <2>4, <3>1, <3>3 DEF Live
      <3>5. Live(g) /\ peer[g] \in Tabs  BY <2>1, <2>2, <3>4
      <3> QED  BY <2>1, <2>4, <3>1, <3>3, <3>5 DEF Commands
    <2> QED  BY <2>3, <2>4 DEF Commands
  <1>7. ASSUME NEW s \in Slots,
               HelloLock(s) \/ HelloSend(s) \/ Break(s) \/ Apply(s) \/ Broadcast(s) \/ BroadcastDone(s)
        PROVE  Commands'
    BY <1>0, <1>1, <1>7
    DEF HelloLock, HelloSend, Break, Apply, Broadcast, BroadcastDone, Step, history
  <1>8. CASE UNCHANGED vars  BY <1>1, <1>8 DEF vars, device, history
  <1> QED
    BY <1>2, <1>3, <1>4, <1>5, <1>6, <1>7, <1>8 DEF Next, ClientThread

\* The tab's own step aside, a tab stays fresh while what is due to it stays due.
LEMMA FreshKept ==
    ASSUME NEW t \in Tabs, Fresh(t), Shown(t)' = Shown(t), rgb' = rgb,
           \A q \in Slots : HelloDue(t, q) => HelloDue(t, q)',
           \A r, q \in Slots : BroadcastDue(t, r, q) => BroadcastDue(t, r, q)'
    PROVE  Fresh(t)'
  BY DEF Fresh

\* A delivered state is the LED's.
LEMMA DeliveredShown ==
    ASSUME DeviceTypes, TabTypes, NEW t \in Tabs, Delivered(t), rgb' = rgb
    PROVE  Fresh(t)'
  <1>1. inbox'[t] = Append(inbox[t], rgb)  BY DEF Delivered, TabTypes
  <1>2. inbox[t] \in Seq(Colors \cup {"closed"}) /\ rgb \in Colors \cup {"closed"}
    BY DEF DeviceTypes, TabTypes
  <1>3. inbox'[t] # <<>> /\ Last(inbox'[t]) = rgb  BY <1>1, <1>2, AppendFacts
  <1>4. Shown(t)' = rgb'  BY <1>3 DEF Shown
  <1> QED  BY <1>4 DEF Fresh

\* Every step keeps the last word to a watching tab the LED's colour, or on its way.
LEMMA WatchedStep ==
    ASSUME DeviceTypes, TabTypes, SlotsOwnSockets, Downlinks, Commands, Watched, [Next]_vars
    PROVE  Watched'
  <1>0. /\ peer \in [Socks -> Tabs \cup {NoTab}] /\ conn \in [Tabs -> Socks \cup {NoSock}]
        /\ inbox \in [Tabs -> Seq(Colors \cup {"closed"})] /\ view \in [Tabs -> Colors]
        /\ touched \in [Tabs -> BOOLEAN] /\ thread \in [Slots -> States]
        /\ sock \in [Slots -> Socks \cup {NoSock}] /\ next \in [Slots -> 1..(WS_MAX_CLIENTS + 1)]
        /\ NoTab \notin Tabs /\ NoSock \notin Socks /\ WS_MAX_CLIENTS \in Nat
    BY StudioAssumption DEF DeviceTypes, TabTypes, NoSock, Socks
  <1>a. \A t \in Tabs : Reaches(t) => conn[t] \in Socks /\ peer[conn[t]] = t /\ Live(conn[t])
    BY <1>0 DEF Reaches, Live
  <1>1. ASSUME UNCHANGED <<peer, conn, touched, rgb, inbox, view, sock, next, thread>>
        PROVE  Watched'
    BY <1>1 DEF Watched, Reaches, Fresh, Shown, HelloDue, BroadcastDue, Serving
  <1>2. ASSUME NEW s \in Slots, NEW to \in States \ {"none", "freeing"},
               Serving(s), thread[s] # "bcast",
               thread[s] \in {"hello", "hello_send"} => to \in {"hello", "hello_send"},
               thread' = [thread EXCEPT ![s] = to],
               UNCHANGED <<peer, conn, touched, rgb, inbox, view, sock, next>>
        PROVE  Watched'
    <2> SUFFICES ASSUME NEW t \in Tabs, Reaches(t)', ~touched'[t] PROVE Fresh(t)'
      BY DEF Watched
    <2>1. Fresh(t) /\ Shown(t)' = Shown(t)  BY <1>2 DEF Watched, Reaches, Shown
    <2>2. \A q \in Slots : HelloDue(t, q) => HelloDue(t, q)'  BY <1>0, <1>2 DEF HelloDue
    <2>3. \A r, q \in Slots : BroadcastDue(t, r, q) => BroadcastDue(t, r, q)'
      BY <1>0, <1>2 DEF BroadcastDue, Serving
    <2> QED  BY <1>2, <2>1, <2>2, <2>3, FreshKept
  <1>3. ASSUME NEW u \in Tabs, ws_setup_cb(u) PROVE Watched'
    <2>1. PICK f \in Socks, s \in Slots : SetUp(u, f, s)  BY <1>3, SetUpStep
    <2> SUFFICES ASSUME NEW t \in Tabs, Reaches(t)', ~touched'[t] PROVE Fresh(t)'
      BY DEF Watched
    <2>2. CASE t = u
      <3>1. HelloDue(t, s)'  BY <2>1, <2>2, SetUpOthers DEF HelloDue
      <3> QED  BY <3>1 DEF Fresh
    <2>3. CASE t # u
      <3>1. conn'[t] = conn[t] /\ ~touched[t] /\ Reaches(t)  BY <2>1, <2>3, SetUpOthers
      <3>2. UNCHANGED <<rgb, inbox, view, next>>  BY <2>1 DEF SetUp, tab
      <3>3. Fresh(t) /\ Shown(t)' = Shown(t)  BY <3>1, <3>2 DEF Watched, Shown
      <3>4. \A r \in Slots : Serving(r) => r # s /\ thread'[r] = thread[r] /\ sock'[r] = sock[r]
        BY <2>1, SetUpOthers
      <3>5. \A q \in Slots : HelloDue(t, q) => HelloDue(t, q)'
        BY <3>1, <3>4 DEF HelloDue, Serving
      <3>6. \A r, q \in Slots : BroadcastDue(t, r, q) => BroadcastDue(t, r, q)'
        BY <3>1, <3>2, <3>4 DEF BroadcastDue, Serving
      <3> QED  BY <3>2, <3>3, <3>5, <3>6, FreshKept
    <2> QED  BY <2>2, <2>3
  <1>4. ASSUME NEW s \in Slots, HelloSend(s) PROVE Watched'
    <2>1. /\ thread[s] = "hello_send" /\ thread' = [thread EXCEPT ![s] = "poll"]
          /\ UNCHANGED <<peer, conn, touched, rgb, view, sock, next>>
      BY <1>4 DEF HelloSend, Step, tab, history
    <2>2. \/ ~Live(sock[s]) /\ inbox' = inbox
          \/ /\ peer[sock[s]] \in Tabs /\ conn[peer[sock[s]]] = sock[s]
             /\ Delivered(peer[sock[s]])
      BY <1>4, HelloSent
    <2> SUFFICES ASSUME NEW t \in Tabs, Reaches(t)', ~touched'[t] PROVE Fresh(t)'
      BY DEF Watched
    <2>3. Reaches(t) /\ ~touched[t] /\ Fresh(t)  BY <2>1 DEF Watched, Reaches
    <2>4. CASE conn[t] = sock[s]
      <3>1. Delivered(t)  BY <1>a, <2>2, <2>3, <2>4
      <3> QED  BY <2>1, <3>1, DeliveredShown
    <2>5. CASE conn[t] # sock[s]
      <3>1. inbox'[t] = inbox[t]  BY <1>0, <2>2, <2>5 DEF Delivered
      <3>2. Shown(t)' = Shown(t)  BY <2>1, <3>1 DEF Shown
      <3>3. \A q \in Slots : HelloDue(t, q) => HelloDue(t, q)'
        BY <1>0, <2>1, <2>5 DEF HelloDue
      <3>4. \A r, q \in Slots : BroadcastDue(t, r, q) => BroadcastDue(t, r, q)'
        BY <1>0, <2>1 DEF BroadcastDue, Serving
      <3> QED  BY <2>1, <2>3, <3>2, <3>3, <3>4, FreshKept
    <2> QED  BY <2>4, <2>5
  <1>5. ASSUME NEW s \in Slots, Apply(s) PROVE Watched'
    <2>1. /\ thread[s] = "apply" /\ thread' = [thread EXCEPT ![s] = "bcast"]
          /\ next' = [next EXCEPT ![s] = 1]
          /\ UNCHANGED <<peer, conn, touched, sock>>
      BY <1>5 DEF Apply, Step, history
    <2> SUFFICES ASSUME NEW t \in Tabs, Reaches(t)', ~touched'[t] PROVE Fresh(t)'
      BY DEF Watched
    <2>2. Reaches(t) /\ ~touched[t]  BY <2>1 DEF Reaches
    <2>3. sock[s] # conn[t]  BY <1>a, <2>1, <2>2 DEF Commands
    <2>4. PICK q \in Slots : Serving(q) /\ sock[q] = conn[t]
      BY <1>0, <1>a, <2>2 DEF SlotsOwnSockets
    <2>5. Serving(q)'  BY <1>0, <2>1, <2>4 DEF Serving
    <2>6. next'[s] = 1 /\ 1 <= q  BY <1>0, <2>1 DEF Slots
    <2>7. BroadcastDue(t, s, q)'  BY <1>0, <2>1, <2>3, <2>4, <2>5, <2>6 DEF BroadcastDue
    <2> QED  BY <2>7 DEF Fresh
  <1>6. ASSUME NEW s \in Slots, Broadcast(s) PROVE Watched'
    <2> DEFINE i == next[s]
               f == sock[next[s]]
    <2>1. /\ thread[s] = "bcast" /\ next' = [next EXCEPT ![s] = i + 1]
          /\ UNCHANGED <<peer, conn, touched, rgb, view, sock, thread>>
      BY <1>6 DEF Broadcast, tab, history
    <2>2. /\ i \in Slots
          /\ \/ (f = NoSock \/ f = sock[s] \/ ~Live(f)) /\ inbox' = inbox
             \/ /\ f \in Socks /\ f # sock[s] /\ peer[f] \in Tabs /\ conn[peer[f]] = f
                /\ Delivered(peer[f])
      BY <1>6, BroadcastSent
    <2> HIDE DEF f
    <2> SUFFICES ASSUME NEW t \in Tabs, Reaches(t)', ~touched'[t] PROVE Fresh(t)'
      BY DEF Watched
    <2>3. Reaches(t) /\ ~touched[t] /\ Fresh(t)  BY <2>1 DEF Watched, Reaches
    <2>4. CASE conn[t] = f /\ f # sock[s]
      <3>1. Delivered(t)  BY <1>0, <1>a, <2>2, <2>3, <2>4
      <3> QED  BY <2>1, <3>1, DeliveredShown
    <2>5. CASE ~(conn[t] = f /\ f # sock[s])
      <3>1. inbox'[t] = inbox[t]  BY <1>0, <2>2, <2>5 DEF Delivered
      <3>2. Shown(t)' = Shown(t)  BY <2>1, <3>1 DEF Shown
      <3>3. \A q \in Slots : HelloDue(t, q) => HelloDue(t, q)'  BY <2>1 DEF HelloDue
      <3>4. ASSUME NEW r \in Slots, NEW q \in Slots, BroadcastDue(t, r, q)
            PROVE  BroadcastDue(t, r, q)'
        <4>1. CASE r # s  BY <1>0, <2>1, <3>4, <4>1 DEF BroadcastDue, Serving
        <4>2. CASE r = s
          <5>1. sock[q] = conn[t] /\ sock[s] # conn[t] /\ i <= q  BY <3>4, <4>2 DEF BroadcastDue
          <5>2. q # i  BY <2>5, <5>1 DEF f
          <5>3. q \in Nat /\ i \in Nat  BY <2>2 DEF Slots
          <5>4. i + 1 <= q  BY <5>1, <5>2, <5>3
          <5>5. next'[s] <= q  BY <1>0, <2>1, <5>4
          <5> QED  BY <2>1, <3>4, <4>2, <5>5 DEF BroadcastDue, Serving
        <4> QED  BY <4>1, <4>2
      <3> QED  BY <2>1, <2>3, <3>2, <3>3, <3>4, FreshKept
    <2> QED  BY <2>4, <2>5
  <1>7. ASSUME NEW s \in Slots, BroadcastDone(s) PROVE Watched'
    <2>1. /\ thread[s] = "bcast" /\ thread' = [thread EXCEPT ![s] = "poll"]
          /\ next[s] > WS_MAX_CLIENTS /\ next' = [next EXCEPT ![s] = 1]
          /\ UNCHANGED <<peer, conn, touched, rgb, inbox, view, sock>>
      BY <1>7 DEF BroadcastDone, Step, tab, history
    <2> SUFFICES ASSUME NEW t \in Tabs, Reaches(t)', ~touched'[t] PROVE Fresh(t)'
      BY DEF Watched
    <2>2. Fresh(t) /\ Shown(t)' = Shown(t)  BY <2>1 DEF Watched, Reaches, Shown
    <2>3. \A q \in Slots : HelloDue(t, q) => HelloDue(t, q)'  BY <1>0, <2>1 DEF HelloDue
    <2>4. ASSUME NEW r \in Slots, NEW q \in Slots, BroadcastDue(t, r, q)
          PROVE  BroadcastDue(t, r, q)'
      <3>1. r # s
        <4>1. next[r] <= q /\ q <= WS_MAX_CLIENTS /\ q \in Nat /\ next[r] \in Nat
          BY <1>0, <2>4 DEF BroadcastDue, Slots
        <4> QED  BY <1>0, <2>1, <4>1
      <3> QED  BY <1>0, <2>1, <2>4, <3>1 DEF BroadcastDue, Serving
    <2> QED  BY <2>1, <2>2, <2>3, <2>4, FreshKept
  <1>8. ASSUME NEW s \in Slots, Unregister(s) PROVE Watched'
    <2>1. /\ thread[s] = "closing" /\ thread' = [thread EXCEPT ![s] = "freeing"]
          /\ peer' = [peer EXCEPT ![sock[s]] = NoTab]
          /\ inbox' = IF Live(sock[s]) THEN [inbox EXCEPT ![peer[sock[s]]] = Append(@, "closed")]
                      ELSE inbox
          /\ UNCHANGED <<conn, touched, rgb, view, sock, next>>
      BY <1>8 DEF Unregister, Step, tab, history
    <2>2. sock[s] \in Socks  BY <2>1, ServingSock
    <2> SUFFICES ASSUME NEW t \in Tabs, Reaches(t)', ~touched'[t] PROVE Fresh(t)'
      BY DEF Watched
    <2>3. Reaches(t) /\ conn[t] # sock[s]  BY <1>0, <2>1, <2>2 DEF Reaches
    <2>4. inbox'[t] = inbox[t]  BY <1>0, <2>1, <2>3 DEF Live
    <2>5. Fresh(t) /\ Shown(t)' = Shown(t)
      <3>1. ~touched[t] /\ view' = view  BY <2>1
      <3> QED  BY <2>3, <2>4, <3>1 DEF Watched, Shown
    <2>6. \A q \in Slots : HelloDue(t, q) => HelloDue(t, q)'  BY <1>0, <2>1 DEF HelloDue
    <2>7. \A r, q \in Slots : BroadcastDue(t, r, q) => BroadcastDue(t, r, q)'
      BY <1>0, <2>1, <2>3 DEF BroadcastDue, Serving
    <2> QED  BY <2>1, <2>5, <2>6, <2>7, FreshKept
  <1>9. ASSUME NEW s \in Slots, FreeSlot(s) PROVE Watched'
    <2>1. /\ thread[s] = "freeing" /\ thread' = [thread EXCEPT ![s] = "none"]
          /\ sock' = [sock EXCEPT ![s] = NoSock]
          /\ UNCHANGED <<peer, conn, touched, rgb, inbox, view, next>>
      BY <1>9 DEF FreeSlot, Step, tab, history
    <2> SUFFICES ASSUME NEW t \in Tabs, Reaches(t)', ~touched'[t] PROVE Fresh(t)'
      BY DEF Watched
    <2>2. Fresh(t) /\ Shown(t)' = Shown(t)  BY <2>1 DEF Watched, Reaches, Shown
    <2>3. \A q \in Slots : HelloDue(t, q) => HelloDue(t, q)'  BY <1>0, <2>1 DEF HelloDue
    <2>4. \A r, q \in Slots : BroadcastDue(t, r, q) => BroadcastDue(t, r, q)'
      BY <1>0, <2>1 DEF BroadcastDue, Serving
    <2> QED  BY <2>1, <2>2, <2>3, <2>4, FreshKept
  <1>10. ASSUME NEW u \in Tabs, Tab(u) PROVE Watched'
    <2>1. /\ UNCHANGED <<rgb, thread, sock, next, peer>>
          /\ conn' = conn \/ conn' = [conn EXCEPT ![u] = NoSock]
      BY <1>10, TabStep DEF device
    <2>2. /\ touched' = touched \/ touched' = [touched EXCEPT ![u] = TRUE]
          /\ \A t \in Tabs : t # u => inbox'[t] = inbox[t] /\ view'[t] = view[t]
      BY <1>0, <1>10 DEF Tab, Upsert, Drop, LeavePage, DropCard, openEditor, closeEditor, Edit,
                         TimerFires, Noise, tab, history
    <2>3. /\ UNCHANGED <<inbox, view>>
          \/ (\E color \in Colors : Edit(u, color)) \/ Drop(u) \/ LeavePage(u) \/ Upsert(u)
      BY <1>10 DEF Tab, openEditor, closeEditor, TimerFires, Noise, tab
    <2> SUFFICES ASSUME NEW t \in Tabs, Reaches(t)', ~touched'[t] PROVE Fresh(t)'
      BY DEF Watched
    <2>4. Reaches(t) /\ conn'[t] = conn[t]  BY <1>0, <2>1 DEF Reaches
    <2>5. ~touched[t] /\ Fresh(t)  BY <1>0, <2>2, <2>4 DEF Watched
    <2>6. Shown(t)' = Shown(t)
      <3>1. CASE t # u  BY <2>2, <3>1 DEF Shown
      <3>2. CASE t = u /\ UNCHANGED <<inbox, view>>  BY <3>2 DEF Shown
      <3>3. CASE t = u /\ (Drop(u) \/ LeavePage(u))
        <4>1. conn'[t] = NoSock  BY <1>0, <3>3 DEF Drop, LeavePage, DropCard
        <4> QED  BY <2>4, <4>1 DEF Reaches
      <3>4. CASE t = u /\ \E color \in Colors : Edit(u, color)
        <4>1. touched'[t]  BY <1>0, <3>4 DEF Edit
        <4> QED  BY <4>1
      <3>5. CASE t = u /\ Upsert(u)
        <4>1. /\ inbox[t] # <<>> /\ inbox'[t] = Tail(inbox[t]) /\ view'[t] = Head(inbox[t])
          BY <1>0, <3>5 DEF Upsert
        <4>2. /\ Tail(inbox[t]) = <<>> => Head(inbox[t]) = Last(inbox[t])
              /\ Tail(inbox[t]) # <<>> => Last(Tail(inbox[t])) = Last(inbox[t])
          BY <1>0, <4>1, TailFacts
        <4> QED  BY <4>1, <4>2 DEF Shown
      <3> QED  BY <2>3, <3>1, <3>2, <3>3, <3>4, <3>5
    <2>7. \A q \in Slots : HelloDue(t, q) => HelloDue(t, q)'  BY <2>1, <2>4 DEF HelloDue
    <2>8. \A r, q \in Slots : BroadcastDue(t, r, q) => BroadcastDue(t, r, q)'
      BY <2>1, <2>4 DEF BroadcastDue, Serving
    <2> QED  BY <2>1, <2>5, <2>6, <2>7, <2>8, FreshKept
  <1>11. ASSUME NEW s \in Slots, HelloLock(s) \/ Break(s) PROVE Watched'
    BY <1>2, <1>11 DEF HelloLock, Break, Step, Serving, States, tab, history
  <1>12. ASSUME NEW s \in Slots, Recv(s) PROVE Watched'
    BY <1>1, <1>2, <1>12 DEF Recv, Step, Serving, States, tab, history
  <1>13. CASE UNCHANGED vars  BY <1>1, <1>13 DEF vars, device, tab, history
  <1> QED
    BY <1>3, <1>4, <1>5, <1>6, <1>7, <1>8, <1>9, <1>10, <1>11, <1>12, <1>13
    DEF Next, ClientThread

----------------------------------------------------------------------------
(* The tab that writes *)

\* Only an edit counts a writing connection.
LEMMA WritingsStep ==
    ASSUME TabTypes, [Next]_vars
    PROVE  \/ UNCHANGED <<writings, touched>>
           \/ writings' = writings /\ \E t \in Tabs : ws_setup_cb(t)
           \/ \E t \in Tabs, color \in Colors : Edit(t, color)
  BY DEF Next, ClientThread, Tab, vars, history, HelloLock, HelloSend, Recv, Break, Apply,
         Broadcast, BroadcastDone, Unregister, FreeSlot, ws_setup_cb, Upsert, Drop, LeavePage,
         openEditor, closeEditor, TimerFires, Noise

\* Every step keeps it so that before the first edit there is no command under way.
LEMMA NothingWrittenStep ==
    ASSUME DeviceTypes, TabTypes, SlotsOwnSockets, Uplinks, Downlinks, Editors, Editors',
           NothingWritten, [Next]_vars
    PROVE  NothingWritten'
  <1>0. /\ peer \in [Socks -> Tabs \cup {NoTab}] /\ conn \in [Tabs -> Socks \cup {NoSock}]
        /\ inbox \in [Tabs -> Seq(Colors \cup {"closed"})] /\ card \in [Tabs -> BOOLEAN]
        /\ thread \in [Slots -> States] /\ up \in [Socks -> Seq(Messages)]
        /\ sock \in [Slots -> Socks \cup {NoSock}]
        /\ NoTab \notin Tabs /\ NoSock \notin Socks
    BY StudioAssumption DEF DeviceTypes, TabTypes, NoSock, Socks
  <1> SUFFICES ASSUME writings' = 0 PROVE NothingWritten'
    BY DEF NothingWritten
  <1>1. writings = 0 /\ \A t \in Tabs, color \in Colors : ~Edit(t, color)
    <2>1. ASSUME NEW t \in Tabs, NEW color \in Colors, Edit(t, color) PROVE FALSE
      <3>1. touched'[t]  BY <2>1 DEF Edit, TabTypes
      <3> QED  BY <3>1 DEF Editors
    <2> QED  BY <2>1, WritingsStep
  <1>2. /\ \A f \in Socks : ~Colored(up[f])
        /\ \A s \in Slots : thread[s] \notin {"apply", "bcast"}
        /\ \A t \in Tabs, s \in Slots :
              Reaches(t) /\ Serving(s) /\ sock[s] = conn[t] => Greeted(t, s)
    BY <1>1 DEF NothingWritten
  <1>3. ASSUME \A f \in Socks : Colored(up'[f]) => Colored(up[f]),
               \A s \in Slots : thread'[s] \in {"apply", "bcast"} => thread[s] \in {"apply", "bcast"},
               \A t \in Tabs, s \in Slots :
                  (Reaches(t) /\ Serving(s) /\ sock[s] = conn[t] /\ ~Greeted(t, s))' =>
                      Reaches(t) /\ Serving(s) /\ sock[s] = conn[t] /\ ~Greeted(t, s)
        PROVE  NothingWritten'
    BY <1>2, <1>3 DEF NothingWritten
  <1>4. CASE UNCHANGED <<peer, conn, up, thread, sock, inbox, card>>
    BY <1>3, <1>4 DEF Reaches, Serving, Greeted
  <1>5. ASSUME NEW u \in Tabs, ws_setup_cb(u) PROVE NothingWritten'
    <2>1. PICK f \in Socks, q \in Slots : SetUp(u, f, q)  BY <1>5, SetUpStep
    <2>2. UNCHANGED <<up, inbox, card>>  BY <2>1 DEF SetUp, tab
    <2>3. /\ thread'[q] = "hello" /\ sock'[q] = f /\ conn'[u] = f
          /\ \A r \in Slots : r # q => /\ thread'[r] = thread[r] /\ sock'[r] = sock[r]
                                       /\ (Serving(r)' <=> Serving(r))
                                       /\ (Serving(r) => sock[r] # f)
          /\ \A w \in Tabs : w # u => conn'[w] = conn[w] /\ (Reaches(w)' <=> Reaches(w))
      BY <2>1, SetUpOthers
    <2>4. ASSUME NEW t \in Tabs, NEW s \in Slots, Reaches(t)', Serving(s)', sock'[s] = conn'[t]
          PROVE  Greeted(t, s)'
      <3>1. CASE t = u
        <4>1. inbox[t] = <<>> /\ ~card[t]
          BY <2>1, <3>1 DEF SetUp, Downlinks, DownlinkOK
        <4>2. Len(inbox'[t]) = 0  BY <2>2, <4>1
        <4> QED  BY <2>2, <4>1, <4>2 DEF Greeted
      <3>2. CASE t # u
        <4>1. s # q
          <5>1. Reaches(t) /\ conn'[t] = conn[t]  BY <2>3, <2>4, <3>2
          <5> QED  BY <1>0, <2>1, <2>3, <2>4, <5>1 DEF Reaches, SetUp
        <4>2. Greeted(t, s)  BY <1>2, <2>3, <2>4, <3>2, <4>1
        <4> QED  BY <2>2, <2>3, <4>1, <4>2 DEF Greeted
      <3> QED  BY <3>1, <3>2
    <2>5. \A s \in Slots : thread'[s] \notin {"apply", "bcast"}  BY <1>2, <2>3
    <2> QED  BY <1>2, <2>2, <2>4, <2>5 DEF NothingWritten
  <1>6. ASSUME NEW q \in Slots, HelloLock(q) \/ Break(q) PROVE NothingWritten'
    <2>1. /\ UNCHANGED <<peer, conn, up, sock, inbox, card>> /\ Serving(q)
          /\ \E to \in {"hello_send", "closing"} : thread' = [thread EXCEPT ![q] = to]
          /\ thread'[q] = "hello_send" => thread[q] = "hello"
      BY <1>0, <1>6 DEF HelloLock, Break, Step, Serving, tab
    <2>2. \A s \in Slots : /\ Serving(s)' <=> Serving(s)
                           /\ thread'[s] \in {"hello", "hello_send"} => thread[s] \in {"hello", "hello_send"}
                           /\ thread'[s] \in {"apply", "bcast"} => thread[s] \in {"apply", "bcast"}
      BY <1>0, <2>1 DEF Serving
    <2> QED  BY <1>3, <2>1, <2>2 DEF Reaches, Greeted
  <1>7. ASSUME NEW q \in Slots, HelloSend(q) PROVE NothingWritten'
    <2>1. /\ UNCHANGED <<peer, conn, up, sock, card>>
          /\ thread[q] = "hello_send" /\ thread' = [thread EXCEPT ![q] = "poll"]
      BY <1>7 DEF HelloSend, Step, tab
    <2>2. \/ ~Live(sock[q]) /\ inbox' = inbox
          \/ /\ peer[sock[q]] \in Tabs /\ conn[peer[sock[q]]] = sock[q]
             /\ Delivered(peer[sock[q]])
      BY <1>7, HelloSent
    <2>3. Serving(q)  BY <2>1 DEF Serving
    <2>4. ASSUME NEW t \in Tabs, NEW s \in Slots, Reaches(t)', Serving(s)', sock'[s] = conn'[t]
          PROVE  Greeted(t, s)'
      <3>1. Reaches(t) /\ Serving(s) /\ sock[s] = conn[t]
        BY <1>0, <2>1, <2>4 DEF Reaches, Serving
      <3>2. Greeted(t, s)  BY <1>2, <3>1
      <3>3. CASE conn[t] = sock[q]
        <4>1. s = q  BY <2>3, <3>1, <3>3 DEF SlotsOwnSockets
        <4>2. inbox[t] = <<>> /\ ~card[t]  BY <2>1, <3>2, <4>1 DEF Greeted
        <4>3. inbox'[t] = inbox[t] \/ inbox'[t] = Append(inbox[t], rgb)
          BY <1>0, <2>2 DEF Delivered
        <4>4. Len(inbox'[t]) <= 1
          <5>1. inbox[t] \in Seq(Colors \cup {"closed"}) /\ rgb \in Colors \cup {"closed"}
            BY <1>0 DEF DeviceTypes
          <5>2. Len(Append(inbox[t], rgb)) = Len(inbox[t]) + 1  BY <5>1, AppendFacts
          <5>3. Len(inbox[t]) = 0  BY <4>2
          <5> QED  BY <4>3, <5>2, <5>3
        <4>5. thread'[s] = "poll" /\ ~card'[t]  BY <1>0, <2>1, <4>1, <4>2
        <4> QED  BY <4>4, <4>5 DEF Greeted
      <3>4. CASE conn[t] # sock[q]
        <4>1. inbox'[t] = inbox[t]  BY <1>0, <2>2, <3>4 DEF Delivered
        <4>2. s # q /\ thread'[s] = thread[s]  BY <1>0, <2>1, <3>1, <3>4
        <4> QED  BY <2>1, <3>2, <4>1, <4>2 DEF Greeted
      <3> QED  BY <3>3, <3>4
    <2>5. \A s \in Slots : thread'[s] \notin {"apply", "bcast"}  BY <1>0, <1>2, <2>1
    <2> QED  BY <1>2, <2>1, <2>4, <2>5 DEF NothingWritten
  <1>8. ASSUME NEW q \in Slots, Recv(q) PROVE NothingWritten'
    <2>1. /\ sock[q] \in Socks /\ up[sock[q]] \in Seq(Messages) /\ up[sock[q]] # <<>>
          /\ up' = [up EXCEPT ![sock[q]] = Tail(up[sock[q]])]
          /\ thread[q] = "poll" /\ UNCHANGED <<peer, conn, sock, inbox, card>>
      BY <1>0, <1>8, ServingSock DEF Recv, tab
    <2> DEFINE msg == Head(up[sock[q]])
    <2>2. /\ msg \in Messages /\ (Colored(Tail(up[sock[q]])) => Colored(up[sock[q]]))
          /\ (msg \in Colors => Colored(up[sock[q]]))
      BY <2>1, TailFacts
    <2>3. msg \in {"close", "noise"}  BY <1>2, <2>1, <2>2 DEF Messages
    <2>4. UNCHANGED thread \/ thread' = [thread EXCEPT ![q] = "closing"]
      BY <1>8, <2>3 DEF Recv, Step
    <2>5. \A f \in Socks : Colored(up'[f]) => Colored(up[f])  BY <1>0, <2>1, <2>2
    <2>6. \A s \in Slots : /\ Serving(s)' <=> Serving(s)
                           /\ thread'[s] \in {"hello", "hello_send"} => thread[s] \in {"hello", "hello_send"}
                           /\ thread'[s] \in {"apply", "bcast"} => thread[s] \in {"apply", "bcast"}
      BY <1>0, <2>1, <2>4 DEF Serving
    <2> QED  BY <1>3, <2>1, <2>5, <2>6 DEF Reaches, Greeted
  <1>9. ASSUME NEW q \in Slots, Unregister(q) PROVE NothingWritten'
    <2>1. /\ thread[q] = "closing" /\ thread' = [thread EXCEPT ![q] = "freeing"]
          /\ peer' = [peer EXCEPT ![sock[q]] = NoTab]
          /\ up' = [up EXCEPT ![sock[q]] = <<>>]
          /\ UNCHANGED <<conn, sock, card>>
      BY <1>9 DEF Unregister, Step, tab
    <2>2. inbox' = IF Live(sock[q]) THEN [inbox EXCEPT ![peer[sock[q]]] = Append(@, "closed")]
                   ELSE inbox
      BY <1>9 DEF Unregister
    <2>3. sock[q] \in Socks  BY <2>1, ServingSock
    <2>4. ~Colored(<<>>)  BY DEF Colored
    <2>5. ASSUME NEW t \in Tabs, NEW s \in Slots, Reaches(t)', Serving(s)', sock'[s] = conn'[t]
          PROVE  Greeted(t, s)'
      <3>1. Reaches(t) /\ conn[t] # sock[q] /\ Serving(s) /\ sock[s] = conn[t] /\ s # q
        BY <1>0, <2>1, <2>3, <2>5 DEF Reaches, Serving
      <3>2. inbox'[t] = inbox[t]  BY <1>0, <2>2, <3>1 DEF Live
      <3>3. thread'[s] = thread[s]  BY <1>0, <2>1, <3>1
      <3> QED  BY <1>2, <2>1, <3>1, <3>2, <3>3 DEF Greeted
    <2>6. \A s \in Slots : thread'[s] \notin {"apply", "bcast"}  BY <1>0, <1>2, <2>1
    <2>7. \A f \in Socks : ~Colored(up'[f])  BY <1>0, <1>2, <2>1, <2>4
    <2> QED  BY <2>5, <2>6, <2>7 DEF NothingWritten
  <1>10. ASSUME NEW q \in Slots, FreeSlot(q) PROVE NothingWritten'
    <2>1. /\ thread[q] = "freeing" /\ thread' = [thread EXCEPT ![q] = "none"]
          /\ sock' = [sock EXCEPT ![q] = NoSock]
          /\ UNCHANGED <<peer, conn, up, inbox, card>>
      BY <1>10 DEF FreeSlot, Step, tab
    <2>2. \A s \in Slots : Serving(s)' => Serving(s) /\ thread'[s] = thread[s] /\ sock'[s] = sock[s]
      BY <1>0, <2>1 DEF Serving
    <2>3. \A s \in Slots : thread'[s] \notin {"apply", "bcast"}  BY <1>0, <1>2, <2>1
    <2> QED  BY <1>2, <1>3, <2>1, <2>2, <2>3 DEF Reaches, Greeted
  <1>11. ASSUME NEW u \in Tabs, Tab(u) PROVE NothingWritten'
    <2>1. /\ UNCHANGED <<thread, sock, peer>>
          /\ conn' = conn \/ conn' = [conn EXCEPT ![u] = NoSock]
      BY <1>11, TabStep DEF device
    <2>2. \A f \in Socks : ~Colored(up'[f])
      <3> SUFFICES ASSUME NEW f \in Socks, up'[f] # up[f] PROVE ~Colored(up'[f])
        BY <1>2
      <3>1. PICK msg \in Messages : Transmit(u, msg) /\ (msg \in Colors => touched'[u])
        BY <1>11, TabTouches
      <3>2. msg \notin Colors  BY <3>1 DEF Editors
      <3>3. up[f] \in Seq(Messages) /\ up'[f] = Append(up[f], msg)  BY <3>1, TransmitStep
      <3> QED  BY <1>2, <3>2, <3>3, AppendFacts
    <2>3. ASSUME NEW t \in Tabs, NEW s \in Slots, Reaches(t)', Serving(s)', sock'[s] = conn'[t]
          PROVE  Greeted(t, s)'
      <3>1. Reaches(t) /\ conn'[t] = conn[t] /\ Serving(s) /\ sock[s] = conn[t]
        BY <1>0, <2>1, <2>3 DEF Reaches, Serving
      <3>2. Greeted(t, s)  BY <1>2, <3>1
      <3>3. CASE inbox'[t] = inbox[t] /\ card'[t] = card[t]
        BY <2>1, <3>2, <3>3 DEF Greeted
      <3>4. CASE t = u /\ Upsert(u)
        <4>1. inbox[t] # <<>> /\ inbox'[t] = Tail(inbox[t])  BY <1>0, <3>4 DEF Upsert
        <4>2. thread[s] \notin {"hello", "hello_send"} /\ Len(inbox[t]) <= 1
          BY <3>2, <4>1 DEF Greeted
        <4>3. inbox[t] \in Seq(Colors \cup {"closed"})  BY <1>0
        <4>4. inbox'[t] = <<>> /\ Len(inbox'[t]) <= 1  BY <4>1, <4>2, <4>3
        <4> QED  BY <2>1, <4>2, <4>4 DEF Greeted
      <3>5. CASE t = u /\ (Drop(u) \/ LeavePage(u))
        <4>1. conn'[t] = NoSock  BY <1>0, <3>5 DEF Drop, LeavePage, DropCard
        <4> QED  BY <3>1, <4>1 DEF Reaches
      <3>6. \/ inbox'[t] = inbox[t] /\ card'[t] = card[t]
            \/ t = u /\ (Upsert(u) \/ Drop(u) \/ LeavePage(u))
        BY <1>0, <1>11 DEF Tab, Upsert, Drop, LeavePage, DropCard, openEditor, closeEditor, Edit,
                           TimerFires, Noise, tab
      <3> QED  BY <3>3, <3>4, <3>5, <3>6
    <2> QED  BY <1>2, <2>1, <2>2, <2>3 DEF NothingWritten
  <1>12. ASSUME NEW q \in Slots, Apply(q) \/ Broadcast(q) \/ BroadcastDone(q) PROVE FALSE
    BY <1>2, <1>12 DEF Apply, Broadcast, BroadcastDone, Step
  <1>13. CASE UNCHANGED vars  BY <1>4, <1>13 DEF vars, device, tab
  <1> QED
    BY <1>5, <1>6, <1>7, <1>8, <1>9, <1>10, <1>11, <1>12, <1>13 DEF Next, ClientThread

\* What keeps a tab the only writer.
LEMMA AloneKept ==
    ASSUME NEW t \in Tabs, WritesAlone(t), conn'[t] = conn[t], inbox'[t] = inbox[t],
           view'[t] = view[t], discarded => discarded', sendDirty[t] => sendDirty'[t],
           \A f \in Socks \ {conn[t]} : Colored(up'[f]) => Colored(up[f]),
           \A s \in Slots : thread'[s] \in {"apply", "bcast"} => sock'[s] = conn[t],
           \A s \in Slots : Serving(s)' /\ sock'[s] = conn[t] =>
               /\ Serving(s) /\ sock[s] = conn[t]
               /\ thread'[s] \in {"hello", "hello_send"} => thread[s] \in {"hello", "hello_send"}
               /\ Commanded(s)' = Commanded(s)
    PROVE  WritesAlone(t)'
  <1>1. \A s \in Slots : Serving(s)' /\ sock'[s] = conn[t] =>
            /\ thread'[s] \notin {"hello", "hello_send"}
            /\ discarded' \/ sendDirty'[t] \/ Commanded(s)' = view'[t]
    BY DEF WritesAlone
  <1>2. \A f \in Socks \ {conn[t]} : ~Colored(up'[f])  BY DEF WritesAlone
  <1>3. inbox'[t] = <<>>  BY DEF WritesAlone
  <1> QED  BY <1>1, <1>2, <1>3 DEF WritesAlone

\* The writer stays alone through the steps of the device.
LEMMA AloneDevice ==
    ASSUME DeviceTypes, TabTypes, SlotsOwnSockets, Uplinks, Downlinks, Editors,
           NEW t \in Tabs, touched[t], Reaches(t), WritesAlone(t), Reaches(t)',
           NEW s \in Slots, ClientThread(s) \/ Break(s)
    PROVE  WritesAlone(t)'
  <1>0. /\ peer \in [Socks -> Tabs \cup {NoTab}] /\ conn \in [Tabs -> Socks \cup {NoSock}]
        /\ inbox \in [Tabs -> Seq(Colors \cup {"closed"})]
        /\ thread \in [Slots -> States] /\ up \in [Socks -> Seq(Messages)]
        /\ sock \in [Slots -> Socks \cup {NoSock}] /\ cmd \in [Slots -> Colors]
        /\ NoTab \notin Tabs /\ NoSock \notin Socks
    BY StudioAssumption DEF DeviceTypes, TabTypes, NoSock, Socks
  <1>1. UNCHANGED <<conn, view, discarded, sendDirty>>
    BY DEF ClientThread, HelloLock, HelloSend, Recv, Break, Apply, Broadcast, BroadcastDone,
           Unregister, FreeSlot, tab, history
  <1>2. conn[t] \in Socks /\ peer[conn[t]] = t  BY <1>0 DEF Reaches
  <1>3. \A r, q \in Slots : Serving(r) /\ Serving(q) /\ sock[r] = sock[q] => r = q
    BY DEF SlotsOwnSockets
  <1>4. CASE HelloLock(s)
    <2>1. /\ thread[s] = "hello" /\ thread' = [thread EXCEPT ![s] = "hello_send"]
          /\ UNCHANGED <<rgb, sock, cmd, up, inbox>>
      BY <1>4 DEF HelloLock, Step
    <2>2. sock[s] # conn[t]  BY <2>1 DEF WritesAlone, Serving
    <2>3. \A q \in Slots : q # s => thread'[q] = thread[q]  BY <1>0, <2>1
    <2>4. \A q \in Slots : thread'[q] \in {"apply", "bcast"} => sock'[q] = conn[t]
      BY <1>0, <2>1 DEF WritesAlone
    <2> QED  BY <1>1, <2>1, <2>2, <2>3, <2>4, AloneKept DEF Serving, Commanded
  <1>5. CASE HelloSend(s)
    <2>1. /\ thread[s] = "hello_send" /\ thread' = [thread EXCEPT ![s] = "poll"]
          /\ UNCHANGED <<rgb, sock, cmd, up>>
      BY <1>5 DEF HelloSend, Step
    <2>2. sock[s] # conn[t]  BY <2>1 DEF WritesAlone, Serving
    <2>3. \A q \in Slots : q # s => thread'[q] = thread[q]  BY <1>0, <2>1
    <2>4. \A q \in Slots : thread'[q] \in {"apply", "bcast"} => sock'[q] = conn[t]
      BY <1>0, <2>1 DEF WritesAlone
    <2>5. inbox'[t] = inbox[t]  BY <1>0, <1>5, <2>2, HelloSent DEF Delivered
    <2> QED  BY <1>1, <2>1, <2>2, <2>3, <2>4, <2>5, AloneKept DEF Serving, Commanded
  <1>6. CASE Recv(s)
    <2>1. /\ sock[s] \in Socks /\ up[sock[s]] \in Seq(Messages) /\ up[sock[s]] # <<>>
          /\ up' = [up EXCEPT ![sock[s]] = Tail(up[sock[s]])]
          /\ thread[s] = "poll" /\ UNCHANGED <<rgb, sock, inbox>>
      BY <1>0, <1>6, ServingSock DEF Recv
    <2> DEFINE msg == Head(up[sock[s]])
    <2>2. /\ msg \in Messages /\ (Colored(Tail(up[sock[s]])) => Colored(up[sock[s]]))
          /\ (msg \in Colors => Colored(up[sock[s]]))
      BY <2>1, TailFacts
    <2>3. \A f \in Socks : Colored(up'[f]) => Colored(up[f])  BY <1>0, <2>1, <2>2
    <2>4. CASE sock[s] = conn[t]
      <3>1. up[sock[s]] \in Seq(Colors)  BY <2>4 DEF Uplinks, Editors
      <3>2. msg \in Colors  BY <2>1, <3>1, TailFacts
      <3>3. thread' = [thread EXCEPT ![s] = "apply"] /\ cmd' = [cmd EXCEPT ![s] = msg]
        BY <1>6, <3>2, ColorNames DEF Recv, Step
      <3>4. Commanded(s)' = Commanded(s)
        <4>1. up'[sock[s]] = Tail(up[sock[s]]) /\ cmd'[s] = msg /\ thread'[s] = "apply"
          BY <1>0, <2>1, <3>3
        <4>2. /\ Tail(up[sock[s]]) = <<>> => msg = Last(up[sock[s]])
              /\ Tail(up[sock[s]]) # <<>> => Last(Tail(up[sock[s]])) = Last(up[sock[s]])
          BY <2>1, TailFacts
        <4> QED  BY <2>1, <4>1, <4>2 DEF Commanded
      <3>5. \A q \in Slots : Serving(q)' /\ sock'[q] = conn[t] => q = s
        BY <1>0, <1>3, <2>1, <2>4, <3>3 DEF Serving
      <3>6. \A q \in Slots : thread'[q] \in {"apply", "bcast"} => sock'[q] = conn[t]
        BY <1>0, <2>1, <2>4, <3>3 DEF WritesAlone
      <3>7. thread'[s] = "apply" /\ Serving(s)  BY <1>0, <2>1, <3>3 DEF Serving
      <3> QED  BY <1>1, <2>1, <2>3, <2>4, <3>4, <3>5, <3>6, <3>7, AloneKept
    <2>5. CASE sock[s] # conn[t]
      <3>1. msg \in {"close", "noise"}  BY <2>1, <2>2, <2>5 DEF Messages, WritesAlone
      <3>2. /\ UNCHANGED thread \/ thread' = [thread EXCEPT ![s] = "closing"]
            /\ UNCHANGED cmd
        BY <1>6, <3>1 DEF Recv, Step
      <3>3. \A q \in Slots : q # s => thread'[q] = thread[q]  BY <1>0, <3>2
      <3>4. \A q \in Slots : thread'[q] \in {"apply", "bcast"} => sock'[q] = conn[t]
        BY <1>0, <2>1, <3>2 DEF WritesAlone
      <3>5. up'[conn[t]] = up[conn[t]]  BY <1>0, <1>2, <2>1, <2>5
      <3>6. \A q \in Slots : Serving(q)' /\ sock'[q] = conn[t] =>
                /\ Serving(q) /\ sock[q] = conn[t]
                /\ thread'[q] \in {"hello", "hello_send"} => thread[q] \in {"hello", "hello_send"}
                /\ Commanded(q)' = Commanded(q)
        <4> SUFFICES ASSUME NEW q \in Slots, Serving(q)', sock'[q] = conn[t]
                     PROVE  /\ Serving(q) /\ sock[q] = conn[t]
                            /\ thread'[q] = thread[q] /\ Commanded(q)' = Commanded(q)
          OBVIOUS
        <4>1. sock[q] = conn[t] /\ q # s /\ thread'[q] = thread[q]  BY <2>1, <2>5, <3>3
        <4>2. Serving(q)  BY <4>1 DEF Serving
        <4>3. sock'[q] = sock[q] /\ up'[sock[q]] = up[sock[q]] /\ cmd'[q] = cmd[q] /\ rgb' = rgb
          BY <2>1, <3>2, <3>5, <4>1
        <4>4. Commanded(q)' = Commanded(q)  BY <4>1, <4>3 DEF Commanded
        <4> QED  BY <4>1, <4>2, <4>4
      <3> QED  BY <1>1, <2>1, <2>3, <3>4, <3>6, AloneKept
    <2> QED  BY <2>4, <2>5
  <1>7. CASE Break(s)
    <2>1. /\ thread[s] = "poll" /\ thread' = [thread EXCEPT ![s] = "closing"]
          /\ UNCHANGED <<rgb, sock, cmd, up, inbox>>
      BY <1>7 DEF Break, Step
    <2>2. \A q \in Slots : thread'[q] \in {"apply", "bcast"} => sock'[q] = conn[t]
      BY <1>0, <2>1 DEF WritesAlone
    <2>3. \A q \in Slots : /\ (Serving(q)' <=> Serving(q)) /\ (thread'[q] = "apply" <=> thread[q] = "apply")
                           /\ thread'[q] \in {"hello", "hello_send"} => thread[q] \in {"hello", "hello_send"}
      BY <1>0, <2>1 DEF Serving
    <2> QED  BY <1>1, <2>1, <2>2, <2>3, AloneKept DEF Commanded
  <1>8. CASE Apply(s)
    <2>1. /\ thread[s] = "apply" /\ thread' = [thread EXCEPT ![s] = "bcast"]
          /\ rgb' = cmd[s] /\ UNCHANGED <<sock, cmd, up, inbox>>
      BY <1>8 DEF Apply, Step
    <2>2. sock[s] = conn[t] /\ Serving(s)  BY <2>1 DEF WritesAlone, Serving
    <2>3. \A q \in Slots : Serving(q)' /\ sock'[q] = conn[t] => q = s
      BY <1>0, <1>3, <2>1, <2>2 DEF Serving
    <2>4. thread'[s] = "bcast"  BY <1>0, <2>1
    <2>5. Commanded(s)' = Commanded(s)  BY <2>1, <2>4 DEF Commanded
    <2>6. \A q \in Slots : thread'[q] \in {"apply", "bcast"} => sock'[q] = conn[t]
      BY <1>0, <2>1, <2>2 DEF WritesAlone
    <2> QED  BY <1>1, <2>1, <2>2, <2>3, <2>4, <2>5, <2>6, AloneKept
  <1>9. CASE Broadcast(s)
    <2>1. thread[s] = "bcast" /\ UNCHANGED <<rgb, thread, sock, cmd, up>>
      BY <1>9 DEF Broadcast
    <2>2. sock[s] = conn[t]  BY <2>1 DEF WritesAlone
    <2>3. inbox'[t] = inbox[t]
      <3>1. inbox' = inbox \/ \E u \in Tabs : conn[u] # sock[s] /\ Delivered(u)
        BY <1>9, BroadcastSent
      <3> QED  BY <1>0, <2>2, <3>1 DEF Delivered
    <2>4. \A q \in Slots : thread'[q] \in {"apply", "bcast"} => sock'[q] = conn[t]
      BY <2>1 DEF WritesAlone
    <2> QED  BY <1>1, <2>1, <2>3, <2>4, AloneKept DEF Serving, Commanded
  <1>10. CASE BroadcastDone(s)
    <2>1. /\ thread[s] = "bcast" /\ thread' = [thread EXCEPT ![s] = "poll"]
          /\ cmd' = [cmd EXCEPT ![s] = Off] /\ UNCHANGED <<rgb, sock, up, inbox>>
      BY <1>10 DEF BroadcastDone, Step
    <2>2. \A q \in Slots : thread'[q] \in {"apply", "bcast"} => sock'[q] = conn[t]
      BY <1>0, <2>1 DEF WritesAlone
    <2>3. \A q \in Slots : /\ (Serving(q)' <=> Serving(q)) /\ (thread'[q] = "apply" <=> thread[q] = "apply")
                           /\ thread'[q] \in {"hello", "hello_send"} => thread[q] \in {"hello", "hello_send"}
                           /\ thread[q] = "apply" => cmd'[q] = cmd[q]
      BY <1>0, <2>1 DEF Serving
    <2>4. \A q \in Slots : Commanded(q)' = Commanded(q)  BY <2>1, <2>3 DEF Commanded
    <2> QED  BY <1>1, <2>1, <2>2, <2>3, <2>4, AloneKept
  <1>11. CASE Unregister(s)
    <2>1. /\ thread[s] = "closing" /\ thread' = [thread EXCEPT ![s] = "freeing"]
          /\ peer' = [peer EXCEPT ![sock[s]] = NoTab] /\ up' = [up EXCEPT ![sock[s]] = <<>>]
          /\ UNCHANGED <<rgb, sock, cmd>>
      BY <1>11 DEF Unregister, Step
    <2>2. sock[s] \in Socks  BY <2>1, ServingSock
    <2>3. conn[t] # sock[s]  BY <1>0, <1>1, <2>1, <2>2 DEF Reaches
    <2>4. inbox'[t] = inbox[t]
      <3>1. inbox' = IF Live(sock[s]) THEN [inbox EXCEPT ![peer[sock[s]]] = Append(@, "closed")]
                     ELSE inbox
        BY <1>11 DEF Unregister
      <3> QED  BY <1>0, <2>3, <3>1 DEF Live
    <2>5. up'[conn[t]] = up[conn[t]]  BY <1>0, <1>2, <2>1, <2>3
    <2>6. ~Colored(<<>>)  BY DEF Colored
    <2>7. \A f \in Socks : Colored(up'[f]) => Colored(up[f])  BY <1>0, <2>1, <2>6
    <2>8. \A q \in Slots : q # s => thread'[q] = thread[q]  BY <1>0, <2>1
    <2>9. \A q \in Slots : thread'[q] \in {"apply", "bcast"} => sock'[q] = conn[t]
      BY <1>0, <2>1 DEF WritesAlone
    <2> QED
      BY <1>1, <2>1, <2>3, <2>4, <2>5, <2>7, <2>8, <2>9, AloneKept DEF Serving, Commanded
  <1>12. CASE FreeSlot(s)
    <2>1. /\ thread[s] = "freeing" /\ thread' = [thread EXCEPT ![s] = "none"]
          /\ sock' = [sock EXCEPT ![s] = NoSock] /\ UNCHANGED <<rgb, cmd, up, inbox>>
      BY <1>12 DEF FreeSlot, Step
    <2>2. \A q \in Slots : Serving(q)' => Serving(q) /\ sock'[q] = sock[q] /\ thread'[q] = thread[q]
      BY <1>0, <2>1 DEF Serving
    <2>3. \A q \in Slots : thread'[q] \in {"apply", "bcast"} => sock'[q] = conn[t]
      BY <1>0, <2>1 DEF WritesAlone
    <2> QED  BY <1>1, <2>1, <2>2, <2>3, AloneKept DEF Commanded
  <1> QED
    BY <1>4, <1>5, <1>6, <1>7, <1>8, <1>9, <1>10, <1>11, <1>12 DEF ClientThread

\* The writer's throttle: what it sends is the colour it shows.
LEMMA AloneTransmit ==
    ASSUME DeviceTypes, TabTypes, NEW t \in Tabs, Reaches(t), WritesAlone(t),
           UNCHANGED <<rgb, thread, sock, cmd, conn, inbox>>,
           NEW color \in Colors, Transmit(t, color), view'[t] = color
    PROVE  WritesAlone(t)'
  <1>1. /\ conn[t] \in Socks /\ up[conn[t]] \in Seq(Messages) /\ color \in Messages
        /\ up'[conn[t]] = Append(up[conn[t]], color)
        /\ \A f \in Socks : f # conn[t] => up'[f] = up[f]
    BY TransmitStep DEF Messages
  <1>2. up'[conn[t]] # <<>> /\ Last(up'[conn[t]]) = color  BY <1>1, AppendFacts
  <1>3. \A s \in Slots : sock[s] = conn[t] => Commanded(s)' = color  BY <1>2 DEF Commanded
  <1> QED  BY <1>1, <1>3 DEF WritesAlone, Serving

\* The writer stays alone through the steps of the tabs that do not edit.
LEMMA AloneTab ==
    ASSUME DeviceTypes, TabTypes, SlotsOwnSockets, Editors, LoneWriter, writings <= 1,
           NEW t \in Tabs, touched[t], Reaches(t), WritesAlone(t), Reaches(t)',
           NEW u \in Tabs, Tab(u), \A color \in Colors : ~Edit(u, color)
    PROVE  WritesAlone(t)'
  <1>0. /\ conn \in [Tabs -> Socks \cup {NoSock}] /\ view \in [Tabs -> Colors]
        /\ inbox \in [Tabs -> Seq(Colors \cup {"closed"})]
        /\ sendDirty \in [Tabs -> BOOLEAN] /\ sendTimer \in [Tabs -> BOOLEAN]
        /\ up \in [Socks -> Seq(Messages)]
    BY DEF DeviceTypes, TabTypes
  <1>1. UNCHANGED <<rgb, thread, sock, cmd, peer>>  BY TabStep DEF device
  <1>2. ASSUME conn'[t] = conn[t], inbox'[t] = inbox[t], view'[t] = view[t],
               discarded => discarded', sendDirty[t] => sendDirty'[t],
               UNCHANGED up \/ (u # t /\ \E msg \in Messages \ Colors : Transmit(u, msg))
        PROVE  WritesAlone(t)'
    <2>1. CASE UNCHANGED up
      BY <1>1, <1>2, <2>1, AloneKept DEF WritesAlone, Serving, Commanded
    <2>2. CASE u # t /\ \E msg \in Messages \ Colors : Transmit(u, msg)
      <3>1. PICK msg \in Messages \ Colors : Transmit(u, msg)  BY <2>2
      <3>2. up'[conn[t]] = up[conn[t]]  BY <2>2, <3>1, TransmitStep
      <3>3. \A f \in Socks : Colored(up'[f]) => Colored(up[f])
        <4> SUFFICES ASSUME NEW f \in Socks, up'[f] # up[f], Colored(up'[f]) PROVE Colored(up[f])
          OBVIOUS
        <4>1. up[f] \in Seq(Messages) /\ up'[f] = Append(up[f], msg)  BY <3>1, TransmitStep
        <4> QED  BY <3>1, <4>1, AppendFacts
      <3>4. \A s \in Slots : thread'[s] \in {"apply", "bcast"} => sock'[s] = conn[t]
        BY <1>1 DEF WritesAlone
      <3>5. \A s \in Slots : sock[s] = conn[t] => Commanded(s)' = Commanded(s)
        BY <1>1, <3>2 DEF Commanded
      <3> QED  BY <1>1, <1>2, <3>3, <3>4, <3>5, AloneKept DEF Serving
    <2> QED  BY <1>2, <2>1, <2>2
  <1>3. CASE Upsert(u)
    <2>1. u # t /\ UNCHANGED <<up, conn, discarded, sendDirty>>
      BY <1>3 DEF Upsert, WritesAlone, history
    <2>2. inbox'[t] = inbox[t] /\ view'[t] = view[t]  BY <1>0, <1>3, <2>1 DEF Upsert
    <2> QED  BY <1>2, <2>1, <2>2
  <1>4. CASE Drop(u) \/ LeavePage(u)
    <2>1. u # t
      <3>1. conn'[u] = NoSock  BY <1>0, <1>4 DEF Drop, LeavePage, DropCard
      <3> QED  BY <3>1 DEF Reaches
    <2>2. /\ conn'[t] = conn[t] /\ inbox'[t] = inbox[t] /\ view'[t] = view[t]
          /\ sendDirty'[t] = sendDirty[t] /\ UNCHANGED discarded
      BY <1>0, <1>4, <2>1 DEF Drop, LeavePage, DropCard, history
    <2>3. UNCHANGED up \/ Transmit(u, "close")  BY <1>4 DEF Drop, LeavePage
    <2>4. "close" \in Messages \ Colors  BY ColorNames DEF Messages
    <2> QED  BY <1>2, <2>1, <2>2, <2>3, <2>4
  <1>5. CASE openEditor(u) \/ closeEditor(u)
    BY <1>2, <1>5 DEF openEditor, closeEditor, history
  <1>6. CASE TimerFires(u)
    <2>1. UNCHANGED <<conn, inbox, view>> /\ sendDirty' = [sendDirty EXCEPT ![u] = FALSE]
          /\ (discarded => discarded')
      BY <1>6 DEF TimerFires
    <2>2. CASE ~sendDirty[u]
      <3>1. UNCHANGED up  BY <1>6, <2>2 DEF TimerFires
      <3>2. sendDirty[t] => sendDirty'[t]  BY <1>0, <2>1, <2>2
      <3> QED  BY <1>2, <2>1, <3>1, <3>2
    <2>3. CASE sendDirty[u]
      <3>1. u = t  BY <2>3 DEF Editors, LoneWriter
      <3>2. CASE editing[u]
        <4>1. Transmit(t, view[t]) /\ view[t] \in Colors /\ view'[t] = view[t]
          BY <1>0, <1>6, <2>1, <2>3, <3>1, <3>2 DEF TimerFires
        <4> QED  BY <1>1, <2>1, <4>1, AloneTransmit
      <3>3. CASE ~editing[u]
        <4>1. discarded' /\ UNCHANGED up  BY <1>6, <2>3, <3>3 DEF TimerFires
        <4> QED  BY <1>1, <2>1, <4>1 DEF WritesAlone, Serving
      <3> QED  BY <3>2, <3>3
    <2> QED  BY <2>2, <2>3
  <1>7. CASE Noise(u)
    <2>1. u # t /\ UNCHANGED <<conn, inbox, view, sendDirty, discarded>> /\ Transmit(u, "noise")
      BY <1>7 DEF Noise, Editors, tab, history
    <2>2. "noise" \in Messages \ Colors  BY ColorNames DEF Messages
    <2> QED  BY <1>2, <2>1, <2>2
  <1> QED  BY <1>3, <1>4, <1>5, <1>6, <1>7 DEF Tab

\* Every step keeps the lone writer's last colour the one that will be shown.
LEMMA LoneWriterStep ==
    ASSUME DeviceTypes, TabTypes, SlotsOwnSockets, Uplinks, Downlinks, Editors,
           NothingWritten, LoneWriter, [Next]_vars
    PROVE  LoneWriter'
  <1>0. /\ touched \in [Tabs -> BOOLEAN] /\ writings \in 0..2 /\ conn \in [Tabs -> Socks \cup {NoSock}]
        /\ view \in [Tabs -> Colors] /\ sendDirty \in [Tabs -> BOOLEAN]
        /\ peer \in [Socks -> Tabs \cup {NoTab}] /\ NoTab \notin Tabs /\ NoSock \notin Socks
    BY StudioAssumption DEF TabTypes, DeviceTypes, NoSock, Socks
  <1> SUFFICES ASSUME writings' <= 1 PROVE LoneWriter'
    BY DEF LoneWriter
  <1>1. ASSUME NEW u \in Tabs, NEW color \in Colors, Edit(u, color) PROVE LoneWriter'
    <2>1. /\ editing[u] /\ touched' = [touched EXCEPT ![u] = TRUE] /\ view'[u] = color
          /\ UNCHANGED <<rgb, thread, sock, cmd, peer, conn, inbox, discarded>>
      BY <1>0, <1>1 DEF Edit, device
    <2>2. writings <= 1 /\ (touched[u] \/ writings = 0)
      <3>1. writings' = IF touched[u] \/ writings = 2 THEN writings ELSE writings + 1
        BY <1>1 DEF Edit
      <3> QED  BY <1>0, <3>1
    <2>3. \A t \in Tabs : touched'[t] => t = u
      <3>1. CASE touched[u]  BY <1>0, <2>1, <2>2, <3>1 DEF LoneWriter
      <3>2. CASE writings = 0  BY <1>0, <2>1, <3>2 DEF Editors
      <3> QED  BY <2>2, <3>1, <3>2
    <2>4. ASSUME Reaches(u)' PROVE WritesAlone(u)'
      <3>1. Reaches(u)  BY <2>1, <2>4 DEF Reaches
      <3>2. /\ \A f \in Socks \ {conn[u]} : ~Colored(up[f])
            /\ \A s \in Slots : thread[s] \in {"apply", "bcast"} => sock[s] = conn[u]
            /\ inbox[u] = <<>>
            /\ \A s \in Slots : Serving(s) /\ sock[s] = conn[u] => thread[s] \notin {"hello", "hello_send"}
        <4>1. CASE touched[u]  BY <2>2, <3>1, <4>1 DEF LoneWriter, WritesAlone
        <4>2. CASE writings = 0
          <5>1. card[u]  BY <2>1 DEF Editors
          <5>2. \A s \in Slots : Serving(s) /\ sock[s] = conn[u] =>
                    inbox[u] = <<>> /\ thread[s] \notin {"hello", "hello_send"}
            BY <3>1, <4>2, <5>1 DEF NothingWritten, Greeted
          <5>3. \E s \in Slots : Serving(s) /\ sock[s] = conn[u]
            BY <1>0, <3>1 DEF SlotsOwnSockets, Reaches
          <5> QED  BY <4>2, <5>2, <5>3 DEF NothingWritten
        <4> QED  BY <2>2, <4>1, <4>2
      <3>3. CASE sendTimer[u]
        <4>1. sendDirty'[u] /\ UNCHANGED up  BY <1>0, <1>1, <3>3 DEF Edit, queueSend
        <4> QED  BY <2>1, <3>2, <4>1 DEF WritesAlone, Serving
      <3>4. CASE ~sendTimer[u]
        <4>1. Transmit(u, color)  BY <1>1, <3>4 DEF Edit, queueSend
        <4>2. /\ conn[u] \in Socks /\ up[conn[u]] \in Seq(Messages) /\ color \in Messages
              /\ up'[conn[u]] = Append(up[conn[u]], color)
              /\ \A f \in Socks : f # conn[u] => up'[f] = up[f]
          BY <3>1, <4>1, TransmitStep DEF Messages
        <4>3. up'[conn[u]] # <<>> /\ Last(up'[conn[u]]) = color  BY <4>2, AppendFacts
        <4>4. \A s \in Slots : sock[s] = conn[u] => Commanded(s)' = color
          BY <2>1, <4>3 DEF Commanded
        <4> QED  BY <2>1, <3>2, <4>2, <4>4 DEF WritesAlone, Serving
      <3> QED  BY <3>3, <3>4
    <2> QED  BY <2>3, <2>4 DEF LoneWriter
  <1>2. ASSUME NEW u \in Tabs, ws_setup_cb(u) PROVE LoneWriter'
    <2>1. PICK f \in Socks, q \in Slots : SetUp(u, f, q)  BY <1>2, SetUpStep
    <2>2. UNCHANGED <<rgb, cmd, up, inbox, view, sendDirty, writings, discarded>>
      BY <2>1 DEF SetUp, tab
    <2>3. /\ ~touched'[u] /\ thread'[q] = "hello" /\ sock'[q] = f
          /\ \A w \in Tabs : w # u => /\ conn'[w] = conn[w] /\ touched'[w] = touched[w]
                                      /\ (Reaches(w)' <=> Reaches(w))
          /\ \A r \in Slots : r # q => /\ thread'[r] = thread[r] /\ sock'[r] = sock[r]
                                       /\ (Serving(r)' <=> Serving(r))
      BY <2>1, SetUpOthers
    <2>4. \A t, w \in Tabs : touched'[t] /\ touched'[w] => t = w
      BY <2>2, <2>3 DEF LoneWriter
    <2>5. ASSUME NEW t \in Tabs, touched'[t], Reaches(t)' PROVE WritesAlone(t)'
      <3>1. t # u /\ conn'[t] = conn[t] /\ touched[t] /\ Reaches(t)  BY <2>3, <2>5
      <3>2. WritesAlone(t)  BY <2>2, <3>1 DEF LoneWriter
      <3>3. conn[t] # f  BY <1>0, <2>1, <3>1 DEF Reaches, SetUp
      <3>4. \A s \in Slots : thread'[s] \in {"apply", "bcast"} => sock'[s] = conn[t]
        BY <2>3, <3>2 DEF WritesAlone
      <3>5. \A s \in Slots : Serving(s)' /\ sock'[s] = conn[t] =>
               /\ Serving(s) /\ sock[s] = conn[t] /\ thread'[s] = thread[s]
               /\ Commanded(s)' = Commanded(s)
        BY <2>2, <2>3, <3>3 DEF Commanded
      <3> QED  BY <2>2, <3>1, <3>2, <3>4, <3>5, AloneKept
    <2> QED  BY <2>4, <2>5 DEF LoneWriter
  <1>3. ASSUME UNCHANGED <<writings, touched>>,
               \A t \in Tabs : touched[t] /\ Reaches(t)' => Reaches(t),
               \A t \in Tabs : touched[t] /\ Reaches(t) /\ WritesAlone(t) /\ Reaches(t)' => WritesAlone(t)'
        PROVE  LoneWriter'
    BY <1>3 DEF LoneWriter
  <1>4. ASSUME NEW s \in Slots, ClientThread(s) \/ Break(s) PROVE LoneWriter'
    <2>1. /\ UNCHANGED <<writings, touched, conn>>
          /\ peer' = peer \/ peer' = [peer EXCEPT ![sock[s]] = NoTab]
      BY <1>4 DEF ClientThread, HelloLock, HelloSend, Recv, Break, Apply, Broadcast,
                  BroadcastDone, Unregister, FreeSlot, history
    <2>2. \A t \in Tabs : Reaches(t)' => Reaches(t)  BY <1>0, <2>1 DEF Reaches
    <2> QED  BY <1>3, <1>4, <2>1, <2>2, AloneDevice
  <1>5. ASSUME NEW u \in Tabs, Tab(u), \A color \in Colors : ~Edit(u, color) PROVE LoneWriter'
    <2>1. UNCHANGED <<writings, touched>>
      BY <1>5 DEF Tab, Upsert, Drop, LeavePage, openEditor, closeEditor, TimerFires, Noise, history
    <2>2. \A t \in Tabs : Reaches(t)' => Reaches(t)
      <3>1. UNCHANGED peer /\ (conn' = conn \/ conn' = [conn EXCEPT ![u] = NoSock])
        BY <1>5, TabStep
      <3> QED  BY <1>0, <3>1 DEF Reaches
    <2>3. writings <= 1  BY <2>1
    <2> QED  BY <1>3, <1>5, <2>1, <2>2, <2>3, AloneTab
  <1>6. CASE UNCHANGED vars
    BY <1>6 DEF vars, device, tab, history, LoneWriter, WritesAlone, Reaches, Serving, Commanded
  <1>7. ASSUME NEW u \in Tabs, Tab(u) PROVE LoneWriter'
    BY <1>1, <1>5, <1>7
  <1> QED  BY <1>2, <1>4, <1>6, <1>7 DEF Next

----------------------------------------------------------------------------
(* The theorems *)

\* The invariant holds when the node starts with no connection.
LEMMA StudioStart ==
    ASSUME Init
    PROVE  StudioIInv
  <1>1. <<>> \in Seq(Messages) /\ <<>> \in Seq(Colors \cup {"closed"}) /\ Len(<<>>) = 0
    OBVIOUS
  <1>2. DeviceTypes  BY <1>1, StudioAssumption DEF Init, DeviceTypes, States, Nobody, NoSock
  <1>3. TabTypes
    <2>1. /\ inbox \in [Tabs -> Seq(Colors \cup {"closed"})]
          /\ conn \in [Tabs -> Socks \cup {NoSock}] /\ view \in [Tabs -> Colors]
      BY <1>1, StudioAssumption, Zenon DEF Init
    <2>2. /\ card \in [Tabs -> BOOLEAN] /\ editing \in [Tabs -> BOOLEAN]
          /\ sendTimer \in [Tabs -> BOOLEAN] /\ sendDirty \in [Tabs -> BOOLEAN]
          /\ touched \in [Tabs -> BOOLEAN] /\ discarded \in BOOLEAN
      BY Zenon DEF Init
    <2>3. writings \in 0..2  BY DEF Init
    <2> QED  BY <2>1, <2>2, <2>3 DEF TabTypes
  <1>4. LockHeld  BY DEF Init, LockHeld, Nobody, Slots
  <1>5. SlotsOwnSockets  BY DEF Init, SlotsOwnSockets, Serving
  <1>6. \A t \in Tabs : ~Reaches(t)  BY DEF Init, Reaches
  <1>7. \A f \in Socks : ~Live(f) /\ ~Colored(up[f])  BY <1>1 DEF Init, Live, Colored
  <1>8. Uplinks  BY <1>1, <1>6, StudioAssumption DEF Init, Uplinks
  <1>9. Downlinks  BY <1>6 DEF Init, Downlinks, DownlinkOK
  <1>10. Editors  BY DEF Init, Editors
  <1>11. Commands  BY <1>7 DEF Init, Commands
  <1>12. Watched /\ NothingWritten  BY <1>6, <1>7 DEF Init, Watched, NothingWritten
  <1>13. LoneWriter  BY DEF Init, LoneWriter
  <1> QED
    BY <1>2, <1>3, <1>4, <1>5, <1>8, <1>9, <1>10, <1>11, <1>12, <1>13 DEF StudioIInv

\* The invariant the theorems rest on, kept by every step of the client threads
\* and the tabs.
THEOREM StudioInvariant == Spec => []StudioIInv
  <1>1. Init => StudioIInv  BY StudioStart
  <1>2. StudioIInv /\ [Next]_vars => StudioIInv'
    <2> SUFFICES ASSUME StudioIInv, [Next]_vars PROVE StudioIInv'  OBVIOUS
    <2>1. DeviceTypes /\ TabTypes /\ LockHeld /\ SlotsOwnSockets /\ Uplinks /\ Downlinks
          /\ Editors /\ Commands /\ Watched /\ NothingWritten /\ LoneWriter
      BY DEF StudioIInv
    <2>2. DeviceTypes' /\ TabTypes' /\ LockHeld'
      BY <2>1, DeviceTypesStep, TabTypesStep, LockStep
    <2>3. SlotsOwnSockets' /\ Uplinks' /\ Downlinks'
      BY <2>1, SlotsStep, UplinksStep, DownlinksStep
    <2>4. Editors' /\ Commands'  BY <2>1, EditorsStep, CommandsStep
    <2>5. Watched' /\ NothingWritten' /\ LoneWriter'
      BY <2>1, <2>4, WatchedStep, NothingWrittenStep, LoneWriterStep
    <2> QED  BY <2>2, <2>3, <2>4, <2>5 DEF StudioIInv
  <1> QED  BY <1>1, <1>2, PTL DEF Spec

\* The variables keep their types and the connection buffers their bounds.
THEOREM StudioTypeOK == Spec => []TypeOK
  <1>1. StudioIInv => TypeOK
    <2> SUFFICES ASSUME StudioIInv PROVE TypeOK  OBVIOUS
    <2>1. DeviceTypes /\ TabTypes /\ Uplinks /\ Downlinks  BY DEF StudioIInv
    <2>2. \A t \in Tabs : Len(inbox[t]) <= INBOX + 1
      <3> SUFFICES ASSUME NEW t \in Tabs PROVE Len(inbox[t]) <= INBOX + 1  OBVIOUS
      <3>1. Len(inbox[t]) \in Nat /\ INBOX \in Nat  BY <2>1, StudioAssumption DEF TabTypes
      <3>2. inbox[t] = <<>> => Len(inbox[t]) = 0  OBVIOUS
      <3> QED  BY <2>1, <3>1, <3>2 DEF Downlinks, DownlinkOK
    <2> QED  BY <2>1, <2>2 DEF TypeOK, DeviceTypes, TabTypes, Uplinks, States
  <1> QED  BY <1>1, StudioInvariant, PTL

\* state_lock is held by one client thread at most, the one whose snapshot and
\* sends it protects (the comment on ws_send_state).
THEOREM LockIsExclusive ==
    Spec => [](\A r, s \in Slots :
                  thread[r] \in {"hello_send", "bcast"} /\ thread[s] \in {"hello_send", "bcast"}
                      => r = s)
  <1>1. StudioIInv => \A r, s \in Slots :
                  thread[r] \in {"hello_send", "bcast"} /\ thread[s] \in {"hello_send", "bcast"}
                      => r = s
    BY DEF StudioIInv, LockHeld
  <1> QED  BY <1>1, StudioInvariant, PTL

\* When nothing is on its way every tab that shows a card is connected, and the
\* thread that serves it waits for a command.
LEMMA QuietConnected ==
    ASSUME StudioIInv, Quiet, NEW t \in Tabs, card[t]
    PROVE  Reaches(t) /\ inbox[t] = <<>>
  BY DEF StudioIInv, Quiet, Downlinks, DownlinkOK

\* A tab that only watches shows the LED's colour whenever nothing is on its
\* way: ws_setup_cb and ws_broadcast_state lose no change between them.
THEOREM WatchersAreInSync == Spec => []WatchersInSync
  <1>1. StudioIInv => WatchersInSync
    <2> SUFFICES ASSUME StudioIInv, Quiet, NEW t \in Tabs, ~touched[t], card[t]
                 PROVE  view[t] = rgb
      BY DEF WatchersInSync, InSync
    <2>1. Reaches(t) /\ inbox[t] = <<>>  BY QuietConnected
    <2>2. Fresh(t)  BY <2>1 DEF StudioIInv, Watched
    <2>3. \A s \in Slots : ~HelloDue(t, s)  BY DEF Quiet, HelloDue
    <2>4. \A r, s \in Slots : ~BroadcastDue(t, r, s)  BY DEF Quiet, BroadcastDue
    <2> QED  BY <2>1, <2>2, <2>3, <2>4 DEF Fresh, Shown
  <1> QED  BY <1>1, StudioInvariant, PTL

\* While the colour is changed over one connection only and the throttle gave
\* no edit up, every tab, the writer's included, shows the LED's colour
\* whenever nothing is on its way.
THEOREM LoneWriterIsInSync == Spec => []LoneWriterInSync
  <1>1. StudioIInv => LoneWriterInSync
    <2> SUFFICES ASSUME StudioIInv, Quiet, writings <= 1, ~discarded, NEW t \in Tabs, card[t]
                 PROVE  view[t] = rgb
      BY DEF LoneWriterInSync, InSync
    <2>1. Reaches(t) /\ inbox[t] = <<>>  BY QuietConnected
    <2>2. CASE touched[t]
      <3>1. WritesAlone(t)  BY <2>1, <2>2 DEF StudioIInv, LoneWriter
      <3>2. ~sendDirty[t]  BY DEF StudioIInv, Editors, Quiet
      <3>3. conn[t] \in Socks /\ peer[conn[t]] # NoTab
        BY <2>1, StudioAssumption DEF StudioIInv, TabTypes, Reaches
      <3>4. PICK s \in Slots : Serving(s) /\ sock[s] = conn[t]
        BY <3>3 DEF StudioIInv, SlotsOwnSockets
      <3>5. Commanded(s) = view[t]  BY <3>1, <3>2, <3>4 DEF WritesAlone
      <3> QED  BY <3>3, <3>4, <3>5 DEF Commanded, Quiet
    <2>3. CASE ~touched[t]
      <3>1. Fresh(t)  BY <2>1, <2>3 DEF StudioIInv, Watched
      <3>2. \A s \in Slots : ~HelloDue(t, s)  BY DEF Quiet, HelloDue
      <3>3. \A r, s \in Slots : ~BroadcastDue(t, r, s)  BY DEF Quiet, BroadcastDue
      <3> QED  BY <2>1, <3>1, <3>2, <3>3 DEF Fresh, Shown
    <2> QED  BY <2>2, <2>3
  <1> QED  BY <1>1, StudioInvariant, PTL

=============================================================================
