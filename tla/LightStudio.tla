----------------------------- MODULE LightStudio -----------------------------
(***************************************************************************)
(* LIGHT STUDIO: one t1s_device node                                       *)
(* (app/demos/ethernet_bridge/t1s_device/src/main.c, the WebSocket part)   *)
(* and the dashboard tabs connected to it (t1s_device/web/index.html).     *)
(*                                                                         *)
(* Device: ws_setup_cb puts an accepted socket into a slot of ws_clients   *)
(* and starts a thread for it; the thread pushes the state, then turns     *)
(* every command into a new LED colour that it broadcasts to the other     *)
(* sockets. state_lock is held over a snapshot and its (blocking) sends,   *)
(* and over nothing else: slots are taken and freed without it.            *)
(* Tab: one card for the node, an editor, and a throttled transmitter.     *)
(*                                                                         *)
(* A socket is the file descriptor number. The kernel gives a closed       *)
(* descriptor to the next connection, so a slot that is not yet freed may  *)
(* name somebody else's socket; the model keeps that.                      *)
(* Abstracted: a colour is a model value (the dashboard's sliders and      *)
(* presets stay in 0..255, which CLAMP leaves alone), the PWM follows rgb, *)
(* names and versions in the state message are constants, dragging only    *)
(* delays a repaint of the sliders.                                        *)
(***************************************************************************)
EXTENDS Naturals, Sequences

CONSTANTS
    Tabs,             \* dashboard tabs
    Writers,          \* the tabs whose user opens the editor
    Closers,          \* the tabs whose user closes the editor
    Colors,           \* LED colours
    Off,              \* the colour at boot
    WS_MAX_CLIENTS,
    MAX_SOCKS,        \* socket descriptors
    INBOX,            \* state messages a connection buffers
    OUTBOX,           \* commands a connection buffers
    NoTab

ASSUME StudioAssumption ==
    /\ Writers \subseteq Tabs
    /\ Closers \subseteq Tabs
    /\ Off \in Colors
    /\ Colors \cap {"close", "noise", "closed"} = {}
    /\ WS_MAX_CLIENTS \in Nat \ {0}
    /\ MAX_SOCKS \in Nat \ {0}
    /\ INBOX \in Nat \ {0}
    /\ OUTBOX \in Nat \ {0}
    /\ NoTab \notin Tabs

Slots == 1..WS_MAX_CLIENTS
Socks == 1..MAX_SOCKS
NoSock == 0
Nobody == 0

VARIABLES
    (* the device *)
    rgb,          \* the LED colour
    state_lock,   \* the slot whose thread holds it
    ws_clients,   \* the socket in each slot
    thread,       \* where each slot's thread is
    sock,         \* local of ws_client_thread
    cmd,          \* local of ws_client_thread
    next,         \* the loop index of ws_broadcast_state
    (* the connections *)
    peer,         \* the tab at the other end of a socket
    up,           \* commands on their way to the device
    inbox,        \* states on their way to a tab
    (* the tabs *)
    conn,         \* the socket a tab is connected through
    card,         \* the tab shows a card for the node
    view,         \* the colour of that card
    editing,      \* current: the editor is open
    sendTimer,
    sendDirty,
    (* history *)
    touched,      \* the tab changed the colour on this connection
    writings,     \* connections on which the colour was changed, up to 2
    discarded     \* an edit was given up by the throttle

device == <<rgb, state_lock, ws_clients, thread, sock, cmd, next>>
tab == <<card, view, editing, sendTimer, sendDirty>>
history == <<touched, writings, discarded>>
vars == <<device, peer, up, inbox, conn, tab, history>>

Init ==
    /\ rgb = Off
    /\ state_lock = Nobody
    /\ ws_clients = [s \in Slots |-> NoSock]
    /\ thread = [s \in Slots |-> "none"]
    /\ sock = [s \in Slots |-> NoSock]
    /\ cmd = [s \in Slots |-> Off]
    /\ next = [s \in Slots |-> 1]
    /\ peer = [f \in Socks |-> NoTab]
    /\ up = [f \in Socks |-> <<>>]
    /\ inbox = [t \in Tabs |-> <<>>]
    /\ conn = [t \in Tabs |-> NoSock]
    /\ card = [t \in Tabs |-> FALSE]
    /\ view = [t \in Tabs |-> Off]
    /\ editing = [t \in Tabs |-> FALSE]
    /\ sendTimer = [t \in Tabs |-> FALSE]
    /\ sendDirty = [t \in Tabs |-> FALSE]
    /\ touched = [t \in Tabs |-> FALSE]
    /\ writings = 0
    /\ discarded = FALSE

-----------------------------------------------------------------------------
(* the device *)

\* Both ends of socket f still use it.
Live(f) == f # NoSock /\ peer[f] # NoTab /\ conn[peer[f]] = f

\* (mutant) a send that does not wait for room
CanSendAlways(f) == TRUE

\* websocket_send_msg(..., SYS_FOREVER_MS) waits for room; on a socket nobody
\* reads it returns an error, which is only logged.
CanSend(f) == Live(f) => Len(inbox[peer[f]]) < INBOX

\* ws_send_state
SendState(f) ==
    inbox' = IF Live(f) THEN [inbox EXCEPT ![peer[f]] = Append(@, rgb)]
             ELSE inbox

Step(s, from, to) ==
    /\ thread[s] = from
    /\ thread' = [thread EXCEPT ![s] = to]

FreeSlots == {s \in Slots : ws_clients[s] = NoSock}

\* ws_setup_cb for a connection of tab t. With no free slot it answers
\* -ENOENT, the connection ends and the tab tries again. A probe comes
\* RETRY_MS (3 s) after the last one: the throttle (40 ms) has run out.
ws_setup_cb(t) ==
    /\ conn[t] = NoSock
    /\ ~sendTimer[t]
    /\ \E f \in Socks, s \in FreeSlots :
          /\ peer[f] = NoTab
          /\ \A r \in FreeSlots : s <= r
          /\ peer' = [peer EXCEPT ![f] = t]
          /\ conn' = [conn EXCEPT ![t] = f]
          /\ ws_clients' = [ws_clients EXCEPT ![s] = f]
          /\ sock' = [sock EXCEPT ![s] = f]
          /\ Step(s, "none", "hello")
    /\ touched' = [touched EXCEPT ![t] = FALSE]
    /\ UNCHANGED <<rgb, state_lock, cmd, next, up, inbox, tab, writings,
                   discarded>>

\* the new client's first state message, under state_lock
HelloLock(s) ==
    /\ state_lock = Nobody
    /\ Step(s, "hello", "hello_send")
    /\ state_lock' = s
    /\ UNCHANGED <<rgb, ws_clients, sock, cmd, next, peer, up, inbox, conn,
                   tab, history>>

HelloSend(s) ==
    /\ Step(s, "hello_send", "poll")
    /\ CanSend(sock[s])
    /\ SendState(sock[s])
    /\ state_lock' = Nobody
    /\ UNCHANGED <<rgb, ws_clients, sock, cmd, next, peer, up, conn, tab,
                   history>>

\* websocket_recv_msg: a CLOSE is answered and ends the thread; pings, empty
\* and malformed messages are skipped; a command goes on to be applied
Recv(s) ==
    /\ thread[s] = "poll"
    /\ up[sock[s]] # <<>>
    /\ up' = [up EXCEPT ![sock[s]] = Tail(@)]
    /\ LET msg == Head(up[sock[s]])
       IN  IF msg = "close" THEN Step(s, "poll", "closing") /\ UNCHANGED cmd
           ELSE IF msg = "noise" THEN UNCHANGED <<thread, cmd>>
           ELSE Step(s, "poll", "apply") /\ cmd' = [cmd EXCEPT ![s] = msg]
    /\ UNCHANGED <<rgb, state_lock, ws_clients, sock, next, peer, inbox, conn,
                   tab, history>>

\* poll or recv reports a hang-up or an error: whatever is unread is lost
Break(s) ==
    /\ Step(s, "poll", "closing")
    /\ UNCHANGED <<rgb, state_lock, ws_clients, sock, cmd, next, peer, up,
                   inbox, conn, tab, history>>

\* lock, set the colour and the LED, start the broadcast
Apply(s) ==
    /\ state_lock = Nobody
    /\ Step(s, "apply", "bcast")
    /\ state_lock' = s
    /\ rgb' = cmd[s]
    /\ next' = [next EXCEPT ![s] = 1]
    /\ UNCHANGED <<ws_clients, sock, cmd, peer, up, inbox, conn, tab, history>>

\* (mutant) the broadcast loop stops one slot early
AddressedShort(s, i) ==
    i < WS_MAX_CLIENTS /\ ws_clients[i] # NoSock /\ ws_clients[i] # sock[s]

\* Slot i takes part in a broadcast of slot s's thread.
Addressed(s, i) == ws_clients[i] # NoSock /\ ws_clients[i] # sock[s]

\* one round of the loop of ws_broadcast_state
Broadcast(s) ==
    /\ thread[s] = "bcast"
    /\ next[s] <= WS_MAX_CLIENTS
    /\ IF Addressed(s, next[s])
       THEN CanSend(ws_clients[next[s]]) /\ SendState(ws_clients[next[s]])
       ELSE UNCHANGED inbox
    /\ next' = [next EXCEPT ![s] = @ + 1]
    /\ UNCHANGED <<rgb, state_lock, ws_clients, thread, sock, cmd, peer, up,
                   conn, tab, history>>

\* (mutant) the loop continues without unlocking
BroadcastDoneLocked(s) ==
    /\ next[s] > WS_MAX_CLIENTS
    /\ Step(s, "bcast", "poll")
    /\ cmd' = [cmd EXCEPT ![s] = Off]
    /\ next' = [next EXCEPT ![s] = 1]
    /\ UNCHANGED <<rgb, state_lock, ws_clients, sock, peer, up, inbox, conn,
                   tab, history>>

BroadcastDone(s) ==
    /\ next[s] > WS_MAX_CLIENTS
    /\ Step(s, "bcast", "poll")
    /\ state_lock' = Nobody
    /\ cmd' = [cmd EXCEPT ![s] = Off]
    /\ next' = [next EXCEPT ![s] = 1]
    /\ UNCHANGED <<rgb, ws_clients, sock, peer, up, inbox, conn, tab, history>>

\* websocket_unregister closes the socket: a tab that is still there sees the
\* end of the stream after what was sent, the descriptor is free
Unregister(s) ==
    /\ Step(s, "closing", "freeing")
    /\ LET f == sock[s]
       IN  /\ inbox' = IF Live(f)
                       THEN [inbox EXCEPT ![peer[f]] = Append(@, "closed")]
                       ELSE inbox
           /\ peer' = [peer EXCEPT ![f] = NoTab]
           /\ up' = [up EXCEPT ![f] = <<>>]
    /\ UNCHANGED <<rgb, state_lock, ws_clients, sock, cmd, next, conn, tab,
                   history>>

\* ws_clients[slot] = -1, and the thread ends
FreeSlot(s) ==
    /\ Step(s, "freeing", "none")
    /\ ws_clients' = [ws_clients EXCEPT ![s] = NoSock]
    /\ sock' = [sock EXCEPT ![s] = NoSock]
    /\ UNCHANGED <<rgb, state_lock, cmd, next, peer, up, inbox, conn, tab,
                   history>>

ClientThread(s) ==
    \/ HelloLock(s)
    \/ HelloSend(s)
    \/ Recv(s)
    \/ Apply(s)
    \/ Broadcast(s)
    \/ BroadcastDone(s)
    \/ Unregister(s)
    \/ FreeSlot(s)

-----------------------------------------------------------------------------
(* the dashboard tabs *)

\* The stream from tab t still ends at the device.
Reaches(t) == conn[t] # NoSock /\ peer[conn[t]] = t

\* OUTBOX bounds what the browser buffers.
Room(t) == Reaches(t) => Len(up[conn[t]]) < OUTBOX

\* ws.send
Transmit(t, msg) ==
    up' = IF Reaches(t) THEN [up EXCEPT ![conn[t]] = Append(@, msg)] ELSE up

\* (mutant) an edit that comes while the timer runs is not remembered
queueSendForgets(t, color) ==
    IF sendTimer[t]
    THEN UNCHANGED <<sendDirty, sendTimer, up>>
    ELSE /\ Transmit(t, color)
         /\ sendTimer' = [sendTimer EXCEPT ![t] = TRUE]
         /\ UNCHANGED sendDirty

\* queueSend: send now and start the timer, or leave it to the running timer
queueSend(t, color) ==
    IF sendTimer[t]
    THEN /\ sendDirty' = [sendDirty EXCEPT ![t] = TRUE]
         /\ UNCHANGED <<sendTimer, up>>
    ELSE /\ Transmit(t, color)
         /\ sendTimer' = [sendTimer EXCEPT ![t] = TRUE]
         /\ UNCHANGED sendDirty

\* ws.onmessage: upsert
Upsert(t) ==
    /\ inbox[t] # <<>>
    /\ Head(inbox[t]) # "closed"
    /\ inbox' = [inbox EXCEPT ![t] = Tail(@)]
    /\ card' = [card EXCEPT ![t] = TRUE]
    /\ view' = [view EXCEPT ![t] = Head(inbox[t])]
    /\ UNCHANGED <<device, peer, up, conn, editing, sendTimer, sendDirty,
                   history>>

\* The card goes and its editor with it; the throttle is not per card.
DropCard(t) ==
    /\ conn' = [conn EXCEPT ![t] = NoSock]
    /\ inbox' = [inbox EXCEPT ![t] = <<>>]
    /\ card' = [card EXCEPT ![t] = FALSE]
    /\ view' = [view EXCEPT ![t] = Off]
    /\ editing' = [editing EXCEPT ![t] = FALSE]

\* ws.onclose: drop; probe again after RETRY_MS (ws_setup_cb)
Drop(t) ==
    /\ inbox[t] # <<>>
    /\ Head(inbox[t]) = "closed"
    /\ DropCard(t)
    /\ UNCHANGED <<device, peer, up, sendTimer, sendDirty, history>>

\* The user closes or reloads the page: the browser sends a CLOSE and forgets
\* everything.
LeavePage(t) ==
    /\ conn[t] # NoSock
    /\ Room(t)
    /\ Transmit(t, "close")
    /\ DropCard(t)
    /\ sendTimer' = [sendTimer EXCEPT ![t] = FALSE]
    /\ sendDirty' = [sendDirty EXCEPT ![t] = FALSE]
    /\ UNCHANGED <<device, peer, history>>

openEditor(t) ==
    /\ t \in Writers
    /\ card[t]
    /\ ~editing[t]
    /\ editing' = [editing EXCEPT ![t] = TRUE]
    /\ UNCHANGED <<device, peer, up, inbox, conn, card, view, sendTimer,
                   sendDirty, history>>

closeEditor(t) ==
    /\ t \in Closers
    /\ editing[t]
    /\ editing' = [editing EXCEPT ![t] = FALSE]
    /\ UNCHANGED <<device, peer, up, inbox, conn, card, view, sendTimer,
                   sendDirty, history>>

\* a slider or a preset of the open editor
Edit(t, color) ==
    /\ editing[t]
    /\ Room(t)
    /\ view' = [view EXCEPT ![t] = color]
    /\ queueSend(t, color)
    /\ touched' = [touched EXCEPT ![t] = TRUE]
    /\ writings' = IF touched[t] \/ writings = 2 THEN writings ELSE writings + 1
    /\ UNCHANGED <<device, peer, inbox, conn, card, editing, discarded>>

\* the throttle's timeout: a pending edit is sent if the editor is still open
TimerFires(t) ==
    /\ sendTimer[t]
    /\ Room(t)
    /\ sendDirty' = [sendDirty EXCEPT ![t] = FALSE]
    /\ IF sendDirty[t] /\ editing[t]
       THEN Transmit(t, view[t]) /\ UNCHANGED sendTimer
       ELSE UNCHANGED up /\ sendTimer' = [sendTimer EXCEPT ![t] = FALSE]
    /\ discarded' = (discarded \/ (sendDirty[t] /\ ~editing[t]))
    /\ UNCHANGED <<device, peer, inbox, conn, card, view, editing, touched,
                   writings>>

\* some other WebSocket client sends what the device has no use for
Noise(t) ==
    /\ Reaches(t)
    /\ t \notin Writers
    /\ up[conn[t]] = <<>>
    /\ Transmit(t, "noise")
    /\ UNCHANGED <<device, peer, inbox, conn, tab, history>>

Tab(t) ==
    \/ Upsert(t)
    \/ Drop(t)
    \/ LeavePage(t)
    \/ openEditor(t)
    \/ closeEditor(t)
    \/ \E color \in Colors : Edit(t, color)
    \/ TimerFires(t)
    \/ Noise(t)

Next ==
    \/ \E s \in Slots : ClientThread(s) \/ Break(s)
    \/ \E t \in Tabs : ws_setup_cb(t) \/ Tab(t)

Spec == Init /\ [][Next]_vars

\* A browser handles what arrived, and a client thread gets on:
\* the waiters of a Zephyr mutex are served in the order they came (strong
\* fairness of taking it), and a hang-up is reported by poll.
Fairness ==
    /\ \A s \in Slots :
          /\ WF_vars(ClientThread(s))
          /\ SF_vars(HelloLock(s) \/ Apply(s))
          /\ WF_vars(~Live(sock[s]) /\ Break(s))
    /\ \A t \in Tabs : WF_vars(Upsert(t) \/ Drop(t))

FairSpec == Spec /\ Fairness

-----------------------------------------------------------------------------
(* Properties *)

Messages == Colors \cup {"close", "noise"}

\* The states of the variables; the connection buffers keep their bounds (a
\* broadcast waits for room, "closed" may come on top).
TypeOK ==
    /\ rgb \in Colors
    /\ state_lock \in Slots \cup {Nobody}
    /\ ws_clients \in [Slots -> Socks \cup {NoSock}]
    /\ thread \in [Slots -> {"none", "hello", "hello_send", "poll", "apply",
                             "bcast", "closing", "freeing"}]
    /\ sock \in [Slots -> Socks \cup {NoSock}]
    /\ cmd \in [Slots -> Colors]
    /\ next \in [Slots -> 1..(WS_MAX_CLIENTS + 1)]
    /\ peer \in [Socks -> Tabs \cup {NoTab}]
    /\ \A f \in Socks : up[f] \in Seq(Messages) /\ Len(up[f]) <= OUTBOX
    /\ \A t \in Tabs : /\ inbox[t] \in Seq(Colors \cup {"closed"})
                       /\ Len(inbox[t]) <= INBOX + 1
    /\ conn \in [Tabs -> Socks \cup {NoSock}]
    /\ view \in [Tabs -> Colors]
    /\ {card, editing, sendTimer, sendDirty, touched}
          \subseteq [Tabs -> BOOLEAN]
    /\ writings \in 0..2
    /\ discarded \in BOOLEAN

\* Nothing is on its way: no command, no state message, no timer, and every
\* client thread waits for its socket.
Quiet ==
    /\ \A f \in Socks : up[f] = <<>>
    /\ \A t \in Tabs : inbox[t] = <<>> /\ ~sendTimer[t]
    /\ \A s \in Slots : thread[s] \in {"none", "poll", "freeing"}

InSync(t) == card[t] => view[t] = rgb

\* A tab that only watches shows the LED's colour whenever nothing is on its
\* way: it missed no change between its connection and its first state message
\* (ws_setup_cb against ws_broadcast_state) and none while sockets were closed,
\* slots freed and descriptors reused around it.
WatchersInSync == Quiet => \A t \in Tabs : ~touched[t] => InSync(t)

\* While the colour is changed over one connection only, every tab, the
\* writer's included, shows the LED's colour whenever nothing is on its way,
\* unless the throttle gave an edit up.
LoneWriterInSync ==
    (Quiet /\ writings <= 1 /\ ~discarded)
        => \A t \in Tabs : InSync(t)

\* What the header of main.c promises: "State changes are rebroadcast to the
\* other connected clients so all open tabs stay in sync".
AllTabsInSync == Quiet => \A t \in Tabs : InSync(t)

\* The slot of a client that is gone becomes free again, whatever the other
\* clients do with state_lock meanwhile.
SlotsReclaimed ==
    \A s \in Slots :
        (ws_clients[s] # NoSock /\ ~Live(sock[s])) ~> (ws_clients[s] = NoSock)

=============================================================================
