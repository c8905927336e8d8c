------------------------------- MODULE Lan8651 -------------------------------
(***************************************************************************)
(* The LAN8651 T1S demo (ethernet_bridge/lan8651_t1s_demo/src/main.c):     *)
(* main waits for an IPv4 address, starts a UDP echo thread and an HTTP    *)
(* status thread and then sends datagrams for ever. Each thread recreates  *)
(* its socket after an error. The network stack sets an address and tells  *)
(* the callback later, in its own thread; it also tells about addresses of *)
(* other interfaces. Sockets come from one pool; any call may fail.        *)
(***************************************************************************)
EXTENDS Naturals

CONSTANTS
    MAX_CONTEXTS,    \* CONFIG_NET_MAX_CONTEXTS, sockets in the pool
    MAX_NET_FAULTS   \* bound on failing calls

ASSUME LanAssumption == MAX_CONTEXTS \in Nat /\ MAX_NET_FAULTS \in Nat

VARIABLES
    node,         \* where main is: "register", "check", "take", "spawn", "tx",
                  \* "pton", "send" or "ended"
    registered,   \* event_handler is registered
    addressed,    \* the interface has an address
    announcing,   \* ADDR_ADD of this interface is on its way to the callbacks
    ipv4_ready,   \* count of the semaphore
    udp,          \* where udp_server is
    http,         \* where http_server is
    sockets,      \* sockets taken from the pool
    netFaults

lanWait == <<node, registered, addressed, announcing, ipv4_ready>>
lanVars == <<lanWait, udp, http, sockets, netFaults>>

LanTypeOK ==
    /\ node \in {"register", "check", "take", "spawn", "tx", "pton", "send", "ended"}
    /\ {registered, addressed, announcing} \subseteq BOOLEAN
    /\ ipv4_ready \in 0..1
    /\ udp \in {"off", "create", "bind", "recv", "reply", "close"}
    /\ http \in {"off", "create", "bind", "listen", "accept", "serve", "close"}
    /\ sockets \in 0..MAX_CONTEXTS
    /\ netFaults \in 0..MAX_NET_FAULTS

LanInit ==
    /\ node = "register"
    /\ registered = FALSE
    /\ addressed = FALSE
    /\ announcing = FALSE
    /\ ipv4_ready = 0
    /\ udp = "off" /\ http = "off"
    /\ sockets = 0
    /\ netFaults = 0

NetFault == netFaults < MAX_NET_FAULTS /\ netFaults' = netFaults + 1
NetOk == UNCHANGED netFaults

Socket == sockets < MAX_CONTEXTS /\ sockets' = sockets + 1 /\ NetOk
\* socket() fails by itself or because the pool is empty.
SocketError == UNCHANGED sockets /\ (NetFault \/ (sockets = MAX_CONTEXTS /\ NetOk))
Close == sockets' = sockets - 1

----------------------------------------------------------------------------
(* The address and the event *)

AddressSet ==
    /\ ~addressed
    /\ addressed' = TRUE /\ announcing' = TRUE
    /\ UNCHANGED <<node, registered, ipv4_ready, udp, http, sockets, netFaults>>

\* IF_UP, IF_DOWN and the carrier events are only logged.
event_handler ==
    /\ announcing
    /\ announcing' = FALSE
    /\ ipv4_ready' = IF registered THEN 1 ELSE ipv4_ready
    /\ UNCHANGED <<node, registered, addressed, udp, http, sockets, netFaults>>

\* The handler gives the semaphore for an address of any interface.
OtherInterface ==
    /\ registered /\ node \in {"check", "take"}
    /\ ipv4_ready' = 1
    /\ UNCHANGED <<node, registered, addressed, announcing, udp, http, sockets, netFaults>>

----------------------------------------------------------------------------
(* main *)

\* mutant: the callback is not registered
RegisterForgotten ==
    /\ node = "register"
    /\ node' = "check"
    /\ UNCHANGED <<registered, addressed, announcing, ipv4_ready, udp, http, sockets, netFaults>>

Register ==
    /\ node = "register"
    /\ \/ node' = "check" /\ registered' = TRUE
       \/ node' = "ended" /\ UNCHANGED registered     \* no such interface
    /\ UNCHANGED <<addressed, announcing, ipv4_ready, udp, http, sockets, netFaults>>

Check ==
    /\ node = "check"
    /\ node' = IF addressed THEN "spawn" ELSE "take"
    /\ UNCHANGED <<registered, addressed, announcing, ipv4_ready, udp, http, sockets, netFaults>>

Taken ==
    /\ node = "take" /\ ipv4_ready = 1
    /\ node' = "spawn" /\ ipv4_ready' = 0
    /\ UNCHANGED <<registered, addressed, announcing, udp, http, sockets, netFaults>>

TakeTimeout ==
    /\ node = "take" /\ ipv4_ready = 0
    /\ node' = "spawn"
    /\ UNCHANGED <<registered, addressed, announcing, ipv4_ready, udp, http, sockets, netFaults>>

Spawn ==
    /\ node = "spawn"
    /\ node' = "tx" /\ udp' = "create" /\ http' = "create"
    /\ UNCHANGED <<registered, addressed, announcing, ipv4_ready, sockets, netFaults>>

\* Without a socket, or with a bad address, main returns; the servers go on.
\* A failed zsock_sendto is only logged.
Transmit ==
    /\ \/ node = "tx" /\ node' = "pton" /\ Socket
       \/ node = "tx" /\ node' = "ended" /\ SocketError
       \/ node = "pton" /\ node' = "send" /\ UNCHANGED sockets /\ NetOk
       \/ node = "pton" /\ node' = "ended" /\ Close /\ NetFault
       \/ node = "send" /\ UNCHANGED <<node, sockets>> /\ NetOk
    /\ UNCHANGED <<registered, addressed, announcing, ipv4_ready, udp, http>>

----------------------------------------------------------------------------
(* The servers *)

\* mutant: the socket is not closed when bind fails
UdpBindFailsLeak == udp = "bind" /\ udp' = "create" /\ UNCHANGED sockets /\ NetFault

\* mutant: the thread returns instead of trying again
UdpBindFailsReturns == udp = "bind" /\ udp' = "off" /\ Close /\ NetFault

UdpBindFails == udp = "bind" /\ udp' = "create" /\ Close /\ NetFault

\* A datagram is echoed; an error of either call leads to a new socket.
udp_server ==
    /\ \/ udp = "create" /\ udp' = "bind" /\ Socket
       \/ udp = "create" /\ UNCHANGED udp /\ SocketError
       \/ udp = "bind" /\ udp' = "recv" /\ UNCHANGED sockets /\ NetOk
       \/ UdpBindFails
       \/ udp = "recv" /\ udp' = "reply" /\ UNCHANGED sockets /\ NetOk
       \/ udp = "reply" /\ udp' = "recv" /\ UNCHANGED sockets /\ NetOk
       \/ udp \in {"recv", "reply"} /\ udp' = "close" /\ UNCHANGED sockets /\ NetFault
       \/ udp = "close" /\ udp' = "create" /\ Close /\ NetOk
    /\ UNCHANGED <<lanWait, http>>

\* The results of recv and send are ignored; "serve" ends when the client has
\* sent something or has closed the connection.
http_server ==
    /\ \/ http = "create" /\ http' = "bind" /\ Socket
       \/ http = "create" /\ UNCHANGED http /\ SocketError
       \/ http = "bind" /\ http' = "listen" /\ UNCHANGED sockets /\ NetOk
       \/ http = "listen" /\ http' = "accept" /\ UNCHANGED sockets /\ NetOk
       \/ http \in {"bind", "listen"} /\ http' = "create" /\ Close /\ NetFault
       \/ http = "accept" /\ http' = "serve" /\ Socket
       \/ http = "accept" /\ http' = "close" /\ SocketError
       \/ http = "serve" /\ http' = "accept" /\ Close /\ NetOk
       \/ http = "close" /\ http' = "create" /\ Close /\ NetOk
    /\ UNCHANGED <<lanWait, udp>>

lanMain == Register \/ Check \/ Taken \/ TakeTimeout \/ Spawn \/ Transmit

LanNext ==
    \/ AddressSet \/ event_handler \/ OtherInterface
    \/ lanMain
    \/ udp_server
    \/ http_server

LanFairness == WF_lanVars(udp_server) /\ WF_lanVars(http_server)

LanSpec == LanInit /\ [][LanNext]_lanVars /\ LanFairness

----------------------------------------------------------------------------
(***************************************************************************)
(* Main never waits out the ten seconds with its address in place: if it   *)
(* is about to take the semaphore and the address is there, the semaphore  *)
(* was given or the event that gives it is still to come. wait_for_ipv4    *)
(* looks at the address after the callback is registered and before it     *)
(* waits; the address may come at any point in between.                    *)
(***************************************************************************)
NoLostAddress == (node = "take" /\ addressed) => (ipv4_ready = 1 \/ announcing)

(***************************************************************************)
(* Every socket that is open is held by a thread that will use or close    *)
(* it: no path through the retry loops leaks one, so that the pool cannot  *)
(* run dry however often calls fail.                                       *)
(***************************************************************************)
NoSocketLeak ==
    sockets =
        (IF node \in {"pton", "send"} THEN 1 ELSE 0)
        + (IF udp \in {"bind", "recv", "reply", "close"} THEN 1 ELSE 0)
        + (IF http \in {"bind", "listen", "accept", "serve", "close"} THEN 1 ELSE 0)
        + (IF http = "serve" THEN 1 ELSE 0)

(***************************************************************************)
(* After any failure both servers come back to receiving and accepting,    *)
(* provided that HTTP clients do not stay silent for ever.                 *)
(***************************************************************************)
ServersComeBack ==
    /\ (udp # "off") ~> (udp = "recv")
    /\ (http # "off") ~> (http = "accept")

=============================================================================
