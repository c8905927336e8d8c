------------------------------- MODULE Bridge -------------------------------
(***************************************************************************)
(* The Ethernet bridge demo (ethernet_bridge/bridge/src/main.c): main      *)
(* finds the bridge, adds the Ethernet interfaces to it while a slot is    *)
(* free, brings it up and gives it the one address of the board. It goes   *)
(* through the interfaces in the order the linker put them, the bridge's   *)
(* own and other virtual ones included. The build has CONFIG_NET_DSA: the  *)
(* conduit port of a switch joins the bridge without taking a slot.        *)
(***************************************************************************)
EXTENDS Naturals, Sequences, FiniteSets

CONSTANTS
    INTERFACES,         \* number of network interfaces
    INTERFACE_COUNT,    \* CONFIG_NET_ETHERNET_BRIDGE_ETH_INTERFACE_COUNT, slots
    DHCP                \* CONFIG_NET_DHCPV4

ASSUME BridgeAssumption ==
    /\ INTERFACES \in Nat /\ INTERFACE_COUNT \in Nat
    /\ DHCP \in BOOLEAN

Kinds == {"ethernet", "conduit", "virtual"}
Interfaces == 1..INTERFACES

VARIABLES
    kind,       \* what each interface is
    joining,    \* where main is: "find", "add", "up", "address" or "running"
    nextIface,  \* the next interface net_if_foreach hands over
    slots,      \* u->iface, without the empty slots at the end
    members,    \* the interfaces in the bridge
    refused,    \* history: the interfaces eth_bridge_iface_add refused
    bridgeUp,
    bridgeIp,   \* the bridge has the address
    leasing     \* net_dhcpv4_restart was called for the bridge

bridgeVars == <<kind, joining, nextIface, slots, members, refused, bridgeUp, bridgeIp, leasing>>

BridgeInit ==
    /\ kind \in [Interfaces -> Kinds]
    /\ joining = "find"
    /\ nextIface = 1
    /\ slots = <<>>
    /\ members = {} /\ refused = {}
    /\ bridgeUp = FALSE /\ bridgeIp = FALSE /\ leasing = FALSE

\* One bridge instance; net_eth_bridge_foreach runs before the interfaces are visited.
bridge_find_cb ==
    /\ joining = "find"
    /\ joining' = "add"
    /\ UNCHANGED <<kind, nextIface, slots, members, refused, bridgeUp, bridgeIp, leasing>>

\* mutant: the search stops one slot early
AddsShort(i) == Len(slots) + 1 < INTERFACE_COUNT /\ kind[i] # "virtual"

Adds(i) == Len(slots) < INTERFACE_COUNT /\ kind[i] # "virtual"

\* The slot is taken before the interface is added, and kept if that fails.
bridge_add_iface_cb ==
    /\ joining = "add" /\ nextIface <= INTERFACES
    /\ nextIface' = nextIface + 1
    /\ \/ /\ Adds(nextIface)
          /\ slots' = IF kind[nextIface] = "ethernet" THEN Append(slots, nextIface) ELSE slots
          /\ \/ members' = members \cup {nextIface} /\ UNCHANGED refused
             \/ refused' = refused \cup {nextIface} /\ UNCHANGED members
       \/ ~Adds(nextIface) /\ UNCHANGED <<slots, members, refused>>
    /\ UNCHANGED <<kind, joining, bridgeUp, bridgeIp, leasing>>

\* net_if_up may fail; its result is not looked at.
BringUp ==
    /\ joining = "add" /\ nextIface > INTERFACES
    /\ joining' = "address"
    /\ bridgeUp' \in BOOLEAN
    /\ UNCHANGED <<kind, nextIface, slots, members, refused, bridgeIp, leasing>>

\* The address may not fit; that is only logged.
iface_set_static ==
    /\ joining = "address"
    /\ joining' = "running"
    /\ bridgeIp' \in BOOLEAN
    /\ UNCHANGED <<kind, nextIface, slots, members, refused, bridgeUp, leasing>>

\* An interface comes up: a bridged one restarts DHCP on its bridge.
bridge_event_handler(i) ==
    /\ DHCP /\ joining \in {"address", "running"}
    /\ kind[i] # "virtual" /\ i \in members
    /\ leasing' = TRUE
    /\ UNCHANGED <<kind, joining, nextIface, slots, members, refused, bridgeUp, bridgeIp>>

BridgeNext ==
    \/ bridge_find_cb
    \/ bridge_add_iface_cb
    \/ BringUp
    \/ iface_set_static
    \/ \E i \in Interfaces : bridge_event_handler(i)

BridgeSpec == BridgeInit /\ [][BridgeNext]_bridgeVars

----------------------------------------------------------------------------
Ports == {i \in Interfaces : kind[i] = "ethernet"}

(***************************************************************************)
(* The board reaches its ports "from either side": in whatever order the   *)
(* interfaces come, when main gives the bridge its address every Ethernet  *)
(* port is a member unless the slots ran out or the stack refused it, and  *)
(* no virtual interface (the bridge's own) is.                             *)
(***************************************************************************)
PortsJoined ==
    joining \in {"address", "running"} =>
        /\ Cardinality(Ports) <= INTERFACE_COUNT => Ports \subseteq members \cup refused
        /\ Cardinality(Ports) >= INTERFACE_COUNT => Len(slots) = INTERFACE_COUNT
        /\ \A i \in members : kind[i] # "virtual"

=============================================================================
