---------------------------- MODULE Dhcpv4Client ----------------------------
(***************************************************************************)
(* The DHCPv4 client demo (app/demos/dhcpv4_client/src/main.c): main       *)
(* registers its two callbacks, then starts the client on every interface; *)
(* the network stack adds an address when a lease is granted and tells the *)
(* callback later, in its own thread. Addresses from elsewhere are told    *)
(* too; the handler logs the ones that came by DHCP.                       *)
(***************************************************************************)
EXTENDS Naturals, FiniteSets

CONSTANT LINKS    \* the interfaces

ASSUME DhcpAssumption == IsFiniteSet(LINKS)

VARIABLES
    client,       \* where main is: "register", "option", "start" or "done"
    handlers,     \* the callbacks registered, of "handler" and "option"
    started,      \* interfaces with a running client
    addresses,    \* the kinds of address each interface has, "dhcp" and "manual"
    told,         \* interfaces with an event on its way to the callbacks
    ntp,          \* interfaces whose NTP option is on its way to the callbacks
    logged,       \* interfaces whose DHCP address was logged
    ntpLogged     \* interfaces whose NTP server was logged

dhcpVars == <<client, handlers, started, addresses, told, ntp, logged, ntpLogged>>

DhcpInit ==
    /\ client = "register"
    /\ handlers = {} /\ started = {}
    /\ addresses = [i \in LINKS |-> {}]
    /\ told = {} /\ ntp = {}
    /\ logged = {} /\ ntpLogged = {}

\* mutant: the clients are started before the option callback is registered
AfterStepStartsFirst(step) == CASE step = "register" -> "start" [] OTHER -> "done"

\* The order of main's steps.
AfterStep(step) ==
    CASE step = "register" -> "option" [] step = "option" -> "start" [] OTHER -> "done"

AddCallbacks ==
    /\ client \in {"register", "option"}
    /\ handlers' = handlers \cup {IF client = "register" THEN "handler" ELSE "option"}
    /\ client' = AfterStep(client)
    /\ UNCHANGED <<started, addresses, told, ntp, logged, ntpLogged>>

start_dhcpv4_client(i) ==
    /\ client = "start" /\ i \notin started
    /\ started' = started \cup {i}
    /\ client' = IF started' = LINKS THEN AfterStep(client) ELSE client
    /\ UNCHANGED <<handlers, addresses, told, ntp, logged, ntpLogged>>

\* The stack grants a lease, or someone adds an address by hand.
AddAddress(i, kindOf) ==
    /\ kindOf = "dhcp" => i \in started
    /\ kindOf \notin addresses[i]
    /\ addresses' = [addresses EXCEPT ![i] = @ \cup {kindOf}]
    /\ told' = told \cup {i}
    /\ ntp' = IF kindOf = "dhcp" THEN ntp \cup {i} ELSE ntp
    /\ UNCHANGED <<client, handlers, started, logged, ntpLogged>>

handler(i) ==
    /\ i \in told
    /\ told' = told \ {i}
    /\ logged' = IF "handler" \in handlers /\ "dhcp" \in addresses[i]
                 THEN logged \cup {i} ELSE logged
    /\ UNCHANGED <<client, handlers, started, addresses, ntp, ntpLogged>>

option_handler(i) ==
    /\ i \in ntp
    /\ ntp' = ntp \ {i}
    /\ ntpLogged' = IF "option" \in handlers THEN ntpLogged \cup {i} ELSE ntpLogged
    /\ UNCHANGED <<client, handlers, started, addresses, told, logged>>

DhcpNext ==
    \/ AddCallbacks
    \/ \E i \in LINKS :
          \/ start_dhcpv4_client(i)
          \/ \E k \in {"dhcp", "manual"} : AddAddress(i, k)
          \/ handler(i)
          \/ option_handler(i)

DhcpSpec == DhcpInit /\ [][DhcpNext]_dhcpVars

----------------------------------------------------------------------------
(***************************************************************************)
(* No lease goes unreported: an interface with a DHCP address is logged,   *)
(* address and NTP server, or its events are still to come, however        *)
(* quickly a server answers. Main registers both callbacks before it       *)
(* starts the first client.                                                *)
(***************************************************************************)
LeasesReported ==
    \A i \in LINKS : "dhcp" \in addresses[i] =>
        (i \in logged \cup told) /\ (i \in ntpLogged \cup ntp)

=============================================================================
