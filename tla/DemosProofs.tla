----------------------------- MODULE DemosProofs -----------------------------
(***************************************************************************)
(* Proofs about the smaller demos, for every value of their constants:     *)
(* the LAN8651 demo, the BLE shell, the DHCPv4 client, the bridge, the I2C *)
(* shell and the synchronization demo. Every demo is proved on its own     *)
(* specification, from one inductive invariant each.                       *)
(***************************************************************************)
EXTENDS MCDemos, LittlefsProofs, DisplayProofs, FiniteSetTheorems, TLAPS

----------------------------------------------------------------------------
(* LAN8651 *)

\* Main waits only with the callback registered, and the servers run only
\* after it has spawned them: without the first a wake-up could be lost,
\* without the second a socket of a server that is "created" again.
LanIInv ==
    /\ LanTypeOK
    /\ NoLostAddress
    /\ NoSocketLeak
    /\ node \in {"check", "take"} => registered
    /\ node \in {"register", "check", "take", "spawn"} => udp = "off" /\ http = "off"

\* The steps of the network stack and of main up to the wait for an address.
LEMMA LanWaitStep ==
    ASSUME LanIInv, AddressSet \/ event_handler \/ OtherInterface \/ Register
                    \/ Check \/ Taken \/ TakeTimeout
    PROVE  LanIInv'
  <1> USE DEF LanIInv, LanTypeOK, NoLostAddress, NoSocketLeak
  <1>1. CASE AddressSet  BY <1>1 DEF AddressSet
  <1>2. CASE event_handler
    <2>1. ipv4_ready' \in 0..1 /\ (node' = "take" => ipv4_ready' = 1)
      BY <1>2 DEF event_handler
    <2>2. {registered, addressed, announcing}' \subseteq BOOLEAN  BY <1>2, Zenon DEF event_handler
    <2> QED  BY <1>2, <2>1, <2>2 DEF event_handler
  <1>3. CASE OtherInterface  BY <1>3 DEF OtherInterface
  <1>4. CASE Register  BY <1>4 DEF Register
  <1>5. CASE Check  BY <1>5 DEF Check
  <1>6. CASE Taken  BY <1>6 DEF Taken
  <1>7. CASE TakeTimeout  BY <1>7 DEF TakeTimeout
  <1> QED  BY <1>1, <1>2, <1>3, <1>4, <1>5, <1>6, <1>7

\* The steps that take sockets and give them back.
LEMMA LanSocketStep ==
    ASSUME LanIInv, Spawn \/ Transmit \/ udp_server \/ http_server
    PROVE  LanIInv'
  <1> USE LanAssumption DEF LanIInv, LanTypeOK, NoLostAddress, NoSocketLeak,
        Socket, SocketError, Close, NetFault, NetOk, lanWait
  <1>1. CASE Spawn  BY <1>1 DEF Spawn
  <1>2. CASE Transmit  BY <1>2 DEF Transmit
  <1>3. CASE udp_server  BY <1>3 DEF udp_server, UdpBindFails
  <1>4. CASE http_server  BY <1>4 DEF http_server
  <1> QED  BY <1>1, <1>2, <1>3, <1>4

\* Every step of main, the event callback and the servers keeps the invariant.
LEMMA LanStep ==
    ASSUME LanIInv, [LanNext]_lanVars
    PROVE  LanIInv'
  <1>1. CASE UNCHANGED lanVars
    BY <1>1 DEF lanVars, lanWait, LanIInv, LanTypeOK, NoLostAddress, NoSocketLeak
  <1>2. CASE LanNext  BY <1>2, LanWaitStep, LanSocketStep DEF LanNext, lanMain
  <1> QED  BY <1>1, <1>2

\* The invariant holds when main starts: no socket is open.
LEMMA LanStart == LanInit => LanIInv
  <1> SUFFICES ASSUME LanInit PROVE LanIInv  OBVIOUS
  <1>1. {registered, addressed, announcing} \subseteq BOOLEAN  BY Zenon DEF LanInit
  <1> QED  BY <1>1, LanAssumption
        DEF LanInit, LanIInv, LanTypeOK, NoLostAddress, NoSocketLeak

(***************************************************************************)
(* The inductive invariant of the LAN8651 demo, for every size of the      *)
(* socket pool and every number of failing calls.                          *)
(***************************************************************************)
THEOREM LanInvariant == LanSpec => []LanIInv
  <1>1. LanIInv /\ [LanNext]_lanVars => LanIInv'  BY LanStep
  <1> QED  BY <1>1, LanStart, PTL DEF LanSpec

(***************************************************************************)
(* wait_for_ipv4 never sleeps through an address that is there, wherever   *)
(* between the registration and k_sem_take the address comes.              *)
(***************************************************************************)
THEOREM AddressIsNotLost == LanSpec => []NoLostAddress
  BY LanInvariant, PTL DEF LanIInv

(***************************************************************************)
(* No error path of main, udp_server and http_server leaks a socket,       *)
(* however many calls fail and however many sockets there are.             *)
(***************************************************************************)
THEOREM SocketsAreAccountedFor == LanSpec => []NoSocketLeak
  BY LanInvariant, PTL DEF LanIInv

----------------------------------------------------------------------------
(* BLE shell *)

\* What main may still send after "off" is what it had decided before, and
\* only a registered service is advertised, so that "off" stops it or fails.
BleIInv ==
    /\ BleTypeOK
    /\ AtMostOneLateBeat
    /\ AdvertisesOnlyWhileOn
    /\ hrs_simulate => late = 0
    /\ beat = "notify" => late = 0
    /\ advertising => hrs_registered
    /\ command = "off" /\ advertising => stop_failed

\* The steps of the shell command and of a central.
LEMMA BleShellStep ==
    ASSUME BleIInv,
           SimulateOn \/ SimulateOnDone \/ SimulateOff \/ SimulateOffDone \/ CentralConnects
    PROVE  BleIInv'
  <1> USE DEF BleIInv, BleTypeOK, AtMostOneLateBeat, AdvertisesOnlyWhileOn
  <1>1. CASE SimulateOn
    <2>1. {hrs_registered, hrs_simulate, advertising, stop_failed}' \subseteq BOOLEAN
      BY <1>1, Zenon DEF SimulateOn
    <2>2. CASE hrs_registered  BY <1>1, <2>1, <2>2 DEF SimulateOn
    <2>3. CASE ~hrs_registered  BY <1>1, <2>1, <2>3 DEF SimulateOn
    <2> QED  BY <2>2, <2>3
  <1>2. CASE SimulateOnDone  BY <1>2 DEF SimulateOnDone
  <1>3. CASE SimulateOff
    <2>1. {hrs_registered, hrs_simulate, advertising, stop_failed}' \subseteq BOOLEAN
      BY <1>3, Zenon DEF SimulateOff
    <2> QED  BY <1>3, <2>1 DEF SimulateOff
  <1>4. CASE SimulateOffDone
    <2>1. hrs_simulate' = FALSE /\ hrs_simulate' \in BOOLEAN  BY <1>4, Zenon DEF SimulateOffDone
    <2> QED  BY <1>4, <2>1 DEF SimulateOffDone
  <1>5. CASE CentralConnects  BY <1>5 DEF CentralConnects
  <1> QED  BY <1>1, <1>2, <1>3, <1>4, <1>5

\* The steps of main.
LEMMA BleMainStep ==
    ASSUME BleIInv, MainLooks \/ hrs_notify
    PROVE  BleIInv'
  <1> USE BleAssumption DEF BleIInv, BleTypeOK, AtMostOneLateBeat, AdvertisesOnlyWhileOn
  <1>1. CASE MainLooks  BY <1>1 DEF MainLooks
  <1>2. CASE hrs_notify  BY <1>2 DEF hrs_notify
  <1> QED  BY <1>1, <1>2

\* Every step of the shell and of main's beat keeps the invariant.
LEMMA BleStep ==
    ASSUME BleIInv, [BleNext]_bleVars
    PROVE  BleIInv'
  <1>1. CASE UNCHANGED bleVars
    BY <1>1 DEF bleVars, BleIInv, BleTypeOK, AtMostOneLateBeat, AdvertisesOnlyWhileOn
  <1>2. CASE BleNext  BY <1>2, BleShellStep, BleMainStep DEF BleNext
  <1> QED  BY <1>1, <1>2

\* The invariant holds when main starts: nothing is simulated or advertised.
LEMMA BleStart == BleInit => BleIInv
  <1> SUFFICES ASSUME BleInit PROVE BleIInv  OBVIOUS
  <1>1. {hrs_registered, hrs_simulate, advertising, stop_failed} \subseteq BOOLEAN
    BY Zenon DEF BleInit
  <1> QED  BY <1>1, BleAssumption
        DEF BleInit, BleIInv, BleTypeOK, AtMostOneLateBeat, AdvertisesOnlyWhileOn

(***************************************************************************)
(* The inductive invariant of the BLE shell, for every range of heart      *)
(* rates.                                                                  *)
(***************************************************************************)
THEOREM BleInvariant == BleSpec => []BleIInv
  <1>1. BleIInv /\ [BleNext]_bleVars => BleIInv'  BY BleStep
  <1> QED  BY <1>1, BleStart, PTL DEF BleSpec

(***************************************************************************)
(* After "hrs simulate off" at most one more heart beat is sent.           *)
(***************************************************************************)
THEOREM OneLateBeat == BleSpec => []AtMostOneLateBeat
  BY BleInvariant, PTL DEF BleIInv

(***************************************************************************)
(* The heart rate service is advertised only while it is simulated, unless *)
(* bt_le_adv_stop failed.                                                  *)
(***************************************************************************)
THEOREM AdvertisingIsSimulated == BleSpec => []AdvertisesOnlyWhileOn
  BY BleInvariant, PTL DEF BleIInv

----------------------------------------------------------------------------
(* DHCPv4 client *)

\* The callbacks are there before the first client is started, and only a
\* started client gets a lease.
DhcpIInv ==
    /\ client \in {"register", "option", "start", "done"}
    /\ addresses \in [LINKS -> SUBSET {"dhcp", "manual"}]
    /\ client = "option" => "handler" \in handlers
    /\ client \in {"start", "done"} => "handler" \in handlers /\ "option" \in handlers
    /\ started # {} => client \in {"start", "done"}
    /\ \A i \in LINKS : "dhcp" \in addresses[i] => i \in started
    /\ LeasesReported

(***************************************************************************)
(* The inductive invariant of the DHCPv4 client, for every set of          *)
(* interfaces.                                                             *)
(***************************************************************************)
THEOREM DhcpInvariant == DhcpSpec => []DhcpIInv
  <1> USE DEF DhcpIInv, LeasesReported
  <1>1. DhcpInit => DhcpIInv  BY DEF DhcpInit
  <1>2. DhcpIInv /\ [DhcpNext]_dhcpVars => DhcpIInv'
    <2> SUFFICES ASSUME DhcpIInv, [DhcpNext]_dhcpVars PROVE DhcpIInv'  OBVIOUS
    <2>1. CASE UNCHANGED dhcpVars  BY <2>1 DEF dhcpVars
    <2>2. CASE AddCallbacks  BY <2>2 DEF AddCallbacks, AfterStep
    <2>3. ASSUME NEW i \in LINKS, start_dhcpv4_client(i) PROVE DhcpIInv'
      BY <2>3 DEF start_dhcpv4_client, AfterStep
    <2>4. ASSUME NEW i \in LINKS, NEW k \in {"dhcp", "manual"}, AddAddress(i, k) PROVE DhcpIInv'
      BY <2>4 DEF AddAddress
    <2>5. ASSUME NEW i \in LINKS, handler(i) PROVE DhcpIInv'
      BY <2>5 DEF handler
    <2>6. ASSUME NEW i \in LINKS, option_handler(i) PROVE DhcpIInv'
      BY <2>6 DEF option_handler
    <2> QED  BY <2>1, <2>2, <2>3, <2>4, <2>5, <2>6 DEF DhcpNext
  <1> QED  BY <1>1, <1>2, PTL DEF DhcpSpec

(***************************************************************************)
(* No lease goes unreported, on any set of interfaces and however quickly  *)
(* the server answers.                                                     *)
(***************************************************************************)
THEOREM NoLeaseUnreported == DhcpSpec => []LeasesReported
  BY DhcpInvariant, PTL DEF DhcpIInv

----------------------------------------------------------------------------
(* I2C shell *)

\* temperature undoes Register12, for every number of 12 bits with a sign.
LEMMA TemperatureDecodes ==
    ASSUME NEW t \in Int, -2048 <= t, t <= 2047
    PROVE  temperature(Register12(t)) = t
  <1> DEFINE r == ((t + 4096) % 4096) * 16
  <1>1. Register12(t)[1] * 256 + Register12(t)[2] = r
    <2>1. r \in Nat  OBVIOUS
    <2>2. (r \div 256) * 256 + (r % 256) = r  BY <2>1
    <2> QED  BY <2>2 DEF Register12
  <1>2. CASE t >= 0
    <2>1. r = t * 16  BY <1>2
    <2> QED  BY <1>1, <1>2, <2>1 DEF temperature
  <1>3. CASE t < 0
    <2>1. r = (t + 4096) * 16  BY <1>3
    <2> QED  BY <1>1, <1>3, <2>1 DEF temperature
  <1> QED  BY <1>2, <1>3

\* What the sensor measures fits its register.
MeasuredFits == measured \in -2048..2047

(***************************************************************************)
(* The command shows what was measured, for every temperature the sensor   *)
(* can hold and not only for the ones tried.                               *)
(***************************************************************************)
THEOREM TemperatureIsMeasured == I2cSpec => ShowsMeasured
  <1>1. I2cInit => MeasuredFits  BY DEF I2cInit, MeasuredFits
  <1>2. MeasuredFits /\ [I2cNext]_i2cVars => MeasuredFits'
    <2> SUFFICES ASSUME MeasuredFits, [I2cNext]_i2cVars PROVE MeasuredFits'  OBVIOUS
    <2>1. CASE Measure  BY <2>1, SensorAssumption DEF Measure, MeasuredFits
    <2>2. CASE UNCHANGED measured  BY <2>2 DEF MeasuredFits
    <2> QED  BY <2>1, <2>2 DEF I2cNext, read_temperature, i2cVars
  <1>3. MeasuredFits /\ [I2cNext]_i2cVars => [shown' # shown => shown' = measured]_i2cVars
    <2> SUFFICES ASSUME MeasuredFits, I2cNext, shown' # shown PROVE shown' = measured
      BY DEF i2cVars
    <2>1. shown' = temperature(Register12(measured))  BY DEF I2cNext, Measure, read_temperature
    <2>2. measured \in Int /\ -2048 <= measured /\ measured <= 2047  BY DEF MeasuredFits
    <2>3. temperature(Register12(measured)) = measured  BY <2>2, TemperatureDecodes
    <2> QED  BY <2>1, <2>3
  <1> QED  BY <1>1, <1>2, <1>3, PTL DEF I2cSpec, ShowsMeasured

----------------------------------------------------------------------------
(* Synchronization *)

SyncTypeOK ==
    /\ starting \in {"create", "suspend", "resume", "start", "done"}
    /\ runnable \subseteq Threads
    /\ sem \in [Threads -> 0..1]
    /\ greeting \in [Threads -> {"take", "say", "said"}]
    /\ console \in Threads \X (0..1)

\* The turn is thread t's: it may take its semaphore, has taken it, or has
\* greeted and not yet given the other one's.
HasTurn(t) ==
    \/ greeting[t] = "take" /\ sem[t] = 1 /\ console[1] = Other(t)
    \/ greeting[t] = "say" /\ sem[t] = 0 /\ console[1] = Other(t)
    \/ greeting[t] = "said" /\ sem[t] = 0 /\ console[1] = t

Waits(t) == greeting[t] = "take" /\ sem[t] = 0

\* There is exactly one turn, and it is a's until main has started a.
SyncIInv ==
    /\ SyncTypeOK
    /\ \E t \in Threads : HasTurn(t) /\ Waits(Other(t))
    /\ "a" \in runnable => starting = "done"
    /\ starting # "done" => HasTurn("a") /\ greeting["a"] = "take"

\* A step of a thread keeps the invariant; one that prints is a greeting.
LEMMA HelloStep ==
    ASSUME SyncIInv, NEW t \in Threads, hello_loop(t)
    PROVE  SyncIInv' /\ [Turns!Next]_(Turns!turnVars)
  <1> USE DEF SyncIInv, SyncTypeOK, HasTurn, Waits, Threads, Other
  <1>1. starting = "done"
    <2>1. CASE t = "a"  BY <2>1 DEF hello_loop
    <2>2. CASE t = "b"  BY <2>2 DEF hello_loop, Take, Say, Give
    <2> QED  BY <2>1, <2>2
  <1>2. HasTurn(t) /\ Waits(Other(t))  BY DEF hello_loop, Take, Say, Give
  <1>3. CASE Take(t)
    <2>1. SyncIInv'  BY <1>1, <1>2, <1>3 DEF Take
    <2> QED  BY <1>3, <2>1 DEF Take, Turns!turnVars
  <1>4. CASE Say(t)
    <2>1. SyncIInv'  BY <1>1, <1>2, <1>4 DEF Say
    <2> QED  BY <1>1, <1>2, <1>4, <2>1 DEF Say, Turns!Next, Turns!Greet
  <1>5. CASE Give(t)
    <2>1. SyncIInv'  BY <1>1, <1>2, <1>5 DEF Give
    <2> QED  BY <1>5, <2>1 DEF Give, Turns!turnVars
  <1> QED  BY <1>3, <1>4, <1>5 DEF hello_loop

\* A step of main keeps the invariant; the one that starts a is the beginning.
LEMMA StartsStep ==
    ASSUME SyncIInv, Starts
    PROVE  SyncIInv' /\ [Turns!Next]_(Turns!turnVars)
  <1> USE DEF SyncIInv, SyncTypeOK, HasTurn, Waits, Threads, Other
  <1>1. CASE Create  BY <1>1 DEF Create, Turns!turnVars
  <1>2. CASE SuspendB  BY <1>2 DEF SuspendB, Turns!turnVars
  <1>3. CASE ResumeB  BY <1>3 DEF ResumeB, Turns!turnVars
  <1>4. CASE StartA
    <2>1. SyncIInv'  BY <1>4 DEF StartA
    <2>2. Turns!Begin  BY <1>4 DEF StartA, Turns!Begin
    <2> QED  BY <2>1, <2>2 DEF Turns!Next
  <1> QED  BY <1>1, <1>2, <1>3, <1>4 DEF Starts

(***************************************************************************)
(* The demo implements the safety part of turn taking, with or without     *)
(* pinned threads: the greetings alternate, a greets first and nobody      *)
(* greets before main has started a.                                       *)
(***************************************************************************)
THEOREM GreetingsAlternate == SyncSpec => Turns!Safety
  <1>1. SyncInit => SyncIInv /\ Turns!Init
    BY DEF SyncInit, SyncIInv, SyncTypeOK, HasTurn, Waits, Threads, Other, Turns!Init
  <1>2. SyncIInv /\ [SyncNext]_syncVars => SyncIInv' /\ [Turns!Next]_(Turns!turnVars)
    <2> SUFFICES ASSUME SyncIInv, [SyncNext]_syncVars
                 PROVE  SyncIInv' /\ [Turns!Next]_(Turns!turnVars)
      OBVIOUS
    <2>1. CASE UNCHANGED syncVars
      BY <2>1 DEF syncVars, SyncIInv, SyncTypeOK, HasTurn, Waits, Turns!turnVars
    <2>2. CASE SyncNext  BY <2>2, HelloStep, StartsStep DEF SyncNext
    <2> QED  BY <2>1, <2>2
  <1> QED  BY <1>1, <1>2, PTL DEF SyncSpec, Turns!Safety

----------------------------------------------------------------------------
(* Bridge *)

\* The Ethernet ports the loop has visited.
Visited == {i \in Ports : i < nextIface}

\* The loop over the interfaces: a slot for every visited port as long as
\* there are slots, and every port that found one was added or refused.
BridgeIInv ==
    /\ kind \in [Interfaces -> Kinds]
    /\ joining \in {"find", "add", "address", "running"}
    /\ nextIface \in 1..(INTERFACES + 1)
    /\ joining \in {"address", "running"} => nextIface = INTERFACES + 1
    /\ slots \in Seq(Interfaces)
    /\ Len(slots) = IF Cardinality(Visited) <= INTERFACE_COUNT
                    THEN Cardinality(Visited) ELSE INTERFACE_COUNT
    /\ Cardinality(Visited) <= INTERFACE_COUNT => Visited \subseteq members \cup refused
    /\ \A i \in members : kind[i] # "virtual"

\* The interfaces the loop has passed can be counted.
LEMMA VisitedFinite ==
    IsFiniteSet(Visited) /\ Cardinality(Visited) \in Nat
  <1>1. IsFiniteSet(Interfaces)  BY FS_Interval, BridgeAssumption DEF Interfaces
  <1>2. Visited \subseteq Interfaces  BY DEF Visited, Ports
  <1> QED  BY <1>1, <1>2, FS_Subset, FS_CardinalityType

\* One iteration of the loop.
LEMMA AddIfaceStep ==
    ASSUME BridgeIInv, bridge_add_iface_cb
    PROVE  BridgeIInv'
  <1> USE BridgeAssumption DEF BridgeIInv, Interfaces, Kinds, Ports
  <1> DEFINE n == nextIface
  <1>1. n \in Interfaces /\ n \notin Visited /\ kind' = kind /\ nextIface' = n + 1
    BY DEF bridge_add_iface_cb, Visited
  <1>2. IsFiniteSet(Visited) /\ Cardinality(Visited) \in Nat  BY VisitedFinite
  <1>3. CASE kind[n] = "ethernet"
    <2>1. Visited' = Visited \cup {n}  BY <1>1, <1>3 DEF Visited
    <2>2. Cardinality(Visited') = Cardinality(Visited) + 1
      BY <1>1, <1>2, <2>1, FS_AddElement
    <2>3. CASE Len(slots) < INTERFACE_COUNT
      <3>1. slots' = Append(slots, n) /\ members' \cup refused' = members \cup refused \cup {n}
        BY <1>3, <2>3 DEF bridge_add_iface_cb, Adds
      <3>2. Len(slots') = Len(slots) + 1 /\ slots' \in Seq(Interfaces)  BY <1>1, <3>1
      <3>3. members' \subseteq members \cup {n}  BY DEF bridge_add_iface_cb
      <3> QED  BY <1>1, <1>2, <1>3, <2>1, <2>2, <2>3, <3>1, <3>2, <3>3
                DEF bridge_add_iface_cb
    <2>4. CASE ~ (Len(slots) < INTERFACE_COUNT)
      BY <1>1, <1>2, <2>1, <2>2, <2>4 DEF bridge_add_iface_cb, Adds
    <2> QED  BY <2>3, <2>4
  <1>4. CASE kind[n] # "ethernet"
    <2>1. Visited' = Visited  BY <1>1, <1>4 DEF Visited
    <2>2. slots' = slots /\ members \cup refused \subseteq members' \cup refused'
      BY <1>4 DEF bridge_add_iface_cb
    <2>3. \A i \in members' : kind[i] # "virtual"  BY DEF bridge_add_iface_cb, Adds
    <2> QED  BY <1>1, <1>2, <2>1, <2>2, <2>3 DEF bridge_add_iface_cb
  <1> QED  BY <1>3, <1>4

(***************************************************************************)
(* The loop invariant of the bridge, for every number of interfaces, of    *)
(* slots and every order of kinds.                                         *)
(***************************************************************************)
THEOREM BridgeInvariant == BridgeSpec => []BridgeIInv
  <1>1. BridgeInit => BridgeIInv
    <2> SUFFICES ASSUME BridgeInit PROVE BridgeIInv  OBVIOUS
    <2>1. Visited = {}  BY BridgeAssumption DEF BridgeInit, Visited, Ports, Interfaces
    <2>2. Cardinality(Visited) = 0  BY <2>1, FS_EmptySet
    <2> QED  BY <2>1, <2>2, BridgeAssumption DEF BridgeInit, BridgeIInv
  <1>2. BridgeIInv /\ [BridgeNext]_bridgeVars => BridgeIInv'
    <2> SUFFICES ASSUME BridgeIInv, [BridgeNext]_bridgeVars PROVE BridgeIInv'  OBVIOUS
    <2> USE DEF BridgeIInv, Visited, Ports
    <2>1. CASE UNCHANGED bridgeVars  BY <2>1 DEF bridgeVars
    <2>2. CASE bridge_find_cb  BY <2>2 DEF bridge_find_cb
    <2>3. CASE bridge_add_iface_cb  BY <2>3, AddIfaceStep
    <2>4. CASE BringUp  BY <2>4, BridgeAssumption DEF BringUp
    <2>5. CASE iface_set_static  BY <2>5 DEF iface_set_static
    <2>6. ASSUME NEW i \in Interfaces, bridge_event_handler(i) PROVE BridgeIInv'
      BY <2>6 DEF bridge_event_handler
    <2> QED  BY <2>1, <2>2, <2>3, <2>4, <2>5, <2>6 DEF BridgeNext
  <1> QED  BY <1>1, <1>2, PTL DEF BridgeSpec

(***************************************************************************)
(* When the bridge gets its address every Ethernet port has joined it,     *)
(* unless the slots ran out or the stack refused it, and no virtual        *)
(* interface has.                                                          *)
(***************************************************************************)
THEOREM EveryPortJoins == BridgeSpec => []PortsJoined
  <1>1. BridgeIInv => PortsJoined
    <2> SUFFICES ASSUME BridgeIInv, joining \in {"address", "running"}
                 PROVE  /\ Cardinality(Ports) <= INTERFACE_COUNT =>
                              Ports \subseteq members \cup refused
                        /\ Cardinality(Ports) >= INTERFACE_COUNT =>
                              Len(slots) = INTERFACE_COUNT
                        /\ \A i \in members : kind[i] # "virtual"
      BY DEF PortsJoined
    <2>1. Visited = Ports
      BY BridgeAssumption DEF BridgeIInv, Visited, Ports, Interfaces
    <2>2. Cardinality(Ports) \in Nat  BY <2>1, VisitedFinite
    <2> QED  BY <2>1, <2>2, BridgeAssumption DEF BridgeIInv
  <1> QED  BY <1>1, BridgeInvariant, PTL

----------------------------------------------------------------------------
(* All demos *)

\* The invariants that the type invariant of the composition rests on.
DemosIInv == StorageIInv /\ LanIInv /\ BleIInv

(***************************************************************************)
(* Whichever demo the board was flashed with, the variables keep their     *)
(* types: bytes stay bytes, the heart rate below its limit, the semaphore  *)
(* and the socket pool within theirs.                                      *)
(***************************************************************************)
THEOREM DemosTypeOK == Spec => []TypeOK
  <1>1. Init => DemosIInv  BY StorageStart, LanStart, BleStart DEF Init, DemosIInv
  <1>2. DemosIInv /\ [Next]_vars => DemosIInv'
    <2> SUFFICES ASSUME DemosIInv, [Next]_vars PROVE DemosIInv'  OBVIOUS
    <2>1. [StorageNext]_storageVars /\ [LanNext]_lanVars /\ [BleNext]_bleVars
      BY DEF Next, Still, vars
    <2> QED  BY <2>1, StorageStep, LanStep, BleStep DEF DemosIInv
  <1>3. DemosIInv => TypeOK  BY DEF DemosIInv, StorageIInv, LanIInv, BleIInv, TypeOK
  <1> QED  BY <1>1, <1>2, <1>3, PTL DEF Spec

(***************************************************************************)
(* Whichever demo the board was flashed with, each component starts in its *)
(* own initial state and takes its own steps or none: what is proved of a  *)
(* component from its first state and its steps holds in MCDemos too.      *)
(***************************************************************************)
THEOREM DemosRunComponents ==
    Spec => /\ StorageInit /\ [][StorageNext]_storageVars
            /\ DisplayInit /\ [][DisplayNext]_displayVars
            /\ SyncInit /\ [][SyncNext]_syncVars
            /\ LanInit /\ [][LanNext]_lanVars
            /\ BleInit /\ [][BleNext]_bleVars
            /\ BridgeInit /\ [][BridgeNext]_bridgeVars
            /\ DhcpInit /\ [][DhcpNext]_dhcpVars
            /\ I2cInit /\ [][I2cNext]_i2cVars
  <1>1. Init => /\ StorageInit /\ DisplayInit /\ SyncInit /\ LanInit
                /\ BleInit /\ BridgeInit /\ DhcpInit /\ I2cInit
    BY DEF Init
  <1>2. [Next]_vars =>
            /\ [StorageNext]_storageVars /\ [DisplayNext]_displayVars
            /\ [SyncNext]_syncVars /\ [LanNext]_lanVars
            /\ [BleNext]_bleVars /\ [BridgeNext]_bridgeVars
            /\ [DhcpNext]_dhcpVars /\ [I2cNext]_i2cVars
    BY DEF Next, Still, vars
  <1> QED  BY <1>1, <1>2, PTL DEF Spec

=============================================================================
