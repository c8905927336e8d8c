------------------------------- MODULE MCDemos -------------------------------
(***************************************************************************)
(* The demos, one at a time: "demo" is the program the board was flashed   *)
(* with, and only its component takes steps. The state space is the sum of *)
(* the components' and not their product.                                  *)
(***************************************************************************)
EXTENDS Littlefs, Display, Synchronization, Lan8651, BleShell, Bridge, Dhcpv4Client, I2cShell

VARIABLE demo

\* Sixteenths of a degree: the limits of the sensor, and both sides of 0.
Temperatures == {-2048, -880, -401, -16, -1, 0, 1, 15, 400, 2000, 2047}

Demos == {"littlefs", "display", "synchronization", "lan8651", "ble", "bridge", "dhcpv4", "i2c"}

vars == <<demo, storageVars, displayVars, syncVars, lanVars, bleVars, bridgeVars, dhcpVars, i2cVars>>

\* A display and a set of interfaces are chosen only where they matter.
APanel == CHOOSE p \in Panels : TRUE
SomeKinds == [i \in Interfaces |-> "ethernet"]

Init ==
    /\ demo \in Demos
    /\ StorageInit /\ DisplayInit /\ SyncInit /\ LanInit
    /\ BleInit /\ BridgeInit /\ DhcpInit /\ I2cInit
    /\ demo = "display" \/ panel = APanel
    /\ demo = "bridge" \/ kind = SomeKinds

\* The components of the other demos.
Still(d) ==
    /\ UNCHANGED demo
    /\ IF d = "littlefs" THEN TRUE ELSE UNCHANGED storageVars
    /\ IF d = "display" THEN TRUE ELSE UNCHANGED displayVars
    /\ IF d = "synchronization" THEN TRUE ELSE UNCHANGED syncVars
    /\ IF d = "lan8651" THEN TRUE ELSE UNCHANGED lanVars
    /\ IF d = "ble" THEN TRUE ELSE UNCHANGED bleVars
    /\ IF d = "bridge" THEN TRUE ELSE UNCHANGED bridgeVars
    /\ IF d = "dhcpv4" THEN TRUE ELSE UNCHANGED dhcpVars
    /\ IF d = "i2c" THEN TRUE ELSE UNCHANGED i2cVars

Next ==
    \/ demo = "littlefs" /\ StorageNext /\ Still("littlefs")
    \/ demo = "display" /\ DisplayNext /\ Still("display")
    \/ demo = "synchronization" /\ SyncNext /\ Still("synchronization")
    \/ demo = "lan8651" /\ LanNext /\ Still("lan8651")
    \/ demo = "ble" /\ BleNext /\ Still("ble")
    \/ demo = "bridge" /\ BridgeNext /\ Still("bridge")
    \/ demo = "dhcpv4" /\ DhcpNext /\ Still("dhcpv4")
    \/ demo = "i2c" /\ I2cNext /\ Still("i2c")

\* Each component's fairness, for the demo that runs.
Fairness ==
    /\ WF_vars(demo = "display" /\ DisplayFair /\ Still("display"))
    /\ WF_vars(demo = "synchronization" /\ Starts /\ Still("synchronization"))
    /\ \A t \in Threads : WF_vars(demo = "synchronization" /\ hello_loop(t) /\ Still("synchronization"))
    /\ WF_vars(demo = "lan8651" /\ udp_server /\ Still("lan8651"))
    /\ WF_vars(demo = "lan8651" /\ http_server /\ Still("lan8651"))

Spec == Init /\ [][Next]_vars /\ Fairness

\* The variables of the demos keep their types (bytes wrap at 256, the heart
\* rate at its limit, a semaphore and a socket pool at theirs).
TypeOK == StorageTypeOK /\ LanTypeOK /\ BleTypeOK

=============================================================================
