------------------------------ MODULE BleShell ------------------------------
(***************************************************************************)
(* The BLE shell demo (app/demos/rw612-ble-shell/src/main.c): the shell    *)
(* command "hrs simulate on|off" registers and advertises a heart rate     *)
(* service, and main sends a heart beat every second while it is on. Main  *)
(* and the shell are two threads; bt_le_adv_start may fail, as it does     *)
(* before "bt init", and so may bt_le_adv_stop, whose result is ignored. A *)
(* connecting central ends the advertising.                                *)
(***************************************************************************)
EXTENDS Naturals

CONSTANTS LOWEST, WRAP    \* the first heart rate, and the one it wraps at

ASSUME BleAssumption == {LOWEST, WRAP} \subseteq Nat /\ LOWEST < WRAP

VARIABLES
    hrs_registered,
    hrs_simulate,
    advertising,     \* the controller advertises the service
    command,         \* the shell: "idle", or past the advertising call of "on" or "off"
    beat,            \* main: "dtr", "sleep", or "notify" once it has seen hrs_simulate
    heartrate,
    late,            \* history: beats sent since hrs_simulate was cleared
    stop_failed          \* history: the last bt_le_adv_stop failed

bleVars == <<hrs_registered, hrs_simulate, advertising, command, beat, heartrate, late,
            stop_failed>>

BleTypeOK ==
    /\ {hrs_registered, hrs_simulate, advertising, stop_failed} \subseteq BOOLEAN
    /\ command \in {"idle", "on", "off"}
    /\ beat \in {"dtr", "sleep", "notify"}
    /\ heartrate \in LOWEST..(WRAP - 1)
    /\ late \in 0..2

BleInit ==
    /\ hrs_registered = FALSE
    /\ hrs_simulate = FALSE
    /\ advertising = FALSE
    /\ command = "idle"
    /\ beat = "dtr"
    /\ heartrate = LOWEST
    /\ late = 0
    /\ stop_failed = FALSE

\* The first "on" registers the service, whether or not it can be advertised.
SimulateOn ==
    /\ command = "idle"
    /\ hrs_registered' = TRUE
    /\ \/ hrs_registered /\ command' = "on" /\ UNCHANGED advertising
       \/ ~hrs_registered /\ command' = "on" /\ advertising' = TRUE
       \/ ~hrs_registered /\ UNCHANGED <<command, advertising>>
    /\ UNCHANGED <<hrs_simulate, beat, heartrate, late, stop_failed>>

SimulateOnDone ==
    /\ command = "on"
    /\ command' = "idle"
    /\ hrs_simulate' = TRUE
    /\ late' = 0
    /\ UNCHANGED <<hrs_registered, advertising, beat, heartrate, stop_failed>>

\* mutant: the advertising goes on
SimulateOffKeepsAdvertising ==
    /\ command = "idle"
    /\ command' = "off"
    /\ UNCHANGED <<hrs_registered, hrs_simulate, advertising, beat, heartrate, late, stop_failed>>

\* "off" stops the advertising of a registered service, or fails to ...
SimulateOff ==
    /\ command = "idle"
    /\ command' = "off"
    /\ \/ hrs_registered /\ advertising' = FALSE /\ stop_failed' = FALSE
       \/ hrs_registered /\ UNCHANGED advertising /\ stop_failed' = TRUE
       \/ ~hrs_registered /\ UNCHANGED <<advertising, stop_failed>>
    /\ UNCHANGED <<hrs_registered, hrs_simulate, beat, heartrate, late>>

\* ... and ends the simulation in any case.
SimulateOffDone ==
    /\ command = "off"
    /\ command' = "idle"
    /\ hrs_simulate' = FALSE
    /\ UNCHANGED <<hrs_registered, advertising, beat, heartrate, late, stop_failed>>

CentralConnects ==
    /\ advertising
    /\ advertising' = FALSE
    /\ UNCHANGED <<hrs_registered, hrs_simulate, command, beat, heartrate, late, stop_failed>>

\* mutant: main looks at hrs_registered
MainLooksRegistered ==
    /\ \/ beat = "dtr" /\ beat' = "sleep"
       \/ beat = "sleep" /\ hrs_registered /\ beat' = "notify"
    /\ UNCHANGED <<hrs_registered, hrs_simulate, advertising, command, heartrate, late, stop_failed>>

\* Main waits for a terminal (DTR), then looks at hrs_simulate every second.
MainLooks ==
    /\ \/ beat = "dtr" /\ beat' = "sleep"
       \/ beat = "sleep" /\ hrs_simulate /\ beat' = "notify"
    /\ UNCHANGED <<hrs_registered, hrs_simulate, advertising, command, heartrate, late, stop_failed>>

\* mutant: the rate wraps one beat too late
hrs_notifyLate ==
    /\ beat = "notify"
    /\ beat' = "sleep"
    /\ heartrate' = IF heartrate = WRAP THEN LOWEST ELSE heartrate + 1
    /\ late' = IF hrs_simulate \/ late = 2 THEN late ELSE late + 1
    /\ UNCHANGED <<hrs_registered, hrs_simulate, advertising, command, stop_failed>>

hrs_notify ==
    /\ beat = "notify"
    /\ beat' = "sleep"
    /\ heartrate' = IF heartrate + 1 = WRAP THEN LOWEST ELSE heartrate + 1
    /\ late' = IF hrs_simulate \/ late = 2 THEN late ELSE late + 1
    /\ UNCHANGED <<hrs_registered, hrs_simulate, advertising, command, stop_failed>>

BleNext ==
    \/ SimulateOn \/ SimulateOnDone \/ SimulateOff \/ SimulateOffDone
    \/ CentralConnects
    \/ MainLooks \/ hrs_notify

BleSpec == BleInit /\ [][BleNext]_bleVars

----------------------------------------------------------------------------
(***************************************************************************)
(* After "off" at most one more heart beat is sent: the one for which main *)
(* had already looked at hrs_simulate when the shell cleared it.           *)
(***************************************************************************)
AtMostOneLateBeat == late <= 1

(***************************************************************************)
(* The board goes on advertising a heart rate service that it does not     *)
(* simulate only if bt_le_adv_stop failed: across failed starts, repeated  *)
(* commands, connections and main's beats, no other path of the two flags  *)
(* leaves the advertising on after "off".                                  *)
(***************************************************************************)
AdvertisesOnlyWhileOn == advertising /\ command = "idle" => hrs_simulate \/ stop_failed

=============================================================================
