---------------------------- MODULE LedReporting ----------------------------
(***************************************************************************)
(* The LED of the MXChip board: the setLedState command sets it, the       *)
(* reported property ledState tells the device twin about it, and the      *)
(* telemetry of the second soil moisture sensor is powered from the very   *)
(* pin that lights it (app/sample_pnp_device_component.c, the report       *)
(* handler of app/sample_pnp_iot_device.c, app/sample_vt_device_driver.c). *)
(*                                                                         *)
(* All of it runs on the application thread, one handler at a time.  What  *)
(* makes it hard is that a report may fail, or be applied by the hub and   *)
(* the acknowledgement lost, that one pass of the handler may send the     *)
(* property twice, and that the board forgets everything on a reset while  *)
(* the twin does not.                                                      *)
(***************************************************************************)
EXTENDS Naturals

CONSTANTS
  MaxFailures, \* bound: reports that fail, in one behaviour
  MaxLostAcks, \* bound: reports the hub applies and the device takes for failed
  MaxResets    \* bound: restarts of the board

VARIABLES
  sensorLED, \* sample_device.sensorLEDState
  reported,  \* sample_led_state_reported
  sent,      \* sample_device_properties_sent
  pin,       \* the level of GPIOC pin 13
  pass,      \* where the application thread is in the report handler
  twinLED,   \* ledState in the device twin
  failures,  \* failed reports so far
  lostAcks,  \* lost acknowledgements so far
  resets     \* restarts so far

deviceVars == <<sensorLED, reported, sent, pin>>
hubVars == <<twinLED, failures, lostAcks>>
vars == <<deviceVars, pass, hubVars, resets>>

Levels == {"off", "on"}

-----------------------------------------------------------------------------
(***************************************************************************)
(* One report of the LED's state: it is applied and acknowledged with a    *)
(* status of 2xx, or it is refused or lost, or its acknowledgement does    *)
(* not come within five seconds.                                           *)
(***************************************************************************)
sample_pnp_device_led_state_property(acked) ==
  \/ /\ acked
     /\ twinLED' = sensorLED
     /\ UNCHANGED <<failures, lostAcks>>
  \/ /\ ~acked
     /\ failures < MaxFailures
     /\ failures' = failures + 1
     /\ UNCHANGED <<twinLED, lostAcks>>
  \/ /\ ~acked
     /\ lostAcks < MaxLostAcks
     /\ lostAcks' = lostAcks + 1
     /\ twinLED' = sensorLED
     /\ UNCHANGED failures

\* Mutated form: the first report is skipped when the LED is as it was at boot.
ReportOnceWhenOn ==
  /\ pass = "idle"
  /\ pass' = "changed"
  /\ IF sent = 1 \/ sensorLED = reported
     THEN sent' = 1 /\ UNCHANGED hubVars
     ELSE \E acked \in BOOLEAN :
            sample_pnp_device_led_state_property(acked) /\ sent' = (IF acked THEN 1 ELSE 0)
  /\ UNCHANGED <<sensorLED, reported, pin, resets>>

\* sample_device_reported_property_action, first half: "only report once".
ReportOnce ==
  /\ pass = "idle"
  /\ pass' = "changed"
  /\ IF sent = 1
     THEN UNCHANGED <<sent, hubVars>>
     ELSE \E acked \in BOOLEAN :
            sample_pnp_device_led_state_property(acked) /\ sent' = (IF acked THEN 1 ELSE 0)
  /\ UNCHANGED <<sensorLED, reported, pin, resets>>

\* Mutated form: a change counts as reported even when the report failed.
ReportChangeBlindly ==
  /\ pass = "changed"
  /\ pass' = "idle"
  /\ IF reported = sensorLED
     THEN UNCHANGED <<reported, hubVars>>
     ELSE /\ \E acked \in BOOLEAN : sample_pnp_device_led_state_property(acked)
          /\ reported' = sensorLED
  /\ UNCHANGED <<sensorLED, sent, pin, resets>>

\* Mutated form: a change is reported, but not remembered as such.
ReportChangeForgetfully ==
  /\ pass = "changed"
  /\ pass' = "idle"
  /\ IF reported = sensorLED
     THEN UNCHANGED hubVars
     ELSE \E acked \in BOOLEAN : sample_pnp_device_led_state_property(acked)
  /\ UNCHANGED <<deviceVars, resets>>

\* Second half: "only report when changed".
ReportWhenChanged ==
  /\ pass = "changed"
  /\ pass' = "idle"
  /\ IF reported = sensorLED
     THEN UNCHANGED <<reported, hubVars>>
     ELSE \E acked \in BOOLEAN :
            /\ sample_pnp_device_led_state_property(acked)
            /\ reported' = IF acked THEN sensorLED ELSE reported
  /\ UNCHANGED <<sensorLED, sent, pin, resets>>

-----------------------------------------------------------------------------
set_led_state_action(level) == pin' = level

\* Mutated form: what is read is kept as an integer, not converted to bool.
LevelsReadRaw == [true |-> {"on"}, false |-> {"off"}, empty |-> Levels \cup {"7"},
                  other |-> {}]

(***************************************************************************)
(* The command's payload is true, false, empty or something else.  With an *)
(* empty one the handler goes on with the local it never assigned, so      *)
(* either level may come out; with anything else it changes nothing.       *)
(***************************************************************************)
LevelsRead == [true |-> {"on"}, false |-> {"off"}, empty |-> Levels, other |-> {}]

sample_pnp_device_set_led_state_command(payload) ==
  /\ pass = "idle"
  /\ \E level \in LevelsRead[payload] :
       set_led_state_action(level) /\ sensorLED' = level
  /\ UNCHANGED <<reported, sent, pass, hubVars, resets>>

\* A fingerprint evaluation switches the sensor's supply off and on, and ends
\* with either level; it runs in every state of the connection.
nx_vt_compute_evaluate_fingerprint_all_sensors ==
  /\ pass = "idle"
  /\ pin' \in Levels
  /\ UNCHANGED <<sensorLED, reported, sent, pass, hubVars, resets>>

\* The sensor's supply is switched on to read it, and stays on.
get_sensor_data ==
  /\ pass = "idle"
  /\ pin' = "on"
  /\ UNCHANGED <<sensorLED, reported, sent, pass, hubVars, resets>>

\* The board restarts: its memory is lost, the twin is not.
Reset ==
  /\ resets < MaxResets
  /\ resets' = resets + 1
  /\ sensorLED' = "off"
  /\ reported' = "off"
  /\ sent' = 0
  /\ pin' = "off"
  /\ pass' = "idle"
  /\ UNCHANGED hubVars

Init ==
  /\ sensorLED = "off"
  /\ reported = "off"
  /\ sent = 0
  /\ pin = "off"
  /\ pass = "idle"
  /\ twinLED \in Levels \cup {"none"}
  /\ failures = 0
  /\ lostAcks = 0
  /\ resets = 0

Next ==
  \/ ReportOnce
  \/ ReportWhenChanged
  \/ \E payload \in DOMAIN LevelsRead : sample_pnp_device_set_led_state_command(payload)
  \/ get_sensor_data
  \/ nx_vt_compute_evaluate_fingerprint_all_sensors
  \/ Reset

Spec == Init /\ [][Next]_vars

\* The loop of a connected device triggers the report handler every period.
FairSpec == Spec /\ WF_vars(ReportOnce) /\ WF_vars(ReportWhenChanged)

-----------------------------------------------------------------------------
(***************************************************************************)
(* Properties.                                                             *)
(***************************************************************************)

\* Every variable has a value the program can give it.
TypeOK ==
  /\ sensorLED \in Levels
  /\ reported \in Levels
  /\ sent \in {0, 1}
  /\ pin \in Levels
  /\ pass \in {"idle", "changed"}
  /\ twinLED \in Levels \cup {"none"}
  /\ failures \in Nat
  /\ lostAcks \in Nat
  /\ resets \in Nat

\* The device's idea of what the twin says is the truth.
InStep == sent = 1 /\ reported = twinLED

\* Once it is, it stays so until a reset: no command, and no report refused or
\* lost, makes the device believe in a report the twin never got.  Only a
\* report that is applied and not acknowledged can.
StaysInStep == [][InStep => InStep' \/ Reset \/ lostAcks' > lostAcks]_vars

\* While no report fails, every pass of the report handler ends in step, with a
\* twin left over from before a reset and a command before the first report too.
InStepWithoutFailure ==
  failures = 0 /\ lostAcks = 0 /\ pass = "idle" /\ sent = 1 => reported = twinLED

\* A change of the LED is reported until it is acknowledged, whatever failed
\* before, and whatever commands come in the meantime.
ReportAcknowledged == []<>(sent = 1 /\ reported = sensorLED)

\* What the documentation lets one confirm after a command: the twin's ledState
\* is the LED's.  Stated for the moments when the device has nothing left to
\* report, so nothing would ever correct the twin.
TwinShowsLED == pass = "idle" /\ sent = 1 /\ reported = sensorLED => twinLED = sensorLED

\* What the documentation lets one confirm after setLedState with state false:
\* the LED is disabled.
DisabledLedIsOff == sensorLED = "off" => pin = "off"

=============================================================================
