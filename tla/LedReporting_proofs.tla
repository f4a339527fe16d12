------------------------ MODULE LedReporting_proofs ------------------------
(***************************************************************************)
(* Proofs about LedReporting, for every value of its constants.            *)
(***************************************************************************)
EXTENDS LedReporting, TLAPS

\* Every handler, and a reset, writes only values the variables can hold.
THEOREM TypeCorrect == Spec => []TypeOK
<1>1. Init => TypeOK
  BY DEF Init, TypeOK, Levels
<1>2. TypeOK /\ [Next]_vars => TypeOK'
  <2> SUFFICES ASSUME TypeOK, [Next]_vars PROVE TypeOK'
    OBVIOUS
  <2> USE DEF TypeOK, Levels, deviceVars, hubVars
  <2>1. CASE ReportOnce
    BY <2>1 DEF ReportOnce, sample_pnp_device_led_state_property
  <2>2. CASE ReportWhenChanged
    BY <2>2 DEF ReportWhenChanged, sample_pnp_device_led_state_property
  <2>3. CASE \E payload \in DOMAIN LevelsRead :
               sample_pnp_device_set_led_state_command(payload)
    BY <2>3 DEF sample_pnp_device_set_led_state_command, set_led_state_action, LevelsRead
  <2>4. CASE get_sensor_data
    BY <2>4 DEF get_sensor_data
  <2>5. CASE nx_vt_compute_evaluate_fingerprint_all_sensors
    BY <2>5 DEF nx_vt_compute_evaluate_fingerprint_all_sensors
  <2>6. CASE Reset
    BY <2>6 DEF Reset
  <2>7. CASE UNCHANGED vars
    BY <2>7 DEF vars
  <2> QED
    BY <2>1, <2>2, <2>3, <2>4, <2>5, <2>6, <2>7 DEF Next
<1> QED
  BY <1>1, <1>2, PTL DEF Spec

\* A report that does not come back acknowledged leaves the twin alone, unless
\* it is the acknowledgement that was lost.
LEMMA ReportOutcome ==
  ASSUME NEW acked \in BOOLEAN, sample_pnp_device_led_state_property(acked),
         lostAcks \in Nat, ~(lostAcks' > lostAcks)
  PROVE  twinLED' = IF acked THEN sensorLED ELSE twinLED
BY DEF sample_pnp_device_led_state_property

\* Once the device and the twin agree, only a reset or a lost acknowledgement
\* ends it, whatever the number of failed reports, commands and restarts.
THEOREM AgreementLasts == Spec => StaysInStep
<1>1. TypeOK /\ [Next]_vars
        => [InStep => InStep' \/ Reset \/ lostAcks' > lostAcks]_vars
  <2> SUFFICES ASSUME TypeOK, Next, InStep, ~Reset, ~(lostAcks' > lostAcks)
               PROVE  InStep'
    OBVIOUS
  <2>1. CASE ReportOnce
    BY <2>1 DEF ReportOnce, InStep, hubVars
  <2>2. CASE ReportWhenChanged
    <3>1. CASE reported = sensorLED
      BY <2>2, <3>1 DEF ReportWhenChanged, InStep, hubVars
    <3>2. CASE reported # sensorLED
      <4>1. PICK acked \in BOOLEAN :
              /\ sample_pnp_device_led_state_property(acked)
              /\ reported' = IF acked THEN sensorLED ELSE reported
        BY <2>2, <3>2 DEF ReportWhenChanged
      <4>2. twinLED' = IF acked THEN sensorLED ELSE twinLED
        BY <4>1, ReportOutcome DEF TypeOK
      <4> QED
        BY <2>2, <4>1, <4>2 DEF ReportWhenChanged, InStep
    <3> QED
      BY <3>1, <3>2
  <2>3. CASE \E payload \in DOMAIN LevelsRead :
               sample_pnp_device_set_led_state_command(payload)
    BY <2>3 DEF sample_pnp_device_set_led_state_command, InStep, hubVars
  <2>4. CASE get_sensor_data \/ nx_vt_compute_evaluate_fingerprint_all_sensors
    BY <2>4 DEF get_sensor_data, nx_vt_compute_evaluate_fingerprint_all_sensors, InStep,
                hubVars
  <2> QED
    BY <2>1, <2>2, <2>3, <2>4 DEF Next
<1> QED
  BY <1>1, TypeCorrect, PTL DEF Spec, StaysInStep

\* Between the two halves of a pass that has reported for the first time, the
\* twin has the LED's state and the device has not noted it yet.
PassInv ==
  /\ InStepWithoutFailure
  /\ failures = 0 /\ lostAcks = 0 /\ pass = "changed" /\ sent = 1
       => twinLED \in {reported, sensorLED}

\* Without failed reports every pass ends with the device and the twin in step,
\* through any number of commands and restarts.
THEOREM InStepUnlessFailed == Spec => []InStepWithoutFailure
<1>1. Init => PassInv
  BY DEF Init, PassInv, InStepWithoutFailure
<1>2. TypeOK /\ PassInv /\ [Next]_vars => PassInv'
  <2> SUFFICES ASSUME TypeOK, PassInv, [Next]_vars PROVE PassInv'
    OBVIOUS
  <2> USE DEF PassInv, InStepWithoutFailure, hubVars, TypeOK
  <2>1. CASE ReportOnce
    BY <2>1 DEF ReportOnce, sample_pnp_device_led_state_property
  <2>2. CASE ReportWhenChanged
    BY <2>2 DEF ReportWhenChanged, sample_pnp_device_led_state_property
  <2>3. CASE \E payload \in DOMAIN LevelsRead :
               sample_pnp_device_set_led_state_command(payload)
    BY <2>3 DEF sample_pnp_device_set_led_state_command
  <2>4. CASE get_sensor_data \/ nx_vt_compute_evaluate_fingerprint_all_sensors
    BY <2>4 DEF get_sensor_data, nx_vt_compute_evaluate_fingerprint_all_sensors
  <2>5. CASE Reset
    BY <2>5 DEF Reset
  <2>6. CASE UNCHANGED vars
    BY <2>6 DEF vars, deviceVars
  <2> QED
    BY <2>1, <2>2, <2>3, <2>4, <2>5, <2>6 DEF Next
<1> QED
  BY <1>1, <1>2, TypeCorrect, PTL DEF Spec, PassInv
=============================================================================
