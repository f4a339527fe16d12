------------------------- MODULE Provisioning_proofs -------------------------
(***************************************************************************)
(* Proofs about Provisioning, for any hubs, any number of failures, and    *)
(* all four builds.                                                        *)
(***************************************************************************)
EXTENDS Provisioning, TLAPS

\* The place of each call in the ladder.
Order ==
  [provInitialize |-> 1, provCertificate |-> 2, provCredential |-> 3, register |-> 4,
   deviceInfoGet |-> 5, hubInitialize |-> 6, hubCertificate |-> 7, hubCredential |-> 8,
   statusCallback |-> 9, propertiesCallback |-> 10, commandCallback |-> 11,
   desiredCallback |-> 12, component |-> 13, vtComponent |-> 14]

AllCalls == DpsCalls \cup HubSetup \cup {"hubCertificate"}

BuildInv ==
  /\ naming \in {"service", "build"}
  /\ credential \in {"certificate", "key"}
  /\ call \in Calls
  /\ naming = "build" => call \notin DpsCalls
  /\ {buffer, hub, assigned} \subseteq Hubs \cup {"zeroes"}

\* Who sleeps has been disconnected.
SleepInv == app \in {"sleepInit", "sleepConnect"} => state = "DISCONNECTED"

\* Outside INIT no call is due and the hub client is whole.
ReadyInv ==
  state # "INIT" =>
    /\ call = FirstCall
    /\ HubClientLive
    /\ naming = "service" => hub = assigned

\* While the handler is on its way, the union holds what the calls so far have built.
LadderInv ==
  state = "INIT" =>
    /\ call \in {"provInitialize", "hubInitialize"} => union = "none" /\ configured = {}
    /\ call \in DpsCalls \ {"provInitialize"} => union = "prov" /\ configured \subseteq DpsCalls
    /\ Order[call] > 6 => union = "hub" /\ configured = {c \in HubSetup : Order[c] < Order[call]}
    /\ naming = "service" /\ Order[call] = 6 => buffer = assigned
    /\ naming = "service" /\ Order[call] > 6 => hub = assigned

Inv == BuildInv /\ SleepInv /\ ReadyInv /\ LadderInv

\* The rest of the loop neither enters nor leaves INIT, and puts only a
\* disconnected device to sleep.
LEMMA RestKeepsInit ==
  ASSUME SleepInv,
         Loop!Handlers \/ Loop!Callbacks \/ Loop!Network \/ Loop!PeriodElapsed
  PROVE  (state' = "INIT" <=> state = "INIT") /\ SleepInv'
<1> USE DEF SleepInv, Loop!appVars, Loop!envVars
<1>1. CASE Loop!Handlers
  <2>1. CASE Loop!EventsGet \/ Loop!EventsTimeout \/ Loop!EndOfTurn
    BY <2>1 DEF Loop!EventsGet, Loop!EventsTimeout, Loop!EndOfTurn
  <2>2. ASSUME NEW e \in Loop!Events, Loop!EarlyReturn(e) PROVE state' = state /\ app' = app
    BY <2>2 DEF Loop!EarlyReturn
  <2>3. CASE Loop!sample_connect_action
    BY <2>3 DEF Loop!sample_connect_action, Loop!Enter, Loop!AtStage, Loop!ActsIn
  <2>4. CASE Loop!sample_device_properties_get_action \/ Loop!sample_command_action
             \/ Loop!sample_device_desired_property_action
    BY <2>4 DEF Loop!sample_device_properties_get_action, Loop!sample_command_action,
       Loop!sample_device_desired_property_action, Loop!Receive
  <2>5. CASE Loop!sample_telemetry_action \/ Loop!sample_device_reported_property_action
    BY <2>5 DEF Loop!sample_telemetry_action, Loop!sample_device_reported_property_action
  <2>6. CASE Loop!sample_disconnect_action
    BY <2>6 DEF Loop!sample_disconnect_action, Loop!Enter, Loop!AtStage, Loop!ActsIn
  <2>7. CASE Loop!sample_connected_action
    BY <2>7 DEF Loop!sample_connected_action, Loop!Enter, Loop!AtStage, Loop!ActsIn
  <2>8. CASE Loop!sample_connection_error_recover
    BY <2>8 DEF Loop!sample_connection_error_recover, Loop!Enter, Loop!ActsIn
  <2>9. CASE Loop!RecoverReconnect
    BY <2>9 DEF Loop!RecoverReconnect
  <2>10. QED
    BY <1>1, <2>1, <2>2, <2>3, <2>4, <2>5, <2>6, <2>7, <2>8, <2>9 DEF Loop!Handlers
<1>2. CASE Loop!Callbacks \/ Loop!Network \/ Loop!PeriodElapsed
  BY <1>2 DEF Loop!Callbacks, Loop!Network, Loop!PeriodElapsed, Loop!StatusCallbackWrite,
     Loop!connection_status_callback, Loop!message_receive_callback, Loop!LinkOpened,
     Loop!LinkLost, Loop!MessageReceived
<1>3. QED
  BY <1>1, <1>2

\* A step of the ladder is taken in INIT, before anything else of the turn.
LEMMA EnterInit ==
  ASSUME NEW c, At(c)
  PROVE  state = "INIT" /\ call = c /\ app = "stages"
BY DEF At, Loop!AtStage

\* The invariant: however the calls fail, the union holds what the place in the
\* ladder says, and outside INIT a whole hub client.
THEOREM Invariance == Spec => []Inv
<1>1. Init => Inv
  BY HubsAssumption DEF Init, Inv, BuildInv, SleepInv, ReadyInv, LadderInv, Loop!Init, FirstCall,
     Calls, DpsCalls, HubSetup, Order
<1>2. Inv /\ [Next]_vars => Inv'
  <2> SUFFICES ASSUME Inv, [Next]_vars PROVE Inv'
    OBVIOUS
  <2> USE DEF Inv, BuildInv, SleepInv, ReadyInv, LadderInv, FirstCall, Calls, DpsCalls, HubSetup,
          Order, HubClientLive, loopVars
  <2>1. ASSUME NEW c \in Calls, CallFails(c) PROVE Inv'
    <3>1. buffer' \in {buffer, assigned}
      BY <2>1 DEF CallFails
    <3>2. QED
      BY <2>1, <3>1, EnterInit DEF CallFails, GiveUp
  <2>2. CASE nx_azure_iot_provisioning_client_initialize
    BY <2>2, EnterInit DEF nx_azure_iot_provisioning_client_initialize, Succeeds, NextCall
  <2>3. ASSUME NEW c \in ConfigureCalls, Configure(c) PROVE Inv'
    <3>1. state = "INIT" /\ call = c /\ app = "stages"
      BY <2>3, EnterInit DEF Configure
    <3>2. CASE c \in DpsCalls
      BY <2>3, <3>1, <3>2 DEF Configure, ConfigureCalls, Succeeds, NextCall
    <3>3. CASE c \notin DpsCalls
      <4>1. Order[call'] = Order[c] + 1 \/ c = "hubInitialize"
        BY <2>3, <3>1, <3>3 DEF Configure, ConfigureCalls, Succeeds, NextCall
      <4>2. Order[c] > 6 /\ Order[call'] > 6 /\ call' \in HubSetup
        BY <2>3, <3>1, <3>3 DEF Configure, ConfigureCalls, Succeeds, NextCall
      <4>3. configured' = configured \cup {c}
        BY <2>3 DEF Configure, Succeeds
      <4>4. configured' = {d \in HubSetup : Order[d] < Order[call']}
        BY <2>3, <3>1, <3>3, <4>1, <4>2, <4>3 DEF ConfigureCalls
      <4>5. QED
        BY <2>3, <3>1, <3>3, <4>2, <4>4 DEF Configure, Succeeds
    <3>4. QED
      BY <3>2, <3>3
  <2>4. CASE nx_azure_iot_provisioning_client_register
    BY <2>4, EnterInit DEF nx_azure_iot_provisioning_client_register, Succeeds, NextCall
  <2>5. CASE sample_dps_entry
    BY <2>5, EnterInit DEF sample_dps_entry
  <2>6. CASE nx_azure_iot_pnp_client_initialize
    BY <2>6, EnterInit, HubsAssumption DEF nx_azure_iot_pnp_client_initialize, Succeeds, NextCall
  <2>7. CASE sample_initialize_iothub
    BY <2>7, EnterInit DEF sample_initialize_iothub
  <2>8. CASE RecoverReinitialize
    BY <2>8 DEF RecoverReinitialize
  <2>9. CASE UNCHANGED provVars /\ (Loop!Handlers \/ Loop!Callbacks \/ Loop!Network \/ Loop!PeriodElapsed)
    BY <2>9, RestKeepsInit DEF provVars
  <2>10. CASE UNCHANGED vars
    BY <2>10 DEF vars, provVars
  <2>11. QED
    BY <2>1, <2>2, <2>3, <2>4, <2>5, <2>6, <2>7, <2>8, <2>9, <2>10
       DEF Next, AppThread, Provision, RestOfLoop
<1>3. QED
  BY <1>1, <1>2, PTL DEF Spec

-----------------------------------------------------------------------------
(***************************************************************************)
(* What the invariant gives.                                               *)
(***************************************************************************)

\* Every call of the ladder leaves each variable a value of its type.
THEOREM TypeCorrect == Spec => []TypeOK
<1>1. Inv => TypeOK
  <2> SUFFICES ASSUME Inv PROVE TypeOK
    OBVIOUS
  <2>1. union \in {"none", "prov", "hub"} /\ configured \in SUBSET Calls
    <3>1. CASE state # "INIT"
      BY <3>1 DEF Inv, ReadyInv, HubClientLive, Calls
    <3>2. CASE state = "INIT" /\ call \in DpsCalls \cup {"hubInitialize"}
      BY <3>2 DEF Inv, BuildInv, LadderInv, Calls, DpsCalls
    <3>3. CASE state = "INIT" /\ call \notin DpsCalls \cup {"hubInitialize"}
      <4>1. Order[call] > 6
        BY <3>3 DEF Inv, BuildInv, Calls, DpsCalls, HubSetup, Order
      <4>2. QED
        BY <3>3, <4>1 DEF Inv, LadderInv, Calls
    <3>4. QED
      BY <3>1, <3>2, <3>3
  <2>2. QED
    BY <2>1 DEF Inv, BuildInv, TypeOK
<1>2. QED
  BY <1>1, Invariance, PTL

\* Whatever failed before, outside INIT there is a hub client on which every
\* call of the build's ladder succeeded.
THEOREM OnlyWholeClients == Spec => []ConnectsWhole
<1>1. Inv => ConnectsWhole
  BY DEF Inv, ReadyInv, ConnectsWhole
<1>2. QED
  BY <1>1, Invariance, PTL

\* The hub connected to is the one the service named since the last refusal.
THEOREM HubIsTheOneNamed == Spec => []AsksAgainAfterRefusal
<1>1. Inv => AsksAgainAfterRefusal
  BY DEF Inv, ReadyInv, AsksAgainAfterRefusal
<1>2. QED
  BY <1>1, Invariance, PTL

\* Neither client is ever initialized over the other, or over an earlier one.
THEOREM UnionReused == Spec => BuiltInEmptyUnion
<1>1. Inv /\ [Next]_vars =>
        [nx_azure_iot_provisioning_client_initialize \/ nx_azure_iot_pnp_client_initialize
           => union = "none"]_vars
  <2>1. ASSUME Inv, At("provInitialize") PROVE union = "none"
    BY <2>1, EnterInit DEF Inv, LadderInv
  <2>2. ASSUME Inv, At("hubInitialize") PROVE union = "none"
    BY <2>2, EnterInit DEF Inv, LadderInv
  <2>3. QED
    BY <2>1, <2>2 DEF nx_azure_iot_provisioning_client_initialize,
       nx_azure_iot_pnp_client_initialize
<1>2. QED
  BY <1>1, Invariance, PTL DEF Spec, BuiltInEmptyUnion

NoClientYet == state = "INIT" => ~HubClientLive

\* A step of the ladder but the last leaves the loop's hub client as it was: not
\* yet there.
LEMMA NotLiveYet == Inv => NoClientYet
<1> SUFFICES ASSUME Inv, state = "INIT" PROVE ~HubClientLive
  BY DEF NoClientYet
<1>1. CASE call \in DpsCalls \cup {"hubInitialize"}
  BY <1>1 DEF Inv, LadderInv, HubClientLive, DpsCalls
<1>2. CASE call \notin DpsCalls \cup {"hubInitialize"}
  <2>1. Order[call] \in 7..14
    BY <1>2 DEF Inv, BuildInv, Calls, DpsCalls, HubSetup, Order
  <2>2. configured = {c \in HubSetup : Order[c] < Order[call]}
    BY <2>1 DEF Inv, LadderInv
  <2>3. "vtComponent" \in HubSetup /\ Order["vtComponent"] = 14
    BY DEF HubSetup, Order
  <2>4. "vtComponent" \notin configured
    BY <2>1, <2>2, <2>3
  <2>5. QED
    BY <2>3, <2>4 DEF HubClientLive
<1>3. QED
  BY <1>1, <1>2

\* With the whole ladder in it the loop is still the loop of SampleEventLoop:
\* what is proved of that holds of this.
THEOREM RefinesLoop == Spec => ImplementsLoop
<1>1. Init => Loop!Init
  BY DEF Init
<1>2. Inv' => NoClientYet'
  BY NotLiveYet, PTL
<1>3. Inv /\ Inv' /\ [Next]_vars => [Loop!Next]_(Loop!vars)
  <2> SUFFICES ASSUME Inv, Inv', [Next]_vars PROVE Loop!Next \/ UNCHANGED Loop!vars
    OBVIOUS
  <2>1. state' = "INIT" => ~HubClientLive'
    BY <1>2 DEF NoClientYet
  <2>2. state' # "INIT" => HubClientLive'
    BY DEF Inv, ReadyInv
  <2>3. ASSUME HubClientLive' <=> HubClientLive PROVE HubClientLive' = HubClientLive
    BY <2>3, Zenon DEF HubClientLive
  <2>4. CASE state = "INIT" /\ UNCHANGED loopVars
    <3>1. state' = "INIT" /\ ~HubClientLive
      BY <2>4, NotLiveYet DEF loopVars, NoClientYet
    <3>2. HubClientLive' = HubClientLive
      BY <2>1, <2>3, <3>1
    <3>3. QED
      BY <2>4, <3>2 DEF loopVars, Loop!vars, Loop!appVars, Loop!envVars
  <2>5. ASSUME NEW c \in Calls, CallFails(c) PROVE Loop!sample_initialize_iothub
    <3>1. HubClientLive' = FALSE
      BY <2>1, <2>5, EnterInit, Zenon DEF CallFails, HubClientLive
    <3>2. QED
      BY <2>5, <3>1 DEF CallFails, Loop!sample_initialize_iothub
  <2>6. ASSUME sample_initialize_iothub PROVE Loop!sample_initialize_iothub
    <3>1. HubClientLive' = TRUE
      BY <2>2, <2>6, Zenon DEF sample_initialize_iothub, HubClientLive
    <3>2. QED
      BY <2>6, <3>1 DEF sample_initialize_iothub, Loop!sample_initialize_iothub, Loop!NoFault
  <2>7. ASSUME RecoverReinitialize PROVE Loop!RecoverReinitialize
    <3>1. HubClientLive' = FALSE
      BY <2>1, <2>7, Zenon DEF RecoverReinitialize, HubClientLive
    <3>2. QED
      BY <2>7, <3>1 DEF RecoverReinitialize, Loop!RecoverReinitialize
  <2>8. CASE \/ nx_azure_iot_provisioning_client_initialize
             \/ \E c \in ConfigureCalls : Configure(c)
             \/ nx_azure_iot_provisioning_client_register
             \/ sample_dps_entry
             \/ nx_azure_iot_pnp_client_initialize
    <3>1. state = "INIT" /\ UNCHANGED loopVars
      BY <2>8, EnterInit DEF nx_azure_iot_provisioning_client_initialize, Configure,
         nx_azure_iot_provisioning_client_register, sample_dps_entry,
         nx_azure_iot_pnp_client_initialize, Succeeds
    <3>2. QED
      BY <2>4, <3>1
  <2>9. CASE UNCHANGED provVars /\ (Loop!Handlers \/ Loop!Callbacks \/ Loop!Network \/ Loop!PeriodElapsed)
    BY <2>9 DEF Loop!Next, Loop!AppThread
  <2>10. CASE UNCHANGED vars
    <3>1. HubClientLive' = HubClientLive
      BY <2>10, <2>3 DEF vars, provVars, HubClientLive, HubSetup
    <3>2. QED
      BY <2>10, <3>1 DEF vars, loopVars, Loop!vars, Loop!appVars, Loop!envVars
  <2>11. QED
    BY <2>5, <2>6, <2>7, <2>8, <2>4, <2>9, <2>10
       DEF Next, AppThread, Provision, RestOfLoop, Loop!Next, Loop!AppThread
<1>4. QED
  BY <1>1, <1>3, Invariance, PTL DEF Spec, ImplementsLoop, Loop!Spec

-----------------------------------------------------------------------------
(***************************************************************************)
(* What is proved of the loop with the single step, of the loop with the   *)
(* ladder.                                                                 *)
(***************************************************************************)
LoopProofs == INSTANCE SampleEventLoop_proofs WITH hubClient <- HubClientLive

\* The loop of those theorems is the loop that is implemented here.
LEMMA SameLoop == ImplementsLoop => LoopProofs!Spec
<1>1. Loop!Init => LoopProofs!Init
  BY DEF Loop!Init, LoopProofs!Init, Loop!Messages, LoopProofs!Messages, Loop!Idle,
     LoopProofs!Idle
<1>2. [Loop!Next]_(Loop!vars) => [LoopProofs!Next]_(LoopProofs!vars)
  <2>1. Loop!Next = LoopProofs!Next
    BY DEF Loop!ActsIn, LoopProofs!ActsIn, Loop!AppThread, LoopProofs!AppThread,
       Loop!AtStage, LoopProofs!AtStage, Loop!BackoffDelay, LoopProofs!BackoffDelay,
       Loop!Callbacks, LoopProofs!Callbacks, Loop!Delivering, LoopProofs!Delivering,
       Loop!EarlyReturn, LoopProofs!EarlyReturn, Loop!EndOfTurn, LoopProofs!EndOfTurn,
       Loop!Enter, LoopProofs!Enter, Loop!Events, LoopProofs!Events, Loop!EventsGet,
       LoopProofs!EventsGet, Loop!EventsTimeout, LoopProofs!EventsTimeout,
       Loop!Failures, LoopProofs!Failures, Loop!Fault, LoopProofs!Fault, Loop!Flagging,
       LoopProofs!Flagging, Loop!Handlers, LoopProofs!Handlers, Loop!Idle,
       LoopProofs!Idle, Loop!LinkLost, LoopProofs!LinkLost, Loop!LinkOpened,
       LoopProofs!LinkOpened, Loop!MessageReceived, LoopProofs!MessageReceived,
       Loop!Messages, LoopProofs!Messages, Loop!Network, LoopProofs!Network, Loop!Next,
       LoopProofs!Next, Loop!NoFault, LoopProofs!NoFault, Loop!Notifying,
       LoopProofs!Notifying, Loop!PeriodElapsed, LoopProofs!PeriodElapsed, Loop!Rank,
       LoopProofs!Rank, Loop!Receive, LoopProofs!Receive, Loop!RecoverReconnect,
       LoopProofs!RecoverReconnect, Loop!RecoverReinitialize,
       LoopProofs!RecoverReinitialize, Loop!Saturated, LoopProofs!Saturated,
       Loop!StatusCallbackWrite, LoopProofs!StatusCallbackWrite, Loop!Statuses,
       LoopProofs!Statuses, Loop!Triggered, LoopProofs!Triggered, Loop!appVars,
       LoopProofs!appVars, Loop!connection_status_callback,
       LoopProofs!connection_status_callback, Loop!envVars, LoopProofs!envVars,
       Loop!exponential_backoff_with_jitter, LoopProofs!exponential_backoff_with_jitter,
       Loop!message_receive_callback, LoopProofs!message_receive_callback,
       Loop!nx_azure_iot_pnp_client_disconnect,
       LoopProofs!nx_azure_iot_pnp_client_disconnect,
       Loop!nx_azure_iot_pnp_client_properties_request,
       LoopProofs!nx_azure_iot_pnp_client_properties_request,
       Loop!sample_command_action, LoopProofs!sample_command_action,
       Loop!sample_connect_action, LoopProofs!sample_connect_action,
       Loop!sample_connected_action, LoopProofs!sample_connected_action,
       Loop!sample_connection_error_recover, LoopProofs!sample_connection_error_recover,
       Loop!sample_device_desired_property_action,
       LoopProofs!sample_device_desired_property_action,
       Loop!sample_device_properties_get_action,
       LoopProofs!sample_device_properties_get_action,
       Loop!sample_device_reported_property_action,
       LoopProofs!sample_device_reported_property_action, Loop!sample_disconnect_action,
       LoopProofs!sample_disconnect_action, Loop!sample_initialize_iothub,
       LoopProofs!sample_initialize_iothub, Loop!sample_telemetry_action,
       LoopProofs!sample_telemetry_action, Loop!sample_trigger_action,
       LoopProofs!sample_trigger_action
  <2>2. UNCHANGED Loop!vars => UNCHANGED LoopProofs!vars
    BY DEF Loop!vars, LoopProofs!vars, Loop!appVars, LoopProofs!appVars, Loop!envVars,
       LoopProofs!envVars
  <2>3. QED
    BY <2>1, <2>2
<1>3. QED
  BY <1>1, <1>2, PTL DEF ImplementsLoop, Loop!Spec, LoopProofs!Spec

\* The retry count of the loop saturates here as it does there.
LEMMA SameBounds == LoopProofs!BackoffAssumption /\ LoopProofs!BoundsAssumption
  BY LoopAssumption DEF LoopProofs!BackoffAssumption, LoopProofs!BoundsAssumption,
     Loop!Saturated, LoopProofs!Saturated, Loop!BackoffDelay, LoopProofs!BackoffDelay

\* With provisioning call by call, every state the loop gets into has what the
\* loop relies on: a handler that waits for ever finds its message, an
\* opening and an end are reported, only a failure is recovered from, and the hub
\* client is there, whole, whenever it is used.
THEOREM LoopSafety ==
  Spec => [](/\ LoopProofs!NoBlockForever
             /\ LoopProofs!ConnectedMeansOpened
             /\ LoopProofs!EndOfLinkReported
             /\ LoopProofs!OpenLinkReported
             /\ LoopProofs!RecoverySeesFailure
             /\ LoopProofs!UnionExclusive
             /\ LoopProofs!BackoffBounded)
<1>1. LoopProofs!Spec => []LoopProofs!NoBlockForever
  BY SameBounds, LoopProofs!NeverBlocksForever
<1>2. LoopProofs!Spec => []LoopProofs!ConnectedMeansOpened
  BY SameBounds, LoopProofs!ConnectedIsNotPending
<1>3. LoopProofs!Spec => []LoopProofs!EndOfLinkReported
  BY SameBounds, LoopProofs!EndIsReported
<1>4. LoopProofs!Spec => []LoopProofs!OpenLinkReported
  BY SameBounds, LoopProofs!OpeningIsReported
<1>5. LoopProofs!Spec => []LoopProofs!RecoverySeesFailure
  BY SameBounds, LoopProofs!RecoveryFromFailure
<1>6. LoopProofs!Spec => []LoopProofs!UnionExclusive
  BY SameBounds, LoopProofs!UnionNeverShared
<1>7. LoopProofs!Spec => []LoopProofs!BackoffBounded
  BY SameBounds, LoopProofs!BackoffStaysBounded
<1>8. QED
  BY <1>1, <1>2, <1>3, <1>4, <1>5, <1>6, <1>7, SameLoop, RefinesLoop, PTL

\* With provisioning call by call, no step closes a connection that is up.
THEOREM LoopKeepsHealthyLink == Spec => LoopProofs!HealthyLinkKept
<1>1. LoopProofs!Spec => LoopProofs!HealthyLinkKept
  BY SameBounds, LoopProofs!KeepsHealthyLink
<1>2. QED
  BY <1>1, SameLoop, RefinesLoop, PTL

\* The two refinements compose: provisioning call by call, and the loop around it,
\* follow the connection as Connection demands.
THEOREM LoopFollowsConnection == Spec => LoopProofs!ConnectionFollowed
<1>1. LoopProofs!Spec => LoopProofs!ConnectionFollowed
  BY SameBounds, LoopProofs!ImplementsConnection
<1>2. QED
  BY <1>1, SameLoop, RefinesLoop, PTL

=============================================================================
