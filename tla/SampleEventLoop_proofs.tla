----------------------- MODULE SampleEventLoop_proofs -----------------------
(***************************************************************************)
(* Proofs about SampleEventLoop, for every value of its constants.         *)
(***************************************************************************)
EXTENDS SampleEventLoop, TLAPS

\* What the cloud thread sets by itself: such a flag may outlive its reason.
Notified == {"CONNECTED", "DISCONNECT"} \cup Messages

Pending == events \cup appEvents

Live == {"CONNECTING", "CONNECTED"}

\* The application thread's own places, and whose flag can be pending where.
AppInv ==
  /\ app = "get" => appEvents = {}
  /\ app \in {"sleepInit", "sleepConnect"} => state = "DISCONNECTED" /\ appEvents = {}
  /\ "RECONNECT" \in Pending => state = "DISCONNECTED"
  /\ "RECONNECT" \in events => app = "get"
  /\ hubClient <=> state # "INIT"

\* Without a connection the cloud thread has nothing to say, and the flags it
\* set before are gone when the next attempt to connect can begin.
QuietInv ==
  /\ state \notin Live => link = "down" /\ cloud = Idle
  /\ state \in {"INIT", "CONNECT"} => Pending \cap Notified = {}
  /\ state = "DISCONNECTED" /\ (app \notin {"get", "stages"} \/ "RECONNECT" \in appEvents)
       => events \cap Notified = {}

\* What the cloud thread is about to report agrees with the connection.
CloudInv ==
  /\ \A f \in Failures : cloud \in {Notifying(f), Flagging(f)} => link = "down"
  /\ cloud \in {Notifying("success"), Flagging("success")} => link = "up"
  /\ \A k \in Messages : cloud = Delivering(k) => link = "up"
  /\ \A f \in Failures : cloud = Flagging(f) => connStatus # "success"

\* A flag that asks for the end of a connection, or announces one, is about
\* the present one; and a status of success goes with no such request.
FlagInv ==
  /\ "DISCONNECT" \in Pending /\ state \in Live
       => link = "down" /\ cloud = Idle /\ connStatus # "success"
  /\ "CONNECTED" \in Pending /\ state = "CONNECTING" => link # "connecting"
  /\ ConnectedMeansOpened
  /\ RecoverySeesFailure

One(b) == IF b THEN 1 ELSE 0

\* Every message flag, set or being set, stands for a message of its own.
QueueInv ==
  state \in Live => \A k \in Messages :
    queue[k] >= One(k \in events) + One(k \in appEvents) + One(cloud = Delivering(k))

LinkInv == EndOfLinkReported /\ OpenLinkReported

Inv == AppInv /\ QuietInv /\ CloudInv /\ FlagInv /\ QueueInv /\ LinkInv

-----------------------------------------------------------------------------
(***************************************************************************)
(* Type correctness.                                                       *)
(***************************************************************************)

\* Every reachable state gives each variable a value of its type: the model's
\* handlers and callbacks write only what the C variables can hold.
THEOREM TypeCorrect == Spec => []TypeOK
<1>1. Init => TypeOK
  <2> SUFFICES ASSUME Init PROVE TypeOK
    OBVIOUS
  <2>1. hubClient \in BOOLEAN /\ fetched \in BOOLEAN /\ periodDue \in BOOLEAN
    BY Zenon DEF Init
  <2>2. queue \in [Messages -> Nat] /\ cloud \in CloudSteps
    BY DEF Init, CloudSteps
  <2>3. QED
    BY <2>1, <2>2 DEF Init, TypeOK, States, Statuses, Failures, Events
<1>2. TypeOK /\ [Next]_vars => TypeOK'
  <2> SUFFICES ASSUME TypeOK, [Next]_vars PROVE TypeOK'
    OBVIOUS
  <2> USE DEF TypeOK, States, Events, Messages, CloudSteps, appVars, envVars
  <2>1. CASE EventsGet
    BY <2>1 DEF EventsGet
  <2>2. CASE EventsTimeout
    BY <2>2 DEF EventsTimeout, sample_trigger_action, Triggered
  <2>3. CASE EndOfTurn
    BY <2>3 DEF EndOfTurn, sample_trigger_action, Triggered
  <2>4. ASSUME NEW e \in Events, EarlyReturn(e) PROVE TypeOK'
    BY <2>4 DEF EarlyReturn, AtStage
  <2>5. CASE sample_connect_action
    BY <2>5 DEF sample_connect_action, Enter, AtStage, Fault, NoFault,
       nx_azure_iot_pnp_client_properties_request, Failures, Statuses
  <2>6. CASE sample_initialize_iothub
    <3>1. hubClient' \in BOOLEAN
      BY <2>6, Zenon DEF sample_initialize_iothub
    <3>2. QED
      BY <2>6, <3>1 DEF sample_initialize_iothub, Enter, AtStage, Fault, NoFault
  <2>7. CASE sample_device_properties_get_action
    <3>1. fetched' \in BOOLEAN
      BY <2>7, Zenon DEF sample_device_properties_get_action
    <3>2. faults' \in Nat
      BY <2>7 DEF sample_device_properties_get_action, Fault, NoFault
    <3>3. QED
      BY <2>7, <3>1, <3>2 DEF sample_device_properties_get_action, Receive, Enter, AtStage
  <2>8. CASE sample_command_action
    BY <2>8 DEF sample_command_action, Receive, Enter, AtStage
  <2>9. CASE sample_device_desired_property_action
    BY <2>9 DEF sample_device_desired_property_action, Receive, Enter, AtStage
  <2>10. CASE sample_telemetry_action
    BY <2>10 DEF sample_telemetry_action, Enter, AtStage
  <2>11. CASE sample_device_reported_property_action
    BY <2>11 DEF sample_device_reported_property_action, Enter, AtStage
  <2>12. CASE sample_disconnect_action
    BY <2>12 DEF sample_disconnect_action, Enter, AtStage,
       nx_azure_iot_pnp_client_disconnect, Statuses, Failures
  <2>13. CASE sample_connected_action
    BY <2>13 DEF sample_connected_action, Enter, AtStage, Fault, NoFault,
       nx_azure_iot_pnp_client_properties_request
  <2>14. CASE sample_connection_error_recover
    BY <2>14 DEF sample_connection_error_recover, Enter, AtStage, exponential_backoff_with_jitter
  <2>15. CASE RecoverReinitialize
    BY <2>15 DEF RecoverReinitialize, nx_azure_iot_pnp_client_disconnect, Statuses, Failures
  <2>16. CASE RecoverReconnect
    BY <2>16 DEF RecoverReconnect
  <2>17. ASSUME NEW s \in Statuses, StatusCallbackWrite(s) PROVE TypeOK'
    BY <2>17 DEF StatusCallbackWrite
  <2>18. ASSUME NEW s \in Statuses, connection_status_callback(s) PROVE TypeOK'
    BY <2>18 DEF connection_status_callback
  <2>19. ASSUME NEW k \in Messages, message_receive_callback(k) PROVE TypeOK'
    BY <2>19 DEF message_receive_callback
  <2>20. CASE LinkOpened
    BY <2>20 DEF LinkOpened, Statuses
  <2>21. CASE LinkLost
    BY <2>21 DEF LinkLost, Fault, Statuses
  <2>22. ASSUME NEW k \in Messages, MessageReceived(k) PROVE TypeOK'
    BY <2>22 DEF MessageReceived
  <2>23. CASE PeriodElapsed
    BY <2>23 DEF PeriodElapsed
  <2>24. CASE UNCHANGED vars
    BY <2>24 DEF vars
  <2>25. QED
    BY <2>1, <2>2, <2>3, <2>4, <2>5, <2>6, <2>7, <2>8, <2>9, <2>10, <2>11, <2>12,
       <2>13, <2>14, <2>15, <2>16, <2>17, <2>18, <2>19, <2>20, <2>21, <2>22, <2>23, <2>24
       DEF Next, AppThread, Handlers, Callbacks, Network
<1>3. QED
  BY <1>1, <1>2, PTL DEF Spec

\* Only the last stage can follow when RECONNECT is the first one left.
LEMMA ReconnectIsLast ==
  ASSUME TypeOK, AtStage("RECONNECT")
  PROVE  appEvents = {"RECONNECT"} /\ app = "stages"
<1>1. Rank["RECONNECT"] = 10
  BY DEF Rank
<1>2. \A f \in Events : f = "RECONNECT" \/ ~ 10 <= Rank[f]
  BY DEF Rank, Events
<1>3. QED
  BY <1>1, <1>2 DEF TypeOK, AtStage

\* The strengthened invariant is kept by every step of either thread: whatever
\* the order in which the cloud thread's flags meet the stages of the loop.
THEOREM Invariance == Spec => []Inv
<1>1. Init => Inv
  BY DEF Init, Inv, AppInv, QuietInv, CloudInv, FlagInv, QueueInv, LinkInv, Notified,
     Pending, Live, One, ConnectedMeansOpened, RecoverySeesFailure, EndOfLinkReported,
     OpenLinkReported, Idle, Notifying, Flagging, Delivering, Messages, Failures
<1>2. TypeOK /\ Inv /\ [Next]_vars => Inv'
  <2> SUFFICES ASSUME TypeOK, Inv, [Next]_vars PROVE Inv'
    OBVIOUS
  <2> USE DEF TypeOK, Inv, AppInv, QuietInv, CloudInv, FlagInv, QueueInv, LinkInv, Notified,
         Pending, Live, One, ConnectedMeansOpened, RecoverySeesFailure, EndOfLinkReported,
         OpenLinkReported, Idle, Notifying, Flagging, Delivering, Messages, Failures,
         appVars, envVars
  <2>1. CASE EventsGet
    BY <2>1 DEF EventsGet
  <2>2. CASE EventsTimeout
    BY <2>2 DEF EventsTimeout, sample_trigger_action, Triggered
  <2>3. CASE EndOfTurn
    BY <2>3 DEF EndOfTurn, sample_trigger_action, Triggered
  <2>4. ASSUME NEW e \in Events, EarlyReturn(e) PROVE Inv'
    BY <2>4 DEF EarlyReturn, AtStage, ActsIn
  <2>5. CASE sample_connect_action
    BY <2>5 DEF sample_connect_action, Enter, AtStage, ActsIn,
       nx_azure_iot_pnp_client_properties_request
  <2>6. CASE sample_initialize_iothub
    BY <2>6 DEF sample_initialize_iothub, Enter, AtStage, ActsIn
  <2>7. CASE sample_device_properties_get_action
    BY <2>7 DEF sample_device_properties_get_action, Receive, Enter, AtStage, ActsIn
  <2>8. CASE sample_command_action
    BY <2>8 DEF sample_command_action, Receive, Enter, AtStage, ActsIn
  <2>9. CASE sample_device_desired_property_action
    BY <2>9 DEF sample_device_desired_property_action, Receive, Enter, AtStage, ActsIn
  <2>10. CASE sample_telemetry_action
    BY <2>10 DEF sample_telemetry_action, Enter, AtStage, ActsIn
  <2>11. CASE sample_device_reported_property_action
    BY <2>11 DEF sample_device_reported_property_action, Enter, AtStage, ActsIn
  <2>12. CASE sample_disconnect_action
    BY <2>12 DEF sample_disconnect_action, Enter, AtStage, ActsIn,
       nx_azure_iot_pnp_client_disconnect
  <2>13. CASE sample_connected_action
    BY <2>13 DEF sample_connected_action, Enter, AtStage, ActsIn
  <2>14. CASE sample_connection_error_recover
    \* AtStage stays folded: all that matters is that no other flag is left.
    BY <2>14, ReconnectIsLast DEF sample_connection_error_recover, Enter, ActsIn
  <2>15. CASE RecoverReinitialize
    <3>1. hubClient' <=> state' # "INIT"
      BY <2>15, Zenon DEF RecoverReinitialize
    <3>2. QED
      BY <2>15, <3>1 DEF RecoverReinitialize, nx_azure_iot_pnp_client_disconnect
  <2>16. CASE RecoverReconnect
    <3>1. hubClient' <=> state' # "INIT"
      BY <2>16, Zenon DEF RecoverReconnect
    <3>2. QED
      BY <2>16, <3>1 DEF RecoverReconnect
  <2>17. ASSUME NEW s \in Statuses, StatusCallbackWrite(s) PROVE Inv'
    BY <2>17 DEF StatusCallbackWrite, Statuses
  <2>18. ASSUME NEW s \in Statuses, connection_status_callback(s) PROVE Inv'
    BY <2>18 DEF connection_status_callback, Statuses
  <2>19. ASSUME NEW k \in Messages, message_receive_callback(k) PROVE Inv'
    BY <2>19 DEF message_receive_callback
  <2>20. CASE LinkOpened
    BY <2>20 DEF LinkOpened
  <2>21. CASE LinkLost
    BY <2>21 DEF LinkLost
  <2>22. ASSUME NEW k \in Messages, MessageReceived(k) PROVE Inv'
    BY <2>22 DEF MessageReceived
  <2>23. CASE PeriodElapsed
    BY <2>23 DEF PeriodElapsed
  <2>24. CASE UNCHANGED vars
    BY <2>24 DEF vars
  <2>25. QED
    BY <2>1, <2>2, <2>3, <2>4, <2>5, <2>6, <2>7, <2>8, <2>9, <2>10, <2>11, <2>12,
       <2>13, <2>14, <2>15, <2>16, <2>17, <2>18, <2>19, <2>20, <2>21, <2>22, <2>23, <2>24
       DEF Next, AppThread, Handlers, Callbacks, Network
<1>3. QED
  BY <1>1, <1>2, TypeCorrect, PTL DEF Spec

-----------------------------------------------------------------------------
(***************************************************************************)
(* What the invariant gives.                                               *)
(***************************************************************************)

\* No handler enters a receive call, which waits for ever, without a message
\* for it: a flag never outlives its message into a connected state.
THEOREM NeverBlocksForever == Spec => []NoBlockForever
<1>1. TypeOK /\ Inv => NoBlockForever
  <2> SUFFICES ASSUME TypeOK, Inv, NEW k \in Messages, AtStage(k), state \in ActsIn[k]
               PROVE  queue[k] > 0
    BY DEF NoBlockForever
  <2>1. k \in appEvents /\ state \in Live
    BY DEF AtStage, ActsIn, Messages, Live
  <2>2. queue[k] >= One(k \in events) + 1 + One(cloud = Delivering(k))
    BY <2>1 DEF Inv, QueueInv, One
  <2>3. queue[k] \in Nat
    BY DEF TypeOK
  <2>4. QED
    BY <2>2, <2>3 DEF One
<1>2. QED
  BY <1>1, TypeCorrect, Invariance, PTL

\* The loop never disconnects a connection that is up: a DISCONNECT flag set
\* for one connection is consumed before the next can open.
THEOREM KeepsHealthyLink == Spec => HealthyLinkKept
<1>1. Inv /\ [Next]_vars => [sample_disconnect_action => link # "up"]_vars
  BY DEF Inv, FlagInv, Pending, Live, sample_disconnect_action, Enter, AtStage, ActsIn
<1>2. QED
  BY <1>1, Invariance, PTL DEF Spec, HealthyLinkKept

\* The loop takes itself for connected only when no attempt to connect is pending.
THEOREM ConnectedIsNotPending == Spec => []ConnectedMeansOpened
<1>1. Inv => ConnectedMeansOpened
  BY DEF Inv, FlagInv
<1>2. QED
  BY <1>1, Invariance, PTL

\* A connection that ends is never lost on the loop: its notice is pending, and in
\* a state in which the handler will act on it.
THEOREM EndIsReported == Spec => []EndOfLinkReported
<1>1. Inv => EndOfLinkReported
  BY DEF Inv, LinkInv
<1>2. QED
  BY <1>1, Invariance, PTL

\* Nor is a connection that opens after connect returned.
THEOREM OpeningIsReported == Spec => []OpenLinkReported
<1>1. Inv => OpenLinkReported
  BY DEF Inv, LinkInv
<1>2. QED
  BY <1>1, Invariance, PTL

\* Recovery never finds the status word at success, which would end it.
THEOREM RecoveryFromFailure == Spec => []RecoverySeesFailure
<1>1. Inv => RecoverySeesFailure
  BY DEF Inv, FlagInv
<1>2. QED
  BY <1>1, Invariance, PTL

\* Provisioning never overwrites a live hub client in the union they share.
THEOREM UnionNeverShared == Spec => []UnionExclusive
<1>1. Inv => UnionExclusive
  BY DEF Inv, AppInv, UnionExclusive
<1>2. QED
  BY <1>1, Invariance, PTL

\* The back-off count stops at the first saturated delay, so the shift in
\* exponential_backoff_with_jitter stays within an int for ever.
THEOREM BackoffStaysBounded == Spec => []BackoffBounded
<1>1. Init => BackoffBounded
  BY BackoffAssumption DEF Init, BackoffBounded
<1>2. TypeOK /\ BackoffBounded /\ [Next]_vars => BackoffBounded'
  <2> SUFFICES ASSUME TypeOK, BackoffBounded, [Next]_vars PROVE BackoffBounded'
    OBVIOUS
  <2> USE DEF BackoffBounded
  <2>1. CASE sample_connection_error_recover
    <3>1. retryCount = MaxRetry => Saturated(retryCount)
      BY BackoffAssumption
    <3>2. retryCount' = retryCount \/ (~Saturated(retryCount) /\ retryCount' = retryCount + 1)
      BY <2>1 DEF sample_connection_error_recover, exponential_backoff_with_jitter
    <3>3. QED
      BY <3>1, <3>2, BackoffAssumption DEF TypeOK
  <2>2. CASE \E s \in Statuses : connection_status_callback(s)
    BY <2>2, BackoffAssumption DEF connection_status_callback
  <2>3. CASE ~ sample_connection_error_recover
             /\ ~ \E s \in Statuses : connection_status_callback(s)
    <3>1. retryCount' = retryCount
      BY <2>3 DEF Next, AppThread, Handlers, Callbacks, Network, vars, appVars, EventsGet, EventsTimeout,
         EndOfTurn, EarlyReturn, sample_connect_action, sample_initialize_iothub,
         sample_device_properties_get_action, sample_command_action,
         sample_device_desired_property_action, sample_telemetry_action,
         sample_device_reported_property_action, sample_disconnect_action,
         sample_connected_action, RecoverReinitialize, RecoverReconnect, Receive,
         StatusCallbackWrite, message_receive_callback, LinkOpened, LinkLost,
         MessageReceived, PeriodElapsed
    <3>2. QED
      BY <3>1
  <2>4. QED
    BY <2>1, <2>2, <2>3
<1>3. QED
  BY <1>1, <1>2, TypeCorrect, PTL DEF Spec

-----------------------------------------------------------------------------
(***************************************************************************)
(* The loop implements the abstract specification of its connection.       *)
(***************************************************************************)

\* The steps that move neither the connection nor the state are stutters.
LEMMA ViewOfStates ==
  /\ state = "CONNECTED" => View = "on"
  /\ state = "CONNECTING" => View = "trying"
  /\ state \in States \ Live => View = "off"
BY DEF View, States, Live

\* The same of the next state.
LEMMA ViewNext ==
  /\ state' = "CONNECTED" => View' = "on"
  /\ state' = "CONNECTING" => View' = "trying"
  /\ state' \in States \ Live => View' = "off"
BY DEF View, States, Live

\* The view changes only with the state.
LEMMA ViewKept == state' = state => View' = View
BY DEF View

\* Every handler and callback moves the loop's view and the connection as the
\* abstract specification allows: an open connection is never abandoned, no
\* second one is opened over it, and its end is noticed only when it is there.
THEOREM ImplementsConnection == Spec => ConnectionFollowed
<1>1. Init => Conn!Init
  BY ViewOfStates DEF Init, Conn!Init, Live, States
<1>2. TypeOK /\ Inv /\ [Next]_vars => [Conn!Next]_(Conn!vars)
  <2> SUFFICES ASSUME TypeOK, Inv, [Next]_vars PROVE Conn!Next \/ UNCHANGED <<View, link>>
    BY DEF Conn!vars
  <2>1. CASE sample_connect_action
    <3>1. state = "CONNECT" /\ link = "down"
      BY <2>1 DEF sample_connect_action, Enter, ActsIn, Inv, QuietInv, Live
    <3>2. View = "off"
      BY <3>1, ViewOfStates DEF Live, States
    <3>3. CASE link' = "up" /\ state' = "CONNECTED"
      BY <3>1, <3>2, <3>3, ViewNext DEF Conn!Next, Conn!Connect
    <3>4. CASE link' = "connecting" /\ state' = "CONNECTING"
      BY <3>1, <3>2, <3>4, ViewNext DEF Conn!Next, Conn!Connect
    <3>5. CASE link' = link /\ state' = "DISCONNECTED"
      BY <3>1, <3>2, <3>5, ViewNext DEF Live, States
    <3>6. QED
      BY <2>1, <3>3, <3>4, <3>5 DEF sample_connect_action
  <2>2. CASE sample_initialize_iothub
    <3>1. state = "INIT" /\ state' \in {"INIT", "CONNECT"} /\ link' = link
      BY <2>2 DEF sample_initialize_iothub, Enter, ActsIn
    <3>2. QED
      BY <3>1, ViewOfStates, ViewNext DEF Live, States
  <2>3. CASE sample_disconnect_action
    <3>1. state \in Live /\ link = "down" /\ link' = "down" /\ state' = "DISCONNECTED"
      BY <2>3 DEF sample_disconnect_action, Enter, AtStage, ActsIn, Live, Inv, FlagInv, Pending,
         nx_azure_iot_pnp_client_disconnect
    <3>2. View # "off" /\ View' = "off"
      BY <3>1, ViewOfStates, ViewNext DEF Live, States
    <3>3. QED
      BY <3>1, <3>2 DEF Conn!Next, Conn!NoticeEnded
  <2>4. CASE sample_connected_action
    <3>1. state = "CONNECTING" /\ link # "connecting" /\ state' = "CONNECTED" /\ link' = link
      BY <2>4 DEF sample_connected_action, Enter, AtStage, ActsIn, Inv, FlagInv, Pending
    <3>2. View = "trying" /\ View' = "on"
      BY <3>1, ViewOfStates, ViewNext
    <3>3. QED
      BY <3>1, <3>2 DEF Conn!Next, Conn!NoticeOpened
  <2>5. CASE RecoverReinitialize \/ RecoverReconnect
    <3>1. state = "DISCONNECTED" /\ state' \in {"INIT", "CONNECT"}
      BY <2>5 DEF RecoverReinitialize, RecoverReconnect, Inv, AppInv
    <3>2. link = "down" /\ link' = "down"
      BY <2>5, <3>1 DEF RecoverReinitialize, RecoverReconnect, Inv, QuietInv, Live, envVars,
         nx_azure_iot_pnp_client_disconnect
    <3>3. QED
      BY <3>1, <3>2, ViewOfStates, ViewNext DEF Live, States
  <2>6. CASE LinkOpened
    BY <2>6, ViewKept DEF LinkOpened, appVars, Conn!Next, Conn!Open
  <2>7. CASE LinkLost
    BY <2>7, ViewKept DEF LinkLost, appVars, Conn!Next, Conn!Lose
  <2>8. CASE state' = state /\ link' = link
    BY <2>8, ViewKept
  <2>9. QED
    BY <2>1, <2>2, <2>3, <2>4, <2>5, <2>6, <2>7, <2>8 DEF Next, AppThread, Handlers, Callbacks,
       Network, vars, appVars, envVars, EventsGet, EventsTimeout, EndOfTurn, EarlyReturn,
       sample_device_properties_get_action, sample_command_action,
       sample_device_desired_property_action, sample_telemetry_action,
       sample_device_reported_property_action, sample_connection_error_recover, Receive,
       StatusCallbackWrite, connection_status_callback, message_receive_callback,
       MessageReceived, PeriodElapsed
<1>3. QED
  BY <1>1, <1>2, TypeCorrect, Invariance, PTL DEF Spec, ConnectionFollowed, Conn!Spec

=============================================================================
