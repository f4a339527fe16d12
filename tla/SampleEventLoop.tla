--------------------------- MODULE SampleEventLoop ---------------------------
(***************************************************************************)
(* The device's main loop (app/sample_pnp_iot_device.c, the same on the    *)
(* MXChip and the STM32L4 boards): the application thread waits on one     *)
(* ThreadX event flag group and runs, in a fixed order, one handler per    *)
(* flag it got; the Azure IoT cloud thread opens and loses the connection, *)
(* queues the messages it receives and calls the sample's callbacks, which *)
(* set flags.  Flags coalesce and keep no order, handlers that run in the  *)
(* wrong state return without doing anything, and the receive calls wait   *)
(* for ever: the module is about what those three facts can do together.   *)
(*                                                                         *)
(* Both threads have priority 4 and the application thread has no time     *)
(* slice, but every handler blocks inside the client library, so the model *)
(* lets the cloud thread run between any two handlers, and between the two *)
(* statements of connection_status_callback.                               *)
(***************************************************************************)
EXTENDS Naturals

CONSTANTS
  InitialBackoff, \* SAMPLE_INITIAL_EXPONENTIAL_BACKOFF_IN_SEC
  MaxBackoff,     \* SAMPLE_MAX_EXPONENTIAL_BACKOFF_IN_SEC
  MaxRetry,       \* the retry count at which the delay is first over MaxBackoff
  MaxMessages,    \* bound: messages of one kind the library keeps queued
  MaxFaults       \* bound: failures of the environment in one behaviour

VARIABLES
  \* the application thread and the data it shares with the callbacks
  state,       \* sample_context.state
  connStatus,  \* sample_connection_status
  retryCount,  \* exponential_retry_count
  events,      \* the flags set in sample_context.sample_events
  appEvents,   \* the flags of the local app_events whose stage is still to come
  app,         \* where the application thread is: waiting, in the stages, asleep
  hubClient,   \* does the union hold a live IoT Hub client?
  fetched,     \* has the whole twin been received since boot?
  periodDue,   \* have five seconds passed since last_periodic_action_tick?
  \* the client library and the network
  link,        \* the connection to the hub
  queue,       \* messages received and not yet taken, per kind
  twin,        \* is an answer to properties_request outstanding?
  cloud,       \* what the cloud thread is doing
  faults       \* failures so far

appVars == <<state, connStatus, retryCount, events, appEvents, app, hubClient,
             fetched, periodDue>>
envVars == <<link, queue, twin, cloud, faults>>
vars == <<appVars, envVars>>

States == {"INIT", "CONNECTING", "CONNECT", "CONNECTED", "DISCONNECTED"}

\* The kinds of message the client hands over, each with a flag of its own.
Messages == {"PROPERTIES_GET", "COMMAND", "DESIRED"}

\* The place of each flag's stage in one turn of the loop.
Rank == [CONNECT |-> 1, INITIALIZATION |-> 2, PROPERTIES_GET |-> 3, COMMAND |-> 4,
         DESIRED |-> 5, TELEMETRY |-> 6, REPORTED |-> 7, DISCONNECT |-> 8,
         CONNECTED |-> 9, RECONNECT |-> 10]

Events == {"CONNECT", "INITIALIZATION", "PROPERTIES_GET", "COMMAND", "DESIRED",
           "TELEMETRY", "REPORTED", "DISCONNECT", "CONNECTED", "RECONNECT"}

\* Mutated form: a failed attempt to connect asynchronously is not torn down.
ActsInConnectedOnly ==
  [CONNECT |-> {"CONNECT"}, INITIALIZATION |-> {"INIT"},
   PROPERTIES_GET |-> {"CONNECTED"}, COMMAND |-> {"CONNECTED"},
   DESIRED |-> {"CONNECTED"}, TELEMETRY |-> {"CONNECTED"},
   REPORTED |-> {"CONNECTED"}, DISCONNECT |-> {"CONNECTED"},
   CONNECTED |-> {"CONNECTING"}, RECONNECT |-> {"DISCONNECTED"}]

\* Mutated form: the notice that a connection is open is believed after its end.
ActsAfterTheEnd ==
  [ActsInConnectedOnly EXCEPT !.DISCONNECT = {"CONNECTED", "CONNECTING"},
                              !.CONNECTED = {"CONNECTING", "DISCONNECTED"}]

\* The states in which the handler of a flag does not return at once.
ActsIn == [CONNECT |-> {"CONNECT"}, INITIALIZATION |-> {"INIT"},
           PROPERTIES_GET |-> {"CONNECTED"}, COMMAND |-> {"CONNECTED"},
           DESIRED |-> {"CONNECTED"}, TELEMETRY |-> {"CONNECTED"},
           REPORTED |-> {"CONNECTED"}, DISCONNECT |-> {"CONNECTED", "CONNECTING"},
           CONNECTED |-> {"CONNECTING"}, RECONNECT |-> {"DISCONNECTED"}]

\* The values of the status word, as connection_error_recover tells them apart:
\* "reinit" is a failed DNS query or refused credentials, "retry" any other error.
Failures == {"reinit", "retry"}
Statuses == Failures \cup {"success"}

Idle == [step |-> "idle", arg |-> "none"]
Notifying(s) == [step |-> "status", arg |-> s]
Flagging(s) == [step |-> "event", arg |-> s]
Delivering(k) == [step |-> "message", arg |-> k]
CloudSteps == {Idle} \cup {Notifying(s) : s \in Statuses}
                     \cup {Flagging(s) : s \in Statuses}
                     \cup {Delivering(k) : k \in Messages}

(***************************************************************************)
(* Exponential back-off.  The shift and the product are those of a 32 bit  *)
(* int; a product that does not fit leaves the maximum in base_delay.      *)
(***************************************************************************)
BackoffDelay(n) ==
  IF n < 30 /\ 2^n * InitialBackoff <= 2147483647 THEN 2^n * InitialBackoff ELSE MaxBackoff

Saturated(n) == BackoffDelay(n) > MaxBackoff

\* The delay stops growing after MaxRetry failures, long before the shift overflows.
ASSUME BackoffAssumption ==
  /\ MaxRetry \in Nat
  /\ MaxRetry < 30
  /\ Saturated(MaxRetry)

ASSUME BoundsAssumption == MaxMessages \in Nat /\ MaxFaults \in Nat

\* Mutated form: the count grows even when the delay is at its maximum.
BackoffUnbounded == retryCount' = retryCount + 1

exponential_backoff_with_jitter ==
  retryCount' = IF Saturated(retryCount) THEN retryCount ELSE retryCount + 1

-----------------------------------------------------------------------------
(***************************************************************************)
(* The environment's failures are counted, to bound a behaviour's number   *)
(* of them.                                                                *)
(***************************************************************************)
Fault == faults < MaxFaults /\ faults' = faults + 1
NoFault == UNCHANGED faults

(***************************************************************************)
(* Client library calls.  Closing an open connection notifies the sample   *)
(* from the calling thread; the messages of a connection die with it.      *)
(***************************************************************************)
nx_azure_iot_pnp_client_disconnect ==
  /\ link' = "down"
  /\ queue' = [k \in Messages |-> 0]
  /\ twin' = "none"
  /\ IF link = "up"
     THEN connStatus' = "retry" /\ events' = events \cup {"DISCONNECT"}
     ELSE UNCHANGED <<connStatus, events>>

\* The request for the twin may be refused, and the sample ignores the result.
nx_azure_iot_pnp_client_properties_request ==
  \/ twin' = "requested" /\ NoFault
  \/ twin' = twin /\ Fault

-----------------------------------------------------------------------------
(***************************************************************************)
(* One turn of sample_event_loop.                                          *)
(***************************************************************************)
\* tx_event_flags_get with TX_OR_CLEAR takes every flag at once.
EventsGet ==
  /\ app = "get"
  /\ events # {}
  /\ appEvents' = events
  /\ events' = {}
  /\ app' = "stages"
  /\ UNCHANGED <<state, connStatus, retryCount, hubClient, fetched, periodDue, envVars>>

\* Mutated form: a device that lost its connection does not ask to reconnect.
TriggeredNoReconnect ==
  CASE state = "INIT" -> {"INITIALIZATION"}
    [] state = "CONNECT" -> {"CONNECT"}
    [] state = "CONNECTED" -> IF periodDue THEN {"TELEMETRY", "REPORTED"} ELSE {}
    [] OTHER -> {}

\* Mutated form: the periodic work is left to the time-out of the wait.
TriggeredOnTimeoutOnly ==
  CASE state = "INIT" -> {"INITIALIZATION"}
    [] state = "CONNECT" -> {"CONNECT"}
    [] state = "CONNECTED" /\ app = "get" -> {"TELEMETRY", "REPORTED"}
    [] state = "DISCONNECTED" -> {"RECONNECT"}
    [] OTHER -> {}

\* The flags sample_trigger_action sets in the present state.
Triggered ==
  CASE state = "INIT" -> {"INITIALIZATION"}
    [] state = "CONNECT" -> {"CONNECT"}
    [] state = "CONNECTED" -> IF periodDue THEN {"TELEMETRY", "REPORTED"} ELSE {}
    [] state = "DISCONNECTED" -> {"RECONNECT"}
    [] OTHER -> {}

sample_trigger_action ==
  /\ events' = events \cup Triggered
  /\ periodDue' = (periodDue /\ state # "CONNECTED")

\* Five seconds without a flag: only a connected device triggers its periodic work.
EventsTimeout ==
  /\ app = "get"
  /\ events = {}
  /\ periodDue
  /\ state = "CONNECTED"
  /\ sample_trigger_action
  /\ UNCHANGED <<state, connStatus, retryCount, appEvents, app, hubClient, fetched, envVars>>

\* Mutated form: the flags are cleared when they have been served, not when they
\* are taken, and with them those set in the meantime.
EndOfTurnClears ==
  /\ app = "stages"
  /\ appEvents = {}
  /\ events' = Triggered
  /\ periodDue' = (periodDue /\ state # "CONNECTED")
  /\ app' = "get"
  /\ UNCHANGED <<state, connStatus, retryCount, appEvents, hubClient, fetched, envVars>>

EndOfTurn ==
  /\ app = "stages"
  /\ appEvents = {}
  /\ sample_trigger_action
  /\ app' = "get"
  /\ UNCHANGED <<state, connStatus, retryCount, appEvents, hubClient, fetched, envVars>>

\* The thread has come to the stage of flag e, and clears it.
AtStage(e) ==
  /\ app = "stages"
  /\ e \in appEvents
  /\ \A f \in appEvents : Rank[e] <= Rank[f]

Enter(e) ==
  /\ AtStage(e)
  /\ state \in ActsIn[e]
  /\ appEvents' = appEvents \ {e}

\* Mutated form: a flag its handler cannot serve yet is set again, not lost.
EarlyReturnRepost(e) ==
  /\ AtStage(e)
  /\ state \notin ActsIn[e]
  /\ appEvents' = appEvents \ {e}
  /\ events' = events \cup {e}
  /\ UNCHANGED <<state, connStatus, retryCount, app, hubClient, fetched, periodDue,
                 envVars>>

\* A handler called in a state it is not for returns, and its flag is gone.
EarlyReturn(e) ==
  /\ AtStage(e)
  /\ state \notin ActsIn[e]
  /\ appEvents' = appEvents \ {e}
  /\ UNCHANGED <<state, connStatus, retryCount, events, app, hubClient, fetched,
                 periodDue, envVars>>

sample_connect_action ==
  /\ Enter("CONNECT")
  /\ \/ /\ link' = "up"
        /\ cloud' = Notifying("success")
        /\ state' = "CONNECTED"
        /\ nx_azure_iot_pnp_client_properties_request
        /\ UNCHANGED <<connStatus, events>>
     \/ /\ link' = "connecting"
        /\ state' = "CONNECTING"
        /\ NoFault
        /\ UNCHANGED <<connStatus, events, twin, cloud>>
     \/ /\ Fault
        /\ connStatus' \in Failures
        /\ events' \in {events, events \cup {"DISCONNECT"}}
        /\ state' = "DISCONNECTED"
        /\ UNCHANGED <<link, twin, cloud>>
  /\ UNCHANGED <<retryCount, app, hubClient, fetched, periodDue, queue>>

\* Provisioning and the hub client's initialization, with any of its calls failing.
sample_initialize_iothub ==
  /\ Enter("INITIALIZATION")
  /\ \/ NoFault /\ hubClient' = TRUE /\ state' = "CONNECT"
     \/ Fault /\ hubClient' = FALSE /\ UNCHANGED state
  /\ UNCHANGED <<connStatus, retryCount, events, app, fetched, periodDue, link, queue,
                 twin, cloud>>

\* A receive call takes the oldest message, and waits for ever when there is none.
Receive(k) ==
  /\ Enter(k)
  /\ queue[k] > 0
  /\ queue' = [queue EXCEPT ![k] = @ - 1]
  /\ UNCHANGED <<state, connStatus, retryCount, events, app, hubClient, periodDue,
                 link, twin, cloud>>

sample_device_properties_get_action ==
  /\ Receive("PROPERTIES_GET")
  /\ \/ fetched' = TRUE /\ NoFault
     \/ fetched' = fetched /\ Fault

\* Mutated form: the handler takes every queued command for one flag.
CommandDrain ==
  /\ Enter("COMMAND")
  /\ queue["COMMAND"] > 0
  /\ queue' = [queue EXCEPT !["COMMAND"] = 0]
  /\ UNCHANGED <<state, connStatus, retryCount, events, app, hubClient, fetched,
                 periodDue, link, twin, cloud, faults>>

sample_command_action == Receive("COMMAND") /\ UNCHANGED <<fetched, faults>>

sample_device_desired_property_action == Receive("DESIRED") /\ UNCHANGED <<fetched, faults>>

sample_telemetry_action ==
  /\ Enter("TELEMETRY")
  /\ UNCHANGED <<state, connStatus, retryCount, events, app, hubClient, fetched,
                 periodDue, envVars>>

sample_device_reported_property_action ==
  /\ Enter("REPORTED")
  /\ UNCHANGED <<state, connStatus, retryCount, events, app, hubClient, fetched,
                 periodDue, envVars>>

\* Mutated form: the context is zeroed with the connection, state and all.
DisconnectZeroesContext ==
  /\ Enter("DISCONNECT")
  /\ nx_azure_iot_pnp_client_disconnect
  /\ state' = "NONE"
  /\ UNCHANGED <<retryCount, app, hubClient, fetched, periodDue, cloud, faults>>

sample_disconnect_action ==
  /\ Enter("DISCONNECT")
  /\ nx_azure_iot_pnp_client_disconnect
  /\ state' = "DISCONNECTED"
  /\ UNCHANGED <<retryCount, app, hubClient, fetched, periodDue, cloud, faults>>

sample_connected_action ==
  /\ Enter("CONNECTED")
  /\ state' = "CONNECTED"
  /\ nx_azure_iot_pnp_client_properties_request
  /\ UNCHANGED <<connStatus, retryCount, events, app, hubClient, fetched, periodDue,
                 link, queue, cloud>>

(***************************************************************************)
(* Recovery reads the status once, then sleeps: the thread is away from    *)
(* the loop for the length of the back-off.                                *)
(***************************************************************************)
sample_connection_error_recover ==
  /\ Enter("RECONNECT")
  /\ IF connStatus = "success"
     THEN UNCHANGED <<retryCount, app>>
     ELSE /\ exponential_backoff_with_jitter
          /\ app' = IF connStatus = "reinit" THEN "sleepInit" ELSE "sleepConnect"
  /\ UNCHANGED <<state, connStatus, events, hubClient, fetched, periodDue, envVars>>

\* Mutated form: the hub client is not deinitialized before provisioning runs again.
RecoverWithoutDeinit ==
  /\ app = "sleepInit"
  /\ state' = "INIT"
  /\ app' = "stages"
  /\ UNCHANGED <<connStatus, retryCount, events, appEvents, hubClient, fetched, periodDue,
                 envVars>>

\* nx_azure_iot_pnp_client_deinitialize closes the connection as disconnect does.
RecoverReinitialize ==
  /\ app = "sleepInit"
  /\ nx_azure_iot_pnp_client_disconnect
  /\ hubClient' = FALSE
  /\ state' = "INIT"
  /\ app' = "stages"
  /\ UNCHANGED <<retryCount, appEvents, fetched, periodDue, cloud, faults>>

RecoverReconnect ==
  /\ app = "sleepConnect"
  /\ state' = "CONNECT"
  /\ app' = "stages"
  /\ UNCHANGED <<connStatus, retryCount, events, appEvents, hubClient, fetched,
                 periodDue, envVars>>

-----------------------------------------------------------------------------
(***************************************************************************)
(* The cloud thread.  It is one thread: it starts nothing new before the   *)
(* callback it is in has returned.                                         *)
(***************************************************************************)
LinkOpened ==
  /\ cloud = Idle
  /\ link = "connecting"
  /\ link' = "up"
  /\ cloud' = Notifying("success")
  /\ UNCHANGED <<appVars, queue, twin, faults>>

\* A connection being opened is refused, or an open one is lost.
LinkLost ==
  /\ cloud = Idle
  /\ link # "down"
  /\ Fault
  /\ link' = "down"
  /\ twin' = "none"
  /\ \E s \in Failures : cloud' = Notifying(s)
  /\ UNCHANGED <<appVars, queue>>

\* A twin arrives only as the answer to a request; the rest at any time.
MessageReceived(k) ==
  /\ cloud = Idle
  /\ link = "up"
  /\ queue[k] < MaxMessages
  /\ IF k = "PROPERTIES_GET" THEN twin = "requested" /\ twin' = "none" ELSE UNCHANGED twin
  /\ queue' = [queue EXCEPT ![k] = @ + 1]
  /\ cloud' = Delivering(k)
  /\ UNCHANGED <<appVars, link, faults>>

\* Mutated form: the status word is written on success only.
StatusWriteSuccessOnly(s) ==
  /\ cloud = Notifying(s)
  /\ connStatus' = IF s = "success" THEN s ELSE connStatus
  /\ cloud' = Flagging(s)
  /\ UNCHANGED <<state, retryCount, events, appEvents, app, hubClient, fetched, periodDue,
                 link, queue, twin, faults>>

\* connection_status_callback, first the shared status word ...
StatusCallbackWrite(s) ==
  /\ cloud = Notifying(s)
  /\ connStatus' = s
  /\ cloud' = Flagging(s)
  /\ UNCHANGED <<state, retryCount, events, appEvents, app, hubClient, fetched, periodDue,
                 link, queue, twin, faults>>

\* ... then the flag, and the back-off is reset when the connection is there.
connection_status_callback(s) ==
  /\ cloud = Flagging(s)
  /\ IF s = "success"
     THEN events' = events \cup {"CONNECTED"} /\ retryCount' = 0
     ELSE events' = events \cup {"DISCONNECT"} /\ UNCHANGED retryCount
  /\ cloud' = Idle
  /\ UNCHANGED <<state, connStatus, appEvents, app, hubClient, fetched, periodDue,
                 link, queue, twin, faults>>

message_receive_callback(k) ==
  /\ cloud = Delivering(k)
  /\ events' = events \cup {k}
  /\ cloud' = Idle
  /\ UNCHANGED <<state, connStatus, retryCount, appEvents, app, hubClient, fetched,
                 periodDue, link, queue, twin, faults>>

PeriodElapsed ==
  /\ ~periodDue
  /\ periodDue' = TRUE
  /\ UNCHANGED <<state, connStatus, retryCount, events, appEvents, app, hubClient, fetched,
                 envVars>>

-----------------------------------------------------------------------------
Init ==
  /\ state = "INIT"
  /\ connStatus = "retry"
  /\ retryCount = 0
  /\ events = {"INITIALIZATION"}
  /\ appEvents = {}
  /\ app = "get"
  /\ hubClient = FALSE
  /\ fetched = FALSE
  /\ periodDue = FALSE
  /\ link = "down"
  /\ queue = [k \in Messages |-> 0]
  /\ twin = "none"
  /\ cloud = Idle
  /\ faults = 0

\* All that the application thread does with the hub client left in its place.
Handlers ==
  \/ EventsGet
  \/ EventsTimeout
  \/ EndOfTurn
  \/ \E e \in Events : EarlyReturn(e)
  \/ sample_connect_action
  \/ sample_device_properties_get_action
  \/ sample_command_action
  \/ sample_device_desired_property_action
  \/ sample_telemetry_action
  \/ sample_device_reported_property_action
  \/ sample_disconnect_action
  \/ sample_connected_action
  \/ sample_connection_error_recover
  \/ RecoverReconnect

AppThread == Handlers \/ sample_initialize_iothub \/ RecoverReinitialize

Callbacks ==
  \/ \E s \in Statuses : StatusCallbackWrite(s)
  \/ \E s \in Statuses : connection_status_callback(s)
  \/ \E k \in Messages : message_receive_callback(k)

Network ==
  \/ LinkOpened
  \/ LinkLost
  \/ \E k \in Messages : MessageReceived(k)

Next == AppThread \/ Callbacks \/ Network \/ PeriodElapsed

Spec == Init /\ [][Next]_vars

(***************************************************************************)
(* Fairness: a ready ThreadX thread of the highest ready priority runs, so *)
(* both threads keep going; the clock advances; an attempt to connect that *)
(* the library reports as pending ends, one way or the other; the hub      *)
(* answers a request for the twin while the connection stays open.         *)
(***************************************************************************)
Fairness ==
  /\ WF_vars(AppThread)
  /\ WF_vars(Callbacks)
  /\ WF_vars(PeriodElapsed)
  /\ WF_vars(LinkOpened)
  /\ SF_vars(MessageReceived("PROPERTIES_GET"))

FairSpec == Spec /\ Fairness

-----------------------------------------------------------------------------
(***************************************************************************)
(* Properties.                                                             *)
(***************************************************************************)

\* Every variable has a value the program can give it.
TypeOK ==
  /\ state \in States
  /\ connStatus \in Statuses
  /\ retryCount \in Nat
  /\ events \in SUBSET Events
  /\ appEvents \in SUBSET Events
  /\ app \in {"get", "stages", "sleepInit", "sleepConnect"}
  /\ hubClient \in BOOLEAN
  /\ fetched \in BOOLEAN
  /\ periodDue \in BOOLEAN
  /\ link \in {"down", "connecting", "up"}
  /\ queue \in [Messages -> Nat]
  /\ twin \in {"none", "requested"}
  /\ cloud \in CloudSteps
  /\ faults \in Nat

\* The receive calls of the message handlers wait with NX_WAIT_FOREVER, so a
\* flag that outlives its message would hang the only application thread: when
\* a handler is about to receive, a message is there, whatever became of the
\* connection since the flag was set.
NoBlockForever ==
  \A k \in Messages : AtStage(k) /\ state \in ActsIn[k] => queue[k] > 0

\* A DISCONNECT flag is an order to tear the connection down and carries no
\* hint of which connection it is about: the loop never applies one left over
\* from an earlier connection to a connection that is up.
HealthyLinkKept == [][sample_disconnect_action => link # "up"]_vars

\* A CONNECTED flag left over from an earlier connection never makes the loop
\* take an attempt that is still pending for a connection.
ConnectedMeansOpened == state = "CONNECTED" => link # "connecting"

\* The state is CONNECTING or CONNECTED only while the connection is, or while
\* the notice of its end is still on its way to the loop: no order of the
\* flags, and no handler that returns early, loses that notice.  CONNECTING has
\* no time-out, so a lost notice would leave the device waiting for ever.
EndOfLinkReported ==
  state \in {"CONNECTING", "CONNECTED"} /\ link = "down" =>
    \/ "DISCONNECT" \in events \cup appEvents
    \/ \E s \in Failures : cloud \in {Notifying(s), Flagging(s)}

\* Likewise an open connection is always announced to a loop that waits for it.
OpenLinkReported ==
  state = "CONNECTING" /\ link = "up" =>
    \/ "CONNECTED" \in events \cup appEvents
    \/ cloud \in {Notifying("success"), Flagging("success")}

\* Recovery does nothing when the status word says success ("already
\* connected"), so a disconnected device whose status word a callback left at
\* success would spin in RECONNECT for ever.
RecoverySeesFailure == state = "DISCONNECTED" => connStatus # "success"

\* The provisioning client and the hub client share one union: provisioning
\* never runs over a hub client that is still alive.
UnionExclusive == AtStage("INITIALIZATION") /\ state = "INIT" => ~hubClient

\* The retry count, which the cloud thread resets and the application thread
\* counts up, stays where the shift and the product of the back-off fit an int.
BackoffBounded == retryCount <= MaxRetry

\* What the loop believes about the connection.
View == [INIT |-> "off", CONNECT |-> "off", CONNECTING |-> "trying", CONNECTED |-> "on",
         DISCONNECTED |-> "off"][state]

Conn == INSTANCE Connection WITH view <- View

\* Whatever the flags and the callbacks do, the loop's view of the connection
\* moves with the connection as the abstract specification says: no step of a
\* handler abandons an open connection, opens a second one or takes a pending
\* attempt for a connection.
ConnectionFollowed == Conn!Spec

\* And no notice of an end is ever lost or put off for good.
ConnectionFollowedInTime == Conn!FairSpec

\* Once the failures end the device is connected and stays so: from no state,
\* and with no set of left-over flags, can it fail to recover.
EventuallyConnected == <>[](state = "CONNECTED" /\ link = "up")

\* A connected device goes on sending telemetry every period: not even an
\* endless stream of commands, which keeps the wait from ever timing out,
\* starves the periodic work.
TelemetryKeepsFlowing == []<><<sample_telemetry_action>>_vars

\* What the documentation leads one to expect of commands: when the loop goes
\* to sleep with nothing pending, no command is left waiting.
NoCommandLeftBehind ==
  app = "get" /\ events = {} /\ cloud = Idle /\ state = "CONNECTED" => queue["COMMAND"] = 0

\* What the README says of the fingerprint template, which the twin holds: it
\* is fetched when the device boots.
TwinFetchedAtBoot == <>fetched

=============================================================================
