---------------------------- MODULE Provisioning ----------------------------
(***************************************************************************)
(* sample_initialize_iothub and sample_dps_entry call by call, inside the  *)
(* main loop (app/sample_pnp_iot_device.c).  SampleEventLoop takes the     *)
(* handler for one step with two outcomes; here it is a ladder of up to    *)
(* thirteen library calls, any of which may fail, that builds first a      *)
(* provisioning client and then an IoT Hub client in the same union, and   *)
(* has to leave the union empty whenever it gives up.  The rest of the     *)
(* loop is that of SampleEventLoop, whose hub client is "live" when the    *)
(* union holds a hub client on which every call of the ladder succeeded.   *)
(*                                                                         *)
(* The ladder depends on two options of the build: ENABLE_DPS, and         *)
(* USE_DEVICE_CERTIFICATE.                                                 *)
(***************************************************************************)
EXTENDS Naturals

CONSTANTS
  Hubs,       \* the hubs the provisioning service may name
  StaticHub,  \* IOT_HUB_HOSTNAME, which a build without DPS connects to
  InitialBackoff, MaxBackoff, MaxRetry, MaxMessages, MaxFaults

ASSUME HubsAssumption == StaticHub \in Hubs

VARIABLES
  naming,     \* who names the hub: "service" in a build with ENABLE_DPS, or "build"
  credential, \* what the build authenticates with: "certificate" or "key"
  call,       \* the call of the ladder that is to be made next
  union,      \* which client lives in the union of SAMPLE_CONTEXT
  configured, \* the calls that succeeded on that client
  buffer,     \* sample_iothub_hostname
  hub,        \* the hub the hub client was initialized with
  assigned,   \* history: the hub the service named since the device was last refused
  \* the variables of SampleEventLoop
  state, connStatus, retryCount, events, appEvents, app, fetched, periodDue,
  link, queue, twin, cloud, faults

provVars == <<naming, credential, call, union, configured, buffer, hub, assigned>>
loopVars == <<state, connStatus, retryCount, events, appEvents, app, fetched, periodDue,
              link, queue, twin, cloud, faults>>
vars == <<provVars, loopVars>>

-----------------------------------------------------------------------------
(***************************************************************************)
(* The ladder.                                                             *)
(***************************************************************************)

\* With a certificate one more call comes before each client gets its credential.
NextCall ==
  [provInitialize |-> IF credential = "certificate" THEN "provCertificate" ELSE "provCredential",
   provCertificate |-> "provCredential",
   provCredential |-> "register",
   register |-> "deviceInfoGet",
   deviceInfoGet |-> "hubInitialize",
   hubInitialize |-> IF credential = "certificate" THEN "hubCertificate" ELSE "hubCredential",
   hubCertificate |-> "hubCredential",
   hubCredential |-> "statusCallback",
   statusCallback |-> "propertiesCallback",
   propertiesCallback |-> "commandCallback",
   commandCallback |-> "desiredCallback",
   desiredCallback |-> "component",
   component |-> "vtComponent"]

FirstCall == IF naming = "service" THEN "provInitialize" ELSE "hubInitialize"

\* What a hub client must have been given before it may connect.
HubSetup ==
  {"hubInitialize", "hubCredential", "statusCallback", "propertiesCallback",
   "commandCallback", "desiredCallback", "component", "vtComponent"}
  \cup (IF credential = "certificate" THEN {"hubCertificate"} ELSE {})

DpsCalls == {"provInitialize", "provCertificate", "provCredential", "register", "deviceInfoGet"}

Calls == DpsCalls \cup HubSetup

\* The calls that give the client in the union something more, and nothing else.
ConfigureCalls ==
  Calls \ {"provInitialize", "register", "deviceInfoGet", "hubInitialize", "vtComponent"}

HubClientLive == union = "hub" /\ configured = HubSetup

Loop == INSTANCE SampleEventLoop WITH hubClient <- HubClientLive

\* The bounds and the back-off are those of the loop.
ASSUME LoopAssumption ==
  /\ MaxRetry \in Nat
  /\ MaxRetry < 30
  /\ Loop!Saturated(MaxRetry)
  /\ MaxMessages \in Nat
  /\ MaxFaults \in Nat

\* The handler is about to make call c.
At(c) ==
  /\ Loop!AtStage("INITIALIZATION")
  /\ state = "INIT"
  /\ call = c

\* Mutated form: a failure of sample_dps_entry returns at once.
ReturnWithoutDeinit ==
  /\ call' = FirstCall
  /\ IF call \in DpsCalls
     THEN UNCHANGED <<union, configured>>
     ELSE union' = "none" /\ configured' = {}

\* The client is deinitialized, unless it is its own initialization that failed.
GiveUp ==
  /\ call' = FirstCall
  /\ union' = "none"
  /\ configured' = {}

Succeeds(c) ==
  /\ call' = NextCall[c]
  /\ configured' = configured \cup {c}
  /\ UNCHANGED loopVars

\* Mutated form: the handler goes on although a call failed.
FailureIgnored(c) ==
  /\ At(c)
  /\ c # "vtComponent"
  /\ call' = NextCall[c]
  /\ Loop!Fault
  /\ UNCHANGED <<naming, credential, union, configured, buffer, hub, assigned, state,
                 connStatus, retryCount, events, appEvents, app, fetched, periodDue, link,
                 queue, twin, cloud>>

\* Mutated form: the state becomes CONNECT whatever the status.
ConnectAnyway(c) ==
  /\ At(c)
  /\ Loop!Enter("INITIALIZATION")
  /\ Loop!Fault
  /\ GiveUp
  /\ state' = "CONNECT"
  /\ UNCHANGED <<naming, credential, buffer, hub, assigned, connStatus, retryCount, events,
                 app, fetched, periodDue, link, queue, twin, cloud>>

\* The handler returns with an error and the state stays INIT.
CallFails(c) ==
  /\ At(c)
  /\ Loop!Enter("INITIALIZATION")
  /\ Loop!Fault
  /\ GiveUp
  /\ buffer' \in IF c = "deviceInfoGet" THEN {buffer, assigned} ELSE {buffer}
  /\ UNCHANGED <<naming, credential, hub, assigned, state, connStatus, retryCount, events,
                 app, fetched, periodDue, link, queue, twin, cloud>>

nx_azure_iot_provisioning_client_initialize ==
  /\ At("provInitialize")
  /\ union' = "prov"
  /\ Succeeds("provInitialize")
  /\ UNCHANGED <<naming, credential, buffer, hub, assigned>>

Configure(c) ==
  /\ At(c)
  /\ Succeeds(c)
  /\ UNCHANGED <<naming, credential, union, buffer, hub, assigned>>

\* The service may name another hub than the last time.
nx_azure_iot_provisioning_client_register ==
  /\ At("register")
  /\ assigned' \in Hubs
  /\ Succeeds("register")
  /\ UNCHANGED <<naming, credential, union, buffer, hub>>

\* The last call of sample_dps_entry, after which the client is deinitialized.
sample_dps_entry ==
  /\ At("deviceInfoGet")
  /\ buffer' = assigned
  /\ union' = "none"
  /\ configured' = {}
  /\ call' = "hubInitialize"
  /\ UNCHANGED <<naming, credential, hub, assigned, loopVars>>

nx_azure_iot_pnp_client_initialize ==
  /\ At("hubInitialize")
  /\ union' = "hub"
  /\ hub' = IF naming = "service" THEN buffer ELSE StaticHub
  /\ Succeeds("hubInitialize")
  /\ UNCHANGED <<naming, credential, buffer, assigned>>

\* Mutated form: the status of the last call is lost, and the state stays INIT.
SuccessNotRecorded ==
  /\ At("vtComponent")
  /\ Loop!Enter("INITIALIZATION")
  /\ configured' = configured \cup {"vtComponent"}
  /\ call' = FirstCall
  /\ UNCHANGED <<naming, credential, union, buffer, hub, assigned, state, connStatus,
                 retryCount, events, app, fetched, periodDue, link, queue, twin, cloud, faults>>

\* Mutated form: the handler's place in the ladder outlives the handler.
CallKept ==
  /\ At("vtComponent")
  /\ Loop!Enter("INITIALIZATION")
  /\ configured' = configured \cup {"vtComponent"}
  /\ call' = "done"
  /\ state' = "CONNECT"
  /\ UNCHANGED <<naming, credential, union, buffer, hub, assigned, connStatus, retryCount,
                 events, app, fetched, periodDue, link, queue, twin, cloud, faults>>

\* The last call succeeds, and the state becomes CONNECT.
sample_initialize_iothub ==
  /\ At("vtComponent")
  /\ Loop!Enter("INITIALIZATION")
  /\ configured' = configured \cup {"vtComponent"}
  /\ call' = FirstCall
  /\ state' = "CONNECT"
  /\ UNCHANGED <<naming, credential, union, buffer, hub, assigned, connStatus, retryCount,
                 events, app, fetched, periodDue, link, queue, twin, cloud, faults>>

\* Mutated form: after a refusal the hub named before is good enough.
RecoverKeepsHub ==
  /\ app = "sleepInit"
  /\ Loop!nx_azure_iot_pnp_client_disconnect
  /\ union' = "none"
  /\ configured' = {}
  /\ assigned' = "zeroes"
  /\ call' = "hubInitialize"
  /\ state' = "INIT"
  /\ app' = "stages"
  /\ UNCHANGED <<naming, credential, buffer, hub, retryCount, appEvents, fetched, periodDue,
                 cloud, faults>>

\* sample_connection_error_recover deinitializes the hub client and starts over.
RecoverReinitialize ==
  /\ app = "sleepInit"
  /\ Loop!nx_azure_iot_pnp_client_disconnect
  /\ union' = "none"
  /\ configured' = {}
  /\ assigned' = "zeroes"
  /\ state' = "INIT"
  /\ app' = "stages"
  /\ UNCHANGED <<naming, credential, call, buffer, hub, retryCount, appEvents, fetched,
                 periodDue, cloud, faults>>

Init ==
  /\ naming \in {"service", "build"}
  /\ credential \in {"certificate", "key"}
  /\ call = FirstCall
  /\ union = "none"
  /\ configured = {}
  /\ buffer = "zeroes"
  /\ hub = "zeroes"
  /\ assigned = "zeroes"
  /\ Loop!Init

Provision ==
  \/ \E c \in Calls : CallFails(c)
  \/ nx_azure_iot_provisioning_client_initialize
  \/ \E c \in ConfigureCalls : Configure(c)
  \/ nx_azure_iot_provisioning_client_register
  \/ sample_dps_entry
  \/ nx_azure_iot_pnp_client_initialize
  \/ sample_initialize_iothub

RestOfLoop(A) == UNCHANGED provVars /\ A

AppThread == Provision \/ RecoverReinitialize \/ RestOfLoop(Loop!Handlers)

Next ==
  \/ AppThread
  \/ RestOfLoop(Loop!Callbacks)
  \/ RestOfLoop(Loop!Network)
  \/ RestOfLoop(Loop!PeriodElapsed)

Spec == Init /\ [][Next]_vars

\* As for SampleEventLoop; that a call of the ladder returns, register's included,
\* is what the library promises.
Fairness ==
  /\ WF_vars(AppThread)
  /\ WF_vars(RestOfLoop(Loop!Callbacks))
  /\ WF_vars(RestOfLoop(Loop!PeriodElapsed))
  /\ WF_vars(RestOfLoop(Loop!LinkOpened))

FairSpec == Spec /\ Fairness

-----------------------------------------------------------------------------
(***************************************************************************)
(* Properties.                                                             *)
(***************************************************************************)

\* Every variable has a value the program can give it.
TypeOK ==
  /\ naming \in {"service", "build"}
  /\ credential \in {"certificate", "key"}
  /\ call \in Calls
  /\ union \in {"none", "prov", "hub"}
  /\ configured \in SUBSET Calls
  /\ {buffer, hub, assigned} \subseteq Hubs \cup {"zeroes"}

\* The provisioning client and the hub client live in one union: whichever call
\* of whichever round failed, neither is built over a client still alive.
BuiltInEmptyUnion ==
  [][nx_azure_iot_provisioning_client_initialize \/ nx_azure_iot_pnp_client_initialize
       => union = "none"]_vars

\* The loop connects, and after a lost connection connects again, only with a
\* hub client that has its credential, all four callbacks and both components:
\* no failure on the way leaves a client half set up in the state CONNECT.
ConnectsWhole == state # "INIT" => HubClientLive

\* A device that its hub refused, or whose hub's name no longer resolves, asks
\* the provisioning service again and connects to the hub the service names
\* then: no name left in the static buffer from an earlier round is used.
AsksAgainAfterRefusal == naming = "service" /\ state # "INIT" => hub = assigned

\* The ladder of calls, with its failures and clean-ups, does what the single
\* step of SampleEventLoop says, so all that holds of the loop holds with the
\* provisioning in it.
ImplementsLoop == Loop!Spec

\* Failures in the ladder and on the connection, in whatever order, only delay
\* the connection.
EventuallyConnected == <>[](state = "CONNECTED" /\ link = "up")

=============================================================================
