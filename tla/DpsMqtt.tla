------------------------------ MODULE DpsMqtt ------------------------------
(***************************************************************************)
(* Provisioning of the older MQTT wrapper: azure_iot_mqtt_create_with_dps  *)
(* (core/src/azure_iot_mqtt/azure_iot_mqtt.c) and what it calls in         *)
(* azure_iot_dps_mqtt.c.  The application thread climbs a ladder of calls, *)
(* asks the provisioning service to register the device and waits up to    *)
(* thirty seconds for a flag; the thread of the MQTT client receives the   *)
(* service's answers, sleeps and polls while the service is at work, and   *)
(* sets the flag on an answer with status 200, whatever can be read in it. *)
(* Then the client that talked to the service is deleted and, in the same  *)
(* memory, the client for the hub created.                                 *)
(*                                                                         *)
(* An answer goes to the connection its request came on.  Requests may be  *)
(* delivered twice (quality of service 1), answers may be lost (quality of *)
(* service 0).                                                             *)
(***************************************************************************)
EXTENDS Naturals, Sequences

CONSTANTS
  Identities,  \* the pairs of hub and device id the service may assign
  MaxAttempts, \* bound: calls of azure_iot_mqtt_create_with_dps
  MaxFaults    \* bound: failures in one behaviour

\* The two names an identity is made of, each represented by the identity.
Fields == {"hub", "deviceId"}
Names == [Fields -> Identities \cup {"none"}]
NoNames == [n \in Fields |-> "none"]

\* What an answer's topic says, and what findJsonString finds in its payload.
Answers == [status : {"success", "retry", "retryUnknown", "error"}, names : Names]

ASSUME IdentitiesAssumption == "none" \notin Identities
ASSUME BoundsAssumption == MaxAttempts \in Nat /\ MaxFaults \in Nat

VARIABLES
  step,        \* the call the application thread makes next
  result,      \* the status of azure_iot_dps_register: "registered" or "failed"
  flags,       \* mqtt_event_flags: "none", "live" or "deleted"
  events,      \* what is set in them
  client,      \* nxd_mqtt_client: "none", "created" or "connected"
  clientNames, \* what was in the buffers when the hub client was created
  mqtt,        \* the MQTT thread: "idle" or "asleep" in process_retry
  inbox,       \* the answers in the client's receive queue
  names,       \* the buffers: mqtt_hub_hostname and mqtt_device_id
  requests,    \* requests the service has not answered
  assigned,    \* what the service assigned in this attempt
  unread,      \* history: the names an answer 200 taken in this attempt was without
  attempts, faults

appVars == <<step, result, flags, client, clientNames>>
serviceVars == <<requests, assigned>>
countVars == <<attempts, faults>>
vars == <<appVars, events, mqtt, inbox, names, serviceVars, unread, countVars>>

NextCall ==
  [flags |-> "client", client |-> "notify", notify |-> "token", token |-> "login",
   login |-> "dns", dns |-> "connect", connect |-> "subscribe", subscribe |-> "publish",
   hubClient |-> "hubNotify", hubNotify |-> "hubLostNotify", hubLostNotify |-> "created"]

HubCalls == {"hubClient", "hubNotify", "hubLostNotify"}

Fault == faults < MaxFaults /\ faults' = faults + 1 /\ UNCHANGED attempts
NoFault == UNCHANGED countVars

-----------------------------------------------------------------------------
(***************************************************************************)
(* The application thread.                                                 *)
(***************************************************************************)

\* memset forgets all of an earlier attempt.
azure_iot_mqtt_create_with_dps ==
  /\ step \in {"idle", "failed"}
  /\ attempts < MaxAttempts
  /\ attempts' = attempts + 1
  /\ step' = "flags"
  /\ result' = "failed"
  /\ flags' = "none"
  /\ events' = {}
  /\ client' = "none"
  /\ clientNames' = NoNames
  /\ names' = NoNames
  /\ assigned' = "none"
  /\ unread' = {}
  /\ UNCHANGED <<mqtt, inbox, requests, faults>>

\* A call up to the subscription, or one that sets up the hub client, succeeds.
CallSucceeds ==
  /\ step \in DOMAIN NextCall
  /\ step = "login" => client = "created"
  /\ step' = NextCall[step]
  /\ flags' = IF step = "flags" THEN "live" ELSE flags
  /\ client' = IF step \in {"client", "hubClient"} THEN "created"
               ELSE IF step = "connect" THEN "connected" ELSE client
  /\ clientNames' = IF step = "hubClient" THEN names ELSE clientNames
  /\ NoFault
  /\ UNCHANGED <<result, events, mqtt, inbox, names, serviceVars, unread>>

\* azure_iot_dps_create returns false, which is NX_SUCCESS, without flags.
FlagsFail ==
  /\ step = "flags"
  /\ Fault
  /\ step' = "token"
  /\ UNCHANGED <<result, flags, client, clientNames, events, mqtt, inbox, names,
                 serviceVars, unread>>

\* Mutated form: a callback that cannot be set leaves its client behind.
CreateFailsLeaky ==
  /\ step \in {"client", "notify"} \cup HubCalls
  /\ Fault
  /\ step' = "failed"
  /\ flags' = "deleted"
  /\ UNCHANGED <<result, client, clientNames, events, mqtt, inbox, names, serviceVars,
                 unread>>

\* azure_iot_dps_create and azure_iot_mqtt_create_common delete what they created.
CreateFails ==
  /\ step \in {"client", "notify"} \cup HubCalls
  /\ Fault
  /\ step' = "failed"
  /\ flags' = "deleted"
  /\ client' = "none"
  /\ UNCHANGED <<result, clientNames, events, mqtt, inbox, names, serviceVars, unread>>

\* A call of azure_iot_dps_register fails: by itself, or because there is no client.
RegisterFails ==
  /\ step \in {"token", "login", "dns", "connect", "subscribe"}
  /\ IF step = "login" /\ client = "none" THEN NoFault ELSE Fault
  /\ step' = "deleteFlags"
  /\ UNCHANGED <<result, flags, client, clientNames, events, mqtt, inbox, names,
                 serviceVars, unread>>

\* A publish fails (which is logged), delivers a request, or delivers it twice.
mqtt_publish ==
  \/ client = "connected" /\ requests' = requests + 1 /\ NoFault
  \/ client = "connected" /\ requests' = requests + 2 /\ Fault
  \/ client = "connected" /\ UNCHANGED requests /\ Fault
  \/ client # "connected" /\ UNCHANGED requests /\ NoFault

Publish ==
  /\ step = "publish"
  /\ mqtt_publish
  /\ step' = "wait"
  /\ UNCHANGED <<result, flags, client, clientNames, events, mqtt, inbox, names,
                 assigned, unread>>

Registered ==
  /\ step = "wait"
  /\ "SUCCESS" \in events
  /\ events' = {}
  /\ result' = "registered"
  /\ step' = "deleteFlags"
  /\ NoFault
  /\ UNCHANGED <<flags, client, clientNames, mqtt, inbox, names, serviceVars, unread>>

\* Mutated form: the wait is as long as the caller's argument says, NX_WAIT_FOREVER.
WaitForever == FALSE /\ UNCHANGED vars

\* Thirty seconds without the flag, however far the registration has come.
TimeOut ==
  /\ step = "wait"
  /\ "SUCCESS" \notin events
  /\ step' = "deleteFlags"
  /\ NoFault
  /\ UNCHANGED <<result, flags, client, clientNames, events, mqtt, inbox, names,
                 serviceVars, unread>>

\* azure_iot_dps_delete: three calls, between which the MQTT thread may run.
DeleteFlags ==
  /\ step = "deleteFlags"
  /\ flags' = IF flags = "live" THEN "deleted" ELSE flags
  /\ step' = "disconnect"
  /\ NoFault
  /\ UNCHANGED <<result, client, clientNames, events, mqtt, inbox, names, serviceVars,
                 unread>>

Disconnect ==
  /\ step = "disconnect"
  /\ client' = IF client = "connected" THEN "created" ELSE client
  /\ requests' = 0
  /\ step' = "deleteClient"
  /\ NoFault
  /\ UNCHANGED <<result, flags, clientNames, events, mqtt, inbox, names, assigned,
                 unread>>

\* Mutated form: the client and its thread live on.
ForgetClient ==
  /\ step = "deleteClient"
  /\ step' = IF result = "registered" THEN "hubClient" ELSE "failed"
  /\ NoFault
  /\ UNCHANGED <<result, flags, client, clientNames, events, mqtt, inbox, names,
                 serviceVars, unread>>

\* The MQTT thread ends, wherever it is.
DeleteClient ==
  /\ step = "deleteClient"
  /\ client' = "none"
  /\ mqtt' = "idle"
  /\ inbox' = <<>>
  /\ step' = IF result = "registered" THEN "hubClient" ELSE "failed"
  /\ NoFault
  /\ UNCHANGED <<result, flags, clientNames, events, names, serviceVars, unread>>

azure_iot_mqtt_delete ==
  /\ step = "created"
  /\ client' = "none"
  /\ step' = "idle"
  /\ NoFault
  /\ UNCHANGED <<result, flags, clientNames, events, mqtt, inbox, names, serviceVars,
                 unread>>

-----------------------------------------------------------------------------
(***************************************************************************)
(* The MQTT thread: mqtt_notify_cb, answer by answer.  It has the higher   *)
(* priority: the application thread runs only while it waits or sleeps.    *)
(***************************************************************************)
Take(status) ==
  /\ mqtt = "idle"
  /\ client # "none"
  /\ inbox # <<>>
  /\ Head(inbox).status = status
  /\ inbox' = Tail(inbox)
  /\ NoFault

\* A flag in a group that was deleted is not set.
SetSuccess == events' = IF flags = "live" THEN {"SUCCESS"} ELSE events

\* Mutated form: the break after case 202 is missing.
RetryFallsThrough ==
  /\ Take("retry")
  /\ mqtt' = "asleep"
  /\ SetSuccess
  /\ UNCHANGED <<appVars, names, serviceVars, unread>>

\* Status 202: sleep for as long as the service says, then poll.
process_retry ==
  /\ Take("retry")
  /\ mqtt' = "asleep"
  /\ UNCHANGED <<appVars, events, names, serviceVars, unread>>

Poll ==
  /\ mqtt = "asleep"
  /\ mqtt' = "idle"
  /\ mqtt_publish
  /\ UNCHANGED <<appVars, events, inbox, names, assigned, unread>>

\* Mutated form: what is stored is not the value found but its key.
StoreKey ==
  /\ Take("success")
  /\ names' = [n \in Fields |-> n]
  /\ UNCHANGED unread
  /\ SetSuccess
  /\ UNCHANGED <<appVars, mqtt, serviceVars>>

\* Status 200: each name is looked for and stored if found.  One that is not found is
\* logged; and the flag is set, whatever was found, and whatever the payload's own
\* status is, which nobody reads.
process_success ==
  /\ Take("success")
  /\ LET found == Head(inbox).names
     IN  /\ names' = [n \in Fields |-> IF found[n] = "none" THEN names[n] ELSE found[n]]
         /\ unread' = unread \cup {n \in Fields : found[n] = "none"}
  /\ SetSuccess
  /\ UNCHANGED <<appVars, mqtt, serviceVars>>

\* Any other status, or a 202 that does not say how long to wait.
IgnoreAnswer ==
  /\ \E status \in {"retryUnknown", "error"} : Take(status)
  /\ UNCHANGED <<appVars, events, mqtt, names, serviceVars, unread>>

-----------------------------------------------------------------------------
(***************************************************************************)
(* The service and the network.  An assignment stands for the attempt; the *)
(* names in an answer, where they can be read, are those assigned.         *)
(***************************************************************************)
Answer(status, readable) ==
  inbox' = Append(inbox, [status |-> status,
                          names |-> [n \in Fields |-> IF n \in readable THEN assigned' ELSE "none"]])

ServiceAnswers ==
  /\ client = "connected"
  /\ requests > 0
  /\ requests' = requests - 1
  /\ \/ /\ UNCHANGED assigned
        /\ Answer("retry", {})
        /\ NoFault
     \/ /\ assigned' \in IF assigned = "none" THEN Identities ELSE {assigned}
        /\ \E readable \in SUBSET Fields :
             /\ Answer("success", readable)
             /\ IF readable = Fields THEN NoFault ELSE Fault
     \/ /\ UNCHANGED assigned
        /\ \E status \in {"success", "retryUnknown", "error"} : Answer(status, {})
        /\ Fault
     \/ UNCHANGED <<inbox, assigned>> /\ Fault
  /\ UNCHANGED <<appVars, events, mqtt, names, unread>>

\* No disconnect callback is set: the application thread hears nothing of it.
ConnectionLost ==
  /\ client = "connected"
  /\ client' = "created"
  /\ requests' = 0
  /\ Fault
  /\ UNCHANGED <<step, result, flags, clientNames, events, mqtt, inbox, names, assigned,
                 unread>>

-----------------------------------------------------------------------------
Init ==
  /\ step = "idle"
  /\ result = "failed"
  /\ flags = "none"
  /\ events = {}
  /\ client = "none"
  /\ clientNames = NoNames
  /\ mqtt = "idle"
  /\ inbox = <<>>
  /\ names = NoNames
  /\ requests = 0
  /\ assigned = "none"
  /\ unread = {}
  /\ attempts = 0
  /\ faults = 0

\* What the application thread does once it is in azure_iot_mqtt_create_with_dps.
Create ==
  \/ CallSucceeds
  \/ FlagsFail
  \/ CreateFails
  \/ RegisterFails
  \/ Publish
  \/ Registered
  \/ TimeOut
  \/ DeleteFlags
  \/ Disconnect
  \/ DeleteClient

mqtt_notify_cb ==
  \/ process_retry
  \/ Poll
  \/ process_success
  \/ IgnoreAnswer

Next ==
  \/ azure_iot_mqtt_create_with_dps
  \/ azure_iot_mqtt_delete
  \/ Create
  \/ mqtt_notify_cb
  \/ ServiceAnswers
  \/ ConnectionLost

Spec == Init /\ [][Next]_vars

\* Both threads run, and the wait's thirty seconds pass.
FairSpec == Spec /\ WF_vars(Create) /\ WF_vars(mqtt_notify_cb)

-----------------------------------------------------------------------------
(***************************************************************************)
(* Properties.                                                             *)
(***************************************************************************)

\* Every variable has a value the program can give it.
TypeOK ==
  /\ step \in DOMAIN NextCall \cup {"idle", "publish", "wait", "deleteFlags", "disconnect",
                                    "deleteClient", "created", "failed"}
  /\ result \in {"registered", "failed"}
  /\ events \subseteq {"SUCCESS"}
  /\ unread \subseteq Fields
  /\ flags \in {"none", "live", "deleted"}
  /\ client \in {"none", "created", "connected"}
  /\ {clientNames, names} \subseteq Names
  /\ assigned \in Identities \cup {"none"}
  /\ mqtt \in {"idle", "asleep"}
  /\ inbox \in Seq(Answers)
  /\ requests \in Nat
  /\ attempts \in 0..MaxAttempts
  /\ faults \in 0..MaxFaults

\* The hub client goes by names the service assigned, in this attempt and not in
\* one that timed out before: the hub's and the device's are of one assignment.
\* A name may be missing, as an answer 200 without an assignment counts as a success
\* too, but only if such an answer, or one in which it was not readable, was taken.
RegisteredMeansAssigned ==
  step \in HubCalls \cup {"created"} =>
    \A n \in Fields :
      \/ names[n] = assigned /\ assigned # "none"
      \/ names[n] = "none" /\ n \in unread

\* The hub client keeps the buffer with the device id and the length it had when
\* the client was created, and later connects to the hub named in the other: no
\* answer that comes late, or twice, changes either then.
IdentityStays == step \in {"hubNotify", "hubLostNotify", "created"} => clientNames = names

\* A creation that fails, at whichever of its calls and whatever the MQTT thread
\* was doing, leaves no client, no thread and no flags behind for the next.
FailedCreateCleansUp ==
  step = "failed" => client = "none" /\ flags # "live" /\ mqtt = "idle" /\ inbox = <<>>

\* Lost answers, a lost connection or a service that never comes to an end only
\* make the creation fail: it does not wait for ever.
CreateDecided == step = "flags" ~> step \in {"created", "failed"}

=============================================================================
