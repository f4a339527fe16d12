----------------------------- MODULE SntpClient -----------------------------
(***************************************************************************)
(* Time on the device (core/src/sntp_client.c) and the thread that waits   *)
(* for it before it starts the sample (azure_thread_entry in app/main.c).  *)
(*                                                                         *)
(* The SNTP thread asks one of four servers, waits up to five seconds for  *)
(* the SNTP library to announce an update, looks whether the server still  *)
(* answers, and either asks the next server or stores the time.  Servers   *)
(* fall silent, names do not resolve, and the library's calls fail.  The   *)
(* pair of values that make up the time is read and written under a mutex  *)
(* and appears here only as whether it has ever been set.                  *)
(***************************************************************************)
EXTENDS Naturals

CONSTANTS
  ServerCount, \* the number of entries of SNTP_SERVER
  MaxFaults    \* bound: failures in one behaviour

ASSUME ServerAssumption == ServerCount \in Nat \ {0}

VARIABLES
  app,     \* where azure_thread_entry is
  thread,  \* where sntp_thread_entry is
  client,  \* the state of the NX_SNTP_CLIENT
  server,  \* sntp_server_count
  flags,   \* the flags set in sntp_flags
  events,  \* the thread's local variable: 1 is SNTP_UPDATE_EVENT
  timeSet, \* has set_sntp_time stored a time?
  valid,   \* does the library count the server as answering?
  faults   \* failures so far

vars == <<app, thread, client, server, flags, events, timeSet, valid, faults>>

Fault == faults < MaxFaults /\ faults' = faults + 1
NoFault == UNCHANGED faults

\* Mutated form: the modulus is that of a list one longer.
NextServerTooFar(n) == (n + 1) % (ServerCount + 1)

NextServer(n) == (n + 1) % ServerCount

-----------------------------------------------------------------------------
(***************************************************************************)
(* azure_thread_entry.                                                     *)
(***************************************************************************)

\* platform_init and sntp_start: when one of their calls fails the thread ends
\* (also when the flags cannot be created, which sntp_start reports as success:
\* the wait for them then fails at once).
Start ==
  /\ app = "boot"
  /\ \/ NoFault /\ app' = "waiting" /\ thread' = "start"
     \/ Fault /\ app' = "returned" /\ UNCHANGED thread
  /\ UNCHANGED <<client, server, flags, events, timeSet, valid>>

\* sntp_sync_wait waits for ever; then the sample runs.
sntp_sync_wait ==
  /\ app = "waiting"
  /\ "NEW_TIME" \in flags
  /\ flags' = flags \ {"NEW_TIME"}
  /\ app' = "sample"
  /\ UNCHANGED <<thread, client, server, events, timeSet, valid, faults>>

-----------------------------------------------------------------------------
(***************************************************************************)
(* sntp_client_run, with the name query, the initialization or the start   *)
(* of the library's client failing.  The last two delete the client.       *)
(***************************************************************************)
RunSucceeds ==
  /\ NoFault
  /\ server' = NextServer(server)
  /\ client' = "running"
  /\ valid' = FALSE

NameNotResolved(stopped) ==
  /\ Fault
  /\ client' = stopped
  /\ UNCHANGED <<server, valid>>

RunFails ==
  /\ Fault
  /\ server' = NextServer(server)
  /\ client' = "deleted"
  /\ valid' = FALSE

\* The thread's beginning: create the client and set it up.
CreateClient ==
  /\ thread = "start"
  /\ \/ NoFault /\ client' = "created" /\ thread' = "firstRun"
     \/ Fault /\ client' \in {"none", "deleted"} /\ thread' = "ended"
  /\ UNCHANGED <<app, server, flags, events, timeSet, valid>>

FirstRun ==
  /\ thread = "firstRun"
  /\ \/ RunSucceeds /\ thread' = "wait"
     \/ (NameNotResolved(client) \/ RunFails) /\ thread' = "ended"
  /\ UNCHANGED <<app, flags, events, timeSet>>

\* The wait ends with the flag or with the time-out, which leaves events alone.
WaitForUpdate ==
  /\ thread = "wait"
  /\ thread' = "check"
  /\ events' = IF "UPDATE" \in flags THEN 1 ELSE events
  /\ flags' = flags \ {"UPDATE"}
  /\ UNCHANGED <<app, client, server, timeSet, valid, faults>>

\* A deleted client is refused by nx_sntp_client_receiving_updates.
CheckFails ==
  /\ thread = "check"
  /\ client = "deleted"
  /\ thread' = "wait"
  /\ UNCHANGED <<app, client, server, flags, events, timeSet, valid, faults>>

\* Mutated form: the client of a silent server is stopped and not run again.
StopOnly ==
  /\ thread = "check"
  /\ client # "deleted"
  /\ ~valid
  /\ thread' = "wait"
  /\ client' = "stopped"
  /\ UNCHANGED <<app, server, flags, events, timeSet, valid, faults>>

\* The server does not answer: stop, try the next one, ignore how that went.
Restart ==
  /\ thread = "check"
  /\ client # "deleted"
  /\ ~valid
  /\ thread' = "wait"
  /\ RunSucceeds \/ NameNotResolved("stopped") \/ RunFails
  /\ UNCHANGED <<app, flags, events, timeSet>>

\* Mutated form: the time is announced even when it could not be had.
AnnounceAlways ==
  /\ \/ NoFault /\ timeSet' = TRUE
     \/ Fault /\ UNCHANGED timeSet
  /\ flags' = flags \cup {"NEW_TIME"}

set_sntp_time ==
  \/ NoFault /\ timeSet' = TRUE /\ flags' = flags \cup {"NEW_TIME"}
  \/ Fault /\ UNCHANGED <<timeSet, flags>>

StoreTime ==
  /\ thread = "check"
  /\ client # "deleted"
  /\ valid
  /\ thread' = "wait"
  /\ IF events = 1 THEN set_sntp_time ELSE UNCHANGED <<timeSet, flags, faults>>
  /\ events' = 0
  /\ UNCHANGED <<app, client, server, valid>>

-----------------------------------------------------------------------------
(***************************************************************************)
(* The SNTP library's thread.                                              *)
(***************************************************************************)
time_update_callback ==
  /\ client = "running"
  /\ valid' = TRUE
  /\ flags' = flags \cup {"UPDATE"}
  /\ UNCHANGED <<app, thread, client, server, events, timeSet, faults>>

ServerFallsSilent ==
  /\ client = "running"
  /\ valid
  /\ Fault
  /\ valid' = FALSE
  /\ UNCHANGED <<app, thread, client, server, flags, events, timeSet>>

Init ==
  /\ app = "boot"
  /\ thread = "none"
  /\ client = "none"
  /\ server = 0
  /\ flags = {}
  /\ events = 0
  /\ timeSet = FALSE
  /\ valid = FALSE
  /\ faults = 0

AzureThread == Start \/ sntp_sync_wait

SntpThread ==
  CreateClient \/ FirstRun \/ WaitForUpdate \/ CheckFails \/ Restart \/ StoreTime

Next == AzureThread \/ SntpThread \/ time_update_callback \/ ServerFallsSilent

Spec == Init /\ [][Next]_vars

\* Both threads are the only ones of their kind and run when ready; a server
\* that is asked again and again answers.
Fairness ==
  /\ WF_vars(AzureThread)
  /\ WF_vars(SntpThread)
  /\ SF_vars(time_update_callback)

FairSpec == Spec /\ Fairness

-----------------------------------------------------------------------------
(***************************************************************************)
(* Properties.                                                             *)
(***************************************************************************)

\* Every variable has a value the program can give it; the server's index is
\* that of an entry of the list.
TypeOK ==
  /\ app \in {"boot", "waiting", "sample", "returned"}
  /\ thread \in {"none", "start", "firstRun", "wait", "check", "ended"}
  /\ client \in {"none", "created", "running", "stopped", "deleted"}
  /\ server \in 0..(ServerCount - 1)
  /\ flags \in SUBSET {"UPDATE", "NEW_TIME"}
  /\ events \in {0, 1}
  /\ timeSet \in BOOLEAN
  /\ valid \in BOOLEAN
  /\ faults \in Nat

\* The sample, whose tokens are made of the time, never runs before a time came
\* from a server, whatever failed on the way.
StartsWithTime == app = "sample" => timeSet

\* Once the thread has come to its loop, silent servers, names that do not resolve
\* and times that cannot be read delay the next synchronization and never end
\* them: only a failed restart, which deletes the client, does that.
ReconnectsUnlessDeleted ==
  <>(thread = "wait") => []<><<StoreTime /\ events = 1>>_vars \/ <>(client = "deleted")

\* What the documentation says: once synchronized, the thread monitors for
\* updates, resynchronizes, and reconnects if required.
KeepsSynchronizing == <>timeSet => []<><<StoreTime /\ events = 1>>_vars

=============================================================================
