------------------------- MODULE SntpClient_proofs -------------------------
(***************************************************************************)
(* Proofs about SntpClient, for every number of servers and of failures.   *)
(***************************************************************************)
EXTENDS SntpClient, TLAPS

\* Asking the next server stays within the list.
LEMMA NextServerInList == \A n \in Nat : NextServer(n) \in 0..(ServerCount - 1)
  BY ServerAssumption DEF NextServer

\* The variables that are not Boolean.
Typed ==
  /\ app \in {"boot", "waiting", "sample", "returned"}
  /\ thread \in {"none", "start", "firstRun", "wait", "check", "ended"}
  /\ client \in {"none", "created", "running", "stopped", "deleted"}
  /\ server \in 0..(ServerCount - 1)
  /\ flags \in SUBSET {"UPDATE", "NEW_TIME"}
  /\ events \in {0, 1}
  /\ faults \in Nat

\* The rotation never leaves the list of servers, for a list of any length.
THEOREM TypeCorrect == Spec => []TypeOK
<1>1. Init => TypeOK
  <2> SUFFICES ASSUME Init PROVE TypeOK
    OBVIOUS
  <2>1. Typed
    BY ServerAssumption DEF Init, Typed
  <2>2. timeSet \in BOOLEAN /\ valid \in BOOLEAN
    BY Zenon DEF Init
  <2> QED
    BY <2>1, <2>2 DEF Typed, TypeOK
<1>2. TypeOK /\ [Next]_vars => TypeOK'
  <2> SUFFICES ASSUME TypeOK, [Next]_vars PROVE TypeOK'
    OBVIOUS
  <2>1. NextServer(server) \in 0..(ServerCount - 1)
    BY NextServerInList, ServerAssumption DEF TypeOK
  <2>2. Typed'
    <3> USE DEF TypeOK, Typed, Fault, NoFault
    <3>1. CASE AzureThread
      <4>1. CASE Start
        BY <4>1 DEF Start
      <4>2. CASE sntp_sync_wait
        BY <4>2 DEF sntp_sync_wait
      <4> QED
        BY <3>1, <4>1, <4>2 DEF AzureThread
    <3>2. CASE CreateClient
      BY <3>2 DEF CreateClient
    <3>3. CASE FirstRun
      BY <3>3, <2>1 DEF FirstRun, RunSucceeds, NameNotResolved, RunFails
    <3>4. CASE WaitForUpdate \/ CheckFails
      BY <3>4 DEF WaitForUpdate, CheckFails
    <3>5. CASE Restart
      BY <3>5, <2>1 DEF Restart, RunSucceeds, NameNotResolved, RunFails
    <3>6. CASE StoreTime
      <4>1. CASE events = 1
        <5>1. set_sntp_time
          BY <3>6, <4>1, Zenon DEF StoreTime
        <5>2. flags' \in {flags, flags \cup {"NEW_TIME"}} /\ faults' \in Nat
          BY <5>1 DEF set_sntp_time
        <5>3. flags' \in SUBSET {"UPDATE", "NEW_TIME"}
          BY <5>2
        <5> QED
          BY <3>6, <5>2, <5>3 DEF StoreTime
      <4>2. CASE events # 1
        BY <3>6, <4>2 DEF StoreTime
      <4> QED
        BY <4>1, <4>2
    <3>7. CASE time_update_callback \/ ServerFallsSilent
      <4>1. CASE time_update_callback
        BY <4>1 DEF time_update_callback
      <4>2. CASE ServerFallsSilent
        BY <4>2 DEF ServerFallsSilent
      <4> QED
        BY <3>7, <4>1, <4>2
    <3>8. CASE UNCHANGED vars
      BY <3>8 DEF vars
    <3> QED
      BY <3>1, <3>2, <3>3, <3>4, <3>5, <3>6, <3>7, <3>8 DEF Next, SntpThread
  <2>3. timeSet' \in BOOLEAN /\ valid' \in BOOLEAN
    BY Zenon DEF TypeOK, Next, vars, AzureThread, Start, sntp_sync_wait, SntpThread,
       CreateClient, FirstRun, RunSucceeds, NameNotResolved, RunFails, WaitForUpdate,
       CheckFails, Restart, StoreTime, set_sntp_time, time_update_callback,
       ServerFallsSilent
  <2> QED
    BY <2>2, <2>3 DEF Typed, TypeOK
<1> QED
  BY <1>1, <1>2, PTL DEF Spec

\* The flag the application waits for is set only after a time was stored.
Announced == StartsWithTime /\ ("NEW_TIME" \in flags => timeSet)

\* The sample starts with a time from a server, whatever failed before.
THEOREM TimeBeforeSample == Spec => []StartsWithTime
<1>1. Init => Announced
  BY DEF Init, Announced, StartsWithTime
<1>2. Announced /\ [Next]_vars => Announced'
  <2> SUFFICES ASSUME Announced, [Next]_vars PROVE Announced'
    OBVIOUS
  <2> USE DEF Announced, StartsWithTime
  <2>1. CASE AzureThread
    BY <2>1 DEF AzureThread, Start, sntp_sync_wait
  <2>2. CASE CreateClient \/ FirstRun \/ CheckFails \/ Restart
    BY <2>2 DEF CreateClient, FirstRun, CheckFails, Restart
  <2>3. CASE WaitForUpdate
    BY <2>3 DEF WaitForUpdate
  <2>4. CASE StoreTime
    BY <2>4 DEF StoreTime, set_sntp_time
  <2>5. CASE time_update_callback \/ ServerFallsSilent
    BY <2>5 DEF time_update_callback, ServerFallsSilent
  <2>6. CASE UNCHANGED vars
    BY <2>6 DEF vars
  <2> QED
    BY <2>1, <2>2, <2>3, <2>4, <2>5, <2>6 DEF Next, SntpThread
<1> QED
  BY <1>1, <1>2, PTL DEF Spec, Announced
=============================================================================
