--------------------------- MODULE DpsMqtt_proofs ---------------------------
(***************************************************************************)
(* Theorems about DpsMqtt, for any identities, attempts and failures.      *)
(***************************************************************************)
EXTENDS DpsMqtt, TLAPS

USE DEF HubCalls

\* The steps at which no DPS client is connected and nothing of it is left over.
Quiet == {"idle", "failed", "flags", "client", "notify", "token", "login", "dns", "connect",
          "hubClient", "hubNotify", "hubLostNotify", "created"}

QuietInv == step \in Quiet => mqtt = "idle" /\ inbox = <<>> /\ client # "connected"

\* The flags are gone before the client is disconnected.
FlagsInv ==
  step \in {"idle", "failed", "disconnect", "deleteClient", "created"} \cup HubCalls
    => flags # "live"

ClientInv == step = "failed" => client = "none"

\* What can be read in names, if anything, is what was assigned in this attempt.
Assigned(ns) == \A n \in Fields : ns[n] \in {"none", assigned}

\* So it is in the answers that wait and in the buffers.
AnswerInv ==
  /\ \A i \in 1..Len(inbox) : Assigned(inbox[i].names)
  /\ Assigned(names)

\* The flag stands for an answer that was taken: no name is missing without reason.
SuccessInv ==
  /\ events # {} \/ result = "registered"
       => \A n \in Fields : names[n] # "none" \/ n \in unread
  /\ step \in HubCalls \cup {"created"} => result = "registered"

Inv == TypeOK /\ QuietInv /\ FlagsInv /\ ClientInv /\ AnswerInv /\ SuccessInv /\ IdentityStays

USE DEF Inv, TypeOK, QuietInv, Quiet, FlagsInv, ClientInv, Assigned, AnswerInv, SuccessInv,
        IdentityStays, NextCall, Fault, NoFault, countVars, appVars, serviceVars

\* Names are a function of the two fields.
LEMMA NamesAre ==
  /\ NoNames \in Names
  /\ \A n \in Fields : NoNames[n] = "none"
  /\ \A ns \in Names, n \in Fields : ns[n] \in Identities \cup {"none"}
BY DEF NoNames, Names

\* The service starts disconnected, with nothing requested.
LEMMA InvInit == Init => Inv
BY NamesAre, IdentitiesAssumption, BoundsAssumption DEF Init

\* The application thread's steps.
LEMMA CreateKeepsInv == Inv /\ Create => Inv'
<1> SUFFICES ASSUME Inv, Create PROVE Inv'
  OBVIOUS
<1> USE IdentitiesAssumption, BoundsAssumption
<1>1. CASE CallSucceeds
  BY <1>1 DEF CallSucceeds
<1>2. CASE FlagsFail
  BY <1>2 DEF FlagsFail
<1>3. CASE CreateFails
  BY <1>3 DEF CreateFails
<1>4. CASE RegisterFails
  BY <1>4 DEF RegisterFails
<1>5. CASE Publish
  BY <1>5 DEF Publish, mqtt_publish
<1>6. CASE Registered
  BY <1>6 DEF Registered
<1>7. CASE TimeOut
  BY <1>7 DEF TimeOut
<1>8. CASE DeleteFlags
  BY <1>8 DEF DeleteFlags
<1>9. CASE Disconnect
  BY <1>9 DEF Disconnect
<1>10. CASE DeleteClient
  BY <1>10 DEF DeleteClient
<1>11. QED
  BY <1>1, <1>2, <1>3, <1>4, <1>5, <1>6, <1>7, <1>8, <1>9, <1>10 DEF Create

\* Taking an answer leaves a queue of answers of this attempt.
LEMMA TakeKeepsAnswers ==
  ASSUME Inv, NEW status, Take(status), UNCHANGED assigned
  PROVE  /\ inbox' \in Seq(Answers)
         /\ (\A i \in 1..Len(inbox) : Assigned(inbox[i].names))'
         /\ Head(inbox) \in Answers
         /\ Assigned(Head(inbox).names)
         /\ step \notin Quiet
<1>1. /\ inbox' = Tail(inbox)
      /\ inbox # <<>>
      /\ Head(inbox) = inbox[1]
  BY DEF Take
<1>2. /\ Len(inbox) \in Nat \ {0}
      /\ inbox' \in Seq(Answers)
      /\ Len(inbox') = Len(inbox) - 1
      /\ \A i \in 1..Len(inbox') : inbox'[i] = inbox[i + 1]
  BY <1>1
<1>3. (\A i \in 1..Len(inbox) : Assigned(inbox[i].names))'
  BY <1>2
<1>4. QED
  BY <1>1, <1>2, <1>3

\* What the callback does, whichever message it is given.
LEMMA NotifyKeepsInv == Inv /\ mqtt_notify_cb => Inv'
<1> SUFFICES ASSUME Inv, mqtt_notify_cb PROVE Inv'
  OBVIOUS
<1> USE IdentitiesAssumption, BoundsAssumption
<1>1. CASE process_retry
  BY <1>1, TakeKeepsAnswers DEF process_retry, Take
<1>2. CASE Poll
  BY <1>2 DEF Poll, mqtt_publish
<1>3. CASE process_success
  <2> DEFINE found == Head(inbox).names
  <2>1. /\ Take("success")
        /\ names' = [n \in Fields |-> IF found[n] = "none" THEN names[n] ELSE found[n]]
        /\ unread' = unread \cup {n \in Fields : found[n] = "none"}
        /\ SetSuccess
        /\ UNCHANGED <<appVars, mqtt, serviceVars>>
    BY <1>3 DEF process_success
  <2>2. found \in Names /\ Assigned(found)
    BY <2>1, TakeKeepsAnswers DEF Answers
  <2>3. /\ inbox' \in Seq(Answers)
        /\ (\A i \in 1..Len(inbox) : Assigned(inbox[i].names))'
        /\ step \notin Quiet
    BY <2>1, TakeKeepsAnswers
  <2> HIDE DEF found
  <2>4. \A n \in Fields : names'[n] = IF found[n] = "none" THEN names[n] ELSE found[n]
    BY <2>1
  <2>5. names' \in Names /\ unread' \subseteq Fields
    BY <2>1, <2>2, NamesAre DEF Names
  <2>6. Assigned(names)'
    BY <2>1, <2>2, <2>4
  <2>7. \A n \in Fields : names'[n] # "none" \/ n \in unread'
    BY <2>1, <2>4
  <2>8. QED
    BY <2>1, <2>3, <2>5, <2>6, <2>7 DEF Take, SetSuccess
<1>4. CASE IgnoreAnswer
  BY <1>4, TakeKeepsAnswers DEF IgnoreAnswer, Take
<1>5. QED
  BY <1>1, <1>2, <1>3, <1>4 DEF mqtt_notify_cb

\* The service's answers bear what it assigned in this attempt.
LEMMA ServiceKeepsInv == Inv /\ ServiceAnswers => Inv'
<1> SUFFICES ASSUME Inv, ServiceAnswers PROVE Inv'
  OBVIOUS
<1> USE IdentitiesAssumption, BoundsAssumption
<1>1. /\ assigned' \in Identities \cup {"none"}
      /\ assigned # "none" => assigned' = assigned
      /\ requests' \in Nat
      /\ step \notin Quiet
  BY DEF ServiceAnswers
<1>2. \/ UNCHANGED inbox
      \/ \E status \in {"success", "retry", "retryUnknown", "error"}, readable \in SUBSET Fields :
           Answer(status, readable)
  BY DEF ServiceAnswers
<1>3. Assigned(names)' /\ \A i \in 1..Len(inbox) : \A n \in Fields : inbox[i].names[n] \in {"none", assigned'}
  BY <1>1 DEF ServiceAnswers
<1>4. UNCHANGED inbox => Inv'
  BY <1>1, <1>3 DEF ServiceAnswers
<1>5. ASSUME NEW status \in {"success", "retry", "retryUnknown", "error"},
             NEW readable \in SUBSET Fields,
             Answer(status, readable)
      PROVE  Inv'
  <2> DEFINE given == [n \in Fields |-> IF n \in readable THEN assigned' ELSE "none"]
             answer == [status |-> status, names |-> given]
  <2>1. /\ answer \in Answers
        /\ \A n \in Fields : answer.names[n] \in {"none", assigned'}
        /\ inbox' = Append(inbox, answer)
    BY <1>1, <1>5 DEF Answer, Answers, Names
  <2> HIDE DEF answer
  <2>2. /\ inbox' \in Seq(Answers)
        /\ Len(inbox') = Len(inbox) + 1
        /\ \A i \in 1..Len(inbox) : inbox'[i] = inbox[i]
        /\ inbox'[Len(inbox) + 1] = answer
    BY <2>1
  <2>3. (\A i \in 1..Len(inbox) : Assigned(inbox[i].names))'
    BY <1>3, <2>1, <2>2
  <2>4. QED
    BY <1>1, <1>3, <2>2, <2>3 DEF ServiceAnswers
<1>6. QED
  BY <1>2, <1>4, <1>5

\* The invariant holds in every state of the exchange with the service.
THEOREM Invariance == Spec => []Inv
<1>1. Inv /\ [Next]_vars => Inv'
  <2> SUFFICES ASSUME Inv, [Next]_vars PROVE Inv'
    OBVIOUS
  <2>1. CASE azure_iot_mqtt_create_with_dps
    BY <2>1, NamesAre, IdentitiesAssumption, BoundsAssumption DEF azure_iot_mqtt_create_with_dps
  <2>2. CASE azure_iot_mqtt_delete
    BY <2>2 DEF azure_iot_mqtt_delete
  <2>3. CASE Create
    BY <2>3, CreateKeepsInv
  <2>4. CASE mqtt_notify_cb
    BY <2>4, NotifyKeepsInv
  <2>5. CASE ServiceAnswers
    BY <2>5, ServiceKeepsInv
  <2>6. CASE ConnectionLost
    BY <2>6, BoundsAssumption DEF ConnectionLost
  <2>7. CASE UNCHANGED vars
    BY <2>7 DEF vars
  <2>8. QED
    BY <2>1, <2>2, <2>3, <2>4, <2>5, <2>6, <2>7 DEF Next
<1>2. QED
  BY InvInit, <1>1, PTL DEF Spec

\* Every variable has a value the program can give it.
THEOREM TypeCorrect == Spec => []TypeOK
<1> HIDE DEF TypeOK
<1>1. Inv => TypeOK
  OBVIOUS
<1>2. QED
  BY <1>1, Invariance, PTL

\* The hub client's names are those assigned in this attempt, or missing because an
\* answer that counted as a success was without them.
THEOREM SuccessIsAssignment == Spec => []RegisteredMeansAssigned
<1>1. Inv => RegisteredMeansAssigned
  BY DEF RegisteredMeansAssigned
<1>2. QED
  BY <1>1, Invariance, PTL

\* The identity the hub client was created with is the one in its buffer.
THEOREM IdentityFixed == Spec => []IdentityStays
<1>1. Inv => IdentityStays
  OBVIOUS
<1>2. QED
  BY <1>1, Invariance, PTL

\* A failed creation leaves nothing behind.
THEOREM FailureCleansUp == Spec => []FailedCreateCleansUp
<1>1. Inv => FailedCreateCleansUp
  BY DEF FailedCreateCleansUp
<1>2. QED
  BY <1>1, Invariance, PTL

=============================================================================
