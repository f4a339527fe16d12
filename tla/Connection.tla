----------------------------- MODULE Connection -----------------------------
(***************************************************************************)
(* What the main loop promises about the connection, with its flags, its   *)
(* callbacks and its back-off left out: the device's view of the           *)
(* connection follows the connection.  The view may lag behind, since the  *)
(* loop hears of every change by a notification, but never so far that the *)
(* loop takes a pending attempt for a connection, abandons a connection    *)
(* that is open, or opens a second one over it.                            *)
(***************************************************************************)
VARIABLES
  view, \* what the loop believes: "off", "trying" or "on"
  link  \* the connection: "down", "connecting" or "up"

vars == <<view, link>>

Init == view = "off" /\ link = "down"

\* A connect call opens the connection at once, or reports it as pending.
Connect ==
  /\ view = "off"
  /\ link = "down"
  /\ \/ view' = "on" /\ link' = "up"
     \/ view' = "trying" /\ link' = "connecting"

Open ==
  /\ link = "connecting"
  /\ link' = "up"
  /\ UNCHANGED view

Lose ==
  /\ link # "down"
  /\ link' = "down"
  /\ UNCHANGED view

\* The loop hears that the connection was opened, perhaps after its end.
NoticeOpened ==
  /\ view = "trying"
  /\ link # "connecting"
  /\ view' = "on"
  /\ UNCHANGED link

\* The loop hears that the attempt, or the connection, has ended.
NoticeEnded ==
  /\ view # "off"
  /\ link = "down"
  /\ view' = "off"
  /\ UNCHANGED link

Next == Connect \/ Open \/ Lose \/ NoticeOpened \/ NoticeEnded

Spec == Init /\ [][Next]_vars

\* A pending attempt ends, and its end, like that of a connection, is noticed.
Settle == link = "connecting" /\ (Open \/ Lose)

FairSpec == Spec /\ WF_vars(Settle) /\ WF_vars(NoticeEnded)

=============================================================================
