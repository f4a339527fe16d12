--------------------------- MODULE MCLedReporting ---------------------------
(***************************************************************************)
(* LedReporting on small instances, for TLC.                               *)
(***************************************************************************)
EXTENDS LedReporting
=============================================================================
