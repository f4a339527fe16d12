----------------------------- MODULE MCDpsMqtt -----------------------------
(***************************************************************************)
(* DpsMqtt on small instances, for TLC.                                    *)
(***************************************************************************)
EXTENDS DpsMqtt
=============================================================================
