----------------------------- MODULE MCStartup -----------------------------
(***************************************************************************)
(* Startup, with the SNTP client, on small instances, for TLC.             *)
(***************************************************************************)
EXTENDS Startup
=============================================================================
