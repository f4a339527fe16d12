--------------------------- MODULE MCProvisioning ---------------------------
(***************************************************************************)
(* Provisioning on small instances, for TLC.                               *)
(***************************************************************************)
EXTENDS Provisioning
=============================================================================
