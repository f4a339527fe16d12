---------------------------- MODULE MCSntpClient ----------------------------
(***************************************************************************)
(* SntpClient on small instances, for TLC.                                 *)
(***************************************************************************)
EXTENDS SntpClient
=============================================================================
