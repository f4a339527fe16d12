------------------------- MODULE MCSampleEventLoop -------------------------
(***************************************************************************)
(* SampleEventLoop on small instances, for TLC.                            *)
(***************************************************************************)
EXTENDS SampleEventLoop
=============================================================================
