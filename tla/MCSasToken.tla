----------------------------- MODULE MCSasToken -----------------------------
(***************************************************************************)
(* SasToken with the sizes of the program, for TLC.                        *)
(***************************************************************************)
EXTENDS SasToken

\* Keys of lengths on both sides of a block and of every remainder modulo three;
\* the bytes of a key are the multiples of 37 or of 255, modulo 256.
MCKeys ==
  {[i \in 1..n |-> (i * s) % 256] : n \in {1, 2, 3, 32, 63, 64, 65, 66}, s \in {37, 255}}
=============================================================================
