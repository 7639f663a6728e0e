---------------------------- MODULE MCInputReader ----------------------------
(* Finite instances of InputReader for TLC. *)
EXTENDS InputReader, TLC
=============================================================================
