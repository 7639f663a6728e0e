---------------------------- MODULE MCEventDevice ----------------------------
(* Finite instances of EventDevice for TLC. *)
EXTENDS EventDevice, TLC
=============================================================================
