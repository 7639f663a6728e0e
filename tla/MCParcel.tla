------------------------------ MODULE MCParcel -------------------------------
(* Finite instances of Parcel for TLC. *)
EXTENDS Parcel, TLC
=============================================================================
