--------------------------- MODULE MCInputManager ----------------------------
(* Finite instances of InputManager for TLC. *)
EXTENDS InputManager, TLC

CONSTANTS c1, c2, d1, d2, e1, e2, touch, key

\* A touch and a press of a key.
MCTypeOf == [e \in Events |-> IF e = e1 THEN {touch} ELSE {key}]
MCMasks == {{touch}, {touch, key}}

\* Processes are alike to every property, and so are descriptors.
Symmetry == Permutations(Clients) \cup Permutations(Descs)
=============================================================================
