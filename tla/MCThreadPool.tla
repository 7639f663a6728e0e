---------------------------- MODULE MCThreadPool -----------------------------
(* Finite instances of ThreadPool for TLC. *)
EXTENDS ThreadPool

CONSTANTS w1, w2, s1, t1, t2, t3
=============================================================================
