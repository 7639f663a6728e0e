----------------------------- MODULE RemoteCall ------------------------------
(***************************************************************************)
(* What a process may expect of binderCall (include/binder/Binder.h:       *)
(* "initiate a blocking binder call, returns zero on success"): the call   *)
(* is carried out at most once, and only while its caller waits for it;    *)
(* when it succeeds it has been carried out; when it fails it may or may   *)
(* not have been, and never is afterwards.                                 *)
(***************************************************************************)
EXTENDS Naturals

CONSTANT Callers

VARIABLES
  phase,        \* of each caller's last call: "idle" once it has returned
  runs,         \* how often that call has been carried out
  outcome       \* what it returned: "none", "ok", "failed"

rcVars == <<phase, runs, outcome>>

RCInit ==
  /\ phase = [c \in Callers |-> "idle"]
  /\ runs = [c \in Callers |-> 0]
  /\ outcome = [c \in Callers |-> "none"]

Invoke(c) ==
  /\ phase[c] = "idle"
  /\ phase' = [phase EXCEPT ![c] = "called"]
  /\ runs' = [runs EXCEPT ![c] = 0]
  /\ outcome' = [outcome EXCEPT ![c] = "none"]

Execute(c) ==
  /\ phase[c] = "called"
  /\ runs[c] = 0
  /\ runs' = [runs EXCEPT ![c] = 1]
  /\ UNCHANGED <<phase, outcome>>

Succeed(c) ==
  /\ phase[c] = "called"
  /\ runs[c] = 1
  /\ phase' = [phase EXCEPT ![c] = "idle"]
  /\ outcome' = [outcome EXCEPT ![c] = "ok"]
  /\ UNCHANGED runs

Fail(c) ==
  /\ phase[c] = "called"
  /\ phase' = [phase EXCEPT ![c] = "idle"]
  /\ outcome' = [outcome EXCEPT ![c] = "failed"]
  /\ UNCHANGED runs

RCNext ==
  \E c \in Callers : Invoke(c) \/ Execute(c) \/ Succeed(c) \/ Fail(c)

RCSpec == RCInit /\ [][RCNext]_rcVars
=============================================================================
