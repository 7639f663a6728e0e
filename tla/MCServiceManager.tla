-------------------------- MODULE MCServiceManager ---------------------------
(* Finite instances of ServiceManager for TLC. *)
EXTENDS ServiceManager, TLC

CONSTANTS input1, input2, test1, InputManager, TestService

\* Two runs of the input manager's process, and one of the test service's.
MCNameOf ==
  [s \in Services |-> IF s = test1 THEN TestService ELSE InputManager]

\* The first run of the input manager registers again; or every service does.
MCAdds == [s \in Services |-> IF s = input1 THEN 2 ELSE 1]
MCTwo == [s \in Services |-> 2]
=============================================================================
