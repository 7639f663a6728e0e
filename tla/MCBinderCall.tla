---------------------------- MODULE MCBinderCall -----------------------------
(* A finite instance of BinderCall for TLC: a client, two services and the *)
(* service manager.                                                        *)
EXTENDS BinderCall

CONSTANTS client, test, input, manager

MCNameOf == [s \in Services |-> IF s = test THEN "TestService" ELSE "InputManager"]
MCMaxThreads == [p \in Servers |-> IF p = test THEN 1 ELSE 0]
MCSlots == [p \in Processes |-> IF p = manager THEN 2 ELSE 1]
MCMaxCalls == [c \in Clients |-> 3]
=============================================================================
