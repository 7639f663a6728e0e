--------------------------- MODULE ServiceRegistry ---------------------------
(***************************************************************************)
(* What the service manager promises to the processes that register and    *)
(* look up services (include/frameworks/ServiceManager.h): one table from  *)
(* names to services.  A service asks for its name and gets it or is       *)
(* refused; a name is taken away only from a service that has died or      *)
(* because another registration of the same name is on its way; a lookup   *)
(* is answered with what the table holds.                                  *)
(*                                                                         *)
(* ServiceManager!Registry maps svclist and the kernel's references onto   *)
(* these variables.                                                        *)
(***************************************************************************)
CONSTANTS
  Services,           \* the service objects that processes register
  Names,              \* the names they register under
  Clients,            \* the threads that look names up
  NameOf,             \* the name of each service
  NoService, NoName

VARIABLES
  alive,              \* the services whose process has not died
  pending,            \* registrations asked for and not yet decided
  registered,         \* the service each name stands for
  asked,              \* the name each client waits for
  answer              \* the last answer to each client

srVars == <<alive, pending, registered, asked, answer>>

SRInit ==
  /\ alive = Services
  /\ pending = {}
  /\ registered = [n \in Names |-> NoService]
  /\ asked = [c \in Clients |-> NoName]
  /\ answer = [c \in Clients |-> NoService]

AskToRegister(s) ==
  /\ s \in alive
  /\ pending' = pending \cup {s}
  /\ UNCHANGED <<alive, registered, asked, answer>>

Refuse(s) ==
  /\ s \in pending
  /\ pending' = pending \ {s}
  /\ UNCHANGED <<alive, registered, asked, answer>>

Register(s) ==
  /\ s \in pending
  /\ pending' = pending \ {s}
  /\ registered' = [registered EXCEPT ![NameOf[s]] = s]
  /\ UNCHANGED <<alive, asked, answer>>

Withdraw(n) ==
  /\ registered[n] # NoService
  /\ \/ registered[n] \notin alive
     \/ \E s \in pending : NameOf[s] = n
  /\ registered' = [registered EXCEPT ![n] = NoService]
  /\ UNCHANGED <<alive, pending, asked, answer>>

Die(s) ==
  /\ alive' = alive \ {s}
  /\ UNCHANGED <<pending, registered, asked, answer>>

Ask(c, n) ==
  /\ asked[c] = NoName
  /\ asked' = [asked EXCEPT ![c] = n]
  /\ UNCHANGED <<alive, pending, registered, answer>>

Answer(c) ==
  /\ asked[c] # NoName
  /\ asked' = [asked EXCEPT ![c] = NoName]
  /\ answer' = [answer EXCEPT ![c] = registered[asked[c]]]
  /\ UNCHANGED <<alive, pending, registered>>

SRNext ==
  \/ \E s \in Services :
       AskToRegister(s) \/ Refuse(s) \/ Register(s) \/ Die(s)
  \/ \E n \in Names : Withdraw(n)
  \/ \E c \in Clients : Answer(c) \/ \E n \in Names : Ask(c, n)

SRSpec == SRInit /\ [][SRNext]_srVars
=============================================================================
