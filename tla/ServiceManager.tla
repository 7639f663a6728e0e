--------------------------- MODULE ServiceManager ----------------------------
(***************************************************************************)
(* The service manager of frameworks/servicemanager/ServiceManager.cpp:    *)
(* the list svclist, and the loopers (threads in binderLoop) that carry    *)
(* out addService, getService and serviceManagerbinderDeath on it without  *)
(* a lock.  packages/servicemanager allows the kernel to ask for four      *)
(* loopers besides the first.                                              *)
(*                                                                         *)
(* External, modelled from how Binder.cpp uses it: the binder driver.  It  *)
(* gives a service a handle when the service is sent to the manager (the   *)
(* lowest number that is free), counts the strong references to each       *)
(* handle, keeps one death notification for each, forgets a handle at the  *)
(* last release, and queues transactions and deaths for the loopers.       *)
(*                                                                         *)
(* Handle 0 is the service manager itself.  A looper's step ends where     *)
(* another looper may see the list or the driver differ.                   *)
(*                                                                         *)
(* A service registers under one name, as every service of the tree does   *)
(* (it passes its class's serviceName to addService).  The name comes from *)
(* the message, so that one object could be registered under two: its      *)
(* entries would share a handle and its one death notification, and the    *)
(* second would never be withdrawn.  That is left out.                     *)
(***************************************************************************)
EXTENDS Integers, Sequences, FiniteSets, SequencesExt

CONSTANTS
  Services,     \* service objects, one for each run of a service's process
  Clients,      \* threads that call getService
  Names,
  NameOf,       \* the one name that each service registers under
  Loopers,      \* threads in binderLoop or binder_thread_loop
  Entries,      \* struct svcinfo's that malloc can return
  NoService, NoName, NoEntry,
  MaxAdds,      \* bound: addService calls of each service
  MaxGets       \* bound: getService calls of each client

ASSUME NamesOK ==
  /\ NameOf \in [Services -> Names]
  /\ NoService \notin Services /\ NoName \notin Names /\ NoEntry \notin Entries
ASSUME FiniteOK == IsFiniteSet(Services) /\ IsFiniteSet(Entries)
ASSUME BoundsOK == MaxAdds \in [Services -> Nat] /\ MaxGets \in Nat

Handles == 1 .. Cardinality(Services)

VARIABLES
  svclist,      \* the entries reachable from the head, in the order of next
  next,         \* the entries that follow each entry
  name,         \* svcinfo::name, NoName before it is allocated
  handle,       \* svcinfo::handle
  pc, job, si,  \* of each looper: where it is, its work, its svcinfo
  node,         \* driver: the service each handle stands for
  strong,       \* driver: strong references to each handle
  death,        \* driver: cookie of each handle's death notification
  todo,         \* driver: transactions and deaths not yet given to a looper
  alive,        \* services whose process runs
  asked,        \* the name each client waits for
  answer,       \* the service behind each client's last answer
  adds, gets    \* calls made so far

listVars == <<svclist, next, name, handle>>
looperVars == <<pc, job, si>>
driverVars == <<node, strong, death, todo>>
clientVars == <<alive, asked, answer, adds, gets>>
vars == <<listVars, looperVars, driverVars, clientVars>>

\* Work for a looper.  An "add" is accepted when the message holds a name of
\* 1 to 127 bytes, a reference and strict_policy 0; the buffer of an "add"
\* holds a reference to its handle until it is freed.
AddJob(s, h, ok) == [kind |-> "add", from |-> s, handle |-> h, ok |-> ok]
GetJob(c) == [kind |-> "get", from |-> c, handle |-> 0, ok |-> TRUE]
DeathJob(h, e) == [kind |-> "death", from |-> e, handle |-> h, ok |-> TRUE]
NoJob == [kind |-> "none", from |-> NoService, handle |-> 0, ok |-> TRUE]

Jobs == {todo[k] : k \in DOMAIN todo} \cup {job[l] : l \in Loopers}
Calling(p) == \E j \in Jobs : j.kind \in {"add", "get"} /\ j.from = p

Init ==
  /\ svclist = <<>>
  /\ next = [e \in Entries |-> <<>>]
  /\ name = [e \in Entries |-> NoName]
  /\ handle = [e \in Entries |-> 0]
  /\ pc = [l \in Loopers |-> "idle"]
  /\ job = [l \in Loopers |-> NoJob]
  /\ si = [l \in Loopers |-> NoEntry]
  /\ node = [h \in Handles |-> NoService]
  /\ strong = [h \in Handles |-> 0]
  /\ death = [h \in Handles |-> NoEntry]
  /\ todo = <<>>
  /\ alive = Services
  /\ asked = [c \in Clients |-> NoName]
  /\ answer = [c \in Clients |-> NoService]
  /\ adds = [s \in Services |-> 0]
  /\ gets = [c \in Clients |-> 0]
-----------------------------------------------------------------------------
(* The driver.  Each operator says what a command does to driverVars.      *)

HandleFor(s) ==
  IF \E h \in Handles : node[h] = s
  THEN CHOOSE h \in Handles : node[h] = s
  ELSE CHOOSE h \in Handles :
         /\ node[h] = NoService
         /\ \A k \in Handles : node[k] = NoService => h <= k

\* A command on a number that is no handle is refused.
BC_ACQUIRE(h) ==
  /\ strong' = IF node[h] = NoService THEN strong
               ELSE [strong EXCEPT ![h] = @ + 1]
  /\ UNCHANGED <<node, death, todo>>

\* Where in todo the death of a handle is told: at one place, if any.
DeathsOf(h) == {k \in DOMAIN todo : todo[k].kind = "death" /\ todo[k].handle = h}

\* At the last reference the handle is forgotten, and with it its death
\* notification, queued or not.
BC_RELEASE(h) ==
  IF node[h] = NoService
  THEN UNCHANGED driverVars
  ELSE IF strong[h] > 1
  THEN /\ strong' = [strong EXCEPT ![h] = @ - 1]
       /\ UNCHANGED <<node, death, todo>>
  ELSE /\ strong' = [strong EXCEPT ![h] = 0]
       /\ node' = [node EXCEPT ![h] = NoService]
       /\ death' = [death EXCEPT ![h] = NoEntry]
       /\ todo' = IF DeathsOf(h) = {} THEN todo
                  ELSE RemoveAt(todo, CHOOSE k \in DeathsOf(h) : TRUE)

\* A second request for one handle is refused; a request on a service that
\* has died is answered before any other work.
BC_REQUEST_DEATH_NOTIFICATION(h, e) ==
  /\ IF node[h] = NoService \/ death[h] # NoEntry
     THEN UNCHANGED <<death, todo>>
     ELSE /\ death' = [death EXCEPT ![h] = e]
          /\ todo' = IF node[h] \in alive THEN todo
                     ELSE <<DeathJob(h, e)>> \o todo
  /\ UNCHANGED <<node, strong>>
-----------------------------------------------------------------------------
(* The processes that use the service manager.                             *)

CallAddService(s) ==
  /\ s \in alive
  /\ ~Calling(s)
  /\ adds[s] < MaxAdds[s]
  /\ adds' = [adds EXCEPT ![s] = @ + 1]
  /\ LET h == HandleFor(s) IN
       /\ node' = [node EXCEPT ![h] = s]
       /\ strong' = [strong EXCEPT ![h] = @ + 1]
       /\ \E ok \in BOOLEAN : todo' = Append(todo, AddJob(s, h, ok))
  /\ UNCHANGED <<listVars, looperVars, death, alive, asked, answer, gets>>

CallGetService(c) ==
  /\ ~Calling(c)
  /\ gets[c] < MaxGets
  /\ gets' = [gets EXCEPT ![c] = @ + 1]
  /\ \E n \in Names : asked' = [asked EXCEPT ![c] = n]
  /\ todo' = Append(todo, GetJob(c))
  /\ UNCHANGED <<listVars, looperVars, node, strong, death, alive, answer,
                 adds>>

\* The driver tells the loopers of the death of the services they asked about.
Die(s) ==
  /\ s \in alive
  /\ alive' = alive \ {s}
  /\ LET told == {h \in Handles : node[h] = s /\ death[h] # NoEntry} IN
       todo' = IF told = {} THEN todo
               ELSE LET h == CHOOSE h \in told : TRUE
                    IN  Append(todo, DeathJob(h, death[h]))
  /\ UNCHANGED <<listVars, looperVars, node, strong, death, asked, answer,
                 adds, gets>>
-----------------------------------------------------------------------------
(* A looper takes work: binderParse on BR_TRANSACTION or BR_DEAD_BINDER.   *)

Goto(l, there) == pc' = [pc EXCEPT ![l] = there]

\* BR_DEAD_BINDER calls serviceManagerbinderDeath with the cookie's svcinfo.
Take(l) ==
  /\ pc[l] = "idle"
  /\ todo # <<>>
  /\ job' = [job EXCEPT ![l] = Head(todo)]
  /\ todo' = Tail(todo)
  /\ IF Head(todo).kind = "death"
     THEN si' = [si EXCEPT ![l] = Head(todo).from] /\ Goto(l, "test")
     ELSE UNCHANGED si /\ Goto(l, "find")
  /\ UNCHANGED <<listVars, node, strong, death, clientVars>>

Finish(l) ==
  /\ Goto(l, "idle")
  /\ job' = [job EXCEPT ![l] = NoJob]
  /\ si' = [si EXCEPT ![l] = NoEntry]

Wanted(l) ==
  IF job[l].kind = "add" THEN NameOf[job[l].from] ELSE asked[job[l].from]

\* Variant: the names are not compared.
find_svc_First(n) == IF svclist = <<>> THEN NoEntry ELSE svclist[1]

find_svc(n) ==
  IF \E k \in DOMAIN svclist : name[svclist[k]] = n
  THEN svclist[CHOOSE k \in DOMAIN svclist :
                 /\ name[svclist[k]] = n
                 /\ \A m \in 1 .. k - 1 : name[svclist[m]] # n]
  ELSE NoEntry

\* Variant: the error ends the looper, as one that binderParse returned would.
RefuseAdd_Ends(l) ==
  /\ pc[l] = "find"
  /\ ~job[l].ok
  /\ Goto(l, "ended")
  /\ UNCHANGED <<listVars, job, si, driverVars, clientVars>>

\* onTransact and addService return -1 before they touch the list.
RefuseAdd(l) ==
  /\ pc[l] = "find"
  /\ ~job[l].ok
  /\ Goto(l, "reply")
  /\ UNCHANGED <<listVars, job, si, driverVars, clientVars>>

Find(l) ==
  /\ pc[l] = "find"
  /\ job[l].ok
  /\ LET e == find_svc(Wanted(l)) IN
       /\ si' = [si EXCEPT ![l] = e]
       /\ IF job[l].kind = "add"
          THEN Goto(l, IF e = NoEntry THEN "alloc" ELSE "test")
          ELSE Goto(l, IF e = NoEntry THEN "reply" ELSE "read")
  /\ UNCHANGED <<listVars, job, driverVars, clientVars>>
-----------------------------------------------------------------------------
(* serviceManagerbinderDeath, on a death or for an addService that         *)
(* overrides the entry it has found.                                       *)

TestHandle(l) ==
  /\ pc[l] = "test"
  /\ IF handle[si[l]] # 0
     THEN Goto(l, "release") /\ UNCHANGED <<job, si>>
     ELSE IF job[l].kind = "add"
     THEN Goto(l, "set") /\ UNCHANGED <<job, si>>
     ELSE Finish(l)
  /\ UNCHANGED <<listVars, driverVars, clientVars>>

\* Variant: the old handle is overwritten and never released.
ReleaseHandle_Skip(l) ==
  /\ pc[l] = "release"
  /\ Goto(l, "clear")
  /\ UNCHANGED <<listVars, job, si, driverVars, clientVars>>

\* The handle is read again for the call; 0 is not one the driver knows here.
ReleaseHandle(l) ==
  /\ pc[l] = "release"
  /\ IF handle[si[l]] # 0 THEN BC_RELEASE(handle[si[l]])
                          ELSE UNCHANGED driverVars
  /\ Goto(l, "clear")
  /\ UNCHANGED <<listVars, job, si, clientVars>>

\* Variant: the entry keeps the handle it has released.
ClearHandle_Keep(l) ==
  /\ pc[l] = "clear"
  /\ IF job[l].kind = "add" THEN Goto(l, "set") /\ UNCHANGED <<job, si>>
                            ELSE Finish(l)
  /\ UNCHANGED <<listVars, driverVars, clientVars>>

ClearHandle(l) ==
  /\ pc[l] = "clear"
  /\ handle' = [handle EXCEPT ![si[l]] = 0]
  /\ IF job[l].kind = "add" THEN Goto(l, "set") /\ UNCHANGED <<job, si>>
                            ELSE Finish(l)
  /\ UNCHANGED <<svclist, next, name, driverVars, clientVars>>
-----------------------------------------------------------------------------
(* The rest of addService.                                                 *)

SetHandle(l) ==
  /\ pc[l] = "set"
  /\ handle' = [handle EXCEPT ![si[l]] = job[l].handle]
  /\ Goto(l, "acquire")
  /\ UNCHANGED <<svclist, next, name, job, si, driverVars, clientVars>>

\* malloc, the fields of the new svcinfo, and its next.
Allocate(l) ==
  /\ pc[l] = "alloc"
  /\ \E e \in {f \in Entries : name[f] = NoName} :
       /\ si' = [si EXCEPT ![l] = e]
       /\ name' = [name EXCEPT ![e] = Wanted(l)]
       /\ handle' = [handle EXCEPT ![e] = job[l].handle]
       /\ next' = [next EXCEPT ![e] = svclist]
  /\ Goto(l, "insert")
  /\ UNCHANGED <<svclist, job, driverVars, clientVars>>

OutOfMemory(l) ==
  /\ pc[l] = "alloc"
  /\ job' = [job EXCEPT ![l].ok = FALSE]
  /\ Goto(l, "reply")
  /\ UNCHANGED <<listVars, si, driverVars, clientVars>>

\* Variant: the new entry does not lead to the old ones.
Insert_Alone(l) ==
  /\ pc[l] = "insert"
  /\ svclist' = <<si[l]>>
  /\ Goto(l, "acquire")
  /\ UNCHANGED <<next, name, handle, job, si, driverVars, clientVars>>

Insert(l) ==
  /\ pc[l] = "insert"
  /\ svclist' = <<si[l]>> \o next[si[l]]
  /\ Goto(l, "acquire")
  /\ UNCHANGED <<next, name, handle, job, si, driverVars, clientVars>>

\* Variant: the reference of the message is all the manager has.
Acquire_Skip(l) ==
  /\ pc[l] = "acquire"
  /\ Goto(l, "link")
  /\ UNCHANGED <<listVars, job, si, driverVars, clientVars>>

Acquire(l) ==
  /\ pc[l] = "acquire"
  /\ BC_ACQUIRE(job[l].handle)
  /\ Goto(l, "link")
  /\ UNCHANGED <<listVars, job, si, clientVars>>

\* Variant: nobody asks to be told of the service's death.
LinkToDeath_Skip(l) ==
  /\ pc[l] = "link"
  /\ Goto(l, "reply")
  /\ UNCHANGED <<listVars, job, si, driverVars, clientVars>>

LinkToDeath(l) ==
  /\ pc[l] = "link"
  /\ BC_REQUEST_DEATH_NOTIFICATION(job[l].handle, si[l])
  /\ Goto(l, "reply")
  /\ UNCHANGED <<listVars, job, si, clientVars>>
-----------------------------------------------------------------------------
(* getService and the replies.                                             *)

ReadHandle(l) ==
  /\ pc[l] = "read"
  /\ job' = [job EXCEPT ![l].handle = handle[si[l]]]
  /\ Goto(l, "reply")
  /\ UNCHANGED <<listVars, si, driverVars, clientVars>>

\* binderSendReply frees the transaction's buffer, and with it its reference.
ReplyToAdd(l) ==
  /\ pc[l] = "reply"
  /\ job[l].kind = "add"
  /\ BC_RELEASE(job[l].handle)
  /\ Finish(l)
  /\ UNCHANGED <<listVars, clientVars>>

\* A lookup that finds nothing is answered with no reference, and one whose
\* handle the driver has forgotten fails; the client gets no service in either.
ReplyToGet(l) ==
  /\ pc[l] = "reply"
  /\ job[l].kind = "get"
  /\ LET c == job[l].from
         h == job[l].handle IN
       /\ answer' = [answer EXCEPT ![c] = IF h = 0 THEN NoService ELSE node[h]]
       /\ asked' = [asked EXCEPT ![c] = NoName]
  /\ Finish(l)
  /\ UNCHANGED <<listVars, driverVars, alive, adds, gets>>
-----------------------------------------------------------------------------
LooperStep(l) ==
  \/ Take(l) \/ RefuseAdd(l) \/ Find(l)
  \/ TestHandle(l) \/ ReleaseHandle(l) \/ ClearHandle(l)
  \/ SetHandle(l) \/ Allocate(l) \/ OutOfMemory(l) \/ Insert(l)
  \/ Acquire(l) \/ LinkToDeath(l)
  \/ ReadHandle(l) \/ ReplyToAdd(l) \/ ReplyToGet(l)

Next ==
  \/ \E s \in Services : CallAddService(s) \/ Die(s)
  \/ \E c \in Clients : CallGetService(c)
  \/ \E l \in Loopers : LooperStep(l)

Spec == Init /\ [][Next]_vars
-----------------------------------------------------------------------------
(* Properties. *)

Listed == {svclist[k] : k \in DOMAIN svclist}
Queued == {k \in DOMAIN todo : todo[k].kind = "add"}
AtRest == \A l \in Loopers : pc[l] = "idle"

\* A service that registers again gets the entry it had: "next time this
\* service registers no memory need be allocated", says the comment on
\* serviceManagerbinderDeath.  With two loopers the code refutes it.
OneEntryPerName ==
  \A e, f \in Entries : (name[e] = name[f] /\ name[e] # NoName) => e = f

\* No reference is leaked and none is released twice: between two pieces of
\* work the driver counts, for every handle, one reference for the entry that
\* holds it and one for each registration that is still queued.
ReferencesBalance ==
  AtRest =>
    \A h \in Handles :
      strong[h] = Cardinality({e \in Entries : handle[e] = h})
                  + Cardinality({k \in Queued : todo[k].handle = h})

\* A handle in the list is one the driver knows, and stands for a service
\* that asked for the entry's name: never for another that was given the
\* number after a release.
HandlesAreOurs ==
  AtRest =>
    \A e \in Listed : handle[e] # 0 =>
      /\ node[handle[e]] # NoService
      /\ NameOf[node[handle[e]]] = name[e]

\* Whatever is registered will be withdrawn when it dies: its death
\* notification leads back to the very entry, and is queued if it is dead.
DeathIsArmed ==
  AtRest =>
    \A e \in Listed : handle[e] # 0 =>
      /\ death[handle[e]] = e
      /\ node[handle[e]] \notin alive =>
           \E k \in DOMAIN todo : todo[k] = DeathJob(handle[e], e)

\* The service a name stands for.  A handle that has been released, and is
\* about to be cleared, no longer counts.
Held(n) == {e \in Listed : /\ name[e] = n
                           /\ handle[e] # 0
                           /\ \A l \in Loopers : ~(pc[l] = "clear" /\ si[l] = e)}
Holder(n) == IF Held(n) = {} THEN NoService
             ELSE node[handle[CHOOSE e \in Held(n) : TRUE]]

\* Registrations asked for and neither refused nor in the list.
Deciding == {l \in Loopers :
               /\ job[l].kind = "add"
               /\ pc[l] \in {"find", "test", "release", "clear", "set", "alloc",
                             "insert"}}
\* Seen from the processes, the list is one table from names to services: a
\* live service keeps its name until another registration takes it, the death
\* of the service that had the name before never does, and a lookup is
\* answered with the service that has the name, not with another that was
\* given its handle.
Registry == INSTANCE ServiceRegistry WITH
  pending <- {todo[k].from : k \in Queued} \cup {job[l].from : l \in Deciding},
  registered <- [n \in Names |-> Holder(n)]
ImplementsServiceRegistry == Registry!SRSpec

Idle == AtRest /\ todo = <<>>
NothingIsLeft ==
  /\ \A p \in Services \cup Clients : ~Calling(p)
  /\ \A c \in Clients : asked[c] = NoName
  /\ \A n \in Names : Holder(n) \in alive \cup {NoService}

\* Where no looper can go on, none is in the middle of something and there is
\* nothing left to do: no work lies in the driver, no process waits for an
\* answer, and no name is held by a service that has died, not even one that
\* died before its registration was carried out.
NobodyIsForgotten ==
  (\A l \in Loopers : ~ENABLED LooperStep(l)) => Idle /\ NothingIsLeft
=============================================================================
