----------------------------- MODULE BinderCall ------------------------------
(***************************************************************************)
(* Calls between processes through system/binder/Binder.cpp: binderCall    *)
(* and binderDone in a process that calls, binderLoop, binder_thread_loop, *)
(* binderParse and binderSendReply in a process that serves, and the       *)
(* callers of the tree: a service's main, which registers and then loops,  *)
(* and a client, which looks names up (BpServiceManager::getService),      *)
(* calls hello, addListener and delListener on the handles it is given,    *)
(* and releases them.                                                      *)
(*                                                                         *)
(* External, modelled from how Binder.cpp uses it: the binder driver, with *)
(* its work lists, the handle table of each client, the buffers that fit   *)
(* in a process's mapping, and its requests for more loopers.  The list of *)
(* the service manager is entry: module ServiceManager has the list itself *)
(* and what its loopers do to it and to the manager's own references.      *)
(*                                                                         *)
(* A service is one run of its process; a process has one thread that      *)
(* calls.  A step is what one ioctl lets other processes see.              *)
(***************************************************************************)
EXTENDS Integers, Sequences, FiniteSets, SequencesExt

CONSTANTS
  Clients,      \* client processes
  Services,     \* processes that register a service and serve it
  Manager,      \* the service manager, handle 0 in every process
  None,
  NameOf,       \* the name that each service registers
  MaxThreads,   \* BINDER_SET_MAX_THREADS of each server
  Slots,        \* buffers that fit in each process's mapping
  MaxCalls,     \* bound: calls of each client
  Mortal        \* processes that may die of what is not modelled here

Names == {"TestService", "InputManager"}
Callers == Clients \cup Services
Servers == Services \cup {Manager}
Processes == Callers \cup {Manager}

ASSUME ProcessesOK ==
  /\ Manager \notin Callers /\ None \notin Processes
  /\ Clients \cap Services = {} /\ Mortal \subseteq Processes
  /\ IsFiniteSet(Services)
ASSUME ConstantsOK ==
  /\ NameOf \in [Services -> Names]
  /\ MaxThreads \in [Servers -> Nat] /\ Slots \in [Processes -> Nat \ {0}]
  /\ MaxCalls \in [Clients -> Nat]

VARIABLES
  alive,        \* processes that run
  entry,        \* the manager's list: the service under each name
  pc,           \* of each caller: "free", "waiting" in binderCall, "answered"
                \* between its reply and its binderDone, "looping"
  call,         \* its last call
  ran,          \* the processes that carried that call out, in order
  result,       \* what that call returned: "none", "ok", "error", "failed"
  calls,        \* calls of each client so far
  proxy,        \* the handle a client found for each name
  table,        \* driver: the node and strong count of a client's handles
  todo,         \* driver: what a caller's thread will read
  buffers,      \* driver: buffers in use in each process
  queue,        \* driver: calls waiting for a looper of each server
  thread        \* the loopers of each server, 0 the main thread

callerVars == <<pc, call, ran, result, calls, proxy>>
driverVars == <<table, todo, buffers, queue>>
vars == <<alive, entry, callerVars, driverVars, thread>>

Handles == 1 .. Cardinality(Services)
ASSUME NoneIsNoHandle == None \notin Handles
NoRef == [node |-> None, strong |-> 0]
NoProxy == [handle |-> None, found |-> None]
NoCall == [op |-> "none", name |-> "", handle |-> 0, found |-> None]

\* A looper waits in its ioctl, is busy with a call, is done (onTransact has
\* returned) or rests (it has replied).  One that is created has not yet read
\* its BinderThreadDesc; one that is lost was asked for and never registers.
Thread(st, from) ==
  [st |-> st, from |-> from, ref |-> None, status |-> 0]
Looping == Thread("waiting", None)

Init ==
  /\ alive = Processes
  /\ entry = [n \in Names |-> None]
  /\ pc = [c \in Callers |-> "free"]
  /\ call = [c \in Callers |-> NoCall]
  /\ ran = [c \in Callers |-> <<>>]
  /\ result = [c \in Callers |-> "none"]
  /\ calls = [c \in Clients |-> 0]
  /\ proxy = [c \in Clients |-> [n \in Names |-> NoProxy]]
  /\ table = [c \in Callers |-> [h \in Handles |-> NoRef]]
  /\ todo = [c \in Callers |-> <<>>]
  /\ buffers = [p \in Processes |-> 0]
  /\ queue = [p \in Servers |-> <<>>]
  /\ thread = [p \in Servers |-> [i \in 0 .. MaxThreads[p] |->
       IF p = Manager /\ i = 0 THEN Looping ELSE Thread("none", None)]]
-----------------------------------------------------------------------------
(* The driver.                                                             *)

\* A client has a handle for a node while it holds a strong reference: its
\* own (BC_ACQUIRE) or that of a reply it has not freed.  A new handle is the
\* lowest number that is free.
HandleFor(t, s) ==
  IF \E h \in Handles : t[h].node = s
  THEN CHOOSE h \in Handles : t[h].node = s
  ELSE CHOOSE h \in Handles :
         /\ t[h].node = None
         /\ \A k \in Handles : t[k].node = None => h <= k
Referred(t, s) ==
  LET h == HandleFor(t, s)
  IN  [t EXCEPT ![h] = [node |-> s, strong |-> @.strong + 1]]

\* A command on a number that is no handle is refused.
BC_ACQUIRE(t, h) ==
  IF h \in Handles /\ t[h].node # None THEN [t EXCEPT ![h].strong = @ + 1] ELSE t
BC_RELEASE(t, h) ==
  IF h \in Handles /\ t[h].node # None
  THEN [t EXCEPT ![h] = IF @.strong = 1 THEN NoRef
                        ELSE [node |-> @.node, strong |-> @.strong - 1]]
  ELSE t

Return(cmd) == [cmd |-> cmd, handle |-> 0, status |-> 0]
Reply(h, status) == [cmd |-> "BR_REPLY", handle |-> h, status |-> status]

\* The node that a caller's handle stands for.
Target(c, h) ==
  IF h = 0 THEN Manager
  ELSE IF h \in Handles THEN table[c][h].node ELSE None

\* What stops a transaction before it is queued.  A descriptor is refused for
\* a node without FLAT_BINDER_FLAG_ACCEPTS_FDS, which only putObj sets: the
\* manager's node was made by BINDER_SET_CONTEXT_MGR.
Refusal(c, h, op) ==
  LET p == Target(c, h)
  IN  IF p = None THEN "BR_FAILED_REPLY"
      ELSE IF p \notin alive THEN "BR_DEAD_REPLY"
      ELSE IF buffers[p] = Slots[p] \/ (p = Manager /\ op = "addListener")
           THEN "BR_FAILED_REPLY"
      ELSE "none"

BC_TRANSACTION(c, h, op) ==
  LET no == Refusal(c, h, op)
      p == Target(c, h)
  IN  IF no # "none"
      THEN /\ todo' = [todo EXCEPT ![c] = <<Return(no)>>]
           /\ UNCHANGED <<table, buffers, queue>>
      ELSE /\ todo' = [todo EXCEPT ![c] = <<Return("BR_TRANSACTION_COMPLETE")>>]
           /\ buffers' = [buffers EXCEPT ![p] = @ + 1]
           /\ queue' = [queue EXCEPT ![p] = Append(@, c)]
           /\ UNCHANGED table

\* A looper that goes back to wait or comes back with work is asked for
\* another when nobody else waits and the last one asked for has come.
Requested(p) == \E j \in DOMAIN thread[p] : thread[p][j].st \in {"created", "lost"}
Unused(p) == {j \in DOMAIN thread[p] \ {0} : thread[p][j].st = "none"}
BR_SPAWN_LOOPER(p, i) ==
  /\ ~Requested(p) /\ Unused(p) # {}
  /\ \A j \in DOMAIN thread[p] \ {i} : thread[p][j].st # "waiting"

\* All that a process held goes with it; whoever waits for an answer from one
\* of its threads, or in its queue, is told.
WorkOf(p) ==
  IF p \notin Servers THEN {}
  ELSE {queue[p][k] : k \in DOMAIN queue[p]}
       \cup {thread[p][i].from : i \in DOMAIN thread[p]}
Dies(p) ==
  /\ alive' = alive \ {p}
  /\ todo' = [c \in Callers |->
       IF c = p THEN <<>>
       ELSE IF c \in alive \cap WorkOf(p)
       THEN Append(todo[c], Return("BR_DEAD_REPLY")) ELSE todo[c]]
  /\ buffers' = [buffers EXCEPT ![p] = 0]
  /\ queue' = IF p \in Servers THEN [queue EXCEPT ![p] = <<>>] ELSE queue
  /\ thread' = IF p \in Servers
               THEN [thread EXCEPT ![p] = [i \in DOMAIN @ |-> Thread("none", None)]]
               ELSE thread
  /\ UNCHANGED <<entry, callerVars, table>>
Die(p) == p \in Mortal \cap alive /\ Dies(p)
-----------------------------------------------------------------------------
(* The process that calls.                                                 *)

\* binderCall up to its first ioctl: the transaction is written there, and
\* never again (write_consumed says so).
Call(c, op, n, p) ==
  /\ c \in alive
  /\ pc[c] = "free"
  /\ pc' = [pc EXCEPT ![c] = "waiting"]
  /\ call' = [call EXCEPT ![c] =
       [op |-> op, name |-> n, handle |-> p.handle, found |-> p.found]]
  /\ ran' = [ran EXCEPT ![c] = <<>>]
  /\ result' = [result EXCEPT ![c] = "none"]
  /\ BC_TRANSACTION(c, p.handle, op)
  /\ UNCHANGED <<alive, entry, proxy, thread>>

ManagerProxy == [handle |-> 0, found |-> Manager]

\* main of a service, before binderLoop.
AddService(s) ==
  /\ Call(s, "addService", NameOf[s], ManagerProxy)
  /\ UNCHANGED calls

Counted(c) ==
  /\ calls[c] < MaxCalls[c]
  /\ calls' = [calls EXCEPT ![c] = @ + 1]

\* A client looks a name up once and again after it has released the handle.
GetService(c, n) ==
  /\ proxy[c][n] = NoProxy
  /\ Counted(c)
  /\ Call(c, "getService", n, ManagerProxy)

Methods(n) ==
  IF n = "TestService" THEN {"hello"} ELSE {"addListener", "delListener"}
CallMethod(c, n) ==
  /\ proxy[c][n] # NoProxy
  /\ Counted(c)
  /\ \E op \in Methods(n) : Call(c, op, n, proxy[c][n])

\* binderRelease.
Release(c, n) ==
  /\ c \in alive
  /\ pc[c] = "free" /\ proxy[c][n] # NoProxy
  /\ table' = [table EXCEPT ![c] = BC_RELEASE(@, proxy[c][n].handle)]
  /\ proxy' = [proxy EXCEPT ![c][n] = NoProxy]
  /\ UNCHANGED <<alive, entry, pc, call, ran, result, calls, todo, buffers, queue,
                 thread>>

\* The caller's function returns, -1 when binderCall failed; a service goes on
\* to binderLoop whatever addService returned.
Returns(c, r, h) ==
  /\ pc' = [pc EXCEPT ![c] = IF c \in Services THEN "looping" ELSE "free"]
  /\ result' = [result EXCEPT ![c] = r]
  /\ proxy' = IF call[c].op # "getService" THEN proxy
              ELSE [proxy EXCEPT ![c][call[c].name] =
                      [handle |-> h, found |-> Target(c, h)]]
  /\ thread' = IF c \in Services THEN [thread EXCEPT ![c][0] = Looping] ELSE thread

\* One turn of binderCall's loop: the ioctl returns what the thread has to
\* read and binderParse goes through it.  BR_TRANSACTION_COMPLETE alone gives
\* 1: another turn, with nothing left to write.
Waits(c) ==
  c \in alive /\ pc[c] = "waiting" /\ todo[c] # <<>>

\* Variant: write_consumed is set to 0 for each turn, as read_consumed is.
TurnsAgain_WritesAgain(c) ==
  /\ Waits(c) /\ Last(todo[c]).cmd = "BR_TRANSACTION_COMPLETE"
  /\ BC_TRANSACTION(c, call[c].handle, call[c].op)
  /\ UNCHANGED <<alive, entry, callerVars, thread>>
TurnsAgain(c) ==
  /\ Waits(c) /\ Last(todo[c]).cmd = "BR_TRANSACTION_COMPLETE"
  /\ todo' = [todo EXCEPT ![c] = <<>>]
  /\ UNCHANGED <<alive, entry, callerVars, table, buffers, queue, thread>>
HearsReply(c) ==
  /\ Waits(c) /\ Last(todo[c]).cmd = "BR_REPLY"
  /\ pc' = [pc EXCEPT ![c] = "answered"]
  /\ todo' = [todo EXCEPT ![c] = <<Last(@)>>]
  /\ UNCHANGED <<alive, entry, call, ran, result, calls, proxy, table, buffers,
                 queue, thread>>

\* Variant: binderParse leaves r at 1 for BR_DEAD_REPLY.
HearsFailure_DeadIsNothing(c) ==
  /\ Waits(c) /\ Last(todo[c]).cmd \in {"BR_FAILED_REPLY", "BR_DEAD_REPLY"}
  /\ todo' = [todo EXCEPT ![c] = <<>>]
  /\ IF Last(todo[c]).cmd = "BR_DEAD_REPLY"
     THEN UNCHANGED <<pc, result, proxy, thread>>
     ELSE Returns(c, "failed", -1)
  /\ UNCHANGED <<alive, entry, call, ran, calls, table, buffers, queue>>
HearsFailure(c) ==
  /\ Waits(c) /\ Last(todo[c]).cmd \in {"BR_FAILED_REPLY", "BR_DEAD_REPLY"}
  /\ todo' = [todo EXCEPT ![c] = <<>>]
  /\ Returns(c, "failed", -1)
  /\ UNCHANGED <<alive, entry, call, ran, calls, table, buffers, queue>>

\* Variant: binderDone before binderAcquire.
TableAfter_DoneFirst(c, h) ==
  LET t == BC_RELEASE(table[c], h)
  IN  IF call[c].op = "getService" THEN BC_ACQUIRE(t, h) ELSE t

\* What a client's handles are once getService has taken a reference of its own
\* and binderDone has given the buffer's back.
TableAfter(c, h) ==
  BC_RELEASE(IF call[c].op = "getService" THEN BC_ACQUIRE(table[c], h) ELSE table[c], h)

\* Variant: a function returns without binderDone, as hello would with a return
\* before it.
BinderDone_Forgotten(c) ==
  buffers' = IF call[c].op = "hello" THEN buffers ELSE [buffers EXCEPT ![c] = @ - 1]
BinderDone(c) == buffers' = [buffers EXCEPT ![c] = @ - 1]

\* What follows binderCall in getService (getRef, binderAcquire), addService,
\* hello, addListener and delListener (getUint32), up to binderDone.
Finishes(c) ==
  /\ c \in alive /\ pc[c] = "answered"
  /\ LET reply == Head(todo[c]) IN
       /\ table' = [table EXCEPT ![c] = TableAfter(c, reply.handle)]
       /\ Returns(c, IF reply.status = 0 THEN "ok" ELSE "error", reply.handle)
  /\ BinderDone(c)
  /\ todo' = [todo EXCEPT ![c] = <<>>]
  /\ UNCHANGED <<alive, entry, call, ran, calls, queue>>
-----------------------------------------------------------------------------
(* The process that serves.                                                *)

\* A looper's ioctl returns.  When the buffer begins with BR_SPAWN_LOOPER,
\* pthread_create may fail, which nobody looks at.
ComesBack(p, i, t) ==
  IF BR_SPAWN_LOOPER(p, i)
  THEN \E st \in {"created", "lost"} :
         thread' = [thread EXCEPT ![p][i] = t,
                      ![p][CHOOSE j \in Unused(p) : TRUE] = Thread(st, None)]
  ELSE thread' = [thread EXCEPT ![p][i] = t]

TakesCall(p, i) ==
  /\ thread[p][i].st = "waiting" /\ queue[p] # <<>>
  /\ queue' = [queue EXCEPT ![p] = Tail(@)]
  /\ ComesBack(p, i, Thread("busy", Head(queue[p])))
  /\ UNCHANGED <<alive, entry, callerVars, table, todo, buffers>>

\* Variant: find_svc compares no names.
Found_AnyName(n) ==
  IF \E m \in Names : entry[m] # None
  THEN entry[CHOOSE m \in Names : entry[m] # None] ELSE None
Found(n) == entry[n]

\* The answers of onTransact: a service the manager found, or a status.  The
\* manager takes hello's code for that of a lookup, finds nothing under the
\* text and answers 0; delListener's user id is no string: -1.
Answers(p, c) ==
  CASE call[c].op = "getService" -> {[ref |-> Found(call[c].name), status |-> 0]}
    [] call[c].op \in {"addService", "hello", "addListener"} ->
         {[ref |-> None, status |-> 0]}
    [] OTHER -> {[ref |-> None, status |-> st] : st \in
                   IF p = Manager THEN {-1} ELSE {0, -1}}

Transacts(p, i) ==
  LET c == thread[p][i].from
  IN  /\ thread[p][i].st = "busy"
      /\ \E a \in Answers(p, c) :
           thread' = [thread EXCEPT ![p][i] =
             [st |-> "done", from |-> c, ref |-> a.ref, status |-> a.status]]
      /\ ran' = [ran EXCEPT ![c] = Append(@, p)]
      /\ entry' = IF call[c].op = "addService"
                  THEN [entry EXCEPT ![call[c].name] = c] ELSE entry
      /\ UNCHANGED <<alive, pc, call, result, calls, proxy, driverVars>>

\* binderSendReply: BC_FREE_BUFFER and BC_REPLY in one write.  A reply to a
\* process that has died goes nowhere; one that does not fit in the mapping
\* of the caller, or that names a service the manager has let go of since,
\* becomes a failure there.
SendsReply(p, i) ==
  LET w == thread[p][i]
      c == w.from
      heard == c \in alive
      fails == \/ buffers[c] = Slots[c]
               \/ w.ref # None /\ \A n \in Names : entry[n] # w.ref
  IN  /\ w.st = "done"
      /\ thread' = [thread EXCEPT ![p][i] = Thread("rests", None)]
      /\ IF heard /\ ~fails
         THEN /\ buffers' = [buffers EXCEPT ![p] = @ - 1, ![c] = @ + 1]
              /\ table' = IF w.ref = None THEN table
                          ELSE [table EXCEPT ![c] = Referred(@, w.ref)]
              /\ todo' = [todo EXCEPT ![c] = Append(@, Reply(
                   IF w.ref = None THEN 0 ELSE HandleFor(table[c], w.ref), w.status))]
         ELSE /\ buffers' = [buffers EXCEPT ![p] = @ - 1]
              /\ todo' = IF heard
                         THEN [todo EXCEPT ![c] = Append(@, Return("BR_FAILED_REPLY"))]
                         ELSE todo
              /\ UNCHANGED table
      /\ UNCHANGED <<alive, entry, callerVars, queue>>

\* The looper reads the BR_TRANSACTION_COMPLETE of its reply and waits again.
Rests(p, i) ==
  /\ thread[p][i].st = "rests"
  /\ ComesBack(p, i, Looping)
  /\ UNCHANGED <<alive, entry, callerVars, driverVars>>

\* The new looper reads the descriptor on the stack of the thread that made
\* it, which may have left that block: it finds it whole, or a descriptor on
\* which every ioctl fails, or the process crashes.
LooperStarts(p, i) ==
  /\ thread[p][i].st = "created"
  /\ \E t \in {Looping, Thread("lost", None)} :
       thread' = [thread EXCEPT ![p][i] = t]
  /\ UNCHANGED <<alive, entry, callerVars, driverVars>>
LooperCrashes(p, i) == thread[p][i].st = "created" /\ Dies(p)

\* A looper of the manager carries out serviceManagerbinderDeath.
ForgetsDead(n) ==
  /\ Manager \in alive
  /\ entry[n] \notin alive \cup {None}
  /\ entry' = [entry EXCEPT ![n] = None]
  /\ UNCHANGED <<alive, callerVars, driverVars, thread>>
-----------------------------------------------------------------------------
CallerStep(c) == TurnsAgain(c) \/ HearsReply(c) \/ HearsFailure(c) \/ Finishes(c)
LooperStep(p, i) ==
  TakesCall(p, i) \/ Transacts(p, i) \/ SendsReply(p, i) \/ Rests(p, i)

Next ==
  \/ \E s \in Services : AddService(s)
  \/ \E c \in Clients, n \in Names :
       GetService(c, n) \/ CallMethod(c, n) \/ Release(c, n)
  \/ \E c \in Callers : CallerStep(c)
  \/ \E p \in Servers : \E i \in DOMAIN thread[p] :
       LooperStep(p, i) \/ LooperStarts(p, i) \/ LooperCrashes(p, i)
  \/ \E n \in Names : ForgetsDead(n)
  \/ \E p \in Processes : Die(p)

Spec == Init /\ [][Next]_vars

\* A thread that can go on goes on; nobody has to call, and the new loopers
\* need never come.
Fairness ==
  /\ \A c \in Callers : WF_vars(CallerStep(c))
  /\ \A p \in Servers : \A i \in 0 .. MaxThreads[p] : WF_vars(LooperStep(p, i))
LiveSpec == Spec /\ Fairness
-----------------------------------------------------------------------------
(* Properties.                                                             *)

\* A client that is answered was answered by the very process its lookup
\* found, once.  When the lookup found nothing the handle is the manager's
\* own: it carries the call out as one of its own, and hello is told 0.
Answered(c) == result[c] \in {"ok", "error"}
AnsweredByTheService ==
  \A c \in Clients : Answered(c) /\ call[c].op # "none" =>
    /\ ran[c] = <<call[c].found>>
    /\ call[c].found \in Services => NameOf[call[c].found] = call[c].name
    /\ call[c].found = Manager
         => call[c].op = "getService" \/ (result[c] = "ok") = (call[c].op = "hello")

\* A buffer of a process is in use for a call it has not answered, or for an
\* answer it has not freed, and for nothing else.
Unanswered(p) ==
  IF p \notin Servers THEN 0
  ELSE Len(queue[p])
       + Cardinality({i \in DOMAIN thread[p] : thread[p][i].st \in {"busy", "done"}})
Unfreed(p) ==
  IF p \notin Callers THEN 0
  ELSE Cardinality({k \in DOMAIN todo[p] : todo[p][k].cmd = "BR_REPLY"})
BuffersBalance ==
  \A p \in alive : buffers[p] = Unanswered(p) + Unfreed(p)

\* Every handle a live client may use still stands for what its lookup found,
\* and its strong count is one for it and one for a reply not yet freed.
HandlesStand ==
  \A c \in Clients \cap alive : \A h \in Handles :
    LET holders == {n \in Names : proxy[c][n].handle = h}
        replies == {k \in DOMAIN todo[c] : todo[c][k].handle = h}
    IN  /\ table[c][h].strong = Cardinality(holders) + Cardinality(replies)
        /\ \A n \in holders : table[c][h].node = proxy[c][n].found

\* Every call returns, or its process dies, whoever dies and even if no new
\* looper ever comes.
CallsReturn ==
  \A c \in Callers :
    pc[c] \in {"waiting", "answered"} ~>
      c \notin alive \/ pc[c] \notin {"waiting", "answered"}

\* A call is carried out at most once, and only while its caller waits: never
\* after binderCall has returned, whatever it returned.  Every execution counts
\* in ran, from the call to the caller's next one, so RemoteCall sees them all.
Phase(c) == IF pc[c] \in {"waiting", "answered"} THEN "called" ELSE "idle"
Outcome(c) ==
  IF result[c] \in {"ok", "error"} THEN "ok" ELSE result[c]
Abstract == INSTANCE RemoteCall WITH
  phase <- [c \in Callers |-> Phase(c)], runs <- [c \in Callers |-> Len(ran[c])],
  outcome <- [c \in Callers |-> Outcome(c)]
ImplementsRemoteCall == Abstract!RCSpec
=============================================================================
