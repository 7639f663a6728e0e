---------------------------- MODULE InputManager -----------------------------
(***************************************************************************)
(* The input manager of frameworks/inputmanager/InputManager.cpp.  Its     *)
(* loopers carry out addListener, delListener and inputBinderDeath on      *)
(* mListenerDescList; the thread of the pool mDispatchthread walks the     *)
(* same list for each event and writes it to the listeners' sockets.       *)
(* Nothing keeps the two apart, nor two loopers.  The walk follows the     *)
(* pointers from one element to the next, and one store of such a pointer  *)
(* puts an element on the list or takes it off: to the walk, what a looper *)
(* does to the list is one step.  What two loopers do to it at a time is   *)
(* undefined (Overlaps).                                                   *)
(*                                                                         *)
(* The pool appears as the TaskQueue that ThreadPool implements: its tasks *)
(* are the events that inputReaderThread reads, and its one thread begins  *)
(* none before it has finished the last.                                   *)
(*                                                                         *)
(* External, modelled from how the code uses them: the binder driver, for  *)
(* which see ServiceManager (a process has one handle here, for it reaches *)
(* the manager through one BpInputManager); and the sockets.               *)
(***************************************************************************)
EXTENDS Integers, Sequences, FiniteSets, SequencesExt

CONSTANTS
  Clients,      \* processes with a BpInputManager
  Descs,        \* bound: as many addListener calls as struct ListenerDesc's
  Events,       \* struct CookEvent's, each read from a device once
  Types,        \* the bits of iType
  TypeOf,       \* the bits of each event
  Masks,        \* the bits that listeners ask for
  Loopers,      \* threads in binderLoop or binder_thread_loop
  NoDesc, NoClient,
  SocketSize,   \* events that a listener's socket holds
  MaxListeners  \* bound: listeners that a process has at a time

ASSUME EventsHaveTypes ==
  TypeOf \in [Events -> SUBSET Types] /\ Masks \subseteq SUBSET Types
ASSUME NothingIsNothing == NoDesc \notin Descs /\ NoClient \notin Clients
ASSUME BoundsOK ==
  IsFiniteSet(Descs) /\ SocketSize \in Nat \ {0} /\ MaxListeners \in Nat

VARIABLES
  mListenerDescList,
  desc,         \* ListenerDesc: "unused", "used" or "freed", with its fields
  strong,       \* driver: strong references to each client's handle
  death,        \* driver: the ListenerDesc behind each handle's cookie
  todo,         \* driver: transactions and deaths not yet given to a looper
  pc, job, it,  \* of each looper: where it is, its work, its ListenerDesc
  m_tasks, running, dispatched,  \* mDispatchthread, as a TaskQueue
  dpc, at,      \* dispatchEvent: where it is, the element its iterator is on
  sent, unread, \* events written to each listener, and how many are unread
  alive,        \* clients whose process runs
  sockets,      \* listeners whose socket the client has open
  adds,         \* addListener calls made so far
  state,        \* of the process: "up", "killed", or "undefined"
  taken,        \* history: events in the order they were read
  missed        \* history: events begun before each listener was pushed

listVars == <<mListenerDescList, desc>>
driverVars == <<strong, death, todo>>
looperVars == <<pc, job, it>>
poolVars == <<m_tasks, running, dispatched>>
walkVars == <<dpc, at, sent>>
clientVars == <<unread, alive, sockets, adds>>
history == <<taken, missed>>
vars == <<listVars, driverVars, looperVars, poolVars, walkVars, clientVars,
          state, history>>

Unused == [mem |-> "unused", client |-> NoClient, uid |-> 0, types |-> {}]

\* Work for a looper.  iUid tells a process's listeners apart; an "add" is
\* accepted when its message holds strict_policy 0 and a reference.
AddJob(c, u, t, ok) == [kind |-> "add", client |-> c, uid |-> u, types |-> t,
                        ok |-> ok, cookie |-> NoDesc]
DelJob(c, u) == [kind |-> "del", client |-> c, uid |-> u, types |-> {},
                 ok |-> TRUE, cookie |-> NoDesc]
DeathJob(c, d) == [kind |-> "death", client |-> c, uid |-> 0, types |-> {},
                   ok |-> TRUE, cookie |-> d]
NoJob == [kind |-> "none", client |-> NoClient, uid |-> 0, types |-> {},
          ok |-> TRUE, cookie |-> NoDesc]

Jobs == {todo[k] : k \in DOMAIN todo} \cup {job[l] : l \in Loopers}
Calling(c) == \E j \in Jobs : j.kind \in {"add", "del"} /\ j.client = c
Listed == {mListenerDescList[k] : k \in DOMAIN mListenerDescList}
Place(d) == CHOOSE k \in DOMAIN mListenerDescList : mListenerDescList[k] = d

\* The pool is never stopped as long as the process runs.
Dispatch == INSTANCE TaskQueue WITH
  Tasks <- Events, queue <- m_tasks, running <- running,
  finished <- dispatched, stopped <- state # "up"

Init ==
  /\ mListenerDescList = <<>>
  /\ desc = [d \in Descs |-> Unused]
  /\ strong = [c \in Clients |-> 0]
  /\ death = [c \in Clients |-> NoDesc]
  /\ todo = <<>>
  /\ pc = [l \in Loopers |-> "idle"]
  /\ job = [l \in Loopers |-> NoJob]
  /\ it = [l \in Loopers |-> NoDesc]
  /\ state = "up"
  /\ Dispatch!TQInit
  /\ dpc = "idle"
  /\ at = NoDesc
  /\ sent = [d \in Descs |-> <<>>]
  /\ unread = [d \in Descs |-> 0]
  /\ alive = Clients
  /\ sockets = {}
  /\ adds = 0
  /\ taken = <<>>
  /\ missed = [d \in Descs |-> {}]
-----------------------------------------------------------------------------
(* The driver, as in ServiceManager.                                       *)

BC_ACQUIRE(c) ==
  /\ strong' = [strong EXCEPT ![c] = @ + 1]
  /\ UNCHANGED <<death, todo>>

\* Where in todo the death of a process is told: at one place, if any.
DeathsOf(c) == {k \in DOMAIN todo : todo[k].kind = "death" /\ todo[k].client = c}

BC_RELEASE(c) ==
  IF strong[c] = 0
  THEN UNCHANGED driverVars
  ELSE /\ strong' = [strong EXCEPT ![c] = @ - 1]
       /\ IF strong[c] > 1
          THEN UNCHANGED <<death, todo>>
          ELSE /\ death' = [death EXCEPT ![c] = NoDesc]
               /\ todo' = IF DeathsOf(c) = {} THEN todo
                          ELSE RemoveAt(todo, CHOOSE k \in DeathsOf(c) : TRUE)

\* A second request for one handle is refused; a request on a process that
\* has died is answered before any other work.
BC_REQUEST_DEATH_NOTIFICATION(c, d) ==
  /\ IF death[c] # NoDesc
     THEN UNCHANGED <<death, todo>>
     ELSE /\ death' = [death EXCEPT ![c] = d]
          /\ todo' = IF c \in alive THEN todo ELSE <<DeathJob(c, d)>> \o todo
  /\ UNCHANGED strong
-----------------------------------------------------------------------------
(* The processes that listen.                                              *)

Mine(c) == {d \in sockets : desc[d].client = c}

\* A listener asks for some kinds of events and passes one end of a socket.
CallAddListener(c) ==
  /\ c \in alive
  /\ ~Calling(c)
  /\ adds < Cardinality(Descs)
  /\ Cardinality(Mine(c)) < MaxListeners
  /\ adds' = adds + 1
  /\ strong' = [strong EXCEPT ![c] = @ + 1]
  /\ \E t \in Masks, ok \in BOOLEAN :
       todo' = Append(todo, AddJob(c, adds + 1, t, ok))
  /\ UNCHANGED <<listVars, death, looperVars, poolVars, walkVars, unread,
                 alive, sockets, state, history>>

CallDelListener(c) ==
  /\ c \in alive
  /\ ~Calling(c)
  /\ \E d \in Mine(c) : todo' = Append(todo, DelJob(c, desc[d].uid))
  /\ UNCHANGED <<listVars, strong, death, looperVars, poolVars, walkVars,
                 clientVars, state, history>>

\* A process closes the socket of a listener once it has deleted it.
CloseSocket(d) ==
  /\ d \in sockets
  /\ desc[d].mem = "freed"
  /\ ~Calling(desc[d].client)
  /\ sockets' = sockets \ {d}
  /\ UNCHANGED <<listVars, driverVars, looperVars, poolVars, walkVars, unread,
                 alive, adds, state, history>>

ReadEvent(d) ==
  /\ d \in sockets
  /\ unread[d] > 0
  /\ unread' = [unread EXCEPT ![d] = @ - 1]
  /\ UNCHANGED <<listVars, driverVars, looperVars, poolVars, walkVars, alive,
                 sockets, adds, state, history>>

Die(c) ==
  /\ c \in alive
  /\ alive' = alive \ {c}
  /\ sockets' = sockets \ Mine(c)
  /\ todo' = IF death[c] = NoDesc THEN todo
             ELSE Append(todo, DeathJob(c, death[c]))
  /\ UNCHANGED <<listVars, strong, death, looperVars, poolVars, walkVars,
                 unread, adds, state, history>>
-----------------------------------------------------------------------------
(* The loopers.                                                            *)

Goto(l, there) == pc' = [pc EXCEPT ![l] = there]

Finish(l) ==
  /\ Goto(l, "idle")
  /\ job' = [job EXCEPT ![l] = NoJob]
  /\ it' = [it EXCEPT ![l] = NoDesc]

\* Memory that has been freed is used, or a list is changed by two threads:
\* nothing is said of what follows.
Undefined ==
  /\ state' = "undefined"
  /\ UNCHANGED <<listVars, driverVars, looperVars, poolVars, walkVars,
                 clientVars, history>>

\* BR_DEAD_BINDER calls through the cookie, which is freed with its listener.
Take(l) ==
  /\ pc[l] = "idle"
  /\ todo # <<>>
  /\ LET j == Head(todo) IN
       IF j.kind = "death" /\ desc[j.cookie].mem = "freed"
       THEN Undefined
       ELSE /\ job' = [job EXCEPT ![l] = j]
            /\ todo' = Tail(todo)
            /\ it' = [it EXCEPT ![l] = j.cookie]
            /\ Goto(l, CASE j.kind = "add" -> "create"
                         [] j.kind = "del" -> "find"
                         [] j.kind = "death" -> "remove")
            /\ UNCHANGED <<listVars, strong, death, poolVars, walkVars,
                           clientVars, state, history>>

\* onTransact answers -1 to a strict_policy, and addListener to handle 0.
RefuseAdd(l) ==
  /\ pc[l] = "create"
  /\ ~job[l].ok
  /\ Goto(l, "reply")
  /\ UNCHANGED <<listVars, driverVars, job, it, poolVars, walkVars, clientVars,
                 state, history>>

Create(l) ==
  /\ pc[l] = "create"
  /\ job[l].ok
  /\ \E d \in {f \in Descs : desc[f].mem = "unused"} :
       /\ it' = [it EXCEPT ![l] = d]
       /\ desc' = [desc EXCEPT ![d] = [mem |-> "used",
                                       client |-> job[l].client,
                                       uid |-> job[l].uid,
                                       types |-> job[l].types]]
       /\ sockets' = IF job[l].client \in alive THEN sockets \cup {d}
                                                ELSE sockets
  /\ Goto(l, "acquire")
  /\ UNCHANGED <<mListenerDescList, driverVars, job, poolVars, walkVars,
                 unread, alive, adds, state, history>>

\* Variant: the reference of the message is all the manager has.
Acquire_Skip(l) ==
  /\ pc[l] = "acquire"
  /\ Goto(l, "link")
  /\ UNCHANGED <<listVars, driverVars, job, it, poolVars, walkVars, clientVars,
                 state, history>>

Acquire(l) ==
  /\ pc[l] = "acquire"
  /\ BC_ACQUIRE(job[l].client)
  /\ Goto(l, "link")
  /\ UNCHANGED <<listVars, job, it, poolVars, walkVars, clientVars, state,
                 history>>

\* Variant: nobody asks to be told of the listener's death.
LinkToDeath_Skip(l) ==
  /\ pc[l] = "link"
  /\ Goto(l, "push")
  /\ UNCHANGED <<listVars, driverVars, job, it, poolVars, walkVars, clientVars,
                 state, history>>

LinkToDeath(l) ==
  /\ pc[l] = "link"
  /\ BC_REQUEST_DEATH_NOTIFICATION(job[l].client, it[l])
  /\ Goto(l, "push")
  /\ UNCHANGED <<listVars, job, it, poolVars, walkVars, clientVars, state,
                 history>>

Push(l) ==
  /\ pc[l] = "push"
  /\ mListenerDescList' = Append(mListenerDescList, it[l])
  /\ missed' = [missed EXCEPT ![it[l]] = running \cup dispatched]
  /\ Goto(l, "reply")
  /\ UNCHANGED <<desc, driverVars, job, it, poolVars, walkVars, clientVars,
                 state, taken>>

\* delListener
Find(l) ==
  /\ pc[l] = "find"
  /\ LET found == {k \in DOMAIN mListenerDescList :
                    LET d == desc[mListenerDescList[k]] IN
                    d.client = job[l].client /\ d.uid = job[l].uid} IN
       IF found = {}
       THEN Goto(l, "reply") /\ UNCHANGED it
       ELSE /\ it' = [it EXCEPT ![l] = mListenerDescList[CHOOSE k \in found :
                                          \A m \in found : k <= m]]
            /\ Goto(l, "remove")
  /\ UNCHANGED <<listVars, driverVars, job, poolVars, walkVars, clientVars,
                 state, history>>

\* Variant: the element stays in the list.
RemoveListener_Skip(l) ==
  /\ pc[l] = "remove"
  /\ Goto(l, "release")
  /\ UNCHANGED <<listVars, driverVars, job, it, poolVars, walkVars, clientVars,
                 state, history>>

\* list::remove, in delListener and in inputBinderDeath: no element is on the
\* list twice.
RemoveListener(l) ==
  /\ pc[l] = "remove"
  /\ mListenerDescList' = IF it[l] \in Listed
                          THEN RemoveAt(mListenerDescList, Place(it[l]))
                          ELSE mListenerDescList
  /\ Goto(l, "release")
  /\ UNCHANGED <<desc, driverVars, job, it, poolVars, walkVars, clientVars,
                 state, history>>

\* delListener goes on to read the listener through the iterator of the element
\* that it has removed: it finds the element as it was, or Misbehaves.
Release(l) ==
  /\ pc[l] = "release"
  /\ IF desc[it[l]].mem = "freed"
     THEN Undefined
     ELSE /\ BC_RELEASE(desc[it[l]].client)
          /\ Goto(l, "free")
          /\ UNCHANGED <<listVars, job, it, poolVars, walkVars, clientVars,
                         state, history>>

Free(l) ==
  /\ pc[l] = "free"
  /\ IF desc[it[l]].mem = "freed"
     THEN Undefined
     ELSE /\ desc' = [desc EXCEPT ![it[l]].mem = "freed"]
          /\ IF job[l].kind = "death" THEN Finish(l)
             ELSE Goto(l, "reply") /\ UNCHANGED <<job, it>>
          /\ UNCHANGED <<mListenerDescList, driverVars, poolVars, walkVars,
                         clientVars, state, history>>

\* binderSendReply; the buffer of an "add" holds a reference to its handle.
Reply(l) ==
  /\ pc[l] = "reply"
  /\ IF job[l].kind = "add" THEN BC_RELEASE(job[l].client)
                            ELSE UNCHANGED driverVars
  /\ Finish(l)
  /\ UNCHANGED <<listVars, poolVars, walkVars, clientVars, state, history>>

\* The iterator of delListener is on an element that has left the list, whose
\* memory any thread may have been given since.  inputBinderDeath has none.
StaleIterator(l) ==
  /\ job[l].kind = "del"
  /\ pc[l] \in {"remove", "release", "free"}
  /\ it[l] \notin Listed

\* Two loopers are at the list at the same time, and not only to read it.
Overlaps(l) ==
  \E k \in Loopers \ {l} :
    /\ {pc[k], pc[l]} \subseteq {"push", "find", "remove"}
    /\ {pc[k], pc[l]} # {"find"}

Misbehaves(l) == (StaleIterator(l) \/ Overlaps(l)) /\ Undefined

LooperStep(l) ==
  \/ Take(l) \/ RefuseAdd(l) \/ Create(l)
  \/ Acquire(l) \/ LinkToDeath(l) \/ Push(l)
  \/ Find(l) \/ RemoveListener(l) \/ Release(l) \/ Free(l) \/ Reply(l)
  \/ Misbehaves(l)
-----------------------------------------------------------------------------
(* inputReaderThread hands each event to mDispatchthread, whose queue has  *)
(* no limit.                                                               *)

ReadOnce(e) ==
  /\ e \notin {taken[k] : k \in DOMAIN taken}
  /\ taken' = Append(taken, e)
  /\ UNCHANGED <<listVars, driverVars, looperVars, walkVars, clientVars, state,
                 missed>>
  /\ Dispatch!Accept(e)
-----------------------------------------------------------------------------
(* dispatchEvent walks the list with an iterator.                          *)

\* The element after d, or NoDesc for end().
After(d) ==
  IF Place(d) = Len(mListenerDescList) THEN NoDesc
  ELSE mListenerDescList[Place(d) + 1]

\* mDispatchthread has one thread.
BeginWalk ==
  /\ running = {}
  /\ at' = IF mListenerDescList = <<>> THEN NoDesc ELSE mListenerDescList[1]
  /\ dpc' = "test"
  /\ UNCHANGED <<listVars, driverVars, looperVars, sent, clientVars, state,
                 history>>
  /\ Dispatch!Begin

CurrentTypes == UNION {TypeOf[e] : e \in running}

TestListener ==
  /\ dpc = "test"
  /\ at # NoDesc
  /\ IF at \notin Listed \/ desc[at].mem = "freed"
     THEN Undefined
     ELSE /\ dpc' = IF desc[at].types \cap CurrentTypes # {} THEN "write"
                                                            ELSE "next"
          /\ UNCHANGED <<listVars, driverVars, looperVars, poolVars, at, sent,
                         clientVars, state, history>>

\* Variant: a socket that does not block, and an event that is lost.
WriteEvent_Drops ==
  /\ dpc = "write"
  /\ at \in sockets
  /\ IF unread[at] < SocketSize
     THEN /\ \E e \in running : sent' = [sent EXCEPT ![at] = Append(@, e)]
          /\ unread' = [unread EXCEPT ![at] = @ + 1]
     ELSE UNCHANGED <<sent, unread>>
  /\ dpc' = "next"
  /\ UNCHANGED <<listVars, driverVars, looperVars, poolVars, at, alive,
                 sockets, adds, state, history>>

\* write() waits for room in the socket.
WriteEvent ==
  /\ dpc = "write"
  /\ at \in sockets
  /\ unread[at] < SocketSize
  /\ \E e \in running : sent' = [sent EXCEPT ![at] = Append(@, e)]
  /\ unread' = [unread EXCEPT ![at] = @ + 1]
  /\ dpc' = "next"
  /\ UNCHANGED <<listVars, driverVars, looperVars, poolVars, at, alive,
                 sockets, adds, state, history>>

\* Nobody ignores the SIGPIPE of a socket whose other end is closed.
WriteKills ==
  /\ dpc = "write"
  /\ at \notin sockets
  /\ state' = "killed"
  /\ UNCHANGED <<listVars, driverVars, looperVars, poolVars, walkVars,
                 clientVars, history>>

\* The descriptor is read through the iterator: before the element under it was
\* removed, which is WriteEvent, or after.
StaleWrite ==
  /\ dpc = "write"
  /\ at \notin Listed
  /\ Undefined

NextListener ==
  /\ dpc = "next"
  /\ IF at \notin Listed
     THEN Undefined
     ELSE /\ at' = After(at)
          /\ dpc' = "test"
          /\ UNCHANGED <<listVars, driverVars, looperVars, poolVars, sent,
                         clientVars, state, history>>

EndWalk ==
  /\ dpc = "test"
  /\ at = NoDesc
  /\ dpc' = "idle"
  /\ UNCHANGED <<listVars, driverVars, looperVars, at, sent, clientVars, state,
                 history>>
  /\ \E e \in running : Dispatch!Finish(e)

DispatchStep ==
  \/ BeginWalk \/ TestListener \/ WriteEvent \/ WriteKills \/ StaleWrite
  \/ NextListener \/ EndWalk
-----------------------------------------------------------------------------
Next ==
  /\ state = "up"
  /\ \/ \E c \in Clients : CallAddListener(c) \/ CallDelListener(c) \/ Die(c)
     \/ \E d \in Descs : ReadEvent(d) \/ CloseSocket(d)
     \/ \E l \in Loopers : LooperStep(l)
     \/ \E e \in Events : ReadOnce(e)
     \/ DispatchStep

Spec == Init /\ [][Next]_vars
-----------------------------------------------------------------------------
(* Properties. *)

AtRest == \A l \in Loopers : pc[l] = "idle"

Heard(d) == {sent[d][k] : k \in DOMAIN sent[d]}

\* Event e was read before event f; no event is read twice.
Before(e, f) ==
  \E m, n \in DOMAIN taken : m < n /\ taken[m] = e /\ taken[n] = f

\* A listener hears of every event of its types, once and in the order in
\* which they were read, whatever listeners come and go while the list is
\* walked, as long as nothing undefined happens: all that began after it was
\* pushed, and at most one before that.
ListenersHearAll ==
  (running = {} /\ state = "up") =>
    \A d \in Listed :
      /\ Heard(d) \ missed[d] =
           {e \in dispatched \ missed[d] : TypeOf[e] \cap desc[d].types # {}}
      /\ \A e, f \in Heard(d) \cap missed[d] : e = f
      /\ \A j, k \in DOMAIN sent[d] : j < k => Before(sent[d][j], sent[d][k])

\* Between two pieces of work the driver counts, for every process, one
\* reference for each of its listeners and one for each of its addListener
\* calls that are still queued.
ReferencesBalance ==
  AtRest =>
    \A c \in Clients :
      strong[c] =
        Cardinality({d \in Listed : desc[d].client = c})
        + Cardinality({k \in DOMAIN todo : todo[k].kind = "add"
                                          /\ todo[k].client = c})

\* With one listener to a process, its death leads back to the listener and
\* is queued if it has died; and no cookie leads to memory that was freed.
DeathIsArmed ==
  (MaxListeners = 1 /\ AtRest) =>
    /\ \A d \in Listed :
         LET c == desc[d].client IN
         /\ death[c] = d
         /\ c \notin alive => DeathJob(c, d) \in Jobs
    /\ \A c \in Clients : death[c] # NoDesc => desc[death[c]].mem = "used"

\* With one looper and one listener to a process, memory that has been freed is
\* used through an iterator only, that of the walk or that of delListener, on
\* an element that has left the list (InputManager.cpp:58, 89).  No cookie and
\* no element of the list leads to a listener that deletion and death, in
\* whatever order they come, have freed.
OnlyIteratorsDangle ==
  [][(state' = "undefined" /\ MaxListeners = 1)
       => \/ running # {} /\ at \notin Listed
          \/ \E l \in Loopers : StaleIterator(l)]_vars

Idle == AtRest /\ todo = <<>> /\ m_tasks = <<>> /\ running = {}
NothingIsLeft ==
  /\ \A k \in DOMAIN taken : taken[k] \in dispatched
  /\ \A c \in Clients : ~Calling(c)
  /\ MaxListeners = 1 => \A d \in Listed : desc[d].client \in alive

\* Where no thread of the input manager can go on, and the listeners have read
\* all that was written to them, no thread is in the middle of something and
\* there is nothing left to do: every event that was read is dispatched, every
\* call is answered, and with one listener to a process no listener of a
\* process that has died is on the list.
Stopped == ~ENABLED DispatchStep /\ \A l \in Loopers : ~ENABLED LooperStep(l)
NobodyIsForgotten ==
  (state = "up" /\ Stopped /\ \A d \in sockets : unread[d] = 0) =>
    Idle /\ NothingIsLeft
=============================================================================
