-------------------------- MODULE BinderCallProofs ---------------------------
(***************************************************************************)
(* The proof that calls through the binder are what RemoteCall says.       *)
(*                                                                         *)
(* A call that waits is in one place at most: in the queue of one server,  *)
(* or with one of its loopers.  It leaves that place for good before its   *)
(* caller reads how it ended, so that nothing of it is left to meet the    *)
(* caller's next call.                                                     *)
(*                                                                         *)
(* Then the proofs that the binder's accounts are right: a buffer for      *)
(* every call and every reply (BuffersBalance), a strong count for every   *)
(* handle that a client may use (HandlesStand), and an answer from the     *)
(* very service that was looked up (AnsweredByTheService).                 *)
(***************************************************************************)
EXTENDS BinderCall, FiniteSetTheorems, WellFoundedInduction, TLAPS

TypeOK ==
  /\ pc \in [Callers -> {"free", "waiting", "answered", "looping"}]
  /\ ran \in [Callers -> Seq(Servers)]
  /\ result \in [Callers -> {"none", "ok", "error", "failed"}]
  /\ queue \in [Servers -> Seq(Callers)]
  /\ DOMAIN todo = Callers
  /\ DOMAIN thread = Servers
  /\ \A p \in Servers : DOMAIN thread[p] = 0 .. MaxThreads[p]

\* A caller reads from a sequence.
TodoIsSeq == \A c \in Callers : \E S : todo[c] \in Seq(S)

\* A looper has a caller while it works on a call, and only then.
AtWork == {"busy", "done"}
LoopersWork ==
  \A p \in Servers : \A i \in DOMAIN thread[p] :
    IF thread[p][i].st \in AtWork THEN thread[p][i].from \in Callers
                                  ELSE thread[p][i].from = None

\* A call is in one place at most.
OneQueue ==
  \A p, q \in Servers : \A k \in DOMAIN queue[p], j \in DOMAIN queue[q] :
    queue[p][k] = queue[q][j] => p = q /\ k = j
QueueOrLooper ==
  \A p, q \in Servers : \A k \in DOMAIN queue[p], i \in DOMAIN thread[q] :
    queue[p][k] # thread[q][i].from
OneLooper ==
  \A p, q \in Servers : \A i \in DOMAIN thread[p], j \in DOMAIN thread[q] :
    thread[p][i].from = thread[q][j].from /\ thread[p][i].from # None
      => p = q /\ i = j

\* Its caller waits, and it has been carried out when its looper is done.
QueuedWait ==
  \A p \in Servers : \A k \in DOMAIN queue[p] :
    pc[queue[p][k]] = "waiting" /\ ran[queue[p][k]] = <<>>
WorkedOnWait ==
  \A p \in Servers : \A i \in DOMAIN thread[p] :
    thread[p][i].st \in AtWork =>
      /\ pc[thread[p][i].from] = "waiting"
      /\ (ran[thread[p][i].from] = <<>>) <=> (thread[p][i].st = "busy")

Placed(c) ==
  \/ \E p \in Servers : \E k \in DOMAIN queue[p] : queue[p][k] = c
  \/ \E p \in Servers : \E i \in DOMAIN thread[p] : thread[p][i].from = c

\* A caller that has an end to read has no call in any place, and has been
\* served if that end is a reply.
Ended(c) == todo[c] # <<>> /\ Last(todo[c]).cmd # "BR_TRANSACTION_COMPLETE"
EndedLeft == \A c \in Callers : Ended(c) => ~Placed(c)
RepliedRan ==
  \A c \in Callers :
    (pc[c] = "answered" \/ (Ended(c) /\ Last(todo[c]).cmd = "BR_REPLY"))
      => ran[c] # <<>>

Places ==
  /\ LoopersWork
  /\ OneQueue /\ QueueOrLooper /\ OneLooper
  /\ QueuedWait /\ WorkedOnWait

IInv == TypeOK /\ TodoIsSeq /\ Places /\ EndedLeft /\ RepliedRan
-----------------------------------------------------------------------------
\* Who is who among the processes.
LEMMA ServersAre == Services \subseteq Callers /\ Services \subseteq Servers
                    /\ Clients \subseteq Callers /\ None \notin Callers
BY ProcessesOK DEF Callers, Servers, Processes

\* What is appended to a sequence is its last element.
LEMMA Appended ==
  ASSUME NEW S, NEW s \in Seq(S), NEW e
  PROVE  /\ \E T : Append(s, e) \in Seq(T)
         /\ Append(s, e) # <<>>
         /\ Last(Append(s, e)) = e
<1>1. s \in Seq(S \cup {e})
  OBVIOUS
<1>2. /\ Append(s, e) \in Seq(S \cup {e})
      /\ Append(s, e) # <<>>
      /\ Len(Append(s, e)) = Len(s) + 1
      /\ Append(s, e)[Len(s) + 1] = e
  BY <1>1
<1>3. QED
  BY <1>2 DEF Last

\* A sequence of one element ends with it.
LEMMA OneElement ==
  ASSUME NEW e
  PROVE  /\ \E T : <<e>> \in Seq(T)
         /\ <<e>> # <<>> /\ Last(<<e>>) = e
<1>1. <<e>> \in Seq({e}) /\ Len(<<e>>) = 1 /\ <<e>>[1] = e
  OBVIOUS
<1>2. QED
  BY <1>1 DEF Last

\* A caller whose call is in some place waits.
LEMMA PlacedWaits ==
  ASSUME TypeOK, Places, NEW c \in Callers, Placed(c)
  PROVE  pc[c] = "waiting"
<1> USE ServersAre DEF TypeOK, Places, Placed
<1>1. CASE \E p \in Servers : \E k \in DOMAIN queue[p] : queue[p][k] = c
  BY <1>1 DEF QueuedWait
<1>2. CASE \E p \in Servers : \E i \in DOMAIN thread[p] : thread[p][i].from = c
  BY <1>2 DEF LoopersWork, WorkedOnWait
<1>3. QED
  BY <1>1, <1>2

\* Places stay in order when some are given up, and nothing is written of a
\* caller that has one.
LEMMA FewerPlaces ==
  ASSUME TypeOK, TypeOK', Places,
         \A p \in Servers : queue'[p] \in {queue[p], <<>>},
         \A p \in Servers : \A i \in DOMAIN thread[p] :
           \/ thread'[p][i] = thread[p][i]
           \/ thread'[p][i].from = None /\ thread'[p][i].st \notin AtWork,
         \A c \in Callers : Placed(c) => pc'[c] = pc[c] /\ ran'[c] = ran[c]
  PROVE  Places' /\ \A c \in Callers : Placed(c)' => Placed(c)
<1> USE ServersAre DEF TypeOK, Places
<1>1. \A p \in Servers : \A k \in DOMAIN queue'[p] :
        k \in DOMAIN queue[p] /\ queue'[p][k] = queue[p][k]
  OBVIOUS
<1>2. \A p \in Servers : DOMAIN thread'[p] = DOMAIN thread[p]
  OBVIOUS
<1>0. \A p \in Servers : \A k \in DOMAIN queue[p] : queue[p][k] \in Callers
  OBVIOUS
<1>3. \A c \in Callers : Placed(c)' => Placed(c)
  <2> SUFFICES ASSUME NEW c \in Callers, Placed(c)'
               PROVE  Placed(c)
    OBVIOUS
  <2>1. CASE \E p \in Servers : \E k \in DOMAIN queue'[p] : queue'[p][k] = c
    BY <2>1, <1>1 DEF Placed
  <2>2. CASE \E p \in Servers : \E i \in DOMAIN thread'[p] : thread'[p][i].from = c
    <3>1. PICK p \in Servers :
            \E i \in DOMAIN thread'[p] : thread'[p][i].from = c
      BY <2>2
    <3>2. PICK i \in DOMAIN thread[p] : thread'[p][i].from = c
      BY <1>2, <3>1
    <3>3. thread[p][i].from = c
      BY <3>2
    <3>4. QED
      BY <3>3 DEF Placed
  <2>3. QED
    BY <2>1, <2>2 DEF Placed
<1>4. LoopersWork'
  BY <1>2 DEF LoopersWork
<1>5. OneQueue'
  BY <1>1 DEF OneQueue
<1>6. QueueOrLooper'
  <2> SUFFICES ASSUME NEW p \in Servers, NEW q \in Servers,
                      NEW k \in DOMAIN queue'[p], NEW i \in DOMAIN thread'[q]
               PROVE  queue'[p][k] # thread'[q][i].from
    BY DEF QueueOrLooper
  <2>1. queue[p][k] # thread[q][i].from /\ queue[p][k] # None
    BY <1>0, <1>1, <1>2 DEF QueueOrLooper
  <2>2. QED
    BY <2>1, <1>1, <1>2
<1>7. OneLooper'
  BY <1>2 DEF OneLooper
<1>8. QueuedWait'
  BY <1>1 DEF QueuedWait, Placed
<1>9. WorkedOnWait'
  BY <1>2, <1>4 DEF WorkedOnWait, Placed, LoopersWork
<1>10. QED
  BY <1>3, <1>4, <1>5, <1>6, <1>7, <1>8, <1>9

\* What callers are told stays right when they are told no more, and none is
\* given a place.
LEMMA QuietCallers ==
  ASSUME TypeOK, TypeOK', TodoIsSeq, EndedLeft, RepliedRan,
         \A c \in Callers : Placed(c)' => Placed(c),
         \A c \in Callers : todo'[c] \in {todo[c], <<>>},
         \A c \in Callers : pc'[c] \in {pc[c], "free", "waiting", "looping"},
         \A c \in Callers : ran'[c] = ran[c] \/ ran'[c] # <<>>
  PROVE  TodoIsSeq' /\ EndedLeft' /\ RepliedRan'
<1>1. TodoIsSeq'
  <2> SUFFICES ASSUME NEW c \in Callers
               PROVE  \E S : todo'[c] \in Seq(S)
    BY DEF TodoIsSeq
  <2>1. PICK S : todo[c] \in Seq(S)
    BY DEF TodoIsSeq
  <2>2. <<>> \in Seq(S)
    OBVIOUS
  <2>3. todo'[c] \in Seq(S)
    BY <2>1, <2>2
  <2>4. QED
    BY <2>3
<1>2. \A c \in Callers : Ended(c)' => Ended(c) /\ todo'[c] = todo[c]
  BY DEF Ended
<1>3. EndedLeft'
  BY <1>2 DEF EndedLeft
<1>4. RepliedRan'
  BY <1>2 DEF RepliedRan
<1>5. QED
  BY <1>1, <1>3, <1>4

\* A looper that comes back leaves the others their work.
LEMMA ComesBackKeeps ==
  ASSUME TypeOK, LoopersWork, NEW p \in Servers, NEW i \in DOMAIN thread[p],
         NEW t, ComesBack(p, i, t), thread[p][i].st # "none"
  PROVE  /\ DOMAIN thread' = Servers
         /\ \A q \in Servers : DOMAIN thread'[q] = 0 .. MaxThreads[q]
         /\ thread'[p][i] = t
         /\ \A q \in Servers : \A j \in DOMAIN thread[q] :
              \/ q = p /\ j = i
              \/ thread'[q][j] = thread[q][j]
              \/ thread'[q][j].from = None /\ thread'[q][j].st \notin AtWork
<1> USE DEF TypeOK
<1>1. CASE BR_SPAWN_LOOPER(p, i)
  <2> DEFINE n == CHOOSE j \in Unused(p) : TRUE
  <2>1. n \in Unused(p)
    BY <1>1 DEF BR_SPAWN_LOOPER
  <2>2. n \in DOMAIN thread[p] /\ n # i
    BY <2>1 DEF Unused
  <2>3. PICK st \in {"created", "lost"} :
          thread' = [thread EXCEPT ![p][i] = t, ![p][n] = Thread(st, None)]
    BY <1>1 DEF ComesBack
  <2> HIDE DEF n
  <2>4. thread'[p][n] = Thread(st, None)
    BY <2>2, <2>3
  <2>5. thread'[p][n].from = None /\ thread'[p][n].st \notin AtWork
    BY <2>4 DEF Thread, AtWork
  <2>6. \A q \in Servers : \A j \in DOMAIN thread[q] :
          (q # p \/ j # n) =>
            thread'[q][j] = (IF q = p /\ j = i THEN t ELSE thread[q][j])
    BY <2>2, <2>3
  <2>7. /\ DOMAIN thread' = Servers
        /\ \A q \in Servers : DOMAIN thread'[q] = DOMAIN thread[q]
    BY <2>3
  <2>8. QED
    BY <2>2, <2>5, <2>6, <2>7
<1>2. CASE ~BR_SPAWN_LOOPER(p, i)
  <2>1. thread' = [thread EXCEPT ![p][i] = t]
    BY <1>2 DEF ComesBack
  <2>2. QED
    BY <2>1
<1>3. QED
  BY <1>1, <1>2
-----------------------------------------------------------------------------
(* One lemma for each step.                                                *)

\* At the start no call is anywhere.
LEMMA InitKeeps == Init => IInv
<1> SUFFICES ASSUME Init
             PROVE  IInv
  OBVIOUS
<1> USE ServersAre, ConstantsOK DEF Init
<1>1. TypeOK
  BY DEF TypeOK
<1>2. TodoIsSeq
  BY DEF TodoIsSeq
<1>3. \A p \in Servers : \A i \in DOMAIN thread[p] :
        thread[p][i].from = None /\ thread[p][i].st \notin AtWork
  BY DEF Looping, Thread, AtWork
<1>4. Places
  BY <1>3 DEF Places, LoopersWork, OneQueue, QueueOrLooper, OneLooper, QueuedWait,
              WorkedOnWait
<1>5. EndedLeft /\ RepliedRan
  BY DEF EndedLeft, RepliedRan, Ended
<1>6. QED
  BY <1>1, <1>2, <1>4, <1>5 DEF IInv

\* Steps that leave the callers' variables, what they read and the queues.
LEMMA LooperKeeps ==
  ASSUME IInv, TypeOK', UNCHANGED <<pc, ran, todo, queue>>,
         \A p \in Servers : \A i \in DOMAIN thread[p] :
           \/ thread'[p][i] = thread[p][i]
           \/ thread'[p][i].from = None /\ thread'[p][i].st \notin AtWork
  PROVE  IInv'
<1>1. Places' /\ \A c \in Callers : Placed(c)' => Placed(c)
  BY FewerPlaces DEF IInv
<1>2. TodoIsSeq' /\ EndedLeft' /\ RepliedRan'
  BY <1>1, QuietCallers DEF IInv
<1>3. QED
  BY <1>1, <1>2 DEF IInv

\* A looper that goes back to wait, and one that begins.
LEMMA RestsKeeps ==
  ASSUME IInv, NEW p \in Servers, NEW i \in DOMAIN thread[p], Rests(p, i)
  PROVE  IInv'
<1>1. /\ DOMAIN thread' = Servers
      /\ \A q \in Servers : DOMAIN thread'[q] = 0 .. MaxThreads[q]
      /\ thread'[p][i] = Looping
      /\ \A q \in Servers : \A j \in DOMAIN thread[q] :
           \/ q = p /\ j = i
           \/ thread'[q][j] = thread[q][j]
           \/ thread'[q][j].from = None /\ thread'[q][j].st \notin AtWork
  BY ComesBackKeeps DEF Rests, IInv, Places
<1>2. Looping.from = None /\ Looping.st \notin AtWork
  BY DEF Looping, Thread, AtWork
<1>3. TypeOK'
  BY <1>1 DEF TypeOK, IInv, Rests, callerVars, driverVars
<1>4. QED
  BY <1>1, <1>2, <1>3, LooperKeeps DEF Rests, callerVars, driverVars

\* A looper that starts keeps the invariant.
LEMMA LooperStartsKeeps ==
  ASSUME IInv, NEW p \in Servers, NEW i \in DOMAIN thread[p], LooperStarts(p, i)
  PROVE  IInv'
<1>1. PICK t \in {Looping, Thread("lost", None)} :
        thread' = [thread EXCEPT ![p][i] = t]
  BY DEF LooperStarts
<1>2. t.from = None /\ t.st \notin AtWork
  BY DEF Looping, Thread, AtWork
<1>3. TypeOK'
  BY <1>1 DEF TypeOK, IInv, LooperStarts, callerVars, driverVars
<1>4. \A q \in Servers : \A j \in DOMAIN thread[q] :
        thread'[q][j] = (IF q = p /\ j = i THEN t ELSE thread[q][j])
  BY <1>1 DEF TypeOK, IInv
<1>5. QED
  BY <1>2, <1>3, <1>4, LooperKeeps DEF LooperStarts, callerVars, driverVars

\* A function that returns makes a looper at most.
LEMMA ReturnsKeeps ==
  ASSUME TypeOK, LoopersWork, NEW c \in Callers, NEW r, NEW h, Returns(c, r, h),
         r \in {"ok", "error", "failed"}
  PROVE  /\ pc' \in [Callers -> {"free", "waiting", "answered", "looping"}]
         /\ result' \in [Callers -> {"none", "ok", "error", "failed"}]
         /\ DOMAIN thread' = Servers
         /\ \A p \in Servers : DOMAIN thread'[p] = 0 .. MaxThreads[p]
         /\ pc'[c] \in {"free", "looping"}
         /\ \A d \in Callers : d # c => pc'[d] = pc[d]
         /\ \A p \in Servers : \A i \in DOMAIN thread[p] :
              \/ thread'[p][i] = thread[p][i]
              \/ thread'[p][i].from = None /\ thread'[p][i].st \notin AtWork
<1>1. /\ pc' \in [Callers -> {"free", "waiting", "answered", "looping"}]
      /\ result' \in [Callers -> {"none", "ok", "error", "failed"}]
      /\ pc'[c] \in {"free", "looping"}
      /\ \A d \in Callers : d # c => pc'[d] = pc[d]
  BY DEF Returns, TypeOK
<1>2. Looping.from = None /\ Looping.st \notin AtWork
  BY DEF Looping, Thread, AtWork
<1>3. CASE c \in Services
  <2>1. thread' = [thread EXCEPT ![c][0] = Looping]
    BY <1>3 DEF Returns
  <2>2. /\ DOMAIN thread' = Servers
        /\ \A p \in Servers : DOMAIN thread'[p] = 0 .. MaxThreads[p]
        /\ \A p \in Servers : \A i \in DOMAIN thread[p] :
             thread'[p][i] \in {thread[p][i], Looping}
    BY <2>1 DEF TypeOK
  <2>3. QED
    BY <1>1, <1>2, <2>2
<1>4. CASE c \notin Services
  BY <1>1, <1>4 DEF Returns, TypeOK
<1>5. QED
  BY <1>3, <1>4

\* The turns of binderCall's loop.
LEMMA TurnsAgainKeeps ==
  ASSUME IInv, NEW c \in Callers, TurnsAgain(c)
  PROVE  IInv'
<1> USE DEF TurnsAgain, callerVars
<1>1. TypeOK'
  BY DEF TypeOK, IInv
<1>2. Places' /\ \A d \in Callers : Placed(d)' => Placed(d)
  BY <1>1, FewerPlaces DEF IInv
<1>3. \A d \in Callers : todo'[d] \in {todo[d], <<>>}
  BY DEF IInv, TypeOK
<1>4. TodoIsSeq' /\ EndedLeft' /\ RepliedRan'
  BY <1>1, <1>2, <1>3, QuietCallers DEF IInv
<1>5. QED
  BY <1>1, <1>2, <1>4 DEF IInv

\* A caller that finds the reply to its call keeps the invariant.
LEMMA HearsReplyKeeps ==
  ASSUME IInv, NEW c \in Callers, HearsReply(c)
  PROVE  IInv'
<1> USE DEF HearsReply
<1>1. TypeOK'
  BY DEF TypeOK, IInv
<1>2. Ended(c) /\ ~Placed(c) /\ ran[c] # <<>>
  BY DEF Waits, Ended, IInv, EndedLeft, RepliedRan
<1>3. \A d \in Callers : d # c => pc'[d] = pc[d] /\ todo'[d] = todo[d]
  BY DEF IInv, TypeOK
<1>4. Places' /\ \A d \in Callers : Placed(d)' => Placed(d)
  BY <1>1, <1>2, <1>3, FewerPlaces DEF IInv
<1>5. todo'[c] = <<Last(todo[c])>> /\ ran' = ran
  BY DEF IInv, TypeOK
<1>6. TodoIsSeq'
  BY <1>3, <1>5, OneElement DEF TodoIsSeq, IInv
<1>7. EndedLeft'
  BY <1>2, <1>3, <1>4 DEF EndedLeft, Ended, IInv
<1>8. RepliedRan'
  BY <1>2, <1>3, <1>5 DEF RepliedRan, Ended, IInv
<1>9. QED
  BY <1>1, <1>4, <1>6, <1>7, <1>8 DEF IInv

\* HearsFailure and Finishes: a caller without a place goes on.
LEMMA GoesOnKeeps ==
  ASSUME IInv, NEW c \in Callers, ~Placed(c), NEW r, NEW h, Returns(c, r, h),
         r \in {"ok", "error", "failed"},
         todo' = [todo EXCEPT ![c] = <<>>], UNCHANGED <<ran, queue>>
  PROVE  IInv'
<1>1. /\ pc' \in [Callers -> {"free", "waiting", "answered", "looping"}]
      /\ result' \in [Callers -> {"none", "ok", "error", "failed"}]
      /\ DOMAIN thread' = Servers
      /\ \A p \in Servers : DOMAIN thread'[p] = 0 .. MaxThreads[p]
      /\ pc'[c] \in {"free", "looping"}
      /\ \A d \in Callers : d # c => pc'[d] = pc[d]
      /\ \A p \in Servers : \A i \in DOMAIN thread[p] :
           \/ thread'[p][i] = thread[p][i]
           \/ thread'[p][i].from = None /\ thread'[p][i].st \notin AtWork
  BY ReturnsKeeps DEF IInv, Places
<1>2. TypeOK'
  BY <1>1 DEF TypeOK, IInv
<1>3. Places' /\ \A d \in Callers : Placed(d)' => Placed(d)
  BY <1>1, <1>2, FewerPlaces DEF IInv
<1>4. \A d \in Callers : todo'[d] \in {todo[d], <<>>}
  BY DEF IInv, TypeOK
<1>5. \A d \in Callers : pc'[d] \in {pc[d], "free", "waiting", "looping"}
  BY <1>1
<1>6. TodoIsSeq' /\ EndedLeft' /\ RepliedRan'
  BY <1>2, <1>3, <1>4, <1>5, QuietCallers DEF IInv
<1>7. QED
  BY <1>2, <1>3, <1>6 DEF IInv

\* A caller that is told of a failure keeps the invariant.
LEMMA HearsFailureKeeps ==
  ASSUME IInv, NEW c \in Callers, HearsFailure(c)
  PROVE  IInv'
<1>1. ~Placed(c)
  BY DEF HearsFailure, Waits, Ended, IInv, EndedLeft
<1>2. QED
  BY <1>1, GoesOnKeeps DEF HearsFailure

\* A caller that reads the reply and returns keeps the invariant.
LEMMA FinishesKeeps ==
  ASSUME IInv, NEW c \in Callers, Finishes(c)
  PROVE  IInv'
<1>1. ~Placed(c)
  BY PlacedWaits DEF Finishes, IInv
<1>2. PICK r \in {"ok", "error"} : \E h : Returns(c, r, h)
  BY DEF Finishes
<1>3. QED
  BY <1>1, <1>2, GoesOnKeeps DEF Finishes

\* What the driver does with a transaction: it tells the caller it is refused,
\* or queues it for a server, or for a process that has no looper.
LEMMA TransactionIs ==
  ASSUME IInv, NEW c \in Callers, NEW h, NEW op, BC_TRANSACTION(c, h, op)
  PROVE  \E cmd : /\ todo' = [todo EXCEPT ![c] = <<Return(cmd)>>]
                  /\ cmd # "BR_REPLY"
                  /\ \/ queue' = queue
                     \/ /\ cmd = "BR_TRANSACTION_COMPLETE"
                        /\ \E p \in Servers :
                             queue' = [queue EXCEPT ![p] = Append(@, c)]
<1>1. CASE Refusal(c, h, op) # "none"
  BY <1>1 DEF BC_TRANSACTION, Refusal
<1>2. CASE Refusal(c, h, op) = "none"
  <2>1. /\ todo' = [todo EXCEPT ![c] = <<Return("BR_TRANSACTION_COMPLETE")>>]
        /\ queue' = [queue EXCEPT ![Target(c, h)] = Append(@, c)]
    BY <1>2 DEF BC_TRANSACTION
  <2>2. CASE Target(c, h) \in Servers
    BY <2>1, <2>2
  <2>3. CASE Target(c, h) \notin Servers
    <3>1. queue' = queue
      BY <2>1, <2>3 DEF IInv, TypeOK
    <3>2. QED
      BY <2>1, <3>1
  <2>4. QED
    BY <2>2, <2>3
<1>3. QED
  BY <1>1, <1>2

\* A caller that has no place is given one at the end of a queue.
LEMMA QueuedKeeps ==
  ASSUME TypeOK, TypeOK', Places, NEW c \in Callers, ~Placed(c),
         NEW p \in Servers, queue' = [queue EXCEPT ![p] = Append(@, c)],
         thread' = thread,
         \A d \in Callers : d # c => pc'[d] = pc[d] /\ ran'[d] = ran[d],
         pc'[c] = "waiting", ran'[c] = <<>>
  PROVE  Places' /\ \A d \in Callers : Placed(d)' => Placed(d) \/ d = c
<1> USE ServersAre
<1> DEFINE n == Len(queue[p]) + 1
<1>1. /\ \A q \in Servers : q # p => queue'[q] = queue[q]
      /\ DOMAIN queue'[p] = DOMAIN queue[p] \cup {n}
      /\ n \notin DOMAIN queue[p]
      /\ queue'[p][n] = c
      /\ \A k \in DOMAIN queue[p] : queue'[p][k] = queue[p][k]
  <2>1. /\ queue[p] \in Seq(Callers)
        /\ queue'[p] = Append(queue[p], c)
        /\ \A q \in Servers : q # p => queue'[q] = queue[q]
    BY DEF TypeOK
  <2>2. /\ Len(queue'[p]) = n /\ n \in Nat \ {0}
        /\ DOMAIN queue'[p] = 1 .. n /\ DOMAIN queue[p] = 1 .. (n - 1)
        /\ queue'[p][n] = c
        /\ \A k \in 1 .. (n - 1) : queue'[p][k] = queue[p][k]
    BY <2>1
  <2>3. QED
    BY <2>1, <2>2
<1> HIDE DEF n
<1>2. \A q \in Servers : \A k \in DOMAIN queue'[q] :
        \/ q = p /\ k = n /\ queue'[q][k] = c
        \/ k \in DOMAIN queue[q] /\ queue'[q][k] = queue[q][k]
  BY <1>1
<1>3. \A q \in Servers : \A k \in DOMAIN queue[q] :
        queue[q][k] # c /\ queue[q][k] \in Callers
  BY DEF Placed, TypeOK
<1>4. \A q \in Servers : \A i \in DOMAIN thread[q] : thread[q][i].from # c
  BY DEF Placed
<1>5. \A d \in Callers : Placed(d)' => Placed(d) \/ d = c
  <2> SUFFICES ASSUME NEW d \in Callers, Placed(d)', d # c
               PROVE  Placed(d)
    OBVIOUS
  <2>1. CASE \E q \in Servers : \E k \in DOMAIN queue'[q] : queue'[q][k] = d
    BY <2>1, <1>2 DEF Placed
  <2>2. CASE \E q \in Servers : \E i \in DOMAIN thread'[q] : thread'[q][i].from = d
    BY <2>2 DEF Placed
  <2>3. QED
    BY <2>1, <2>2 DEF Placed
<1>6. LoopersWork'
  BY DEF LoopersWork, Places
<1>7. OneQueue'
  BY <1>2, <1>3 DEF OneQueue, Places
<1>8. QueueOrLooper'
  <2> SUFFICES ASSUME NEW q \in Servers, NEW r \in Servers,
                      NEW k \in DOMAIN queue'[q], NEW i \in DOMAIN thread[r]
               PROVE  queue'[q][k] # thread[r][i].from
    BY DEF QueueOrLooper
  <2>1. CASE queue'[q][k] = c
    BY <1>4, <2>1
  <2>2. CASE k \in DOMAIN queue[q] /\ queue'[q][k] = queue[q][k]
    BY <2>2 DEF QueueOrLooper, Places
  <2>3. QED
    BY <1>2, <2>1, <2>2
<1>9. OneLooper'
  BY DEF OneLooper, Places
<1>10. QueuedWait'
  BY <1>2, <1>3 DEF QueuedWait, Places
<1>11. WorkedOnWait'
  BY <1>4 DEF WorkedOnWait, LoopersWork, Places
<1>12. QED
  BY <1>5, <1>6, <1>7, <1>8, <1>9, <1>10, <1>11 DEF Places

\* A call is refused, or takes its place; its caller had none.
LEMMA CallKeeps ==
  ASSUME IInv, NEW c \in Callers, NEW op, NEW n, NEW x, Call(c, op, n, x)
  PROVE  IInv'
<1>1. PICK cmd : /\ todo' = [todo EXCEPT ![c] = <<Return(cmd)>>]
                 /\ cmd # "BR_REPLY"
                 /\ \/ queue' = queue
                    \/ /\ cmd = "BR_TRANSACTION_COMPLETE"
                       /\ \E p \in Servers :
                            queue' = [queue EXCEPT ![p] = Append(@, c)]
  BY TransactionIs DEF Call
<1>2. ~Placed(c)
  BY PlacedWaits DEF Call, IInv
<1>3. /\ thread' = thread
      /\ \A d \in Callers : d # c =>
           pc'[d] = pc[d] /\ ran'[d] = ran[d] /\ todo'[d] = todo[d]
      /\ pc'[c] = "waiting" /\ ran'[c] = <<>>
      /\ todo'[c] = <<Return(cmd)>>
  BY <1>1 DEF Call, IInv, TypeOK
<1>4. TypeOK'
  <2>1. queue' \in [Servers -> Seq(Callers)]
    <3>1. CASE queue' = queue
      BY <3>1 DEF IInv, TypeOK
    <3>2. CASE \E p \in Servers : queue' = [queue EXCEPT ![p] = Append(@, c)]
      <4>1. PICK p \in Servers : queue' = [queue EXCEPT ![p] = Append(@, c)]
        BY <3>2
      <4>2. Append(queue[p], c) \in Seq(Callers)
        BY DEF IInv, TypeOK
      <4>3. QED
        BY <4>1, <4>2 DEF IInv, TypeOK
    <3>3. QED
      BY <1>1, <3>1, <3>2
  <2>2. QED
    BY <1>1, <2>1 DEF Call, IInv, TypeOK
<1>5. /\ Places' /\ \A d \in Callers : Placed(d)' => Placed(d) \/ d = c
      /\ cmd # "BR_TRANSACTION_COMPLETE" => ~Placed(c)'
  <2>1. CASE queue' = queue
    BY <1>2, <1>3, <1>4, <2>1, FewerPlaces DEF IInv
  <2>2. CASE /\ cmd = "BR_TRANSACTION_COMPLETE"
             /\ \E p \in Servers : queue' = [queue EXCEPT ![p] = Append(@, c)]
    <3>1. PICK p \in Servers : queue' = [queue EXCEPT ![p] = Append(@, c)]
      BY <2>2
    <3>2. Places' /\ \A d \in Callers : Placed(d)' => Placed(d) \/ d = c
      BY <1>2, <1>3, <1>4, <3>1, QueuedKeeps DEF IInv
    <3>3. QED
      BY <2>2, <3>2
  <2>3. QED
    BY <1>1, <2>1, <2>2
<1>6. TodoIsSeq'
  BY <1>3, OneElement DEF TodoIsSeq, IInv
<1>7. Last(todo'[c]).cmd = cmd
  BY <1>3, OneElement DEF Return
<1>8. EndedLeft'
  BY <1>3, <1>5, <1>7 DEF EndedLeft, Ended, IInv
<1>9. RepliedRan'
  BY <1>1, <1>3, <1>7 DEF RepliedRan, Ended, IInv
<1>10. QED
  BY <1>4, <1>5, <1>6, <1>8, <1>9 DEF IInv

\* The head of a queue moves to the looper that takes it.
LEMMA TakesCallKeeps ==
  ASSUME IInv, NEW p \in Servers, NEW i \in DOMAIN thread[p], TakesCall(p, i)
  PROVE  IInv'
<1> USE ServersAre
<1> DEFINE c == Head(queue[p])
           busy == Thread("busy", c)
<1>1. /\ DOMAIN thread' = Servers
      /\ \A q \in Servers : DOMAIN thread'[q] = 0 .. MaxThreads[q]
      /\ thread'[p][i] = busy
      /\ \A q \in Servers : \A j \in DOMAIN thread[q] :
           \/ q = p /\ j = i
           \/ thread'[q][j] = thread[q][j]
           \/ thread'[q][j].from = None /\ thread'[q][j].st \notin AtWork
  BY ComesBackKeeps DEF TakesCall, IInv, Places
<1>2. /\ \A q \in Servers : q # p => queue'[q] = queue[q]
      /\ 1 \in DOMAIN queue[p] /\ queue[p][1] = c
      /\ \A k \in DOMAIN queue'[p] :
           k + 1 \in DOMAIN queue[p] /\ k + 1 # 1 /\ queue'[p][k] = queue[p][k + 1]
  <2>1. /\ queue[p] \in Seq(Callers) /\ queue[p] # <<>>
        /\ queue'[p] = Tail(queue[p])
        /\ \A q \in Servers : q # p => queue'[q] = queue[q]
    BY DEF TakesCall, IInv, TypeOK
  <2>2. QED
    BY <2>1
<1>3. c \in Callers
  BY <1>2 DEF IInv, TypeOK
<1>4. busy.from = c /\ busy.st = "busy"
  BY DEF Thread
<1> HIDE DEF c, busy
<1>5. UNCHANGED <<pc, ran, result, todo>>
  BY DEF TakesCall, callerVars
<1>6. TypeOK'
  <2>1. Tail(queue[p]) \in Seq(Callers)
    BY DEF TakesCall, IInv, TypeOK
  <2>2. queue' \in [Servers -> Seq(Callers)]
    BY <2>1 DEF TakesCall, IInv, TypeOK
  <2>3. QED
    BY <1>1, <1>5, <2>2 DEF IInv, TypeOK
<1>7. \A q \in Servers : DOMAIN thread'[q] = DOMAIN thread[q]
  BY <1>1 DEF IInv, TypeOK
<1>8. \A q \in Servers : \A k \in DOMAIN queue[q] : queue[q][k] \in Callers
  BY DEF IInv, TypeOK
<1>9. pc[c] = "waiting" /\ ran[c] = <<>>
  BY <1>2 DEF QueuedWait, IInv, Places
<1>10. \A q \in Servers : \A j \in DOMAIN thread[q] : thread[q][j].from # c
  BY <1>2 DEF QueueOrLooper, IInv, Places
<1>11. \A d \in Callers : Placed(d)' => Placed(d)
  <2> SUFFICES ASSUME NEW d \in Callers, Placed(d)'
               PROVE  Placed(d)
    OBVIOUS
  <2>1. CASE \E q \in Servers : \E k \in DOMAIN queue'[q] : queue'[q][k] = d
    BY <1>2, <2>1 DEF Placed
  <2>2. CASE \E q \in Servers : \E j \in DOMAIN thread'[q] : thread'[q][j].from = d
    <3>1. PICK q \in Servers : \E j \in DOMAIN thread[q] : thread'[q][j].from = d
      BY <1>7, <2>2
    <3>2. PICK j \in DOMAIN thread[q] : thread'[q][j].from = d
      BY <3>1
    <3>3. thread[q][j].from = d \/ d = c
      BY <1>1, <1>4, <3>2
    <3>4. QED
      BY <1>2, <3>3 DEF Placed
  <2>3. QED
    BY <2>1, <2>2 DEF Placed
<1>12. LoopersWork'
  BY <1>1, <1>3, <1>4, <1>7 DEF LoopersWork, AtWork, IInv, Places
<1>13. OneQueue'
  <2> SUFFICES ASSUME NEW q \in Servers, NEW r \in Servers,
                      NEW k \in DOMAIN queue'[q], NEW j \in DOMAIN queue'[r],
                      queue'[q][k] = queue'[r][j]
               PROVE  q = r /\ k = j
    BY DEF OneQueue
  <2>1. k \in Int /\ j \in Int
    BY <1>6 DEF TypeOK
  <2>2. CASE q = p
    BY <1>2, <2>1, <2>2 DEF OneQueue, IInv, Places
  <2>3. CASE q # p
    BY <1>2, <2>1, <2>3 DEF OneQueue, IInv, Places
  <2>4. QED
    BY <2>2, <2>3
<1>14. QueueOrLooper'
  <2> SUFFICES ASSUME NEW q \in Servers, NEW r \in Servers,
                      NEW k \in DOMAIN queue'[q], NEW j \in DOMAIN thread[r]
               PROVE  queue'[q][k] # thread'[r][j].from
    BY <1>7 DEF QueueOrLooper
  <2>1. queue'[q][k] # c
    BY <1>2 DEF OneQueue, IInv, Places
  <2>2. queue'[q][k] # None /\ queue'[q][k] # thread[r][j].from
    BY <1>2, <1>8 DEF QueueOrLooper, IInv, Places
  <2>3. QED
    BY <1>1, <1>4, <2>1, <2>2
<1>15. OneLooper'
  BY <1>1, <1>4, <1>7, <1>10 DEF OneLooper, IInv, Places
<1>16. QueuedWait'
  BY <1>2, <1>5 DEF QueuedWait, IInv, Places
<1>17. WorkedOnWait'
  BY <1>1, <1>4, <1>5, <1>7, <1>9 DEF WorkedOnWait, AtWork, IInv, Places
<1>18. Places'
  BY <1>12, <1>13, <1>14, <1>15, <1>16, <1>17 DEF Places
<1>19. TodoIsSeq' /\ EndedLeft' /\ RepliedRan'
  BY <1>5, <1>6, <1>11, QuietCallers DEF IInv
<1>20. QED
  BY <1>6, <1>18, <1>19 DEF IInv

\* A looper at work carries out the call of its caller, and nobody else's.
LEMMA TransactsKeeps ==
  ASSUME IInv, NEW p \in Servers, NEW i \in DOMAIN thread[p], Transacts(p, i)
  PROVE  IInv'
<1> USE ServersAre
<1> DEFINE c == thread[p][i].from
<1>1. thread[p][i].st = "busy" /\ c \in Callers /\ c # None
  BY DEF Transacts, LoopersWork, AtWork, IInv, Places
<1>2. PICK t : thread' = [thread EXCEPT ![p][i] = t] /\ t.st = "done" /\ t.from = c
  <2>1. PICK a : thread' = [thread EXCEPT ![p][i] =
                   [st |-> "done", from |-> c, ref |-> a.ref, status |-> a.status]]
    BY DEF Transacts
  <2> DEFINE t == [st |-> "done", from |-> c, ref |-> a.ref, status |-> a.status]
  <2>2. thread' = [thread EXCEPT ![p][i] = t] /\ t.st = "done" /\ t.from = c
    BY <2>1
  <2> HIDE DEF t
  <2>3. QED
    BY <2>2
<1>3. /\ \A q \in Servers : DOMAIN thread'[q] = DOMAIN thread[q]
      /\ thread'[p][i] = t
      /\ \A q \in Servers : \A j \in DOMAIN thread[q] :
           (q # p \/ j # i) => thread'[q][j] = thread[q][j]
  BY <1>2 DEF IInv, TypeOK
<1>4. \A q \in Servers : \A j \in DOMAIN thread[q] :
        thread'[q][j].from = thread[q][j].from
  BY <1>2, <1>3
<1>5. UNCHANGED <<pc, result, todo, queue>>
  BY DEF Transacts, driverVars
<1>6. ran' = [ran EXCEPT ![c] = Append(@, p)]
  BY DEF Transacts
<1>7. ran[c] \in Seq(Servers) /\ Append(ran[c], p) \in Seq(Servers)
      /\ Append(ran[c], p) # <<>>
  <2>1. ran[c] \in Seq(Servers)
    BY <1>1 DEF IInv, TypeOK
  <2>2. QED
    BY <2>1
<1>8. TypeOK'
  BY <1>1, <1>2, <1>3, <1>5, <1>6, <1>7 DEF IInv, TypeOK
<1>9. ran'[c] # <<>> /\ \A d \in Callers : d # c => ran'[d] = ran[d]
  BY <1>1, <1>6, <1>7 DEF IInv, TypeOK
<1>10. \A q \in Servers : \A k \in DOMAIN queue[q] :
         queue[q][k] \in Callers /\ queue[q][k] # c
  BY DEF QueueOrLooper, IInv, Places, TypeOK
<1>11. \A q \in Servers : \A j \in DOMAIN thread[q] :
         (q # p \/ j # i) => thread[q][j].from # c
  BY <1>1 DEF OneLooper, IInv, Places
<1>12. pc[c] = "waiting"
  BY <1>1 DEF WorkedOnWait, AtWork, IInv, Places
<1> HIDE DEF c
<1>13. LoopersWork'
  BY <1>1, <1>2, <1>3 DEF LoopersWork, AtWork, IInv, Places
<1>14. OneQueue'
  BY <1>5 DEF OneQueue, IInv, Places
<1>15. QueueOrLooper' /\ OneLooper'
  BY <1>3, <1>4, <1>5 DEF QueueOrLooper, OneLooper, IInv, Places
<1>16. QueuedWait'
  BY <1>5, <1>9, <1>10 DEF QueuedWait, IInv, Places
<1>17. WorkedOnWait'
  <2> SUFFICES ASSUME NEW q \in Servers, NEW j \in DOMAIN thread[q],
                      thread'[q][j].st \in AtWork
               PROVE  /\ pc[thread'[q][j].from] = "waiting"
                      /\ (ran'[thread'[q][j].from] = <<>>)
                           <=> (thread'[q][j].st = "busy")
    BY <1>3, <1>5 DEF WorkedOnWait
  <2>1. CASE q = p /\ j = i
    BY <1>2, <1>3, <1>9, <1>12, <2>1
  <2>2. CASE q # p \/ j # i
    BY <1>3, <1>9, <1>11, <2>2 DEF WorkedOnWait, LoopersWork, IInv, Places
  <2>3. QED
    BY <2>1, <2>2
<1>18. \A d \in Callers : Placed(d)' => Placed(d)
  BY <1>3, <1>4, <1>5 DEF Placed
<1>19. TodoIsSeq' /\ EndedLeft' /\ RepliedRan'
  BY <1>5, <1>8, <1>9, <1>18, QuietCallers DEF IInv
<1>20. QED
  BY <1>8, <1>13, <1>14, <1>15, <1>16, <1>17, <1>19 DEF IInv, Places

\* A caller is told how its call ended when it loses its place.
LEMMA ToldKeeps ==
  ASSUME IInv, TypeOK', UNCHANGED <<pc, ran>>,
         \A p \in Servers : queue'[p] \in {queue[p], <<>>},
         \A p \in Servers : \A i \in DOMAIN thread[p] :
           \/ thread'[p][i] = thread[p][i]
           \/ thread'[p][i].from = None /\ thread'[p][i].st \notin AtWork,
         \A d \in Callers :
           \/ todo'[d] \in {todo[d], <<>>}
           \/ /\ ~Placed(d)'
              /\ \E e : /\ todo'[d] = Append(todo[d], e)
                        /\ e.cmd = "BR_REPLY" => ran[d] # <<>>
  PROVE  IInv'
<1>1. Places' /\ \A d \in Callers : Placed(d)' => Placed(d)
  BY FewerPlaces DEF IInv
<1>2. ASSUME NEW d \in Callers
      PROVE  /\ \E S : todo'[d] \in Seq(S)
             /\ Ended(d)' => ~Placed(d)'
             /\ (pc'[d] = "answered" \/ (Ended(d)' /\ Last(todo'[d]).cmd = "BR_REPLY"))
                  => ran'[d] # <<>>
  <2>1. PICK S : todo[d] \in Seq(S)
    BY DEF IInv, TodoIsSeq
  <2>2. CASE todo'[d] \in {todo[d], <<>>}
    <3>1. \E T : todo'[d] \in Seq(T)
      <4>1. <<>> \in Seq(S)
        OBVIOUS
      <4>2. todo'[d] \in Seq(S)
        BY <2>1, <2>2, <4>1
      <4>3. QED
        BY <4>2
    <3>2. Ended(d)' => Ended(d) /\ todo'[d] = todo[d]
      BY <2>2 DEF Ended
    <3>3. QED
      BY <1>1, <3>1, <3>2 DEF EndedLeft, RepliedRan, IInv
  <2>3. CASE todo'[d] \notin {todo[d], <<>>}
    <3>1. PICK e : /\ todo'[d] = Append(todo[d], e)
                   /\ e.cmd = "BR_REPLY" => ran[d] # <<>>
      BY <2>3
    <3>2. (\E T : todo'[d] \in Seq(T)) /\ Last(todo'[d]) = e
      BY <2>1, <3>1, Appended
    <3>3. ~Placed(d)'
      BY <2>3
    <3>4. QED
      BY <3>1, <3>2, <3>3 DEF RepliedRan, IInv
  <2>4. QED
    BY <2>2, <2>3
<1>3. QED
  BY <1>1, <1>2 DEF IInv, TodoIsSeq, EndedLeft, RepliedRan

\* A looper that replies gives up its caller's only place.
LEMMA SendsReplyKeeps ==
  ASSUME IInv, NEW p \in Servers, NEW i \in DOMAIN thread[p], SendsReply(p, i)
  PROVE  IInv'
<1> USE ServersAre
<1>0. PICK c \in Callers : c = thread[p][i].from
  BY DEF SendsReply, LoopersWork, AtWork, IInv, Places
<1>1. c = thread[p][i].from /\ c # None /\ ran[c] # <<>>
  BY <1>0 DEF SendsReply, WorkedOnWait, AtWork, IInv, Places
<1>2. thread' = [thread EXCEPT ![p][i] = Thread("rests", None)]
  BY DEF SendsReply
<1>3. Thread("rests", None).from = None /\ Thread("rests", None).st \notin AtWork
  BY DEF Thread, AtWork
<1>4. /\ DOMAIN thread' = Servers
      /\ \A q \in Servers : DOMAIN thread'[q] = DOMAIN thread[q]
      /\ thread'[p][i].from = None /\ thread'[p][i].st \notin AtWork
      /\ \A q \in Servers : \A j \in DOMAIN thread[q] :
           (q # p \/ j # i) => thread'[q][j] = thread[q][j]
  BY <1>2, <1>3 DEF IInv, TypeOK
<1>5. UNCHANGED <<pc, ran, result, queue>>
  BY DEF SendsReply, callerVars
<1>6. \/ todo' = todo
      \/ \E e : todo' = [todo EXCEPT ![c] = Append(@, e)]
  BY <1>1 DEF SendsReply
<1>7. TypeOK'
  BY <1>4, <1>5, <1>6 DEF IInv, TypeOK
<1>8. \A q \in Servers : \A k \in DOMAIN queue[q] : queue[q][k] # c
  BY <1>1 DEF QueueOrLooper, IInv, Places
<1>9. \A q \in Servers : \A j \in DOMAIN thread[q] :
        (q # p \/ j # i) => thread[q][j].from # c
  BY <1>1 DEF OneLooper, IInv, Places
<1>10. ~Placed(c)'
  <2>1. \A q \in Servers : \A k \in DOMAIN queue'[q] : queue'[q][k] # c
    BY <1>5, <1>8
  <2>2. \A q \in Servers : \A j \in DOMAIN thread[q] : thread'[q][j].from # c
    <3> SUFFICES ASSUME NEW q \in Servers, NEW j \in DOMAIN thread[q]
                 PROVE  thread'[q][j].from # c
      OBVIOUS
    <3>1. CASE q = p /\ j = i
      BY <1>1, <1>4, <3>1
    <3>2. CASE q # p \/ j # i
      BY <1>4, <1>9, <3>2
    <3>3. QED
      BY <3>1, <3>2
  <2>3. \A q \in Servers : \A j \in DOMAIN thread'[q] : thread'[q][j].from # c
    BY <1>4, <2>2
  <2>4. QED
    BY <2>1, <2>3 DEF Placed
<1>11. \A d \in Callers :
         \/ todo'[d] \in {todo[d], <<>>}
         \/ /\ ~Placed(d)'
            /\ \E e : todo'[d] = Append(todo[d], e)
                      /\ (e.cmd = "BR_REPLY" => ran[d] # <<>>)
  <2>1. CASE todo' = todo
    BY <2>1
  <2>2. CASE todo' # todo
    <3>1. PICK e : todo' = [todo EXCEPT ![c] = Append(@, e)]
      BY <1>6, <2>2
    <3>2. /\ todo'[c] = Append(todo[c], e)
          /\ \A d \in Callers : d # c => todo'[d] = todo[d]
      BY <1>1, <3>1 DEF IInv, TypeOK
    <3>3. ASSUME NEW d \in Callers, d = c
          PROVE  /\ ~Placed(d)'
                 /\ \E f : todo'[d] = Append(todo[d], f)
                           /\ (f.cmd = "BR_REPLY" => ran[d] # <<>>)
      BY <1>1, <1>10, <3>2, <3>3
    <3>4. QED
      BY <3>2, <3>3
  <2>3. QED
    BY <2>1, <2>2
<1>12. \A q \in Servers : \A j \in DOMAIN thread[q] :
         \/ thread'[q][j] = thread[q][j]
         \/ thread'[q][j].from = None /\ thread'[q][j].st \notin AtWork
  BY <1>4
<1>13. \A q \in Servers : queue'[q] \in {queue[q], <<>>}
  BY <1>5
<1>14. QED
  BY <1>5, <1>7, <1>11, <1>12, <1>13, ToldKeeps

\* Die and LooperCrashes: the process takes every place it gave with it.
LEMMA DiesKeeps ==
  ASSUME IInv, NEW p \in Processes, Dies(p)
  PROVE  IInv'
<1> USE ServersAre
<1>1. Thread("none", None).from = None /\ Thread("none", None).st \notin AtWork
  BY DEF Thread, AtWork
<1>2. /\ DOMAIN thread' = Servers
      /\ \A q \in Servers : DOMAIN thread'[q] = DOMAIN thread[q]
      /\ \A q \in Servers : \A j \in DOMAIN thread[q] :
           thread'[q][j] = (IF q = p THEN Thread("none", None) ELSE thread[q][j])
  <2>1. CASE p \in Servers
    <3>1. thread' = [thread EXCEPT ![p] = [j \in DOMAIN @ |-> Thread("none", None)]]
      BY <2>1 DEF Dies
    <3>2. QED
      BY <3>1 DEF IInv, TypeOK
  <2>2. CASE p \notin Servers
    BY <2>2 DEF Dies, IInv, TypeOK
  <2>3. QED
    BY <2>1, <2>2
<1>3. \A q \in Servers : queue'[q] = IF q = p THEN <<>> ELSE queue[q]
  BY DEF Dies, IInv, TypeOK
<1>4. queue' \in [Servers -> Seq(Callers)]
  BY DEF Dies, IInv, TypeOK
<1>5. UNCHANGED <<pc, ran, result>>
  BY DEF Dies, callerVars
<1>6. DOMAIN todo' = Callers
  BY DEF Dies
<1>7. TypeOK'
  BY <1>2, <1>4, <1>5, <1>6 DEF IInv, TypeOK
<1>8. \A d \in Callers :
        \/ todo'[d] \in {todo[d], <<>>}
        \/ /\ ~Placed(d)'
           /\ \E e : todo'[d] = Append(todo[d], e)
                     /\ (e.cmd = "BR_REPLY" => ran[d] # <<>>)
  <2> SUFFICES ASSUME NEW d \in Callers, todo'[d] \notin {todo[d], <<>>}
               PROVE  /\ ~Placed(d)'
                      /\ \E e : todo'[d] = Append(todo[d], e)
                                /\ (e.cmd = "BR_REPLY" => ran[d] # <<>>)
    OBVIOUS
  <2>1. d \in WorkOf(p) /\ todo'[d] = Append(todo[d], Return("BR_DEAD_REPLY"))
    BY DEF Dies
  <2>2. Return("BR_DEAD_REPLY").cmd # "BR_REPLY"
    BY DEF Return
  <2>3. p \in Servers
    BY <2>1 DEF WorkOf
  <2>4. \/ \E k \in DOMAIN queue[p] : queue[p][k] = d
        \/ \E i \in DOMAIN thread[p] : thread[p][i].from = d
    BY <2>1, <2>3 DEF WorkOf
  <2>5. /\ \A q \in Servers : \A k \in DOMAIN queue[q] :
             q # p => queue[q][k] # d
        /\ \A q \in Servers : \A j \in DOMAIN thread[q] :
             q # p => thread[q][j].from # d
    <3>1. CASE \E k \in DOMAIN queue[p] : queue[p][k] = d
      BY <2>3, <3>1 DEF OneQueue, QueueOrLooper, IInv, Places
    <3>2. CASE \E i \in DOMAIN thread[p] : thread[p][i].from = d
      BY <2>3, <3>2 DEF OneLooper, QueueOrLooper, IInv, Places
    <3>3. QED
      BY <2>4, <3>1, <3>2
  <2>6. ~Placed(d)'
    BY <1>1, <1>2, <1>3, <2>5 DEF Placed
  <2>7. QED
    BY <2>1, <2>2, <2>6
<1>9. \A q \in Servers : \A j \in DOMAIN thread[q] :
        \/ thread'[q][j] = thread[q][j]
        \/ thread'[q][j].from = None /\ thread'[q][j].st \notin AtWork
  BY <1>1, <1>2
<1>10. \A q \in Servers : queue'[q] \in {queue[q], <<>>}
  BY <1>3
<1>11. QED
  BY <1>5, <1>7, <1>8, <1>9, <1>10, ToldKeeps

\* Release, ForgetsDead and stuttering.
LEMMA OthersKeep ==
  ASSUME IInv, UNCHANGED <<pc, ran, result, todo, queue, thread>>
  PROVE  IInv'
<1>1. TypeOK'
  BY DEF IInv, TypeOK
<1>2. \A p \in Servers : \A i \in DOMAIN thread[p] : thread'[p][i] = thread[p][i]
  OBVIOUS
<1>3. QED
  BY <1>1, <1>2, LooperKeeps
-----------------------------------------------------------------------------
\* The invariant is inductive.
LEMMA NextKeeps == IInv /\ [Next]_vars => IInv'
<1> SUFFICES ASSUME IInv, [Next]_vars
             PROVE  IInv'
  OBVIOUS
<1> USE ServersAre
<1>1. ASSUME NEW s \in Services, AddService(s)
      PROVE  IInv'
  BY <1>1, CallKeeps DEF AddService
<1>2. ASSUME NEW c \in Clients, NEW n \in Names, GetService(c, n)
      PROVE  IInv'
  BY <1>2, CallKeeps DEF GetService
<1>3. ASSUME NEW c \in Clients, NEW n \in Names, CallMethod(c, n)
      PROVE  IInv'
  BY <1>3, CallKeeps DEF CallMethod
<1>4. ASSUME NEW c \in Clients, NEW n \in Names, Release(c, n)
      PROVE  IInv'
  BY <1>4, OthersKeep DEF Release
<1>5. ASSUME NEW c \in Callers, CallerStep(c)
      PROVE  IInv'
  BY <1>5, TurnsAgainKeeps, HearsReplyKeeps, HearsFailureKeeps, FinishesKeeps
     DEF CallerStep
<1>6. ASSUME NEW p \in Servers, NEW i \in DOMAIN thread[p], LooperStep(p, i)
      PROVE  IInv'
  BY <1>6, TakesCallKeeps, TransactsKeeps, SendsReplyKeeps, RestsKeeps DEF LooperStep
<1>7. ASSUME NEW p \in Servers, NEW i \in DOMAIN thread[p], LooperStarts(p, i)
      PROVE  IInv'
  BY <1>7, LooperStartsKeeps
<1>8. ASSUME NEW p \in Servers, NEW i \in DOMAIN thread[p], LooperCrashes(p, i)
      PROVE  IInv'
  BY <1>8, DiesKeeps DEF LooperCrashes, Servers, Processes, Callers
<1>9. ASSUME NEW n \in Names, ForgetsDead(n)
      PROVE  IInv'
  BY <1>9, OthersKeep DEF ForgetsDead, callerVars, driverVars
<1>10. ASSUME NEW p \in Processes, Die(p)
       PROVE  IInv'
  BY <1>10, DiesKeeps DEF Die
<1>11. CASE UNCHANGED vars
  BY <1>11, OthersKeep DEF vars, callerVars, driverVars
<1>12. QED
  BY <1>1, <1>2, <1>3, <1>4, <1>5, <1>6, <1>7, <1>8, <1>9, <1>10, <1>11 DEF Next

\* A call that waits is in the queue of one server or with one of its loopers,
\* never in two places, and has left it before binderCall reads how it ended.
THEOREM CallsHavePlaces == Spec => []IInv
BY InitKeeps, NextKeeps, PTL DEF Spec
-----------------------------------------------------------------------------
(* The refinement.                                                         *)

\* A step that changes no caller's phase, executions and outcome is a stutter of
\* RemoteCall, and one that changes a single caller's is one of its actions.
Ran(c) == Len(ran[c])
LEMMA SameIsStutter ==
  ASSUME \A d \in Callers : Phase(d)' = Phase(d) /\ Ran(d)' = Ran(d)
                            /\ Outcome(d)' = Outcome(d)
  PROVE  UNCHANGED Abstract!rcVars
BY DEF Abstract!rcVars, Ran

\* A caller that takes a step of the abstract call, the others none, is a step
\* of it.
LEMMA OneMoves ==
  ASSUME NEW c \in Callers,
         \A d \in Callers \ {c} :
           Phase(d)' = Phase(d) /\ Ran(d)' = Ran(d) /\ Outcome(d)' = Outcome(d),
         \/ /\ Phase(c) = "idle" /\ Phase(c)' = "called"
            /\ Ran(c)' = 0 /\ Outcome(c)' = "none"
         \/ /\ Phase(c) = "called" /\ Phase(c)' = "called"
            /\ Ran(c) = 0 /\ Ran(c)' = 1 /\ Outcome(c)' = Outcome(c)
         \/ /\ Phase(c) = "called" /\ Phase(c)' = "idle"
            /\ Ran(c) = 1 /\ Ran(c)' = 1 /\ Outcome(c)' = "ok"
         \/ /\ Phase(c) = "called" /\ Phase(c)' = "idle"
            /\ Ran(c)' = Ran(c) /\ Outcome(c)' = "failed"
  PROVE  Abstract!RCNext
<1> DEFINE ph == [d \in Callers |-> Phase(d)]
           rn == [d \in Callers |-> Len(ran[d])]
           oc == [d \in Callers |-> Outcome(d)]
<1>1. /\ ph' = [ph EXCEPT ![c] = Phase(c)'] /\ oc' = [oc EXCEPT ![c] = Outcome(c)']
      /\ rn' = [rn EXCEPT ![c] = Ran(c)']
  BY DEF Ran
<1>2. /\ Outcome(c)' = Outcome(c) => oc' = oc
      /\ Phase(c)' = Phase(c) => ph' = ph
      /\ Ran(c)' = Ran(c) => rn' = rn
  BY DEF Ran
<1>3. ph[c] = Phase(c) /\ rn[c] = Ran(c)
  BY DEF Ran
<1>4. CASE /\ Phase(c) = "idle" /\ Phase(c)' = "called"
           /\ Ran(c)' = 0 /\ Outcome(c)' = "none"
  BY <1>1, <1>3, <1>4 DEF Abstract!RCNext, Abstract!Invoke
<1>5. CASE /\ Phase(c) = "called" /\ Phase(c)' = "called"
           /\ Ran(c) = 0 /\ Ran(c)' = 1 /\ Outcome(c)' = Outcome(c)
  BY <1>1, <1>2, <1>3, <1>5 DEF Abstract!RCNext, Abstract!Execute
<1>6. CASE /\ Phase(c) = "called" /\ Phase(c)' = "idle"
           /\ Ran(c) = 1 /\ Ran(c)' = 1 /\ Outcome(c)' = "ok"
  BY <1>1, <1>2, <1>3, <1>6 DEF Abstract!RCNext, Abstract!Succeed
<1>7. CASE /\ Phase(c) = "called" /\ Phase(c)' = "idle"
           /\ Ran(c)' = Ran(c) /\ Outcome(c)' = "failed"
  BY <1>1, <1>2, <1>3, <1>7 DEF Abstract!RCNext, Abstract!Fail
<1>8. QED
  BY <1>4, <1>5, <1>6, <1>7

\* A call that is out has been carried out once at most.
RanOnce == \A c \in Callers : ran[c] # <<>> => Len(ran[c]) = 1

\* An execution is of a call that waits and was not carried out before.
LEMMA TransactsOnce ==
  ASSUME IInv, NEW p \in Servers, NEW i \in DOMAIN thread[p], Transacts(p, i)
  PROVE  \E c \in Callers : /\ pc[c] = "waiting" /\ ran[c] = <<>>
                            /\ ran' = [ran EXCEPT ![c] = Append(@, p)]
                            /\ UNCHANGED <<pc, result>>
<1>1. PICK c \in Callers : c = thread[p][i].from
  BY DEF Transacts, LoopersWork, AtWork, IInv, Places
<1>2. pc[c] = "waiting" /\ ran[c] = <<>>
  BY <1>1 DEF Transacts, WorkedOnWait, AtWork, IInv, Places
<1>3. ran' = [ran EXCEPT ![c] = Append(@, p)] /\ UNCHANGED <<pc, result>>
  BY <1>1 DEF Transacts
<1>4. QED
  BY <1>2, <1>3

\* Every step keeps it so.
LEMMA RanOnceStep ==
  ASSUME IInv, RanOnce, [Next]_vars
  PROVE  RanOnce'
<1> USE ServersAre
<1>1. ASSUME NEW c \in Callers, NEW op, NEW n, NEW x, Call(c, op, n, x)
      PROVE  RanOnce'
  BY <1>1 DEF Call, RanOnce, IInv, TypeOK
<1>2. ASSUME NEW p \in Servers, NEW i \in DOMAIN thread[p], Transacts(p, i)
      PROVE  RanOnce'
  <2>1. PICK c \in Callers : /\ ran[c] = <<>>
                             /\ ran' = [ran EXCEPT ![c] = Append(@, p)]
    BY <1>2, TransactsOnce
  <2>2. ran'[c] = <<p>> /\ Len(<<p>>) = 1
    BY <2>1 DEF IInv, TypeOK
  <2>3. QED
    BY <2>1, <2>2 DEF RanOnce, IInv, TypeOK
<1>3. CASE ran' = ran
  BY <1>3 DEF RanOnce
<1>4. ASSUME NEW c \in Callers, CallerStep(c)
      PROVE  ran' = ran
  BY <1>4 DEF CallerStep, TurnsAgain, HearsReply, HearsFailure, Finishes, callerVars
<1>5. ASSUME NEW p \in Servers, NEW i \in DOMAIN thread[p], ~Transacts(p, i),
             LooperStep(p, i) \/ LooperStarts(p, i) \/ LooperCrashes(p, i)
      PROVE  ran' = ran
  BY <1>5 DEF LooperStep, TakesCall, SendsReply, Rests, LooperStarts, LooperCrashes,
              Dies, callerVars
<1>6. QED
  BY <1>1, <1>2, <1>3, <1>4, <1>5
  DEF Next, AddService, GetService, CallMethod, Release, ForgetsDead, Die, Dies,
      callerVars, vars

\* No call is out at the start of either.
LEMMA InitRefines == Init => Abstract!RCInit /\ RanOnce
BY DEF Init, Abstract!RCInit, Phase, Outcome, RanOnce

\* A call is an Invoke.
LEMMA CallRefines ==
  ASSUME IInv, NEW c \in Callers, NEW op, NEW n, NEW x, Call(c, op, n, x)
  PROVE  Abstract!RCNext
<1>1. /\ \A d \in Callers \ {c} :
           pc'[d] = pc[d] /\ ran'[d] = ran[d] /\ result'[d] = result[d]
      /\ pc[c] = "free" /\ pc'[c] = "waiting" /\ ran'[c] = <<>>
      /\ result'[c] = "none"
  BY DEF Call, IInv, TypeOK
<1>2. QED
  BY <1>1, OneMoves DEF Phase, Ran, Outcome

\* HearsFailure is a Fail; Finishes, whose call has been carried out, a Succeed.
LEMMA ReturnRefines ==
  ASSUME IInv, RanOnce, NEW c \in Callers, pc[c] \in {"waiting", "answered"},
         NEW r, NEW h, Returns(c, r, h), ran' = ran,
         r = "failed" \/ (r \in {"ok", "error"} /\ pc[c] = "answered")
  PROVE  Abstract!RCNext
<1>1. /\ \A d \in Callers \ {c} :
           pc'[d] = pc[d] /\ ran'[d] = ran[d] /\ result'[d] = result[d]
      /\ pc'[c] \in {"free", "looping"} /\ result'[c] = r
  BY DEF Returns, IInv, TypeOK
<1>2. pc[c] = "answered" => ran[c] # <<>>
  BY DEF IInv, RepliedRan
<1>3. pc[c] = "answered" => Ran(c) = 1
  BY <1>2 DEF RanOnce, Ran
<1>4. QED
  BY <1>1, <1>3, OneMoves DEF Phase, Ran, Outcome

\* onTransact is an Execute, of a call that was not yet carried out.
LEMMA TransactsRefines ==
  ASSUME IInv, NEW p \in Servers, NEW i \in DOMAIN thread[p], Transacts(p, i)
  PROVE  Abstract!RCNext
<1>1. PICK c \in Callers : /\ pc[c] = "waiting" /\ ran[c] = <<>>
                           /\ ran' = [ran EXCEPT ![c] = Append(@, p)]
                           /\ UNCHANGED <<pc, result>>
  BY TransactsOnce
<1>2. ran'[c] = <<p>> /\ \A d \in Callers \ {c} : ran'[d] = ran[d]
  BY <1>1 DEF IInv, TypeOK
<1>3. Ran(c) = 0 /\ Ran(c)' = 1
  BY <1>1, <1>2 DEF Ran
<1>4. QED
  BY <1>1, <1>2, <1>3, OneMoves DEF Phase, Ran, Outcome

\* To hear a reply, and what no caller sees, are stutters.
LEMMA HearsReplyRefines ==
  ASSUME IInv, NEW c \in Callers, HearsReply(c)
  PROVE  UNCHANGED Abstract!rcVars
<1>1. /\ \A d \in Callers \ {c} : pc'[d] = pc[d]
      /\ pc[c] = "waiting" /\ pc'[c] = "answered" /\ UNCHANGED <<ran, result>>
  BY DEF HearsReply, Waits, IInv, TypeOK
<1>2. QED
  BY <1>1, SameIsStutter DEF Phase, Ran, Outcome

\* A step that no caller has a part in is a stutter of the abstract calls.
LEMMA SilentRefines ==
  ASSUME UNCHANGED <<pc, ran, result>>
  PROVE  UNCHANGED Abstract!rcVars
BY SameIsStutter DEF Phase, Ran, Outcome

\* Every step is one of RemoteCall, or a stutter.
LEMMA StepRefines ==
  IInv /\ RanOnce /\ [Next]_vars => [Abstract!RCNext]_(Abstract!rcVars)
<1> SUFFICES ASSUME IInv, RanOnce, [Next]_vars
             PROVE  [Abstract!RCNext]_(Abstract!rcVars)
  OBVIOUS
<1> USE ServersAre
<1>1. ASSUME NEW s \in Services, AddService(s)
      PROVE  Abstract!RCNext
  BY <1>1, CallRefines DEF AddService
<1>2. ASSUME NEW c \in Clients, NEW n \in Names, GetService(c, n)
      PROVE  Abstract!RCNext
  BY <1>2, CallRefines DEF GetService
<1>3. ASSUME NEW c \in Clients, NEW n \in Names, CallMethod(c, n)
      PROVE  Abstract!RCNext
  BY <1>3, CallRefines DEF CallMethod
<1>4. ASSUME NEW c \in Clients, NEW n \in Names, Release(c, n)
      PROVE  UNCHANGED Abstract!rcVars
  BY <1>4, SilentRefines DEF Release
<1>5. ASSUME NEW c \in Callers, CallerStep(c)
      PROVE  [Abstract!RCNext]_(Abstract!rcVars)
  <2>1. CASE TurnsAgain(c)
    BY <2>1, SilentRefines DEF TurnsAgain, callerVars
  <2>2. CASE HearsReply(c)
    BY <2>2, HearsReplyRefines
  <2>3. CASE HearsFailure(c)
    BY <2>3, ReturnRefines DEF HearsFailure, Waits
  <2>4. CASE Finishes(c)
    BY <2>4, ReturnRefines DEF Finishes
  <2>5. QED
    BY <1>5, <2>1, <2>2, <2>3, <2>4 DEF CallerStep
<1>6. ASSUME NEW p \in Servers, NEW i \in DOMAIN thread[p],
             LooperStep(p, i) \/ LooperStarts(p, i) \/ LooperCrashes(p, i)
      PROVE  [Abstract!RCNext]_(Abstract!rcVars)
  <2>1. CASE Transacts(p, i)
    BY <2>1, TransactsRefines
  <2>2. CASE TakesCall(p, i) \/ SendsReply(p, i) \/ Rests(p, i)
    BY <2>2, SilentRefines DEF TakesCall, SendsReply, Rests, callerVars
  <2>3. CASE LooperStarts(p, i) \/ LooperCrashes(p, i)
    BY <2>3, SilentRefines DEF LooperStarts, LooperCrashes, Dies, callerVars
  <2>4. QED
    BY <1>6, <2>1, <2>2, <2>3 DEF LooperStep
<1>7. ASSUME NEW n \in Names, ForgetsDead(n)
      PROVE  UNCHANGED Abstract!rcVars
  BY <1>7, SilentRefines DEF ForgetsDead, callerVars
<1>8. ASSUME NEW p \in Processes, Die(p)
      PROVE  UNCHANGED Abstract!rcVars
  BY <1>8, SilentRefines DEF Die, Dies, callerVars
<1>9. CASE UNCHANGED vars
  BY <1>9, SilentRefines DEF vars, callerVars
<1>10. QED
  BY <1>1, <1>2, <1>3, <1>4, <1>5, <1>6, <1>7, <1>8, <1>9 DEF Next

\* binderCall is a remote call: it is carried out at most once, only while its
\* caller waits for it, in time for a reply that says so, and never after
\* binderCall has returned -1.
THEOREM CallsAreRemoteCalls == Spec => ImplementsRemoteCall
<1>1. Init => Abstract!RCInit /\ RanOnce
  BY InitRefines
<1>2. IInv /\ RanOnce /\ [Next]_vars => RanOnce'
  BY RanOnceStep
<1>3. IInv /\ RanOnce /\ [Next]_vars => [Abstract!RCNext]_(Abstract!rcVars)
  BY StepRefines
<1>4. QED
  BY <1>1, <1>2, <1>3, CallsHavePlaces, PTL DEF Spec, ImplementsRemoteCall, Abstract!RCSpec
-----------------------------------------------------------------------------
(* The accounts of the binder.                                             *)

\* What a thread is given to read: a command, and with a reply the handle that
\* is in it, 0 when there is none, and its status.
Commands ==
  {"BR_TRANSACTION_COMPLETE", "BR_REPLY", "BR_FAILED_REPLY", "BR_DEAD_REPLY"}
Item == [cmd : Commands, handle : Handles \cup {0}, status : {0, -1}]
Plain(e) == e \in Item /\ (e.cmd # "BR_REPLY" => e.handle = 0)

\* Only what comes last can end a call, and only a reply has a handle.
Orderly(s) ==
  /\ s \in Seq(Item)
  /\ \A k \in DOMAIN s : Plain(s[k])
  /\ \A k \in DOMAIN s : k # Len(s) => s[k].cmd = "BR_TRANSACTION_COMPLETE"
HasReply(s) == s # <<>> /\ Last(s).cmd = "BR_REPLY"
One(b) == IF b THEN 1 ELSE 0

\* A table of handles: every handle in use stands for a node of its own.
TableOK(t) ==
  /\ t \in [Handles -> [node : Services \cup {None}, strong : Nat]]
  /\ \A h \in Handles : t[h].strong = 0 <=> t[h].node = None
  /\ \A h, k \in Handles : t[h].node = t[k].node /\ t[h].node # None => h = k

\* What a client's proxies are: none, or a handle, or 0 for the manager itself
\* and -1 when the lookup failed.
Proxy == [handle : Handles \cup {0, -1}, found : Services \cup {Manager, None}]
         \cup {NoProxy}

Typed ==
  /\ alive \subseteq Processes
  /\ entry \in [Names -> Services \cup {None}]
  /\ buffers \in [Processes -> Int]
  /\ DOMAIN call = Callers
  /\ proxy \in [Clients -> [Names -> Proxy]]

\* A thread has something to read only in a call, and all it has is the reply
\* once binderParse has given it out.
Reads ==
  \A c \in Callers :
    /\ Orderly(todo[c])
    /\ pc[c] \in {"free", "looping"} => todo[c] = <<>>
    /\ pc[c] = "answered" /\ c \in alive => HasReply(todo[c]) /\ Len(todo[c]) = 1

\* A service has no loopers before it loops.
LoopsToServe ==
  \A s \in Services : pc[s] # "looping" =>
    \A i \in DOMAIN thread[s] : thread[s][i].st = "none"

\* Services register themselves; clients look up a name they have no proxy of,
\* or call a method of the service that they found under it.
Calling(c) == pc[c] \in {"waiting", "answered"}
ServicesRegister ==
  \A s \in Services : Calling(s) =>
    call[s].op = "addService" /\ call[s].name = NameOf[s]
ClientsCall ==
  \A c \in Clients : Calling(c) =>
    /\ call[c].name \in Names
    /\ \/ call[c].op = "getService" /\ proxy[c][call[c].name] = NoProxy
       \/ call[c].op \in Methods(call[c].name)
CallsNamed ==
  \A c \in Clients : call[c].found \in Services => NameOf[call[c].found] = call[c].name
ProxiesNamed ==
  \A c \in Clients, n \in Names :
    /\ proxy[c][n].found \in Services => NameOf[proxy[c][n].found] = n
    /\ proxy[c][n] # NoProxy /\ proxy[c][n].handle = 0 => proxy[c][n].found = Manager
Asks == ServicesRegister /\ ClientsCall /\ CallsNamed /\ ProxiesNamed

Table == [Handles -> [node : Services \cup {None}, strong : Nat]]
Tables == table \in [Callers -> Table] /\ \A c \in Callers : TableOK(table[c])
EntriesNamed == \A n \in Names : entry[n] # None => NameOf[entry[n]] = n

\* Only a lookup is answered with a service, and with one of that name; the
\* caller's handle in the reply stands for it.
LooksUp(c, s) ==
  /\ c \in Clients /\ s \in Services
  /\ call[c].op = "getService" /\ NameOf[s] = call[c].name
LookupsAnswered ==
  \A p \in Servers : \A i \in DOMAIN thread[p] :
    thread[p][i].st = "done" =>
      /\ thread[p][i].status \in {0, -1}
      /\ thread[p][i].ref # None => LooksUp(thread[p][i].from, thread[p][i].ref)
LookupsReplied ==
  \A c \in Callers : HasReply(todo[c]) /\ Last(todo[c]).handle # 0 =>
    LooksUp(c, table[c][Last(todo[c]).handle].node)

\* A call is with the process that the caller had found, and is carried out by
\* no other.
CallsGoToFound ==
  \A p \in Servers :
    /\ \A k \in DOMAIN queue[p] : call[queue[p][k]].found = p
    /\ \A i \in DOMAIN thread[p] :
         thread[p][i].st \in AtWork => call[thread[p][i].from].found = p
RanByFound ==
  \A c \in Callers :
    /\ ran[c] # <<>> => ran[c] = <<call[c].found>>
    /\ Answered(c) => ran[c] # <<>>
Serves == CallsGoToFound /\ RanByFound

\* What the manager says to a call of its own, or to one that was meant for a
\* service nobody found: hello succeeds, delListener fails, and addListener
\* never comes to it.
ManagerSays(c, ok) ==
  c \in Clients /\ call[c].found = Manager =>
    call[c].op = "getService" \/ (ok <=> call[c].op = "hello")
ManagerTakesNoListeners ==
  /\ \A k \in DOMAIN queue[Manager] : call[queue[Manager][k]].op # "addListener"
  /\ \A i \in DOMAIN thread[Manager] : thread[Manager][i].st \in AtWork =>
       call[thread[Manager][i].from].op # "addListener"
ManagerWillSay ==
  /\ \A p \in Servers : \A i \in DOMAIN thread[p] :
       thread[p][i].st = "done" =>
         ManagerSays(thread[p][i].from, thread[p][i].status = 0)
  /\ \A c \in Callers : HasReply(todo[c]) => ManagerSays(c, Last(todo[c]).status = 0)
ManagerSaid == \A c \in Callers : Answered(c) => ManagerSays(c, result[c] = "ok")
Manages == ManagerTakesNoListeners /\ ManagerWillSay /\ ManagerSaid

\* The two balances.
Work(f) == {i \in DOMAIN f : f[i].st \in AtWork}
Waiting(p) ==
  IF p \in Servers THEN Len(queue[p]) + Cardinality(Work(thread[p])) ELSE 0
ToFree(p) == IF p \in Callers THEN One(HasReply(todo[p])) ELSE 0
Buffers == \A p \in alive : buffers[p] = Waiting(p) + ToFree(p)

Holders(f, h) == {n \in Names : f[n].handle = h}
Stands(t, f, s, h) ==
  /\ t[h].strong = Cardinality(Holders(f, h)) + One(HasReply(s) /\ Last(s).handle = h)
  /\ \A n \in Holders(f, h) : t[h].node = f[n].found
Stand ==
  \A c \in Clients \cap alive : \A h \in Handles :
    Stands(table[c], proxy[c], todo[c], h)

Accounts ==
  /\ Typed /\ Reads /\ LoopsToServe /\ Asks /\ Tables /\ EntriesNamed
  /\ LookupsAnswered /\ LookupsReplied /\ Serves /\ Manages
  /\ Buffers /\ Stand
-----------------------------------------------------------------------------
(* What is read.                                                           *)

\* A caller with nothing to read is promised no reply.
LEMMA NothingToRead == Orderly(<<>>) /\ ~HasReply(<<>>)
BY DEF Orderly, HasReply

\* A queue of one command that is no error is in order, and has a reply if that
\* is one.
LEMMA OneToRead ==
  ASSUME NEW e, Plain(e)
  PROVE  /\ Orderly(<<e>>) /\ Last(<<e>>) = e
         /\ HasReply(<<e>>) <=> e.cmd = "BR_REPLY"
<1>1. /\ <<e>> \in Seq(Item) /\ Len(<<e>>) = 1 /\ <<e>>[1] = e /\ <<e>> # <<>>
      /\ DOMAIN <<e>> = {1}
  BY DEF Plain
<1>2. QED
  BY <1>1 DEF Orderly, HasReply, Last

\* A reply, or word of a failure, follows nothing but BR_TRANSACTION_COMPLETE.
LEMMA OneMoreToRead ==
  ASSUME NEW s, Orderly(s), NEW e, Plain(e),
         s # <<>> => Last(s).cmd = "BR_TRANSACTION_COMPLETE"
  PROVE  /\ Orderly(Append(s, e)) /\ Last(Append(s, e)) = e
         /\ HasReply(Append(s, e)) <=> e.cmd = "BR_REPLY"
<1> DEFINE r == Append(s, e)
<1>1. s \in Seq(Item) /\ Len(s) \in Nat /\ DOMAIN s = 1 .. Len(s) /\ e \in Item
  BY DEF Orderly, Plain
<1>2. /\ r \in Seq(Item) /\ Len(r) = Len(s) + 1 /\ DOMAIN r = 1 .. Len(s) + 1
      /\ r[Len(s) + 1] = e /\ \A k \in 1 .. Len(s) : r[k] = s[k]
  BY <1>1
<1>3. \A k \in 1 .. Len(s) : s[k].cmd = "BR_TRANSACTION_COMPLETE"
  <2>1. \A k \in 1 .. Len(s) : k # Len(s) => s[k].cmd = "BR_TRANSACTION_COMPLETE"
    BY <1>1 DEF Orderly
  <2>2. Len(s) \in 1 .. Len(s) => s[Len(s)].cmd = "BR_TRANSACTION_COMPLETE"
    BY <1>1 DEF Last
  <2>3. QED
    BY <2>1, <2>2
<1>4. r # <<>> /\ Last(r) = e
  BY <1>1, <1>2 DEF Last
<1> HIDE DEF r
<1>5. \A k \in DOMAIN r : Plain(r[k])
  <2> SUFFICES ASSUME NEW k \in DOMAIN r
               PROVE  Plain(r[k])
    OBVIOUS
  <2>1. CASE k \in 1 .. Len(s)
    BY <1>1, <1>2, <2>1 DEF Orderly
  <2>2. CASE k = Len(s) + 1
    BY <1>2, <2>2
  <2>3. QED
    BY <1>1, <1>2, <2>1, <2>2
<1>6. \A k \in DOMAIN r : k # Len(r) => r[k].cmd = "BR_TRANSACTION_COMPLETE"
  BY <1>1, <1>2, <1>3
<1>7. QED
  BY <1>2, <1>4, <1>5, <1>6 DEF r, Orderly, HasReply

\* There is one reply to be read, or none.
LEMMA RepliesToRead ==
  ASSUME NEW s, Orderly(s)
  PROVE  /\ Cardinality({k \in DOMAIN s : s[k].cmd = "BR_REPLY"}) = One(HasReply(s))
         /\ \A h \in Handles : Cardinality({k \in DOMAIN s : s[k].handle = h})
                                 = One(HasReply(s) /\ Last(s).handle = h)
<1>1. s \in Seq(Item) /\ Len(s) \in Nat /\ DOMAIN s = 1 .. Len(s)
  BY DEF Orderly
<1>2. \A k \in DOMAIN s : k # Len(s) => s[k].cmd = "BR_TRANSACTION_COMPLETE"
  BY DEF Orderly
<1>3. \A k \in DOMAIN s : s[k].cmd = "BR_REPLY" <=> HasReply(s) /\ k = Len(s)
  BY <1>1, <1>2 DEF HasReply, Last
<1>4. Cardinality({}) = 0 /\ Cardinality({Len(s)}) = 1
  BY FS_EmptySet, FS_Singleton
<1>5. HasReply(s) => Len(s) \in DOMAIN s
  BY <1>1 DEF HasReply
<1>6. {k \in DOMAIN s : s[k].cmd = "BR_REPLY"}
        = IF HasReply(s) THEN {Len(s)} ELSE {}
  BY <1>3, <1>5
<1>7. ASSUME NEW h \in Handles
      PROVE  {k \in DOMAIN s : s[k].handle = h}
               = IF HasReply(s) /\ Last(s).handle = h THEN {Len(s)} ELSE {}
  <2>1. h # 0
    BY DEF Handles
  <2>2. \A k \in DOMAIN s : s[k].handle = h => s[k].cmd = "BR_REPLY"
    BY <2>1 DEF Orderly, Plain
  <2>3. QED
    BY <1>3, <1>5, <2>2 DEF Last
<1>8. QED
  BY <1>4, <1>6, <1>7 DEF One
-----------------------------------------------------------------------------
(* Tables of handles.                                                      *)

\* A set of natural numbers that is not empty has a least one.
LEMMA LeastOf ==
  ASSUME NEW S, S \subseteq Nat, S # {}
  PROVE  \E m \in S : \A n \in S : m <= n
<1>1. \A m, n : <<n, m>> \in OpToRel(<, Nat) <=> n \in Nat /\ m \in Nat /\ n < m
  BY SMT DEF OpToRel
<1>2. \E m \in S : \A n \in S : ~(<<n, m>> \in OpToRel(<, Nat))
  BY WFMin, NatLessThanWellFounded, Zenon
<1>3. PICK m \in S : \A n \in S : ~(<<n, m>> \in OpToRel(<, Nat))
  BY <1>2
<1>4. \A n \in S : ~(n < m) /\ n \in Nat /\ m \in Nat
  BY <1>1, <1>3
<1>5. QED
  BY <1>4

\* There are as many handles as services, so one is free for a service that
\* has none.
LEMMA AHandleIsFree ==
  ASSUME NEW t, TableOK(t), NEW s \in Services, \A h \in Handles : t[h].node # s
  PROVE  \E h \in Handles : t[h].node = None
<1> SUFFICES ASSUME \A h \in Handles : t[h].node # None
             PROVE  FALSE
  OBVIOUS
<1> DEFINE f == [h \in Handles |-> t[h].node]
           T == Services \ {s}
<1>1. IsFiniteSet(Services) /\ Cardinality(Services) \in Nat
  BY ProcessesOK, FS_CardinalityType
<1>2. IsFiniteSet(T) /\ Cardinality(T) = Cardinality(Services) - 1
  BY <1>1, FS_RemoveElement
<1>3. IsFiniteSet(Handles) /\ Cardinality(Handles) = Cardinality(Services)
  <2>1. Cardinality(Services) # 0
    BY <1>1, FS_EmptySet
  <2>2. QED
    BY <1>1, <2>1, FS_Interval DEF Handles
<1>4. f \in [Handles -> T]
  BY DEF TableOK
<1>5. Cardinality(T) < Cardinality(Handles)
  BY <1>1, <1>2, <1>3
<1> HIDE DEF T
<1> DEFINE g == f
<1>0. g \in [Handles -> T] /\ \A h \in Handles : g[h] = t[h].node
  BY <1>4
<1> HIDE DEF g
<1>6. \E h, k \in Handles : h # k /\ g[h] = g[k]
  BY <1>0, <1>2, <1>3, <1>5, FS_PigeonHole
<1>7. QED
  BY <1>0, <1>6 DEF TableOK

\* getHandle gives a service the handle it has in a process, or one that is
\* free.
LEMMA HandleForIs ==
  ASSUME NEW t, TableOK(t), NEW s \in Services
  PROVE  /\ HandleFor(t, s) \in Handles
         /\ \/ t[HandleFor(t, s)].node = s
            \/ /\ t[HandleFor(t, s)].node = None
               /\ \A h \in Handles : t[h].node # s
<1>1. CASE \E h \in Handles : t[h].node = s
  BY <1>1 DEF HandleFor
<1>2. CASE \A h \in Handles : t[h].node # s
  <2> DEFINE free == {h \in Handles : t[h].node = None}
             Least(h) == /\ t[h].node = None
                         /\ \A k \in Handles : t[k].node = None => h <= k
  <2>1. free # {} /\ free \subseteq Nat
    BY <1>2, AHandleIsFree DEF Handles
  <2>2. \E h \in free : \A k \in free : h <= k
    BY <2>1, LeastOf
  <2>3. \E h \in Handles : Least(h)
    BY <2>2
  <2>4. HandleFor(t, s) = CHOOSE h \in Handles : Least(h)
    BY <1>2 DEF HandleFor
  <2> DEFINE g == CHOOSE h \in Handles : Least(h)
  <2>5. g \in Handles /\ Least(g)
    <3> HIDE DEF Least
    <3>1. QED
      BY <2>3
  <2>6. QED
    BY <1>2, <2>4, <2>5
<1>3. QED
  BY <1>1, <1>2

\* A reply takes a reference on the service that it names.
LEMMA ReferredIs ==
  ASSUME NEW t, TableOK(t), NEW s \in Services
  PROVE  LET h == HandleFor(t, s)
             u == Referred(t, s)
         IN  /\ TableOK(u) /\ h \in Handles
             /\ u[h].node = s /\ u[h].strong = t[h].strong + 1
             /\ t[h].node \in {s, None}
             /\ \A k \in Handles : k # h => u[k] = t[k]
<1> DEFINE h == HandleFor(t, s)
           u == Referred(t, s)
<1>1. /\ h \in Handles
      /\ t[h].node = s \/ (t[h].node = None /\ \A k \in Handles : t[k].node # s)
  BY HandleForIs
<1>2. u = [t EXCEPT ![h] = [node |-> s, strong |-> @.strong + 1]]
  BY DEF Referred
<1>3. None \notin Services
  BY ServersAre
<1> HIDE DEF h, u
<1>4. /\ t[h].strong \in Nat
      /\ DOMAIN u = Handles
      /\ u[h] = [node |-> s, strong |-> t[h].strong + 1]
      /\ \A k \in Handles : k # h => u[k] = t[k]
  BY <1>1, <1>2 DEF TableOK
<1>5. u \in [Handles -> [node : Services \cup {None}, strong : Nat]]
  BY <1>1, <1>2, <1>4 DEF TableOK
<1>6. \A k \in Handles : u[k].strong = 0 <=> u[k].node = None
  BY <1>3, <1>4 DEF TableOK
<1>7. \A j, k \in Handles : u[j].node = u[k].node /\ u[j].node # None => j = k
  <2>1. \A k \in Handles : k # h => t[k].node # s
    BY <1>1, <1>3 DEF TableOK
  <2>2. QED
    BY <1>4, <2>1 DEF TableOK
<1>8. QED
  BY <1>1, <1>4, <1>5, <1>6, <1>7 DEF TableOK, h, u

\* A reference that is given back is one fewer; the last one frees the handle.
LEMMA ReleaseIs ==
  ASSUME NEW t, TableOK(t), NEW h \in Handles, t[h].node # None
  PROVE  LET u == BC_RELEASE(t, h)
         IN  /\ TableOK(u)
             /\ u[h].strong = t[h].strong - 1
             /\ t[h].strong # 1 => u[h].node = t[h].node
             /\ \A k \in Handles : k # h => u[k] = t[k]
<1> DEFINE u == BC_RELEASE(t, h)
<1> DEFINE r == t[h]
           q == IF r.strong = 1 THEN NoRef ELSE [node |-> r.node, strong |-> r.strong - 1]
<1>1. u = [t EXCEPT ![h] = q]
  BY Zenon DEF BC_RELEASE
<1>2. t[h] \in [node : Services \cup {None}, strong : Nat] /\ t[h].strong # 0
  BY DEF TableOK
<1>0. q = IF t[h].strong = 1 THEN NoRef
          ELSE [node |-> t[h].node, strong |-> t[h].strong - 1]
  BY <1>2
<1>7. q \in [node : Services \cup {None}, strong : Nat]
  BY <1>0, <1>2 DEF NoRef
<1> HIDE DEF u, q
<1>3. /\ u \in [Handles -> [node : Services \cup {None}, strong : Nat]]
      /\ u[h] = IF t[h].strong = 1 THEN NoRef
                ELSE [node |-> t[h].node, strong |-> t[h].strong - 1]
      /\ \A k \in Handles : k # h => u[k] = t[k]
  BY <1>0, <1>1, <1>7 DEF TableOK
<1>4. /\ u[h].strong = t[h].strong - 1
      /\ u[h].strong = 0 <=> u[h].node = None
      /\ u[h].node = (IF t[h].strong = 1 THEN None ELSE t[h].node)
  BY <1>2, <1>3 DEF NoRef
<1>5. TableOK(u)
  BY <1>3, <1>4 DEF TableOK
<1>6. QED
  BY <1>3, <1>4, <1>5 DEF u

\* To take a reference and then give one back changes nothing.
LEMMA AcquireAndRelease ==
  ASSUME NEW t, TableOK(t), NEW h \in Handles, t[h].node # None
  PROVE  BC_RELEASE(BC_ACQUIRE(t, h), h) = t
<1> DEFINE a == BC_ACQUIRE(t, h)
           u == BC_RELEASE(a, h)
<1>1. a = [t EXCEPT ![h].strong = @ + 1]
  BY DEF BC_ACQUIRE
<1>2. t[h] \in [node : Services \cup {None}, strong : Nat] /\ t[h].strong # 0
  BY DEF TableOK
<1>3. /\ a[h] = [node |-> t[h].node, strong |-> t[h].strong + 1]
      /\ DOMAIN a = Handles /\ \A k \in Handles : k # h => a[k] = t[k]
  BY <1>1, <1>2 DEF TableOK
<1> HIDE DEF a
<1> DEFINE r == a[h]
           q == [node |-> r.node, strong |-> r.strong - 1]
<1>9. r.node # None /\ r.strong # 1
  BY <1>2, <1>3
<1>4. u = [a EXCEPT ![h] = q]
  BY <1>9, Zenon DEF BC_RELEASE
<1>10. q = t[h]
  BY <1>2, <1>3
<1> HIDE DEF u, q
<1>5. u[h] = t[h]
  BY <1>3, <1>4, <1>10
<1>6. \A k \in Handles : u[k] = t[k]
  BY <1>3, <1>4, <1>5
<1>7. u = t
  BY <1>3, <1>4, <1>6 DEF TableOK
<1>8. QED
  BY <1>7 DEF u, a

\* A number that is no handle is refused.
LEMMA NoHandle ==
  ASSUME NEW t, NEW h, h \notin Handles
  PROVE  BC_RELEASE(t, h) = t /\ BC_ACQUIRE(t, h) = t
BY DEF BC_RELEASE, BC_ACQUIRE
-----------------------------------------------------------------------------
(* Loopers at work, and holders of handles.                                *)

\* The loopers of a process that are at work are finitely many.
LEMMA WorkIsFinite ==
  ASSUME NEW f, NEW n \in Nat, DOMAIN f = 0 .. n
  PROVE  IsFiniteSet(Work(f)) /\ Cardinality(Work(f)) \in Nat
<1>1. IsFiniteSet(0 .. n)
  BY FS_Interval
<1>2. Work(f) \subseteq 0 .. n
  BY DEF Work
<1>3. IsFiniteSet(Work(f))
  BY <1>1, <1>2, FS_Subset
<1>4. QED
  BY <1>3, FS_CardinalityType

\* Loopers that stay at work, or at rest, leave the count of the work as it is.
LEMMA SameWork ==
  ASSUME NEW f, NEW g, DOMAIN f = DOMAIN g,
         \A i \in DOMAIN f : f[i].st \in AtWork <=> g[i].st \in AtWork
  PROVE  Work(g) = Work(f)
BY DEF Work

\* One more looper is at work.
LEMMA MoreWork ==
  ASSUME NEW f, NEW g, NEW n \in Nat, DOMAIN f = 0 .. n, DOMAIN g = 0 .. n,
         NEW i \in 0 .. n, f[i].st \notin AtWork, g[i].st \in AtWork,
         \A j \in 0 .. n : j # i => (f[j].st \in AtWork <=> g[j].st \in AtWork)
  PROVE  Cardinality(Work(g)) = Cardinality(Work(f)) + 1
<1>1. Work(g) = Work(f) \cup {i} /\ i \notin Work(f)
  BY DEF Work
<1>2. IsFiniteSet(Work(f))
  BY WorkIsFinite
<1>3. QED
  BY <1>1, <1>2, FS_AddElement

\* The names that hold a handle are finitely many.
LEMMA HoldersAreFinite ==
  ASSUME NEW f, NEW h
  PROVE  IsFiniteSet(Holders(f, h)) /\ Cardinality(Holders(f, h)) \in Nat
<1>1. IsFiniteSet({} \cup {"TestService"})
  BY FS_EmptySet, FS_AddElement
<1>2. IsFiniteSet(({} \cup {"TestService"}) \cup {"InputManager"})
  BY <1>1, FS_AddElement
<1>3. Names = ({} \cup {"TestService"}) \cup {"InputManager"}
  BY DEF Names
<1>4. Holders(f, h) \subseteq Names
  BY DEF Holders
<1>5. IsFiniteSet(Holders(f, h))
  BY <1>2, <1>3, <1>4, FS_Subset
<1>6. QED
  BY <1>5, FS_CardinalityType

\* A proxy that no longer has the handle, and one that has got it.
LEMMA FewerHolders ==
  ASSUME NEW f, NEW g, NEW n \in Names, NEW h, f[n].handle = h, g[n].handle # h,
         \A m \in Names : m # n => g[m] = f[m]
  PROVE  Cardinality(Holders(g, h)) = Cardinality(Holders(f, h)) - 1
<1>1. Holders(g, h) = Holders(f, h) \ {n} /\ n \in Holders(f, h)
  BY DEF Holders
<1>2. QED
  BY <1>1, HoldersAreFinite, FS_RemoveElement

\* A name that comes to hold a handle is one more holder of it.
LEMMA MoreHolders ==
  ASSUME NEW f, NEW g, NEW n \in Names, NEW h, f[n].handle # h, g[n].handle = h,
         \A m \in Names : m # n => g[m] = f[m]
  PROVE  Cardinality(Holders(g, h)) = Cardinality(Holders(f, h)) + 1
<1>1. Holders(g, h) = Holders(f, h) \cup {n} /\ n \notin Holders(f, h)
  BY DEF Holders
<1>2. QED
  BY <1>1, HoldersAreFinite, FS_AddElement

\* A name that neither comes to hold a handle nor gives it up leaves its
\* holders.
LEMMA SameHolders ==
  ASSUME NEW f, NEW g, NEW h,
         \A m \in Names : g[m].handle = h <=> f[m].handle = h
  PROVE  Holders(g, h) = Holders(f, h)
BY DEF Holders

\* The handle of a reply, and that of a proxy, is in use.
LEMMA InUse ==
  ASSUME NEW t, TableOK(t), NEW f, NEW s, NEW h \in Handles, Stands(t, f, s, h),
         \/ HasReply(s) /\ Last(s).handle = h
         \/ Holders(f, h) # {}
  PROVE  t[h].node # None /\ t[h].strong \in Nat \ {0}
<1>1. Cardinality(Holders(f, h)) \in Nat
  BY HoldersAreFinite
<1>2. Holders(f, h) # {} => Cardinality(Holders(f, h)) # 0
  BY HoldersAreFinite, FS_EmptySet
<1>3. t[h].strong \in Nat /\ t[h].strong # 0
  BY <1>1, <1>2 DEF Stands, One, TableOK
<1>4. QED
  BY <1>3 DEF TableOK
-----------------------------------------------------------------------------
(* One lemma for each step.                                                *)

\* The accounts are settled before the first call.
LEMMA InitAccounts == Init => Accounts
<1> SUFFICES ASSUME Init
             PROVE  Accounts
  OBVIOUS
<1> USE ServersAre, ConstantsOK
<1>1. Typed
  BY DEF Init, Typed, Proxy, Processes
<1>2. Reads
  BY NothingToRead DEF Init, Reads
<1>3. LoopsToServe
  BY ProcessesOK DEF Init, LoopsToServe, Thread, Callers
<1>4. Asks
  BY ProcessesOK DEF Init, Asks, ServicesRegister, ClientsCall, CallsNamed, ProxiesNamed,
     Calling, NoCall, NoProxy, Processes
<1>5. Tables
  BY DEF Init, Tables, Table, TableOK, NoRef
<1>6. EntriesNamed
  BY DEF Init, EntriesNamed
<1>7. \A p \in Servers : \A i \in DOMAIN thread[p] : thread[p][i].st \notin AtWork
  BY DEF Init, Looping, Thread, AtWork
<1>8. LookupsAnswered /\ LookupsReplied
  BY <1>7, NothingToRead DEF Init, LookupsAnswered, LookupsReplied, AtWork
<1>9. Serves
  BY <1>7 DEF Init, Serves, CallsGoToFound, RanByFound, Answered
<1>10. Manages
  <2>1. Manager \in Servers
    BY DEF Servers
  <2>2. ManagerTakesNoListeners
    BY <1>7, <2>1 DEF Init, ManagerTakesNoListeners
  <2>3. ManagerWillSay /\ ManagerSaid
    BY <1>7, NothingToRead DEF Init, ManagerWillSay, ManagerSaid, Answered, AtWork
  <2>4. QED
    BY <2>2, <2>3 DEF Manages
<1>11. Buffers
  <2>1. \A p \in Servers : Work(thread[p]) = {}
    BY <1>7 DEF Work
  <2>2. \A p \in Servers : Waiting(p) = 0
    <3>1. \A p \in Servers : queue[p] = <<>>
      BY DEF Init
    <3>2. \A p \in Servers : Cardinality(Work(thread[p])) = 0
      BY <2>1, FS_EmptySet
    <3>3. QED
      BY <3>1, <3>2 DEF Waiting
  <2>3. \A c \in Callers : ToFree(c) = 0
    BY NothingToRead DEF Init, ToFree, One
  <2>4. QED
    BY <2>2, <2>3 DEF Init, Buffers, Waiting, ToFree
<1>12. Stand
  <2> SUFFICES ASSUME NEW c \in Clients, NEW h \in Handles
               PROVE  Stands(table[c], proxy[c], todo[c], h)
    BY DEF Stand
  <2>1. \A n \in Names : proxy[c][n].handle # h
    BY NoneIsNoHandle DEF Init, NoProxy
  <2>2. Holders(proxy[c], h) = {}
    BY <2>1 DEF Holders
  <2>3. table[c][h].strong = 0 /\ ~HasReply(todo[c])
    BY NothingToRead DEF Init, NoRef
  <2>4. QED
    BY <2>2, <2>3, FS_EmptySet DEF Stands, One
<1>13. QED
  BY <1>1, <1>2, <1>3, <1>4, <1>5, <1>6, <1>8, <1>9, <1>10, <1>11, <1>12 DEF Accounts

\* A looper that comes back has nobody else's work changed; the one it asks for
\* was not used before.
LEMMA ComesBackIs ==
  ASSUME TypeOK, NEW p \in Servers, NEW i \in DOMAIN thread[p],
         NEW t, ComesBack(p, i, t), thread[p][i].st # "none"
  PROVE  /\ \A q \in Servers : q # p => thread'[q] = thread[q]
         /\ thread'[p][i] = t
         /\ \A j \in DOMAIN thread[p] :
              \/ j = i
              \/ thread'[p][j] = thread[p][j]
              \/ thread[p][j].st \notin AtWork /\ thread'[p][j].st \notin AtWork
<1> USE DEF TypeOK
<1>1. CASE BR_SPAWN_LOOPER(p, i)
  <2> DEFINE n == CHOOSE j \in Unused(p) : TRUE
  <2>1. n \in Unused(p)
    BY <1>1 DEF BR_SPAWN_LOOPER
  <2>2. n \in DOMAIN thread[p] /\ n # i /\ thread[p][n].st = "none"
    BY <2>1 DEF Unused
  <2>3. PICK st \in {"created", "lost"} :
          thread' = [thread EXCEPT ![p][i] = t, ![p][n] = Thread(st, None)]
    BY <1>1 DEF ComesBack
  <2> HIDE DEF n
  <2>4. thread'[p][n] = Thread(st, None)
    BY <2>2, <2>3
  <2>5. thread'[p][n].st \notin AtWork /\ thread[p][n].st \notin AtWork
    BY <2>2, <2>4 DEF Thread, AtWork
  <2>6. QED
    BY <2>2, <2>3, <2>5
<1>2. CASE ~BR_SPAWN_LOOPER(p, i)
  <2>1. thread' = [thread EXCEPT ![p][i] = t]
    BY <1>2 DEF ComesBack
  <2>2. QED
    BY <2>1
<1>3. QED
  BY <1>1, <1>2

\* What is said of loopers at work holds of fewer of them.
LoopersSame ==
  \A p \in Servers : \A i \in DOMAIN thread[p] :
    thread'[p][i] = thread[p][i] \/ thread'[p][i].st \notin AtWork

\* Where no call and no looper changes, and queues are only emptied, what calls
\* and loopers say of each other stays.
LEMMA LoopersKeep ==
  ASSUME IInv, TypeOK', Accounts, LoopersSame, UNCHANGED call,
         \A p \in Servers : queue'[p] \in {queue[p], <<>>}
  PROVE  CallsGoToFound' /\ LookupsAnswered' /\ ManagerTakesNoListeners'
<1> USE DEF Accounts, LoopersSame, IInv, TypeOK
<1>1. \A p \in Servers : DOMAIN thread'[p] = DOMAIN thread[p]
  OBVIOUS
<1>2. \A p \in Servers : \A i \in DOMAIN thread[p] :
        thread'[p][i].st \in AtWork => thread'[p][i] = thread[p][i]
  OBVIOUS
<1>3. \A p \in Servers : \A k \in DOMAIN queue'[p] :
        k \in DOMAIN queue[p] /\ queue'[p][k] = queue[p][k]
  OBVIOUS
<1>4. CallsGoToFound'
  BY <1>1, <1>2, <1>3 DEF Serves, CallsGoToFound
<1>5. LookupsAnswered'
  BY <1>1, <1>2 DEF LookupsAnswered, LooksUp, AtWork
<1>6. Manager \in Servers
  BY DEF Servers
<1>7. ManagerTakesNoListeners'
  BY <1>1, <1>2, <1>3, <1>6 DEF Manages, ManagerTakesNoListeners
<1>8. QED
  BY <1>4, <1>5, <1>7

\* Where no call and no looper changes, the answer that the service manager
\* promises stays, if no caller is sent a reply.
LEMMA WillSayKeeps ==
  ASSUME IInv, TypeOK', Accounts, LoopersSame, UNCHANGED call,
         \A c \in Callers : HasReply(todo'[c]) =>
           HasReply(todo[c]) /\ Last(todo'[c]) = Last(todo[c])
  PROVE  ManagerWillSay'
<1> USE DEF Accounts, LoopersSame, IInv, TypeOK
<1>1. \A p \in Servers : DOMAIN thread'[p] = DOMAIN thread[p]
  OBVIOUS
<1>2. \A p \in Servers : \A i \in DOMAIN thread[p] :
        thread'[p][i].st \in AtWork => thread'[p][i] = thread[p][i]
  OBVIOUS
<1>3. \A p \in Servers : \A i \in DOMAIN thread'[p] :
        (thread[p][i].st = "done" =>
           ManagerSays(thread[p][i].from, thread[p][i].status = 0))'
  <2> SUFFICES ASSUME NEW p \in Servers, NEW i \in DOMAIN thread'[p],
                      thread'[p][i].st = "done"
               PROVE  ManagerSays(thread[p][i].from, thread[p][i].status = 0)'
    OBVIOUS
  <2>1. i \in DOMAIN thread[p] /\ thread'[p][i] = thread[p][i]
    BY <1>1, <1>2 DEF AtWork
  <2>2. ManagerSays(thread[p][i].from, thread[p][i].status = 0)
    BY <2>1 DEF Manages, ManagerWillSay
  <2>3. QED
    BY <2>1, <2>2 DEF ManagerSays
<1>4. \A c \in Callers :
        (HasReply(todo[c]) => ManagerSays(c, Last(todo[c]).status = 0))'
  BY DEF Manages, ManagerWillSay, ManagerSays
<1>5. QED
  BY <1>3, <1>4 DEF ManagerWillSay

\* As many calls are waiting when no looper takes or ends one.
LEMMA SameWaiting ==
  ASSUME TypeOK, TypeOK', NEW p,
         p \in Servers => /\ queue'[p] = queue[p]
                          /\ \A i \in DOMAIN thread[p] :
                               thread'[p][i].st \in AtWork <=> thread[p][i].st \in AtWork
  PROVE  Waiting(p)' = Waiting(p)
<1>1. CASE p \in Servers
  <2>1. DOMAIN thread'[p] = DOMAIN thread[p]
    BY <1>1 DEF TypeOK
  <2>2. Work(thread'[p]) = Work(thread[p])
    BY <1>1, <2>1, SameWork
  <2>3. QED
    BY <1>1, <2>2 DEF Waiting
<1>2. CASE p \notin Servers
  BY <1>2 DEF Waiting
<1>3. QED
  BY <1>1, <1>2

\* Rests, LooperStarts, ForgetsDead and stuttering.
LEMMA QuietAccounts ==
  ASSUME IInv, TypeOK', Accounts, UNCHANGED <<alive, callerVars, driverVars>>,
         entry' \in [Names -> Services \cup {None}], EntriesNamed', LoopsToServe',
         \A p \in Servers : \A i \in DOMAIN thread[p] :
           \/ thread'[p][i] = thread[p][i]
           \/ thread[p][i].st \notin AtWork /\ thread'[p][i].st \notin AtWork
  PROVE  Accounts'
<1> USE DEF Accounts, IInv, callerVars, driverVars
<1>1. Typed' /\ Reads' /\ Asks' /\ Tables'
  BY DEF Typed, Reads, Asks, ServicesRegister, ClientsCall, CallsNamed, ProxiesNamed,
         Calling, Tables
<1>2. LoopersSame
  BY DEF LoopersSame
<1>3. CallsGoToFound' /\ LookupsAnswered' /\ ManagerTakesNoListeners' /\ ManagerWillSay'
  BY <1>2, LoopersKeep, WillSayKeeps
<1>4. LookupsReplied' /\ RanByFound' /\ ManagerSaid'
  BY DEF LookupsReplied, LooksUp, Serves, RanByFound, Answered, Manages, ManagerSaid,
         ManagerSays
<1>5. \A p : Waiting(p)' = Waiting(p)
  BY SameWaiting
<1>6. Buffers' /\ Stand'
  BY <1>5 DEF Buffers, ToFree, Stand
<1>7. QED
  BY <1>1, <1>3, <1>4, <1>6 DEF Serves, Manages

\* A looper that has replied and waits again keeps the accounts.
LEMMA RestsAccounts ==
  ASSUME IInv, TypeOK', Accounts, NEW p \in Servers, NEW i \in DOMAIN thread[p],
         Rests(p, i)
  PROVE  Accounts'
<1> USE DEF Rests
<1>1. /\ \A q \in Servers : q # p => thread'[q] = thread[q]
      /\ thread'[p][i] = Looping
      /\ \A j \in DOMAIN thread[p] :
           \/ j = i
           \/ thread'[p][j] = thread[p][j]
           \/ thread[p][j].st \notin AtWork /\ thread'[p][j].st \notin AtWork
  BY ComesBackIs DEF IInv
<1>2. thread[p][i].st \notin AtWork /\ thread'[p][i].st \notin AtWork
  BY <1>1 DEF AtWork, Looping, Thread
<1>3. \A q \in Servers : \A j \in DOMAIN thread[q] :
        \/ thread'[q][j] = thread[q][j]
        \/ thread[q][j].st \notin AtWork /\ thread'[q][j].st \notin AtWork
  BY <1>1, <1>2
<1>4. p \in Services => pc[p] = "looping"
  BY DEF Accounts, LoopsToServe
<1>5. LoopsToServe'
  <2>1. \A s \in Services : s # p => thread'[s] = thread[s]
    BY <1>1, ServersAre
  <2>2. QED
    BY <1>4, <2>1 DEF Accounts, LoopsToServe, callerVars
<1>6. entry' \in [Names -> Services \cup {None}] /\ EntriesNamed'
  BY DEF Accounts, Typed, EntriesNamed
<1>7. QED
  BY <1>3, <1>5, <1>6, QuietAccounts

\* A looper that starts keeps the accounts.
LEMMA LooperStartsAccounts ==
  ASSUME IInv, TypeOK', Accounts, NEW p \in Servers, NEW i \in DOMAIN thread[p],
         LooperStarts(p, i)
  PROVE  Accounts'
<1> USE DEF LooperStarts
<1>1. PICK t \in {Looping, Thread("lost", None)} :
        thread' = [thread EXCEPT ![p][i] = t]
  OBVIOUS
<1>2. t.st \notin AtWork /\ thread[p][i].st \notin AtWork
  BY DEF AtWork, Looping, Thread
<1>3. /\ \A q \in Servers : q # p => thread'[q] = thread[q]
      /\ \A j \in DOMAIN thread[p] : j # i => thread'[p][j] = thread[p][j]
      /\ thread'[p][i] = t
  BY <1>1 DEF IInv, TypeOK
<1>4. p \in Services => pc[p] = "looping"
  BY DEF Accounts, LoopsToServe
<1>5. LoopsToServe'
  BY <1>3, <1>4, ServersAre DEF Accounts, LoopsToServe, callerVars, IInv, TypeOK
<1>6. entry' \in [Names -> Services \cup {None}] /\ EntriesNamed'
  BY DEF Accounts, Typed, EntriesNamed
<1>7. \A q \in Servers : \A j \in DOMAIN thread[q] :
        \/ thread'[q][j] = thread[q][j]
        \/ thread[q][j].st \notin AtWork /\ thread'[q][j].st \notin AtWork
  BY <1>2, <1>3
<1>8. QED
  BY <1>5, <1>6, <1>7, QuietAccounts

\* A service manager that forgets a dead service keeps the accounts.
LEMMA ForgetsDeadAccounts ==
  ASSUME IInv, TypeOK', Accounts, NEW n \in Names, ForgetsDead(n)
  PROVE  Accounts'
<1> USE DEF ForgetsDead
<1>1. entry' \in [Names -> Services \cup {None}] /\ EntriesNamed'
  BY DEF Accounts, Typed, EntriesNamed
<1>2. LoopsToServe'
  BY DEF Accounts, LoopsToServe, callerVars
<1>3. QED
  BY <1>1, <1>2, QuietAccounts

\* What the driver does with a transaction.
LEMMA TransactionDoes ==
  ASSUME Accounts, NEW c \in Callers, NEW h, NEW op, BC_TRANSACTION(c, h, op)
  PROVE  /\ table' = table
         /\ \E cmd \in Commands \ {"BR_REPLY"} :
              /\ todo' = [todo EXCEPT ![c] = <<Return(cmd)>>]
              /\ \/ buffers' = buffers /\ queue' = queue
                 \/ \E p \in Servers :
                      /\ p = Target(c, h)
                      /\ p = Manager => op # "addListener"
                      /\ buffers' = [buffers EXCEPT ![p] = @ + 1]
                      /\ queue' = [queue EXCEPT ![p] = Append(@, c)]
<1>1. CASE Refusal(c, h, op) # "none"
  <2>1. Refusal(c, h, op) \in Commands \ {"BR_REPLY"}
    BY <1>1 DEF Refusal, Commands
  <2>2. QED
    BY <1>1, <2>1 DEF BC_TRANSACTION
<1>2. CASE Refusal(c, h, op) = "none"
  <2> DEFINE p == Target(c, h)
  <2>1. p # None /\ (p = Manager => op # "addListener")
    BY <1>2 DEF Refusal
  <2>2. p \in Servers
    <3>1. \A k \in Handles : table[c][k].node \in Services \cup {None}
      BY DEF Accounts, Tables, TableOK
    <3>2. QED
      BY <2>1, <3>1 DEF Target, Servers
  <2>3. QED
    BY <1>2, <2>1, <2>2 DEF BC_TRANSACTION, Commands
<1>3. QED
  BY <1>1, <1>2

\* A caller that is free, or has heard its reply, is in no place.
LEMMA NotWaiting ==
  ASSUME IInv, NEW c, pc[c] # "waiting"
  PROVE  /\ \A p \in Servers : \A k \in DOMAIN queue[p] : queue[p][k] # c
         /\ \A p \in Servers : \A i \in DOMAIN thread[p] :
              thread[p][i].st \in AtWork => thread[p][i].from # c
BY DEF IInv, Places, QueuedWait, WorkedOnWait

\* A command from the driver that is no reply.
LEMMA ReturnIsPlain ==
  ASSUME NEW cmd \in Commands \ {"BR_REPLY"}
  PROVE  Plain(Return(cmd)) /\ Return(cmd).cmd = cmd
BY DEF Plain, Return, Item

\* The calls: to the process that was found, or to nobody.
LEMMA CallAccounts ==
  ASSUME IInv, TypeOK', Accounts, NEW c \in Callers, NEW op, NEW n \in Names, NEW x,
         Call(c, op, n, x), Target(c, x.handle) \in {x.found, None},
         c \in Services => op = "addService" /\ n = NameOf[c],
         c \in Clients => /\ \/ op = "getService" /\ proxy[c][n] = NoProxy
                             \/ op \in Methods(n)
                          /\ x.found \in Services => NameOf[x.found] = n
  PROVE  Accounts'
<1> USE DEF Accounts
<1>1. /\ pc[c] = "free" /\ pc' = [pc EXCEPT ![c] = "waiting"]
      /\ call' = [call EXCEPT ![c] =
           [op |-> op, name |-> n, handle |-> x.handle, found |-> x.found]]
      /\ ran' = [ran EXCEPT ![c] = <<>>] /\ result' = [result EXCEPT ![c] = "none"]
      /\ UNCHANGED <<alive, entry, proxy, thread>>
      /\ BC_TRANSACTION(c, x.handle, op)
  BY DEF Call
<1>2. /\ pc'[c] = "waiting" /\ ran'[c] = <<>> /\ result'[c] = "none"
      /\ call'[c].op = op /\ call'[c].name = n /\ call'[c].found = x.found
      /\ DOMAIN call' = Callers
      /\ \A d \in Callers : d # c => /\ pc'[d] = pc[d] /\ call'[d] = call[d]
                                     /\ ran'[d] = ran[d] /\ result'[d] = result[d]
  BY <1>1 DEF IInv, TypeOK, Typed
<1>3. table' = table
  BY <1>1, TransactionDoes
<1>4. PICK cmd \in Commands \ {"BR_REPLY"} :
        /\ todo' = [todo EXCEPT ![c] = <<Return(cmd)>>]
        /\ \/ buffers' = buffers /\ queue' = queue
           \/ \E p \in Servers :
                /\ p = Target(c, x.handle)
                /\ p = Manager => op # "addListener"
                /\ buffers' = [buffers EXCEPT ![p] = @ + 1]
                /\ queue' = [queue EXCEPT ![p] = Append(@, c)]
  BY <1>1, TransactionDoes
<1>5. todo'[c] = <<Return(cmd)>> /\ \A d \in Callers : d # c => todo'[d] = todo[d]
  BY <1>4 DEF IInv, TypeOK
<1>6. Orderly(todo'[c]) /\ ~HasReply(todo'[c]) /\ ~HasReply(todo[c])
  <2>1. todo[c] = <<>>
    BY <1>1 DEF Reads
  <2>2. QED
    BY <1>5, <2>1, ReturnIsPlain, OneToRead, NothingToRead
<1>7. /\ \A p \in Servers : \A k \in DOMAIN queue[p] :
           queue[p][k] # c /\ queue[p][k] \in Callers
      /\ \A p \in Servers : \A i \in DOMAIN thread[p] :
           thread[p][i].st \in AtWork => thread[p][i].from # c
                                         /\ thread[p][i].from \in Callers
  <2>1. pc[c] # "waiting"
    BY <1>1
  <2>2. /\ \A p \in Servers : \A k \in DOMAIN queue[p] : queue[p][k] # c
        /\ \A p \in Servers : \A i \in DOMAIN thread[p] :
             thread[p][i].st \in AtWork => thread[p][i].from # c
    BY <2>1, NotWaiting
  <2>3. \A p \in Servers : \A k \in DOMAIN queue[p] : queue[p][k] \in Callers
    BY DEF IInv, TypeOK
  <2>4. QED
    BY <2>2, <2>3 DEF IInv, Places, LoopersWork
<1>8. \A p \in Servers : \A k \in DOMAIN queue'[p] :
        \/ k \in DOMAIN queue[p] /\ queue'[p][k] = queue[p][k]
        \/ /\ queue'[p][k] = c /\ p = x.found
           /\ p = Manager => op # "addListener"
  <2>1. CASE queue' = queue
    BY <2>1
  <2>2. CASE \E p \in Servers :
               /\ p = Target(c, x.handle)
               /\ p = Manager => op # "addListener"
               /\ queue' = [queue EXCEPT ![p] = Append(@, c)]
    <3>1. PICK p \in Servers :
               /\ p = Target(c, x.handle)
               /\ p = Manager => op # "addListener"
               /\ queue' = [queue EXCEPT ![p] = Append(@, c)]
      BY <2>2
    <3>2. p = x.found
      BY <3>1, ServersAre, ProcessesOK DEF Servers, Processes, Callers
    <3>3. queue[p] \in Seq(Callers) /\ queue'[p] = Append(queue[p], c)
          /\ \A q \in Servers : q # p => queue'[q] = queue[q]
      BY <3>1 DEF IInv, TypeOK
    <3>4. \A k \in DOMAIN queue'[p] :
            (k \in DOMAIN queue[p] /\ queue'[p][k] = queue[p][k]) \/ queue'[p][k] = c
      BY <3>3
    <3>5. QED
      BY <3>1, <3>2, <3>3, <3>4
  <2>3. QED
    BY <1>4, <2>1, <2>2
<1>9. Typed' /\ Reads'
  <2>1. buffers' \in [Processes -> Int]
    BY <1>4 DEF Typed, Processes, Servers, Callers
  <2>2. Typed'
    BY <1>1, <1>2, <2>1 DEF Typed
  <2>3. Reads'
    BY <1>1, <1>2, <1>5, <1>6 DEF Reads
  <2>4. QED
    BY <2>2, <2>3
<1>10. LoopsToServe'
  BY <1>1, <1>2, ServersAre DEF LoopsToServe
<1>11. Asks'
  <2>1. ServicesRegister' /\ ClientsCall'
    BY <1>1, <1>2, ServersAre DEF Asks, ServicesRegister, ClientsCall, Calling
  <2>2. CallsNamed' /\ ProxiesNamed'
    BY <1>1, <1>2, ServersAre DEF Asks, CallsNamed, ProxiesNamed
  <2>3. QED
    BY <2>1, <2>2 DEF Asks
<1>12. Tables' /\ EntriesNamed'
  BY <1>1, <1>3 DEF Tables, EntriesNamed
<1>13. LookupsAnswered'
  BY <1>1, <1>2, <1>7 DEF LookupsAnswered, LooksUp, AtWork
<1>14. LookupsReplied'
  BY <1>2, <1>3, <1>5, <1>6 DEF LookupsReplied, LooksUp
<1>15. Serves'
  <2>1. CallsGoToFound'
    BY <1>1, <1>2, <1>7, <1>8 DEF Serves, CallsGoToFound
  <2>2. RanByFound'
    BY <1>2 DEF Serves, RanByFound, Answered
  <2>3. QED
    BY <2>1, <2>2 DEF Serves
<1>16. Manages'
  <2>1. ManagerTakesNoListeners'
    <3>1. Manager \in Servers
      BY DEF Servers
    <3>2. QED
      BY <1>1, <1>2, <1>7, <1>8, <3>1 DEF Manages, ManagerTakesNoListeners
  <2>2. ManagerWillSay'
    <3>1. \A p \in Servers : \A i \in DOMAIN thread'[p] :
            (thread[p][i].st = "done" =>
               ManagerSays(thread[p][i].from, thread[p][i].status = 0))'
      BY <1>1, <1>2, <1>7 DEF Manages, ManagerWillSay, ManagerSays, AtWork
    <3>2. \A d \in Callers :
            (HasReply(todo[d]) => ManagerSays(d, Last(todo[d]).status = 0))'
      BY <1>2, <1>5, <1>6 DEF Manages, ManagerWillSay, ManagerSays
    <3>3. QED
      BY <3>1, <3>2 DEF ManagerWillSay
  <2>3. ManagerSaid'
    BY <1>2 DEF Manages, ManagerSaid, ManagerSays, Answered
  <2>4. QED
    BY <2>1, <2>2, <2>3 DEF Manages
<1>17. Buffers'
  <2>1. \A p : ToFree(p)' = ToFree(p)
    <3> SUFFICES ASSUME NEW p
                 PROVE  ToFree(p)' = ToFree(p)
      OBVIOUS
    <3>1. p \in Callers => (HasReply(todo'[p]) <=> HasReply(todo[p]))
      BY <1>5, <1>6
    <3>2. QED
      BY <3>1 DEF ToFree, One
  <2>2. CASE buffers' = buffers /\ queue' = queue
    BY <1>1, <2>1, <2>2 DEF Buffers, Waiting
  <2>3. CASE \E p \in Servers : /\ buffers' = [buffers EXCEPT ![p] = @ + 1]
                                /\ queue' = [queue EXCEPT ![p] = Append(@, c)]
    <3>1. PICK p \in Servers : /\ buffers' = [buffers EXCEPT ![p] = @ + 1]
                               /\ queue' = [queue EXCEPT ![p] = Append(@, c)]
      BY <2>3
    <3>2. /\ queue[p] \in Seq(Callers) /\ queue'[p] = Append(queue[p], c)
          /\ \A q \in Servers : q # p => queue'[q] = queue[q]
      BY <3>1 DEF IInv, TypeOK
    <3>3. Len(queue'[p]) = Len(queue[p]) + 1 /\ Len(queue[p]) \in Nat
      BY <3>2
    <3>4. MaxThreads[p] \in Nat /\ DOMAIN thread[p] = 0 .. MaxThreads[p]
      BY ConstantsOK DEF IInv, TypeOK
    <3>5. Cardinality(Work(thread[p])) \in Nat
      BY <3>4, WorkIsFinite
    <3>6. Waiting(p)' = Waiting(p) + 1 /\ Waiting(p) \in Nat
      <4>1. Waiting(p) = Len(queue[p]) + Cardinality(Work(thread[p]))
        BY <3>1 DEF Waiting
      <4>2. Waiting(p)' = Len(queue'[p]) + Cardinality(Work(thread[p]))
        BY <1>1, <3>1 DEF Waiting
      <4> QED
        BY <4>1, <4>2, <3>3, <3>5
    <3>7. \A q : q # p => Waiting(q)' = Waiting(q)
      BY <1>1, <3>2 DEF Waiting
    <3>8. /\ p \in Processes
          /\ buffers'[p] = buffers[p] + 1 /\ \A q \in Processes : q # p => buffers'[q] = buffers[q]
      BY <3>1, ServersAre DEF Typed, Processes, Servers, Callers
    <3>9. ToFree(p) \in Nat
      BY DEF ToFree, One
    <3>10. SUFFICES ASSUME NEW q \in alive
                    PROVE  buffers'[q] = Waiting(q)' + ToFree(q)'
      BY <1>1 DEF Buffers
    <3>11. buffers[q] = Waiting(q) + ToFree(q) /\ q \in Processes
      BY DEF Buffers, Typed
    <3>12. CASE q = p
      <4>1. buffers'[q] = Waiting(q) + ToFree(q) + 1
        BY <3>8, <3>11, <3>12
      <4>2. QED
        BY <2>1, <3>6, <3>9, <3>12, <4>1
    <3>13. CASE q # p
      BY <2>1, <3>7, <3>8, <3>11, <3>13
    <3>14. QED
      BY <3>12, <3>13
  <2>4. QED
    BY <1>4, <2>2, <2>3
<1>18. Stand'
  BY <1>1, <1>3, <1>5, <1>6, ServersAre DEF Stand, Stands
<1>19. QED
  BY <1>9, <1>10, <1>11, <1>12, <1>13, <1>14, <1>15, <1>16, <1>17, <1>18

\* TurnsAgain and HearsReply: the reply that is there stays there.
LEMMA ReadingAccounts ==
  ASSUME IInv, TypeOK', Accounts, NEW c \in Callers, pc[c] = "waiting",
         pc' = pc \/ (pc' = [pc EXCEPT ![c] = "answered"] /\ Len(todo'[c]) = 1
                      /\ HasReply(todo'[c])),
         UNCHANGED <<alive, entry, call, ran, result, proxy, table, buffers, queue, thread>>,
         Orderly(todo'[c]), HasReply(todo'[c]) <=> HasReply(todo[c]),
         HasReply(todo[c]) => Last(todo'[c]) = Last(todo[c]),
         \A d \in Callers : d # c => todo'[d] = todo[d]
  PROVE  Accounts'
<1> USE DEF Accounts
<1>1. \A d \in Callers : \/ pc'[d] = pc[d]
                         \/ d = c /\ pc'[d] = "answered" /\ pc[d] = "waiting"
  BY DEF IInv, TypeOK
<1>2. \A d \in Callers : /\ HasReply(todo'[d]) <=> HasReply(todo[d])
                         /\ HasReply(todo[d]) => Last(todo'[d]) = Last(todo[d])
  OBVIOUS
<1>3. Reads'
  <2>1. \A d \in Callers : d # c => pc'[d] = pc[d]
    BY <1>1
  <2>2. pc'[c] = "answered" => HasReply(todo'[c]) /\ Len(todo'[c]) = 1
    BY DEF IInv, TypeOK
  <2>3. pc'[c] \in {"waiting", "answered"}
    BY <1>1
  <2>4. QED
    BY <2>1, <2>2, <2>3 DEF Reads
<1>4. Typed' /\ LoopsToServe' /\ Tables' /\ EntriesNamed'
  BY <1>1, ServersAre DEF Typed, LoopsToServe, Tables, EntriesNamed
<1>5. Asks'
  BY <1>1, ServersAre DEF Asks, ServicesRegister, ClientsCall, CallsNamed, ProxiesNamed,
                          Calling
<1>6. LoopersSame /\ \A p \in Servers : queue'[p] \in {queue[p], <<>>}
  BY DEF LoopersSame
<1>7. CallsGoToFound' /\ LookupsAnswered' /\ ManagerTakesNoListeners' /\ ManagerWillSay'
  BY <1>2, <1>6, LoopersKeep, WillSayKeeps
<1>8. LookupsReplied'
  BY <1>2 DEF LookupsReplied, LooksUp
<1>9. RanByFound' /\ ManagerSaid'
  BY DEF Serves, RanByFound, Answered, Manages, ManagerSaid, ManagerSays
<1>10. Buffers'
  BY <1>2 DEF Buffers, Waiting, ToFree, One
<1>11. Stand'
  BY <1>2, ServersAre DEF Stand, Stands, One
<1>12. QED
  BY <1>3, <1>4, <1>5, <1>7, <1>8, <1>9, <1>10, <1>11 DEF Serves, Manages

\* A caller that goes once more through its loop keeps the accounts.
LEMMA TurnsAgainAccounts ==
  ASSUME IInv, TypeOK', Accounts, NEW c \in Callers, TurnsAgain(c)
  PROVE  Accounts'
<1>1. /\ todo'[c] = <<>> /\ \A d \in Callers : d # c => todo'[d] = todo[d]
      /\ ~HasReply(todo[c]) /\ pc[c] = "waiting"
  BY DEF TurnsAgain, Waits, IInv, TypeOK, HasReply
<1>2. QED
  BY <1>1, NothingToRead, ReadingAccounts DEF TurnsAgain, callerVars

\* A caller that finds the reply to its call keeps the accounts.
LEMMA HearsReplyAccounts ==
  ASSUME IInv, TypeOK', Accounts, NEW c \in Callers, HearsReply(c)
  PROVE  Accounts'
<1> DEFINE r == Last(todo[c])
<1>1. /\ todo'[c] = <<r>> /\ \A d \in Callers : d # c => todo'[d] = todo[d]
      /\ HasReply(todo[c]) /\ pc[c] = "waiting" /\ r.cmd = "BR_REPLY"
  BY DEF HearsReply, Waits, IInv, TypeOK, HasReply
<1>2. Plain(r)
  <2>1. todo[c] \in Seq(Item) /\ todo[c] # <<>> /\ \A k \in DOMAIN todo[c] : Plain(todo[c][k])
    BY <1>1 DEF Accounts, Reads, Orderly, HasReply
  <2>2. Len(todo[c]) \in DOMAIN todo[c]
    BY <2>1
  <2>3. QED
    BY <2>1, <2>2 DEF Last
<1> HIDE DEF r
<1>3. Len(<<r>>) = 1
  OBVIOUS
<1>4. QED
  BY <1>1, <1>2, <1>3, OneToRead, ReadingAccounts DEF HearsReply, r

\* HearsFailure and Finishes: the function returns, a lookup with a handle that
\* takes over from the reply.
LEMMA ReturnsAccounts ==
  ASSUME IInv, TypeOK', Accounts, NEW c \in Callers, Calling(c),
         NEW r \in {"ok", "error", "failed"}, NEW h \in Handles \cup {0, -1},
         Returns(c, r, h), todo' = [todo EXCEPT ![c] = <<>>],
         buffers' = [buffers EXCEPT ![c] = @ - One(HasReply(todo[c]))],
         UNCHANGED <<alive, entry, call, ran, table, queue>>,
         r # "failed" => ran[c] # <<>> /\ ManagerSays(c, r = "ok"),
         call[c].op = "getService" /\ Target(c, h) \in Services
           => NameOf[Target(c, h)] = call[c].name,
         c \in Clients \cap alive => \A k \in Handles :
           HasReply(todo[c]) /\ Last(todo[c]).handle = k
             <=> call[c].op = "getService" /\ h = k
  PROVE  Accounts'
<1> USE DEF Accounts
<1>1. /\ pc'[c] = (IF c \in Services THEN "looping" ELSE "free") /\ result'[c] = r
      /\ \A d \in Callers : d # c => pc'[d] = pc[d] /\ result'[d] = result[d]
  BY DEF Returns, IInv, TypeOK
<1>2. todo'[c] = <<>> /\ \A d \in Callers : d # c => todo'[d] = todo[d]
  BY DEF IInv, TypeOK
<1>3. ~HasReply(todo'[c]) /\ Orderly(todo'[c])
  BY <1>2, NothingToRead
<1>4. c \in Services \/ call[c].op # "getService"
        => UNCHANGED proxy
  BY ServersAre DEF Returns, Asks, ServicesRegister
<1>5. c \in Clients /\ call[c].op = "getService" =>
        LET n == call[c].name
            new == [handle |-> h, found |-> Target(c, h)]
        IN  /\ n \in Names /\ proxy[c][n] = NoProxy
            /\ proxy' = [proxy EXCEPT ![c][n] = new]
  BY DEF Returns, Asks, ClientsCall, Methods
<1>6. Target(c, h) \in Services \cup {Manager, None} /\ (h = 0 => Target(c, h) = Manager)
  BY DEF Target, Tables, TableOK
<1>7. Typed'
  <2>1. buffers' \in [Processes -> Int]
    <3> DEFINE b == One(HasReply(todo[c]))
    <3>1. b \in Int
      BY DEF One
    <3>2. buffers' = [buffers EXCEPT ![c] = buffers[c] - b]
      OBVIOUS
    <3> HIDE DEF b
    <3>3. QED
      BY <3>1, <3>2 DEF Typed, Processes
  <2>2. proxy' \in [Clients -> [Names -> Proxy]]
    <3> DEFINE new == [handle |-> h, found |-> Target(c, h)]
    <3>1. new \in Proxy
      BY <1>6 DEF Proxy
    <3> HIDE DEF new
    <3>2. CASE c \in Clients /\ call[c].op = "getService"
      <4>1. proxy' = [proxy EXCEPT ![c][call[c].name] = new] /\ call[c].name \in Names
        BY <1>5, <3>2 DEF new
      <4>2. QED
        BY <3>1, <4>1 DEF Typed
    <3>3. CASE ~(c \in Clients /\ call[c].op = "getService")
      BY <1>4, <3>3 DEF Typed, Callers
    <3>4. QED
      BY <3>2, <3>3
  <2>3. QED
    BY <2>1, <2>2 DEF Typed
<1>8. Reads'
  BY <1>1, <1>2, <1>3 DEF Reads
<1>9. \A p \in Servers : \A i \in DOMAIN thread[p] :
        \/ thread'[p][i] = thread[p][i]
        \/ /\ p = c /\ c \in Services
           /\ thread[p][i].st \notin AtWork /\ thread'[p][i].st \notin AtWork
  <2>1. CASE c \in Services
    <3>1. thread' = [thread EXCEPT ![c][0] = Looping] /\ c \in Servers
      BY <2>1, ServersAre DEF Returns
    <3>2. \A i \in DOMAIN thread[c] : thread[c][i].st \notin AtWork
      BY <2>1 DEF LoopsToServe, Calling, AtWork
    <3>3. Looping.st \notin AtWork
      BY DEF Looping, Thread, AtWork
    <3>4. QED
      BY <2>1, <3>1, <3>2, <3>3 DEF IInv, TypeOK
  <2>2. CASE c \notin Services
    BY <2>2 DEF Returns
  <2>3. QED
    BY <2>1, <2>2
<1>10. LoopsToServe'
  <2>1. \A s \in Services : s # c => thread'[s] = thread[s]
    BY ServersAre DEF Returns, IInv, TypeOK
  <2>2. QED
    BY <1>1, <2>1, ServersAre DEF LoopsToServe
<1>11. Asks'
  <2>1. ~Calling(c)'
    BY <1>1 DEF Calling
  <2>2. \A d \in Clients : d # c => proxy'[d] = proxy[d]
    BY DEF Returns, Typed
  <2>3. ServicesRegister' /\ ClientsCall' /\ CallsNamed'
    BY <1>1, <2>1, <2>2, ServersAre
       DEF Asks, ServicesRegister, ClientsCall, CallsNamed, Calling
  <2>4. ProxiesNamed'
    <3>1. CASE c \in Clients /\ call[c].op = "getService"
      <4> DEFINE n == call[c].name
                 new == [handle |-> h, found |-> Target(c, h)]
      <4>1. n \in Names /\ proxy' = [proxy EXCEPT ![c][n] = new]
        BY <1>5, <3>1
      <4>2. new.found \in Services => NameOf[new.found] = n
        BY <3>1
      <4>3. new.handle = 0 => new.found = Manager
        BY <1>6
      <4> HIDE DEF new, n
      <4>4. /\ proxy'[c][n] = new
            /\ \A d \in Clients, m \in Names : d # c \/ m # n => proxy'[d][m] = proxy[d][m]
        BY <3>1, <4>1 DEF Typed
      <4>5. QED
        BY <4>2, <4>3, <4>4 DEF Asks, ProxiesNamed
    <3>2. CASE ~(c \in Clients /\ call[c].op = "getService")
      BY <1>4, <3>2 DEF Asks, ProxiesNamed, Callers
    <3>3. QED
      BY <3>1, <3>2
  <2>5. QED
    BY <2>3, <2>4 DEF Asks
<1>12. Tables' /\ EntriesNamed'
  BY DEF Tables, EntriesNamed
<1>13. LoopersSame
  BY <1>9 DEF LoopersSame
<1>14. \A d \in Callers : HasReply(todo'[d]) =>
           d # c /\ HasReply(todo[d]) /\ Last(todo'[d]) = Last(todo[d])
  BY <1>2, <1>3
<1>15. CallsGoToFound' /\ LookupsAnswered' /\ ManagerTakesNoListeners' /\ ManagerWillSay'
  <2>1. \A p \in Servers : queue'[p] \in {queue[p], <<>>}
    OBVIOUS
  <2>2. QED
    BY <1>13, <1>14, <2>1, LoopersKeep, WillSayKeeps
<1>16. LookupsReplied'
  BY <1>14 DEF LookupsReplied, LooksUp
<1>17. RanByFound' /\ ManagerSaid'
  BY <1>1 DEF Serves, RanByFound, Answered, Manages, ManagerSaid, ManagerSays
<1>18. Buffers'
  <2>1. \A p : Waiting(p)' = Waiting(p)
    BY <1>9, SameWaiting DEF IInv
  <2>2. SUFFICES ASSUME NEW p \in alive
                 PROVE  buffers'[p] = Waiting(p)' + ToFree(p)'
    BY DEF Buffers
  <2>3. p \in Processes /\ buffers[p] = Waiting(p) + ToFree(p) /\ buffers[p] \in Int
    BY DEF Buffers, Typed
  <2>4. CASE p = c
    <3>1. ToFree(p) = One(HasReply(todo[c])) /\ ToFree(p)' = 0
      BY <1>3, <2>4 DEF ToFree, One
    <3>2. buffers'[p] = buffers[p] - ToFree(p)
      BY <2>3, <2>4, <3>1 DEF Typed
    <3>3. Waiting(p) \in Int
      BY <2>4, ConstantsOK, WorkIsFinite DEF Waiting, IInv, TypeOK
    <3>4. ToFree(p) \in Int
      BY DEF ToFree, One
    <3>5. QED
      BY <2>1, <2>3, <3>1, <3>2, <3>3, <3>4
  <2>5. CASE p # c
    <3>1. ToFree(p)' = ToFree(p)
      BY <1>2, <2>5 DEF ToFree
    <3>2. buffers'[p] = buffers[p]
      BY <2>3, <2>5 DEF Typed
    <3>3. QED
      BY <2>1, <2>3, <3>1, <3>2
  <2>6. QED
    BY <2>4, <2>5
<1>19. Stand'
  <2>1. SUFFICES ASSUME NEW d \in Clients \cap alive, NEW k \in Handles
                 PROVE  Stands(table'[d], proxy'[d], todo'[d], k)
    BY DEF Stand
  <2>2. Stands(table[d], proxy[d], todo[d], k)
    BY DEF Stand
  <2>3. CASE d # c
    BY <1>2, <2>2, <2>3, ServersAre DEF Returns, Typed
  <2>4. CASE d = c /\ call[c].op # "getService"
    BY <1>3, <1>4, <2>2, <2>4 DEF Stands, One
  <2>5. CASE d = c /\ call[c].op = "getService"
    <3> DEFINE n == call[c].name
               new == [handle |-> h, found |-> Target(c, h)]
    <3>1. /\ n \in Names /\ proxy[c][n] = NoProxy
          /\ proxy'[c][n] = new
          /\ \A m \in Names : m # n => proxy'[c][m] = proxy[c][m]
      BY <1>5, <2>5 DEF Typed
    <3>2. proxy[c][n].handle # k
      BY <3>1, NoneIsNoHandle DEF NoProxy
    <3>3. CASE h = k
      <4>1. new.handle = k /\ new.found = table[c][k].node
        BY <3>3 DEF Target, Handles
      <4>2. Cardinality(Holders(proxy'[c], k)) = Cardinality(Holders(proxy[c], k)) + 1
        <5> DEFINE f == proxy[c]
                   g == proxy'[c]
        <5>1. /\ g[n].handle = k /\ f[n].handle # k /\ n \in Names
              /\ \A m \in Names : m # n => g[m] = f[m]
          BY <3>1, <3>2, <4>1
        <5> HIDE DEF f, g, n, new
        <5>2. Cardinality(Holders(g, k)) = Cardinality(Holders(f, k)) + 1
          BY <5>1, MoreHolders
        <5>3. QED
          BY <5>2 DEF f, g
      <4>3. \A m \in Holders(proxy'[c], k) : table[c][k].node = proxy'[c][m].found
        BY <2>2, <2>5, <3>1, <4>1 DEF Stands, Holders
      <4>4. HasReply(todo[c]) /\ Last(todo[c]).handle = k
        BY <2>5, <3>3
      <4>5. Cardinality(Holders(proxy[c], k)) \in Nat
        BY HoldersAreFinite
      <4>6. QED
        BY <1>3, <2>2, <2>5, <4>2, <4>3, <4>4, <4>5 DEF Stands, One
    <3>4. CASE h # k
      <4>1. \A m \in Names : proxy'[c][m].handle = k <=> proxy[c][m].handle = k
        BY <3>1, <3>2, <3>4
      <4>2. Holders(proxy'[c], k) = Holders(proxy[c], k)
        BY <4>1, SameHolders
      <4>3. \A m \in Holders(proxy[c], k) : proxy'[c][m] = proxy[c][m]
        BY <3>1, <3>2 DEF Holders
      <4>4. ~(HasReply(todo[c]) /\ Last(todo[c]).handle = k)
        BY <2>5, <3>4
      <4>5. QED
        BY <1>3, <2>2, <2>5, <4>2, <4>3, <4>4 DEF Stands, One
    <3>5. QED
      BY <3>3, <3>4
  <2>6. QED
    BY <2>3, <2>4, <2>5
<1>20. QED
  BY <1>7, <1>8, <1>10, <1>11, <1>12, <1>15, <1>16, <1>17, <1>18, <1>19
     DEF Serves, Manages

\* A caller that is told of a failure keeps the accounts.
LEMMA HearsFailureAccounts ==
  ASSUME IInv, TypeOK', Accounts, NEW c \in Callers, HearsFailure(c)
  PROVE  Accounts'
<1>1. Calling(c) /\ ~HasReply(todo[c]) /\ Returns(c, "failed", -1)
      /\ todo' = [todo EXCEPT ![c] = <<>>]
      /\ UNCHANGED <<alive, entry, call, ran, table, buffers, queue>>
  BY DEF HearsFailure, Waits, Calling, HasReply
<1>2. buffers' = [buffers EXCEPT ![c] = @ - One(HasReply(todo[c]))]
  <2>1. One(HasReply(todo[c])) = 0
    BY <1>1 DEF One
  <2>2. buffers[c] \in Int
    BY DEF Accounts, Typed, Processes
  <2>3. buffers[c] - One(HasReply(todo[c])) = buffers[c]
    BY <2>1, <2>2
  <2>4. QED
    BY <1>1, <2>3 DEF Accounts, Typed
<1>3. Target(c, -1) = None /\ -1 \notin Handles
  BY DEF Target, Handles
<1>4. None \notin Services
  BY ServersAre
<1>5. -1 \in Handles \cup {0, -1} /\ "failed" \in {"ok", "error", "failed"}
  OBVIOUS
<1>6. QED
  BY <1>1, <1>2, <1>3, <1>4, <1>5, ReturnsAccounts

\* A lookup takes the reply's reference over; nothing else is in a reply.
LEMMA FinishesAccounts ==
  ASSUME IInv, TypeOK', Accounts, NEW c \in Callers, Finishes(c)
  PROVE  Accounts'
<1> USE DEF Accounts
<1> DEFINE r == Last(todo[c])
           h == r.handle
           res == IF r.status = 0 THEN "ok" ELSE "error"
<1>1. c \in alive /\ pc[c] = "answered" /\ HasReply(todo[c]) /\ Len(todo[c]) = 1
  BY DEF Finishes, Reads
<1>2. r = Head(todo[c])
  BY <1>1 DEF Reads, Orderly, Last, HasReply
<1>3. Plain(r)
  BY <1>1 DEF Reads, Orderly, HasReply, Last
<1>4. /\ table' = [table EXCEPT ![c] = TableAfter(c, h)]
      /\ Returns(c, res, h) /\ BinderDone(c)
      /\ todo' = [todo EXCEPT ![c] = <<>>]
      /\ UNCHANGED <<alive, entry, call, ran, queue>>
  BY <1>2 DEF Finishes
<1>5. h \in Handles \cup {0}
  BY <1>3 DEF Plain, Item
<1>6. h # 0 => LooksUp(c, table[c][h].node)
  BY <1>1 DEF LookupsReplied
<1> HIDE DEF r
<1>7. TableOK(table[c])
  BY DEF Tables
<1>8. TableAfter(c, h) = table[c]
  <2> HIDE DEF h
  <2>1. CASE h = 0
    <3>1. h \notin Handles
      BY <2>1 DEF Handles
    <3>2. QED
      BY <3>1, NoHandle DEF TableAfter
  <2>2. CASE h # 0
    <3>1. h \in Handles /\ call[c].op = "getService" /\ table[c][h].node # None
      BY <1>5, <1>6, <2>2, ServersAre DEF LooksUp
    <3>2. QED
      BY <1>7, <3>1, AcquireAndRelease DEF TableAfter
  <2>3. QED
    BY <2>1, <2>2
<1>9. table' = table
  BY <1>4, <1>8 DEF Tables
<1>10. buffers' = [buffers EXCEPT ![c] = @ - One(HasReply(todo[c]))]
  <2>1. One(HasReply(todo[c])) = 1
    BY <1>1 DEF One
  <2>2. QED
    BY <1>4, <2>1 DEF BinderDone
<1>11. ran[c] # <<>> /\ ManagerSays(c, res = "ok")
  <2>1. ran[c] # <<>>
    BY <1>1 DEF IInv, RepliedRan
  <2>2. ManagerSays(c, r.status = 0)
    BY <1>1 DEF Manages, ManagerWillSay, r
  <2>3. res = "ok" <=> r.status = 0
    OBVIOUS
  <2>4. QED
    BY <2>1, <2>2, <2>3 DEF ManagerSays
<1>12. call[c].op = "getService" /\ Target(c, h) \in Services
         => NameOf[Target(c, h)] = call[c].name
  <2>1. CASE h = 0
    BY <2>1, ProcessesOK DEF Target, Callers
  <2>2. CASE h # 0
    <3>1. Target(c, h) = table[c][h].node
      BY <1>5, <2>2 DEF Target
    <3>2. QED
      BY <1>6, <2>2, <3>1 DEF LooksUp
  <2>3. QED
    BY <2>1, <2>2
<1>13. ASSUME NEW k \in Handles
       PROVE  HasReply(todo[c]) /\ Last(todo[c]).handle = k
                <=> call[c].op = "getService" /\ h = k
  <2>1. k # 0
    BY DEF Handles
  <2>2. QED
    BY <1>1, <1>6, <2>1 DEF LooksUp, r
<1>14. res \in {"ok", "error", "failed"} /\ Calling(c)
  BY <1>1 DEF Calling
<1> HIDE DEF h, res
<1>15. QED
  BY <1>4, <1>5, <1>9, <1>10, <1>11, <1>12, <1>13, <1>14, ReturnsAccounts

\* binderRelease gives the proxy's reference back.
LEMMA ReleaseAccounts ==
  ASSUME IInv, TypeOK', Accounts, NEW c \in Clients, NEW n \in Names, Release(c, n)
  PROVE  Accounts'
<1> USE ServersAre DEF Accounts
<1> DEFINE h == proxy[c][n].handle
           t == BC_RELEASE(table[c], h)
<1>1. /\ c \in alive /\ pc[c] = "free" /\ proxy[c][n] # NoProxy
      /\ table' = [table EXCEPT ![c] = t]
      /\ proxy' = [proxy EXCEPT ![c][n] = NoProxy]
      /\ UNCHANGED <<alive, entry, pc, call, ran, result, todo, buffers, queue, thread>>
  BY DEF Release
<1>2. c \in Callers /\ TableOK(table[c]) /\ ~HasReply(todo[c])
  BY <1>1, NothingToRead DEF Tables, Reads
<1>3. /\ proxy'[c][n] = NoProxy
      /\ \A m \in Names : m # n => proxy'[c][m] = proxy[c][m]
      /\ \A d \in Clients : d # c => proxy'[d] = proxy[d]
      /\ proxy' \in [Clients -> [Names -> Proxy]]
  BY <1>1 DEF Typed, Proxy
<1> HIDE DEF h
<1>4. h \in Handles => table[c][h].node # None
  <2> SUFFICES ASSUME h \in Handles
               PROVE  table[c][h].node # None
    OBVIOUS
  <2>1. Stands(table[c], proxy[c], todo[c], h)
    BY <1>1 DEF Stand
  <2>2. n \in Holders(proxy[c], h)
    BY DEF Holders, h
  <2>3. QED
    BY <1>2, <2>1, <2>2, InUse
<1>5. TableOK(t)
  BY <1>2, <1>4, ReleaseIs, NoHandle
<1> HIDE DEF t
<1>6. /\ table'[c] = t /\ \A d \in Callers : d # c => table'[d] = table[d]
      /\ table' \in [Callers -> Table]
  BY <1>1, <1>2, <1>5 DEF Tables, TableOK, Table
<1>7. Typed' /\ Reads' /\ LoopsToServe' /\ EntriesNamed'
  BY <1>1, <1>3 DEF Typed, Reads, LoopsToServe, EntriesNamed
<1>8. Asks'
  <2>1. ServicesRegister' /\ ClientsCall' /\ CallsNamed'
    BY <1>1, <1>3 DEF Asks, ServicesRegister, ClientsCall, CallsNamed, Calling
  <2>2. NoProxy.found \notin Services
    BY DEF NoProxy
  <2>3. ProxiesNamed'
    BY <1>3, <2>2 DEF Asks, ProxiesNamed, NoProxy
  <2>4. QED
    BY <2>1, <2>3 DEF Asks
<1>9. Tables'
  BY <1>5, <1>6 DEF Tables
<1>10. LoopersSame /\ \A p \in Servers : queue'[p] \in {queue[p], <<>>}
  BY <1>1 DEF LoopersSame
<1>11. CallsGoToFound' /\ LookupsAnswered' /\ ManagerTakesNoListeners' /\ ManagerWillSay'
  BY <1>1, <1>10, LoopersKeep, WillSayKeeps
<1>12. LookupsReplied'
  BY <1>1, <1>2, <1>6 DEF LookupsReplied, LooksUp
<1>13. RanByFound' /\ ManagerSaid' /\ Buffers'
  BY <1>1 DEF Serves, RanByFound, Answered, Manages, ManagerSaid, ManagerSays, Buffers,
              Waiting, ToFree
<1>14. Stand'
  <2>1. SUFFICES ASSUME NEW d \in Clients \cap alive, NEW k \in Handles
                 PROVE  Stands(table'[d], proxy'[d], todo'[d], k)
    BY <1>1 DEF Stand
  <2>2. Stands(table[d], proxy[d], todo[d], k)
    BY DEF Stand
  <2>3. CASE d # c
    BY <1>1, <1>3, <1>6, <2>2, <2>3
  <2>4. CASE d = c /\ k # h
    <3>1. t[k] = table[c][k]
      BY <1>2, <1>4, <2>4, ReleaseIs, NoHandle DEF t
    <3>2. \A m \in Names : proxy'[c][m].handle = k <=> proxy[c][m].handle = k
      BY <1>3, <2>4, NoneIsNoHandle DEF h, NoProxy
    <3>3. Holders(proxy'[c], k) = Holders(proxy[c], k)
      BY <3>2, SameHolders
    <3>4. \A m \in Holders(proxy[c], k) : proxy'[c][m] = proxy[c][m]
      BY <1>3, <2>4 DEF Holders, h
    <3>5. Stands(table[c], proxy[c], todo[c], k)
      BY <2>2, <2>4
    <3>6. Stands(t, proxy'[c], todo[c], k)
      BY <3>1, <3>3, <3>4, <3>5 DEF Stands
    <3>7. QED
      BY <1>1, <1>6, <2>4, <3>6
  <2>5. CASE d = c /\ k = h
    <3> DEFINE f == proxy[c]
               g == proxy'[c]
    <3>1. /\ g[n].handle # k /\ f[n].handle = k
          /\ \A m \in Names : m # n => g[m] = f[m]
      BY <1>3, <2>5, NoneIsNoHandle DEF h, NoProxy
    <3>2. Stands(table[c], f, todo[c], k)
      BY <2>2, <2>5
    <3> HIDE DEF f, g
    <3>3. Cardinality(Holders(g, k)) = Cardinality(Holders(f, k)) - 1
      BY <3>1, FewerHolders
    <3>4. /\ t[k].strong = table[c][k].strong - 1
          /\ table[c][k].strong # 1 => t[k].node = table[c][k].node
      BY <1>2, <1>4, <2>5, ReleaseIs DEF t
    <3>5. /\ Cardinality(Holders(f, k)) \in Nat /\ IsFiniteSet(Holders(g, k))
          /\ Cardinality(Holders(g, k)) \in Nat
      BY HoldersAreFinite
    <3>6. table[c][k].strong = Cardinality(Holders(f, k))
      BY <1>2, <3>2, <3>5 DEF Stands, One
    <3>7. t[k].strong = Cardinality(Holders(g, k))
      BY <3>3, <3>4, <3>5, <3>6
    <3>8. \A m \in Holders(g, k) : t[k].node = g[m].found
      <4>1. SUFFICES ASSUME NEW m \in Holders(g, k)
                     PROVE  t[k].node = g[m].found
        OBVIOUS
      <4>2. Cardinality(Holders(g, k)) # 0
        BY <3>5, FS_EmptySet
      <4>3. t[k].node = table[c][k].node
        BY <3>3, <3>4, <3>5, <3>6, <4>2
      <4>4. m \in Holders(f, k) /\ g[m] = f[m]
        BY <3>1 DEF Holders
      <4>5. QED
        BY <3>2, <4>3, <4>4 DEF Stands
    <3>9. Stands(t, g, todo[c], k)
      BY <1>2, <3>5, <3>7, <3>8 DEF Stands, One
    <3>10. QED
      BY <1>1, <1>6, <2>5, <3>9 DEF g
  <2>6. QED
    BY <2>3, <2>4, <2>5
<1>15. QED
  BY <1>7, <1>8, <1>9, <1>11, <1>12, <1>13, <1>14 DEF Serves, Manages

\* A looper takes the first call of its queue.
LEMMA TakesCallAccounts ==
  ASSUME IInv, TypeOK', Accounts, NEW p \in Servers, NEW i \in DOMAIN thread[p],
         TakesCall(p, i)
  PROVE  Accounts'
<1> USE ServersAre DEF Accounts
<1> DEFINE c == Head(queue[p])
           busy == Thread("busy", c)
<1>1. /\ thread[p][i].st = "waiting" /\ queue[p] # <<>>
      /\ queue' = [queue EXCEPT ![p] = Tail(@)] /\ ComesBack(p, i, busy)
      /\ UNCHANGED <<alive, entry, callerVars, table, todo, buffers>>
  BY DEF TakesCall
<1>2. /\ \A q \in Servers : q # p => thread'[q] = thread[q]
      /\ thread'[p][i] = busy
      /\ \A j \in DOMAIN thread[p] :
           \/ j = i
           \/ thread'[p][j] = thread[p][j]
           \/ thread[p][j].st \notin AtWork /\ thread'[p][j].st \notin AtWork
  BY <1>1, ComesBackIs DEF IInv
<1>3. /\ queue[p] \in Seq(Callers) /\ queue[p] # <<>> /\ queue'[p] = Tail(queue[p])
      /\ \A q \in Servers : q # p => queue'[q] = queue[q]
  BY <1>1 DEF IInv, TypeOK
<1>4. /\ 1 \in DOMAIN queue[p] /\ c = queue[p][1] /\ c \in Callers
      /\ \A k \in DOMAIN queue'[p] :
           k + 1 \in DOMAIN queue[p] /\ queue'[p][k] = queue[p][k + 1]
      /\ Len(queue'[p]) = Len(queue[p]) - 1 /\ Len(queue[p]) \in Nat
  BY <1>3
<1> HIDE DEF c
<1>5. /\ busy.st = "busy" /\ busy.from = c
      /\ busy.st \in AtWork /\ thread[p][i].st \notin AtWork
  BY <1>1 DEF Thread, AtWork
<1> HIDE DEF busy
<1>6. \A q \in Servers : DOMAIN thread'[q] = 0 .. MaxThreads[q]
                         /\ DOMAIN thread[q] = 0 .. MaxThreads[q]
  BY DEF IInv, TypeOK
<1>7. \A q \in Servers : \A j \in DOMAIN thread'[q] :
        thread'[q][j].st \in AtWork =>
          \/ q = p /\ j = i /\ thread'[q][j] = busy
          \/ j \in DOMAIN thread[q] /\ thread'[q][j] = thread[q][j]
  BY <1>2, <1>6
<1>8. Typed' /\ Reads' /\ Asks' /\ Tables' /\ EntriesNamed'
  BY <1>1 DEF Typed, Reads, Asks, ServicesRegister, ClientsCall, CallsNamed,
              ProxiesNamed, Calling, Tables, EntriesNamed, callerVars
<1>9. LoopsToServe'
  <2>1. p \in Services => pc[p] = "looping"
    BY <1>1 DEF LoopsToServe
  <2>2. QED
    BY <1>1, <1>2, <2>1 DEF LoopsToServe, callerVars
<1>10. LookupsAnswered' /\ LookupsReplied'
  <2>1. LookupsAnswered'
    BY <1>1, <1>5, <1>7 DEF LookupsAnswered, LooksUp, callerVars, AtWork
  <2>2. LookupsReplied'
    BY <1>1 DEF LookupsReplied, LooksUp, callerVars
  <2>3. QED
    BY <2>1, <2>2
<1>11. Serves'
  <2>1. call[c].found = p
    BY <1>4 DEF Serves, CallsGoToFound
  <2>2. \A q \in Servers : \A k \in DOMAIN queue'[q] : call[queue'[q][k]].found = q
    <3>1. \A q \in Servers : \A k \in DOMAIN queue[q] : call[queue[q][k]].found = q
      BY DEF Serves, CallsGoToFound
    <3>2. \A k \in DOMAIN queue'[p] : call[queue'[p][k]].found = p
      BY <1>4, <3>1
    <3>3. QED
      BY <1>3, <3>1, <3>2
  <2>3. \A q \in Servers : \A j \in DOMAIN thread'[q] :
          thread'[q][j].st \in AtWork => call[thread'[q][j].from].found = q
    BY <1>5, <1>7, <2>1 DEF Serves, CallsGoToFound
  <2>4. CallsGoToFound'
    BY <1>1, <2>2, <2>3 DEF CallsGoToFound, callerVars
  <2>5. RanByFound'
    BY <1>1 DEF Serves, RanByFound, Answered, callerVars
  <2>6. QED
    BY <2>4, <2>5 DEF Serves
<1>12. Manages'
  <2>0. Manager \in Servers
    BY DEF Servers
  <2>1. p = Manager => call[c].op # "addListener"
    BY <1>4 DEF Manages, ManagerTakesNoListeners
  <2>2. \A k \in DOMAIN queue'[Manager] : call[queue'[Manager][k]].op # "addListener"
    <3>1. \A k \in DOMAIN queue[Manager] : call[queue[Manager][k]].op # "addListener"
      BY DEF Manages, ManagerTakesNoListeners
    <3>2. CASE p = Manager
      BY <1>4, <3>1, <3>2
    <3>3. CASE p # Manager
      BY <1>3, <2>0, <3>1, <3>3
    <3>4. QED
      BY <3>2, <3>3
  <2>3. \A j \in DOMAIN thread'[Manager] : thread'[Manager][j].st \in AtWork =>
          call[thread'[Manager][j].from].op # "addListener"
    BY <1>5, <1>7, <2>0, <2>1 DEF Manages, ManagerTakesNoListeners
  <2>4. ManagerTakesNoListeners'
    BY <1>1, <2>2, <2>3 DEF ManagerTakesNoListeners, callerVars
  <2>5. ManagerWillSay'
    <3>1. \A q \in Servers : \A j \in DOMAIN thread'[q] :
            (thread[q][j].st = "done" =>
               ManagerSays(thread[q][j].from, thread[q][j].status = 0))'
      BY <1>1, <1>5, <1>7 DEF Manages, ManagerWillSay, ManagerSays, AtWork, callerVars
    <3>2. \A d \in Callers :
            (HasReply(todo[d]) => ManagerSays(d, Last(todo[d]).status = 0))'
      BY <1>1 DEF Manages, ManagerWillSay, ManagerSays, callerVars
    <3>3. QED
      BY <3>1, <3>2 DEF ManagerWillSay
  <2>6. ManagerSaid'
    BY <1>1 DEF Manages, ManagerSaid, ManagerSays, Answered, callerVars
  <2>7. QED
    BY <2>4, <2>5, <2>6 DEF Manages
<1>13. Buffers'
  <2>1. MaxThreads[p] \in Nat
    BY ConstantsOK
  <2> DEFINE f == thread[p]
             g == thread'[p]
             m == MaxThreads[p]
  <2>2. /\ DOMAIN f = 0 .. m /\ DOMAIN g = 0 .. m /\ i \in 0 .. m /\ m \in Nat
        /\ f[i].st \notin AtWork /\ g[i].st \in AtWork
        /\ \A j \in 0 .. m : j # i => (f[j].st \in AtWork <=> g[j].st \in AtWork)
    BY <1>2, <1>5, <1>6, <2>1
  <2> HIDE DEF f, g, m
  <2>3. Cardinality(Work(g)) = Cardinality(Work(f)) + 1
    BY <2>2, MoreWork
  <2>4. Cardinality(Work(f)) \in Nat
    BY <2>2, WorkIsFinite
  <2>5. Waiting(p)' = Waiting(p)
    BY <1>4, <2>3, <2>4 DEF Waiting, f, g
  <2>6. \A q : q # p => Waiting(q)' = Waiting(q)
    BY <1>2, <1>3 DEF Waiting
  <2>7. \A q : Waiting(q)' = Waiting(q)
    BY <2>5, <2>6
  <2>8. QED
    BY <1>1, <2>7 DEF Buffers, ToFree
<1>14. Stand'
  BY <1>1 DEF Stand, callerVars
<1>15. QED
  BY <1>8, <1>9, <1>10, <1>11, <1>12, <1>13, <1>14

\* onTransact: the answer is for the name that was looked up, and what the
\* manager says of its own.
LEMMA TransactsAccounts ==
  ASSUME IInv, TypeOK', Accounts, NEW p \in Servers, NEW i \in DOMAIN thread[p],
         Transacts(p, i)
  PROVE  Accounts'
<1> USE ServersAre DEF Accounts
<1> DEFINE c == thread[p][i].from
<1>1. /\ thread[p][i].st = "busy"
      /\ ran' = [ran EXCEPT ![c] = Append(@, p)]
      /\ entry' = IF call[c].op = "addService"
                  THEN [entry EXCEPT ![call[c].name] = c] ELSE entry
      /\ UNCHANGED <<alive, pc, call, result, calls, proxy, table, todo, buffers, queue>>
  BY DEF Transacts, driverVars
<1>2. PICK a \in Answers(p, c) :
        thread' = [thread EXCEPT ![p][i] =
          [st |-> "done", from |-> c, ref |-> a.ref, status |-> a.status]]
  BY DEF Transacts
<1>3. /\ c \in Callers /\ pc[c] = "waiting" /\ ran[c] = <<>> /\ call[c].found = p
      /\ p = Manager => call[c].op # "addListener"
  BY <1>1 DEF IInv, Places, LoopersWork, WorkedOnWait, AtWork, Serves, CallsGoToFound,
              Manages, ManagerTakesNoListeners
<1>4. \A q \in Servers : \A j \in DOMAIN thread[q] :
        q # p \/ j # i => thread[q][j].from # c
  BY <1>3 DEF IInv, Places, OneLooper
<1> HIDE DEF c
<1> DEFINE w == [st |-> "done", from |-> c, ref |-> a.ref, status |-> a.status]
<1>5. /\ DOMAIN thread' = Servers
      /\ \A q \in Servers : DOMAIN thread'[q] = DOMAIN thread[q]
      /\ thread'[p][i] = w
      /\ \A q \in Servers : \A j \in DOMAIN thread[q] :
           q # p \/ j # i => thread'[q][j] = thread[q][j]
  BY <1>2 DEF IInv, TypeOK
<1>6. w.st = "done" /\ w.from = c /\ w.ref = a.ref /\ w.status = a.status
  OBVIOUS
<1> HIDE DEF w
<1>7. c \in Services \/ c \in Clients
  BY <1>3 DEF Callers
<1>8. c \in Services => call[c].op = "addService" /\ call[c].name = NameOf[c]
  BY <1>3 DEF Asks, ServicesRegister, Calling
<1>9. c \in Clients => \/ call[c].op = "getService" /\ call[c].name \in Names
                       \/ call[c].op \in {"hello", "addListener", "delListener"}
  BY <1>3 DEF Asks, ClientsCall, Calling, Methods
<1>10. /\ a.status \in {0, -1}
       /\ a.ref # None => LooksUp(c, a.ref)
       /\ ManagerSays(c, a.status = 0)
  <2>1. CASE call[c].op = "getService"
    <3>1. a = [ref |-> Found(call[c].name), status |-> 0]
      BY <1>2, <2>1 DEF Answers
    <3>2. c \in Clients /\ call[c].name \in Names
      BY <1>7, <1>8, <1>9, <2>1
    <3>3. a.ref = entry[call[c].name] /\ a.status = 0
      BY <3>1 DEF Found
    <3>4. a.ref # None => a.ref \in Services /\ NameOf[a.ref] = call[c].name
      BY <3>2, <3>3 DEF Typed, EntriesNamed
    <3>5. QED
      BY <2>1, <3>2, <3>3, <3>4 DEF LooksUp, ManagerSays
  <2>2. CASE call[c].op \in {"addService", "hello", "addListener"}
    <3>1. a = [ref |-> None, status |-> 0]
      BY <1>2, <2>2 DEF Answers
    <3>2. a.ref = None /\ a.status = 0
      BY <3>1
    <3>3. c \in Clients /\ call[c].found = Manager => call[c].op = "hello"
      BY <1>3, <1>9, <2>2
    <3>4. QED
      BY <3>2, <3>3 DEF ManagerSays
  <2>3. CASE call[c].op = "delListener"
    <3>1. a \in {[ref |-> None, status |-> st] : st \in
                   IF p = Manager THEN {-1} ELSE {0, -1}}
      BY <1>2, <2>3 DEF Answers
    <3>2. a.ref = None /\ a.status \in {0, -1} /\ (p = Manager => a.status = -1)
      BY <3>1
    <3>3. QED
      BY <1>3, <2>3, <3>2 DEF ManagerSays
  <2>4. QED
    BY <1>7, <1>8, <1>9, <2>1, <2>2, <2>3
<1>11. ran'[c] = <<p>> /\ \A d \in Callers : d # c => ran'[d] = ran[d]
  BY <1>1, <1>3 DEF IInv, TypeOK
<1>12. entry' \in [Names -> Services \cup {None}] /\ EntriesNamed'
  <2>1. CASE call[c].op = "addService"
    <3>1. c \in Services /\ call[c].name = NameOf[c]
      BY <1>7, <1>8, <1>9, <2>1
    <3>2. NameOf[c] \in Names
      BY <3>1, ConstantsOK
    <3>3. entry' = [entry EXCEPT ![NameOf[c]] = c]
      BY <1>1, <2>1, <3>1
    <3>4. QED
      BY <3>1, <3>2, <3>3 DEF Typed, EntriesNamed
  <2>2. CASE call[c].op # "addService"
    BY <1>1, <2>2 DEF Typed, EntriesNamed
  <2>3. QED
    BY <2>1, <2>2
<1>13. Typed' /\ Reads' /\ Asks' /\ Tables'
  BY <1>1, <1>12 DEF Typed, Reads, Asks, ServicesRegister, ClientsCall, CallsNamed,
              ProxiesNamed, Calling, Tables
<1>14. LoopsToServe'
  <2>1. p \in Services => pc[p] = "looping"
    BY <1>1 DEF LoopsToServe
  <2>2. QED
    BY <1>1, <1>5, <2>1 DEF LoopsToServe
<1>15. LookupsAnswered' /\ LookupsReplied'
  <2>1. LookupsAnswered'
    BY <1>1, <1>5, <1>6, <1>10 DEF LookupsAnswered, LooksUp
  <2>2. LookupsReplied'
    BY <1>1 DEF LookupsReplied, LooksUp
  <2>3. QED
    BY <2>1, <2>2
<1>16. Serves'
  <2>1. CallsGoToFound'
    BY <1>1, <1>3, <1>5, <1>6 DEF Serves, CallsGoToFound
  <2>2. RanByFound'
    BY <1>1, <1>3, <1>11 DEF Serves, RanByFound, Answered
  <2>3. QED
    BY <2>1, <2>2 DEF Serves
<1>17. Manages'
  <2>1. ManagerTakesNoListeners'
    <3>1. Manager \in Servers
      BY DEF Servers
    <3>2. QED
      BY <1>1, <1>3, <1>5, <1>6, <3>1 DEF Manages, ManagerTakesNoListeners
  <2>2. ManagerWillSay'
    <3>1. ASSUME NEW q \in Servers, NEW j \in DOMAIN thread[q], thread'[q][j].st = "done"
          PROVE  ManagerSays(thread[q][j].from, thread[q][j].status = 0)'
      <4>1. CASE q = p /\ j = i
        BY <1>1, <1>5, <1>6, <1>10, <4>1 DEF ManagerSays
      <4>2. CASE q # p \/ j # i
        <5>1. thread'[q][j] = thread[q][j]
          BY <1>5, <4>2
        <5>2. ManagerSays(thread[q][j].from, thread[q][j].status = 0)
          BY <3>1, <5>1 DEF Manages, ManagerWillSay
        <5>3. QED
          BY <1>1, <5>1, <5>2 DEF ManagerSays
      <4>3. QED
        BY <4>1, <4>2
    <3>2. \A d \in Callers :
            (HasReply(todo[d]) => ManagerSays(d, Last(todo[d]).status = 0))'
      BY <1>1 DEF Manages, ManagerWillSay, ManagerSays
    <3>3. QED
      BY <1>5, <3>1, <3>2 DEF ManagerWillSay
  <2>3. ManagerSaid'
    BY <1>1 DEF Manages, ManagerSaid, ManagerSays, Answered
  <2>4. QED
    BY <2>1, <2>2, <2>3 DEF Manages
<1>18. Buffers'
  <2>1. \A q \in Servers : \A j \in DOMAIN thread[q] :
          thread'[q][j].st \in AtWork <=> thread[q][j].st \in AtWork
    BY <1>1, <1>5, <1>6 DEF AtWork
  <2>2. \A q : Waiting(q)' = Waiting(q)
    BY <1>1, <2>1, SameWaiting DEF IInv
  <2>3. QED
    BY <1>1, <2>2 DEF Buffers, ToFree
<1>19. Stand'
  BY <1>1 DEF Stand
<1>20. QED
  BY <1>12, <1>13, <1>14, <1>15, <1>16, <1>17, <1>18, <1>19

\* A reply that comes to its caller takes a reference on the service in it, and
\* a buffer; when it does not, the caller is told or has died.
LEMMA ReplyIs ==
  ASSUME IInv, Accounts, NEW p \in Servers, NEW i \in DOMAIN thread[p], SendsReply(p, i),
         NEW c \in Callers, c = thread[p][i].from
  PROVE  /\ c # p /\ pc[c] = "waiting" /\ ~HasReply(todo[c])
         /\ table' \in [Callers -> Table] /\ TableOK(table'[c]) /\ Orderly(todo'[c])
         /\ \A d \in Callers : d # c => table'[d] = table[d] /\ todo'[d] = todo[d]
         /\ HasReply(todo'[c]) =>
              /\ Last(todo'[c]).status = thread[p][i].status
              /\ Last(todo'[c]).handle # 0 =>
                   LooksUp(c, table'[c][Last(todo'[c]).handle].node)
         /\ buffers' \in [Processes -> Int] /\ buffers'[p] = buffers[p] - 1
         /\ buffers'[c] = buffers[c] + One(HasReply(todo'[c]))
         /\ \A q \in Processes : q # p /\ q # c => buffers'[q] = buffers[q]
         /\ c \in Clients \cap alive =>
              \A h \in Handles : Stands(table'[c], proxy[c], todo'[c], h)
<1> USE ServersAre DEF Accounts
<1> DEFINE w == thread[p][i]
           hd == IF w.ref = None THEN 0 ELSE HandleFor(table[c], w.ref)
           e == Reply(hd, w.status)
           no == Return("BR_FAILED_REPLY")
<1>1. /\ w.st = "done"
      /\ \/ /\ c \in alive
            /\ buffers' = [buffers EXCEPT ![p] = @ - 1, ![c] = @ + 1]
            /\ table' = IF w.ref = None THEN table
                        ELSE [table EXCEPT ![c] = Referred(@, w.ref)]
            /\ todo' = [todo EXCEPT ![c] = Append(@, e)]
         \/ /\ c \in alive
            /\ buffers' = [buffers EXCEPT ![p] = @ - 1] /\ table' = table
            /\ todo' = [todo EXCEPT ![c] = Append(@, no)]
         \/ /\ c \notin alive
            /\ buffers' = [buffers EXCEPT ![p] = @ - 1] /\ table' = table
            /\ todo' = todo
  BY DEF SendsReply
<1>2. /\ w.status \in {0, -1}
      /\ w.ref # None => LooksUp(c, w.ref)
  BY <1>1 DEF LookupsAnswered
<1>3. pc[c] = "waiting" /\ c # p
  <2>1. pc[c] = "waiting"
    BY <1>1 DEF IInv, Places, WorkedOnWait, AtWork
  <2>2. p \in Services => pc[p] = "looping"
    BY <1>1 DEF LoopsToServe
  <2>3. Manager \notin Callers
    BY ProcessesOK
  <2>4. QED
    BY <2>1, <2>2, <2>3 DEF Servers
<1>4. ~Ended(c)
  BY DEF Placed, IInv, EndedLeft
<1>5. ~HasReply(todo[c]) /\ (todo[c] # <<>> => Last(todo[c]).cmd = "BR_TRANSACTION_COMPLETE")
  BY <1>4 DEF Ended, HasReply
<1>6. Orderly(todo[c]) /\ TableOK(table[c]) /\ table \in [Callers -> Table]
  BY DEF Reads, Tables
<1>7. w.ref # None => hd \in Handles /\ hd # 0
  BY <1>2, <1>6, HandleForIs DEF LooksUp, Handles
<1>8. Plain(e) /\ e.cmd = "BR_REPLY" /\ e.handle = hd /\ e.status = w.status
  BY <1>2, <1>7 DEF Reply, Plain, Item, Commands
<1>9. Plain(no) /\ no.cmd # "BR_REPLY"
  BY ReturnIsPlain DEF Commands
<1>10. DOMAIN todo = Callers /\ buffers \in [Processes -> Int]
       /\ p \in Processes /\ c \in Processes
  BY DEF IInv, TypeOK, Typed, Processes, Servers
<1>11. c \in Clients \cap alive => \A h \in Handles : Stands(table[c], proxy[c], todo[c], h)
  BY DEF Stand
<1>12. One(FALSE) = 0 /\ One(TRUE) = 1
  BY DEF One
<1>13. \A x : One(x) = IF x THEN 1 ELSE 0
  BY DEF One
<1> HIDE DEF e, no
<1>14. CASE /\ c \in alive
            /\ buffers' = [buffers EXCEPT ![p] = @ - 1, ![c] = @ + 1]
            /\ table' = IF w.ref = None THEN table
                        ELSE [table EXCEPT ![c] = Referred(@, w.ref)]
            /\ todo' = [todo EXCEPT ![c] = Append(@, e)]
  <2>1. /\ todo'[c] = Append(todo[c], e)
        /\ \A d \in Callers : d # c => todo'[d] = todo[d]
    BY <1>10, <1>14
  <2>2. Orderly(todo'[c]) /\ HasReply(todo'[c]) /\ Last(todo'[c]) = e
    BY <1>5, <1>6, <1>8, <2>1, OneMoreToRead
  <2>3. /\ buffers' \in [Processes -> Int] /\ buffers'[p] = buffers[p] - 1
        /\ buffers'[c] = buffers[c] + 1
        /\ \A q \in Processes : q # p /\ q # c => buffers'[q] = buffers[q]
    BY <1>3, <1>10, <1>14
  <2>4. buffers'[c] = buffers[c] + One(HasReply(todo'[c]))
    BY <1>13, <2>2, <2>3
  <2>5. CASE w.ref = None
    <3>1. table' = table /\ hd = 0
      BY <1>14, <2>5
    <3>2. \A h \in Handles : hd # h
      BY <3>1 DEF Handles
    <3>3. c \in Clients \cap alive =>
            \A h \in Handles : Stands(table'[c], proxy[c], todo'[c], h)
      BY <1>5, <1>8, <1>11, <2>2, <3>1, <3>2 DEF Stands, One
    <3>4. QED
      BY <1>3, <1>5, <1>6, <1>8, <2>1, <2>2, <2>3, <2>4, <3>1, <3>3
  <2>6. CASE w.ref # None
    <3> DEFINE t == Referred(table[c], w.ref)
    <3>1. table' = [table EXCEPT ![c] = t] /\ hd = HandleFor(table[c], w.ref)
      BY <1>14, <2>6
    <3>2. /\ TableOK(t) /\ hd \in Handles
          /\ t[hd].node = w.ref /\ t[hd].strong = table[c][hd].strong + 1
          /\ table[c][hd].node \in {w.ref, None}
          /\ \A k \in Handles : k # hd => t[k] = table[c][k]
      BY <1>2, <1>6, <2>6, <3>1, ReferredIs DEF LooksUp
    <3> HIDE DEF t, hd
    <3>3. /\ table'[c] = t /\ table' \in [Callers -> Table]
          /\ \A d \in Callers : d # c => table'[d] = table[d]
      BY <1>6, <3>1, <3>2 DEF TableOK, Table
    <3>4. LooksUp(c, table'[c][hd].node)
      BY <1>2, <2>6, <3>2, <3>3
    <3>5. ASSUME c \in Clients \cap alive, NEW h \in Handles
          PROVE  Stands(t, proxy[c], todo'[c], h)
      <4>1. Stands(table[c], proxy[c], todo[c], h)
        BY <1>11, <3>5
      <4>2. CASE h # hd
        BY <1>5, <1>8, <2>2, <3>2, <4>1, <4>2 DEF Stands, One
      <4>3. CASE h = hd
        <5>1. Cardinality(Holders(proxy[c], h)) \in Nat
          BY HoldersAreFinite
        <5>2. t[h].strong = Cardinality(Holders(proxy[c], h)) + 1
          BY <1>5, <3>2, <4>1, <4>3, <5>1 DEF Stands, One
        <5>3. ASSUME NEW m \in Holders(proxy[c], h)
              PROVE  t[h].node = proxy[c][m].found
          <6>1. table[c][h].node # None
            BY <1>6, <4>1, InUse
          <6>2. table[c][h].node = proxy[c][m].found
            BY <4>1 DEF Stands
          <6>3. QED
            BY <3>2, <4>3, <6>1, <6>2
        <5>4. QED
          BY <1>8, <2>2, <4>3, <5>2, <5>3 DEF Stands, One
      <4>4. QED
        BY <4>2, <4>3
    <3>6. QED
      BY <1>3, <1>5, <1>8, <2>1, <2>2, <2>3, <2>4, <3>2, <3>3, <3>4, <3>5
  <2>7. QED
    BY <2>5, <2>6
<1>15. CASE /\ c \in alive
            /\ buffers' = [buffers EXCEPT ![p] = @ - 1] /\ table' = table
            /\ todo' = [todo EXCEPT ![c] = Append(@, no)]
  <2>1. /\ todo'[c] = Append(todo[c], no)
        /\ \A d \in Callers : d # c => todo'[d] = todo[d]
    BY <1>10, <1>15
  <2>2. Orderly(todo'[c]) /\ ~HasReply(todo'[c])
    BY <1>5, <1>6, <1>9, <2>1, OneMoreToRead
  <2>3. /\ buffers' \in [Processes -> Int] /\ buffers'[p] = buffers[p] - 1
        /\ buffers'[c] = buffers[c] + 0
        /\ \A q \in Processes : q # p /\ q # c => buffers'[q] = buffers[q]
    BY <1>3, <1>10, <1>15
  <2>4. buffers'[c] = buffers[c] + One(HasReply(todo'[c]))
    BY <1>13, <2>2, <2>3
  <2>5. c \in Clients \cap alive =>
          \A h \in Handles : Stands(table'[c], proxy[c], todo'[c], h)
    BY <1>5, <1>11, <1>15, <2>2 DEF Stands, One
  <2>6. QED
    BY <1>3, <1>5, <1>6, <1>15, <2>1, <2>2, <2>3, <2>4, <2>5
<1>16. CASE /\ c \notin alive
            /\ buffers' = [buffers EXCEPT ![p] = @ - 1] /\ table' = table
            /\ todo' = todo
  <2>1. /\ buffers' \in [Processes -> Int] /\ buffers'[p] = buffers[p] - 1
        /\ buffers'[c] = buffers[c] + 0
        /\ \A q \in Processes : q # p /\ q # c => buffers'[q] = buffers[q]
    BY <1>3, <1>10, <1>16
  <2>2. ~HasReply(todo'[c])
    BY <1>5, <1>16
  <2>3. buffers'[c] = buffers[c] + One(HasReply(todo'[c]))
    BY <1>13, <2>1, <2>2
  <2>4. QED
    BY <1>3, <1>5, <1>6, <1>16, <2>1, <2>2, <2>3
<1>17. QED
  BY <1>1, <1>14, <1>15, <1>16

\* A looper that sends a reply, with a reference or without, keeps the
\* accounts.
LEMMA SendsReplyAccounts ==
  ASSUME IInv, TypeOK', Accounts, NEW p \in Servers, NEW i \in DOMAIN thread[p],
         SendsReply(p, i)
  PROVE  Accounts'
<1> USE ServersAre DEF Accounts
<1> DEFINE w == thread[p][i]
<1>1. /\ w.st = "done" /\ thread' = [thread EXCEPT ![p][i] = Thread("rests", None)]
      /\ UNCHANGED <<alive, entry, pc, call, ran, result, calls, proxy, queue>>
  BY DEF SendsReply, callerVars
<1>2. PICK c \in Callers : c = w.from
  BY <1>1 DEF IInv, Places, LoopersWork, AtWork
<1>3. /\ c # p /\ pc[c] = "waiting" /\ ~HasReply(todo[c])
      /\ table' \in [Callers -> Table] /\ TableOK(table'[c]) /\ Orderly(todo'[c])
      /\ \A d \in Callers : d # c => table'[d] = table[d] /\ todo'[d] = todo[d]
      /\ HasReply(todo'[c]) =>
           /\ Last(todo'[c]).status = w.status
           /\ Last(todo'[c]).handle # 0 =>
                LooksUp(c, table'[c][Last(todo'[c]).handle].node)
      /\ buffers' \in [Processes -> Int] /\ buffers'[p] = buffers[p] - 1
      /\ buffers'[c] = buffers[c] + One(HasReply(todo'[c]))
      /\ \A q \in Processes : q # p /\ q # c => buffers'[q] = buffers[q]
      /\ c \in Clients \cap alive =>
           \A h \in Handles : Stands(table'[c], proxy[c], todo'[c], h)
  BY <1>2, ReplyIs
<1>4. ManagerSays(c, w.status = 0)
  BY <1>1, <1>2 DEF Manages, ManagerWillSay
<1> HIDE DEF w
<1>5. /\ \A q \in Servers : q # p => thread'[q] = thread[q]
      /\ DOMAIN thread'[p] = DOMAIN thread[p]
      /\ thread'[p][i].st \notin AtWork
      /\ \A j \in DOMAIN thread[p] : j # i => thread'[p][j] = thread[p][j]
  <2>1. Thread("rests", None).st \notin AtWork
    BY DEF Thread, AtWork
  <2>2. QED
    BY <1>1, <2>1 DEF IInv, TypeOK
<1>6. Typed' /\ Reads' /\ Asks' /\ Tables' /\ EntriesNamed'
  <2>1. Typed'
    BY <1>1, <1>3 DEF Typed
  <2>2. Reads'
    BY <1>1, <1>3 DEF Reads
  <2>3. Asks' /\ EntriesNamed'
    BY <1>1 DEF Asks, ServicesRegister, ClientsCall, CallsNamed, ProxiesNamed, Calling,
                EntriesNamed
  <2>4. Tables'
    BY <1>3 DEF Tables
  <2>5. QED
    BY <2>1, <2>2, <2>3, <2>4
<1>7. LoopsToServe'
  <2>1. p \in Services => pc[p] = "looping"
    BY <1>1 DEF LoopsToServe, w
  <2>2. QED
    BY <1>1, <1>5, <2>1 DEF LoopsToServe
<1>8. LoopersSame
  BY <1>5 DEF LoopersSame
<1>9. CallsGoToFound' /\ LookupsAnswered' /\ ManagerTakesNoListeners'
  <2>1. \A q \in Servers : queue'[q] \in {queue[q], <<>>}
    BY <1>1
  <2>2. QED
    BY <1>1, <1>8, <2>1, LoopersKeep
<1>10. LookupsReplied'
  <2>1. SUFFICES ASSUME NEW d \in Callers, HasReply(todo'[d]), Last(todo'[d]).handle # 0
                 PROVE  LooksUp(d, table[d][Last(todo[d]).handle].node)'
    BY DEF LookupsReplied
  <2>2. LooksUp(d, table'[d][Last(todo'[d]).handle].node)
    BY <1>3, <2>1 DEF LookupsReplied
  <2>3. QED
    BY <1>1, <2>2 DEF LooksUp
<1>11. RanByFound' /\ ManagerSaid'
  BY <1>1 DEF Serves, RanByFound, Answered, Manages, ManagerSaid, ManagerSays
<1>12. ManagerWillSay'
  <2>1. ASSUME NEW q \in Servers, NEW j \in DOMAIN thread'[q], thread'[q][j].st = "done"
        PROVE  ManagerSays(thread[q][j].from, thread[q][j].status = 0)'
    <3>1. j \in DOMAIN thread[q] /\ thread'[q][j] = thread[q][j]
      BY <1>5, <2>1 DEF AtWork
    <3>2. ManagerSays(thread[q][j].from, thread[q][j].status = 0)
      BY <2>1, <3>1 DEF Manages, ManagerWillSay
    <3>3. QED
      BY <1>1, <3>1, <3>2 DEF ManagerSays
  <2>2. ASSUME NEW d \in Callers, HasReply(todo'[d])
        PROVE  ManagerSays(d, Last(todo[d]).status = 0)'
    <3>1. ManagerSays(d, Last(todo'[d]).status = 0)
      BY <1>3, <1>4, <2>2 DEF Manages, ManagerWillSay
    <3>2. QED
      BY <1>1, <3>1 DEF ManagerSays
  <2>3. QED
    BY <2>1, <2>2 DEF ManagerWillSay
<1>13. Buffers'
  <2> DEFINE f == thread[p]
             g == thread'[p]
             m == MaxThreads[p]
  <2>1. /\ DOMAIN f = 0 .. m /\ DOMAIN g = 0 .. m /\ i \in 0 .. m /\ m \in Nat
        /\ f[i].st \in AtWork /\ g[i].st \notin AtWork
        /\ \A j \in 0 .. m : j # i => (f[j].st \in AtWork <=> g[j].st \in AtWork)
    BY <1>1, <1>5, ConstantsOK DEF IInv, TypeOK, AtWork, w
  <2> HIDE DEF f, g, m
  <2>2. Cardinality(Work(f)) = Cardinality(Work(g)) + 1
    BY <2>1, MoreWork
  <2>3. Cardinality(Work(f)) \in Nat /\ Cardinality(Work(g)) \in Nat
    BY <2>1, WorkIsFinite
  <2>4. Waiting(p)' = Waiting(p) - 1 /\ Waiting(p) \in Int
    <3>1. Len(queue[p]) \in Nat
      BY DEF IInv, TypeOK
    <3>2. QED
      BY <1>1, <2>2, <2>3, <3>1 DEF Waiting, f, g
  <2>5. \A q : q # p => Waiting(q)' = Waiting(q)
    BY <1>1, <1>5 DEF Waiting
  <2>6. \A q : ToFree(q) \in Int /\ ToFree(q)' \in Int
    BY DEF ToFree, One
  <2>7. \A q : q # c => ToFree(q)' = ToFree(q)
    BY <1>3 DEF ToFree
  <2>8. ToFree(c) = 0 /\ ToFree(c)' = One(HasReply(todo'[c]))
    <3>1. One(HasReply(todo[c])) = 0
      BY <1>3 DEF One
    <3>2. ToFree(c) = One(HasReply(todo[c])) /\ ToFree(c)' = One(HasReply(todo'[c]))
      BY <1>2, Zenon DEF ToFree
    <3>3. QED
      BY <3>1, <3>2, Zenon
  <2>9. SUFFICES ASSUME NEW q \in alive
                 PROVE  buffers'[q] = Waiting(q)' + ToFree(q)'
    BY <1>1 DEF Buffers
  <2>10. buffers[q] = Waiting(q) + ToFree(q) /\ q \in Processes /\ buffers[q] \in Int
    BY DEF Buffers, Typed
  <2>11. CASE q = p
    <3>1. ToFree(q)' = ToFree(q)
      BY <1>3, <2>7, <2>11
    <3>2. buffers'[q] = buffers[q] - 1
      BY <1>3, <2>11
    <3>3. QED
      BY <2>4, <2>6, <2>10, <2>11, <3>1, <3>2
  <2>12. CASE q = c
    <3>1. Waiting(q)' = Waiting(q)
      BY <1>3, <2>5, <2>12
    <3>2. buffers'[q] = buffers[q] + ToFree(q)' /\ ToFree(q) = 0
      <4>1. buffers'[c] = buffers[c] + One(HasReply(todo'[c]))
        BY <1>3, Zenon
      <4>2. QED
        BY <2>8, <2>12, <4>1, Zenon
    <3>3. buffers[q] = Waiting(q)
      <4>1. Waiting(q) \in Int
        BY ConstantsOK, WorkIsFinite DEF Waiting, IInv, TypeOK
      <4>2. QED
        BY <2>10, <3>2, <4>1
    <3>4. QED
      BY <3>1, <3>2, <3>3
  <2>13. CASE q # p /\ q # c
    BY <1>3, <2>5, <2>7, <2>10, <2>13
  <2>14. QED
    BY <2>11, <2>12, <2>13
<1>14. Stand'
  <2>1. SUFFICES ASSUME NEW d \in Clients \cap alive, NEW h \in Handles
                 PROVE  Stands(table'[d], proxy[d], todo'[d], h)
    BY <1>1 DEF Stand
  <2>2. CASE d = c
    BY <1>3, <2>2
  <2>3. CASE d # c
    BY <1>3, <2>3 DEF Stand
  <2>4. QED
    BY <2>2, <2>3
<1>15. QED
  BY <1>6, <1>7, <1>9, <1>10, <1>11, <1>12, <1>13, <1>14 DEF Serves, Manages

\* A death: whoever has an answer to come is told, and all that was held goes.
LEMMA DiesAccounts ==
  ASSUME IInv, TypeOK', Accounts, NEW p \in Processes, Dies(p)
  PROVE  Accounts'
<1> USE ServersAre DEF Accounts
<1> DEFINE dead == Return("BR_DEAD_REPLY")
<1>1. /\ alive' = alive \ {p} /\ buffers' = [buffers EXCEPT ![p] = 0]
      /\ todo' = [c \in Callers |->
           IF c = p THEN <<>>
           ELSE IF c \in alive \cap WorkOf(p)
           THEN Append(todo[c], dead) ELSE todo[c]]
      /\ queue' = IF p \in Servers THEN [queue EXCEPT ![p] = <<>>] ELSE queue
      /\ thread' = IF p \in Servers
               THEN [thread EXCEPT ![p] = [i \in DOMAIN @ |-> Thread("none", None)]]
               ELSE thread
      /\ UNCHANGED <<entry, pc, call, ran, result, calls, proxy, table>>
  BY DEF Dies, callerVars
<1>2. Plain(dead) /\ dead.cmd # "BR_REPLY"
  BY ReturnIsPlain DEF Commands
<1> HIDE DEF dead
<1>3. \A q \in Servers : /\ queue'[q] \in {queue[q], <<>>}
                         /\ q # p => queue'[q] = queue[q] /\ thread'[q] = thread[q]
  BY <1>1 DEF IInv, TypeOK
<1>4. p \in Servers => \A i \in DOMAIN thread[p] : thread'[p][i] = Thread("none", None)
  BY <1>1 DEF IInv, TypeOK
<1>5. ASSUME NEW d \in Callers
      PROVE  \/ todo'[d] = todo[d]
             \/ d = p /\ todo'[d] = <<>>
             \/ /\ pc[d] = "waiting" /\ Orderly(todo'[d])
                /\ ~HasReply(todo[d]) /\ ~HasReply(todo'[d])
  <2>1. CASE d = p \/ d \notin alive \cap WorkOf(p)
    BY <1>1, <2>1
  <2>2. CASE d # p /\ d \in alive \cap WorkOf(p)
    <3>1. Placed(d)
      BY <2>2 DEF WorkOf, Placed
    <3>2. pc[d] = "waiting" /\ ~Ended(d)
      BY <3>1, PlacedWaits DEF IInv, EndedLeft
    <3>3. Orderly(todo[d])
      BY DEF Reads
    <3>4. todo[d] # <<>> => Last(todo[d]).cmd = "BR_TRANSACTION_COMPLETE"
      BY <3>2 DEF Ended
    <3>5. todo'[d] = Append(todo[d], dead)
      BY <1>1, <2>2
    <3>6. Orderly(todo'[d]) /\ ~HasReply(todo'[d])
      BY <1>2, <3>3, <3>4, <3>5, OneMoreToRead
    <3>7. ~HasReply(todo[d])
      BY <3>4 DEF HasReply
    <3>8. QED
      BY <3>2, <3>6, <3>7
  <2>3. QED
    BY <2>1, <2>2
<1>6. \A d \in Callers : HasReply(todo'[d]) =>
        HasReply(todo[d]) /\ Last(todo'[d]) = Last(todo[d])
  BY <1>5, NothingToRead
<1>7. Typed' /\ Asks' /\ Tables' /\ EntriesNamed'
  <2>1. Typed'
    BY <1>1 DEF Typed
  <2>2. Asks' /\ Tables' /\ EntriesNamed'
    BY <1>1 DEF Asks, ServicesRegister, ClientsCall, CallsNamed, ProxiesNamed, Calling,
                EntriesNamed, Tables
  <2>3. QED
    BY <2>1, <2>2
<1>8. Reads'
  <2>1. SUFFICES ASSUME NEW d \in Callers
                 PROVE  /\ Orderly(todo'[d])
                        /\ pc[d] \in {"free", "looping"} => todo'[d] = <<>>
                        /\ pc[d] = "answered" /\ d \in alive \ {p} =>
                             HasReply(todo'[d]) /\ Len(todo'[d]) = 1
    BY <1>1 DEF Reads
  <2>2. QED
    BY <1>5, NothingToRead DEF Reads
<1>9. LoopsToServe'
  <2>1. Thread("none", None).st = "none"
    BY DEF Thread
  <2>2. \A q \in Servers : \A i \in DOMAIN thread'[q] :
          thread[q][i].st = "none" => thread'[q][i].st = "none"
    BY <1>3, <1>4, <2>1 DEF IInv, TypeOK
  <2>3. QED
    BY <1>1, <2>2 DEF LoopsToServe, IInv, TypeOK
<1>10. LoopersSame
  <2>1. Thread("none", None).st \notin AtWork
    BY DEF Thread, AtWork
  <2>2. QED
    BY <1>3, <1>4, <2>1 DEF LoopersSame
<1>11. CallsGoToFound' /\ LookupsAnswered' /\ ManagerTakesNoListeners' /\ ManagerWillSay'
  BY <1>1, <1>3, <1>6, <1>10, LoopersKeep, WillSayKeeps
<1>12. LookupsReplied'
  BY <1>1, <1>6 DEF LookupsReplied, LooksUp
<1>13. RanByFound' /\ ManagerSaid'
  BY <1>1 DEF Serves, RanByFound, Answered, Manages, ManagerSaid, ManagerSays
<1>14. \A d \in Callers : d # p => (HasReply(todo'[d]) <=> HasReply(todo[d]))
  BY <1>5
<1>15. Buffers'
  <2>1. SUFFICES ASSUME NEW q \in alive, q # p
                 PROVE  buffers'[q] = Waiting(q)' + ToFree(q)'
    BY <1>1 DEF Buffers
  <2>2. buffers[q] = Waiting(q) + ToFree(q) /\ buffers'[q] = buffers[q]
    BY <1>1, <2>1 DEF Buffers, Typed
  <2>3. Waiting(q)' = Waiting(q)
    BY <1>3, <2>1 DEF Waiting
  <2>4. ToFree(q)' = ToFree(q)
    BY <1>14, <2>1 DEF ToFree, One
  <2>5. QED
    BY <2>2, <2>3, <2>4
<1>16. Stand'
  <2>1. SUFFICES ASSUME NEW d \in Clients \cap alive, d # p, NEW h \in Handles
                 PROVE  Stands(table[d], proxy[d], todo'[d], h)
    BY <1>1 DEF Stand
  <2>2. Stands(table[d], proxy[d], todo[d], h)
    BY DEF Stand
  <2>3. HasReply(todo'[d]) <=> HasReply(todo[d])
    BY <1>14, <2>1
  <2>4. HasReply(todo'[d]) => Last(todo'[d]) = Last(todo[d])
    BY <1>6
  <2>5. QED
    BY <2>2, <2>3, <2>4 DEF Stands, One
<1>17. QED
  BY <1>7, <1>8, <1>9, <1>11, <1>12, <1>13, <1>15, <1>16 DEF Serves, Manages

\* Where nothing changes the accounts do not.
LEMMA StutterAccounts ==
  ASSUME Accounts, UNCHANGED vars
  PROVE  Accounts'
<1> USE DEF Accounts, vars, callerVars, driverVars
<1>1. Typed' /\ Reads' /\ LoopsToServe' /\ Asks' /\ Tables' /\ EntriesNamed'
  BY DEF Typed, Reads, LoopsToServe, Asks, ServicesRegister, ClientsCall, CallsNamed,
         ProxiesNamed, Calling, Tables, EntriesNamed
<1>2. LookupsAnswered' /\ LookupsReplied' /\ Serves' /\ Manages'
  BY DEF LookupsAnswered, LookupsReplied, LooksUp, Serves, CallsGoToFound, RanByFound,
         Answered, Manages, ManagerTakesNoListeners, ManagerWillSay, ManagerSaid,
         ManagerSays
<1>3. Buffers' /\ Stand'
  BY DEF Buffers, Waiting, ToFree, Stand
<1>4. QED
  BY <1>1, <1>2, <1>3

\* A handle that a client holds stands for what its lookup found.
LEMMA ProxyIs ==
  ASSUME Accounts, NEW c \in Clients, c \in alive, NEW n \in Names, proxy[c][n] # NoProxy
  PROVE  Target(c, proxy[c][n].handle) \in {proxy[c][n].found, None}
<1> USE DEF Accounts
<1> DEFINE x == proxy[c][n]
<1>1. x \in Proxy /\ x # NoProxy
  BY DEF Typed
<1>2. x.handle \in Handles \cup {0, -1}
  BY <1>1 DEF Proxy
<1>3. CASE x.handle = 0
  BY <1>3 DEF Asks, ProxiesNamed, Target
<1>4. CASE x.handle = -1
  BY <1>4 DEF Target, Handles
<1>5. CASE x.handle \in Handles
  <2>1. Stands(table[c], proxy[c], todo[c], x.handle)
    BY <1>5 DEF Stand
  <2>2. n \in Holders(proxy[c], x.handle)
    BY DEF Holders
  <2>3. table[c][x.handle].node = x.found
    BY <2>1, <2>2 DEF Stands
  <2>4. QED
    BY <1>5, <2>3 DEF Target, Handles
<1>6. QED
  BY <1>2, <1>3, <1>4, <1>5
-----------------------------------------------------------------------------
\* The invariant is inductive.
LEMMA NextAccounts ==
  ASSUME IInv, IInv', Accounts, [Next]_vars
  PROVE  Accounts'
<1> USE ServersAre, ProcessesOK DEF IInv
<1>1. ASSUME NEW s \in Services, AddService(s)
      PROVE  Accounts'
  <2>1. Call(s, "addService", NameOf[s], ManagerProxy)
    BY <1>1 DEF AddService
  <2>2. ManagerProxy.handle = 0 /\ ManagerProxy.found = Manager /\ NameOf[s] \in Names
    BY ConstantsOK DEF ManagerProxy
  <2>3. Target(s, ManagerProxy.handle) = Manager
    BY <2>2 DEF Target
  <2>4. s \in Callers /\ s \notin Clients
    BY ProcessesOK
  <2>5. QED
    BY <2>1, <2>2, <2>3, <2>4, CallAccounts
<1>2. ASSUME NEW c \in Clients, NEW n \in Names, GetService(c, n)
      PROVE  Accounts'
  <2>1. Call(c, "getService", n, ManagerProxy) /\ proxy[c][n] = NoProxy
    BY <1>2 DEF GetService
  <2>2. ManagerProxy.handle = 0 /\ ManagerProxy.found = Manager /\ Manager \notin Services
    BY DEF ManagerProxy, Callers
  <2>3. Target(c, ManagerProxy.handle) = Manager
    BY <2>2 DEF Target
  <2>4. c \in Callers /\ c \notin Services
    OBVIOUS
  <2>5. QED
    BY <2>1, <2>2, <2>3, <2>4, CallAccounts
<1>3. ASSUME NEW c \in Clients, NEW n \in Names, CallMethod(c, n)
      PROVE  Accounts'
  <2>1. PICK op \in Methods(n) : Call(c, op, n, proxy[c][n])
    BY <1>3 DEF CallMethod
  <2>2. proxy[c][n] # NoProxy
    BY <1>3 DEF CallMethod
  <2>3. Target(c, proxy[c][n].handle) \in {proxy[c][n].found, None}
    BY <2>1, <2>2, ProxyIs DEF Call
  <2>4. proxy[c][n].found \in Services => NameOf[proxy[c][n].found] = n
    BY DEF Accounts, Asks, ProxiesNamed
  <2>5. c \in Callers /\ c \notin Services
    OBVIOUS
  <2>6. QED
    BY <2>1, <2>3, <2>4, <2>5, CallAccounts
<1>4. ASSUME NEW c \in Clients, NEW n \in Names, Release(c, n)
      PROVE  Accounts'
  BY <1>4, ReleaseAccounts
<1>5. ASSUME NEW c \in Callers, CallerStep(c)
      PROVE  Accounts'
  BY <1>5, TurnsAgainAccounts, HearsReplyAccounts, HearsFailureAccounts,
     FinishesAccounts DEF CallerStep
<1>6. ASSUME NEW p \in Servers, NEW i \in DOMAIN thread[p], LooperStep(p, i)
      PROVE  Accounts'
  BY <1>6, TakesCallAccounts, TransactsAccounts, SendsReplyAccounts, RestsAccounts
     DEF LooperStep
<1>7. ASSUME NEW p \in Servers, NEW i \in DOMAIN thread[p], LooperStarts(p, i)
      PROVE  Accounts'
  BY <1>7, LooperStartsAccounts
<1>8. ASSUME NEW p \in Servers, NEW i \in DOMAIN thread[p], LooperCrashes(p, i)
      PROVE  Accounts'
  BY <1>8, DiesAccounts DEF LooperCrashes, Servers, Processes, Callers
<1>9. ASSUME NEW n \in Names, ForgetsDead(n)
      PROVE  Accounts'
  BY <1>9, ForgetsDeadAccounts
<1>10. ASSUME NEW p \in Processes, Die(p)
       PROVE  Accounts'
  BY <1>10, DiesAccounts DEF Die
<1>11. CASE UNCHANGED vars
  BY <1>11, StutterAccounts
<1>12. QED
  BY <1>1, <1>2, <1>3, <1>4, <1>5, <1>6, <1>7, <1>8, <1>9, <1>10, <1>11 DEF Next

\* The accounts of every process that is alive are right in every state: what
\* is in its queue, with its loopers and to be read by its thread is what the
\* driver counts of it.
THEOREM AccountsAreKept == Spec => []Accounts
BY CallsHavePlaces, InitAccounts, NextAccounts, PTL DEF Spec

\* A buffer is in use for each call that is not answered and each reply that is
\* not freed, whatever fails or dies: none is leaked, and none freed twice.
THEOREM BuffersAreBalanced == Spec => []BuffersBalance
<1>1. IInv /\ Accounts => BuffersBalance
  <2>1. SUFFICES ASSUME IInv, Accounts, NEW p \in alive
                 PROVE  buffers[p] = Unanswered(p) + Unfreed(p)
    BY DEF BuffersBalance
  <2>2. buffers[p] = Waiting(p) + ToFree(p)
    BY <2>1 DEF Accounts, Buffers
  <2>3. Unanswered(p) = Waiting(p)
    BY DEF Unanswered, Waiting, Work, AtWork
  <2>4. Unfreed(p) = ToFree(p)
    <3>1. CASE p \in Callers
      <4>1. Orderly(todo[p])
        BY <2>1, <3>1 DEF Accounts, Reads
      <4>2. Unfreed(p) = One(HasReply(todo[p]))
        BY <3>1, <4>1, RepliesToRead DEF Unfreed
      <4>3. QED
        BY <3>1, <4>2, Zenon DEF ToFree
    <3>2. CASE p \notin Callers
      BY <3>2 DEF Unfreed, ToFree
    <3>3. QED
      BY <3>1, <3>2
  <2>5. QED
    BY <2>2, <2>3, <2>4
<1>2. QED
  BY <1>1, CallsHavePlaces, AccountsAreKept, PTL

\* Every handle that a live client may use stands for what its lookup found:
\* its strong count is one for each proxy that has it and one for a reply that
\* is not freed.
THEOREM HandlesAlwaysStand == Spec => []HandlesStand
<1>1. Accounts => HandlesStand
  <2>1. SUFFICES ASSUME Accounts, NEW c \in Clients \cap alive, NEW h \in Handles
                 PROVE  LET holders == {n \in Names : proxy[c][n].handle = h}
                            replies == {k \in DOMAIN todo[c] : todo[c][k].handle = h}
                        IN  /\ table[c][h].strong = Cardinality(holders) + Cardinality(replies)
                            /\ \A n \in holders : table[c][h].node = proxy[c][n].found
    BY DEF HandlesStand
  <2>2. Stands(table[c], proxy[c], todo[c], h)
    BY <2>1 DEF Accounts, Stand
  <2>3. Orderly(todo[c])
    BY <2>1, ServersAre DEF Accounts, Reads
  <2>4. Cardinality({k \in DOMAIN todo[c] : todo[c][k].handle = h})
          = One(HasReply(todo[c]) /\ Last(todo[c]).handle = h)
    BY <2>3, RepliesToRead
  <2>5. Holders(proxy[c], h) = {n \in Names : proxy[c][n].handle = h}
    BY DEF Holders
  <2>6. QED
    BY <2>2, <2>4, <2>5, Zenon DEF Stands
<1>2. QED
  BY <1>1, AccountsAreKept, PTL

\* A client that is answered was answered once, by the process that its lookup
\* found, which has the name it asked for; when the lookup found nothing the
\* manager carries the call out, and only hello is told that all is well.
THEOREM AnswersAreTheServices == Spec => []AnsweredByTheService
<1>1. Accounts => AnsweredByTheService
  <2>1. SUFFICES ASSUME Accounts, NEW c \in Clients, Answered(c)
                 PROVE  /\ ran[c] = <<call[c].found>>
                        /\ call[c].found \in Services => NameOf[call[c].found] = call[c].name
                        /\ call[c].found = Manager =>
                             \/ call[c].op = "getService"
                             \/ (result[c] = "ok") = (call[c].op = "hello")
    BY DEF AnsweredByTheService
  <2> USE ServersAre DEF Accounts
  <2>2. ran[c] = <<call[c].found>>
    BY <2>1 DEF Serves, RanByFound
  <2>3. call[c].found \in Services => NameOf[call[c].found] = call[c].name
    BY <2>1 DEF Asks, CallsNamed
  <2>4. call[c].found = Manager =>
          \/ call[c].op = "getService"
          \/ (result[c] = "ok") = (call[c].op = "hello")
    BY <2>1 DEF Manages, ManagerSaid, ManagerSays
  <2>5. QED
    BY <2>2, <2>3, <2>4
<1>2. QED
  BY <1>1, AccountsAreKept, PTL
=============================================================================
