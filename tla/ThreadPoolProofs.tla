-------------------------- MODULE ThreadPoolProofs ---------------------------
(***************************************************************************)
(* Proofs about ThreadPool for any number of threads and tasks, and any    *)
(* pool size and limit: its invariants, from one on threads, the mutex and *)
(* sleepers; then that it is a TaskQueue.                                  *)
(***************************************************************************)
EXTENDS ThreadPool, FiniteSetTheorems, SequenceTheorems, TLAPS

(* The inductive invariant.  NoLostWakeup is not inductive: it needs to know *)
(* that only waiting threads are asleep, that a worker on its way to sleep   *)
(* still finds the queue empty and the pool not stopped, for it holds the    *)
(* mutex since it looked, and that a thread that ends early runs a callback, *)
(* in a pool where nobody ever waits.                                        *)

SleepersWait == m_task_cond_var \subseteq {w \in Workers : pc[w] = "wait"}

SleepTested ==
  pc[Owner] # "gone" =>
    \A w \in Workers : pc[w] = "sleep" => MustWait

CallbackOrLoop ==
  \A w \in Workers :
    IF m_scb THEN pc[w] \in {"none", "created", "callback", "exited"}
             ELSE pc[w] # "callback"

\* Somebody will reset is_locked: whoever holds the mutex, or a waiter that
\* left it set.
FlagHasOwner ==
  is_locked => \/ InCriticalSection # {}
               \/ \E w \in Workers : pc[w] = "wait"

IInv ==
  /\ TypeOK
  /\ MutexOwnership
  /\ SleepersWait
  /\ SleepTested
  /\ CallbackOrLoop
  /\ FlagHasOwner
  /\ NoSleeperAfterStop
  /\ NoLostWakeup
  /\ QueueBound

\* What one start() and one destroy_threadpool() make of m_threads: every
\* thread created is in it, and the join loop leaves none of them behind.
JoinInv ==
  starts <= 1 =>
    /\ \A w \in Created : \E k \in DOMAIN m_threads : m_threads[k] = w
    /\ Len(m_threads) <= PoolSize
    /\ pc[Owner] = "creating" =>
         starts = 1 /\ m_pool_state = STARTED /\ Len(m_threads) = i - 1
    /\ pc[Owner] = "joining" =>
         \A k \in DOMAIN m_threads : k < i => pc[m_threads[k]] = "none"
    /\ (m_pool_state = STOPPED /\ pc[Owner] = "ready") => Created = {}
    /\ pc[Owner] \in {"deleting", "gone"} => Created = {}
    /\ starts = 0 => m_threads = <<>>
-----------------------------------------------------------------------------
(* Types.                                                                    *)

\* The variables have their types at first.
LEMMA TypeInit == Init => TypeOK
<1> SUFFICES ASSUME Init PROVE TypeOK
  OBVIOUS
<1> USE ThreadsDistinct, SizesOK DEF Init, Threads
<1>1. /\ pc \in [Threads -> WorkerPC \cup SubmitterPC \cup OwnerPC]
      /\ \A w \in Workers : pc[w] = "none"
      /\ \A s \in Submitters : pc[s] = "idle"
      /\ pc[Owner] = "ready"
  BY DEF WorkerPC, SubmitterPC, OwnerPC
<1>2. m_tasks \in Seq(Tasks) /\ m_threads \in Seq(Workers)
  OBVIOUS
<1>3. i \in 1 .. PoolSize + 1 /\ starts \in 0 .. MaxStarts
         /\ spurious \in 0 .. MaxSpurious
  OBVIOUS
<1> QED
  BY <1>1, <1>2, <1>3
  DEF TypeOK, WorkerPC, SubmitterPC, OwnerPC

\* Every step keeps the types.
LEMMA TypeStep ==
  ASSUME TypeOK, [Next]_vars
  PROVE  TypeOK'
<1> USE ThreadsDistinct, SizesOK
    DEF TypeOK, Threads, WorkerPC, SubmitterPC, OwnerPC, syncVars, history,
        bounds
<1>1. ASSUME NEW w \in Workers, BeginThread(w) PROVE TypeOK'
  BY <1>1 DEF BeginThread
<1>2. ASSUME NEW w \in Workers, CallbackReturns(w) PROVE TypeOK'
  BY <1>2 DEF CallbackReturns
<1>3. ASSUME NEW w \in Workers, WorkerLock(w) PROVE TypeOK'
  BY <1>3 DEF WorkerLock, Lock
<1>4. ASSUME NEW w \in Workers, WorkerMustWait(w) PROVE TypeOK'
  BY <1>4 DEF WorkerMustWait
<1>5. ASSUME NEW w \in Workers, WorkerSleep(w) PROVE TypeOK'
  BY <1>5 DEF WorkerSleep, CondWait
<1>6. ASSUME NEW w \in Workers, SpuriousWakeup(w) PROVE TypeOK'
  BY <1>6 DEF SpuriousWakeup
<1>7. ASSUME NEW w \in Workers, WorkerWake(w) PROVE TypeOK'
  BY <1>7 DEF WorkerWake, CondRelock
<1>8. ASSUME NEW w \in Workers, WorkerExit(w) PROVE TypeOK'
  BY <1>8 DEF WorkerExit, Unlock
<1>9. ASSUME NEW w \in Workers, WorkerPop(w) PROVE TypeOK'
  <2>1. Head(m_tasks) \in Tasks /\ m_tasks' \in Seq(Tasks)
    BY <1>9, HeadTailProperties DEF WorkerPop
  <2>2. task' = [task EXCEPT ![w] = Head(m_tasks)]
    BY <1>9 DEF WorkerPop
  <2>3. /\ task' \in [Workers \cup Submitters -> Tasks \cup {NoTask}]
        /\ task'[w] # NoTask
        /\ \A r \in (Workers \cup Submitters) \ {w} : task'[r] = task[r]
    BY <2>1, <2>2, NoTaskIsNoTask
  <2>4. \A r \in Threads \ {w} : pc'[r] = pc[r]
    BY <1>9 DEF WorkerPop
  <2> QED
    BY <1>9, <2>1, <2>3, <2>4 DEF WorkerPop, Unlock
<1>10. ASSUME NEW w \in Workers, WorkerRun(w) PROVE TypeOK'
  BY <1>10 DEF WorkerRun
<1>11. ASSUME NEW s \in Submitters, CallAddTask(s) PROVE TypeOK'
  <2>1. PICK t \in Tasks : /\ task' = [task EXCEPT ![s] = t]
                           /\ offered' = offered \cup {t}
    BY <1>11 DEF CallAddTask
  <2>2. /\ task' \in [Workers \cup Submitters -> Tasks \cup {NoTask}]
        /\ task'[s] # NoTask
        /\ \A r \in (Workers \cup Submitters) \ {s} : task'[r] = task[r]
    BY <2>1, NoTaskIsNoTask
  <2>3. /\ pc' \in [Threads -> WorkerPC \cup SubmitterPC \cup OwnerPC]
        /\ pc'[s] = "add"
        /\ \A r \in Threads \ {s} : pc'[r] = pc[r]
    BY <1>11 DEF CallAddTask
  <2> QED
    BY <1>11, <2>1, <2>2, <2>3 DEF CallAddTask
<1>12. ASSUME NEW s \in Submitters, AddTask(s) PROVE TypeOK'
  <2>1. m_tasks' \in Seq(Tasks)
    BY <1>12 DEF AddTask
  <2>2. m_task_cond_var' \subseteq Workers
    BY <1>12 DEF AddTask, Signal
  <2> QED
    BY <1>12, <2>1, <2>2 DEF AddTask, Unlock
<1>13. ASSUME NEW s \in Submitters, RefuseTask(s) PROVE TypeOK'
  BY <1>13 DEF RefuseTask, Unlock
<1>14. CASE Start
  BY <1>14 DEF Start, STARTED
<1>15. CASE CreateThread
  <2> PICK w \in Workers \ Created :
           /\ m_threads' = Append(m_threads, w)
           /\ pc' = [pc EXCEPT ![w] = "created",
                               ![Owner] = IF i = PoolSize THEN "ready"
                                                          ELSE "creating"]
    BY <1>15 DEF CreateThread
  <2>1. m_threads' \in Seq(Workers)
    BY DEF Created
  <2>2. i' \in 1 .. PoolSize + 1 /\ (pc'[Owner] = "creating" => i' <= PoolSize)
    BY <1>15 DEF CreateThread, Created
  <2> QED
    BY <1>15, <2>1, <2>2 DEF CreateThread, Created
<1>16. CASE CreateThreadFails
  BY <1>16 DEF CreateThreadFails
<1>17. CASE DestroyLock
  BY <1>17 DEF DestroyLock, Lock
<1>18. CASE DestroyStop
  BY <1>18 DEF DestroyStop, Unlock
<1>19. CASE DestroyBroadcast
  BY <1>19 DEF DestroyBroadcast, Broadcast
<1>20. CASE JoinThread
  BY <1>20 DEF JoinThread, Joining, ValidId, Broadcast
<1>21. CASE JoinStaleFails
  BY <1>21 DEF JoinStaleFails, Joining, Broadcast
<1>22. CASE JoinStaleCrashes
  BY <1>22 DEF JoinStaleCrashes
<1>23. CASE JoinDone
  BY <1>23 DEF JoinDone
<1>24. CASE DeletePool
  BY <1>24 DEF DeletePool
<1>25. CASE DestroyMutex
  BY <1>25 DEF DestroyMutex, Unlock
<1>26. CASE UNCHANGED vars
  BY <1>26 DEF vars
<1> QED
  BY <1>1, <1>2, <1>3, <1>4, <1>5, <1>6, <1>7, <1>8, <1>9, <1>10, <1>11,
     <1>12, <1>13, <1>14, <1>15, <1>16, <1>17, <1>18, <1>19, <1>20, <1>21,
     <1>22, <1>23, <1>24, <1>25, <1>26
  DEF Next, WorkerStep, SubmitterStep, OwnerStep
-----------------------------------------------------------------------------
(* The mutex.                                                                *)

\* Every step keeps the mutex with the thread that is in its critical section.
LEMMA MutexOwnershipStep ==
  ASSUME TypeOK, MutexOwnership, [Next]_vars
  PROVE  MutexOwnership'
<1> USE ThreadsDistinct
    DEF TypeOK, MutexOwnership, InCriticalSection, Threads, WorkerPC,
        SubmitterPC, OwnerPC, syncVars
<1>1. ASSUME Alive,
             NEW w \in Workers, WorkerStep(w) \/ CallbackReturns(w)
                                              \/ SpuriousWakeup(w)
      PROVE  MutexOwnership'
  BY <1>1
  DEF Alive, WorkerStep, BeginThread, WorkerLock, WorkerMustWait, WorkerSleep,
      WorkerWake, WorkerExit, WorkerPop, WorkerRun, CallbackReturns,
      SpuriousWakeup, Lock, Unlock, CondWait, CondRelock
<1>2. ASSUME Alive, NEW s \in Submitters, CallAddTask(s) \/ SubmitterStep(s)
      PROVE  MutexOwnership'
  BY <1>2 DEF Alive, SubmitterStep, CallAddTask, AddTask, RefuseTask, Unlock
<1>3. ASSUME Alive, Start \/ DestroyLock \/ DeletePool
      PROVE  MutexOwnership'
  BY <1>3 DEF Alive, Start, DestroyLock, DeletePool, Lock
<1>4. ASSUME Alive, OwnerStep
      PROVE  MutexOwnership'
  BY <1>4
  DEF Alive, OwnerStep, CreateThread, CreateThreadFails, DestroyStop,
      DestroyBroadcast, JoinThread, JoinStaleFails, JoinStaleCrashes,
      JoinDone, DestroyMutex, Unlock, Created, Joining, ValidId
<1>5. CASE UNCHANGED vars
  BY <1>5 DEF vars
<1> QED
  BY <1>1, <1>2, <1>3, <1>4, <1>5 DEF Next
-----------------------------------------------------------------------------
(* Sleeping and waking.                                                      *)

\* Every step keeps the sleepers at their wait.
LEMMA SleepersWaitStep ==
  ASSUME TypeOK, SleepersWait, [Next]_vars
  PROVE  SleepersWait'
<1> USE ThreadsDistinct
    DEF TypeOK, Threads, WorkerPC, SubmitterPC, OwnerPC, syncVars,
        SleepersWait
<1>1. ASSUME Alive,
             NEW w \in Workers, WorkerStep(w) \/ CallbackReturns(w)
                                              \/ SpuriousWakeup(w)
      PROVE  SleepersWait'
  BY <1>1
  DEF WorkerStep, BeginThread, WorkerLock, WorkerMustWait, WorkerSleep,
      WorkerWake, WorkerExit, WorkerPop, WorkerRun, CallbackReturns,
      SpuriousWakeup, CondWait
<1>2. ASSUME Alive, NEW s \in Submitters, CallAddTask(s) \/ SubmitterStep(s)
      PROVE  SleepersWait'
  BY <1>2 DEF SubmitterStep, CallAddTask, AddTask, RefuseTask, Signal
<1>3. ASSUME Alive, Start \/ DestroyLock \/ DeletePool
      PROVE  SleepersWait'
  BY <1>3 DEF Start, DestroyLock, DeletePool
<1>4. ASSUME Alive, OwnerStep
      PROVE  SleepersWait'
  BY <1>4
  DEF OwnerStep, CreateThread, CreateThreadFails, DestroyStop,
      DestroyBroadcast, JoinThread, JoinStaleFails, JoinStaleCrashes,
      JoinDone, DestroyMutex, Broadcast, Created, ValidId, Joining
<1>5. CASE UNCHANGED vars
  BY <1>5 DEF vars
<1> QED
  BY <1>1, <1>2, <1>3, <1>4, <1>5 DEF Next

\* No thread goes to sleep but after testing its condition under the mutex.
LEMMA SleepTestedStep ==
  ASSUME TypeOK, MutexOwnership, SleepTested, [Next]_vars
  PROVE  SleepTested'
<1> USE ThreadsDistinct
    DEF TypeOK, Threads, WorkerPC, SubmitterPC, OwnerPC, syncVars,
        SleepTested, MutexOwnership, InCriticalSection, MustWait, Alive
<1>1. ASSUME Alive,
             NEW w \in Workers, WorkerStep(w) \/ CallbackReturns(w)
                                              \/ SpuriousWakeup(w)
      PROVE  SleepTested'
  BY <1>1
  DEF WorkerStep, BeginThread, WorkerLock, WorkerMustWait, WorkerSleep,
      WorkerWake, WorkerExit, WorkerPop, WorkerRun, CallbackReturns,
      SpuriousWakeup, Lock, CondRelock
<1>2. ASSUME Alive, NEW s \in Submitters, CallAddTask(s) \/ SubmitterStep(s)
      PROVE  SleepTested'
  BY <1>2 DEF SubmitterStep, CallAddTask, AddTask, RefuseTask
<1>3. ASSUME Alive, Start \/ DestroyLock \/ DeletePool
      PROVE  SleepTested'
  BY <1>3 DEF Start, DestroyLock, DeletePool, Lock, STARTED, STOPPED
<1>4. ASSUME Alive, OwnerStep
      PROVE  SleepTested'
  BY <1>4
  DEF OwnerStep, CreateThread, CreateThreadFails, DestroyStop,
      DestroyBroadcast, JoinThread, JoinStaleFails, JoinStaleCrashes,
      JoinDone, DestroyMutex, Created, ValidId, Joining
<1>5. CASE UNCHANGED vars
  BY <1>5 DEF vars
<1> QED
  BY <1>1, <1>2, <1>3, <1>4, <1>5 DEF Next

\* Every step keeps the threads in their callback or their loop.
LEMMA CallbackOrLoopStep ==
  ASSUME TypeOK, SleepersWait, CallbackOrLoop, [Next]_vars
  PROVE  CallbackOrLoop'
<1> USE ThreadsDistinct
    DEF TypeOK, Threads, WorkerPC, SubmitterPC, OwnerPC, syncVars,
        SleepersWait, CallbackOrLoop
<1>1. ASSUME Alive,
             NEW w \in Workers, WorkerStep(w) \/ CallbackReturns(w)
                                              \/ SpuriousWakeup(w)
      PROVE  CallbackOrLoop'
  BY <1>1
  DEF WorkerStep, BeginThread, WorkerLock, WorkerMustWait, WorkerSleep,
      WorkerWake, WorkerExit, WorkerPop, WorkerRun, CallbackReturns,
      SpuriousWakeup
<1>2. ASSUME Alive, NEW s \in Submitters, CallAddTask(s) \/ SubmitterStep(s)
      PROVE  CallbackOrLoop'
  BY <1>2 DEF SubmitterStep, CallAddTask, AddTask, RefuseTask
<1>3. ASSUME Alive, Start \/ DestroyLock \/ DeletePool
      PROVE  CallbackOrLoop'
  BY <1>3 DEF Start, DestroyLock, DeletePool
<1>4. ASSUME Alive, OwnerStep
      PROVE  CallbackOrLoop'
  BY <1>4
  DEF OwnerStep, CreateThread, CreateThreadFails, DestroyStop,
      DestroyBroadcast, JoinThread, JoinStaleFails, JoinStaleCrashes,
      JoinDone, DestroyMutex, Created, ValidId, Joining
<1>5. CASE UNCHANGED vars
  BY <1>5 DEF vars
<1> QED
  BY <1>1, <1>2, <1>3, <1>4, <1>5 DEF Next

\* A step that leaves the flag may move those who will reset it, but not out of
\* the critical section and the wait.
LEMMA FlagKept ==
  ASSUME TypeOK, FlagHasOwner, UNCHANGED is_locked,
         \A t \in Threads :
           pc[t] \in {"test", "sleep", "wait", "stopping"} =>
             pc'[t] = pc[t] \/ pc'[t] \in {"test", "sleep"}
               \/ (t \in Workers /\ pc'[t] = "wait")
  PROVE  FlagHasOwner'
<1>1. CASE InCriticalSection # {}
  BY <1>1 DEF FlagHasOwner, InCriticalSection
<1>2. CASE \E w \in Workers : pc[w] = "wait"
  BY <1>2 DEF FlagHasOwner, InCriticalSection, Threads
<1> QED
  BY <1>1, <1>2 DEF FlagHasOwner

\* Every step keeps an owner for the flag.
LEMMA FlagHasOwnerStep ==
  ASSUME TypeOK, MutexOwnership, FlagHasOwner, [Next]_vars
  PROVE  FlagHasOwner'
<1> USE ThreadsDistinct DEF Threads, syncVars
<1>1. pc \in [Threads -> WorkerPC \cup SubmitterPC \cup OwnerPC]
  BY DEF TypeOK
<1>2. CASE is_locked' = FALSE
  BY <1>2 DEF FlagHasOwner
<1>3. ASSUME NEW w \in Workers, WorkerStep(w) \/ CallbackReturns(w)
                                              \/ SpuriousWakeup(w)
      PROVE  FlagHasOwner'
  <2>1. CASE BeginThread(w) \/ CallbackReturns(w)
    BY <1>1, <2>1, FlagKept DEF BeginThread, CallbackReturns
  <2>2. CASE WorkerLock(w)
    BY <1>1, <2>2 DEF WorkerLock, FlagHasOwner, InCriticalSection
  <2>3. CASE WorkerMustWait(w) \/ WorkerRun(w)
    BY <1>1, <2>3, FlagKept DEF WorkerMustWait, WorkerRun
  <2>4. CASE WorkerSleep(w) \/ WorkerWake(w)
    BY <1>1, <2>4, FlagKept DEF WorkerSleep, WorkerWake, CondWait, CondRelock
  <2>5. CASE WorkerExit(w) \/ WorkerPop(w)
    BY <1>2, <2>5 DEF WorkerExit, WorkerPop, Unlock
  <2>6. CASE SpuriousWakeup(w)
    BY <2>6, FlagKept DEF SpuriousWakeup
  <2> QED
    BY <1>3, <2>1, <2>2, <2>3, <2>4, <2>5, <2>6 DEF WorkerStep
<1>4. ASSUME NEW s \in Submitters, CallAddTask(s) \/ SubmitterStep(s)
      PROVE  FlagHasOwner'
  <2>1. CASE CallAddTask(s)
    BY <1>1, <2>1, FlagKept DEF CallAddTask
  <2>2. CASE AddTask(s) \/ RefuseTask(s)
    BY <1>2, <2>2 DEF AddTask, RefuseTask, Unlock
  <2> QED
    BY <1>4, <2>1, <2>2 DEF SubmitterStep
<1>5. CASE Start \/ DeletePool
  BY <1>1, <1>5, FlagKept DEF Start, DeletePool
<1>6. CASE DestroyLock
  BY <1>1, <1>6 DEF DestroyLock, FlagHasOwner, InCriticalSection
<1>7. CASE OwnerStep
  <2>1. CASE CreateThread
    BY <1>1, <2>1, FlagKept DEF CreateThread, Created
  <2>2. CASE CreateThreadFails \/ DestroyBroadcast
    BY <1>1, <2>2, FlagKept DEF CreateThreadFails, DestroyBroadcast
  <2>3. CASE DestroyStop \/ DestroyMutex
    BY <1>2, <2>3 DEF DestroyStop, DestroyMutex, Unlock
  <2>4. CASE JoinThread
    <3>1. PICK t : pc[t] = "exited" /\ pc' = [pc EXCEPT ![t] = "none"]
                   /\ UNCHANGED is_locked
      BY <2>4 DEF JoinThread
    <3> QED
      BY <1>1, <3>1, FlagKept
  <2>5. CASE JoinStaleFails
    BY <2>5, FlagKept DEF JoinStaleFails
  <2>6. CASE JoinStaleCrashes \/ JoinDone
    BY <1>1, <2>6, FlagKept DEF JoinStaleCrashes, JoinDone, Joining
  <2> QED
    BY <1>7, <2>1, <2>2, <2>3, <2>4, <2>5, <2>6 DEF OwnerStep
<1>8. CASE UNCHANGED vars
  BY <1>8, FlagKept DEF vars
<1> QED
  BY <1>3, <1>4, <1>5, <1>6, <1>7, <1>8 DEF Next

\* No step leaves a sleeper after the pool has stopped.
LEMMA NoSleeperStep ==
  ASSUME TypeOK, SleepTested, NoSleeperAfterStop, [Next]_vars
  PROVE  NoSleeperAfterStop'
<1> USE ThreadsDistinct
    DEF TypeOK, Threads, WorkerPC, SubmitterPC, OwnerPC, syncVars,
        SleepTested, MustWait, NoSleeperAfterStop, Alive
<1>1. ASSUME Alive,
             NEW w \in Workers, WorkerStep(w) \/ CallbackReturns(w)
                                              \/ SpuriousWakeup(w)
      PROVE  NoSleeperAfterStop'
  BY <1>1
  DEF WorkerStep, BeginThread, WorkerLock, WorkerMustWait, WorkerSleep,
      WorkerWake, WorkerExit, WorkerPop, WorkerRun, CallbackReturns,
      SpuriousWakeup, CondWait
<1>2. ASSUME Alive, NEW s \in Submitters, CallAddTask(s) \/ SubmitterStep(s)
      PROVE  NoSleeperAfterStop'
  BY <1>2 DEF SubmitterStep, CallAddTask, AddTask, RefuseTask, Signal
<1>3. ASSUME Alive, Start \/ DestroyLock \/ DeletePool
      PROVE  NoSleeperAfterStop'
  BY <1>3 DEF Start, DestroyLock, DeletePool, STARTED, STOPPED
<1>4. ASSUME Alive, OwnerStep
      PROVE  NoSleeperAfterStop'
  BY <1>4
  DEF OwnerStep, CreateThread, CreateThreadFails, DestroyStop,
      DestroyBroadcast, JoinThread, JoinStaleFails, JoinStaleCrashes,
      JoinDone, DestroyMutex, Broadcast, Created, ValidId, Joining
<1>5. CASE UNCHANGED vars
  BY <1>5 DEF vars
<1> QED
  BY <1>1, <1>2, <1>3, <1>4, <1>5 DEF Next

\* No step leaves a task queued that nobody is awake for.
LEMMA NoLostWakeupStep ==
  ASSUME TypeOK, SleepersWait, SleepTested, CallbackOrLoop,
         NoSleeperAfterStop, NoLostWakeup, [Next]_vars
  PROVE  NoLostWakeup'
<1> USE ThreadsDistinct
    DEF TypeOK, Threads, WorkerPC, SubmitterPC, OwnerPC, syncVars,
        SleepersWait, SleepTested, CallbackOrLoop, MustWait,
        NoSleeperAfterStop, NoLostWakeup, Live, Created, Alive
<1>1. ASSUME Alive,
             NEW w \in Workers, WorkerStep(w) \/ CallbackReturns(w)
                                              \/ SpuriousWakeup(w)
      PROVE  NoLostWakeup'
  BY <1>1
  DEF WorkerStep, BeginThread, WorkerLock, WorkerMustWait, WorkerSleep,
      WorkerWake, WorkerExit, WorkerPop, WorkerRun, CallbackReturns,
      SpuriousWakeup, CondWait
<1>2. ASSUME Alive, NEW s \in Submitters, CallAddTask(s) \/ SubmitterStep(s)
      PROVE  NoLostWakeup'
  BY <1>2 DEF SubmitterStep, CallAddTask, AddTask, RefuseTask, Signal
<1>3. ASSUME Alive, Start \/ DestroyLock \/ DeletePool
      PROVE  NoLostWakeup'
  BY <1>3 DEF Start, DestroyLock, DeletePool, STARTED, STOPPED
<1>4. ASSUME Alive, OwnerStep
      PROVE  NoLostWakeup'
  BY <1>4
  DEF OwnerStep, CreateThread, CreateThreadFails, DestroyStop,
      DestroyBroadcast, JoinThread, JoinStaleFails, JoinStaleCrashes,
      JoinDone, DestroyMutex, Broadcast, ValidId, Joining
<1>5. CASE UNCHANGED vars
  BY <1>5 DEF vars
<1> QED
  BY <1>1, <1>2, <1>3, <1>4, <1>5 DEF Next

\* Every step keeps the queue within its bound.
LEMMA QueueBoundStep ==
  ASSUME TypeOK, QueueBound, [Next]_vars
  PROVE  QueueBound'
<1> USE SizesOK DEF TypeOK, QueueBound, syncVars
<1>1. ASSUME NEW w \in Workers, WorkerPop(w)
      PROVE  QueueBound'
  <2>1. Len(m_tasks') = Len(m_tasks) - 1
    BY <1>1, HeadTailProperties DEF WorkerPop
  <2> QED
    BY <2>1
<1>2. ASSUME NEW s \in Submitters, AddTask(s)
      PROVE  QueueBound'
  <2>1. task[s] \in Tasks
    BY <1>2 DEF AddTask
  <2>2. Len(m_tasks') = Len(m_tasks) + 1
    BY <1>2, <2>1, AppendProperties DEF AddTask
  <2>3. SizeLimit > 0 => Len(m_tasks) <= SizeLimit
    BY <1>2 DEF AddTask, OverLimit
  <2> QED
    BY <2>2, <2>3
<1>3. ASSUME UNCHANGED m_tasks
      PROVE  QueueBound'
  BY <1>3
<1>4. [Next]_vars => \/ UNCHANGED m_tasks
                     \/ \E w \in Workers : WorkerPop(w)
                     \/ \E s \in Submitters : AddTask(s)
  BY DEF Next, vars, WorkerStep, SubmitterStep, OwnerStep, BeginThread,
     WorkerLock, WorkerMustWait, WorkerSleep, WorkerWake, WorkerExit,
     WorkerRun, CallbackReturns, SpuriousWakeup, CallAddTask, RefuseTask,
     Start, DestroyLock, DeletePool, CreateThread, CreateThreadFails,
     DestroyStop, DestroyBroadcast, JoinThread, JoinStaleFails,
     JoinStaleCrashes, JoinDone, DestroyMutex
<1> QED
  BY <1>1, <1>2, <1>3, <1>4
-----------------------------------------------------------------------------
(* The inductive invariant, and what follows from it.                        *)

\* The invariant holds at first.
LEMMA IInvInit == Init => IInv
<1> SUFFICES ASSUME Init PROVE IInv
  OBVIOUS
<1>1. TypeOK
  BY TypeInit
<1> USE ThreadsDistinct, SizesOK DEF Init, Threads
<1>2. InCriticalSection = {}
  BY DEF InCriticalSection
<1>3. Live = {}
  BY DEF Live, Created
<1>4. MustWait
  BY DEF MustWait, CONSTRUCTED, STOPPED
<1> QED
  BY <1>1, <1>2, <1>3, <1>4
  DEF IInv, MutexOwnership, SleepersWait, SleepTested, CallbackOrLoop,
      FlagHasOwner, NoSleeperAfterStop, NoLostWakeup, QueueBound

\* The invariant holds in every state that the pool reaches.
THEOREM IInvInvariant == Spec => []IInv
<1>1. IInv /\ [Next]_vars => IInv'
  BY TypeStep, MutexOwnershipStep, SleepersWaitStep, SleepTestedStep,
     CallbackOrLoopStep, FlagHasOwnerStep, NoSleeperStep, NoLostWakeupStep,
     QueueBoundStep
  DEF IInv
<1> QED
  BY IInvInit, <1>1, PTL DEF Spec

\* Every variable keeps to its domain, and a thread that runs or submits a
\* task has one.
THEOREM TypeCorrect == Spec => []TypeOK
<1>1. IInv => TypeOK
  BY DEF IInv
<1> QED
  BY IInvInvariant, <1>1, PTL

\* A thread between lock() and unlock(), or back from pthread_cond_wait, holds
\* the mutex, whatever is_locked says.
THEOREM MutexOwned == Spec => []MutexOwnership
<1>1. IInv => MutexOwnership
  BY DEF IInv
<1> QED
  BY IInvInvariant, <1>1, PTL

\* add_task() never leaves a task behind with every worker asleep.
THEOREM WakeupsAreNotLost == Spec => []NoLostWakeup
<1>1. IInv => NoLostWakeup
  BY DEF IInv
<1> QED
  BY IInvInvariant, <1>1, PTL

\* destroy_threadpool() leaves no worker asleep, however often the pool is
\* started and stopped.
THEOREM NobodySleepsAfterStop == Spec => []NoSleeperAfterStop
<1>1. IInv => NoSleeperAfterStop
  BY DEF IInv
<1> QED
  BY IInvInvariant, <1>1, PTL

\* The loop of ~Mutex() over is_locked does not spin for ever on a flag that
\* the last worker left set.
THEOREM FlagClears == Spec => []FlagClearsAtRest
<1>1. IInv => FlagClearsAtRest
  BY ThreadsDistinct
  DEF IInv, FlagClearsAtRest, FlagHasOwner, InCriticalSection, Live, Created,
      TypeOK, Threads, SubmitterPC
<1> QED
  BY IInvInvariant, <1>1, PTL

\* The queue exceeds the limit of set_task_size_limit() by one at most.
THEOREM QueueBounded == Spec => []QueueBound
<1>1. IInv => QueueBound
  BY DEF IInv
<1> QED
  BY IInvInvariant, <1>1, PTL
-----------------------------------------------------------------------------
(* Joining: a pool that was started once.                                    *)

\* Every step keeps what joining relies on.
LEMMA JoinInvStep ==
  ASSUME TypeOK, JoinInv, [Next]_vars
  PROVE  JoinInv'
<1> USE ThreadsDistinct, SizesOK
    DEF TypeOK, Threads, WorkerPC, SubmitterPC, OwnerPC, syncVars, bounds,
        JoinInv, Created
\* A worker's step neither gives out a thread id nor takes one back.
<1>1. ASSUME NEW w \in Workers, WorkerStep(w) \/ CallbackReturns(w)
                                              \/ SpuriousWakeup(w)
      PROVE  JoinInv'
  <2>1. /\ UNCHANGED <<m_threads, m_pool_state, i, starts>>
        /\ pc'[Owner] = pc[Owner]
    BY <1>1
    DEF WorkerStep, BeginThread, WorkerLock, WorkerMustWait, WorkerSleep,
        WorkerWake, WorkerExit, WorkerPop, WorkerRun, CallbackReturns,
        SpuriousWakeup
  <2>2. \A v \in Workers : pc'[v] = "none" <=> pc[v] = "none"
    BY <1>1
    DEF WorkerStep, BeginThread, WorkerLock, WorkerMustWait, WorkerSleep,
        WorkerWake, WorkerExit, WorkerPop, WorkerRun, CallbackReturns,
        SpuriousWakeup
  <2> QED
    BY <2>1, <2>2
<1>2. ASSUME NEW s \in Submitters, CallAddTask(s) \/ SubmitterStep(s)
      PROVE  JoinInv'
  BY <1>2 DEF SubmitterStep, CallAddTask, AddTask, RefuseTask
<1>3. CASE Start
  BY <1>3 DEF Start, STARTED, STOPPED
<1>4. CASE CreateThread
  <2>1. PICK w \in Workers \ Created :
          /\ m_threads' = Append(m_threads, w)
          /\ pc' = [pc EXCEPT ![w] = "created",
                              ![Owner] = IF i = PoolSize THEN "ready"
                                                         ELSE "creating"]
    BY <1>4 DEF CreateThread
  <2>2. /\ Len(m_threads') = Len(m_threads) + 1
        /\ \A k \in DOMAIN m_threads : /\ k \in DOMAIN m_threads'
                                       /\ m_threads'[k] = m_threads[k]
        /\ Len(m_threads') \in DOMAIN m_threads'
        /\ m_threads'[Len(m_threads')] = w
    BY <2>1, AppendProperties
  <2>3. /\ UNCHANGED <<m_pool_state, starts>>
        /\ i' = i + 1
        /\ pc[Owner] = "creating"
        /\ pc'[Owner] \in {"ready", "creating"}
        /\ \A v \in Workers \ {w} : pc'[v] = pc[v]
    BY <1>4, <2>1 DEF CreateThread
  <2> QED
    BY <2>2, <2>3 DEF STARTED, STOPPED
<1>5. CASE JoinThread
  <2>1. /\ i \in DOMAIN m_threads
        /\ m_threads[i] \in Workers
    BY <1>5 DEF JoinThread, ValidId
  <2>2. /\ UNCHANGED <<m_threads, m_pool_state, starts>>
        /\ i' = i + 1
        /\ pc[Owner] = "joining" /\ pc'[Owner] = "joining"
        /\ pc'[m_threads[i]] = "none"
        /\ \A v \in Workers \ {m_threads[i]} : pc'[v] = pc[v]
    BY <1>5, <2>1 DEF JoinThread, Joining
  <2> QED
    BY <2>1, <2>2
<1>6. CASE JoinStaleFails
  BY <1>6 DEF JoinStaleFails, ValidId, Joining
<1>7. CASE JoinDone
  <2>1. starts <= 1 => Created = {}
    BY <1>7 DEF JoinDone
  <2> QED
    BY <1>7, <2>1 DEF JoinDone
<1>8. CASE DestroyBroadcast
  BY <1>8 DEF DestroyBroadcast
<1>9. CASE CreateThreadFails
  BY <1>9 DEF CreateThreadFails, STARTED, STOPPED
<1>10. ASSUME DestroyLock \/ DestroyStop \/ DeletePool \/ JoinStaleCrashes
                \/ DestroyMutex
       PROVE  JoinInv'
  BY <1>10
  DEF DestroyLock, DestroyStop, DeletePool, JoinStaleCrashes, DestroyMutex
<1>11. CASE UNCHANGED vars
  BY <1>11 DEF vars
<1> QED
  BY <1>1, <1>2, <1>3, <1>4, <1>5, <1>6, <1>7, <1>8, <1>9, <1>10, <1>11
  DEF Next, OwnerStep

\* The destructor of a pool started at most once runs after its last worker
\* has ended.
THEOREM OnceStartedPoolIsQuiet == Spec => []DeletedOnceStartedPoolIsQuiet
<1>1. Init => JoinInv
  BY ThreadsDistinct, SizesOK DEF Init, JoinInv, Created, Threads
<1>2. TypeOK /\ JoinInv /\ [Next]_vars => JoinInv'
  BY JoinInvStep
<1>3. JoinInv => DeletedOnceStartedPoolIsQuiet
  BY DEF JoinInv, DeletedOnceStartedPoolIsQuiet, Live
<1> QED
  BY TypeCorrect, <1>1, <1>2, <1>3, PTL DEF Spec
-----------------------------------------------------------------------------
(* That a ThreadPool is a TaskQueue, and TaskConservation, come from an      *)
(* invariant on where a task is: with the submitter that is in add_task with *)
(* it, in m_tasks, with the worker that runs it, run, or refused.            *)

Adding(s, t) == pc[s] = "add" /\ task[s] = t
Runs(w, t) == pc[w] = "run" /\ task[w] = t

IsAdded(t) == \E s \in Submitters : Adding(s, t)
IsRunning(t) == \E w \in Workers : Runs(w, t)

\* A task has one submitter, one place in the queue and one worker.
OneSubmitter ==
  \A r, s \in Submitters : pc[r] = "add" /\ Adding(s, task[r]) => r = s
OneSlot == \A k, j \in DOMAIN m_tasks : m_tasks[k] = m_tasks[j] => k = j
OneWorker == \A v, w \in Workers : pc[v] = "run" /\ Runs(w, task[v]) => v = w

\* It is in one stage at a time, and in some stage once it is offered.
OneStage ==
  \A t \in Tasks :
    /\ IsAdded(t) => ~IsRunning(t) /\ t \notin Queued \cup ran \cup refused
    /\ IsRunning(t) => t \notin Queued \cup ran \cup refused
    /\ t \in Queued => t \notin ran \cup refused
    /\ t \in ran => t \notin refused
SomeStage ==
  \A t \in Tasks :
    t \in offered <=> IsAdded(t) \/ IsRunning(t) \/ t \in Queued \cup ran \cup refused

Stages == OneSubmitter /\ OneSlot /\ OneWorker /\ OneStage /\ SomeStage
-----------------------------------------------------------------------------
\* Before the first add_task no task is anywhere.
LEMMA StagesInit == Init => Stages
<1> SUFFICES ASSUME Init
             PROVE  Stages
  OBVIOUS
<1>1. /\ \A s \in Submitters : pc[s] # "add"
      /\ \A w \in Workers : pc[w] # "run"
  BY ThreadsDistinct DEF Init, Threads
<1>2. m_tasks = <<>> /\ Queued = {} /\ offered = {} /\ ran = {} /\ refused = {}
  BY DEF Init, Queued
<1> QED
  BY <1>1, <1>2 DEF Stages, OneSubmitter, OneSlot, OneWorker, OneStage, SomeStage,
                    Adding, Runs, IsAdded, IsRunning

\* The owner is neither a worker nor a submitter, and a worker is no submitter.
LEMMA Apart ==
  /\ Owner \notin Workers \cup Submitters
  /\ Workers \cap Submitters = {}
  /\ Workers \cup Submitters \subseteq Threads
BY ThreadsDistinct DEF Threads

\* Steps that move no task.
LEMMA QuietStages ==
  ASSUME Stages, UNCHANGED <<m_tasks, task, history>>,
         \A s \in Submitters : pc'[s] = "add" <=> pc[s] = "add",
         \A w \in Workers : pc'[w] = "run" <=> pc[w] = "run"
  PROVE  Stages'
<1>1. \A t : (IsAdded(t)' <=> IsAdded(t)) /\ (IsRunning(t)' <=> IsRunning(t))
  BY DEF IsAdded, IsRunning, Adding, Runs
<1>2. Queued' = Queued /\ UNCHANGED <<offered, ran, refused>>
  BY DEF Queued, history
<1>3. OneSubmitter' /\ OneSlot' /\ OneWorker'
  BY DEF Stages, OneSubmitter, OneSlot, OneWorker, Adding, Runs
<1>4. OneStage' /\ SomeStage'
  BY <1>1, <1>2 DEF Stages, OneStage, SomeStage
<1> QED
  BY <1>3, <1>4 DEF Stages

\* A new task has one stage: its submitter's.
LEMMA CallAddTaskStages ==
  ASSUME TypeOK, Stages, NEW s \in Submitters, CallAddTask(s)
  PROVE  Stages'
<1> USE Apart
<1>1. PICK t \in Tasks \ offered : /\ task' = [task EXCEPT ![s] = t]
                                   /\ offered' = offered \cup {t}
  BY DEF CallAddTask
<1>2. /\ pc[s] = "idle" /\ pc'[s] = "add"
      /\ \A r \in (Workers \cup Submitters) \ {s} :
           pc'[r] = pc[r] /\ task'[r] = task[r]
      /\ task'[s] = t
      /\ UNCHANGED <<m_tasks, ran, refused>>
  BY <1>1 DEF CallAddTask, TypeOK
<1>3. Queued' = Queued
  BY <1>2 DEF Queued
<1>4. ~IsAdded(t) /\ ~IsRunning(t) /\ t \notin Queued \cup ran \cup refused
  BY DEF Stages, SomeStage
<1>5. \A u : IsAdded(u)' <=> IsAdded(u) \/ u = t
  BY <1>2 DEF IsAdded, Adding
<1>6. \A u : IsRunning(u)' <=> IsRunning(u)
  BY <1>2 DEF IsRunning, Runs
<1>7. OneSubmitter'
  BY <1>2, <1>4 DEF Stages, OneSubmitter, IsAdded, Adding
<1>8. OneSlot' /\ OneWorker'
  BY <1>2 DEF Stages, OneSlot, OneWorker, Runs
<1>9. OneStage' /\ SomeStage'
  BY <1>1, <1>2, <1>3, <1>4, <1>5, <1>6 DEF Stages, OneStage, SomeStage
<1> QED
  BY <1>7, <1>8, <1>9 DEF Stages

\* The submitter that leaves add_task has its task no more.
LEMMA LeavesAdd ==
  ASSUME TypeOK, Stages, NEW s \in Submitters, pc[s] = "add",
         pc' = [pc EXCEPT ![s] = "idle"], UNCHANGED task
  PROVE  /\ OneSubmitter' /\ OneWorker'
         /\ task[s] \in Tasks /\ IsAdded(task[s])
         /\ \A u : IsAdded(u)' <=> IsAdded(u) /\ u # task[s]
         /\ \A u : IsRunning(u)' <=> IsRunning(u)
<1> USE Apart
<1>1. /\ pc'[s] = "idle"
      /\ \A r \in (Workers \cup Submitters) \ {s} : pc'[r] = pc[r]
  BY DEF TypeOK
<1>2. task[s] \in Tasks /\ IsAdded(task[s])
  BY DEF TypeOK, IsAdded, Adding
<1>3. OneSubmitter' /\ OneWorker'
  BY <1>1 DEF Stages, OneSubmitter, OneWorker, Adding, Runs
<1>4. \A u : IsAdded(u)' <=> IsAdded(u) /\ u # task[s]
  BY <1>1 DEF Stages, OneSubmitter, IsAdded, Adding
<1>5. \A u : IsRunning(u)' <=> IsRunning(u)
  BY <1>1 DEF IsRunning, Runs
<1> QED
  BY <1>2, <1>3, <1>4, <1>5

\* add_task moves its task from the submitter to the end of the queue.
LEMMA AddTaskStages ==
  ASSUME TypeOK, Stages, NEW s \in Submitters, AddTask(s)
  PROVE  Stages'
<1>1. /\ OneSubmitter' /\ OneWorker'
      /\ task[s] \in Tasks /\ IsAdded(task[s])
      /\ \A u : IsAdded(u)' <=> IsAdded(u) /\ u # task[s]
      /\ \A u : IsRunning(u)' <=> IsRunning(u)
  BY LeavesAdd DEF AddTask
<1>2. m_tasks \in Seq(Tasks) /\ m_tasks' = Append(m_tasks, task[s])
      /\ UNCHANGED <<offered, ran, refused>>
  BY DEF AddTask, TypeOK, history
<1>3. /\ DOMAIN m_tasks' = DOMAIN m_tasks \cup {Len(m_tasks) + 1}
      /\ m_tasks'[Len(m_tasks) + 1] = task[s]
      /\ \A k \in DOMAIN m_tasks : m_tasks'[k] = m_tasks[k]
  BY <1>1, <1>2
<1>4. Queued' = Queued \cup {task[s]}
  BY <1>3 DEF Queued
<1>5. task[s] \notin Queued
  BY <1>1 DEF Stages, OneStage
<1>6. OneSlot'
  BY <1>3, <1>5 DEF Stages, OneSlot, Queued
<1>7. OneStage' /\ SomeStage'
  BY <1>1, <1>2, <1>4 DEF Stages, OneStage, SomeStage
<1> QED
  BY <1>1, <1>6, <1>7 DEF Stages

\* A refused task leaves its submitter for good.
LEMMA RefuseTaskStages ==
  ASSUME TypeOK, Stages, NEW s \in Submitters, RefuseTask(s)
  PROVE  Stages'
<1>1. /\ OneSubmitter' /\ OneWorker'
      /\ task[s] \in Tasks /\ IsAdded(task[s])
      /\ \A u : IsAdded(u)' <=> IsAdded(u) /\ u # task[s]
      /\ \A u : IsRunning(u)' <=> IsRunning(u)
  BY LeavesAdd DEF RefuseTask
<1>2. refused' = refused \cup {task[s]} /\ UNCHANGED <<m_tasks, offered, ran>>
  BY DEF RefuseTask
<1>3. Queued' = Queued /\ OneSlot'
  BY <1>2 DEF Queued, OneSlot, Stages
<1>4. OneStage' /\ SomeStage'
  BY <1>1, <1>2, <1>3 DEF Stages, OneStage, SomeStage
<1> QED
  BY <1>1, <1>3, <1>4 DEF Stages

\* A pop moves the first task from the queue to the worker.
LEMMA WorkerPopStages ==
  ASSUME TypeOK, Stages, NEW w \in Workers, WorkerPop(w)
  PROVE  /\ Stages'
         /\ {task'[v] : v \in Running'} = {task[v] : v \in Running} \cup {Head(m_tasks)}
<1> USE Apart
<1> DEFINE t == Head(m_tasks)
<1>1. /\ m_tasks \in Seq(Tasks) /\ m_tasks # <<>> /\ m_tasks' = Tail(m_tasks)
      /\ UNCHANGED <<offered, ran, refused>>
  BY DEF WorkerPop, TypeOK, history
<1>2. /\ 1 \in DOMAIN m_tasks /\ m_tasks[1] = t /\ t \in Tasks
      /\ \A k \in DOMAIN m_tasks' :
           k \in Int /\ k + 1 \in DOMAIN m_tasks /\ k + 1 # 1
           /\ m_tasks'[k] = m_tasks[k + 1]
      /\ \A k \in DOMAIN m_tasks : k # 1 =>
           k - 1 \in DOMAIN m_tasks' /\ m_tasks'[k - 1] = m_tasks[k]
  BY <1>1
<1>3. /\ pc[w] = "test" /\ pc'[w] = "run" /\ task'[w] = t
      /\ \A r \in (Workers \cup Submitters) \ {w} :
           pc'[r] = pc[r] /\ task'[r] = task[r]
  BY DEF WorkerPop, TypeOK
<1>4. t \in Queued
  BY <1>2 DEF Queued
<1> HIDE DEF t
<1>5. \A u : u \in Queued' <=> u \in Queued /\ u # t
  <2>1. \A u \in Queued' : u \in Queued /\ u # t
    BY <1>2 DEF Stages, OneSlot, Queued
  <2>2. \A u \in Queued : u # t => u \in Queued'
    BY <1>2 DEF Queued
  <2> QED
    BY <2>1, <2>2
<1>6. ~IsAdded(t) /\ ~IsRunning(t)
  BY <1>2, <1>4 DEF Stages, OneStage
<1>7. OneSlot'
  BY <1>2 DEF Stages, OneSlot
<1>8. \A u : (IsRunning(u)' <=> IsRunning(u) \/ u = t) /\ (IsAdded(u)' <=> IsAdded(u))
  <2>1. \A u : IsRunning(u)' <=> IsRunning(u) \/ u = t
    BY <1>3 DEF IsRunning, Runs
  <2>2. \A u : IsAdded(u)' <=> IsAdded(u)
    BY <1>3 DEF IsAdded, Adding
  <2> QED
    BY <2>1, <2>2
<1>9. OneSubmitter'
  BY <1>3 DEF Stages, OneSubmitter, Adding
<1>10. OneWorker'
  BY <1>3, <1>6 DEF Stages, OneWorker, IsRunning, Runs
<1>11. OneStage' /\ SomeStage'
  BY <1>1, <1>2, <1>4, <1>5, <1>6, <1>8 DEF Stages, OneStage, SomeStage
<1>12. Running' = Running \cup {w} /\ w \notin Running
  BY <1>3 DEF Running
<1>13. {task'[v] : v \in Running'} = {task[v] : v \in Running} \cup {t}
  BY <1>3, <1>12 DEF Running
<1> QED
  BY <1>7, <1>9, <1>10, <1>11, <1>13 DEF Stages, t

\* The task that a worker has run is with no thread any more.
LEMMA WorkerRunStages ==
  ASSUME TypeOK, Stages, NEW w \in Workers, WorkerRun(w)
  PROVE  /\ Stages'
         /\ {task'[v] : v \in Running'} = {task[v] : v \in Running} \ {task[w]}
<1> USE Apart
<1>1. /\ pc[w] = "run" /\ pc'[w] = "lock"
      /\ \A r \in (Workers \cup Submitters) \ {w} : pc'[r] = pc[r]
      /\ UNCHANGED <<task, m_tasks, offered, refused>>
      /\ ran' = ran \cup {task[w]}
  BY DEF WorkerRun, TypeOK
<1>2. task[w] \in Tasks /\ IsRunning(task[w])
  BY <1>1 DEF TypeOK, IsRunning, Runs
<1>3. \A u : IsAdded(u)' <=> IsAdded(u)
  BY <1>1 DEF IsAdded, Adding
<1>4. \A u : IsRunning(u)' <=> IsRunning(u) /\ u # task[w]
  BY <1>1 DEF Stages, OneWorker, IsRunning, Runs
<1>5. Queued' = Queued /\ OneSlot'
  BY <1>1 DEF Queued, OneSlot, Stages
<1>6. OneSubmitter' /\ OneWorker'
  BY <1>1 DEF Stages, OneSubmitter, OneWorker, Adding, Runs
<1>7. OneStage' /\ SomeStage'
  BY <1>1, <1>2, <1>3, <1>4, <1>5 DEF Stages, OneStage, SomeStage
<1>8. Running' = Running \ {w}
  BY <1>1 DEF Running
<1>9. \A v \in Running : task[v] = task[w] => v = w
  BY <1>1 DEF Stages, OneWorker, Runs, Running
<1>10. {task'[v] : v \in Running'} = {task[v] : v \in Running} \ {task[w]}
  BY <1>1, <1>8, <1>9
<1> QED
  BY <1>5, <1>6, <1>7, <1>10 DEF Stages

\* The worker's steps outside its critical section and those of the owner.
LEMMA QuietSteps ==
  ASSUME TypeOK, Stages, [Next]_vars,
         \A s \in Submitters : ~CallAddTask(s) /\ ~AddTask(s) /\ ~RefuseTask(s),
         \A w \in Workers : ~WorkerPop(w) /\ ~WorkerRun(w)
  PROVE  Stages' /\ UNCHANGED <<m_tasks, ran>> /\ Running' = Running /\ task' = task
<1> USE Apart
<1>1. SUFFICES /\ UNCHANGED <<m_tasks, task, history>>
               /\ \A s \in Submitters : pc'[s] = "add" <=> pc[s] = "add"
               /\ \A w \in Workers : pc'[w] = "run" <=> pc[w] = "run"
  BY QuietStages DEF Running, history
<1>2. pc \in [Threads -> WorkerPC \cup SubmitterPC \cup OwnerPC]
  BY DEF TypeOK
<1>3. ASSUME NEW w \in Workers, WorkerStep(w) \/ CallbackReturns(w)
                                              \/ SpuriousWakeup(w)
      PROVE  <1>1!1
  <2>1. \/ BeginThread(w) \/ WorkerLock(w) \/ WorkerMustWait(w) \/ WorkerSleep(w)
        \/ WorkerWake(w) \/ WorkerExit(w) \/ CallbackReturns(w)
        \/ SpuriousWakeup(w)
    BY <1>3 DEF WorkerStep
  <2>2. UNCHANGED <<m_tasks, task, history>>
    BY <2>1 DEF BeginThread, WorkerLock, WorkerMustWait, WorkerSleep, WorkerWake,
                WorkerExit, CallbackReturns, SpuriousWakeup
  <2>3. pc' = pc \/ \E x : /\ x # "run" /\ pc[w] # "run"
                           /\ pc' = [pc EXCEPT ![w] = x]
    BY <2>1 DEF BeginThread, WorkerLock, WorkerMustWait, WorkerSleep, WorkerWake,
                WorkerExit, CallbackReturns, SpuriousWakeup
  <2> QED
    BY <1>2, <2>2, <2>3
<1>4. ASSUME NEW x, pc' = [pc EXCEPT ![Owner] = x], UNCHANGED <<m_tasks, task, history>>
      PROVE  <1>1!1
  BY <1>2, <1>4
<1>5. CASE Start \/ DestroyLock \/ DeletePool
  BY <1>4, <1>5 DEF Start, DestroyLock, DeletePool
<1>6. CASE OwnerStep
  <2>1. CASE CreateThread
    <3>1. PICK w \in Workers \ Created : \E x :
            pc' = [pc EXCEPT ![w] = "created", ![Owner] = x]
      BY <2>1 DEF CreateThread
    <3>2. pc[w] = "none"
      BY DEF Created
    <3> QED
      BY <1>2, <2>1, <3>1, <3>2 DEF CreateThread
  <2>2. CASE JoinThread
    <3>1. /\ m_threads[i] \in Workers /\ pc[m_threads[i]] = "exited"
          /\ pc' = [pc EXCEPT ![m_threads[i]] = "none"]
          /\ UNCHANGED <<m_tasks, task, history>>
      BY <2>2 DEF JoinThread, ValidId, TypeOK
    <3> QED
      BY <1>2, <3>1
  <2>3. CASE JoinStaleFails
    BY <2>3 DEF JoinStaleFails
  <2>4. CASE \/ CreateThreadFails \/ DestroyStop \/ DestroyBroadcast
             \/ JoinStaleCrashes \/ JoinDone \/ DestroyMutex
    BY <1>4, <2>4 DEF CreateThreadFails, DestroyStop, DestroyBroadcast,
                      JoinStaleCrashes, JoinDone, DestroyMutex
  <2> QED
    BY <1>6, <2>1, <2>2, <2>3, <2>4 DEF OwnerStep
<1>7. CASE UNCHANGED vars
  BY <1>7 DEF vars
<1> QED
  BY <1>3, <1>5, <1>6, <1>7 DEF Next, SubmitterStep

\* Every step keeps the stages apart.
LEMMA StagesStep == TypeOK /\ Stages /\ [Next]_vars => Stages'
BY QuietSteps, CallAddTaskStages, AddTaskStages, RefuseTaskStages, WorkerPopStages,
   WorkerRunStages

\* A task is in one stage at a time, with one thread or in one slot.
THEOREM TasksHaveStages == Spec => []Stages
BY StagesInit, StagesStep, TypeCorrect, PTL DEF Spec

\* A task in one stage, with one thread or slot, is counted once.
LEMMA StagesConserve == TypeOK /\ Stages => TaskConservation
<1> SUFFICES ASSUME TypeOK, Stages, NEW t \in Tasks
             PROVE  Cardinality(Places(t)) = (IF t \in offered THEN 1 ELSE 0)
  BY DEF TaskConservation
<1> USE DEF InAdd, RunBy, Slots, Running
<1>1. IsAdded(t) => \E s : InAdd(t) = {s}
  BY DEF Stages, OneSubmitter, IsAdded, Adding
<1>2. ~IsAdded(t) => InAdd(t) = {}
  BY DEF IsAdded, Adding
<1>3. IsRunning(t) => \E w : RunBy(t) = {w}
  BY DEF Stages, OneWorker, IsRunning, Runs
<1>4. ~IsRunning(t) => RunBy(t) = {}
  BY DEF IsRunning, Runs
<1>5. t \in Queued => \E k : Slots(t) = {k}
  BY DEF Stages, OneSlot, Queued
<1>6. t \notin Queued => Slots(t) = {}
  BY DEF Queued
<1>7. t \in offered => \E x : Places(t) = {x}
  BY <1>1, <1>2, <1>3, <1>4, <1>5, <1>6 DEF Stages, OneStage, SomeStage, Places
<1>8. t \notin offered => Places(t) = {}
  BY <1>2, <1>4, <1>6 DEF Stages, SomeStage, Places
<1> QED
  BY <1>7, <1>8, FS_EmptySet, FS_Singleton

\* No task is lost, run twice or run after add_task refused it.
THEOREM TasksAreConserved == Spec => []TaskConservation
BY TasksHaveStages, TypeCorrect, StagesConserve, PTL
-----------------------------------------------------------------------------
(* The refinement.                                                           *)

\* The pool begins as the queue does.
LEMMA QueueInit == Init => TQ!TQInit
<1> SUFFICES ASSUME Init
             PROVE  TQ!TQInit
  OBVIOUS
<1>1. Running = {}
  BY ThreadsDistinct DEF Init, Running, Threads
<1>2. m_tasks = <<>> /\ ran = {} /\ m_pool_state # STOPPED
  BY DEF Init, CONSTRUCTED, STOPPED
<1> QED
  BY <1>1, <1>2 DEF TQ!TQInit

\* Every step of the pool is one of the queue, or none.
LEMMA QueueStep == TypeOK /\ Stages /\ [Next]_vars => [TQ!TQNext]_(TQ!tqVars)
<1> SUFFICES ASSUME TypeOK, Stages, [Next]_vars
             PROVE  [TQ!TQNext]_(TQ!tqVars)
  OBVIOUS
<1> USE Apart
<1> DEFINE running == {task[w] : w \in Running}
<1>1. ASSUME NEW s \in Submitters, CallAddTask(s)
      PROVE  UNCHANGED TQ!tqVars
  <2>1. /\ Running' = Running /\ \A w \in Workers : task'[w] = task[w]
        /\ UNCHANGED <<m_tasks, ran, m_pool_state>>
    BY <1>1 DEF CallAddTask, Running, TypeOK
  <2>2. running' = running
    BY <2>1 DEF Running
  <2> QED
    BY <2>1, <2>2 DEF TQ!tqVars
<1>2. ASSUME NEW s \in Submitters, AddTask(s)
      PROVE  TQ!TQNext
  <2>1. /\ m_tasks' = Append(m_tasks, task[s])
        /\ UNCHANGED <<task, ran, m_pool_state>>
        /\ Running' = Running
    BY <1>2 DEF AddTask, history, Running, TypeOK
  <2>2. PICK t \in Tasks : t = task[s] /\ IsAdded(t)
    BY <1>2 DEF AddTask, TypeOK, IsAdded, Adding
  <2>3. t \notin Queued \cup ran /\ ~IsRunning(t)
    BY <2>2 DEF Stages, OneStage
  <2>4. t \notin running
    BY <2>3 DEF IsRunning, Runs, Running
  <2>5. TQ!Accept(t)
    BY <2>2, <2>1, <2>3, <2>4 DEF TQ!Accept, TQ!Queued, Queued
  <2> QED
    BY <2>2, <2>5 DEF TQ!TQNext
<1>3. ASSUME NEW s \in Submitters, RefuseTask(s)
      PROVE  UNCHANGED TQ!tqVars
  BY <1>3 DEF RefuseTask, TQ!tqVars, Running, TypeOK
<1>4. ASSUME NEW w \in Workers, WorkerPop(w)
      PROVE  TQ!TQNext
  <2>1. running' = running \cup {Head(m_tasks)}
    BY <1>4, WorkerPopStages
  <2>2. TQ!Begin
    BY <1>4, <2>1 DEF WorkerPop, TQ!Begin, history
  <2> QED
    BY <2>2 DEF TQ!TQNext
<1>5. ASSUME NEW w \in Workers, WorkerRun(w)
      PROVE  TQ!TQNext
  <2>1. running' = running \ {task[w]}
    BY <1>5, WorkerRunStages
  <2>2. PICK t \in Tasks : t = task[w] /\ t \in running
    BY <1>5 DEF WorkerRun, TypeOK, Running
  <2>3. UNCHANGED <<m_tasks, m_pool_state>> /\ ran' = ran \cup {task[w]}
    BY <1>5 DEF WorkerRun
  <2>4. TQ!Finish(t)
    BY <2>1, <2>2, <2>3 DEF TQ!Finish
  <2> QED
    BY <2>2, <2>4 DEF TQ!TQNext
<1>6. CASE /\ \A s \in Submitters : ~CallAddTask(s) /\ ~AddTask(s) /\ ~RefuseTask(s)
           /\ \A w \in Workers : ~WorkerPop(w) /\ ~WorkerRun(w)
  <2>1. UNCHANGED <<m_tasks, ran>> /\ running' = running
    BY <1>6, QuietSteps
  <2>2. CASE m_pool_state' = m_pool_state
    BY <2>1, <2>2 DEF TQ!tqVars
  <2>3. CASE m_pool_state' = STOPPED
    BY <2>1, <2>3 DEF TQ!TQNext, TQ!Stop
  <2>4. CASE m_pool_state' = STARTED
    BY <2>1, <2>4 DEF TQ!TQNext, TQ!Resume, STARTED, STOPPED
  <2>5. m_pool_state' \in {m_pool_state, STOPPED, STARTED}
    BY DEF Next, WorkerStep, BeginThread, WorkerLock, WorkerMustWait, WorkerSleep,
           WorkerWake, WorkerExit, WorkerPop, WorkerRun, CallbackReturns,
           SpuriousWakeup, SubmitterStep, CallAddTask, AddTask, RefuseTask, Start,
           DestroyLock, DeletePool, OwnerStep, CreateThread, CreateThreadFails,
           DestroyStop, DestroyBroadcast, JoinThread, JoinStaleFails,
           JoinStaleCrashes, JoinDone, DestroyMutex, vars
  <2> QED
    BY <2>2, <2>3, <2>4, <2>5
<1> QED
  BY <1>1, <1>2, <1>3, <1>4, <1>5, <1>6

\* A ThreadPool is a FIFO queue that begins each accepted task at most once, in
\* order, and begins none while it is stopped.
THEOREM PoolIsTaskQueue == Spec => ImplementsTaskQueue
<1>1. Init => TQ!TQInit
  BY QueueInit
<1>2. TypeOK /\ Stages /\ [Next]_vars => [TQ!TQNext]_(TQ!tqVars)
  BY QueueStep
<1> QED
  BY <1>1, <1>2, TypeCorrect, TasksHaveStages, PTL
     DEF Spec, ImplementsTaskQueue, TQ!TQSpec
=============================================================================
