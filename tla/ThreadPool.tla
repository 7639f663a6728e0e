------------------------------ MODULE ThreadPool -----------------------------
(***************************************************************************)
(* The ThreadPool of frameworks/threadpool/ThreadPool.cpp: a deque of      *)
(* tasks guarded by one mutex and one condition variable, the worker       *)
(* threads that drain it (execute_thread), the threads that fill it        *)
(* (add_task), and the owner, who starts the pool, stops it and deletes    *)
(* it.  The input manager runs two pools of one thread each: one that      *)
(* dispatches events and one whose thread runs a start callback instead.   *)
(*                                                                         *)
(* A step is a stretch of code between two points where another thread can *)
(* see the difference: code under m_task_mutex that ends by releasing it   *)
(* is one step, whoever else wants the mutex waits.                        *)
(***************************************************************************)
EXTENDS Integers, Sequences, FiniteSets

CONSTANTS
  Tasks,        \* Task objects, each handed to add_task once
  Submitters,   \* threads that call add_task
  Workers,      \* thread ids that pthread_create may return
  Owner,        \* the thread that owns the pool ("the main thread")
  NoThread,     \* owner of a free mutex
  NoTask,       \* a thread's task pointer before it is assigned
  PoolSize,     \* m_pool_size
  SizeLimit,    \* m_task_size_limit; -1 in the constructor: no limit
  MaxStarts,    \* bound: how often the owner calls start() with effect
  MaxSpurious   \* bound: spurious wakeups of pthread_cond_wait

Threads == Workers \cup Submitters \cup {Owner}

ASSUME ThreadsDistinct ==
  /\ Owner \notin Workers \cup Submitters
  /\ Workers \cap Submitters = {}
  /\ NoThread \notin Threads
ASSUME NoTaskIsNoTask == NoTask \notin Tasks
ASSUME SizesOK ==
  /\ PoolSize \in Nat
  /\ SizeLimit \in Int
  /\ MaxStarts \in Nat
  /\ MaxSpurious \in Nat

VARIABLES
  m_task_mutex,     \* the thread that holds Mutex::m_lock, or NoThread
  is_locked,        \* Mutex::is_locked, the flag that ~Mutex() spins on
  m_task_cond_var,  \* the threads asleep in pthread_cond_wait
  m_tasks,          \* std::deque<Task *>
  m_pool_state,
  m_threads,        \* std::vector<pthread_t>
  m_scb,            \* whether set_thread_start_cb has set a start callback
  pc,               \* where each thread is
  task,             \* the task each thread handles
  i,                \* loop counter of start() and destroy_threadpool()
  offered,          \* history: tasks handed to add_task
  refused,          \* history: tasks for which add_task returned -1
  ran,              \* history: tasks that have been run and deleted
  starts,           \* number of starts, up to MaxStarts
  spurious          \* number of spurious wakeups, up to MaxSpurious

syncVars == <<m_task_mutex, is_locked, m_task_cond_var>>
history == <<offered, refused, ran>>
bounds == <<starts, spurious>>
vars == <<syncVars, m_tasks, m_pool_state, m_threads, m_scb, pc, task, i,
          history, bounds>>

CONSTRUCTED == -1   \* what the constructor leaves in m_pool_state
STARTED == 0
STOPPED == 1

\* "none": the id is not in use, for it was never given out or has been joined.
WorkerPC == {"none", "created", "callback", "lock", "test", "sleep", "wait",
             "run", "exited"}
SubmitterPC == {"idle", "add"}
OwnerPC == {"ready", "creating", "stopping", "broadcasting", "joining",
            "deleting", "gone", "crashed"}

Queued == {m_tasks[k] : k \in DOMAIN m_tasks}
Running == {w \in Workers : pc[w] = "run"}
Created == {w \in Workers : pc[w] # "none"}
Live == {w \in Created : pc[w] # "exited"}
InCriticalSection == {t \in Threads : pc[t] \in {"test", "sleep", "stopping"}}

Init ==
  /\ m_task_mutex = NoThread
  /\ is_locked = FALSE
  /\ m_task_cond_var = {}
  /\ m_tasks = <<>>
  /\ m_pool_state = CONSTRUCTED
  /\ m_threads = <<>>
  /\ m_scb \in BOOLEAN
  /\ pc = [t \in Threads |-> IF t = Owner THEN "ready"
                             ELSE IF t \in Workers THEN "none" ELSE "idle"]
  /\ task = [t \in Workers \cup Submitters |-> NoTask]
  /\ i = 1
  /\ offered = {}
  /\ refused = {}
  /\ ran = {}
  /\ starts = 0
  /\ spurious = 0
-----------------------------------------------------------------------------
(* Mutex and CondVar.  pthread_cond_wait releases the mutex and takes it   *)
(* back without going through the class Mutex, so is_locked keeps its      *)
(* value: it may be TRUE with the mutex free, and FALSE with it held.      *)

Lock(t) ==
  /\ m_task_mutex = NoThread
  /\ m_task_mutex' = t
  /\ is_locked' = TRUE

\* Variant: unlock() without its first line.
Unlock_KeepsFlag ==
  /\ m_task_mutex' = NoThread
  /\ UNCHANGED is_locked

Unlock ==
  /\ m_task_mutex' = NoThread
  /\ is_locked' = FALSE

CondWait(t) ==
  /\ m_task_mutex' = NoThread
  /\ m_task_cond_var' = m_task_cond_var \cup {t}
  /\ UNCHANGED is_locked

\* Variant: a wait that returns without taking the mutex back.
CondRelock_NoWait(t) ==
  /\ m_task_mutex' = t
  /\ UNCHANGED is_locked

CondRelock(t) ==
  /\ m_task_mutex = NoThread
  /\ m_task_mutex' = t
  /\ UNCHANGED is_locked

\* Variant: the signal is left out.
Signal_Nobody == UNCHANGED m_task_cond_var

Signal ==
  IF m_task_cond_var = {}
  THEN UNCHANGED m_task_cond_var
  ELSE \E t \in m_task_cond_var : m_task_cond_var' = m_task_cond_var \ {t}

\* Variant: signal() where the code has broadcast().
Broadcast_One == Signal

Broadcast == m_task_cond_var' = {}
-----------------------------------------------------------------------------
(* execute_thread: a worker takes tasks until the pool is stopped.         *)

\* ss_start_thread: the start callback, if any, replaces execute_thread.
BeginThread(w) ==
  /\ pc[w] = "created"
  /\ pc' = [pc EXCEPT ![w] = IF m_scb THEN "callback" ELSE "lock"]
  /\ UNCHANGED <<syncVars, m_tasks, m_pool_state, m_threads, m_scb, task, i,
                 history, bounds>>

CallbackReturns(w) ==
  /\ pc[w] = "callback"
  /\ pc' = [pc EXCEPT ![w] = "exited"]
  /\ UNCHANGED <<syncVars, m_tasks, m_pool_state, m_threads, m_scb, task, i,
                 history, bounds>>

WorkerLock(w) ==
  /\ pc[w] = "lock"
  /\ Lock(w)
  /\ pc' = [pc EXCEPT ![w] = "test"]
  /\ UNCHANGED <<m_task_cond_var, m_tasks, m_pool_state, m_threads, m_scb,
                 task, i, history, bounds>>

MustWait == m_pool_state # STOPPED /\ m_tasks = <<>>

\* The while condition holds; the mutex is still held until the wait begins.
WorkerMustWait(w) ==
  /\ pc[w] = "test"
  /\ MustWait
  /\ pc' = [pc EXCEPT ![w] = "sleep"]
  /\ UNCHANGED <<syncVars, m_tasks, m_pool_state, m_threads, m_scb, task, i,
                 history, bounds>>

WorkerSleep(w) ==
  /\ pc[w] = "sleep"
  /\ CondWait(w)
  /\ pc' = [pc EXCEPT ![w] = "wait"]
  /\ UNCHANGED <<m_tasks, m_pool_state, m_threads, m_scb, task, i, history,
                 bounds>>

\* "There can be spurious wakeups", says the comment above the while.
SpuriousWakeup(w) ==
  /\ w \in m_task_cond_var
  /\ spurious < MaxSpurious
  /\ spurious' = spurious + 1
  /\ m_task_cond_var' = m_task_cond_var \ {w}
  /\ UNCHANGED <<m_task_mutex, is_locked, m_tasks, m_pool_state, m_threads,
                 m_scb, pc, task, i, history, starts>>

WorkerWake(w) ==
  /\ pc[w] = "wait"
  /\ w \notin m_task_cond_var
  /\ CondRelock(w)
  /\ pc' = [pc EXCEPT ![w] = "test"]
  /\ UNCHANGED <<m_task_cond_var, m_tasks, m_pool_state, m_threads, m_scb,
                 task, i, history, bounds>>

WorkerExit(w) ==
  /\ pc[w] = "test"
  /\ m_pool_state = STOPPED
  /\ Unlock
  /\ pc' = [pc EXCEPT ![w] = "exited"]
  /\ UNCHANGED <<m_task_cond_var, m_tasks, m_pool_state, m_threads, m_scb,
                 task, i, history, bounds>>

\* Variants: front() without pop_front(), and no test of STOPPED.
WorkerPop_Peek(w) ==
  /\ pc[w] = "test"
  /\ m_pool_state # STOPPED
  /\ m_tasks # <<>>
  /\ task' = [task EXCEPT ![w] = Head(m_tasks)]
  /\ Unlock
  /\ pc' = [pc EXCEPT ![w] = "run"]
  /\ UNCHANGED <<m_task_cond_var, m_tasks, m_pool_state, m_threads, m_scb, i,
                 history, bounds>>

WorkerPop_Stopped(w) ==
  /\ pc[w] = "test"
  /\ m_tasks # <<>>
  /\ task' = [task EXCEPT ![w] = Head(m_tasks)]
  /\ m_tasks' = Tail(m_tasks)
  /\ Unlock
  /\ pc' = [pc EXCEPT ![w] = "run"]
  /\ UNCHANGED <<m_task_cond_var, m_pool_state, m_threads, m_scb, i, history,
                 bounds>>

WorkerPop(w) ==
  /\ pc[w] = "test"
  /\ m_pool_state # STOPPED
  /\ m_tasks # <<>>
  /\ task' = [task EXCEPT ![w] = Head(m_tasks)]
  /\ m_tasks' = Tail(m_tasks)
  /\ Unlock
  /\ pc' = [pc EXCEPT ![w] = "run"]
  /\ UNCHANGED <<m_task_cond_var, m_pool_state, m_threads, m_scb, i, history,
                 bounds>>

\* task->run() returns and the task is deleted.
WorkerRun(w) ==
  /\ pc[w] = "run"
  /\ ran' = ran \cup {task[w]}
  /\ pc' = [pc EXCEPT ![w] = "lock"]
  /\ UNCHANGED <<syncVars, m_tasks, m_pool_state, m_threads, m_scb, task, i,
                 offered, refused, bounds>>
-----------------------------------------------------------------------------
(* add_task                                                                *)

PoolExists == pc[Owner] \notin {"deleting", "gone"}

\* The caller has made a task: which of those never offered does not matter.
CallAddTask(s) ==
  /\ pc[s] = "idle"
  /\ PoolExists
  /\ \E t \in Tasks \ offered :
       /\ t = CHOOSE u \in Tasks : u \notin offered
       /\ task' = [task EXCEPT ![s] = t]
       /\ offered' = offered \cup {t}
  /\ pc' = [pc EXCEPT ![s] = "add"]
  /\ UNCHANGED <<syncVars, m_tasks, m_pool_state, m_threads, m_scb, i,
                 refused, ran, bounds>>

\* Compared before the push and with >, so m_tasks may hold SizeLimit + 1.
OverLimit == SizeLimit > 0 /\ Len(m_tasks) > SizeLimit

\* Variant: the push and the signal without the mutex.
AddTask_NoLock(s) ==
  /\ pc[s] = "add"
  /\ ~OverLimit
  /\ m_tasks' = Append(m_tasks, task[s])
  /\ Signal
  /\ pc' = [pc EXCEPT ![s] = "idle"]
  /\ UNCHANGED <<m_task_mutex, is_locked, m_pool_state, m_threads, m_scb, task,
                 i, history, bounds>>

AddTask(s) ==
  /\ pc[s] = "add"
  /\ m_task_mutex = NoThread
  /\ ~OverLimit
  /\ m_tasks' = Append(m_tasks, task[s])
  /\ Signal
  /\ Unlock
  /\ pc' = [pc EXCEPT ![s] = "idle"]
  /\ UNCHANGED <<m_pool_state, m_threads, m_scb, task, i, history, bounds>>

RefuseTask(s) ==
  /\ pc[s] = "add"
  /\ m_task_mutex = NoThread
  /\ OverLimit
  /\ refused' = refused \cup {task[s]}
  /\ Unlock
  /\ pc' = [pc EXCEPT ![s] = "idle"]
  /\ UNCHANGED <<m_task_cond_var, m_tasks, m_pool_state, m_threads, m_scb,
                 task, i, offered, ran, bounds>>
-----------------------------------------------------------------------------
(* The owner: start(), destroy_threadpool() and ~ThreadPool().             *)

\* start() has no effect on a pool of size 0 or one that is STARTED.  A
\* STOPPED pool may be started again.
Start ==
  /\ pc[Owner] = "ready"
  /\ PoolSize # 0
  /\ m_pool_state # STARTED
  /\ starts < MaxStarts
  /\ starts' = starts + 1
  /\ m_pool_state' = STARTED
  /\ i' = 1
  /\ pc' = [pc EXCEPT ![Owner] = "creating"]
  /\ UNCHANGED <<syncVars, m_tasks, m_threads, m_scb, task, history,
                 spurious>>

CreateThread ==
  /\ pc[Owner] = "creating"
  /\ \E w \in Workers \ Created :
       /\ m_threads' = Append(m_threads, w)
       /\ pc' = [pc EXCEPT ![w] = "created",
                           ![Owner] = IF i = PoolSize THEN "ready"
                                                      ELSE "creating"]
  /\ i' = i + 1
  /\ UNCHANGED <<syncVars, m_tasks, m_pool_state, m_scb, task, history,
                 bounds>>

\* pthread_create fails: start() returns -1 and leaves the pool STARTED.
CreateThreadFails ==
  /\ pc[Owner] = "creating"
  /\ pc' = [pc EXCEPT ![Owner] = "ready"]
  /\ UNCHANGED <<syncVars, m_tasks, m_pool_state, m_threads, m_scb, task, i,
                 history, bounds>>

\* Variant: the state is set without the mutex.
DestroyLock_NoLock ==
  /\ pc[Owner] = "ready"
  /\ pc' = [pc EXCEPT ![Owner] = "stopping"]
  /\ UNCHANGED <<syncVars, m_tasks, m_pool_state, m_threads, m_scb,
                 task, i, history, bounds>>

\* destroy_threadpool(): called by the owner, whatever the state of the pool,
\* or by ~ThreadPool() on a pool that is not STOPPED (see DeletePool).
DestroyLock ==
  /\ pc[Owner] = "ready"
  /\ Lock(Owner)
  /\ pc' = [pc EXCEPT ![Owner] = "stopping"]
  /\ UNCHANGED <<m_task_cond_var, m_tasks, m_pool_state, m_threads, m_scb,
                 task, i, history, bounds>>

DestroyStop ==
  /\ pc[Owner] = "stopping"
  /\ m_pool_state' = STOPPED
  /\ Unlock
  /\ pc' = [pc EXCEPT ![Owner] = "broadcasting"]
  /\ UNCHANGED <<m_task_cond_var, m_tasks, m_threads, m_scb, task, i, history,
                 bounds>>

DestroyBroadcast ==
  /\ pc[Owner] = "broadcasting"
  /\ Broadcast
  /\ i' = 1
  /\ pc' = [pc EXCEPT ![Owner] = "joining"]
  /\ UNCHANGED <<m_task_mutex, is_locked, m_tasks, m_pool_state, m_threads,
                 m_scb, task, history, bounds>>

\* The loop runs over m_pool_size, not over m_threads.size().
Joining == pc[Owner] = "joining" /\ i <= PoolSize

\* m_threads[i] is past the end of the vector after a start() that failed or
\* none at all, and the id of a thread joined before after a second start().
ValidId == i \in DOMAIN m_threads /\ pc[m_threads[i]] # "none"

JoinThread ==
  /\ Joining
  /\ ValidId
  /\ pc[m_threads[i]] = "exited"
  /\ pc' = [pc EXCEPT ![m_threads[i]] = "none"]
  /\ Broadcast
  /\ i' = i + 1
  /\ UNCHANGED <<m_task_mutex, is_locked, m_tasks, m_pool_state, m_threads,
                 m_scb, task, history, bounds>>

\* pthread_join of a stale id is undefined: it fails at once, or crashes.
JoinStaleFails ==
  /\ Joining
  /\ ~ValidId
  /\ Broadcast
  /\ i' = i + 1
  /\ UNCHANGED <<m_task_mutex, is_locked, m_tasks, m_pool_state, m_threads,
                 m_scb, pc, task, history, bounds>>

JoinStaleCrashes ==
  /\ Joining
  /\ ~ValidId
  /\ pc' = [pc EXCEPT ![Owner] = "crashed"]
  /\ UNCHANGED <<syncVars, m_tasks, m_pool_state, m_threads, m_scb, task, i,
                 history, bounds>>

\* Variant: the last thread is not joined.
JoinDone_Early ==
  /\ pc[Owner] = "joining"
  /\ i >= PoolSize
  /\ pc' = [pc EXCEPT ![Owner] = "ready"]
  /\ UNCHANGED <<syncVars, m_tasks, m_pool_state, m_threads, m_scb, task, i,
                 history, bounds>>

JoinDone ==
  /\ pc[Owner] = "joining"
  /\ i > PoolSize
  /\ pc' = [pc EXCEPT ![Owner] = "ready"]
  /\ UNCHANGED <<syncVars, m_tasks, m_pool_state, m_threads, m_scb, task, i,
                 history, bounds>>

\* ~ThreadPool() on a STOPPED pool, or once destroy_threadpool() has stopped
\* it, goes on to ~Mutex().  Its caller sees to it that nobody is in add_task,
\* or calls it any more.
DeletePool ==
  /\ pc[Owner] = "ready"
  /\ m_pool_state = STOPPED
  /\ \A s \in Submitters : pc[s] = "idle"
  /\ pc' = [pc EXCEPT ![Owner] = "deleting"]
  /\ UNCHANGED <<syncVars, m_tasks, m_pool_state, m_threads, m_scb, task, i,
                 history, bounds>>

\* ~Mutex(): while(is_locked); unlock(); pthread_mutex_destroy().
DestroyMutex ==
  /\ pc[Owner] = "deleting"
  /\ ~is_locked
  /\ Unlock
  /\ pc' = [pc EXCEPT ![Owner] = "gone"]
  /\ UNCHANGED <<m_task_cond_var, m_tasks, m_pool_state, m_threads, m_scb,
                 task, i, history, bounds>>
-----------------------------------------------------------------------------
WorkerStep(w) ==
  \/ BeginThread(w) \/ WorkerLock(w) \/ WorkerMustWait(w) \/ WorkerSleep(w)
  \/ WorkerWake(w) \/ WorkerExit(w) \/ WorkerPop(w) \/ WorkerRun(w)

SubmitterStep(s) == AddTask(s) \/ RefuseTask(s)

\* What the owner does on its own once it has called start or destroy.
OwnerStep ==
  \/ CreateThread \/ CreateThreadFails
  \/ DestroyStop \/ DestroyBroadcast
  \/ JoinThread \/ JoinStaleFails \/ JoinStaleCrashes \/ JoinDone
  \/ DestroyMutex

\* Nothing is said of a process that has crashed, or of the pool's memory
\* after its destructor.
Alive == pc[Owner] \notin {"gone", "crashed"}

Next ==
  /\ Alive
  /\ \/ \E w \in Workers : WorkerStep(w) \/ CallbackReturns(w)
                           \/ SpuriousWakeup(w)
     \/ \E s \in Submitters : CallAddTask(s) \/ SubmitterStep(s)
     \/ OwnerStep
     \/ Start
     \/ DestroyLock
     \/ DeletePool

Spec == Init /\ [][Next]_vars

\* A thread that can go on does, and task->run() returns.  Nobody is obliged
\* to call a method, a start callback need not return, and a wait need not
\* wake up spuriously.
Fairness ==
  /\ \A w \in Workers : WF_vars(Alive /\ WorkerStep(w))
  /\ \A s \in Submitters : WF_vars(Alive /\ SubmitterStep(s))
  /\ WF_vars(Alive /\ OwnerStep)

LiveSpec == Spec /\ Fairness
-----------------------------------------------------------------------------
(* Properties. *)

TypeOK ==
  /\ m_task_mutex \in Threads \cup {NoThread}
  /\ is_locked \in BOOLEAN
  /\ m_task_cond_var \subseteq Workers
  /\ m_tasks \in Seq(Tasks)
  /\ m_pool_state \in {CONSTRUCTED, STARTED, STOPPED}
  /\ m_threads \in Seq(Workers)
  /\ m_scb \in BOOLEAN
  /\ pc \in [Threads -> WorkerPC \cup SubmitterPC \cup OwnerPC]
  /\ \A w \in Workers : pc[w] \in WorkerPC
  /\ \A s \in Submitters : pc[s] \in SubmitterPC
  /\ pc[Owner] \in OwnerPC
  /\ task \in [Workers \cup Submitters -> Tasks \cup {NoTask}]
  /\ \A w \in Workers : pc[w] = "run" => task[w] # NoTask
  /\ \A s \in Submitters : pc[s] = "add" => task[s] # NoTask
  /\ i \in 1 .. PoolSize + 1
  /\ pc[Owner] = "creating" => i <= PoolSize
  /\ offered \subseteq Tasks
  /\ refused \subseteq Tasks
  /\ ran \subseteq Tasks
  /\ starts \in 0 .. MaxStarts
  /\ spurious \in 0 .. MaxSpurious

\* Whoever is between lock() and unlock(), back from pthread_cond_wait
\* included, holds the mutex while there is one; so there is at most one such
\* thread.
MutexOwnership ==
  pc[Owner] # "gone" => \A t \in InCriticalSection : m_task_mutex = t

\* No task is lost, run twice, or run after add_task refused it: an offered
\* task is with its submitter, in the queue, with one worker, run or refused,
\* and in one of these places only.
InAdd(t) == {s \in Submitters : pc[s] = "add" /\ task[s] = t}
RunBy(t) == {w \in Running : task[w] = t}
Slots(t) == {k \in DOMAIN m_tasks : m_tasks[k] = t}
Places(t) == InAdd(t) \cup RunBy(t) \cup Slots(t)
               \cup (IF t \in ran THEN {"ran"} ELSE {})
               \cup (IF t \in refused THEN {"refused"} ELSE {})
TaskConservation ==
  \A t \in Tasks : Cardinality(Places(t)) = (IF t \in offered THEN 1 ELSE 0)

\* While a task waits in a pool that is not stopped, some thread of the pool
\* is awake to take it: a signal() is never spent on nobody, nor on a worker
\* that goes back to sleep.
NoLostWakeup ==
  (m_tasks # <<>> /\ m_pool_state # STOPPED /\ Live # {})
    => Live \ m_task_cond_var # {}

\* Once destroy_threadpool() has broadcast, no worker sleeps or falls asleep:
\* "its for thread communication", says the comment on why it takes the mutex.
NoSleeperAfterStop ==
  (m_pool_state = STOPPED /\ pc[Owner] \notin {"stopping", "broadcasting"})
    => m_task_cond_var = {}

\* is_locked does not say who holds the mutex (a wait leaves it TRUE), yet it
\* is FALSE whenever ~Mutex() may spin on it with nobody left to reset it.
FlagClearsAtRest ==
  (pc[Owner] = "deleting" /\ Live = {}) => ~is_locked

\* set_task_size_limit: the queue outgrows its limit by one task at most.
QueueBound == SizeLimit > 0 => Len(m_tasks) <= SizeLimit + 1

\* A pool that was started once is deleted with no worker left to touch it.
DeletedOnceStartedPoolIsQuiet ==
  (pc[Owner] \in {"deleting", "gone"} /\ starts <= 1) => Live = {}

\* "Unlock Mutex after shared resource is safe" (include/ThreadPool.h, ~Mutex):
\* no thread is between lock() and unlock() when ~Mutex() unlocks the mutex and
\* destroys it.  A worker back from a wait has is_locked FALSE, and the second
\* start's workers are not joined: a pool started twice refutes it.
MutexSafeAtDestruction == pc[Owner] = "gone" => InCriticalSection = {}

\* The pool is a FIFO queue that begins each accepted task at most once, in
\* order, and begins none while it is stopped.
TQ == INSTANCE TaskQueue WITH
        queue <- m_tasks,
        running <- {task[w] : w \in Running},
        finished <- ran,
        stopped <- m_pool_state = STOPPED
ImplementsTaskQueue == TQ!TQSpec

\* An accepted task of a pool with a worker is taken, unless the pool stops.
AcceptedTaskRuns ==
  \A t \in Tasks :
    (t \in Queued /\ Live # {} /\ ~m_scb)
      ~> (t \notin Queued \/ m_pool_state = STOPPED \/ ~Alive)

\* destroy_threadpool() returns, when no worker is in a start callback.
DestroyReturns ==
  (pc[Owner] \in {"stopping", "broadcasting", "joining"} /\ ~m_scb)
    ~> (pc[Owner] \in {"ready", "crashed"})
=============================================================================
