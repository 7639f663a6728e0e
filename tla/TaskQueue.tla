------------------------------ MODULE TaskQueue ------------------------------
(***************************************************************************)
(* What a ThreadPool (include/ThreadPool.h) promises to the code that      *)
(* hands it work, with no thread, mutex or condition variable in sight.    *)
(* A task is in one place at a time: it waits in a FIFO queue, it runs, or *)
(* it has finished.  Tasks begin in the order in which they were accepted, *)
(* none begins while the pool is stopped, and none runs twice.             *)
(*                                                                         *)
(* ThreadPool!TQ maps the implementation onto these variables.             *)
(***************************************************************************)
EXTENDS Sequences

CONSTANT Tasks      \* the tasks that may be handed to the pool

VARIABLES
  queue,            \* accepted tasks that have not begun, oldest first
  running,          \* tasks that some thread is running
  finished,         \* tasks that have been run
  stopped           \* the pool begins no task while this is TRUE

tqVars == <<queue, running, finished, stopped>>

Queued == {queue[k] : k \in DOMAIN queue}

TQInit ==
  /\ queue = <<>>
  /\ running = {}
  /\ finished = {}
  /\ stopped = FALSE

\* A stopped pool still accepts tasks: they wait until it is started again.
Accept(t) ==
  /\ t \notin Queued \cup running \cup finished
  /\ queue' = Append(queue, t)
  /\ UNCHANGED <<running, finished, stopped>>

Begin ==
  /\ ~stopped
  /\ queue # <<>>
  /\ queue' = Tail(queue)
  /\ running' = running \cup {Head(queue)}
  /\ UNCHANGED <<finished, stopped>>

Finish(t) ==
  /\ t \in running
  /\ running' = running \ {t}
  /\ finished' = finished \cup {t}
  /\ UNCHANGED <<queue, stopped>>

Stop ==
  /\ stopped' = TRUE
  /\ UNCHANGED <<queue, running, finished>>

Resume ==
  /\ stopped' = FALSE
  /\ UNCHANGED <<queue, running, finished>>

TQNext ==
  \/ \E t \in Tasks : Accept(t) \/ Finish(t)
  \/ Begin
  \/ Stop
  \/ Resume

TQSpec == TQInit /\ [][TQNext]_tqVars
=============================================================================
