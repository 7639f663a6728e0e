CONSTANTS
  w1 = w1
  w2 = w2
  s1 = s1
  t1 = t1
  t2 = t2
  t3 = t3
  Workers = {w1, w2}
  Submitters = {s1}
  Tasks = {t1, t2, t3}
  Owner = Owner
  NoThread = NoThread
  NoTask = NoTask
  PoolSize = 2
  SizeLimit = 1
  MaxStarts = 2
  MaxSpurious = 1
SPECIFICATION LiveSpec
CHECK_DEADLOCK FALSE
INVARIANTS
  MutexOwnership
  TaskConservation
  NoLostWakeup
  NoSleeperAfterStop
  FlagClearsAtRest
  DeletedOnceStartedPoolIsQuiet
PROPERTIES
  ImplementsTaskQueue
  AcceptedTaskRuns
  DestroyReturns
