CONSTANTS
  w1 = w1
  w2 = w2
  s1 = s1
  t1 = t1
  t2 = t2
  t3 = t3
  Workers = {w1, w2}
  Submitters = {s1}
  Tasks = {t1}
  Owner = Owner
  NoThread = NoThread
  NoTask = NoTask
  PoolSize = 1
  SizeLimit = 0
  MaxStarts = 2
  MaxSpurious = 0
SPECIFICATION Spec
CHECK_DEADLOCK FALSE
INVARIANT MutexSafeAtDestruction
