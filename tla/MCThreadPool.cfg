CONSTANTS
  t1 = t1
  t2 = t2
  t3 = t3
  x1 = x1
  x2 = x2
  x3 = x3
  w1 = w1
  Task = {t1, t2, t3}
  Thread = {x1, x2, x3}
  Waiter = {w1}
  MaxThreads = 2
  MaxQueueSize = 2
SPECIFICATION FairSpec
INVARIANTS ThreadsInv NoLostWakeUp
PROPERTIES AcceptedTasksFinish ShutdownReturns
CHECK_DEADLOCK FALSE
