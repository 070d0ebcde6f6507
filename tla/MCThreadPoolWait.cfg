CONSTANTS
  t1 = t1
  t2 = t2
  x1 = x1
  x2 = x2
  w1 = w1
  Task = {t1, t2}
  Thread = {x1, x2}
  Waiter = {w1}
  MaxThreads = 2
  MaxQueueSize = 2
SPECIFICATION FairSpec
PROPERTY WaitReturns
CHECK_DEADLOCK FALSE
