CONSTANTS
  c1 = c1
  c2 = c2
  c3 = c3
  c4 = c4
  w1 = w1
  w2 = w2
  k1 = k1
  k2 = k2
  Worker = {w1, w2}
  Closer = {k1, k2}
  Call = {c1, c2, c3, c4}
  MaxQueueSize = 1
  MaxTime = 1
  Deadline <- MCDeadline
  Received <- MCReceived
  Unsupported = {c4}
SPECIFICATION FairSpec
INVARIANTS QueueInv EachCallHasOneOwner ShutdownLeavesNothing
PROPERTIES DroppedCallIsTheLeastUrgent EveryCallIsAnswered ShutdownReturns
CHECK_DEADLOCK FALSE
