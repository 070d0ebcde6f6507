SPECIFICATION FairSpec
CONSTANTS
  Calls = {"c1", "c2", "c3"}
  Timeout <- MCTimeout
  Unsupported <- MCUnsupported
  MaxConnections = 2
INVARIANTS ConnectionInv EachCallFinishesOnce
PROPERTIES TimedOutIsNotSent TimedCallsFinish ShutdownFinishesCalls
CHECK_DEADLOCK FALSE
