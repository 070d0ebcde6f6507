SPECIFICATION FairSpec
CONSTANTS
  Conns = {"k1", "k2"}
  Ids = {1}
  NumCPUs = 2
INVARIANTS ShutdownInv CallsOwnedOnce LostOnlyIfBroken
PROPERTIES MapIsConfined CallsGetAnswered ShutdownReturns
CHECK_DEADLOCK FALSE
