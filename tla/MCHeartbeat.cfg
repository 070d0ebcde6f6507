SPECIFICATION FairSpec
CONSTANTS
  Workers = {"w1"}
  MaxFailures = 2
  MaxStarts = 2
  MaxMasterStarts = 2
INVARIANTS IInv HurriedIsBounded
PROPERTIES RegistersOncePerMaster RunningIsListed EndedIsForgotten
CHECK_DEADLOCK FALSE
