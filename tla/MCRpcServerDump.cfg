SPECIFICATION FairSpec
CONSTANTS
  Conns = {"k1"}
  Ids = {1}
  NumCPUs = 1
PROPERTIES TasksRunOrAborted
CHECK_DEADLOCK FALSE
