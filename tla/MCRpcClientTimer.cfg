SPECIFICATION FairSpec
CONSTANTS
  Calls = {"c1", "c2"}
  Timeout <- MCTimeout
  Unsupported <- MCUnsupportedTimed
  MaxConnections = 1
INVARIANTS ChecksHold
CHECK_DEADLOCK FALSE
