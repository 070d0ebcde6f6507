CONSTANTS
  Thread = {t1}
  t1 = t1
  Logical = 2
  MaxError = 1
  FirstTime = 2
  LastTime = 3
  FirstStamp = 5
  LastStamp = 7
  Time <- MCTime
  Stamp <- MCStamp
SPECIFICATION ServerSpec
INVARIANTS ServerInv ErrorBoundsHold
PROPERTIES ClockSpec LocalWaitEnds
CHECK_DEADLOCK FALSE
