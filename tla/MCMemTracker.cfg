CONSTANTS
  t1 = t1
  t2 = t2
  t3 = t3
  x = x
  y = y
  g = g
  h = h
  Root = Root
  None = None
  Thread = {t1, t2, t3}
  Tracker = {x, y}
  Name = {g, h}
  GlobalName = {g}
  LimitOf <- MCLimitOf
  RootLimit = 2
  MaxHeld = 2
  MaxBusy = 2
SPECIFICATION Spec
SYMMETRY Symmetry
CONSTRAINT Explored
INVARIANTS MemInv AccountsAreExact LimitHolds
