SPECIFICATION FairSpec
CONSTANTS
  t1 = t1
  t2 = t2
  m1 = m1
  p1 = p1
  p2 = p2
  Trips <- MCTrips
  Tabs <- MCTabs
  Capacity = 2
  Passes <- MCPasses
  Master = Master
  None = None
  LeaseTime = 2
  RenewBelow = 1
  RequestLife = 1
  Refreshes = 1
  MaxChanges = 2
  MaxFaults = 1
INVARIANTS OneWriter DeliveredIsShown DirtyTabIsQueued OneRowPerTrip
PROPERTIES RowsKept MirrorSpec Converges
CHECK_DEADLOCK FALSE
