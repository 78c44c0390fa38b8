SPECIFICATION Spec
CONSTANTS
  None = None
  op1 = op1
  op2 = op2
  t1 = t1
  t2 = t2
  d1 = d1
  d2 = d2
  u1 = u1
  u2 = u2
  i1 = i1
  i2 = i2
  User = {u1}
  OpId <- Command
  Trip = {t1}
  Driver = {d1, d2}
  Ids = {i1, i2}
  Request <- LifecycleRequests
  Account <- JustSupervisor
  Eligibility <- LifecycleEligibility
  Configuration <- LifecycleConfigurations
  Pricing = {"PER_TON", "PER_TRIP"}
  LegacyTrip = {}
  MaxTime = 1
INVARIANTS
  LedgerExplained
  SnapshotsShareProfile
  CompletedIsFenced
PROPERTIES
  TripsOnlyMoveForward
