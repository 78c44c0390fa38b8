SPECIFICATION Spec
CONSTANTS
  None = None
  op1 = op1
  op2 = op2
  t1 = t1
  t2 = t2
  d1 = d1
  d2 = d2
  u1 = u1
  u2 = u2
  i1 = i1
  i2 = i2
  User = {u1, u2}
  OpId = {op1, op2}
  Trip = {t1, t2}
  Driver = {d1}
  Ids = {i1, i2}
  Request <- IdempotencyRequests
  Account <- IdempotencyAccounts
  Eligibility <- IdempotencyEligibility
  Configuration = {}
  Pricing = {"PER_TON"}
  LegacyTrip <- IdempotencyLegacy
  MaxTime = 0
INVARIANTS
  NumbersUnique
  OneTripPerOperation
  RetryIsAcknowledged
PROPERTIES
  ImplementsLog
