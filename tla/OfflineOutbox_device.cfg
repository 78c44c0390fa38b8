SPECIFICATION FieldSpec
CONSTANTS
  None = None
  a = a
  b = b
  u1 = u1
  u2 = u2
  t1 = t1
  t2 = t2
  t3 = t3
  d1 = d1
  i1 = i1
  i2 = i2
  arrive = arrive
  receive = receive
  unload = unload
  complete = complete
  report = report
  load = load
  other = other
  User = {u1, u2}
  OpId = {arrive, receive, unload, complete, report, load, other}
  Trip = {t1, t2, t3}
  Driver = {d1}
  Ids = {i1, i2}
  Request <- FieldRequests
  Account <- Supervisors
  Eligibility <- Relationships
  Configuration = {}
  Pricing = {"PER_TON"}
  LegacyTrip <- OnTheRoad
  MaxTime = 0
  Tab = {a}
  Script <- Mixed
  Intent <- FieldIntent
  Amended <- FieldIntent
  LocalStatus <- FieldCache
  FieldUser = {u1, u2}
  Office <- ArrivalByOffice
  RetryLimit = 2
  Budget <- OneDevice
INVARIANTS
  AppliedOnce
  CacheNotAhead
SYMMETRY TripSymmetry
