SPECIFICATION FairFieldSpec
CONSTANTS
  None = None
  a = a
  b = b
  u1 = u1
  u2 = u2
  t1 = t1
  t2 = t2
  t3 = t3
  d1 = d1
  i1 = i1
  i2 = i2
  arrive = arrive
  receive = receive
  unload = unload
  complete = complete
  report = report
  load = load
  other = other
  User = {u1, u2}
  OpId = {arrive, receive, unload, complete, report, load, other}
  Trip = {t1}
  Driver = {d1}
  Ids = {i1, i2}
  Request <- FieldRequests
  Account <- Supervisors
  Eligibility <- Relationships
  Configuration = {}
  Pricing = {"PER_TON"}
  LegacyTrip <- Arrived
  MaxTime = 0
  Tab = {a}
  Script <- Finish
  Intent <- FieldIntent
  Amended <- FieldIntent
  LocalStatus <- FieldCache
  FieldUser = {u1}
  Office = {}
  RetryLimit = 5
  Budget <- OneReload
PROPERTIES
  EventuallyCommitted
