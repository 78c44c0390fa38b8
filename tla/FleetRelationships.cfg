SPECIFICATION Spec
CONSTANTS
  None = None
  d1 = d1
  d2 = d2
  k1 = k1
  k2 = k2
  c1 = c1
  c2 = c2
  m1 = m1
  m2 = m2
  r1 = r1
  r2 = r2
  r3 = r3
  r4 = r4
  r5 = r5
  r6 = r6
  Driver = {d1, d2}
  Truck = {k1, k2}
  Carrier = {c1, c2}
  Material = {m1, m2}
  Id = {r1, r2, r3, r4, r5, r6}
  Enrolled = {c1, c2, m1}
  Hired <- Staff
  Volatile = {c1, k1}
  ConsequenceLimit = 1
  MaxTime = 1
  MaxChanges = 3
CHECK_DEADLOCK FALSE
INVARIANTS
  SlotsAgree
  ParticipantsOnly
PROPERTIES
  HistoryKept
  RosterMarked
