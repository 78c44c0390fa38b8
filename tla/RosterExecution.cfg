SPECIFICATION Spec
CONSTANTS
  r1 = r1
  r2 = r2
  Request <- MCRequest
  GroupCount = 3
  PerRequest = 2
  MaxEdits = 2
  MaxCalls = 5
  MaxFaults = 2
SYMMETRY Alike
INVARIANTS JournalAgrees FailureIsTrue PlanIsReviewed
PROPERTIES PlanSpec
CHECK_DEADLOCK FALSE
