SPECIFICATION FairSpec
CONSTANTS
  Project = {j1, j2}
  Execution = {e1, e2}
  Roots <- MCRoots
  Account = Account
  None = None
  MaxFaults = 2
INVARIANTS MadeOnce RecordedExists ReadyIsWhole
PROPERTIES Recovers
CHECK_DEADLOCK FALSE
