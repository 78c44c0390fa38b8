SPECIFICATION FairSpec
CONSTANTS
  Grant <- MCGrant
  Pass = {p1, p2}
  Present <- MCPresent
  Broken <- MCBroken
  Candidates = 2
  Attempts = 1
  NoPass = NoPass
  MaxFaults = 1
  Watched = 3
INVARIANTS BoundedWait
PROPERTIES EveryGrantServed
