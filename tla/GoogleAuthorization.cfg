SPECIFICATION Spec
CONSTANTS
  c1 = c1
  c2 = c2
  c3 = c3
  a1 = a1
  a2 = a2
  x1 = x1
  v1 = v1
  Consent <- MCConsent
  Admin <- MCAdmin
  Access <- MCAccess
  Revocation <- MCRevocation
  None = None
  MaxFaults = 2
SYMMETRY Alike
INVARIANTS OneActiveGrant ConnectionTellsGrant OvertakenConsentsFenced AnswerIsTrue
PROPERTIES RegisterSpec
CHECK_DEADLOCK FALSE
