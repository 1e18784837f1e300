SPECIFICATION Spec
CONSTANTS
  r1 = r1
  r2 = r2
  l1 = l1
  l2 = l2
  None = None
  Req <- TwoReqs
  Login <- TwoLogins
  Routes <- TokenRoutes
  KcFaults = TRUE
SYMMETRY SymConcurrent
INVARIANTS
  TypeOK
  PkceStateHasVerifier
  PkceResultBelongsToToken
  FlowMatchesIssuer
PROPERTIES
  PkceCodeNeverVoided
  VoidedOnlyByLeftover
