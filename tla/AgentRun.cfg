SPECIFICATION FairSpec
CONSTANTS
  r1 = r1
  alice = alice
  None = None
  Other = Other
  Run <- OneRun
  Agent <- Slug
  Party <- Parties
  User = alice
  Attempts = 2
  MaxIterations = 2
  MaxBlocks = 2
  MaxFaults = 1
INVARIANTS
  TypeOK
  EndsWithReason
  TraceTellsItsGaps
  SilentOnlyAboutTheLoop
  UsedKeyIsRemoved
  AuditNamesBoth
PROPERTIES
  ToolsRunOnGoodTokens
  RequestsAreAnswered
  ReportedRunSpec
