SPECIFICATION Spec
CONSTANTS
  ra = ra
  rb = rb
  Run <- TwoRuns
  OldRealms <- SomeOldRealms
  Attempts = 1
SYMMETRY SymRuns
INVARIANTS
  TypeOK
  DoneMeansConfigured
  OboReady
