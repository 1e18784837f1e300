SPECIFICATION FairSpec
CONSTANTS
  Targets <- OneWorkload
  MaxFaults = 2
INVARIANTS
  TypeOK
  CertMatchesKey
  KeyTakenIsCurrent
  OrderlyStart
PROPERTIES
  KeyIsKept
  UpEnds
  LoginsHeal
