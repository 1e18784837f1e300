SPECIFICATION Spec
CONSTANTS
  u1 = u1
  u2 = u2
  k1 = k1
  k2 = k2
  None = None
  Caller <- OneCaller
  Key <- TwoKeys
  Life = 1
  Timeout = 1
  Leeway = 3
  ProofMax = 6
  ProofEarly = 1
  RsSkew = 0
  AppSkew = 1
  CacheSize = 1
  Polls = 1
  MaxTime = 6
  MaxFaults = 1
INVARIANT CarriesToken
