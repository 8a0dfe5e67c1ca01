SPECIFICATION Spec
CONSTANTS
  s1 = s1
  s2 = s2
  s3 = s3
  v1 = v1
  v2 = v2
  v3 = v3
  Sessions = {s1, s2, s3}
  Verifiers = {v1, v2, v3}
  MaxEntries = 3
  MaxPerSession = 2
  CleanupBatch = 2
  TTL = 2
  Lag = 1
  MaxClock = 3
SYMMETRY MCSymmetry
INVARIANTS
  OrdersAgree
  Bounded
  NearlySorted
PROPERTIES
  ResidueIsRecent
  OthersUntouched
  RefusalIsFree
  ImplementsTokens
