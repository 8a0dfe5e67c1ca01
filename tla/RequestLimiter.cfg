SPECIFICATION Spec
CONSTANTS
  k1 = k1
  k2 = k2
  k3 = k3
  k4 = k4
  Clients = {k1, k2, k3, k4}
  Requests = 2
  Window = 2
  MinStaleAge = 3
  MinInterval = 1
  Second = 2
  MaxEntries = 3
  CleanupBatch = 2
  Lag = 1
  MaxClock = 6
SYMMETRY MCSymmetry
INVARIANTS
  RetryAfterSuffices
  ListsAgree
  ResetsNearlySorted
PROPERTIES
  ImplementsWindows
