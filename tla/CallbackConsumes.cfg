SPECIFICATION Spec
CONSTANTS
  l1 = l1
  l2 = l2
  l3 = l3
  c1 = c1
  c2 = c2
  b1 = b1
  b2 = b2
  botA = botA
  botB = botB
  None = None
  Logins = {l1}
  Callbacks = {c1}
  Browsers = {b1, b2}
  Bots = {botA}
  PrelinkBots = {botA}
  MaxEntries = 2
  MaxPerSession = 2
  CleanupBatch = 2
  StateTTL = 2
  TokenTTL = 2
  JWTTTL = 2
  MinLifetime = 1
  ClockSkew = 1
  MaxClock = 2
  MaxCrashes = 1
SYMMETRY MCSymmetry
INVARIANTS
  EveryAttemptConsumes
CHECK_DEADLOCK FALSE
