SPECIFICATION Spec
CONSTANTS
  l1 = l1
  l2 = l2
  l3 = l3
  c1 = c1
  c2 = c2
  b1 = b1
  b2 = b2
  botA = botA
  botB = botB
  None = None
  Logins = {l1, l2}
  Callbacks = {c1, c2}
  Browsers = {b1, b2}
  Bots = {botA, botB}
  PrelinkBots = {botA}
  MaxEntries = 2
  MaxPerSession = 1
  CleanupBatch = 2
  StateTTL = 2
  TokenTTL = 1
  JWTTTL = 1
  MinLifetime = 1
  ClockSkew = 1
  MaxClock = 2
  MaxCrashes = 1
SYMMETRY MCSymmetry
INVARIANTS
  StateIsSingleUse
  AcceptedFromItsPage
  RelayWithinToken
  PageIsUsable
CHECK_DEADLOCK FALSE
