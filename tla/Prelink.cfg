SPECIFICATION Spec
CONSTANTS
  Attempts = 3
  Lifetime = 20
  MinLifetime = 4
  Budget = 7
  RequestTimeout = 2
  Delay = 1
  SourceExpiries = {0, 3, 4, 6, 30}
  MaxClock = 9
INVARIANTS
  LinkedBeforeRelay
  WithinBudget
  GivesUpLate
PROPERTIES
  OneAssertionInOrder
  CallReturns
CHECK_DEADLOCK FALSE
