SPECIFICATION PageSpec
CONSTANTS
  MaxPopups = 3
  MaxInit = 3
INVARIANTS
  SubmittedOnce
  NeverLockedOut
CHECK_DEADLOCK FALSE
