SPECIFICATION KeySpec
CONSTANTS
  p1 = p1
  p2 = p2
  p3 = p3
  Procs = {p1, p2, p3}
  MaxKeys = 4
  MaxPowerLosses = 2
  Directories = {"absent", "durable"}
  OperatorKeys = {9}
SYMMETRY MCSymmetry
INVARIANTS
  ServersAgree
  NeverTorn
PROPERTIES
  OwnedKeyStays
  NeverReplaced
CHECK_DEADLOCK FALSE
