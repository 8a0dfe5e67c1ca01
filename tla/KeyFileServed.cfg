SPECIFICATION KeySpec
CONSTANTS
  p1 = p1
  p2 = p2
  p3 = p3
  Procs = {p1, p2}
  MaxKeys = 4
  MaxPowerLosses = 2
  Directories = {"durable"}
  OperatorKeys = {}
SYMMETRY MCSymmetry
INVARIANTS
  ServedKeyStays
CHECK_DEADLOCK FALSE
