SPECIFICATION Spec
CONSTANTS
  N = 4
  Limit = 2
  Threshold = 2
  MaxBatches = 4
  MaxChanges = 1
INVARIANT PageSettles
CHECK_DEADLOCK FALSE
