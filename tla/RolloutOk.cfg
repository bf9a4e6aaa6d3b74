SPECIFICATION Spec
CONSTANTS
  c1 = c1
  c2 = c2
  None = None
  Callers <- MCCallers
  Capacity = 2
  MaxItems = 3
  MaxBatch = 2
  MaxFaults = 2
CHECK_DEADLOCK FALSE
INVARIANT OkMeansWritten
