SPECIFICATION FairSpec
CONSTANTS
  c1 = c1
  c2 = c2
  None = None
  Callers <- MCCallers
  Capacity = 2
  MaxItems = 3
  MaxBatch = 2
  MaxFaults = 3
CHECK_DEADLOCK FALSE
INVARIANT AckedIsDurable
PROPERTIES RefinesJournal CallsReturn
