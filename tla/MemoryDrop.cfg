SPECIFICATION Spec
CONSTANTS
  w1 = w1
  w2 = w2
  Workers <- MCWorkers
  Threads <- MCOneThread
  Tokens <- MCTokens
  Ageing <- MCOneThread
  OwnThread <- MCNoOwnThread
  None = None
  Retries = 1
  MaxRunning = 1
  ScanLimit = 2
  MaxClaimed = 1
  MaxRaw = 1
  PruneFails = FALSE
  Stalls = FALSE
  MaxUpdate = 1
  MaxCrashes = 0
  MaxDrops = 1
CHECK_DEADLOCK FALSE
SYMMETRY WorkerSymmetry
INVARIANTS
  DropLeavesNoFiles
