SPECIFICATION FairSpec
CONSTANTS
  w1 = w1
  w2 = w2
  Workers <- MCWorkers
  Threads <- MCThreads
  Tokens <- MCTokens
  Ageing <- MCOneThread
  OwnThread <- MCOwnThread
  None = None
  Retries = 2
  MaxRunning = 1
  ScanLimit = 2
  MaxClaimed = 2
  MaxRaw = 1
  PruneFails = FALSE
  Stalls = FALSE
  MaxUpdate = 1
  MaxCrashes = 1
  MaxDrops = 0
INVARIANTS
  CleanMeansConsolidated
  RunningWithinLimit
  DiskMatchesRecord
PROPERTIES
  DirtyIsConsolidated
  PendingIsExtracted
