SPECIFICATION Spec
CONSTANTS
  w1 = w1
  w2 = w2
  Workers <- MCWorkers
  Threads <- MCOneThread
  Tokens <- MCTokens
  Ageing <- MCOneThread
  OwnThread <- MCNoOwnThread
  None = None
  Retries = 1
  MaxRunning = 1
  ScanLimit = 2
  MaxClaimed = 1
  MaxRaw = 1
  PruneFails = TRUE
  Stalls = TRUE
  MaxUpdate = 2
  MaxCrashes = 0
  MaxDrops = 1
SYMMETRY WorkerSymmetry
INVARIANTS
  TypeOK
  CleanMeansConsolidated
  OutputMatchesSuccess
  RunningIsRecoverable
PROPERTIES
  SuccessNeverRegresses
  RefinesConsolidation
