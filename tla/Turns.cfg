SPECIFICATION FairSpec
CONSTANTS
  i1 = i1
  r1 = r1
  r2 = r2
  k1 = k1
  None = None
  Turns <- MCTurns
  Inputs <- MCInputs
  Requests <- MCRequests
  Asker <- MCAsker
  Key <- MCSharedKey
CHECK_DEADLOCK FALSE
INVARIANTS NothingRunsWhenIdle InputAccounted
PROPERTIES TurnsEnd InputsAreHandled
