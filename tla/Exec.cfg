SPECIFICATION FairSpec
CONSTANTS
  c1 = c1
  c2 = c2
  None = None
  Calls <- MCTwoCalls
  Ids <- MCIds
  MaxProcesses = 1
  Warning = 1
  Protected = 0
CHECK_DEADLOCK FALSE
INVARIANTS TableWithinLimit RunningIsReachable EndedOnce
PROPERTY EndsAreAnnounced
