SPECIFICATION FairSpec
CONSTANTS
  f1 = f1
  f2 = f2
  None = None
  FileElement = "file"
  Files <- MCTwoFiles
  Names <- MCNames
  Contents <- MCContents
  InitialFiles <- MCTwoFiles
  EarlyEdits = TRUE
  Renames = TRUE
  Failures = TRUE
  MaxEdits = 4
CHECK_DEADLOCK FALSE
INVARIANTS TypeOK OnlyBlindFilesStale SearchHitsHaveSource SearchIsComplete CountIsRight CallEdgesSound LocalCallsExact
PROPERTY ChangesAreIndexed
