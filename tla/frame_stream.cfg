SPECIFICATION Spec
CONSTANTS
  Handlers = {h1, h2}
  Observations <- MCObservations
  MatchThreshold = 380
  LiveThreshold = 500
  YawLimit = 25
  DownLimit = 20
  UpLimit = 30
  GazeLimit = 200
  Debounce = 2
  MaxFrames = 3
  MaxFailures = 1
SYMMETRY Symmetry
INVARIANTS TypeOK StreakIsRun SnapshotsStored RowsTellWhy ConfidenceFollows
PROPERTIES FlagsRuns
CHECK_DEADLOCK FALSE
