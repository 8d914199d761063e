SPECIFICATION MCSpec
CONSTANTS
  File = {"z0", "c0"}
  Giants = {"z0"}
  Size <- MCSize
  MaxRestarts = 1
  MaxResumes = 1
  MaxRuns = 2
  LastDay = 2
  DayLength = 1
  Spread = 1
  Rate = {0, 1, 2}
  Fetcher = {"f1", "f2"}
  MaxEvents = 2
  MaxFetches = 2
  Class <- MCClass
  Horizon = 4
  MaxSnapshots = 2
  MaxSeeds = 2
INVARIANTS
  BytesInPlace
  SnapshotIsOneMoment
PROPERTIES
  LandedWholeAndKept
  RunsEnd
CHECK_DEADLOCK FALSE
