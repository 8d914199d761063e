SPECIFICATION Spec
CONSTANTS
  Months <- TwoMonths
  Jobs <- JobNames
  Late <- Establishments
  MidRun = FALSE
  MaxLaunches = 4
  MaxRunning = 2
  Plans <- WorkingSets
INVARIANTS
  RadiusIsTold
  ReferencesAreLoaded
CHECK_DEADLOCK FALSE
