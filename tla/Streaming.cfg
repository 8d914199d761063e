SPECIFICATION MCSpec
CONSTANTS
  Offsets = 5
  MaxOffsets = 2
  FaultBatch = 2
  MinimumRows = 3
  MaxCalls = 3
  Corpora <- MCCorpora
  QueueSize = 1
  DrainAttempts = 2
  MaxPublishes = 2
  EventCount = 6
  Interval = 2
  LateCount = 2
  LateBy = 9
  Limits = {1, 2}
  Cap = 8
  MaxProofs = 1
  MaxLeftover = 0
INVARIANTS
  TablesFollowTheLogs
  TwoArmsTellApart
  PublishedIsOnTheTopic
  MeasuredIsPredicted
PROPERTIES
  DeliversOnceToTheEnd
CHECK_DEADLOCK FALSE
