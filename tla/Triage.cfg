SPECIFICATION TriageSpec
CONSTANTS
  Batch = {"b1", "b2"}
  Reason = {"r1", "r2"}
  JobOf <- MCJobOf
  Rejects <- MCRejects
  Clean <- MCClean
  Declared = "declared"
  Renamed = "renamed"
  MaxClock = 5
  MaxAttempts = 2
  MaxLosses = 1
  Scale = 2
  Executions = 1
  MaxTriages = 1
  MaxRevisions = 1
  Declarations = {"b1"}
INVARIANTS
  HistoryCountsOnce
  EvidenceIsTold
  PostedIssueIsTheWheels
CHECK_DEADLOCK FALSE
