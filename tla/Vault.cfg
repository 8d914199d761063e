SPECIFICATION Spec
CONSTANTS
  Rel <- MCRel
  Parent <- MCParent
  Payload <- MCPayload
  File <- MCFile
  Months = 3
  Orders = {"promote_first", "in_order", "to_newest"}
  MaxRuns = 2
INVARIANTS
  VersionsTellHistory
  DeparturesTellHistory
PROPERTIES
  RepeatAppendsNothing
CHECK_DEADLOCK FALSE
