SPECIFICATION MCSpec
CONSTANTS
  Never = Never
  Undated = Never
  Profile <- Profiles
  PoolSize = 2
  Amount = {1, 2}
  Window = 3
  Earlier = 5
  Later = 12
  ColumnsOf <- MCColumns
  RequiredOf <- MCRequired
  ShapesOf <- MCShapes
  Divergence = {"merchant"}
  RefDated = {"merchant", "socios"}
  Wear <- MCWear
INVARIANTS
  FileIsAsDeclared
  GatePromotesTheSound
  OverlapExplainsTheReasons
CHECK_DEADLOCK FALSE
