SPECIFICATION FairSpec
CONSTANTS
  f1 = f1
  f2 = f2
  a = a
  b = b
  c = c
  v1 = v1
  v2 = v2
  None = None
  File = {f1, f2}
  Row = {a, b, c}
  Run = {r1, r2}
  V0 = v1
  RowsOf <- TwoFiles
  Version = {v1}
  Passes <- OneBuild
  Interventions = {"reconcile_bronze", "reconcile_quarantine"}
INVARIANTS
  TypeOK
PROPERTIES
  DeleteOnlyAccounted
  BatchesAreSplit
  EachRecordInOnePlace
  EveryRunSettles
  GatedBatchReachesBronze
CHECK_DEADLOCK FALSE
