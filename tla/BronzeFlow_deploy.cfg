SPECIFICATION Spec
CONSTANTS
  f1 = f1
  f2 = f2
  a = a
  b = b
  c = c
  v1 = v1
  v2 = v2
  None = None
  File = {f1, f2}
  Row = {a, b, c}
  Run = {r1, r2}
  V0 = v1
  RowsOf <- TwoFiles
  Version = {v1, v2}
  Passes <- TwoBuilds
  Interventions = {"reconcile_bronze", "reconcile_quarantine", "rebuild_bronze", "truncate_staging"}
INVARIANTS
  RecordsOnceInv
  WholeFilesOneRuleSet
CHECK_DEADLOCK FALSE
