SPECIFICATION Spec
CONSTANTS
  Rows = {r1, r2}
  Workers = {w1}
  TargetSink = "neptune"
  Budget <- CrashBudget
INVARIANTS
  FullGraphReopens
CHECK_DEADLOCK FALSE
