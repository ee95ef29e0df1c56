SPECIFICATION Spec
CONSTANTS
  Rows = {r1, r2}
  Workers = {w1, w2}
  TargetSink = "neo4j"
  Budget <- QuietBudget
INVARIANTS
  OverlapSeesWholeGraph
CHECK_DEADLOCK FALSE
