SPECIFICATION Spec
CONSTANTS
  Rows = {r1, r2}
  Workers = {w1, w2}
  TargetSink = "neo4j"
  Budget <- BreakBudget
INVARIANTS
  QueriesSeeWholeGraph
  FullGraphReopens
SYMMETRY Symmetry
CHECK_DEADLOCK FALSE
