SPECIFICATION Spec
CONSTANTS
  Rows = {r1}
  Workers = {w1}
  TargetSink = "neo4j"
  Budget <- QuietBudget
INVARIANTS
  NothingLeftBehind
CHECK_DEADLOCK FALSE
