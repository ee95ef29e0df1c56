SPECIFICATION FairSpec
CONSTANTS
  Rows = {r1}
  Workers = {w1, w2}
  TargetSink = "neo4j"
  Budget <- FaultBudget
INVARIANTS
  TypeOK
  OneRunPerRow
  NoTempLeft
PROPERTIES
  EndedStays
  RowEnds
CHECK_DEADLOCK FALSE
