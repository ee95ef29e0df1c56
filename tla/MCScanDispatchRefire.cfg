SPECIFICATION Spec
CONSTANTS
  Workers = {w1, w2}
  MaxScans = 5
  MaxTasks = 4
  Budget <- RefireBudget
INVARIANTS
  RefiredRunStarts
CHECK_DEADLOCK FALSE
