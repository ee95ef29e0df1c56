SPECIFICATION Spec
CONSTANTS
  Workers = {w1, w2}
  MaxScans = 6
  MaxTasks = 5
  Budget <- EditBudget
INVARIANTS
  SingleFlight
  OneRunPerScheduledTask
  NextRunPlanned
  NothingOutlivesProvider
SYMMETRY Symmetry
CHECK_DEADLOCK FALSE
