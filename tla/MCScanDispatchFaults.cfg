SPECIFICATION Spec
CONSTANTS
  Workers = {w1, w2}
  MaxScans = 5
  MaxTasks = 5
  Budget <- FaultBudget
INVARIANTS
  TypeOK
  SingleFlightInv
  OneQueuedScheduledScan
PROPERTIES
  NoOvertaking
  TerminalStays
  QueueSteps
SYMMETRY Symmetry
CHECK_DEADLOCK FALSE
