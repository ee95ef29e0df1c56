SPECIFICATION FairSpec
CONSTANTS
  Workers = {w1, w2}
  MaxScans = 5
  MaxTasks = 4
  Budget <- QuietBudget
INVARIANTS
  QueuedHasWaker
PROPERTIES
  ImplementsScanQueue
  AcceptedScanEnds
CHECK_DEADLOCK FALSE
