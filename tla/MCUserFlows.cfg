CONSTANTS
  Tabs = {b1, b2}
  Tasks = {t1, t2}
  MaxPollRounds = 2
  LocksSupported = TRUE
  MaxLoads = 2
  GraphScans = {s1, s2}
  MaxQueries = 3
  MaxVisits = 3
  Accounts = {a1, a2, a3}
  PoolSize = 2
  MaxOpens = 2
  MaxApplies = 4
SPECIFICATION UISpec
INVARIANTS
  UserFlowsTypeOK
  AnnouncedOnce
  UnannouncedTaskIsStored
  GraphOfSelectedScan
  FullViewRestorable
  LaunchOnlyConnected
PROPERTIES
  EveryPollEnds
  WizardUnlocks
CHECK_DEADLOCK FALSE
