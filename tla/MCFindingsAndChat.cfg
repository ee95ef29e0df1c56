CONSTANTS
  FindingOrder <- MCFindingOrder
  PageSize = 1
  NumUpdates = 2
  MaxTicked = 1
  NumItems = 2
  FirstLoaded = 1
  MaxFetches = 3
  MaxChanged = 1
  NumSubmits = 2
SPECIFICATION UISpec
INVARIANTS
  FindingsAndChatTypeOK
  PagesInOrder
  NewestChangeShown
  RowsMatchServer
  SelectionIsWhatWasTicked
  DrawerShowsCurrentRow
  ConfirmedChangeShown
  ChatOnOneSession
  ComposerClosedWhileAnswering
PROPERTIES
  ListLoads
  SkeletonEnds
  ComposerReopens
CHECK_DEADLOCK FALSE
