CONSTANTS
  Tabs = {1, 2}
  Nodes = {n1, n2}
  MaxWrites = 3
SPECIFICATION HistorySpec
PROPERTY UndoLeavesOthersAlone
CHECK_DEADLOCK FALSE
