CONSTANTS
  Jobs = {j1}
  Workers = {w1}
  NoJob = NoJob
  MaxFaults = 0
  MaxCrashes = 0
SPECIFICATION ExportSpec
PROPERTY TerminalIsFinal
CHECK_DEADLOCK FALSE
