CONSTANTS
  Jobs = {j1, j2}
  Workers = {w1}
  NoJob = NoJob
  MaxFaults = 1
  MaxCrashes = 1
  MaxLosses = 1
  MaxSwitches = 1
SPECIFICATION FairExportTabSpec
INVARIANT PanelTellsTheJob
PROPERTY PanelSettles
\* Nothing is left to do once every job ended and the panel shows it.
CHECK_DEADLOCK FALSE
