CONSTANTS
  Edits = {e1, e2}
  Calls = {t1, t2}
  NoCall = NoCall
  Threshold = 2
  MaxDocs = 2
  MaxFaults = 0
  MaxCrashes = 0
  Clients = {c1}
  MaxDrops = 0
  MaxReopens = 1
SPECIFICATION ServerSpec
INVARIANT CompactionIsInvisible
CHECK_DEADLOCK FALSE
