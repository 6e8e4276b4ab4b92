CONSTANTS
  Edits = {e1, e2, e3}
  Calls = {t1, t2}
  NoCall = NoCall
  Threshold = 2
  MaxDocs = 2
  MaxFaults = 0
  MaxCrashes = 1
  Clients = {c1}
  MaxDrops = 0
  MaxReopens = 0
SPECIFICATION ServerSpec
INVARIANT RestartRestoresContent
CHECK_DEADLOCK FALSE
