CONSTANTS
  Edits = {e1, e2}
  Calls = {t1}
  NoCall = NoCall
  Threshold = 2
  MaxDocs = 2
  MaxFaults = 1
  MaxCrashes = 1
  Clients = {c1, c2}
  MaxDrops = 1
  MaxReopens = 1
SPECIFICATION ServerSpec
INVARIANT QuietTabMatchesServer
SYMMETRY ServerSymmetry
\* The tabs stop when the edits, drops and reopenings are used up.
CHECK_DEADLOCK FALSE
