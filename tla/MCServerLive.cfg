CONSTANTS
  Edits = {e1}
  Calls = {t1}
  NoCall = NoCall
  Threshold = 2
  MaxDocs = 4
  MaxFaults = 0
  MaxCrashes = 1
  Clients = {c1, c2}
  MaxDrops = 1
  MaxReopens = 1
SPECIFICATION FairServerSpec
PROPERTIES
  EditsArrive
  
\* The tabs stop when the edits, drops and reopenings are used up.
CHECK_DEADLOCK FALSE
