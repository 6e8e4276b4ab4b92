CONSTANTS
  Uploads = {p1}
  Readers = {q1}
  None = None
  RenamesWait = TRUE
  MaxName = 2
  MaxRefreshes = 1
  MaxFaults = 1
  MaxCrashes = 1
SPECIFICATION FairAssetsSpec

  
  
PROPERTIES
  MissingThumbnailsAreMade
  SupersededAreCollected
\* The worker stops when the renames, refreshes and faults are used up.
CHECK_DEADLOCK FALSE
