CONSTANTS
  Edits = {a, b, c}
  Calls = {g, h}
  NoCall = NoCall
  Threshold = 2
  MaxDocs = 2
  MaxFaults = 1
  MaxCrashes = 1
  Shapes = {a, b}
  Lines = {l}
  Frames = {f}
  Groups = {g, h}
  Null = Null
  PageWidth = 2
  MaxScale = 2
  MaxCommits = 5
  Contents <- MCContents
  MaxBytes = 5
  MaxParts = 2
  Objects = {a, b}
  MaxBackups = 2
  MaxInterrupts = 1
  MaxDamages = 1
SPECIFICATION ContentSpec
INVARIANTS
  
  FirstDocumentLosesNothing
  TreeIsWellFormed
  GroupsHugTheirChildren
  
  UploadsArriveAsSent
  RestoredAssetsAreThere
PROPERTIES
  StructureKeepsPlaces
  CompactionKeepsOwnUpdates
  
  NothingOldIsLeft
SYMMETRY ContentSymmetry
\* Every part stops where its bounds end it.
CHECK_DEADLOCK FALSE
