CONSTANTS
  Jobs = {j1, j2, j3}
  Workers = {w1, w2}
  NoJob = NoJob
  MaxFaults = 2
  MaxCrashes = 1
SPECIFICATION FairExportSpec
INVARIANTS
  OneWorkerPerJob
  SucceededIsDownloadable
PROPERTY JobsEnd
\* Nothing is left to do once every job ended.
CHECK_DEADLOCK FALSE
