SPECIFICATION Spec
CONSTANTS
  Limit = 2
  Jobs <- MCJobs
  Stop = Stop
  Runs <- MCRuns
  Topics = {"oil"}
  Nobody = Nobody
  HistoryLimit = 2
  MaxSets = 1
  MaxStarts = 1
CHECK_DEADLOCK FALSE
INVARIANTS
  PoolNeverStalls
  StopIsComplete
  SavedOnTopOfWhatItRead
