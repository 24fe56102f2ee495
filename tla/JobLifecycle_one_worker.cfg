CONSTANTS
  Workers = {w1}
  Requests = {r1}
  Jobs = {j1, j2}
  ApiJobs = {j1}
  Kinds = {"full_initialization"}
  NoJob = NoJob
  NStages = 2
  MaxRetries = 1
  Faults = {"worker_crash"}
  MaxFaults = 1
  MaxGrants = 2
  MaxQueue = 1
SPECIFICATION FairSpec
CHECK_DEADLOCK FALSE
INVARIANTS RunningHasExecutor SucceededIsComplete CompletedStageNotRerun
PROPERTIES CheckpointGrows 
