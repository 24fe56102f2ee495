CONSTANTS
  Workers = {w1}
  Requests = {r1}
  Jobs = {j1, j2}
  ApiJobs = {j1}
  Kinds = {"full_initialization"}
  NoJob = NoJob
  NStages = 1
  MaxRetries = 1
  Faults = {"flush_error"}
  MaxFaults = 0
  MaxGrants = 1
  MaxQueue = 1
SPECIFICATION Spec
CHECK_DEADLOCK FALSE
INVARIANTS RunningHasExecutor
