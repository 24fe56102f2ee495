CONSTANTS
  Workers = {w1, w2}
  Requests = {r1}
  Jobs = {j1}
  ApiJobs = {j1}
  Kinds = {"mirror_sync"}
  NoJob = NoJob
  NStages = 1
  MaxRetries = 1
  Faults = {}
  MaxFaults = 0
  MaxGrants = 2
  MaxQueue = 1
SPECIFICATION Spec
CHECK_DEADLOCK FALSE
INVARIANTS OneExecution
