CONSTANTS
  Workers = {w1}
  Requests = {r1}
  Jobs = {j1}
  ApiJobs = {j1}
  Kinds = {"mirror_sync"}
  NoJob = NoJob
  NStages = 1
  MaxRetries = 1
  Faults = {}
  MaxFaults = 0
  MaxGrants = 1
  MaxQueue = 1
SPECIFICATION Spec
CHECK_DEADLOCK FALSE
PROPERTIES CancelNotOverwritten
