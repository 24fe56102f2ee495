CONSTANTS
  Workers = {w1, w2}
  Requests = {r1}
  Jobs = {j1}
  ApiJobs = {j1}
  Kinds = {"dream", "mirror_sync"}
  NoJob = NoJob
  NStages = 1
  MaxRetries = 1
  Faults = {"send_failure", "api_restart", "worker_crash", "slow_stage"}
  MaxFaults = 2
  MaxGrants = 3
  MaxQueue = 2
SPECIFICATION Spec
CHECK_DEADLOCK FALSE
INVARIANTS EnteredAtMostOncePerGrant QueuedIsDeliverable RunningHasExecutor
SYMMETRY WorkerSymmetry
