CONSTANTS
  Workers = {w1, w2}
  Requests = {r1}
  Jobs = {j1, j2}
  ApiJobs = {j1}
  Kinds = {"full_initialization"}
  NoJob = NoJob
  NStages = 1
  MaxRetries = 0
  Faults = {"send_failure", "flush_error"}
  MaxFaults = 0
  MaxGrants = 2
  MaxQueue = 1
SPECIFICATION Spec
CHECK_DEADLOCK FALSE
INVARIANTS TypeOK 
PROPERTY ImplementsTickets
SYMMETRY WorkerSymmetry
