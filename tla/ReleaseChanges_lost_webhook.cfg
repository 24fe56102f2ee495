CONSTANTS
  Commits <- MCCommits
  NoSha = "none"
  Base = "c0"
  Moves <- MCMoves
  Scanned = TRUE
  MergeHead <- MCMergeHead
  Ancestors <- MCAncestors
  Files <- MCFiles
  Content <- MCContent
  Workers = {w1}
  Requests = {r1}
  MaxRetries = 0
  Faults = {"hook_lost"}
  MaxFaults = 0
  MaxPushes = 1
SPECIFICATION Spec
CHECK_DEADLOCK FALSE
PROPERTIES ReconcileCompensates
