CONSTANTS
  Commits <- MCCommits
  NoSha = "none"
  Base = "c0"
  Moves <- MCMoves
  Scanned = FALSE
  MergeHead <- MCMergeHead
  Ancestors <- MCAncestors
  Files <- MCFiles
  Content <- MCContent
  Workers = {w1}
  Requests = {r1, r2}
  MaxRetries = 0
  Faults = {"worker_crash", "send_failure", "api_crash", "git_failure", "hook_lost"}
  MaxFaults = 1
  MaxPushes = 1
SPECIFICATION Spec
CHECK_DEADLOCK FALSE
INVARIANTS  NothingForgotten
SYMMETRY RequestSymmetry
