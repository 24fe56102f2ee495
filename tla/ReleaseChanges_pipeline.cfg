CONSTANTS
  Commits <- MCCommits
  NoSha = "none"
  Base = "c0"
  Moves <- MCMoves
  Scanned = TRUE
  MergeHead <- MCMergeHead
  Ancestors <- MCAncestors
  Files <- MCFiles
  Content <- MCContent
  Workers = {w1}
  Requests = {r1}
  MaxRetries = 1
  Faults = {"llm_failure", "hook_repeated", "worker_crash"}
  MaxFaults = 1
  MaxPushes = 2
SPECIFICATION Spec
CHECK_DEADLOCK FALSE
INVARIANTS TypeOK NothingForgotten HooksMerged IndexFollowsChain
PROPERTIES SucceededForGood
