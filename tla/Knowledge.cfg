CONSTANTS
  Memories = {m1, m2, m3}
  Dreamers = {d1}
  Admins = {a1}
  DreamTypes = {"incremental", "full_validation"}
  Confidences = {20, 80}
  MaxRuns = 1
  MaxEdits = 2
  MaxCommits = 3
  Bucket <- OneBucket
  ClusterSize = 2
  BatchSize = 2
  Limits = {2, 3}
  Releases = {2}
  Extractors = {t1, t2}
  MaxAttempts = 4
  Projects = {"p", "q"}
  Repositories = {1, 2, 3}
  OwnerOf <- TwoProjects
  Names = {"x", "y"}
  NameOf <- SharedName
  Affinities = {0, 2}
  HintFloor = 1
  Candidates = 4
  Hits = {0, 1, 6}
  MinHits = 1
  RatioInverse = 5
  PoolSize = 3
  TopK = 2
  Callers = {t1, t2}
  Places = {"r1", "r2"}
  ProjectOf <- PlaceProject
  Notes = {"n1", "n2", "n3"}
  HomeOf <- NoteProject
  Known = {"anonymous", "named"}
  Budgets = {0, 1, 3, 4}
  FullSize = 3
  BriefSize = 1
  SeenLimit = 2
  ListLimit = 2
  MaxCalls = 3
  Repos = {r1, r2}
  Stages = 2
  Parts = 2
  MaxRetries0 = 1
  MaxRestarts = 1
  DreamProjects = {"p"}
  Schedulers = {t1, t2}
  MaxDays = 2
  MaxManual = 1
  MaxCrashes = 1
  Paths = {1, 2, 3}
  Ignored = {3}
  SymNames = {"f", "g", "h"}
  Texts <- SmallFiles
  MaxUpdates = 3
  MaxRenames = 1
  MaxLost = 1
  MaxDepth = 2
  Segments = {"a", "b", "c", "r"}
  Locations <- SmallTree
  Deepest = 3
  Shown = {"m1", "m2"}
  Topics = {"t"}
  Proofs = {"e"}
  FileLimit = 2
SPECIFICATION KnowledgeSpec
CHECK_DEADLOCK FALSE
SYMMETRY KnowledgeSymmetry
INVARIANTS
  KnowledgeTypeOK
  OneMemoryPerEvidence  
  ScopeFollowsReference TiersNeverMix NothingLostToLikeness
  SeenWasReturned
  StepsFollowCheckpoint PauseStopsSoon
  OneNightlyPerDay
    TraceIsReachability 
  EveryFileOnce MissingIsGone
PROPERTIES
  HumanTextOutlivesRuns KeepersLive ArchivedStays ActivationIsBacked
  ProgressNeverBack
