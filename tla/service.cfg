\* Real elections drive Sequence Paxos to rest, through a crash or a takeover.
SPECIFICATION OmniSpec
CONSTANTS
  Server = {1, 2}
  MaxPid = 2
  ReadQuorum = 2
  WriteQuorum = 2
  v1 = v1
  v2 = v2
  v3 = v3
  ss = ss
  Value = {v1}
  StopSign = {}
  None = None
  BatchSize = 1
  UseSnapshots = FALSE
  Ballots = {}
  Proposals <- OneAt1
  Links <- FullMesh
  EagerTake = TRUE
  Budget <- Crashes
  Disturbances = 1
  Priority <- SamePriority
  NewPriority = 0
  Timely = TRUE
  RoundLimit = 1
  MaxN = 6
  CalmRounds = 1
  ElectionBudget <- CrashesOrTakeover
  ElectionDisturbances = 1
INVARIANTS
  ElectionSeesRounds
PROPERTIES
  Settles
  DecidedOrLost

