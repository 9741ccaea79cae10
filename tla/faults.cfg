\* Two elections and any two of a loss, a retry, a reconnection or a crash.
SPECIFICATION Spec
CONSTANTS
  Server = {1, 2, 3}
  MaxPid = 3
  ReadQuorum = 2
  WriteQuorum = 2
  v1 = v1
  v2 = v2
  v3 = v3
  ss = ss
  Value = {v1, v2}
  StopSign = {}
  None = None
  BatchSize = 1
  UseSnapshots = FALSE
  Ballots <- TwoBallots
  Proposals <- OneEach
  Links <- Rivals
  EagerTake = TRUE
  Budget <- LossRetriesAndCrashes
  Disturbances = 2
INVARIANTS
  Agreement
  DecidedIsDurable
  AckedIsStored
PROPERTIES
  RoundsAdvance
\* The servers rest when all is delivered and the budgets are spent.
CHECK_DEADLOCK FALSE
