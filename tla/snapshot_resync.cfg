\* Leaders take turns and exchange decided snapshots.
SPECIFICATION Spec
CONSTANTS
  Server = {1, 2, 3}
  MaxPid = 3
  ReadQuorum = 2
  WriteQuorum = 2
  v1 = v1
  v2 = v2
  v3 = v3
  ss = ss
  Value = {v1, v2}
  StopSign = {}
  None = None
  BatchSize = 1
  UseSnapshots = TRUE
  Ballots <- FourBallots
  Proposals <- OneEach
  Links <- Rivals
  EagerTake = TRUE
  Budget <- NoFaults
  Disturbances = 9
INVARIANTS
  Agreement
\* The servers rest when all is delivered and the budgets are spent.
CHECK_DEADLOCK FALSE
