\* A follower that resends its promise while accepts still wait to be sent.
SPECIFICATION Spec
CONSTANTS
  Server = {1, 3}
  MaxPid = 3
  ReadQuorum = 2
  WriteQuorum = 2
  v1 = v1
  v2 = v2
  v3 = v3
  ss = ss
  Value = {v1, v2, v3}
  StopSign = {}
  None = None
  BatchSize = 1
  UseSnapshots = FALSE
  Ballots <- OneBallot
  Proposals <- ThreeAt1
  Links <- FullMesh
  EagerTake = FALSE
  Budget <- LossAndResendAt3
  Disturbances = 9
INVARIANTS
  Agreement
\* The servers rest when all is delivered and the budgets are spent.
CHECK_DEADLOCK FALSE
