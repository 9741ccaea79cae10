\* Batches of two entries, outgoing messages taken at any time, and a trim.
SPECIFICATION Spec
CONSTANTS
  Server = {1, 2, 3}
  MaxPid = 3
  ReadQuorum = 2
  WriteQuorum = 2
  v1 = v1
  v2 = v2
  v3 = v3
  ss = ss
  Value = {v1, v2, v3}
  StopSign = {}
  None = None
  BatchSize = 2
  UseSnapshots = FALSE
  Ballots <- OneBallot
  Proposals <- ThreeAt1
  Links <- FullMesh
  EagerTake = FALSE
  Budget <- FlushesAndTrim
  Disturbances = 9
INVARIANTS
  TypeOK
  LogMatching
  AckedIsStored
  DecidedIsAccepted
  TrimmedIsAcceptedByAll
\* The servers rest when all is delivered and the budgets are spent.
CHECK_DEADLOCK FALSE
