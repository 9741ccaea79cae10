\* A stop sign forwarded to a leader that batches and takes a snapshot.
SPECIFICATION Spec
CONSTANTS
  Server = {1, 2, 3}
  MaxPid = 3
  ReadQuorum = 2
  WriteQuorum = 2
  v1 = v1
  v2 = v2
  v3 = v3
  ss = ss
  Value = {v1, v2}
  StopSign = {ss}
  None = None
  BatchSize = 2
  UseSnapshots = TRUE
  Ballots <- OneBallot
  Proposals <- TwoThenStop
  Links <- FullMesh
  EagerTake = TRUE
  Budget <- SnapshotAt1
  Disturbances = 9
INVARIANTS
  ReadsAreExact
  ReadersAgree
  NoPanic
  AcceptedIdxIsLogLength
PROPERTIES
  LogIsSealed
  DecidedIsStable
\* The servers rest when all is delivered and the budgets are spent.
CHECK_DEADLOCK FALSE
