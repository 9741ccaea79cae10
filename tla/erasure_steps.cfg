\* One of every kind of step, and a stop sign, over coded entries.
SPECIFICATION ECSpec
CONSTANTS
  Server = {1, 2}
  MaxPid = 2
  ReadQuorum = 2
  WriteQuorum = 2
  DataShards = 2
  ParityShards = 1
  v1 = v1
  v2 = v2
  v3 = v3
  ss = ss
  Data = {v1, v2}
  Value <- Piece
  StopSign = {ss}
  None = None
  BatchSize = 1
  UseSnapshots = TRUE
  Ballots <- OneBallot
  Proposals <- WholeEachThenStop
  Links <- FullMesh
  EagerTake = FALSE
  Budget <- EachOnce
  Disturbances = 1
INVARIANTS
  CodedAgreement
  CodedDurable
PROPERTIES
  LogIsSealed
  DecidedIsStable
CHECK_DEADLOCK FALSE
