\* A follower is synchronised with what the leader already encoded.
SPECIFICATION ECSpec
CONSTANTS
  Server = {1, 2, 3}
  MaxPid = 3
  ReadQuorum = 2
  WriteQuorum = 2
  DataShards = 2
  ParityShards = 1
  v1 = v1
  v2 = v2
  v3 = v3
  ss = ss
  Data = {v1}
  Value <- Piece
  StopSign = {}
  None = None
  BatchSize = 1
  UseSnapshots = FALSE
  Ballots <- OneBallot
  Proposals <- WholeAt1
  Links <- FullMesh
  EagerTake = TRUE
  Budget <- NoFaults
  Disturbances = 9
INVARIANTS
  DecidedIsRebuildable
CHECK_DEADLOCK FALSE
