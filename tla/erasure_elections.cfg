\* Rivals elected over coded entries, with a write quorum that is no majority.
SPECIFICATION ECSpec
CONSTANTS
  Server = {1, 2, 3, 4}
  MaxPid = 4
  ReadQuorum = 3
  WriteQuorum = 2
  DataShards = 2
  ParityShards = 2
  v1 = v1
  v2 = v2
  v3 = v3
  ss = ss
  Data = {v1, v2}
  Value <- Piece
  StopSign = {}
  None = None
  BatchSize = 1
  UseSnapshots = FALSE
  Ballots <- TwoBallots
  Proposals <- WholeEach
  Links <- Rivals
  EagerTake = TRUE
  Budget <- NoFaults
  Disturbances = 9
INVARIANTS
  CodedAgreement
  CodedDurable
  FollowersHoldTheirFragment
CHECK_DEADLOCK FALSE
