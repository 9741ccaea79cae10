\* A star: only the hub can gather a read quorum.
SPECIFICATION Spec
CONSTANTS
  Server = {1, 2, 3}
  MaxPid = 3
  ReadQuorum = 3
  WriteQuorum = 2
  Priority <- SamePriority
  NewPriority = 1
  Links <- Star1
  Timely = TRUE
  RoundLimit = 1
  MaxN = 8
  CalmRounds = 10
  Budget <- CrashOrUser
  Disturbances = 1
INVARIANTS
  TypeOK
  NoRetainedLeadership
  LeaderOnceCalm
PROPERTIES
  LeaderAdvances
