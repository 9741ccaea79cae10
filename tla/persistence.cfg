\* A log of three indices over RocksDB, with snapshots, trims and a stop sign.
SPECIFICATION Spec
CONSTANTS
  v1 = v1
  v2 = v2
  ss = ss
  Value = {v1, v2}
  StopSign = {ss}
  None = None
  BatchSize = 2
  UseSnapshots = TRUE
  Ballots <- OneBallot
  MaxIdx = 3
  MaxSuffix = 1
INVARIANTS
  RecoveryIsExact
  KeysAreContiguous
  ReadsAgree
PROPERTIES
  ImplementsStorage
