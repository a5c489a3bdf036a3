SPECIFICATION Spec
CONSTANTS
  Keys = {1, 2}
  Values = {a, b}
  EmptyValue = empty
  CompressionType = "LZ4"
  HashType = "CityHash128"
  HeaderSize = 2
  ValueSize = 1
  NPos = 9
  ByteWidths = {1, 2}
  OffsetRange = 4
  FilterSize = 2
  NumHashes = 2
  HashRange = 8
  BloomHash <- MCBloomHash
  Readers = {}
  MemTableLimit = 4
  WalBuffer = 3
  SplitWrites = FALSE
  CanCrash = TRUE
  MaxSessions = 3
  WriteSessions = {1, 2, 3}
  MaxOps = 4
  RemoveKeys = {1}
  NoFile = NoFile
SYMMETRY Symmetry
CHECK_DEADLOCK FALSE
INVARIANTS
  MemTableIsNewest
  FirstRestartServes
  OpenFailsOnlyTorn
  IndexHighestFirst
  HintsUntilReuse
