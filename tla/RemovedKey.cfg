SPECIFICATION SessionSpec
CONSTANTS
  Keys = {1}
  Values = {a}
  EmptyValue = empty
  CompressionType = "LZ4"
  HashType = "CityHash128"
  HeaderSize = 2
  ValueSize = 1
  NPos = 9
  ByteWidths = {1, 2}
  OffsetRange = 4
  FilterSize = 2
  NumHashes = 2
  HashRange = 8
  BloomHash <- MCBloomHash
  Readers = {}
  MemTableLimit = 4
  WalBuffer = 3
  SplitWrites = FALSE
  CanCrash = FALSE
  MaxSessions = 1
  WriteSessions = {1}
  MaxOps = 3
  RemoveKeys = {1}
  NoFile = NoFile
CHECK_DEADLOCK FALSE
INVARIANTS
  RemovedStaysRemoved
