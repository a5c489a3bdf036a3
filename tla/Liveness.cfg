SPECIFICATION FairSessionSpec
CONSTANTS
  Keys = {1, 2}
  Values = {a, b}
  EmptyValue = empty
  CompressionType = "LZ4"
  HashType = "CityHash128"
  HeaderSize = 2
  ValueSize = 1
  NPos = 9
  ByteWidths = {1, 2}
  OffsetRange = 4
  FilterSize = 2
  NumHashes = 2
  HashRange = 8
  BloomHash <- MCBloomHash
  Readers = {r1}
  MemTableLimit = 4
  WalBuffer = 3
  SplitWrites = FALSE
  CanCrash = FALSE
  MaxSessions = 1
  WriteSessions = {1}
  MaxOps = 3
  RemoveKeys = {1, 2}
  NoFile = NoFile
PROPERTIES
  GetTerminates
  SnapshotCompletes
