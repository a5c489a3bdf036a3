SPECIFICATION Spec
CONSTANTS
  Keys = {1, 3}
  Values = {a, b}
  EmptyValue = empty
  CompressionType = "NoCompression"
  HashType = "CityHash128"
  HeaderSize = 2
  ValueSize = 1
  NPos = 9
  ByteWidths = {1, 2}
  OffsetRange = 8
  FilterSize = 2
  NumHashes = 2
  HashRange = 8
  BloomHash <- MCBloomHash
  Readers = {}
  MemTableLimit = 7
  WalBuffer = 3
  SplitWrites = TRUE
  CanCrash = TRUE
  MaxSessions = 2
  WriteSessions = {1, 2}
  MaxOps = 4
  RemoveKeys = {1, 3}
  NoFile = NoFile
SYMMETRY Symmetry
CHECK_DEADLOCK FALSE
INVARIANTS
  OnlyStoredValues
  DamageIsLocal
