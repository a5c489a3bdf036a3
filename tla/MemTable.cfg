SPECIFICATION Spec
CONSTANTS
  Keys = {1, 2, 5}
  Values = {a}
  EmptyValue = empty
  CompressionType = "LZ4"
  HashType = "CityHash128"
  HeaderSize = 2
  ValueSize = 1
  NPos = 5
  ByteWidths = {1}
  OffsetRange = 7
  InputRows <- MCInputRows
  MaxPuts = 3
  MaxTables = 2
  NoStream = NoStream
CHECK_DEADLOCK FALSE
INVARIANTS
  TypeOK
  SavedAsFound
  LogCoversMap
  SizeCoversSegment
  InsertedHintsRead
  MergeKeepsNewest
PROPERTIES
  ImplementsNewestRows
