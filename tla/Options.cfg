SPECIFICATION Spec
CONSTANTS
  Keys = {1, 2}
  Values = {a, b}
  EmptyValue = empty
  HeaderSize = 2
  ValueSize = 1
  NPos = 9
  ByteWidths = {1}
  CallerOptions <- MCCallerOptions
  NoFile = NoFile
  EmptyFile = EmptyFile
  NoRow = NoRow
  MaxSessions = 3
  MaxPuts = 2
CHECK_DEADLOCK FALSE
INVARIANTS
  TypeOK
  ReadableOnceSaved
  ForeignHashRefused
