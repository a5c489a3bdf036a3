SPECIFICATION Spec
CONSTANTS
  Clients = {c1, c2}
  Reader = c1
  Keys = {k}
  Values = {a}
  Missing = Missing
  Empty = Empty
  Garbage = Garbage
  Size <- MCSize
  Requests <- MCRequests
  ClientBuffer = 4
  ServerBuffer = 4
  NumThreads = 1
  MaxStops = 1
  MaxFaults = 1
CHECK_DEADLOCK FALSE
INVARIANTS
  TypeOK
  AnswerCorrect
  PromiseSetOnce
  NetworkInv
  FirstReopenKeeps
PROPERTIES
  StopIsFinal
  FutureReady
  SessionEnds
