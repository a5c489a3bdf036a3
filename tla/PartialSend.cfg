SPECIFICATION Spec
CONSTANTS
  Clients = {c2}
  Reader = c1
  Keys = {k}
  Values = {a}
  Missing = Missing
  Empty = Empty
  Garbage = Garbage
  Size <- MCSize
  Requests <- MCRequests
  ClientBuffer = 3
  ServerBuffer = 4
  NumThreads = 2
  MaxStops = 0
  MaxFaults = 0
CHECK_DEADLOCK FALSE
PROPERTIES
  FutureReady
