\* Two sockets, one of them watched; the kernel queues a frame in both, or drops it in the second.
SPECIFICATION Spec
CONSTANTS
  m = m
  x = x
  y = y
  server = server
  Macs = {server}
  TLVs = {m, x, y}
  Frames <- MCFrames
  BodyLen <- MCBodyLen
  NumSockets = 2
  Deliveries = {{1}, {1, 2}}
  Times = {0, 10}
  Rand <- MCRand
  Garbage = {0, 100}
  KeyReadable = {TRUE, FALSE}
  FdLimit = 4
  QCap = 1
PROPERTY AllSocketsChecked
\* The receiver blocks when it has nothing to show and nothing arrives.
CHECK_DEADLOCK FALSE
