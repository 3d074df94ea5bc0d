\* Three sockets, two of them watched; descriptors for two challenges.
SPECIFICATION Spec
CONSTANTS
  m = m
  x = x
  y = y
  server = server
  Macs = {server}
  TLVs = {m, x, y}
  Frames <- MCFrames
  BodyLen <- MCBodyLen
  NumSockets = 3
  Deliveries = {{1}, {2}, {1, 2}}
  Times = {0, 10}
  Rand <- MCRand
  Garbage = {0, 100}
  KeyReadable = {TRUE, FALSE}
  FdLimit = 7
  QCap = 1
INVARIANTS TypeOK NoDuplicates AuthenticatedIsSigned OneSlotPerContents
PROPERTIES AuthenticatedKept EachTurnShowsAll DisplayDrains ImplementsBoard
\* The receiver blocks when it has nothing to show and nothing arrives.
CHECK_DEADLOCK FALSE
