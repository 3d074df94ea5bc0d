\* One watched and one unwatched socket on each side.
SPECIFICATION Spec
CONSTANTS
  m = m
  x = x
  y = y
  server = server
  listener = listener
  other = other
  Broadcast = Broadcast
  PayloadLen = 60
  SendFrequency = 5
  QCap = 1
  Times = {0, 10, 20}
  Skews <- Ahead
  Rand <- MCRand
  Garbage = {0, 100}
  FdLimit = 5
  TLVs = {m, x, y}
  BodyLen <- MCBodyLen
  NumSockets = 2
  Heard = {{1}}
  Bodies <- MCBodies
  OtherChallenges = {200}
SYMMETRY Symmetry
INVARIANTS TypeOK
PROPERTY AuthenticatedIsRecent
\* The receiver blocks when it has nothing to show and nothing arrives.
CHECK_DEADLOCK FALSE
