\* 1218 is the longest PDU that leaves room for a signature TLV.
SPECIFICATION Spec
CONSTANTS
  a = a
  b = b
  Macs = {a, b}
  Broadcast = Broadcast
  PayloadLen = 1218
  NumInterfaces = 2
  NumSockets = 3
  ChallengeFrames <- MCChallengeFrames
  Times = {1, 2}
  SendFrequency = 5
  KeyReadable = {TRUE, FALSE}
  QCap = 2
INVARIANTS TypeOK BroadcastIntact AnswerVerifies AnswerReachesAsker
PROPERTY BroadcastsGoOn
\* The program exits when it cannot read the private key.
CHECK_DEADLOCK FALSE
