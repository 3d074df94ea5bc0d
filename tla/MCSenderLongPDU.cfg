\* One byte more than MCSender.cfg: the signature TLV no longer fits.
SPECIFICATION Spec
CONSTANTS
  a = a
  b = b
  Macs = {a, b}
  Broadcast = Broadcast
  PayloadLen = 1219
  NumInterfaces = 2
  NumSockets = 3
  ChallengeFrames <- MCChallengeFrames
  Times = {1, 2}
  SendFrequency = 5
  KeyReadable = {TRUE, FALSE}
  QCap = 1
INVARIANT BroadcastIntact
\* The program exits when it cannot read the private key.
CHECK_DEADLOCK FALSE
