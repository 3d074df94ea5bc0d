------------------------------- MODULE Sender -------------------------------
(***************************************************************************)
(* The endless loop of sender mode: sendRawSocket of                       *)
(* rawsocket_LAN_Beacon.c, called by send_lan_beacon_rawSock, with         *)
(* receiveChallenge, and transfer_to_pdu for the one TLV this loop adds.   *)
(*                                                                         *)
(* One buffer, lan_beacon_EthernetFrame, holds the frame.  The loop sends  *)
(* it on every interface, waits send_frequency seconds for a challenge,    *)
(* and on a challenge turns the very same buffer into the signed answer,   *)
(* sends that once, and turns it back into the broadcast.  What the buffer *)
(* holds is modelled by offsets: how far the PDU is intact, where the      *)
(* signature TLV, its fields and its signature were written, and which     *)
(* contents the signature was computed over.                               *)
(***************************************************************************)
EXTENDS Integers, Sequences

CONSTANTS
  PayloadLen,       \* lan_beacon_pdu_len: bytes of the PDU, end TLV included
  NumInterfaces,    \* interfaces frames are sent on (all, or the one of -f)
  NumSockets,       \* challenge sockets, numbered in the order of their fds
  ChallengeFrames,  \* challenge frames other hosts send: [challenge, src]
  Macs,             \* MAC addresses of the hosts that challenge
  Broadcast,        \* LAN_BEACON_DEST_MAC
  Times,            \* the values time(NULL) can return
  SendFrequency,    \* -z, seconds
  KeyReadable,      \* what an attempt to get the signing key can give
  QCap              \* bound of a challenge socket's queue

(* 22 bytes of mandatory TLVs and 2 of end TLV is the smallest PDU that    *)
(* lanbeacon_creator builds; it has allocated 1500 (what it writes behind  *)
(* them is PduBuilder's concern).                                          *)
ASSUME SenderAssumption ==
  /\ PayloadLen \in 24..1500
  /\ NumInterfaces \in Nat /\ NumSockets \in Nat /\ QCap \in Nat
  /\ ChallengeFrames \subseteq [challenge : Nat, src : Macs]
  /\ Broadcast \notin Macs
  /\ SendFrequency \in Int
  /\ KeyReadable \subseteq BOOLEAN

VARIABLES
  pc,                 \* "send": in the for loop; "receive": in receiveChallenge
  j,                  \* interfaces this burst has been sent on
  receivedChallenge,  \* the challenge being answered, 0 for none
  frame,              \* lan_beacon_EthernetFrame and frameLength, see Init
  challengeQ          \* frames queued in each challenge socket

senderVars == <<pc, j, receivedChallenge, frame, challengeQ>>

HeaderLen == 14                           \* sizeof(struct ether_header)
SignatureTLVLen == 264                    \* challenge 4, timestamp 4, RSA 256
ContentEnd == HeaderLen + PayloadLen - 2  \* where the end TLV of the PDU is
Sockets == 1..NumSockets

(* Everything of the buffer that a signature over a prefix of the PDU      *)
(* depends on and that the loop changes.                                   *)
View(f) == [shost |-> f.shost, content |-> f.content, tlv |-> f.tlv,
            fields |-> f.fields, challenge |-> f.challenge,
            timeStamp |-> f.timeStamp]

(* The buffer before the loop.  shost is the number of the interface whose *)
(* MAC is in the source address, the chassis and the port TLV (0: not yet  *)
(* filled in); content is the offset up to which the buffer holds the PDU; *)
(* end, tlv, fields and sigAt are the offsets where an end TLV, the header *)
(* of a signature TLV, a challenge with timestamp and a signature were     *)
(* last written (0: never); sigLen and sigOver are what was signed.        *)
InitialFrame ==
  [dhost |-> Broadcast, shost |-> 0, length |-> HeaderLen + PayloadLen,
   content |-> ContentEnd, end |-> ContentEnd, tlv |-> 0, fields |-> 0,
   challenge |-> 0, timeStamp |-> 0, sigAt |-> 0, sigLen |-> 0,
   sigOver |-> [shost |-> 0, content |-> 0, tlv |-> 0, fields |-> 0,
                challenge |-> 0, timeStamp |-> 0]]

Init ==
  /\ pc = "send" /\ j = 0
  /\ receivedChallenge = 0
  /\ frame = InitialFrame
  /\ challengeQ = [i \in Sockets |-> <<>>]

-----------------------------------------------------------------------------
(* Writing from offset at on destroys the PDU's bytes from there.          *)
Overwrite(f, at) == IF at < f.content THEN at ELSE f.content

(* Not the code: the caller's currentByte is left where it was.            *)
FaultyTransferSignature(f) ==
  IF 1500 < SignatureTLVLen + f.length + 6
    THEN f
    ELSE [f EXCEPT !.tlv = f.length, !.content = Overwrite(f, f.length)]

(* transfer_to_pdu for the 264 byte placeholder: a TLV header and the      *)
(* placeholder go to the end of the buffer, unless the limit of 1500 bytes *)
(* (compared with an offset that counts the Ethernet header) is exceeded.  *)
TransferSignature(f) ==
  IF 1500 < SignatureTLVLen + f.length + 6
    THEN f
    ELSE [f EXCEPT !.tlv = f.length, !.content = Overwrite(f, f.length),
                   !.length = f.length + 6 + SignatureTLVLen]

(* The challenge and the timestamp go 264 bytes before the end.            *)
PutFields(f, c, t) ==
  [f EXCEPT !.fields = f.length - SignatureTLVLen,
            !.content = Overwrite(f, f.length - SignatureTLVLen),
            !.challenge = c, !.timeStamp = t]

(* signlanbeacon over len bytes from the start of the PDU; the 256 bytes   *)
(* of signature are stored at offset at.                                   *)
Sign(f, len, at) == [f EXCEPT !.sigAt = at, !.sigLen = len, !.sigOver = View(f)]

(* The end TLV, two zero bytes.                                            *)
PutEnd(f, at) == [f EXCEPT !.end = at, !.content = Overwrite(f, at)]

(* Not the code: the destination address is left as it was.                *)
FaultyAnswer(f, c, src, t) ==
  LET unended == [f EXCEPT !.length = f.length - 2]
      fielded == PutFields(TransferSignature(unended), c, t)
      signed  == Sign(fielded, PayloadLen + 4 + 4 + 4,
                      fielded.length - SignatureTLVLen + 4 + 4)
  IN  [PutEnd(signed, signed.length) EXCEPT !.length = signed.length + 2]

(* The signed answer to challenge c of host src at time t.                 *)
Answer(f, c, src, t) ==
  LET unended == [f EXCEPT !.dhost = src, !.length = f.length - 2]
      fielded == PutFields(TransferSignature(unended), c, t)
      signed  == Sign(fielded, PayloadLen + 4 + 4 + 4,
                      fielded.length - SignatureTLVLen + 4 + 4)
  IN  [PutEnd(signed, signed.length) EXCEPT !.length = signed.length + 2]

(* Not the code: the end TLV's two bytes are counted once too often.       *)
FaultyUnanswer(f) ==
  LET g == [f EXCEPT !.dhost = Broadcast, !.length = f.length - 272]
  IN  PutEnd(g, g.length - 2)

(* The broadcast again, after the answer has been sent.                    *)
Unanswer(f) ==
  LET g == [f EXCEPT !.dhost = Broadcast, !.length = f.length - 270]
  IN  PutEnd(g, g.length - 2)

(* Not the code: the signature made when the challenge came in is reused.  *)
FaultyForInterface(f, i) == [f EXCEPT !.shost = i]

(* The MAC of interface i, and on an answer a new signature, because the   *)
(* chassis and the port TLV are signed too.                                *)
ForInterface(f, i) ==
  LET g == [f EXCEPT !.shost = i]
  IN  IF receivedChallenge # 0
        THEN Sign(g, PayloadLen - 2 + 2 + 4 + 4 + 4, g.length - 2 - SignatureTLVLen + 4 + 4)
        ELSE g

-----------------------------------------------------------------------------
(* The body of the for loop.  The private key is read again for each       *)
(* signature; without one the program exits.                               *)
Transmit ==
  /\ pc = "send" /\ j < NumInterfaces
  /\ \/ /\ receivedChallenge = 0 \/ TRUE \in KeyReadable
        /\ frame' = ForInterface(frame, j + 1)
        /\ j' = j + 1
        /\ pc' = pc
     \/ /\ receivedChallenge # 0 /\ FALSE \in KeyReadable
        /\ pc' = "exited"
        /\ UNCHANGED <<j, frame>>
  /\ UNCHANGED <<receivedChallenge, challengeQ>>

(* After the for loop: an answer is sent once, then the broadcast is       *)
(* restored and the loop goes on to receiveChallenge.                      *)
EndBurst ==
  /\ pc = "send" /\ j = NumInterfaces
  /\ frame' = IF receivedChallenge # 0 THEN Unanswer(frame) ELSE frame
  /\ receivedChallenge' = 0
  /\ pc' = "receive"
  /\ UNCHANGED <<j, challengeQ>>

(* select is given maxSockFd, the highest descriptor, as the number of     *)
(* descriptors: it does not watch that one.  A negative -z makes it fail.  *)
Watched == IF SendFrequency < 0 THEN {} ELSE {i \in Sockets : i < NumSockets}
Ready == {i \in Watched : challengeQ[i] # <<>>}

(* receiveChallenge without a frame: select timed out or failed.           *)
Timeout ==
  /\ pc = "receive" /\ Ready = {}
  /\ pc' = "send" /\ j' = 0
  /\ UNCHANGED <<receivedChallenge, frame, challengeQ>>

(* Not the code: the frame is looked at but stays in the socket.           *)
FaultyReceive(i, t) ==
  LET c == Head(challengeQ[i]) IN
  /\ pc = "receive" /\ i \in Ready /\ \A k \in Ready : i <= k
  /\ c.challenge # 0 /\ TRUE \in KeyReadable
  /\ receivedChallenge' = c.challenge
  /\ pc' = "send" /\ j' = 0 /\ frame' = Answer(frame, c.challenge, c.src, t)
  /\ UNCHANGED challengeQ

(* receiveChallenge takes one frame from the first ready socket.  A        *)
(* challenge of 0 counts as none; any other is answered, if the key can be *)
(* read.                                                                   *)
Receive(i, t) ==
  LET c == Head(challengeQ[i]) IN
  /\ pc = "receive" /\ i \in Ready /\ \A k \in Ready : i <= k
  /\ challengeQ' = [challengeQ EXCEPT ![i] = Tail(@)]
  /\ receivedChallenge' = c.challenge
  /\ \/ /\ c.challenge = 0
        /\ pc' = "send" /\ j' = 0 /\ frame' = frame
     \/ /\ c.challenge # 0 /\ TRUE \in KeyReadable
        /\ pc' = "send" /\ j' = 0 /\ frame' = Answer(frame, c.challenge, c.src, t)
     \/ /\ c.challenge # 0 /\ FALSE \in KeyReadable
        /\ pc' = "exited" /\ UNCHANGED <<j, frame>>

(* The kernel queues a challenge frame in some of the challenge sockets:   *)
(* a packet socket hears every interface, and may drop when it is full.    *)
ChallengeArrives(c, S) ==
  /\ S # {} /\ \A i \in S : Len(challengeQ[i]) < QCap
  /\ challengeQ' = [i \in Sockets |->
                      IF i \in S THEN Append(challengeQ[i], c) ELSE challengeQ[i]]
  /\ UNCHANGED <<pc, j, receivedChallenge, frame>>

SenderStep ==
  \/ Transmit \/ EndBurst \/ Timeout
  \/ \E i \in Sockets, t \in Times : Receive(i, t)

Arrival == \E c \in ChallengeFrames, S \in SUBSET Sockets : ChallengeArrives(c, S)

Next == SenderStep \/ Arrival

(* The loop never blocks: select has a timeout.  Nothing makes anybody     *)
(* send a challenge.                                                       *)
Spec == Init /\ [][Next]_senderVars /\ WF_senderVars(SenderStep)

-----------------------------------------------------------------------------
(* What a receiver reads in a frame.                                       *)

(* The frame in the buffer is the one that was sent last.                  *)
Sent == pc = "send" /\ j > 0

(* evaluatelanbeacon's walk over the TLVs meets the signature TLV right    *)
(* after the PDU's own, and verifylanbeacon, which takes the 256 bytes     *)
(* before the end TLV for a signature over all before them, accepts.       *)
Verifies(f) ==
  /\ f.content = ContentEnd /\ f.tlv = ContentEnd
  /\ f.fields = f.tlv + 6
  /\ f.sigAt = f.length - 2 - 256
  /\ HeaderLen + f.sigLen = f.sigAt
  /\ f.sigOver = View(f)
  /\ f.end = f.length - 2

(* The whole PDU and nothing else, ended by its end TLV.                   *)
Complete(f) ==
  /\ f.length = HeaderLen + PayloadLen
  /\ f.content = ContentEnd
  /\ f.end = f.length - 2

-----------------------------------------------------------------------------
(* Every field of the frame and of the queues holds a value of its type.   *)
Hosts == Macs \cup {Broadcast}
Stamps == Times \cup {0}
Views == [shost : 0..NumInterfaces, content : Int, tlv : Int, fields : Int,
          challenge : Nat, timeStamp : Stamps]
Frames == [dhost : Hosts, shost : 0..NumInterfaces, length : Nat, content : Int,
           end : Int, tlv : Int, fields : Int, challenge : Nat, timeStamp : Stamps,
           sigAt : Int, sigLen : Int, sigOver : Views]

(* Type invariant of sendRawSocket's state.                                *)
TypeOK ==
  /\ pc \in {"send", "receive", "exited"}
  /\ j \in 0..NumInterfaces
  /\ receivedChallenge \in Nat
  /\ frame \in Frames
  /\ challengeQ \in [Sockets -> Seq(ChallengeFrames)]

(* However many answers were sent in between, a frame sent to broadcast is *)
(* the whole PDU the program was given, with its end TLV and nothing after *)
(* it: turning the buffer into an answer and back loses nothing.           *)
BroadcastIntact == Sent /\ frame.dhost = Broadcast => Complete(frame)

(* An answer carries the whole PDU and a signature that a receiver can     *)
(* verify, on every interface: signed with that interface's MAC in place   *)
(* and over exactly the bytes the receiver verifies.                       *)
AnswerVerifies == Sent /\ frame.dhost # Broadcast => Verifies(frame)

(* While a challenge is being answered the frame goes to the host that     *)
(* sent this very challenge; otherwise it goes to broadcast.               *)
AnswerReachesAsker ==
  Sent => IF receivedChallenge # 0
            THEN /\ frame.challenge = receivedChallenge
                 /\ [challenge |-> receivedChallenge, src |-> frame.dhost]
                      \in ChallengeFrames
            ELSE frame.dhost = Broadcast

(* Once no more challenges arrive, the program answers or drops all that   *)
(* its watched sockets hold and goes on broadcasting for ever, unless it   *)
(* has exited for want of a key.                                           *)
BroadcastsGoOn ==
  <>[][~Arrival]_senderVars =>
    []<>(\/ pc = "exited"
         \/ /\ Sent /\ frame.dhost = Broadcast
            /\ \A i \in Watched : challengeQ[i] = <<>>)
=============================================================================
