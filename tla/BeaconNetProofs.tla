-------------------------- MODULE BeaconNetProofs ---------------------------
(***************************************************************************)
(* For every PDU that leaves room for a signature, every two clocks, set   *)
(* of bodies and way of losing frames: a frame comes to be shown as        *)
(* authenticated only within ten seconds of the sender's having announced  *)
(* what it says, and as much more as the sender's clock is ahead; and the  *)
(* listener in the network is the receiver of Receiver.                    *)
(***************************************************************************)
EXTENDS BeaconNet, SequenceTheorems, TLAPS

(* The sender's buffer, its length and offsets unrestricted: whether they  *)
(* are right is Sender's concern, what goes out is a frame in any case.    *)
Buffers ==
  [dhost : Macs \cup {Broadcast}, shost : 0..1, length : Int, content : Int,
   end : Int, tlv : Int, fields : Int, challenge : Nat, timeStamp : SenderTimes \cup {0},
   sigAt : Int, sigLen : Int, sigOver : S!Views]

(* The sender's clock can have shown x when the listener's showed t.       *)
NotAfter(x, t) == \E d \in Skews : x <= t + d

(* A buffer addressed to a host is an answer to a challenge that was on    *)
(* the LAN, made no later than time t.                                     *)
AnswersAChallenge(f, t) ==
  f.dhost # Broadcast =>
    /\ f.challenge \in {c.challenge : c \in AllChallenges}
    /\ f.timeStamp \in SenderTimes /\ NotAfter(f.timeStamp, t)

(* A signed frame is no younger than the last announcement of its body.    *)
Announced(f) == f.signed => NotAfter(f.stamp, announced[f.body])

ClockInv ==
  /\ now \in Times /\ body \in Bodies
  /\ announced \in [Bodies -> Times \cup {-R!FreshFor}]
  /\ announced[body] = now
  /\ \A b \in Bodies : announced[b] <= now

SenderInv ==
  /\ sPc \in {"send", "receive", "exited"} /\ sJ \in 0..1
  /\ sChallenge \in Nat
  /\ sFrame \in Buffers
  /\ challengeQ \in [S!Sockets -> Seq(AllChallenges)]
  /\ AnswersAChallenge(sFrame, now)

ReceiverInv ==
  /\ R!TypeOK
  /\ pc = "print" => cur > 0
  /\ \A i \in ready : sockQ[i] # <<>>
  /\ \A i \in R!Sockets : \A k \in 1..Len(sockQ[i]) : Announced(sockQ[i][k])

(* The inductive invariant.                                                *)
NetInv == ClockInv /\ SenderInv /\ ReceiverInv

-----------------------------------------------------------------------------
(* What the challenges and the frames on the LAN are made of.              *)
LEMMA ChallengeType ==
  /\ AllChallenges \subseteq [challenge : Nat, src : Macs]
  /\ Broadcast \notin Macs
  /\ 0 \in Times /\ Times \subseteq Nat /\ NumSockets \in Nat
  /\ SenderTimes \subseteq Int
<1>0. SenderTimes \subseteq Int
  <2>1. \A t \in Times : t \in Int
    BY BeaconNetAssumption
  <2>2. \A d \in Skews : d \in Int
    BY BeaconNetAssumption
  <2>3. \A t \in Times, d \in Skews : t + d \in Int
    BY <2>1, <2>2
  <2> QED
    BY <2>3 DEF SenderTimes
<1>1. ASSUME NEW t \in Times PROVE Rand[t] \in Nat
  BY BeaconNetAssumption
<1>2. \A t \in Times : Challenge(Rand[t], listener) \in [challenge : Nat, src : Macs]
  BY <1>1 DEF Challenge, Macs
<1>3. \A c \in OtherChallenges : Challenge(c, other) \in [challenge : Nat, src : Macs]
  BY BeaconNetAssumption DEF Challenge, Macs
<1> QED
  BY <1>0, <1>2, <1>3, BeaconNetAssumption DEF AllChallenges, Macs

LEMMA FrameType ==
  ASSUME NEW f \in AllFrames
  PROVE  /\ f.body \in Bodies /\ f.body \in Seq(TLVs)
         /\ f.signed \in BOOLEAN /\ f.valid \in BOOLEAN
         /\ f.stamp \in Int /\ f.challenge \in Nat
<1>1. \A c \in AllChallenges : c.challenge \in Nat
  BY ChallengeType
<1>2. /\ f.body \in Bodies /\ f.signed \in BOOLEAN /\ f.valid \in BOOLEAN
      /\ f.stamp \in SenderTimes \cup {0}
      /\ f.challenge \in {c.challenge : c \in AllChallenges} \cup {0}
  BY DEF AllFrames
<1>3. Bodies \subseteq Seq(TLVs) /\ SenderTimes \cup {0} \subseteq Int
  BY BeaconNetAssumption, ChallengeType
<1> QED
  BY <1>1, <1>2, <1>3

(* What goes out of a buffer is a frame that a receiver can get.           *)
LEMMA WireType ==
  ASSUME NEW f \in Buffers, body \in Bodies, AnswersAChallenge(f, now)
  PROVE  /\ Wire(f) \in AllFrames /\ Wire(f).body = body
         /\ Wire(f).signed => NotAfter(Wire(f).stamp, now)
<1>1. S!Verifies(f) \in BOOLEAN
  BY DEF S!Verifies
<1>2. CASE f.dhost = Broadcast
  BY <1>2 DEF Wire, AllFrames
<1>3. CASE f.dhost # Broadcast
  <2> DEFINE v == S!Verifies(f)
  <2>1. v \in BOOLEAN
    BY <1>1
  <2>2. Wire(f) = [src |-> server, body |-> body, signed |-> TRUE,
                   challenge |-> f.challenge, stamp |-> f.timeStamp, valid |-> v]
    BY <1>3 DEF Wire
  <2> HIDE DEF v
  <2> QED
    BY <1>3, <2>1, <2>2 DEF AnswersAChallenge, AllFrames
<1> QED
  BY <1>2, <1>3

-----------------------------------------------------------------------------
(* The sender's operations on the buffer.                                  *)
LEMMA OverwriteType ==
  ASSUME NEW f \in Buffers, NEW at \in Int
  PROVE  S!Overwrite(f, at) \in Int
BY DEF S!Overwrite, Buffers

LEMMA SignType ==
  ASSUME NEW f \in Buffers, NEW len \in Int, NEW at \in Int
  PROVE  /\ S!Sign(f, len, at) \in Buffers
         /\ S!Sign(f, len, at).dhost = f.dhost
         /\ S!Sign(f, len, at).length = f.length
         /\ S!Sign(f, len, at).challenge = f.challenge
         /\ S!Sign(f, len, at).timeStamp = f.timeStamp
<1>1. S!View(f) \in S!Views
  BY DEF S!View, S!Views, S!Stamps, Buffers
<1> QED
  BY <1>1 DEF S!Sign, Buffers

LEMMA ForInterfaceType ==
  ASSUME NEW f \in Buffers
  PROVE  /\ S!ForInterface(f, 1) \in Buffers
         /\ S!ForInterface(f, 1).dhost = f.dhost
         /\ S!ForInterface(f, 1).length = f.length
         /\ S!ForInterface(f, 1).challenge = f.challenge
         /\ S!ForInterface(f, 1).timeStamp = f.timeStamp
<1> DEFINE g == [f EXCEPT !.shost = 1]
           len == PayloadLen - 2 + 2 + 4 + 4 + 4
           at == g.length - 2 - S!SignatureTLVLen + 4 + 4
<1>1. /\ g \in Buffers /\ g.dhost = f.dhost /\ g.length = f.length
      /\ g.challenge = f.challenge /\ g.timeStamp = f.timeStamp
  BY DEF Buffers
<1>2. len \in Int /\ at \in Int
  <2> HIDE DEF g
  <2>1. g.length \in Int
    BY <1>1 DEF Buffers
  <2>2. PayloadLen \in Int
    BY BeaconNetAssumption
  <2> QED
    BY <2>1, <2>2 DEF S!SignatureTLVLen
<1>3. S!ForInterface(f, 1) = IF sChallenge # 0 THEN S!Sign(g, len, at) ELSE g
  BY DEF S!ForInterface
<1> HIDE DEF g, len, at
<1> QED
  BY <1>1, <1>2, <1>3, SignType

(* Room for the signature TLV, or not.                                     *)
HasRoom(f) == ~(1500 < S!SignatureTLVLen + (f.length - 2) + 6)

LEMMA AnswerType ==
  ASSUME NEW f \in Buffers, NEW c \in AllChallenges, NEW t \in SenderTimes
  PROVE  /\ S!Answer(f, c.challenge, c.src, t) \in Buffers
         /\ S!Answer(f, c.challenge, c.src, t).dhost = c.src
         /\ S!Answer(f, c.challenge, c.src, t).challenge = c.challenge
         /\ S!Answer(f, c.challenge, c.src, t).timeStamp = t
         /\ HasRoom(f) =>
              S!Answer(f, c.challenge, c.src, t).length = f.length + 270
<1> DEFINE u == [f EXCEPT !.dhost = c.src, !.length = f.length - 2]
           p == S!TransferSignature(u)
           g == S!PutFields(p, c.challenge, t)
           len == PayloadLen + 4 + 4 + 4
           at == g.length - S!SignatureTLVLen + 4 + 4
           s == S!Sign(g, len, at)
           e == S!PutEnd(s, s.length)
           a == [e EXCEPT !.length = s.length + 2]
<1>1. c.challenge \in Nat /\ c.src \in Macs /\ t \in SenderTimes \cup {0}
  BY ChallengeType
<1>2. u \in Buffers /\ u.dhost = c.src /\ u.length = f.length - 2
  <2> DEFINE n == f.length - 2
  <2>1. n \in Int
    BY DEF Buffers
  <2>2. u = [f EXCEPT !.dhost = c.src, !.length = n]
    OBVIOUS
  <2> HIDE DEF n, u
  <2>3. u \in Buffers /\ u.dhost = c.src /\ u.length = n
    BY <1>1, <2>1, <2>2 DEF Buffers
  <2> QED
    BY <2>3 DEF n
<1> HIDE DEF u
<1>3. /\ p \in Buffers /\ p.dhost = c.src
      /\ HasRoom(f) => p.length = f.length + 268
  <2>1. S!Overwrite(u, u.length) \in Int /\ u.length \in Int
    BY <1>2, OverwriteType DEF Buffers
  <2>2. CASE 1500 < S!SignatureTLVLen + u.length + 6
    BY <1>2, <2>2 DEF S!TransferSignature, HasRoom
  <2>3. CASE ~(1500 < S!SignatureTLVLen + u.length + 6)
    <3> DEFINE o == S!Overwrite(u, u.length)
               m == u.length
               n == m + 6 + S!SignatureTLVLen
    <3>1. p = [u EXCEPT !.tlv = m, !.content = o, !.length = n]
      BY <2>3 DEF S!TransferSignature
    <3>2. o \in Int /\ m \in Int /\ n \in Int /\ n = f.length + 268
      <4>1. f.length \in Int
        BY DEF Buffers
      <4> QED
        BY <1>2, <2>1, <4>1 DEF S!SignatureTLVLen
    <3> HIDE DEF o, m, n, p
    <3>3. p \in Buffers
      <4>1. [u EXCEPT !.tlv = m, !.content = o] \in Buffers
        BY <1>2, <3>2 DEF Buffers
      <4>2. p = [[u EXCEPT !.tlv = m, !.content = o] EXCEPT !.length = n]
        BY <3>1, Zenon
      <4>3. n \in Int
        BY <3>2
      <4> QED
        BY <4>1, <4>2, <4>3 DEF Buffers
    <3>4. p.dhost = u.dhost /\ p.length = n
      BY <1>2, <3>1 DEF Buffers
    <3> QED
      BY <1>2, <3>2, <3>3, <3>4
  <2> QED
    BY <2>2, <2>3
<1> HIDE DEF p
<1>4. /\ g \in Buffers /\ g.dhost = c.src /\ g.challenge = c.challenge
      /\ g.timeStamp = t /\ g.length = p.length
  <2> DEFINE q == p.length - S!SignatureTLVLen
  <2>1. q \in Int
    BY <1>3 DEF S!SignatureTLVLen, Buffers
  <2> DEFINE o == S!Overwrite(p, q)
  <2>2. o \in Int
    BY <1>3, <2>1, OverwriteType
  <2>3. g = [p EXCEPT !.fields = q, !.content = o, !.challenge = c.challenge,
                      !.timeStamp = t]
    BY DEF S!PutFields
  <2> HIDE DEF q, o, g
  <2>4. [p EXCEPT !.fields = q, !.content = o] \in Buffers
    BY <1>3, <2>1, <2>2 DEF Buffers
  <2>5. g = [[p EXCEPT !.fields = q, !.content = o]
               EXCEPT !.challenge = c.challenge, !.timeStamp = t]
    BY <2>3, Zenon
  <2>6. g \in Buffers
    BY <1>1, <2>4, <2>5 DEF Buffers
  <2> QED
    BY <1>3, <2>3, <2>6 DEF Buffers
<1> HIDE DEF g
<1>5. len \in Int /\ at \in Int
  <2>1. g.length \in Int /\ PayloadLen \in Int
    BY <1>4, BeaconNetAssumption DEF Buffers
  <2> QED
    BY <2>1 DEF S!SignatureTLVLen
<1> HIDE DEF len, at
<1>6. /\ s \in Buffers /\ s.dhost = c.src /\ s.challenge = c.challenge
      /\ s.timeStamp = t /\ s.length = p.length
  BY <1>4, <1>5, SignType
<1> HIDE DEF s
<1>7. /\ e \in Buffers /\ e.dhost = c.src /\ e.challenge = c.challenge
      /\ e.timeStamp = t
  <2> DEFINE o == S!Overwrite(s, s.length)
  <2>1. o \in Int /\ s.length \in Int
    BY <1>6, OverwriteType DEF Buffers
  <2>2. e = [s EXCEPT !.end = s.length, !.content = o]
    BY DEF S!PutEnd
  <2> HIDE DEF o
  <2> QED
    BY <1>6, <2>1, <2>2 DEF Buffers
<1> HIDE DEF e
<1>8. /\ a \in Buffers /\ a.dhost = c.src /\ a.challenge = c.challenge
      /\ a.timeStamp = t /\ a.length = p.length + 2
  BY <1>6, <1>7 DEF Buffers
<1>9. HasRoom(f) => a.length = f.length + 270
  BY <1>3, <1>8 DEF Buffers
<1>10. S!Answer(f, c.challenge, c.src, t) = a
  BY DEF S!Answer, a, e, s, len, at, g, p, u
<1> QED
  BY <1>8, <1>9, <1>10

LEMMA UnanswerType ==
  ASSUME NEW f \in Buffers
  PROVE  /\ S!Unanswer(f) \in Buffers
         /\ S!Unanswer(f).dhost = Broadcast
         /\ S!Unanswer(f).length = f.length - 270
<1> DEFINE g == [f EXCEPT !.dhost = Broadcast, !.length = f.length - 270]
           n == g.length - 2
           o == S!Overwrite(g, n)
<1>1. g \in Buffers /\ g.dhost = Broadcast /\ g.length = f.length - 270
  <2> DEFINE m == f.length - 270
  <2>1. m \in Int
    BY DEF Buffers
  <2>2. g = [f EXCEPT !.dhost = Broadcast, !.length = m]
    OBVIOUS
  <2> HIDE DEF m, g, n, o
  <2>3. g \in Buffers /\ g.dhost = Broadcast /\ g.length = m
    BY <2>1, <2>2 DEF Buffers
  <2> QED
    BY <2>3 DEF m
<1>2. n \in Int
  BY <1>1 DEF Buffers
<1>3. S!Unanswer(f) = [g EXCEPT !.end = n, !.content = o]
  BY DEF S!Unanswer, S!PutEnd
<1>4. o \in Int
  BY <1>1, <1>2, OverwriteType
<1> HIDE DEF g, n, o
<1> QED
  BY <1>1, <1>2, <1>3, <1>4 DEF Buffers

-----------------------------------------------------------------------------
(* The clock and the history of what was announced.                        *)
LEMMA ClockStep ==
  ASSUME ClockInv, [Next]_vars
  PROVE  /\ ClockInv' /\ now <= now'
         /\ \A b \in Bodies : announced[b] <= announced'[b]
<1>1. /\ now \in Nat /\ Times \subseteq Nat /\ announced \in [Bodies -> Int]
      /\ -R!FreshFor \in Int
  <2>1. Times \subseteq Nat /\ -R!FreshFor \in Int
    BY BeaconNetAssumption DEF R!FreshFor
  <2>2. Times \cup {-R!FreshFor} \subseteq Int
    BY <2>1 DEF R!FreshFor
  <2>3. now \in Times /\ announced \in [Bodies -> Times \cup {-R!FreshFor}]
    BY DEF ClockInv
  <2> QED
    BY <2>1, <2>2, <2>3
<1>2. CASE UNCHANGED <<body, announced, now>>
  BY <1>1, <1>2 DEF ClockInv
<1>3. CASE Restart
  <2>1. body' \in Bodies /\ announced' = [announced EXCEPT ![body'] = now] /\ now' = now
    BY <1>3 DEF Restart, receiverVars
  <2> QED
    BY <1>1, <2>1 DEF ClockInv
<1>4. CASE Tick
  <2>1. /\ announced' = [announced EXCEPT ![body] = now'] /\ body' = body
        /\ now' \in Times /\ now' > now
    BY <1>4 DEF Tick, R!Tick
  <2> QED
    BY <1>1, <2>1 DEF ClockInv
<1>5. CASE R!ReceiverStep /\ UNCHANGED <<body, announced>>
  <2>1. now' = now
    BY <1>5 DEF R!ReceiverStep, R!SelectReady, R!SelectNothing, R!Recv, R!Store, R!Show,
      R!PrintDone
  <2> QED
    BY <1>2, <1>5, <2>1
<1>6. CASE SenderStep
  BY <1>2, <1>6 DEF SenderStep, Transmit, TransmitLost, SenderInternal, R!Arrives,
    receiverVars
<1>7. CASE OtherChallenge
  BY <1>2, <1>7 DEF OtherChallenge, receiverVars
<1>8. CASE UNCHANGED vars
  BY <1>2, <1>8 DEF vars, receiverVars
<1> QED
  BY <1>3, <1>4, <1>5, <1>6, <1>7, <1>8
  DEF Next, ListenerStep, Listen, SendChallenge, ChallengeLost

-----------------------------------------------------------------------------
(* The sender.                                                             *)
LEMMA InitialFrameType ==
  S!InitialFrame \in Buffers /\ S!InitialFrame.dhost = Broadcast
<1> DEFINE n == S!HeaderLen + PayloadLen
           e == S!ContentEnd
<1>1. n \in Int /\ e \in Int
  BY BeaconNetAssumption DEF S!HeaderLen, S!ContentEnd
<1>2. S!InitialFrame =
        [dhost |-> Broadcast, shost |-> 0, length |-> n, content |-> e, end |-> e,
         tlv |-> 0, fields |-> 0, challenge |-> 0, timeStamp |-> 0, sigAt |-> 0,
         sigLen |-> 0,
         sigOver |-> [shost |-> 0, content |-> 0, tlv |-> 0, fields |-> 0,
                      challenge |-> 0, timeStamp |-> 0]]
  BY DEF S!InitialFrame
<1> HIDE DEF n, e
<1>3. [shost |-> 0, content |-> 0, tlv |-> 0, fields |-> 0,
       challenge |-> 0, timeStamp |-> 0] \in S!Views
  BY DEF S!Views, S!Stamps
<1> QED
  BY <1>1, <1>2, <1>3 DEF Buffers

(* Challenges arrive from the set of all challenges.                       *)
LEMMA ChallengeArrivesType ==
  ASSUME SenderInv, NEW c \in AllChallenges, NEW H \in Heard, S!ChallengeArrives(c, H)
  PROVE  challengeQ' \in [S!Sockets -> Seq(AllChallenges)]
BY DEF SenderInv, S!ChallengeArrives

(* What the sender's clock can have shown by then it can have shown later. *)
LEMMA NotAfterLater ==
  ASSUME NEW x \in Int, NEW t \in Int, NEW u \in Int, t <= u, NotAfter(x, t)
  PROVE  NotAfter(x, u)
<1>1. PICK d \in Skews : x <= t + d
  BY DEF NotAfter
<1>2. d \in Int
  BY BeaconNetAssumption
<1>3. x <= u + d
  BY <1>1, <1>2
<1> QED
  BY <1>3 DEF NotAfter

LEMMA AnswersLater ==
  ASSUME NEW f, NEW t \in Times, NEW u \in Times, t <= u, AnswersAChallenge(f, t)
  PROVE  AnswersAChallenge(f, u)
<1>1. t \in Int /\ u \in Int /\ SenderTimes \subseteq Int
  BY BeaconNetAssumption, ChallengeType
<1>2. ASSUME f.timeStamp \in SenderTimes, NotAfter(f.timeStamp, t)
      PROVE  NotAfter(f.timeStamp, u)
  BY <1>1, <1>2, NotAfterLater
<1> QED
  BY <1>2 DEF AnswersAChallenge

(* The sender's own steps.                                                 *)
LEMMA SenderOwnStep ==
  ASSUME ClockInv, SenderInv,
         \/ S!Transmit \/ S!EndBurst \/ S!Timeout
         \/ \E i \in S!Sockets, d \in Skews : S!Receive(i, now + d)
  PROVE  /\ sPc' \in {"send", "receive", "exited"} /\ sJ' \in 0..1
         /\ sChallenge' \in Nat /\ sFrame' \in Buffers
         /\ challengeQ' \in [S!Sockets -> Seq(AllChallenges)]
         /\ AnswersAChallenge(sFrame', now)
<1>1. /\ sPc \in {"send", "receive", "exited"} /\ sJ \in 0..1
      /\ sChallenge \in Nat /\ sFrame \in Buffers
      /\ challengeQ \in [S!Sockets -> Seq(AllChallenges)]
      /\ AnswersAChallenge(sFrame, now) /\ now \in Times
  BY DEF SenderInv, ClockInv
<1>2. CASE S!Transmit
  <2>1. /\ sJ = 0 /\ sPc = "send"
        /\ sChallenge' = sChallenge /\ challengeQ' = challengeQ
        /\ \/ sFrame' = S!ForInterface(sFrame, 1) /\ sJ' = 1 /\ sPc' = sPc
           \/ sPc' = "exited" /\ sJ' = sJ /\ sFrame' = sFrame
    BY <1>1, <1>2 DEF S!Transmit
  <2>2. sFrame' \in Buffers /\ AnswersAChallenge(sFrame', now)
    BY <1>1, <2>1, ForInterfaceType DEF AnswersAChallenge
  <2> QED
    BY <1>1, <2>1, <2>2
<1>3. CASE S!EndBurst
  <2>1. /\ sFrame' = IF sChallenge # 0 THEN S!Unanswer(sFrame) ELSE sFrame
        /\ sChallenge' = 0 /\ sPc' = "receive" /\ sJ' = sJ /\ challengeQ' = challengeQ
    BY <1>3 DEF S!EndBurst
  <2>2. sFrame' \in Buffers /\ AnswersAChallenge(sFrame', now)
    BY <1>1, <2>1, UnanswerType DEF AnswersAChallenge
  <2> QED
    BY <1>1, <2>1, <2>2
<1>4. CASE S!Timeout
  BY <1>1, <1>4 DEF S!Timeout
<1>5. ASSUME NEW i \in S!Sockets, NEW d \in Skews, S!Receive(i, now + d)
      PROVE  /\ sPc' \in {"send", "receive", "exited"} /\ sJ' \in 0..1
             /\ sChallenge' \in Nat /\ sFrame' \in Buffers
             /\ challengeQ' \in [S!Sockets -> Seq(AllChallenges)]
             /\ AnswersAChallenge(sFrame', now)
  <2> DEFINE c == Head(challengeQ[i])
  <2>1. challengeQ[i] \in Seq(AllChallenges) /\ challengeQ[i] # <<>>
    BY <1>1, <1>5 DEF S!Receive, S!Ready
  <2>2. c \in AllChallenges /\ Tail(challengeQ[i]) \in Seq(AllChallenges)
    BY <2>1, HeadTailProperties
  <2>3. /\ challengeQ' = [challengeQ EXCEPT ![i] = Tail(challengeQ[i])]
        /\ sChallenge' = c.challenge
        /\ \/ sPc' = "send" /\ sJ' = 0 /\ sFrame' = sFrame
           \/ /\ sPc' = "send" /\ sJ' = 0
              /\ sFrame' = S!Answer(sFrame, c.challenge, c.src, now + d)
           \/ sPc' = "exited" /\ sJ' = sJ /\ sFrame' = sFrame
    BY <1>5 DEF S!Receive
  <2> HIDE DEF c
  <2>4. c.challenge \in Nat /\ c.src \in Macs
    BY <2>2, ChallengeType
  <2>5. challengeQ' \in [S!Sockets -> Seq(AllChallenges)]
    BY <1>1, <2>2, <2>3
  <2>6. CASE sFrame' = S!Answer(sFrame, c.challenge, c.src, now + d)
    <3>0. now + d \in SenderTimes /\ now + d \in Int
      BY <1>1, ChallengeType DEF SenderTimes
    <3>1. /\ sFrame' \in Buffers /\ sFrame'.challenge = c.challenge
          /\ sFrame'.timeStamp = now + d
      BY <1>1, <2>2, <2>6, <3>0, AnswerType
    <3>2. NotAfter(now + d, now)
      BY <3>0 DEF NotAfter
    <3>3. AnswersAChallenge(sFrame', now)
      BY <1>1, <2>2, <3>0, <3>1, <3>2 DEF AnswersAChallenge
    <3> QED
      BY <1>1, <2>3, <2>4, <2>5, <3>1, <3>3
  <2>7. CASE sFrame' = sFrame
    BY <1>1, <2>3, <2>4, <2>5, <2>7
  <2> QED
    BY <2>3, <2>6, <2>7
<1> QED
  BY <1>2, <1>3, <1>4, <1>5

(* The challenge that is sent is the one drawn at this second.             *)
LEMMA SentChallenge ==
  ASSUME R!ReceiverStep, pc = "recv", pc' = "challenge"
  PROVE  pending'[1].challenge = Rand[now]
<1>1. PICK i \in R!Sockets : R!Recv(i)
  BY DEF R!ReceiverStep, R!SelectReady, R!SelectNothing, R!Store, R!Show, R!PrintDone
<1>2. PICK f : R!AddChallenged(f)
  BY <1>1 DEF R!Recv, R!AfterRead
<1> QED
  BY <1>2 DEF R!AddChallenged

LEMMA SenderInvStep ==
  ASSUME ClockInv, SenderInv, [Next]_vars
  PROVE  SenderInv'
<1>1. /\ now \in Times /\ now' \in Times /\ now <= now'
  BY ClockStep DEF ClockInv
<1>2. ASSUME sFrame' = sFrame PROVE AnswersAChallenge(sFrame', now')
  BY <1>1, <1>2, AnswersLater DEF SenderInv
<1>3. CASE UNCHANGED senderVars
  BY <1>2, <1>3 DEF SenderInv, senderVars
<1>4. CASE SenderStep
  <2>1. \/ S!Transmit \/ S!EndBurst \/ S!Timeout
        \/ \E i \in S!Sockets, d \in Skews : S!Receive(i, now + d)
    BY <1>4 DEF SenderStep, Transmit, TransmitLost, SenderInternal
  <2>2. /\ sPc' \in {"send", "receive", "exited"} /\ sJ' \in 0..1
        /\ sChallenge' \in Nat /\ sFrame' \in Buffers
        /\ challengeQ' \in [S!Sockets -> Seq(AllChallenges)]
        /\ AnswersAChallenge(sFrame', now)
    BY <2>1, SenderOwnStep
  <2> QED
    BY <1>1, <2>2, AnswersLater DEF SenderInv
<1>5. CASE OtherChallenge
  <2>1. PICK c \in OtherChallenges, H \in Heard : S!ChallengeArrives(Challenge(c, other), H)
    BY <1>5 DEF OtherChallenge
  <2>2. Challenge(c, other) \in AllChallenges
    BY DEF AllChallenges
  <2>3. challengeQ' \in [S!Sockets -> Seq(AllChallenges)]
    BY <2>1, <2>2, ChallengeArrivesType
  <2>4. UNCHANGED <<sPc, sJ, sChallenge, sFrame>>
    BY <2>1 DEF S!ChallengeArrives
  <2> QED
    BY <1>2, <2>3, <2>4 DEF SenderInv
<1>6. CASE Restart
  <2>1. \A i \in S!Sockets : <<>> \in Seq(AllChallenges)
    OBVIOUS
  <2>2. /\ sPc' = "send" /\ sJ' = 0 /\ sChallenge' = 0 /\ sFrame' = S!InitialFrame
        /\ challengeQ' \in [S!Sockets -> Seq(AllChallenges)]
    BY <1>6, <2>1 DEF Restart
  <2>3. AnswersAChallenge(sFrame', now')
    BY <2>2, InitialFrameType DEF AnswersAChallenge
  <2> QED
    BY <2>2, <2>3, InitialFrameType DEF SenderInv
<1>7. CASE SendChallenge
  <2>1. PICK H \in Heard :
          S!ChallengeArrives(Challenge(pending'[1].challenge, listener), H)
    BY <1>7 DEF SendChallenge
  <2>2. Challenge(pending'[1].challenge, listener) \in AllChallenges
    BY <1>1, <1>7, SentChallenge DEF SendChallenge, AllChallenges
  <2>3. challengeQ' \in [S!Sockets -> Seq(AllChallenges)]
    BY <2>1, <2>2, ChallengeArrivesType
  <2>4. UNCHANGED <<sPc, sJ, sChallenge, sFrame>>
    BY <2>1 DEF S!ChallengeArrives
  <2> QED
    BY <1>2, <2>3, <2>4 DEF SenderInv
<1> QED
  BY <1>3, <1>4, <1>5, <1>6, <1>7
  DEF Next, ListenerStep, Listen, ChallengeLost, Tick, vars

-----------------------------------------------------------------------------
(* The receiver.  A step makes nothing authenticated but what was already, *)
(* or what its sender announced less than ten seconds ago.                 *)
Recent(b) == \E s \in Skews : now < announced[b] + R!FreshFor + s

Justified(e) ==
  \/ ~e.auth
  \/ \E d \in Held : d.auth /\ d.frame = e.frame
  \/ Recent(e.frame.body)

LEMMA HeldJustified ==
  ASSUME NEW e \in Held, NEW g, g.frame = e.frame, g.auth = e.auth
  PROVE  Justified(g)
BY DEF Justified

(* Why: evaluatelanbeacon compares the signed timestamp with the clock.    *)
LEMMA AuthenticatesRecent ==
  ASSUME ClockInv, NEW f \in AllFrames, Announced(f), NEW c, NEW r,
         R!Authenticates(f, c, r)
  PROVE  Recent(f.body)
<1>1. f.signed /\ now - f.stamp < R!FreshFor /\ NotAfter(f.stamp, announced[f.body])
  BY DEF R!Authenticates, Announced
<1>2. f.stamp \in Int /\ f.body \in Bodies
  BY FrameType
<1>3. now \in Nat /\ announced[f.body] \in Int
  <2>1. now \in Times /\ announced[f.body] \in Times \cup {-R!FreshFor}
    BY <1>2 DEF ClockInv
  <2> QED
    BY <2>1, BeaconNetAssumption DEF R!FreshFor
<1>4. PICK d \in Skews : f.stamp <= announced[f.body] + d
  BY <1>1 DEF NotAfter
<1>5. d \in Int
  BY BeaconNetAssumption
<1>6. now < announced[f.body] + R!FreshFor + d
  BY <1>1, <1>2, <1>3, <1>4, <1>5 DEF R!FreshFor
<1> QED
  BY <1>6 DEF Recent

LEMMA EntryMade ==
  ASSUME NEW f \in AllFrames, NEW c \in Nat, NEW a \in BOOLEAN
  PROVE  [frame |-> f, challenge |-> c, auth |-> a, times |-> R!ShowFramesXTimes]
           \in R!Entries
<1>1. R!ShowFramesXTimes \in 1..R!ShowFramesXTimes
  BY DEF R!ShowFramesXTimes
<1> QED
  BY <1>1 DEF R!Entries

LEMMA EvaluationTyped ==
  ASSUME NEW f \in AllFrames, fds \in 0..FdLimit, NEW v \in R!Evaluations(f)
  PROVE  v.keyRead \in BOOLEAN /\ v.fds \in 0..FdLimit
<1>1. CASE f.signed /\ fds < FdLimit
  <2>1. v \in [keyRead : {TRUE}, fds : {fds, fds + 1}]
    BY <1>1 DEF R!Evaluations
  <2>2. fds + 1 \in 0..FdLimit
    BY <1>1, BeaconNetAssumption
  <2> QED
    BY <2>1, <2>2
<1>2. CASE ~(f.signed /\ fds < FdLimit)
  <2>1. v = [keyRead |-> FALSE, fds |-> fds]
    BY <1>2 DEF R!Evaluations
  <2>2. v.keyRead = FALSE /\ v.fds = fds
    BY <2>1
  <2> QED
    BY <2>2
<1> QED
  BY <1>1, <1>2

LEMMA AuthenticatesType ==
  ASSUME NEW f \in AllFrames, NEW c, NEW r \in BOOLEAN
  PROVE  R!Authenticates(f, c, r) \in BOOLEAN
BY DEF R!Authenticates

(* What a replacement, an addition and a removal do to a list of entries.  *)
LEMMA EntryReplaced ==
  ASSUME NEW s \in Seq(R!Entries), NEW e \in R!Entries, NEW k \in 1..Len(s)
  PROVE  /\ [s EXCEPT ![k] = e] \in Seq(R!Entries)
         /\ Len([s EXCEPT ![k] = e]) = Len(s)
         /\ \A l \in 1..Len(s) : [s EXCEPT ![k] = e][l] = IF l = k THEN e ELSE s[l]
OBVIOUS

LEMMA EntryAppended ==
  ASSUME NEW s \in Seq(R!Entries), NEW e \in R!Entries
  PROVE  /\ Append(s, e) \in Seq(R!Entries)
         /\ \A l \in 1..Len(Append(s, e)) :
              \/ l \in 1..Len(s) /\ Append(s, e)[l] = s[l]
              \/ Append(s, e)[l] = e
OBVIOUS

LEMMA EntryRemoved ==
  ASSUME NEW s \in Seq(R!Entries), NEW i \in 1..Len(s)
  PROVE  /\ R!RemoveAt(s, i) \in Seq(R!Entries)
         /\ \A l \in 1..Len(R!RemoveAt(s, i)) :
              \E k \in 1..Len(s) : R!RemoveAt(s, i)[l] = s[k]
<1>1. Len(s) - 1 \in Nat
  OBVIOUS
<1>2. \A k \in 1..(Len(s) - 1) : (IF k < i THEN s[k] ELSE s[k + 1]) \in R!Entries
  OBVIOUS
<1>3. R!RemoveAt(s, i) \in [1..(Len(s) - 1) -> R!Entries]
  BY <1>2 DEF R!RemoveAt
<1>4. Len(R!RemoveAt(s, i)) = Len(s) - 1
  BY <1>1, <1>3
<1>5. ASSUME NEW l \in 1..(Len(s) - 1)
      PROVE  \E k \in 1..Len(s) : R!RemoveAt(s, i)[l] = s[k]
  <2>1. l \in 1..Len(s) /\ l + 1 \in 1..Len(s)
    OBVIOUS
  <2>2. R!RemoveAt(s, i)[l] = IF l < i THEN s[l] ELSE s[l + 1]
    BY DEF R!RemoveAt
  <2> QED
    BY <2>1, <2>2
<1> QED
  BY <1>1, <1>3, <1>4, <1>5

-----------------------------------------------------------------------------
(* What a frame taken from a socket does to the stored frames: it matches  *)
(* entry k first, or it is new.                                            *)
LEMMA MatchJustified ==
  ASSUME ClockInv, R!TypeOK, NEW f \in AllFrames, Announced(f),
         NEW k \in R!Matching(f),
         R!KeepShowing(f, k) \/ R!AwaitAnswer(f, k) \/ R!Replace(f, k)
  PROVE  /\ frames' \in Seq(R!Entries) /\ pending' = pending /\ fds' \in 0..FdLimit
         /\ \A l \in 1..Len(frames') : Justified(frames'[l])
<1>1. frames \in Seq(R!Entries) /\ fds \in 0..FdLimit
  BY DEF R!TypeOK
<1>2. k \in 1..Len(frames) /\ frames[k] \in R!Entries
  BY <1>1 DEF R!Matching
<1>3. \A l \in 1..Len(frames) : Justified(frames[l])
  BY HeldJustified DEF Held
<1>4. CASE R!KeepShowing(f, k)
  <2> DEFINE e == [frames[k] EXCEPT !.times = R!ShowFramesXTimes]
  <2>1. frames' = [frames EXCEPT ![k] = e] /\ UNCHANGED <<pending, fds>>
    BY <1>4 DEF R!KeepShowing
  <2>2. R!ShowFramesXTimes \in 1..R!ShowFramesXTimes
    BY DEF R!ShowFramesXTimes
  <2>3. e \in R!Entries /\ e.frame = frames[k].frame /\ e.auth = frames[k].auth
    BY <1>2, <2>2 DEF R!Entries
  <2> HIDE DEF e
  <2>4. frames[k] \in Held
    BY <1>2 DEF Held
  <2>5. Justified(e)
    BY <2>3, <2>4, HeldJustified
  <2> QED
    BY <1>1, <1>2, <1>3, <2>1, <2>3, <2>5, EntryReplaced
<1>5. CASE R!AwaitAnswer(f, k)
  BY <1>1, <1>3, <1>5 DEF R!AwaitAnswer
<1>6. CASE R!Replace(f, k)
  <2>1. PICK v \in R!Evaluations(f) :
          /\ frames' = [frames EXCEPT ![k] =
               [frame |-> f, challenge |-> frames[k].challenge,
                auth |-> frames[k].auth \/ R!Authenticates(f, frames[k].challenge, v.keyRead),
                times |-> R!ShowFramesXTimes]]
          /\ fds' = v.fds
    BY <1>6 DEF R!Replace
  <2> DEFINE b == R!Authenticates(f, frames[k].challenge, v.keyRead)
             a == frames[k].auth \/ b
             e == [frame |-> f, challenge |-> frames[k].challenge, auth |-> a,
                   times |-> R!ShowFramesXTimes]
  <2>2. frames[k].challenge \in Nat /\ frames[k].auth = FALSE
    BY <1>2, <1>6 DEF R!Entries, R!Replace
  <2>3. b \in BOOLEAN /\ v.fds \in 0..FdLimit
    BY <1>1, AuthenticatesType, EvaluationTyped
  <2>4. b => Recent(f.body)
    BY AuthenticatesRecent
  <2>5. frames' = [frames EXCEPT ![k] = e]
    BY <2>1
  <2> HIDE DEF b
  <2>6. a \in BOOLEAN /\ a = b
    BY <2>2, <2>3
  <2> HIDE DEF a
  <2>7. e \in R!Entries /\ e.frame = f /\ e.auth = a
    BY <2>2, <2>6, EntryMade
  <2> HIDE DEF e
  <2>8. Justified(e)
    BY <2>4, <2>6, <2>7 DEF Justified
  <2>9. pending' = pending /\ fds' \in 0..FdLimit
    BY <1>6, <2>1, <2>3 DEF R!Replace
  <2> QED
    BY <1>1, <1>2, <1>3, <2>5, <2>7, <2>8, <2>9, EntryReplaced
<1> QED
  BY <1>4, <1>5, <1>6

LEMMA NewFrameJustified ==
  ASSUME ClockInv, R!TypeOK, NEW f \in AllFrames, Announced(f), pending = <<>>,
         R!AddPlain(f) \/ R!AddChallenged(f)
  PROVE  /\ frames' \in Seq(R!Entries) /\ fds' \in 0..FdLimit
         /\ \A l \in 1..Len(frames') : Justified(frames'[l])
         /\ \/ R!AddPlain(f) /\ pending' = <<>>
            \/ \E e \in R!Entries : pending' = <<e>> /\ Justified(e)
<1>1. frames \in Seq(R!Entries) /\ fds \in 0..FdLimit /\ now \in Times
  BY DEF R!TypeOK
<1>2. \A l \in 1..Len(frames) : Justified(frames[l])
  BY HeldJustified DEF Held
<1>3. ASSUME NEW c, NEW d \in Nat, NEW r \in BOOLEAN
      PROVE  LET e == [frame |-> f, challenge |-> d, auth |-> R!Authenticates(f, c, r),
                       times |-> R!ShowFramesXTimes]
             IN  e \in R!Entries /\ Justified(e)
  <2> DEFINE a == R!Authenticates(f, c, r)
             e == [frame |-> f, challenge |-> d, auth |-> a, times |-> R!ShowFramesXTimes]
  <2>1. a \in BOOLEAN
    BY AuthenticatesType
  <2>2. a => Recent(f.body)
    BY AuthenticatesRecent
  <2> HIDE DEF a
  <2>3. e \in R!Entries /\ e.frame = f /\ e.auth = a
    BY <2>1, EntryMade
  <2> HIDE DEF e
  <2>4. Justified(e)
    BY <2>2, <2>3 DEF Justified
  <2> QED
    BY <2>3, <2>4 DEF e, a
<1>4. CASE R!AddPlain(f)
  <2>1. PICK c \in Garbage, v \in R!Evaluations(f) :
          /\ frames' = Append(frames, [frame |-> f, challenge |-> c,
               auth |-> R!Authenticates(f, c, v.keyRead), times |-> R!ShowFramesXTimes])
          /\ fds' = v.fds
    BY <1>4 DEF R!AddPlain
  <2>2. c \in Nat /\ v.keyRead \in BOOLEAN /\ v.fds \in 0..FdLimit
    BY <1>1, BeaconNetAssumption, EvaluationTyped
  <2>3. PICK e \in R!Entries : Justified(e) /\ frames' = Append(frames, e)
    BY <1>3, <2>1, <2>2
  <2>4. pending' = <<>> /\ fds' \in 0..FdLimit
    BY <1>4, <2>1, <2>2 DEF R!AddPlain
  <2> QED
    BY <1>1, <1>2, <1>4, <2>3, <2>4, EntryAppended
<1>5. CASE R!AddChallenged(f)
  <2>1. PICK c \in Garbage, v \in R!Evaluations(f) :
          /\ pending' = <<[frame |-> f, challenge |-> Rand[now],
               auth |-> R!Authenticates(f, c, v.keyRead), times |-> R!ShowFramesXTimes]>>
          /\ fds' = IF v.fds + NumSockets < FdLimit THEN v.fds + NumSockets ELSE FdLimit
    BY <1>5 DEF R!AddChallenged
  <2>2. Rand[now] \in Nat /\ v.keyRead \in BOOLEAN /\ v.fds \in 0..FdLimit
    BY <1>1, BeaconNetAssumption, EvaluationTyped
  <2>3. PICK e \in R!Entries : Justified(e) /\ pending' = <<e>>
    BY <1>3, <2>1, <2>2
  <2>4. fds' \in 0..FdLimit
    BY <2>1, <2>2, BeaconNetAssumption
  <2> QED
    BY <1>1, <1>2, <1>5, <2>3, <2>4 DEF R!AddChallenged
<1> QED
  BY <1>4, <1>5

-----------------------------------------------------------------------------
LEMMA UnchangedJustified ==
  ASSUME UNCHANGED <<frames, pending>>
  PROVE  \A e \in Held' : Justified(e)
BY HeldJustified DEF Held

(* What recvfrom leaves of the sockets.                                    *)
LEMMA RecvTakesHead ==
  ASSUME ReceiverInv, NEW i \in R!Sockets, R!Recv(i), announced' = announced
  PROVE  /\ Head(sockQ[i]) \in AllFrames /\ Announced(Head(sockQ[i]))
         /\ sockQ' \in [R!Sockets -> Seq(AllFrames)]
         /\ ready' \subseteq R!Watched
         /\ \A l \in ready' : sockQ'[l] # <<>>
         /\ \A l \in R!Sockets : \A k \in 1..Len(sockQ'[l]) : Announced(sockQ[l][k])'
         /\ pc = "recv" /\ pending = <<>>
         /\ UNCHANGED <<authMode, cur, now>>
<1>1. /\ sockQ' = [sockQ EXCEPT ![i] = Tail(sockQ[i])]
      /\ ready' = ready \ {i} /\ i \in ready /\ pc = "recv"
      /\ UNCHANGED <<authMode, cur, now>>
  BY DEF R!Recv
<1>2. /\ sockQ \in [R!Sockets -> Seq(AllFrames)] /\ ready \subseteq R!Watched
      /\ pending = <<>>
  BY <1>1 DEF ReceiverInv, R!TypeOK
<1>3. sockQ[i] \in Seq(AllFrames) /\ sockQ[i] # <<>>
  BY <1>1, <1>2 DEF ReceiverInv, R!Watched
<1>4. Head(sockQ[i]) \in AllFrames /\ Tail(sockQ[i]) \in Seq(AllFrames)
  BY <1>3, HeadTailProperties
<1>5. sockQ' \in [R!Sockets -> Seq(AllFrames)]
  BY <1>1, <1>2, <1>4
<1>6. \A l \in ready' : sockQ'[l] # <<>>
  BY <1>1, <1>2 DEF ReceiverInv, R!Watched, R!Sockets
<1>7. Announced(Head(sockQ[i]))
  <2>1. 1 \in 1..Len(sockQ[i]) /\ Head(sockQ[i]) = sockQ[i][1]
    BY <1>3
  <2> QED
    BY <2>1 DEF ReceiverInv
<1>8. ASSUME NEW l \in R!Sockets, NEW k \in 1..Len(sockQ'[l])
      PROVE  Announced(sockQ[l][k])'
  <2>1. PICK n \in 1..Len(sockQ[l]) : sockQ'[l][k] = sockQ[l][n]
    <3>1. CASE l = i
      <4>1. k + 1 \in 1..Len(sockQ[i]) /\ Tail(sockQ[i])[k] = sockQ[i][k + 1]
        BY <1>1, <1>2, <1>3, <1>8, <3>1
      <4> QED
        BY <1>1, <1>2, <3>1, <4>1
    <3>2. CASE l # i
      BY <1>1, <1>2, <1>8, <3>2
    <3> QED
      BY <3>1, <3>2
  <2>2. Announced(sockQ[l][n])
    BY DEF ReceiverInv
  <2> QED
    BY <2>1, <2>2 DEF Announced
<1> QED
  BY <1>1, <1>2, <1>4, <1>5, <1>6, <1>7, <1>8

LEMMA ReceiverStepInv ==
  ASSUME ClockInv, ReceiverInv, R!ReceiverStep, announced' = announced
  PROVE  ReceiverInv' /\ \A e \in Held' : Justified(e)
<1>1. /\ frames \in Seq(R!Entries) /\ fds \in 0..FdLimit
      /\ pending \in Seq(R!Entries) /\ Len(pending) <= 1
  BY DEF ReceiverInv, R!TypeOK
<1>2. ASSUME UNCHANGED sockQ
      PROVE  \A l \in R!Sockets : \A k \in 1..Len(sockQ'[l]) : Announced(sockQ[l][k])'
  BY <1>2 DEF ReceiverInv, Announced
<1>3. CASE R!SelectReady
  <2>1. /\ R!Readable \subseteq R!Watched /\ pending = <<>>
        /\ \A i \in R!Readable : sockQ[i] # <<>>
    BY <1>3 DEF R!SelectReady, R!Readable, ReceiverInv, R!TypeOK
  <2>2. R!TypeOK'
    BY <1>3, <2>1 DEF R!SelectReady, ReceiverInv, R!TypeOK, R!Entries, R!Watched
  <2> QED
    BY <1>2, <1>3, <2>1, <2>2, UnchangedJustified DEF R!SelectReady, ReceiverInv
<1>4. CASE R!SelectNothing
  <2>1. R!TypeOK'
    BY <1>4 DEF R!SelectNothing, ReceiverInv, R!TypeOK
  <2> QED
    BY <1>2, <1>4, <2>1, UnchangedJustified DEF R!SelectNothing, ReceiverInv
<1>5. CASE R!PrintDone
  <2>1. R!TypeOK'
    BY <1>5 DEF R!PrintDone, ReceiverInv, R!TypeOK
  <2> QED
    BY <1>2, <1>5, <2>1, UnchangedJustified DEF R!PrintDone, ReceiverInv
<1>6. ASSUME NEW i \in R!Sockets, R!Recv(i)
      PROVE  ReceiverInv' /\ \A e \in Held' : Justified(e)
  <2> DEFINE f == Head(sockQ[i])
  <2>1. /\ f \in AllFrames /\ Announced(f) /\ sockQ' \in [R!Sockets -> Seq(AllFrames)]
        /\ ready' \subseteq R!Watched /\ \A l \in ready' : sockQ'[l] # <<>>
        /\ \A l \in R!Sockets : \A k \in 1..Len(sockQ'[l]) : Announced(sockQ[l][k])'
        /\ pc = "recv" /\ pending = <<>>
        /\ UNCHANGED <<authMode, cur, now>>
    BY <1>6, RecvTakesHead
  <2>2. ASSUME pc' \in {"select", "recv", "challenge", "exited"},
               pc' = "challenge" <=> pending' # <<>>,
               frames' \in Seq(R!Entries), fds' \in 0..FdLimit,
               pending' \in Seq(R!Entries), Len(pending') <= 1
        PROVE  ReceiverInv'
    <3>1. R!TypeOK'
      BY <2>1, <2>2 DEF ReceiverInv, R!TypeOK, R!Watched, R!Sockets, R!Entries
    <3> QED
      BY <2>1, <2>2, <3>1 DEF ReceiverInv
  <2>3. R!AfterRead \in {"select", "recv"}
    BY DEF R!AfterRead
  <2>4. R!TypeOK
    BY DEF ReceiverInv
  <2>5. CASE /\ \E k \in R!Matching(f) :
                  R!KeepShowing(f, k) \/ R!AwaitAnswer(f, k) \/ R!Replace(f, k)
             /\ pc' = R!AfterRead
    <3>1. /\ frames' \in Seq(R!Entries) /\ pending' = pending /\ fds' \in 0..FdLimit
          /\ \A l \in 1..Len(frames') : Justified(frames'[l])
      BY <2>1, <2>4, <2>5, MatchJustified
    <3>2. ReceiverInv'
      BY <1>1, <2>1, <2>2, <2>3, <2>5, <3>1
    <3>3. \A e \in Held' : Justified(e)
      BY <2>1, <3>1 DEF Held
    <3> QED
      BY <3>2, <3>3
  <2>6. CASE \/ R!AddPlain(f) /\ pc' = R!AfterRead
             \/ R!AddChallenged(f) /\ pc' = "challenge"
    <3>1. /\ frames' \in Seq(R!Entries) /\ fds' \in 0..FdLimit
          /\ \A l \in 1..Len(frames') : Justified(frames'[l])
          /\ \/ R!AddPlain(f) /\ pending' = <<>>
             \/ \E e \in R!Entries : pending' = <<e>> /\ Justified(e)
      BY <2>1, <2>4, <2>6, NewFrameJustified
    <3>2. CASE R!AddPlain(f) /\ pending' = <<>>
      <4>1. pc' = R!AfterRead /\ <<>> \in Seq(R!Entries) /\ Len(<<>>) = 0
        BY <2>6, <3>2 DEF R!AddPlain, R!AddChallenged
      <4>2. ReceiverInv'
        BY <2>2, <2>3, <3>1, <3>2, <4>1
      <4>3. \A e \in Held' : Justified(e)
        BY <3>1, <3>2, <4>1 DEF Held
      <4> QED
        BY <4>2, <4>3
    <3>3. CASE \E e \in R!Entries : pending' = <<e>> /\ Justified(e)
      <4>1. PICK e \in R!Entries : pending' = <<e>> /\ Justified(e)
        BY <3>3
      <4>2. /\ pending' \in Seq(R!Entries) /\ Len(pending') = 1 /\ pending' # <<>>
            /\ \A k \in 1..Len(pending') : pending'[k] = e
        BY <4>1
      <4>3. pc' = "challenge"
        BY <2>1, <2>6, <4>2 DEF R!AddPlain
      <4>4. ReceiverInv'
        BY <2>2, <3>1, <4>2, <4>3
      <4>5. \A d \in Held' : Justified(d)
        BY <3>1, <4>1, <4>2 DEF Held
      <4> QED
        BY <4>4, <4>5
    <3> QED
      BY <3>1, <3>2, <3>3
  <2>7. CASE pc' = "exited" /\ UNCHANGED <<frames, pending, fds>>
    BY <1>1, <2>1, <2>2, <2>7, UnchangedJustified
  <2> QED
    BY <1>6, <2>5, <2>6, <2>7 DEF R!Recv
<1>7. CASE R!Store
  <2> DEFINE e == pending[1]
  <2>1. /\ e \in R!Entries /\ frames' = Append(frames, e) /\ e \in Held
        /\ pending' = <<>> /\ pc' \in {"select", "recv"}
        /\ UNCHANGED <<authMode, ready, sockQ, cur, fds, now>>
    BY <1>1, <1>7 DEF R!Store, ReceiverInv, R!TypeOK, Held
  <2> HIDE DEF e
  <2>2. /\ frames' \in Seq(R!Entries)
        /\ \A l \in 1..Len(frames') : frames'[l] \in Held
    BY <1>1, <2>1, EntryAppended DEF Held
  <2>3. <<>> \in Seq(R!Entries) /\ Len(<<>>) = 0
    OBVIOUS
  <2>4. R!TypeOK'
    BY <2>1, <2>2, <2>3 DEF ReceiverInv, R!TypeOK, R!Watched, R!Sockets, R!Entries
  <2>5. \A d \in Held' : Justified(d)
    <3>1. \A d \in Held : Justified(d)
      BY HeldJustified
    <3>2. \A l \in 1..Len(frames') : Justified(frames'[l])
      BY <2>2, <3>1
    <3> QED
      BY <2>1, <2>3, <3>2 DEF Held
  <2> QED
    BY <1>2, <2>1, <2>4, <2>5 DEF ReceiverInv
<1>8. CASE R!Show
  <2>1. cur \in 1..Len(frames) /\ pc = "print" /\ pending = <<>>
    BY <1>1, <1>8 DEF R!Show, ReceiverInv, R!TypeOK
  <2>2. /\ UNCHANGED <<authMode, pc, ready, sockQ, pending, fds, now>>
        /\ \/ /\ frames[cur].times = 1 /\ frames' = R!RemoveAt(frames, cur) /\ cur' = cur
           \/ /\ frames[cur].times # 1 /\ cur' = cur + 1
              /\ frames' = [frames EXCEPT ![cur].times = @ - 1]
    BY <1>8 DEF R!Show
  <2>3. /\ frames' \in Seq(R!Entries) /\ cur' \in Nat /\ cur' > 0
        /\ \A l \in 1..Len(frames') : Justified(frames'[l])
    <3>1. CASE frames' = R!RemoveAt(frames, cur) /\ cur' = cur
      <4>1. /\ frames' \in Seq(R!Entries)
            /\ \A l \in 1..Len(frames') : \E k \in 1..Len(frames) : frames'[l] = frames[k]
        BY <1>1, <2>1, <3>1, EntryRemoved
      <4>2. \A l \in 1..Len(frames') : frames'[l] \in Held
        BY <4>1 DEF Held
      <4> QED
        BY <2>1, <3>1, <4>1, <4>2, HeldJustified
    <3>2. CASE /\ frames[cur].times # 1 /\ cur' = cur + 1
               /\ frames' = [frames EXCEPT ![cur].times = @ - 1]
      <4> DEFINE e == [frames[cur] EXCEPT !.times = frames[cur].times - 1]
      <4>1. frames' = [frames EXCEPT ![cur] = e]
        BY <3>2
      <4>2. frames[cur] \in R!Entries
        BY <1>1, <2>1
      <4>3. frames[cur].times - 1 \in 1..R!ShowFramesXTimes
        BY <3>2, <4>2 DEF R!Entries, R!ShowFramesXTimes
      <4>4. e \in R!Entries /\ e.frame = frames[cur].frame /\ e.auth = frames[cur].auth
        BY <4>2, <4>3 DEF R!Entries
      <4> HIDE DEF e
      <4>5. frames[cur] \in Held /\ \A l \in 1..Len(frames) : frames[l] \in Held
        BY <2>1 DEF Held
      <4>6. Justified(e) /\ \A l \in 1..Len(frames) : Justified(frames[l])
        BY <4>4, <4>5, HeldJustified
      <4>7. /\ frames' \in Seq(R!Entries) /\ Len(frames') = Len(frames)
            /\ \A l \in 1..Len(frames) : frames'[l] = IF l = cur THEN e ELSE frames[l]
        BY <1>1, <2>1, <4>1, <4>4, EntryReplaced
      <4>8. cur' \in Nat /\ cur' > 0
        BY <2>1, <3>2
      <4> QED
        BY <4>6, <4>7, <4>8
    <3> QED
      BY <2>2, <3>1, <3>2
  <2>4. R!TypeOK'
    BY <2>2, <2>3 DEF ReceiverInv, R!TypeOK, R!Watched, R!Sockets, R!Entries
  <2>5. \A d \in Held' : Justified(d)
    BY <2>1, <2>2, <2>3 DEF Held
  <2> QED
    BY <1>2, <2>1, <2>2, <2>3, <2>4, <2>5 DEF ReceiverInv
<1> QED
  BY <1>3, <1>4, <1>5, <1>6, <1>7, <1>8 DEF R!ReceiverStep

-----------------------------------------------------------------------------
(* A frame arrives whose stamp its sender announced.                       *)
LEMMA ArrivesInv ==
  ASSUME ReceiverInv, NEW f \in AllFrames, NEW H \in Heard, Announced(f),
         R!Arrives(f, H), announced' = announced
  PROVE  ReceiverInv'
<1>1. /\ sockQ \in [R!Sockets -> Seq(AllFrames)]
      /\ sockQ' = [i \in R!Sockets |-> IF i \in H THEN Append(sockQ[i], f) ELSE sockQ[i]]
      /\ UNCHANGED <<authMode, pc, ready, frames, pending, cur, fds, now>>
  BY DEF ReceiverInv, R!TypeOK, R!Arrives
<1>2. sockQ' \in [R!Sockets -> Seq(AllFrames)]
  BY <1>1
<1>3. R!TypeOK'
  BY <1>1, <1>2 DEF ReceiverInv, R!TypeOK, R!Watched, R!Sockets, R!Entries
<1>4. ASSUME NEW i \in ready PROVE sockQ'[i] # <<>>
  <2>1. i \in R!Sockets /\ sockQ[i] \in Seq(AllFrames) /\ sockQ[i] # <<>>
    BY DEF ReceiverInv, R!TypeOK, R!Watched
  <2>2. sockQ'[i] = sockQ[i] \/ sockQ'[i] = Append(sockQ[i], f)
    BY <1>1, <2>1
  <2>3. Append(sockQ[i], f) # <<>>
    BY <2>1
  <2> QED
    BY <2>1, <2>2, <2>3
<1>5. ASSUME NEW i \in R!Sockets, NEW k \in 1..Len(sockQ'[i])
      PROVE  Announced(sockQ[i][k])'
  <2>1. sockQ'[i][k] = f \/ \E n \in 1..Len(sockQ[i]) : sockQ'[i][k] = sockQ[i][n]
    BY <1>1, <1>5
  <2>2. \A n \in 1..Len(sockQ[i]) : Announced(sockQ[i][n])
    BY DEF ReceiverInv
  <2> QED
    BY <2>1, <2>2 DEF Announced
<1> QED
  BY <1>1, <1>3, <1>4, <1>5 DEF ReceiverInv

LEMMA TransmitArrives ==
  ASSUME ClockInv, SenderInv, Transmit
  PROVE  /\ Wire(sFrame') \in AllFrames /\ Announced(Wire(sFrame'))
         /\ \E H \in Heard : R!Arrives(Wire(sFrame'), H)
<1>1. sFrame' \in Buffers /\ AnswersAChallenge(sFrame', now)
  BY SenderOwnStep DEF Transmit
<1>2. body \in Bodies /\ announced[body] = now
  BY DEF ClockInv
<1>3. /\ Wire(sFrame') \in AllFrames /\ Wire(sFrame').body = body
      /\ Wire(sFrame').signed => NotAfter(Wire(sFrame').stamp, now)
  BY <1>1, <1>2, WireType
<1> QED
  BY <1>2, <1>3 DEF Announced, Transmit

(* What was announced stays announced.                                     *)
LEMMA AnnouncedLater ==
  ASSUME ClockInv, ReceiverInv, [Next]_vars, UNCHANGED sockQ
  PROVE  \A i \in R!Sockets : \A k \in 1..Len(sockQ'[i]) : Announced(sockQ[i][k])'
<1> SUFFICES ASSUME NEW i \in R!Sockets, NEW k \in 1..Len(sockQ[i])
             PROVE  Announced(sockQ[i][k])'
  OBVIOUS
<1> DEFINE f == sockQ[i][k]
<1>1. f \in AllFrames /\ Announced(f) /\ sockQ'[i][k] = f
  BY DEF ReceiverInv, R!TypeOK
<1> HIDE DEF f
<1>2. f.body \in Bodies /\ f.stamp \in Int
  BY <1>1, FrameType
<1>3. announced[f.body] <= announced'[f.body]
  BY <1>2, ClockStep
<1>4. announced[f.body] \in Int /\ announced'[f.body] \in Int
  <2>1. announced[f.body] \in Times \cup {-R!FreshFor}
    BY <1>2 DEF ClockInv
  <2>2. announced'[f.body] \in Times \cup {-R!FreshFor}
    BY <1>2, ClockStep DEF ClockInv
  <2>3. \A t \in Times \cup {-R!FreshFor} : t \in Int
    BY BeaconNetAssumption DEF R!FreshFor
  <2> QED
    BY <2>1, <2>2, <2>3
<1>5. f.signed => NotAfter(f.stamp, announced'[f.body])
  BY <1>1, <1>2, <1>3, <1>4, NotAfterLater DEF Announced
<1> QED
  BY <1>1, <1>5 DEF Announced, NotAfter, f

LEMMA ReceiverInvStep ==
  ASSUME ClockInv, SenderInv, ReceiverInv, [Next]_vars
  PROVE  ReceiverInv' /\ \A e \in Held' : Justified(e)
<1>1. CASE UNCHANGED receiverVars
  <2>1. UNCHANGED <<authMode, pc, ready, sockQ, frames, pending, cur, fds, now>>
    BY <1>1 DEF receiverVars
  <2>2. R!TypeOK'
    BY <2>1 DEF ReceiverInv, R!TypeOK
  <2> QED
    BY <2>1, <2>2, AnnouncedLater, UnchangedJustified DEF ReceiverInv
<1>2. CASE Transmit
  <2>1. announced' = announced
    BY <1>2 DEF Transmit
  <2>2. ReceiverInv' /\ UNCHANGED <<frames, pending>>
    BY <1>2, <2>1, TransmitArrives, ArrivesInv DEF R!Arrives
  <2> QED
    BY <2>2, UnchangedJustified
<1>3. CASE R!ReceiverStep /\ announced' = announced
  BY <1>3, ReceiverStepInv
<1>4. CASE Tick
  <2>1. UNCHANGED <<authMode, pc, ready, sockQ, frames, pending, cur, fds>> /\ now' \in Times
    BY <1>4 DEF Tick, R!Tick
  <2>2. R!TypeOK'
    BY <2>1 DEF ReceiverInv, R!TypeOK
  <2> QED
    BY <2>1, <2>2, AnnouncedLater, UnchangedJustified DEF ReceiverInv
<1> QED
  BY <1>1, <1>2, <1>3, <1>4
  DEF Next, SenderStep, TransmitLost, SenderInternal, ListenerStep, Listen, SendChallenge,
      ChallengeLost, OtherChallenge, Restart, vars

LEMMA InitNetInv == Init => NetInv
<1> SUFFICES ASSUME Init PROVE NetInv
  OBVIOUS
<1>1. 0 \in Times /\ NumSockets \in Nat /\ FdLimit \in Nat /\ \A t \in Times : t \in Nat
  BY BeaconNetAssumption
<1>2. /\ body \in Bodies /\ now = 0
      /\ announced = [b \in Bodies |-> IF b = body THEN 0 ELSE -R!FreshFor]
  BY DEF Init, R!Init
<1>3. ClockInv
  BY <1>1, <1>2 DEF ClockInv, R!FreshFor
<1>4. SenderInv
  <2>1. \A i \in S!Sockets : <<>> \in Seq(AllChallenges)
    OBVIOUS
  <2>2. /\ sPc = "send" /\ sJ = 0 /\ sChallenge = 0 /\ sFrame = S!InitialFrame
        /\ challengeQ \in [S!Sockets -> Seq(AllChallenges)]
    BY <2>1 DEF Init, S!Init
  <2> QED
    BY <2>2, InitialFrameType DEF SenderInv, AnswersAChallenge
<1>5. ReceiverInv
  <2>1. /\ <<>> \in Seq(R!Entries) /\ Len(<<>>) = 0 /\ <<>> \in Seq(AllFrames)
        /\ 0 \in 0..FdLimit /\ 0 \in Nat
    BY <1>1
  <2>2. /\ authMode \in BOOLEAN /\ pc = "select" /\ ready = {}
        /\ sockQ = [i \in R!Sockets |-> <<>>] /\ frames = <<>> /\ pending = <<>>
        /\ cur = 0 /\ fds = 0 /\ now = 0
    BY DEF Init, R!Init
  <2>3. R!TypeOK
    BY <1>1, <2>1, <2>2 DEF R!TypeOK
  <2> QED
    BY <2>1, <2>2, <2>3 DEF ReceiverInv
<1> QED
  BY <1>3, <1>4, <1>5 DEF NetInv

-----------------------------------------------------------------------------
(* The inductive invariant holds of every behaviour of the network.        *)
THEOREM Invariance == Spec => []NetInv
<1>1. Init => NetInv
  BY InitNetInv
<1>2. NetInv /\ [Next]_vars => NetInv'
  BY ClockStep, SenderInvStep, ReceiverInvStep DEF NetInv
<1> QED
  BY <1>1, <1>2, PTL DEF Spec

(* What evaluatelanbeacon authenticates is what the sender was running     *)
(* with less than ten seconds ago, or as much longer ago as its clock is   *)
(* ahead, through restarts, losses, answers to other receivers and         *)
(* whatever the uninitialised challenge of a new frame happens to be.      *)
THEOREM AuthenticatedRecently == Spec => AuthenticatedIsRecent
<1> DEFINE AllRecent == \A e \in Held' :
                       \/ ~e.auth
                       \/ \E d \in Held : d.auth /\ d.frame = e.frame
                       \/ \E s \in Skews : now < announced[e.frame.body] + R!FreshFor + s
<1>1. NetInv /\ [Next]_vars => [AllRecent]_vars
  <2> SUFFICES ASSUME NetInv, [Next]_vars PROVE AllRecent
    OBVIOUS
  <2>1. \A e \in Held' : Justified(e)
    BY ReceiverInvStep DEF NetInv
  <2> QED
    BY <2>1 DEF Justified, Recent
<1> QED
  BY <1>1, Invariance, PTL DEF Spec, AuthenticatedIsRecent

(* The listener does nothing that lan_beacon_receiver does not do alone:   *)
(* every behaviour of the network is one of Receiver.                      *)
THEOREM ListenerIsReceiver == Spec => R!Init /\ [][R!Next]_receiverVars
<1>1. Init => R!Init
  BY DEF Init
<1>2. NetInv /\ [Next]_vars => [R!Next]_receiverVars
  <2> SUFFICES ASSUME NetInv, [Next]_vars PROVE R!Next \/ UNCHANGED receiverVars
    OBVIOUS
  <2>1. CASE Transmit
    BY <2>1, TransmitArrives DEF NetInv, R!Next, R!Arrival
  <2>2. CASE R!ReceiverStep \/ R!Tick
    BY <2>2 DEF R!Next
  <2> QED
    BY <2>1, <2>2
    DEF Next, SenderStep, TransmitLost, SenderInternal, ListenerStep, Listen,
        SendChallenge, ChallengeLost, OtherChallenge, Restart, Tick, vars, receiverVars
<1> QED
  BY <1>1, <1>2, Invariance, PTL DEF Spec

(* The sender does nothing that sendRawSocket does not do alone, but for   *)
(* being started again.                                                    *)
THEOREM SenderIsSender == Spec => S!Init /\ [][S!Next \/ Restart]_senderVars
<1>1. Init => S!Init
  BY DEF Init
<1>2. NetInv /\ [Next]_vars => [S!Next \/ Restart]_senderVars
  <2> SUFFICES ASSUME NetInv, [Next]_vars
               PROVE  S!Next \/ Restart \/ UNCHANGED senderVars
    OBVIOUS
  <2>1. now \in Times
    BY DEF NetInv, ClockInv
  <2>2. CASE SenderStep
    <3>1. \A d \in Skews : now + d \in SenderTimes
      BY <2>1 DEF SenderTimes
    <3>2. ASSUME NEW i \in S!Sockets, NEW d \in Skews, S!Receive(i, now + d)
          PROVE  S!SenderStep
      BY <3>1, <3>2 DEF S!SenderStep
    <3> QED
      BY <2>2, <3>2
      DEF SenderStep, Transmit, TransmitLost, SenderInternal, S!Next, S!SenderStep
  <2>3. ASSUME NEW c \in AllChallenges, NEW H \in Heard, S!ChallengeArrives(c, H)
        PROVE  S!Next
    <3>1. H \in SUBSET S!Sockets
      BY BeaconNetAssumption DEF S!Sockets
    <3> QED
      BY <2>3, <3>1 DEF S!Next, S!Arrival
  <2>4. CASE SendChallenge
    <3>1. Challenge(pending'[1].challenge, listener) \in AllChallenges
      BY <2>1, <2>4, SentChallenge DEF SendChallenge, AllChallenges
    <3> QED
      BY <2>3, <2>4, <3>1 DEF SendChallenge
  <2>5. CASE OtherChallenge
    <3>1. \A c \in OtherChallenges : Challenge(c, other) \in AllChallenges
      BY DEF AllChallenges
    <3> QED
      BY <2>3, <2>5, <3>1 DEF OtherChallenge
  <2> QED
    BY <2>2, <2>4, <2>5
    DEF Next, ListenerStep, Listen, ChallengeLost, Tick, vars, senderVars
<1> QED
  BY <1>1, <1>2, Invariance, PTL DEF Spec

-----------------------------------------------------------------------------
(* The buffer is as long as the PDU, and longer by a signature TLV while   *)
(* it is an answer.                                                        *)
LengthInv ==
  /\ sFrame.dhost = Broadcast <=> sChallenge = 0
  /\ sPc = "receive" => sChallenge = 0
  /\ sFrame.length = S!HeaderLen + PayloadLen
                     + (IF sFrame.dhost = Broadcast THEN 0 ELSE 270)

LEMMA LengthStep ==
  ASSUME ClockInv, SenderInv, LengthInv, [Next]_vars
  PROVE  LengthInv'
<1>1. /\ sFrame \in Buffers /\ challengeQ \in [S!Sockets -> Seq(AllChallenges)]
      /\ sJ \in 0..1 /\ now \in Times
      /\ PayloadLen \in Nat /\ PayloadLen <= 1218
  BY BeaconNetAssumption DEF SenderInv, ClockInv
<1>2. CASE UNCHANGED <<sPc, sFrame, sChallenge>>
  BY <1>2 DEF LengthInv
<1>3. CASE S!Transmit
  <2>1. /\ sChallenge' = sChallenge /\ sPc' = "send"
        /\ sFrame' = S!ForInterface(sFrame, 1)
    BY <1>1, <1>3 DEF S!Transmit
  <2> QED
    BY <1>1, <2>1, ForInterfaceType DEF LengthInv
<1>4. CASE S!EndBurst
  <2>1. /\ sFrame' = IF sChallenge # 0 THEN S!Unanswer(sFrame) ELSE sFrame
        /\ sChallenge' = 0 /\ sPc' = "receive"
    BY <1>4 DEF S!EndBurst
  <2>2. CASE sChallenge # 0
    <3>1. sFrame'.dhost = Broadcast /\ sFrame'.length = sFrame.length - 270
      BY <1>1, <2>1, <2>2, UnanswerType
    <3>2. sFrame.length = S!HeaderLen + PayloadLen + 270
      BY <2>2 DEF LengthInv
    <3> QED
      BY <1>1, <2>1, <3>1, <3>2 DEF LengthInv, S!HeaderLen
  <2>3. CASE sChallenge = 0
    BY <2>1, <2>3 DEF LengthInv
  <2> QED
    BY <2>2, <2>3
<1>5. CASE S!Timeout
  BY <1>5 DEF S!Timeout, LengthInv
<1>6. ASSUME NEW i \in S!Sockets, NEW d \in Skews, S!Receive(i, now + d) PROVE LengthInv'
  <2> DEFINE c == Head(challengeQ[i])
  <2>1. challengeQ[i] \in Seq(AllChallenges) /\ challengeQ[i] # <<>>
    BY <1>1, <1>6 DEF S!Receive, S!Ready
  <2>2. c \in AllChallenges
    BY <2>1, HeadTailProperties
  <2>3. /\ sChallenge' = c.challenge /\ sPc' = "send" /\ sPc = "receive"
        /\ \/ c.challenge = 0 /\ sFrame' = sFrame
           \/ c.challenge # 0 /\ sFrame' = S!Answer(sFrame, c.challenge, c.src, now + d)
    BY <1>6 DEF S!Receive
  <2> HIDE DEF c
  <2>4. /\ sChallenge = 0 /\ sFrame.dhost = Broadcast
        /\ sFrame.length = S!HeaderLen + PayloadLen
    BY <1>1, <2>3 DEF LengthInv, S!HeaderLen
  <2>5. HasRoom(sFrame)
    BY <1>1, <2>4 DEF HasRoom, S!HeaderLen, S!SignatureTLVLen
  <2>6. c.src # Broadcast
    BY <2>2, ChallengeType
  <2>7. CASE c.challenge = 0 /\ sFrame' = sFrame
    BY <2>3, <2>4, <2>7 DEF LengthInv
  <2>8. CASE c.challenge # 0 /\ sFrame' = S!Answer(sFrame, c.challenge, c.src, now + d)
    <3>0. now + d \in SenderTimes
      BY <1>1 DEF SenderTimes
    <3>1. sFrame'.dhost = c.src /\ sFrame'.length = sFrame.length + 270
      BY <1>1, <2>2, <2>5, <2>8, <3>0, AnswerType
    <3> QED
      BY <1>1, <2>3, <2>4, <2>6, <2>8, <3>1 DEF LengthInv, S!HeaderLen
  <2> QED
    BY <2>3, <2>7, <2>8
<1>7. CASE Restart
  <2>1. sPc' = "send" /\ sChallenge' = 0 /\ sFrame' = S!InitialFrame
    BY <1>7 DEF Restart
  <2> QED
    BY <1>1, <2>1 DEF LengthInv, S!InitialFrame, S!HeaderLen
<1> QED
  BY <1>2, <1>3, <1>4, <1>5, <1>6, <1>7
  DEF Next, SenderStep, Transmit, TransmitLost, SenderInternal, ListenerStep, Listen,
      SendChallenge, ChallengeLost, OtherChallenge, Tick, vars, senderVars, S!ChallengeArrives

(* Type correctness of both programs in their composition; the length of   *)
(* the sender's buffer needs that the PDU leaves room for a signature.     *)
THEOREM TypeCorrect == Spec => []TypeOK
<1>1. Init => LengthInv
  <2> SUFFICES ASSUME Init PROVE LengthInv
    OBVIOUS
  <2>1. sPc = "send" /\ sChallenge = 0 /\ sFrame = S!InitialFrame
    BY DEF Init, S!Init
  <2> QED
    BY <2>1, BeaconNetAssumption DEF LengthInv, S!InitialFrame, S!HeaderLen
<1>2. NetInv /\ LengthInv /\ [Next]_vars => LengthInv'
  BY LengthStep DEF NetInv
<1>3. NetInv /\ LengthInv => TypeOK
  <2> SUFFICES ASSUME NetInv, LengthInv PROVE TypeOK
    OBVIOUS
  <2>1. sFrame.length \in Nat /\ sFrame \in Buffers
    BY BeaconNetAssumption DEF LengthInv, NetInv, SenderInv, S!HeaderLen
  <2>2. sFrame \in S!Frames
    BY <2>1 DEF Buffers, S!Frames, S!Hosts, S!Stamps
  <2>3. S!TypeOK
    BY <2>2 DEF NetInv, SenderInv, S!TypeOK
  <2> QED
    BY <2>3 DEF NetInv, ReceiverInv, ClockInv, TypeOK
<1> QED
  BY <1>1, <1>2, <1>3, Invariance, PTL DEF Spec
=============================================================================
