---------------------------- MODULE SenderProofs ----------------------------
(***************************************************************************)
(* For every PDU that leaves room for a signature TLV, every number of     *)
(* interfaces and sockets, and every set of challenges: the buffer that    *)
(* sendRawSocket turns into an answer and back never loses a byte of the   *)
(* PDU, and every answer it sends verifies.                                *)
(***************************************************************************)
EXTENDS Sender, SequenceTheorems, TLAPS

(* The longest PDU whose frame, its end TLV taken off, takes a signature   *)
(* TLV within the 1500 that transfer_to_pdu allows.                        *)
LargestAnswerable == 1500 - 6 - SignatureTLVLen - HeaderLen + 2

(* The buffer as a broadcast.                                              *)
IsBroadcast(f) ==
  /\ f.dhost = Broadcast
  /\ f.length = HeaderLen + PayloadLen
  /\ f.content = ContentEnd
  /\ f.end = ContentEnd

(* The buffer as the answer to challenge c, its signature apart.           *)
IsAnswer(f, c) ==
  /\ [challenge |-> c, src |-> f.dhost] \in ChallengeFrames
  /\ f.dhost # Broadcast
  /\ f.length = HeaderLen + PayloadLen + 270
  /\ f.content = ContentEnd
  /\ f.end = f.length - 2
  /\ f.tlv = ContentEnd
  /\ f.fields = ContentEnd + 6
  /\ f.challenge = c

(* The signature of f is over f as it is, and where a receiver expects it. *)
SignedNow(f) ==
  /\ f.sigAt = ContentEnd + 14
  /\ f.sigLen = PayloadLen + 12
  /\ f.sigOver = View(f)

(* The inductive invariant: outside of an answer the buffer is a           *)
(* broadcast, and during one it is the answer to receivedChallenge, signed *)
(* for the interface it has just been sent on.                             *)
IInv ==
  /\ frame \in Frames
  /\ pc \in {"send", "receive", "exited"}
  /\ j \in 0..NumInterfaces
  /\ receivedChallenge \in Nat
  /\ challengeQ \in [Sockets -> Seq(ChallengeFrames)]
  /\ pc = "receive" => receivedChallenge = 0
  /\ pc # "exited" /\ receivedChallenge = 0 => IsBroadcast(frame)
  /\ pc # "exited" /\ receivedChallenge # 0 =>
        IsAnswer(frame, receivedChallenge) /\ SignedNow(frame)

-----------------------------------------------------------------------------
(* The offsets of an answer, as numbers the provers need not compute with: *)
(* where the challenge, the signature and the end TLV go.                  *)
FieldsStart == ContentEnd + 6
SigStart == ContentEnd + 14
AnswerEnd == ContentEnd + 270

LEMMA Offsets ==
  /\ PayloadLen \in Int /\ PayloadLen >= 24
  /\ ContentEnd \in Nat /\ FieldsStart \in Nat /\ SigStart \in Nat
  /\ AnswerEnd \in Nat /\ AnswerEnd + 2 \in Nat
  /\ PayloadLen + 4 + 4 + 4 \in Nat
BY SenderAssumption DEF ContentEnd, FieldsStart, SigStart, AnswerEnd, HeaderLen

(* A signature leaves every field but its own as it was.                   *)
LEMMA SignKeeps ==
  ASSUME NEW f \in Frames, NEW len \in Int, NEW at \in Int
  PROVE  /\ Sign(f, len, at) \in Frames
         /\ Sign(f, len, at).sigAt = at /\ Sign(f, len, at).sigLen = len
         /\ Sign(f, len, at).sigOver = View(Sign(f, len, at))
         /\ \A x \in {"dhost", "shost", "length", "content", "end", "tlv", "fields",
                      "challenge", "timeStamp"} : Sign(f, len, at)[x] = f[x]
<1>1. View(f) \in Views
  BY DEF View, Views, Frames
<1>2. Sign(f, len, at) \in Frames
  BY <1>1 DEF Sign, Frames
<1>3. \A x \in {"dhost", "shost", "length", "content", "end", "tlv", "fields",
                "challenge", "timeStamp"} : Sign(f, len, at)[x] = f[x]
  BY DEF Sign, Frames
<1>4. View(Sign(f, len, at)) = View(f)
  BY <1>3 DEF View
<1> QED
  BY <1>2, <1>3, <1>4 DEF Sign, Frames

(* A broadcast becomes the answer to c, signed where a receiver looks.     *)
LEMMA AnswerIsAnswer ==
  ASSUME PayloadLen <= LargestAnswerable,
         NEW f \in Frames, IsBroadcast(f),
         NEW c \in Nat, NEW src, NEW t \in Times,
         [challenge |-> c, src |-> src] \in ChallengeFrames
  PROVE  /\ Answer(f, c, src, t) \in Frames
         /\ IsAnswer(Answer(f, c, src, t), c)
         /\ SignedNow(Answer(f, c, src, t))
<1> DEFINE u == [f EXCEPT !.dhost = src, !.length = f.length - 2]
           p == TransferSignature(u)
           g == PutFields(p, c, t)
           s == Sign(g, PayloadLen + 4 + 4 + 4, g.length - SignatureTLVLen + 4 + 4)
           e == PutEnd(s, s.length)
           a == [e EXCEPT !.length = s.length + 2]
<1>1. src # Broadcast /\ src \in Hosts /\ t \in Stamps
  BY SenderAssumption DEF Hosts, Stamps
<1>0. /\ ContentEnd \in Nat /\ FieldsStart \in Nat
      /\ SigStart \in Nat /\ AnswerEnd \in Nat
      /\ ContentEnd \in Int /\ FieldsStart \in Int /\ AnswerEnd \in Int
  BY Offsets
<1>2. u = [f EXCEPT !.dhost = src, !.length = ContentEnd]
  <2>1. f.length - 2 = ContentEnd
    BY Offsets DEF IsBroadcast, HeaderLen, ContentEnd
  <2> QED
    BY <2>1
<1>3. u \in Frames /\ u.dhost = src /\ u.length = ContentEnd /\ u.content = ContentEnd
  <2>1. u \in Frames
    BY <1>0, <1>1, <1>2 DEF Frames
  <2> QED
    BY <1>2, <2>1 DEF Frames, IsBroadcast
<1> HIDE DEF u
<1>4. p = [u EXCEPT !.tlv = ContentEnd, !.content = ContentEnd, !.length = AnswerEnd]
  <2>1. ~(1500 < SignatureTLVLen + u.length + 6)
    BY <1>3, Offsets DEF LargestAnswerable, SignatureTLVLen, HeaderLen, ContentEnd
  <2>2. u.length + 6 + SignatureTLVLen = AnswerEnd
    BY <1>3, Offsets DEF SignatureTLVLen, AnswerEnd
  <2> QED
    BY <1>3, <2>1, <2>2, Offsets, ZenonT(60) DEF TransferSignature, Overwrite
<1>5. /\ p \in Frames /\ p.dhost = src /\ p.length = AnswerEnd
      /\ p.content = ContentEnd /\ p.tlv = ContentEnd
  <2>1. p \in Frames
    BY <1>0, <1>3, <1>4 DEF Frames
  <2> QED
    BY <1>3, <1>4, <2>1 DEF Frames
<1> HIDE DEF p
<1>6. g = [p EXCEPT !.fields = FieldsStart, !.content = ContentEnd,
                    !.challenge = c, !.timeStamp = t]
  <2>1. p.length - SignatureTLVLen = FieldsStart
    BY <1>5, Offsets DEF SignatureTLVLen, AnswerEnd, FieldsStart
  <2>2. ~(FieldsStart < ContentEnd)
    BY Offsets DEF FieldsStart
  <2> QED
    BY <1>5, <2>1, <2>2 DEF PutFields, Overwrite
<1>7. /\ g \in Frames /\ g.dhost = src /\ g.length = AnswerEnd
      /\ g.content = ContentEnd /\ g.tlv = ContentEnd
      /\ g.fields = FieldsStart /\ g.challenge = c
  <2>1. g \in Frames
    BY <1>0, <1>1, <1>5, <1>6 DEF Frames
  <2> QED
    BY <1>5, <1>6, <2>1 DEF Frames
<1> HIDE DEF g
<1>8. s = Sign(g, PayloadLen + 4 + 4 + 4, SigStart)
  <2>1. g.length - SignatureTLVLen + 4 + 4 = SigStart
    BY <1>7, Offsets DEF SignatureTLVLen, AnswerEnd, SigStart
  <2> QED
    BY <2>1
<1>9. /\ s \in Frames /\ s.dhost = src /\ s.length = AnswerEnd
      /\ s.content = ContentEnd /\ s.tlv = ContentEnd
      /\ s.fields = FieldsStart /\ s.challenge = c
      /\ s.sigAt = SigStart /\ s.sigLen = PayloadLen + 4 + 4 + 4
      /\ s.sigOver = View(s)
  <2> HIDE DEF s
  <2>1. PayloadLen + 4 + 4 + 4 \in Int /\ SigStart \in Int
    BY Offsets
  <2> QED
    BY <1>7, <1>8, <2>1, SignKeeps
<1> HIDE DEF s
<1>10. a = [s EXCEPT !.end = AnswerEnd, !.content = ContentEnd, !.length = AnswerEnd + 2]
  <2>1. ~(AnswerEnd < ContentEnd)
    BY Offsets DEF AnswerEnd
  <2> QED
    BY <1>9, <2>1 DEF PutEnd, Overwrite, Frames
<1>11. /\ a \in Frames /\ a.dhost = src /\ a.length = AnswerEnd + 2
       /\ a.content = ContentEnd /\ a.tlv = ContentEnd /\ a.end = AnswerEnd
       /\ a.fields = FieldsStart /\ a.challenge = c
       /\ a.sigAt = SigStart /\ a.sigLen = PayloadLen + 4 + 4 + 4
       /\ a.sigOver = View(a)
  <2> HIDE DEF a
  <2>1. AnswerEnd + 2 \in Nat
    BY Offsets
  <2> DEFINE n == AnswerEnd + 2
  <2> HIDE DEF n
  <2>2. a = [s EXCEPT !.end = AnswerEnd, !.content = ContentEnd, !.length = n] /\ n \in Nat
    BY <1>10, <2>1 DEF n
  <2>5. a \in Frames
    BY <1>0, <1>9, <2>2 DEF Frames
  <2>3. /\ a.length = n /\ a.end = AnswerEnd
        /\ a.content = ContentEnd
        /\ \A x \in {"dhost", "shost", "tlv", "fields", "challenge", "timeStamp",
                     "sigAt", "sigLen", "sigOver"} : a[x] = s[x]
    BY <1>9, <2>2 DEF Frames
  <2>4. View(a) = View(s)
    BY <1>9, <2>3 DEF View
  <2> QED
    BY <1>9, <2>5, <2>3, <2>4 DEF n
<1>12. Answer(f, c, src, t) = a
  BY DEF Answer, u, p, g, s
<1> HIDE DEF a
<1>13. IsAnswer(a, c)
  BY <1>1, <1>11, Offsets
  DEF IsAnswer, FieldsStart, AnswerEnd, HeaderLen, ContentEnd
<1>14. SignedNow(a)
  BY <1>11, Offsets DEF SignedNow, SigStart, HeaderLen, ContentEnd
<1> QED
  BY <1>11, <1>12, <1>13, <1>14

(* The answer to a challenge becomes the broadcast again.                  *)
LEMMA UnanswerIsBroadcast ==
  ASSUME NEW f \in Frames, NEW c, IsAnswer(f, c)
  PROVE  Unanswer(f) \in Frames /\ IsBroadcast(Unanswer(f))
<1> DEFINE n == HeaderLen + PayloadLen
<1>1. n \in Nat /\ f.length - 270 = n /\ n - 2 = ContentEnd
  BY Offsets DEF IsAnswer, ContentEnd, HeaderLen
<1>2. Broadcast \in Hosts
  BY DEF Hosts
<1> HIDE DEF n
<1>3. Unanswer(f) = [f EXCEPT !.dhost = Broadcast, !.length = n, !.end = ContentEnd,
                              !.content = ContentEnd]
  <2>1. ~(ContentEnd < ContentEnd)
    BY Offsets
  <2> QED
    BY <1>1, <2>1 DEF Unanswer, PutEnd, Overwrite, IsAnswer, Frames
<1>4. ContentEnd \in Int /\ n \in Nat
  BY <1>1, Offsets
<1>5. Unanswer(f) \in Frames
  BY <1>2, <1>3, <1>4 DEF Frames
<1>6. /\ Unanswer(f).dhost = Broadcast /\ Unanswer(f).length = n
      /\ Unanswer(f).content = ContentEnd /\ Unanswer(f).end = ContentEnd
  BY <1>3 DEF Frames
<1> QED
  BY <1>5, <1>6 DEF IsBroadcast, n

(* Filling in an interface's MAC keeps a broadcast a broadcast, and an     *)
(* answer an answer whose signature is renewed.                            *)
LEMMA ForInterfaceKeeps ==
  ASSUME NEW f \in Frames, NEW i \in 1..NumInterfaces, NEW c \in Nat,
         receivedChallenge = c,
         c = 0 => IsBroadcast(f),
         c # 0 => IsAnswer(f, c)
  PROVE  /\ ForInterface(f, i) \in Frames
         /\ c = 0 => IsBroadcast(ForInterface(f, i))
         /\ c # 0 => IsAnswer(ForInterface(f, i), c) /\ SignedNow(ForInterface(f, i))
<1> DEFINE g == [f EXCEPT !.shost = i]
<1>1. i \in 0..NumInterfaces
  BY SenderAssumption
<1>2. /\ g \in Frames
      /\ \A x \in {"dhost", "length", "content", "end", "tlv", "fields", "challenge",
                   "timeStamp"} : g[x] = f[x]
  BY <1>1 DEF Frames
<1> HIDE DEF g
<1>3. CASE c = 0
  <2>1. ForInterface(f, i) = g
    BY <1>3 DEF ForInterface, g
  <2> QED
    BY <1>2, <1>3, <2>1 DEF IsBroadcast
<1>4. CASE c # 0
  <2> DEFINE s == Sign(g, PayloadLen + 4 + 4 + 4, SigStart)
  <2>1. g.length - 2 - SignatureTLVLen + 4 + 4 = SigStart
    BY <1>2, <1>4, Offsets DEF IsAnswer, SignatureTLVLen, SigStart, ContentEnd, HeaderLen
  <2>2. PayloadLen - 2 + 2 + 4 + 4 + 4 = PayloadLen + 4 + 4 + 4
    BY Offsets
  <2>3. ForInterface(f, i) = s
    BY <1>4, <2>1, <2>2 DEF ForInterface, g
  <2>4. /\ s \in Frames /\ s.sigAt = SigStart /\ s.sigLen = PayloadLen + 4 + 4 + 4
        /\ s.sigOver = View(s)
        /\ \A x \in {"dhost", "shost", "length", "content", "end", "tlv", "fields",
                     "challenge", "timeStamp"} : s[x] = g[x]
    <3>1. PayloadLen + 4 + 4 + 4 \in Int /\ SigStart \in Int
      BY Offsets
    <3> QED
      BY <1>2, <3>1, SignKeeps
  <2> HIDE DEF s
  <2>5. IsAnswer(s, c)
    BY <1>2, <1>4, <2>4 DEF IsAnswer
  <2>6. SignedNow(s)
    BY <2>4, Offsets DEF SignedNow, SigStart
  <2> QED
    BY <1>4, <2>3, <2>4, <2>5, <2>6
<1> QED
  BY <1>3, <1>4

-----------------------------------------------------------------------------
LEMMA InitIInv == Init => IInv
<1> SUFFICES ASSUME Init PROVE IInv
  OBVIOUS
<1> DEFINE n == HeaderLen + PayloadLen
<1>1. /\ n \in Nat /\ ContentEnd \in Int
      /\ 0 \in 0..NumInterfaces /\ 0 \in Nat /\ 0 \in Int
      /\ Broadcast \in Hosts /\ 0 \in Stamps
  BY Offsets, SenderAssumption DEF HeaderLen, Hosts, Stamps
<1> HIDE DEF n
<1>2. InitialFrame = [dhost |-> Broadcast, shost |-> 0, length |-> n,
         content |-> ContentEnd, end |-> ContentEnd, tlv |-> 0, fields |-> 0,
         challenge |-> 0, timeStamp |-> 0, sigAt |-> 0, sigLen |-> 0,
         sigOver |-> InitialFrame.sigOver]
  BY DEF InitialFrame, n
<1>3. InitialFrame.sigOver \in Views
  BY <1>1 DEF InitialFrame, Views
<1>4. InitialFrame \in Frames
  BY <1>1, <1>2, <1>3 DEF Frames
<1>5. IsBroadcast(InitialFrame)
  BY DEF InitialFrame, IsBroadcast
<1> QED
  BY <1>1, <1>4, <1>5 DEF Init, IInv

(* One step per action.                                                    *)
LEMMA StepIInv ==
  ASSUME PayloadLen <= LargestAnswerable, IInv, [Next]_senderVars
  PROVE  IInv'
<1>1. CASE Transmit
  <2>1. CASE /\ frame' = ForInterface(frame, j + 1)
             /\ j' = j + 1 /\ pc' = pc
    <3>1. j + 1 \in 1..NumInterfaces /\ pc = "send"
      BY <1>1, SenderAssumption DEF Transmit, IInv
    <3>2. /\ frame' \in Frames
          /\ receivedChallenge = 0 => IsBroadcast(frame')
          /\ receivedChallenge # 0 =>
               IsAnswer(frame', receivedChallenge) /\ SignedNow(frame')
      BY <2>1, <3>1, ForInterfaceKeeps DEF IInv
    <3> QED
      BY <1>1, <2>1, <3>1, <3>2 DEF IInv, Transmit, IsBroadcast, IsAnswer, SignedNow
  <2>2. CASE pc' = "exited" /\ UNCHANGED <<j, frame>>
    BY <1>1, <2>2 DEF IInv, Transmit
  <2> QED
    BY <1>1, <2>1, <2>2 DEF Transmit
<1>2. CASE EndBurst
  <2>1. frame' \in Frames /\ IsBroadcast(frame')
    BY <1>2, UnanswerIsBroadcast DEF EndBurst, IInv
  <2> QED
    BY <1>2, <2>1 DEF EndBurst, IInv
<1>3. CASE Timeout
  BY <1>3, SenderAssumption DEF Timeout, IInv
<1>4. ASSUME NEW i \in Sockets, NEW t \in Times, Receive(i, t)
      PROVE  IInv'
  <2> DEFINE c == Head(challengeQ[i])
  <2>1. /\ challengeQ[i] \in Seq(ChallengeFrames) /\ challengeQ[i] # <<>>
        /\ pc = "receive" /\ receivedChallenge = 0 /\ IsBroadcast(frame)
    BY <1>4 DEF Receive, Ready, IInv
  <2>2. c \in ChallengeFrames /\ Tail(challengeQ[i]) \in Seq(ChallengeFrames)
    BY <2>1, HeadTailProperties
  <2>3. /\ c.challenge \in Nat
        /\ [challenge |-> c.challenge, src |-> c.src] \in ChallengeFrames
    BY <2>2, SenderAssumption
  <2>4. challengeQ' \in [Sockets -> Seq(ChallengeFrames)]
    <3>1. challengeQ' = [challengeQ EXCEPT ![i] = Tail(challengeQ[i])]
      BY <1>4 DEF Receive
    <3> QED
      BY <2>2, <3>1 DEF IInv
  <2>5. j' \in 0..NumInterfaces /\ receivedChallenge' = c.challenge
    <3>1. j' = 0 \/ j' = j
      BY <1>4 DEF Receive
    <3>2. j' \in 0..NumInterfaces
      BY <3>1, SenderAssumption DEF IInv
    <3> QED
      BY <1>4, <3>2 DEF Receive
  <2> HIDE DEF c
  <2>6. CASE pc' = "exited" /\ UNCHANGED <<j, frame>>
    BY <2>3, <2>4, <2>5, <2>6 DEF IInv
  <2>7. CASE c.challenge = 0 /\ pc' = "send" /\ frame' = frame
    BY <2>1, <2>3, <2>4, <2>5, <2>7 DEF IInv
  <2>8. CASE /\ c.challenge # 0 /\ pc' = "send"
             /\ frame' = Answer(frame, c.challenge, c.src, t)
    <3>1. frame \in Frames
      BY DEF IInv
    <3>2. /\ frame' \in Frames
          /\ IsAnswer(frame', c.challenge) /\ SignedNow(frame')
      BY <2>1, <2>2, <2>3, <2>8, <3>1, AnswerIsAnswer
    <3> QED
      BY <2>3, <2>4, <2>5, <2>8, <3>2 DEF IInv
  <2> QED
    BY <1>4, <2>6, <2>7, <2>8 DEF Receive, c
<1>5. ASSUME NEW c \in ChallengeFrames, NEW S \in SUBSET Sockets, ChallengeArrives(c, S)
      PROVE  IInv'
  <2>1. challengeQ' \in [Sockets -> Seq(ChallengeFrames)]
    BY <1>5 DEF ChallengeArrives, IInv
  <2> QED
    BY <1>5, <2>1 DEF ChallengeArrives, IInv
<1>6. CASE UNCHANGED senderVars
  BY <1>6 DEF senderVars, IInv
<1> QED
  BY <1>1, <1>2, <1>3, <1>4, <1>5, <1>6 DEF Next, SenderStep, Arrival

(* For every PDU of up to LargestAnswerable bytes and every number of      *)
(* interfaces, sockets and challengers.                                    *)
THEOREM Invariance ==
  ASSUME PayloadLen <= LargestAnswerable
  PROVE  Spec => []IInv
<1>1. Init => IInv
  BY InitIInv
<1>2. IInv /\ [Next]_senderVars => IInv'
  BY StepIInv
<1> QED
  BY <1>1, <1>2, PTL DEF Spec

(* Type correctness of sendRawSocket's state.                              *)
THEOREM TypeCorrect ==
  ASSUME PayloadLen <= LargestAnswerable
  PROVE  Spec => []TypeOK
<1>1. IInv => TypeOK
  BY DEF IInv, TypeOK
<1> QED
  BY <1>1, Invariance, PTL

(* Every broadcast is the whole PDU and nothing else, after any number of  *)
(* answers.                                                                *)
THEOREM BroadcastsStayIntact ==
  ASSUME PayloadLen <= LargestAnswerable
  PROVE  Spec => []BroadcastIntact
<1>1. IInv => BroadcastIntact
  BY SenderAssumption DEF IInv, BroadcastIntact, Sent, IsBroadcast, IsAnswer, Complete,
                          ContentEnd, HeaderLen
<1> QED
  BY <1>1, Invariance, PTL

(* Every answer, on every interface, carries a signature that a receiver   *)
(* verifies.                                                               *)
THEOREM AnswersVerify ==
  ASSUME PayloadLen <= LargestAnswerable
  PROVE  Spec => []AnswerVerifies
<1>1. IInv => AnswerVerifies
  <2> SUFFICES ASSUME IInv, Sent, frame.dhost # Broadcast
               PROVE  Verifies(frame)
    BY DEF AnswerVerifies
  <2>1. IsAnswer(frame, receivedChallenge) /\ SignedNow(frame)
    BY DEF IInv, Sent, IsBroadcast
  <2> QED
    BY <2>1, Offsets DEF Verifies, IsAnswer, SignedNow, ContentEnd, HeaderLen
<1> QED
  BY <1>1, Invariance, PTL

(* An answer goes to the host whose challenge it carries.                  *)
THEOREM AnswersReachAskers ==
  ASSUME PayloadLen <= LargestAnswerable
  PROVE  Spec => []AnswerReachesAsker
<1>1. IInv => AnswerReachesAsker
  BY DEF IInv, AnswerReachesAsker, Sent, IsBroadcast, IsAnswer
<1> QED
  BY <1>1, Invariance, PTL
=============================================================================
