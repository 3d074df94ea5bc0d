----------------------------- MODULE BeaconNet ------------------------------
(***************************************************************************)
(* One sender and one listening receiver on a LAN, with other receivers    *)
(* that challenge the same sender.  The sender is Sender, the receiver is  *)
(* Receiver; the LAN hands a frame straight to the sockets that hear it or *)
(* loses it, and the sender can be restarted with other information.       *)
(*                                                                         *)
(* Each host has a clock: now is the listener's, and the sender's differs  *)
(* from it by one of Skews, not always the same.                           *)
(***************************************************************************)
EXTENDS Integers, Sequences, FiniteSets

CONSTANTS
  PayloadLen, SendFrequency, Broadcast, QCap,  \* as in Sender
  Times, Rand, Garbage, FdLimit, TLVs, BodyLen, \* as in Receiver
  NumSockets,        \* sockets of each of the two programs
  Heard,             \* sets of sockets in which a frame can end up
  Bodies,            \* what the sender is started with: sequences of TLVs
  server, listener, other,  \* MAC addresses
  OtherChallenges,   \* what other receivers send
  Skews              \* by how much the sender's clock can be ahead

(* The PDU leaves room for a signature: what becomes of a longer one is    *)
(* seen in Sender.                                                         *)
ASSUME BeaconNetAssumption ==
  /\ PayloadLen \in 24..1218 /\ SendFrequency \in Int
  /\ Broadcast \notin {server, listener, other}
  /\ QCap \in Nat /\ FdLimit \in Nat /\ NumSockets \in Nat
  /\ Times \subseteq Nat /\ 0 \in Times
  /\ Rand \in [Times -> Nat \ {0}] /\ Garbage \subseteq Nat
  /\ OtherChallenges \subseteq Nat /\ Skews \subseteq Int
  /\ Bodies \subseteq Seq(TLVs) /\ \A b \in Bodies : BodyLen[b] \in Nat
  /\ Heard \subseteq SUBSET (1..NumSockets)

VARIABLES
  sPc, sJ, sChallenge, sFrame, challengeQ,     \* the sender
  body,                                        \* what it was started with
  authMode, pc, ready, sockQ, frames, pending, cur, fds, now, \* the receiver
  announced          \* history: when the sender was last running with a body

senderVars == <<sPc, sJ, sChallenge, sFrame, challengeQ>>
receiverVars == <<authMode, pc, ready, sockQ, frames, pending, cur, fds, now>>
vars == <<senderVars, body, receiverVars, announced>>

Macs == {server, listener, other}

(* Every challenge that can be on the LAN.                                 *)
Challenge(c, src) == [challenge |-> c, src |-> src]
AllChallenges == {Challenge(Rand[t], listener) : t \in Times}
                 \cup {Challenge(c, other) : c \in OtherChallenges}

(* What time(NULL) can return to the sender.                               *)
SenderTimes == {t + d : t \in Times, d \in Skews}

(* Every frame that the sender can send.                                   *)
AllFrames ==
  [src : {server}, body : Bodies, signed : {FALSE}, challenge : {0}, stamp : {0},
   valid : {FALSE}]
  \cup [src : {server}, body : Bodies, signed : {TRUE},
        challenge : {c.challenge : c \in AllChallenges}, stamp : SenderTimes,
        valid : BOOLEAN]

S == INSTANCE Sender WITH
       pc <- sPc, j <- sJ, receivedChallenge <- sChallenge, frame <- sFrame,
       NumInterfaces <- 1, ChallengeFrames <- AllChallenges, KeyReadable <- {TRUE},
       Times <- SenderTimes

R == INSTANCE Receiver WITH
       Frames <- AllFrames, Deliveries <- Heard, KeyReadable <- {TRUE}

Init ==
  /\ S!Init /\ R!Init /\ authMode
  /\ body \in Bodies
  /\ announced = [b \in Bodies |-> IF b = body THEN 0 ELSE -R!FreshFor]

(* What a receiver finds in the frame that the sender's buffer holds.      *)
Wire(f) ==
  IF f.dhost = Broadcast
    THEN [src |-> server, body |-> body, signed |-> FALSE, challenge |-> 0,
          stamp |-> 0, valid |-> FALSE]
    ELSE [src |-> server, body |-> body, signed |-> TRUE, challenge |-> f.challenge,
          stamp |-> f.timeStamp, valid |-> S!Verifies(f)]

-----------------------------------------------------------------------------
(* The sender sends a frame, and the listener's sockets get it.            *)
Transmit ==
  /\ S!Transmit
  /\ \E H \in Heard : R!Arrives(Wire(sFrame'), H)
  /\ UNCHANGED <<body, announced>>

(* The sender sends a frame that the listener does not get.                *)
TransmitLost ==
  /\ S!Transmit
  /\ UNCHANGED <<body, receiverVars, announced>>

(* The sender's steps that the listener does not see; timestamps are taken *)
(* from the sender's clock.                                                *)
SenderInternal ==
  /\ \/ S!EndBurst \/ S!Timeout
     \/ \E i \in S!Sockets, d \in Skews : S!Receive(i, now + d)
  /\ UNCHANGED <<body, receiverVars, announced>>

(* The listener's steps without a challenge.                               *)
Listen ==
  /\ R!ReceiverStep
  /\ ~(pc = "recv" /\ pc' = "challenge")
  /\ UNCHANGED <<senderVars, body, announced>>

(* The listener challenges the source of a new frame, and the sender's     *)
(* sockets get the challenge.                                              *)
SendChallenge ==
  /\ R!ReceiverStep
  /\ pc = "recv" /\ pc' = "challenge"
  /\ \E H \in Heard :
       S!ChallengeArrives(Challenge(pending'[1].challenge, listener), H)
  /\ UNCHANGED <<body, announced>>

(* The challenge is lost.                                                  *)
ChallengeLost ==
  /\ R!ReceiverStep
  /\ pc = "recv" /\ pc' = "challenge"
  /\ UNCHANGED <<senderVars, body, announced>>

(* Another receiver challenges the sender.                                 *)
OtherChallenge ==
  /\ \E c \in OtherChallenges, H \in Heard : S!ChallengeArrives(Challenge(c, other), H)
  /\ UNCHANGED <<body, receiverVars, announced>>

(* The sender is killed and started again, maybe with other information.   *)
Restart ==
  /\ body' \in Bodies
  /\ sPc' = "send" /\ sJ' = 0 /\ sChallenge' = 0
  /\ sFrame' = S!InitialFrame
  /\ challengeQ' = [i \in S!Sockets |-> <<>>]
  /\ announced' = [announced EXCEPT ![body'] = now]
  /\ UNCHANGED receiverVars

Tick ==
  /\ R!Tick
  /\ announced' = [announced EXCEPT ![body] = now']
  /\ UNCHANGED <<senderVars, body>>

SenderStep == Transmit \/ TransmitLost \/ SenderInternal
ListenerStep == Listen \/ SendChallenge \/ ChallengeLost

Next == SenderStep \/ ListenerStep \/ OtherChallenge \/ Restart \/ Tick

(* Both programs go on running.                                            *)
Spec == Init /\ [][Next]_vars /\ WF_vars(SenderStep) /\ WF_vars(ListenerStep)

-----------------------------------------------------------------------------
(* The type invariants of both programs hold in their composition.         *)
TypeOK ==
  /\ S!TypeOK /\ R!TypeOK
  /\ body \in Bodies
  /\ announced \in [Bodies -> Times \cup {-R!FreshFor}]

(* The frames that the listener has stored, or will when it has slept.     *)
Held == {frames[k] : k \in 1..Len(frames)} \cup {pending[k] : k \in 1..Len(pending)}

(* A frame comes to be marked as authenticated only when it says what the   *)
(* sender itself announced less than ten seconds ago, or as much longer    *)
(* ago as its clock is ahead, through restarts, losses, late answers and   *)
(* answers meant for other receivers.                                      *)
AuthenticatedIsRecent ==
  [][\A e \in Held' :
       \/ ~e.auth
       \/ \E d \in Held : d.auth /\ d.frame = e.frame
       \/ \E s \in Skews : now < announced[e.frame.body] + R!FreshFor + s]_vars

(* What the programs can count on when all goes well: no restart, no loss, *)
(* no other receiver that challenges; the sender answers within the second *)
(* that the listener sleeps after a challenge; and it broadcasts so slowly *)
(* that the listener is done receiving before the next broadcast: it       *)
(* shows frames, sleeps after a challenge, or waits for a first frame.     *)
Undisturbed == ~(TransmitLost \/ ChallengeLost \/ OtherChallenge \/ Restart)
SenderIdle == sChallenge = 0 /\ \A i \in S!Watched : challengeQ[i] = <<>>
AnswersInTime == pc = "challenge" /\ pc' # "challenge" => SenderIdle
ListenerIdle == \/ pc \in {"print", "challenge"}
                \/ pc = "select" /\ R!Readable = {} /\ frames = <<>>
BroadcastsSlowly == Transmit /\ sChallenge = 0 => ListenerIdle

(* Whatever happened before, once all goes well the listener shows the     *)
(* sender's information as authenticated, again and again; unless it has   *)
(* run out of descriptors, and as long as the sender's clock is less than  *)
(* FreshFor behind.                                                        *)
AuthenticationSucceeds ==
  <>[][Undisturbed /\ AnswersInTime /\ BroadcastsSlowly]_vars =>
    []<>(\/ pc = "exited"
         \/ \E k \in 1..Len(frames) : frames[k].auth /\ frames[k].frame.body = body)

(* The answer that the listener is waiting for is not passed over.         *)
ExpectedAnswerCounts == R!ExpectedAnswerCounts
=============================================================================
