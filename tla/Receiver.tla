------------------------------ MODULE Receiver ------------------------------
(***************************************************************************)
(* Receiver mode: the loop of receiver() in receiver.c over                *)
(* lan_beacon_receiver of rawsocket_LAN_Beacon.c, which takes frames from  *)
(* the sockets until none is left, and bananaPIprint, which shows every    *)
(* stored frame and counts down how often each is still to be shown.       *)
(*                                                                         *)
(* A frame is a broadcast beacon or a signed answer to a challenge.  Its   *)
(* body is the sequence of its TLVs without signature and end TLV; what    *)
(* memcmp finds in two frames is decided by their bodies, because answers  *)
(* are the frames sent to a single host (Sender!AnswerVerifies) and the    *)
(* code leaves the signature and end TLVs out of the comparison by that.   *)
(* valid is what verifylanbeacon says of the frame once it has the key.    *)
(***************************************************************************)
EXTENDS Integers, Sequences, FiniteSets

CONSTANTS
  Macs,         \* MAC addresses of the senders
  TLVs,         \* TLVs other than the signature and the end TLV
  Frames,       \* frames other hosts send: [src, body, signed, challenge, stamp, valid]
  BodyLen,      \* body -> its length in bytes
  NumSockets,   \* sockets, numbered in the order of their descriptors
  Deliveries,   \* sets of sockets in which the kernel may queue a frame
  Times,        \* the values time(NULL) can return
  Rand,         \* time -> the challenge drawn after srand(time(NULL))
  Garbage,      \* what the challenge of a new, uninitialised frame can be
  KeyReadable,  \* what reading the verifying key can give
  FdLimit,      \* file descriptors the process can still open
  QCap          \* bound of a socket's queue

ShowFramesXTimes == 2
FreshFor == 10

ASSUME ReceiverAssumption ==
  /\ Frames \subseteq [src : Macs, body : Seq(TLVs), signed : BOOLEAN,
                       challenge : Nat, stamp : Int, valid : BOOLEAN]
  /\ \A f \in Frames : BodyLen[f.body] \in Nat
  /\ NumSockets \in Nat /\ FdLimit \in Nat /\ QCap \in Nat
  /\ Deliveries \subseteq SUBSET (1..NumSockets)
  /\ Times \subseteq Nat /\ 0 \in Times
  /\ Rand \in [Times -> Nat \ {0}] /\ Garbage \subseteq Nat
  /\ KeyReadable \subseteq BOOLEAN

VARIABLES
  authMode,  \* authenticated_mode: option -a
  pc,        \* "select", "recv", "challenge": in lan_beacon_receiver; "print"; "exited"
  ready,     \* sockets of readfds still to be read from in this round
  sockQ,     \* frames queued in each socket
  frames,    \* pointers_to_received_frames and their number
  pending,   \* the frame being challenged, not in frames yet: <<>> or <<entry>>
  cur,       \* current_lan_beacon_pdu_for_printing, from 1
  fds,       \* descriptors opened and never closed
  now        \* time(NULL)

receiverVars == <<authMode, pc, ready, sockQ, frames, pending, cur, fds, now>>

Sockets == 1..NumSockets

Init ==
  /\ authMode \in BOOLEAN
  /\ pc = "select" /\ ready = {}
  /\ sockQ = [i \in Sockets |-> <<>>]
  /\ frames = <<>> /\ pending = <<>>
  /\ cur = 0 /\ fds = 0 /\ now = 0

-----------------------------------------------------------------------------
(* select is given maxSockFd as the number of descriptors, so that the     *)
(* socket with this highest descriptor is never watched.                   *)
Watched == {i \in Sockets : i < NumSockets}
Readable == {i \in Watched : sockQ[i] # <<>>}

(* select finds readable sockets.                                          *)
SelectReady ==
  /\ pc = "select" /\ Readable # {}
  /\ ready' = Readable
  /\ pc' = "recv"
  /\ UNCHANGED <<authMode, sockQ, frames, pending, cur, fds, now>>

(* Not the code: the timeout is NULL when frames are stored.               *)
FaultySelectNothing ==
  /\ pc = "select" /\ Readable = {} /\ frames = <<>>
  /\ pc' = "print" /\ cur' = 1
  /\ UNCHANGED <<authMode, ready, sockQ, frames, pending, fds, now>>

(* select returns 0 at once, and the round of receiving is over.  Without  *)
(* stored frames it has no timeout and blocks instead.                     *)
SelectNothing ==
  /\ pc = "select" /\ Readable = {} /\ frames # <<>>
  /\ pc' = "print" /\ cur' = 1
  /\ UNCHANGED <<authMode, ready, sockQ, frames, pending, fds, now>>

(* A received frame matches a stored one when the stored one starts with   *)
(* the bytes of its body.                                                  *)
IsPrefix(s, t) == Len(s) <= Len(t) /\ \A i \in 1..Len(s) : s[i] = t[i]

(* payloadSize without headers: 270 bytes are a signature TLV's.           *)
Size(f) == BodyLen[f.body] + (IF f.signed THEN 270 ELSE 0)

(* Not the code: a signature TLV is compared like all the others.          *)
FaultyMatching(f) ==
  {k \in 1..Len(frames) : /\ IsPrefix(f.body, frames[k].frame.body)
                          /\ f.signed => f = frames[k].frame}

(* The first stored frame that f matches, if there is one.                 *)
Matching(f) == {k \in 1..Len(frames) : IsPrefix(f.body, frames[k].frame.body)}
IsFirstMatch(f, k) == k \in Matching(f) /\ \A l \in Matching(f) : k <= l

(* Not the code: the timestamp is not looked at.                           *)
FaultyAuthenticatesLate(f, c, keyRead) ==
  f.signed /\ keyRead /\ f.valid /\ c = f.challenge

(* Not the code: verifylanbeacon's result is not looked at.                *)
FaultyAuthenticates(f, c, keyRead) ==
  f.signed /\ keyRead /\ c = f.challenge /\ now - f.stamp < FreshFor

(* evaluatelanbeacon: what successfullyAuthenticated becomes for frame f   *)
(* when the challenge on record is c, if the key could be read.            *)
Authenticates(f, c, keyRead) ==
  /\ f.signed /\ keyRead /\ f.valid
  /\ c = f.challenge
  /\ now - f.stamp < FreshFor

(* For a signature read_keys opens the key file and leaves it open.  It    *)
(* cannot be opened, or holds no key, or no descriptor is left for it.     *)
Evaluations(f) ==
  IF f.signed /\ fds < FdLimit
  THEN {v \in [keyRead : KeyReadable, fds : {fds, fds + 1}] : v.keyRead => v.fds = fds + 1}
  ELSE {[keyRead |-> FALSE, fds |-> fds]}

-----------------------------------------------------------------------------
(* Frame f is a copy of frame k, and nothing but its countdown is changed. *)
KeepShowing(f, k) ==
  /\ ~authMode \/ frames[k].auth
  /\ frames' = [frames EXCEPT ![k].times = ShowFramesXTimes]
  /\ UNCHANGED <<pending, fds>>

(* Not the code: the copy resets the countdown here too.                   *)
FaultyAwaitAnswer(f, k) ==
  /\ authMode /\ ~frames[k].auth
  /\ Size(f) = Size(frames[k].frame)
  /\ frames' = [frames EXCEPT ![k].times = ShowFramesXTimes]
  /\ UNCHANGED <<pending, fds>>

(* A copy of frame k of the same size, while frame k awaits an answer.     *)
AwaitAnswer(f, k) ==
  /\ authMode /\ ~frames[k].auth
  /\ Size(f) = Size(frames[k].frame)
  /\ UNCHANGED <<frames, pending, fds>>

(* Not the code: frames that are authenticated are replaced as well.       *)
FaultyReplace(f, k) ==
  /\ authMode
  /\ Size(f) # Size(frames[k].frame)
  /\ \E v \in Evaluations(f) :
       /\ frames' = [frames EXCEPT ![k] =
            [frame |-> f, challenge |-> frames[k].challenge,
             auth |-> frames[k].auth \/ Authenticates(f, frames[k].challenge, v.keyRead),
             times |-> ShowFramesXTimes]]
       /\ fds' = v.fds
  /\ UNCHANGED pending

(* Frame f takes the place of frame k and is evaluated with the challenge  *)
(* that was sent for frame k.                                              *)
Replace(f, k) ==
  /\ authMode /\ ~frames[k].auth
  /\ Size(f) # Size(frames[k].frame)
  /\ \E v \in Evaluations(f) :
       /\ frames' = [frames EXCEPT ![k] =
            [frame |-> f, challenge |-> frames[k].challenge,
             auth |-> frames[k].auth \/ Authenticates(f, frames[k].challenge, v.keyRead),
             times |-> ShowFramesXTimes]]
       /\ fds' = v.fds
  /\ UNCHANGED pending

(* A frame that matches none is evaluated before it has a challenge, and   *)
(* stored at once when no authentication is asked for.                     *)
AddPlain(f) ==
  /\ ~authMode
  /\ \E c \in Garbage, v \in Evaluations(f) :
       /\ frames' = Append(frames,
            [frame |-> f, challenge |-> c, auth |-> Authenticates(f, c, v.keyRead),
             times |-> ShowFramesXTimes])
       /\ fds' = v.fds
  /\ UNCHANGED pending

(* Otherwise a challenge is drawn and sent from new sockets that are never *)
(* closed, and the program sleeps; without a descriptor left for           *)
(* getifaddrs it exits.                                                    *)
AddChallenged(f) ==
  /\ authMode
  /\ \E c \in Garbage, v \in Evaluations(f) :
       /\ v.fds < FdLimit
       /\ pending' = <<[frame |-> f, challenge |-> Rand[now],
                        auth |-> Authenticates(f, c, v.keyRead),
                        times |-> ShowFramesXTimes]>>
       /\ fds' = IF v.fds + NumSockets < FdLimit THEN v.fds + NumSockets ELSE FdLimit
  /\ UNCHANGED frames

CannotChallenge(f) == authMode /\ \E v \in Evaluations(f) : v.fds = FdLimit

(* The program after the last socket of a round.                           *)
AfterRead == IF ready' = {} THEN "select" ELSE "recv"

(* The body of the for loop over the sockets: one frame of the first       *)
(* socket that is ready.                                                   *)
Recv(i) ==
  LET f == Head(sockQ[i]) IN
  /\ pc = "recv" /\ i \in ready /\ \A l \in ready : i <= l
  /\ sockQ' = [sockQ EXCEPT ![i] = Tail(@)]
  /\ ready' = ready \ {i}
  /\ \/ /\ \E k \in Matching(f) :
             /\ IsFirstMatch(f, k)
             /\ KeepShowing(f, k) \/ AwaitAnswer(f, k) \/ Replace(f, k)
        /\ pc' = AfterRead
     \/ /\ Matching(f) = {} /\ AddPlain(f)
        /\ pc' = AfterRead
     \/ /\ Matching(f) = {} /\ AddChallenged(f)
        /\ pc' = "challenge"
     \/ /\ Matching(f) = {} /\ CannotChallenge(f)
        /\ pc' = "exited"
        /\ UNCHANGED <<frames, pending, fds>>
  /\ UNCHANGED <<authMode, cur, now>>

(* sendRawSocket's sleep(1) is over and the frame is stored.               *)
Store ==
  /\ pc = "challenge"
  /\ frames' = Append(frames, pending[1])
  /\ pending' = <<>>
  /\ pc' = IF ready = {} THEN "select" ELSE "recv"
  /\ UNCHANGED <<authMode, ready, sockQ, cur, fds, now>>

-----------------------------------------------------------------------------
(* The later frames move up.                                               *)
RemoveAt(s, i) == [k \in 1..(Len(s) - 1) |-> IF k < i THEN s[k] ELSE s[k + 1]]

(* Not the code: the index is not taken back when a frame is removed.      *)
FaultyShowSkips ==
  /\ pc = "print" /\ cur <= Len(frames)
  /\ \/ /\ frames[cur].times = 1
        /\ frames' = RemoveAt(frames, cur)
     \/ /\ frames[cur].times # 1
        /\ frames' = [frames EXCEPT ![cur].times = @ - 1]
  /\ cur' = cur + 1
  /\ UNCHANGED <<authMode, pc, ready, sockQ, pending, fds, now>>

(* Not the code: the countdown is compared before it is decremented.       *)
FaultyShowOnceMore ==
  /\ pc = "print" /\ cur <= Len(frames)
  /\ \/ /\ frames[cur].times = 0
        /\ frames' = RemoveAt(frames, cur)
        /\ cur' = cur
     \/ /\ frames[cur].times # 0
        /\ frames' = [frames EXCEPT ![cur].times = @ - 1]
        /\ cur' = cur + 1
  /\ UNCHANGED <<authMode, pc, ready, sockQ, pending, fds, now>>

(* One turn of bananaPIprint's loop: the frame is shown, counted down, and *)
(* removed when it has been shown often enough.                            *)
Show ==
  /\ pc = "print" /\ cur <= Len(frames)
  /\ \/ /\ frames[cur].times = 1
        /\ frames' = RemoveAt(frames, cur)
        /\ cur' = cur
     \/ /\ frames[cur].times # 1
        /\ frames' = [frames EXCEPT ![cur].times = @ - 1]
        /\ cur' = cur + 1
  /\ UNCHANGED <<authMode, pc, ready, sockQ, pending, fds, now>>

(* The end of the loop; nothing reads the loop's variable before the next. *)
PrintDone ==
  /\ pc = "print" /\ cur > Len(frames)
  /\ pc' = "select" /\ cur' = 0
  /\ UNCHANGED <<authMode, ready, sockQ, frames, pending, fds, now>>

-----------------------------------------------------------------------------
(* The kernel queues a frame in some of the sockets: a packet socket hears *)
(* every interface, whatever device it is bound to, and may drop when it   *)
(* is full.                                                                *)
Arrives(f, S) ==
  /\ S # {} /\ \A i \in S : Len(sockQ[i]) < QCap
  /\ sockQ' = [i \in Sockets |-> IF i \in S THEN Append(sockQ[i], f) ELSE sockQ[i]]
  /\ UNCHANGED <<authMode, pc, ready, frames, pending, cur, fds, now>>

Tick ==
  /\ now' \in Times /\ now' > now
  /\ UNCHANGED <<authMode, pc, ready, sockQ, frames, pending, cur, fds>>

ReceiverStep ==
  \/ SelectReady \/ SelectNothing
  \/ \E i \in Sockets : Recv(i)
  \/ Store \/ Show \/ PrintDone

Arrival == \E f \in Frames, S \in Deliveries : Arrives(f, S)

Next == ReceiverStep \/ Arrival \/ Tick

(* The process is scheduled; nothing makes anybody send a frame, and no    *)
(* property needs the clock to move.                                       *)
Spec == Init /\ [][Next]_receiverVars /\ WF_receiverVars(ReceiverStep)

-----------------------------------------------------------------------------
Entries == [frame : Frames, challenge : Nat, auth : BOOLEAN, times : 1..ShowFramesXTimes]

(* Type invariant of the receiver's state; a stored frame is still to be   *)
(* shown once or twice.                                                    *)
TypeOK ==
  /\ authMode \in BOOLEAN
  /\ pc \in {"select", "recv", "challenge", "print", "exited"}
  /\ ready \subseteq Watched
  /\ sockQ \in [Sockets -> Seq(Frames)]
  /\ frames \in Seq(Entries)
  /\ pending \in Seq(Entries) /\ Len(pending) <= 1
  /\ pc = "challenge" <=> pending # <<>>
  /\ cur \in Nat /\ fds \in 0..FdLimit /\ now \in Times

(* Nothing is shown twice: no stored frame is a copy, or the beginning, of *)
(* one stored before it, although frames are replaced in place.            *)
NoDuplicates ==
  \A k, l \in 1..Len(frames) :
    k < l => ~IsPrefix(frames[l].frame.body, frames[k].frame.body)

(* What is shown as authenticated carries a signature that verifylanbeacon *)
(* accepted, whatever was in the frame before it was replaced and whatever *)
(* challenge was found in its uninitialised field.                         *)
AuthenticatedIsSigned ==
  \A k \in 1..Len(frames) :
    frames[k].auth => frames[k].frame.signed /\ frames[k].frame.valid

(* Once authenticated, a stored frame keeps its contents, its source and   *)
(* its mark until it has been shown for the last time.                     *)
AuthenticatedKept ==
  [][\A k \in 1..Len(frames) : frames[k].auth =>
       \/ \E l \in 1..Len(frames') : /\ frames'[l].frame = frames[k].frame
                                     /\ frames'[l].auth
       \/ pc = "print" /\ cur = k /\ frames[k].times = 1]_receiverVars

(* What is still to be shown in this turn of bananaPIprint, in its order.  *)
StillToShow == IF pc = "print" THEN SubSeq(frames, cur, Len(frames)) ELSE <<>>

(* What a showing leaves of an entry.                                      *)
CountedDown(e) == IF e.times = 1 THEN <<>> ELSE <<[e EXCEPT !.times = @ - 1]>>

(* A turn begins with every stored frame, shows them one by one, counting  *)
(* down just the one it shows, and ends when none is left, although frames *)
(* are removed from the list while the loop runs over it.                  *)
EachTurnShowsAll ==
  [][/\ pc # "print" /\ pc' = "print" => StillToShow' = frames
     /\ pc = "print" /\ pc' # "print" => StillToShow = <<>>
     /\ pc = "print" /\ <<frames, StillToShow>>' # <<frames, StillToShow>> =>
          /\ StillToShow # <<>> /\ StillToShow' = Tail(StillToShow)
          /\ frames' = SubSeq(frames, 1, cur - 1) \o CountedDown(Head(StillToShow))
                         \o Tail(StillToShow)]_receiverVars

(* Once no more frames arrive, the receiver works off its watched sockets, *)
(* shows what it has stored and ends with nothing stored, whatever was     *)
(* queued, challenged or half printed before; or it has exited.            *)
DisplayDrains ==
  <>[][~Arrival]_receiverVars =>
    <>[](\/ pc = "exited"
         \/ frames = <<>> /\ pending = <<>> /\ Readable = {})

-----------------------------------------------------------------------------
FrameBodies == {f.body : f \in Frames}
Covers(old, new) == IsPrefix(new, old)

Board == INSTANCE DisplayBoard WITH
  Contents <- FrameBodies,
  Shows <- ShowFramesXTimes,
  board <- [k \in 1..Len(frames) |->
              [contents |-> frames[k].frame.body, authentic |-> frames[k].auth,
               left |-> frames[k].times]],
  turn <- IF pc = "print" THEN cur ELSE 0

(* Whatever is received, challenged, replaced and counted down, the reader *)
(* sees a board of notices: nothing twice, each until it has been shown    *)
(* twice since it was posted, replaced or renewed, in its place while it   *)
(* is there, none losing its authentication, and every turn to its end.    *)
(* Being heard again need not renew a notice: while a frame awaits its     *)
(* answer, AwaitAnswer leaves the countdown alone.                         *)
ImplementsBoard == Board!Spec

(* The list of received frames holds no more than there are contents, with *)
(* the frame being challenged, however often each is sent and answered.    *)
OneSlotPerContents == Len(frames \o pending) <= Cardinality(FrameBodies)

-----------------------------------------------------------------------------
(* README: "LAN-Beacon periodically checks all network interfaces".        *)
(* Every frame that a socket holds is taken from it some day.              *)
AllSocketsChecked ==
  \A i \in Sockets : sockQ[i] # <<>> ~> (sockQ[i] = <<>> \/ pc = "exited")

(* README: "periodically checks".  The receiver does not stop by itself.   *)
KeepsRunning == pc # "exited"

(* rawsocket_LAN_Beacon.c: "if a frame with the same contents hasn't been  *)
(* received before, add it to the list of frames".                         *)
NewContentsAreAdded ==
  [][\A i \in Sockets :
       pc = "recv" /\ Len(sockQ'[i]) < Len(sockQ[i]) /\ pc' # "exited" =>
         \E k \in 1..Len(frames' \o pending') :
           (frames' \o pending')[k].frame.body = Head(sockQ[i]).body]_receiverVars

(* rawsocket_LAN_Beacon.c: "if another unauthenticated broadcast frame     *)
(* with same contents as before arrives but an authenticated one is        *)
(* expected, break".  The authenticated one that is expected is not passed *)
(* over: a fresh answer to the challenge of a stored frame authenticates   *)
(* that frame.                                                             *)
ExpectedAnswerCounts ==
  [][\A i \in Sockets, k \in 1..Len(frames) :
       /\ authMode /\ pc = "recv" /\ Len(sockQ'[i]) < Len(sockQ[i])
       /\ IsFirstMatch(Head(sockQ[i]), k)
       /\ fds < FdLimit /\ KeyReadable = {TRUE}
       /\ Authenticates(Head(sockQ[i]), frames[k].challenge, TRUE)
       => frames'[k].auth]_receiverVars
=============================================================================
