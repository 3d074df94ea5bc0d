------------------------- MODULE ReceiverBoardProofs -------------------------
(***************************************************************************)
(* For every set of frames: receiver mode implements DisplayBoard, shows   *)
(* in each turn all it has stored, and stores no more than there are       *)
(* contents.                                                               *)
(***************************************************************************)
EXTENDS ReceiverProofs, FiniteSetTheorems, FunctionTheorems

(* The notice an entry is, and the board and its turn, as Board has them.  *)
NoticeOf(e) == [contents |-> e.frame.body, authentic |-> e.auth, left |-> e.times]
TheBoard == [k \in 1..Len(frames) |-> NoticeOf(frames[k])]
TheTurn == IF pc = "print" THEN cur ELSE 0

Notices == [contents : FrameBodies, authentic : BOOLEAN, left : 1..ShowFramesXTimes]

-----------------------------------------------------------------------------
LEMMA NoticeTyped ==
  ASSUME NEW e \in Entries
  PROVE  /\ NoticeOf(e) \in Notices
         /\ NoticeOf(e).contents = e.frame.body
         /\ NoticeOf(e).authentic = e.auth /\ NoticeOf(e).left = e.times
<1>1. e.frame \in Frames /\ e.auth \in BOOLEAN /\ e.times \in 1..ShowFramesXTimes
  BY DEF Entries
<1>2. e.frame.body \in FrameBodies
  BY <1>1 DEF FrameBodies
<1> QED
  BY <1>1, <1>2 DEF NoticeOf, Notices

LEMMA BoardTyped ==
  ASSUME frames \in Seq(Entries)
  PROVE  /\ TheBoard \in Seq(Notices) /\ Len(TheBoard) = Len(frames)
         /\ \A k \in 1..Len(frames) :
              TheBoard[k] = NoticeOf(frames[k]) /\ TheBoard[k] \in Notices
<1>1. \A k \in 1..Len(frames) : NoticeOf(frames[k]) \in Notices
  BY NoticeTyped
<1>2. Len(frames) \in Nat /\ TheBoard \in [1..Len(frames) -> Notices]
  BY <1>1 DEF TheBoard
<1>3. \A k \in 1..Len(frames) : TheBoard[k] = NoticeOf(frames[k])
  BY DEF TheBoard
<1> HIDE DEF TheBoard
<1> QED
  BY <1>1, <1>2, <1>3

LEMMA AppendFacts ==
  ASSUME NEW S, NEW s \in Seq(S), NEW e \in S
  PROVE  /\ Append(s, e) \in Seq(S) /\ Len(Append(s, e)) = Len(s) + 1
         /\ Append(s, e)[Len(s) + 1] = e
         /\ \A k \in 1..Len(s) : Append(s, e)[k] = s[k]
OBVIOUS

(* The entry at the end is the notice at the end.                          *)
LEMMA BoardAppend ==
  ASSUME frames \in Seq(Entries), NEW e \in Entries, frames' = Append(frames, e)
  PROVE  TheBoard' = Append(TheBoard, NoticeOf(e))
<1>1. /\ frames' \in Seq(Entries) /\ Len(frames') = Len(frames) + 1
      /\ frames'[Len(frames) + 1] = e
      /\ \A k \in 1..Len(frames) : frames'[k] = frames[k]
  OBVIOUS
<1>2. /\ TheBoard \in Seq(Notices) /\ Len(TheBoard) = Len(frames)
      /\ \A k \in 1..Len(frames) : TheBoard[k] = NoticeOf(frames[k])
  BY BoardTyped
<1>3. TheBoard' = [k \in 1..(Len(frames) + 1) |-> NoticeOf(frames'[k])]
  BY <1>1 DEF TheBoard
<1>4. NoticeOf(e) \in Notices
  BY NoticeTyped
<1> DEFINE n == NoticeOf(e)
           t == Append(TheBoard, n)
<1> HIDE DEF n
<1>5. /\ t \in Seq(Notices) /\ Len(t) = Len(frames) + 1
      /\ t[Len(frames) + 1] = n
      /\ \A k \in 1..Len(frames) : t[k] = NoticeOf(frames[k])
  BY <1>2, <1>4, AppendFacts DEF n
<1> HIDE DEF t
<1>6. ASSUME NEW k \in 1..(Len(frames) + 1) PROVE NoticeOf(frames'[k]) = t[k]
  <2>1. CASE k = Len(frames) + 1
    BY <1>1, <1>5, <2>1 DEF n
  <2>2. CASE k \in 1..Len(frames)
    BY <1>1, <1>5, <2>2
  <2> QED
    BY <1>1, <2>1, <2>2
<1> DEFINE b == TheBoard'
<1>7. b \in [1..(Len(frames) + 1) -> Notices] /\ \A k \in 1..(Len(frames) + 1) : b[k] = t[k]
  <2>1. \A k \in 1..(Len(frames) + 1) : t[k] \in Notices
    BY <1>5
  <2> QED
    BY <1>3, <1>6, <2>1
<1> HIDE DEF b
<1>8. b \in Seq(Notices) /\ Len(b) = Len(frames) + 1
  <2>1. Len(frames) + 1 \in Nat
    BY <1>1
  <2> QED
    BY <1>7, <2>1
<1>9. b = t
  BY <1>5, <1>7, <1>8, SeqEqual
<1> QED
  BY <1>9 DEF b, t, n

(* Another entry at place k is another notice at place k.                  *)
LEMMA BoardExcept ==
  ASSUME frames \in Seq(Entries), NEW k \in 1..Len(frames), NEW e \in Entries,
         frames' = [frames EXCEPT ![k] = e]
  PROVE  TheBoard' = [TheBoard EXCEPT ![k] = NoticeOf(e)]
<1>1. /\ Len(frames') = Len(frames) /\ frames'[k] = e
      /\ \A l \in 1..Len(frames) : l # k => frames'[l] = frames[l]
  OBVIOUS
<1>2. TheBoard' = [l \in 1..Len(frames) |-> NoticeOf(frames'[l])]
  BY <1>1 DEF TheBoard
<1>3. TheBoard' = [l \in 1..Len(frames) |->
                     IF l = k THEN NoticeOf(e) ELSE NoticeOf(frames[l])]
  BY <1>1, <1>2
<1> QED
  BY <1>3 DEF TheBoard

LEMMA BoardRemove ==
  ASSUME frames \in Seq(Entries), NEW i \in 1..Len(frames), frames' = RemoveAt(frames, i)
  PROVE  TheBoard' = [l \in 1..(Len(TheBoard) - 1) |->
                        IF l < i THEN TheBoard[l] ELSE TheBoard[l + 1]]
<1>1. /\ Len(frames') = Len(frames) - 1
      /\ \A k \in 1..(Len(frames) - 1) :
           frames'[k] = IF k < i THEN frames[k] ELSE frames[k + 1]
  BY RemoveAtProperties
<1>2. /\ Len(TheBoard) = Len(frames) /\ Len(frames) \in Nat
      /\ \A k \in 1..Len(frames) : TheBoard[k] = NoticeOf(frames[k])
  BY BoardTyped
<1>3. TheBoard' = [l \in 1..(Len(frames) - 1) |-> NoticeOf(frames'[l])]
  BY <1>1 DEF TheBoard
<1>4. ASSUME NEW l \in 1..(Len(frames) - 1)
      PROVE  NoticeOf(frames'[l]) = IF l < i THEN TheBoard[l] ELSE TheBoard[l + 1]
  <2>1. l \in 1..Len(frames) /\ l + 1 \in 1..Len(frames)
    BY <1>2
  <2>2. frames'[l] = IF l < i THEN frames[l] ELSE frames[l + 1]
    BY <1>1
  <2> QED
    BY <1>2, <2>1, <2>2
<1> HIDE DEF TheBoard
<1> QED
  BY <1>2, <1>3, <1>4

-----------------------------------------------------------------------------
(* What a matching frame does to the board.                                *)
LEMMA MatchOnBoard ==
  ASSUME IInv, NEW f \in Frames, NEW k \in Matching(f), IsFirstMatch(f, k),
         KeepShowing(f, k) \/ AwaitAnswer(f, k) \/ Replace(f, k)
  PROVE  \/ TheBoard' = TheBoard
         \/ /\ k \in 1..Len(TheBoard)
            /\ TheBoard' = [TheBoard EXCEPT ![k].left = ShowFramesXTimes]
         \/ /\ k \in 1..Len(TheBoard) /\ ~TheBoard[k].authentic
            /\ \E c \in FrameBodies, a \in BOOLEAN :
                 /\ Covers(TheBoard[k].contents, c)
                 /\ \A l \in 1..(k - 1) : ~Covers(TheBoard[l].contents, c)
                 /\ TheBoard' = [TheBoard EXCEPT ![k] =
                      [contents |-> c, authentic |-> a, left |-> ShowFramesXTimes]]
<1>1. frames \in Seq(Entries) /\ k \in 1..Len(frames) /\ frames[k] \in Entries
  BY DEF IInv, TypeOK, Matching
<1>2. /\ Len(TheBoard) = Len(frames) /\ k \in 1..Len(TheBoard)
      /\ TheBoard[k] \in Notices
      /\ \A l \in 1..Len(frames) : TheBoard[l] = NoticeOf(frames[l])
  BY <1>1, BoardTyped
<1>3. ShowFramesXTimes \in 1..ShowFramesXTimes
  BY DEF ShowFramesXTimes
<1>4. CASE KeepShowing(f, k)
  <2> DEFINE e == [frames[k] EXCEPT !.times = ShowFramesXTimes]
  <2>1. frames' = [frames EXCEPT ![k] = e]
    BY <1>4 DEF KeepShowing
  <2>2. e \in Entries /\ NoticeOf(e) = [NoticeOf(frames[k]) EXCEPT !.left = ShowFramesXTimes]
    BY <1>1, <1>3 DEF Entries, NoticeOf
  <2> HIDE DEF e
  <2>3. TheBoard' = [TheBoard EXCEPT ![k] = NoticeOf(e)]
    BY <1>1, <2>1, <2>2, BoardExcept
  <2>4. NoticeOf(e) = [TheBoard[k] EXCEPT !.left = ShowFramesXTimes]
    BY <1>1, <1>2, <2>2
  <2> QED
    BY <1>2, <2>3, <2>4
<1>5. CASE AwaitAnswer(f, k)
  BY <1>5 DEF AwaitAnswer, TheBoard
<1>6. CASE Replace(f, k)
  <2>1. PICK v \in Evaluations(f) :
          frames' = [frames EXCEPT ![k] =
            [frame |-> f, challenge |-> frames[k].challenge,
             auth |-> frames[k].auth \/ Authenticates(f, frames[k].challenge, v.keyRead),
             times |-> ShowFramesXTimes]]
    BY <1>6 DEF Replace
  <2> DEFINE a == frames[k].auth \/ Authenticates(f, frames[k].challenge, v.keyRead)
             e == [frame |-> f, challenge |-> frames[k].challenge, auth |-> a,
                   times |-> ShowFramesXTimes]
  <2>2. v.keyRead \in BOOLEAN /\ frames[k].challenge \in Nat /\ frames[k].auth = FALSE
    BY <1>1, <1>6, EvaluationTyped DEF Entries, Replace, IInv, TypeOK
  <2>3. a \in BOOLEAN
    BY <2>2, AuthenticatesBoolean
  <2> HIDE DEF a
  <2>4. e \in Entries /\ e.frame = f /\ e.auth = a /\ e.times = ShowFramesXTimes
    BY <2>2, <2>3, EntryMade
  <2>5. frames' = [frames EXCEPT ![k] = e]
    BY <2>1 DEF a
  <2> HIDE DEF e
  <2>6. TheBoard' = [TheBoard EXCEPT ![k] = NoticeOf(e)]
    BY <1>1, <2>4, <2>5, BoardExcept
  <2>7. NoticeOf(e) = [contents |-> f.body, authentic |-> a, left |-> ShowFramesXTimes]
    BY <2>4 DEF NoticeOf
  <2>8. f.body \in FrameBodies
    BY DEF FrameBodies
  <2>9. ~TheBoard[k].authentic /\ Covers(TheBoard[k].contents, f.body)
    <3>1. IsPrefix(f.body, frames[k].frame.body)
      BY DEF Matching
    <3> QED
      BY <1>1, <1>2, <2>2, <3>1, NoticeTyped DEF Covers
  <2>10. ASSUME NEW l \in 1..(k - 1) PROVE ~Covers(TheBoard[l].contents, f.body)
    <3>1. l \in 1..Len(frames) /\ ~(k <= l) /\ frames[l] \in Entries
      BY <1>1
    <3>2. ~IsPrefix(f.body, frames[l].frame.body)
      BY <3>1 DEF IsFirstMatch, Matching
    <3> QED
      BY <1>2, <3>1, <3>2, NoticeTyped DEF Covers
  <2> QED
    BY <1>2, <2>3, <2>6, <2>7, <2>8, <2>9, <2>10
<1> QED
  BY <1>4, <1>5, <1>6

-----------------------------------------------------------------------------
(* A challenged frame is stored with its full countdown.                   *)
StillNew == pending # <<>> => pending[1].times = ShowFramesXTimes

LEMMA StillNewStep == IInv /\ StillNew /\ [Next]_receiverVars => StillNew'
<1> SUFFICES ASSUME IInv, StillNew, [Next]_receiverVars PROVE StillNew'
  OBVIOUS
<1>1. CASE UNCHANGED pending
  BY <1>1 DEF StillNew
<1>2. ASSUME NEW i \in Sockets, Recv(i) PROVE StillNew'
  BY <1>1, <1>2 DEF Recv, KeepShowing, AwaitAnswer, Replace, AddPlain, AddChallenged,
                    StillNew
<1>3. CASE Store
  BY <1>3 DEF Store, StillNew
<1> QED
  BY <1>1, <1>2, <1>3 DEF Next, ReceiverStep, Arrival, SelectReady, SelectNothing, Show,
                          PrintDone, Arrives, Tick, receiverVars

LEMMA BoardInit == Init => Board!Init
<1> SUFFICES ASSUME Init PROVE Board!Init
  OBVIOUS
<1>1. frames = <<>> /\ Len(frames) = 0 /\ pc = "select"
  BY DEF Init
<1>2. [k \in 1..Len(frames) |-> [contents |-> frames[k].frame.body,
         authentic |-> frames[k].auth, left |-> frames[k].times]] = <<>>
  BY <1>1
<1> QED
  BY <1>1, <1>2 DEF Board!Init

(* A new entry at the end is a new notice.                                 *)
LEMMA PostOnBoard ==
  ASSUME IInv, NEW e \in Entries, NewIn(e, frames), e.times = ShowFramesXTimes,
         frames' = Append(frames, e), TheTurn = 0, TheTurn' = 0
  PROVE  Board!Post
<1>1. /\ frames \in Seq(Entries) /\ Len(TheBoard) = Len(frames)
      /\ \A k \in 1..Len(frames) : TheBoard[k] = NoticeOf(frames[k])
  BY BoardTyped DEF IInv, TypeOK
<1>2. TheBoard' = Append(TheBoard, NoticeOf(e))
  BY <1>1, BoardAppend
<1>3. e.frame.body \in FrameBodies /\ e.auth \in BOOLEAN
  BY DEF Entries, FrameBodies
<1>4. NoticeOf(e) = [contents |-> e.frame.body, authentic |-> e.auth,
                     left |-> ShowFramesXTimes]
  BY DEF NoticeOf
<1>5. ASSUME NEW k \in 1..Len(TheBoard)
      PROVE  ~Covers(TheBoard[k].contents, e.frame.body)
  <2>1. ~IsPrefix(e.frame.body, frames[k].frame.body) /\ frames[k] \in Entries
    BY <1>1 DEF NewIn
  <2> QED
    BY <1>1, <2>1, NoticeTyped DEF Covers
<1>6. \E c \in FrameBodies, a \in BOOLEAN :
        /\ \A k \in 1..Len(TheBoard) : ~Covers(TheBoard[k].contents, c)
        /\ TheBoard' = Append(TheBoard, [contents |-> c, authentic |-> a,
                                        left |-> ShowFramesXTimes])
  BY <1>2, <1>3, <1>4, <1>5
<1> QED
  BY <1>6 DEF Board!Post, Board!Notice, TheBoard, TheTurn, NoticeOf

(* Every step of the receiver is one of the board, or none.                *)
LEMMA BoardStep == IInv /\ StillNew /\ [Next]_receiverVars => [Board!Next]_(Board!boardVars)
<1> SUFFICES ASSUME IInv, StillNew, [Next]_receiverVars
             PROVE  Board!Next \/ UNCHANGED <<TheBoard, TheTurn>>
  BY DEF Board!boardVars, TheBoard, TheTurn, NoticeOf
<1>1. /\ frames \in Seq(Entries) /\ Len(frames) \in Nat
      /\ TheBoard \in Seq(Notices) /\ Len(TheBoard) = Len(frames)
      /\ \A k \in 1..Len(frames) :
           TheBoard[k] = NoticeOf(frames[k]) /\ TheBoard[k] \in Notices
  BY BoardTyped DEF IInv, TypeOK
<1>2. ASSUME UNCHANGED <<frames, pc, cur>> PROVE UNCHANGED <<TheBoard, TheTurn>>
  BY <1>2 DEF TheBoard, TheTurn
<1>3. CASE SelectReady
  BY <1>3 DEF SelectReady, TheBoard, TheTurn
<1>4. CASE SelectNothing
  <2>1. TheTurn = 0 /\ TheTurn' = 1 /\ TheBoard' = TheBoard /\ frames # <<>>
    BY <1>4 DEF SelectNothing, TheTurn, TheBoard
  <2>2. TheBoard # <<>>
    BY <1>1, <2>1
  <2>3. Board!StartTurn
    BY <2>1, <2>2 DEF Board!StartTurn, TheBoard, TheTurn, NoticeOf
  <2> QED
    BY <2>3 DEF Board!Next
<1>5. ASSUME NEW i \in Sockets, Recv(i)
      PROVE  Board!Next \/ UNCHANGED <<TheBoard, TheTurn>>
  <2> DEFINE f == Head(sockQ[i])
  <2>1. f \in Frames /\ pc = "recv" /\ TheTurn = 0
    BY <1>5, RecvTakesHead DEF TheTurn
  <2>2. TheTurn' = 0
    BY <1>5 DEF Recv, AfterRead, TheTurn
  <2>3. ASSUME NEW k \in Matching(f), IsFirstMatch(f, k),
               KeepShowing(f, k) \/ AwaitAnswer(f, k) \/ Replace(f, k)
        PROVE  Board!Next \/ UNCHANGED <<TheBoard, TheTurn>>
    <3>1. CASE TheBoard' = TheBoard
      BY <2>1, <2>2, <3>1
    <3>2. CASE /\ k \in 1..Len(TheBoard)
               /\ TheBoard' = [TheBoard EXCEPT ![k].left = ShowFramesXTimes]
      <4>1. Board!Renew(k)
        BY <2>1, <2>2, <3>2 DEF Board!Renew, TheBoard, TheTurn, NoticeOf
      <4> QED
        BY <3>2, <4>1 DEF Board!Next, TheBoard, NoticeOf
    <3>3. CASE /\ k \in 1..Len(TheBoard) /\ ~TheBoard[k].authentic
               /\ \E c \in FrameBodies, a \in BOOLEAN :
                    /\ Covers(TheBoard[k].contents, c)
                    /\ \A l \in 1..(k - 1) : ~Covers(TheBoard[l].contents, c)
                    /\ TheBoard' = [TheBoard EXCEPT ![k] =
                         [contents |-> c, authentic |-> a, left |-> ShowFramesXTimes]]
      <4>1. Board!Replace(k)
        BY <2>1, <2>2, <3>3 DEF Board!Replace, Board!Notice, TheBoard, TheTurn, NoticeOf
      <4> QED
        BY <3>3, <4>1 DEF Board!Next, TheBoard, NoticeOf
    <3> QED
      BY <2>1, <2>3, <3>1, <3>2, <3>3, MatchOnBoard
  <2>4. CASE Matching(f) = {} /\ AddPlain(f)
    <3>1. PICK c \in Garbage, v \in Evaluations(f) :
            frames' = Append(frames, [frame |-> f, challenge |-> c,
                        auth |-> Authenticates(f, c, v.keyRead), times |-> ShowFramesXTimes])
      BY <2>4 DEF AddPlain
    <3> DEFINE a == Authenticates(f, c, v.keyRead)
               e == [frame |-> f, challenge |-> c, auth |-> a, times |-> ShowFramesXTimes]
    <3>2. a \in BOOLEAN /\ c \in Nat
      BY <2>1, EvaluationTyped, AuthenticatesBoolean, ReceiverAssumption DEF IInv, TypeOK
    <3>3. frames' = Append(frames, e)
      BY <3>1
    <3> HIDE DEF a
    <3>4. e \in Entries /\ e.frame = f /\ e.auth = a /\ e.times = ShowFramesXTimes
      BY <2>1, <3>2, EntryMade
    <3> HIDE DEF e
    <3>5. NewIn(e, frames)
      BY <2>4, <3>4 DEF NewIn, Matching
    <3> QED
      BY <2>1, <2>2, <3>3, <3>4, <3>5, PostOnBoard DEF Board!Next
  <2> QED
    BY <1>5, <2>1, <2>2, <2>3, <2>4 DEF Recv, AddChallenged, TheBoard
<1>6. CASE Store
  <2> DEFINE e == pending[1]
  <2>1. e \in Entries /\ NewIn(e, frames) /\ e.times = ShowFramesXTimes
    BY <1>6 DEF Store, IInv, TypeOK, StillNew
  <2>2. frames' = Append(frames, e) /\ TheTurn = 0 /\ TheTurn' = 0
    BY <1>6 DEF Store, TheTurn
  <2> QED
    BY <2>1, <2>2, PostOnBoard DEF Board!Next
<1>7. CASE Show
  <2>1. /\ cur \in 1..Len(TheBoard) /\ TheTurn = cur /\ TheTurn' = cur'
        /\ TheBoard[cur].left = frames[cur].times /\ frames[cur] \in Entries
    BY <1>1, <1>7, NoticeTyped DEF Show, IInv, TypeOK, TheTurn
  <2>2. CASE frames[cur].times = 1 /\ frames' = RemoveAt(frames, cur) /\ cur' = cur
    <3>1. TheBoard' = [l \in 1..(Len(TheBoard) - 1) |->
                         IF l < cur THEN TheBoard[l] ELSE TheBoard[l + 1]]
      BY <1>1, <2>1, <2>2, BoardRemove
    <3>2. Board!ShowNext
      BY <2>1, <2>2, <3>1 DEF Board!ShowNext, Board!Without, TheBoard, TheTurn, NoticeOf
    <3> QED
      BY <3>2 DEF Board!Next
  <2>3. CASE /\ frames[cur].times # 1 /\ cur' = cur + 1
             /\ frames' = [frames EXCEPT ![cur].times = @ - 1]
    <3> DEFINE e == [frames[cur] EXCEPT !.times = frames[cur].times - 1]
    <3>1. frames' = [frames EXCEPT ![cur] = e]
      BY <2>3
    <3>2. frames[cur].times - 1 \in 1..ShowFramesXTimes /\ frames[cur].times > 1
      BY <2>1, <2>3 DEF Entries, ShowFramesXTimes
    <3>3. e \in Entries
      BY <2>1, <3>2 DEF Entries
    <3>4. NoticeOf(e) = [NoticeOf(frames[cur]) EXCEPT !.left = frames[cur].times - 1]
      BY <2>1 DEF Entries, NoticeOf
    <3> HIDE DEF e
    <3>5. TheBoard' = [TheBoard EXCEPT ![cur] = NoticeOf(e)]
      BY <1>1, <2>1, <3>1, <3>3, BoardExcept
    <3>6. NoticeOf(e) = [TheBoard[cur] EXCEPT !.left = TheBoard[cur].left - 1]
      BY <1>1, <2>1, <3>4
    <3>7. TheBoard' = [TheBoard EXCEPT ![cur].left = @ - 1]
      BY <3>5, <3>6
    <3>8. Board!ShowNext
      BY <2>1, <2>3, <3>2, <3>7 DEF Board!ShowNext, TheBoard, TheTurn, NoticeOf
    <3> QED
      BY <3>8 DEF Board!Next
  <2> QED
    BY <1>7, <2>2, <2>3 DEF Show
<1>8. CASE PrintDone
  <2>1. TheTurn = cur /\ TheTurn' = 0 /\ TheBoard' = TheBoard /\ cur > Len(TheBoard)
    BY <1>1, <1>8 DEF PrintDone, TheTurn, TheBoard
  <2>2. Board!EndTurn
    BY <2>1 DEF Board!EndTurn, TheBoard, TheTurn, NoticeOf
  <2> QED
    BY <2>2 DEF Board!Next
<1>9. ASSUME NEW f \in Frames, NEW S \in Deliveries, Arrives(f, S)
      PROVE  UNCHANGED <<TheBoard, TheTurn>>
  BY <1>2, <1>9 DEF Arrives
<1>10. CASE Tick
  BY <1>2, <1>10 DEF Tick
<1>11. CASE UNCHANGED receiverVars
  BY <1>2, <1>11 DEF receiverVars
<1> QED
  BY <1>3, <1>4, <1>5, <1>6, <1>7, <1>8, <1>9, <1>10, <1>11
  DEF Next, ReceiverStep, Arrival

(* Receiver mode implements the safety part of DisplayBoard: whatever      *)
(* arrives, is challenged and replaced, bananaPIprint shows a board on     *)
(* which nothing is posted twice, no authenticated notice is replaced and  *)
(* each is shown twice after it was last heard.                            *)
THEOREM ReceiverImplementsBoard == Spec => Board!Safety
<1>1. Init => StillNew
  BY DEF Init, StillNew
<1>2. IInv /\ StillNew /\ [Next]_receiverVars => StillNew'
  BY StillNewStep
<1>3. Init => Board!Init
  BY BoardInit
<1>4. IInv /\ StillNew /\ [Next]_receiverVars => [Board!Next]_(Board!boardVars)
  BY BoardStep
<1> QED
  BY <1>1, <1>2, <1>3, <1>4, Invariance, PTL DEF Spec, Board!Safety

-----------------------------------------------------------------------------
(* What a showing does to the list, in its two cases.                      *)
LEMMA RemovalShows ==
  ASSUME NEW s \in Seq(Entries), NEW i \in 1..Len(s), s[i].times = 1
  PROVE  /\ SubSeq(RemoveAt(s, i), i, Len(RemoveAt(s, i))) = Tail(SubSeq(s, i, Len(s)))
         /\ RemoveAt(s, i) = SubSeq(s, 1, i - 1) \o CountedDown(Head(SubSeq(s, i, Len(s))))
                               \o Tail(SubSeq(s, i, Len(s)))
<1> DEFINE t == RemoveAt(s, i)
<1>1. /\ Len(s) \in Nat /\ i \in Nat /\ i >= 1 /\ i <= Len(s) /\ s[i] \in Entries
      /\ t \in Seq(Entries) /\ Len(t) = Len(s) - 1
      /\ \A k \in 1..(Len(s) - 1) : t[k] = IF k < i THEN s[k] ELSE s[k + 1]
  BY RemoveAtProperties DEF RemoveAt
<1> HIDE DEF t
<1>2. Head(SubSeq(s, i, Len(s))) = s[i] /\ Tail(SubSeq(s, i, Len(s))) = SubSeq(s, i + 1, Len(s))
  BY <1>1, HeadTailOfSubSeq
<1> DEFINE rest == SubSeq(s, i + 1, Len(s))
           front == SubSeq(s, 1, i - 1)
<1>3. /\ rest \in Seq(Entries) /\ Len(rest) = Len(s) - i
      /\ \A k \in 1..(Len(s) - i) : rest[k] = s[k + i]
  BY <1>1
<1>4. /\ front \in Seq(Entries) /\ Len(front) = i - 1
      /\ \A k \in 1..(i - 1) : front[k] = s[k]
  BY <1>1
<1>5. SubSeq(t, i, Len(t)) = rest
  <2> DEFINE u == SubSeq(t, i, Len(t))
  <2>1. u \in Seq(Entries) /\ Len(u) = Len(s) - i /\ \A k \in 1..(Len(s) - i) : u[k] = t[k + i - 1]
    BY <1>1
  <2>2. \A k \in 1..(Len(s) - i) : u[k] = s[k + i]
    BY <1>1, <2>1
  <2> HIDE DEF u, rest
  <2>3. u = rest
    BY <1>1, <1>3, <2>1, <2>2, SeqEqual
  <2> QED
    BY <2>3 DEF u
<1> HIDE DEF rest, front
<1>6. t = front \o rest
  <2>1. front \o rest \in Seq(Entries) /\ Len(front \o rest) = Len(t)
    BY <1>1, <1>3, <1>4
  <2>2. \A k \in 1..Len(t) :
          (front \o rest)[k] = IF k <= i - 1 THEN front[k] ELSE rest[k - (i - 1)]
    BY <1>1, <1>3, <1>4
  <2>3. \A k \in 1..Len(t) : (front \o rest)[k] = t[k]
    <3> SUFFICES ASSUME NEW k \in 1..Len(t) PROVE (front \o rest)[k] = t[k]
      OBVIOUS
    <3>1. CASE k <= i - 1
      BY <1>1, <1>4, <2>2, <3>1
    <3>2. CASE ~(k <= i - 1)
      <4>1. k - (i - 1) \in 1..(Len(s) - i) /\ k - (i - 1) + i = k + 1
        BY <1>1, <3>2
      <4>2. rest[k - (i - 1)] = s[k + 1]
        BY <1>3, <4>1
      <4>3. (front \o rest)[k] = s[k + 1]
        BY <2>2, <3>2, <4>2
      <4>4. t[k] = s[k + 1]
        BY <1>1, <3>2
      <4> QED
        BY <4>3, <4>4
    <3> QED
      BY <3>1, <3>2
  <2> QED
    BY <1>1, <2>1, <2>3, SeqEqual
<1>7. front \o <<>> = front
  BY <1>4
<1> QED
  BY <1>2, <1>5, <1>6, <1>7 DEF t, rest, front, CountedDown

LEMMA CountdownShows ==
  ASSUME NEW s \in Seq(Entries), NEW i \in 1..Len(s), s[i].times # 1
  PROVE  LET t == [s EXCEPT ![i] = [s[i] EXCEPT !.times = s[i].times - 1]]
         IN  /\ SubSeq(t, i + 1, Len(t)) = Tail(SubSeq(s, i, Len(s)))
             /\ t = SubSeq(s, 1, i - 1) \o CountedDown(Head(SubSeq(s, i, Len(s))))
                      \o Tail(SubSeq(s, i, Len(s)))
<1> DEFINE e == [s[i] EXCEPT !.times = s[i].times - 1]
           t == [s EXCEPT ![i] = e]
<1>1. Len(s) \in Nat /\ i \in Nat /\ i >= 1 /\ i <= Len(s)
  OBVIOUS
<1>2. e \in Entries
  <2>1. s[i] \in Entries
    OBVIOUS
  <2>2. s[i].times \in {1, 2}
    BY <2>1 DEF Entries, ShowFramesXTimes
  <2>3. s[i].times - 1 \in 1..ShowFramesXTimes
    BY <2>2 DEF ShowFramesXTimes
  <2> QED
    BY <2>1, <2>3 DEF Entries
<1>3. CountedDown(s[i]) = <<e>>
  BY DEF CountedDown
<1> HIDE DEF e
<1>4. /\ t \in Seq(Entries) /\ Len(t) = Len(s)
      /\ \A k \in 1..Len(s) : t[k] = IF k = i THEN e ELSE s[k]
  BY <1>1, <1>2
<1> HIDE DEF t
<1>5. Head(SubSeq(s, i, Len(s))) = s[i] /\ Tail(SubSeq(s, i, Len(s))) = SubSeq(s, i + 1, Len(s))
  BY <1>1, HeadTailOfSubSeq
<1> DEFINE rest == SubSeq(s, i + 1, Len(s))
           front == SubSeq(s, 1, i - 1)
<1>6. /\ rest \in Seq(Entries) /\ Len(rest) = Len(s) - i
      /\ \A k \in 1..(Len(s) - i) : rest[k] = s[k + i]
  BY <1>1
<1>7. /\ front \in Seq(Entries) /\ Len(front) = i - 1
      /\ \A k \in 1..(i - 1) : front[k] = s[k]
  BY <1>1
<1>8. SubSeq(t, i + 1, Len(t)) = rest
  <2> DEFINE u == SubSeq(t, i + 1, Len(t))
  <2>1. u \in Seq(Entries) /\ Len(u) = Len(s) - i /\ \A k \in 1..(Len(s) - i) : u[k] = t[k + i]
    BY <1>1, <1>4
  <2>2. \A k \in 1..(Len(s) - i) : u[k] = s[k + i]
    BY <1>1, <1>4, <2>1
  <2> HIDE DEF u, rest
  <2>3. u = rest
    BY <1>1, <1>6, <2>1, <2>2, SeqEqual
  <2> QED
    BY <2>3 DEF u
<1> HIDE DEF rest, front
<1>9. t = front \o <<e>> \o rest
  <2> DEFINE v == front \o <<e>>
  <2>1. /\ v \in Seq(Entries) /\ Len(v) = i
        /\ \A k \in 1..i : v[k] = IF k = i THEN e ELSE front[k]
    BY <1>1, <1>2, <1>7
  <2> HIDE DEF v
  <2>2. v \o rest \in Seq(Entries) /\ Len(v \o rest) = Len(t)
    BY <1>1, <1>4, <1>6, <2>1
  <2>3. \A k \in 1..Len(t) : (v \o rest)[k] = IF k <= i THEN v[k] ELSE rest[k - i]
    BY <1>1, <1>4, <1>6, <2>1
  <2>4. \A k \in 1..Len(t) : (v \o rest)[k] = t[k]
    <3> SUFFICES ASSUME NEW k \in 1..Len(t) PROVE (v \o rest)[k] = t[k]
      OBVIOUS
    <3>1. CASE k <= i
      BY <1>1, <1>4, <1>7, <2>1, <2>3, <3>1
    <3>2. CASE ~(k <= i)
      <4>1. k - i \in 1..(Len(s) - i) /\ k - i + i = k
        BY <1>1, <1>4, <3>2
      <4>2. rest[k - i] = s[k]
        BY <1>6, <4>1
      <4>3. (v \o rest)[k] = s[k]
        BY <2>3, <3>2, <4>2
      <4>4. t[k] = s[k]
        BY <1>1, <1>4, <3>2
      <4> QED
        BY <4>3, <4>4
    <3> QED
      BY <3>1, <3>2
  <2>5. v \o rest = t
    BY <1>4, <2>2, <2>4, SeqEqual
  <2> QED
    BY <2>5 DEF v
<1> QED
  BY <1>3, <1>5, <1>8, <1>9 DEF t, e, rest, front

(* bananaPIprint skips no stored frame in a turn and shows none twice,     *)
(* although it removes frames from the array it goes through.              *)
THEOREM TurnsShowAll == Spec => EachTurnShowsAll
<1> DEFINE All ==
      /\ pc # "print" /\ pc' = "print" => StillToShow' = frames
      /\ pc = "print" /\ pc' # "print" => StillToShow = <<>>
      /\ pc = "print" /\ <<frames, StillToShow>>' # <<frames, StillToShow>> =>
           /\ StillToShow # <<>> /\ StillToShow' = Tail(StillToShow)
           /\ frames' = SubSeq(frames, 1, cur - 1) \o CountedDown(Head(StillToShow))
                          \o Tail(StillToShow)
<1>1. IInv /\ [Next]_receiverVars => [All]_receiverVars
  <2> SUFFICES ASSUME IInv, Next PROVE All
    OBVIOUS
  <2>1. /\ frames \in Seq(Entries) /\ Len(frames) \in Nat /\ cur \in Nat
        /\ (pc = "print" => cur > 0)
    BY DEF IInv, TypeOK
  <2>2. CASE Show
    <3>1. cur \in 1..Len(frames) /\ pc = "print" /\ pc' = "print"
      BY <2>1, <2>2 DEF Show
    <3>2. StillToShow = SubSeq(frames, cur, Len(frames)) /\ StillToShow # <<>>
      <4>1. StillToShow = SubSeq(frames, cur, Len(frames))
        BY <3>1 DEF StillToShow
      <4>2. Len(SubSeq(frames, cur, Len(frames))) = Len(frames) - cur + 1
        BY <2>1, <3>1
      <4>3. Len(frames) - cur + 1 # 0
        BY <2>1, <3>1
      <4> QED
        BY <4>1, <4>2, <4>3
    <3>3. StillToShow' = SubSeq(frames', cur', Len(frames'))
      BY <3>1 DEF StillToShow
    <3>4. CASE frames[cur].times = 1 /\ frames' = RemoveAt(frames, cur) /\ cur' = cur
      BY <2>1, <3>1, <3>2, <3>3, <3>4, RemovalShows
    <3>5. CASE /\ frames[cur].times # 1 /\ cur' = cur + 1
               /\ frames' = [frames EXCEPT ![cur].times = @ - 1]
      BY <2>1, <3>1, <3>2, <3>3, <3>5, CountdownShows
    <3> QED
      BY <2>2, <3>1, <3>4, <3>5 DEF Show
  <2>3. CASE SelectNothing
    <3>1. StillToShow' = SubSeq(frames, 1, Len(frames))
      BY <2>3 DEF SelectNothing, StillToShow
    <3> QED
      BY <2>1, <2>3, <3>1, SubSeqFull DEF SelectNothing
  <2>4. CASE PrintDone
    <3>1. StillToShow = <<>> /\ StillToShow' = <<>> /\ frames' = frames
      BY <2>1, <2>4, SubSeqEmpty DEF PrintDone, StillToShow
    <3> QED
      BY <2>4, <3>1 DEF PrintDone
  <2>5. CASE UNCHANGED <<pc, frames, cur>>
    BY <2>5 DEF StillToShow
  <2>6. CASE pc # "print" /\ pc' # "print"
    BY <2>6
  <2> QED
    BY <2>2, <2>3, <2>4, <2>5, <2>6
    DEF Next, ReceiverStep, Arrival, SelectReady, Recv, AfterRead, Store, Arrives, Tick
<1> QED
  BY <1>1, Invariance, PTL DEF Spec, EachTurnShowsAll

-----------------------------------------------------------------------------
(* The entries together with the one being challenged.                     *)
LEMMA AllDistinct ==
  ASSUME IInv
  PROVE  /\ frames \o pending \in Seq(Entries)
         /\ Distinct(frames \o pending)
<1>1. frames \in Seq(Entries) /\ pending \in Seq(Entries) /\ Len(pending) <= 1
  BY DEF IInv, TypeOK
<1>2. CASE pending = <<>>
  <2>1. frames \o pending = frames
    BY <1>1, <1>2
  <2> QED
    BY <1>1, <2>1 DEF IInv
<1>3. CASE pending # <<>>
  <2> DEFINE e == pending[1]
  <2>0. Len(pending) = 1
    <3> DEFINE n == Len(pending)
    <3>1. n \in Nat /\ n # 0
      BY <1>1, <1>3, EmptySeq
    <3>2. n <= 1
      BY <1>1
    <3> HIDE DEF n
    <3>3. n = 1
      BY <3>1, <3>2
    <3> QED
      BY <3>3 DEF n
  <2>1. e \in Entries /\ Len(pending) = 1 /\ NewIn(e, frames)
    BY <1>1, <1>3, <2>0 DEF IInv
  <2>2. pending = <<e>>
    BY <1>1, <2>1
  <2> HIDE DEF e
  <2>3. frames \o pending = Append(frames, e)
    BY <1>1, <2>1, <2>2
  <2> QED
    BY <1>1, <2>1, <2>3, AppendDistinct DEF IInv
<1> QED
  BY <1>2, <1>3

LEMMA DistinctFit ==
  ASSUME NEW s \in Seq(Entries), Distinct(s), IsFiniteSet(FrameBodies)
  PROVE  Len(s) <= Cardinality(FrameBodies)
<1> DEFINE S == 1..Len(s)
           b == [k \in S |-> s[k].frame.body]
<1>1. Len(s) \in Nat
  OBVIOUS
<1>2. \A k \in S : s[k].frame.body \in FrameBodies /\ s[k].frame.body \in Seq(TLVs)
  <2> SUFFICES ASSUME NEW k \in S
               PROVE  s[k].frame.body \in FrameBodies /\ s[k].frame.body \in Seq(TLVs)
    OBVIOUS
  <2>1. s[k] \in Entries
    OBVIOUS
  <2> QED
    BY <2>1, EntryBody DEF FrameBodies
<1>3. b \in [S -> FrameBodies]
  BY <1>2
<1>4. ASSUME NEW k \in S, NEW l \in S, b[k] = b[l] PROVE k = l
  <2>1. IsPrefix(s[l].frame.body, s[k].frame.body) /\ IsPrefix(s[k].frame.body, s[l].frame.body)
    BY <1>2, <1>4, PrefixReflexive
  <2>2. ~(k < l) /\ ~(l < k)
    BY <2>1 DEF Distinct
  <2> QED
    BY <1>1, <2>2
<1> HIDE DEF b
<1>5. b \in Injection(S, FrameBodies)
  <2>1. \A k, l \in S : b[k] = b[l] => k = l
    BY <1>4
  <2> QED
    BY <1>3, <2>1, Fun_IsInj
<1>6. Cardinality(S) <= Cardinality(FrameBodies)
  BY <1>5, FS_Injection
<1>7. Cardinality(S) = Len(s)
  BY <1>1, FS_Interval
<1> QED
  BY <1>6, <1>7

(* The receiver needs no more slots than there are contents to show.       *)
THEOREM SlotsBounded ==
  ASSUME IsFiniteSet(FrameBodies)
  PROVE  Spec => []OneSlotPerContents
<1>1. IInv => OneSlotPerContents
  BY AllDistinct, DistinctFit DEF OneSlotPerContents
<1> QED
  BY <1>1, Invariance, PTL
=============================================================================
