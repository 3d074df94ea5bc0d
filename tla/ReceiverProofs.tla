--------------------------- MODULE ReceiverProofs ---------------------------
(***************************************************************************)
(* For every set of frames, number of sockets and limit of descriptors:    *)
(* the receiver never shows a body twice, and what it shows as             *)
(* authenticated carries a signature that verified.                        *)
(***************************************************************************)
EXTENDS Receiver, SequenceTheorems, TLAPS

(* No entry of s is a copy or the beginning of an earlier one.             *)
Distinct(s) ==
  \A k, l \in 1..Len(s) : k < l => ~IsPrefix(s[l].frame.body, s[k].frame.body)

(* e is a copy or the beginning of none in s.                              *)
NewIn(e, s) == \A k \in 1..Len(s) : ~IsPrefix(e.frame.body, s[k].frame.body)

(* An authenticated entry holds a signature that verified.                 *)
Genuine(e) == e.auth => e.frame.signed /\ e.frame.valid

(* The inductive invariant.  That a challenged frame is still new when it  *)
(* is stored, after the sleep, is what NoDuplicates needs; that a socket   *)
(* which select found readable still holds a frame is what recvfrom needs. *)
IInv ==
  /\ TypeOK
  /\ Distinct(frames)
  /\ \A k \in 1..Len(frames) : Genuine(frames[k])
  /\ pending # <<>> => NewIn(pending[1], frames) /\ Genuine(pending[1])
  /\ pc = "print" => cur > 0
  /\ \A i \in ready : sockQ[i] # <<>>

-----------------------------------------------------------------------------
LEMMA PrefixTransitive ==
  ASSUME NEW s \in Seq(TLVs), NEW t \in Seq(TLVs), NEW u \in Seq(TLVs),
         IsPrefix(s, t), IsPrefix(t, u)
  PROVE  IsPrefix(s, u)
BY DEF IsPrefix

LEMMA PrefixReflexive ==
  ASSUME NEW s \in Seq(TLVs)
  PROVE  IsPrefix(s, s)
BY DEF IsPrefix

(* Bodies of entries are sequences of TLVs.                                *)
LEMMA EntryBody ==
  ASSUME NEW e \in Entries
  PROVE  e.frame \in Frames /\ e.frame.body \in Seq(TLVs)
BY ReceiverAssumption DEF Entries

LEMMA AppendDistinct ==
  ASSUME NEW s \in Seq(Entries), NEW e \in Entries, Distinct(s), NewIn(e, s)
  PROVE  /\ Append(s, e) \in Seq(Entries)
         /\ Distinct(Append(s, e))
         /\ Len(Append(s, e)) = Len(s) + 1
         /\ Append(s, e)[Len(s) + 1] = e
         /\ \A k \in 1..Len(s) : Append(s, e)[k] = s[k]
<1>1. /\ Append(s, e) \in Seq(Entries) /\ Len(Append(s, e)) = Len(s) + 1
      /\ Append(s, e)[Len(s) + 1] = e
      /\ \A k \in 1..Len(s) : Append(s, e)[k] = s[k]
  OBVIOUS
<1> DEFINE t == Append(s, e)
<1> HIDE DEF t
<1>2. ASSUME NEW k \in 1..Len(t), NEW l \in 1..Len(t), k < l
      PROVE  ~IsPrefix(t[l].frame.body, t[k].frame.body)
  <2>1. k \in 1..Len(s) /\ t[k] = s[k]
    BY <1>1, <1>2 DEF t
  <2>2. CASE l = Len(s) + 1
    BY <1>1, <2>1, <2>2 DEF t, NewIn
  <2>3. CASE l \in 1..Len(s)
    BY <1>1, <1>2, <2>1, <2>3 DEF t, Distinct
  <2> QED
    BY <1>1, <2>2, <2>3 DEF t
<1> QED
  BY <1>1, <1>2 DEF Distinct, t

(* Putting e in the place of the first entry that it is the beginning of   *)
(* makes no duplicate.                                                     *)
LEMMA ReplaceDistinct ==
  ASSUME NEW s \in Seq(Entries), NEW e \in Entries, Distinct(s),
         NEW k \in 1..Len(s),
         IsPrefix(e.frame.body, s[k].frame.body),
         \A l \in 1..Len(s) : IsPrefix(e.frame.body, s[l].frame.body) => k <= l
  PROVE  /\ [s EXCEPT ![k] = e] \in Seq(Entries)
         /\ Distinct([s EXCEPT ![k] = e])
<1> DEFINE t == [s EXCEPT ![k] = e]
<1>1. /\ t \in Seq(Entries) /\ Len(t) = Len(s) /\ t[k] = e
      /\ \A l \in 1..Len(s) : l # k => t[l] = s[l]
  OBVIOUS
<1> HIDE DEF t
<1>2. ASSUME NEW m \in 1..Len(t), NEW n \in 1..Len(t), m < n
      PROVE  ~IsPrefix(t[n].frame.body, t[m].frame.body)
  <2>1. CASE m # k /\ n # k
    BY <1>1, <1>2, <2>1 DEF Distinct
  <2>2. CASE n = k
    BY <1>1, <1>2, <2>2
  <2>3. CASE m = k
    <3>1. t[n] = s[n] /\ t[m] = e /\ ~IsPrefix(s[n].frame.body, s[k].frame.body)
      BY <1>1, <1>2, <2>3 DEF Distinct
    <3>2. /\ s[n].frame.body \in Seq(TLVs) /\ s[k].frame.body \in Seq(TLVs)
          /\ e.frame.body \in Seq(TLVs)
      BY <1>1, EntryBody
    <3> QED
      BY <3>1, <3>2, PrefixTransitive
  <2> QED
    BY <2>1, <2>2, <2>3
<1> QED
  BY <1>1, <1>2 DEF Distinct, t

(* What is left after a removal is in the order it was in.                 *)
LEMMA RemoveAtProperties ==
  ASSUME NEW s \in Seq(Entries), NEW i \in 1..Len(s)
  PROVE  /\ RemoveAt(s, i) \in Seq(Entries)
         /\ Len(RemoveAt(s, i)) = Len(s) - 1
         /\ \A k \in 1..(Len(s) - 1) :
              RemoveAt(s, i)[k] = IF k < i THEN s[k] ELSE s[k + 1]
<1>1. Len(s) - 1 \in Nat
  OBVIOUS
<1>2. \A k \in 1..(Len(s) - 1) : (IF k < i THEN s[k] ELSE s[k + 1]) \in Entries
  OBVIOUS
<1>3. RemoveAt(s, i) \in [1..(Len(s) - 1) -> Entries]
  BY <1>2 DEF RemoveAt
<1> QED
  BY <1>1, <1>3 DEF RemoveAt

LEMMA RemoveDistinct ==
  ASSUME NEW s \in Seq(Entries), NEW i \in 1..Len(s), Distinct(s)
  PROVE  Distinct(RemoveAt(s, i))
<1> DEFINE t == RemoveAt(s, i)
<1>1. /\ t \in Seq(Entries) /\ Len(t) = Len(s) - 1
      /\ \A k \in 1..(Len(s) - 1) : t[k] = IF k < i THEN s[k] ELSE s[k + 1]
  BY RemoveAtProperties
<1> HIDE DEF t
<1>2. ASSUME NEW k \in 1..Len(t), NEW l \in 1..Len(t), k < l
      PROVE  ~IsPrefix(t[l].frame.body, t[k].frame.body)
  <2>1. PICK p, q \in 1..Len(s) : p < q /\ t[k] = s[p] /\ t[l] = s[q]
    <3>1. CASE l < i
      BY <1>1, <1>2, <3>1, SMTT(30)
    <3>2. CASE ~(l < i)
      <4>1. t[l] = s[l + 1] /\ l + 1 \in 1..Len(s)
        BY <1>1, <3>2
      <4>2. PICK p \in 1..Len(s) : p <= k + 1 /\ t[k] = s[p]
        BY <1>1
      <4> QED
        BY <1>1, <1>2, <4>1, <4>2
    <3> QED
      BY <3>1, <3>2
  <2> QED
    BY <2>1 DEF Distinct
<1> QED
  BY <1>2 DEF Distinct, t

-----------------------------------------------------------------------------
(* What read_keys can give to the evaluation of a frame.                   *)
LEMMA EvaluationTyped ==
  ASSUME NEW f \in Frames, fds \in 0..FdLimit, NEW v \in Evaluations(f)
  PROVE  v.keyRead \in BOOLEAN /\ v.fds \in 0..FdLimit
<1>1. CASE f.signed /\ fds < FdLimit
  <2>1. v \in [keyRead : KeyReadable, fds : {fds, fds + 1}]
    BY <1>1 DEF Evaluations
  <2>2. fds + 1 \in 0..FdLimit /\ KeyReadable \subseteq BOOLEAN
    BY <1>1, ReceiverAssumption
  <2> QED
    BY <2>1, <2>2
<1>2. CASE ~(f.signed /\ fds < FdLimit)
  <2>1. v = [keyRead |-> FALSE, fds |-> fds]
    BY <1>2 DEF Evaluations
  <2>2. v.keyRead = FALSE /\ v.fds = fds
    BY <2>1
  <2> QED
    BY <2>2
<1> QED
  BY <1>1, <1>2

(* The mark says so only when the signature verified.                      *)
LEMMA AuthenticatesOnlyValid ==
  ASSUME NEW f, NEW c, NEW r, Authenticates(f, c, r)
  PROVE  f.signed /\ f.valid
BY DEF Authenticates

(* An entry made of frame f, whatever its mark turned out to be.           *)
LEMMA EntryMade ==
  ASSUME NEW f \in Frames, NEW c \in Nat, NEW a \in BOOLEAN
  PROVE  [frame |-> f, challenge |-> c, auth |-> a, times |-> ShowFramesXTimes] \in Entries
<1>1. ShowFramesXTimes \in 1..ShowFramesXTimes
  BY DEF ShowFramesXTimes
<1> QED
  BY <1>1 DEF Entries

LEMMA AuthenticatesBoolean ==
  ASSUME NEW f \in Frames, NEW c \in Nat, NEW r \in BOOLEAN
  PROVE  Authenticates(f, c, r) \in BOOLEAN
BY DEF Authenticates

-----------------------------------------------------------------------------
LEMMA InitIInv == Init => IInv
<1> SUFFICES ASSUME Init PROVE IInv
  OBVIOUS
<1>1. /\ <<>> \in Seq(Entries) /\ Len(<<>>) = 0 /\ <<>> \in Seq(Frames)
      /\ 0 \in 0..FdLimit /\ 0 \in Nat /\ 0 \in Times
  BY ReceiverAssumption
<1>2. TypeOK
  <2>1. sockQ \in [Sockets -> Seq(Frames)]
    BY <1>1 DEF Init
  <2>2. ready \subseteq Watched
    BY DEF Init
  <2> QED
    BY <1>1, <2>1, <2>2 DEF Init, TypeOK
<1> QED
  BY <1>1, <1>2 DEF Init, IInv, Distinct

(* What a frame f taken from a socket does to the stored frames when it    *)
(* matches entry k first.                                                  *)
LEMMA MatchKeepsFrames ==
  ASSUME IInv, NEW f \in Frames, NEW k \in Matching(f), IsFirstMatch(f, k),
         KeepShowing(f, k) \/ AwaitAnswer(f, k) \/ Replace(f, k)
  PROVE  /\ frames' \in Seq(Entries) /\ Distinct(frames')
         /\ \A l \in 1..Len(frames') : Genuine(frames'[l])
         /\ pending' = pending /\ fds' \in 0..FdLimit
<1>1. /\ frames \in Seq(Entries) /\ Distinct(frames) /\ fds \in 0..FdLimit
      /\ \A l \in 1..Len(frames) : Genuine(frames[l])
  BY DEF IInv, TypeOK
<1>2. /\ k \in 1..Len(frames)
      /\ IsPrefix(f.body, frames[k].frame.body)
      /\ \A l \in 1..Len(frames) : IsPrefix(f.body, frames[l].frame.body) => k <= l
  BY DEF Matching, IsFirstMatch
<1>3. frames[k] \in Entries
  BY <1>1, <1>2
<1>4. CASE KeepShowing(f, k)
  <2> DEFINE e == [frames[k] EXCEPT !.times = ShowFramesXTimes]
  <2>1. frames' = [frames EXCEPT ![k] = e]
    BY <1>4 DEF KeepShowing
  <2>2. e \in Entries /\ e.frame = frames[k].frame /\ e.auth = frames[k].auth
    <3>1. ShowFramesXTimes \in 1..ShowFramesXTimes
      BY DEF ShowFramesXTimes
    <3> QED
      BY <1>3, <3>1 DEF Entries
  <2> HIDE DEF e
  <2>3. \A l \in 1..Len(frames) :
          IsPrefix(e.frame.body, frames[l].frame.body) => k <= l
    <3> SUFFICES ASSUME NEW l \in 1..Len(frames), l < k,
                        IsPrefix(frames[k].frame.body, frames[l].frame.body)
                 PROVE  FALSE
      BY <1>1, <1>2, <2>2
    <3> QED
      BY <1>1, <1>2 DEF Distinct
  <2>4. IsPrefix(e.frame.body, frames[k].frame.body)
    BY <1>3, <2>2, EntryBody, PrefixReflexive
  <2>5. frames' \in Seq(Entries) /\ Distinct(frames')
    BY <1>1, <1>2, <2>1, <2>2, <2>3, <2>4, ReplaceDistinct
  <2>6. \A l \in 1..Len(frames') : Genuine(frames'[l])
    BY <1>1, <1>2, <2>1, <2>2 DEF Genuine
  <2> QED
    BY <1>1, <1>4, <2>5, <2>6 DEF KeepShowing
<1>5. CASE AwaitAnswer(f, k)
  BY <1>1, <1>5 DEF AwaitAnswer
<1>6. CASE Replace(f, k)
  <2>1. PICK v \in Evaluations(f) :
          /\ frames' = [frames EXCEPT ![k] =
               [frame |-> f, challenge |-> frames[k].challenge,
                auth |-> frames[k].auth \/ Authenticates(f, frames[k].challenge, v.keyRead),
                times |-> ShowFramesXTimes]]
          /\ fds' = v.fds
    BY <1>6 DEF Replace
  <2> DEFINE a == frames[k].auth \/ Authenticates(f, frames[k].challenge, v.keyRead)
             e == [frame |-> f, challenge |-> frames[k].challenge, auth |-> a,
                   times |-> ShowFramesXTimes]
  <2>2. /\ v.keyRead \in BOOLEAN /\ v.fds \in 0..FdLimit
        /\ frames[k].challenge \in Nat /\ frames[k].auth = FALSE
    BY <1>1, <1>3, <1>6, EvaluationTyped DEF Entries, Replace
  <2>3. a \in BOOLEAN
    BY <2>2, AuthenticatesBoolean
  <2>4. a => f.signed /\ f.valid
    BY <2>2, AuthenticatesOnlyValid
  <2> HIDE DEF a
  <2>5. e \in Entries /\ e.frame = f /\ e.auth = a
    BY <2>2, <2>3, EntryMade
  <2>6. frames' = [frames EXCEPT ![k] = e]
    BY <2>1 DEF a
  <2> HIDE DEF e
  <2>7. frames' \in Seq(Entries) /\ Distinct(frames')
    BY <1>1, <1>2, <2>5, <2>6, ReplaceDistinct
  <2>8. \A l \in 1..Len(frames') : Genuine(frames'[l])
    BY <1>1, <1>2, <2>4, <2>5, <2>6 DEF Genuine
  <2> QED
    BY <1>6, <2>1, <2>2, <2>7, <2>8 DEF Replace
<1> QED
  BY <1>4, <1>5, <1>6

(* What recvfrom leaves of the sockets.                                    *)
LEMMA RecvTakesHead ==
  ASSUME IInv, NEW i \in Sockets, Recv(i)
  PROVE  /\ Head(sockQ[i]) \in Frames
         /\ sockQ' \in [Sockets -> Seq(Frames)]
         /\ ready' \subseteq Watched
         /\ \A l \in ready' : sockQ'[l] # <<>>
         /\ pc = "recv" /\ pending = <<>>
         /\ UNCHANGED <<authMode, cur, now>>
<1>1. /\ sockQ' = [sockQ EXCEPT ![i] = Tail(sockQ[i])]
      /\ ready' = ready \ {i} /\ i \in ready /\ pc = "recv"
      /\ UNCHANGED <<authMode, cur, now>>
  BY DEF Recv
<1>2. sockQ \in [Sockets -> Seq(Frames)] /\ ready \subseteq Watched /\ pending = <<>>
  BY <1>1 DEF IInv, TypeOK
<1>3. sockQ[i] \in Seq(Frames) /\ sockQ[i] # <<>>
  BY <1>1, <1>2 DEF IInv, Watched
<1>4. Head(sockQ[i]) \in Frames /\ Tail(sockQ[i]) \in Seq(Frames)
  BY <1>3, HeadTailProperties
<1>5. sockQ' \in [Sockets -> Seq(Frames)]
  BY <1>1, <1>2, <1>4
<1>6. \A l \in ready' : sockQ'[l] # <<>>
  BY <1>1, <1>2 DEF IInv, Watched, Sockets
<1> QED
  BY <1>1, <1>2, <1>4, <1>5, <1>6

-----------------------------------------------------------------------------
(* One step per action.                                                    *)
LEMMA StepIInv == IInv /\ [Next]_receiverVars => IInv'
<1> SUFFICES ASSUME IInv, [Next]_receiverVars PROVE IInv'
  OBVIOUS
<1>1. /\ frames \in Seq(Entries) /\ Distinct(frames)
      /\ \A k \in 1..Len(frames) : Genuine(frames[k])
      /\ fds \in 0..FdLimit /\ pending \in Seq(Entries) /\ Len(pending) <= 1
  BY DEF IInv, TypeOK
<1>2. CASE SelectReady
  <2>1. /\ Readable \subseteq Watched /\ pending = <<>>
        /\ \A i \in Readable : sockQ[i] # <<>>
    BY <1>2 DEF SelectReady, Readable, IInv, TypeOK
  <2>2. TypeOK'
    BY <1>2, <2>1 DEF SelectReady, IInv, TypeOK, Entries, Watched
  <2> QED
    BY <1>2, <2>1, <2>2 DEF SelectReady, IInv
<1>3. CASE SelectNothing
  <2>1. TypeOK'
    BY <1>3 DEF SelectNothing, IInv, TypeOK
  <2> QED
    BY <1>3, <2>1 DEF SelectNothing, IInv
<1>4. ASSUME NEW i \in Sockets, Recv(i) PROVE IInv'
  <2> DEFINE f == Head(sockQ[i])
  <2>1. /\ f \in Frames /\ sockQ' \in [Sockets -> Seq(Frames)]
        /\ ready' \subseteq Watched /\ \A l \in ready' : sockQ'[l] # <<>>
        /\ pc = "recv" /\ pending = <<>>
        /\ UNCHANGED <<authMode, cur, now>>
    BY <1>4, RecvTakesHead
  <2>2. ASSUME pc' \in {"select", "recv", "challenge", "exited"},
               pc' = "challenge" <=> pending' # <<>>,
               frames' \in Seq(Entries), Distinct(frames'), fds' \in 0..FdLimit,
               \A k \in 1..Len(frames') : Genuine(frames'[k]),
               pending' \in Seq(Entries), Len(pending') <= 1,
               pending' # <<>> => NewIn(pending'[1], frames') /\ Genuine(pending'[1])
        PROVE  IInv'
    <3>1. TypeOK'
      BY <2>1, <2>2 DEF IInv, TypeOK, Watched, Sockets, Entries
    <3> QED
      BY <2>1, <2>2, <3>1 DEF IInv
  <2>3. AfterRead \in {"select", "recv"}
    BY DEF AfterRead
  <2>4. ASSUME NEW k \in Matching(f), IsFirstMatch(f, k),
               KeepShowing(f, k) \/ AwaitAnswer(f, k) \/ Replace(f, k),
               pc' = AfterRead
        PROVE  IInv'
    BY <1>1, <2>1, <2>2, <2>3, <2>4, MatchKeepsFrames
  <2>5. CASE Matching(f) = {} /\ AddPlain(f) /\ pc' = AfterRead
    <3>1. PICK c \in Garbage, v \in Evaluations(f) :
            /\ frames' = Append(frames, [frame |-> f, challenge |-> c,
                 auth |-> Authenticates(f, c, v.keyRead), times |-> ShowFramesXTimes])
            /\ fds' = v.fds
      BY <2>5 DEF AddPlain
    <3> DEFINE a == Authenticates(f, c, v.keyRead)
               e == [frame |-> f, challenge |-> c, auth |-> a, times |-> ShowFramesXTimes]
    <3>2. /\ a \in BOOLEAN /\ (a => f.signed /\ f.valid) /\ c \in Nat
          /\ v.fds \in 0..FdLimit
      BY <1>1, <2>1, EvaluationTyped, AuthenticatesBoolean, AuthenticatesOnlyValid,
         ReceiverAssumption
    <3>3. frames' = Append(frames, e)
      BY <3>1
    <3> HIDE DEF a
    <3>4. e \in Entries /\ e.frame = f /\ e.auth = a
      BY <2>1, <3>2, EntryMade
    <3> HIDE DEF e
    <3>5. NewIn(e, frames)
      BY <2>5, <3>4 DEF NewIn, Matching
    <3>6. /\ frames' \in Seq(Entries) /\ Distinct(frames')
          /\ Len(frames') = Len(frames) + 1 /\ frames'[Len(frames) + 1] = e
          /\ \A k \in 1..Len(frames) : frames'[k] = frames[k]
      BY <1>1, <3>3, <3>4, <3>5, AppendDistinct
    <3>7. \A k \in 1..Len(frames') : Genuine(frames'[k])
      BY <1>1, <3>2, <3>4, <3>6 DEF Genuine
    <3>8. pending' = <<>> /\ fds' \in 0..FdLimit /\ Len(<<>>) = 0
      BY <1>1, <2>1, <2>5, <3>1, <3>2 DEF AddPlain
    <3> QED
      BY <1>1, <2>1, <2>2, <2>3, <2>5, <3>6, <3>7, <3>8
  <2>6. CASE Matching(f) = {} /\ AddChallenged(f) /\ pc' = "challenge"
    <3>1. PICK c \in Garbage, v \in Evaluations(f) :
            /\ pending' = <<[frame |-> f, challenge |-> Rand[now],
                 auth |-> Authenticates(f, c, v.keyRead), times |-> ShowFramesXTimes]>>
            /\ fds' = IF v.fds + NumSockets < FdLimit THEN v.fds + NumSockets ELSE FdLimit
      BY <2>6 DEF AddChallenged
    <3> DEFINE a == Authenticates(f, c, v.keyRead)
               e == [frame |-> f, challenge |-> Rand[now], auth |-> a,
                     times |-> ShowFramesXTimes]
    <3>2. /\ a \in BOOLEAN /\ (a => f.signed /\ f.valid) /\ Rand[now] \in Nat
          /\ v.fds \in 0..FdLimit
      <4>1. c \in Nat /\ now \in Times /\ Rand \in [Times -> Nat]
        BY ReceiverAssumption DEF IInv, TypeOK
      <4> QED
        BY <1>1, <2>1, <4>1, EvaluationTyped, AuthenticatesBoolean, AuthenticatesOnlyValid
    <3>3. pending' = <<e>>
      BY <3>1
    <3> HIDE DEF a
    <3>4. e \in Entries /\ e.frame = f /\ e.auth = a
      BY <2>1, <3>2, EntryMade
    <3> HIDE DEF e
    <3>5. NewIn(e, frames) /\ Genuine(e)
      BY <2>6, <3>2, <3>4 DEF NewIn, Matching, Genuine
    <3>6. fds' \in 0..FdLimit
      BY <3>1, <3>2, ReceiverAssumption
    <3>7. frames' = frames
      BY <2>6 DEF AddChallenged
    <3>8. pending' \in Seq(Entries) /\ Len(pending') = 1 /\ pending' # <<>> /\ pending'[1] = e
      BY <3>3, <3>4
    <3> QED
      BY <1>1, <2>2, <2>6, <3>5, <3>6, <3>7, <3>8
  <2>7. CASE pc' = "exited" /\ UNCHANGED <<frames, pending, fds>>
    BY <1>1, <2>1, <2>2, <2>7
  <2> QED
    BY <1>4, <2>4, <2>5, <2>6, <2>7 DEF Recv
<1>5. CASE Store
  <2> DEFINE e == pending[1]
  <2>1. e \in Entries /\ NewIn(e, frames) /\ Genuine(e) /\ frames' = Append(frames, e)
    BY <1>1, <1>5 DEF Store, IInv, TypeOK
  <2> HIDE DEF e
  <2>2. /\ frames' \in Seq(Entries) /\ Distinct(frames')
        /\ Len(frames') = Len(frames) + 1 /\ frames'[Len(frames) + 1] = e
        /\ \A k \in 1..Len(frames) : frames'[k] = frames[k]
    BY <1>1, <2>1, AppendDistinct
  <2>3. \A k \in 1..Len(frames') : Genuine(frames'[k])
    BY <1>1, <2>1, <2>2
  <2>4. /\ pending' = <<>> /\ pc' \in {"select", "recv"}
        /\ <<>> \in Seq(Entries) /\ Len(<<>>) = 0
    BY <1>5 DEF Store
  <2>5. TypeOK'
    BY <1>5, <2>2, <2>4 DEF Store, IInv, TypeOK, Watched, Sockets, Entries
  <2> QED
    BY <1>5, <2>2, <2>3, <2>4, <2>5 DEF Store, IInv
<1>6. CASE Show
  <2>1. cur \in 1..Len(frames) /\ pc = "print" /\ pending = <<>>
    BY <1>1, <1>6 DEF Show, IInv, TypeOK
  <2>2. /\ frames' \in Seq(Entries) /\ Distinct(frames')
        /\ \A k \in 1..Len(frames') : Genuine(frames'[k])
        /\ cur' \in Nat /\ cur' > 0
    <3>1. CASE frames[cur].times = 1 /\ frames' = RemoveAt(frames, cur) /\ cur' = cur
      <4>1. frames' \in Seq(Entries) /\ Distinct(frames')
        BY <1>1, <2>1, <3>1, RemoveAtProperties, RemoveDistinct
      <4>2. \A k \in 1..Len(frames') : Genuine(frames'[k])
        <5> SUFFICES ASSUME NEW k \in 1..Len(frames') PROVE Genuine(frames'[k])
          OBVIOUS
        <5>1. /\ k \in 1..(Len(frames) - 1)
              /\ frames'[k] = IF k < cur THEN frames[k] ELSE frames[k + 1]
          BY <1>1, <2>1, <3>1, RemoveAtProperties
        <5>2. k \in 1..Len(frames) /\ k + 1 \in 1..Len(frames)
          BY <1>1, <5>1
        <5> QED
          BY <1>1, <5>1, <5>2
      <4> QED
        BY <2>1, <3>1, <4>1, <4>2
    <3>2. CASE /\ frames[cur].times # 1 /\ cur' = cur + 1
               /\ frames' = [frames EXCEPT ![cur].times = @ - 1]
      <4> DEFINE e == [frames[cur] EXCEPT !.times = frames[cur].times - 1]
      <4>1. frames' = [frames EXCEPT ![cur] = e]
        BY <3>2
      <4>2. frames[cur] \in Entries
        BY <1>1, <2>1
      <4>3. frames[cur].times - 1 \in 1..ShowFramesXTimes
        BY <3>2, <4>2 DEF Entries, ShowFramesXTimes
      <4>4. e \in Entries /\ e.frame = frames[cur].frame /\ e.auth = frames[cur].auth
        BY <4>2, <4>3 DEF Entries
      <4> HIDE DEF e
      <4>5. /\ frames' \in Seq(Entries) /\ Len(frames') = Len(frames) /\ frames'[cur] = e
            /\ \A k \in 1..Len(frames) : k # cur => frames'[k] = frames[k]
        BY <1>1, <2>1, <4>1, <4>4
      <4>6. Distinct(frames')
        BY <1>1, <2>1, <4>4, <4>5 DEF Distinct
      <4>7. \A k \in 1..Len(frames') : Genuine(frames'[k])
        BY <1>1, <2>1, <4>4, <4>5 DEF Genuine
      <4> QED
        BY <2>1, <3>2, <4>5, <4>6, <4>7
    <3> QED
      BY <1>6, <3>1, <3>2 DEF Show
  <2>3. TypeOK'
    BY <1>6, <2>1, <2>2 DEF Show, IInv, TypeOK
  <2> QED
    BY <1>6, <2>1, <2>2, <2>3 DEF Show, IInv
<1>7. CASE PrintDone
  <2>1. TypeOK'
    BY <1>7 DEF PrintDone, IInv, TypeOK
  <2> QED
    BY <1>7, <2>1 DEF PrintDone, IInv
<1>8. ASSUME NEW f \in Frames, NEW S \in Deliveries, Arrives(f, S) PROVE IInv'
  <2>1. sockQ' \in [Sockets -> Seq(Frames)]
    BY <1>8 DEF Arrives, IInv, TypeOK
  <2>2. TypeOK'
    BY <1>8, <2>1 DEF Arrives, IInv, TypeOK, Watched, Sockets, Entries
  <2>3. \A i \in ready : sockQ'[i] # <<>>
    <3> SUFFICES ASSUME NEW i \in ready PROVE sockQ'[i] # <<>>
      OBVIOUS
    <3>1. i \in Sockets /\ sockQ[i] \in Seq(Frames) /\ sockQ[i] # <<>>
      BY DEF IInv, TypeOK, Watched
    <3>2. sockQ'[i] = sockQ[i] \/ sockQ'[i] = Append(sockQ[i], f)
      BY <1>8, <3>1 DEF Arrives
    <3>3. Append(sockQ[i], f) # <<>>
      BY <3>1
    <3> QED
      BY <3>1, <3>2, <3>3
  <2> QED
    BY <1>8, <2>2, <2>3 DEF Arrives, IInv
<1>9. CASE Tick
  <2>1. TypeOK'
    BY <1>9 DEF Tick, IInv, TypeOK
  <2> QED
    BY <1>9, <2>1 DEF Tick, IInv
<1>10. CASE UNCHANGED receiverVars
  BY <1>10 DEF receiverVars, IInv, TypeOK
<1> QED
  BY <1>2, <1>3, <1>4, <1>5, <1>6, <1>7, <1>8, <1>9, <1>10
  DEF Next, ReceiverStep, Arrival

-----------------------------------------------------------------------------
(* The inductive invariant holds of every behaviour of the receiver.       *)
THEOREM Invariance == Spec => []IInv
<1>1. Init => IInv
  BY InitIInv
<1>2. IInv /\ [Next]_receiverVars => IInv'
  BY StepIInv
<1> QED
  BY <1>1, <1>2, PTL DEF Spec

(* Type correctness of receiver mode's state; in particular a stored frame *)
(* is still to be shown, and a challenged one is held back while the       *)
(* program sleeps.                                                         *)
THEOREM TypeCorrect == Spec => []TypeOK
<1>1. IInv => TypeOK
  BY DEF IInv
<1> QED
  BY <1>1, Invariance, PTL

(* lan_beacon_receiver never stores a copy or the beginning of a frame it  *)
(* has stored before, whatever it replaces and bananaPIprint removes.      *)
THEOREM NothingShownTwice == Spec => []NoDuplicates
<1>1. IInv => NoDuplicates
  BY DEF IInv, Distinct, NoDuplicates
<1> QED
  BY <1>1, Invariance, PTL

(* What bananaPIprint shows as authenticated carries a signature that      *)
(* verifylanbeacon accepted.                                               *)
THEOREM AuthenticatedHaveSignature == Spec => []AuthenticatedIsSigned
<1>1. IInv => AuthenticatedIsSigned
  BY DEF IInv, Genuine, AuthenticatedIsSigned
<1> QED
  BY <1>1, Invariance, PTL

-----------------------------------------------------------------------------
(* The frame of entry e is still authenticated among the entries s.        *)
StillThere(e, s) == \E l \in 1..Len(s) : s[l].frame = e.frame /\ s[l].auth

(* A match takes nothing from an authenticated entry.                      *)
LEMMA MatchKeepsAuthenticated ==
  ASSUME IInv, NEW f \in Frames, NEW m \in Matching(f),
         KeepShowing(f, m) \/ AwaitAnswer(f, m) \/ Replace(f, m),
         NEW k \in 1..Len(frames), frames[k].auth
  PROVE  StillThere(frames[k], frames')
<1>1. frames \in Seq(Entries) /\ m \in 1..Len(frames) /\ frames[m] \in Entries
  BY DEF IInv, TypeOK, Matching
<1>2. CASE KeepShowing(f, m)
  <2> DEFINE e == [frames[m] EXCEPT !.times = ShowFramesXTimes]
  <2>1. frames' = [frames EXCEPT ![m] = e]
    BY <1>2 DEF KeepShowing
  <2>2. e.frame = frames[m].frame /\ e.auth = frames[m].auth
    BY <1>1 DEF Entries
  <2> HIDE DEF e
  <2>3. Len(frames') = Len(frames) /\ frames'[k] = IF k = m THEN e ELSE frames[k]
    BY <1>1, <2>1
  <2> QED
    BY <2>2, <2>3 DEF StillThere
<1>3. CASE AwaitAnswer(f, m)
  BY <1>3 DEF AwaitAnswer, StillThere
<1>4. CASE Replace(f, m)
  <2>1. PICK e : frames' = [frames EXCEPT ![m] = e]
    BY <1>4 DEF Replace
  <2>2. k # m
    BY <1>4 DEF Replace
  <2>3. Len(frames') = Len(frames) /\ frames'[k] = frames[k]
    BY <1>1, <2>1, <2>2
  <2> QED
    BY <2>3 DEF StillThere
<1> QED
  BY <1>2, <1>3, <1>4

(* Appending takes nothing away.                                           *)
LEMMA AppendKeeps ==
  ASSUME frames \in Seq(Entries), NEW e, frames' = Append(frames, e),
         NEW k \in 1..Len(frames), frames[k].auth
  PROVE  StillThere(frames[k], frames')
<1>1. k \in 1..Len(frames') /\ frames'[k] = frames[k]
  OBVIOUS
<1> QED
  BY <1>1 DEF StillThere

(* Once authenticated, an entry stays as it is until bananaPIprint has     *)
(* shown it for the last time.                                             *)
THEOREM AuthenticatedStay == Spec => AuthenticatedKept
<1> DEFINE Kept == \A k \in 1..Len(frames) : frames[k].auth =>
                     \/ \E l \in 1..Len(frames') : /\ frames'[l].frame = frames[k].frame
                                                   /\ frames'[l].auth
                     \/ pc = "print" /\ cur = k /\ frames[k].times = 1
<1>1. IInv /\ [Next]_receiverVars => [Kept]_receiverVars
  <2> SUFFICES ASSUME IInv, [Next]_receiverVars, NEW k \in 1..Len(frames), frames[k].auth
               PROVE  \/ StillThere(frames[k], frames')
                      \/ pc = "print" /\ cur = k /\ frames[k].times = 1
    BY DEF StillThere
  <2>1. frames \in Seq(Entries) /\ frames[k] \in Entries
    BY DEF IInv, TypeOK
  <2>2. frames' = frames => StillThere(frames[k], frames')
    BY <2>1 DEF StillThere
  <2>3. CASE SelectReady \/ SelectNothing \/ PrintDone \/ Tick \/ UNCHANGED receiverVars
    BY <2>2, <2>3 DEF SelectReady, SelectNothing, PrintDone, Tick, receiverVars
  <2>4. ASSUME NEW i \in Sockets, Recv(i)
        PROVE  StillThere(frames[k], frames')
    <3> DEFINE f == Head(sockQ[i])
    <3>1. f \in Frames
      BY <2>4, RecvTakesHead
    <3>2. CASE \E m \in Matching(f) : KeepShowing(f, m) \/ AwaitAnswer(f, m) \/ Replace(f, m)
      BY <3>1, <3>2, MatchKeepsAuthenticated
    <3>3. CASE AddPlain(f)
      <4>1. PICK e : frames' = Append(frames, e)
        BY <3>3 DEF AddPlain
      <4> QED
        BY <2>1, <4>1, AppendKeeps
    <3>4. CASE UNCHANGED frames
      BY <2>2, <3>4
    <3> QED
      BY <2>4, <3>2, <3>3, <3>4 DEF Recv, AddChallenged
  <2>5. CASE Store
    BY <2>1, <2>5, AppendKeeps DEF Store
  <2>6. CASE Show
    <3>1. cur \in 1..Len(frames) /\ pc = "print"
      BY <2>1, <2>6 DEF Show, IInv, TypeOK
    <3>2. CASE frames[cur].times = 1 /\ frames' = RemoveAt(frames, cur)
      <4>0. Len(frames) \in Nat /\ Len(frames') = Len(frames) - 1
        <5>1. Len(RemoveAt(frames, cur)) = Len(frames) - 1
          BY <2>1, <3>1, RemoveAtProperties
        <5> QED
          BY <2>1, <3>2, <5>1
      <4>1. CASE cur = k
        BY <3>1, <3>2, <4>1
      <4>2. CASE k < cur
        <5>1. k \in 1..(Len(frames) - 1) /\ k \in 1..Len(frames')
          BY <3>1, <4>0, <4>2
        <5>2. frames'[k] = frames[k]
          BY <2>1, <3>1, <3>2, <4>2, <5>1, RemoveAtProperties
        <5> QED
          BY <5>1, <5>2 DEF StillThere
      <4>3. CASE k > cur
        <5>1. k - 1 \in 1..(Len(frames) - 1) /\ k - 1 \in 1..Len(frames')
          BY <3>1, <4>0, <4>3
        <5>2. frames'[k - 1] = frames[(k - 1) + 1]
          <6>1. ~(k - 1 < cur)
            BY <2>1, <3>1, <4>3
          <6>2. frames'[k - 1] = IF k - 1 < cur THEN frames[k - 1] ELSE frames[(k - 1) + 1]
            BY <2>1, <3>1, <3>2, <5>1, RemoveAtProperties
          <6> QED
            BY <6>1, <6>2
        <5>3. frames'[k - 1] = frames[k]
          <6>1. (k - 1) + 1 = k
            BY <2>1
          <6> QED
            BY <5>2, <6>1
        <5> QED
          BY <5>1, <5>3 DEF StillThere
      <4> QED
        BY <3>1, <4>1, <4>2, <4>3
    <3>3. CASE frames' = [frames EXCEPT ![cur].times = @ - 1]
      <4>1. /\ k \in 1..Len(frames') /\ frames'[k].frame = frames[k].frame
            /\ frames'[k].auth = frames[k].auth
        <5> DEFINE e == [frames[cur] EXCEPT !.times = frames[cur].times - 1]
        <5>1. frames' = [frames EXCEPT ![cur] = e]
          BY <3>3
        <5>2. e.frame = frames[cur].frame /\ e.auth = frames[cur].auth
          BY <2>1, <3>1 DEF Entries
        <5> HIDE DEF e
        <5>3. Len(frames') = Len(frames) /\ frames'[k] = IF k = cur THEN e ELSE frames[k]
          BY <2>1, <5>1
        <5> QED
          BY <5>2, <5>3
      <4> QED
        BY <4>1 DEF StillThere
    <3> QED
      BY <2>6, <3>2, <3>3 DEF Show
  <2>7. ASSUME NEW f \in Frames, NEW S \in Deliveries, Arrives(f, S)
        PROVE  StillThere(frames[k], frames')
    BY <2>2, <2>7 DEF Arrives
  <2> QED
    BY <2>3, <2>4, <2>5, <2>6, <2>7 DEF Next, ReceiverStep, Arrival
<1> QED
  BY <1>1, Invariance, PTL DEF Spec, AuthenticatedKept
=============================================================================
