-------------------------- MODULE BeaconTextProofs --------------------------
(***************************************************************************)
(* For every command line, every translation of the descriptors and every  *)
(* frame, signed or not, padded, cut or overwritten: the receiver's walk   *)
(* finds what is left of the sender's TLVs, has room for it, and the       *)
(* display shows every entry that it makes of them.                        *)
(***************************************************************************)
EXTENDS BeaconText, PduBuilderProofs, FiniteSetTheorems, WellFoundedInduction

-----------------------------------------------------------------------------
(* Strings and what is done with them.                                     *)
WellFormed == {t \in TextSet : t.spaces \subseteq 0..(t.len - 1)}

LEMMA TextWellFormed ==
  ASSUME NEW t, IsText(t)
  PROVE  t \in WellFormed
<1>1. t = [len |-> t.len, spaces |-> t.spaces] /\ t.len \in Nat /\ t.spaces \subseteq 0..(t.len - 1)
  BY DEF IsText
<1>2. t.spaces \in SUBSET Int
  BY <1>1
<1> DEFINE n == t.len
           s == t.spaces
<1>3. t = [len |-> n, spaces |-> s] /\ n \in Nat /\ s \subseteq 0..(n - 1) /\ s \in SUBSET Int
  BY <1>1, <1>2
<1> HIDE DEF n, s
<1> QED
  BY <1>3 DEF WellFormed, TextSet

LEMMA MakeText ==
  ASSUME NEW n \in Nat, NEW s \in SUBSET (0..(n - 1))
  PROVE  /\ [len |-> n, spaces |-> s] \in WellFormed
         /\ [len |-> n, spaces |-> s].len = n
<1> DEFINE t == [len |-> n, spaces |-> s]
<1>1. s \in SUBSET Int
  OBVIOUS
<1>2. t \in TextSet /\ t.len = n /\ t.spaces = s
  BY <1>1 DEF TextSet
<1> HIDE DEF t
<1>3. t \in WellFormed
  BY <1>2 DEF WellFormed
<1> QED
  BY <1>2, <1>3 DEF t

LEMMA WordWellFormed ==
  ASSUME NEW n \in Nat
  PROVE  Word(n) \in WellFormed /\ Word(n).len = n
BY MakeText DEF Word

LEMMA EmptyWellFormed == Empty \in WellFormed /\ Empty.len = 0
BY WordWellFormed DEF Empty

LEMMA BlankWellFormed ==
  ASSUME NEW n \in Nat
  PROVE  Blank(n) \in WellFormed /\ Blank(n).len = n
BY MakeText DEF Blank

LEMMA CatWellFormed ==
  ASSUME NEW s \in WellFormed, NEW t \in WellFormed
  PROVE  Cat(s, t) \in WellFormed /\ Cat(s, t).len = s.len + t.len
<1>1. /\ s.len \in Nat /\ s.spaces \subseteq 0..(s.len - 1)
      /\ t.len \in Nat /\ t.spaces \subseteq 0..(t.len - 1)
  BY DEF WellFormed, TextSet
<1> DEFINE n == s.len + t.len
           sp == s.spaces \cup {s.len + p : p \in t.spaces}
<1>2. n \in Nat
  BY <1>1
<1>3. \A p \in t.spaces : s.len + p \in 0..(n - 1)
  BY <1>1
<1>4. \A p \in s.spaces : p \in 0..(n - 1)
  BY <1>1
<1>5. sp \in SUBSET (0..(n - 1))
  BY <1>3, <1>4
<1>6. Cat(s, t) = [len |-> n, spaces |-> sp]
  BY DEF Cat
<1> HIDE DEF n, sp
<1>7. Cat(s, t) \in WellFormed /\ Cat(s, t).len = n
  BY <1>2, <1>5, <1>6, MakeText
<1> QED
  BY <1>7 DEF n

LEMMA CutWellFormed ==
  ASSUME NEW t \in WellFormed, NEW n \in Nat
  PROVE  /\ Cut(t, n) \in WellFormed
         /\ Cut(t, n).len = IF t.len <= n THEN t.len ELSE n
<1>1. t.len \in Nat /\ t.spaces \subseteq 0..(t.len - 1)
  BY DEF WellFormed, TextSet
<1>2. CASE t.len <= n
  BY <1>2 DEF Cut
<1>3. CASE ~(t.len <= n)
  <2>1. {p \in t.spaces : p < n} \in SUBSET (0..(n - 1))
    BY <1>1
  <2> QED
    BY <1>3, <2>1, MakeText DEF Cut
<1> QED
  BY <1>2, <1>3

LEMMA PadWellFormed ==
  ASSUME NEW t \in WellFormed, NEW n \in Nat
  PROVE  Pad(t, n) \in WellFormed
<1>1. t.len \in Nat
  BY DEF WellFormed, TextSet
<1>2. CASE t.len < n
  <2>1. n - t.len \in Nat
    BY <1>1, <1>2
  <2> QED
    BY <1>2, <2>1, BlankWellFormed, CatWellFormed DEF Pad
<1> QED
  BY <1>2 DEF Pad

LEMMA ListWellFormed ==
  ASSUME NEW n \in Nat, NEW w \in Nat
  PROVE  List(n, w) \in WellFormed
<1>1. CASE n = 0
  BY <1>1, EmptyWellFormed DEF List
<1>2. CASE n # 0
  <2> DEFINE v == w + 2
             size == n * v - 2
             sp == {k * v - 1 : k \in 1..(n - 1)}
  <2>1. v \in Nat /\ v >= 2
    OBVIOUS
  <2>2. ASSUME NEW k \in 1..(n - 1)
        PROVE  k * v - 1 \in 0..(size - 1)
    <3>1. k * v >= v /\ k * v + v <= n * v
      <4> HIDE DEF v
      <4>1. (k - 1) * v >= 0 /\ (n - 1 - k) * v >= 0
        BY <2>1, <2>2
      <4>2. (k - 1) * v = k * v - v /\ (n - 1 - k) * v = n * v - v - k * v
        BY <2>1, <2>2
      <4>3. k * v \in Int /\ n * v \in Int
        BY <2>1, <2>2
      <4> QED
        BY <2>1, <4>1, <4>2, <4>3
    <3>2. k * v \in Int /\ n * v \in Int
      BY <2>1, <2>2
    <3> HIDE DEF v
    <3> DEFINE a == k * v
               b == n * v
    <3>3. a \in Int /\ b \in Int /\ a >= v /\ a + v <= b
      BY <3>1, <3>2
    <3> HIDE DEF a, b
    <3>4. a - 1 \in 0..(b - 2 - 1)
      BY <2>1, <3>3
    <3> QED
      BY <3>4 DEF a, b
  <2>3. size \in Nat
    <3> HIDE DEF v
    <3>1. (n - 1) * v >= 0 /\ (n - 1) * v = n * v - v /\ n * v \in Int
      BY <1>2, <2>1
    <3> DEFINE b == n * v
    <3>2. b \in Int /\ b - v >= 0
      BY <3>1
    <3> HIDE DEF b
    <3>3. b - 2 \in Nat
      BY <2>1, <3>2
    <3> QED
      BY <3>3 DEF b
  <2>4. sp \in SUBSET (0..(size - 1))
    BY <2>2
  <2>5. List(n, w) = [len |-> size, spaces |-> sp]
    BY <1>2 DEF List
  <2> HIDE DEF size, sp
  <2> QED
    BY <2>3, <2>4, <2>5, MakeText
<1> QED
  BY <1>1, <1>2

-----------------------------------------------------------------------------
(* What the PDU holds: the options in the order of the command line, and   *)
(* the combined strings in theirs.                                         *)
IsInfo(t) == t.subtype \in InfoOptions
IsCombined(t) == t.subtype = CombinedString
Before(t, u) == /\ IsInfo(t) /\ IsInfo(u) => t.of < u.of
                /\ IsCombined(t) /\ IsCombined(u) => t.n < u.n

(* Up to byte b: one behind the other, not only next to each other as in   *)
(* Chain, and none twice.                                                  *)
Behind(t) == t.at + t.length + 2
InOrder(s, b) ==
  /\ \A k \in 1..Len(s) : Behind(s[k]) <= b /\ s[k].text \in WellFormed
  /\ \A k, l \in 1..Len(s) : k < l => Behind(s[k]) <= s[l].at /\ Before(s[k], s[l])

(* What a TLV is of has been given, or is in a string that is done with.   *)
FromSource(t) ==
  /\ IsInfo(t) => t.of \in Information /\ t.of < optind
  /\ IsCombined(t) =>
       /\ pc \in {"strings", "built", "pastPdu"} /\ t.n \in Strings /\ t.n < next
       /\ combined[t.n].len > 0 /\ t.length = combined[t.n].len + 4

ContentsInv ==
  /\ Len(tlvs) > 0 /\ tlvs[1].at = 0
  /\ InOrder(tlvs, currentByte)
  /\ \A i \in Strings : combined[i] \in WellFormed
  /\ \A k \in 1..Len(tlvs) : FromSource(tlvs[k])
  /\ pc = "built" => /\ tlvs[Len(tlvs)].subtype = End
                     /\ tlvs[Len(tlvs)].length = 0
                     /\ tlvs[Len(tlvs)].at = currentByte - 2

LEMMA OptionWellFormed ==
  ASSUME argv \in CommandLines, NEW i \in 1..Len(argv)
  PROVE  argv[i].text \in WellFormed /\ argv[i].n \in Nat /\ argv[i].text.len \in Nat
<1>1. IsText(argv[i].text) /\ argv[i].n \in Nat
  <2>1. IsOption(argv[i])
    BY PduBuilderAssumption
  <2> QED
    BY <2>1 DEF IsOption
<1>2. argv[i].text \in WellFormed
  BY <1>1, TextWellFormed
<1> QED
  BY <1>1, <1>2 DEF WellFormed, TextSet

LEMMA SentenceWellFormed ==
  ASSUME NEW o, o.opt \in InfoOptions, o.text \in WellFormed
  PROVE  Sentence(o) \in WellFormed
<1> DEFINE d == Descriptor[o.opt]
           e == [len |-> 2, spaces |-> {1}]
<1>1. d \in Nat
  BY PduBuilderAssumption
<1> HIDE DEF d
<1>2. Cat(Word(d), Blank(1)) \in WellFormed
  BY <1>1, WordWellFormed, BlankWellFormed, CatWellFormed
<1>3. Cat(Cat(Word(d), Blank(1)), o.text) \in WellFormed
  BY <1>2, CatWellFormed
<1>4. e \in WellFormed
  BY MakeText
<1> HIDE DEF e
<1>5. Cat(Cat(Cat(Word(d), Blank(1)), o.text), e) \in WellFormed
  BY <1>3, <1>4, CatWellFormed
<1> QED
  BY <1>5 DEF Sentence, d, e

LEMMA StringsWellFormed ==
  ASSUME IInv, ContentsInv, NEW o, o.opt \in InfoOptions, o.text \in WellFormed,
         TransferToString(o)
  PROVE  \A i \in Strings : combined'[i] \in WellFormed
<1>1. /\ combined \in [Strings -> TextSet]
      /\ \A i \in Strings : combined[i] \in WellFormed
  BY DEF IInv, StringsInv, ContentsInv
<1>2. CASE UNCHANGED combined
  BY <1>1, <1>2
<1>3. CASE \E i \in Strings : combined' = [combined EXCEPT ![i] = Cat(@, Sentence(o))]
  <2>1. PICK i \in Strings : combined' = [combined EXCEPT ![i] = Cat(combined[i], Sentence(o))]
    BY <1>3
  <2>2. Cat(combined[i], Sentence(o)) \in WellFormed
    BY <1>1, SentenceWellFormed, CatWellFormed
  <2> QED
    BY <1>1, <2>1, <2>2
<1> QED
  BY <1>2, <1>3 DEF TransferToString

LEMMA TlvFields ==
  ASSUME NEW t \in TlvSet
  PROVE  t.at \in Nat /\ t.length \in Nat /\ t.of \in Nat /\ t.n \in Nat /\ Behind(t) \in Nat
<1>1. t.at \in Nat /\ t.length \in Nat /\ t.of \in Nat /\ t.n \in Nat
  BY DEF TlvSet
<1> QED
  BY <1>1 DEF Behind

(* A TLV put at the end.                                                   *)
LEMMA AppendInOrder ==
  ASSUME NEW s \in Seq(TlvSet), NEW b \in Nat, InOrder(s, b), NEW t \in TlvSet,
         t.at = b, t.text \in WellFormed, \A k \in 1..Len(s) : Before(s[k], t)
  PROVE  InOrder(Append(s, t), Behind(t))
<1> DEFINE u == Append(s, t)
<1>1. /\ u \in Seq(TlvSet) /\ Len(u) = Len(s) + 1 /\ u[Len(s) + 1] = t
      /\ \A k \in 1..Len(s) : u[k] = s[k]
  OBVIOUS
<1>2. Behind(t) \in Nat /\ b <= Behind(t) /\ \A k \in 1..Len(s) : Behind(s[k]) \in Nat
  <2>1. t.at \in Nat /\ t.length \in Nat /\ Behind(t) \in Nat
    BY TlvFields
  <2>2. ASSUME NEW k \in 1..Len(s) PROVE Behind(s[k]) \in Nat
    <3>1. s[k] \in TlvSet
      OBVIOUS
    <3> QED
      BY <3>1, TlvFields
  <2> DEFINE a == t.at
             n == t.length
  <2>3. Behind(t) = a + n + 2 /\ a = b /\ n \in Nat
    BY <2>1 DEF Behind
  <2> HIDE DEF a, n
  <2>4. b <= Behind(t)
    BY <2>3
  <2> QED
    BY <2>1, <2>2, <2>4
<1> HIDE DEF u
<1>3. ASSUME NEW k \in 1..Len(u) PROVE Behind(u[k]) <= Behind(t) /\ u[k].text \in WellFormed
  <2>1. CASE k = Len(s) + 1
    BY <1>1, <1>2, <2>1
  <2>2. CASE k \in 1..Len(s)
    BY <1>1, <1>2, <2>2 DEF InOrder
  <2> QED
    BY <1>1, <2>1, <2>2
<1>4. ASSUME NEW k \in 1..Len(u), NEW l \in 1..Len(u), k < l
      PROVE  Behind(u[k]) <= u[l].at /\ Before(u[k], u[l])
  <2>1. k \in 1..Len(s) /\ u[k] = s[k]
    BY <1>1, <1>4
  <2>2. CASE l = Len(s) + 1
    BY <1>1, <2>1, <2>2 DEF InOrder
  <2>3. CASE l \in 1..Len(s)
    BY <1>1, <1>4, <2>1, <2>3 DEF InOrder
  <2> QED
    BY <1>1, <2>2, <2>3
<1> QED
  BY <1>3, <1>4 DEF InOrder, u

-----------------------------------------------------------------------------
(* t is what transfer_to_pdu puts into the PDU.                            *)
Adds(subtype, length, of, text, n, t) ==
  /\ t \in TlvSet /\ t.text \in WellFormed
  /\ t.subtype = subtype /\ t.at = currentByte /\ t.of = of /\ t.n = n
  /\ length <= 507 => t.length = length + 4
  /\ length <= 1500 /\ length = text.len => t.text = Cut(text, 507)
  /\ Behind(t) <= currentByte + 6 + length
  /\ tlvs' = Append(tlvs, t) /\ currentByte' = Behind(t)

Refuses(length) ==
  /\ UNCHANGED <<tlvs, currentByte>>
  /\ length <= 1500 => 1500 < currentByte + 6 + length

LEMMA TransferAdds ==
  ASSUME NEW subtype, NEW length, NEW of, NEW text, NEW n,
         ProperTransfer(subtype, length, of, text, n), text \in WellFormed,
         currentByte \in Nat
  PROVE  \/ Refuses(length)
         \/ \E t : Adds(subtype, length, of, text, n, t)
<1> DEFINE l == length % 65536
           z == IF l > 507 THEN 507 ELSE l
           cut == Cut(text, z)
           field == (z + 4) % 512
           t == Tlv(subtype, currentByte, field, of, cut, n)
<1>1. \/ 1500 < l + currentByte + 6 /\ UNCHANGED <<tlvs, currentByte>>
      \/ tlvs' = Append(tlvs, t) /\ currentByte' = currentByte + 6 + z
  BY DEF ProperTransfer, TransferToPdu
<1>2. length \in Nat
  BY DEF ProperTransfer
<1>3. l \in Nat /\ l <= length /\ (length <= 1500 => l = length)
  BY <1>2
<1>4. text.len \in Nat
  BY DEF WellFormed, TextSet
<1> HIDE DEF l
<1>5. z \in 0..507 /\ z <= l /\ (l <= 507 => z = l) /\ (l > 507 => z = 507)
  BY <1>3
<1>6. length <= 1500 /\ length = text.len => cut = Cut(text, 507)
  <2> SUFFICES ASSUME length <= 1500, length = text.len PROVE cut = Cut(text, 507)
    OBVIOUS
  <2>1. CASE text.len <= 507
    <3>1. z = text.len
      BY <1>2, <1>3, <1>5, <2>1
    <3> HIDE DEF z
    <3> QED
      BY <1>4, <2>1, <3>1 DEF Cut
  <2>2. CASE text.len > 507
    <3>1. z = 507
      BY <1>2, <1>3, <1>5, <2>2
    <3> QED
      BY <3>1
  <2> QED
    BY <1>4, <2>1, <2>2
<1>7. cut \in WellFormed
  <2>1. z \in Nat
    BY <1>5
  <2> HIDE DEF z
  <2> QED
    BY <2>1, CutWellFormed
<1> HIDE DEF z
<1>8. field = z + 4 /\ field \in 0..511
  BY <1>5
<1> HIDE DEF cut, field
<1>9. /\ t \in TlvSet /\ t.subtype = subtype /\ t.at = currentByte /\ t.length = field
      /\ t.of = of /\ t.text = cut /\ t.n = n
  <2>1. /\ subtype \in Subtypes /\ of \in Nat /\ n \in Nat /\ cut \in TextSet
    BY <1>7 DEF ProperTransfer, WellFormed
  <2> QED
    BY <1>8, <2>1 DEF Tlv, TlvSet
<1> HIDE DEF t
<1>10. CASE 1500 < l + currentByte + 6 /\ UNCHANGED <<tlvs, currentByte>>
  <2>1. length <= 1500 => 1500 < currentByte + 6 + length
    BY <1>2, <1>3, <1>10
  <2> QED
    BY <1>10, <2>1 DEF Refuses
<1>11. CASE tlvs' = Append(tlvs, t) /\ currentByte' = currentByte + 6 + z
  <2>1. Behind(t) = currentByte + 6 + z
    BY <1>5, <1>8, <1>9 DEF Behind
  <2>2. currentByte + 6 + z <= currentByte + 6 + length
    BY <1>2, <1>3, <1>5
  <2>3. length <= 507 => field = length + 4
    BY <1>2, <1>3, <1>5, <1>8
  <2>4. Adds(subtype, length, of, text, n, t)
    BY <1>6, <1>7, <1>9, <1>11, <2>1, <2>2, <2>3 DEF Adds
  <2> QED
    BY <2>4
<1> QED
  BY <1>1, <1>10, <1>11

(* What no step of the sender takes back.                                  *)
Grows ==
  /\ argv' = argv /\ optind <= optind' /\ next <= next'
  /\ pc \in {"strings", "built", "pastPdu"} =>
       pc' \in {"strings", "built", "pastPdu"} /\ combined' = combined

LEMMA SourceStays ==
  ASSUME IInv, Grows, IInv', NEW t \in TlvSet, FromSource(t)
  PROVE  FromSource(t)'
<1>1. /\ optind \in Int /\ optind' \in Int /\ next \in Int /\ next' \in Int
      /\ t.of \in Int /\ t.n \in Int
  <2>1. optind \in Int /\ optind' \in Int
    <3>1. argv \in CommandLines /\ Len(argv) \in Nat /\ argv' = argv
      BY OptionTyped DEF IInv, LoopInv, Grows
    <3> QED
      BY <3>1 DEF IInv, LoopInv
  <2> QED
    BY <2>1 DEF IInv, LoopInv, TlvSet
<1>2. IsInfo(t) => t.of \in Information' /\ t.of < optind'
  BY <1>1 DEF FromSource, Grows, Information
<1>3. IsCombined(t) =>
        /\ pc' \in {"strings", "built", "pastPdu"} /\ t.n \in Strings /\ t.n < next'
        /\ combined'[t.n].len > 0 /\ t.length = combined'[t.n].len + 4
  BY <1>1 DEF FromSource, Grows
<1> QED
  BY <1>2, <1>3 DEF FromSource

LEMMA ContentsKept ==
  ASSUME IInv, IInv', ContentsInv, Grows, UNCHANGED <<tlvs, currentByte>>,
         \A i \in Strings : combined'[i] \in WellFormed, pc' = "built" => pc = "built"
  PROVE  ContentsInv'
<1>1. \A k \in 1..Len(tlvs) : tlvs[k] \in TlvSet
  BY DEF IInv, PduInv
<1>2. ASSUME NEW k \in 1..Len(tlvs) PROVE FromSource(tlvs[k])'
  <2> DEFINE t == tlvs[k]
  <2>0. tlvs' = tlvs
    OBVIOUS
  <2>1. t \in TlvSet /\ FromSource(t) /\ tlvs'[k] = t
    BY <1>1 DEF ContentsInv
  <2> HIDE DEF t
  <2>2. \A u \in TlvSet : FromSource(u) => FromSource(u)'
    BY SourceStays
  <2>3. FromSource(t) => (IsInfo(t) => t.of \in Information' /\ t.of < optind')
    BY <2>1, <2>2 DEF FromSource
  <2> QED
    BY <2>1, <2>2 DEF FromSource
<1>3. InOrder(tlvs', currentByte')
  BY DEF ContentsInv
<1>4. \A k \in 1..Len(tlvs') : FromSource(tlvs[k])'
  BY <1>2
<1> QED
  BY <1>3, <1>4 DEF ContentsInv

LEMMA ContentsAdded ==
  ASSUME IInv, IInv', ContentsInv, Grows, \A i \in Strings : combined'[i] \in WellFormed,
         NEW t \in TlvSet, t.text \in WellFormed, t.at = currentByte,
         tlvs' = Append(tlvs, t), currentByte' = Behind(t), currentByte \in Nat,
         \A k \in 1..Len(tlvs) : Before(tlvs[k], t), FromSource(t)',
         pc' = "built" => t.subtype = End /\ t.length = 0
  PROVE  ContentsInv'
<1>1. tlvs \in Seq(TlvSet) /\ InOrder(tlvs, currentByte)
  BY DEF IInv, PduInv, ContentsInv
<1>2. InOrder(Append(tlvs, t), Behind(t))
  BY <1>1, AppendInOrder
<1>3. /\ Len(tlvs') = Len(tlvs) + 1 /\ Len(tlvs) \in Nat /\ tlvs'[Len(tlvs')] = t
      /\ \A k \in 1..Len(tlvs) : tlvs'[k] = tlvs[k] /\ tlvs[k] \in TlvSet
  BY <1>1
<1>4. \A u \in TlvSet : FromSource(u) => FromSource(u)'
  BY SourceStays
<1>5. ASSUME NEW k \in 1..Len(tlvs') PROVE FromSource(tlvs[k])'
  <2>1. \E u \in TlvSet : u = tlvs'[k] /\ FromSource(u)'
    <3>1. CASE k \in 1..Len(tlvs)
      <4>1. PICK u \in TlvSet : u = tlvs[k]
        BY <1>3, <3>1
      <4>2. FromSource(u)
        BY <3>1, <4>1 DEF ContentsInv
      <4>3. FromSource(u)'
        BY <1>4, <4>2
      <4> QED
        BY <1>3, <3>1, <4>1, <4>3
    <3>2. CASE k = Len(tlvs) + 1
      BY <1>3, <3>2
    <3> QED
      BY <1>3, <3>1, <3>2
  <2>2. PICK u \in TlvSet : u = tlvs'[k] /\ FromSource(u)'
    BY <2>1
  <2> QED
    BY <2>2 DEF FromSource
<1>6. pc' = "built" => tlvs'[Len(tlvs')].at = currentByte' - 2
  <2>1. t.at + 0 + 2 - 2 = t.at
    BY TlvFields
  <2> QED
    BY <1>3, <2>1 DEF Behind
<1>7. Len(tlvs') > 0 /\ tlvs'[1].at = 0
  <2>1. 1 \in 1..Len(tlvs) /\ tlvs[1].at = 0
    BY <1>3 DEF ContentsInv
  <2> QED
    BY <1>3, <2>1
<1> QED
  BY <1>2, <1>3, <1>5, <1>6, <1>7 DEF ContentsInv

LEMMA InitContents == Init => ContentsInv
<1> SUFFICES ASSUME Init PROVE ContentsInv
  OBVIOUS
<1> DEFINE t1 == Tlv(Chassis, 0, 7, 0, Empty, 0)
           t2 == Tlv(Port, 9, 7, 0, Empty, 0)
           t3 == Tlv(Ttl, 18, 2, 0, Empty, 0)
<1>1. /\ t1.at = 0 /\ t1.length = 7 /\ t1.text = Empty /\ t1.subtype = Chassis
      /\ t2.at = 9 /\ t2.length = 7 /\ t2.text = Empty /\ t2.subtype = Port
      /\ t3.at = 18 /\ t3.length = 2 /\ t3.text = Empty /\ t3.subtype = Ttl
  BY DEF Tlv
<1>2. \A t \in {t1, t2, t3} : ~IsInfo(t) /\ ~IsCombined(t) /\ t.text \in WellFormed
  <2>1. \A s \in {Chassis, Port, Ttl} : s \notin InfoOptions /\ s # CombinedString
    BY DEF Chassis, Port, Ttl, InfoOptions, TextOptions, CombinedString
  <2> HIDE DEF t1, t2, t3
  <2> QED
    BY <1>1, <2>1, EmptyWellFormed DEF IsInfo, IsCombined
<1>3. Behind(t1) = 9 /\ Behind(t2) = 18 /\ Behind(t3) = 22
  <2> HIDE DEF t1, t2, t3
  <2> QED
    BY <1>1 DEF Behind
<1>4. tlvs = <<t1, t2, t3>> /\ currentByte = 22 /\ pc = "main"
  BY DEF Init
<1> HIDE DEF t1, t2, t3
<1>5. Len(tlvs) = 3 /\ tlvs[1] = t1 /\ tlvs[2] = t2 /\ tlvs[3] = t3
  BY <1>4
<1>6. \A k \in 1..3 : k = 1 \/ k = 2 \/ k = 3
  OBVIOUS
<1>7. \A k \in 1..Len(tlvs) :
        /\ ~IsInfo(tlvs[k]) /\ ~IsCombined(tlvs[k]) /\ tlvs[k].text \in WellFormed
        /\ Behind(tlvs[k]) <= 22
  BY <1>2, <1>3, <1>5, <1>6
<1>8. \A k, l \in 1..Len(tlvs) : k < l => Behind(tlvs[k]) <= tlvs[l].at
  BY <1>1, <1>3, <1>5, <1>6
<1>9. \A i \in Strings : combined[i] \in WellFormed
  BY EmptyWellFormed DEF Init
<1> QED
  BY <1>1, <1>4, <1>5, <1>7, <1>8, <1>9 DEF ContentsInv, InOrder, Before, FromSource

(* An option with information: nothing is put, or a TLV that is the first  *)
(* of this option.                                                         *)
LEMMA InfoContents ==
  ASSUME IInv, IInv', ContentsInv, pc = "options", optind \in 1..Len(argv),
         argv[optind].opt \in InfoOptions, TransferToString(argv[optind]),
         argv' = argv, optind' = optind + 1, next' = next, pc' # "built",
         NEW length, NEW text, NEW n,
         ProperTransfer(argv[optind].opt, length, optind, text, n), text \in WellFormed
  PROVE  ContentsInv'
<1> DEFINE o == argv[optind]
<1>1. /\ argv \in CommandLines /\ optind \in Nat /\ next \in Nat /\ currentByte \in Nat
      /\ tlvs \in Seq(TlvSet)
  <2>1. Len(argv) \in Nat
    BY OptionTyped DEF IInv, LoopInv
  <2> QED
    BY <2>1 DEF IInv, LoopInv, PduInv
<1>2. Grows
  BY <1>1 DEF Grows
<1>3. \A i \in Strings : combined'[i] \in WellFormed
  <2>1. o.text \in WellFormed
    BY <1>1, OptionWellFormed
  <2> QED
    BY <2>1, StringsWellFormed
<1>4. CASE Refuses(length)
  BY <1>2, <1>3, <1>4, ContentsKept DEF Refuses
<1>5. CASE \E t : Adds(o.opt, length, optind, text, n, t)
  <2>1. PICK t : Adds(o.opt, length, optind, text, n, t)
    BY <1>5
  <2>2. /\ t \in TlvSet /\ t.text \in WellFormed /\ t.subtype = o.opt /\ t.at = currentByte
        /\ t.of = optind /\ tlvs' = Append(tlvs, t) /\ currentByte' = Behind(t)
    BY <2>1 DEF Adds
  <2>3. IsInfo(t) /\ ~IsCombined(t)
    BY <2>2 DEF IsInfo, IsCombined, InfoOptions, TextOptions, CombinedString
  <2>4. ASSUME NEW k \in 1..Len(tlvs) PROVE Before(tlvs[k], t)
    <3>1. FromSource(tlvs[k]) /\ tlvs[k] \in TlvSet
      BY <1>1 DEF ContentsInv
    <3>2. IsInfo(tlvs[k]) => tlvs[k].of < optind /\ tlvs[k].of \in Nat
      BY <3>1, TlvFields DEF FromSource
    <3> QED
      BY <1>1, <2>2, <2>3, <3>2 DEF Before
  <2>5. FromSource(t)'
    <3>1. optind \in Information' /\ optind < optind'
      BY <1>1 DEF Information
    <3> QED
      BY <2>2, <2>3, <3>1 DEF FromSource
  <2> QED
    BY <1>1, <1>2, <1>3, <2>2, <2>4, <2>5, ContentsAdded
<1> QED
  BY <1>1, <1>4, <1>5, TransferAdds

(* What an option with information asks transfer_to_pdu for.               *)
Asks(o, length, text, n) ==
  /\ ProperTransfer(o.opt, length, optind, text, n) /\ text \in WellFormed
  /\ Bytes(o) = 6 + length
  /\ o.opt \in TextOptions => text = o.text /\ length = text.len
  /\ o.opt \in {"4", "6"} => n = Found(o)

Informs ==
  /\ pc = "options" /\ pc' \notin {"main", "strings", "built"}
  /\ optind \in 1..Len(argv) /\ argv[optind].opt \in InfoOptions
  /\ TransferToString(argv[optind])
  /\ argv' = argv /\ optind' = optind + 1 /\ next' = next
  /\ \E length, text, n : Asks(argv[optind], length, text, n)

LEMMA InfoInforms ==
  ASSUME IInv, NEW i \in 1..Len(argv),
         OptText(argv[i]) \/ OptVlanId(argv[i]) \/ OptIp(argv[i])
  PROVE  Informs
<1> DEFINE o == argv[optind]
<1>1. argv \in CommandLines /\ optind \in Nat /\ optind \in 1..(Len(argv) + 1) /\ Len(argv) \in Nat
  BY OptionTyped DEF IInv, LoopInv
<1>2. Option(argv[i]) /\ argv[i] = o /\ optind \in 1..Len(argv) /\ pc = "options"
  BY <1>1 DEF OptText, OptVlanId, OptIp, Option
<1>3. o.text \in WellFormed /\ o.text \in TextSet /\ o.n \in Nat /\ o.text.len \in Nat
  BY <1>1, <1>2, OptionWellFormed DEF WellFormed
<1>4. CASE OptText(o)
  <2>1. o.opt \in InfoOptions /\ o.opt \in Subtypes /\ o.opt \in TextOptions
    BY <1>4 DEF OptText, InfoOptions, Subtypes
  <2>2. Bytes(o) = 6 + o.text.len
    BY <2>1 DEF Bytes, TextOptions
  <2>3. Asks(o, o.text.len, o.text, 0)
    BY <1>1, <1>3, <1>4, <2>1, <2>2 DEF Asks, ProperTransfer, OptText, TextOptions
  <2>4. pc' \notin {"main", "strings", "built"}
    BY <1>2, <1>4 DEF OptText, AfterString
  <2> QED
    BY <1>2, <1>4, <2>1, <2>3, <2>4 DEF Informs, OptText
<1>5. CASE OptVlanId(o)
  <2>1. /\ o.opt \in InfoOptions /\ o.opt \in Subtypes /\ o.opt \notin TextOptions
        /\ o.opt = "i"
    BY <1>5 DEF OptVlanId, InfoOptions, Subtypes, TextOptions
  <2>2. Bytes(o) = 6 + 2
    BY <2>1 DEF Bytes
  <2>3. Asks(o, 2, Empty, o.n)
    BY <1>1, <1>3, <1>5, <2>1, <2>2, EmptyTyped, EmptyWellFormed
    DEF Asks, ProperTransfer, OptVlanId
  <2>4. pc' \notin {"main", "strings", "built"}
    BY <1>2, <1>5 DEF OptVlanId, AfterString
  <2> QED
    BY <1>2, <1>5, <2>1, <2>3, <2>4 DEF Informs, OptVlanId
<1>6. CASE OptIp(o)
  <2> DEFINE found == Found(o)
             size == found * (IF o.opt = "4" THEN 5 ELSE 17)
  <2>1. /\ o.opt \in InfoOptions /\ o.opt \in Subtypes /\ o.opt \notin TextOptions
        /\ o.opt \in {"4", "6"}
    BY <1>6 DEF OptIp, InfoOptions, Subtypes, TextOptions
  <2>2. found \in Nat
    BY <1>3 DEF Found
  <2>3. Bytes(o) = 6 + (IF o.opt = "4" THEN 5 * found ELSE 17 * found)
    BY <2>1 DEF Bytes
  <2>4. TransferToPdu(o.opt, size, optind, Empty, found)
    BY <1>6 DEF OptIp
  <2>5. pc' \notin {"main", "strings", "built"}
    BY <1>2, <1>6 DEF OptIp, AfterString
  <2> HIDE DEF found
  <2>6. 5 * found = found * 5 /\ 17 * found = found * 17 /\ found * 5 \in Nat /\ found * 17 \in Nat
    BY <2>2
  <2>7. size \in Nat /\ Bytes(o) = 6 + size
    BY <2>3, <2>6
  <2> HIDE DEF size
  <2>9. found = Found(o)
    BY DEF found
  <2>8. Asks(o, size, Empty, found)
    BY <1>1, <2>1, <2>2, <2>4, <2>7, <2>9, EmptyTyped, EmptyWellFormed
    DEF Asks, ProperTransfer
  <2> QED
    BY <1>2, <1>6, <2>1, <2>5, <2>8 DEF Informs, OptIp
<1> QED
  BY <1>2, <1>4, <1>5, <1>6

(* Every other option leaves the PDU alone.                                *)
Passes ==
  /\ pc = "options" /\ pc' \notin {"main", "strings", "built"}
  /\ optind \in 1..Len(argv) /\ argv[optind].opt \notin InfoOptions
  /\ optind' = optind + 1
  /\ UNCHANGED <<argv, tlvs, currentByte, combined, next>>

LEMMA OtherPasses ==
  ASSUME IInv, NEW i \in 1..Len(argv),
         OptPassword(argv[i]) \/ OptPath(argv[i]) \/ OptOther(argv[i])
  PROVE  Passes
<1>1. optind \in 1..(Len(argv) + 1) /\ Len(argv) \in Nat
  BY OptionTyped DEF IInv, LoopInv
<1>2. Option(argv[i]) /\ argv[i] = argv[optind] /\ optind \in 1..Len(argv) /\ pc = "options"
  BY <1>1 DEF OptPassword, OptPath, OptOther, Option
<1>3. argv[i].opt \notin InfoOptions
  BY DEF OptPassword, OptPath, OptOther, InfoOptions, TextOptions
<1> QED
  BY <1>2, <1>3 DEF Passes, OptPassword, OptPath, OptOther

(* The steps of the sender that read no option.                            *)
LEMMA AddCombinedContents ==
  ASSUME IInv, IInv', ContentsInv, AddCombined
  PROVE  ContentsInv'
<1>1. /\ next \in Strings /\ next \in Nat /\ pc = "strings" /\ next' = next + 1
      /\ currentByte \in Nat /\ tlvs \in Seq(TlvSet) /\ UNCHANGED <<pc, argv, optind, combined>>
  <2>1. /\ next \in Strings /\ pc = "strings" /\ next' = next + 1
        /\ UNCHANGED <<pc, argv, optind, combined>>
    BY DEF AddCombined
  <2>2. next \in Nat
    BY <2>1 DEF Strings
  <2>3. currentByte \in Nat /\ tlvs \in Seq(TlvSet)
    BY <2>1 DEF IInv, PduInv
  <2> QED
    BY <2>1, <2>2, <2>3
<1>2. Grows
  <2>1. optind \in Int
    <3>1. Len(argv) \in Nat
      BY OptionTyped DEF IInv, LoopInv
    <3> QED
      BY <3>1 DEF IInv, LoopInv
  <2> QED
    BY <1>1, <2>1 DEF Grows
<1>3. \A i \in Strings : combined'[i] \in WellFormed
  BY <1>1 DEF ContentsInv
<1>4. CASE UNCHANGED <<tlvs, currentByte>>
  BY <1>1, <1>2, <1>3, <1>4, ContentsKept
<1> DEFINE c == combined[next]
<1>5. CASE c.len > 0 /\ TransferToPdu(CombinedString, c.len, 0, c, next)
  <2>1. c \in WellFormed /\ c \in TextSet /\ c.len \in Nat /\ c.len <= 507
    <3>1. Lens[next] \in 0..507 /\ Lens[next] = c.len
      BY <1>1 DEF IInv, StringsInv, Lens
    <3> HIDE DEF c
    <3>2. c.len \in Nat /\ c.len <= 507
      BY <3>1
    <3> QED
      BY <1>1, <3>2 DEF ContentsInv, WellFormed, c
  <2>2. CombinedString \in Subtypes /\ 0 \in Nat
    BY DEF Subtypes
  <2>3. ProperTransfer(CombinedString, c.len, 0, c, next)
    BY <1>1, <1>5, <2>1, <2>2 DEF ProperTransfer
  <2>4. Refuses(c.len) \/ \E t : Adds(CombinedString, c.len, 0, c, next, t)
    BY <1>1, <2>1, <2>3, TransferAdds
  <2>5. CASE Refuses(c.len)
    BY <1>4, <2>5 DEF Refuses
  <2>6. CASE \E t : Adds(CombinedString, c.len, 0, c, next, t)
    <3>1. PICK t : Adds(CombinedString, c.len, 0, c, next, t)
      BY <2>6
    <3>2. /\ t \in TlvSet /\ t.text \in WellFormed /\ t.subtype = CombinedString
          /\ t.at = currentByte /\ t.n = next /\ t.length = c.len + 4
          /\ tlvs' = Append(tlvs, t) /\ currentByte' = Behind(t)
      BY <2>1, <3>1 DEF Adds
    <3>3. IsCombined(t) /\ ~IsInfo(t)
      BY <3>2 DEF IsInfo, IsCombined, InfoOptions, TextOptions, CombinedString
    <3>4. ASSUME NEW k \in 1..Len(tlvs) PROVE Before(tlvs[k], t)
      <4>1. FromSource(tlvs[k]) /\ tlvs[k] \in TlvSet
        BY <1>1 DEF ContentsInv
      <4>2. IsCombined(tlvs[k]) => tlvs[k].n < next /\ tlvs[k].n \in Nat
        BY <4>1, TlvFields DEF FromSource
      <4> QED
        BY <1>1, <3>2, <3>3, <4>2 DEF Before
    <3>5. FromSource(t)'
      <4>1. next < next'
        BY <1>1
      <4>2. combined'[next].len > 0 /\ t.length = combined'[next].len + 4
        BY <1>1, <1>5, <3>2
      <4> QED
        BY <1>1, <3>2, <3>3, <4>1, <4>2 DEF FromSource
    <3> QED
      BY <1>1, <1>2, <1>3, <3>2, <3>4, <3>5, ContentsAdded
  <2> QED
    BY <2>4, <2>5, <2>6
<1> QED
  BY <1>4, <1>5 DEF AddCombined

LEMMA FinishContents ==
  ASSUME IInv, IInv', ContentsInv, Finish
  PROVE  ContentsInv'
<1>1. /\ pc = "strings" /\ pc' \in {"built", "pastPdu"}
      /\ UNCHANGED <<argv, optind, combined, next>>
      /\ currentByte \in Nat /\ tlvs \in Seq(TlvSet)
  BY DEF Finish, IInv, PduInv
<1>2. Grows
  <2>1. optind \in Int /\ next \in Int
    <3>1. Len(argv) \in Nat
      BY OptionTyped DEF IInv, LoopInv
    <3> QED
      BY <3>1 DEF IInv, LoopInv
  <2> QED
    BY <1>1, <2>1 DEF Grows
<1>3. \A i \in Strings : combined'[i] \in WellFormed
  BY <1>1 DEF ContentsInv
<1> DEFINE t == Tlv(End, currentByte, 0, 0, Empty, 0)
<1>4. tlvs' = Append(tlvs, t) /\ currentByte' = currentByte + 2
  BY DEF Finish
<1>5. t \in TlvSet /\ t.at = currentByte /\ t.length = 0 /\ t.subtype = End /\ t.text = Empty
  <2>1. End \in Subtypes
    BY DEF Subtypes
  <2> QED
    BY <1>1, <2>1, EmptyTyped DEF Tlv, TlvSet
<1> HIDE DEF t
<1>6. \E u : u = t
  OBVIOUS
<1>7. PICK u : u = t
  BY <1>6
<1>8. ~IsInfo(u) /\ ~IsCombined(u)
  BY <1>5, <1>7 DEF IsInfo, IsCombined, InfoOptions, TextOptions, CombinedString, End
<1>9. \A k \in 1..Len(tlvs) : Before(tlvs[k], u)
  BY <1>8 DEF Before
<1>10. FromSource(u)'
  BY <1>8 DEF FromSource
<1>11. currentByte' = Behind(u)
  BY <1>1, <1>4, <1>5, <1>7 DEF Behind
<1> QED
  BY <1>1, <1>2, <1>3, <1>4, <1>5, <1>7, <1>9, <1>10, <1>11, EmptyWellFormed, ContentsAdded

LEMMA StepContents ==
  ASSUME IInv, ContentsInv, [Next]_builderVars
  PROVE  ContentsInv'
<1>1. IInv'
  BY StepIInv
<1>2. /\ argv \in CommandLines /\ Len(argv) \in Nat /\ optind \in Int /\ next \in Int
      /\ currentByte \in Nat
  <2>1. Len(argv) \in Nat
    BY OptionTyped DEF IInv, LoopInv
  <2> QED
    BY <2>1 DEF IInv, LoopInv, PduInv
<1>3. CASE Informs
  <2>1. PICK length, text, n : Asks(argv[optind], length, text, n)
    BY <1>3 DEF Informs
  <2> QED
    BY <1>1, <1>3, <2>1, InfoContents DEF Informs, Asks
<1>4. ASSUME Grows, UNCHANGED <<tlvs, currentByte, combined>>, pc' = "built" => pc = "built"
      PROVE  ContentsInv'
  <2>1. \A i \in Strings : combined'[i] \in WellFormed
    BY <1>4 DEF ContentsInv
  <2> QED
    BY <1>1, <1>4, <2>1, ContentsKept
<1>5. CASE Passes
  <2>1. Grows
    BY <1>2, <1>5 DEF Passes, Grows
  <2> QED
    BY <1>4, <1>5, <2>1 DEF Passes
<1>6. CASE Main \/ EndOptions \/ UNCHANGED builderVars
  <2>1. Grows
    BY <1>2, <1>6 DEF Main, EndOptions, builderVars, Grows
  <2> QED
    BY <1>4, <1>6, <2>1 DEF Main, EndOptions, builderVars
<1> QED
  BY <1>1, <1>3, <1>5, <1>6, InfoInforms, OtherPasses, AddCombinedContents, FinishContents
  DEF Next, OptionStep

-----------------------------------------------------------------------------
(* While the options together ask for no more than a PDU holds, each one   *)
(* that has been read has its TLV.                                         *)
Sent(i) ==
  \E k \in 1..Len(tlvs) :
    /\ tlvs[k].of = i
    /\ argv[i].opt \in TextOptions => tlvs[k].text = Cut(argv[i].text, 507)
    /\ argv[i].opt \in {"4", "6"} => tlvs[k].n = Found(argv[i])

AskedInv ==
  /\ asked \in Nat
  /\ pc \in {"main", "options"} => currentByte <= asked
  /\ asked <= 1500 => \A i \in Information : i < optind => Sent(i)

Counts == asked' = IF optind' # optind /\ argv[optind].opt \in InfoOptions
                     THEN asked + Bytes(argv[optind]) ELSE asked

LEMMA SentStays ==
  ASSUME argv' = argv, tlvs \in Seq(TlvSet), NEW i, Sent(i),
         tlvs' = tlvs \/ \E t : tlvs' = Append(tlvs, t)
  PROVE  Sent(i)'
<1>1. CASE tlvs' = tlvs
  BY <1>1 DEF Sent, Found
<1>2. CASE \E t : tlvs' = Append(tlvs, t)
  <2>1. PICK t : tlvs' = Append(tlvs, t)
    BY <1>2
  <2>2. \A k \in 1..Len(tlvs) : k \in 1..Len(tlvs') /\ tlvs'[k] = tlvs[k]
    BY <2>1
  <2> QED
    BY <2>2 DEF Sent, Found
<1> QED
  BY <1>1, <1>2

LEMMA StepAsked ==
  ASSUME IInv, AskedInv, [Next]_builderVars, Counts
  PROVE  AskedInv'
<1>1. /\ argv \in CommandLines /\ Len(argv) \in Nat /\ optind \in Nat /\ asked \in Nat
      /\ currentByte \in Nat /\ tlvs \in Seq(TlvSet)
  <2>1. Len(argv) \in Nat
    BY OptionTyped DEF IInv, LoopInv
  <2> QED
    BY <2>1 DEF IInv, LoopInv, PduInv, AskedInv
<1>2. ASSUME argv' = argv, tlvs' = tlvs \/ \E t : tlvs' = Append(tlvs, t)
      PROVE  \A i : Sent(i) => Sent(i)'
  BY <1>1, <1>2, SentStays
<1>3. CASE Informs
  <2> DEFINE o == argv[optind]
  <2>1. PICK length, text, n : Asks(o, length, text, n)
    BY <1>3 DEF Informs
  <2>2. length \in Nat /\ asked' = asked + 6 + length
    <3>1. asked' = asked + Bytes(o)
      BY <1>1, <1>3 DEF Informs, Counts
    <3>2. length \in Nat /\ Bytes(o) = 6 + length
      BY <2>1 DEF Asks, ProperTransfer
    <3> QED
      BY <1>1, <3>1, <3>2
  <2>3. currentByte <= asked /\ argv' = argv /\ optind' = optind + 1
    BY <1>3 DEF Informs, AskedInv
  <2>4. CASE Refuses(length)
    <3>1. UNCHANGED <<tlvs, currentByte>> /\ (length <= 1500 => 1500 < currentByte + 6 + length)
      BY <2>4 DEF Refuses
    <3>2. currentByte' <= asked' /\ ~(asked' <= 1500) /\ asked' \in Nat
      BY <1>1, <2>2, <2>3, <3>1
    <3> QED
      BY <3>2 DEF AskedInv
  <2>5. CASE \E t : Adds(o.opt, length, optind, text, n, t)
    <3>1. PICK t : Adds(o.opt, length, optind, text, n, t)
      BY <2>5
    <3>2. /\ tlvs' = Append(tlvs, t) /\ currentByte' = Behind(t) /\ t \in TlvSet
          /\ t.of = optind /\ t.n = n /\ Behind(t) <= currentByte + 6 + length
          /\ length <= 1500 /\ length = text.len => t.text = Cut(text, 507)
      BY <3>1 DEF Adds
    <3>3. currentByte' <= asked' /\ asked' \in Nat
      <4>1. Behind(t) \in Nat
        BY <3>2, TlvFields
      <4> QED
        BY <1>1, <2>2, <2>3, <3>2, <4>1
    <3>4. ASSUME asked' <= 1500 PROVE asked <= 1500 /\ length <= 1500
      BY <1>1, <2>2, <3>4
    <3>5. ASSUME asked' <= 1500 PROVE \A i \in Information' : i < optind' => Sent(i)'
      <4>1. /\ o.opt \in TextOptions => t.text = Cut(o.text, 507)
            /\ o.opt \in {"4", "6"} => t.n = Found(o)
        BY <2>1, <3>2, <3>4, <3>5 DEF Asks
      <4>2. Len(tlvs) + 1 \in 1..Len(tlvs') /\ tlvs'[Len(tlvs) + 1] = t
        BY <1>1, <3>2
      <4>3. \E k \in 1..Len(tlvs') :
              /\ tlvs'[k].of = optind
              /\ argv[optind].opt \in TextOptions => tlvs'[k].text = Cut(argv[optind].text, 507)
              /\ argv[optind].opt \in {"4", "6"} => tlvs'[k].n = Found(argv[optind])
        BY <3>2, <4>1, <4>2
      <4>4. PICK j : j = optind
        OBVIOUS
      <4>5. \E k \in 1..Len(tlvs') :
              /\ tlvs'[k].of = j
              /\ argv'[j].opt \in TextOptions => tlvs'[k].text = Cut(argv'[j].text, 507)
              /\ argv'[j].opt \in {"4", "6"} => tlvs'[k].n = Found(argv'[j])
        BY <2>3, <4>3, <4>4
      <4>6. Sent(j)'
        BY <4>5 DEF Sent, Found
      <4>7. \A i \in Information' : i < optind' => Sent(i)'
        <5> SUFFICES ASSUME NEW i \in Information', i < optind + 1 PROVE Sent(i)'
          BY <2>3
        <5>1. i \in Information /\ i \in Nat
          BY <1>1, <2>3 DEF Information
        <5>2. CASE i = optind
          BY <4>4, <4>6, <5>2
        <5>3. CASE i < optind
          <6>1. Sent(i)
            BY <3>4, <3>5, <5>1, <5>3 DEF AskedInv
          <6> QED
            BY <1>2, <2>3, <3>2, <6>1
        <5> QED
          BY <1>1, <5>1, <5>2, <5>3
      <4> QED
        BY <4>7
    <3> QED
      BY <3>3, <3>5 DEF AskedInv
  <2>6. Refuses(length) \/ \E t : Adds(o.opt, length, optind, text, n, t)
    BY <1>1, <2>1, TransferAdds DEF Asks
  <2> QED
    BY <2>4, <2>5, <2>6
<1>4. ASSUME asked' = asked, argv' = argv, tlvs' = tlvs \/ \E t : tlvs' = Append(tlvs, t),
             optind' = optind \/ (optind' = optind + 1 /\ argv[optind].opt \notin InfoOptions),
             pc' \in {"main", "options"} => currentByte' <= asked
      PROVE  AskedInv'
  <2>1. ASSUME asked' <= 1500, NEW i \in Information', i < optind' PROVE Sent(i)'
    <3>1. i \in Information /\ i \in Nat
      BY <1>1, <1>4, <2>1 DEF Information
    <3>2. i < optind
      <4>1. i # optind \/ optind' = optind
        BY <1>4, <3>1 DEF Information
      <4> QED
        BY <1>1, <1>4, <2>1, <3>1, <4>1
    <3>3. Sent(i)
      BY <1>4, <2>1, <3>1, <3>2 DEF AskedInv
    <3> QED
      BY <1>2, <1>4, <3>3
  <2> QED
    BY <1>1, <1>4, <2>1 DEF AskedInv
<1>5. CASE Passes
  BY <1>4, <1>5 DEF Passes, Counts, AskedInv
<1>6. CASE Main \/ EndOptions \/ UNCHANGED builderVars
  <2>1. /\ UNCHANGED <<argv, tlvs, currentByte, optind>>
        /\ pc' \in {"main", "options"} => pc \in {"main", "options"}
    BY <1>6 DEF Main, EndOptions, builderVars
  <2>2. asked' = asked
    BY <2>1 DEF Counts
  <2> QED
    BY <1>4, <2>1, <2>2 DEF AskedInv
<1>7. CASE AddCombined \/ Finish
  <2>1. /\ UNCHANGED <<argv, optind>> /\ pc' \notin {"main", "options"}
    BY <1>7 DEF AddCombined, Finish
  <2>2. asked' = asked
    BY <2>1 DEF Counts
  <2>3. tlvs' = tlvs \/ \E t : tlvs' = Append(tlvs, t)
    <3>1. CASE Finish
      BY <3>1 DEF Finish
    <3>2. CASE AddCombined
      BY <3>2 DEF AddCombined, TransferToPdu
    <3> QED
      BY <1>7, <3>1, <3>2
  <2> QED
    BY <1>4, <2>1, <2>2, <2>3
<1> QED
  BY <1>3, <1>5, <1>6, <1>7, InfoInforms, OtherPasses DEF Next, OptionStep

(* The whole of the sender's invariant.                                    *)
SenderInv == IInv /\ PassInv /\ ContentsInv /\ AskedInv

LEMMA InitSender == TextInit => SenderInv
<1> SUFFICES ASSUME TextInit PROVE SenderInv
  OBVIOUS
<1>1. Init /\ asked = 22
  BY DEF TextInit
<1>2. IInv /\ ContentsInv
  BY <1>1, InitIInv, InitContents
<1>3. PassInv /\ AskedInv
  BY <1>1 DEF Init, PassInv, AskedInv, Information
<1> QED
  BY <1>2, <1>3 DEF SenderInv

LEMMA StepSender == SenderInv /\ [TextNext]_vars => SenderInv'
<1> SUFFICES ASSUME SenderInv, [TextNext]_vars PROVE SenderInv'
  OBVIOUS
<1>1. [Next]_builderVars /\ Counts
  <2>1. CASE Build
    BY <2>1 DEF Build, Counts
  <2>2. CASE Deliver \/ Display \/ UNCHANGED vars
    BY <2>2 DEF Deliver, Display, vars, Counts, builderVars
  <2> QED
    BY <2>1, <2>2 DEF TextNext
<1> QED
  BY <1>1, StepIInv, StepPassInv, StepContents, StepAsked DEF SenderInv

(* Whatever the order of the options, as long as together they ask for no  *)
(* more than the 1500 bytes of a PDU, each piece of information is in it:  *)
(* 507 bytes of a text, ten addresses of a list.                           *)
THEOREM NothingDropped == TextSpec => []AllInformationSent
<1>1. SenderInv => AllInformationSent
  <2> SUFFICES ASSUME SenderInv, pc = "built", asked <= 1500, NEW i \in Information
               PROVE  Sent(i)
    BY DEF AllInformationSent, Sent
  <2>1. optind = Len(argv) + 1 /\ Len(argv) \in Nat /\ i \in 1..Len(argv)
    BY OptionTyped DEF SenderInv, PassInv, IInv, LoopInv, Information
  <2>2. i < optind
    BY <2>1
  <2> QED
    BY <2>2 DEF SenderInv, AskedInv
<1> QED
  BY <1>1, InitSender, StepSender, PTL DEF TextSpec

-----------------------------------------------------------------------------
(* A frame as the walk needs it, of b bytes without the Ethernet header:    *)
(* one TLV behind the other, and each that is known begins before the walk *)
(* ends.                                                                   *)
Sound(t) ==
  t.at \in Nat /\ t.length \in Nat /\ t.of \in Nat /\ t.n \in Nat /\ t.text \in WellFormed

Framed(s, b) ==
  /\ Len(s) \in Nat \ {0} /\ s[1].at = 0
  /\ \A k \in 1..Len(s) : Sound(s[k])
  /\ \A k \in 1..(Len(s) - 1) : Behind(s[k]) = s[k + 1].at
  /\ \A k, l \in 1..Len(s) : k < l => Behind(s[k]) <= s[l].at
  /\ \A k \in 1..Len(s) : D!Known(s[k]) => s[k].at < b - 2

LEMMA KnownKinds ==
  ASSUME NEW t, D!Known(t)
  PROVE  IsInfo(t) \/ IsCombined(t) \/ t.subtype = "signature"
BY BeaconTextAssumption DEF D!Known, IsInfo, IsCombined

LEMMA EndUnknown ==
  ASSUME NEW t, t.subtype = End
  PROVE  ~D!Known(t)
BY KnownKinds DEF IsInfo, IsCombined, InfoOptions, TextOptions, CombinedString, End

LEMMA MoreFramed ==
  ASSUME NEW s, NEW b \in Int, NEW c \in Int, Framed(s, b), b <= c
  PROVE  Framed(s, c)
<1>1. ASSUME NEW k \in 1..Len(s), D!Known(s[k]) PROVE s[k].at < c - 2
  <2>1. s[k].at < b - 2 /\ s[k].at \in Nat
    BY <1>1 DEF Framed, Sound
  <2> QED
    BY <2>1
<1> QED
  BY <1>1 DEF Framed

LEMMA PduFacts ==
  ASSUME SenderInv
  PROVE  /\ tlvs \in Seq(TlvSet) /\ ContentsInv /\ currentByte \in Nat
         /\ Len(tlvs) \in Nat \ {0}
<1>1. tlvs \in Seq(TlvSet) /\ currentByte \in Nat
  BY DEF SenderInv, IInv, PduInv
<1>2. ContentsInv
  BY DEF SenderInv
<1>3. Len(tlvs) > 0
  BY <1>2 DEF ContentsInv
<1> QED
  BY <1>1, <1>2, <1>3

(* Of the PDU, all but the end TLV begin before the last two bytes.        *)
LEMMA BuiltBegins ==
  ASSUME SenderInv, pc = "built", NEW k \in 1..Len(tlvs), D!Known(tlvs[k])
  PROVE  tlvs[k].at < currentByte - 2
<1>1. /\ tlvs \in Seq(TlvSet) /\ ContentsInv /\ currentByte \in Nat
      /\ Len(tlvs) \in Nat \ {0}
  BY PduFacts
<1>2. k # Len(tlvs)
  BY <1>1, EndUnknown DEF ContentsInv
<1>3. k < Len(tlvs) /\ Len(tlvs) \in 1..Len(tlvs)
  BY <1>1, <1>2
<1>4. Behind(tlvs[k]) <= currentByte - 2
  BY <1>1, <1>3 DEF ContentsInv, InOrder
<1>5. tlvs[k] \in TlvSet
  BY <1>1
<1>6. PICK a \in Nat, l \in Nat : a = tlvs[k].at /\ l = tlvs[k].length
  BY <1>5, TlvFields
<1>7. a + l + 2 <= currentByte - 2
  BY <1>4, <1>6 DEF Behind
<1>8. a < currentByte - 2
  BY <1>1, <1>7
<1> QED
  BY <1>6, <1>8

LEMMA BuiltFramed ==
  ASSUME SenderInv, pc = "built"
  PROVE  Framed(tlvs, currentByte)
<1>1. tlvs \in Seq(TlvSet) /\ Chain(tlvs, currentByte) /\ ContentsInv
  BY DEF SenderInv, IInv, PduInv
<1>2. Len(tlvs) \in Nat \ {0}
  BY <1>1 DEF ContentsInv
<1>3. ASSUME NEW k \in 1..Len(tlvs) PROVE Sound(tlvs[k])
  <2>1. tlvs[k] \in TlvSet
    BY <1>1
  <2> QED
    BY <1>1, <2>1, TlvFields DEF Sound, ContentsInv, InOrder
<1>4. \A k \in 1..(Len(tlvs) - 1) : Behind(tlvs[k]) = tlvs[k + 1].at
  <2> SUFFICES ASSUME NEW k \in 1..(Len(tlvs) - 1)
               PROVE  tlvs[k].at + tlvs[k].length + 2 = tlvs[k + 1].at
    BY DEF Behind
  <2>1. k \in 1..Len(tlvs) /\ k # Len(tlvs)
    BY <1>2
  <2> QED
    BY <1>1, <2>1 DEF Chain
<1>5. \A k, l \in 1..Len(tlvs) : k < l => Behind(tlvs[k]) <= tlvs[l].at
  BY <1>1 DEF ContentsInv, InOrder
<1> QED
  BY <1>1, <1>2, <1>3, <1>4, <1>5, BuiltBegins DEF Framed, ContentsInv

LEMMA SignedParts ==
  ASSUME tlvs \in Seq(TlvSet), Len(tlvs) > 0
  PROVE  /\ Len(Signed) = Len(tlvs) + 1
         /\ \A k \in 1..(Len(tlvs) - 1) : Signed[k] = tlvs[k]
         /\ Signed[Len(tlvs)] = Tlv("signature", tlvs[Len(tlvs)].at, 268, 0, Empty, 0)
         /\ Signed[Len(tlvs) + 1] = Tlv(End, tlvs[Len(tlvs)].at + 270, 0, 0, Empty, 0)
<1> DEFINE last == Len(tlvs)
           s == SubSeq(tlvs, 1, last - 1)
           a == Tlv("signature", tlvs[last].at, 268, 0, Empty, 0)
           e == Tlv(End, tlvs[last].at + 270, 0, 0, Empty, 0)
<1>1. last \in Nat /\ last > 0
  OBVIOUS
<1>2. s \in Seq(TlvSet) /\ Len(s) = last - 1 /\ \A k \in 1..(last - 1) : s[k] = tlvs[k]
  <2>1. last - 1 \in Int /\ 1 \in Int /\ \A k \in 1..(last - 1) : tlvs[k] \in TlvSet
    BY <1>1
  <2>2. /\ SubSeq(tlvs, 1, last - 1) \in Seq(TlvSet)
        /\ Len(SubSeq(tlvs, 1, last - 1)) = IF 1 <= last - 1 THEN last - 1 - 1 + 1 ELSE 0
        /\ \A k \in 1..(last - 1 - 1 + 1) : SubSeq(tlvs, 1, last - 1)[k] = tlvs[1 + k - 1]
    BY <2>1, SubSeqProperties
  <2>3. last - 1 - 1 + 1 = last - 1 /\ \A k \in 1..(last - 1) : 1 + k - 1 = k
    BY <1>1
  <2> QED
    BY <1>1, <2>2, <2>3
<1>3. Signed = s \o <<a, e>>
  BY DEF Signed
<1>4. <<a, e>> \in Seq({a, e}) /\ Len(<<a, e>>) = 2 /\ <<a, e>>[1] = a /\ <<a, e>>[2] = e
  OBVIOUS
<1> HIDE DEF s, a, e
<1>5. s \in Seq(TlvSet \cup {a, e}) /\ <<a, e>> \in Seq(TlvSet \cup {a, e})
  BY <1>2, <1>4
<1>6. /\ Len(s \o <<a, e>>) = last + 1
      /\ \A k \in 1..(last - 1) : (s \o <<a, e>>)[k] = s[k]
      /\ (s \o <<a, e>>)[last] = a /\ (s \o <<a, e>>)[last + 1] = e
  BY <1>1, <1>2, <1>4, <1>5
<1> QED
  BY <1>2, <1>3, <1>6 DEF a, e

LEMMA SignedFramed ==
  ASSUME SenderInv, pc = "built"
  PROVE  Framed(Signed, currentByte + 270)
<1> DEFINE last == Len(tlvs)
           b == tlvs[last].at
<1>1. /\ Framed(tlvs, currentByte) /\ last \in Nat \ {0} /\ tlvs \in Seq(TlvSet)
      /\ b = currentByte - 2 /\ b \in Nat /\ currentByte \in Nat
  <2>1. /\ Framed(tlvs, currentByte) /\ tlvs \in Seq(TlvSet) /\ currentByte \in Nat
        /\ ContentsInv /\ last \in Nat \ {0}
    BY BuiltFramed, PduFacts
  <2>2. b = currentByte - 2
    BY <2>1 DEF ContentsInv
  <2>3. last \in 1..last
    BY <2>1
  <2>4. b \in Nat
    BY <2>1, <2>3 DEF Framed, Sound
  <2> QED
    BY <2>1, <2>2, <2>4
<1>2. /\ Len(Signed) = last + 1
      /\ \A k \in 1..(last - 1) : Signed[k] = tlvs[k]
      /\ Signed[last] = Tlv("signature", b, 268, 0, Empty, 0)
      /\ Signed[last + 1] = Tlv(End, b + 270, 0, 0, Empty, 0)
  BY <1>1, SignedParts
<1>3. /\ Signed[last].at = b /\ Signed[last].length = 268 /\ Signed[last].n = 0
      /\ Signed[last].of = 0 /\ Signed[last + 1].of = 0
      /\ Signed[last].text = Empty /\ Signed[last].subtype = "signature"
      /\ Signed[last + 1].at = b + 270 /\ Signed[last + 1].length = 0 /\ Signed[last + 1].n = 0
      /\ Signed[last + 1].text = Empty /\ Signed[last + 1].subtype = End
  BY <1>2 DEF Tlv
<1>4. ~D!Known(Signed[last + 1])
  BY <1>3, EndUnknown
<1>5. Behind(Signed[last]) = b + 270 /\ Behind(Signed[last + 1]) = b + 272
  BY <1>1, <1>3 DEF Behind
<1>6. ASSUME NEW k \in 1..(last - 1)
      PROVE  /\ k \in 1..last /\ Signed[k] = tlvs[k] /\ Sound(tlvs[k])
             /\ Behind(tlvs[k]) <= b /\ Behind(tlvs[k]) \in Int
  <2>1. k \in 1..last /\ last \in 1..last /\ k < last
    BY <1>1
  <2>2. Sound(tlvs[k]) /\ Behind(tlvs[k]) <= b
    BY <1>1, <2>1 DEF Framed
  <2>3. Behind(tlvs[k]) \in Int
    BY <2>2 DEF Sound, Behind
  <2> QED
    BY <1>2, <2>1, <2>2, <2>3
<1>7. \A k \in 1..(last + 1) : k \in 1..(last - 1) \/ k = last \/ k = last + 1
  BY <1>1
<1> HIDE DEF b
<1>8. ASSUME NEW k \in 1..(last + 1)
      PROVE  /\ Sound(Signed[k])
             /\ D!Known(Signed[k]) => Signed[k].at < currentByte + 270 - 2
  <2>1. CASE k \in 1..(last - 1)
    <3>1. PICK a \in Nat, n \in Nat : a = tlvs[k].at /\ n = tlvs[k].length
      BY <1>6, <2>1 DEF Sound
    <3>2. a + n + 2 <= b
      BY <1>6, <2>1, <3>1 DEF Behind
    <3>3. a < currentByte + 270 - 2
      BY <1>1, <3>2
    <3> QED
      BY <1>6, <2>1, <3>1, <3>3
  <2>2. CASE k = last \/ k = last + 1
    <3>1. b + 270 \in Nat /\ b < currentByte + 270 - 2
      BY <1>1
    <3> QED
      BY <1>1, <1>3, <1>4, <2>2, <3>1, EmptyWellFormed DEF Sound
  <2> QED
    BY <1>7, <2>1, <2>2
<1>9. ASSUME NEW k \in 1..(last + 1), NEW l \in 1..(last + 1), k < l
      PROVE  Behind(Signed[k]) <= Signed[l].at
  <2>1. CASE l \in 1..(last - 1)
    <3>1. k \in 1..(last - 1)
      BY <1>1, <1>9, <2>1
    <3> QED
      BY <1>1, <1>6, <1>9, <2>1, <3>1 DEF Framed
  <2>2. CASE l = last \/ l = last + 1
    <3>2. CASE k \in 1..(last - 1)
      <4>1. Behind(Signed[k]) <= b /\ Behind(Signed[k]) \in Int
        BY <1>6, <3>2
      <4>2. Signed[l].at = b \/ Signed[l].at = b + 270
        BY <1>3, <2>2
      <4> QED
        BY <1>1, <4>1, <4>2
    <3>3. CASE k = last
      <4>1. l = last + 1
        BY <1>1, <1>9, <2>2, <3>3
      <4> QED
        BY <1>1, <1>3, <1>5, <3>3, <4>1
    <3>4. k # last + 1
      BY <1>1, <1>9
    <3> QED
      BY <1>7, <3>2, <3>3, <3>4
  <2> QED
    BY <1>7, <2>1, <2>2
<1>10. ASSUME NEW k \in 1..last PROVE Behind(Signed[k]) = Signed[k + 1].at
  <2>1. CASE k = last
    BY <1>3, <1>5, <2>1
  <2>2. CASE k # last
    <3>1. k \in 1..(last - 1) /\ Behind(tlvs[k]) = tlvs[k + 1].at
      BY <1>1, <2>2 DEF Framed
    <3>2. CASE k + 1 = last
      BY <1>3, <1>6, <3>1, <3>2 DEF b
    <3>3. CASE k + 1 # last
      <4>1. k + 1 \in 1..(last - 1)
        BY <1>1, <3>1, <3>3
      <4> QED
        BY <1>6, <3>1, <4>1
    <3> QED
      BY <3>2, <3>3
  <2> QED
    BY <2>1, <2>2
<1>11. PICK s : s = Signed
  OBVIOUS
<1>12. Len(s) = last + 1 /\ Len(s) \in Nat \ {0} /\ Len(s) - 1 = last
  BY <1>1, <1>2, <1>11
<1>13. Signed[1].at = 0
  <2>1. tlvs[1].at = 0
    BY <1>1 DEF Framed
  <2>2. CASE last = 1
    BY <1>3, <2>1, <2>2 DEF b
  <2>3. CASE last # 1
    <3>0. last \in Nat /\ last # 0
      BY <1>1
    <3> HIDE DEF last
    <3>1. 1 \in 1..(last - 1)
      BY <2>3, <3>0
    <3> QED
      BY <1>6, <2>1, <3>1
  <2> QED
    BY <2>2, <2>3
<1> HIDE DEF last
<1>14. Framed(s, currentByte + 270)
  <2>1. s[1].at = 0
    BY <1>11, <1>13
  <2>2. /\ \A k \in 1..Len(s) : Sound(s[k])
        /\ \A k \in 1..Len(s) : D!Known(s[k]) => s[k].at < currentByte + 270 - 2
    BY <1>8, <1>11, <1>12
  <2>3. \A k \in 1..(Len(s) - 1) : Behind(s[k]) = s[k + 1].at
    BY <1>10, <1>11, <1>12
  <2>4. \A k, l \in 1..Len(s) : k < l => Behind(s[k]) <= s[l].at
    BY <1>9, <1>11, <1>12
  <2>5. PICK c \in Int : c = currentByte + 270 /\ c - 2 = currentByte + 270 - 2
    BY <1>1
  <2>6. ASSUME NEW k \in 1..Len(s), D!Known(s[k]) PROVE s[k].at < c - 2
    <3>1. s[k].at < currentByte + 270 - 2
      BY <2>2, <2>6
    <3> QED
      BY <2>5, <3>1
  <2>7. Len(s) \in Nat \ {0}
    BY <1>12
  <2>8. Framed(s, c)
    BY <2>1, <2>2, <2>3, <2>4, <2>6, <2>7 DEF Framed
  <2> QED
    BY <2>5, <2>8
<1> QED
  BY <1>11, <1>14

-----------------------------------------------------------------------------
(* How many TLVs a receiver knows.                                         *)
InfoTlvs == {k \in 1..Len(tlvs) : IsInfo(tlvs[k])}
CombinedTlvs == {k \in 1..Len(tlvs) : IsCombined(tlvs[k])}
KnownIn(s) == {k \in 1..Len(s) : D!Known(s[k])}

LEMMA InfoCount ==
  ASSUME SenderInv
  PROVE  /\ IsFiniteSet(InfoTlvs) /\ IsFiniteSet(Information)
         /\ Cardinality(InfoTlvs) <= Cardinality(Information)
<1>1. /\ tlvs \in Seq(TlvSet) /\ ContentsInv /\ Len(argv) \in Nat
  BY OptionTyped DEF SenderInv, IInv, LoopInv, PduInv
<1>2. IsFiniteSet(Information)
  <2>1. IsFiniteSet(1..Len(argv))
    BY <1>1, FS_Interval
  <2> QED
    BY <2>1, FS_Subset DEF Information
<1> DEFINE f == [k \in InfoTlvs |-> tlvs[k].of]
<1>3. ASSUME NEW k \in InfoTlvs PROVE k \in 1..Len(tlvs) /\ IsInfo(tlvs[k]) /\ tlvs[k].of \in Information
  BY <1>1 DEF InfoTlvs, ContentsInv, FromSource
<1>4. ASSUME NEW k \in InfoTlvs, NEW l \in InfoTlvs, tlvs[k].of = tlvs[l].of PROVE k = l
  <2>1. tlvs[k].of \in Int /\ tlvs[l].of \in Int
    BY <1>3 DEF Information
  <2>2. k < l => tlvs[k].of < tlvs[l].of
    BY <1>1, <1>3 DEF ContentsInv, InOrder, Before
  <2>3. l < k => tlvs[l].of < tlvs[k].of
    BY <1>1, <1>3 DEF ContentsInv, InOrder, Before
  <2>4. k \in Int /\ l \in Int
    BY <1>3
  <2> QED
    BY <1>4, <2>1, <2>2, <2>3, <2>4
<1>5. f \in Injection(InfoTlvs, Information)
  BY <1>3, <1>4 DEF Injection, IsInjective
<1> QED
  BY <1>2, <1>5, FS_Injection

(* Five combined strings leave no room for a signature.                    *)
LEMMA FiveAreLong ==
  ASSUME SenderInv, pc = "built", NEW k1 \in CombinedTlvs, NEW k2 \in CombinedTlvs,
         NEW k3 \in CombinedTlvs, NEW k4 \in CombinedTlvs, NEW k5 \in CombinedTlvs,
         tlvs[k1].n = 1, tlvs[k2].n = 2, tlvs[k3].n = 3, tlvs[k4].n = 4, tlvs[k5].n = 5
  PROVE  currentByte >= 1300
<1>1. tlvs \in Seq(TlvSet) /\ ContentsInv /\ StringsInv /\ currentByte \in Nat
  BY DEF SenderInv, IInv, PduInv
<1>2. ASSUME NEW k \in CombinedTlvs
      PROVE  /\ k \in 1..Len(tlvs) /\ tlvs[k] \in TlvSet /\ IsCombined(tlvs[k])
             /\ tlvs[k].n \in Strings /\ Lens[tlvs[k].n] > 0
             /\ tlvs[k].length = Lens[tlvs[k].n] + 4
             /\ Behind(tlvs[k]) = tlvs[k].at + Lens[tlvs[k].n] + 4 + 2
             /\ Behind(tlvs[k]) <= currentByte /\ tlvs[k].at \in Nat
  <2>1. k \in 1..Len(tlvs) /\ IsCombined(tlvs[k])
    BY DEF CombinedTlvs
  <2>2. tlvs[k] \in TlvSet /\ FromSource(tlvs[k]) /\ Behind(tlvs[k]) <= currentByte
    BY <1>1, <2>1 DEF ContentsInv, InOrder
  <2>3. /\ tlvs[k].n \in Strings /\ Lens[tlvs[k].n] > 0
        /\ tlvs[k].length = Lens[tlvs[k].n] + 4
    BY <2>1, <2>2 DEF FromSource, Lens
  <2>4. Lens[tlvs[k].n] \in 0..507
    BY <1>1, <2>3 DEF StringsInv
  <2>5. tlvs[k].at \in Nat
    BY <2>2, TlvFields
  <2>6. tlvs[k].at + tlvs[k].length + 2 = tlvs[k].at + Lens[tlvs[k].n] + 4 + 2
    BY <2>3, <2>4, <2>5
  <2> QED
    BY <2>1, <2>2, <2>3, <2>5, <2>6 DEF Behind
<1>3. ASSUME NEW k \in CombinedTlvs, NEW l \in CombinedTlvs, tlvs[k].n < tlvs[l].n
      PROVE  Behind(tlvs[k]) <= tlvs[l].at
  <2>1. k \in Int /\ l \in Int /\ tlvs[k].n \in Int /\ tlvs[l].n \in Int
    <3>1. k \in 1..Len(tlvs) /\ l \in 1..Len(tlvs)
      BY <1>2
    <3>2. tlvs[k].n \in Strings /\ tlvs[l].n \in Strings
      BY <1>2
    <3> QED
      BY <3>1, <3>2 DEF Strings
  <2>2. k # l
    BY <1>3, <2>1
  <2>3. ~(l < k)
    <3> SUFFICES ASSUME l < k PROVE FALSE
      OBVIOUS
    <3>1. tlvs[l].n < tlvs[k].n
      BY <1>1, <1>2 DEF ContentsInv, InOrder, Before
    <3> QED
      BY <1>3, <2>1, <3>1
  <2>4. k < l
    BY <2>1, <2>2, <2>3
  <2> QED
    BY <1>1, <1>2, <2>4 DEF ContentsInv, InOrder
<1> DEFINE l1 == Lens[1]
           l2 == Lens[2]
           l3 == Lens[3]
           l4 == Lens[4]
           l5 == Lens[5]
<1>4. /\ l1 \in 0..507 /\ l2 \in 0..507 /\ l3 \in 0..507 /\ l4 \in 0..507 /\ l5 \in 0..507
  BY <1>1 DEF StringsInv, Strings
<1>5. /\ l2 > 0 /\ l3 > 0 /\ l4 > 0 /\ l5 > 0
  BY <1>2
<1>6. PairsFull(Lens)
  BY <1>1 DEF StringsInv
<1>7. 1 \in Strings /\ 2 \in Strings /\ 3 \in Strings /\ 4 \in Strings /\ 5 \in Strings
  BY DEF Strings
<1>8. l1 + l2 >= 508 /\ l3 + l4 >= 508 /\ l4 + l5 >= 508 /\ l3 + l5 >= 508
  BY <1>5, <1>6, <1>7 DEF PairsFull
<1>9. /\ Behind(tlvs[k1]) <= tlvs[k2].at /\ Behind(tlvs[k2]) <= tlvs[k3].at
      /\ Behind(tlvs[k3]) <= tlvs[k4].at /\ Behind(tlvs[k4]) <= tlvs[k5].at
  BY <1>3
<1> DEFINE a1 == tlvs[k1].at
           a2 == tlvs[k2].at
           a3 == tlvs[k3].at
           a4 == tlvs[k4].at
           a5 == tlvs[k5].at
<1>10. /\ a1 \in Nat /\ a2 \in Nat /\ a3 \in Nat /\ a4 \in Nat /\ a5 \in Nat
       /\ a1 + l1 + 4 + 2 <= a2 /\ a2 + l2 + 4 + 2 <= a3 /\ a3 + l3 + 4 + 2 <= a4
       /\ a4 + l4 + 4 + 2 <= a5 /\ a5 + l5 + 4 + 2 <= currentByte
  BY <1>2, <1>9
<1> HIDE DEF a1, a2, a3, a4, a5, l1, l2, l3, l4, l5
<1>11. l1 + l2 + l3 + l4 + l5 >= 1270
  BY <1>4, <1>8
<1> QED
  BY <1>1, <1>4, <1>10, <1>11

LEMMA CombinedCount ==
  ASSUME SenderInv, pc = "built"
  PROVE  /\ IsFiniteSet(CombinedTlvs) /\ Cardinality(CombinedTlvs) <= 5
         /\ CanSign(currentByte) => Cardinality(CombinedTlvs) <= 4
<1>1. tlvs \in Seq(TlvSet) /\ ContentsInv /\ currentByte \in Nat
  BY DEF SenderInv, IInv, PduInv
<1> DEFINE f == [k \in CombinedTlvs |-> tlvs[k].n]
<1>2. ASSUME NEW k \in CombinedTlvs
      PROVE  k \in 1..Len(tlvs) /\ IsCombined(tlvs[k]) /\ tlvs[k].n \in Strings
  BY <1>1 DEF CombinedTlvs, ContentsInv, FromSource
<1>3. ASSUME NEW k \in CombinedTlvs, NEW l \in CombinedTlvs, tlvs[k].n = tlvs[l].n PROVE k = l
  <2>1. tlvs[k].n \in Int /\ tlvs[l].n \in Int
    BY <1>2 DEF Strings
  <2>2. k < l => tlvs[k].n < tlvs[l].n
    BY <1>1, <1>2 DEF ContentsInv, InOrder, Before
  <2>3. l < k => tlvs[l].n < tlvs[k].n
    BY <1>1, <1>2 DEF ContentsInv, InOrder, Before
  <2>4. k \in Int /\ l \in Int
    BY <1>2
  <2> QED
    BY <1>3, <2>1, <2>2, <2>3, <2>4
<1>4. IsFiniteSet(Strings) /\ Cardinality(Strings) = 5
  <2>1. IsFiniteSet(1..5) /\ Cardinality(1..5) = IF 1 > 5 THEN 0 ELSE 5 - 1 + 1
    <3>1. 1 \in Int /\ 5 \in Int
      OBVIOUS
    <3> QED
      BY <3>1, FS_Interval
  <2> QED
    BY <2>1 DEF Strings
<1>5. ASSUME NEW T \in SUBSET Strings, \A k \in CombinedTlvs : tlvs[k].n \in T
      PROVE  IsFiniteSet(CombinedTlvs) /\ Cardinality(CombinedTlvs) <= Cardinality(T)
  <2>1. f \in Injection(CombinedTlvs, T)
    BY <1>3, <1>5 DEF Injection, IsInjective
  <2>2. IsFiniteSet(T)
    BY <1>4, FS_Subset
  <2> QED
    BY <2>1, <2>2, FS_Injection
<1>6. IsFiniteSet(CombinedTlvs) /\ Cardinality(CombinedTlvs) <= 5
  <2>1. IsFiniteSet(CombinedTlvs) /\ Cardinality(CombinedTlvs) <= Cardinality(Strings)
    BY <1>2, <1>5
  <2> QED
    BY <1>4, <2>1
<1>7. ASSUME CanSign(currentByte) PROVE Cardinality(CombinedTlvs) <= 4
  <2>1. currentByte < 1300
    BY <1>1, <1>7 DEF CanSign, D!Header
  <2>2. \E i \in Strings : \A k \in CombinedTlvs : tlvs[k].n # i
    <3> SUFFICES ASSUME \A i \in Strings : \E k \in CombinedTlvs : tlvs[k].n = i PROVE FALSE
      OBVIOUS
    <3>1. 1 \in Strings /\ 2 \in Strings /\ 3 \in Strings /\ 4 \in Strings /\ 5 \in Strings
      BY DEF Strings
    <3>2. PICK k1 \in CombinedTlvs : tlvs[k1].n = 1
      BY <3>1
    <3>3. PICK k2 \in CombinedTlvs : tlvs[k2].n = 2
      BY <3>1
    <3>4. PICK k3 \in CombinedTlvs : tlvs[k3].n = 3
      BY <3>1
    <3>5. PICK k4 \in CombinedTlvs : tlvs[k4].n = 4
      BY <3>1
    <3>6. PICK k5 \in CombinedTlvs : tlvs[k5].n = 5
      BY <3>1
    <3>7. currentByte >= 1300
      BY <3>2, <3>3, <3>4, <3>5, <3>6, FiveAreLong
    <3> QED
      BY <1>1, <2>1, <3>7
  <2>3. PICK i \in Strings : \A k \in CombinedTlvs : tlvs[k].n # i
    BY <2>2
  <2>4. Cardinality(Strings \ {i}) = 4
    BY <1>4, <2>3, FS_RemoveElement
  <2>5. \A k \in CombinedTlvs : tlvs[k].n \in Strings \ {i}
    BY <1>2, <2>3
  <2>6. Cardinality(CombinedTlvs) <= Cardinality(Strings \ {i})
    BY <1>5, <2>5
  <2> QED
    BY <2>4, <2>6
<1> QED
  BY <1>6, <1>7

Room(s) == Cardinality(Information) <= 20 => Cardinality(KnownIn(s)) <= 25

LEMMA UnionCount ==
  ASSUME NEW S, NEW T, IsFiniteSet(S), IsFiniteSet(T)
  PROVE  IsFiniteSet(S \cup T) /\ Cardinality(S \cup T) <= Cardinality(S) + Cardinality(T)
<1>1. /\ Cardinality(S) \in Nat /\ Cardinality(T) \in Nat
  BY FS_CardinalityType
<1>2. Cardinality(S \cap T) \in Nat
  <2>1. IsFiniteSet(S \cap T)
    BY FS_Subset
  <2> QED
    BY <2>1, FS_CardinalityType
<1>3. /\ IsFiniteSet(S \cup T)
      /\ Cardinality(S \cup T) = Cardinality(S) + Cardinality(T) - Cardinality(S \cap T)
  BY FS_Union
<1> QED
  BY <1>1, <1>2, <1>3

LEMMA BuiltRoom ==
  ASSUME SenderInv, pc = "built"
  PROVE  Room(tlvs)
<1>1. tlvs \in Seq(TlvSet)
  BY DEF SenderInv, IInv, PduInv
<1>2. KnownIn(tlvs) \subseteq InfoTlvs \cup CombinedTlvs
  <2> SUFFICES ASSUME NEW k \in 1..Len(tlvs), D!Known(tlvs[k])
               PROVE  IsInfo(tlvs[k]) \/ IsCombined(tlvs[k])
    BY DEF KnownIn, InfoTlvs, CombinedTlvs
  <2>1. tlvs[k].subtype \in Subtypes
    <3>1. tlvs[k] \in TlvSet
      BY <1>1
    <3> QED
      BY <3>1 DEF TlvSet
  <2>2. "signature" \notin Subtypes
    BY DEF Subtypes, InfoOptions, TextOptions, Chassis, Port, Ttl, CombinedString, End
  <2> QED
    BY <2>1, <2>2, KnownKinds
<1> DEFINE a == Cardinality(InfoTlvs)
           b == Cardinality(CombinedTlvs)
           c == Cardinality(KnownIn(tlvs))
           d == Cardinality(Information)
<1>3. /\ IsFiniteSet(InfoTlvs) /\ IsFiniteSet(Information) /\ IsFiniteSet(CombinedTlvs)
      /\ a <= d /\ b <= 5
  BY InfoCount, CombinedCount
<1>4. /\ IsFiniteSet(InfoTlvs \cup CombinedTlvs)
      /\ Cardinality(InfoTlvs \cup CombinedTlvs) <= a + b
  BY <1>3, UnionCount
<1>5. IsFiniteSet(KnownIn(tlvs)) /\ c <= Cardinality(InfoTlvs \cup CombinedTlvs)
  BY <1>2, <1>4, FS_Subset
<1>6. a \in Nat /\ b \in Nat /\ c \in Nat /\ d \in Nat /\ Cardinality(InfoTlvs \cup CombinedTlvs) \in Nat
  BY <1>3, <1>4, <1>5, FS_CardinalityType
<1> HIDE DEF a, b, c, d
<1>7. d <= 20 => c <= 25
  BY <1>3, <1>4, <1>5, <1>6
<1> QED
  BY <1>7 DEF Room, c, d

LEMMA SignedRoom ==
  ASSUME SenderInv, pc = "built", CanSign(currentByte)
  PROVE  Room(Signed)
<1> DEFINE last == Len(tlvs)
<1>1. tlvs \in Seq(TlvSet) /\ last \in Nat /\ last > 0
  BY PduFacts
<1>2. KnownIn(Signed) \subseteq InfoTlvs \cup CombinedTlvs \cup {last}
  <2> SUFFICES ASSUME NEW k \in 1..Len(Signed), D!Known(Signed[k]), k # last
               PROVE  k \in InfoTlvs \/ k \in CombinedTlvs
    BY DEF KnownIn
  <2>0. /\ Len(Signed) = last + 1
        /\ \A j \in 1..(last - 1) : Signed[j] = tlvs[j]
        /\ Signed[last + 1] = Tlv(End, tlvs[last].at + 270, 0, 0, Empty, 0)
    BY <1>1, SignedParts
  <2>1. k # last + 1
    <3>1. Signed[last + 1].subtype = End
      BY <2>0 DEF Tlv
    <3>2. ~D!Known(Signed[last + 1])
      BY <3>1, EndUnknown
    <3> QED
      BY <3>2
  <2>2. k \in 1..(last - 1) /\ k \in 1..last /\ Signed[k] = tlvs[k]
    BY <1>1, <2>0, <2>1
  <2>3. tlvs[k].subtype \in Subtypes
    <3>1. tlvs[k] \in TlvSet
      BY <1>1, <2>2
    <3> QED
      BY <3>1 DEF TlvSet
  <2>4. "signature" \notin Subtypes
    BY DEF Subtypes, InfoOptions, TextOptions, Chassis, Port, Ttl, CombinedString, End
  <2>5. IsInfo(tlvs[k]) \/ IsCombined(tlvs[k])
    BY <2>2, <2>3, <2>4, KnownKinds
  <2> QED
    BY <2>2, <2>5 DEF InfoTlvs, CombinedTlvs
<1> DEFINE S == InfoTlvs \cup CombinedTlvs
           T == InfoTlvs \cup CombinedTlvs \cup {last}
           a == Cardinality(InfoTlvs)
           b == Cardinality(CombinedTlvs)
           c == Cardinality(KnownIn(Signed))
           d == Cardinality(Information)
           e == Cardinality(S)
           f == Cardinality(T)
<1>3. /\ IsFiniteSet(InfoTlvs) /\ IsFiniteSet(Information) /\ IsFiniteSet(CombinedTlvs)
      /\ a <= d /\ b <= 4
  BY InfoCount, CombinedCount
<1>4. IsFiniteSet(S) /\ e <= a + b
  BY <1>3, UnionCount
<1>5. IsFiniteSet(T) /\ f <= e + 1
  <2>1. IsFiniteSet({last}) /\ Cardinality({last}) = 1
    BY FS_Singleton
  <2>2. IsFiniteSet(S \cup {last}) /\ Cardinality(S \cup {last}) <= Cardinality(S) + Cardinality({last})
    BY <1>4, <2>1, UnionCount
  <2> QED
    BY <2>1, <2>2
<1>6. IsFiniteSet(KnownIn(Signed)) /\ c <= f
  BY <1>2, <1>5, FS_Subset
<1>7. a \in Nat /\ b \in Nat /\ c \in Nat /\ d \in Nat /\ e \in Nat /\ f \in Nat
  BY <1>3, <1>4, <1>5, <1>6, FS_CardinalityType
<1> HIDE DEF a, b, c, d, e, f
<1>8. d <= 20 => c <= 25
  BY <1>3, <1>4, <1>5, <1>6, <1>7
<1> QED
  BY <1>8 DEF Room, c, d

(* What is left of the TLVs of a PDU that was cut or overwritten.          *)
LEMMA RemainsFields ==
  ASSUME NEW t \in TlvSet, t.text \in WellFormed, NEW intact \in Int, t.at + 6 <= intact,
         NEW noise \in WellFormed, NEW digits \in 1..5
  PROVE  LET r == Remains(t, intact, noise, digits) IN
         Sound(r) /\ r.at = t.at /\ r.length = t.length /\ r.subtype = t.subtype
<1> DEFINE r == Remains(t, intact, noise, digits)
           c == Cut(Cat(Cut(t.text, intact - t.at - 6), noise), t.text.len)
           d == IF t.subtype = "i" /\ t.at + 8 > intact THEN digits ELSE t.n
<1>1. /\ t.at \in Nat /\ t.length \in Nat /\ t.of \in Nat /\ t.n \in Nat
      /\ t.text.len \in Nat /\ intact - t.at - 6 \in Nat
  <2>1. t.at \in Nat /\ t.length \in Nat /\ t.of \in Nat /\ t.n \in Nat
    BY TlvFields
  <2> QED
    BY <2>1 DEF WellFormed, TextSet
<1>2. c \in WellFormed
  <2>1. Cut(t.text, intact - t.at - 6) \in WellFormed
    BY <1>1, CutWellFormed
  <2>2. Cat(Cut(t.text, intact - t.at - 6), noise) \in WellFormed
    BY <2>1, CatWellFormed
  <2> QED
    BY <1>1, <2>2, CutWellFormed
<1>3. d \in Nat
  <2>1. digits \in Nat
    OBVIOUS
  <2> QED
    BY <1>1, <2>1
<1> HIDE DEF c, d
<1>4. r = [t EXCEPT !.text = c, !.n = d]
  BY DEF Remains, c, d
<1>5. t = [subtype |-> t.subtype, at |-> t.at, length |-> t.length, of |-> t.of,
           text |-> t.text, n |-> t.n]
  BY DEF TlvSet
<1> HIDE DEF r
<1>6. /\ r.text = c /\ r.n = d /\ r.at = t.at /\ r.length = t.length /\ r.of = t.of
      /\ r.subtype = t.subtype
  BY <1>4, <1>5
<1> QED
  BY <1>1, <1>2, <1>3, <1>6 DEF Sound, r

LEMMA DamagedFramed ==
  ASSUME SenderInv, pc = "built", NEW intact \in Int, NEW b \in Int, intact <= b - 2,
         NEW noise \in WellFormed, NEW digits \in 1..5, NEW n \in 1..Len(tlvs),
         \A k \in 1..Len(tlvs) : k <= n <=> tlvs[k].at + 6 <= intact
  PROVE  LET s == [k \in 1..n |-> Remains(tlvs[k], intact, noise, digits)] IN
         Framed(s, b) /\ Room(s)
<1> DEFINE s == [k \in 1..n |-> Remains(tlvs[k], intact, noise, digits)]
<1>1. /\ Framed(tlvs, currentByte) /\ tlvs \in Seq(TlvSet) /\ Len(tlvs) \in Nat /\ n \in Nat \ {0}
      /\ ContentsInv
  BY BuiltFramed, PduFacts
<1>2. Len(s) = n
  BY <1>1
<1>3. ASSUME NEW k \in 1..n
      PROVE  /\ k \in 1..Len(tlvs) /\ s[k] = Remains(tlvs[k], intact, noise, digits)
             /\ tlvs[k].at + 6 <= intact /\ tlvs[k] \in TlvSet /\ tlvs[k].text \in WellFormed
  <2>1. k \in 1..Len(tlvs) /\ k <= n
    BY <1>1
  <2> QED
    BY <1>1, <2>1 DEF Framed, Sound
<1> HIDE DEF s
<1>4. ASSUME NEW k \in 1..n
      PROVE  /\ Sound(s[k]) /\ s[k].at = tlvs[k].at /\ s[k].length = tlvs[k].length
             /\ s[k].subtype = tlvs[k].subtype /\ Behind(s[k]) = Behind(tlvs[k])
             /\ s[k].at < b - 2
  <2>1. PICK t \in TlvSet : t = tlvs[k]
    BY <1>3
  <2>2. t.at + 6 <= intact /\ t.text \in WellFormed /\ s[k] = Remains(t, intact, noise, digits)
    BY <1>3, <2>1
  <2>3. /\ Sound(s[k]) /\ s[k].at = t.at /\ s[k].length = t.length
        /\ s[k].subtype = t.subtype
    BY <2>2, RemainsFields
  <2>4. PICK a \in Nat : a = t.at
    BY TlvFields
  <2>5. a + 6 <= intact
    BY <2>2, <2>4
  <2>6. a < b - 2
    BY <2>5
  <2> QED
    BY <2>1, <2>3, <2>4, <2>6 DEF Behind
<1>5. s[1].at = 0
  BY <1>1, <1>4 DEF Framed
<1>6. ASSUME NEW k \in 1..(n - 1) PROVE Behind(s[k]) = s[k + 1].at
  <2>1. k \in 1..n /\ k + 1 \in 1..n /\ k \in 1..(Len(tlvs) - 1)
    BY <1>1
  <2> QED
    BY <1>1, <1>4, <2>1 DEF Framed
<1>7. ASSUME NEW k \in 1..n, NEW l \in 1..n, k < l PROVE Behind(s[k]) <= s[l].at
  BY <1>1, <1>3, <1>4, <1>7 DEF Framed
<1>8. Framed(s, b)
  BY <1>1, <1>2, <1>4, <1>5, <1>6, <1>7 DEF Framed
<1>9. Cardinality(KnownIn(s)) <= Cardinality(KnownIn(tlvs))
  <2>1. IsFiniteSet(KnownIn(tlvs))
    <3>1. IsFiniteSet(1..Len(tlvs))
      BY <1>1, FS_Interval
    <3> QED
      BY <3>1, FS_Subset DEF KnownIn
  <2>2. KnownIn(s) \subseteq KnownIn(tlvs)
    BY <1>2, <1>3, <1>4 DEF KnownIn, D!Known
  <2> QED
    BY <2>1, <2>2, FS_Subset
<1>10. Room(s)
  <2>1. Cardinality(KnownIn(s)) \in Nat /\ Cardinality(KnownIn(tlvs)) \in Nat
    <3>1. IsFiniteSet(1..Len(tlvs)) /\ IsFiniteSet(1..n)
      BY <1>1, FS_Interval
    <3>2. IsFiniteSet(KnownIn(tlvs)) /\ IsFiniteSet(KnownIn(s))
      BY <1>2, <3>1, FS_Subset DEF KnownIn
    <3> QED
      BY <3>2, FS_CardinalityType
  <2>2. Room(tlvs)
    BY BuiltRoom
  <2> QED
    BY <1>9, <2>1, <2>2 DEF Room
<1> QED
  BY <1>8, <1>10 DEF s

(* What is received is such a frame, whatever is sent and however padded,  *)
(* cut or overwritten.                                                     *)
FrameInv ==
  stage # "wait" =>
    /\ pc = "built" /\ frame.size \in Nat
    /\ Framed(frame.tlvs, frame.size - 14) /\ Room(frame.tlvs)

LEMMA ReceiveFrame ==
  ASSUME NEW s, NEW size \in Nat, NEW tail, D!Receive(s, size, tail), NEW b \in Int,
         b <= size - 14, Framed(s, b), Room(s)
  PROVE  /\ stage = "wait" /\ stage' = "parse"
         /\ UNCHANGED <<pos, parsed, tlv, end, screen, seen>>
         /\ frame'.size \in Nat
         /\ Framed(frame'.tlvs, frame'.size - 14) /\ Room(frame'.tlvs)
<1>1. /\ stage = "wait" /\ stage' = "parse" /\ frame' = [tlvs |-> s, size |-> size, tail |-> tail]
      /\ UNCHANGED <<pos, parsed, tlv, end, screen, seen>>
  BY DEF D!Receive
<1>2. frame'.tlvs = s /\ frame'.size = size
  BY <1>1
<1>3. Framed(s, size - 14)
  BY MoreFramed
<1> QED
  BY <1>1, <1>2, <1>3

LEMMA DamagedFrame ==
  ASSUME SenderInv, pc = "built", NEW intact \in Int, NEW b \in Int, NEW tail,
         Damaged(intact, b, tail), intact <= b - 2
  PROVE  /\ stage = "wait" /\ stage' = "parse"
         /\ UNCHANGED <<pos, parsed, tlv, end, screen, seen>>
         /\ frame'.size \in Nat
         /\ Framed(frame'.tlvs, frame'.size - 14) /\ Room(frame'.tlvs)
<1>1. PICK n \in 1..Len(tlvs), noise \in (IF tail = "cut" THEN {Empty} ELSE NoiseTexts),
           digits \in 1..5 :
        /\ \A k \in 1..Len(tlvs) : k <= n <=> tlvs[k].at + 6 <= intact
        /\ D!Receive([k \in 1..n |-> Remains(tlvs[k], intact, noise, digits)],
                     D!Header + b, tail)
  BY DEF Damaged
<1>2. noise \in WellFormed
  <2>1. CASE tail = "cut"
    BY <2>1, EmptyWellFormed
  <2>2. CASE tail # "cut"
    <3>1. noise \in NoiseTexts
      BY <2>2
    <3> QED
      BY <3>1, TextWellFormed, BeaconTextAssumption
  <2> QED
    BY <2>1, <2>2
<1> DEFINE s == [k \in 1..n |-> Remains(tlvs[k], intact, noise, digits)]
<1>3. Framed(s, b) /\ Room(s)
  BY <1>1, <1>2, DamagedFramed
<1>4. D!Header + b \in Nat /\ b <= D!Header + b - 14
  <2>1. /\ tlvs \in Seq(TlvSet) /\ Len(tlvs) \in Nat \ {0}
    BY PduFacts
  <2>2. 1 \in 1..Len(tlvs) /\ 1 <= n
    BY <2>1
  <2>3. tlvs[1].at + 6 <= intact /\ tlvs[1].at = 0
    BY <1>1, <2>2 DEF SenderInv, ContentsInv
  <2>4. 6 <= intact
    BY <2>3
  <2> QED
    BY <2>4 DEF D!Header
<1>5. D!Receive(s, D!Header + b, tail)
  BY <1>1
<1> HIDE DEF s
<1>6. PICK size \in Nat : size = D!Header + b /\ b <= size - 14
  BY <1>4 DEF D!Header
<1>7. PICK r : r = s
  OBVIOUS
<1>8. Framed(r, b) /\ Room(r) /\ D!Receive(r, size, tail)
  BY <1>3, <1>5, <1>6, <1>7
<1> QED
  BY <1>6, <1>8, ReceiveFrame

LEMMA DeliverFrame ==
  ASSUME SenderInv, Deliver
  PROVE  /\ stage = "wait" /\ stage' = "parse" /\ pc' = "built" /\ argv' = argv
         /\ UNCHANGED <<pos, parsed, tlv, end, screen, seen>>
         /\ frame'.size \in Nat
         /\ Framed(frame'.tlvs, frame'.size - 14) /\ Room(frame'.tlvs)
<1>1. pc = "built" /\ pc' = pc /\ argv' = argv /\ currentByte \in Nat
  BY DEF Deliver, builderVars, SenderInv, IInv, PduInv
<1>2. ASSUME NEW s, NEW b \in Nat, NEW least \in {0, 60}, Framed(s, b), Room(s),
             D!Receive(s, Padded(D!Header + b, least), "padding")
      PROVE  /\ stage = "wait" /\ stage' = "parse"
             /\ UNCHANGED <<pos, parsed, tlv, end, screen, seen>>
             /\ frame'.size \in Nat
             /\ Framed(frame'.tlvs, frame'.size - 14) /\ Room(frame'.tlvs)
  <2> DEFINE z == Padded(D!Header + b, least)
  <2>1. z \in Nat /\ b <= z - 14
    BY DEF Padded, D!Header
  <2> HIDE DEF z
  <2>2. D!Receive(s, z, "padding")
    BY <1>2 DEF z
  <2> QED
    BY <1>2, <2>1, <2>2, ReceiveFrame
<1>3. CASE \E least \in {0, 60} :
             D!Receive(tlvs, Padded(D!Header + currentByte, least), "padding")
  <2>1. PICK least \in {0, 60} :
          D!Receive(tlvs, Padded(D!Header + currentByte, least), "padding")
    BY <1>3
  <2>2. Framed(tlvs, currentByte) /\ Room(tlvs)
    BY <1>1, BuiltFramed, BuiltRoom
  <2> QED
    BY <1>1, <1>2, <2>1, <2>2
<1>4. CASE \E least \in {0, 60} :
             /\ CanSign(currentByte)
             /\ D!Receive(Signed, Padded(D!Header + currentByte + 270, least), "padding")
  <2>1. PICK least \in {0, 60} :
          /\ CanSign(currentByte)
          /\ D!Receive(Signed, Padded(D!Header + currentByte + 270, least), "padding")
    BY <1>4
  <2>2. PICK s : s = Signed
    OBVIOUS
  <2>3. PICK b \in Nat : b = currentByte + 270
    BY <1>1
  <2>4. D!Header + b = D!Header + currentByte + 270
    BY <1>1, <2>3 DEF D!Header
  <2>5. Framed(s, b) /\ Room(s)
    BY <1>1, <2>1, <2>2, <2>3, SignedFramed, SignedRoom
  <2>6. D!Receive(s, Padded(D!Header + b, least), "padding")
    BY <2>1, <2>2, <2>4
  <2> QED
    BY <1>1, <1>2, <2>5, <2>6
<1>5. CASE \E len \in SentLengths :
             \/ ~CanSign(len) /\ Damaged(len - 266, len, "overwritten")
             \/ len < currentByte /\ Damaged(len - 2, len, "cut")
             \/ /\ len < currentByte /\ CanSign(len)
                /\ Damaged(len - 2, len + 270, "overwritten")
  <2>1. PICK len \in SentLengths :
          \/ Damaged(len - 266, len, "overwritten")
          \/ Damaged(len - 2, len, "cut")
          \/ Damaged(len - 2, len + 270, "overwritten")
    BY <1>5
  <2>2. len \in Int
    BY <1>1 DEF SentLengths
  <2>3. \E intact \in Int, b \in Int, tail \in {"cut", "overwritten"} :
          Damaged(intact, b, tail) /\ intact <= b - 2
    <3>1. len - 266 \in Int /\ len - 2 \in Int /\ len + 270 \in Int
          /\ len - 266 <= len - 2 /\ len - 2 <= len + 270 - 2
      BY <2>2
    <3> QED
      BY <2>1, <2>2, <3>1
  <2> QED
    BY <1>1, <2>3, DamagedFrame
<1> QED
  BY <1>1, <1>3, <1>4, <1>5 DEF Deliver

-----------------------------------------------------------------------------
(* The walk.  Before TLV m, or behind them all.                            *)
EntrySet == [of : Nat, subtype : DOMAIN Label, text : WellFormed]

At(m) ==
  /\ m \in 1..(Len(frame.tlvs) + 1)
  /\ m <= Len(frame.tlvs) => pos = 14 + frame.tlvs[m].at
  /\ m = Len(frame.tlvs) + 1 => pos >= 14 + Behind(frame.tlvs[Len(frame.tlvs)])

(* There is an entry for each TLV that is known among the first m, and,    *)
(* unless something was overwritten behind them all, no other.             *)
Entries(m) ==
  /\ Len(parsed) >= D!EntryOf(m)
  /\ \/ Len(parsed) = D!EntryOf(m)
     \/ m = Len(frame.tlvs) /\ frame.tail = "overwritten"
  /\ \A k \in 1..m : D!Known(frame.tlvs[k]) =>
       /\ D!EntryOf(k) \in 1..Len(parsed)
       /\ parsed[D!EntryOf(k)].of = frame.tlvs[k].of
       /\ parsed[D!EntryOf(k)].subtype = frame.tlvs[k].subtype

WalkInv ==
  /\ stage \in {"wait", "parse", "print", "shown", "undefined"}
  /\ pos \in Nat /\ parsed \in Seq(EntrySet)
  /\ \A e \in 1..Len(parsed) : parsed[e].text.len \in 0..509
  /\ stage = "wait" => pos = 14 /\ parsed = <<>>
  /\ stage = "parse" => \E m \in 1..(Len(frame.tlvs) + 1) : At(m) /\ Entries(m - 1)
  /\ stage \in {"print", "shown"} => Entries(Len(frame.tlvs))
  /\ stage = "undefined" /\ frame.tail # "overwritten" => Cardinality(Information) > 20
  /\ stage # "undefined" => Len(parsed) <= 25

(* TlvDisplay's helpers are those of this module.                          *)
LEMMA SameHelpers ==
  ASSUME NEW s, NEW t, NEW n
  PROVE  /\ D!Cardinality(s) = Cardinality(s) /\ D!Word(n) = Word(n) /\ D!Empty = Empty
         /\ D!Cat(s, t) = Cat(s, t) /\ D!Cut(t, n) = Cut(t, n) /\ D!Pad(t, n) = Pad(t, n)
         /\ D!List(n, t) = List(n, t)
<1>1. D!Cardinality(s) = Cardinality(s)
  BY DEF D!Cardinality, Cardinality
<1>2. D!Word(n) = Word(n) /\ D!Empty = Empty
  BY DEF D!Word, Word, D!Empty, Empty
<1>3. \A u, v : D!Cat(u, v) = Cat(u, v)
  BY DEF D!Cat, Cat
<1>4. D!Cut(t, n) = Cut(t, n)
  BY DEF D!Cut, Cut
<1>5. D!Pad(t, n) = Pad(t, n)
  BY <1>3 DEF D!Pad, Pad, D!Blank, Blank
<1>6. D!List(n, t) = List(n, t)
  BY <1>2 DEF D!List, List
<1> QED
  BY <1>1, <1>2, <1>3, <1>4, <1>5, <1>6

LEMMA EntryStep ==
  ASSUME NEW k \in Nat
  PROVE  /\ D!EntryOf(k) \in Nat /\ D!EntryOf(0) = 0
         /\ D!EntryOf(k + 1) = IF D!Known(frame.tlvs[k + 1]) THEN D!EntryOf(k) + 1 ELSE D!EntryOf(k)
<1> DEFINE S == {l \in 1..k : D!Known(frame.tlvs[l])}
           T == {l \in 1..(k + 1) : D!Known(frame.tlvs[l])}
<1>1. IsFiniteSet(1..k)
  BY FS_Interval
<1>2. IsFiniteSet(S) /\ Cardinality(S) \in Nat
  BY <1>1, FS_Subset, FS_CardinalityType
<1>3. D!EntryOf(0) = 0
  <2>1. {l \in 1..0 : D!Known(frame.tlvs[l])} = {}
    OBVIOUS
  <2>2. D!EntryOf(0) = Cardinality({l \in 1..0 : D!Known(frame.tlvs[l])})
    BY SameHelpers DEF D!EntryOf
  <2> QED
    BY <2>1, <2>2, FS_EmptySet
<1>4. D!EntryOf(k) = Cardinality(S) /\ D!EntryOf(k + 1) = Cardinality(T)
  BY SameHelpers DEF D!EntryOf
<1>5. 1..(k + 1) = (1..k) \cup {k + 1} /\ k + 1 \notin 1..k
  OBVIOUS
<1>6. CASE D!Known(frame.tlvs[k + 1])
  <2>1. T = S \cup {k + 1} /\ k + 1 \notin S
    BY <1>5, <1>6
  <2>2. Cardinality(T) = Cardinality(S) + 1
    BY <1>2, <2>1, FS_AddElement
  <2> QED
    BY <1>2, <1>3, <1>4, <1>6, <2>2
<1>7. CASE ~D!Known(frame.tlvs[k + 1])
  <2>1. T = S
    BY <1>5, <1>7
  <2> QED
    BY <1>2, <1>3, <1>4, <1>7, <2>1
<1> QED
  BY <1>6, <1>7

(* What there is room for.                                                 *)
LEMMA EntriesAtMost ==
  ASSUME NEW k \in 1..Len(frame.tlvs), Len(frame.tlvs) \in Nat
  PROVE  D!EntryOf(k) <= Cardinality(KnownIn(frame.tlvs))
<1> DEFINE S == {l \in 1..k : D!Known(frame.tlvs[l])}
<1>1. IsFiniteSet(1..Len(frame.tlvs))
  BY FS_Interval
<1>2. IsFiniteSet(KnownIn(frame.tlvs))
  BY <1>1, FS_Subset DEF KnownIn
<1>3. S \subseteq KnownIn(frame.tlvs)
  BY DEF KnownIn
<1>4. Cardinality(S) <= Cardinality(KnownIn(frame.tlvs))
  BY <1>2, <1>3, FS_Subset
<1> QED
  BY <1>4, SameHelpers DEF D!EntryOf

LEMMA ContentsWellFormed ==
  ASSUME NEW t, Sound(t), NEW c \in D!Contents(t)
  PROVE  c \in WellFormed
<1>1. CASE c \in SignatureTexts
  BY <1>1, TextWellFormed, BeaconTextAssumption
<1>2. CASE D!Addresses(t) /\ c = List(t.n, AddressWidth[t.subtype])
  <2>1. AddressWidth[t.subtype] \in Nat /\ t.n \in Nat
    BY <1>2, BeaconTextAssumption DEF D!Addresses, Sound
  <2> QED
    BY <1>2, <2>1, ListWellFormed
<1>3. CASE c = Word(t.n)
  BY <1>3, WordWellFormed DEF Sound
<1>4. CASE c = t.text
  BY <1>4 DEF Sound
<1> QED
  BY <1>1, <1>2, <1>3, <1>4, SameHelpers DEF D!Contents

LEMMA ShownWellFormed ==
  ASSUME NEW u \in DOMAIN Label, NEW c \in WellFormed
  PROVE  D!Shown(u, c) \in WellFormed /\ D!Shown(u, c).len \in 0..509
<1> DEFINE w == Word(Label[u])
           p == Pad(w, 10)
           s == Cat(p, c)
<1>2. Label[u] \in Nat
  BY BeaconTextAssumption
<1>3. p \in WellFormed
  BY <1>2, WordWellFormed, PadWellFormed
<1> HIDE DEF p
<1>4. s \in WellFormed /\ s.len \in Nat
  <2>1. s \in WellFormed
    BY <1>3, CatWellFormed
  <2> HIDE DEF s
  <2> QED
    BY <2>1 DEF WellFormed, TextSet
<1>5. D!Shown(u, c) = Cut(s, 509)
  BY SameHelpers DEF D!Shown, D!DescriptorWidth, D!ParsedTlvsMaxLength, p
<1> HIDE DEF s
<1>6. Cut(s, 509) \in WellFormed /\ Cut(s, 509).len = IF s.len <= 509 THEN s.len ELSE 509
  BY <1>4, CutWellFormed
<1>7. (IF s.len <= 509 THEN s.len ELSE 509) \in 0..509
  BY <1>4
<1> QED
  BY <1>5, <1>6, <1>7

(* A new entry, for the table as far as it goes.                           *)
LEMMA EnterEntry ==
  ASSUME WalkInv, stage = "parse", NEW i \in Nat, NEW u \in DOMAIN Label,
         NEW c \in WellFormed, D!Enter(i, u, c)
  PROVE  /\ \E e \in EntrySet : e.of = i /\ e.subtype = u /\ parsed' = Append(parsed, e)
         /\ parsed' \in Seq(EntrySet) /\ Len(parsed') = Len(parsed) + 1 /\ Len(parsed) \in Nat
         /\ \A k \in 1..Len(parsed') : parsed'[k].text.len \in 0..509
         /\ \/ Len(parsed') <= 25 /\ stage' = "parse"
            \/ Len(parsed') = 26 /\ stage' = "undefined"
<1>1. /\ parsed \in Seq(EntrySet) /\ Len(parsed) \in Nat /\ Len(parsed) <= 25
      /\ \A k \in 1..Len(parsed) : parsed[k].text.len \in 0..509
  BY DEF WalkInv
<1>2. PICK w \in WellFormed : w = D!Shown(u, c) /\ w.len \in 0..509
  BY ShownWellFormed
<1>3. PICK e : e = [of |-> i, subtype |-> u, text |-> w]
  OBVIOUS
<1>4. e \in EntrySet /\ e.of = i /\ e.subtype = u /\ e.text = w
  BY <1>3 DEF EntrySet
<1>5. parsed' = Append(parsed, e)
  BY <1>2, <1>3 DEF D!Enter
<1>6. /\ parsed' \in Seq(EntrySet) /\ Len(parsed') = Len(parsed) + 1
      /\ parsed'[Len(parsed) + 1] = e
      /\ \A k \in 1..Len(parsed) : parsed'[k] = parsed[k]
  BY <1>1, <1>4, <1>5
<1>7. \A k \in 1..Len(parsed') : k \in 1..Len(parsed) \/ k = Len(parsed) + 1
  BY <1>1, <1>6
<1>8. ASSUME NEW k \in 1..Len(parsed') PROVE parsed'[k].text.len \in 0..509
  <2>1. CASE k \in 1..Len(parsed)
    BY <1>1, <1>6, <2>1
  <2>2. CASE k = Len(parsed) + 1
    BY <1>2, <1>4, <1>6, <2>2
  <2> QED
    BY <1>7, <2>1, <2>2
<1>9. stage' = IF Len(parsed) < 25 THEN "parse" ELSE "undefined"
  BY DEF D!Enter, D!ParsedTlvsMaxNumber
<1>10. \/ Len(parsed') <= 25 /\ stage' = "parse"
       \/ Len(parsed') = 26 /\ stage' = "undefined"
  BY <1>1, <1>6, <1>9
<1> QED
  BY <1>1, <1>4, <1>5, <1>6, <1>8, <1>10

(* Where the walk is, it is at one TLV only, or at none.                   *)
LEMMA AtOne ==
  ASSUME FrameInv, stage = "parse", pos \in Nat, NEW m, At(m), NEW k \in 1..Len(frame.tlvs)
  PROVE  /\ D!StartsAt(k) => k = m
         /\ m <= Len(frame.tlvs) => D!StartsAt(m) /\ ~D!Behind(pos)
         /\ m = Len(frame.tlvs) + 1 => D!Behind(pos)
<1> DEFINE s == frame.tlvs
           n == Len(s)
<1>1. /\ Framed(s, frame.size - 14) /\ n \in Nat \ {0}
      /\ m \in 1..(n + 1) /\ (m <= n => pos = 14 + s[m].at)
      /\ (m = n + 1 => pos >= 14 + Behind(s[n]))
  BY DEF FrameInv, Framed, At
<1>2. ASSUME NEW j \in 1..n
      PROVE  /\ s[j].at \in Nat /\ s[j].length \in Nat
             /\ Behind(s[j]) = s[j].at + s[j].length + 2 /\ Behind(s[j]) \in Nat
  <2>1. s[j].at \in Nat /\ s[j].length \in Nat
    BY <1>1 DEF Framed, Sound
  <2> HIDE DEF s
  <2> QED
    BY <2>1 DEF Behind
<1>3. \A i, j \in 1..n : i < j => Behind(s[i]) <= s[j].at
  BY <1>1 DEF Framed
<1>4. \A j \in 1..n : D!StartsAt(j) <=> s[j].at + 14 = pos
  BY DEF D!StartsAt, D!Header
<1>5. D!Behind(pos) <=> \A j \in 1..n : pos >= 14 + s[j].at + s[j].length + 2
  BY DEF D!Behind, D!Header
<1> HIDE DEF s, n
<1>6. CASE m \in 1..n
  <2>1. pos = 14 + s[m].at /\ m # n + 1
    BY <1>1, <1>6
  <2>2. D!StartsAt(m) /\ ~D!Behind(pos)
    BY <1>2, <1>4, <1>5, <1>6, <2>1
  <2>3. ASSUME D!StartsAt(k) PROVE k = m
    <3>0. k \in 1..n
      BY DEF s, n
    <3>1. s[k].at = s[m].at
      <4>1. PICK x \in Nat, y \in Nat : x = s[k].at /\ y = s[m].at
        BY <1>2, <1>6, <3>0
      <4>2. s[k].at + 14 = pos
        BY <1>4, <2>3, <3>0
      <4>3. x + 14 = 14 + y
        BY <2>1, <4>1, <4>2
      <4>4. x = y
        BY <4>3
      <4> QED
        BY <4>1, <4>4
    <3>2. PICK a \in Nat, b \in Nat : a = Behind(s[k]) /\ b = Behind(s[m])
      BY <1>2, <1>6, <3>0
    <3>3. PICK p \in Nat : p = s[k].at /\ p = s[m].at
      BY <1>2, <3>0, <3>1
    <3>4. p < a /\ p < b
      <4>1. PICK x \in Nat, y \in Nat : x = s[k].length /\ y = s[m].length
        BY <1>2, <1>6, <3>0
      <4>2. a = p + x + 2 /\ b = p + y + 2
        BY <1>2, <1>6, <3>0, <3>2, <3>3, <4>1
      <4> QED
        BY <4>2
    <3>5. (k < m => a <= p) /\ (m < k => b <= p)
      BY <1>3, <1>6, <3>0, <3>2, <3>3
    <3>6. ~(k < m) /\ ~(m < k)
      BY <3>4, <3>5
    <3> QED
      BY <1>6, <3>0, <3>6
  <2> QED
    BY <2>1, <2>2, <2>3 DEF s, n
<1>7. CASE m = n + 1
  <2>1. pos >= 14 + Behind(s[n]) /\ ~(m <= n) /\ n \in 1..n
    BY <1>1, <1>7
  <2>2. ASSUME NEW j \in 1..n PROVE pos >= 14 + Behind(s[j]) /\ pos \in Int
    <3>1. Behind(s[j]) <= Behind(s[n])
      <4>1. CASE j = n
        BY <1>2, <4>1
      <4>2. CASE j < n
          <5>1. Behind(s[j]) <= s[n].at
            BY <1>3, <2>1, <4>2
          <5>2. Behind(s[j]) \in Nat /\ s[n].at \in Nat /\ s[n].at <= Behind(s[n])
            <6>1. s[n].at \in Nat /\ s[n].length \in Nat /\ Behind(s[n]) = s[n].at + s[n].length + 2
              BY <1>2, <2>1
            <6> QED
              BY <1>2, <6>1
          <5>3. Behind(s[n]) \in Nat
            BY <1>2, <2>1
          <5> QED
            BY <5>1, <5>2, <5>3
      <4> QED
        BY <1>1, <4>1, <4>2
    <3> QED
      BY <1>2, <2>1, <3>1
  <2>3. D!Behind(pos)
    BY <1>2, <1>5, <2>2
  <2>4. ~D!StartsAt(k)
    <3>1. k \in 1..n
      BY DEF s, n
    <3>2. pos >= 14 + Behind(s[k]) /\ Behind(s[k]) = s[k].at + s[k].length + 2
      BY <1>2, <2>2, <3>1
    <3>3. s[k].at \in Nat /\ s[k].length \in Nat
      BY <1>2, <3>1
    <3>4. s[k].at + 14 # pos
      BY <3>2, <3>3
    <3> QED
      BY <1>4, <3>1, <3>4
  <2> QED
    BY <2>1, <2>3, <2>4 DEF s, n
<1> QED
  BY <1>1, <1>6, <1>7

(* TLVs that are not known leave no entries.                               *)
LEMMA EntriesRest ==
  ASSUME NEW k \in Nat, NEW l \in Nat, k <= l, Entries(k), k # Len(frame.tlvs),
         \A j \in 1..l : k < j => ~D!Known(frame.tlvs[j])
  PROVE  Entries(l)
<1>1. {j \in 1..l : D!Known(frame.tlvs[j])} = {j \in 1..k : D!Known(frame.tlvs[j])}
  <2>1. \A j \in 1..l : j \in 1..k \/ k < j
    OBVIOUS
  <2>2. \A j \in 1..k : j \in 1..l
    OBVIOUS
  <2> QED
    BY <2>1, <2>2
<1>2. D!EntryOf(l) = D!EntryOf(k)
  BY <1>1 DEF D!EntryOf
<1>3. Len(parsed) >= D!EntryOf(l) /\ Len(parsed) = D!EntryOf(l)
  BY <1>2 DEF Entries
<1>4. \A j \in 1..l : D!Known(frame.tlvs[j]) => j \in 1..k
  OBVIOUS
<1> QED
  BY <1>3, <1>4 DEF Entries

LEMMA EntriesKept ==
  ASSUME NEW k, Entries(k), frame' = frame, parsed' = parsed
  PROVE  Entries(k)'
<1>1. \A t : D!Known(t)' <=> D!Known(t)
  BY DEF D!Known
<1>2. \A j : D!EntryOf(j)' = D!EntryOf(j)
  <2> SUFFICES ASSUME NEW j PROVE D!EntryOf(j)' = D!EntryOf(j)
    OBVIOUS
  <2>1. {l \in 1..j : D!Known(frame'.tlvs[l])} = {l \in 1..j : D!Known(frame.tlvs[l])}
    OBVIOUS
  <2> QED
    BY <2>1 DEF D!EntryOf
<1> QED
  BY <1>1, <1>2 DEF Entries

LEMMA EntriesAdded ==
  ASSUME NEW k \in Nat, Entries(k), k # Len(frame.tlvs), D!Known(frame.tlvs[k + 1]),
         parsed \in Seq(EntrySet),
         NEW e, e.of = frame.tlvs[k + 1].of, e.subtype = frame.tlvs[k + 1].subtype,
         frame' = frame, parsed' = Append(parsed, e)
  PROVE  Entries(k + 1)' /\ Len(parsed') = D!EntryOf(k + 1)
<1>1. D!EntryOf(k + 1) = Len(parsed) + 1 /\ Len(parsed) = D!EntryOf(k) /\ Len(parsed) \in Nat
  BY EntryStep DEF Entries
<1>2. /\ Len(parsed') = Len(parsed) + 1 /\ parsed'[Len(parsed) + 1] = e
      /\ \A j \in 1..Len(parsed) : parsed'[j] = parsed[j] /\ j \in 1..Len(parsed')
  BY <1>1
<1>3. \A j \in 1..(k + 1) : D!Known(frame.tlvs[j]) =>
        /\ D!EntryOf(j) \in 1..Len(parsed')
        /\ parsed'[D!EntryOf(j)].of = frame.tlvs[j].of
        /\ parsed'[D!EntryOf(j)].subtype = frame.tlvs[j].subtype
  <2> SUFFICES ASSUME NEW j \in 1..(k + 1), D!Known(frame.tlvs[j])
               PROVE  /\ D!EntryOf(j) \in 1..Len(parsed')
                      /\ parsed'[D!EntryOf(j)].of = frame.tlvs[j].of
                      /\ parsed'[D!EntryOf(j)].subtype = frame.tlvs[j].subtype
    OBVIOUS
  <2>1. CASE j \in 1..k
    BY <1>2, <2>1 DEF Entries
  <2>2. CASE j = k + 1
    <3>1. Len(parsed) + 1 \in 1..Len(parsed')
      BY <1>1, <1>2
    <3> QED
      BY <1>1, <1>2, <2>2, <3>1
  <2> QED
    BY <2>1, <2>2
<1>4. \A j : D!EntryOf(j)' = D!EntryOf(j)
  <2> SUFFICES ASSUME NEW j PROVE D!EntryOf(j)' = D!EntryOf(j)
    OBVIOUS
  <2>1. {l \in 1..j : D!Known(frame'.tlvs[l])} = {l \in 1..j : D!Known(frame.tlvs[l])}
    OBVIOUS
  <2> QED
    BY <2>1 DEF D!EntryOf
<1>5. \A t : D!Known(t)' <=> D!Known(t)
  BY DEF D!Known
<1>6. Len(parsed') = D!EntryOf(k + 1) /\ Len(parsed') >= D!EntryOf(k + 1)
  BY <1>1, <1>2
<1> QED
  BY <1>3, <1>4, <1>5, <1>6 DEF Entries

(* Behind them all, others may be added to those of an overwritten frame.  *)
LEMMA EntriesMore ==
  ASSUME NEW k, k = Len(frame.tlvs), Entries(k), frame.tail = "overwritten",
         parsed \in Seq(EntrySet), NEW e, frame' = frame, parsed' = Append(parsed, e),
         D!EntryOf(k) \in Nat
  PROVE  Entries(k)'
<1>1. /\ Len(parsed') = Len(parsed) + 1 /\ Len(parsed) \in Nat
      /\ \A j \in 1..Len(parsed) : parsed'[j] = parsed[j] /\ j \in 1..Len(parsed')
  OBVIOUS
<1>2. \A j : D!EntryOf(j)' = D!EntryOf(j)
  <2> SUFFICES ASSUME NEW j PROVE D!EntryOf(j)' = D!EntryOf(j)
    OBVIOUS
  <2>1. {l \in 1..j : D!Known(frame'.tlvs[l])} = {l \in 1..j : D!Known(frame.tlvs[l])}
    OBVIOUS
  <2> QED
    BY <2>1 DEF D!EntryOf
<1>3. \A t : D!Known(t)' <=> D!Known(t)
  BY DEF D!Known
<1>4. Len(parsed) >= D!EntryOf(k)
  BY DEF Entries
<1>5. Len(parsed') >= D!EntryOf(k)
  BY <1>1, <1>4
<1>6. \A j \in 1..k : D!Known(frame.tlvs[j]) =>
        /\ D!EntryOf(j) \in 1..Len(parsed')
        /\ parsed'[D!EntryOf(j)].of = frame.tlvs[j].of
        /\ parsed'[D!EntryOf(j)].subtype = frame.tlvs[j].subtype
  BY <1>1 DEF Entries
<1> QED
  BY <1>2, <1>3, <1>5, <1>6 DEF Entries

LEMMA BuiltStays ==
  ASSUME pc = "built", [Next]_builderVars
  PROVE  UNCHANGED builderVars
BY DEF Next, OptionStep, Main, EndOptions, AddCombined, Finish, OptText, OptVlanId, OptIp,
       OptPassword, OptPath, OptOther, Option

LEMMA FrameKept ==
  ASSUME FrameInv, UNCHANGED <<pc, argv, frame>>, stage = "wait" => stage' = "wait"
  PROVE  FrameInv'
<1>1. Information' = Information
  BY DEF Information
<1>2. \A s : Room(s)' <=> Room(s)
  BY <1>1 DEF Room, KnownIn, D!Known
<1>3. ASSUME stage' # "wait"
      PROVE  /\ pc' = "built" /\ frame'.size \in Nat
             /\ Framed(frame'.tlvs, frame'.size - 14) /\ Room(frame.tlvs)
  BY <1>3 DEF FrameInv
<1>4. PICK s : s = frame.tlvs
  OBVIOUS
<1>5. Room(s) => Room(s)'
  BY <1>2
<1>6. Room(frame.tlvs) => Room(frame.tlvs)'
  BY <1>4, <1>5 DEF Room
<1> QED
  BY <1>3, <1>6 DEF FrameInv

LEMMA WalkKept ==
  ASSUME WalkInv, UNCHANGED <<argv, frame, pos, parsed>>,
         stage' = stage \/ (stage = "print" /\ stage' = "shown")
  PROVE  WalkInv'
<1>1. Information' = Information
  BY DEF Information
<1>2. \A m : Entries(m) => Entries(m)'
  BY EntriesKept
<1>3. \A m : At(m) => At(m)'
  BY DEF At
<1>4. ASSUME stage' = "parse"
      PROVE  \E m \in 1..(Len(frame'.tlvs) + 1) : At(m)' /\ Entries(m - 1)'
  <2>1. stage = "parse" /\ frame' = frame
    BY <1>4
  <2>2. PICK m \in 1..(Len(frame.tlvs) + 1) : At(m) /\ Entries(m - 1)
    BY <2>1 DEF WalkInv
  <2>3. PICK l : l = m - 1
    OBVIOUS
  <2>4. Entries(l)'
    BY <1>2, <2>2, <2>3
  <2> QED
    BY <1>3, <2>1, <2>2, <2>3, <2>4
<1>5. ASSUME stage' \in {"print", "shown"}
      PROVE  Entries(Len(frame.tlvs))'
  <2>1. Entries(Len(frame.tlvs))
    BY <1>5 DEF WalkInv
  <2>2. PICK m : m = Len(frame.tlvs)
    OBVIOUS
  <2>3. Entries(m)'
    BY <1>2, <2>1, <2>2
  <2> QED
    BY <2>2, <2>3 DEF Entries
<1> QED
  BY <1>1, <1>4, <1>5 DEF WalkInv

LEMMA DeliverWalk ==
  ASSUME SenderInv, WalkInv, Deliver
  PROVE  FrameInv' /\ WalkInv'
<1>1. /\ stage = "wait" /\ stage' = "parse" /\ pc' = "built" /\ argv' = argv
      /\ UNCHANGED <<pos, parsed>> /\ frame'.size \in Nat
      /\ Framed(frame'.tlvs, frame'.size - 14) /\ Room(frame'.tlvs)
  BY DeliverFrame
<1>2. Information' = Information
  BY <1>1 DEF Information
<1>3. FrameInv'
  <2>1. PICK s : s = frame'.tlvs
    OBVIOUS
  <2>2. Room(s)'
    BY <1>1, <1>2, <2>1 DEF Room, KnownIn, D!Known
  <2>3. Room(frame.tlvs)'
    BY <2>1, <2>2 DEF Room
  <2> QED
    BY <1>1, <2>3 DEF FrameInv
<1>4. pos = 14 /\ parsed = <<>> /\ Len(parsed) = 0
  BY <1>1 DEF WalkInv
<1>5. Len(frame'.tlvs) \in Nat /\ Len(frame'.tlvs) # 0 /\ frame'.tlvs[1].at = 0
  BY <1>1 DEF Framed
<1>6. At(1)'
  <2>1. pos' = 14 + frame'.tlvs[1].at
    BY <1>1, <1>4, <1>5
  <2>2. 1 \in 1..(Len(frame'.tlvs) + 1) /\ 1 # Len(frame'.tlvs) + 1
    BY <1>5
  <2> QED
    BY <2>1, <2>2 DEF At
<1>7. Entries(0)'
  <2>1. D!EntryOf(0)' = 0
    <3>1. {l \in 1..0 : D!Known(frame'.tlvs[l])} = {}
      OBVIOUS
    <3>2. Cardinality({}) = 0
      BY FS_EmptySet
    <3> QED
      BY <3>1, <3>2, SameHelpers DEF D!EntryOf
  <2>2. Len(parsed') = 0
    BY <1>1, <1>4
  <2> QED
    BY <2>1, <2>2 DEF Entries
<1>8. \E m \in 1..(Len(frame'.tlvs) + 1) : At(m)' /\ Entries(m - 1)'
  <2>1. PICK z : z = 0
    OBVIOUS
  <2>2. PICK m : m = 1
    OBVIOUS
  <2>3. m - 1 = z /\ m \in 1..(Len(frame'.tlvs) + 1)
    BY <1>5, <2>1, <2>2
  <2>4. At(m)' /\ Entries(z)'
    BY <1>6, <1>7, <2>1, <2>2 DEF At, Entries
  <2> QED
    BY <2>3, <2>4
<1> QED
  BY <1>1, <1>3, <1>4, <1>8 DEF WalkInv

LEMMA ParseTlvWalk ==
  ASSUME SenderInv, FrameInv, WalkInv, NEW k \in 1..Len(frame.tlvs), D!ParseTlv(k),
         argv' = argv
  PROVE  WalkInv'
<1> DEFINE s == frame.tlvs
           n == Len(s)
<1>1. /\ stage = "parse" /\ D!StartsAt(k) /\ pos' = pos + s[k].length + 2 /\ frame' = frame
      /\ pos \in Nat /\ parsed \in Seq(EntrySet)
      /\ \A e \in 1..Len(parsed) : parsed[e].text.len \in 0..509
      /\ Len(parsed) <= 25
  BY DEF D!ParseTlv, D!Walking, WalkInv
<1>2. /\ Framed(s, frame.size - 14) /\ n \in Nat \ {0} /\ k \in Nat \ {0}
      /\ Sound(s[k])
  <2>1. Framed(s, frame.size - 14)
    BY <1>1 DEF FrameInv
  <2>2. n \in Nat \ {0} /\ Sound(s[k])
    BY <2>1 DEF Framed
  <2> QED
    BY <2>1, <2>2
<1>3. At(k) /\ Entries(k - 1)
  <2>1. PICK m \in 1..(Len(frame.tlvs) + 1) : At(m) /\ Entries(m - 1)
    BY <1>1 DEF WalkInv
  <2>2. k = m
    BY <1>1, <2>1, AtOne
  <2> QED
    BY <2>1, <2>2
<1>4. pos' = 14 + Behind(s[k]) /\ pos' \in Nat
  <2>1. pos = s[k].at + 14 /\ pos' = pos + s[k].length + 2
    BY <1>1 DEF D!StartsAt, D!Header
  <2>2. PICK a \in Nat, l \in Nat : a = s[k].at /\ l = s[k].length
    BY <1>2 DEF Sound
  <2>3. Behind(s[k]) = a + l + 2
    BY <2>2 DEF Behind
  <2>4. pos' = (a + 14) + l + 2
    BY <2>1, <2>2
  <2> QED
    BY <2>3, <2>4
<1>5. At(k + 1)'
  <2>1. k + 1 \in 1..(n + 1) /\ (k + 1 <= n => k \in 1..(n - 1)) /\ (k + 1 = n + 1 => k = n)
    BY <1>2
  <2>2. k + 1 <= n => pos' = 14 + s[k + 1].at
    BY <1>2, <1>4, <2>1 DEF Framed
  <2>3. k + 1 = n + 1 => pos' >= 14 + Behind(s[n])
    BY <1>4, <2>1
  <2> QED
    BY <1>1, <2>1, <2>2, <2>3 DEF At
<1>6. PICK j : j = k - 1
  OBVIOUS
<1>7. j \in Nat /\ j + 1 = k /\ Entries(j) /\ j # Len(frame.tlvs)
  BY <1>2, <1>3, <1>6
<1>8. Information' = Information
  BY DEF Information
<1>9. ASSUME Entries(j + 1)', stage' = "parse"
      PROVE  \E m \in 1..(Len(frame'.tlvs) + 1) : At(m)' /\ Entries(m - 1)'
  <2>1. PICK m : m = k + 1
    OBVIOUS
  <2>2. PICK l : l = j + 1
    OBVIOUS
  <2>3. m - 1 = l /\ m \in 1..(Len(frame'.tlvs) + 1)
    BY <1>1, <1>2, <1>7, <2>1, <2>2
  <2>4. At(m)' /\ Entries(l)'
    BY <1>5, <1>9, <2>1, <2>2 DEF At, Entries
  <2> QED
    BY <2>3, <2>4
<1>10. CASE ~D!Known(s[k])
  <2>1. UNCHANGED <<parsed, stage>>
    BY <1>10 DEF D!ParseTlv
  <2>0. \A i \in 1..k : j < i => i = k
    BY <1>7
  <2>2. Entries(j + 1)
    BY <1>2, <1>7, <1>10, <2>0, EntriesRest
  <2>3. PICK l : l = j + 1
    OBVIOUS
  <2>4. Entries(l)'
    BY <1>1, <2>1, <2>2, <2>3, EntriesKept
  <2>5. Entries(j + 1)'
    BY <2>3, <2>4 DEF Entries
  <2> QED
    BY <1>1, <1>4, <1>9, <2>1, <2>5 DEF WalkInv
<1>11. CASE D!Known(s[k])
  <2>1. PICK c \in D!Contents(s[k]) : D!Enter(s[k].of, s[k].subtype, c)
    BY <1>11 DEF D!ParseTlv
  <2>2. PICK i \in Nat, u \in DOMAIN Label, d \in WellFormed :
          i = s[k].of /\ u = s[k].subtype /\ d = c
    <3>1. PICK t : t = s[k]
      OBVIOUS
    <3>2. c \in WellFormed
      BY <1>2, <2>1, <3>1, ContentsWellFormed
    <3> QED
      BY <1>2, <1>11, <3>2 DEF Sound, D!Known
  <2>3. D!Enter(i, u, d)
    BY <2>1, <2>2
  <2>4. /\ \E e \in EntrySet : e.of = i /\ e.subtype = u /\ parsed' = Append(parsed, e)
        /\ parsed' \in Seq(EntrySet) /\ Len(parsed') = Len(parsed) + 1 /\ Len(parsed) \in Nat
        /\ \A l \in 1..Len(parsed') : parsed'[l].text.len \in 0..509
        /\ \/ Len(parsed') <= 25 /\ stage' = "parse"
           \/ Len(parsed') = 26 /\ stage' = "undefined"
    BY <1>1, <2>3, EnterEntry
  <2>5. PICK e : e.of = i /\ e.subtype = u /\ parsed' = Append(parsed, e)
    BY <2>4
  <2>6. Entries(j + 1)' /\ Len(parsed') = D!EntryOf(j + 1)
    BY <1>1, <1>7, <1>11, <2>2, <2>5, EntriesAdded
  <2>9. CASE Len(parsed') <= 25 /\ stage' = "parse"
    <3>1. \E m \in 1..(Len(frame'.tlvs) + 1) : At(m)' /\ Entries(m - 1)'
      BY <1>9, <2>6, <2>9
    <3> QED
      BY <1>4, <2>4, <2>9, <3>1 DEF WalkInv
  <2>10. CASE Len(parsed') = 26 /\ stage' = "undefined"
    <3>2. 26 <= Cardinality(KnownIn(s)) /\ Cardinality(KnownIn(s)) \in Nat
      <4>1. IsFiniteSet(KnownIn(s))
        <5>0. 1 \in Int /\ n \in Int
          BY <1>2
        <5>1. IsFiniteSet(1..n)
          BY <5>0, FS_Interval
        <5> QED
          BY <5>1, FS_Subset DEF KnownIn
      <4>2. D!EntryOf(k) <= Cardinality(KnownIn(s))
        BY <1>2, EntriesAtMost
      <4> QED
        BY <1>7, <2>6, <2>10, <4>1, <4>2, FS_CardinalityType
    <3>3. ~(Cardinality(Information) <= 20) /\ Cardinality(Information) \in Nat
      <4>1. Cardinality(Information) \in Nat
        BY InfoCount, FS_CardinalityType
      <4>2. Room(s)
        BY <1>1 DEF FrameInv
      <4> QED
        BY <3>2, <4>1, <4>2 DEF Room
    <3>4. Cardinality(Information') > 20
      BY <1>8, <3>3
    <3> QED
      BY <1>4, <2>4, <2>10, <3>4 DEF WalkInv
  <2> QED
    BY <2>4, <2>9, <2>10
<1> QED
  BY <1>10, <1>11

(* Behind the TLVs the walk goes on only.                                  *)
LEMMA BehindAll ==
  ASSUME FrameInv, WalkInv, stage = "parse", D!Behind(pos)
  PROVE  /\ Len(frame.tlvs) \in Nat \ {0}
         /\ Entries(Len(frame.tlvs)) /\ pos >= 14 + Behind(frame.tlvs[Len(frame.tlvs)])
<1>1. Len(frame.tlvs) \in Nat \ {0} /\ pos \in Nat
  BY DEF FrameInv, Framed, WalkInv
<1>2. PICK m \in 1..(Len(frame.tlvs) + 1) : At(m) /\ Entries(m - 1)
  BY DEF WalkInv
<1>3. m = Len(frame.tlvs) + 1
  <2>1. 1 \in 1..Len(frame.tlvs)
    BY <1>1
  <2>2. ~(m <= Len(frame.tlvs))
    BY <1>1, <1>2, <2>1, AtOne
  <2> QED
    BY <1>1, <2>2
<1>4. m - 1 = Len(frame.tlvs)
  BY <1>1, <1>3
<1> QED
  BY <1>1, <1>2, <1>3, <1>4 DEF At

LEMMA TailWalk ==
  ASSUME FrameInv, WalkInv, stage = "parse", D!Behind(pos), frame' = frame,
         NEW n \in D!TailLengths, pos' = pos + n + 2,
         \A k : k = Len(frame.tlvs) => Entries(k)'
  PROVE  /\ pos' \in Nat
         /\ \E m \in 1..(Len(frame'.tlvs) + 1) : At(m)' /\ Entries(m - 1)'
<1>1. /\ Len(frame.tlvs) \in Nat \ {0}
      /\ Entries(Len(frame.tlvs)) /\ pos >= 14 + Behind(frame.tlvs[Len(frame.tlvs)])
  BY BehindAll
<1>2. n \in Nat /\ pos \in Nat
  <2>1. n \in 0..511
    BY BeaconTextAssumption DEF D!TailLengths
  <2> QED
    BY <2>1 DEF WalkInv
<1>3. PICK l \in Nat \ {0} : l = Len(frame.tlvs)
  BY <1>1
<1>4. PICK m : m = l + 1
  OBVIOUS
<1>5. m \in 1..(l + 1) /\ m - 1 = l /\ ~(m <= l)
  BY <1>4
<1>6. Behind(frame.tlvs[l]) \in Int
  <2>1. l \in 1..l
    OBVIOUS
  <2>2. Sound(frame.tlvs[l])
    BY <1>3, <2>1 DEF FrameInv, Framed
  <2> QED
    BY <2>2 DEF Sound, Behind
<1>7. pos' >= 14 + Behind(frame.tlvs[l])
  BY <1>1, <1>2, <1>3, <1>6
<1>8. At(m)'
  BY <1>3, <1>5, <1>7 DEF At
<1>9. Entries(l)'
  BY <1>3
<1>10. pos' \in Nat
  BY <1>2
<1> QED
  BY <1>3, <1>5, <1>8, <1>9, <1>10

LEMMA SkipTailWalk ==
  ASSUME FrameInv, WalkInv, D!SkipTail, argv' = argv
  PROVE  WalkInv'
<1>1. /\ stage = "parse" /\ D!Behind(pos)
      /\ UNCHANGED <<stage, frame, parsed>>
  BY DEF D!SkipTail, D!Walking
<1>2. PICK n \in D!TailLengths : pos' = pos + n + 2
  BY DEF D!SkipTail
<1>3. \A k : k = Len(frame.tlvs) => Entries(k)'
  <2> SUFFICES ASSUME NEW k, k = Len(frame.tlvs) PROVE Entries(k)'
    OBVIOUS
  <2>1. Entries(k)
    BY <1>1, BehindAll
  <2> QED
    BY <1>1, <2>1, EntriesKept
<1>4. /\ pos' \in Nat
      /\ \E m \in 1..(Len(frame'.tlvs) + 1) : At(m)' /\ Entries(m - 1)'
  BY <1>1, <1>2, <1>3, TailWalk
<1> QED
  BY <1>1, <1>4 DEF WalkInv

LEMMA ParseTailWalk ==
  ASSUME FrameInv, WalkInv, D!ParseTail, argv' = argv
  PROVE  WalkInv'
<1>1. stage = "parse" /\ D!Behind(pos) /\ frame.tail = "overwritten" /\ frame' = frame
  BY DEF D!ParseTail, D!Walking
<1>2. PICK n \in D!TailLengths : pos' = pos + n + 2
  BY DEF D!ParseTail
<1>3. PICK u \in NoiseSubtypes, c \in NoiseTexts : D!Enter(0, u, c)
  BY DEF D!ParseTail
<1>4. u \in DOMAIN Label /\ c \in WellFormed
  BY TextWellFormed, BeaconTextAssumption
<1>5. /\ \E e \in EntrySet : e.of = 0 /\ e.subtype = u /\ parsed' = Append(parsed, e)
      /\ parsed' \in Seq(EntrySet) /\ Len(parsed') = Len(parsed) + 1 /\ Len(parsed) \in Nat
      /\ \A k \in 1..Len(parsed') : parsed'[k].text.len \in 0..509
      /\ \/ Len(parsed') <= 25 /\ stage' = "parse"
         \/ Len(parsed') = 26 /\ stage' = "undefined"
  BY <1>1, <1>3, <1>4, EnterEntry
<1>6. PICK e \in EntrySet : parsed' = Append(parsed, e)
  BY <1>5
<1>7. \A k : k = Len(frame.tlvs) => Entries(k)'
  <2> SUFFICES ASSUME NEW k, k = Len(frame.tlvs) PROVE Entries(k)'
    OBVIOUS
  <2>1. Entries(k) /\ k \in Nat
    BY <1>1, BehindAll
  <2>2. D!EntryOf(k) \in Nat
    BY <2>1, EntryStep
  <2>3. parsed \in Seq(EntrySet)
    BY DEF WalkInv
  <2> QED
    BY <1>1, <1>6, <2>1, <2>2, <2>3, EntriesMore
<1>8. /\ pos' \in Nat
      /\ \E m \in 1..(Len(frame'.tlvs) + 1) : At(m)' /\ Entries(m - 1)'
  BY <1>1, <1>2, <1>7, TailWalk
<1>9. frame'.tail = "overwritten"
  BY <1>1
<1> QED
  BY <1>5, <1>8, <1>9 DEF WalkInv

LEMMA ParseDoneWalk ==
  ASSUME FrameInv, WalkInv, D!ParseDone, argv' = argv
  PROVE  WalkInv'
<1> DEFINE s == frame.tlvs
           n == Len(s)
<1>1. /\ stage = "parse" /\ stage' = "print" /\ UNCHANGED <<frame, pos, parsed>>
      /\ ~(pos < frame.size - 2) /\ pos \in Nat /\ frame.size \in Nat
  BY DEF D!ParseDone, D!Walking, WalkInv, FrameInv
<1>2. n \in Nat \ {0} /\ Framed(s, frame.size - 14)
  BY <1>1 DEF FrameInv, Framed
<1>3. PICK m \in 1..(n + 1) : At(m) /\ Entries(m - 1)
  BY <1>1 DEF WalkInv
<1>4. Entries(n)
  <2>1. CASE m = n + 1
    <3>1. m - 1 = n
      BY <1>2, <2>1
    <3> QED
      BY <1>3, <3>1
  <2>2. CASE m # n + 1
    <3>1. m \in 1..n /\ pos = 14 + s[m].at
      BY <1>2, <1>3, <2>2 DEF At
    <3>2. ASSUME NEW k \in 1..n, m <= k PROVE ~D!Known(s[k])
      <4>1. Sound(s[m]) /\ Sound(s[k])
        BY <1>2, <3>1 DEF Framed
      <4>2. PICK a \in Nat, l \in Nat, c \in Nat : a = s[m].at /\ l = s[m].length /\ c = s[k].at
        BY <4>1 DEF Sound
      <4>3. m < k => a + l + 2 <= c
        BY <1>2, <3>1, <4>2 DEF Framed, Behind
      <4>4. m = k => a = c
        BY <4>2
      <4>5. a <= c
        BY <1>2, <3>1, <3>2, <4>3, <4>4
      <4>6. pos = 14 + a
        BY <3>1, <4>2
      <4>7. ~(c < frame.size - 14 - 2)
        BY <1>1, <4>5, <4>6
      <4> QED
        BY <1>2, <4>2, <4>7 DEF Framed
    <3>3. PICK j : j = m - 1
      OBVIOUS
    <3>4. j \in Nat /\ j <= n /\ j # n /\ Entries(j) /\ \A k \in 1..n : j < k => m <= k
      BY <1>2, <1>3, <3>1, <3>3
    <3> QED
      BY <1>2, <3>2, <3>4, EntriesRest
  <2> QED
    BY <2>1, <2>2
<1>5. Entries(Len(frame.tlvs))'
  <2>1. PICK j : j = n
    OBVIOUS
  <2>2. Entries(j)'
    BY <1>1, <1>4, <2>1, EntriesKept
  <2> QED
    BY <1>1, <2>1, <2>2 DEF Entries
<1> QED
  BY <1>1, <1>5 DEF WalkInv

(* The invariant of everything up to the strings that are shown.           *)
ReceptionInv == SenderInv /\ FrameInv /\ WalkInv

LEMMA InitReception == TextInit => ReceptionInv
<1> SUFFICES ASSUME TextInit PROVE ReceptionInv
  OBVIOUS
<1>1. stage = "wait" /\ pos = 14 /\ parsed = <<>>
  BY DEF TextInit, D!Init, D!Header
<1>2. FrameInv /\ WalkInv
  BY <1>1 DEF FrameInv, WalkInv
<1> QED
  BY <1>2, InitSender DEF ReceptionInv

(* What the pages do leaves the walk alone.                                *)
LEMMA PagesKeep ==
  ASSUME D!PrintLine \/ D!NextTlv \/ D!EndBeacon
  PROVE  /\ UNCHANGED <<frame, pos, parsed>>
         /\ stage' = stage \/ (stage = "print" /\ stage' = "shown")
BY DEF D!PrintLine, D!NextTlv, D!EndBeacon

LEMMA StepReception == ReceptionInv /\ [TextNext]_vars => ReceptionInv'
<1> SUFFICES ASSUME ReceptionInv, [TextNext]_vars PROVE ReceptionInv'
  OBVIOUS
<1>1. SenderInv /\ FrameInv /\ WalkInv /\ SenderInv'
  BY StepSender DEF ReceptionInv
<1>2. CASE Build \/ UNCHANGED vars
  <2>1. UNCHANGED <<stage, frame, pos, parsed>> /\ [Next]_builderVars
    BY <1>2 DEF Build, vars, displayVars
  <2>2. argv' = argv
    <3>1. CASE UNCHANGED builderVars
      BY <3>1 DEF builderVars
    <3>2. CASE Next
      BY <3>2 DEF Next, OptionStep, Main, EndOptions, AddCombined, Finish, OptText, OptVlanId,
                  OptIp, OptPassword, OptPath, OptOther
    <3> QED
      BY <2>1, <3>1, <3>2
  <2>3. FrameInv'
    <3>1. CASE stage = "wait"
      BY <2>1, <3>1 DEF FrameInv
    <3>2. CASE stage # "wait"
      <4>1. pc = "built"
        BY <1>1, <3>2 DEF FrameInv
      <4>2. UNCHANGED <<pc, argv>>
        BY <2>1, <4>1, BuiltStays DEF builderVars
      <4> QED
        BY <1>1, <2>1, <4>2, FrameKept
    <3> QED
      BY <3>1, <3>2
  <2>4. WalkInv'
    <3>1. UNCHANGED <<argv, frame, pos, parsed>>
      BY <2>1, <2>2
    <3>2. stage' = stage \/ (stage = "print" /\ stage' = "shown")
      BY <2>1
    <3> QED
      BY <1>1, <3>1, <3>2, WalkKept
  <2> QED
    BY <1>1, <2>3, <2>4 DEF ReceptionInv
<1>3. CASE Deliver
  BY <1>1, <1>3, DeliverWalk DEF ReceptionInv
<1>4. CASE Display
  <2>1. D!Next /\ UNCHANGED <<pc, argv>>
    BY <1>4 DEF Display, builderVars
  <2>2. stage # "wait" /\ frame' = frame
    BY <2>1 DEF D!Next, D!ParseTlv, D!SkipTail, D!ParseTail, D!ParseDone, D!Walking,
                D!PrintLine, D!NextTlv, D!EndBeacon
  <2>3. FrameInv'
    BY <1>1, <2>1, <2>2, FrameKept
  <2>4. ASSUME D!PrintLine \/ D!NextTlv \/ D!EndBeacon PROVE WalkInv'
    <3>1. /\ UNCHANGED <<frame, pos, parsed>>
          /\ stage' = stage \/ (stage = "print" /\ stage' = "shown")
      BY <2>4, PagesKeep
    <3> QED
      BY <1>1, <2>1, <3>1, WalkKept
  <2>5. WalkInv'
    BY <1>1, <2>1, <2>4, ParseTlvWalk, SkipTailWalk, ParseTailWalk, ParseDoneWalk DEF D!Next
  <2> QED
    BY <1>1, <2>3, <2>5 DEF ReceptionInv
<1> QED
  BY <1>2, <1>3, <1>4 DEF TextNext

(* The receiver's walk over a frame, with or without a signature, padded,  *)
(* cut or overwritten, looks at every header that is left of the sender's  *)
(* TLVs, up to the last of them nowhere else, and makes one entry of each  *)
(* TLV that it knows, in the sender's order; only where TLVs have been     *)
(* overwritten can there be more entries.                                  *)
THEOREM WalkFindsAll == TextSpec => []WalkMatches
<1>1. ReceptionInv => WalkMatches
  <2> SUFFICES ASSUME ReceptionInv PROVE WalkMatches
    OBVIOUS
  <2>1. FrameInv /\ WalkInv
    BY DEF ReceptionInv
  <2>2. ASSUME D!Walking PROVE D!Behind(pos) \/ \E k \in 1..Len(frame.tlvs) : D!StartsAt(k)
    <3>1. stage = "parse" /\ pos \in Nat
      BY <2>1, <2>2 DEF D!Walking, WalkInv
    <3>2. PICK m \in 1..(Len(frame.tlvs) + 1) : At(m)
      BY <2>1, <3>1 DEF WalkInv
    <3>3. Len(frame.tlvs) \in Nat \ {0}
      BY <2>1, <3>1 DEF FrameInv, Framed
    <3>4. 1 \in 1..Len(frame.tlvs)
      BY <3>3
    <3>5. (m \in 1..Len(frame.tlvs) /\ m <= Len(frame.tlvs)) \/ m = Len(frame.tlvs) + 1
      BY <3>3
    <3> QED
      BY <2>1, <3>1, <3>2, <3>4, <3>5, AtOne
  <2>3. stage = "print" => Entries(Len(frame.tlvs)) /\ Len(frame.tlvs) \in Nat
    BY <2>1 DEF WalkInv, FrameInv, Framed
  <2> QED
    BY <2>2, <2>3 DEF WalkMatches, D!WalkMatches, Entries
<1> QED
  BY <1>1, InitReception, StepReception, PTL DEF TextSpec

(* For every frame of a sender's with at most twenty pieces of information,*)
(* whatever their lengths, cut or not, the table of 25 entries is enough,  *)
(* as long as nothing in it was overwritten.                               *)
THEOREM TableOfEntries == TextSpec => []TableSuffices
<1>1. ReceptionInv => TableSuffices
  BY DEF ReceptionInv, WalkInv, TableSuffices
<1> QED
  BY <1>1, InitReception, StepReception, PTL DEF TextSpec

-----------------------------------------------------------------------------
(* The lines and the pages.                                                *)
LineSet == [tlv : 1..25, from : Nat, to : Nat]
TextAt(e) == IF e <= Len(parsed) THEN parsed[e].text ELSE Empty

(* Every character up to position p of entry e is on one of the lines s,   *)
(* which are one behind the other and end there.                           *)
Covered(s, e, p) ==
  \A d \in 1..Len(parsed) : \A q \in 0..(parsed[d].text.len - 1) :
    d < e \/ (d = e /\ q < p) => \E k \in 1..Len(s) : D!Covers(s[k], d, q)
Ordered(s) == \A k, l \in 1..Len(s) : k < l => D!Precedes(s[k], s[l])
Reached(s, e, p) ==
  \A k \in 1..Len(s) : s[k].tlv < e \/ (s[k].tlv = e /\ s[k].to <= p)

WordRule(t, to) ==
  \/ to = t.len
  \/ to - 1 \in t.spaces \/ to \in t.spaces
  \/ \A p \in (to - 39 + 10)..to : p \notin t.spaces

AllWhole(s) == \A k \in 1..Len(s) : WordRule(parsed[s[k].tlv].text, s[k].to)

Blank0 == tlv = 1 /\ end = 0 /\ screen = <<>> /\ seen = <<>>

PagesInv ==
  /\ frame.size \in Nat /\ tlv \in 1..26 /\ end \in Nat
  /\ screen \in Seq(LineSet) /\ seen \in Seq(LineSet) /\ Len(screen) <= 14
  /\ stage \notin {"print", "shown"} => Blank0
  /\ stage = "shown" => tlv = 26 /\ screen = <<>>
  /\ stage \in {"print", "shown"} => end <= TextAt(tlv).len
  /\ Covered(seen \o screen, tlv, end) /\ Ordered(seen \o screen)
  /\ Reached(seen \o screen, tlv, end)
  /\ AllWhole(seen) /\ AllWhole(screen)

LEMMA Largest ==
  ASSUME NEW S \in SUBSET Int, S # {}, NEW b \in Int, \A s \in S : s <= b
  PROVE  \E s \in S : \A r \in S : r <= s
<1> DEFINE T == {b - s : s \in S}
           R == OpToRel(<, Nat)
<1>1. T \subseteq Nat /\ T # {}
  <2>1. \A s \in S : b - s \in Nat
    OBVIOUS
  <2> QED
    BY <2>1
<1>2. IsWellFoundedOn(R, Nat)
  BY NatLessThanWellFounded
<1>3. \A x, y \in Nat : <<y, x>> \in R <=> y < x
  BY DEF OpToRel
<1> HIDE DEF R
<1>4. PICK x \in T : \A y \in T : ~(<<y, x>> \in R)
  BY <1>1, <1>2, WFMin
<1>5. \A y \in T : ~(y < x)
  BY <1>1, <1>3, <1>4
<1>6. PICK s \in S : x = b - s
  BY <1>4
<1>7. ASSUME NEW r \in S PROVE r <= s
  <2>1. ~(b - r < b - s)
    BY <1>5, <1>6
  <2> QED
    BY <2>1
<1> QED
  BY <1>7

(* A line takes at least one character, ends with the text at the latest,  *)
(* and parts no word that would fit on a line.                             *)
LEMMA LineEnds ==
  ASSUME D!Text \in WellFormed, end \in Nat, end < D!Text.len
  PROVE  D!LineEnd \in (end + 1)..D!Text.len /\ WordRule(D!Text, D!LineEnd)
<1> DEFINE n == D!Text.len
           sp == D!Text.spaces
           w == D!LineWidth
           z == D!ScanEnd
           S == D!Spaces
           m == CHOOSE s \in S : \A r \in S : r <= s
<1>1. n \in Nat /\ sp \subseteq 0..(n - 1) /\ end \in Nat /\ end < n
  BY DEF WellFormed, TextSet
<1>2. w \in {29, 39}
  BY DEF D!LineWidth, D!DescriptorWidth
<1>3. z = IF n < end + w + 1 THEN n ELSE end + w + 1
  BY DEF D!ScanEnd
<1>4. \A s : s \in S <=> s \in sp /\ end < s /\ s <= z
  BY DEF D!Spaces
<1>5. D!LineEnd = IF z - end > w /\ S # {} THEN 1 + m ELSE z
  BY DEF D!LineEnd
<1> DEFINE to == D!LineEnd
<1>6. WordRule(D!Text, to) <=>
        \/ to = n
        \/ to - 1 \in sp \/ to \in sp
        \/ \A p \in (to - 39 + 10)..to : p \notin sp
  BY DEF WordRule
<1> HIDE DEF n, sp, w, z, S
<1>7. z \in (end + 1)..n
  BY <1>1, <1>2, <1>3
<1>8. CASE z - end > w /\ S # {}
  <2>1. S \subseteq Int /\ z \in Int /\ \A s \in S : s <= z
    <3>1. sp \subseteq Int /\ z \in Int
      BY <1>1, <1>7
    <3>2. \A s \in S : s \in sp /\ s <= z
      BY <1>4
    <3> QED
      BY <3>1, <3>2
  <2>2. \E s \in S : \A r \in S : r <= s
    BY <1>8, <2>1, Largest
  <2>3. m \in S
    BY <2>2
  <2> HIDE DEF m
  <2>4. m \in sp /\ end < m /\ m \in 0..(n - 1)
    BY <1>1, <1>4, <2>3
  <2>5. to = 1 + m
    BY <1>5, <1>8
  <2> HIDE DEF to
  <2>6. to \in (end + 1)..n /\ to - 1 = m
    BY <1>1, <2>4, <2>5
  <2> QED
    BY <1>6, <2>4, <2>6 DEF to, n
<1>9. CASE ~(z - end > w)
  <2>1. to = z
    BY <1>5, <1>9
  <2>2. z = n
    BY <1>1, <1>2, <1>3, <1>9
  <2> QED
    BY <1>6, <1>7, <2>1, <2>2 DEF n
<1>10. CASE z - end > w /\ S = {}
  <2>1. to = z
    BY <1>5, <1>10
  <2>2. z = end + w + 1 \/ z = n
    BY <1>3
  <2> HIDE DEF to, m
  <2>3. z = end + w + 1 => \A p \in (to - 39 + 10)..to : p \notin sp
    <3> SUFFICES ASSUME z = end + w + 1, NEW p \in (to - 39 + 10)..to PROVE p \notin sp
      OBVIOUS
    <3>1. p \in Int /\ p <= z /\ p >= z - 29
      BY <1>1, <1>2, <2>1
    <3>2. end < p
      BY <1>1, <1>2, <3>1
    <3> QED
      BY <1>4, <1>10, <3>1, <3>2
  <2>4. WordRule(D!Text, to)
    BY <1>6, <2>1, <2>2, <2>3 DEF to
  <2> QED
    BY <1>7, <2>1, <2>4 DEF to, n
<1> QED
  BY <1>8, <1>9, <1>10

(* What does not touch the pages.                                          *)
LEMMA PagesQuiet ==
  ASSUME PagesInv, UNCHANGED <<tlv, end, screen, seen>>, frame'.size \in Nat,
         WalkInv', stage \notin {"print", "shown"}, stage' # "shown"
  PROVE  PagesInv'
<1>1. /\ tlv = 1 /\ end = 0 /\ screen = <<>> /\ seen = <<>>
      /\ tlv' = 1 /\ end' = 0 /\ screen' = <<>> /\ seen' = <<>>
  BY DEF PagesInv, Blank0
<1>2. seen' \o screen' = <<>> /\ Len(<<>>) = 0
  BY <1>1
<1>3. Covered(seen \o screen, tlv, end)'
  <2>1. \A d \in 1..Len(parsed') : \A q \in 0..(parsed'[d].text.len - 1) :
          ~(d < 1 \/ (d = 1 /\ q < 0))
    <3>1. \A d \in 1..Len(parsed') : ~(d < 1)
      OBVIOUS
    <3>2. \A d \in 1..Len(parsed') : \A q \in 0..(parsed'[d].text.len - 1) : ~(q < 0)
      OBVIOUS
    <3> QED
      BY <3>1, <3>2
  <2> QED
    BY <1>1, <2>1 DEF Covered
<1>4. Ordered(seen \o screen)' /\ Reached(seen \o screen, tlv, end)'
  BY <1>2 DEF Ordered, Reached
<1>5. end' <= TextAt(tlv)'.len
  <2>1. /\ parsed' \in Seq(EntrySet) /\ \A e \in 1..Len(parsed') : parsed'[e].text.len \in 0..509
    BY DEF WalkInv
  <2>2. Empty.len = 0 /\ Len(parsed') \in Nat
    BY <2>1, EmptyWellFormed
  <2>3. CASE 1 <= Len(parsed')
    <3>1. 1 \in 1..Len(parsed')
      BY <2>2, <2>3
    <3>2. parsed'[1].text.len \in 0..509 /\ TextAt(tlv)'.len = parsed'[1].text.len
      BY <1>1, <2>1, <2>3, <3>1 DEF TextAt
    <3>3. 0 <= parsed'[1].text.len
      BY <3>2
    <3> QED
      BY <1>1, <3>2, <3>3
  <2>4. CASE ~(1 <= Len(parsed'))
    <3>1. TextAt(tlv)' = Empty
      BY <1>1, <2>4 DEF TextAt
    <3> QED
      BY <1>1, <2>2, <3>1
  <2> QED
    BY <2>3, <2>4
<1>6. Blank0'
  BY <1>1 DEF Blank0
<1>7. /\ tlv' \in 1..26 /\ end' \in Nat /\ screen' \in Seq(LineSet) /\ seen' \in Seq(LineSet)
      /\ Len(screen') = 0 /\ Len(seen') = 0
  BY <1>1
<1>8. AllWhole(seen)' /\ AllWhole(screen)'
  BY <1>7 DEF AllWhole
<1> QED
  BY <1>3, <1>4, <1>5, <1>6, <1>7, <1>8 DEF PagesInv

LEMMA PagesSame ==
  ASSUME PagesInv, UNCHANGED <<stage, frame, parsed, tlv, end, screen, seen>>
  PROVE  PagesInv'
<1>1. Covered(seen \o screen, tlv, end)'
  <2>1. Covered(seen \o screen, tlv, end)
    BY DEF PagesInv
  <2>2. /\ seen' \o screen' = seen \o screen
        /\ parsed' = parsed /\ tlv' = tlv /\ end' = end
    OBVIOUS
  <2> QED
    BY <2>1, <2>2 DEF Covered, D!Covers
<1>2. Ordered(seen \o screen)' /\ Reached(seen \o screen, tlv, end)'
  BY DEF PagesInv, Ordered, Reached, D!Precedes
<1>3. AllWhole(seen)' /\ AllWhole(screen)'
  BY DEF PagesInv, AllWhole
<1> QED
  BY <1>1, <1>2, <1>3 DEF PagesInv, Blank0, TextAt

(* The entry that is being printed is well formed.                         *)
LEMMA TextShown ==
  ASSUME WalkInv, tlv \in Nat \ {0}
  PROVE  /\ D!Text = TextAt(tlv) /\ D!Text \in WellFormed /\ D!Text.len \in 0..509
         /\ tlv > Len(parsed) => D!Text.len = 0
<1>1. D!Text = TextAt(tlv)
  BY SameHelpers DEF D!Text, TextAt
<1>2. parsed \in Seq(EntrySet) /\ \A e \in 1..Len(parsed) : parsed[e].text.len \in 0..509
  BY DEF WalkInv
<1>3. Len(parsed) \in Nat
  BY <1>2
<1>4. CASE tlv <= Len(parsed)
  <2>1. D!Text = parsed[tlv].text /\ tlv \in 1..Len(parsed)
    BY <1>1, <1>3, <1>4 DEF TextAt
  <2>2. parsed[tlv] \in EntrySet /\ parsed[tlv].text.len \in 0..509
    BY <1>2, <2>1
  <2>3. parsed[tlv].text \in WellFormed
    BY <2>2 DEF EntrySet
  <2> QED
    BY <1>1, <1>3, <1>4, <2>1, <2>2, <2>3
<1>5. CASE ~(tlv <= Len(parsed))
  <2>1. D!Text = Empty
    BY <1>1, <1>5 DEF TextAt
  <2> QED
    BY <1>1, <1>5, <2>1, EmptyWellFormed
<1> QED
  BY <1>4, <1>5

LEMMA LineFields ==
  ASSUME NEW line \in LineSet
  PROVE  line.tlv \in 1..25 /\ line.tlv \in Nat /\ line.to \in Nat
<1>1. line.tlv \in 1..25 /\ line.to \in Nat
  BY DEF LineSet
<1>2. PICK e \in 1..25 : e = line.tlv
  BY <1>1
<1>3. e \in Nat
  OBVIOUS
<1> QED
  BY <1>1, <1>2, <1>3

LEMMA LineAdded ==
  ASSUME NEW s \in Seq(LineSet), NEW e \in 1..25, NEW p \in Nat, NEW to \in Nat, p < to,
         NEW line \in LineSet, line.tlv = e, line.from = p, line.to = to,
         parsed \in Seq(EntrySet), \A d \in 1..Len(parsed) : parsed[d].text.len \in 0..509,
         Covered(s, e, p), Ordered(s), Reached(s, e, p)
  PROVE  /\ Covered(Append(s, line), e, to) /\ Ordered(Append(s, line))
         /\ Reached(Append(s, line), e, to)
<1> DEFINE u == Append(s, line)
<1>1. /\ u \in Seq(LineSet) /\ Len(u) = Len(s) + 1 /\ u[Len(s) + 1] = line /\ Len(s) \in Nat
      /\ \A k \in 1..Len(s) : u[k] = s[k] /\ k \in 1..Len(u)
  OBVIOUS
<1>2. \A k \in 1..Len(u) : k \in 1..Len(s) \/ k = Len(s) + 1
  BY <1>1
<1>3. \A k \in 1..Len(s) : s[k].tlv \in Nat /\ s[k].to \in Nat
  <2> SUFFICES ASSUME NEW k \in 1..Len(s) PROVE s[k].tlv \in Nat /\ s[k].to \in Nat
    OBVIOUS
  <2>1. s[k] \in LineSet
    OBVIOUS
  <2> QED
    BY <2>1, LineFields
<1> HIDE DEF u
<1>4. Covered(u, e, to)
  <2> SUFFICES ASSUME NEW d \in 1..Len(parsed), NEW q \in 0..(parsed[d].text.len - 1),
                      d < e \/ (d = e /\ q < to)
               PROVE  \E k \in 1..Len(u) : D!Covers(u[k], d, q)
    BY DEF Covered
  <2>1. CASE d < e \/ (d = e /\ q < p)
    <3>1. PICK k \in 1..Len(s) : D!Covers(s[k], d, q)
      BY <2>1 DEF Covered
    <3> QED
      BY <1>1, <3>1
  <2>2. CASE ~(d < e \/ (d = e /\ q < p))
    <3>1. q \in Int
      OBVIOUS
    <3>2. d = e /\ p <= q /\ q < to
      BY <2>2, <3>1
    <3>3. D!Covers(line, d, q)
      BY <3>2 DEF D!Covers
    <3>4. Len(s) + 1 \in 1..Len(u)
      BY <1>1
    <3> QED
      BY <1>1, <3>3, <3>4
  <2> QED
    BY <2>1, <2>2
<1>5. Ordered(u)
  <2> SUFFICES ASSUME NEW k \in 1..Len(u), NEW l \in 1..Len(u), k < l
               PROVE  D!Precedes(u[k], u[l])
    BY DEF Ordered
  <2>1. k \in 1..Len(s)
    BY <1>1
  <2>2. CASE l \in 1..Len(s)
    BY <1>1, <2>1, <2>2 DEF Ordered
  <2>3. CASE l = Len(s) + 1
    BY <1>1, <2>1, <2>3 DEF Reached, D!Precedes
  <2> QED
    BY <1>2, <2>2, <2>3
<1>6. Reached(u, e, to)
  <2> SUFFICES ASSUME NEW k \in 1..Len(u)
               PROVE  u[k].tlv < e \/ (u[k].tlv = e /\ u[k].to <= to)
    BY DEF Reached
  <2>1. CASE k \in 1..Len(s)
    BY <1>1, <1>3, <2>1 DEF Reached
  <2>2. CASE k = Len(s) + 1
    BY <1>1, <2>2
  <2> QED
    BY <1>2, <2>1, <2>2
<1> QED
  BY <1>4, <1>5, <1>6 DEF u

LEMMA WholeAdded ==
  ASSUME NEW s \in Seq(LineSet), AllWhole(s), NEW line \in LineSet,
         WordRule(parsed[line.tlv].text, line.to)
  PROVE  AllWhole(Append(s, line))
<1> DEFINE u == Append(s, line)
<1>1. /\ Len(u) = Len(s) + 1 /\ Len(s) \in Nat /\ u[Len(s) + 1] = line
      /\ \A k \in 1..Len(s) : u[k] = s[k]
  OBVIOUS
<1>2. \A k \in 1..Len(u) : k \in 1..Len(s) \/ k = Len(s) + 1
  BY <1>1
<1> HIDE DEF u
<1>3. AllWhole(u)
  BY <1>1, <1>2 DEF AllWhole
<1> QED
  BY <1>3 DEF u

LEMMA WholeJoined ==
  ASSUME NEW s \in Seq(LineSet), NEW r \in Seq(LineSet), AllWhole(s), AllWhole(r)
  PROVE  AllWhole(s \o r)
<1> DEFINE u == s \o r
<1>1. /\ Len(s) \in Nat /\ Len(r) \in Nat /\ Len(u) = Len(s) + Len(r)
      /\ \A k \in 1..Len(u) : u[k] = IF k <= Len(s) THEN s[k] ELSE r[k - Len(s)]
  OBVIOUS
<1> HIDE DEF u
<1>2. ASSUME NEW k \in 1..Len(u) PROVE WordRule(parsed[u[k].tlv].text, u[k].to)
  <2>1. CASE k <= Len(s)
    <3>1. k \in 1..Len(s) /\ u[k] = s[k]
      BY <1>1, <2>1
    <3> QED
      BY <3>1 DEF AllWhole
  <2>2. CASE ~(k <= Len(s))
    <3>1. k - Len(s) \in 1..Len(r) /\ u[k] = r[k - Len(s)]
      BY <1>1, <2>2
    <3> QED
      BY <3>1 DEF AllWhole
  <2> QED
    BY <2>1, <2>2
<1>3. AllWhole(u)
  BY <1>2 DEF AllWhole
<1> QED
  BY <1>3 DEF u

LEMMA PrintLinePages ==
  ASSUME PagesInv, WalkInv, D!PrintLine
  PROVE  PagesInv'
<1> DEFINE to == D!LineEnd
           s == seen \o screen
           l == [tlv |-> tlv, from |-> end, to |-> to]
<1>1. /\ stage = "print" /\ tlv \in 1..25 /\ end < D!Text.len /\ end' = to
      /\ UNCHANGED <<stage, frame, pos, parsed, tlv>>
      /\ \/ Len(screen) < 14 /\ screen' = Append(screen, l) /\ seen' = seen
         \/ Len(screen) >= 14 /\ screen' = <<>> /\ seen' = seen \o Append(screen, l)
  BY DEF D!PrintLine, D!ParsedTlvsMaxNumber, PagesInv
<1>2. /\ end \in Nat /\ screen \in Seq(LineSet) /\ seen \in Seq(LineSet)
      /\ Covered(s, tlv, end) /\ Ordered(s) /\ Reached(s, tlv, end)
      /\ parsed \in Seq(EntrySet) /\ frame.size \in Nat
      /\ \A d \in 1..Len(parsed) : parsed[d].text.len \in 0..509
  BY DEF PagesInv, WalkInv
<1>3. /\ D!Text = TextAt(tlv) /\ D!Text \in WellFormed /\ D!Text.len \in 0..509
      /\ tlv <= Len(parsed) /\ D!Text = parsed[tlv].text
  <2>1. tlv \in Nat \ {0} /\ Len(parsed) \in Nat
    <3>1. tlv \in 1..25 /\ parsed \in Seq(EntrySet)
      BY <1>1, <1>2
    <3> QED
      BY <3>1
  <2>2. /\ D!Text = TextAt(tlv) /\ D!Text \in WellFormed /\ D!Text.len \in 0..509
        /\ tlv > Len(parsed) => D!Text.len = 0
    BY <2>1, TextShown
  <2>3. tlv <= Len(parsed)
    BY <1>1, <1>2, <2>1, <2>2
  <2> QED
    BY <2>2, <2>3 DEF TextAt
<1>4. to \in (end + 1)..D!Text.len /\ WordRule(D!Text, to)
  BY <1>1, <1>2, <1>3, LineEnds
<1>5. to \in Nat /\ end < to /\ to <= D!Text.len
  BY <1>2, <1>4
<1> HIDE DEF to
<1>6. l \in LineSet /\ l.tlv = tlv /\ l.from = end /\ l.to = to
  BY <1>1, <1>2, <1>5 DEF LineSet
<1>7. PICK line \in LineSet : line = l
  BY <1>6
<1> HIDE DEF l
<1>8. /\ \/ Len(screen) < 14 /\ screen' = Append(screen, line) /\ seen' = seen
         \/ Len(screen) >= 14 /\ screen' = <<>> /\ seen' = seen \o Append(screen, line)
      /\ line.tlv = tlv /\ line.from = end /\ line.to = to
  BY <1>1, <1>6, <1>7
<1>9. /\ seen' \o screen' = Append(s, line) /\ s \in Seq(LineSet)
      /\ screen' \in Seq(LineSet) /\ seen' \in Seq(LineSet) /\ Len(screen') <= 14
  <2>1. seen \o Append(screen, line) = Append(s, line) /\ s \in Seq(LineSet)
    BY <1>2
  <2>2. Append(screen, line) \in Seq(LineSet) /\ seen \o Append(screen, line) \in Seq(LineSet)
    BY <1>2
  <2>3. CASE Len(screen) < 14 /\ screen' = Append(screen, line) /\ seen' = seen
    <3>1. Len(screen') <= 14
      BY <1>2, <2>3
    <3> QED
      BY <1>2, <2>1, <2>2, <2>3, <3>1
  <2>4. CASE Len(screen) >= 14 /\ screen' = <<>> /\ seen' = seen \o Append(screen, line)
    <3>1. seen' \o screen' = seen \o Append(screen, line)
      BY <2>2, <2>4
    <3> QED
      BY <2>1, <2>2, <2>4, <3>1
  <2> QED
    BY <1>8, <2>3, <2>4
<1>10. /\ Covered(seen \o screen, tlv, end)' /\ Ordered(seen \o screen)'
       /\ Reached(seen \o screen, tlv, end)'
  <2>1. PICK r \in Seq(LineSet) : r = s
    BY <1>9
  <2>2. PICK e \in 1..25 : e = tlv
    BY <1>1
  <2>3. PICK p \in Nat : p = end
    BY <1>2
  <2>4. PICK q \in Nat : q = to
    BY <1>5
  <2>0. PICK u : u = Append(r, line)
    OBVIOUS
  <2>5. Covered(u, e, q) /\ Ordered(u) /\ Reached(u, e, q)
    BY <1>2, <1>5, <1>8, <2>0, <2>1, <2>2, <2>3, <2>4, LineAdded
  <2>6. seen' \o screen' = u /\ tlv' = e /\ end' = q /\ parsed' = parsed
    BY <1>1, <1>9, <2>0, <2>1, <2>2, <2>4
  <2>7. Covered(seen \o screen, tlv, end)'
    BY <2>5, <2>6 DEF Covered, D!Covers
  <2> QED
    BY <2>5, <2>6, <2>7 DEF Ordered, Reached, D!Precedes
<1>11. AllWhole(seen)' /\ AllWhole(screen)'
  <2>1. AllWhole(seen) /\ AllWhole(screen)
    BY DEF PagesInv
  <2>2. WordRule(parsed[line.tlv].text, line.to)
    BY <1>1, <1>3, <1>4, <1>8
  <2>3. PICK a : a = Append(screen, line)
    OBVIOUS
  <2>4. a \in Seq(LineSet) /\ AllWhole(a)
    BY <1>2, <2>1, <2>2, <2>3, WholeAdded
  <2>5. PICK b : b = seen \o a
    OBVIOUS
  <2>6. AllWhole(b) /\ AllWhole(<<>>)
    <3>1. AllWhole(b)
      BY <1>2, <2>1, <2>4, <2>5, WholeJoined
    <3>2. Len(<<>>) = 0
      OBVIOUS
    <3> QED
      BY <3>1, <3>2 DEF AllWhole
  <2>7. CASE screen' = a /\ seen' = seen
    BY <1>1, <2>1, <2>4, <2>7 DEF AllWhole
  <2>8. CASE screen' = <<>> /\ seen' = b
    BY <1>1, <2>6, <2>8 DEF AllWhole
  <2> QED
    BY <1>8, <2>3, <2>5, <2>7, <2>8
<1>12. end' <= TextAt(tlv)'.len
  BY <1>1, <1>3, <1>5 DEF TextAt
<1>13. frame'.size \in Nat /\ tlv' \in 1..26 /\ end' \in Nat /\ stage' = "print"
  BY <1>1, <1>2, <1>5
<1> QED
  BY <1>9, <1>10, <1>11, <1>12, <1>13 DEF PagesInv

LEMMA NextTlvPages ==
  ASSUME PagesInv, WalkInv, D!NextTlv
  PROVE  PagesInv'
<1>1. /\ stage = "print" /\ tlv \in 1..25 /\ end >= D!Text.len /\ tlv' = tlv + 1 /\ end' = 0
      /\ UNCHANGED <<stage, frame, pos, parsed, screen, seen>>
  BY DEF D!NextTlv, D!ParsedTlvsMaxNumber, PagesInv
<1>2. /\ end \in Nat /\ screen \in Seq(LineSet) /\ seen \in Seq(LineSet)
      /\ Covered(seen \o screen, tlv, end) /\ Ordered(seen \o screen)
      /\ Reached(seen \o screen, tlv, end)
      /\ parsed \in Seq(EntrySet)
      /\ \A d \in 1..Len(parsed) : parsed[d].text.len \in 0..509
  BY DEF PagesInv, WalkInv
<1>3. PICK s \in Seq(LineSet) : s = seen \o screen
  <2>1. screen \in Seq(LineSet) /\ seen \in Seq(LineSet)
    BY <1>2
  <2>2. seen \o screen \in Seq(LineSet)
    BY <2>1
  <2> QED
    BY <2>2
<1>4. PICK e \in 1..25 : e = tlv
  BY <1>1
<1>5. D!Text = TextAt(e) /\ D!Text.len \in 0..509 /\ Len(parsed) \in Nat
  BY <1>1, <1>2, <1>4, TextShown
<1>6. Covered(s, e + 1, 0)
  <2> SUFFICES ASSUME NEW d \in 1..Len(parsed), NEW q \in 0..(parsed[d].text.len - 1),
                      d < e + 1 \/ (d = e + 1 /\ q < 0)
               PROVE  \E k \in 1..Len(s) : D!Covers(s[k], d, q)
    BY DEF Covered
  <2>1. d < e \/ d = e
    OBVIOUS
  <2>2. d = e => q < end
    <3> SUFFICES ASSUME d = e PROVE q < end
      OBVIOUS
    <3>1. D!Text = parsed[d].text
      BY <1>5 DEF TextAt
    <3>2. PICK n \in 0..509 : n = D!Text.len
      BY <1>5
    <3>3. q \in 0..(n - 1) /\ end >= n /\ end \in Nat
      BY <1>1, <1>2, <3>1, <3>2
    <3> QED
      BY <3>3
  <2> QED
    BY <1>2, <1>3, <1>4, <2>1, <2>2 DEF Covered
<1>7. Reached(s, e + 1, 0)
  <2> SUFFICES ASSUME NEW k \in 1..Len(s) PROVE s[k].tlv < e + 1
    BY DEF Reached
  <2>1. s[k] \in LineSet
    OBVIOUS
  <2>2. PICK i \in Nat : i = s[k].tlv
    BY <2>1, LineFields
  <2>3. s[k].tlv < e \/ s[k].tlv = e
    BY <1>2, <1>3, <1>4 DEF Reached
  <2>4. i < e + 1
    <3>1. i < e \/ i = e
      BY <2>2, <2>3
    <3> QED
      BY <3>1
  <2> QED
    BY <2>2, <2>4
<1>8. PICK f : f = e + 1
  OBVIOUS
<1>9. PICK z : z = 0
  OBVIOUS
<1>10. /\ Covered(s, f, z) /\ Ordered(s) /\ Reached(s, f, z)
       /\ seen' \o screen' = s /\ tlv' = f /\ end' = z /\ parsed' = parsed
  BY <1>1, <1>2, <1>3, <1>4, <1>6, <1>7, <1>8, <1>9
<1>11. Covered(seen \o screen, tlv, end)'
  BY <1>10 DEF Covered, D!Covers
<1>12. Ordered(seen \o screen)' /\ Reached(seen \o screen, tlv, end)'
  BY <1>10 DEF Ordered, Reached, D!Precedes
<1>13. tlv' \in 1..26 /\ tlv' \in Nat /\ end' = 0
  BY <1>1
<1>14. end' <= TextAt(tlv)'.len
  <2>1. CASE tlv' <= Len(parsed)
    <3>1. tlv' \in 1..Len(parsed)
      BY <1>5, <1>13, <2>1
    <3>2. parsed[tlv'].text.len \in 0..509
      BY <1>2, <3>1
    <3>3. PICK n \in 0..509 : n = parsed[tlv'].text.len
      BY <3>2
    <3>4. 0 <= n
      OBVIOUS
    <3> QED
      BY <1>10, <1>13, <2>1, <3>3, <3>4 DEF TextAt
  <2>2. CASE ~(tlv' <= Len(parsed))
    <3>1. TextAt(tlv)' = Empty
      BY <1>10, <2>2 DEF TextAt
    <3> QED
      BY <1>13, <3>1, EmptyWellFormed
  <2> QED
    BY <2>1, <2>2
<1>15. AllWhole(seen)' /\ AllWhole(screen)'
  BY <1>1 DEF PagesInv, AllWhole
<1> QED
  BY <1>1, <1>11, <1>12, <1>13, <1>14, <1>15 DEF PagesInv

LEMMA EndBeaconPages ==
  ASSUME PagesInv, WalkInv, D!EndBeacon
  PROVE  PagesInv'
<1>1. /\ stage = "print" /\ tlv = 26 /\ stage' = "shown" /\ seen' = seen \o screen /\ screen' = <<>>
      /\ UNCHANGED <<frame, pos, parsed, tlv, end>>
  <2>1. tlv > 25 /\ tlv \in 1..26
    BY DEF D!EndBeacon, D!ParsedTlvsMaxNumber, PagesInv
  <2>2. tlv = 26
    BY <2>1
  <2> QED
    BY <2>2 DEF D!EndBeacon
<1>2. PICK s \in Seq(LineSet) : s = seen \o screen
  <2>1. seen \o screen \in Seq(LineSet)
    BY DEF PagesInv
  <2> QED
    BY <2>1
<1>3. seen' \o screen' = s
  <2>1. s \o <<>> = s
    OBVIOUS
  <2> QED
    BY <1>1, <1>2, <2>1
<1>4. /\ Covered(s, tlv, end) /\ Ordered(s) /\ Reached(s, tlv, end)
  BY <1>2 DEF PagesInv
<1>5. parsed' = parsed /\ tlv' = tlv /\ end' = end
  BY <1>1
<1>6. Covered(seen \o screen, tlv, end)'
  BY <1>3, <1>4, <1>5 DEF Covered, D!Covers
<1>7. Ordered(seen \o screen)' /\ Reached(seen \o screen, tlv, end)'
  BY <1>3, <1>4, <1>5 DEF Ordered, Reached, D!Precedes
<1>8. end' <= TextAt(tlv)'.len
  BY <1>1 DEF PagesInv, TextAt
<1>9. Len(screen') = 0 /\ screen' \in Seq(LineSet) /\ seen' \in Seq(LineSet)
  BY <1>1, <1>2
<1>10. AllWhole(seen)' /\ AllWhole(screen)'
  <2>1. AllWhole(seen \o screen)
    BY WholeJoined DEF PagesInv
  <2> QED
    BY <1>1, <1>9, <2>1 DEF AllWhole
<1> QED
  BY <1>1, <1>6, <1>7, <1>8, <1>9, <1>10 DEF PagesInv

(* The whole of the display's invariant.                                   *)
ReaderInv == ReceptionInv /\ PagesInv

LEMMA InitReader == TextInit => ReaderInv
<1> SUFFICES ASSUME TextInit PROVE ReaderInv
  OBVIOUS
<1>1. /\ stage = "wait" /\ frame.size = 0 /\ parsed = <<>> /\ tlv = 1 /\ end = 0
      /\ screen = <<>> /\ seen = <<>>
  BY DEF TextInit, D!Init, D!NoFrame
<1>2. seen \o screen = <<>> /\ Len(<<>>) = 0 /\ <<>> \in Seq(LineSet)
  BY <1>1
<1>3. Covered(seen \o screen, tlv, end) /\ Ordered(seen \o screen) /\ Reached(seen \o screen, tlv, end)
  BY <1>1, <1>2 DEF Covered, Ordered, Reached
<1>4. AllWhole(seen) /\ AllWhole(screen)
  BY <1>1, <1>2 DEF AllWhole
<1>5. PagesInv
  BY <1>1, <1>2, <1>3, <1>4 DEF PagesInv, Blank0
<1> QED
  BY <1>5, InitReception DEF ReaderInv

LEMMA StepReader == ReaderInv /\ [TextNext]_vars => ReaderInv'
<1> SUFFICES ASSUME ReaderInv, [TextNext]_vars PROVE ReaderInv'
  OBVIOUS
<1>1. ReceptionInv /\ PagesInv /\ WalkInv /\ FrameInv
  BY DEF ReaderInv, ReceptionInv
<1>2. ReceptionInv' /\ WalkInv' /\ FrameInv'
  BY <1>1, StepReception DEF ReceptionInv
<1>3. CASE Build \/ UNCHANGED vars
  <2>1. UNCHANGED <<stage, frame, parsed, tlv, end, screen, seen>>
    BY <1>3 DEF Build, vars, displayVars
  <2> QED
    BY <1>1, <1>2, <2>1, PagesSame DEF ReaderInv
<1>4. CASE Deliver
  <2>1. /\ stage = "wait" /\ stage' = "parse" /\ frame'.size \in Nat
        /\ UNCHANGED <<tlv, end, screen, seen>>
    BY <1>1, <1>4, DeliverFrame DEF ReceptionInv
  <2> QED
    BY <1>1, <1>2, <2>1, PagesQuiet DEF ReaderInv
<1>5. CASE Display
  <2>1. ASSUME D!SkipTail \/ D!ParseTail \/ D!ParseDone \/ \E k \in 1..Len(frame.tlvs) : D!ParseTlv(k)
        PROVE  PagesInv'
    <3>1. /\ stage = "parse" /\ stage' \in {"parse", "print", "undefined"}
          /\ UNCHANGED <<frame, tlv, end, screen, seen>>
      BY <2>1 DEF D!SkipTail, D!ParseTail, D!Enter, D!ParseDone, D!ParseTlv, D!Walking
    <3>2. frame'.size \in Nat
      BY <1>1, <3>1 DEF PagesInv
    <3> QED
      BY <1>1, <1>2, <3>1, <3>2, PagesQuiet
  <2>2. PagesInv'
    BY <1>1, <1>5, <2>1, PrintLinePages, NextTlvPages, EndBeaconPages DEF Display, D!Next
  <2> QED
    BY <1>2, <2>2 DEF ReaderInv
<1> QED
  BY <1>3, <1>4, <1>5 DEF TextNext

THEOREM ReaderInvariance == TextSpec => []ReaderInv
<1> QED
  BY InitReader, StepReader, PTL DEF TextSpec

(* Whatever is received, the strings that are made of it fit their entries *)
(* and no page has more than fifteen lines.                                *)
THEOREM DisplayTypeCorrect == TextSpec => []DisplayTypeOK
<1>1. ReaderInv => DisplayTypeOK
  <2> SUFFICES ASSUME ReaderInv PROVE DisplayTypeOK
    OBVIOUS
  <2>1. WalkInv /\ PagesInv
    BY DEF ReaderInv, ReceptionInv
  <2>2. end \in 0..509
    <3>1. tlv \in 1..26 /\ end \in Nat
      BY <2>1 DEF PagesInv
    <3>2. tlv \in Nat \ {0}
      BY <3>1
    <3>3. TextAt(tlv).len \in 0..509
      BY <2>1, <3>2, TextShown
    <3>4. end <= TextAt(tlv).len \/ end = 0
      BY <2>1 DEF PagesInv, Blank0
    <3> QED
      BY <3>1, <3>3, <3>4
  <2>3. /\ \A k \in 1..Len(parsed) : parsed[k].text.len \in 0..509
        /\ stage \in {"wait", "parse", "print", "shown", "undefined"} /\ pos \in Nat
    BY <2>1 DEF WalkInv
  <2>4. frame.size \in Nat /\ tlv \in 1..26 /\ Len(screen) <= 14
    BY <2>1 DEF PagesInv
  <2> QED
    BY <2>2, <2>3, <2>4
    DEF DisplayTypeOK, D!TypeOK, D!ParsedTlvsMaxLength, D!ParsedTlvsMaxNumber
<1> QED
  BY <1>1, ReaderInvariance, PTL

(* For every text, however long and wherever its spaces are: when a        *)
(* beacon's turn is over, each character of each entry has been on the     *)
(* screen during a sleep, once and in order.                               *)
THEOREM NothingUnread == TextSpec => []EverythingSeen
<1>1. ReaderInv => EverythingSeen
  <2> SUFFICES ASSUME ReaderInv, stage = "shown"
               PROVE  /\ \A e \in 1..Len(parsed) : \A p \in 0..(parsed[e].text.len - 1) :
                           \E k \in 1..Len(seen) : D!Covers(seen[k], e, p)
                      /\ \A k, l \in 1..Len(seen) : k < l => D!Precedes(seen[k], seen[l])
    BY DEF EverythingSeen, D!EverythingSeen
  <2>1. WalkInv /\ PagesInv
    BY DEF ReaderInv, ReceptionInv
  <2>2. tlv = 26 /\ screen = <<>> /\ seen \in Seq(LineSet) /\ Len(parsed) <= 25
    BY <2>1 DEF PagesInv, WalkInv
  <2>3. seen \o screen = seen
    BY <2>2
  <2>4. Covered(seen, 26, end) /\ Ordered(seen)
    BY <2>1, <2>2, <2>3 DEF PagesInv
  <2>5. \A e \in 1..Len(parsed) : e < 26
    <3>1. Len(parsed) \in Nat
      BY <2>1 DEF WalkInv
    <3> QED
      BY <2>2, <3>1
  <2> QED
    BY <2>4, <2>5 DEF Covered, Ordered
<1> QED
  BY <1>1, ReaderInvariance, PTL

(* For every text: no line break, the one at the end of a page included,   *)
(* parts a word that would fit on a line.                                  *)
THEOREM NoWordParted == TextSpec => []WordsStayWhole
<1>1. ReaderInv => WordsStayWhole
  <2> SUFFICES ASSUME ReaderInv, NEW line \in D!Lines
               PROVE  WordRule(parsed[line.tlv].text, line.to)
    BY DEF WordRule, WordsStayWhole, D!WordsStayWhole, D!DescriptorWidth
  <2>1. AllWhole(seen) /\ AllWhole(screen)
    BY DEF ReaderInv, PagesInv
  <2> QED
    BY <2>1 DEF AllWhole, D!Lines
<1> QED
  BY <1>1, ReaderInvariance, PTL
=============================================================================
