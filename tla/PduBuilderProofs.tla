-------------------------- MODULE PduBuilderProofs ---------------------------
(***************************************************************************)
(* For every command line and every translation of the descriptors: the    *)
(* PDU that lanbeacon_creator builds is a chain of TLVs of 24 to 1500      *)
(* bytes, combined strings are enough for 506 characters of text, and five *)
(* of them for 1523; and the password is the one given last.               *)
(***************************************************************************)
EXTENDS PduBuilder, SequenceTheorems, TLAPS

TextSet == [len : Nat, spaces : SUBSET Int]
Subtypes == InfoOptions \cup {Chassis, Port, Ttl, CombinedString, End}
TlvSet == [subtype : Subtypes, at : Nat, length : 0..511, of : Nat, text : TextSet, n : Nat]

(* The TLVs s follow each other up to byte end.                            *)
Chain(s, end) ==
  \A k \in 1..Len(s) :
    s[k].at + s[k].length + 2 = IF k = Len(s) THEN end ELSE s[k + 1].at

(* The lengths of the combined strings, and their sum.                     *)
Lens == [i \in Strings |-> combined[i].len]
Total(l) == l[1] + l[2] + l[3] + l[4] + l[5]

(* First fit: a string is begun only when no earlier one had room, so that *)
(* two strings in use hold more than one can.                              *)
PairsFull(l) == \A i, j \in Strings : i < j /\ l[j] > 0 => l[i] + l[j] >= 508

(* All the text of which textBytes counts the characters is in the strings.*)
StringsInv ==
  /\ combined \in [Strings -> TextSet] /\ textBytes \in Nat
  /\ Lens \in [Strings -> 0..507]
  /\ pc # "pastString" => \A i \in Strings : Lens[i] < 507
  /\ pc # "pastStrings" => PairsFull(Lens) /\ textBytes = Total(Lens)

PduInv ==
  /\ tlvs \in Seq(TlvSet) /\ Chain(tlvs, currentByte)
  /\ currentByte \in (IF pc = "built" THEN 24..1500
                      ELSE IF pc = "pastPdu" THEN 1501..1502 ELSE 22..1500)

LoopInv ==
  /\ pc \in {"main", "options", "strings", "built", "receiver", "exited"} \cup Undefined
  /\ argv \in CommandLines /\ optind \in 1..(Len(argv) + 1)
  /\ next \in 1..6 /\ pass \in 0..256

IInv == LoopInv /\ PduInv /\ StringsInv /\ FiveStringsSuffice

-----------------------------------------------------------------------------
LEMMA OptionTyped ==
  ASSUME argv \in CommandLines
  PROVE  /\ Len(argv) \in Nat
         /\ \A i \in 1..Len(argv) :
              argv[i].text \in TextSet /\ argv[i].n \in Nat
<1>1. Len(argv) \in Nat /\ \A i \in 1..Len(argv) : IsOption(argv[i])
  <2> DEFINE S == {argv[i] : i \in 1..Len(argv)}
  <2>1. argv \in Seq(S) /\ \A i \in 1..Len(argv) : IsOption(argv[i])
    BY PduBuilderAssumption
  <2> HIDE DEF S
  <2> QED
    BY <2>1
<1>2. ASSUME NEW i \in 1..Len(argv)
      PROVE  argv[i].text \in TextSet /\ argv[i].n \in Nat
  <2>1. argv[i].n \in Nat /\ IsText(argv[i].text)
    BY <1>1 DEF IsOption
  <2> DEFINE t == argv[i].text
  <2>2. t = [len |-> t.len, spaces |-> t.spaces] /\ t.len \in Nat /\ t.spaces \subseteq Int
    BY <2>1 DEF IsText
  <2> HIDE DEF t
  <2>3. t \in TextSet
    BY <2>2 DEF TextSet
  <2> QED
    BY <2>1, <2>3 DEF t
<1> QED
  BY <1>1, <1>2

LEMMA EmptyTyped == Empty \in TextSet
BY DEF Empty, Word, TextSet

LEMMA CutTyped ==
  ASSUME NEW t \in TextSet, NEW n \in Nat
  PROVE  Cut(t, n) \in TextSet
BY DEF Cut, TextSet

LEMMA CatTyped ==
  ASSUME NEW s \in TextSet, NEW t \in TextSet
  PROVE  Cat(s, t) \in TextSet /\ Cat(s, t).len = s.len + t.len
<1>1. s.len \in Nat /\ t.len \in Nat /\ s.spaces \subseteq Int /\ t.spaces \subseteq Int
  BY DEF TextSet
<1>2. s.len + t.len \in Nat /\ {s.len + p : p \in t.spaces} \subseteq Int
  BY <1>1
<1>3. s.spaces \cup {s.len + p : p \in t.spaces} \in SUBSET Int
  BY <1>1, <1>2
<1> QED
  BY <1>2, <1>3 DEF Cat, TextSet

(* A TLV that begins where the last one ends continues the chain.          *)
LEMMA ChainAppend ==
  ASSUME NEW s \in Seq(TlvSet), NEW b \in Nat, Chain(s, b), NEW t \in TlvSet, t.at = b
  PROVE  /\ Append(s, t) \in Seq(TlvSet)
         /\ Chain(Append(s, t), b + t.length + 2)
<1> DEFINE u == Append(s, t)
<1>1. /\ u \in Seq(TlvSet) /\ Len(u) = Len(s) + 1 /\ u[Len(s) + 1] = t
      /\ \A k \in 1..Len(s) : u[k] = s[k]
  OBVIOUS
<1>2. Len(s) \in Nat
  OBVIOUS
<1> HIDE DEF u
<1>3. ASSUME NEW k \in 1..Len(u)
      PROVE  u[k].at + u[k].length + 2 =
               IF k = Len(u) THEN b + t.length + 2 ELSE u[k + 1].at
  <2>1. CASE k = Len(s) + 1
    BY <1>1, <2>1
  <2>2. CASE k = Len(s)
    <3>1. s[k].at + s[k].length + 2 = b
      BY <1>1, <1>2, <1>3, <2>2 DEF Chain
    <3> QED
      BY <1>1, <1>2, <1>3, <2>2, <3>1
  <2>3. CASE k \in 1..(Len(s) - 1)
    <3>1. s[k].at + s[k].length + 2 = s[k + 1].at
      BY <1>2, <2>3 DEF Chain
    <3>2. u[k] = s[k] /\ u[k + 1] = s[k + 1] /\ k # Len(u)
      BY <1>1, <1>2, <2>3
    <3> QED
      BY <3>1, <3>2
  <2> QED
    BY <1>1, <1>2, <2>1, <2>2, <2>3
<1> QED
  BY <1>1, <1>3 DEF Chain, u

(* size bytes of content become a TLV.                                     *)
Taken(subtype, size, of, text, n) ==
  /\ currentByte + 6 + size <= 1500
  /\ tlvs' = Append(tlvs,
       Tlv(subtype, currentByte, (size + 4) % 512, of, Cut(text, size), n))
  /\ currentByte' = currentByte + 6 + size

(* transfer_to_pdu takes up to 507 bytes of content or nothing.            *)
LEMMA TransferCases ==
  ASSUME NEW subtype, NEW length \in Nat, NEW of, NEW text, NEW n,
         TransferToPdu(subtype, length, of, text, n), currentByte \in Nat
  PROVE  \/ UNCHANGED <<tlvs, currentByte>>
         \/ \E size \in 0..507 : Taken(subtype, size, of, text, n)
<1> DEFINE l == length % 65536
           z == IF l > 507 THEN 507 ELSE l
<1>1. \/ UNCHANGED <<tlvs, currentByte>>
      \/ /\ 1500 >= l + currentByte + 6
         /\ tlvs' = Append(tlvs,
              Tlv(subtype, currentByte, (z + 4) % 512, of, Cut(text, z), n))
         /\ currentByte' = currentByte + 6 + z
  BY DEF TransferToPdu
<1>2. l \in Nat
  OBVIOUS
<1> HIDE DEF l
<1>3. z \in 0..507 /\ z <= l
  BY <1>2
<1> HIDE DEF z
<1>4. 1500 >= l + currentByte + 6 => currentByte + 6 + z <= 1500
  BY <1>2, <1>3
<1>5. ASSUME 1500 >= l + currentByte + 6,
             tlvs' = Append(tlvs,
               Tlv(subtype, currentByte, (z + 4) % 512, of, Cut(text, z), n)),
             currentByte' = currentByte + 6 + z
      PROVE  \E size \in 0..507 : Taken(subtype, size, of, text, n)
  <2>1. Taken(subtype, z, of, text, n)
    BY <1>4, <1>5 DEF Taken
  <2> QED
    BY <1>3, <2>1
<1> QED
  BY <1>1, <1>5

(* A call of it with arguments that make sense.                            *)
ProperTransfer(subtype, length, of, text, n) ==
  /\ subtype \in Subtypes /\ length \in Nat /\ of \in Nat /\ text \in TextSet /\ n \in Nat
  /\ TransferToPdu(subtype, length, of, text, n)

(* It continues the chain or leaves it, within 1500 bytes.                 *)
LEMMA Transferred ==
  ASSUME tlvs \in Seq(TlvSet), Chain(tlvs, currentByte), currentByte \in 22..1500,
         NEW subtype, NEW length, NEW of, NEW text, NEW n,
         ProperTransfer(subtype, length, of, text, n)
  PROVE  /\ tlvs' \in Seq(TlvSet) /\ Chain(tlvs', currentByte')
         /\ currentByte' \in 22..1500
<1>1. CASE UNCHANGED <<tlvs, currentByte>>
  BY <1>1
<1>2. currentByte \in Nat
  OBVIOUS
<1>3. CASE \E size \in 0..507 : Taken(subtype, size, of, text, n)
  <2>0. PICK size \in 0..507 : Taken(subtype, size, of, text, n)
    BY <1>3, ZenonT(60)
  <2> DEFINE field == (size + 4) % 512
             cut == Cut(text, size)
             t == Tlv(subtype, currentByte, field, of, cut, n)
  <2>1. (size + 4) % 512 = size + 4 /\ size + 4 \in 0..511
    OBVIOUS
  <2>2. field = size + 4 /\ field \in 0..511
    BY <2>1
  <2>3. cut \in TextSet
    BY CutTyped DEF ProperTransfer
  <2>4. /\ tlvs' = Append(tlvs, t)
        /\ currentByte' = currentByte + 6 + size /\ currentByte' <= 1500
    BY <2>0 DEF Taken
  <2> HIDE DEF field, cut
  <2>5. t \in TlvSet /\ t.at = currentByte /\ t.length = field
    BY <1>2, <2>2, <2>3 DEF Tlv, TlvSet, ProperTransfer
  <2> HIDE DEF t
  <2>6. tlvs' \in Seq(TlvSet) /\ Chain(tlvs', currentByte + t.length + 2)
    BY <1>2, <2>4, <2>5, ChainAppend
  <2>7. currentByte + field + 2 = currentByte' /\ currentByte' \in 22..1500
    BY <1>2, <2>2, <2>4
  <2> QED
    BY <2>5, <2>6, <2>7
<1>4. \/ UNCHANGED <<tlvs, currentByte>>
      \/ \E size \in 0..507 : Taken(subtype, size, of, text, n)
  <2>1. length \in Nat /\ TransferToPdu(subtype, length, of, text, n)
    BY DEF ProperTransfer
  <2> QED
    BY <1>2, <2>1, TransferCases
<1> QED
  BY <1>1, <1>3, <1>4

-----------------------------------------------------------------------------
LEMMA SentenceTyped ==
  ASSUME NEW o, o.opt \in InfoOptions, o.text \in TextSet
  PROVE  /\ Needed(o) \in Nat /\ Sentence(o) \in TextSet
         /\ Sentence(o).len = Needed(o) + 1
<1> DEFINE d == Descriptor[o.opt]
<1>1. d \in Nat
  BY PduBuilderAssumption
<1>2. o.text.len \in Nat
  BY DEF TextSet
<1> HIDE DEF d
<1>3. Word(d) \in TextSet /\ Word(d).len = d
  BY <1>1 DEF Word, TextSet
<1>4. Blank(1) \in TextSet /\ Blank(1).len = 1
  BY DEF Blank, TextSet
<1> DEFINE e == [len |-> 2, spaces |-> {1}]
<1>5. e \in TextSet /\ e.len = 2
  BY DEF TextSet
<1> HIDE DEF e
<1>6. /\ Cat(Word(d), Blank(1)) \in TextSet
      /\ Cat(Word(d), Blank(1)).len = d + 1
  BY <1>3, <1>4, CatTyped
<1>7. /\ Cat(Cat(Word(d), Blank(1)), o.text) \in TextSet
      /\ Cat(Cat(Word(d), Blank(1)), o.text).len = d + 1 + o.text.len
  BY <1>6, CatTyped
<1>8. /\ Sentence(o) \in TextSet /\ Sentence(o).len = d + 1 + o.text.len + 2
  BY <1>5, <1>7, CatTyped DEF Sentence, d, e
<1>9. Needed(o) = d + o.text.len + 2
  BY DEF Needed, d
<1> QED
  BY <1>1, <1>2, <1>8, <1>9

(* m is what l becomes when a text that needs d is put in string i, the    *)
(* first with room.                                                        *)
PutFirst(l, i, d, m) ==
  /\ l \in [Strings -> 0..507] /\ PairsFull(l) /\ i \in Strings /\ d \in Nat
  /\ l[i] + d < 507 /\ \A k \in Strings : k < i => l[k] + d >= 507
  /\ m = [l EXCEPT ![i] = l[i] + d + 1]

(* That keeps the strings full.                                            *)
LEMMA FirstFit ==
  ASSUME NEW l, NEW i, NEW d, NEW m, PutFirst(l, i, d, m)
  PROVE  m \in [Strings -> 0..507] /\ PairsFull(m) /\ Total(m) = Total(l) + d + 1
<1> DEFINE v == l[i] + d + 1
<1> USE DEF PutFirst
<1>0. \A k \in Strings : l[k] \in 0..507
  OBVIOUS
<1>1. v \in 0..507 /\ v = l[i] + d + 1
  <2>1. l[i] \in Nat
    BY <1>0
  <2>2. d \in Nat /\ l[i] + d < 507
    OBVIOUS
  <2>3. v = l[i] + d + 1
    OBVIOUS
  <2> HIDE DEF v, PutFirst
  <2> QED
    BY <2>1, <2>2, <2>3, SMTT(30)
<1>2. /\ m \in [Strings -> 0..507] /\ m[i] = v
      /\ \A k \in Strings : k # i => m[k] = l[k]
  BY <1>1
<1> HIDE DEF v
<1>3. ASSUME NEW k \in Strings, NEW j \in Strings, k < j, m[j] > 0
      PROVE  m[k] + m[j] >= 508
  <2>1. CASE j = i
    <3>1. m[j] = v /\ m[k] = l[k] /\ l[k] + d >= 507 /\ k # i
      BY <1>2, <1>3, <2>1 DEF Strings
    <3>2. l[k] \in Nat /\ l[i] \in Nat
      BY <1>0
    <3> QED
      BY <1>1, <3>1, <3>2
  <2>2. CASE j # i
    <3>1. m[j] = l[j] /\ l[k] + l[j] >= 508
      BY <1>2, <1>3, <2>2 DEF PairsFull
    <3>2. l[k] \in Nat /\ l[j] \in Nat /\ l[i] \in Nat
      BY <1>0
    <3>3. CASE k = i
      BY <1>1, <1>2, <3>1, <3>2, <3>3
    <3>4. CASE k # i
      BY <1>2, <3>1, <3>4
    <3> QED
      BY <3>3, <3>4
  <2> QED
    BY <2>1, <2>2
<1>4. Total(m) = Total(l) + d + 1
  <2>1. /\ l[1] \in Nat /\ l[2] \in Nat /\ l[3] \in Nat /\ l[4] \in Nat /\ l[5] \in Nat
    BY <1>0, SMTT(30) DEF Strings
  <2>2. i = 1 \/ i = 2 \/ i = 3 \/ i = 4 \/ i = 5
    BY DEF Strings
  <2>3. \A k \in {1, 2, 3, 4, 5} : m[k] = IF k = i THEN v ELSE l[k]
    BY <1>2 DEF Strings
  <2>4. CASE i = 1
    BY <1>1, <2>1, <2>3, <2>4 DEF Total
  <2>5. CASE i = 2
    BY <1>1, <2>1, <2>3, <2>5 DEF Total
  <2>6. CASE i = 3
    BY <1>1, <2>1, <2>3, <2>6 DEF Total
  <2>7. CASE i = 4
    BY <1>1, <2>1, <2>3, <2>7 DEF Total
  <2>8. CASE i = 5
    BY <1>1, <2>1, <2>3, <2>8 DEF Total
  <2> QED
    BY <2>2, <2>4, <2>5, <2>6, <2>7, <2>8
<1>5. PairsFull(m)
  BY <1>3 DEF PairsFull
<1> QED
  BY <1>2, <1>4, <1>5

(* When there is no room, more than 1523 characters want a place.          *)
LEMMA NoRoom ==
  ASSUME NEW l \in [Strings -> 0..507], PairsFull(l), NEW d \in 0..506,
         \A i \in Strings : l[i] + d >= 507
  PROVE  Total(l) + d + 1 > 1523
<1>1. 1 \in Strings /\ 2 \in Strings /\ 3 \in Strings /\ 4 \in Strings /\ 5 \in Strings
  BY DEF Strings
<1>2. l[1] \in Nat /\ l[2] \in Nat /\ l[3] \in Nat /\ l[4] \in Nat /\ l[5] \in Nat
  BY <1>1, SMTT(30)
<1>3. l[2] > 0 /\ l[4] > 0 /\ l[5] + d >= 507
  BY <1>1, <1>2
<1>4. l[1] + l[2] >= 508 /\ l[3] + l[4] >= 508
  BY <1>1, <1>3 DEF PairsFull
<1> QED
  BY <1>2, <1>3, <1>4 DEF Total

(* What transfer_to_string does to the strings when one of them has room.  *)
LEMMA Stringed ==
  ASSUME StringsInv, pc \notin Undefined, NEW o, o.opt \in InfoOptions,
         o.text \in TextSet, TransferToString(o), ~Overruns(o)
  PROVE  /\ combined' \in [Strings -> TextSet] /\ textBytes' \in Nat
         /\ Lens' \in [Strings -> 0..507]
         /\ PairsFull(Lens') /\ textBytes' = Total(Lens')
<1>1. /\ combined \in [Strings -> TextSet] /\ textBytes \in Nat
      /\ Lens \in [Strings -> 0..507] /\ PairsFull(Lens) /\ textBytes = Total(Lens)
  BY DEF StringsInv, Undefined
<1>2. Needed(o) \in Nat /\ Sentence(o) \in TextSet /\ Sentence(o).len = Needed(o) + 1
  BY SentenceTyped
<1>3. CASE Skipped(o) /\ UNCHANGED combined
  <2>1. textBytes' = textBytes /\ Lens' = Lens
    BY <1>3 DEF TransferToString, Lens
  <2> QED
    BY <1>1, <1>3, <2>1
<1>4. ASSUME ~Skipped(o), NEW i \in Strings, Fits(o, i), \A k \in 1..(i - 1) : ~Fits(o, k),
             combined' = [combined EXCEPT ![i] = Cat(@, Sentence(o))]
      PROVE  /\ combined' \in [Strings -> TextSet] /\ textBytes' \in Nat
             /\ Lens' \in [Strings -> 0..507]
             /\ PairsFull(Lens') /\ textBytes' = Total(Lens')
  <2> DEFINE c == Cat(combined[i], Sentence(o))
             d == Needed(o)
             l == Lens
             m == [l EXCEPT ![i] = c.len]
  <2>0. combined[i] \in TextSet /\ l[i] = combined[i].len
    BY <1>1 DEF Lens
  <2>1. c \in TextSet /\ c.len = combined[i].len + Sentence(o).len
    BY <1>2, <2>0, CatTyped
  <2>2. combined' = [combined EXCEPT ![i] = c]
    BY <1>4
  <2> HIDE DEF c
  <2>3. combined' \in [Strings -> TextSet]
    BY <1>1, <2>1, <2>2
  <2>4. c.len = l[i] + d + 1
    <3> HIDE DEF l, d
    <3>1. Sentence(o).len = d + 1 /\ d \in Nat /\ l[i] \in Nat /\ c.len = l[i] + Sentence(o).len
      BY <1>1, <1>2, <2>0, <2>1 DEF d, l
    <3> QED
      BY <3>1
  <2>5. Lens' = m
    <3>1. Lens' = [j \in Strings |-> IF j = i THEN c.len ELSE combined[j].len]
      BY <1>1, <2>2 DEF Lens
    <3>2. m = [j \in Strings |-> IF j = i THEN c.len ELSE combined[j].len]
      BY DEF Lens
    <3> QED
      BY <3>1, <3>2
  <2>6. l[i] + d < 507 /\ \A k \in Strings : k < i => l[k] + d >= 507
    <3>1. \A k \in Strings : Fits(o, k) <=> 507 > l[k] + d
      BY DEF Fits, Lens
    <3>2. \A k \in Strings : k < i => k \in 1..(i - 1)
      BY DEF Strings
    <3>3. \A k \in Strings : l[k] + d \in Nat
      BY <1>1, <1>2
    <3> HIDE DEF l, d
    <3> QED
      BY <1>4, <3>1, <3>2, <3>3
  <2>7. d \in Nat /\ l \in [Strings -> 0..507] /\ PairsFull(l)
    BY <1>1, <1>2
  <2>8. textBytes' = Total(l) + d + 1 /\ Total(l) \in Nat
    BY <1>1, <1>4 DEF TransferToString
  <2>11. m = [l EXCEPT ![i] = l[i] + d + 1]
    BY <2>4
  <2> HIDE DEF l, d, m
  <2>12. PutFirst(l, i, d, m)
    BY <2>6, <2>7, <2>11 DEF PutFirst
  <2>9. m \in [Strings -> 0..507] /\ PairsFull(m) /\ Total(m) = Total(l) + d + 1
    BY <2>12, FirstFit
  <2>10. textBytes' = Total(m) /\ textBytes' \in Nat
    BY <2>7, <2>8, <2>9
  <2> QED
    BY <2>3, <2>5, <2>9, <2>10
<1> QED
  BY <1>3, <1>4 DEF TransferToString

(* When no string has room, the text is long or just too long.             *)
LEMMA Overrun ==
  ASSUME StringsInv, pc \notin Undefined, NEW o, o.opt \in InfoOptions,
         o.text \in TextSet, TransferToString(o), Overruns(o)
  PROVE  /\ combined' = combined /\ textBytes' \in Nat
         /\ textBytes' > 1523 \/ JustTooLong(o)
<1> DEFINE d == Needed(o)
           l == Lens
<1>1. /\ textBytes \in Nat /\ textBytes = Total(l)
      /\ l \in [Strings -> 0..507] /\ PairsFull(l)
  BY DEF StringsInv, Undefined
<1>2. d \in Nat
  BY SentenceTyped
<1>3. combined' = combined /\ textBytes' = textBytes + d + 1
  BY DEF TransferToString, Overruns
<1>4. d <= 507
  BY <1>2 DEF Overruns, Skipped
<1>5. \A i \in Strings : l[i] + d >= 507
  <2>1. \A i \in Strings : ~(507 > l[i] + d)
    BY DEF Overruns, Fits, Lens
  <2>2. \A i \in Strings : l[i] + d \in Nat
    BY <1>1, <1>2
  <2> HIDE DEF l, d
  <2> QED
    BY <2>1, <2>2
<1>6. JustTooLong(o) <=> d = 507
  BY DEF JustTooLong
<1> HIDE DEF l, d
<1>7. ASSUME d # 507 PROVE textBytes' > 1523
  <2>1. d \in 0..506
    BY <1>2, <1>4, <1>7
  <2>2. Total(l) + d + 1 > 1523
    BY <1>1, <1>5, <2>1, NoRoom
  <2> QED
    BY <1>1, <1>3, <2>2
<1> QED
  BY <1>1, <1>2, <1>3, <1>6, <1>7

-----------------------------------------------------------------------------
LEMMA InitIInv == Init => IInv
<1> SUFFICES ASSUME Init PROVE IInv
  OBVIOUS
<1>1. argv \in CommandLines /\ optind = 1 /\ optind \in 1..(Len(argv) + 1)
  <2>1. argv \in CommandLines /\ optind = 1
    BY DEF Init
  <2>2. Len(argv) \in Nat
    BY <2>1, OptionTyped
  <2> QED
    BY <2>1, <2>2
<1>2. LoopInv
  BY <1>1 DEF Init, LoopInv
<1>3. PduInv
  <2> DEFINE t1 == Tlv(Chassis, 0, 7, 0, Empty, 0)
             t2 == Tlv(Port, 9, 7, 0, Empty, 0)
             t3 == Tlv(Ttl, 18, 2, 0, Empty, 0)
  <2>1. /\ t1 \in TlvSet /\ t1.at = 0 /\ t1.length = 7
        /\ t2 \in TlvSet /\ t2.at = 9 /\ t2.length = 7
        /\ t3 \in TlvSet /\ t3.at = 18 /\ t3.length = 2
    <3>1. t1 \in TlvSet /\ t1.at = 0 /\ t1.length = 7
      BY EmptyTyped DEF Tlv, TlvSet, Subtypes
    <3>2. t2 \in TlvSet /\ t2.at = 9 /\ t2.length = 7
      BY EmptyTyped DEF Tlv, TlvSet, Subtypes
    <3>3. t3 \in TlvSet /\ t3.at = 18 /\ t3.length = 2
      BY EmptyTyped DEF Tlv, TlvSet, Subtypes
    <3> QED
      BY <3>1, <3>2, <3>3
  <2>2. tlvs = <<t1, t2, t3>> /\ currentByte = 22 /\ pc = "main"
    BY DEF Init
  <2> HIDE DEF t1, t2, t3
  <2>3. tlvs \in Seq(TlvSet) /\ Len(tlvs) = 3
    BY <2>1, <2>2
  <2>4. tlvs[1] = t1 /\ tlvs[2] = t2 /\ tlvs[3] = t3
    BY <2>2
  <2>5. ASSUME NEW k \in 1..Len(tlvs)
        PROVE  tlvs[k].at + tlvs[k].length + 2 =
                 IF k = Len(tlvs) THEN currentByte ELSE tlvs[k + 1].at
    <3>1. k = 1 \/ k = 2 \/ k = 3
      BY <2>3
    <3> QED
      BY <2>1, <2>2, <2>3, <2>4, <3>1
  <2>6. Chain(tlvs, currentByte)
    BY <2>5 DEF Chain
  <2> QED
    BY <2>2, <2>3, <2>6 DEF PduInv
<1>4. StringsInv
  <2>1. combined = [i \in Strings |-> Empty] /\ textBytes = 0
    BY DEF Init
  <2>2. combined \in [Strings -> TextSet]
    BY <2>1, EmptyTyped
  <2>3. Lens = [i \in Strings |-> 0]
    BY <2>1 DEF Lens, Empty, Word
  <2>4. PairsFull(Lens) /\ Total(Lens) = 0
    BY <2>3 DEF PairsFull, Total, Strings
  <2> QED
    BY <2>1, <2>2, <2>3, <2>4 DEF StringsInv
<1>5. FiveStringsSuffice
  BY DEF Init, FiveStringsSuffice
<1> QED
  BY <1>2, <1>3, <1>4, <1>5 DEF IInv

(* Where transfer_to_string leaves the program.                            *)
After(o) == \/ pc' = AfterString(o)
            \/ pc' = "exited" /\ AfterString(o) = "options"

LEMMA AfterCases ==
  ASSUME NEW o, After(o), combined' \in [Strings -> TextSet]
  PROVE  \/ pc' = "pastStrings" /\ Overruns(o)
         \/ /\ pc' = "pastString" /\ ~Overruns(o)
            /\ \E i \in Strings : Lens'[i] >= 507
         \/ /\ pc' \in {"options", "exited"} /\ ~Overruns(o)
            /\ \A i \in Strings : Lens'[i] < 507
<1>1. \A i \in Strings : Lens'[i] = combined'[i].len /\ combined'[i].len \in Nat
  BY DEF Lens, TextSet
<1>2. CASE Overruns(o)
  BY <1>2 DEF After, AfterString
<1>3. CASE ~Overruns(o) /\ \E i \in Strings : combined'[i].len >= StringSize
  BY <1>1, <1>3 DEF After, AfterString, StringSize
<1>4. CASE ~Overruns(o) /\ ~\E i \in Strings : combined'[i].len >= StringSize
  <2>1. \A i \in Strings : Lens'[i] < 507
    BY <1>1, <1>4 DEF StringSize
  <2> QED
    BY <1>4, <2>1 DEF After, AfterString
<1> QED
  BY <1>2, <1>3, <1>4

LEMMA TotalAtLeast ==
  ASSUME NEW l \in [Strings -> 0..507], NEW i \in Strings, l[i] >= 507
  PROVE  Total(l) >= 507
<1>1. i \in {1, 2, 3, 4, 5} /\ \A k \in {1, 2, 3, 4, 5} : l[k] \in Nat
  BY SMTT(30) DEF Strings
<1> QED
  BY <1>1 DEF Total

(* What every option with information does to the strings.                 *)
LEMMA InfoOption ==
  ASSUME IInv, pc = "options", NEW i \in 1..Len(argv),
         argv[i].opt \in InfoOptions, TransferToString(argv[i]),
         After(argv[i]), argv' = argv
  PROVE  /\ StringsInv' /\ FiveStringsSuffice'
         /\ pc' \in {"options", "exited", "pastString", "pastStrings"}
<1>1. StringsInv /\ pc \notin Undefined /\ argv[i].text \in TextSet
  BY OptionTyped DEF IInv, LoopInv, Undefined
<1>2. CASE Overruns(argv[i])
  <2>1. /\ combined' = combined /\ textBytes' \in Nat
        /\ textBytes' > 1523 \/ JustTooLong(argv[i])
    BY <1>1, <1>2, Overrun
  <2>2. Lens' = Lens
    BY <2>1 DEF Lens
  <2>3. pc' = "pastStrings"
    BY <1>2 DEF After, AfterString
  <2>4. \A k \in Strings : Lens[k] < 507
    BY <1>1 DEF StringsInv, Undefined
  <2>5. StringsInv'
    BY <1>1, <2>1, <2>2, <2>3, <2>4 DEF StringsInv
  <2>6. FiveStringsSuffice'
    <3>1. JustTooLong(argv[i]) => JustTooLong(argv'[i]) /\ argv'[i].opt \in InfoOptions
      BY DEF JustTooLong, Needed
    <3>2. i \in 1..Len(argv')
      OBVIOUS
    <3> QED
      BY <2>1, <2>3, <3>1, <3>2 DEF FiveStringsSuffice, JustTooLong
  <2> QED
    BY <2>3, <2>5, <2>6
<1>3. CASE ~Overruns(argv[i])
  <2>1. /\ combined' \in [Strings -> TextSet] /\ textBytes' \in Nat
        /\ Lens' \in [Strings -> 0..507]
        /\ PairsFull(Lens') /\ textBytes' = Total(Lens')
    BY <1>1, <1>3, Stringed
  <2>2. \/ pc' = "pastString" /\ \E k \in Strings : Lens'[k] >= 507
        \/ pc' \in {"options", "exited"} /\ \A k \in Strings : Lens'[k] < 507
    BY <1>3, <2>1, AfterCases
  <2>3. StringsInv'
    BY <2>1, <2>2 DEF StringsInv
  <2>4. pc' = "pastString" => textBytes' >= 507
    <3> SUFFICES ASSUME pc' = "pastString" PROVE textBytes' >= 507
      OBVIOUS
    <3>1. PICK k \in Strings : Lens'[k] >= 507
      BY <2>2
    <3>2. PICK m : m = Lens'
      OBVIOUS
    <3>3. m \in [Strings -> 0..507] /\ m[k] >= 507 /\ textBytes' = Total(m)
      BY <2>1, <3>1, <3>2
    <3> QED
      BY <3>3, TotalAtLeast
  <2>5. FiveStringsSuffice'
    BY <2>2, <2>4 DEF FiveStringsSuffice, StringSize
  <2> QED
    BY <2>2, <2>3, <2>5
<1> QED
  BY <1>2, <1>3

LEMMA StringsStay ==
  ASSUME IInv, UNCHANGED <<combined, textBytes, argv>>,
         pc \notin {"pastString", "pastStrings"}, pc' \notin {"pastString", "pastStrings"}
  PROVE  StringsInv' /\ FiveStringsSuffice'
<1>1. Lens' = Lens
  BY DEF Lens
<1>2. StringsInv'
  BY <1>1 DEF IInv, StringsInv
<1>3. FiveStringsSuffice'
  BY DEF FiveStringsSuffice
<1> QED
  BY <1>2, <1>3

LEMMA StepIInv == IInv /\ [Next]_builderVars => IInv'
<1> SUFFICES ASSUME IInv, [Next]_builderVars PROVE IInv'
  OBVIOUS
<1>1. /\ argv \in CommandLines /\ Len(argv) \in Nat
      /\ optind \in 1..(Len(argv) + 1) /\ next \in 1..6 /\ pass \in 0..256
      /\ \A i \in 1..Len(argv) :
           argv[i].text \in TextSet /\ argv[i].n \in Nat
      /\ tlvs \in Seq(TlvSet) /\ Chain(tlvs, currentByte)
      /\ StringsInv
  BY OptionTyped DEF IInv, LoopInv, PduInv
<1>2. pc \notin {"built", "pastPdu"} => currentByte \in 22..1500
  BY DEF IInv, PduInv
<1>0. ASSUME pc \notin {"built", "pastPdu"}, NEW subtype, NEW length, NEW of, NEW text, NEW n,
             ProperTransfer(subtype, length, of, text, n)
      PROVE  /\ tlvs' \in Seq(TlvSet) /\ Chain(tlvs', currentByte')
             /\ currentByte' \in 22..1500
  BY <1>0, <1>1, <1>2, Transferred
<1>3. CASE Main
  <2>1. LoopInv' /\ PduInv'
    BY <1>1, <1>2, <1>3 DEF Main, LoopInv, PduInv
  <2>2. StringsInv' /\ FiveStringsSuffice'
    BY <1>3, StringsStay DEF Main
  <2> QED
    BY <2>1, <2>2 DEF IInv
<1>4. ASSUME NEW i \in 1..Len(argv), Option(argv[i]), argv' = argv, optind' = optind + 1,
             next' = next, pass' \in 0..256,
             pc' \in {"options", "exited", "pastString", "pastStrings", "pastKeys"}
      PROVE  LoopInv'
  <2>1. optind' \in 1..(Len(argv') + 1)
    BY <1>1, <1>4 DEF Option
  <2> QED
    BY <1>1, <1>4, <2>1 DEF LoopInv, Undefined
<1>5. ASSUME NEW i \in 1..Len(argv), OptText(argv[i]) PROVE IInv'
  <2> DEFINE o == argv[i]
  <2>1. /\ pc = "options" /\ o.opt \in InfoOptions /\ argv' = argv
        /\ After(o)
    BY <1>5 DEF OptText, Option, InfoOptions, After
  <2>3. /\ StringsInv' /\ FiveStringsSuffice'
        /\ pc' \in {"options", "exited", "pastString", "pastStrings"}
    BY <1>5, <2>1, InfoOption DEF OptText
  <2>2. LoopInv'
    BY <1>1, <1>4, <1>5, <2>3 DEF OptText
  <2>4. /\ o.opt \in Subtypes /\ o.text \in TextSet /\ o.text.len \in Nat
        /\ optind \in Nat /\ 0 \in Nat
    BY <1>1, <2>1 DEF TextSet, Subtypes
  <2>5. PduInv'
    <3>1. ProperTransfer(o.opt, o.text.len, optind, o.text, 0)
      BY <1>5, <2>4 DEF OptText, ProperTransfer
    <3>2. tlvs' \in Seq(TlvSet) /\ Chain(tlvs', currentByte') /\ currentByte' \in 22..1500
      BY <1>0, <2>1, <3>1
    <3> QED
      BY <2>3, <3>2 DEF PduInv
  <2> QED
    BY <2>2, <2>3, <2>5 DEF IInv
<1>6. ASSUME NEW i \in 1..Len(argv), OptVlanId(argv[i]) PROVE IInv'
  <2> DEFINE o == argv[i]
  <2>1. /\ pc = "options" /\ o.opt \in InfoOptions /\ argv' = argv
        /\ After(o)
    BY <1>6 DEF OptVlanId, Option, InfoOptions, After
  <2>3. /\ StringsInv' /\ FiveStringsSuffice'
        /\ pc' \in {"options", "exited", "pastString", "pastStrings"}
    BY <1>6, <2>1, InfoOption DEF OptVlanId
  <2>2. LoopInv'
    BY <1>1, <1>4, <1>6, <2>3 DEF OptVlanId
  <2>4. optind \in Nat /\ o.n \in Nat
    BY <1>1
  <2>5. PduInv'
    <3>1. ProperTransfer("i", 2, optind, Empty, o.n)
      <4>1. "i" \in Subtypes /\ 2 \in Nat /\ Empty \in TextSet
        BY EmptyTyped DEF Subtypes, InfoOptions
      <4> QED
        BY <1>6, <2>4, <4>1 DEF OptVlanId, ProperTransfer
    <3>2. tlvs' \in Seq(TlvSet) /\ Chain(tlvs', currentByte') /\ currentByte' \in 22..1500
      BY <1>0, <2>1, <3>1
    <3> QED
      BY <2>3, <3>2 DEF PduInv
  <2> QED
    BY <2>2, <2>3, <2>5 DEF IInv
<1>7. ASSUME NEW i \in 1..Len(argv), OptIp(argv[i]) PROVE IInv'
  <2> DEFINE o == argv[i]
             found == Found(o)
             size == found * (IF o.opt = "4" THEN 5 ELSE 17)
  <2>1. /\ pc = "options" /\ o.opt \in InfoOptions /\ argv' = argv
        /\ After(o)
    BY <1>7 DEF OptIp, Option, InfoOptions, After
  <2>3. /\ StringsInv' /\ FiveStringsSuffice'
        /\ pc' \in {"options", "exited", "pastString", "pastStrings"}
    BY <1>7, <2>1, InfoOption DEF OptIp
  <2>2. LoopInv'
    BY <1>1, <1>4, <1>7, <2>3 DEF OptIp
  <2>4. TransferToPdu(o.opt, size, optind, Empty, found)
    BY <1>7 DEF OptIp
  <2>5. o.opt \in Subtypes /\ optind \in Nat /\ found \in Nat
    BY <1>1, <2>1 DEF Subtypes, Found
  <2>6. size \in Nat
    <3>1. found * 5 \in Nat /\ found * 17 \in Nat
      <4> HIDE DEF found
      <4> QED
        BY <2>5
    <3> QED
      BY <3>1
  <2> HIDE DEF found, size
  <2>7. tlvs' \in Seq(TlvSet) /\ Chain(tlvs', currentByte') /\ currentByte' \in 22..1500
    <3>1. ProperTransfer(o.opt, size, optind, Empty, found)
      BY <2>4, <2>5, <2>6, EmptyTyped DEF ProperTransfer
    <3> QED
      BY <1>0, <2>1, <3>1
  <2>8. PduInv'
    BY <2>3, <2>7 DEF PduInv
  <2> QED
    BY <2>2, <2>3, <2>8 DEF IInv
<1>8. ASSUME NEW i \in 1..Len(argv),
             OptPassword(argv[i]) \/ OptPath(argv[i]) \/ OptOther(argv[i])
      PROVE  IInv'
  <2>1. /\ pc = "options" /\ Option(argv[i]) /\ pc' \in {"options", "exited", "pastKeys"}
        /\ optind' = optind + 1
        /\ UNCHANGED <<argv, tlvs, currentByte, combined, next, textBytes>>
    BY <1>8 DEF OptPassword, OptPath, OptOther, Option
  <2>2. pass' \in 0..256
    <3>1. argv[i].text.len \in Nat
      BY <1>1 DEF TextSet
    <3> DEFINE n == argv[i].text.len
    <3>2. CASE OptPassword(argv[i])
      <4>1. pass' = pass \/ pass' = 256 \/ (n <= 256 /\ pass' = n)
        BY <3>1, <3>2 DEF OptPassword
      <4>2. n \in Nat /\ pass \in 0..256
        BY <1>1, <3>1
      <4> HIDE DEF n
      <4>3. n <= 256 => n \in 0..256
        BY <4>2
      <4>4. CASE pass' = pass
        BY <4>2, <4>4
      <4>5. CASE pass' = 256
        BY <4>5
      <4>6. CASE n <= 256 /\ pass' = n
        BY <4>3, <4>6
      <4> QED
        BY <4>1, <4>4, <4>5, <4>6
    <3>3. CASE OptPath(argv[i])
      <4>1. pass' = pass \/ (n > 800 /\ n - 801 < pass /\ pass' = n - 801)
        BY <3>3 DEF OptPath
      <4>2. CASE n > 800 /\ n - 801 < pass /\ pass' = n - 801
        <5>1. n \in Nat /\ pass \in 0..256
          BY <1>1, <3>1
        <5> HIDE DEF n
        <5>2. n - 801 \in 0..256
          BY <4>2, <5>1
        <5> QED
          BY <4>2, <5>2
      <4> QED
        BY <1>1, <4>1, <4>2
    <3>4. CASE OptOther(argv[i])
      BY <1>1, <3>4 DEF OptOther
    <3> QED
      BY <1>8, <3>2, <3>3, <3>4
  <2>3. LoopInv'
    BY <1>4, <2>1, <2>2
  <2>4. StringsInv' /\ FiveStringsSuffice'
    BY <2>1, StringsStay
  <2>5. /\ pc \notin {"built", "pastPdu"} /\ pc' \notin {"built", "pastPdu"}
        /\ UNCHANGED <<tlvs, currentByte>>
    BY <2>1
  <2>6. tlvs' \in Seq(TlvSet) /\ Chain(tlvs', currentByte') /\ currentByte' \in 22..1500
    BY <1>1, <1>2, <2>5
  <2>7. PduInv'
    BY <2>5, <2>6 DEF PduInv
  <2> QED
    BY <2>3, <2>4, <2>7 DEF IInv
<1>9. CASE EndOptions
  <2>1. LoopInv' /\ PduInv'
    BY <1>1, <1>2, <1>9 DEF EndOptions, LoopInv, PduInv
  <2>2. StringsInv' /\ FiveStringsSuffice'
    BY <1>9, StringsStay DEF EndOptions
  <2> QED
    BY <2>1, <2>2 DEF IInv
<1>10. CASE AddCombined
  <2>1. LoopInv'
    BY <1>1, <1>10 DEF AddCombined, LoopInv, Strings, IInv
  <2>2. StringsInv' /\ FiveStringsSuffice'
    BY <1>10, StringsStay DEF AddCombined
  <2>0. next \in Strings /\ pc = "strings" /\ combined \in [Strings -> TextSet]
    BY <1>1, <1>10 DEF AddCombined, StringsInv
  <2>3. combined[next] \in TextSet /\ combined[next].len \in Nat /\ next \in Nat
    BY <2>0 DEF Strings, TextSet
  <2>4. tlvs' \in Seq(TlvSet) /\ Chain(tlvs', currentByte') /\ currentByte' \in 22..1500
    <3>1. CASE UNCHANGED <<tlvs, currentByte>>
      BY <1>1, <1>2, <2>0, <3>1
    <3>2. CASE TransferToPdu(CombinedString, combined[next].len, 0, combined[next], next)
      <4>1. CombinedString \in Subtypes /\ 0 \in Nat
        BY DEF Subtypes
      <4>2. ProperTransfer(CombinedString, combined[next].len, 0, combined[next], next)
        BY <2>3, <3>2, <4>1 DEF ProperTransfer
      <4> QED
        BY <1>0, <2>0, <4>2
    <3> QED
      BY <1>10, <3>1, <3>2 DEF AddCombined
  <2>5. PduInv'
    BY <1>10, <2>0, <2>4 DEF AddCombined, PduInv
  <2> QED
    BY <2>1, <2>2, <2>5 DEF IInv
<1>11. CASE Finish
  <2>1. LoopInv'
    BY <1>1, <1>11 DEF Finish, LoopInv, Undefined
  <2>2. StringsInv' /\ FiveStringsSuffice'
    BY <1>11, StringsStay DEF Finish
  <2>3. currentByte \in 22..1500 /\ currentByte \in Nat
    <3>1. pc \notin {"built", "pastPdu"}
      BY <1>11 DEF Finish
    <3> QED
      BY <1>2, <3>1
  <2> DEFINE t == Tlv(End, currentByte, 0, 0, Empty, 0)
  <2>4. t \in TlvSet /\ t.at = currentByte /\ t.length = 0
    <3>1. End \in Subtypes
      BY DEF Subtypes
    <3> QED
      BY <2>3, <3>1, EmptyTyped DEF Tlv, TlvSet
  <2>5. /\ tlvs' = Append(tlvs, t) /\ currentByte' = currentByte + 2
        /\ pc' = IF currentByte + 2 > 1500 THEN "pastPdu" ELSE "built"
    BY <1>11 DEF Finish, PduSize
  <2> HIDE DEF t
  <2>6. tlvs' \in Seq(TlvSet) /\ Chain(tlvs', currentByte + t.length + 2)
    <3>1. tlvs \in Seq(TlvSet) /\ Chain(tlvs, currentByte) /\ currentByte \in Nat
      BY <1>1, <2>3
    <3>2. /\ Append(tlvs, t) \in Seq(TlvSet)
          /\ Chain(Append(tlvs, t), currentByte + t.length + 2)
      BY <2>4, <3>1, ChainAppend
    <3> QED
      BY <2>5, <3>2
  <2>7. /\ currentByte + 0 + 2 = currentByte'
        /\ \/ pc' = "built" /\ currentByte' \in 24..1500
           \/ pc' = "pastPdu" /\ currentByte' \in 1501..1502
    BY <2>3, <2>5
  <2>8. PduInv'
    <3>1. tlvs' \in Seq(TlvSet) /\ Chain(tlvs', currentByte')
      BY <2>4, <2>6, <2>7
    <3>2. CASE pc' = "built"
      BY <2>7, <3>1, <3>2 DEF PduInv
    <3>3. CASE pc' = "pastPdu"
      BY <2>7, <3>1, <3>3 DEF PduInv
    <3> QED
      BY <2>7, <3>2, <3>3
  <2> QED
    BY <2>1, <2>2, <2>8 DEF IInv
<1>12. CASE UNCHANGED builderVars
  <2>1. Lens' = Lens
    BY <1>12 DEF builderVars, Lens
  <2>2. LoopInv' /\ PduInv'
    BY <1>12 DEF builderVars, IInv, LoopInv, PduInv
  <2>3. StringsInv'
    BY <1>12, <2>1 DEF builderVars, IInv, StringsInv
  <2>4. FiveStringsSuffice'
    BY <1>12 DEF builderVars, IInv, FiveStringsSuffice
  <2> QED
    BY <2>2, <2>3, <2>4 DEF IInv
<1> QED
  BY <1>3, <1>5, <1>6, <1>7, <1>8, <1>9, <1>10, <1>11, <1>12 DEF Next, OptionStep

-----------------------------------------------------------------------------
(* The inductive invariant holds of every run of lanbeacon_creator.        *)
THEOREM Invariance == Spec => []IInv
<1> QED
  BY InitIInv, StepIInv, PTL DEF Spec

(* Whatever options are given, the PDU that is built has 24 to 1500 bytes  *)
(* and its TLVs follow each other by their own length fields; a longer one *)
(* has one or two bytes of its end TLV behind the buffer.                  *)
THEOREM TypeCorrect == Spec => []TypeOK
<1>1. IInv => TypeOK
  <2> SUFFICES ASSUME IInv PROVE TypeOK
    OBVIOUS
  <2>1. \A i \in Strings :
          combined[i].len \in 0..(IF pc = "pastString" THEN StringSize ELSE StringSize - 1)
    <3> SUFFICES ASSUME NEW i \in Strings
                 PROVE  combined[i].len \in
                          0..(IF pc = "pastString" THEN StringSize ELSE StringSize - 1)
      OBVIOUS
    <3>1. Lens[i] = combined[i].len /\ Lens[i] \in 0..507
      BY DEF IInv, StringsInv, Lens
    <3>2. pc # "pastString" => Lens[i] < 507
      BY DEF IInv, StringsInv
    <3> QED
      BY <3>1, <3>2 DEF StringSize
  <2>2. \A k \in 1..Len(tlvs) : TlvType(tlvs[k])
    <3> SUFFICES ASSUME NEW k \in 1..Len(tlvs) PROVE TlvType(tlvs[k])
      OBVIOUS
    <3>1. tlvs[k] \in TlvSet
      BY DEF IInv, PduInv
    <3> QED
      BY <3>1 DEF TlvType, TlvSet, TextSet, Tlv
  <2> QED
    BY <2>1, <2>2 DEF IInv, LoopInv, PduInv, StringsInv, TypeOK, Chain, PduSize
<1> QED
  BY <1>1, Invariance, PTL

(* Less than 507 characters of text are always inside the combined strings *)
(* of transfer_to_string, and up to 1523 are never behind all five of them,*)
(* filled first-fit, whatever the texts are but just too long.             *)
THEOREM FiveStrings == Spec => []FiveStringsSuffice
<1>1. IInv => FiveStringsSuffice
  BY DEF IInv
<1> QED
  BY <1>1, Invariance, PTL

-----------------------------------------------------------------------------
(* Option i is the last of the first n that says what the password is.     *)
LastPassword(i, n) ==
  /\ argv[i].opt = "p"
  /\ \A k \in (i + 1)..n :
       argv[k].opt # "p" /\ (argv[k].opt = "s" => argv[k].text.len <= 800)

Given(o) == IF o.text.len < 256 THEN o.text.len ELSE 256

(* While the options are read the password is that of the last one read.   *)
PassInv ==
  /\ pc = "main" => optind = 1
  /\ pc \in {"strings", "built"} => optind = Len(argv) + 1
  /\ pc \in {"options", "strings", "built"} =>
       \A i \in 1..(optind - 1) : LastPassword(i, optind - 1) => pass = Given(argv[i])

LEMMA StepPassInv == IInv /\ PassInv /\ [Next]_builderVars => PassInv'
<1> SUFFICES ASSUME IInv, PassInv, [Next]_builderVars PROVE PassInv'
  OBVIOUS
<1>1. /\ Len(argv) \in Nat /\ optind \in 1..(Len(argv) + 1)
      /\ \A i \in 1..Len(argv) : argv[i].text.len \in Nat
  BY OptionTyped DEF IInv, LoopInv, TextSet
<1>2. ASSUME NEW o, Option(o), optind' = optind + 1, argv' = argv, pass' = pass,
             pc' \notin {"main", "strings", "built"}, o.opt # "p"
      PROVE  PassInv'
  <2>1. ASSUME NEW i \in 1..optind, LastPassword(i, optind), pc' = "options"
        PROVE  pass' = Given(argv[i])
    <3>1. i # optind
      BY <1>2, <2>1 DEF LastPassword, Option
    <3>2. i \in 1..(optind - 1) /\ \A k \in (i + 1)..(optind - 1) : k \in (i + 1)..optind
      BY <1>1, <3>1
    <3>3. LastPassword(i, optind - 1)
      BY <2>1, <3>2 DEF LastPassword
    <3> QED
      BY <1>2, <3>2, <3>3 DEF PassInv, Option
  <2>2. optind' - 1 = optind
    BY <1>1, <1>2
  <2> QED
    BY <1>2, <2>1, <2>2 DEF PassInv, LastPassword, Given
<1>3. ASSUME NEW i \in 1..Len(argv), OptText(argv[i]) \/ OptVlanId(argv[i]) \/ OptIp(argv[i])
      PROVE  PassInv'
  <2> DEFINE o == argv[i]
  <2>1. /\ Option(o) /\ optind' = optind + 1 /\ argv' = argv /\ pass' = pass
        /\ pc' \notin {"main", "strings", "built"} /\ o.opt # "p" /\ o.opt # "s"
    BY <1>3 DEF OptText, OptVlanId, OptIp, Option, TextOptions, AfterString
  <2> HIDE DEF o
  <2> QED
    BY <1>2, <2>1
<1>4. ASSUME NEW i \in 1..Len(argv), OptPath(argv[i]) \/ OptOther(argv[i]) PROVE PassInv'
  <2> DEFINE o == argv[i]
  <2>1. /\ Option(o) /\ optind' = optind + 1 /\ argv' = argv
        /\ pc' \notin {"main", "strings", "built"} /\ o.opt # "p" /\ o = argv[optind]
    BY <1>4 DEF OptPath, OptOther, Option
  <2>2. CASE o.opt = "s" /\ o.text.len > 800
    <3>1. optind \in 1..Len(argv) /\ o.text.len \in Nat
      BY <1>1, <2>1 DEF Option
    <3>2. ASSUME NEW k \in 1..optind PROVE ~LastPassword(k, optind)
      <4>1. CASE k = optind
        BY <2>1, <4>1 DEF LastPassword
      <4>2. CASE k # optind
        <5>1. optind \in (k + 1)..optind
          BY <3>1, <4>2
        <5>2. ~(argv[optind].text.len <= 800)
          BY <2>1, <2>2, <3>1
        <5> QED
          BY <2>1, <2>2, <5>1, <5>2 DEF LastPassword
      <4> QED
        BY <4>1, <4>2
    <3>3. optind' - 1 = optind
      BY <2>1, <3>1
    <3> QED
      BY <2>1, <3>2, <3>3 DEF PassInv, LastPassword
  <2>3. CASE ~(o.opt = "s" /\ o.text.len > 800)
    <3>1. pass' = pass
      BY <1>4, <2>3 DEF OptPath, OptOther
    <3> HIDE DEF o
    <3> QED
      BY <1>2, <2>1, <2>3, <3>1
  <2> QED
    BY <2>2, <2>3
<1>5. ASSUME NEW i \in 1..Len(argv), OptPassword(argv[i]) PROVE PassInv'
  <2> DEFINE o == argv[i]
  <2>1. /\ Option(o) /\ o = argv[optind] /\ o.opt = "p" /\ optind' = optind + 1
        /\ argv' = argv /\ pc = "options"
    BY <1>5 DEF OptPassword, Option
  <2>2. pc' = "exited" \/ (pc' = "options" /\ pass' = Given(o))
    <3>1. o.text.len \in Nat
      BY <1>1
    <3>2. /\ pc' = IF o.text.len > 1023 THEN "exited" ELSE pc
          /\ pass' = IF o.text.len > 1023 THEN pass
                     ELSE IF o.text.len > 256 THEN 256 ELSE o.text.len
      BY <1>5 DEF OptPassword
    <3> HIDE DEF o
    <3> QED
      BY <2>1, <3>1, <3>2 DEF Given
  <2>3. ASSUME NEW k \in 1..optind, LastPassword(k, optind) PROVE k = optind
    <3>1. k # optind => optind \in (k + 1)..optind
      BY <1>1
    <3> QED
      BY <2>1, <2>3, <3>1 DEF LastPassword
  <2>4. optind' - 1 = optind
    BY <1>1, <2>1
  <2> QED
    BY <2>1, <2>2, <2>3, <2>4 DEF PassInv, LastPassword, Given
<1>6. CASE Main
  <2>1. optind' = 1 /\ pc' \notin {"main", "strings", "built"}
    BY <1>6 DEF Main, PassInv
  <2> QED
    BY <2>1 DEF PassInv
<1>7. CASE EndOptions
  <2>1. /\ pc = "options" /\ optind = Len(argv) + 1 /\ UNCHANGED <<argv, optind, pass>>
        /\ pc' \in {"exited", "strings"}
    BY <1>1, <1>7 DEF EndOptions
  <2> QED
    BY <2>1 DEF PassInv, LastPassword, Given
<1>8. CASE AddCombined \/ Finish
  <2>1. /\ pc = "strings" /\ UNCHANGED <<argv, optind, pass>> /\ pc' \in {"strings", "built", "pastPdu"}
    BY <1>8 DEF AddCombined, Finish
  <2> QED
    BY <2>1 DEF PassInv, LastPassword, Given
<1>9. CASE UNCHANGED builderVars
  BY <1>9 DEF builderVars, PassInv, LastPassword, Given
<1> QED
  BY <1>3, <1>4, <1>5, <1>6, <1>7, <1>8, <1>9 DEF Next, OptionStep

(* For every command line, the password that a built beacon is signed with *)
(* is the one given last, or the first 256 characters of it.               *)
THEOREM LastPasswordCounts == Spec => []PasswordAsGiven
<1>1. Init => PassInv
  BY DEF Init, PassInv
<1>2. IInv /\ PassInv => PasswordAsGiven
  <2> SUFFICES ASSUME IInv, PassInv, NEW i \in 1..Len(argv), pc = "built",
                      LastPassword(i, Len(argv))
               PROVE  pass = Given(argv[i])
    BY DEF PasswordAsGiven, LastPassword, Given
  <2>1. optind = Len(argv) + 1 /\ Len(argv) \in Nat
    BY OptionTyped DEF IInv, LoopInv, PassInv
  <2>2. optind - 1 = Len(argv)
    BY <2>1
  <2> QED
    BY <2>2 DEF PassInv
<1> QED
  BY <1>1, <1>2, Invariance, StepPassInv, PTL DEF Spec
=============================================================================
