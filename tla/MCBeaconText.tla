---------------------------- MODULE MCBeaconText -----------------------------
(* Command lines for TLC, with texts of the lengths at which the limits    *)
(* are: 242 characters of -c fill more than half of a combined string, 494 *)
(* fill one, 495 go beyond it, 496 are just too long for any and 497 are   *)
(* skipped; 507 are a TLV, 1472 a PDU.                                     *)
EXTENDS BeaconText

O(opt, text, n) == [opt |-> opt, text |-> text, n |-> n]

(* A text with spaces at irregular distances, two of them side by side.    *)
Prose(len) == [len |-> len, spaces |-> {p \in 0..(len - 1) : p % 17 \in {5, 6, 13} /\ p % 90 < 60}]

Password == O("p", Word(8), 0)
Short == O("n", Word(1), 0)
Half == O("c", Word(242), 0)
Full == O("c", Prose(494), 0)
TooFull == O("c", Prose(495), 0)
TooLong == O("c", Word(496), 0)
Unlisted == O("c", Prose(497), 0)
Maximal == O("r", Prose(507), 0)
CutOff == O("d", Prose(600), 0)
WholePdu == O("d", Prose(1472), 0)
Wrapped == O("e", Prose(65540), 0)
Vlan == O("i", Word(4), 3)
HalfVlan == O("i", Word(243), 3)
SkippedVlan == O("i", Word(498), 3)
Net4 == O("4", Prose(40), 2)
Nets6 == O("6", Prose(300), 11)
SkippedNet == O("4", Prose(600), 1)
NoNet == O("4", Word(9), 0)
LongKey == O("s", Word(805), 0)
LongestKey == O("s", Word(1824), 0)
TooLongKey == O("s", Word(1825), 0)
LongPublic == O("v", Word(801), 0)
LongPassword == O("p", Word(300), 0)
Generate == O("g", Empty, 0)
Listen == O("l", Empty, 0)

Usual == {Short, Half, Full, TooFull, TooLong, Unlisted, Maximal, CutOff, Vlan, Net4, Nets6}
Long == {Full, Maximal, CutOff, Half}
Unusual == {Password, NoNet, LongKey, LongestKey, TooLongKey, LongPublic, LongPassword, Generate, Listen, Short}

UpTo(n, options) == UNION {[1..k -> options] : k \in 0..n}
Repeat(o, n) == [i \in 1..n |-> o]

(* Many short pieces of information, many of half a string, and many that  *)
(* fill five strings or none but take little room in a PDU.                *)
Many == {<<WholePdu, Vlan>>, <<WholePdu, SkippedNet>>, <<WholePdu>>, <<Short, O("d", Prose(1465), 0)>>, <<CutOff, Wrapped>>}
        \cup {Repeat(Short, n) : n \in 15..26} \cup {Repeat(Half, n) : n \in 5..6}
        \cup {Append(Repeat(Half, 5), Short)}
        \cup {<<Maximal, Maximal, O("n", Word(l), 0), o>> : l \in {444, 445}, o \in {Vlan, Net4}}
        \cup {Repeat(HalfVlan, 5) \o Repeat(SkippedVlan, n) : n \in 15..16}

MCCommandLines ==
  {<<Password>> \o s : s \in UpTo(2, Usual) \cup [1..3 -> Long] \cup Many}
  \cup UpTo(3, Unusual)

(* One option, not long.                                                   *)
MCOneText == {<<Password, O("c", Word(l), 0)>> : l \in 400..500}

MCDescriptor == [o \in InfoOptions |->
  CASE o = "n" -> 10 [] o = "c" -> 9 [] o = "e" -> 6 [] o = "d" -> 5
    [] o = "r" -> 7 [] o = "i" -> 8 [] OTHER -> 5]
MCLabel == [s \in InfoOptions \cup {"combined", "signature"} |->
  IF s \in InfoOptions THEN MCDescriptor[s]
  ELSE IF s = "signature" THEN 15 ELSE 16]
MCAddressWidth == [s \in {"4", "6"} |-> IF s = "4" THEN 18 ELSE 43]
MCSignatureTexts == {[len |-> 13, spaces |-> {0}], Prose(39)}
MCNoiseTexts == {Prose(300)}
=============================================================================
