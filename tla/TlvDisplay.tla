----------------------------- MODULE TlvDisplay ------------------------------
(***************************************************************************)
(* One beacon on the receiver's side: evaluatelanbeacon of receiver.c walks*)
(* over the TLVs of a frame and makes a string of each, and bananaPIprint  *)
(* breaks the strings into lines and the lines into pages, and sleeps      *)
(* while a page can be read.  TLVs are those of PduBuilder; behind them can*)
(* be bytes of which nothing is known.                                     *)
(***************************************************************************)
EXTENDS Integers, Sequences, FiniteSets, Texts

CONSTANTS
  Label,          \* subtype -> length of the descriptor shown
  AddressWidth,   \* subtype -> characters of an address with its prefix
  SignatureTexts, \* what is shown of a signature TLV
  \* What can be read out of bytes that are no TLVs of the sender's:
  NoiseLengths,   \* length fields
  NoiseSubtypes,  \* subtypes behind something that looks like the OUI
  NoiseTexts      \* what is shown of them

Header == 14             \* the Ethernet header
ParsedTlvsMaxNumber == 25
ParsedTlvsMaxLength == 510
DescriptorWidth == 10

VARIABLES
  stage,    \* "wait", "parse", "print", "shown"; "undefined"
  frame,    \* lan_beacon_ReceivedPayload as TLVs, payloadSize, and what is
            \* behind the TLVs: "padding", "cut" or "overwritten"
  pos,      \* currentPayloadByte
  parsed,   \* parsedTLVs up to numberParsedTLVs, and the options they are of
  tlv,      \* currentTLV, from 1
  end,      \* endOfLastPartialString
  screen,   \* the lines on the screen; there are currentPIline of them
  seen      \* history: lines that were on the screen during a sleep

displayVars == <<stage, frame, pos, parsed, tlv, end, screen, seen>>

NoFrame == [tlvs |-> <<>>, size |-> 0, tail |-> "padding"]

Init ==
  /\ stage = "wait" /\ frame = NoFrame /\ pos = Header
  /\ parsed = <<>> /\ tlv = 1 /\ end = 0 /\ screen = <<>> /\ seen = <<>>

(* A frame that lan_beacon_receiver takes from a socket.                   *)
Receive(ts, size, tail) ==
  /\ stage = "wait"
  /\ frame' = [tlvs |-> ts, size |-> size, tail |-> tail]
  /\ stage' = "parse"
  /\ UNCHANGED <<pos, parsed, tlv, end, screen, seen>>

-----------------------------------------------------------------------------
Known(t) == t.subtype \in DOMAIN Label
Addresses(t) == t.subtype \in DOMAIN AddressWidth

(* What the walk makes of the contents of a TLV.                           *)
Contents(t) ==
  IF t.subtype = "signature" THEN SignatureTexts
  ELSE IF Addresses(t) THEN {List(t.n, AddressWidth[t.subtype])}
  ELSE IF t.subtype = "i" THEN {Word(t.n)}
  ELSE {t.text}

(* Not the code: the descriptor's width is left out of the size.           *)
FaultyShown(subtype, c) == Cat(Pad(Word(Label[subtype]), DescriptorWidth), c)

(* TLV_CUSTOM_COPY: descriptor and contents, cut off to the length of an   *)
(* entry.                                                                  *)
Shown(subtype, c) == Cut(Cat(Pad(Word(Label[subtype]), DescriptorWidth), c),
                         ParsedTlvsMaxLength - 1)

(* A new entry of parsedTLVs; the number of entries is not checked.        *)
Enter(of, subtype, c) ==
  /\ stage' = IF Len(parsed) < ParsedTlvsMaxNumber THEN stage ELSE "undefined"
  /\ parsed' = Append(parsed, [of |-> of, subtype |-> subtype, text |-> Shown(subtype, c)])

Walking == stage = "parse" /\ pos < frame.size - 2
StartsAt(k) == frame.tlvs[k].at + Header = pos

(* A turn of the walk, by the length field.  WalkMatches is that it never  *)
(* looks where no TLV starts.                                              *)
ParseTlv(k) ==
  LET t == frame.tlvs[k] IN
  /\ Walking /\ StartsAt(k)
  /\ pos' = pos + t.length + 2
  /\ \/ ~Known(t) /\ UNCHANGED <<parsed, stage>>
     \/ Known(t) /\ \E c \in Contents(t) : Enter(t.of, t.subtype, c)
  /\ UNCHANGED <<frame, tlv, end, screen, seen>>

Behind(p) ==
  \A k \in 1..Len(frame.tlvs) : p >= Header + frame.tlvs[k].at + frame.tlvs[k].length + 2

(* Behind the TLVs, the zeros with which a short frame is filled up look   *)
(* like end TLVs; what was cut off or overwritten can look like anything.  *)
TailLengths == IF frame.tail = "padding" THEN {0} ELSE NoiseLengths

(* Not the code: the two bytes of the header are not counted.              *)
FaultySkipTail ==
  /\ Walking /\ Behind(pos)
  /\ \E n \in TailLengths : pos' = pos + n
  /\ UNCHANGED <<stage, frame, parsed, tlv, end, screen, seen>>

SkipTail ==
  /\ Walking /\ Behind(pos)
  /\ \E n \in TailLengths : pos' = pos + n + 2
  /\ UNCHANGED <<stage, frame, parsed, tlv, end, screen, seen>>

ParseTail ==
  /\ Walking /\ Behind(pos) /\ frame.tail = "overwritten"
  /\ \E n \in TailLengths : pos' = pos + n + 2
  /\ \E s \in NoiseSubtypes, c \in NoiseTexts : Enter(0, s, c)
  /\ UNCHANGED <<frame, tlv, end, screen, seen>>

ParseDone ==
  /\ stage = "parse" /\ ~Walking
  /\ stage' = "print"
  /\ UNCHANGED <<frame, pos, parsed, tlv, end, screen, seen>>

-----------------------------------------------------------------------------
Text == IF tlv <= Len(parsed) THEN parsed[tlv].text ELSE Empty

(* The width the code breaks at, without the indentation of later lines.   *)
LineWidth == IF end = 0 THEN 39 ELSE 39 - DescriptorWidth

(* The scan ends with the text, or with the first character beyond the     *)
(* width; the spaces it has met are the candidates for a break.            *)
ScanEnd == IF Text.len < end + LineWidth + 1 THEN Text.len ELSE end + LineWidth + 1
Spaces == {s \in Text.spaces : end < s /\ s <= ScanEnd}

(* Not the code: the line is broken in the middle of a word.               *)
FaultyLineEnd == ScanEnd

(* Where the line ends: behind the last space, if it is too long.          *)
LineEnd ==
  IF ScanEnd - end > LineWidth /\ Spaces # {}
    THEN 1 + (CHOOSE s \in Spaces : \A r \in Spaces : r <= s)
    ELSE ScanEnd

(* Not the code: the page is cleared without the sleep.                    *)
FaultyPrintLine ==
  LET line == [tlv |-> tlv, from |-> end, to |-> LineEnd] IN
  /\ stage = "print" /\ tlv <= ParsedTlvsMaxNumber /\ end < Text.len
  /\ end' = LineEnd
  /\ \/ /\ Len(screen) < 14
        /\ screen' = Append(screen, line) /\ seen' = seen
     \/ /\ Len(screen) >= 14
        /\ screen' = <<>> /\ seen' = seen
  /\ UNCHANGED <<stage, frame, pos, parsed, tlv>>

(* A line is printed; behind the fifteenth of a page there is a sleep, and *)
(* the screen is cleared.                                                  *)
PrintLine ==
  LET line == [tlv |-> tlv, from |-> end, to |-> LineEnd] IN
  /\ stage = "print" /\ tlv <= ParsedTlvsMaxNumber /\ end < Text.len
  /\ end' = LineEnd
  /\ \/ /\ Len(screen) < 14
        /\ screen' = Append(screen, line) /\ seen' = seen
     \/ /\ Len(screen) >= 14
        /\ screen' = <<>> /\ seen' = seen \o Append(screen, line)
  /\ UNCHANGED <<stage, frame, pos, parsed, tlv>>

NextTlv ==
  /\ stage = "print" /\ tlv <= ParsedTlvsMaxNumber /\ end >= Text.len
  /\ tlv' = tlv + 1 /\ end' = 0
  /\ UNCHANGED <<stage, frame, pos, parsed, screen, seen>>

(* The last page is slept on too, if there is anything on it, and the      *)
(* screen is cleared for the next beacon.                                  *)
EndBeacon ==
  /\ stage = "print" /\ tlv > ParsedTlvsMaxNumber
  /\ seen' = seen \o screen /\ screen' = <<>>
  /\ stage' = "shown"
  /\ UNCHANGED <<frame, pos, parsed, tlv, end>>

Next ==
  \/ \E k \in 1..Len(frame.tlvs) : ParseTlv(k)
  \/ SkipTail \/ ParseTail \/ ParseDone
  \/ PrintLine \/ NextTlv \/ EndBeacon

-----------------------------------------------------------------------------
Lines == {seen[k] : k \in 1..Len(seen)} \cup {screen[k] : k \in 1..Len(screen)}

(* Type invariant of the walk and the pages.                               *)
TypeOK ==
  /\ stage \in {"wait", "parse", "print", "shown", "undefined"}
  /\ frame.size \in Nat /\ pos \in Nat
  /\ \A k \in 1..Len(parsed) : parsed[k].text.len \in 0..(ParsedTlvsMaxLength - 1)
  /\ tlv \in 1..(ParsedTlvsMaxNumber + 1) /\ end \in 0..(ParsedTlvsMaxLength - 1)
  /\ Len(screen) <= 14

(* The entry that TLV k becomes, if it is known.                           *)
EntryOf(k) == Cardinality({l \in 1..k : Known(frame.tlvs[l])})

(* What a receiver makes of a frame: the first entries are one for each    *)
(* TLV it knows, in the frame's order, and others there are only when      *)
(* TLVs were overwritten; the walk by the length fields meets every header *)
(* and, up to the end of the TLVs, nothing that is not one.                *)
WalkMatches ==
  /\ Walking => Behind(pos) \/ \E k \in 1..Len(frame.tlvs) : StartsAt(k)
  /\ stage = "print" =>
       /\ Len(parsed) >= EntryOf(Len(frame.tlvs))
       /\ frame.tail # "overwritten" => Len(parsed) = EntryOf(Len(frame.tlvs))
       /\ \A k \in 1..Len(frame.tlvs) : Known(frame.tlvs[k]) =>
            /\ parsed[EntryOf(k)].of = frame.tlvs[k].of
            /\ parsed[EntryOf(k)].subtype = frame.tlvs[k].subtype

Covers(line, e, p) == line.tlv = e /\ line.from <= p /\ p < line.to
Precedes(l, m) == l.tlv < m.tlv \/ (l.tlv = m.tlv /\ l.to <= m.from)

(* When the beacon's turn is over, every character of every entry has been *)
(* on the screen during a sleep, once and in order: no page is cleared     *)
(* unread, and going back to a space loses and repeats nothing.            *)
EverythingSeen ==
  stage = "shown" =>
    /\ \A e \in 1..Len(parsed) : \A p \in 0..(parsed[e].text.len - 1) :
         \E k \in 1..Len(seen) : Covers(seen[k], e, p)
    /\ \A k, l \in 1..Len(seen) : k < l => Precedes(seen[k], seen[l])

(* receiver.c: "avoid newline in the middle of word, in case there was a   *)
(* space".  A word that a line break parts, at the end of a page too, would*)
(* not have fitted on a line of its own.                                   *)
WordsStayWhole ==
  \A line \in Lines :
    LET text == parsed[line.tlv].text IN
    \/ line.to = text.len
    \/ line.to - 1 \in text.spaces \/ line.to \in text.spaces
    \/ \A p \in (line.to - 39 + DescriptorWidth)..line.to : p \notin text.spaces
=============================================================================
