----------------------------- MODULE BeaconText ------------------------------
(***************************************************************************)
(* From the operator's command line to the reader's display: the PDU that  *)
(* PduBuilder builds is sent as a broadcast or, with a signature TLV, as an*)
(* answer, and TlvDisplay walks over it and shows it.                      *)
(***************************************************************************)
EXTENDS PduBuilder, FiniteSets

CONSTANTS  \* of TlvDisplay
  Label, AddressWidth, SignatureTexts, NoiseLengths, NoiseSubtypes, NoiseTexts

(* evaluatelanbeacon's table of descriptors has none for the mandatory     *)
(* TLVs.                                                                   *)
ASSUME BeaconTextAssumption ==
  /\ DOMAIN Label \subseteq InfoOptions \cup {CombinedString, "signature"}
  /\ \A s \in DOMAIN Label : Label[s] \in Nat
  /\ \A s \in DOMAIN AddressWidth : AddressWidth[s] \in Nat
  /\ \A t \in SignatureTexts \cup NoiseTexts : IsText(t)
  /\ NoiseLengths \subseteq 0..511 /\ NoiseSubtypes \subseteq DOMAIN Label

VARIABLES
  stage, frame, pos, parsed, tlv, end, screen, seen,  \* of TlvDisplay
  asked  \* history: bytes that the options read so far ask for in the PDU

displayVars == <<stage, frame, pos, parsed, tlv, end, screen, seen>>
vars == <<builderVars, displayVars, asked>>

D == INSTANCE TlvDisplay

TextInit == Init /\ D!Init /\ asked = 22

(* What an option's TLV takes in the PDU before it is cut off.             *)
Bytes(o) ==
  6 + (IF o.opt = "i" THEN 2
       ELSE IF o.opt = "4" THEN 5 * Found(o)
       ELSE IF o.opt = "6" THEN 17 * Found(o)
       ELSE o.text.len)

Build ==
  /\ Next
  /\ asked' = IF optind' # optind /\ argv[optind].opt \in InfoOptions
                THEN asked + Bytes(argv[optind]) ELSE asked
  /\ UNCHANGED displayVars

(* Not the code: the signature TLV is put there without looking for room.  *)
FaultyCanSign(len) == TRUE

(* sendRawSocket: transfer_to_pdu has room for a signature TLV behind a PDU*)
(* of len bytes.                                                           *)
CanSign(len) == 264 + D!Header + (len - 2) + 6 <= 1500

(* It takes the place of the end TLV, which follows it.                    *)
Signed ==
  LET last == Len(tlvs) IN
  SubSeq(tlvs, 1, last - 1)
    \o <<Tlv("signature", tlvs[last].at, 268, 0, Empty, 0),
         Tlv(End, tlvs[last].at + 270, 0, 0, Empty, 0)>>

(* After an answer the buffer is taken to be 270 bytes too long, although  *)
(* there may have been no room for the signature TLV: the PDU is cut.      *)
SentLengths ==
  {len \in {currentByte - 270 * m : m \in 0..2} :
     len = currentByte \/ ~CanSign(len + 270)}

(* The network card fills up frames of less than 60 bytes, a virtual one   *)
(* does not.                                                               *)
Padded(size, least) == IF size < least THEN least ELSE size

(* What is left of a TLV when the PDU is intact up to byte intact only.    *)
Remains(t, intact, noise, digits) ==
  [t EXCEPT !.text = Cut(Cat(Cut(@, intact - t.at - 6), noise), @.len),
            !.n = IF t.subtype = "i" /\ t.at + 8 > intact THEN digits ELSE @]

(* Such a frame arrives; TLVs whose header is damaged are no TLVs.         *)
Damaged(intact, len, tail) ==
  \E n \in 1..Len(tlvs), noise \in (IF tail = "cut" THEN {Empty} ELSE NoiseTexts),
     digits \in 1..5 :
    /\ \A k \in 1..Len(tlvs) : k <= n <=> tlvs[k].at + 6 <= intact
    /\ D!Receive([k \in 1..n |-> Remains(tlvs[k], intact, noise, digits)],
                 D!Header + len, tail)

(* A broadcast or an answer arrives: whole; or, of a PDU without room for a*)
(* signature, an answer whose last bytes have been overwritten with one, or*)
(* after such an answer the cut PDU, with the two zeros of an end TLV or   *)
(* with a signature TLV in the middle of another one.                      *)
Deliver ==
  /\ pc = "built"
  /\ \/ \E least \in {0, 60} :
          \/ D!Receive(tlvs, Padded(D!Header + currentByte, least), "padding")
          \/ /\ CanSign(currentByte)
             /\ D!Receive(Signed, Padded(D!Header + currentByte + 270, least), "padding")
     \/ \E len \in SentLengths :
          \/ ~CanSign(len) /\ Damaged(len - 266, len, "overwritten")
          \/ len < currentByte /\ Damaged(len - 2, len, "cut")
          \/ /\ len < currentByte /\ CanSign(len)
             /\ Damaged(len - 2, len + 270, "overwritten")
  /\ UNCHANGED <<builderVars, asked>>

Display == D!Next /\ UNCHANGED <<builderVars, asked>>

TextNext == Build \/ Deliver \/ Display

(* Both programs run until they are done.                                  *)
TextSpec == TextInit /\ [][TextNext]_vars /\ WF_vars(TextNext)

-----------------------------------------------------------------------------
(* Type invariant of evaluatelanbeacon and bananaPIprint.                  *)
DisplayTypeOK == D!TypeOK

(* What a receiver makes of a frame: one entry for each TLV it knows, in   *)
(* order; the walk meets every TLV that is intact up to its contents.      *)
WalkMatches == D!WalkMatches

(* Every character of every entry has been on the screen for a sleep, once.*)
EverythingSeen == D!EverythingSeen

(* Only words that do not fit on a line are parted.                        *)
WordsStayWhole == D!WordsStayWhole

Information == {i \in 1..Len(argv) : argv[i].opt \in InfoOptions}

(* README: "The frame contains all of the information that it was given".  *)
(* It does, up to 507 bytes of each text and ten addresses of each list, as*)
(* long as the pieces take 1500 bytes together with the headers, whatever  *)
(* their order: no combined string takes the room of a piece that comes    *)
(* after it.                                                               *)
AllInformationSent ==
  /\ pc = "built" /\ asked <= 1500
  => \A i \in Information : \E k \in 1..Len(tlvs) :
       /\ tlvs[k].of = i
       /\ argv[i].opt \in TextOptions => tlvs[k].text = Cut(argv[i].text, 507)
       /\ argv[i].opt \in {"4", "6"} => tlvs[k].n = Found(argv[i])

(* The receiver's table of 25 entries has room for every frame that a      *)
(* sender builds from at most twenty pieces of information: five combined  *)
(* strings come on top or, as a PDU that has all five has no room for a    *)
(* signature, four of them and a signature.  Overwritten TLVs are another  *)
(* matter.                                                                 *)
TableSuffices ==
  stage = "undefined" /\ frame.tail # "overwritten" => Cardinality(Information) > 20

(* A frame that is received has its turn on the display, which ends: the   *)
(* walk passes the end of every frame, and every text runs out of lines.   *)
TurnEnds == stage = "parse" ~> stage \in {"shown", "undefined"}
=============================================================================
