----------------------------- MODULE PduBuilder ------------------------------
(***************************************************************************)
(* From the command line to the PDU: main, and lanbeacon_creator of        *)
(* sender.c with transfer_to_pdu, transfer_to_string and ipParser.         *)
(*                                                                         *)
(* Each piece of information becomes a TLV of its own and is appended to   *)
(* one of five combined strings, which become TLVs in the end.  A TLV is   *)
(* its subtype, where it starts, its length field, the option it is of and *)
(* what it holds.  A write behind one of the buffers, of which nothing can *)
(* be said any more, ends in a pc of Undefined, named for the buffer.      *)
(***************************************************************************)
EXTENDS Integers, Sequences, Texts

CONSTANTS
  CommandLines,  \* sequences of options, see IsOption
  Descriptor     \* option -> length of its descriptor, as gettext gives it

TextOptions == {"n", "c", "e", "d", "r"}
InfoOptions == TextOptions \cup {"i", "4", "6"}
Strings == 1..5             \* combinedString
StringSize == 507           \* allocated for each of them
PduSize == 1500             \* allocated for mylanbeacon
Chassis == "chassis"        \* the mandatory TLVs
Port == "port"
Ttl == "ttl"
CombinedString == "combined"
End == "end"

(* An option with its argument.  n is the number of addresses found in the *)
(* text of -4 and -6, and the number of digits of the identifier of -i.    *)
IsOption(o) ==
  /\ o = [opt |-> o.opt, text |-> o.text, n |-> o.n]
  /\ o.opt \in STRING /\ IsText(o.text) /\ o.n \in Nat

ASSUME PduBuilderAssumption ==
  /\ \A c \in CommandLines :
       /\ c \in Seq({c[i] : i \in 1..Len(c)})
       /\ \A i \in 1..Len(c) : IsOption(c[i])
  /\ Descriptor \in [InfoOptions -> Nat]

(* Behind mylanbeacon, one combined string, all of them, or the password.  *)
Undefined == {"pastPdu", "pastString", "pastStrings", "pastKeys"}

VARIABLES
  pc,           \* "main", "options", "strings", "built"; "receiver", "exited";
                \* or in Undefined
  argv,         \* the command line
  optind,       \* the option getopt returns next
  tlvs,         \* mylanbeacon
  currentByte,
  combined,     \* combinedString
  next,         \* the string to be transferred next
  pass,         \* strlen(pcszPassphrase)
  textBytes     \* history: characters transfer_to_string was to append

builderVars == <<pc, argv, optind, tlvs, currentByte, combined, next, pass, textBytes>>

Tlv(subtype, at, length, of, text, n) ==
  [subtype |-> subtype, at |-> at, length |-> length, of |-> of, text |-> text, n |-> n]

(* The three mandatory TLVs are there before the first option.             *)
Init ==
  /\ pc = "main" /\ argv \in CommandLines /\ optind = 1
  /\ tlvs = <<Tlv(Chassis, 0, 7, 0, Empty, 0), Tlv(Port, 9, 7, 0, Empty, 0),
              Tlv(Ttl, 18, 2, 0, Empty, 0)>>
  /\ currentByte = 22
  /\ combined = [i \in Strings |-> Empty]
  /\ next = 1 /\ pass = 0 /\ textBytes = 0

-----------------------------------------------------------------------------
(* main looks at the first argument only.                                  *)
Main ==
  /\ pc = "main"
  /\ pc' = IF argv = <<>> THEN "exited"
           ELSE IF argv[1].opt = "l" THEN "receiver" ELSE "options"
  /\ UNCHANGED <<argv, optind, tlvs, currentByte, combined, next, pass, textBytes>>

(* Not the code: a content of more than 507 bytes is not cut off.          *)
FaultyTransferToPdu(subtype, length, of, text, n) ==
  LET len == length % 65536 IN
  \/ /\ 1500 < len + currentByte + 6
     /\ UNCHANGED <<tlvs, currentByte>>
  \/ /\ 1500 >= len + currentByte + 6
     /\ tlvs' = Append(tlvs,
          Tlv(subtype, currentByte, (len + 4) % 512, of, Cut(text, len), n))
     /\ currentByte' = currentByte + 6 + len

(* Not the code: the header is counted twice.                              *)
FaultyLimit(subtype, length, of, text, n) ==
  LET len  == length % 65536
      size == IF len > 507 THEN 507 ELSE len IN
  \/ /\ 1500 < len + currentByte + 12
     /\ UNCHANGED <<tlvs, currentByte>>
  \/ /\ 1500 >= len + currentByte + 12
     /\ tlvs' = Append(tlvs,
          Tlv(subtype, currentByte, (size + 4) % 512, of, Cut(text, size), n))
     /\ currentByte' = currentByte + 6 + size

(* transfer_to_pdu: content that would exceed 1500 bytes with those of     *)
(* header and OUI is refused; of other content at most 507 bytes are       *)
(* taken.  The length is an unsigned short, the length field has nine bits.*)
TransferToPdu(subtype, length, of, text, n) ==
  LET len  == length % 65536
      size == IF len > 507 THEN 507 ELSE len IN
  \/ /\ 1500 < len + currentByte + 6
     /\ UNCHANGED <<tlvs, currentByte>>
  \/ /\ 1500 >= len + currentByte + 6
     /\ tlvs' = Append(tlvs,
          Tlv(subtype, currentByte, (size + 4) % 512, of, Cut(text, size), n))
     /\ currentByte' = currentByte + 6 + size

(* What transfer_to_string compares with 507, and what it appends.         *)
Needed(o) == Descriptor[o.opt] + o.text.len + 2
Sentence(o) == Cat(Cat(Cat(Word(Descriptor[o.opt]), Blank(1)), o.text),
                   [len |-> 2, spaces |-> {1}])

Skipped(o) == 507 < Needed(o)

(* Not the code: the length of the string is counted twice.                *)
FaultyFits(o, i) == 507 > combined[i].len + combined[i].len + Needed(o)

Fits(o, i) == 507 > combined[i].len + Needed(o)

(* No string has room, and the one behind the fifth is appended to.        *)
Overruns(o) == ~Skipped(o) /\ \A i \in Strings : ~Fits(o, i)

(* transfer_to_string: the first string with room.                         *)
TransferToString(o) ==
  /\ \/ /\ Skipped(o) \/ Overruns(o)
        /\ UNCHANGED combined
     \/ /\ ~Skipped(o)
        /\ \E i \in Strings :
             /\ Fits(o, i) /\ \A k \in 1..(i - 1) : ~Fits(o, k)
             /\ combined' = [combined EXCEPT ![i] = Cat(@, Sentence(o))]
  /\ textBytes' = IF Skipped(o) THEN textBytes ELSE textBytes + Needed(o) + 1

(* Where that leaves the program: a string of 507 characters has its zero  *)
(* behind the 507 bytes allocated for it.                                  *)
AfterString(o) ==
  IF Overruns(o) THEN "pastStrings"
  ELSE IF \E i \in Strings : combined'[i].len >= StringSize THEN "pastString"
  ELSE "options"

-----------------------------------------------------------------------------
(* One turn of the getopt loop with option o.                              *)
Option(o) == pc = "options" /\ optind <= Len(argv) /\ o = argv[optind]

(* -n, -c, -e, -d, -r: transfer_to_pdu_and_string.                         *)
OptText(o) ==
  /\ Option(o) /\ o.opt \in TextOptions
  /\ TransferToPdu(o.opt, o.text.len, optind, o.text, 0)
  /\ TransferToString(o)
  /\ pc' = AfterString(o)
  /\ optind' = optind + 1
  /\ UNCHANGED <<argv, next, pass>>

(* -i: the identifier takes two bytes.                                     *)
OptVlanId(o) ==
  /\ Option(o) /\ o.opt = "i"
  /\ TransferToString(o)
  /\ TransferToPdu("i", 2, optind, Empty, o.n)
  /\ pc' = AfterString(o)
  /\ optind' = optind + 1
  /\ UNCHANGED <<argv, next, pass>>

(* -4, -6: ipParser takes the first ten addresses with their prefixes from *)
(* the text, and exits when there was none.                                *)
Found(o) == IF o.n < 10 THEN o.n ELSE 10

OptIp(o) ==
  /\ Option(o) /\ o.opt \in {"4", "6"}
  /\ TransferToString(o)
  /\ TransferToPdu(o.opt, Found(o) * (IF o.opt = "4" THEN 5 ELSE 17), optind, Empty, Found(o))
  /\ pc' = IF AfterString(o) = "options" /\ Found(o) < 1 THEN "exited" ELSE AfterString(o)
  /\ optind' = optind + 1
  /\ UNCHANGED <<argv, next, pass>>

(* Not the code: the password is copied without the zeros behind it.       *)
FaultyOptPassword(o) ==
  /\ Option(o) /\ o.opt = "p"
  /\ pc' = IF o.text.len > 1023 THEN "exited" ELSE pc
  /\ pass' = IF o.text.len > 1023 \/ o.text.len < pass THEN pass
             ELSE IF o.text.len > 256 THEN 256 ELSE o.text.len
  /\ optind' = optind + 1
  /\ UNCHANGED <<argv, tlvs, currentByte, combined, next, textBytes>>

(* -p: 256 characters at most are copied, over what a -p before left.      *)
OptPassword(o) ==
  /\ Option(o) /\ o.opt = "p"
  /\ pc' = IF o.text.len > 1023 THEN "exited" ELSE pc
  /\ pass' = IF o.text.len > 1023 THEN pass
             ELSE IF o.text.len > 256 THEN 256 ELSE o.text.len
  /\ optind' = optind + 1
  /\ UNCHANGED <<argv, tlvs, currentByte, combined, next, textBytes>>

(* -s: a path of more than 800 characters is complained of and used, and   *)
(* its terminating zero is written into the password, which is next in the *)
(* structure, or behind its 1024 bytes.  -v has the exit that -s lacks.    *)
OptPath(o) ==
  /\ Option(o) /\ o.opt \in {"s", "v"}
  /\ pc' = IF o.text.len <= 800 THEN pc
           ELSE IF o.opt = "v" THEN "exited"
           ELSE IF o.text.len - 801 < 1024 THEN pc ELSE "pastKeys"
  /\ pass' = IF o.opt = "s" /\ o.text.len > 800 /\ o.text.len - 801 < pass
               THEN o.text.len - 801 ELSE pass
  /\ optind' = optind + 1
  /\ UNCHANGED <<argv, tlvs, currentByte, combined, next, textBytes>>

(* -f, -g, -z change nothing that is modelled here; every other option,    *)
(* the listening mode's among them, shows the help and exits.              *)
OptOther(o) ==
  /\ Option(o) /\ o.opt \notin InfoOptions \cup {"p", "s", "v"}
  /\ pc' = IF o.opt \in {"f", "g", "z"} THEN pc ELSE "exited"
  /\ optind' = optind + 1
  /\ UNCHANGED <<argv, tlvs, currentByte, combined, next, pass, textBytes>>

(* After the last option the password must have four characters.           *)
EndOptions ==
  /\ pc = "options" /\ optind > Len(argv)
  /\ pc' = IF pass < 4 THEN "exited" ELSE "strings"
  /\ UNCHANGED <<argv, optind, tlvs, currentByte, combined, next, pass, textBytes>>

(* The combined strings become TLVs.                                       *)
AddCombined ==
  /\ pc = "strings" /\ next \in Strings
  /\ next' = next + 1
  /\ \/ /\ combined[next].len = 0
        /\ UNCHANGED <<tlvs, currentByte>>
     \/ /\ combined[next].len > 0
        /\ TransferToPdu(CombinedString, combined[next].len, 0, combined[next], next)
  /\ UNCHANGED <<pc, argv, optind, combined, pass, textBytes>>

(* The end TLV, for which transfer_to_pdu has left no room aside.          *)
Finish ==
  /\ pc = "strings" /\ next \notin Strings
  /\ tlvs' = Append(tlvs, Tlv(End, currentByte, 0, 0, Empty, 0))
  /\ currentByte' = currentByte + 2
  /\ pc' = IF currentByte + 2 > PduSize THEN "pastPdu" ELSE "built"
  /\ UNCHANGED <<argv, optind, combined, next, pass, textBytes>>

OptionStep ==
  \E i \in 1..Len(argv) :
    \/ OptText(argv[i]) \/ OptVlanId(argv[i]) \/ OptIp(argv[i])
    \/ OptPassword(argv[i]) \/ OptPath(argv[i]) \/ OptOther(argv[i])

Next == Main \/ OptionStep \/ EndOptions \/ AddCombined \/ Finish

Spec == Init /\ [][Next]_builderVars /\ WF_builderVars(Next)

-----------------------------------------------------------------------------
TlvType(t) ==
  /\ t = Tlv(t.subtype, t.at, t.length, t.of, t.text, t.n)
  /\ t.at \in Nat /\ t.length \in 0..511 /\ t.of \in Nat
  /\ t.text.len \in Nat /\ t.n \in Nat

(* Type invariant of lanbeacon_creator.  Its last parts are what sender    *)
(* and receiver take for granted: sender.c's "Maximum of 1500 Bytes" for a *)
(* PDU that was built inside its buffer, and TLVs that follow each other   *)
(* without gap or overlap by their own length fields.                      *)
TypeOK ==
  /\ pc \in {"main", "options", "strings", "built", "receiver", "exited"} \cup Undefined
  /\ argv \in CommandLines /\ optind \in 1..(Len(argv) + 1)
  /\ next \in 1..6 /\ pass \in 0..256 /\ textBytes \in Nat
  /\ \A i \in Strings :
       combined[i].len \in 0..(IF pc = "pastString" THEN StringSize ELSE StringSize - 1)
  /\ currentByte \in (CASE pc = "built" -> 24..PduSize
                       [] pc = "pastPdu" -> (PduSize + 1)..(PduSize + 2)
                       [] OTHER -> 22..PduSize)
  /\ \A k \in 1..Len(tlvs) :
       /\ TlvType(tlvs[k])
       /\ tlvs[k].at + tlvs[k].length + 2 =
            IF k = Len(tlvs) THEN currentByte ELSE tlvs[k + 1].at

(* sender.c: "Maximum of 5 strings of combined human-readable text in case *)
(* they are longer than 507 bytes".  Less than 507 characters of text never*)
(* leave their string, and 1523 characters never the five strings, however *)
(* the first-fit placement leaves them half empty; unless one text is of   *)
(* just the length that is neither skipped nor fits.                       *)
JustTooLong(o) == Needed(o) = 507
FiveStringsSuffice ==
  /\ pc = "pastString" => textBytes >= StringSize
  /\ pc = "pastStrings" =>
       \/ textBytes > 1523
       \/ \E i \in 1..Len(argv) : argv[i].opt \in InfoOptions /\ JustTooLong(argv[i])

(* The password that encrypts and opens the key file is the one given last,*)
(* or its first 256 characters, whatever other options came before, between*)
(* and after; only a signing path of more than 800 characters spoils it.   *)
PasswordAsGiven ==
  \A i \in 1..Len(argv) :
    /\ pc = "built" /\ argv[i].opt = "p"
    /\ \A k \in (i + 1)..Len(argv) :
         argv[k].opt # "p" /\ (argv[k].opt = "s" => argv[k].text.len <= 800)
    => pass = IF argv[i].text.len < 256 THEN argv[i].text.len ELSE 256

(* sender.c: "too long to be included as text and will be skipped", and    *)
(* sender.h: "it is put to the next combined string TLV".  A text is       *)
(* skipped or put in a string; with a few short options no other comes out.*)
TextIncludedOrSkipped == pc # "pastStrings"
=============================================================================
