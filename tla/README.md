# A TLA+ model of LAN-Beacon

LAN-Beacon (`src/src/`) is one C program with two modes. As a *sender* it
broadcasts a beacon, an LLDP-like frame of TLVs, every few seconds on all
interfaces. As a *receiver* (`-l`) it collects beacons and shows them one after
the other on a small display. With `-a` the receiver answers each new beacon with
a random challenge, and the sender answers that with the beacon extended by a
signature TLV over beacon, challenge and timestamp. Every program is a single
process without threads; what is hard is the protocol between them (lost, late
and overheard frames), the single frame buffer that the sender rewrites in place,
the list of frames that the receiver replaces, shows and removes in place, the
fixed-size buffers between the command line and the display, and the key files
that senders share.

## Inventory

| Component | State | Operations | Hard | Correct when |
|---|---|---|---|---|
| Sender loop: `sendRawSocket`, `send_lan_beacon_rawSock`, `receiveChallenge` (rawsocket_LAN_Beacon.c) | `lan_beacon_EthernetFrame`, `frameLength`, `receivedChallenge`, socket queues | send a burst, wait for a challenge, build an answer, restore the broadcast | one buffer for two kinds of frame, lengths by hand, re-signing per interface, challenges of several hosts | broadcasts are the whole PDU, answers verify and go to the asker, broadcasting goes on |
| Receiver loop: `lan_beacon_receiver`, `receiver` | `pointers_to_received_frames`, the socket queues, open descriptors | select, receive, match, replace, add, challenge | order of arrival, partial matches, uninitialised challenge, sleeping while frames queue up, descriptors | no duplicates, authenticated only with an accepted signature, fresh, kept |
| Display: `bananaPIprint` (receiver.c) | the loop index, each frame's countdown, the lines on the screen | show, count down, remove, break lines, clear pages | removal while iterating, countdown reset by copies, going back to a space | every turn shows all, the list drains, every character is readable once |
| TLV evaluation: `evaluatelanbeacon` | parsed strings, the authenticated mark | walk TLVs, verify, compare challenge and timestamp | sizes taken from the frame, 25 entries | terminates, meets exactly the TLVs, one entry per known TLV |
| PDU builder: `lanbeacon_creator`, `transfer_to_pdu`, `transfer_to_string`, `ipParser` (sender.c) | the PDU, `currentByte`, five combined strings | one call per option | limits 1500, 507, 10 addresses and 5 strings; a password and paths that share a structure | a PDU is a chain of TLVs within its 1500 bytes or known not to be, holds what was given as long as there is room, and parses back to it |
| Keys: `read_keys`, `make_keys`, `signlanbeacon`, `verifylanbeacon` (openssl_sign.c) | two key files, OpenSSL's error queue | read, generate, sign, verify | failure between the two files, senders in each other's way, leaked FILE, a freed key | both files are one pair, a key that all can use stays, somebody can sign |
| Interfaces: `getInterfaces` | sockets, `maxSockFd` | enumerate, open, promiscuous mode | arrays of 20, descriptors never closed | all interfaces are covered |
| Command line: `main`, option loops | options | choose the mode, parse | order and repetition of options | the last password counts |
| C-Berry driver, `archive/`, `l10n/`, autotools files | | | third party, dead code, no behaviour | not modelled |

Interaction: `main` calls `sender` or `receiver`. `sender` opens challenge
sockets, has the PDU built, and never leaves `sendRawSocket`. `receiver`
alternates `lan_beacon_receiver` (until no frame is waiting) and `bananaPIprint`
(until every stored frame was shown once). The receiver challenges with
`sendRawSocket` in its other use, which sends a challenge on all interfaces,
sleeps a second and returns. Both modes share only the LAN.

The hazards, each with its line, are in `PROJECT.json`.

## Modules

| Module | Models |
|---|---|
| `Sender` | the sender's endless loop |
| `SenderProofs` | its theorems |
| `Receiver` | receiver mode's endless loop |
| `ReceiverProofs` | its theorems |
| `DisplayBoard` | abstract: what receiver mode promises to who reads its display |
| `ReceiverBoardProofs` | that `Receiver` implements it, and what rests on that argument |
| `BeaconNet` | one `Sender`, one `Receiver`, a LAN that loses frames, other challengers, restarts |
| `BeaconNetProofs` | its theorems |
| `Texts` | strings as a length and the places of their spaces |
| `PduBuilder` | sender mode from `main` to the finished PDU |
| `PduBuilderProofs` | its theorems |
| `TlvDisplay` | one frame in the receiver: the walk over its TLVs, lines, pages |
| `BeaconText` | `PduBuilder` composed with `TlvDisplay`: from the command line to the last page |
| `BeaconTextProofs` | its theorems |
| `KeyFiles` | the two key files and the senders that share them |
| `KeyFilesProofs` | its theorems |
| `MCSender`, `MCReceiver`, `MCBeaconNet`, `MCBeaconText`, `MCKeyFiles` | small instances for TLC |

Operators named `Faulty...` are not the code: each is a definition as a plausible
mistake would have it, kept to show that the properties notice. "Not the code:"
stands in the comment of each.

### Sender

`pc` is "send" in the `for` loop over interfaces, "receive" in `receiveChallenge`,
"exited" after `signlanbeacon`'s `exit`. `frame` abstracts the buffer to offsets:
`content` says up to which byte it still holds the PDU, `end`, `tlv`, `fields` and
`sigAt` where an end TLV, a signature TLV's header, challenge with timestamp and
signature were last written, `sigLen` and `sigOver` what was signed. The arithmetic
on `frameLength` is the code's, constant by constant, so that overlaps and
truncations show.

| Action | Code |
|---|---|
| `Transmit` | one turn of the `for` loop: MAC, new signature on an answer, `sendto` |
| `EndBurst` | after the loop: challenge forgotten, 270 bytes taken off, end TLV |
| `Timeout` | `select` times out or fails |
| `Receive` | one challenge is taken, the answer is built (TLV, challenge, timestamp, signature, end TLV) |
| `ChallengeArrives` | external: the kernel queues a challenge |

### Receiver

`pc` is the place in `lan_beacon_receiver` ("select", "recv", "challenge" while
`sendRawSocket` sleeps), "print" in `bananaPIprint`, "exited". `frames` is the
array of stored frames, `pending` the frame that is being challenged and not yet
in the array, `ready` what `FD_ISSET` still says, `fds` the descriptors opened and
never closed, `cur` the index of the display loop from 1. A frame is source, body,
signed or not, challenge, timestamp and `valid`, the verdict of
`verifylanbeacon`. A body is a sequence of TLVs, so that one can be the beginning
of another, which is what the code's `memcmp` of the shorter length decides.

| Action | Code |
|---|---|
| `SelectReady`, `SelectNothing` | the two results of `select`, the second only when frames are stored |
| `Recv` | the body of the loop over sockets, with all branches: `KeepShowing`, `AwaitAnswer`, `Replace`, `AddPlain`, `AddChallenged`, or the exit of `getInterfaces` |
| `Store` | after the sleep: the frame enters the array |
| `Show`, `PrintDone` | a turn of the display loop, and its end |
| `Arrives`, `Tick` | external: the kernel queues a frame, `time` advances |

The challenge of a new frame is uninitialised when the frame is evaluated; it is
any value of the constant `Garbage`, which includes challenges drawn before.

`Receiver` implements `DisplayBoard`: a board of notices that are posted, renewed,
replaced in place and shown in turns. The mapping is part of `Receiver` (`Board`): a
stored frame is a notice that says its body, is authentic when it is marked, and has
`times` shows left; the turn is `cur` while `pc` is "print" and 0 otherwise. The
abstract module knows nothing of sockets, challenges and descriptors. What it
requires of the code: nothing is posted that a notice stands for (`Covers`: the code's
comparison of the shorter length), replacement keeps the place and never hits
an authentic notice, a turn that has begun shows all and ends. It does not promise
that a turn begins, since the code receives as long as frames keep arriving, nor that a
notice that is heard again is renewed, since the code does not renew one that
awaits its answer (see "Disagreements that no run shows").

`EachTurnShowsAll` says what a turn is: `StillToShow` begins as the whole list, loses
its head with each showing, which counts that frame down or removes it and leaves
the others as they are, and is empty when the turn ends.

A verification whose `fopen` succeeds leaves a descriptor open whether or not the file
holds a key; one whose `fopen` fails leaves none (`Evaluations`).

### BeaconNet

Steps of the sender that send are joined with the arrival of the frame in the
listener's sockets (`Transmit`) or its loss (`TransmitLost`); likewise
`SendChallenge` and `ChallengeLost`. `Wire` is what the listener finds in the
sender's buffer; the PDU has at most 1218 bytes, since what a longer one becomes is
`Sender`'s matter. `Restart` kills the sender and starts it with any body.
`announced` is history: when the sender last ran with each body. The listener
authenticates (`-a`).

The two hosts have two clocks. `now` is the listener's; a stamp (`time(NULL)` of the
sender's host) is `now` and any member of `Skews`, chosen for each stamp, so that the
sender's clock may be wrong and may be set while it runs. The listener takes the
difference of the two (`receiver.c:261`) and checks only that it is less than ten.
`AuthenticatedIsRecent` speaks of every frame the listener holds (`Held`: those stored
and the one being challenged): it becomes authentic only when it says what was
announced less than ten seconds ago, or as much longer ago as the sender's clock is
ahead, or is a frame that was authentic already.

### PduBuilder

A command line is a sequence of options, each with a text and, for `-4`, `-6` and
`-i`, the number the code finds in it (addresses matched by the regular expression,
digits of the identifier). A TLV is its subtype, where it starts, its length field,
the option it is of and its text. The translated descriptors are a constant, since
their lengths count against the limits.

| Action | Code |
|---|---|
| `Main` | the choice between the modes. The comment at `main.c:42` speaks of "any argument"; the loop returns in its first turn, so only `argv[1]` decides, which is what `Main` does |
| `OptText`, `OptVlanId`, `OptIp` | one turn of the `getopt` loop each: `transfer_to_pdu` (`TransferToPdu`), `transfer_to_string` (`TransferToString`), `ipParser`'s ten addresses and its exit |
| `OptPassword`, `OptPath`, `OptOther` | the options without a TLV, with their exits, and what an overlong `-s` does to the password behind it in the structure and to what is behind that |
| `EndOptions` | the password's four characters |
| `AddCombined`, `Finish` | the combined strings as TLVs, the end TLV |

Four values of `pc` (`Undefined`) are where the code writes behind a buffer and nothing
more is said of the program: "pastPdu" is an end TLV that begins or ends behind the 1500 bytes of
`mylanbeacon`, "pastString" a combined string of 507 characters, whose zero is
behind its 507 bytes, "pastStrings" a text for which no string has room, "pastKeys" an
`-s` so long that its zero is behind the password.

### TlvDisplay and BeaconText

`stage` is "wait", "parse" in `evaluatelanbeacon`, "print" in `bananaPIprint`, "shown"
after it, and "undefined" when a 26th entry is written to `parsedTLVs`. `ParseTlv`,
`SkipTail`, `ParseTail` and `ParseDone` are the walk, which reads length fields from the
frame; `PrintLine`, `NextTlv` and `EndBeacon` break entries into lines and lines into
pages. `seen` is history: the lines that were on the screen during a `sleep`; `Lines` are
those and the ones on the screen. An entry is cut to 509 characters with its
descriptor, so that the last of a TLV of 507 bytes are not shown.

`BeaconText` delivers what `PduBuilder` has built, with the three mandatory TLVs, in
every form in which `sendRawSocket` can send it (`Deliver`):

- the broadcast, or the answer with a signature TLV in place of the end TLV if there is
  room for one (`CanSign`), each padded to the 60 bytes of the smallest Ethernet
  frame or not;
- without room, the answer that is sent all the same, its last 266 bytes overwritten
  with challenge, time stamp, signature and two zeros;
- after such an answer, the broadcast that is 270 bytes too short and ends in two zeros,
  and the answer made of it, with a signature TLV in the middle of another TLV. That can happen
  twice (`SentLengths`): a PDU of 1489 bytes or more is still too long after the first cut.

In the damaged frames (`Damaged`), a TLV whose header is intact keeps its length field and what
is intact of its contents (`Remains`); the rest is noise. Behind the last intact
header, the walk reads anything: `NoiseLengths` are the length fields it may find, and if
bytes were overwritten, it may find what looks like a header of the program's and
enters a string of `NoiseTexts`. `asked` is history: the bytes that the options read so
far ask for in the PDU, each text in full and each list with at most ten addresses, with the
headers. `AllInformationSent` is about the command lines that ask for at most 1500: of
these, every text is in the PDU up to 507 bytes and every list up to ten addresses.

`sendto` does not fail for the length of these frames: a PDU that was built within its buffer has at most
1500 bytes, the MTU of Ethernet, and an answer with a signature TLV 270 more than
at most 1218.

### KeyFiles

Several senders with the same paths. A file is there or not and holds a key, or
nothing of use between `fopen("wt")` and `fclose`. `Read` and `Reread` are the two
`read_keys` of `signlanbeacon`; `OpenPrivate`, `ClosePrivate`, `OpenPublic` and
`ClosePublic` are `make_keys` up to each operation on a file, so that senders can
interleave there and be killed (`Restart`); each write can fail. The result of
`make_keys` is not looked at, as in the code (it is also 0 after a failure to save,
since `openssl_sign.c:389` returns `!!result`). Whether the private key's file can be
opened for reading at all (`readable`) and each for writing (`writable`) is chosen at the
start. `disturbed` and `troubled` are history and only occur in what the properties
exclude. `SettledForGood` is about senders that all can read the private key while none
is in `make_keys`: from then on neither file changes. It is not promised that a key
stays while one sender cannot open it, since that one overwrites it.

## Runs

| Run | Instance | Shows |
|---|---|---|
| `sender` | PDU of 1218 bytes, 2 interfaces, 3 challenge sockets, 2 challengers and the challenge 0, queues of 2, key readable or not | broadcasts intact, answers verify, answers reach the asker, broadcasting goes on |
| `receiver` | 3 sockets, a long and a short body (the beginning of the long one), broadcast and signed, one with a bad signature, 2 times 10 s apart, garbage challenges, key readable or not, 7 descriptors | no duplicates, authentication earned and kept, each turn shows every frame once, the display drains; one slot per contents; `Receiver` implements `DisplayBoard`, with its fairness |
| `net_safety` | 2 bodies, restarts, losses, another challenger, times 0, 10 and 20, the sender's clock ten seconds ahead | authenticated information is less than twenty seconds old: ten and the ten seconds of the clocks |
| `net_live` | 2 bodies, restarts, losses, another challenger, the clock standing still, the sender's nine seconds behind, and 6 descriptors, enough to challenge again after a lost answer | an undisturbed exchange authenticates |
| `text` | some 900 command lines: all pairs of eleven ordinary options behind a password, all triples of four long ones, all sequences of up to three of ten unusual ones, and long series of equal ones; each frame that can come of a PDU | a built PDU is a chain within 1500 bytes, five strings suffice, the last password counts, all information is sent up to the limits of a TLV, the walk meets every intact TLV, the table suffices, every character of an entry is seen once, words stay whole, a turn ends |
| `keys` | 3 senders, 2 passwords, 4 requests and restarts, the private key's file readable or not, each file writable or not | undisturbed files are a pair, a key that all can open stays, never all senders exit, a freed key only without a readable file |
| `sender_long_pdu` | PDU of 1219 bytes | *violation*: the broadcast is truncated after a challenge |
| `receiver_sockets` | 2 sockets | *violation*: the last socket is never read |
| `receiver_descriptors` | as `receiver` | *violation*: the receiver exits without descriptors |
| `receiver_prefix` | as `receiver` | *violation*: contents that begin others are not added |
| `net_overheard` | as `net_live`, with equal clocks and 5 descriptors | *violation*: an overheard answer hides the awaited one |
| `text_just_too_long` | one `-c` of 400 to 500 characters | *violation*: at 496 characters the text is neither skipped nor put in a string |

The violations are disagreements of the code with the README or with its comments, one of them a write
behind an array;
`PROJECT.json` quotes both under "findings".

Why the bounds are enough. `sender`: a second answer on a rewritten buffer, two
interfaces (the second needs a new signature), two hosts that could be mixed up
and several challenges queued over two watched sockets all occur, and 1218 is the
last length at which a signature TLV fits. `receiver`: the stored list reaches
several entries, entries are matched, replaced, reset, removed and added again
with each combination of mark and countdown; seven descriptors allow two
challenges with verifications between, then exhaustion. Only frames of one sender
are sent, since the code does not compare sources. `net_safety`: two times that
are exactly ten seconds apart are the boundary of freshness, and a third is the boundary when
the sender's clock is ten seconds ahead. `net_live` needs no time
to pass; `Times = {0}` makes every challenge of the listener the same, which includes late answers being accepted after a renewed challenge in the same second.
Queues hold one or two frames; what does not fit does not arrive, as in a full
socket buffer. `FdLimit` also bounds how often the listener challenges in the
nets.

`text`: the texts have the lengths at which a limit bites, and one less or more where
that is another case: 494 characters of `-c` fill a combined string, 495 have their zero behind it,
496 are just too long, 497 are skipped; 507 fill a TLV, 1472 a PDU, 65540 wrap the `unsigned short`
length; 242 fill a little more than half a string, so that first fit leaves the
strings as empty as it can. The bounds in the properties are exact: six halves overrun
the strings, a PDU of 1500 bytes is built and one of 1501 is not, paths of 1824 and 1825 characters put
their zero in and behind the password, and 20 pieces of information fill `parsedTLVs` while 21 short `-i` overrun
it; all of these are in the instance, as are TLVs refused for lack of room, pages of
more than fifteen lines, words longer than a line, eleven addresses, and frames that were
cut once and twice. The noise is a length field below and the largest, a signature that
is none and a text of several lines; the theorems hold for any. `keys`: with three senders, two
can make keys at a time while a third reads, and four requests let a pair be made,
spoilt and made again; the theorems hold for any number of each.

Deadlock is not checked: `BeaconText` ends with the beacon's turn and `KeyFiles` with
the bound of requests, the receiver blocks in `select` while nothing is stored
and nothing arrives, and both programs can exit.

## Fairness

`Sender` and `Receiver` assume weak fairness of the program's own steps: it is one
process that the system schedules, and each `sleep` and timeout ends. Nothing is
assumed of arrivals, of choices within a step, or that a clock advances. `BeaconNet` assumes
the same for both programs and nothing for losses, restarts or other challengers. The
bounds on the clocks are the constants `Times` and `Skews`.
What the liveness properties need beyond that is said in their formulas:
`BroadcastsGoOn` and `DisplayDrains` that arrivals end; `AuthenticationSucceeds`
that from some time on nothing is lost, restarted or challenged by others, that the
sender answers within the second for which the listener sleeps, and that a
broadcast comes only when the listener is done receiving (the default is one in
five seconds). Without the last two the code gives no guarantee. It also needs the sender's
clock to be less than ten seconds behind the listener's, which the run has at its
limit (`Skews` is {-9}): at ten every answer is too old.

`DisplayBoard` assumes that a turn that has begun goes on, which is implemented by the
fairness of the receiver's own steps. `BeaconText` assumes weak fairness of all its
steps together: both programs run until they are done. `KeyFiles` has no fairness and
states safety only.

## Proofs

`SenderProofs` proves, for every number of interfaces and sockets, every set of
challenges, and every PDU of at most 1218 bytes (`LargestAnswerable`; the run
`sender_long_pdu` shows that the bound is exact), type correctness,
`BroadcastIntact`, `AnswerVerifies` and `AnswerReachesAsker`. The properties speak
of frames that were sent; they are not inductive, since the buffer changes between
sends. The inductive invariant `IInv` says that the buffer is always one of two
shapes, `IsBroadcast` without a challenge and `IsAnswer` with one, and that an
answer is signed for the interface sent on last. The lemmas follow the buffer
through one operation each: `AnswerIsAnswer`, `UnanswerIsBroadcast`,
`ForInterfaceKeeps`.

`ReceiverProofs` proves, for every set of frames, number of sockets, delivery, limit
of descriptors and clock, type correctness, `NoDuplicates`,
`AuthenticatedIsSigned` and the action property `AuthenticatedKept`. Three things are missing from these to be
inductive, and `IInv` has them: the frame being challenged is new and
genuine while the program sleeps; a socket that `select` found readable still
holds a frame; the display's index is positive while it runs. That a replacement
makes no duplicate rests on the match being the first one and on `IsPrefix` being
transitive (`ReplaceDistinct`, `PrefixTransitive`).

`ReceiverBoardProofs` proves that every step of `Receiver` is a step of `DisplayBoard`
under the mapping or leaves the board alone (`ReceiverImplementsBoard`, for
`Board!Safety`). To `ReceiverProofs`' invariant it adds `StillNew`: a frame that is
being challenged has its full number of shows when it is stored. `TurnsShowAll`
proves `EachTurnShowsAll` step by step: `Show` and `PrintDone` are the steps that change the list or the
index during a turn, and removing a frame moves the next one to the index that is shown
next (`RemovalShows`, `CountdownShows`). `SlotsBounded` proves
`OneSlotPerContents` when the bodies are a finite set: entries of which none is the
beginning of another are an injection into the bodies.

`PduBuilderProofs` proves, for every set of command lines and every length of the
descriptors, `TypeOK` (a built PDU has 24 to 1500 bytes, and TLVs in a chain by their own length fields),
`FiveStringsSuffice` and `PasswordAsGiven`. The chain is inductive because
`transfer_to_pdu` adds what it writes into the length field (`ChainAppend`,
`Transferred`). For the strings the invariant is `PairsFull`: of two strings in use,
the first was too full for what began the second, so together they hold at least 508
characters; two such pairs, the fifth string and the text that found no room make more than 1523
(`FirstFit`, `NoRoom`). For the password it is `PassInv`, which says what
`PasswordAsGiven` says of the options read so far.

`KeyFilesProofs` proves, for every number of senders, passwords and requests, `TypeOK`,
`PairUnlessDisturbed`, `FreedOnlyWithoutFile`, `SettledForGood` and `NeverAllExit`. `IInv` adds
that an undisturbed maker is alone and has its key in the private file (`OwnFile`), and that a
file that was opened is there from then on (`FileStays`). `NeverAllExit` needs in
addition that keys are sealed with their maker's password (`OwnPassword`) and
`SomebodyServed`: when nothing fails, somebody is about to write the private
key, or can open it, or nobody has missed it.

`BeaconNetProofs` proves, for PDUs of 24 to 1218 bytes and for every set of times, clock
differences, bodies and challenges, `AuthenticatedIsRecent` and `TypeOK`. Its inductive invariant, `NetInv`, is
the argument for the first: a frame in the listener's sockets that is signed has a time stamp no later than the last
announcement of its body and one of the clock differences (`Announced`), since a restart announces
before anything is sent; and `evaluatelanbeacon` compares that time stamp with its clock
(`AuthenticatesRecent`). That the challenge matches is not needed: the theorem holds whatever
the uninitialised challenge of a new frame happens to be. So what is
promised here rests on the signature and the clocks alone. `ListenerIsReceiver`
and `SenderIsSender` prove that a behaviour of the network is one of `Receiver` for the
listener, and one of `Sender` with restarts for the sender: the composition adds no
step to the programs, and properties of the receiver's steps hold in it.

`BeaconTextProofs` proves, for every set of command lines, all lengths of descriptors
and addresses and every text of a signature, all that the run `text` checks of the
composition but its liveness. It builds on `PduBuilderProofs` in layers:

- `ContentsInv`: which TLVs there are, in which order, and what each is of. With
  `AskedInv`, which bounds the PDU's length by `asked` as long as nothing was refused,
  `AllInformationSent` follows (`NothingDropped`).
- `FrameInv`: the frame's TLVs, intact or not, follow each other, and of the known ones each
  begins before the end (`Framed`, from `ReceiveFrame` for whole frames and `DamagedFrame` for
  the others); from at most twenty pieces of information a frame that was not overwritten has no
  more than 25 known TLVs (`Room`). Five combined strings take so many bytes (1300) that no signature
  fits, which is why the bound is twenty and not nineteen.
- `WalkInv`: the walk is at the start of a TLV or behind the last (`At`), and the
  first entries are those of the TLVs it has passed (`Entries`). `WalkMatches` and
  `TableSuffices` follow (`WalkFindsAll`, `TableOfEntries`).
- `PagesInv`: the lines that were read and those on the screen cover each text up to
  where the printing is (`Covered`), follow each other (`Ordered`) and do not go beyond it
  (`Reached`). It is inductive because a line is never empty and ends within its text
  (`LineEnds`, for any spaces). `EverythingSeen`, `WordsStayWhole` and `DisplayTypeOK` follow.

`TableSuffices` and `WalkMatches` count with `Cardinality`, of whose facts the proofs
take those about unions, subsets and intervals from the library.

The assumptions are `SenderAssumption`, `ReceiverAssumption`, `BeaconNetAssumption`,
`PduBuilderAssumption`, `BeaconTextAssumption` and `KeyFilesAssumption`: types of the
constants, the range of PDU lengths `lanbeacon_creator` can build, that time 0 exists and
broadcast is nobody's address, that the receiver has no descriptor for the mandatory
TLVs, and that there is a sender; TLC evaluates them in the runs.

Only model-checked: the liveness properties `BroadcastsGoOn`, `DisplayDrains`,
`TurnEnds` and `AuthenticationSucceeds`, and the fairness part of `ImplementsBoard`,
since TLAPS has no rules for fairness. All other properties of the passing runs are
theorems. The properties of the runs that expect a violation are refuted, not proved.

## Disagreements that no run shows

Those that a run shows are listed under "findings" in `PROJECT.json`. Others were met
and are modelled as the code has them, without a run of their own:

- `receiver.h:27` says of the countdown: "Is updated, if frame with same content is received
  again." In `-a` mode a copy of the same size does not update it while the frame is
  unauthenticated (`rawsocket_LAN_Beacon.c:272-274`, `AwaitAnswer`). `AuthenticationSucceeds`
  depends on this: the mutant `FaultyAwaitAnswer`, which renews, breaks it, since the
  frame would never expire and be challenged again.
- `sender.c:229` speaks of a "Maximum of 1500 Bytes", and the end TLV comes on top:
  the one or two bytes beyond 1500 are written behind `malloc(1500)` ("pastPdu").
- `sender.c:64` allocates 507 bytes for a string, and `-c` of 495 characters makes one of 507
  without its zero ("pastString").
- `src/README.md:5`: "The frame contains all of the information that it was given". Of a text more than 507 bytes
  are not in its TLV, of a list of addresses the eleventh is not (`sender.c:297`), and beyond
  1500 bytes pieces are refused with a message; `AllInformationSent` says what is there.
- `src/man/lanbeacon.8:82`: "If this flag is set, a key-pair will be generated". With `-g`
  one is generated only when the private key cannot be read (`openssl_sign.c:135`), which `SettledForGood` relies on.
- `sender.c:143` prints "Exiting." for a path that is too long and goes on.

## Not modelled

The cryptography (a signature verifies or not; `valid`), OpenSSL's own failures and its
error queue; the wording of texts and the regular expressions that find addresses;
memory and its exhaustion; the arrays of 20 frames and 20 interfaces; in `Receiver`
the padding of beacons shorter than 46 bytes; the receiver's own option loop, which
only chooses `authMode` and paths; the kernel's enumeration of interfaces; what is drawn
on a C-Berry, whose driver is third-party code for memory-mapped pins and compiled
only with `BANANAPI_SWITCH`; `archive/`, which is not built; `l10n/` and the autotools
files, which have no behaviour.

## Plan

1. Done: `Sender`, `Receiver`, `BeaconNet`; `PduBuilder`, `TlvDisplay` and their
   composition `BeaconText`; `KeyFiles`; `DisplayBoard` and its refinement; theorems for
   every safety property of the passing runs.
2. Next: the safety theorems of `Sender` and `Receiver` carried over to `BeaconNet` along
   `SenderIsSender` and `ListenerIsReceiver`; an abstract specification of a beacon's way from the
   command line to the display, of which `BeaconText` is shown to be an implementation.
