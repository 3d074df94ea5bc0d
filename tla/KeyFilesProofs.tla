--------------------------- MODULE KeyFilesProofs ----------------------------
(***************************************************************************)
(* For every number of senders, passwords and answers: when the key files  *)
(* are a pair, when nobody touches them any more, and when a freed key is  *)
(* used.                                                                   *)
(***************************************************************************)
EXTENDS KeyFiles, SequenceTheorems, TLAPS

(* While keys are made undisturbed, by one sender alone, the private file  *)
(* is the one that sender has written.                                     *)
OwnFile ==
  ~disturbed => \A s \in Making :
    Making = {s} /\ (pc[s] # "private" => priv = File(skey[s]))

(* There is a private key's file from the time a sender has opened it on.  *)
FileStays ==
  /\ \A s \in Making : priv.there
  /\ \A s \in Senders : pc[s] = "reread" => priv.there \/ ~writable.priv
  /\ \A s \in Making : writable.priv

IInv ==
  TypeOK /\ PairUnlessDisturbed /\ OwnFile /\ FileStays
         /\ FreedOnlyWithoutFile

-----------------------------------------------------------------------------
(* A file's contents are still those of a file when more keys are made.    *)
LEMMA FilesGrow ==
  ASSUME TypeOK, NEW w \in Passwords, sealed' = Append(sealed, w)
  PROVE  /\ sealed' \in Seq(Passwords) /\ Len(sealed') = Len(sealed) + 1
         /\ \A k \in 1..Len(sealed) : sealed'[k] = sealed[k]
         /\ 0..Len(sealed) \subseteq 0..Len(sealed')
         /\ Len(sealed) + 1 \in 0..Len(sealed')
         /\ Files \subseteq Files'
<1>1. sealed \in Seq(Passwords)
  BY DEF TypeOK
<1>2. /\ sealed' \in Seq(Passwords) /\ Len(sealed') = Len(sealed) + 1
      /\ \A k \in 1..Len(sealed) : sealed'[k] = sealed[k]
  BY <1>1
<1>3. 0..Len(sealed) \subseteq 0..Len(sealed') /\ Len(sealed) + 1 \in 0..Len(sealed')
  BY <1>1, <1>2
<1>4. Files \subseteq Files'
  BY <1>3 DEF Files
<1> QED
  BY <1>2, <1>3, <1>4

LEMMA PartIsFile ==
  ASSUME TypeOK PROVE None \in Files /\ Part \in Files
<1>1. 0 \in 0..Len(sealed)
  BY DEF TypeOK
<1> QED
  BY <1>1 DEF None, Part, Files

LEMMA KeyIsFile ==
  ASSUME TypeOK, NEW k \in 0..Len(sealed) PROVE File(k) \in Files
BY DEF File, Files

(* Moving a sender on keeps the program counters in their range.           *)
LEMMA GotoStep ==
  ASSUME TypeOK, NEW s \in Senders, NEW where \in Steps, Goto(s, where)
  PROVE  /\ pc' \in [Senders -> Steps] /\ pc'[s] = where
         /\ \A t \in Senders : t # s => pc'[t] = pc[t]
BY DEF Goto, TypeOK

-----------------------------------------------------------------------------
LEMMA InitType == Init => TypeOK
<1> SUFFICES ASSUME Init PROVE TypeOK
  OBVIOUS
<1>1. 0 \in 0..MaxRequests
  BY KeyFilesAssumption
<1>2. CASE sealed = <<>> /\ priv = None /\ pub = None
  <2>1. sealed \in Seq(Passwords) /\ 0 \in 0..Len(sealed)
    BY <1>2
  <2>2. None \in Files
    BY <2>1 DEF None, Files
  <2> QED
    BY <1>1, <1>2, <2>1, <2>2 DEF Init, TypeOK, Steps
<1>3. ASSUME NEW w \in Passwords, sealed = <<w>>, priv = File(1), pub = File(1)
      PROVE  TypeOK
  <2>1. sealed \in Seq(Passwords) /\ Len(sealed) = 1
    BY <1>3
  <2>2. 0 \in 0..Len(sealed) /\ 1 \in 0..Len(sealed)
    BY <2>1
  <2>3. None \in Files /\ File(1) \in Files
    BY <2>2 DEF None, File, Files
  <2> QED
    BY <1>1, <1>3, <2>1, <2>2, <2>3 DEF Init, TypeOK, Steps
<1> QED
  BY <1>2, <1>3 DEF Init

LEMMA TypeStep == TypeOK /\ [Next]_keyVars => TypeOK'
<1> SUFFICES ASSUME TypeOK, [Next]_keyVars PROVE TypeOK'
  OBVIOUS
<1> USE DEF settings
<1>0. /\ requests < MaxRequests => requests + 1 \in 0..MaxRequests
      /\ 0 \in 0..Len(sealed)
  BY KeyFilesAssumption DEF TypeOK
<1>1. ASSUME NEW s \in Senders, Request(s) PROVE TypeOK'
  BY <1>0, <1>1 DEF Request, Goto, TypeOK, Steps, Files
<1>2. ASSUME NEW s \in Senders, Read(s) PROVE TypeOK'
  <2>1. priv.key \in 0..Len(sealed)
    BY DEF TypeOK, Files
  <2>2. pc' \in [Senders -> Steps]
    BY <1>2 DEF Read, Goto, TypeOK, Steps
  <2>3. skey' \in [Senders -> 0..Len(sealed)]
    BY <1>0, <1>2, <2>1 DEF Read, TypeOK
  <2> QED
    BY <1>2, <2>2, <2>3 DEF Read, TypeOK, Files
<1>3. ASSUME NEW s \in Senders, OpenPrivate(s) PROVE TypeOK'
  <2>1. password[s] \in Passwords /\ sealed' = Append(sealed, password[s])
    BY <1>3 DEF OpenPrivate, TypeOK
  <2>2. /\ sealed' \in Seq(Passwords)
        /\ 0..Len(sealed) \subseteq 0..Len(sealed')
        /\ Len(sealed) + 1 \in 0..Len(sealed')
        /\ Files \subseteq Files'
    BY <2>1, FilesGrow
  <2>3. pc' \in [Senders -> Steps]
    BY <1>3 DEF OpenPrivate, Goto, TypeOK, Steps
  <2>4. skey' \in [Senders -> 0..Len(sealed')]
    <3>1. skey \in [Senders -> 0..Len(sealed)]
      BY DEF TypeOK
    <3>2. skey \in [Senders -> 0..Len(sealed')]
      BY <2>2, <3>1
    <3>3. skey' = [skey EXCEPT ![s] = Len(sealed) + 1]
      BY <1>3 DEF OpenPrivate
    <3> QED
      BY <2>2, <3>2, <3>3
  <2>5. priv' \in Files' /\ pub' \in Files'
    BY <1>3, <2>2, PartIsFile DEF OpenPrivate, TypeOK
  <2>6. disturbed' \in BOOLEAN
    BY <1>3 DEF OpenPrivate, TypeOK
  <2> QED
    BY <1>3, <2>2, <2>3, <2>4, <2>5, <2>6 DEF OpenPrivate, TypeOK
<1>4. ASSUME NEW s \in Senders, ClosePrivate(s) PROVE TypeOK'
  <2>1. pc' \in [Senders -> Steps]
    BY <1>4 DEF ClosePrivate, Goto, TypeOK, Steps
  <2>2. priv' \in Files
    BY <1>4, PartIsFile, KeyIsFile DEF ClosePrivate, TypeOK
  <2> QED
    BY <1>4, <2>1, <2>2 DEF ClosePrivate, TypeOK, Files
<1>5. ASSUME NEW s \in Senders, OpenPublic(s) PROVE TypeOK'
  <2>1. pc' \in [Senders -> Steps]
    BY <1>5 DEF OpenPublic, Goto, TypeOK, Steps
  <2>2. pub' \in Files
    BY <1>5, PartIsFile DEF OpenPublic, TypeOK
  <2> QED
    BY <1>5, <2>1, <2>2 DEF OpenPublic, TypeOK, Files
<1>6. ASSUME NEW s \in Senders, ClosePublic(s) PROVE TypeOK'
  <2>1. pc' \in [Senders -> Steps]
    BY <1>6 DEF ClosePublic, Goto, TypeOK, Steps
  <2>2. pub' \in Files
    BY <1>6, PartIsFile, KeyIsFile DEF ClosePublic, TypeOK
  <2> QED
    BY <1>6, <2>1, <2>2 DEF ClosePublic, TypeOK, Files
<1>7. ASSUME NEW s \in Senders, Reread(s) PROVE TypeOK'
  <2>1. priv.key \in 0..Len(sealed)
    BY DEF TypeOK, Files
  <2>2. pc' \in [Senders -> Steps]
    BY <1>7 DEF Reread, Goto, TypeOK, Steps
  <2>3. skey' \in [Senders -> 0..Len(sealed)]
    BY <1>0, <1>7, <2>1 DEF Reread, TypeOK
  <2> QED
    BY <1>7, <2>2, <2>3 DEF Reread, TypeOK, Files
<1>8. ASSUME NEW s \in Senders, Sign(s) PROVE TypeOK'
  <2>1. pc' \in [Senders -> Steps] /\ skey' \in [Senders -> 0..Len(sealed)]
    BY <1>0, <1>8 DEF Sign, Goto, TypeOK, Steps
  <2> QED
    BY <1>8, <2>1 DEF Sign, TypeOK, Files
<1>9. ASSUME NEW s \in Senders, Restart(s) PROVE TypeOK'
  <2>1. pc' \in [Senders -> Steps] /\ skey' \in [Senders -> 0..Len(sealed)]
    BY <1>0, <1>9 DEF Restart, Goto, TypeOK, Steps
  <2>2. disturbed' \in BOOLEAN /\ troubled' \in BOOLEAN
    BY <1>9 DEF Restart, TypeOK
  <2> QED
    BY <1>0, <1>9, <2>1, <2>2 DEF Restart, TypeOK, Files
<1>10. CASE UNCHANGED keyVars
  BY <1>10 DEF keyVars, TypeOK, Files
<1> QED
  BY <1>1, <1>2, <1>3, <1>4, <1>5, <1>6, <1>7, <1>8, <1>9, <1>10 DEF Next

-----------------------------------------------------------------------------
(* A sender that neither starts nor ends making keys leaves the others to  *)
(* their making.                                                           *)
LEMMA SameMaking ==
  ASSUME TypeOK, NEW s \in Senders, NEW where \in Steps, Goto(s, where),
         s \in Making <=> where \in {"private", "public", "both"}
  PROVE  Making' = Making
<1>1. pc'[s] = where /\ \A t \in Senders : t # s => pc'[t] = pc[t]
  BY GotoStep
<1> QED
  BY <1>1 DEF Making

LEMMA InitIInv == Init => IInv
<1> SUFFICES ASSUME Init PROVE IInv
  OBVIOUS
<1>1. TypeOK
  BY InitType
<1>2. Making = {} /\ \A s \in Senders : pc[s] = "idle"
  BY DEF Init, Making
<1>3. pub = priv
  BY DEF Init
<1> QED
  BY <1>1, <1>2, <1>3
  DEF IInv, PairUnlessDisturbed, OwnFile, FileStays, FreedOnlyWithoutFile

(* The pair: one case per action that touches a file or starts or ends the *)
(* making of keys.                                                         *)
LEMMA PairStep == IInv /\ [Next]_keyVars => PairUnlessDisturbed' /\ OwnFile'
<1> SUFFICES ASSUME IInv, [Next]_keyVars PROVE PairUnlessDisturbed' /\ OwnFile'
  OBVIOUS
<1> USE DEF settings, IInv, PairUnlessDisturbed, OwnFile
<1>0. TypeOK
  OBVIOUS
<1>1. ASSUME Making' = Making, \A t \in Making : pc'[t] = pc[t] /\ skey'[t] = skey[t],
             UNCHANGED <<priv, pub, disturbed>>
      PROVE  PairUnlessDisturbed' /\ OwnFile'
  BY <1>1
<1>2. ASSUME NEW s \in Senders, s \notin Making, NEW where \in Steps, Goto(s, where),
             where \notin {"private", "public", "both"},
             \A t \in Senders : t # s => skey'[t] = skey[t],
             UNCHANGED <<priv, pub, disturbed>>
      PROVE  PairUnlessDisturbed' /\ OwnFile'
  <2>1. Making' = Making
    BY <1>0, <1>2, SameMaking
  <2>2. \A t \in Making : t \in Senders /\ t # s
    BY <1>2 DEF Making
  <2>3. \A t \in Making : pc'[t] = pc[t] /\ skey'[t] = skey[t]
    BY <1>0, <1>2, <2>2, GotoStep
  <2> QED
    BY <1>1, <1>2, <2>1, <2>3
<1>3. ASSUME NEW s \in Senders, Request(s) \/ Read(s) \/ Reread(s) \/ Sign(s)
      PROVE  PairUnlessDisturbed' /\ OwnFile'
  <2>1. s \notin Making
    BY <1>3 DEF Request, Read, Reread, Sign, Making
  <2>2. PICK where \in Steps : Goto(s, where) /\ where \notin {"private", "public", "both"}
    BY <1>3 DEF Request, Read, Reread, Sign, Steps
  <2>3. \A t \in Senders : t # s => skey'[t] = skey[t]
    BY <1>0, <1>3 DEF Request, Read, Reread, Sign, TypeOK
  <2> QED
    BY <1>2, <1>3, <2>1, <2>2, <2>3 DEF Request, Read, Reread, Sign
<1>4. ASSUME NEW s \in Senders, OpenPrivate(s) PROVE PairUnlessDisturbed' /\ OwnFile'
  <2>1. /\ s \notin Making /\ skey' = [skey EXCEPT ![s] = Len(sealed) + 1]
        /\ \A t \in Senders : t # s => skey'[t] = skey[t]
    BY <1>0, <1>4 DEF OpenPrivate, Making, TypeOK
  <2>2. CASE writable.priv /\ disturbed' = (Making # {}) /\ Goto(s, "private")
    <3>1. pc'[s] = "private" /\ \A t \in Senders : t # s => pc'[t] = pc[t]
      BY <1>0, <2>2, GotoStep DEF Steps
    <3>2. Making' = Making \cup {s}
      BY <3>1 DEF Making
    <3> QED
      BY <2>2, <3>1, <3>2
  <2>3. CASE Goto(s, "reread") /\ UNCHANGED <<priv, disturbed>>
    BY <1>2, <1>4, <2>1, <2>3 DEF OpenPrivate, Steps
  <2> QED
    BY <1>4, <2>2, <2>3 DEF OpenPrivate
<1>5. ASSUME NEW s \in Senders, ClosePrivate(s) PROVE PairUnlessDisturbed' /\ OwnFile'
  <2>1. s \in Making /\ skey' = skey
    BY <1>5 DEF ClosePrivate, Making
  <2>2. CASE priv' = File(skey[s]) /\ Goto(s, "public") /\ disturbed' = disturbed
    <3>1. pc'[s] = "public" /\ \A t \in Senders : t # s => pc'[t] = pc[t]
      BY <1>0, <2>2, GotoStep DEF Steps
    <3>2. Making' = Making
      BY <1>0, <2>1, <2>2, SameMaking DEF Steps
    <3>3. File(skey[s])' = File(skey[s])
      BY <2>1 DEF File
    <3> QED
      BY <2>1, <2>2, <3>1, <3>2, <3>3
  <2> QED
    BY <1>5, <2>2 DEF ClosePrivate
<1>6. ASSUME NEW s \in Senders, OpenPublic(s) PROVE PairUnlessDisturbed' /\ OwnFile'
  <2>1. s \in Making /\ skey' = skey /\ priv' = priv /\ pc[s] = "public"
    BY <1>6 DEF OpenPublic, Making
  <2>2. CASE Goto(s, "both") /\ disturbed' = disturbed
    <3>1. pc'[s] = "both" /\ \A t \in Senders : t # s => pc'[t] = pc[t]
      BY <1>0, <2>2, GotoStep DEF Steps
    <3>2. Making' = Making
      BY <1>0, <2>1, <2>2, SameMaking DEF Steps
    <3>3. File(skey[s])' = File(skey[s])
      BY <2>1 DEF File
    <3> QED
      BY <2>1, <2>2, <3>1, <3>2, <3>3
  <2> QED
    BY <1>6, <2>2 DEF OpenPublic
<1>7. ASSUME NEW s \in Senders, ClosePublic(s) PROVE PairUnlessDisturbed' /\ OwnFile'
  <2>1. s \in Making /\ priv' = priv /\ pc[s] = "both" /\ Goto(s, "reread")
    BY <1>7 DEF ClosePublic, Making
  <2>2. Making' = Making \ {s}
    <3>1. pc'[s] = "reread" /\ \A t \in Senders : t # s => pc'[t] = pc[t]
      BY <1>0, <2>1, GotoStep DEF Steps
    <3> QED
      BY <3>1 DEF Making
  <2>3. CASE pub' = File(skey[s]) /\ disturbed' = disturbed
    BY <2>1, <2>2, <2>3
  <2> QED
    BY <1>7, <2>3 DEF ClosePublic
<1>8. ASSUME NEW s \in Senders, Restart(s) PROVE PairUnlessDisturbed' /\ OwnFile'
  <2>1. CASE s \in Making
    BY <1>8, <2>1 DEF Restart
  <2>2. CASE s \notin Making
    <3>1. disturbed' = disturbed
      BY <1>0, <1>8, <2>2 DEF Restart, TypeOK
    <3>2. \A t \in Senders : t # s => skey'[t] = skey[t]
      BY <1>0, <1>8 DEF Restart, TypeOK
    <3> QED
      BY <1>2, <1>8, <2>2, <3>1, <3>2 DEF Restart, Steps
  <2> QED
    BY <2>1, <2>2
<1>9. CASE UNCHANGED keyVars
  BY <1>1, <1>9 DEF keyVars, Making
<1> QED
  BY <1>3, <1>4, <1>5, <1>6, <1>7, <1>8, <1>9 DEF Next

(* A file that is there stays; one that is not comes only if it can be     *)
(* written.                                                                *)
LEMMA FileStep == IInv /\ [Next]_keyVars => FileStays' /\ FreedOnlyWithoutFile'
<1> SUFFICES ASSUME IInv, [Next]_keyVars PROVE FileStays' /\ FreedOnlyWithoutFile'
  OBVIOUS
<1> USE DEF settings
<1>1. TypeOK /\ writable' = writable /\ readable' = readable
  BY DEF IInv, TypeOK, Next, keyVars, Request, Read, OpenPrivate, ClosePrivate,
         OpenPublic, ClosePublic, Reread, Sign, Restart
<1>2. /\ priv.there => priv'.there
      /\ ~writable.priv => priv' = priv
  <2>1. ASSUME NEW s \in Senders, OpenPrivate(s)
        PROVE  (priv.there => priv'.there) /\ (~writable.priv => priv' = priv)
    BY <2>1 DEF OpenPrivate, Part
  <2>2. ASSUME NEW s \in Senders, ClosePrivate(s)
        PROVE  (priv.there => priv'.there) /\ (~writable.priv => priv' = priv)
    <3>1. s \in Making
      BY <2>2 DEF ClosePrivate, Making
    <3> QED
      BY <2>2, <3>1 DEF ClosePrivate, Part, File, IInv, FileStays
  <2>3. CASE priv' = priv
    BY <2>3
  <2> QED
    BY <2>1, <2>2, <2>3 DEF Next, keyVars, Request, Read, OpenPublic, ClosePublic,
                            Reread, Sign, Restart
<1>3. ASSUME NEW t \in Senders, pc'[t] = pc[t]
      PROVE  /\ t \in Making' => priv'.there /\ writable'.priv
             /\ pc'[t] = "reread" => priv'.there \/ ~writable'.priv
             /\ pc'[t] = "undefined" => ~readable' \/ (~priv'.there /\ ~writable'.priv)
  BY <1>1, <1>2, <1>3 DEF Making, IInv, FileStays, FreedOnlyWithoutFile
<1>4. ASSUME NEW s \in Senders, NEW where \in Steps, Goto(s, where),
             where \in {"private", "public", "both"} => priv'.there /\ writable'.priv,
             where = "reread" => priv'.there \/ ~writable'.priv,
             where = "undefined" => ~readable' \/ (~priv'.there /\ ~writable'.priv)
      PROVE  FileStays' /\ FreedOnlyWithoutFile'
  <2>1. pc'[s] = where /\ \A t \in Senders : t # s => pc'[t] = pc[t]
    BY <1>1, <1>4, GotoStep
  <2> QED
    BY <1>3, <1>4, <2>1 DEF Making, FileStays, FreedOnlyWithoutFile
<1>5. ASSUME NEW s \in Senders,
             Request(s) \/ Read(s) \/ Sign(s) \/ Restart(s)
      PROVE  FileStays' /\ FreedOnlyWithoutFile'
  <2>1. PICK where \in {"idle", "read", "sign", "generate", "exited"} : Goto(s, where)
    BY <1>5 DEF Request, Read, Sign, Restart
  <2> QED
    BY <1>4, <2>1 DEF Steps
<1>6. ASSUME NEW s \in Senders, OpenPrivate(s) PROVE FileStays' /\ FreedOnlyWithoutFile'
  <2>1. CASE writable.priv /\ priv' = Part /\ Goto(s, "private")
    BY <1>1, <1>4, <2>1 DEF Steps, Part
  <2>2. CASE ~writable.priv /\ Goto(s, "reread")
    BY <1>1, <1>4, <2>2 DEF Steps
  <2> QED
    BY <1>6, <2>1, <2>2 DEF OpenPrivate
<1>7. ASSUME NEW s \in Senders, ClosePrivate(s) \/ OpenPublic(s) \/ ClosePublic(s)
      PROVE  FileStays' /\ FreedOnlyWithoutFile'
  <2>1. priv'.there /\ writable'.priv
    BY <1>1, <1>2, <1>7 DEF ClosePrivate, OpenPublic, ClosePublic, Making, IInv, FileStays
  <2>2. PICK where \in {"public", "both", "reread"} : Goto(s, where)
    BY <1>7 DEF ClosePrivate, OpenPublic, ClosePublic
  <2> QED
    BY <1>4, <2>1, <2>2 DEF Steps
<1>8. ASSUME NEW s \in Senders, Reread(s) PROVE FileStays' /\ FreedOnlyWithoutFile'
  <2>1. priv' = priv /\ (priv.there \/ ~writable.priv)
    BY <1>8 DEF Reread, IInv, FileStays
  <2>2. CASE ~(readable /\ priv.there) /\ Goto(s, "undefined")
    BY <1>1, <1>4, <2>1, <2>2 DEF Steps
  <2>3. ASSUME NEW where \in {"sign", "exited"}, Goto(s, where)
        PROVE  FileStays' /\ FreedOnlyWithoutFile'
    BY <1>4, <2>3 DEF Steps
  <2> QED
    BY <1>8, <2>2, <2>3 DEF Reread
<1>9. CASE UNCHANGED keyVars
  BY <1>3, <1>9 DEF keyVars, Making, FileStays, FreedOnlyWithoutFile
<1> QED
  BY <1>5, <1>6, <1>7, <1>8, <1>9 DEF Next

LEMMA StepIInv == IInv /\ [Next]_keyVars => IInv'
<1>1. IInv => TypeOK
  BY DEF IInv
<1> QED
  BY <1>1, TypeStep, PairStep, FileStep DEF IInv

-----------------------------------------------------------------------------
(* The inductive invariant holds of every behaviour of the senders.        *)
THEOREM Invariance == Spec => []IInv
<1> QED
  BY InitIInv, StepIInv, PTL DEF Spec

(* No key file holds a key that make_keys has not made.                    *)
THEOREM TypeCorrect == Spec => []TypeOK
<1>1. IInv => TypeOK
  BY DEF IInv
<1> QED
  BY <1>1, Invariance, PTL

(* However many senders share the two files of read_keys and make_keys,    *)
(* they are a pair unless their making was disturbed.                      *)
THEOREM FilesArePair == Spec => []PairUnlessDisturbed
<1>1. IInv => PairUnlessDisturbed
  BY DEF IInv
<1> QED
  BY <1>1, Invariance, PTL

(* signlanbeacon uses a freed key only without a file to read.             *)
THEOREM FreedKeyUse == Spec => []FreedOnlyWithoutFile
<1>1. IInv => FreedOnlyWithoutFile
  BY DEF IInv
<1> QED
  BY <1>1, Invariance, PTL

(* Once read_keys succeeds in all senders that share the files, and none   *)
(* is in make_keys, signlanbeacon never writes to them again.              *)
THEOREM SettledStay == Spec => SettledForGood
<1> USE DEF settings
<1>1. TypeOK /\ [Next]_keyVars => [Settled => Settled' /\ UNCHANGED <<priv, pub>>]_keyVars
  <2> SUFFICES ASSUME TypeOK, Next, Settled PROVE Settled' /\ UNCHANGED <<priv, pub>>
    OBVIOUS
  <2>1. PICK s \in Senders : Request(s) \/ Read(s) \/ Sign(s) \/ Reread(s) \/ Restart(s)
    BY DEF Next, Settled, Making, OpenPrivate, ClosePrivate, OpenPublic, ClosePublic
  <2>2. UNCHANGED <<settings, sealed, priv, pub>>
    BY <2>1 DEF Request, Read, Sign, Reread, Restart
  <2>3. \A t \in Senders : Opens(t, priv) /\ Opens(t, priv)'
    BY <2>2 DEF Settled, Opens
  <2>4. PICK where \in {"idle", "read", "sign", "undefined", "exited"} : Goto(s, where)
    BY <2>1, <2>3 DEF Request, Read, Sign, Reread, Restart
  <2>5. pc'[s] = where /\ \A t \in Senders : t # s => pc'[t] = pc[t]
    BY <2>4, GotoStep DEF Steps
  <2>6. \A t \in Senders : pc'[t] \notin {"generate", "private", "public", "both"}
    BY <2>4, <2>5 DEF Settled, Making
  <2> QED
    BY <2>2, <2>3, <2>6 DEF Settled, Making
<1> QED
  BY <1>1, TypeCorrect, PTL DEF Spec, SettledForGood

-----------------------------------------------------------------------------
(* The key a sender is writing is sealed with its own password.            *)
OwnPassword ==
  \A s \in Making : skey[s] \in 1..Len(sealed) /\ sealed[skey[s]] = password[s]

(* Who cannot open the private key's file does not exit.                   *)
Unreadable ==
  generators = Senders /\ ~readable => \A s \in Senders : pc[s] # "exited"

(* As long as nothing fails: somebody is about to write the private key,   *)
(* or somebody can read it, or nobody has missed it.                       *)
SomebodyServed ==
  generators = Senders /\ readable /\ writable.priv /\ ~troubled =>
    \/ \E s \in Senders : pc[s] \in {"generate", "private"}
    \/ \E s \in Senders : pc[s] # "exited" /\ Opens(s, priv)
    \/ \A s \in Senders : pc[s] \notin {"public", "both", "reread", "exited"}

LEMMA OwnPasswordStep == TypeOK /\ OwnPassword /\ [Next]_keyVars => OwnPassword'
<1> SUFFICES ASSUME TypeOK, OwnPassword, [Next]_keyVars PROVE OwnPassword'
  OBVIOUS
<1> USE DEF settings
<1>1. ASSUME NEW s \in Senders, OpenPrivate(s) PROVE OwnPassword'
  <2>1. /\ password[s] \in Passwords /\ sealed' = Append(sealed, password[s])
        /\ skey' = [skey EXCEPT ![s] = Len(sealed) + 1] /\ password' = password
    BY <1>1 DEF OpenPrivate, TypeOK
  <2>2. sealed'[Len(sealed) + 1] = password[s] /\ Len(sealed) + 1 \in 1..Len(sealed')
    BY <2>1 DEF TypeOK
  <2>3. 1..Len(sealed) \subseteq 1..Len(sealed')
        /\ \A k \in 1..Len(sealed) : sealed'[k] = sealed[k]
    BY <2>1 DEF TypeOK
  <2>4. \A t \in Senders : t # s => pc'[t] = pc[t] /\ skey'[t] = skey[t]
    BY <1>1, <2>1 DEF OpenPrivate, Goto, TypeOK
  <2>5. skey'[s] = Len(sealed) + 1
    BY <2>1 DEF TypeOK
  <2> SUFFICES ASSUME NEW t \in Making'
               PROVE  skey'[t] \in 1..Len(sealed') /\ sealed'[skey'[t]] = password'[t]
    BY DEF OwnPassword
  <2>6. CASE t = s
    BY <2>1, <2>2, <2>5, <2>6
  <2>7. CASE t # s
    <3>1. t \in Making
      BY <2>4, <2>7 DEF Making
    <3> QED
      BY <2>1, <2>3, <2>4, <2>7, <3>1 DEF OwnPassword, Making
  <2> QED
    BY <2>6, <2>7
<1>2. ASSUME NEW s \in Senders,
             \/ Request(s) \/ Read(s) \/ ClosePrivate(s) \/ OpenPublic(s)
             \/ ClosePublic(s) \/ Reread(s) \/ Sign(s) \/ Restart(s)
      PROVE  OwnPassword'
  <2>1. UNCHANGED <<password, sealed>>
    BY <1>2 DEF Request, Read, ClosePrivate, OpenPublic, ClosePublic, Reread, Sign, Restart
  <2>2. \A t \in Making' : t \in Making /\ skey'[t] = skey[t]
    <3>1. \A t \in Senders : t # s => pc'[t] = pc[t] /\ skey'[t] = skey[t]
      BY <1>2 DEF Request, Read, ClosePrivate, OpenPublic, ClosePublic, Reread, Sign,
                  Restart, Goto, TypeOK
    <3>2. s \in Making' => s \in Making /\ skey'[s] = skey[s]
      BY <1>2 DEF Request, Read, ClosePrivate, OpenPublic, ClosePublic, Reread, Sign,
                  Restart, Goto, TypeOK, Making
    <3> QED
      BY <3>1, <3>2 DEF Making
  <2> QED
    BY <2>1, <2>2 DEF OwnPassword
<1>3. CASE UNCHANGED keyVars
  BY <1>3 DEF keyVars, OwnPassword, Making
<1> QED
  BY <1>1, <1>2, <1>3 DEF Next

LEMMA UnreadableStep == TypeOK /\ Unreadable /\ [Next]_keyVars => Unreadable'
<1> SUFFICES ASSUME TypeOK, Unreadable, [Next]_keyVars,
                    (generators = Senders /\ ~readable)'
             PROVE  \A t \in Senders : pc'[t] # "exited"
  BY DEF Unreadable
<1>1. generators = Senders /\ ~readable /\ \A t \in Senders : pc[t] # "exited"
  BY DEF Unreadable, settings, Next, keyVars, Request, Read, OpenPrivate, ClosePrivate,
         OpenPublic, ClosePublic, Reread, Sign, Restart
<1>2. CASE UNCHANGED keyVars
  BY <1>1, <1>2 DEF keyVars
<1>3. ASSUME NEW s \in Senders, NEW where \in Steps, Goto(s, where), where # "exited"
      PROVE  \A t \in Senders : pc'[t] # "exited"
  BY <1>1, <1>3, GotoStep
<1>4. ASSUME Next PROVE \E s \in Senders : \E where \in Steps \ {"exited"} : Goto(s, where)
  BY <1>1, <1>4 DEF Next, Steps, Request, Read, OpenPrivate, ClosePrivate, OpenPublic,
                    ClosePublic, Reread, Sign, Restart
<1> QED
  BY <1>2, <1>3, <1>4

LEMMA ServedStep ==
  IInv /\ OwnPassword /\ SomebodyServed /\ [Next]_keyVars => SomebodyServed'
<1> SUFFICES ASSUME IInv, OwnPassword, SomebodyServed, [Next]_keyVars,
                    (generators = Senders /\ readable /\ writable.priv /\ ~troubled)'
             PROVE  \/ \E s \in Senders : pc'[s] \in {"generate", "private"}
                    \/ \E s \in Senders : pc'[s] # "exited" /\ Opens(s, priv)'
                    \/ \A s \in Senders : pc'[s] \notin {"public", "both", "reread", "exited"}
  BY DEF SomebodyServed
<1> DEFINE Goal ==
             \/ \E s \in Senders : pc'[s] \in {"generate", "private"}
             \/ \E s \in Senders : pc'[s] # "exited" /\ Opens(s, priv)'
             \/ \A s \in Senders : pc'[s] \notin {"public", "both", "reread", "exited"}
<1>0. Goal
  <2> USE DEF settings
  <2>0. UNCHANGED settings
    BY DEF Next, keyVars, Request, Read, OpenPrivate, ClosePrivate,
           OpenPublic, ClosePublic, Reread, Sign, Restart
  <2>1. /\ generators = Senders /\ readable /\ writable.priv /\ ~troubled
        /\ password' = password /\ readable' = readable /\ TypeOK
    <3>1. ~troubled
      BY DEF Next, keyVars, Request, Read, OpenPrivate, ClosePrivate,
             OpenPublic, ClosePublic, Reread, Sign, Restart
    <3> QED
      BY <2>0, <3>1 DEF IInv
  <2>2. ASSUME NEW s \in Senders, UNCHANGED <<priv, sealed>>,
               \A t \in Senders : t # s => pc'[t] = pc[t],
               pc[s] \notin {"generate", "private"},
               pc'[s] = "exited" => ~Opens(s, priv),
               pc'[s] \in {"public", "both", "reread", "exited"} =>
                 pc[s] \in {"public", "both", "reread", "exited"}
        PROVE  Goal
    BY <2>1, <2>2 DEF SomebodyServed, Opens
  <2>3. ASSUME NEW s \in Senders, Request(s) PROVE Goal
    BY <2>1, <2>2, <2>3 DEF Request, Goto, TypeOK
  <2>4. ASSUME NEW s \in Senders, Read(s) PROVE Goal
    <3>1. CASE Opens(s, priv)
      BY <2>1, <2>4, <3>1 DEF Read, Goto, TypeOK, Opens
    <3>2. CASE ~Opens(s, priv)
      BY <2>1, <2>4, <3>2 DEF Read, Goto, TypeOK
    <3> QED
      BY <3>1, <3>2
  <2>5. ASSUME NEW s \in Senders, OpenPrivate(s) PROVE Goal
    BY <2>1, <2>5 DEF OpenPrivate, Goto, TypeOK
  <2>6. ASSUME NEW s \in Senders, ClosePrivate(s) PROVE Goal
    <3>1. pc'[s] = "public" /\ priv' = File(skey[s]) /\ sealed' = sealed /\ s \in Making
      BY <2>1, <2>6 DEF ClosePrivate, Goto, TypeOK, Making
    <3>2. skey[s] \in 1..Len(sealed) /\ sealed[skey[s]] = password[s]
      BY <3>1 DEF OwnPassword
    <3>3. priv'.there /\ priv'.key = skey[s] /\ skey[s] # 0
      BY <3>1, <3>2 DEF File
    <3>4. Opens(s, priv)'
      BY <2>1, <3>1, <3>2, <3>3 DEF Opens
    <3> QED
      BY <3>1, <3>4
  <2>7. ASSUME NEW s \in Senders, OpenPublic(s) \/ ClosePublic(s) PROVE Goal
    <3>1. /\ UNCHANGED <<priv, sealed>> /\ pc[s] \in {"public", "both"}
          /\ pc'[s] \in {"both", "reread"}
          /\ \A t \in Senders : t # s => pc'[t] = pc[t]
      BY <2>1, <2>7 DEF OpenPublic, ClosePublic, Goto, TypeOK
    <3> QED
      BY <2>2, <3>1
  <2>8. ASSUME NEW s \in Senders, Reread(s) PROVE Goal
    <3>1. /\ UNCHANGED <<priv, sealed>> /\ pc[s] = "reread"
          /\ \A t \in Senders : t # s => pc'[t] = pc[t]
          /\ pc'[s] = "exited" => ~Opens(s, priv)
      BY <2>1, <2>8 DEF Reread, Goto, TypeOK
    <3> QED
      BY <2>2, <3>1
  <2>9. ASSUME NEW s \in Senders, Sign(s) PROVE Goal
    BY <2>1, <2>2, <2>9 DEF Sign, Goto, TypeOK
  <2>10. CASE \E s \in Senders : Restart(s)
    BY <2>10 DEF Restart
  <2>11. CASE UNCHANGED keyVars
    BY <2>1, <2>11 DEF keyVars, SomebodyServed, Opens
  <2> QED
    BY <2>3, <2>4, <2>5, <2>6, <2>7, <2>8, <2>9, <2>10, <2>11 DEF Next
<1> QED
  BY <1>0

(* Senders with -g that share the files may make one another exit in the   *)
(* middle of signlanbeacon, but as long as nothing fails never all.        *)
THEOREM SomebodyStays == Spec => []NeverAllExit
<1>1. Init => OwnPassword /\ Unreadable /\ SomebodyServed
  BY DEF Init, OwnPassword, Unreadable, SomebodyServed, Making
<1>2. IInv /\ OwnPassword /\ Unreadable /\ SomebodyServed /\ [Next]_keyVars
        => (OwnPassword /\ Unreadable /\ SomebodyServed)'
  <2>1. IInv => TypeOK
    BY DEF IInv
  <2> QED
    BY <2>1, OwnPasswordStep, UnreadableStep, ServedStep
<1>3. Unreadable /\ SomebodyServed => NeverAllExit
  BY KeyFilesAssumption DEF Unreadable, SomebodyServed, NeverAllExit
<1> QED
  BY <1>1, <1>2, <1>3, Invariance, PTL DEF Spec
=============================================================================
