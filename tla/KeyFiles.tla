------------------------------- MODULE KeyFiles -------------------------------
(***************************************************************************)
(* The two key files and the senders that share them: signlanbeacon of     *)
(* openssl_sign.c reads the private key for every answer and, with option  *)
(* -g, makes a new pair when it cannot, with read_keys and make_keys.      *)
(*                                                                         *)
(* A file is there or not, and holds a key or, from fopen("wt") until      *)
(* fclose writes its buffer, nothing of use.  Senders interleave at every  *)
(* operation on a file and can be killed before each.  Undefined behaviour *)
(* ends in pc = "undefined".                                               *)
(***************************************************************************)
EXTENDS Integers, Sequences

CONSTANTS
  Senders,      \* processes in sender mode with the same paths
  Passwords,    \* what they may be given with -p
  MaxRequests   \* bound of the answers asked for, with the restarts

ASSUME KeyFilesAssumption == MaxRequests \in Nat /\ Senders # {}

VARIABLES
  password,     \* pcszPassphrase of each sender
  generators,   \* senders with generate_keys
  readable,     \* whether the private key's file can be opened for reading
  writable,     \* whether the files can be opened for writing
  pc,           \* "idle", "exited", "undefined"; in signlanbeacon "read",
                \* "generate", "private", "public", "both", "reread", "sign"
  skey,         \* the key a sender makes or has read
  sealed,       \* the password of each key made so far
  priv, pub,    \* the files of path_To_Signing_Key and path_To_Verifying_Key
  requests,     \* answers asked for, and restarts, so far
  disturbed,    \* history: the last making of keys was not alone or incomplete
  troubled      \* history: a sender was killed, or a write failed

settings == <<password, generators, readable, writable>>
keyVars == <<settings, pc, skey, sealed, priv, pub, requests, disturbed, troubled>>

None == [there |-> FALSE, key |-> 0]
Part == [there |-> TRUE, key |-> 0]
File(k) == [there |-> TRUE, key |-> k]

(* The files are missing, or a pair somebody made before.                  *)
Init ==
  /\ password \in [Senders -> Passwords] /\ generators \in SUBSET Senders
  /\ readable \in BOOLEAN /\ writable \in [priv : BOOLEAN, pub : BOOLEAN]
  /\ pc = [s \in Senders |-> "idle"] /\ skey = [s \in Senders |-> 0]
  /\ \/ sealed = <<>> /\ priv = None /\ pub = None
     \/ \E w \in Passwords : sealed = <<w>> /\ priv = File(1) /\ pub = File(1)
  /\ requests = 0 /\ disturbed = FALSE /\ troubled = FALSE

Goto(s, where) == pc' = [pc EXCEPT ![s] = where]

(* Senders between the first fopen and the last fclose of make_keys.       *)
Making == {s \in Senders : pc[s] \in {"private", "public", "both"}}

(* fopen("rt"), and PEM_read_PrivateKey with passwd_callback.              *)
Opens(s, file) ==
  readable /\ file.there /\ file.key # 0 /\ sealed[file.key] = password[s]

-----------------------------------------------------------------------------
(* A challenge is to be answered.                                          *)
Request(s) ==
  /\ pc[s] = "idle" /\ requests < MaxRequests
  /\ Goto(s, "read") /\ requests' = requests + 1
  /\ UNCHANGED <<settings, skey, sealed, priv, pub, disturbed, troubled>>

(* Not the code: with -g keys are made although there are some.            *)
FaultyRead(s) ==
  /\ pc[s] = "read"
  /\ Goto(s, IF s \in generators THEN "generate"
             ELSE IF Opens(s, priv) THEN "sign" ELSE "exited")
  /\ skey' = [skey EXCEPT ![s] = IF Opens(s, priv) THEN priv.key ELSE 0]
  /\ UNCHANGED <<settings, sealed, priv, pub, requests, disturbed, troubled>>

(* The first read_keys.  Whatever the reason for which the key cannot be   *)
(* read, the answer to it is to make a new one, or to exit.                *)
Read(s) ==
  /\ pc[s] = "read"
  /\ Goto(s, IF Opens(s, priv) THEN "sign"
             ELSE IF s \in generators THEN "generate" ELSE "exited")
  /\ skey' = [skey EXCEPT ![s] = IF Opens(s, priv) THEN priv.key ELSE 0]
  /\ UNCHANGED <<settings, sealed, priv, pub, requests, disturbed, troubled>>

(* Not the code: a key is drawn only when the file can be opened.          *)
FaultyOpenPrivate(s) ==
  /\ pc[s] = "generate"
  /\ skey' = [skey EXCEPT ![s] = Len(sealed) + 1]
  /\ \/ /\ writable.priv
        /\ sealed' = Append(sealed, password[s])
        /\ priv' = Part /\ disturbed' = (Making # {})
        /\ Goto(s, "private")
     \/ /\ ~writable.priv
        /\ UNCHANGED <<sealed, priv, disturbed>>
        /\ Goto(s, "reread")
  /\ UNCHANGED <<settings, pub, requests, troubled>>

(* make_keys: a key is drawn, and the private key's file emptied.          *)
OpenPrivate(s) ==
  /\ pc[s] = "generate"
  /\ sealed' = Append(sealed, password[s])
  /\ skey' = [skey EXCEPT ![s] = Len(sealed) + 1]
  /\ \/ /\ writable.priv
        /\ priv' = Part /\ disturbed' = (Making # {})
        /\ Goto(s, "private")
     \/ /\ ~writable.priv
        /\ UNCHANGED <<priv, disturbed>>
        /\ Goto(s, "reread")
  /\ UNCHANGED <<settings, pub, requests, troubled>>

(* Not the code: the public key is left for another day.                   *)
FaultyClosePrivate(s) ==
  /\ pc[s] = "private"
  /\ priv' = File(skey[s])
  /\ Goto(s, "reread")
  /\ UNCHANGED <<settings, skey, sealed, pub, requests, disturbed, troubled>>

(* Not the code: the file of the private key is not closed.               *)
FaultyUnflushed(s) ==
  /\ pc[s] = "private"
  /\ Goto(s, "public")
  /\ UNCHANGED <<settings, skey, sealed, priv, pub, requests, disturbed, troubled>>

(* The private key is written; when PEM_write_PrivateKey fails the public  *)
(* one is not, but nobody asks what fclose returns.                        *)
ClosePrivate(s) ==
  /\ pc[s] = "private"
  /\ \/ /\ priv' = File(skey[s])
        /\ Goto(s, "public")
        /\ UNCHANGED <<disturbed, troubled>>
     \/ /\ \E where \in {"public", "reread"} : Goto(s, where)
        /\ disturbed' = TRUE /\ troubled' = TRUE
        /\ priv' \in {priv, Part}
  /\ UNCHANGED <<settings, skey, sealed, pub, requests>>

(* Not the code: the private key is taken back when the public one fails.  *)
FaultyOpenPublic(s) ==
  /\ pc[s] = "public"
  /\ \/ /\ writable.pub
        /\ pub' = Part
        /\ Goto(s, "both")
        /\ UNCHANGED <<disturbed, troubled, priv>>
     \/ /\ ~writable.pub
        /\ Goto(s, "reread")
        /\ disturbed' = TRUE /\ troubled' = TRUE
        /\ priv' = None /\ pub' = pub
  /\ UNCHANGED <<settings, skey, sealed, requests>>

OpenPublic(s) ==
  /\ pc[s] = "public"
  /\ \/ /\ writable.pub
        /\ pub' = Part
        /\ Goto(s, "both")
        /\ UNCHANGED <<disturbed, troubled>>
     \/ /\ ~writable.pub
        /\ Goto(s, "reread")
        /\ disturbed' = TRUE /\ troubled' = TRUE
        /\ UNCHANGED pub
  /\ UNCHANGED <<settings, skey, sealed, priv, requests>>

ClosePublic(s) ==
  /\ pc[s] = "both"
  /\ Goto(s, "reread")
  /\ \/ pub' = File(skey[s]) /\ UNCHANGED <<disturbed, troubled>>
     \/ disturbed' = TRUE /\ troubled' = TRUE /\ pub' \in {pub, Part}
  /\ UNCHANGED <<settings, skey, sealed, priv, requests>>

(* The second read_keys, whatever make_keys returned.  make_keys has freed *)
(* the key and cleared its own copy of the pointer, so that when the file  *)
(* cannot be opened what is signed with has been freed.  When it can, but  *)
(* not with the password, PEM_read_PrivateKey returns NULL.                *)
Reread(s) ==
  /\ pc[s] = "reread"
  /\ Goto(s, IF ~(readable /\ priv.there) THEN "undefined"
             ELSE IF Opens(s, priv) THEN "sign" ELSE "exited")
  /\ skey' = [skey EXCEPT ![s] = IF Opens(s, priv) THEN priv.key ELSE 0]
  /\ UNCHANGED <<settings, sealed, priv, pub, requests, disturbed, troubled>>

(* The answer is signed and sent.                                          *)
Sign(s) ==
  /\ pc[s] = "sign"
  /\ Goto(s, "idle")
  /\ skey' = [skey EXCEPT ![s] = 0]
  /\ UNCHANGED <<settings, sealed, priv, pub, requests, disturbed, troubled>>

(* A sender is killed, or has exited, and is started again.                *)
Restart(s) ==
  /\ pc[s] # "idle" /\ requests < MaxRequests
  /\ Goto(s, "idle") /\ skey' = [skey EXCEPT ![s] = 0]
  /\ requests' = requests + 1
  /\ disturbed' = (disturbed \/ s \in Making) /\ troubled' = TRUE
  /\ UNCHANGED <<settings, sealed, priv, pub>>

Next == \E s \in Senders :
  \/ Request(s) \/ Read(s) \/ OpenPrivate(s) \/ ClosePrivate(s) \/ OpenPublic(s)
  \/ ClosePublic(s) \/ Reread(s) \/ Sign(s) \/ Restart(s)

Spec == Init /\ [][Next]_keyVars

-----------------------------------------------------------------------------
Steps == {"idle", "read", "generate", "private", "public", "both", "reread", "sign",
          "exited", "undefined"}
Files == [there : BOOLEAN, key : 0..Len(sealed)]

(* Type invariant; no file holds a key that nobody made.                   *)
TypeOK ==
  /\ password \in [Senders -> Passwords] /\ generators \subseteq Senders
  /\ readable \in BOOLEAN /\ writable \in [priv : BOOLEAN, pub : BOOLEAN]
  /\ pc \in [Senders -> Steps] /\ skey \in [Senders -> 0..Len(sealed)]
  /\ sealed \in Seq(Passwords) /\ priv \in Files /\ pub \in Files
  /\ requests \in 0..MaxRequests
  /\ disturbed \in BOOLEAN /\ troubled \in BOOLEAN

(* What receivers verify with fits what the senders sign with: the files   *)
(* are a pair, unless the last keys to be made were made by two senders at *)
(* a time, or by one that was killed or could not write.                   *)
PairUnlessDisturbed == ~disturbed /\ Making = {} => pub = priv

(* Every sender reads the private key, and none is about to make another.  *)
Settled ==
  /\ Making = {}
  /\ \A s \in Senders : pc[s] # "generate" /\ Opens(s, priv)

(* From then on the files stay as they are, restarts included: -g makes a  *)
(* pair only where it finds none (the manual page has -g alone make one),  *)
(* so a good pair is safe from it, and one that is not a pair stays so.    *)
SettledForGood == [][Settled => Settled' /\ UNCHANGED <<priv, pub>>]_keyVars

(* Senders that make keys when they have none may spoil each other's so    *)
(* that one exits in the middle of an answer, but never all: as long as    *)
(* none is killed and nothing fails, one of them has what it needs.        *)
NeverAllExit ==
  generators = Senders /\ writable.priv /\ ~troubled =>
    \E s \in Senders : pc[s] # "exited"

(* A freed key is used only when the private key's file cannot be read at  *)
(* all, or there is none and none can be made.                             *)
FreedOnlyWithoutFile ==
  \A s \in Senders : pc[s] = "undefined" => ~readable \/ (~priv.there /\ ~writable.priv)
=============================================================================
