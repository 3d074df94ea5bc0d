-------------------------------- MODULE Texts --------------------------------
(***************************************************************************)
(* Strings of the program as far as it looks at them: how long they are    *)
(* and which of their characters, counted from 0, are spaces.              *)
(***************************************************************************)
EXTENDS Integers

IsText(t) ==
  /\ DOMAIN t = {"len", "spaces"} /\ t = [len |-> t.len, spaces |-> t.spaces]
  /\ t.len \in Nat /\ t.spaces \subseteq 0..(t.len - 1)

Word(n) == [len |-> n, spaces |-> {}]
Blank(n) == [len |-> n, spaces |-> 0..(n - 1)]
Empty == Word(0)

(* strcat.                                                                 *)
Cat(s, t) == [len |-> s.len + t.len,
              spaces |-> s.spaces \cup {s.len + p : p \in t.spaces}]

(* The first n characters, or all.                                         *)
Cut(t, n) == IF t.len <= n THEN t
             ELSE [len |-> n, spaces |-> {p \in t.spaces : p < n}]

(* printf's %-ns.                                                          *)
Pad(t, n) == IF t.len < n THEN Cat(t, Blank(n - t.len)) ELSE t

(* n words of w characters, with a comma and a space between them.         *)
List(n, w) == IF n = 0 THEN Empty
              ELSE [len |-> n * (w + 2) - 2,
                    spaces |-> {k * (w + 2) - 1 : k \in 1..(n - 1)}]
=============================================================================
