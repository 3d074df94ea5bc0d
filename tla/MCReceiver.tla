----------------------------- MODULE MCReceiver -----------------------------
(* A small instance of Receiver for TLC.  One sender, m being its          *)
(* mandatory TLVs: before a restart its beacon has the further TLVs x and  *)
(* y, afterwards only x.  Both bodies are broadcast; the longer one is     *)
(* also signed, in answer to each challenge that can be drawn, at any      *)
(* time, and once with a key that is not the receiver's.                   *)
EXTENDS Receiver, TLC

CONSTANTS m, x, y, server

Long == <<m, x, y>>
Short == <<m, x>>

MCBodyLen == (Long :> 60) @@ (Short :> 40)
MCRand == [t \in Times |-> 100 + t]

Beacon(b) == [src |-> server, body |-> b, signed |-> FALSE, challenge |-> 0,
              stamp |-> 0, valid |-> FALSE]
Signed(b, c, t, v) == [src |-> server, body |-> b, signed |-> TRUE,
                       challenge |-> c, stamp |-> t, valid |-> v]

MCFrames == {Beacon(Long), Beacon(Short)}
            \cup {Signed(Long, MCRand[0], t, TRUE) : t \in Times}
            \cup {Signed(Short, MCRand[0], 0, FALSE)}
=============================================================================
