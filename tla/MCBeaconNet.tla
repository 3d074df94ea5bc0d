---------------------------- MODULE MCBeaconNet -----------------------------
(* A small instance of BeaconNet for TLC: the sender announces x or, after *)
(* a restart, y; neither is the beginning of the other.                    *)
EXTENDS BeaconNet, TLC

CONSTANTS m, x, y

MCBodies == {<<m, x>>, <<m, y>>}
MCBodyLen == [b \in MCBodies |-> 40]
MCRand == [t \in Times |-> 100 + t]

(* How far ahead the sender's clock is; as far behind as it may be.         *)
Ahead == {10}
Behind == {-9}
Exact == {0}

Symmetry == Permutations({x, y})
=============================================================================
