----------------------------- MODULE MCKeyFiles ------------------------------
(* Three senders with one of two passwords each.                           *)
EXTENDS KeyFiles, TLC

CONSTANTS s1, s2, s3, secret, other

Symmetry == Permutations({s1, s2, s3}) \cup Permutations({secret, other})
=============================================================================
