------------------------------ MODULE MCSender ------------------------------
(* A small instance of Sender for TLC: two hosts challenge, one of them    *)
(* with the value 0 that the sender takes for no challenge at all.         *)
EXTENDS Sender

CONSTANTS a, b

MCChallengeFrames == {[challenge |-> 7, src |-> a],
                      [challenge |-> 9, src |-> b],
                      [challenge |-> 0, src |-> b]}
=============================================================================
