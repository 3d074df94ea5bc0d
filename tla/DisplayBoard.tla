----------------------------- MODULE DisplayBoard ------------------------------
(***************************************************************************)
(* What receiver mode promises to who reads its display: a board of        *)
(* notices that are shown in turns, without the network, the sockets and   *)
(* the challenges by which a notice gets there.  Receiver implements it.   *)
(***************************************************************************)
EXTENDS Integers, Sequences

CONSTANTS
  Contents,      \* what a notice can say
  Shows,         \* how often a notice is shown
  Covers(_, _)   \* whether a notice that says the first stands for the second

VARIABLES
  board,  \* the notices: [contents, authentic, left], left being the shows left
  turn    \* the next notice to be shown, 0 between the turns

boardVars == <<board, turn>>

Init == board = <<>> /\ turn = 0

Notice(c, a) == [contents |-> c, authentic |-> a, left |-> Shows]

(* Something that no notice stands for is put behind the others.           *)
Post ==
  /\ turn = 0
  /\ \E c \in Contents, a \in BOOLEAN :
       /\ \A k \in 1..Len(board) : ~Covers(board[k].contents, c)
       /\ board' = Append(board, Notice(c, a))
  /\ UNCHANGED turn

(* A notice that is heard again may be shown as often again as a new one.  *)
(* It need not: the board does not say which copies count.                 *)
Renew(k) ==
  /\ turn = 0
  /\ board' = [board EXCEPT ![k].left = Shows]
  /\ UNCHANGED turn

(* A notice that is not authentic may be replaced, in its place, by what   *)
(* it stands for.                                                          *)
Replace(k) ==
  /\ turn = 0 /\ ~board[k].authentic
  /\ \E c \in Contents, a \in BOOLEAN :
       /\ Covers(board[k].contents, c)
       /\ \A l \in 1..(k - 1) : ~Covers(board[l].contents, c)
       /\ board' = [board EXCEPT ![k] = Notice(c, a)]
  /\ UNCHANGED turn

StartTurn ==
  /\ turn = 0 /\ board # <<>>
  /\ turn' = 1
  /\ UNCHANGED board

Without(k) == [l \in 1..(Len(board) - 1) |-> IF l < k THEN board[l] ELSE board[l + 1]]

(* The next notice is shown; after its last show it is taken off.          *)
ShowNext ==
  /\ turn \in 1..Len(board)
  /\ \/ /\ board[turn].left = 1
        /\ board' = Without(turn) /\ UNCHANGED turn
     \/ /\ board[turn].left > 1
        /\ board' = [board EXCEPT ![turn].left = @ - 1] /\ turn' = turn + 1

EndTurn ==
  /\ turn > Len(board)
  /\ turn' = 0
  /\ UNCHANGED board

Next ==
  \/ Post \/ StartTurn \/ ShowNext \/ EndTurn
  \/ \E k \in 1..Len(board) : Renew(k) \/ Replace(k)

Safety == Init /\ [][Next]_boardVars

(* A turn that has begun is finished; that one begins is not promised.     *)
Spec == Safety /\ WF_boardVars(ShowNext \/ EndTurn)
=============================================================================
