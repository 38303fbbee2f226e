-------------------------- MODULE MCMultiplayerTable --------------------------
(* Small tables for MultiplayerTable. *)
EXTENDS MultiplayerTable, TLC

CONSTANTS u1, u2, u3

Roster3  == {u1, u2, u3}
Roster2  == {u1, u2}
Seats123 == (u1 :> 1) @@ (u2 :> 2) @@ (u3 :> 3)
Seats12  == (u1 :> 1) @@ (u2 :> 2)

\* The member of seat 2 left the room before it started.
Seats13  == (u1 :> 1) @@ (u2 :> 3)

Fold  == [type |-> "fold",   amount |-> 0]
Call  == [type |-> "call",   amount |-> 0]
AllIn == [type |-> "all-in", amount |-> 0]

FoldCall  == {Fold, Call}
FoldAllIn == {Fold, AllIn}
JustAllIn == {AllIn}
JustCall  == {Call}

Nobody == {}
OnlyU1 == {u1}
=============================================================================
