-------------------------------- MODULE MCLobby --------------------------------
(* A small lobby: a private and a public room; two of three users may become *)
(* friends.                                                                   *)
EXTENDS Rooms, TLC

CONSTANTS u1, u2, u3

Everyone     == {u1, u2, u3}
Pair         == {u1, u2}
TheFirst     == {1}
NoRooms      == {}

Symmetry == Permutations(Pair) \cup Permutations(Handlers)
=============================================================================
