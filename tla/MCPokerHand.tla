------------------------------ MODULE MCPokerHand ------------------------------
(***************************************************************************)
(* Chips in play: one hand of PokerHand, with any chips and amounts, or a  *)
(* table of MultiplayerTable over several hands, where everybody starts    *)
(* with one big blind and answers with all the chips or leaves.  An        *)
(* execution is about one of the two.                                      *)
(***************************************************************************)
EXTENDS PokerHand, MultiplayerTable, TLC

CONSTANTS
  Subjects,   \* bound: what is looked at
  u1, u2, u3

VARIABLE subject   \* chosen once

\* The hand, when the table is looked at, is one and the same.
MCInit ==
  /\ subject \in Subjects
  /\ Init
  /\ IF subject = "hand" THEN HandInit
       ELSE start = [s \in Seats |-> 1] /\ hand = StartHand(start, 1)

MCNext ==
  \/ subject = "hand"  /\ HandNext /\ UNCHANGED <<subject, vars>>
  \/ subject = "table" /\ Next /\ UNCHANGED <<subject, handVars>>

MCSpec == MCInit /\ [][MCNext]_<<subject, handVars, vars>>

HandAndTable == {"hand", "table"}
JustHand     == {"hand"}

Roster    == {u1, u2, u3}
Seats123  == (u1 :> 1) @@ (u2 :> 2) @@ (u3 :> 3)
JustAllIn == {[type |-> "all-in", amount |-> 0]}
Nobody    == {}
=============================================================================
