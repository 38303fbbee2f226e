------------------------------ MODULE MCServices ------------------------------
(***************************************************************************)
(* The friends, the rooms of two friends and a third user, and the         *)
(* services, which share no row: an execution is about one of them.        *)
(***************************************************************************)
EXTENDS MCLobby, Accounts, StrategyAdmin, Trainer, TrainerHands, TableTraining,
        HandHistory, Equity
LOCAL INSTANCE FiniteSetsExt

CONSTANT Subjects   \* the services looked at

VARIABLE subject

lobbyRows == <<roomRows, friendRows>>
rest == <<subject, seven, request>>

vars == <<calls, lobbyRows, versions, trainerRows, exerciseRows, trainingRows, historyRows,
          accountRows, rest>>

\* Two users have become friends, and stay so.  A friendship only allows its users
\* to invite each other, so nothing more can happen to the rooms if it comes or goes.
AreFriends ==
  /\ \E u, v \in Acquainted :
       /\ u # v
       /\ requests = {[id |-> 1, sender |-> u, receiver |-> v, status |-> "ACCEPTED"]}
       /\ asked = {<<u, v>>, <<v, u>>}
  /\ created = 1

Init ==
  /\ subject \in Subjects
  /\ RoomsInit /\ ServerInit
  /\ IF subject = "rooms" THEN AreFriends ELSE FriendsInit
  /\ StrategyInit /\ TrainerInit /\ ExerciseInit /\ TrainingInit
  /\ HistoryInit /\ AccountsInit /\ EvaluatorInit /\ EquityInit

Next ==
  \/ /\ subject = "friends" /\ FriendsNext
     /\ UNCHANGED <<roomRows, versions, trainerRows, exerciseRows, trainingRows, historyRows, accountRows, rest>>
  \/ /\ subject = "rooms" /\ RoomsNext
     /\ UNCHANGED <<friendRows, versions, trainerRows, exerciseRows, trainingRows, historyRows, accountRows, rest>>
  \/ /\ subject = "strategy" /\ StrategyNext
     /\ UNCHANGED <<lobbyRows, trainerRows, exerciseRows, trainingRows, historyRows, accountRows, rest>>
  \/ /\ subject = "trainer" /\ TrainerNext
     /\ UNCHANGED <<lobbyRows, versions, exerciseRows, trainingRows, historyRows, accountRows, rest>>
  \/ /\ subject = "hands" /\ ExerciseNext
     /\ UNCHANGED <<calls, lobbyRows, versions, trainerRows, trainingRows, historyRows, accountRows, rest>>
  \/ /\ subject = "training" /\ TrainingNext
     /\ UNCHANGED <<lobbyRows, versions, trainerRows, exerciseRows, historyRows, accountRows, rest>>
  \/ /\ subject = "history" /\ HistoryNext
     /\ UNCHANGED <<lobbyRows, versions, trainerRows, exerciseRows, trainingRows, accountRows, rest>>
  \/ /\ subject = "accounts" /\ AccountsNext
     /\ UNCHANGED <<lobbyRows, versions, trainerRows, exerciseRows, trainingRows, historyRows, rest>>
  \/ /\ subject = "evaluator" /\ Deal
     /\ UNCHANGED <<calls, lobbyRows, versions, trainerRows, exerciseRows, trainingRows,
                    historyRows, accountRows, subject, request>>
  \/ /\ subject = "equity" /\ Ask
     /\ UNCHANGED <<calls, lobbyRows, versions, trainerRows, exerciseRows, trainingRows,
                    historyRows, accountRows, subject, seven>>

Spec == Init /\ [][Next]_vars

-----------------------------------------------------------------------------

AllServices == {"friends", "rooms", "strategy", "trainer", "hands", "training",
                "history", "accounts", "evaluator", "equity"}
JustHands    == {"hands"}
JustStrategy == {"strategy"}

\* The flop at a table of six, and at a table for one.
SixAndOne == {"six", "one"}
OneSeated == {"one"}
OneRowSet  == {"first"}
TwoNames   == {<<"ana", "lower">>, <<"ana", "upper">>, <<"bea", "lower">>}
OneHand    == {"hand"}

\* All seven of fifteen cards: wheels and longer straights, straight flushes, two
\* triples, three pairs and six of a suit.  With so few values nothing weaker than
\* two pairs is ever the best, nor does a straight end with the ace; the theorem
\* BestOfSevenHolds of CardsProofs is about every seven cards.
LowDeck ==
  ({14, 2, 3, 4, 5, 6} \X {"s"}) \cup ({14, 2, 3, 4, 5} \X {"h"})
    \cup ({14, 2} \X {"d", "c"})
SevensOfLowDeck == kSubset(7, LowDeck)

\* Six cards are left for the board, of which four are out.
Rest == ({4, 5, 6} \X {"s"}) \cup ({14, 2} \X {"h"}) \cup {<<6, "d">>}
A1   == {<<14, "s">>, <<3, "d">>}
A2   == {<<14, "c">>, <<3, "s">>}
A3   == {<<2, "s">>, <<2, "h">>}
SmallDeck == Rest \cup A1 \cup A2 \cup A3

Combo(cards, weight) == [cards |-> cards, weight |-> weight]
Holding(cards)       == {Combo(cards, 1)}
Ranges == {Holding(A1), Holding(A2), Holding(A3), Holding(A2) \cup Holding(A3),
           {Combo(A1, 2)} \cup Holding(A2)}

SmallRequests ==
  {[board |-> board, players |-> players] :
     board \in kSubset(4, Rest),
     players \in {<<r, s>> : r, s \in Ranges}
                   \cup {<<Holding(A1), Holding(A2), Holding(A3)>>}}
===============================================================================
