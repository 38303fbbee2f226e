------------------------------ MODULE PokerHand ------------------------------
(***************************************************************************)
(* One hand under the two calls its owners make on it: submitAction, by    *)
(* the seat whose turn it is, and abandonSeat, by any seat at any moment   *)
(* (multiplayer.service.ts:84).  Each call runs to its end before the next *)
(* one starts: a table's hand is changed under the lock of its row.        *)
(***************************************************************************)
EXTENDS PokerEngine

CONSTANT MaxStack   \* bound: the most chips a seat can start the hand with

ASSUME MaxStackAssumption == MaxStack \in Nat

VARIABLES
  hand,     \* the HandState
  start     \* history: the stacks the hand was dealt with

handVars == <<hand, start>>

\* Stacks a hand may be dealt with.  A caller deals only when two seats have
\* chips, and gives the button to one of them (multiplayer.service.ts:112).
StartingStacks == {stacks \in [Seats -> 0 .. MaxStack] :
                     \E s, t \in Seats : s # t /\ stacks[s] > 0 /\ stacks[t] > 0}

HandInit ==
  /\ start \in StartingStacks
  /\ \E dealer \in Seats :
       /\ start[dealer] > 0
       /\ hand = StartHand(start, dealer)

\* Totals a bet or a raise may ask for: MaxTotal never exceeds a seat's start.
\* The other types carry no amount.
Amounts(type) == IF type \in {"bet", "raise"} THEN 0 .. MaxStack ELSE {0}

Submit(type, amount) ==
  /\ IsLegal(hand, hand.toAct, type, amount)
  /\ hand' \in Settle(SubmitAction(hand, type, amount))
  /\ UNCHANGED start

\* abandonSeat returns at once for a seat that is out or a hand that is over.
Leave(s) ==
  /\ hand.round # "complete"
  /\ ~hand.folded[s]
  /\ hand' \in Settle(AbandonSeat(hand, s))
  /\ UNCHANGED start

HandNext ==
  \/ \E type \in ActionTypes : \E amount \in Amounts(type) : Submit(type, amount)
  \/ \E s \in Seats : Leave(s)

HandSpec == HandInit /\ [][HandNext]_handVars

-----------------------------------------------------------------------------
(* Properties *)

\* Type correctness, with the board of each street; no call leaves a hand in
\* the middle of a showdown (types.ts:62-78).
HandTypeOK ==
  /\ hand \in HandType
  /\ start \in [Seats -> Nat]
  /\ hand.round = "complete" \/ (hand.round \in BettingNow
                                    /\ hand.board = BoardAt(hand.round))

IsShowdown == hand.round = "complete" /\ Cardinality(NonFolded(hand)) > 1

\* Every chip a seat was dealt is behind it or counted in its contribution
\* for as long as it can win nothing: while the hand runs, and for a seat that
\* folded or left, for ever.  Each branch of applyAction and postBlind moves
\* the same amount between three fields, and awardPot must miss no fold.
StakesAccountedFor ==
  \A s \in Seats :
    hand.round # "complete" \/ hand.folded[s] =>
      hand.stack[s] + hand.total[s] = start[s]

\* When a hand is over no chip was made, and when the largest contribution is a
\* live one, none was lost: no layer of computePots and no odd chip of awardPot,
\* after any sequence of bets, folds and departures.
AllChipsPaid ==
  hand.round = "complete" =>
    /\ SumTo(hand.stack, N) <= SumTo(start, N)
    /\ (\E s \in NonFolded(hand) : \A t \in Seats : hand.total[t] <= hand.total[s])
         => SumTo(hand.stack, N) = SumTo(start, N)

\* The seat asked to act still has a decision to make: it is in the hand and
\* has not yet answered the current bet (advance, findActiveSeatAfter).
TurnIsOwed ==
  hand.toAct # NoSeat =>
    /\ ~hand.folded[hand.toAct]
    /\ ~hand.acted[hand.toAct] \/ hand.street[hand.toAct] < hand.currentBet

\* A running hand always waits for a seat, so it can always go on: advance
\* never finds findActiveSeatAfter empty while a decision is missing.
SomebodyToAct ==
  hand.round # "complete" => hand.toAct # NoSeat

\* The bet to match is the largest contribution of the street, also after the
\* seat that made it left (data-model.md, currentBet).
CurrentBetIsLargest ==
  hand.round # "complete" =>
    /\ \A s \in Seats : hand.street[s] <= hand.currentBet
    /\ hand.currentBet > 0 => \E s \in Seats : hand.street[s] = hand.currentBet

\* Nobody sees a street for less than the others: what contenders had put in
\* when the street began is equal, and no all-in seat had put in more.
StreetsAreSeenAtOnePrice ==
  hand.round # "complete" =>
    \A s \in Contenders(hand), t \in NonFolded(hand) :
      hand.total[t] - hand.street[t] <= hand.total[s] - hand.street[s]

\* At a showdown a seat takes from each other seat no more than it put at
\* risk itself: what the side pots are for (spec 003, User Story 4).
SidePotCap ==
  IsShowdown =>
    \A s \in Seats :
      LET matched == [t \in Seats |-> MinOf(hand.total[t], hand.total[s])]
      IN  hand.stack[s] + hand.total[s] <= start[s] + SumTo(matched, N)

\* At a showdown a seat beaten by one that put in at least as much wins
\* nothing, in the main pot or any side pot (resolveShowdown).
BeatenHandsWinNothing ==
  IsShowdown =>
    \A s, t \in NonFolded(hand) :
      hand.rank[t] > hand.rank[s] /\ hand.total[t] >= hand.total[s] =>
        hand.stack[s] + hand.total[s] = start[s]

\* Equal hands with equal contributions win the same, but for the odd chips:
\* at most one per pot (awardPot, orderByProximityToDealer).
TiesSplitEvenly ==
  IsShowdown =>
    \A s, t \in NonFolded(hand) :
      hand.rank[t] = hand.rank[s] /\ hand.total[t] = hand.total[s] =>
        LET gain(u) == hand.stack[u] + hand.total[u] - start[u]
        IN  /\ gain(s) - gain(t) <= Cardinality(Levels(hand))
            /\ gain(s) > gain(t) =>
                 Dist(hand.dealer, s) < Dist(hand.dealer, t)

-----------------------------------------------------------------------------
(* Progress: a hand cannot go on for ever, whatever the seats do *)

StreetsLeft(h) ==
  CASE h.round = "preflop"  -> 4
    [] h.round = "flop"     -> 3
    [] h.round = "turn"     -> 2
    [] h.round = "river"    -> 1
    [] h.round = "showdown" -> 0
    [] h.round = "complete" -> 0

\* Decisions the street still waits for, and seats still in the hand.
Waiting(h) == Cardinality({s \in Contenders(h) : ~h.acted[s]})
                + Cardinality(NonFolded(h))

\* Every call that changes a hand takes it to a later street, or puts chips
\* in, or leaves fewer decisions and seats: betting is never re-opened for
\* free, so a hand ends after finitely many calls.
BettingTerminates ==
  [][\/ StreetsLeft(hand') < StreetsLeft(hand)
     \/ /\ StreetsLeft(hand') = StreetsLeft(hand)
        /\ \/ SumTo(hand'.stack, N) < SumTo(hand.stack, N)
           \/ /\ hand'.stack = hand.stack
              /\ Waiting(hand') < Waiting(hand)]_hand

-----------------------------------------------------------------------------
(* What the repository says of a hand and the code does not do *)

\* backend/tests/unit/poker-engine/pots.test.ts:45 'excludes folded seats from
\* eligibility while retaining their contribution': every chip contributed is
\* in a pot when the hand is over, those of folded seats too.
ContributionsRetained ==
  hand.round = "complete" => SumTo(hand.stack, N) = SumTo(start, N)
=============================================================================
