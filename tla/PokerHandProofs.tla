---------------------------- MODULE PokerHandProofs ----------------------------
(***************************************************************************)
(* Theorems about PokerHand, for any number of seats and any stacks.  The  *)
(* invariant they rest on and the proof that every engine call preserves   *)
(* it are in PokerEngineProofs, where no variable is needed: a hand is     *)
(* either InPlay or Over.                                                  *)
(***************************************************************************)
EXTENDS PokerHand, PokerEngineProofs

IInv == start \in [Seats -> Nat] /\ HandInv(hand, start)

-----------------------------------------------------------------------------
(* The theorems *)

\* Every hand that is dealt satisfies the invariant.
LEMMA InitIInv == HandInit => IInv
<1>1. SUFFICES ASSUME HandInit PROVE IInv
  OBVIOUS
<1>2. start \in [Seats -> Nat]
      /\ \E s, t \in Seats : s # t /\ start[s] > 0 /\ start[t] > 0
  BY <1>1, MaxStackAssumption DEF HandInit, StartingStacks
<1>3. PICK dealer \in Seats : start[dealer] > 0 /\ hand = StartHand(start, dealer)
  BY <1>1 DEF HandInit
<1> QED
  BY <1>2, <1>3, StartHandInv DEF IInv, HandInv

\* Every call on a hand preserves the invariant.
LEMMA NextIInv == IInv /\ [HandNext]_handVars => IInv'
<1>1. SUFFICES ASSUME IInv, [HandNext]_handVars PROVE IInv'
  OBVIOUS
<1>2. start \in [Seats -> Nat] /\ HandInv(hand, start)
  BY <1>1 DEF IInv
<1>3. ASSUME NEW type \in ActionTypes, NEW amount \in Amounts(type),
             Submit(type, amount)
      PROVE  IInv'
  <2>1. IsLegal(hand, hand.toAct, type, amount) /\ hand.toAct # NoSeat
        /\ hand' \in Settle(SubmitAction(hand, type, amount)) /\ start' = start
    BY <1>3 DEF Submit, IsLegal, LegalActions
  <2>2. InPlay(hand, start)
    BY <1>2, <2>1 DEF HandInv, Over
  <2>3. amount \in Nat
    BY MaxStackAssumption DEF Amounts
  <2>4. HandInv(hand', start)
    BY <1>2, <2>1, <2>2, <2>3, SubmitActionKeeps DEF SettledInto
  <2> QED
    BY <1>2, <2>1, <2>4 DEF IInv
<1>4. ASSUME NEW s \in Seats, Leave(s)
      PROVE  IInv'
  <2>1. hand' \in Settle(AbandonSeat(hand, s)) /\ start' = start
    BY <1>4 DEF Leave
  <2>2. HandInv(hand', start)
    BY <1>2, <1>4, <2>1, AbandonSeatKeeps DEF Leave, SettledInto
  <2> QED
    BY <1>2, <2>1, <2>2 DEF IInv
<1>5. CASE UNCHANGED handVars
  BY <1>2, <1>5 DEF handVars, IInv
<1> QED
  BY <1>1, <1>3, <1>4, <1>5 DEF HandNext

\* The invariant holds in every state of every hand.
LEMMA Invariance == HandSpec => []IInv
BY InitIInv, NextIInv, PTL DEF HandSpec

\* Every call leaves a hand of the declared type, on a street with its board
\* or complete: submitAction and abandonSeat never stop half-way.
THEOREM TypeCorrect == HandSpec => []HandTypeOK
<1>1. IInv => HandTypeOK
  BY DEF IInv, HandInv, InPlay, Live, Over, HandTypeOK
<1> QED
  BY <1>1, Invariance, PTL

\* No chip of a seat is lost or taken while it can win nothing.
THEOREM StakesAreAccountedFor == HandSpec => []StakesAccountedFor
<1>1. IInv => StakesAccountedFor
  BY DEF IInv, HandInv, InPlay, Live, Over, Accounted, StakesAccountedFor, BettingNow
<1> QED
  BY <1>1, Invariance, PTL

\* A running hand always waits for a seat.
THEOREM TurnExists == HandSpec => []SomebodyToAct
<1>1. IInv => SomebodyToAct
  BY SeatsAreNumbers DEF IInv, HandInv, InPlay, Over, SomebodyToAct
<1> QED
  BY <1>1, Invariance, PTL

\* The bet to match is the largest contribution of the street.
THEOREM CurrentBetLargest == HandSpec => []CurrentBetIsLargest
<1>1. IInv => CurrentBetIsLargest
  BY DEF IInv, HandInv, InPlay, Live, Over, BetIsLargest, CurrentBetIsLargest
<1> QED
  BY <1>1, Invariance, PTL

\* The seat asked to act is in the hand and has not answered the current bet,
\* whoever raised, went all-in or left since it last acted: the answers that
\* are missing always come first, clockwise from the seat to act.
THEOREM TurnOwesAnAnswer == HandSpec => []TurnIsOwed
<1>1. ASSUME IInv PROVE TurnIsOwed
  <2>1. SUFFICES ASSUME hand.toAct # NoSeat
                 PROVE  /\ ~hand.folded[hand.toAct]
                        /\ \/ ~hand.acted[hand.toAct]
                           \/ hand.street[hand.toAct] < hand.currentBet
    BY DEF TurnIsOwed
  <2>2. InPlay(hand, start)
    BY <1>1, <2>1 DEF IInv, HandInv, Over
  <2>3. hand.street[hand.toAct] \in Nat /\ hand.currentBet \in Nat
        /\ hand.street[hand.toAct] <= hand.currentBet
    BY <2>2 DEF InPlay, Live, HandType, BetIsLargest
  <2> QED
    BY <2>2, <2>3 DEF InPlay, TurnOwed, Answered
<1> QED
  BY <1>1, Invariance, PTL

\* Nobody sees a street for less than the others: a street ends only when
\* every contender has matched the same bet.
THEOREM OnePriceForAStreet == HandSpec => []StreetsAreSeenAtOnePrice
<1>1. IInv => StreetsAreSeenAtOnePrice
  BY DEF IInv, HandInv, InPlay, Live, Over, OnePrice, StreetsAreSeenAtOnePrice
<1> QED
  BY <1>1, Invariance, PTL

\* A hand that ended pays no chip that was not dealt, and every chip when the
\* largest contribution is a live one: the layers add up to the pot, and the
\* shares of a layer, odd chips included, to the layer.
THEOREM PotsArePaid == HandSpec => []AllChipsPaid
<1>1. ASSUME IInv, hand.round = "complete" PROVE Over(hand, start)
  BY <1>1 DEF IInv, HandInv, InPlay, Live, BettingNow
<1>2. IInv => AllChipsPaid
  BY <1>1, OverPays DEF IInv, AllChipsPaid
<1> QED
  BY <1>2, Invariance, PTL

\* What a showdown left: every seat has what it was dealt, less what it put in,
\* plus what the ranks win it.
Showdown(ranks) ==
  /\ ranks \in [Seats -> Seats]
  /\ Paying(hand)
  /\ \A s \in NonFolded(hand) : hand.rank[s] = ranks[s]
  /\ \A s \in Seats : /\ hand.stack[s] \in Nat /\ hand.total[s] \in Nat /\ start[s] \in Nat
                      /\ Winnings(hand, ranks, s) \in Nat
                      /\ hand.stack[s] + hand.total[s] = start[s] + Winnings(hand, ranks, s)

\* A hand that ended with two seats in it ended by a showdown.
LEMMA ShowdownRanks == IInv /\ IsShowdown => \E ranks : Showdown(ranks)
<1>1. SUFFICES ASSUME IInv, IsShowdown PROVE \E ranks : Showdown(ranks)
  OBVIOUS
<1>2. Over(hand, start) /\ start \in [Seats -> Nat] /\ hand \in HandType
  BY <1>1 DEF IInv, HandInv, InPlay, Live, Over, IsShowdown, BettingNow
<1>3. ~Awarded(hand, start)
  BY <1>1 DEF Awarded, IsShowdown
<1>4. PICK ranks \in Ranks :
        /\ hand.rank = [s \in Seats |-> IF hand.folded[s] THEN 0 ELSE ranks[s]]
        /\ \A s \in Seats :
             hand.stack[s] + hand.total[s] = start[s] + Winnings(hand, ranks, s)
  BY <1>2, <1>3 DEF Over, ShownDown
<1>5. Paying(hand) /\ ranks \in [Seats -> Seats]
  BY <1>2 DEF Paying, HasTotals, HandType, Ranks
<1>6. \A s \in NonFolded(hand) : hand.rank[s] = ranks[s]
  BY <1>4 DEF NonFolded
<1>7. \A s \in Seats : Winnings(hand, ranks, s) \in Nat
  BY <1>5, WinningsSum
<1>8. \A s \in Seats : hand.stack[s] \in Nat /\ hand.total[s] \in Nat /\ start[s] \in Nat
  BY <1>2 DEF HandType
<1> QED
  BY <1>4, <1>5, <1>6, <1>7, <1>8 DEF Showdown

\* At a showdown a seat takes from each other seat no more than it put at risk
\* itself, however many side pots there are.
THEOREM SidePotsCap == HandSpec => []SidePotCap
<1>1. ASSUME IInv PROVE SidePotCap
  <2>1. SUFFICES ASSUME IsShowdown, NEW s \in Seats
                 PROVE  hand.stack[s] + hand.total[s]
                          <= start[s] + Matched(hand, hand.total[s])
    BY DEF SidePotCap, Matched
  <2>2. PICK ranks : Showdown(ranks)
    BY <1>1, <2>1, ShowdownRanks
  <2>3. Winnings(hand, ranks, s) <= Matched(hand, hand.total[s])
    BY <2>2, WinningsCapped DEF Showdown
  <2>4. Matched(hand, hand.total[s]) \in Nat
    BY <2>2, MatchedType DEF Showdown, Paying
  <2> QED
    BY <2>2, <2>3, <2>4 DEF Showdown
<1> QED
  BY <1>1, Invariance, PTL

\* At a showdown a seat beaten by one that put in at least as much wins
\* nothing, in the main pot or any side pot.
THEOREM BeatenSeatsLose == HandSpec => []BeatenHandsWinNothing
<1>1. ASSUME IInv PROVE BeatenHandsWinNothing
  <2>1. SUFFICES ASSUME IsShowdown, NEW s \in NonFolded(hand), NEW t \in NonFolded(hand),
                        hand.rank[t] > hand.rank[s], hand.total[t] >= hand.total[s]
                 PROVE  hand.stack[s] + hand.total[s] = start[s]
    BY DEF BeatenHandsWinNothing
  <2>2. PICK ranks : Showdown(ranks)
    BY <1>1, <2>1, ShowdownRanks
  <2>3. s \in Seats /\ t \in Seats /\ ~hand.folded[t]
    BY DEF NonFolded
  <2>4. ranks \in [Seats -> Nat] /\ ranks[t] > ranks[s]
    BY <2>1, <2>2, SeatsAreNumbers DEF Showdown
  <2>5. Winnings(hand, ranks, s) = 0
    BY <2>1, <2>2, <2>3, <2>4, BeatenWinsNothing DEF Showdown
  <2> QED
    BY <2>2, <2>3, <2>5 DEF Showdown
<1> QED
  BY <1>1, Invariance, PTL

\* Equal hands with equal contributions win the same, but for one odd chip a
\* pot at most, which go to the seats nearest the dealer's left.
THEOREM TiesAreSplit == HandSpec => []TiesSplitEvenly
<1>1. ASSUME IInv PROVE TiesSplitEvenly
  <2> DEFINE gain(u) == hand.stack[u] + hand.total[u] - start[u]
  <2>1. SUFFICES ASSUME IsShowdown, NEW s \in NonFolded(hand), NEW t \in NonFolded(hand),
                        hand.rank[t] = hand.rank[s], hand.total[t] = hand.total[s]
                 PROVE  /\ gain(s) - gain(t) <= Cardinality(Levels(hand))
                        /\ gain(s) > gain(t) => Dist(hand.dealer, s) < Dist(hand.dealer, t)
    BY DEF TiesSplitEvenly
  <2>2. PICK ranks : Showdown(ranks)
    BY <1>1, <2>1, ShowdownRanks
  <2>3. s \in Seats /\ t \in Seats /\ hand.dealer \in Seats
    BY <2>2 DEF NonFolded, Showdown, Paying
  <2>4. ranks \in [Seats -> Nat] /\ ranks[s] = ranks[t]
    BY <2>1, <2>2, SeatsAreNumbers DEF Showdown
  <2>5. Paying(hand)
    BY <2>2 DEF Showdown
  <2>6. /\ Winnings(hand, ranks, s)
             <= Winnings(hand, ranks, t) + Cardinality(Levels(hand))
        /\ Dist(hand.dealer, t) <= Dist(hand.dealer, s) =>
             Winnings(hand, ranks, s) <= Winnings(hand, ranks, t)
    BY <2>1, <2>4, <2>5, EqualHands
  <2>7. Winnings(hand, ranks, s) \in Nat /\ Winnings(hand, ranks, t) \in Nat
        /\ Cardinality(Levels(hand)) \in Nat
    BY <2>2, <2>3, <2>5, LevelsType DEF Showdown, Paying
  <2>8. gain(s) = Winnings(hand, ranks, s) /\ gain(t) = Winnings(hand, ranks, t)
    BY <2>2, <2>3 DEF Showdown
  <2>9. Dist(hand.dealer, s) \in Nat /\ Dist(hand.dealer, t) \in Nat
    BY <2>3, DistType
  <2> HIDE DEF gain
  <2> QED
    BY <2>6, <2>7, <2>8, <2>9
<1> QED
  BY <1>1, Invariance, PTL

-----------------------------------------------------------------------------
(* Progress *)

\* What a call that changes a hand achieves.
Progress(h, g) ==
  \/ StreetsLeft(g) < StreetsLeft(h)
  \/ /\ StreetsLeft(g) = StreetsLeft(h)
     /\ \/ SumTo(g.stack, N) < SumTo(h.stack, N)
        \/ /\ g.stack = h.stack
           /\ Waiting(g) < Waiting(h)

\* Contenders that have not acted on the street.
Unanswered(h) == {s \in Contenders(h) : ~h.acted[s]}

\* The seats waited for are finitely many.
LEMMA WaitingSets ==
  ASSUME NEW h
  PROVE  /\ IsFiniteSet(Unanswered(h)) /\ Cardinality(Unanswered(h)) \in Nat
         /\ IsFiniteSet(NonFolded(h)) /\ Cardinality(NonFolded(h)) \in Nat
         /\ Waiting(h) = Cardinality(Unanswered(h)) + Cardinality(NonFolded(h))
<1>1. IsFiniteSet(Contenders(h)) /\ Unanswered(h) \in SUBSET Contenders(h)
  BY SeatSets DEF Unanswered
<1>2. IsFiniteSet(Unanswered(h))
  BY <1>1, FS_Subset
<1>3. Waiting(h) = Cardinality(Unanswered(h)) + Cardinality(NonFolded(h))
  BY DEF Waiting, Unanswered
<1> QED
  BY <1>2, <1>3, SeatSets, FS_CardinalityType

\* A hand waits for less when a seat is out of one of the two sets and none came
\* into either.
LEMMA WaitsForLess ==
  ASSUME NEW h, NEW g, NEW s,
         Unanswered(g) \subseteq Unanswered(h), NonFolded(g) \subseteq NonFolded(h),
         \/ s \in Unanswered(h) \ Unanswered(g)
         \/ s \in NonFolded(h) \ NonFolded(g)
  PROVE  Waiting(g) < Waiting(h)
<1>1. /\ Cardinality(Unanswered(g)) <= Cardinality(Unanswered(h))
      /\ Cardinality(NonFolded(g)) <= Cardinality(NonFolded(h))
  BY WaitingSets, FS_Subset
<1>2. \/ Cardinality(Unanswered(g)) # Cardinality(Unanswered(h))
      \/ Cardinality(NonFolded(g)) # Cardinality(NonFolded(h))
  <2>1. CASE s \in Unanswered(h) \ Unanswered(g)
    BY <2>1, WaitingSets, FS_Subset
  <2>2. CASE s \in NonFolded(h) \ NonFolded(g)
    BY <2>2, WaitingSets, FS_Subset
  <2> QED
    BY <2>1, <2>2
<1> QED
  BY <1>1, <1>2, WaitingSets

\* A seat that puts chips in leaves fewer in the stacks.
LEMMA StacksShrink ==
  ASSUME NEW h \in HandType, NEW g, NEW s \in Seats, NEW paid \in Nat, paid > 0,
         paid <= h.stack[s], g.stack = [h.stack EXCEPT ![s] = @ - paid]
  PROVE  SumTo(g.stack, N) < SumTo(h.stack, N)
<1> DEFINE put == [i \in 1 .. N |-> IF i \in {s} THEN paid ELSE 0]
<1>1. h.stack \in [Seats -> Nat]
  BY DEF HandType
<1>2. \A i \in 1 .. N : put[i] = IF i \in {s} THEN paid ELSE 0
  OBVIOUS
<1> HIDE DEF put
<1>3. \A i \in 1 .. N : /\ g.stack[i] \in Nat /\ put[i] \in Nat
                        /\ h.stack[i] = g.stack[i] + put[i]
  <2>1. SUFFICES ASSUME NEW i \in 1 .. N
                 PROVE  /\ g.stack[i] \in Nat /\ put[i] \in Nat
                        /\ h.stack[i] = g.stack[i] + put[i]
    OBVIOUS
  <2>2. i \in Seats
    BY SeatNumbers
  <2>3. CASE i = s
    BY <1>1, <1>2, <2>2, <2>3
  <2>4. CASE i # s
    BY <1>1, <1>2, <2>2, <2>4
  <2> QED
    BY <2>3, <2>4
<1>4. SumTo(h.stack, N) = SumTo(g.stack, N) + SumTo(put, N)
  BY <1>3, SeatNumbers, SumToPlus
<1>5. SumTo(put, N) = paid
  <2>1. {s} \in SUBSET (1 .. N) /\ Cardinality({s}) = 1
    BY SeatNumbers, FS_Singleton
  <2>2. SumTo(put, N) = paid * Cardinality({s})
    BY <1>2, <2>1, SeatNumbers, SumToConstantOn
  <2> QED
    BY <2>1, <2>2
<1>6. SumTo(g.stack, N) \in Nat
  BY <1>3, SeatNumbers, SumToType
<1> QED
  BY <1>4, <1>5, <1>6

\* A hand in play has a street left, one that is over has none.
LEMMA StreetsLeftType ==
  ASSUME NEW h
  PROVE  /\ h.round \in BettingNow => StreetsLeft(h) \in Nat /\ StreetsLeft(h) > 0
         /\ h.round = "complete" => StreetsLeft(h) = 0
BY DEF StreetsLeft, BettingNow

\* An action that does not end the street puts chips in or answers or folds: a
\* check is not an answer only of a seat that is all-in by its blind, and then
\* nobody is left to bet.
LEMMA ActionProgresses ==
  ASSUME NEW h, NEW st, InPlay(h, st),
         NEW type, NEW amount \in Nat, IsLegal(h, h.toAct, type, amount),
         NEW g, ActionTaken(h, g, type, Paid(h, type, amount)), ~IsRoundComplete(g)
  PROVE  \/ SumTo(g.stack, N) < SumTo(h.stack, N)
         \/ g.stack = h.stack /\ Waiting(g) < Waiting(h)
<1> DEFINE s == h.toAct
           paid == Paid(h, type, amount)
<1>1. /\ Live(h, st) /\ h \in HandType /\ s \in Seats /\ h.stack \in [Seats -> Nat]
      /\ h.street[s] \in Nat /\ h.currentBet \in Nat /\ h.street[s] <= h.currentBet
      /\ h.folded \in [Seats -> BOOLEAN] /\ ~h.folded[s]
  BY DEF InPlay, TurnOwed, Live, HandType, BetIsLargest
<1>2. /\ paid \in Nat /\ paid <= h.stack[s]
      /\ g.stack = [h.stack EXCEPT ![s] = @ - paid]
  BY <1>1 DEF ActionTaken
<1>3. CASE paid > 0
  <2> HIDE DEF s, paid
  <2> QED
    BY <1>1, <1>2, <1>3, StacksShrink
<1>4. CASE paid = 0
  <2>1. type \in {"fold", "check"}
    BY <1>1, <1>4, BetsPay
  <2>2. g.stack = h.stack
    BY <1>1, <1>2, <1>4
  <2>3. ~(h.street[s] + paid > h.currentBet)
    BY <1>1, <1>4
  <2>4. \A t \in Seats : g.acted[t] <=> t = s \/ h.acted[t]
    BY <2>3 DEF ActionTaken
  <2>5. \A t \in Seats : /\ ~g.folded[t] => ~h.folded[t]
                         /\ ~g.allIn[t] => ~h.allIn[t]
    BY <1>1 DEF ActionTaken
  <2>6. Contenders(g) \subseteq Contenders(h) /\ NonFolded(g) \subseteq NonFolded(h)
    BY <2>5 DEF Contenders, NonFolded
  <2>7. Unanswered(g) \subseteq Unanswered(h) /\ s \notin Unanswered(g)
    BY <1>1, <2>4, <2>6 DEF Unanswered, Contenders
  <2>8. CASE type = "fold"
    <3>1. g.folded[s]
      BY <1>1, <2>8 DEF ActionTaken
    <3>2. s \in NonFolded(h) \ NonFolded(g)
      BY <1>1, <3>1 DEF NonFolded
    <3> QED
      BY <2>2, <2>6, <2>7, <3>2, WaitsForLess
  <2>9. CASE type = "check"
    <3>1. h.currentBet - h.street[s] <= 0
      BY <2>9 DEF IsLegal, LegalActions, Owed
    <3>2. h.street[s] = h.currentBet
      BY <1>1, <3>1
    <3>3. ~h.acted[s]
      BY <3>2 DEF InPlay, TurnOwed, Answered
    <3>4. ~h.allIn[s]
      <4>1. SUFFICES ASSUME h.allIn[s] PROVE FALSE
        OBVIOUS
      <4>2. Contenders(h) = {}
        BY <1>1, <3>2, <4>1 DEF InPlay, BlindTurn
      <4>3. Contenders(g) = {}
        BY <2>6, <4>2
      <4> QED
        BY <4>3 DEF IsRoundComplete
    <3>5. s \in Unanswered(h)
      BY <1>1, <3>3, <3>4 DEF Unanswered, Contenders
    <3> QED
      BY <2>2, <2>6, <2>7, <3>5, WaitsForLess
  <2> QED
    BY <2>1, <2>8, <2>9
<1> QED
  BY <1>2, <1>3, <1>4

\* Whatever submitAction leaves behind, the call achieved something.
LEMMA SubmitProgresses ==
  ASSUME NEW h, NEW st \in [Seats -> Nat], InPlay(h, st),
         NEW type, NEW amount \in Nat, IsLegal(h, h.toAct, type, amount),
         NEW g \in Settle(SubmitAction(h, type, amount))
  PROVE  Progress(h, g)
<1> DEFINE a == ApplyAction(h, type, amount)
           fresh == ResetForNextStreet(a)
<1>1. ActionTaken(h, a, type, Paid(h, type, amount))
  BY ApplyActionTakes DEF InPlay
<1>2. SubmitAction(h, type, amount) = Advance(a)
  BY DEF SubmitAction
<1> HIDE DEF a
<1>3. a.round = h.round /\ h.round \in BettingNow
  BY <1>1 DEF ActionTaken, InPlay, Live
<1>4. StreetsLeft(h) \in Nat /\ StreetsLeft(h) > 0
  BY <1>3, StreetsLeftType
<1>5. ASSUME g.round = "complete" PROVE Progress(h, g)
  BY <1>4, <1>5, StreetsLeftType DEF Progress
<1>6. CASE Cardinality(NonFolded(a)) = 1
  <2> DEFINE w == CHOOSE s \in NonFolded(a) : TRUE
  <2>1. Advance(a) = AwardWithoutShowdown(a, w)
    BY <1>6 DEF Advance
  <2> HIDE DEF w
  <2>2. AwardWithoutShowdown(a, w).round = "complete"
    BY <1>1 DEF AwardWithoutShowdown, ActionTaken, HandType
  <2>3. g = AwardWithoutShowdown(a, w)
    BY <1>2, <2>1, <2>2 DEF Settle
  <2> QED
    BY <1>5, <2>2, <2>3
<1>7. CASE Cardinality(NonFolded(a)) # 1 /\ ~IsRoundComplete(a)
  <2>1. Advance(a) = [a EXCEPT !.toAct = FindActiveSeatAfter(a, a.toAct)]
    BY <1>7 DEF Advance
  <2> DEFINE b == [a EXCEPT !.toAct = FindActiveSeatAfter(a, a.toAct)]
  <2>2. /\ b.round = a.round /\ b.stack = a.stack /\ b.folded = a.folded
        /\ b.allIn = a.allIn /\ b.acted = a.acted
    BY <1>1 DEF ActionTaken, HandType
  <2> HIDE DEF b
  <2>3. g = b
    BY <1>2, <1>3, <2>1, <2>2 DEF Settle, BettingNow, b
  <2>4. StreetsLeft(g) = StreetsLeft(h)
    BY <1>3, <2>2, <2>3 DEF StreetsLeft
  <2>5. Waiting(g) = Waiting(a)
    BY <2>2, <2>3 DEF Waiting, Contenders, NonFolded
  <2>6. \/ SumTo(a.stack, N) < SumTo(h.stack, N)
        \/ a.stack = h.stack /\ Waiting(a) < Waiting(h)
    BY <1>1, <1>7, ActionProgresses
  <2> QED
    BY <2>2, <2>3, <2>4, <2>5, <2>6 DEF Progress
<1>8. CASE /\ Cardinality(NonFolded(a)) # 1 /\ IsRoundComplete(a)
           /\ a.round = "river" \/ BettingIsOver(a)
  <2>1. Advance(a) = GoToShowdown(fresh)
    BY <1>8 DEF Advance
  <2>2. GoToShowdown(fresh).round = "showdown"
    BY <1>1 DEF GoToShowdown, ResetForNextStreet, ActionTaken, HandType
  <2> HIDE DEF fresh
  <2>3. PICK ranks : g = ResolveShowdown(GoToShowdown(fresh), ranks)
    BY <1>2, <2>1, <2>2 DEF Settle
  <2>4. g.round = "complete"
    BY <1>1, <2>3 DEF ResolveShowdown, GoToShowdown, ResetForNextStreet, fresh,
                      ActionTaken, HandType
  <2> QED
    BY <1>5, <2>4
<1>9. CASE /\ Cardinality(NonFolded(a)) # 1 /\ IsRoundComplete(a)
           /\ ~(a.round = "river" \/ BettingIsOver(a))
  <2>1. Advance(a) = AdvanceToNextStreet(fresh)
    BY <1>9 DEF Advance
  <2>2. fresh.round = a.round
    BY <1>1 DEF ResetForNextStreet, ActionTaken, HandType
  <2>3. AdvanceToNextStreet(fresh).round = NextStreet(a.round)
    BY <1>1, <2>2 DEF AdvanceToNextStreet, ResetForNextStreet, ActionTaken, HandType
  <2> HIDE DEF fresh
  <2>4. a.round \in {"preflop", "flop", "turn"}
    BY <1>3, <1>9 DEF BettingNow
  <2>5. NextStreet(a.round) \in {"flop", "turn", "river"}
    BY <2>4 DEF NextStreet
  <2>6. g = AdvanceToNextStreet(fresh)
    BY <1>2, <2>1, <2>3, <2>5 DEF Settle
  <2>7. StreetsLeft(g) < StreetsLeft(h)
    BY <1>3, <2>3, <2>4, <2>6 DEF StreetsLeft, NextStreet
  <2> QED
    BY <2>7 DEF Progress
<1> QED
  BY <1>6, <1>7, <1>8, <1>9

\* So did abandonSeat: fewer seats are in the hand.
LEMMA AbandonProgresses ==
  ASSUME NEW h, NEW st \in [Seats -> Nat], InPlay(h, st), NEW s \in Seats,
         ~h.folded[s], NEW g \in Settle(AbandonSeat(h, s))
  PROVE  Progress(h, g)
<1>1. h.round \in BettingNow /\ h.toAct \in Seats
  BY DEF InPlay, Live
<1>2. h.round # "complete"
  BY <1>1 DEF BettingNow
<1>3. CASE h.toAct = s
  <2>1. AbandonSeat(h, s) = SubmitAction(h, "fold", 0)
    BY <1>2, <1>3 DEF AbandonSeat
  <2>2. IsLegal(h, h.toAct, "fold", 0)
    BY <1>1, FoldIsLegal
  <2> QED
    BY <2>1, <2>2, SubmitProgresses
<1>4. CASE h.toAct # s
  <2> DEFINE left == Left(h, s)
  <2>1. AbandonSeat(h, s) = IF Cardinality(NonFolded(left)) = 1
                              THEN AwardWithoutShowdown(left, CHOOSE t \in NonFolded(left) : TRUE)
                              ELSE left
    BY <1>2, <1>4 DEF AbandonSeat, Left
  <2>2. /\ InPlay(left, st)
        /\ NonFolded(left) = NonFolded(h) \ {s}
        /\ Contenders(left) = Contenders(h) \ {s}
    BY <1>4, LeftKeeps
  <2>3. /\ left.stack = h.stack /\ left.round = h.round
        /\ \A t \in Seats \ {s} : left.acted[t] = h.acted[t]
    BY DEF Left, InPlay, Live, HandType
  <2> HIDE DEF left
  <2>4. CASE Cardinality(NonFolded(left)) = 1
    <3> DEFINE w == CHOOSE t \in NonFolded(left) : TRUE
    <3>1. AbandonSeat(h, s) = AwardWithoutShowdown(left, w)
      BY <2>1, <2>4
    <3> HIDE DEF w
    <3>2. AwardWithoutShowdown(left, w).round = "complete"
      BY <2>2 DEF AwardWithoutShowdown, InPlay, Live, HandType
    <3>3. g.round = "complete"
      BY <3>1, <3>2 DEF Settle
    <3> QED
      BY <1>1, <3>3, StreetsLeftType DEF Progress
  <2>5. CASE Cardinality(NonFolded(left)) # 1
    <3>1. AbandonSeat(h, s) = left
      BY <2>1, <2>5
    <3>2. g = left
      BY <1>1, <2>3, <3>1 DEF Settle, BettingNow
    <3>3. StreetsLeft(g) = StreetsLeft(h)
      BY <2>3, <3>2 DEF StreetsLeft
    <3>4. Unanswered(g) \subseteq Unanswered(h)
      BY <2>2, <2>3, <3>2 DEF Unanswered, Contenders
    <3>5. s \in NonFolded(h) \ NonFolded(g) /\ NonFolded(g) \subseteq NonFolded(h)
      BY <2>2, <3>2 DEF NonFolded
    <3>6. Waiting(g) < Waiting(h)
      BY <3>4, <3>5, WaitsForLess
    <3> QED
      BY <2>3, <3>2, <3>3, <3>6 DEF Progress
  <2> QED
    BY <2>4, <2>5
<1> QED
  BY <1>3, <1>4

\* Betting is never re-opened for free: every call that changes a hand takes it
\* to a later street, or puts chips in, or leaves fewer decisions and seats.
THEOREM BettingEnds == HandSpec => BettingTerminates
<1>1. ASSUME IInv, HandNext PROVE Progress(hand, hand')
  <2>1. start \in [Seats -> Nat] /\ HandInv(hand, start)
    BY <1>1 DEF IInv
  <2>2. ASSUME NEW type \in ActionTypes, NEW amount \in Amounts(type),
               Submit(type, amount)
        PROVE  Progress(hand, hand')
    <3>1. IsLegal(hand, hand.toAct, type, amount) /\ hand.toAct # NoSeat
          /\ hand' \in Settle(SubmitAction(hand, type, amount))
      BY <2>2 DEF Submit, IsLegal, LegalActions
    <3>2. InPlay(hand, start)
      BY <2>1, <3>1 DEF HandInv, Over
    <3>3. amount \in Nat
      BY MaxStackAssumption DEF Amounts
    <3> QED
      BY <2>1, <3>1, <3>2, <3>3, SubmitProgresses
  <2>3. ASSUME NEW s \in Seats, Leave(s)
        PROVE  Progress(hand, hand')
    <3>1. InPlay(hand, start)
      BY <2>1, <2>3 DEF HandInv, Over, Leave
    <3> QED
      BY <2>1, <2>3, <3>1, AbandonProgresses DEF Leave
  <2> QED
    BY <1>1, <2>2, <2>3 DEF HandNext
<1>2. IInv /\ [HandNext]_handVars =>
        [\/ StreetsLeft(hand') < StreetsLeft(hand)
         \/ /\ StreetsLeft(hand') = StreetsLeft(hand)
            /\ \/ SumTo(hand'.stack, N) < SumTo(hand.stack, N)
               \/ /\ hand'.stack = hand.stack
                  /\ Waiting(hand') < Waiting(hand)]_hand
  BY <1>1 DEF Progress, handVars
<1> QED
  BY <1>2, Invariance, PTL DEF HandSpec, BettingTerminates
=============================================================================
