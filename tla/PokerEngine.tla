----------------------------- MODULE PokerEngine -----------------------------
(***************************************************************************)
(* The rules of one no-limit hold'em hand: backend/src/poker-engine.       *)
(*                                                                         *)
(* The engine is a set of functions on a HandState that its callers own    *)
(* (local games keep it in memory, multiplayer tables in a database row),  *)
(* so this module has no variables: every operator takes a hand and        *)
(* returns the hand the code leaves behind.                                *)
(*                                                                         *)
(* Cards are abstracted to what the rules read of them: how many are on    *)
(* the board, and at a showdown the strength of each live seat's best five *)
(* cards.  The deck is fixed when the hand is dealt, but nothing reads it  *)
(* before the showdown, so the strengths are chosen there: an operator     *)
(* that reaches a showdown returns the hand in round "showdown", with its  *)
(* board full, and Settle gives the hands the call may end in.             *)
(*                                                                         *)
(* Recursion is written as functions on 0 .. n and never as a RECURSIVE    *)
(* operator, so that PokerHandProofs can reason about these definitions.   *)
(***************************************************************************)
EXTENDS Integers, FiniteSets

CONSTANT N  \* hand.seats.length: seats are numbered 1 .. N by startHand

\* The engine is called with at least two seats (local-games.validation.ts:5,
\* and a room starts with at least two members).
ASSUME NAssumption == N \in Nat /\ N >= 2

Seats  == 1 .. N
NoSeat == 0                             \* seatToAct = null

SmallBlind == 1
BigBlind   == 2

BettingNow  == {"preflop", "flop", "turn", "river"}
Rounds      == BettingNow \cup {"showdown", "complete"}
ActionTypes == {"fold", "check", "call", "bet", "raise", "all-in"}

\* Every way to order the seats' hands, with ties: compareHandRanks is only
\* ever >, = or <, so the strengths used are 1 .. k for some k.
Ranks == {ranks \in [Seats -> Seats] :
            \A s \in Seats : ranks[s] = 1 \/ \E t \in Seats : ranks[t] = ranks[s] - 1}

HandType ==
  [stack    : [Seats -> Nat],     folded   : [Seats -> BOOLEAN],
   allIn    : [Seats -> BOOLEAN], street   : [Seats -> Nat],
   total    : [Seats -> Nat],     acted    : [Seats -> BOOLEAN],
   dealer   : Seats,              round    : Rounds,
   board    : 0 .. 5,             currentBet : Nat,
   minRaise : Nat,                toAct    : Seats \cup {NoSeat},
   rank     : [Seats -> Seats \cup {0}]]

MinOf(a, b) == IF a <= b THEN a ELSE b

\* The sum of f[1] .. f[n], as a function on the prefixes.
SumTo(f, n) ==
  LET sum[i \in 0 .. n] == IF i = 0 THEN 0 ELSE sum[i - 1] + f[i]
  IN  sum[n]

-----------------------------------------------------------------------------
(* Seats in table order *)

\* Seats passed going clockwise from a until b is reached: 1 .. N, N when
\* b = a.
Dist(a, b) == ((b - a - 1) % N) + 1

NonFolded(h)  == {s \in Seats : ~h.folded[s]}
Contenders(h) == {s \in Seats : ~h.folded[s] /\ ~h.allIn[s]}

\* A seat number that is not at the table counts from before the first seat,
\* as findIndex's -1 does.
FindActiveSeatAfter(h, fromSeat) ==
  LET from    == IF fromSeat \in Seats THEN fromSeat ELSE 0
      nearest == {s \in Contenders(h) :
                    \A t \in Contenders(h) : Dist(from, s) <= Dist(from, t)}
  IN  IF nearest = {} THEN NoSeat ELSE CHOOSE s \in nearest : TRUE

-----------------------------------------------------------------------------
(* Dealing *)

\* Mutant of Put: the contribution to the hand is forgotten.
Put_NoTotal(h, s, amount) ==
  [h EXCEPT !.stack[s]  = @ - amount,
            !.street[s] = @ + amount,
            !.allIn[s]  = @ \/ h.stack[s] = amount]

\* Chips of seat s move in front of it; a seat left with none is all-in.
Put(h, s, amount) ==
  [h EXCEPT !.stack[s]  = @ - amount,
            !.street[s] = @ + amount,
            !.total[s]  = @ + amount,
            !.allIn[s]  = @ \/ h.stack[s] = amount]

PostBlind(h, s, amount) == Put(h, s, MinOf(amount, h.stack[s]))

\* The hand before the blinds: seats without chips sit it out folded.
Dealt(stacks, dealer) ==
  [stack    |-> stacks,
   folded   |-> [s \in Seats |-> stacks[s] = 0],
   allIn    |-> [s \in Seats |-> FALSE],
   street   |-> [s \in Seats |-> 0],
   total    |-> [s \in Seats |-> 0],
   acted    |-> [s \in Seats |-> FALSE],
   dealer   |-> dealer,
   round    |-> "preflop",
   board    |-> 0,
   currentBet |-> 0,
   minRaise |-> BigBlind,
   toAct    |-> NoSeat,
   rank     |-> [s \in Seats |-> 0]]

\* The blinds' seats and the first seat to act are chosen before the blinds
\* are posted; heads-up rules depend on the number of seats, not of stacks.
StartHand(stacks, dealer) ==
  LET dealt == Dealt(stacks, dealer)
      sb    == IF N = 2 THEN dealer ELSE FindActiveSeatAfter(dealt, dealer)
      bb    == FindActiveSeatAfter(dealt, sb)
      first == IF N = 2 THEN dealer ELSE FindActiveSeatAfter(dealt, bb)
      small == PostBlind(dealt, sb, SmallBlind)
  IN  [PostBlind(small, bb, BigBlind) EXCEPT
         !.currentBet = MinOf(BigBlind, small.stack[bb]),
         !.toAct      = first]

-----------------------------------------------------------------------------
(* Betting: betting.ts *)

Owed(h)        == h.currentBet - h.street[h.toAct]
MaxTotal(h)    == h.street[h.toAct] + h.stack[h.toAct]
CallAmount(h)  == MinOf(Owed(h), h.stack[h.toAct])
MinBetOrRaise(h) ==
  IF h.currentBet = 0 THEN MinOf(h.minRaise, h.stack[h.toAct])
                      ELSE h.currentBet + h.minRaise

\* computeLegalActions(hand).actions
LegalActions(h) ==
  {type \in ActionTypes :
     /\ h.toAct # NoSeat
     /\ \/ type = "fold"
        \/ type = "check"  /\ Owed(h) <= 0
        \/ type = "call"   /\ Owed(h) > 0 /\ h.stack[h.toAct] > 0
        \/ type = "bet"    /\ h.currentBet = 0 /\ h.stack[h.toAct] > 0
        \/ type = "raise"  /\ h.currentBet > 0
                           /\ MaxTotal(h) > h.currentBet
                           /\ MaxTotal(h) >= MinBetOrRaise(h)
        \/ type = "all-in" /\ h.stack[h.toAct] > 0}

\* What applyAction accepts from seat s; amount is the street total that a
\* bet or a raise asks for and is ignored by the other types.
IsLegal(h, s, type, amount) ==
  /\ s = h.toAct
  /\ type \in LegalActions(h)
  /\ type \in {"bet", "raise"} => amount \in MinBetOrRaise(h) .. MaxTotal(h)

\* The chips the acting seat puts in.
Paid(h, type, amount) ==
  CASE type \in {"fold", "check"} -> 0
    [] type = "call"              -> CallAmount(h)
    [] type \in {"bet", "raise"}  -> amount - h.street[h.toAct]
    [] type = "all-in"            -> h.stack[h.toAct]

\* A total above the current bet becomes the bet to match, its excess the next
\* minimum raise, and every other contender must answer again.
ApplyAction(h, type, amount) ==
  LET s      == h.toAct
      paid   == Paid(h, type, amount)
      after  == IF paid = 0 THEN h ELSE Put(h, s, paid)
      raised == after.street[s] > h.currentBet
  IN  [after EXCEPT
         !.folded[s]  = @ \/ type = "fold",
         !.currentBet = IF raised THEN after.street[s] ELSE @,
         !.minRaise   = IF raised THEN after.street[s] - h.currentBet ELSE @,
         !.acted      = [t \in Seats |->
                           \/ t = s
                           \/ @[t] /\ (raised => h.folded[t] \/ h.allIn[t])]]

-----------------------------------------------------------------------------
(* Pots: pots.ts and awardPot *)

\* A layer of the pot is keyed by the contribution level that tops it.
Payers(h, level)   == {s \in Seats : h.total[s] >= level}
Levels(h)          == {h.total[s] : s \in Seats} \ {0}

\* Mutant of Eligible: every live seat contests every layer.
Eligible_AnyLive(h, level) == NonFolded(h)

Eligible(h, level) == Payers(h, level) \ {s \in Seats : h.folded[s]}

\* Mutant of LayerSize: the previous level is not subtracted.
LayerSize_FromZero(h, level) == level

\* level - previousLevel, the chips of the layer that each of its payers put
\* in, is the number of levels that exactly these payers reach.
LayerSize(h, level) ==
  Cardinality({k \in 1 .. level : Payers(h, k) = Payers(h, level)})

\* computePots drops a layer that only folded seats reached.
IsPot(h, level)     == level \in Levels(h) /\ Eligible(h, level) # {}
PotAmount(h, level) == LayerSize(h, level) * Cardinality(Payers(h, level))

\* Mutants of Share: the odd chips stay nowhere; they go by seat number.
Share_NoOddChips(h, amount, winners, s) ==
  IF s \notin winners THEN 0 ELSE amount \div Cardinality(winners)

Share_BySeatNumber(h, amount, winners, s) ==
  IF s \notin winners THEN 0
  ELSE (amount \div Cardinality(winners))
         + (IF Cardinality({t \in winners : t < s}) < amount % Cardinality(winners)
              THEN 1 ELSE 0)

\* The share of s when winners split amount: odd chips go one each to the
\* winners nearest the dealer's left.
Share(h, amount, winners, s) ==
  IF s \notin winners THEN 0
  ELSE LET nearer == {t \in winners : Dist(h.dealer, t) < Dist(h.dealer, s)}
       IN  (amount \div Cardinality(winners))
             + (IF Cardinality(nearer) < amount % Cardinality(winners)
                  THEN 1 ELSE 0)

\* Mutant of PotWinners: everyone at least as good as the first eligible seat.
PotWinners_BeatsFirst(h, ranks, level) ==
  {s \in Eligible(h, level) :
     \E f \in Eligible(h, level) :
       /\ \A t \in Eligible(h, level) : f <= t
       /\ ranks[f] <= ranks[s]}

PotWinners(h, ranks, level) ==
  {s \in Eligible(h, level) :
     \A t \in Eligible(h, level) : ranks[t] <= ranks[s]}

Pot(h) == SumTo(h.total, N)

Winnings(h, ranks, s) ==
  LET won == [level \in 1 .. Pot(h) |->
                IF IsPot(h, level)
                  THEN Share(h, PotAmount(h, level),
                             PotWinners(h, ranks, level), s)
                  ELSE 0]
  IN  SumTo(won, Pot(h))

AwardWithoutShowdown(h, winner) ==
  [h EXCEPT !.stack[winner] = @ + Pot(h),
            !.round = "complete", !.toAct = NoSeat]

ResolveShowdown(h, ranks) ==
  [h EXCEPT
     !.stack = [s \in Seats |-> @[s] + Winnings(h, ranks, s)],
     !.rank  = [s \in Seats |-> IF h.folded[s] THEN 0 ELSE ranks[s]],
     !.round = "complete", !.toAct = NoSeat]

-----------------------------------------------------------------------------
(* Moving on: advance and the streets *)

\* Mutants of IsRoundComplete: seats yet to act are not waited for; all-in
\* seats are.
IsRoundComplete_Early(h) ==
  \A s \in Contenders(h) : h.acted[s] => h.street[s] = h.currentBet

IsRoundComplete_AllIn(h) ==
  \A s \in NonFolded(h) : h.acted[s] /\ h.street[s] = h.currentBet

IsRoundComplete(h) ==
  \A s \in Contenders(h) : h.acted[s] /\ h.street[s] = h.currentBet

\* Mutant of ResetForNextStreet: the seats' street contributions are kept.
ResetForNextStreet_KeepStreet(h) ==
  [h EXCEPT !.currentBet = 0,
            !.minRaise   = BigBlind,
            !.acted      = [s \in Seats |-> FALSE]]

ResetForNextStreet(h) ==
  [h EXCEPT !.currentBet = 0,
            !.minRaise   = BigBlind,
            !.street     = [s \in Seats |-> 0],
            !.acted      = [s \in Seats |-> FALSE]]

NextStreet(round) ==
  CASE round = "preflop" -> "flop"
    [] round = "flop"    -> "turn"
    [] round = "turn"    -> "river"

BoardAt(round) ==
  CASE round = "preflop" -> 0
    [] round = "flop"    -> 3
    [] round = "turn"    -> 4
    [] round = "river"   -> 5

\* Mutant of AdvanceToNextStreet: every street deals a flop.
AdvanceToNextStreet_ThreeCards(h) ==
  [h EXCEPT !.board = @ + 3,
            !.round = NextStreet(h.round),
            !.toAct = FindActiveSeatAfter(h, h.dealer)]

AdvanceToNextStreet(h) ==
  LET next == NextStreet(h.round)
  IN  [h EXCEPT !.board = @ + (IF next = "flop" THEN 3 ELSE 1),
                !.round = next,
                !.toAct = FindActiveSeatAfter(h, h.dealer)]

GoToShowdown(h) == [h EXCEPT !.board = 5, !.round = "showdown"]

\* Mutant of BettingIsOver: only a lone seat ends the betting.
BettingIsOver_LastSeat(h) == Cardinality(NonFolded(h)) <= 1

\* FR-011: at most one seat could still act.
BettingIsOver(h) == Cardinality(Contenders(h)) <= 1

Advance(h) ==
  LET fresh == ResetForNextStreet(h)
  IN  IF Cardinality(NonFolded(h)) = 1
        THEN AwardWithoutShowdown(h, CHOOSE s \in NonFolded(h) : TRUE)
      ELSE IF ~IsRoundComplete(h)
        THEN [h EXCEPT !.toAct = FindActiveSeatAfter(h, h.toAct)]
      ELSE IF h.round = "river" \/ BettingIsOver(h)
        THEN GoToShowdown(fresh)
      ELSE AdvanceToNextStreet(fresh)

SubmitAction(h, type, amount) == Advance(ApplyAction(h, type, amount))

\* Mutant of AbandonSeat: a seat that leaves out of turn stays in the hand.
AbandonSeat_OnlyInTurn(h, s) ==
  IF s \notin Seats \/ h.folded[s] \/ h.toAct # s THEN h
                                                 ELSE SubmitAction(h, "fold", 0)

\* A seat leaves the hand in turn, by folding, or out of turn.
AbandonSeat(h, s) ==
  LET left == [h EXCEPT !.folded[s] = TRUE,
                        !.allIn[s]  = FALSE,
                        !.acted[s]  = TRUE]
  IN  IF s \notin Seats \/ h.folded[s] \/ h.round = "complete"
        THEN h
      ELSE IF h.toAct = s
        THEN SubmitAction(h, "fold", 0)
      ELSE IF Cardinality(NonFolded(left)) = 1
        THEN AwardWithoutShowdown(left, CHOOSE t \in NonFolded(left) : TRUE)
      ELSE left

\* The hands a call that computed h may leave behind.
Settle(h) ==
  IF h.round = "showdown" THEN {ResolveShowdown(h, ranks) : ranks \in Ranks}
                          ELSE {h}
=============================================================================
