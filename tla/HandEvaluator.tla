----------------------------- MODULE HandEvaluator -----------------------------
(***************************************************************************)
(* Which hand wins: poker-engine/hand-evaluator.ts.  evaluate7CardHand     *)
(* ranks every five of the seven cards and keeps the best; a rank is a     *)
(* tuple, the category and then its tiebreakers.  PokerEngine abstracts    *)
(* it to an order of the seats; this module says what the order is.        *)
(***************************************************************************)
EXTENDS Integers, FiniteSets, Sequences

Sets == INSTANCE FiniteSetsExt

CONSTANT Sevens   \* bound: the sets of seven cards that are looked at

Cards == (2 .. 14) \X {"s", "h", "d", "c"}

ASSUME SevensAreCards ==
  \A cards \in Sevens : cards \subseteq Cards /\ Cardinality(cards) = 7

VARIABLE seven    \* two hole cards and the board, or nothing yet

EvaluatorInit == seven = {}
Deal          == seven = {} /\ seven' \in Sevens

RankOf(card) == card[1]     \* the ace is 14
SuitOf(card) == card[2]

RanksIn(cards)  == {RankOf(c) : c \in cards}
Times(v, cards) == Cardinality({c \in cards : RankOf(c) = v})

\* How many cards have each value.
CountByValue(cards) == {[value |-> v, times |-> Times(v, cards)] : v \in RanksIn(cards)}

\* The more frequent value comes first, of two as frequent the higher one.
Before(a, b) ==
  \/ a.times > b.times
  \/ a.times = b.times /\ a.value > b.value

\* The entries in this order, each at the place that those before it leave it.
Groups(cards) ==
  LET entries == CountByValue(cards)
  IN  [i \in 1 .. Cardinality(entries) |->
         CHOOSE e \in entries : Cardinality({d \in entries : Before(d, e)}) = i - 1]

\* Mutant of StraightHigh: the ace is high only.
StraightHigh_NoWheel(ranks) ==
  IF Cardinality(ranks) = 5 /\ Sets!Max(ranks) - Sets!Min(ranks) = 4 THEN Sets!Max(ranks) ELSE 0

\* Zero for no straight; the ace is low in the wheel.
StraightHigh(ranks) ==
  IF Cardinality(ranks) = 5 /\ Sets!Max(ranks) - Sets!Min(ranks) = 4 THEN Sets!Max(ranks)
  ELSE IF ranks = {14, 5, 4, 3, 2} THEN 5
  ELSE 0

Category(counts, straight, flush) ==
  CASE counts = <<4, 1>>          -> 7
    [] counts = <<3, 2>>          -> 6
    [] counts = <<3, 1, 1>>       -> 3
    [] counts = <<2, 2, 1>>       -> 2
    [] counts = <<2, 1, 1, 1>>    -> 1
    [] counts = <<1, 1, 1, 1, 1>> ->
         IF straight THEN (IF flush THEN 8 ELSE 4) ELSE (IF flush THEN 5 ELSE 0)

Evaluate5(cards) ==
  LET groups   == Groups(cards)
      counts   == [i \in DOMAIN groups |-> groups[i].times]
      values   == [i \in DOMAIN groups |-> groups[i].value]
      high     == StraightHigh(RanksIn(cards))
      category == Category(counts, high # 0, Cardinality({SuitOf(c) : c \in cards}) = 1)
  IN  IF high # 0 THEN <<category, high>> ELSE <<category>> \o values

\* compareHandRanks: from left to right, and what is missing is zero.
At(rank, i) == IF i \in DOMAIN rank THEN rank[i] ELSE 0

Below(a, b) ==
  \E i \in 1 .. 6 : /\ At(a, i) < At(b, i)
                    /\ \A j \in 1 .. i - 1 : At(a, j) = At(b, j)

BestOf(ranks) == CHOOSE best \in ranks : \A rank \in ranks : ~Below(best, rank)

Evaluate7(cards) == BestOf({Evaluate5(five) : five \in Sets!kSubset(5, cards)})

-----------------------------------------------------------------------------
(* The rules of the game, for all the cards at once *)

\* A set of values, the highest first.
Downwards(ranks) ==
  [i \in 1 .. Cardinality(ranks) |->
     CHOOSE v \in ranks : Cardinality({w \in ranks : w > v}) = i - 1]

Kickers(n, ranks) == {Downwards(some) : some \in Sets!kSubset(n, ranks)}

Straights(ranks) ==
  {v \in ranks : v - 4 .. v \subseteq ranks}
    \cup {v \in {5} : {14, 2, 3, 4, 5} \subseteq ranks}

\* What five of the cards may be called; five can be of one suit only.
Claims(cards) ==
  LET ranks  == RanksIn(cards)
      of(n)  == {v \in ranks : Times(v, cards) >= n}
      suited == {c \in cards :
                   Cardinality({d \in cards : SuitOf(d) = SuitOf(c)}) >= 5}
      with(category, n, v) == {<<category, v>> \o k : k \in Kickers(n, ranks \ {v})}
  IN  {<<8, v>> : v \in Straights(RanksIn(suited))}
        \cup (UNION {with(7, 1, v) : v \in of(4)})
        \cup {t \in {<<6, v, w>> : v \in of(3), w \in of(2)} : t[2] # t[3]}
        \cup {<<5>> \o k : k \in Kickers(5, RanksIn(suited))}
        \cup {<<4, v>> : v \in Straights(ranks)}
        \cup (UNION {with(3, 2, v) : v \in of(3)})
        \cup {t \in {<<2, v, w, x>> : v, w \in of(2), x \in ranks} :
                t[2] > t[3] /\ t[4] \notin {t[2], t[3]}}
        \cup (UNION {with(1, 3, v) : v \in of(2)})
        \cup {<<0>> \o k : k \in Kickers(5, ranks)}

-----------------------------------------------------------------------------
(* Properties *)

\* The best five of seven cards are what the rules may call five of the seven,
\* and they may call no five anything better: also with two straights, a wheel,
\* two triples, three pairs or six cards of a suit among them (evaluate7CardHand).
BestOfSeven ==
  seven # {} =>
    LET best == Evaluate7(seven)
    IN  /\ best \in Claims(seven)
        /\ \A claim \in Claims(seven) : ~Below(best, claim)
=============================================================================
