--------------------------------- MODULE Equity ---------------------------------
(***************************************************************************)
(* What a hand is worth before all the cards are out: equity.engine.ts and *)
(* range.service.ts.  Whatever the participants may hold together is       *)
(* played on every completion of the board.  The probabilities are kept as *)
(* whole shares of the pot and the denominator the code divides them by,   *)
(* before they are rounded to the precision asked for; a weight is a       *)
(* multiple of the smallest weight.                                        *)
(*                                                                         *)
(* A request has a board and, for each player, a set of weighted combos; a *)
(* known holding is one combo of weight one.                               *)
(***************************************************************************)
EXTENDS HandEvaluator

CONSTANTS
  Deck,      \* bound: the cards of the deck
  Requests   \* bound: the requests made

\* validateEquityRequest
ASSUME RequestsAreValid ==
  /\ Deck \subseteq Cards
  /\ \A r \in Requests :
       /\ r \in [board   : SUBSET Deck,
                 players : Seq(SUBSET [cards : SUBSET Deck, weight : Nat])]
       /\ Cardinality(r.board) \in {0, 3, 4, 5}
       /\ Len(r.players) >= 2
       /\ \A i \in DOMAIN r.players : IsFiniteSet(r.players[i])

VARIABLE request   \* the request being answered, or none yet

NoRequest == << >>

\* filterBlockedCombos
Unblocked(combos, board) == {combo \in combos : combo.cards \cap board = {}}

Playable(r) ==
  [i \in DOMAIN r.players |-> Unblocked(r.players[i], r.board)]

\* Nobody is left without a combo, which is an error.
Answerable(r) == \A i \in DOMAIN r.players : Playable(r)[i] # {}

\* The combos the players may hold together have no card in common.
Selections(r) ==
  {held \in [DOMAIN r.players -> UNION {Playable(r)[i] : i \in DOMAIN r.players}] :
     /\ \A i \in DOMAIN held : held[i] \in Playable(r)[i]
     /\ \A i, j \in DOMAIN held : i # j => held[i].cards \cap held[j].cards = {}}

Runouts(board, held) ==
  Sets!kSubset(5 - Cardinality(board), Deck \ (board \cup UNION {held[i].cards : i \in DOMAIN held}))

Games(r) ==
  UNION {[held : {held}, community : {r.board \cup out : out \in Runouts(r.board, held)}] :
           held \in Selections(r)}

Winners(game) ==
  LET rank == [i \in DOMAIN game.held |-> Evaluate7(game.held[i].cards \cup game.community)]
  IN  {i \in DOMAIN rank : rank[i] = BestOf({rank[j] : j \in DOMAIN rank})}

SumOf(f, S)    == Sets!MapThenSumSet(LAMBDA x : f[x], S)
Total(numbers) == SumOf(numbers, DOMAIN numbers)
Product(numbers) ==
  Sets!MapThenFoldSet(LAMBDA a, b : a * b, 1, LAMBDA i : numbers[i],
                      LAMBDA s : CHOOSE i \in s : TRUE, DOMAIN numbers)

\* A pot is cut so that any number of its players can share it.
Shares(r) == Product([i \in DOMAIN r.players |-> i])

\* Mutant of ShareOf: a tie is a win.
ShareOf_Win(r, winners) == Shares(r)

ShareOf(r, winners) == Shares(r) \div Cardinality(winners)

\* calculateEquity: the games each player wins, alone or not, the shares it
\* takes, the games tied, and what all these are divided by.
CalculateEquity(r) ==
  LET played   == {[winners |-> Winners(game), game |-> game,
                    weight  |-> Product([i \in DOMAIN game.held |-> game.held[i].weight])] :
                     game \in Games(r)}
      weight   == [p \in played |-> p.weight]
      share    == [p \in played |-> p.weight * ShareOf(r, p.winners)]
      wonBy(i) == {p \in played : i \in p.winners}
      tied     == {p \in played : Cardinality(p.winners) > 1}
      remaining(i) == SumOf([combo \in Playable(r)[i] |-> combo.weight], Playable(r)[i])
  IN  [wins   |-> [i \in DOMAIN r.players |-> SumOf(weight, wonBy(i))],
       equity |-> [i \in DOMAIN r.players |-> SumOf(share, wonBy(i))],
       ties   |-> SumOf(weight, tied),
       of     |-> Cardinality(played)
                    * Product([i \in DOMAIN r.players |-> remaining(i)])]

\* A request that can be answered comes in.
EquityInit == request = NoRequest

Ask ==
  /\ request = NoRequest
  /\ request' \in {r \in Requests : Answerable(r) /\ Selections(r) # {}}

-----------------------------------------------------------------------------
(* Properties *)

\* The equities of all players make up the pot.
IsShared(r) ==
  LET answer == CalculateEquity(r)
  IN  Total(answer.equity) = answer.of * Shares(r)

\* Every player has one combo, which is all that the Trainer asks about.
HoldingsKnown(r) == \A i \in DOMAIN r.players : Cardinality(r.players[i]) = 1

\* Known hands share the pot, over all completions of the board, and every game
\* of two is won by one of them or by both: ties are cut, and no card is dealt
\* twice (calculateEquity; spec 007, User Story 1).
HoldingsShareThePot ==
  request # NoRequest /\ HoldingsKnown(request) =>
    LET answer == CalculateEquity(request)
    IN  /\ IsShared(request)
        /\ Len(request.players) = 2 => Total(answer.wins) = answer.of + answer.ties
=============================================================================
