------------------------------ MODULE CardsProofs ------------------------------
(***************************************************************************)
(* Theorems about the cards: HandEvaluator, Equity, and what PokerEngine   *)
(* makes of the former.                                                    *)
(*                                                                         *)
(* The hands of a showdown: compareHandRanks orders the tuples evaluate5   *)
(* makes of five cards, the best of them exists, and the strengths that a  *)
(* showdown is modelled with leave out no order that it may say.           *)
(*                                                                         *)
(* The evaluator: what five cards are called follows from how often they   *)
(* have each value (MadeFrom), what the cards have makes five of them      *)
(* (MadeOf), so what five of seven cards are called is a claim the rules   *)
(* allow, and every claim is met by five of the cards or outdone by them.  *)
(*                                                                         *)
(* Equity: known hands share the pot, whatever the deck and the number of  *)
(* players.  A sum over a set takes its elements in an order that nothing  *)
(* tells; that this order does not matter is proved first, by taking       *)
(* elements away from a set that would be a counterexample.                *)
(***************************************************************************)
EXTENDS Equity, PokerEngineProofs, SequenceTheorems

-----------------------------------------------------------------------------
(* Finite sets *)

\* A claim about the subsets of a finite set holds when it carries over to a set
\* from that set without one of its elements; Bad are those where it fails.
LEMMA TakeOneAway ==
  ASSUME NEW S, IsFiniteSet(S), NEW Bad, Bad \subseteq SUBSET S, {} \notin Bad,
         \A T \in Bad : \E x \in T : T \ {x} \in Bad
  PROVE  Bad = {}
<1> SUFFICES ASSUME Bad # {} PROVE FALSE
  OBVIOUS
<1>1. IsWellFoundedOn(StrictSubsetOrdering(S), SUBSET S)
  BY FS_StrictSubsetOrderingWellFounded, FS_FiniteSubsetsOfFinite
<1>2. PICK T \in Bad : \A U \in Bad : <<U, T>> \notin StrictSubsetOrdering(S)
  BY <1>1, WFMin
<1>3. PICK x \in T : T \ {x} \in Bad
  OBVIOUS
<1>4. <<T \ {x}, T>> \in StrictSubsetOrdering(S)
  BY <1>3 DEF StrictSubsetOrdering
<1> QED
  BY <1>2, <1>3, <1>4

\* The values of a function on a finite set.
LEMMA FiniteImage ==
  ASSUME NEW S, IsFiniteSet(S), NEW f, S \subseteq DOMAIN f
  PROVE  /\ IsFiniteSet({f[x] : x \in S})
         /\ Cardinality({f[x] : x \in S}) <= Cardinality(S)
<1> DEFINE g == [x \in S |-> f[x]]
<1>1. g \in Surjection(S, {f[x] : x \in S})
  BY DEF Surjection
<1> QED
  BY <1>1, FS_Surjection

\* A set of numbers up to n has a greatest.
LEMMA GreatestNat ==
  ASSUME NEW n \in Nat, NEW S \in SUBSET (0 .. n), S # {}
  PROVE  \E m \in S : \A i \in S : i <= m
<1> DEFINE Down == {n - i : i \in S}
<1>0. \A i \in S : i \in Nat /\ i <= n
  BY S \subseteq 0 .. n
<1>1. Down \subseteq Nat /\ Down # {}
  <2>1. ASSUME NEW i \in S PROVE n - i \in Nat
    BY <1>0
  <2>2. Down # {}
    OBVIOUS
  <2> QED
    BY <2>1, <2>2
<1>2. PICK d \in Down : \A e \in Down : d <= e
  <2> HIDE DEF Down
  <2> QED
    BY <1>1, LeastNat
<1>3. PICK m \in S : d = n - m
  BY <1>2
<1>4. ASSUME NEW i \in S PROVE i <= m
  <2>1. n - m <= n - i
    BY <1>2, <1>3
  <2> QED
    BY <1>0, <2>1
<1> QED
  BY <1>4

\* A finite set has subsets of every size up to its own.
LEMMA SubsetOfSize ==
  ASSUME NEW S, IsFiniteSet(S), NEW k \in Nat, Cardinality(S) >= k
  PROVE  \E T \in SUBSET S : Cardinality(T) = k
<1> DEFINE Bad == {T \in SUBSET S : Cardinality(T) >= k /\ \A U \in SUBSET T : Cardinality(U) # k}
<1>1. \A T \in SUBSET S : IsFiniteSet(T) /\ Cardinality(T) \in Nat
  BY FS_Subset, FS_CardinalityType
<1>2. {} \notin Bad
  <2>1. Cardinality({}) = 0
    BY FS_EmptySet
  <2> QED
    BY <2>1
<1>3. ASSUME NEW T \in Bad PROVE \E x \in T : T \ {x} \in Bad
  <2>1. T # {}
    BY <1>2
  <2>2. PICK x \in T : TRUE
    BY <2>1
  <2>3. Cardinality(T \ {x}) = Cardinality(T) - 1 /\ T \ {x} \in SUBSET S
    BY <1>1, <2>2, FS_RemoveElement
  <2>4. Cardinality(T) # k /\ Cardinality(T) >= k /\ Cardinality(T) \in Nat
    BY <1>1
  <2>5. Cardinality(T \ {x}) >= k
    BY <2>3, <2>4
  <2> QED
    BY <2>3, <2>5
<1>4. Bad = {}
  <2>1. Bad \subseteq SUBSET S
    OBVIOUS
  <2> HIDE DEF Bad
  <2> QED
    BY <1>2, <1>3, <2>1, TakeOneAway
<1> QED
  BY <1>4

LEMMA CardinalityOfSets == \A S : Sets!Cardinality(S) = Cardinality(S)
  BY DEF Sets!Cardinality, Cardinality

\* A relation that puts the elements of a set one after the other.
IsLineup(E, before) ==
  \A a, b, c \in E :
    /\ <<a, a>> \notin before
    /\ a # b => <<a, b>> \in before \/ <<b, a>> \in before
    /\ <<a, b>> \in before /\ <<b, c>> \in before => <<a, c>> \in before

Ahead(E, before, e) == {d \in E : <<d, e>> \in before}

\* Each place of the lineup is taken, and by one element.
LEMMA PlacesAreTaken ==
  ASSUME NEW E, IsFiniteSet(E), NEW before, IsLineup(E, before)
  PROVE  LET n == Cardinality(E)
             place(e) == Cardinality(Ahead(E, before, e))
         IN  /\ n \in Nat
             /\ \A i \in 1 .. n : \E e \in E : place(e) = i - 1
             /\ \A e \in E : place(e) \in 0 .. n - 1
             /\ \A d, e \in E : place(d) < place(e) <=> <<d, e>> \in before
<1> DEFINE n == Cardinality(E)
           place(e) == Cardinality(Ahead(E, before, e))
<1>1. n \in Nat
  BY FS_CardinalityType
<1>2. \A e \in E : Ahead(E, before, e) \in SUBSET E /\ e \notin Ahead(E, before, e)
  BY DEF Ahead, IsLineup
<1>3. \A e \in E : IsFiniteSet(Ahead(E, before, e)) /\ place(e) \in Nat
  BY <1>2, FS_Subset, FS_CardinalityType
<1>4. ASSUME NEW e \in E PROVE place(e) \in 0 .. n - 1
  <2>1. place(e) <= n /\ (n = place(e) => E = Ahead(E, before, e))
    BY <1>2, FS_Subset
  <2>2. place(e) # n
    BY <1>2, <2>1
  <2> HIDE DEF place, n
  <2> QED
    BY <1>1, <1>3, <2>1, <2>2
<1>5. ASSUME NEW d \in E, NEW e \in E, <<d, e>> \in before PROVE place(d) < place(e)
  <2>1. Ahead(E, before, d) \in SUBSET Ahead(E, before, e)
    BY <1>5 DEF Ahead, IsLineup
  <2>2. d \in Ahead(E, before, e) /\ d \notin Ahead(E, before, d)
    BY <1>2, <1>5 DEF Ahead
  <2>3. IsFiniteSet(Ahead(E, before, e))
    BY <1>3
  <2>4. place(d) <= place(e) /\ place(d) # place(e)
    BY <2>1, <2>2, <2>3, FS_Subset
  <2> HIDE DEF place
  <2> QED
    BY <1>3, <2>4
<1>6. \A d, e \in E : place(d) < place(e) <=> <<d, e>> \in before
  <2> SUFFICES ASSUME NEW d \in E, NEW e \in E, <<d, e>> \notin before
               PROVE  ~(place(d) < place(e))
    BY <1>5
  <2>1. d = e \/ place(e) < place(d)
    BY <1>5 DEF IsLineup
  <2> HIDE DEF place
  <2> QED
    BY <1>3, <2>1
<1>7. ASSUME NEW i \in 1 .. n PROVE \E e \in E : place(e) = i - 1
  <2> DEFINE f == [e \in E |-> place(e)]
  <2>1. f \in [E -> 0 .. n - 1]
    BY <1>4
  <2>2. \A d, e \in E : f[d] = f[e] => d = e
    <3> SUFFICES ASSUME NEW d \in E, NEW e \in E, d # e PROVE place(d) # place(e)
      OBVIOUS
    <3>1. place(d) < place(e) \/ place(e) < place(d)
      BY <1>5 DEF IsLineup
    <3> HIDE DEF place
    <3> QED
      BY <1>3, <3>1
  <2>3. f \in Injection(E, 0 .. n - 1)
    BY <2>1, <2>2 DEF Injection, IsInjective
  <2>4. IsFiniteSet(0 .. n - 1) /\ Cardinality(0 .. n - 1) = n
    <3> HIDE DEF n
    <3> QED
      BY <1>1, FS_Interval
  <2>5. f \in Surjection(E, 0 .. n - 1)
    BY <2>3, <2>4, FS_Injection
  <2>6. i - 1 \in 0 .. n - 1
    <3> HIDE DEF n
    <3> QED
      BY <1>1
  <2> QED
    BY <2>5, <2>6 DEF Surjection
<1> QED
  BY <1>1, <1>4, <1>6, <1>7

\* All the elements, one after the other.
ListsAll(f, E, before) ==
  LET n == Cardinality(E)
  IN  f \in [1 .. n -> E] /\ \A i, j \in 1 .. n : i < j => <<f[i], f[j]>> \in before

StandAtTheirPlaces(f, E, before) ==
  \A i \in 1 .. Cardinality(E) :
    \A e \in E : Cardinality(Ahead(E, before, e)) = i - 1 <=> e = f[i]

LEMMA PlaceInLineup ==
  ASSUME NEW E, IsFiniteSet(E), NEW before, IsLineup(E, before),
         NEW f, ListsAll(f, E, before)
  PROVE  StandAtTheirPlaces(f, E, before)
<1> DEFINE n == Cardinality(E)
           place(e) == Cardinality(Ahead(E, before, e))
           Early == {i \in 0 .. n : i >= 1 /\ place(f[i]) < i - 1}
           Late == {i \in 0 .. n : n - i >= 1 /\ place(f[n - i]) > n - i - 1}
<1>1. /\ n \in Nat
      /\ \A e \in E : place(e) \in 0 .. n - 1
      /\ \A d, e \in E : place(d) < place(e) <=> <<d, e>> \in before
  BY PlacesAreTaken
<1>0. f \in [1 .. n -> E] /\ \A i, j \in 1 .. n : i < j => <<f[i], f[j]>> \in before
  BY DEF ListsAll
<1> HIDE DEF n, place
<1>2. \A i \in 1 .. n : place(f[i]) \in 0 .. n - 1
  BY <1>0, <1>1
<1>3. \A i, j \in 1 .. n : i < j => place(f[i]) < place(f[j])
  BY <1>0, <1>1
<1>4. Early = {}
  <2>1. 0 \notin Early
    OBVIOUS
  <2>2. ASSUME NEW i \in 1 .. n, i - 1 \notin Early PROVE i \notin Early
    <3>1. CASE i = 1
      BY <1>1, <1>2, <3>1
    <3>2. CASE i > 1
      <4>1. i - 1 \in 1 .. n /\ i - 1 \in 0 .. n /\ i - 1 < i
        BY <1>1, <3>2
      <4>2. place(f[i - 1]) < place(f[i]) /\ place(f[i]) \in 0 .. n - 1
            /\ place(f[i - 1]) \in 0 .. n - 1
        BY <1>2, <1>3, <4>1
      <4>3. place(f[i - 1]) >= i - 2
        BY <1>1, <2>2, <4>1, <4>2
      <4> QED
        BY <1>1, <4>1, <4>2, <4>3
    <3> QED
      BY <3>1, <3>2
  <2>3. Early \subseteq 0 .. n
    OBVIOUS
  <2> HIDE DEF Early
  <2> QED
    BY <1>1, <2>1, <2>2, <2>3, NoCounterexample
<1>5. Late = {}
  <2>1. 0 \notin Late
    <3>1. n - 0 = n
      BY <1>1
    <3> SUFFICES ASSUME n >= 1 PROVE ~(place(f[n]) > n - 1)
      BY <3>1
    <3> QED
      BY <1>1, <1>2
  <2>2. ASSUME NEW i \in 1 .. n, i - 1 \notin Late PROVE i \notin Late
    <3> SUFFICES ASSUME n - i >= 1 PROVE ~(place(f[n - i]) > n - i - 1)
      OBVIOUS
    <3>1. /\ n - i \in 1 .. n /\ n - (i - 1) \in 1 .. n /\ n - i < n - (i - 1)
          /\ i - 1 \in 0 .. n
      BY <1>1
    <3>2. /\ place(f[n - i]) < place(f[n - (i - 1)])
          /\ place(f[n - i]) \in 0 .. n - 1 /\ place(f[n - (i - 1)]) \in 0 .. n - 1
      BY <1>2, <1>3, <3>1
    <3>3. ~(place(f[n - (i - 1)]) > n - (i - 1) - 1)
      BY <1>1, <2>2, <3>1
    <3> QED
      BY <1>1, <3>2, <3>3
  <2>3. Late \subseteq 0 .. n
    OBVIOUS
  <2> HIDE DEF Late
  <2> QED
    BY <1>1, <2>1, <2>2, <2>3, NoCounterexample
<1>6. ASSUME NEW i \in 1 .. n PROVE place(f[i]) = i - 1
  <2>1. i \in 0 .. n /\ n - i \in 0 .. n /\ n - (n - i) = i
    BY <1>1
  <2>2. ~(place(f[i]) < i - 1)
    BY <1>4, <2>1
  <2>3. ~(place(f[i]) > i - 1)
    <3>1. n - i \notin Late
      BY <1>5
    <3> QED
      BY <2>1, <3>1
  <2> QED
    BY <1>1, <1>2, <2>2, <2>3
<1>7. ASSUME NEW i \in 1 .. n, NEW e \in E PROVE place(e) = i - 1 <=> e = f[i]
  <2>1. f[i] \in E
    BY <1>0
  <2>2. ASSUME place(e) = i - 1 PROVE e = f[i]
    <3>1. ~(place(e) < place(f[i])) /\ ~(place(f[i]) < place(e))
      BY <1>1, <1>6, <2>2
    <3> QED
      BY <1>1, <2>1, <3>1 DEF IsLineup
  <2> QED
    BY <1>6, <2>2
<1> QED
  BY <1>7 DEF n, place, StandAtTheirPlaces

-----------------------------------------------------------------------------
(* Five cards *)

Fives == {five \in SUBSET Cards : Cardinality(five) = 5}

LEMMA FourSuits ==
  IsFiniteSet({"s", "h", "d", "c"}) /\ Cardinality({"s", "h", "d", "c"}) = 4
<1>1. IsFiniteSet({"s"}) /\ Cardinality({"s"}) = 1
  BY FS_Singleton
<1>2. IsFiniteSet({"s", "h"}) /\ Cardinality({"s", "h"}) = 2
  BY <1>1, FS_AddElement, {"s", "h"} = {"s"} \cup {"h"}, "h" \notin {"s"}
<1>3. IsFiniteSet({"s", "h", "d"}) /\ Cardinality({"s", "h", "d"}) = 3
  BY <1>2, FS_AddElement, {"s", "h", "d"} = {"s", "h"} \cup {"d"}, "d" \notin {"s", "h"}
<1>4. {"s", "h", "d", "c"} = {"s", "h", "d"} \cup {"c"} /\ "c" \notin {"s", "h", "d"}
  OBVIOUS
<1> QED
  BY <1>3, <1>4, FS_AddElement

LEMMA CardsAreFinite == IsFiniteSet(Cards)
<1>1. IsFiniteSet({"s", "h", "d", "c"}) /\ IsFiniteSet(2 .. 14)
  <2>1. IsFiniteSet(2 .. 14)
    BY FS_Interval, 2 \in Int, 14 \in Int
  <2> QED
    BY <2>1, FourSuits
<1> QED
  BY <1>1, FS_Product DEF Cards

\* Four cards at most have one value.
LEMMA TimesIs ==
  ASSUME NEW cards \in SUBSET Cards, NEW v \in RanksIn(cards)
  PROVE  /\ v \in 2 .. 14
         /\ IsFiniteSet({c \in cards : RankOf(c) = v})
         /\ Times(v, cards) \in 1 .. 4
<1> DEFINE Same == {c \in cards : RankOf(c) = v}
           suit == [c \in Same |-> SuitOf(c)]
<1>1. v \in 2 .. 14
  BY DEF RanksIn, RankOf, Cards
<1>2. suit \in [Same -> {"s", "h", "d", "c"}]
  BY DEF SuitOf, Cards
<1>3. \A c, d \in Same : suit[c] = suit[d] => c = d
  BY DEF RankOf, SuitOf, Cards
<1>4. suit \in Injection(Same, {"s", "h", "d", "c"})
  BY <1>2, <1>3 DEF Injection, IsInjective
<1>5. IsFiniteSet(Same) /\ Cardinality(Same) <= 4
  BY <1>4, FourSuits, FS_Injection
<1>6. Same # {}
  BY DEF RanksIn
<1>7. Cardinality(Same) \in Nat /\ Cardinality(Same) # 0
  BY <1>5, <1>6, FS_CardinalityType, FS_EmptySet
<1> HIDE DEF Same
<1>8. Cardinality(Same) \in 1 .. 4
  BY <1>5, <1>7
<1> QED
  BY <1>1, <1>5, <1>8 DEF Same, Times

\* The entries for five cards: five at most, no two of one value, each for as
\* many cards as have it.
LEMMA CountByValueIs ==
  ASSUME NEW five \in Fives
  PROVE  LET E == CountByValue(five)
         IN  /\ IsFiniteSet(five) /\ IsFiniteSet(E) /\ Cardinality(E) \in 1 .. 5
             /\ \A e \in E : /\ e.value \in 2 .. 14 /\ e.times \in 1 .. 4
                             /\ e.times = Cardinality({c \in five : RankOf(c) = e.value})
             /\ \A d, e \in E : d.value = e.value => d = e
             /\ \A c \in five : \E e \in E : e.value = RankOf(c)
<1> DEFINE E == CountByValue(five)
           entry(v) == [value |-> v, times |-> Times(v, five)]
           f == [c \in five |-> entry(RankOf(c))]
<1>1. five \in SUBSET Cards /\ IsFiniteSet(five) /\ Cardinality(five) = 5
  BY CardsAreFinite, FS_Subset DEF Fives
<1>2. E = {f[c] : c \in five}
  BY DEF CountByValue, RanksIn
<1>3. IsFiniteSet(E) /\ Cardinality(E) <= 5
  <2>1. five \subseteq DOMAIN f
    OBVIOUS
  <2> HIDE DEF E, f
  <2> QED
    BY <1>1, <1>2, <2>1, FiniteImage
<1>4. E # {}
  <2>1. five # {}
    BY <1>1, FS_EmptySet
  <2> QED
    BY <1>2, <2>1
<1>5. Cardinality(E) \in Nat /\ Cardinality(E) # 0
  BY <1>3, <1>4, FS_CardinalityType, FS_EmptySet
<1>6. \A e \in E : e.value \in RanksIn(five) /\ e = entry(e.value)
  BY DEF CountByValue
<1>7. ASSUME NEW e \in E
      PROVE  /\ e.value \in 2 .. 14 /\ e.times \in 1 .. 4
             /\ e.times = Cardinality({c \in five : RankOf(c) = e.value})
  <2>1. e.value \in RanksIn(five) /\ e.times = Times(e.value, five)
    BY <1>6
  <2> QED
    BY <1>1, <2>1, TimesIs DEF Times
<1>8. \A d, e \in E : d.value = e.value => d = e
  BY <1>6
<1>9. ASSUME NEW c \in five PROVE \E e \in E : e.value = RankOf(c)
  <2>1. f[c] \in E /\ f[c].value = RankOf(c)
    <3>1. f[c].value = RankOf(c)
      OBVIOUS
    <3> HIDE DEF E, f
    <3> QED
      BY <1>2, <3>1
  <2> QED
    BY <2>1
<1>10. Cardinality(E) \in 1 .. 5
  <2> HIDE DEF E
  <2> QED
    BY <1>3, <1>5
<1> QED
  BY <1>1, <1>3, <1>7, <1>8, <1>9, <1>10

LEMMA EntriesStandInLine ==
  ASSUME NEW E, \A e \in E : e.value \in 2 .. 14 /\ e.times \in 1 .. 4,
         \A d, e \in E : d.value = e.value => d = e
  PROVE  \A a, b, c \in E : /\ ~Before(a, a)
                            /\ a # b => Before(a, b) \/ Before(b, a)
                            /\ Before(a, b) /\ Before(b, c) => Before(a, c)
<1> SUFFICES ASSUME NEW a \in E, NEW b \in E, NEW c \in E
             PROVE  /\ ~Before(a, a)
                    /\ a # b => Before(a, b) \/ Before(b, a)
                    /\ Before(a, b) /\ Before(b, c) => Before(a, c)
  OBVIOUS
<1>1. /\ a.value \in Nat /\ a.times \in Nat /\ b.value \in Nat /\ b.times \in Nat
      /\ c.value \in Nat /\ c.times \in Nat
      /\ a # b => a.value # b.value
  OBVIOUS
<1> QED
  BY <1>1 DEF Before

\* The entries stand in a line, and groups lists them from its head.
LEMMA GroupsAre ==
  ASSUME NEW five \in Fives
  PROVE  LET E == CountByValue(five)
             n == Cardinality(E)
             g == Groups(five)
         IN  /\ n \in 1 .. 5 /\ g \in [1 .. n -> E]
             /\ \A i, j \in 1 .. n : i < j => /\ g[i] # g[j] /\ g[i].times >= g[j].times
                                            /\ Before(g[i], g[j])
             /\ \A e \in E : \E i \in 1 .. n : e = g[i]
<1> DEFINE E == CountByValue(five)
           n == Cardinality(E)
           g == Groups(five)
           before == {p \in E \X E : Before(p[1], p[2])}
           place(e) == Cardinality(Ahead(E, before, e))
<1>1. /\ IsFiniteSet(E) /\ n \in 1 .. 5
      /\ \A e \in E : e.value \in 2 .. 14 /\ e.times \in 1 .. 4
      /\ \A d, e \in E : d.value = e.value => d = e
  BY CountByValueIs
<1>2. g = [i \in 1 .. n |-> CHOOSE e \in E : Cardinality({d \in E : Before(d, e)}) = i - 1]
  BY DEF Groups
<1> HIDE DEF E, g
<1>3. ASSUME NEW e \in E PROVE {d \in E : Before(d, e)} = Ahead(E, before, e)
  BY DEF Ahead
<1>4. \A d, e \in E : <<d, e>> \in before <=> Before(d, e)
  OBVIOUS
<1> HIDE DEF before
<1>5. IsLineup(E, before)
  BY <1>1, <1>4, EntriesStandInLine DEF IsLineup
<1>6. /\ \A i \in 1 .. n : \E e \in E : place(e) = i - 1
      /\ \A e \in E : place(e) \in 0 .. n - 1
      /\ \A d, e \in E : place(d) < place(e) <=> <<d, e>> \in before
  BY <1>1, <1>5, PlacesAreTaken
<1> HIDE DEF n
<1>7. ASSUME NEW i \in 1 .. n PROVE g[i] \in E /\ place(g[i]) = i - 1
  <2>1. g[i] = CHOOSE e \in E : Cardinality({d \in E : Before(d, e)}) = i - 1
    BY <1>2
  <2>2. \E e \in E : Cardinality({d \in E : Before(d, e)}) = i - 1
    BY <1>3, <1>6
  <2>3. g[i] \in E /\ Cardinality({d \in E : Before(d, g[i])}) = i - 1
    BY <2>1, <2>2
  <2> QED
    BY <1>3, <2>3
<1>8. g \in [1 .. n -> E]
  BY <1>2, <1>7
<1>9. ASSUME NEW i \in 1 .. n, NEW j \in 1 .. n, i < j
      PROVE  g[i] # g[j] /\ g[i].times >= g[j].times /\ Before(g[i], g[j])
  <2>1. place(g[i]) = i - 1 /\ place(g[j]) = j - 1 /\ g[i] \in E /\ g[j] \in E
    BY <1>7
  <2>2. place(g[i]) < place(g[j]) /\ g[i] # g[j]
    <3> HIDE DEF place
    <3> QED
      BY <1>1, <1>9, <2>1
  <2>3. Before(g[i], g[j])
    BY <1>4, <1>6, <2>1, <2>2
  <2>4. g[i].times \in Nat /\ g[j].times \in Nat
    BY <1>1, <2>1
  <2> QED
    BY <2>2, <2>3, <2>4 DEF Before
<1>10. ASSUME NEW e \in E PROVE \E i \in 1 .. n : e = g[i]
  <2> DEFINE i == place(e) + 1
  <2>1. i \in 1 .. n /\ place(e) = i - 1 /\ place(e) \in Nat
    <3>1. place(e) \in 0 .. n - 1
      BY <1>6
    <3> HIDE DEF place
    <3> QED
      BY <1>1, <3>1
  <2> HIDE DEF i
  <2>2. place(g[i]) = place(e) /\ g[i] \in E
    BY <1>7, <2>1
  <2>3. ~(place(g[i]) < place(e)) /\ ~(place(e) < place(g[i]))
    <3> HIDE DEF place
    <3> QED
      BY <2>1, <2>2
  <2>4. <<e, g[i]>> \notin before /\ <<g[i], e>> \notin before
    BY <1>6, <2>2, <2>3
  <2> QED
    BY <1>5, <2>1, <2>2, <2>4 DEF IsLineup
<1> QED
  BY <1>1, <1>8, <1>9, <1>10 DEF E, n, g

\* They are the one list of the entries in this order.
LEMMA GroupsFrom ==
  ASSUME NEW five \in Fives,
         NEW f \in [1 .. Cardinality(CountByValue(five)) -> CountByValue(five)],
         \A i, j \in 1 .. Cardinality(CountByValue(five)) : i < j => Before(f[i], f[j])
  PROVE  Groups(five) = f
<1> DEFINE E == CountByValue(five)
           n == Cardinality(E)
           before == {p \in E \X E : Before(p[1], p[2])}
<1>1. /\ IsFiniteSet(E)
      /\ \A e \in E : e.value \in 2 .. 14 /\ e.times \in 1 .. 4
      /\ \A d, e \in E : d.value = e.value => d = e
  BY CountByValueIs
<1>2. Groups(five) = [i \in 1 .. n |-> CHOOSE e \in E : Cardinality({d \in E : Before(d, e)}) = i - 1]
  BY DEF Groups
<1>3. f \in [1 .. n -> E] /\ \A i, j \in 1 .. n : i < j => Before(f[i], f[j])
  OBVIOUS
<1> HIDE DEF E
<1>4. \A e \in E : {d \in E : Before(d, e)} = Ahead(E, before, e)
  BY DEF Ahead
<1>5. \A d, e \in E : <<d, e>> \in before <=> Before(d, e)
  OBVIOUS
<1> HIDE DEF before
<1>6. IsLineup(E, before)
  BY <1>1, <1>5, EntriesStandInLine DEF IsLineup
<1>7. \A i \in 1 .. n : \A e \in E : Cardinality(Ahead(E, before, e)) = i - 1 <=> e = f[i]
  <2>1. ListsAll(f, E, before)
    BY <1>3, <1>5 DEF ListsAll
  <2>2. StandAtTheirPlaces(f, E, before)
    BY <1>1, <1>6, <2>1, PlaceInLineup
  <2> QED
    BY <2>2 DEF StandAtTheirPlaces
<1>8. ASSUME NEW i \in 1 .. n
      PROVE  (CHOOSE e \in E : Cardinality({d \in E : Before(d, e)}) = i - 1) = f[i]
  BY <1>3, <1>4, <1>7
<1> QED
  BY <1>2, <1>3, <1>8

\* The cards of the first groups, group by group.
LEMMA GroupsAddUp ==
  ASSUME NEW five \in Fives
  PROVE  LET g == Groups(five)
             n == Cardinality(CountByValue(five))
             first(i) == {c \in five : \E j \in 1 .. i : g[j].value = RankOf(c)}
         IN  /\ Cardinality(first(0)) = 0 /\ Cardinality(first(n)) = 5
             /\ \A i \in 1 .. n :
                  /\ Cardinality(first(i)) = Cardinality(first(i - 1)) + g[i].times
                  /\ Cardinality(first(i)) \in Nat
<1> DEFINE E == CountByValue(five)
           n == Cardinality(E)
           g == Groups(five)
           first(i) == {c \in five : \E j \in 1 .. i : g[j].value = RankOf(c)}
           own(i) == {c \in five : RankOf(c) = g[i].value}
<1>1. /\ IsFiniteSet(five) /\ Cardinality(five) = 5
      /\ \A e \in E : e.times = Cardinality({c \in five : RankOf(c) = e.value})
      /\ \A d, e \in E : d.value = e.value => d = e
      /\ \A c \in five : \E e \in E : e.value = RankOf(c)
  BY CountByValueIs DEF Fives
<1>2. /\ n \in 1 .. 5 /\ g \in [1 .. n -> E]
      /\ \A i, j \in 1 .. n : i < j => g[i] # g[j]
      /\ \A e \in E : \E i \in 1 .. n : e = g[i]
  BY GroupsAre
<1> HIDE DEF E, n, g
<1>3. \A i : IsFiniteSet(first(i)) /\ Cardinality(first(i)) \in Nat
  BY <1>1, FS_Subset, FS_CardinalityType
<1>4. first(0) = {}
  OBVIOUS
<1>5. first(n) = five
  BY <1>1, <1>2
<1>6. ASSUME NEW i \in 1 .. n
      PROVE  Cardinality(first(i)) = Cardinality(first(i - 1)) + g[i].times
  <2>1. first(i) = first(i - 1) \cup own(i)
    <3>1. 1 .. i = (1 .. i - 1) \cup {i}
      BY <1>2
    <3> QED
      BY <3>1
  <2>2. first(i - 1) \cap own(i) = {}
    <3>1. ASSUME NEW c \in first(i - 1), RankOf(c) = g[i].value PROVE FALSE
      <4>1. PICK j \in 1 .. i - 1 : g[j].value = RankOf(c)
        OBVIOUS
      <4>2. j \in 1 .. n /\ j < i
        BY <1>2
      <4>3. g[j] \in E /\ g[i] \in E /\ g[j] # g[i]
        BY <1>2, <4>2
      <4> QED
        BY <1>1, <3>1, <4>1, <4>3
    <3> QED
      BY <3>1
  <2>3. g[i] \in E /\ Cardinality(own(i)) = g[i].times
    BY <1>1, <1>2
  <2>4. IsFiniteSet(own(i)) /\ Cardinality(own(i)) \in Nat
    BY <1>1, FS_Subset, FS_CardinalityType
  <2>5. IsFiniteSet(first(i - 1)) /\ Cardinality(first(i - 1)) \in Nat
    BY <1>3
  <2> HIDE DEF first, own
  <2>6. /\ Cardinality(first(i)) = Cardinality(first(i - 1)) + Cardinality(own(i))
                                     - Cardinality(first(i - 1) \cap own(i))
    BY <2>1, <2>4, <2>5, FS_Union
  <2>7. Cardinality(first(i - 1) \cap own(i)) = 0
    BY <2>2, FS_EmptySet
  <2> QED
    BY <2>3, <2>4, <2>5, <2>6, <2>7
<1> QED
  BY <1>1, <1>3, <1>4, <1>5, <1>6, FS_EmptySet DEF E, n, g

\* Five cards fall into 4 + 1, 3 + 2, 3 + 1 + 1, 2 + 2 + 1, 2 + 1 + 1 + 1 or five
\* values of their own.
Forms == {<<4, 1>>, <<3, 2>>, <<3, 1, 1>>, <<2, 2, 1>>, <<2, 1, 1, 1>>, <<1, 1, 1, 1, 1>>}

LEMMA FormsAre ==
  ASSUME NEW five \in Fives
  PROVE  [i \in DOMAIN Groups(five) |-> Groups(five)[i].times] \in Forms
<1> DEFINE E == CountByValue(five)
           n == Cardinality(E)
           g == Groups(five)
           c == [i \in DOMAIN g |-> g[i].times]
           upTo == [i \in 0 .. n |->
                      Cardinality({d \in five : \E j \in 1 .. i : g[j].value = RankOf(d)})]
<1>1. /\ n \in 1 .. 5 /\ g \in [1 .. n -> E] /\ DOMAIN g = 1 .. n
      /\ \A i, j \in 1 .. n : i < j => g[i].times >= g[j].times
  BY GroupsAre
<1>2. \A e \in E : e.times \in 1 .. 4
  BY CountByValueIs
<1>3. /\ upTo[0] = 0 /\ upTo[n] = 5
      /\ \A i \in 1 .. n : upTo[i] = upTo[i - 1] + g[i].times
  <2>1. /\ 0 \in 0 .. n /\ n \in 0 .. n
        /\ \A i \in 1 .. n : i \in 0 .. n /\ i - 1 \in 0 .. n
    <3> HIDE DEF n
    <3> QED
      BY <1>1
  <2> QED
    BY <2>1, GroupsAddUp
<1> HIDE DEF E, n, g, upTo
<1>4. /\ c = [i \in 1 .. n |-> c[i]]
      /\ \A i \in 1 .. n : c[i] \in 1 .. 4 /\ upTo[i] = upTo[i - 1] + c[i]
      /\ \A i, j \in 1 .. n : i < j => c[i] >= c[j]
  BY <1>1, <1>2, <1>3
<1> HIDE DEF c
<1>5. ASSUME n = 1 PROVE c \in Forms
  <2>1. c[1] \in 1 .. 4 /\ upTo[1] = upTo[0] + c[1]
    BY <1>4, <1>5
  <2> QED
    BY <1>3, <1>5, <2>1
<1>6. ASSUME n = 2 PROVE c \in Forms
  <2>1. /\ c[1] \in 1 .. 4 /\ c[2] \in 1 .. 4 /\ c[1] >= c[2]
        /\ upTo[1] = upTo[0] + c[1] /\ upTo[2] = upTo[1] + c[2]
    BY <1>4, <1>6
  <2>2. \/ c[1] = 4 /\ c[2] = 1
        \/ c[1] = 3 /\ c[2] = 2
    BY <1>3, <1>6, <2>1
  <2>3. c = <<4, 1>> \/ c = <<3, 2>>
    BY <1>4, <1>6, <2>2
  <2> QED
    BY <2>3 DEF Forms
<1>7. ASSUME n = 3 PROVE c \in Forms
  <2>1. /\ c[1] \in 1 .. 4 /\ c[2] \in 1 .. 4 /\ c[3] \in 1 .. 4
        /\ c[1] >= c[2] /\ c[2] >= c[3]
        /\ upTo[1] = upTo[0] + c[1] /\ upTo[2] = upTo[1] + c[2] /\ upTo[3] = upTo[2] + c[3]
    BY <1>4, <1>7
  <2>2. \/ c[1] = 3 /\ c[2] = 1 /\ c[3] = 1
        \/ c[1] = 2 /\ c[2] = 2 /\ c[3] = 1
    BY <1>3, <1>7, <2>1
  <2>3. c = <<3, 1, 1>> \/ c = <<2, 2, 1>>
    BY <1>4, <1>7, <2>2
  <2> QED
    BY <2>3 DEF Forms
<1>8. ASSUME n = 4 PROVE c \in Forms
  <2>1. /\ c[1] \in 1 .. 4 /\ c[2] \in 1 .. 4 /\ c[3] \in 1 .. 4 /\ c[4] \in 1 .. 4
        /\ c[1] >= c[2] /\ c[2] >= c[3] /\ c[3] >= c[4]
        /\ upTo[1] = upTo[0] + c[1] /\ upTo[2] = upTo[1] + c[2]
        /\ upTo[3] = upTo[2] + c[3] /\ upTo[4] = upTo[3] + c[4]
    BY <1>4, <1>8
  <2>2. c[1] = 2 /\ c[2] = 1 /\ c[3] = 1 /\ c[4] = 1
    BY <1>3, <1>8, <2>1
  <2>3. c = <<2, 1, 1, 1>>
    BY <1>4, <1>8, <2>2
  <2> QED
    BY <2>3 DEF Forms
<1>9. ASSUME n = 5 PROVE c \in Forms
  <2>1. /\ c[1] \in 1 .. 4 /\ c[2] \in 1 .. 4 /\ c[3] \in 1 .. 4 /\ c[4] \in 1 .. 4
        /\ c[5] \in 1 .. 4
        /\ upTo[1] = upTo[0] + c[1] /\ upTo[2] = upTo[1] + c[2]
        /\ upTo[3] = upTo[2] + c[3] /\ upTo[4] = upTo[3] + c[4] /\ upTo[5] = upTo[4] + c[5]
    BY <1>4, <1>9
  <2>2. c[1] = 1 /\ c[2] = 1 /\ c[3] = 1 /\ c[4] = 1 /\ c[5] = 1
    BY <1>3, <1>9, <2>1
  <2>3. c = <<1, 1, 1, 1, 1>>
    BY <1>4, <1>9, <2>2
  <2> QED
    BY <2>3 DEF Forms
<1> QED
  BY <1>1, <1>5, <1>6, <1>7, <1>8, <1>9 DEF c, g

LEMMA CategoryIs ==
  ASSUME NEW counts \in Forms, NEW straight \in BOOLEAN, NEW flush \in BOOLEAN
  PROVE  Category(counts, straight, flush) =
           IF counts = <<4, 1>> THEN 7
           ELSE IF counts = <<3, 2>> THEN 6
           ELSE IF counts = <<3, 1, 1>> THEN 3
           ELSE IF counts = <<2, 2, 1>> THEN 2
           ELSE IF counts = <<2, 1, 1, 1>> THEN 1
           ELSE IF straight THEN (IF flush THEN 8 ELSE 4) ELSE (IF flush THEN 5 ELSE 0)
BY DEF Category, Forms

-----------------------------------------------------------------------------
(* The hands of a showdown *)

\* The ranks compareHandRanks compares: a category and its tiebreakers.
Ranking == Seq(Nat)

LEMMA Evaluate5IsARanking ==
  ASSUME NEW five \in Fives
  PROVE  Evaluate5(five) \in Ranking
<1> DEFINE E == CountByValue(five)
           n == Cardinality(E)
           g == Groups(five)
           ranks == RanksIn(five)
           high == StraightHigh(ranks)
           flush == Cardinality({SuitOf(c) : c \in five}) = 1
           category == Category([i \in DOMAIN g |-> g[i].times], high # 0, flush)
           values == [i \in DOMAIN g |-> g[i].value]
<1>1. /\ n \in 1 .. 5 /\ g \in [1 .. n -> E]
      /\ \A e \in E : e.value \in 2 .. 14
  BY GroupsAre, CountByValueIs
<1>2. values \in Seq(Nat)
  <2> HIDE DEF E, n, g
  <2> QED
    BY <1>1
<1>3. high \in Nat
  <2>1. ranks \in SUBSET (0 .. 14) /\ ranks # {}
    <3>1. ranks \in SUBSET (0 .. 14)
      BY DEF Fives, RanksIn, RankOf, Cards
    <3>2. five # {}
      BY FS_EmptySet DEF Fives
    <3> QED
      BY <3>1, <3>2 DEF RanksIn
  <2>2. \E m \in ranks : \A i \in ranks : i <= m
    <3> HIDE DEF ranks
    <3> QED
      BY <2>1, GreatestNat, 14 \in Nat
  <2> DEFINE max == Sets!Max(ranks)
  <2>3. max \in ranks
    <3>1. \E m \in ranks : \A i \in ranks : m >= i
      BY <2>1, <2>2
    <3> HIDE DEF ranks
    <3> QED
      BY <3>1 DEF Sets!Max
  <2>4. max \in Nat
    <3> HIDE DEF ranks, max
    <3> QED
      BY <2>1, <2>3
  <2>5. high = max \/ high = 5 \/ high = 0
    BY DEF StraightHigh
  <2> HIDE DEF high, max
  <2> QED
    BY <2>4, <2>5
<1>4. category \in Nat
  <2>1. category \in {0, 1, 2, 3, 4, 5, 6, 7, 8}
    BY FormsAre, CategoryIs
  <2> HIDE DEF category
  <2> QED
    BY <2>1
<1>5. Evaluate5(five) = IF high # 0 THEN <<category, high>> ELSE <<category>> \o values
  BY DEF Evaluate5
<1> HIDE DEF category, values, high
<1> QED
  BY <1>2, <1>3, <1>4, <1>5 DEF Ranking

LEMMA AtIsANumber ==
  ASSUME NEW a \in Ranking, NEW i \in Nat
  PROVE  At(a, i) \in Nat
  BY DEF Ranking, At

\* From left to right, until two numbers differ.
LEMMA BelowIs ==
  ASSUME NEW a, NEW b
  PROVE  LET x(i) == At(a, i)
             y(i) == At(b, i)
         IN  Below(a, b) <=>
               \/ x(1) < y(1)
               \/ x(1) = y(1) /\ x(2) < y(2)
               \/ x(1) = y(1) /\ x(2) = y(2) /\ x(3) < y(3)
               \/ x(1) = y(1) /\ x(2) = y(2) /\ x(3) = y(3) /\ x(4) < y(4)
               \/ x(1) = y(1) /\ x(2) = y(2) /\ x(3) = y(3) /\ x(4) = y(4) /\ x(5) < y(5)
               \/ /\ x(1) = y(1) /\ x(2) = y(2) /\ x(3) = y(3) /\ x(4) = y(4) /\ x(5) = y(5)
                  /\ x(6) < y(6)
<1> DEFINE x(i) == At(a, i)
           y(i) == At(b, i)
           Differ(i) == x(i) < y(i) /\ \A j \in 1 .. i - 1 : x(j) = y(j)
<1>1. Below(a, b) <=> \E i \in 1 .. 6 : Differ(i)
  BY DEF Below
<1> HIDE DEF x, y
<1>2. /\ Differ(1) <=> x(1) < y(1)
      /\ Differ(2) <=> x(1) = y(1) /\ x(2) < y(2)
      /\ Differ(3) <=> x(1) = y(1) /\ x(2) = y(2) /\ x(3) < y(3)
  OBVIOUS
<1>3. /\ Differ(4) <=> x(1) = y(1) /\ x(2) = y(2) /\ x(3) = y(3) /\ x(4) < y(4)
      /\ Differ(5) <=> x(1) = y(1) /\ x(2) = y(2) /\ x(3) = y(3) /\ x(4) = y(4) /\ x(5) < y(5)
  OBVIOUS
<1>4. Differ(6) <=> /\ x(1) = y(1) /\ x(2) = y(2) /\ x(3) = y(3) /\ x(4) = y(4) /\ x(5) = y(5)
                    /\ x(6) < y(6)
  OBVIOUS
<1> HIDE DEF Differ
<1>5. (\E i \in 1 .. 6 : Differ(i))
        <=> Differ(1) \/ Differ(2) \/ Differ(3) \/ Differ(4) \/ Differ(5) \/ Differ(6)
  <2>1. 1 .. 6 = {1, 2, 3, 4, 5, 6}
    OBVIOUS
  <2> QED
    BY <2>1
<1> QED
  BY <1>1, <1>2, <1>3, <1>4, <1>5 DEF x, y

\* No two hands beat each other, and a hand that beats another beats a third one
\* or is between the two.
LEMMA BelowIsAnOrder ==
  ASSUME NEW a \in Ranking, NEW b \in Ranking, NEW c \in Ranking
  PROVE  /\ ~Below(a, a)
         /\ ~(Below(a, b) /\ Below(b, a))
         /\ Below(a, b) => Below(a, c) \/ Below(c, b)
         /\ Below(a, c) /\ Below(c, b) => Below(a, b)
<1> DEFINE x(i) == At(a, i)
           y(i) == At(b, i)
           z(i) == At(c, i)
<1>1. /\ x(1) \in Nat /\ x(2) \in Nat /\ x(3) \in Nat /\ x(4) \in Nat /\ x(5) \in Nat
      /\ x(6) \in Nat
      /\ y(1) \in Nat /\ y(2) \in Nat /\ y(3) \in Nat /\ y(4) \in Nat /\ y(5) \in Nat
      /\ y(6) \in Nat
      /\ z(1) \in Nat /\ z(2) \in Nat /\ z(3) \in Nat /\ z(4) \in Nat /\ z(5) \in Nat
      /\ z(6) \in Nat
  BY AtIsANumber
<1>2. ~Below(a, a)
  <2> HIDE DEF x
  <2> QED
    BY <1>1, BelowIs DEF x
<1>3. ~(Below(a, b) /\ Below(b, a))
  BY <1>1, BelowIs
<1>4. Below(a, b) => Below(a, c) \/ Below(c, b)
  BY <1>1, BelowIs
<1>5. Below(a, c) /\ Below(c, b) => Below(a, b)
  BY <1>1, BelowIs
<1> QED
  BY <1>2, <1>3, <1>4, <1>5

\* Seats that are neither above nor below each other share a place.
IsWeakOrder(below) ==
  \A s, t, u \in Seats :
    /\ <<s, s>> \notin below
    /\ ~(<<s, t>> \in below /\ <<t, s>> \in below)
    /\ <<s, t>> \in below => <<s, u>> \in below \/ <<u, t>> \in below

\* The first seat of each place, and those of the places up to that of s.
FirstOfPlace(below) ==
  {r \in Seats : \A t \in Seats : t < r => <<r, t>> \in below \/ <<t, r>> \in below}

UpTo(below, s) == {r \in FirstOfPlace(below) : <<s, r>> \notin below}

LEMMA PlaceHasFirst ==
  ASSUME NEW below, IsWeakOrder(below), NEW s \in Seats
  PROVE  \E r \in FirstOfPlace(below) : <<s, r>> \notin below /\ <<r, s>> \notin below
<1> DEFINE Same == {r \in Seats : <<s, r>> \notin below /\ <<r, s>> \notin below}
<1>1. s \in Same /\ Same \subseteq Nat
  BY SeatsAreNumbers DEF IsWeakOrder
<1>2. PICK r \in Same : \A t \in Same : r <= t
  <2> HIDE DEF Same
  <2> QED
    BY <1>1, LeastNat
<1>3. ASSUME NEW t \in Seats, t < r PROVE <<r, t>> \in below \/ <<t, r>> \in below
  <2>1. t \notin Same
    BY <1>1, <1>2, <1>3, SeatsAreNumbers
  <2> QED
    BY <1>2, <2>1 DEF IsWeakOrder
<1> QED
  BY <1>2, <1>3 DEF FirstOfPlace

LEMMA UpToIsFinite ==
  ASSUME NEW below, NEW s
  PROVE  /\ IsFiniteSet(UpTo(below, s)) /\ Cardinality(UpTo(below, s)) \in 0 .. N
         /\ UpTo(below, s) \subseteq FirstOfPlace(below)
         /\ FirstOfPlace(below) \subseteq Seats
<1>1. IsFiniteSet(Seats) /\ Cardinality(Seats) = N
  BY FS_Interval, NAssumption DEF Seats
<1>2. FirstOfPlace(below) \subseteq Seats
  BY DEF FirstOfPlace
<1>3. UpTo(below, s) \subseteq FirstOfPlace(below)
  BY DEF UpTo
<1>4. UpTo(below, s) \in SUBSET Seats
  BY <1>2, <1>3
<1>5. IsFiniteSet(UpTo(below, s)) /\ Cardinality(UpTo(below, s)) <= N
  BY <1>1, <1>4, FS_Subset
<1>6. Cardinality(UpTo(below, s)) \in Nat
  BY <1>5, FS_CardinalityType
<1> QED
  BY <1>2, <1>3, <1>5, <1>6, NAssumption

\* A seat that is lower has fewer places up to its own.
LEMMA UpToGrows ==
  ASSUME NEW below, IsWeakOrder(below), NEW s \in Seats, NEW t \in Seats
  PROVE  Cardinality(UpTo(below, s)) < Cardinality(UpTo(below, t)) <=> <<s, t>> \in below
<1>1. /\ Cardinality(UpTo(below, s)) \in 0 .. N /\ Cardinality(UpTo(below, t)) \in 0 .. N
      /\ IsFiniteSet(UpTo(below, s)) /\ IsFiniteSet(UpTo(below, t))
      /\ FirstOfPlace(below) \subseteq Seats
  BY UpToIsFinite
<1>2. ASSUME NEW u \in Seats, NEW v \in Seats, <<u, v>> \notin below
      PROVE  UpTo(below, v) \subseteq UpTo(below, u)
  BY <1>1, <1>2 DEF UpTo, IsWeakOrder
<1>3. CASE <<s, t>> \in below
  <2>1. UpTo(below, s) \in SUBSET UpTo(below, t)
    <3>1. <<t, s>> \notin below
      BY <1>3 DEF IsWeakOrder
    <3> QED
      BY <1>2, <3>1
  <2>2. PICK r \in FirstOfPlace(below) : <<t, r>> \notin below /\ <<r, t>> \notin below
    BY PlaceHasFirst
  <2>3. r \in UpTo(below, t) /\ r \notin UpTo(below, s)
    BY <1>1, <1>3, <2>2 DEF UpTo, IsWeakOrder
  <2>4. /\ Cardinality(UpTo(below, s)) <= Cardinality(UpTo(below, t))
        /\ Cardinality(UpTo(below, s)) # Cardinality(UpTo(below, t))
    BY <1>1, <2>1, <2>3, FS_Subset
  <2> QED
    BY <1>1, <1>3, <2>4
<1>4. CASE <<s, t>> \notin below
  <2>1. UpTo(below, t) \in SUBSET UpTo(below, s)
    BY <1>2, <1>4
  <2>2. Cardinality(UpTo(below, t)) <= Cardinality(UpTo(below, s))
    BY <1>1, <2>1, FS_Subset
  <2> QED
    BY <1>1, <1>4, <2>2
<1> QED
  BY <1>3, <1>4

\* The place right below that of a seat, if there is one, is one less.
LEMMA PlacesHaveNoGaps ==
  ASSUME NEW below, IsWeakOrder(below), NEW s \in Seats
  PROVE  \/ Cardinality(UpTo(below, s)) = 1
         \/ \E t \in Seats : Cardinality(UpTo(below, t)) = Cardinality(UpTo(below, s)) - 1
<1> DEFINE Place(t) == Cardinality(UpTo(below, t))
           Lower == {t \in Seats : <<t, s>> \in below}
<1>1. PICK r \in FirstOfPlace(below) : <<s, r>> \notin below /\ <<r, s>> \notin below
  BY PlaceHasFirst
<1>2. r \in Seats /\ FirstOfPlace(below) \subseteq Seats
  BY <1>1, UpToIsFinite
<1>3. r \in UpTo(below, s)
  BY <1>1 DEF UpTo
<1>4. ASSUME NEW q \in FirstOfPlace(below), q # r, <<s, q>> \notin below
      PROVE  <<q, s>> \in below
  <2>1. q < r \/ r < q
    BY <1>2, <1>4, SeatsAreNumbers
  <2>2. <<q, r>> \in below \/ <<r, q>> \in below
    BY <1>1, <1>2, <2>1 DEF FirstOfPlace
  <2> QED
    BY <1>1, <1>2, <1>4, <2>2 DEF IsWeakOrder
<1>5. CASE Lower = {}
  <2>1. UpTo(below, s) = {r}
    BY <1>2, <1>3, <1>4, <1>5 DEF UpTo
  <2> QED
    BY <2>1, FS_Singleton
<1>6. CASE Lower # {}
  <2> DEFINE Places == {Place(t) : t \in Lower}
  <2>1. Places \in SUBSET (0 .. N) /\ Places # {} /\ N \in Nat
    BY <1>6, UpToIsFinite, NAssumption
  <2>2. PICK m \in Places : \A i \in Places : i <= m
    <3> HIDE DEF Places
    <3> QED
      BY <2>1, GreatestNat
  <2>3. PICK t \in Lower : m = Place(t)
    BY <2>2
  <2>4. t \in Seats /\ <<t, s>> \in below /\ \A u \in Lower : Place(u) <= Place(t)
    BY <2>2, <2>3
  <2>5. ASSUME NEW q \in Lower PROVE <<t, q>> \notin below
    <3>1. Place(q) <= Place(t) /\ q \in Seats
      BY <2>4
    <3>2. Place(q) \in 0 .. N /\ Place(t) \in 0 .. N
      BY UpToIsFinite
    <3>3. ~(Place(t) < Place(q))
      BY <3>1, <3>2
    <3> QED
      BY <2>4, <3>1, <3>3, UpToGrows
  <2>6. UpTo(below, s) = UpTo(below, t) \cup {r}
    <3>1. ASSUME NEW q \in UpTo(below, s), q # r PROVE q \in UpTo(below, t)
      <4>1. q \in FirstOfPlace(below) /\ <<s, q>> \notin below /\ q \in Seats
        BY <1>2, <3>1 DEF UpTo
      <4>2. q \in Lower
        BY <1>4, <3>1, <4>1
      <4> QED
        BY <2>5, <4>1, <4>2 DEF UpTo
    <3>2. UpTo(below, t) \subseteq UpTo(below, s)
      <4>1. ASSUME NEW q \in UpTo(below, t) PROVE <<s, q>> \notin below
        <5>1. q \in Seats /\ <<t, q>> \notin below
          BY <1>2, <4>1 DEF UpTo
        <5> QED
          BY <2>4, <5>1 DEF IsWeakOrder
      <4> QED
        BY <4>1 DEF UpTo
    <3> QED
      BY <1>3, <3>1, <3>2
  <2>7. r \notin UpTo(below, t)
    <3>1. <<t, r>> \in below
      BY <1>1, <1>2, <2>4 DEF IsWeakOrder
    <3> QED
      BY <3>1 DEF UpTo
  <2>8. Place(s) = Place(t) + 1
    <3>1. IsFiniteSet(UpTo(below, t))
      BY UpToIsFinite
    <3> QED
      BY <2>6, <2>7, <3>1, FS_AddElement
  <2>9. Place(t) \in Nat
    <3>1. Place(t) \in 0 .. N
      BY UpToIsFinite
    <3> QED
      BY <3>1
  <2> HIDE DEF Place
  <2>10. Place(t) = Place(s) - 1
    BY <2>8, <2>9
  <2> QED
    BY <2>4, <2>10 DEF Place
<1> QED
  BY <1>5, <1>6

\* Who wins a layer of the pot by the hands of the seats.
BestHands(h, rank, level) ==
  {s \in Eligible(h, level) :
     \A t \in Eligible(h, level) : ~Below(rank[s], rank[t])}

\* Whatever the ranks of the seats' hands, one of the orders that a showdown is
\* resolved with is that of the ranks.
LEMMA RanksAreOrdered ==
  ASSUME NEW rank \in [Seats -> Ranking]
  PROVE  \E ranks \in Ranks :
           /\ \A s, t \in Seats :
                ranks[s] < ranks[t] <=> Below(rank[s], rank[t])
           /\ \A h, level : PotWinners(h, ranks, level) = BestHands(h, rank, level)
<1> DEFINE below == {p \in Seats \X Seats : Below(rank[p[1]], rank[p[2]])}
           ranks == [s \in Seats |-> Cardinality(UpTo(below, s))]
<1>1. \A s, t \in Seats : <<s, t>> \in below <=> Below(rank[s], rank[t])
  OBVIOUS
<1>2. IsWeakOrder(below)
  <2> HIDE DEF below
  <2>1. ASSUME NEW s \in Seats, NEW t \in Seats, NEW u \in Seats
        PROVE  /\ ~Below(rank[s], rank[s])
               /\ ~(Below(rank[s], rank[t]) /\ Below(rank[t], rank[s]))
               /\ Below(rank[s], rank[t]) =>
                    Below(rank[s], rank[u]) \/ Below(rank[u], rank[t])
    <3>1. rank[s] \in Ranking /\ rank[t] \in Ranking /\ rank[u] \in Ranking
      OBVIOUS
    <3> QED
      BY <3>1, BelowIsAnOrder
  <2> QED
    BY <1>1, <2>1 DEF IsWeakOrder
<1> HIDE DEF below
<1>3. ASSUME NEW s \in Seats PROVE ranks[s] \in Seats
  <2>1. ranks[s] = Cardinality(UpTo(below, s)) /\ ranks[s] \in 0 .. N
    BY UpToIsFinite
  <2>2. ranks[s] # 0
    <3>1. PICK r \in FirstOfPlace(below) : <<s, r>> \notin below
      BY <1>2, PlaceHasFirst
    <3>2. r \in UpTo(below, s)
      BY <3>1 DEF UpTo
    <3> QED
      BY <2>1, <3>2, UpToIsFinite, FS_EmptySet
  <2> QED
    BY <2>1, <2>2, NAssumption DEF Seats
<1>4. \A s, t \in Seats : ranks[s] < ranks[t] <=> <<s, t>> \in below
  BY <1>2, UpToGrows
<1>5. \A s \in Seats : ranks[s] = 1 \/ \E t \in Seats : ranks[t] = ranks[s] - 1
  BY <1>2, PlacesHaveNoGaps
<1>6. ranks \in [Seats -> Seats]
  BY <1>3
<1> HIDE DEF ranks
<1>7. ranks \in Ranks
  BY <1>5, <1>6 DEF Ranks
<1>8. ASSUME NEW h, NEW level
      PROVE  PotWinners(h, ranks, level) = BestHands(h, rank, level)
  <2>1. Eligible(h, level) \subseteq Seats
    BY DEF Eligible, Payers
  <2>2. \A s, t \in Eligible(h, level) :
          ranks[t] <= ranks[s] <=> ~Below(rank[s], rank[t])
    <3>1. ASSUME NEW s \in Seats, NEW t \in Seats
          PROVE  ranks[t] <= ranks[s] <=> ~(ranks[s] < ranks[t])
      <4>1. ranks[s] \in Nat /\ ranks[t] \in Nat
        BY <1>6, SeatsAreNumbers
      <4> QED
        BY <4>1
    <3> QED
      BY <1>1, <1>4, <2>1, <3>1
  <2> QED
    BY <2>2 DEF PotWinners, BestHands
<1> QED
  BY <1>1, <1>4, <1>7, <1>8

\* Of some hands one at least is beaten by none, and the evaluator keeps it.
THEOREM BestOfIsBest ==
  ASSUME NEW S, S \subseteq Ranking, IsFiniteSet(S), S # {}
  PROVE  /\ BestOf(S) \in S
         /\ \A rank \in S : ~Below(BestOf(S), rank)
<1> DEFINE HasBest(T) == \E best \in T : \A rank \in T : ~Below(best, rank)
           n   == Cardinality(S)
           Bad == {k \in 0 .. n : \E T \in SUBSET S :
                     T # {} /\ Cardinality(T) = k /\ ~HasBest(T)}
<1>1. n \in Nat
  BY FS_CardinalityType
<1>2. \A T \in SUBSET S : IsFiniteSet(T) /\ Cardinality(T) \in Nat /\ Cardinality(T) <= n
  BY FS_Subset, FS_CardinalityType
<1> HIDE DEF n
<1>3. 0 \notin Bad
  BY <1>2, FS_EmptySet
<1>4. ASSUME NEW k \in 1 .. n, k - 1 \notin Bad PROVE k \notin Bad
  <2>1. SUFFICES ASSUME NEW T \in SUBSET S, T # {}, Cardinality(T) = k
                 PROVE  HasBest(T)
    BY DEF Bad
  <2>2. PICK a \in T : TRUE
    BY <2>1
  <2> DEFINE Rest == T \ {a}
  <2>3. Rest \in SUBSET S /\ Cardinality(Rest) = k - 1 /\ a \in Ranking /\ T \subseteq Ranking
    BY <1>2, <2>1, <2>2, FS_RemoveElement
  <2>4. CASE Rest = {}
    <3>1. \A rank \in T : rank = a
      BY <2>4
    <3> QED
      BY <2>2, <2>3, <3>1, BelowIsAnOrder
  <2>5. CASE Rest # {}
    <3>1. HasBest(Rest)
      <4>1. k - 1 \in 0 .. n
        BY <1>1
      <4> HIDE DEF HasBest, Rest
      <4> QED
        BY <1>4, <2>3, <2>5, <4>1
    <3>2. PICK b \in Rest : \A rank \in Rest : ~Below(b, rank)
      BY <3>1
    <3>3. b \in Ranking /\ b \in T
      BY <2>3, <3>2
    <3>4. CASE Below(b, a)
      <4>1. ASSUME NEW rank \in T PROVE ~Below(a, rank)
        <5>1. rank \in Ranking /\ (rank = a \/ rank \in Rest)
          BY <2>3
        <5>2. ~Below(a, a)
          BY <2>3, BelowIsAnOrder
        <5>3. rank \in Rest => ~Below(b, rank)
          BY <3>2
        <5>4. Below(b, a) /\ Below(a, rank) => Below(b, rank)
          BY <2>3, <3>3, <5>1, BelowIsAnOrder
        <5> QED
          BY <3>4, <5>1, <5>2, <5>3, <5>4
      <4> QED
        BY <2>2, <4>1
    <3>5. CASE ~Below(b, a)
      <4>1. \A rank \in T : ~Below(b, rank)
        BY <3>2, <3>5
      <4> QED
        BY <3>3, <4>1
    <3> QED
      BY <3>4, <3>5
  <2> QED
    BY <2>4, <2>5
<1>5. Bad = {}
  <2>1. Bad \subseteq 0 .. n
    OBVIOUS
  <2> HIDE DEF Bad
  <2> QED
    BY <1>1, <1>3, <1>4, <2>1, NoCounterexample
<1>6. HasBest(S)
  <2>1. n \in 0 .. n /\ S \in SUBSET S /\ Cardinality(S) = n
    BY <1>1 DEF n
  <2> HIDE DEF HasBest
  <2> QED
    BY <1>5, <2>1
<1> QED
  BY <1>6 DEF BestOf

\* The best five of the cards of a hand.
LEMMA Evaluate7IsARanking ==
  ASSUME NEW cards \in SUBSET Cards, Cardinality(cards) >= 5
  PROVE  Evaluate7(cards) \in Ranking
<1> DEFINE fives == {five \in SUBSET cards : Cardinality(five) = 5}
           f == [five \in fives |-> Evaluate5(five)]
           ranks == {f[five] : five \in fives}
<1>1. IsFiniteSet(cards) /\ Cardinality(cards) \in Nat
  BY CardsAreFinite, FS_Subset, FS_CardinalityType
<1>2. fives \subseteq Fives
  BY DEF Fives
<1>3. IsFiniteSet(fives)
  <2>1. IsFiniteSet(SUBSET cards)
    BY <1>1, FS_SUBSET
  <2>2. fives \in SUBSET (SUBSET cards)
    OBVIOUS
  <2> HIDE DEF fives
  <2> QED
    BY <2>1, <2>2, FS_Subset
<1>4. fives # {}
  <2>1. PICK five \in SUBSET cards : Cardinality(five) = 5
    BY <1>1, SubsetOfSize
  <2> QED
    BY <2>1
<1>5. Evaluate7(cards) = BestOf(ranks)
  <2>1. Sets!kSubset(5, cards) = fives
    BY CardinalityOfSets DEF Sets!kSubset
  <2>2. {Evaluate5(five) : five \in fives} = ranks
    OBVIOUS
  <2> HIDE DEF ranks, fives
  <2> QED
    BY <2>1, <2>2 DEF Evaluate7
<1>6. ranks \subseteq Ranking /\ ranks # {}
  BY <1>2, <1>4, Evaluate5IsARanking
<1>7. IsFiniteSet(ranks)
  <2>1. fives \subseteq DOMAIN f
    OBVIOUS
  <2> HIDE DEF fives, f
  <2> QED
    BY <1>3, <2>1, FiniteImage
<1> HIDE DEF ranks
<1> QED
  BY <1>5, <1>6, <1>7, BestOfIsBest

\* Whatever hands the seats hold, one of the orders that a showdown is resolved
\* with is the order of compareHandRanks, and gives each layer of the pot to the
\* best hands that contest it: the strengths the engine is modelled with leave
\* out nothing that the evaluator may say (resolveShowdown, evaluate7CardHand).
THEOREM HandsAreOrdered ==
  ASSUME NEW hand \in [Seats -> SUBSET Cards], \A s \in Seats : Cardinality(hand[s]) >= 5
  PROVE  \E ranks \in Ranks :
           /\ \A s, t \in Seats :
                ranks[s] < ranks[t] <=> Below(Evaluate7(hand[s]), Evaluate7(hand[t]))
           /\ \A h, level :
                PotWinners(h, ranks, level)
                  = BestHands(h, [s \in Seats |-> Evaluate7(hand[s])], level)
<1> DEFINE rank == [s \in Seats |-> Evaluate7(hand[s])]
<1>1. rank \in [Seats -> Ranking]
  BY Evaluate7IsARanking
<1>2. \A s \in Seats : rank[s] = Evaluate7(hand[s])
  OBVIOUS
<1> HIDE DEF rank
<1>3. PICK ranks \in Ranks :
        /\ \A s, t \in Seats : ranks[s] < ranks[t] <=> Below(rank[s], rank[t])
        /\ \A h, level : PotWinners(h, ranks, level) = BestHands(h, rank, level)
  BY <1>1, RanksAreOrdered
<1> QED
  BY <1>2, <1>3 DEF rank

-----------------------------------------------------------------------------
(* Seven cards *)

LEMMA OneToOneImage ==
  ASSUME NEW S, IsFiniteSet(S), NEW f, S \subseteq DOMAIN f,
         \A x, y \in S : f[x] = f[y] => x = y
  PROVE  IsFiniteSet({f[x] : x \in S}) /\ Cardinality({f[x] : x \in S}) = Cardinality(S)
<1> DEFINE g == [x \in S |-> f[x]]
           T == {f[x] : x \in S}
<1>1. g \in Injection(S, T) /\ g \in Surjection(S, T)
  BY DEF Injection, IsInjective, Surjection
<1>2. IsFiniteSet(T)
  BY FiniteImage
<1> HIDE DEF g, T
<1>3. Cardinality(S) = Cardinality(T)
  BY <1>1, <1>2, FS_Injection
<1> QED
  BY <1>2, <1>3 DEF T

LEMMA UpToN ==
  ASSUME NEW n \in Nat
  PROVE  IsFiniteSet(1 .. n) /\ Cardinality(1 .. n) = n
  BY FS_Interval

\* A list of n of the values, from the highest down.
IsDown(f, n, ranks) ==
  f \in [1 .. n -> ranks] /\ \A i, j \in 1 .. n : i < j => f[i] > f[j]

LEMMA DownwardsIs ==
  ASSUME NEW ranks \in SUBSET (2 .. 14)
  PROVE  /\ IsDown(Downwards(ranks), Cardinality(ranks), ranks)
         /\ \A f : IsDown(f, Cardinality(ranks), ranks) => Downwards(ranks) = f
<1> DEFINE n == Cardinality(ranks)
           before == {p \in ranks \X ranks : p[1] > p[2]}
           place(v) == Cardinality(Ahead(ranks, before, v))
           d == Downwards(ranks)
<1>1. IsFiniteSet(ranks) /\ n \in Nat
  <2>1. IsFiniteSet(2 .. 14)
    BY FS_Interval, 2 \in Int, 14 \in Int
  <2> QED
    BY <2>1, FS_Subset, FS_CardinalityType
<1>2. ASSUME NEW v \in ranks PROVE {w \in ranks : w > v} = Ahead(ranks, before, v)
  BY DEF Ahead
<1>3. \A v, w \in ranks : <<v, w>> \in before <=> v > w
  OBVIOUS
<1> HIDE DEF before
<1>4. IsLineup(ranks, before)
  <2>1. ASSUME NEW a \in ranks, NEW b \in ranks, NEW c \in ranks
        PROVE  ~(a > a) /\ (a # b => a > b \/ b > a) /\ (a > b /\ b > c => a > c)
    <3>1. a \in Nat /\ b \in Nat /\ c \in Nat
      OBVIOUS
    <3> QED
      BY <3>1
  <2> QED
    BY <1>3, <2>1 DEF IsLineup
<1>5. /\ \A i \in 1 .. n : \E v \in ranks : place(v) = i - 1
      /\ \A v, w \in ranks : place(v) < place(w) <=> <<v, w>> \in before
      /\ \A v \in ranks : place(v) \in 0 .. n - 1
  BY <1>1, <1>4, PlacesAreTaken
<1>6. d = [i \in 1 .. n |-> CHOOSE v \in ranks : Cardinality({w \in ranks : w > v}) = i - 1]
  BY DEF Downwards
<1> HIDE DEF d, n
<1>7. ASSUME NEW i \in 1 .. n PROVE d[i] \in ranks /\ place(d[i]) = i - 1
  <2>1. \E v \in ranks : Cardinality({w \in ranks : w > v}) = i - 1
    BY <1>2, <1>5
  <2>2. d[i] \in ranks /\ Cardinality({w \in ranks : w > d[i]}) = i - 1
    BY <1>6, <2>1
  <2> QED
    BY <1>2, <2>2
<1>8. ASSUME NEW i \in 1 .. n, NEW j \in 1 .. n, i < j PROVE d[i] > d[j]
  <2>1. place(d[i]) = i - 1 /\ place(d[j]) = j - 1 /\ d[i] \in ranks /\ d[j] \in ranks
    BY <1>7
  <2>2. place(d[i]) < place(d[j])
    <3> HIDE DEF place
    <3> QED
      BY <1>1, <1>8, <2>1
  <2> QED
    BY <1>3, <1>5, <2>1, <2>2
<1>9. IsDown(d, n, ranks)
  BY <1>6, <1>7, <1>8 DEF IsDown
<1>10. ASSUME NEW f, IsDown(f, n, ranks) PROVE d = f
  <2>1. f \in [1 .. n -> ranks] /\ \A i, j \in 1 .. n : i < j => f[i] > f[j]
    BY <1>10 DEF IsDown
  <2>2. ListsAll(f, ranks, before)
    BY <1>3, <2>1 DEF ListsAll, n
  <2>3. StandAtTheirPlaces(f, ranks, before)
    BY <1>1, <1>4, <2>2, PlaceInLineup
  <2>4. \A i \in 1 .. n : d[i] = f[i]
    BY <1>7, <2>3 DEF StandAtTheirPlaces, n
  <2> QED
    BY <1>6, <2>1, <2>4
<1> QED
  BY <1>9, <1>10 DEF d, n

LEMMA KickersAre ==
  ASSUME NEW ranks \in SUBSET (2 .. 14), NEW n \in Nat, NEW f
  PROVE  f \in Kickers(n, ranks) <=> IsDown(f, n, ranks)
<1>1. ASSUME f \in Kickers(n, ranks) PROVE IsDown(f, n, ranks)
  <2>1. PICK some \in SUBSET ranks : Cardinality(some) = n /\ f = Downwards(some)
    BY <1>1, CardinalityOfSets DEF Kickers, Sets!kSubset
  <2>2. some \in SUBSET (2 .. 14)
    OBVIOUS
  <2>3. IsDown(f, n, some)
    BY <2>1, <2>2, DownwardsIs
  <2> QED
    BY <2>3 DEF IsDown
<1>2. ASSUME IsDown(f, n, ranks) PROVE f \in Kickers(n, ranks)
  <2> DEFINE some == {f[i] : i \in 1 .. n}
  <2>1. f \in [1 .. n -> ranks] /\ \A i, j \in 1 .. n : i < j => f[i] > f[j]
    BY <1>2 DEF IsDown
  <2>2. some \in SUBSET ranks
    BY <2>1
  <2>3. Cardinality(some) = n
    <3>1. ASSUME NEW i \in 1 .. n, NEW j \in 1 .. n, f[i] = f[j] PROVE i = j
      <4>1. /\ i < j => f[i] > f[j]
            /\ j < i => f[j] > f[i]
        BY <2>1
      <4>2. f[i] \in 2 .. 14 /\ f[j] \in 2 .. 14
        BY <2>1
      <4> QED
        BY <3>1, <4>1, <4>2
    <3>2. IsFiniteSet(1 .. n) /\ Cardinality(1 .. n) = n /\ 1 .. n \subseteq DOMAIN f
      BY <2>1, FS_Interval
    <3> HIDE DEF some
    <3> QED
      BY <3>1, <3>2, OneToOneImage DEF some
  <2>4. IsDown(f, n, some)
    BY <2>1 DEF IsDown
  <2> HIDE DEF some
  <2>5. Downwards(some) = f
    BY <2>2, <2>3, <2>4, DownwardsIs
  <2> QED
    BY <2>2, <2>3, <2>5, CardinalityOfSets DEF Kickers, Sets!kSubset
<1> QED
  BY <1>1, <1>2

LEMMA StraightHighIs ==
  ASSUME NEW ranks \in SUBSET (2 .. 14)
  PROVE  /\ StraightHigh(ranks) \in Nat
         /\ StraightHigh(ranks) # 0 =>
              Cardinality(ranks) = 5 /\ StraightHigh(ranks) \in Straights(ranks)
         /\ \A v \in ranks : ranks = v - 4 .. v => StraightHigh(ranks) = v
         /\ ranks = {14, 5, 4, 3, 2} => StraightHigh(ranks) = 5
<1> DEFINE max == Sets!Max(ranks)
           min == Sets!Min(ranks)
           high == StraightHigh(ranks)
           wheel == {14, 5, 4, 3, 2}
<1>1. IsFiniteSet(ranks) /\ Cardinality(ranks) \in Nat
  <2>1. IsFiniteSet(2 .. 14)
    BY FS_Interval, 2 \in Int, 14 \in Int
  <2> QED
    BY <2>1, FS_Subset, FS_CardinalityType
<1>2. ranks # {} => max \in ranks /\ \A v \in ranks : v <= max
  <2> SUFFICES ASSUME ranks # {} PROVE max \in ranks /\ \A v \in ranks : v <= max
    OBVIOUS
  <2>1. ranks \in SUBSET (0 .. 14)
    OBVIOUS
  <2>2. \E m \in ranks : \A v \in ranks : v <= m
    BY <2>1, GreatestNat, 14 \in Nat
  <2>3. \E m \in ranks : \A v \in ranks : m >= v
    BY <2>1, <2>2
  <2>4. max \in ranks /\ \A v \in ranks : max >= v
    BY <2>3 DEF Sets!Max
  <2> HIDE DEF max
  <2> QED
    BY <2>1, <2>4
<1>3. ranks # {} => min \in ranks /\ \A v \in ranks : min <= v
  <2> SUFFICES ASSUME ranks # {} PROVE min \in ranks /\ \A v \in ranks : min <= v
    OBVIOUS
  <2>1. ranks \subseteq Nat
    OBVIOUS
  <2>2. \E m \in ranks : \A v \in ranks : m <= v
    BY <2>1, LeastNat
  <2> QED
    BY <2>2 DEF Sets!Min
<1>4. IsFiniteSet(wheel) /\ Cardinality(wheel) = 5
  <2>1. IsFiniteSet(2 .. 5) /\ Cardinality(2 .. 5) = 4
    <3>1. IsFiniteSet(2 .. 5) /\ Cardinality(2 .. 5) = IF 2 > 5 THEN 0 ELSE 5 - 2 + 1
      BY FS_Interval, 2 \in Int, 5 \in Int
    <3> QED
      BY <3>1
  <2>2. wheel = (2 .. 5) \cup {14} /\ 14 \notin 2 .. 5
    OBVIOUS
  <2> QED
    BY <2>1, <2>2, FS_AddElement
<1>5. high = IF Cardinality(ranks) = 5 /\ max - min = 4 THEN max
             ELSE IF ranks = wheel THEN 5 ELSE 0
  BY DEF StraightHigh
<1>6. Cardinality(ranks) = 5 => ranks # {}
  BY FS_EmptySet
<1> HIDE DEF max, min, high
<1>7. CASE Cardinality(ranks) = 5 /\ max - min = 4
  <2>1. max \in 2 .. 14 /\ min = max - 4 /\ ranks \subseteq max - 4 .. max
    <3>1. /\ max \in ranks /\ min \in ranks
          /\ \A v \in ranks : min <= v /\ v <= max
      BY <1>2, <1>3, <1>6, <1>7
    <3>2. max \in 2 .. 14 /\ min \in 2 .. 14
      BY <3>1
    <3>3. min = max - 4
      BY <1>7, <3>2
    <3>4. ASSUME NEW v \in ranks PROVE v \in max - 4 .. max
      <4>1. v \in 2 .. 14 /\ min <= v /\ v <= max
        BY <3>1
      <4> QED
        BY <3>2, <3>3, <4>1
    <3> QED
      BY <3>2, <3>3, <3>4
  <2>2. IsFiniteSet(max - 4 .. max) /\ Cardinality(max - 4 .. max) = 5
    BY <2>1, FS_Interval
  <2>3. ranks = max - 4 .. max
    BY <1>7, <2>1, <2>2, FS_Subset
  <2>4. high = max /\ max \in Straights(ranks)
    BY <1>2, <1>5, <1>6, <1>7, <2>3 DEF Straights
  <2>5. \A v \in ranks : ranks = v - 4 .. v => v = max
    BY <1>2, <1>6, <1>7, <2>1
  <2>6. ranks # wheel
    <3>1. ranks = wheel => 14 \in ranks /\ 2 \in ranks
      OBVIOUS
    <3> QED
      BY <2>1, <3>1
  <2> QED
    BY <1>7, <2>1, <2>4, <2>5, <2>6 DEF high
<1>8. CASE ~(Cardinality(ranks) = 5 /\ max - min = 4)
  <2>1. ASSUME NEW v \in ranks, ranks = v - 4 .. v PROVE FALSE
    <3>1. v \in 2 .. 14 /\ v - 4 \in ranks
      BY <2>1
    <3>2. Cardinality(ranks) = 5
      BY <2>1, <3>1, FS_Interval
    <3>3. max = v /\ min = v - 4
      BY <1>2, <1>3, <2>1, <3>1
    <3> QED
      BY <1>8, <3>1, <3>2, <3>3
  <2>2. CASE ranks = wheel
    <3>1. high = 5
      BY <1>5, <1>8, <2>2
    <3>2. Cardinality(ranks) = 5
      BY <1>4, <2>2
    <3>3. 5 \in Straights(ranks)
      BY <2>2 DEF Straights
    <3> QED
      BY <2>1, <3>1, <3>2, <3>3 DEF high
  <2>3. CASE ranks # wheel
    <3>1. high = 0
      BY <1>5, <1>8, <2>3
    <3> QED
      BY <2>1, <2>3, <3>1 DEF high
  <2> QED
    BY <2>2, <2>3
<1> QED
  BY <1>7, <1>8

LEMMA StraightsGrow ==
  ASSUME NEW ranks \in SUBSET (2 .. 14), NEW more \in SUBSET (2 .. 14), ranks \subseteq more
  PROVE  Straights(ranks) \subseteq Straights(more)
  BY DEF Straights

\* The values of five cards are those of the groups.
LEMMA RanksOfFive ==
  ASSUME NEW five \in Fives
  PROVE  LET g == Groups(five)
             n == Cardinality(CountByValue(five))
         IN  /\ DOMAIN g = 1 .. n /\ n \in 1 .. 5
             /\ RanksIn(five) = {g[i].value : i \in 1 .. n}
             /\ RanksIn(five) \in SUBSET (2 .. 14)
             /\ Cardinality(RanksIn(five)) = n
             /\ \A i \in 1 .. n : g[i].times = Times(g[i].value, five)
             /\ \A i, j \in 1 .. n : i < j =>
                  /\ Before(g[i], g[j]) /\ g[i].value # g[j].value
<1> DEFINE E == CountByValue(five)
           n == Cardinality(E)
           g == Groups(five)
           value == [i \in 1 .. n |-> g[i].value]
<1>1. /\ n \in 1 .. 5 /\ g \in [1 .. n -> E]
      /\ \A i, j \in 1 .. n : i < j => g[i] # g[j] /\ Before(g[i], g[j])
      /\ \A e \in E : \E i \in 1 .. n : e = g[i]
  BY GroupsAre
<1>2. /\ \A e \in E : e.value \in 2 .. 14
      /\ \A d, e \in E : d.value = e.value => d = e
  BY CountByValueIs
<1>3. /\ \A e \in E : e.value \in RanksIn(five) /\ e.times = Times(e.value, five)
      /\ \A v \in RanksIn(five) : \E e \in E : e.value = v
  <2>1. \A e \in E : \E v \in RanksIn(five) : e = [value |-> v, times |-> Times(v, five)]
    BY DEF CountByValue
  <2>2. \A v \in RanksIn(five) : [value |-> v, times |-> Times(v, five)] \in E
    BY DEF CountByValue
  <2> HIDE DEF E
  <2>3. ASSUME NEW e \in E PROVE e.value \in RanksIn(five) /\ e.times = Times(e.value, five)
    <3>1. PICK v \in RanksIn(five) : e = [value |-> v, times |-> Times(v, five)]
      BY <2>1
    <3>2. e.value = v /\ e.times = Times(v, five)
      BY <3>1
    <3> QED
      BY <3>2
  <2>4. ASSUME NEW v \in RanksIn(five) PROVE \E e \in E : e.value = v
    <3>1. [value |-> v, times |-> Times(v, five)].value = v
      OBVIOUS
    <3> QED
      BY <2>2, <3>1
  <2> QED
    BY <2>3, <2>4
<1> HIDE DEF E, n, g
<1>4. RanksIn(five) = {value[i] : i \in 1 .. n}
  BY <1>1, <1>3
<1>5. \A i, j \in 1 .. n : value[i] = value[j] => i = j
  <2> SUFFICES ASSUME NEW i \in 1 .. n, NEW j \in 1 .. n, value[i] = value[j] PROVE i = j
    OBVIOUS
  <2>1. g[i] \in E /\ g[j] \in E /\ g[i] = g[j]
    BY <1>1, <1>2
  <2>2. ~(i < j) /\ ~(j < i)
    BY <1>1, <2>1
  <2> QED
    BY <1>1, <2>2
<1>6. Cardinality(RanksIn(five)) = n
  <2>1. IsFiniteSet(1 .. n) /\ Cardinality(1 .. n) = n
    BY <1>1, UpToN
  <2>2. 1 .. n \subseteq DOMAIN value
    OBVIOUS
  <2> DEFINE I == 1 .. n
  <2>3. IsFiniteSet(I) /\ I \subseteq DOMAIN value /\ \A x, y \in I : value[x] = value[y] => x = y
    BY <1>5, <2>1, <2>2
  <2> HIDE DEF value, I
  <2>4. Cardinality({value[i] : i \in I}) = Cardinality(I)
    BY <2>3, OneToOneImage
  <2> QED
    BY <1>4, <2>1, <2>4 DEF I
<1>7. RanksIn(five) \in SUBSET (2 .. 14)
  BY <1>1, <1>2, <1>4
<1>8. \A i, j \in 1 .. n : i < j => g[i].value # g[j].value
  BY <1>1, <1>2
<1>9. \A i \in 1 .. n : g[i].times = Times(g[i].value, five)
  BY <1>1, <1>3
<1>10. RanksIn(five) = {g[i].value : i \in 1 .. n}
  BY <1>4
<1> QED
  BY <1>1, <1>6, <1>7, <1>8, <1>9, <1>10 DEF E, n, g

\* What stands before a list.
LEMMA Prepend ==
  ASSUME NEW c \in Nat, NEW f \in Seq(Nat)
  PROVE  /\ Len(f) = 2 => <<c>> \o f = <<c, f[1], f[2]>>
         /\ Len(f) = 3 => <<c>> \o f = <<c, f[1], f[2], f[3]>>
         /\ Len(f) = 4 => <<c>> \o f = <<c, f[1], f[2], f[3], f[4]>>
         /\ Len(f) = 5 => <<c>> \o f = <<c, f[1], f[2], f[3], f[4], f[5]>>
<1> DEFINE r == <<c>> \o f
<1>1. <<c>> \in Seq(Nat) /\ Len(<<c>>) = 1 /\ <<c>>[1] = c
  OBVIOUS
<1>2. /\ r \in Seq(Nat) /\ Len(r) = Len(<<c>>) + Len(f)
      /\ \A i \in 1 .. Len(<<c>>) + Len(f) :
           r[i] = IF i <= Len(<<c>>) THEN <<c>>[i] ELSE f[i - Len(<<c>>)]
  BY <1>1, ConcatProperties
<1> HIDE DEF r
<1>3. Len(r) = 1 + Len(f) /\ Len(f) \in Nat /\ r[1] = c /\ \A i \in 1 .. Len(f) : r[i + 1] = f[i]
  BY <1>1, <1>2
<1>4. ASSUME Len(f) = 2 PROVE r = <<c, f[1], f[2]>>
  <2>1. r[2] = f[1] /\ r[3] = f[2] /\ r = <<r[1], r[2], r[3]>>
    BY <1>2, <1>3, <1>4
  <2> QED
    BY <1>3, <2>1
<1>5. ASSUME Len(f) = 3 PROVE r = <<c, f[1], f[2], f[3]>>
  <2>1. r[2] = f[1] /\ r[3] = f[2] /\ r[4] = f[3] /\ r = <<r[1], r[2], r[3], r[4]>>
    BY <1>2, <1>3, <1>5
  <2> QED
    BY <1>3, <2>1
<1>6. ASSUME Len(f) = 4 PROVE r = <<c, f[1], f[2], f[3], f[4]>>
  <2>1. /\ r[2] = f[1] /\ r[3] = f[2] /\ r[4] = f[3] /\ r[5] = f[4]
        /\ r = <<r[1], r[2], r[3], r[4], r[5]>>
    BY <1>2, <1>3, <1>6
  <2> QED
    BY <1>3, <2>1
<1>7. ASSUME Len(f) = 5 PROVE r = <<c, f[1], f[2], f[3], f[4], f[5]>>
  <2>1. /\ r[2] = f[1] /\ r[3] = f[2] /\ r[4] = f[3] /\ r[5] = f[4] /\ r[6] = f[5]
        /\ r = <<r[1], r[2], r[3], r[4], r[5], r[6]>>
    BY <1>2, <1>3, <1>7
  <2> QED
    BY <1>3, <2>1
<1> QED
  BY <1>4, <1>5, <1>6, <1>7 DEF r

LEMMA PrependTwo ==
  ASSUME NEW c \in Nat, NEW d \in Nat, NEW f \in Seq(Nat)
  PROVE  /\ Len(f) = 1 => <<c, d>> \o f = <<c, d, f[1]>>
         /\ Len(f) = 2 => <<c, d>> \o f = <<c, d, f[1], f[2]>>
         /\ Len(f) = 3 => <<c, d>> \o f = <<c, d, f[1], f[2], f[3]>>
<1> DEFINE r == <<c, d>> \o f
<1>1. <<c, d>> \in Seq(Nat) /\ Len(<<c, d>>) = 2 /\ <<c, d>>[1] = c /\ <<c, d>>[2] = d
  OBVIOUS
<1>2. /\ r \in Seq(Nat) /\ Len(r) = Len(<<c, d>>) + Len(f)
      /\ \A i \in 1 .. Len(<<c, d>>) + Len(f) :
           r[i] = IF i <= Len(<<c, d>>) THEN <<c, d>>[i] ELSE f[i - Len(<<c, d>>)]
  BY <1>1, ConcatProperties
<1> HIDE DEF r
<1>3. /\ Len(r) = 2 + Len(f) /\ Len(f) \in Nat /\ r[1] = c /\ r[2] = d
      /\ \A i \in 1 .. Len(f) : r[i + 2] = f[i]
  BY <1>1, <1>2
<1>4. ASSUME Len(f) = 1 PROVE r = <<c, d, f[1]>>
  <2>1. r[3] = f[1] /\ r = <<r[1], r[2], r[3]>>
    BY <1>2, <1>3, <1>4
  <2> QED
    BY <1>3, <2>1
<1>5. ASSUME Len(f) = 2 PROVE r = <<c, d, f[1], f[2]>>
  <2>1. r[3] = f[1] /\ r[4] = f[2] /\ r = <<r[1], r[2], r[3], r[4]>>
    BY <1>2, <1>3, <1>5
  <2> QED
    BY <1>3, <2>1
<1>6. ASSUME Len(f) = 3 PROVE r = <<c, d, f[1], f[2], f[3]>>
  <2>1. /\ r[3] = f[1] /\ r[4] = f[2] /\ r[5] = f[3]
        /\ r = <<r[1], r[2], r[3], r[4], r[5]>>
    BY <1>2, <1>3, <1>6
  <2> QED
    BY <1>3, <2>1
<1> QED
  BY <1>4, <1>5, <1>6 DEF r

\* What five cards are called, by how many there are of each value.
IsCalled(five, counts, v) ==
  LET high  == StraightHigh(RanksIn(five))
      flush == Cardinality({SuitOf(c) : c \in five}) = 1
      rank  == Evaluate5(five)
  IN  /\ counts = <<4, 1>> => rank = <<7, v[1], v[2]>>
      /\ counts = <<3, 2>> => rank = <<6, v[1], v[2]>>
      /\ counts = <<3, 1, 1>> => rank = <<3, v[1], v[2], v[3]>>
      /\ counts = <<2, 2, 1>> => rank = <<2, v[1], v[2], v[3]>>
      /\ counts = <<2, 1, 1, 1>> => rank = <<1, v[1], v[2], v[3], v[4]>>
      /\ counts = <<1, 1, 1, 1, 1>> =>
           rank = IF high # 0 THEN <<IF flush THEN 8 ELSE 4, high>>
                  ELSE <<IF flush THEN 5 ELSE 0, v[1], v[2], v[3], v[4], v[5]>>

LEMMA MadeHands ==
  ASSUME NEW five \in Fives
  PROVE  LET counts == [i \in DOMAIN Groups(five) |-> Groups(five)[i].times]
             v == [i \in DOMAIN Groups(five) |-> Groups(five)[i].value]
         IN  counts \in Forms /\ IsCalled(five, counts, v)
<1> DEFINE n == Cardinality(CountByValue(five))
           g == Groups(five)
           counts == [i \in DOMAIN g |-> g[i].times]
           v == [i \in DOMAIN g |-> g[i].value]
           high == StraightHigh(RanksIn(five))
           flush == Cardinality({SuitOf(c) : c \in five}) = 1
           category == Category(counts, high # 0, flush)
<1>1. DOMAIN g = 1 .. n /\ n \in 1 .. 5 /\ Cardinality(RanksIn(five)) = n
  BY RanksOfFive
<1>2. high # 0 => n = 5
  <2>1. RanksIn(five) \in SUBSET (2 .. 14)
    BY RanksOfFive
  <2> QED
    BY <1>1, <2>1, StraightHighIs
<1>3. counts \in Forms
  BY FormsAre
<1>4. Evaluate5(five) = IF high # 0 THEN <<category, high>> ELSE <<category>> \o v
  BY DEF Evaluate5
<1>5. DOMAIN counts = 1 .. n /\ v \in Seq(Nat) /\ Len(v) = n
  <2>1. \A i \in 1 .. n : v[i] \in Nat
    <3>1. RanksIn(five) = {g[i].value : i \in 1 .. n} /\ RanksIn(five) \in SUBSET (2 .. 14)
      BY RanksOfFive
    <3>2. \A i \in 1 .. n : v[i] = g[i].value
      BY <1>1
    <3> HIDE DEF g, n, v
    <3>3. ASSUME NEW i \in 1 .. n PROVE v[i] \in 2 .. 14
      <4>1. g[i].value \in RanksIn(five)
        BY <3>1
      <4> QED
        BY <3>1, <3>2, <4>1
    <3> QED
      BY <3>3
  <2>2. v = [i \in 1 .. n |-> v[i]] /\ n \in Nat
    BY <1>1
  <2>3. DOMAIN counts = 1 .. n
    BY <1>1
  <2> HIDE DEF v, n, counts
  <2> QED
    BY <2>1, <2>2, <2>3
<1>6. category = IF counts = <<4, 1>> THEN 7
                 ELSE IF counts = <<3, 2>> THEN 6
                 ELSE IF counts = <<3, 1, 1>> THEN 3
                 ELSE IF counts = <<2, 2, 1>> THEN 2
                 ELSE IF counts = <<2, 1, 1, 1>> THEN 1
                 ELSE IF high # 0 THEN (IF flush THEN 8 ELSE 4) ELSE (IF flush THEN 5 ELSE 0)
  BY <1>3, CategoryIs
<1> HIDE DEF n, g, counts, v, high, flush, category
<1>7. ASSUME NEW m \in 1 .. 5, DOMAIN counts = 1 .. m PROVE Len(v) = m /\ (m # 5 => high = 0)
  <2>1. m \in Nat /\ n \in Nat
    BY <1>1
  <2>2. Cardinality(1 .. m) = m /\ Cardinality(1 .. n) = n
    BY <2>1, UpToN
  <2>3. n = m
    BY <1>5, <1>7, <2>2
  <2> QED
    BY <1>2, <1>5, <2>3
<1>11. ASSUME counts = <<4, 1>> PROVE Evaluate5(five) = <<7, v[1], v[2]>>
  <2>1. Len(v) = 2 /\ high = 0
    <3>1. DOMAIN counts = 1 .. 2
      BY <1>11
    <3> QED
      BY <1>7, <3>1
  <2>2. category = 7
    BY <1>6, <1>11
  <2>3. <<7>> \o v = <<7, v[1], v[2]>>
    BY <1>5, <2>1, Prepend, 7 \in Nat
  <2> QED
    BY <1>4, <2>1, <2>2, <2>3
<1>12. ASSUME counts = <<3, 2>> PROVE Evaluate5(five) = <<6, v[1], v[2]>>
  <2>1. Len(v) = 2 /\ high = 0
    <3>1. DOMAIN counts = 1 .. 2
      BY <1>12
    <3> QED
      BY <1>7, <3>1
  <2>2. category = 6
    BY <1>6, <1>12
  <2>3. <<6>> \o v = <<6, v[1], v[2]>>
    BY <1>5, <2>1, Prepend, 6 \in Nat
  <2> QED
    BY <1>4, <2>1, <2>2, <2>3
<1>13. ASSUME counts = <<3, 1, 1>> PROVE Evaluate5(five) = <<3, v[1], v[2], v[3]>>
  <2>1. Len(v) = 3 /\ high = 0
    <3>1. DOMAIN counts = 1 .. 3
      BY <1>13
    <3> QED
      BY <1>7, <3>1
  <2>2. category = 3
    BY <1>6, <1>13
  <2>3. <<3>> \o v = <<3, v[1], v[2], v[3]>>
    BY <1>5, <2>1, Prepend, 3 \in Nat
  <2> QED
    BY <1>4, <2>1, <2>2, <2>3
<1>14. ASSUME counts = <<2, 2, 1>> PROVE Evaluate5(five) = <<2, v[1], v[2], v[3]>>
  <2>1. Len(v) = 3 /\ high = 0
    <3>1. DOMAIN counts = 1 .. 3
      BY <1>14
    <3> QED
      BY <1>7, <3>1
  <2>2. category = 2
    BY <1>6, <1>14
  <2>3. <<2>> \o v = <<2, v[1], v[2], v[3]>>
    BY <1>5, <2>1, Prepend, 2 \in Nat
  <2> QED
    BY <1>4, <2>1, <2>2, <2>3
<1>15. ASSUME counts = <<2, 1, 1, 1>> PROVE Evaluate5(five) = <<1, v[1], v[2], v[3], v[4]>>
  <2>1. Len(v) = 4 /\ high = 0
    <3>1. DOMAIN counts = 1 .. 4
      BY <1>15
    <3> QED
      BY <1>7, <3>1
  <2>2. category = 1
    BY <1>6, <1>15
  <2>3. <<1>> \o v = <<1, v[1], v[2], v[3], v[4]>>
    BY <1>5, <2>1, Prepend, 1 \in Nat
  <2> QED
    BY <1>4, <2>1, <2>2, <2>3
<1>16. ASSUME counts = <<1, 1, 1, 1, 1>>
       PROVE  Evaluate5(five) =
                IF high # 0 THEN <<IF flush THEN 8 ELSE 4, high>>
                ELSE <<IF flush THEN 5 ELSE 0, v[1], v[2], v[3], v[4], v[5]>>
  <2>1. Len(v) = 5
    <3>1. DOMAIN counts = 1 .. 5
      BY <1>16
    <3> QED
      BY <1>7, <3>1
  <2>2. category = IF high # 0 THEN (IF flush THEN 8 ELSE 4) ELSE (IF flush THEN 5 ELSE 0)
    BY <1>6, <1>16
  <2>3. CASE high # 0
    BY <1>4, <2>2, <2>3
  <2>4. CASE high = 0
    <3>1. category \in Nat /\ category = IF flush THEN 5 ELSE 0
      BY <2>2, <2>4
    <3>2. <<category>> \o v = <<category, v[1], v[2], v[3], v[4], v[5]>>
      BY <1>5, <2>1, <3>1, Prepend
    <3> QED
      BY <1>4, <2>4, <3>1, <3>2
  <2> QED
    BY <2>3, <2>4
<1> QED
  BY <1>3, <1>11, <1>12, <1>13, <1>14, <1>15, <1>16 DEF IsCalled, n, g, counts, v, high, flush

\* Values that some of the cards have as often as a form asks for.
IsMade(counts, v, cards) ==
  /\ counts \in Forms /\ v \in [DOMAIN counts -> 2 .. 14]
  /\ \A i \in DOMAIN counts : Times(v[i], cards) >= counts[i]
  /\ \A i, j \in DOMAIN counts :
       i < j => v[i] # v[j] /\ (counts[i] = counts[j] => v[i] > v[j])

LEMMA FormsAreDown ==
  ASSUME NEW counts \in Forms
  PROVE  \E n \in 2 .. 5 :
           /\ DOMAIN counts = 1 .. n
           /\ \A i \in 1 .. n : counts[i] \in 1 .. 4
           /\ \A i, j \in 1 .. n : i < j => counts[i] >= counts[j]
           /\ \A up \in [0 .. n -> Nat] :
                up[0] = 0 /\ (\A i \in 1 .. n : up[i] = up[i - 1] + counts[i]) => up[n] = 5
<1>1. CASE counts = <<4, 1>>
  <2>1. /\ DOMAIN counts = 1 .. 2 /\ counts[1] = 4 /\ counts[2] = 1 /\ 1 .. 2 = {1, 2}
    BY <1>1
  <2> WITNESS 2 \in 2 .. 5
  <2> QED
    BY <2>1
<1>2. CASE counts = <<3, 2>>
  <2>1. /\ DOMAIN counts = 1 .. 2 /\ counts[1] = 3 /\ counts[2] = 2 /\ 1 .. 2 = {1, 2}
    BY <1>2
  <2> WITNESS 2 \in 2 .. 5
  <2> QED
    BY <2>1
<1>3. CASE counts = <<3, 1, 1>>
  <2>1. /\ DOMAIN counts = 1 .. 3 /\ counts[1] = 3 /\ counts[2] = 1 /\ counts[3] = 1
        /\ 1 .. 3 = {1, 2, 3}
    BY <1>3
  <2> WITNESS 3 \in 2 .. 5
  <2> QED
    BY <2>1
<1>4. CASE counts = <<2, 2, 1>>
  <2>1. /\ DOMAIN counts = 1 .. 3 /\ counts[1] = 2 /\ counts[2] = 2 /\ counts[3] = 1
        /\ 1 .. 3 = {1, 2, 3}
    BY <1>4
  <2> WITNESS 3 \in 2 .. 5
  <2> QED
    BY <2>1
<1>5. CASE counts = <<2, 1, 1, 1>>
  <2>1. /\ DOMAIN counts = 1 .. 4 /\ counts[1] = 2 /\ counts[2] = 1 /\ counts[3] = 1
        /\ counts[4] = 1 /\ 1 .. 4 = {1, 2, 3, 4}
    BY <1>5
  <2> WITNESS 4 \in 2 .. 5
  <2> QED
    BY <2>1
<1>6. CASE counts = <<1, 1, 1, 1, 1>>
  <2>1. /\ DOMAIN counts = 1 .. 5 /\ counts[1] = 1 /\ counts[2] = 1 /\ counts[3] = 1
        /\ counts[4] = 1 /\ counts[5] = 1 /\ 1 .. 5 = {1, 2, 3, 4, 5}
    BY <1>6
  <2> WITNESS 5 \in 2 .. 5
  <2> QED
    BY <2>1
<1> QED
  BY <1>1, <1>2, <1>3, <1>4, <1>5, <1>6 DEF Forms

\* Five of the cards make it up.
LEMMA Realized ==
  ASSUME NEW cards \in SUBSET Cards, NEW counts, NEW v, IsMade(counts, v, cards)
  PROVE  \E five \in Fives :
           /\ five \subseteq cards
           /\ Groups(five) = [i \in DOMAIN counts |-> [value |-> v[i], times |-> counts[i]]]
<1>1. /\ counts \in Forms /\ v \in [DOMAIN counts -> 2 .. 14]
      /\ \A i \in DOMAIN counts : Times(v[i], cards) >= counts[i]
      /\ \A i, j \in DOMAIN counts :
           i < j => v[i] # v[j] /\ (counts[i] = counts[j] => v[i] > v[j])
  BY DEF IsMade
<1>2. PICK n \in 2 .. 5 :
           /\ DOMAIN counts = 1 .. n
           /\ \A i \in 1 .. n : counts[i] \in 1 .. 4
           /\ \A i, j \in 1 .. n : i < j => counts[i] >= counts[j]
           /\ \A up \in [0 .. n -> Nat] :
                up[0] = 0 /\ (\A i \in 1 .. n : up[i] = up[i - 1] + counts[i]) => up[n] = 5
  BY <1>1, FormsAreDown
<1> DEFINE like(i) == {c \in cards : RankOf(c) = v[i]}
           S == [i \in 1 .. n |-> CHOOSE T \in SUBSET like(i) : Cardinality(T) = counts[i]]
           first(i) == {c \in cards : \E j \in 1 .. i : c \in S[j]}
           five == first(n)
           up == [i \in 0 .. n |-> Cardinality(first(i))]
           f == [i \in 1 .. n |-> [value |-> v[i], times |-> counts[i]]]
           E == CountByValue(five)
<1>3. IsFiniteSet(cards) /\ \A T \in SUBSET cards : IsFiniteSet(T) /\ Cardinality(T) \in Nat
  BY CardsAreFinite, FS_Subset, FS_CardinalityType
<1>4. ASSUME NEW i \in 1 .. n
      PROVE  S[i] \in SUBSET like(i) /\ Cardinality(S[i]) = counts[i]
  <2>1. IsFiniteSet(like(i)) /\ Cardinality(like(i)) >= counts[i] /\ counts[i] \in Nat
    BY <1>1, <1>2, <1>3 DEF Times
  <2> HIDE DEF like
  <2>2. \E T \in SUBSET like(i) : Cardinality(T) = counts[i]
    BY <2>1, SubsetOfSize
  <2> QED
    BY <2>2
<1> HIDE DEF S
<1>5. \A i, j \in 1 .. n : \A c \in S[i], d \in S[j] :
        /\ c \in cards /\ RankOf(c) = v[i]
        /\ RankOf(c) = RankOf(d) => i = j
  <2> SUFFICES ASSUME NEW i \in 1 .. n, NEW j \in 1 .. n, NEW c \in S[i], NEW d \in S[j]
               PROVE  /\ c \in cards /\ RankOf(c) = v[i]
                      /\ RankOf(c) = RankOf(d) => i = j
    OBVIOUS
  <2>1. c \in cards /\ RankOf(c) = v[i] /\ RankOf(d) = v[j]
    BY <1>4
  <2>2. (i < j => v[i] # v[j]) /\ (j < i => v[j] # v[i])
    BY <1>1, <1>2
  <2> QED
    BY <1>2, <2>1, <2>2
<1>6. ASSUME NEW i \in 1 .. n PROVE up[i] = up[i - 1] + counts[i]
  <2>1. i \in 0 .. n /\ i - 1 \in 0 .. n /\ 1 .. i = (1 .. i - 1) \cup {i}
        /\ \A j \in 1 .. i - 1 : j \in 1 .. n /\ j # i
    BY <1>2
  <2>2. S[i] \subseteq cards
    BY <1>5
  <2>3. first(i) = first(i - 1) \cup S[i] /\ first(i - 1) \cap S[i] = {}
    <3>1. first(i) = first(i - 1) \cup S[i]
      BY <2>1, <2>2
    <3>2. first(i - 1) \cap S[i] = {}
      BY <1>5, <2>1
    <3> QED
      BY <3>1, <3>2
  <2>4. IsFiniteSet(first(i - 1)) /\ IsFiniteSet(S[i]) /\ Cardinality(first(i - 1)) \in Nat
    BY <1>3, <2>2
  <2>5. up[i] = Cardinality(first(i)) /\ up[i - 1] = Cardinality(first(i - 1))
    BY <2>1
  <2> HIDE DEF first, up
  <2>6. Cardinality(first(i)) = Cardinality(first(i - 1)) + Cardinality(S[i])
                                  - Cardinality(first(i - 1) \cap S[i])
    BY <2>3, <2>4, FS_Union
  <2>7. Cardinality(first(i - 1) \cap S[i]) = 0
    BY <2>3, FS_EmptySet
  <2> QED
    BY <1>2, <1>4, <2>4, <2>5, <2>6, <2>7
<1>7. up[0] = 0
  <2>1. first(0) = {} /\ 0 \in 0 .. n
    BY <1>2
  <2> HIDE DEF first
  <2> QED
    BY <2>1, FS_EmptySet
<1>8. up \in [0 .. n -> Nat]
  <2>1. \A i : first(i) \in SUBSET cards
    OBVIOUS
  <2> HIDE DEF first
  <2> QED
    BY <1>3, <2>1
<1>9. Cardinality(five) = 5
  <2>1. up[n] = Cardinality(five)
    BY <1>2
  <2> HIDE DEF up, five
  <2> QED
    BY <1>2, <1>6, <1>7, <1>8, <2>1
<1>10. five \in Fives /\ five \subseteq cards
  BY <1>9 DEF Fives
<1>11. ASSUME NEW i \in 1 .. n
       PROVE  v[i] \in RanksIn(five) /\ Times(v[i], five) = counts[i]
  <2>1. {c \in five : RankOf(c) = v[i]} = S[i]
    <3>1. ASSUME NEW c \in five, RankOf(c) = v[i] PROVE c \in S[i]
      <4>1. PICK j \in 1 .. n : c \in S[j]
        OBVIOUS
      <4>2. v[j] = v[i]
        BY <1>5, <3>1, <4>1
      <4>3. ~(i < j) /\ ~(j < i)
        BY <1>1, <1>2, <4>2
      <4>4. i = j
        BY <1>2, <4>3
      <4> QED
        BY <4>1, <4>4
    <3>2. ASSUME NEW c \in S[i] PROVE c \in five /\ RankOf(c) = v[i]
      BY <1>5
    <3> HIDE DEF five
    <3> QED
      BY <3>1, <3>2
  <2>2. S[i] # {}
    <3>1. counts[i] # 0
      BY <1>2
    <3> QED
      BY <1>4, <3>1, FS_EmptySet
  <2> HIDE DEF five
  <2> QED
    BY <1>4, <2>1, <2>2 DEF Times, RanksIn
<1>12. ASSUME NEW w \in RanksIn(five) PROVE \E i \in 1 .. n : w = v[i]
  BY <1>5 DEF RanksIn
<1> HIDE DEF five
<1>13. E = {f[i] : i \in 1 .. n}
  <2>1. \A i \in 1 .. n : f[i] = [value |-> v[i], times |-> Times(v[i], five)]
    BY <1>11
  <2>2. E = {[value |-> w, times |-> Times(w, five)] : w \in RanksIn(five)}
    BY DEF CountByValue
  <2> HIDE DEF f, E
  <2>3. ASSUME NEW e \in E PROVE e \in {f[i] : i \in 1 .. n}
    <3>1. PICK w \in RanksIn(five) : e = [value |-> w, times |-> Times(w, five)]
      BY <2>2
    <3>2. PICK i \in 1 .. n : w = v[i]
      BY <1>12
    <3>3. e = f[i]
      BY <2>1, <3>1, <3>2
    <3> QED
      BY <3>3
  <2>4. ASSUME NEW i \in 1 .. n PROVE f[i] \in E
    BY <1>11, <2>1, <2>2
  <2> QED
    BY <2>3, <2>4
<1>14. Cardinality(E) = n
  <2> DEFINE I == 1 .. n
  <2>1. \A i \in 1 .. n : f[i].value = v[i]
    OBVIOUS
  <2>2. ASSUME NEW i \in 1 .. n, NEW j \in 1 .. n, f[i] = f[j] PROVE i = j
    <3>1. v[i] = v[j]
      BY <2>1, <2>2
    <3>2. ~(i < j) /\ ~(j < i)
      BY <1>1, <1>2, <3>1
    <3> QED
      BY <1>2, <3>2
  <2>3. IsFiniteSet(I) /\ Cardinality(I) = n
    BY <1>2, UpToN
  <2>4. I \subseteq DOMAIN f /\ \A x, y \in I : f[x] = f[y] => x = y
    BY <2>2
  <2> HIDE DEF I, f, E
  <2>5. Cardinality({f[i] : i \in I}) = Cardinality(I)
    BY <2>3, <2>4, OneToOneImage
  <2> QED
    BY <1>13, <2>3, <2>5 DEF I
<1>15. ASSUME NEW i \in 1 .. n, NEW j \in 1 .. n, i < j PROVE Before(f[i], f[j])
  <2>1. /\ f[i].value = v[i] /\ f[i].times = counts[i]
        /\ f[j].value = v[j] /\ f[j].times = counts[j]
    OBVIOUS
  <2>2. /\ counts[i] >= counts[j] /\ (counts[i] = counts[j] => v[i] > v[j])
        /\ counts[i] \in 1 .. 4 /\ counts[j] \in 1 .. 4
    BY <1>1, <1>2, <1>15
  <2>3. counts[i] > counts[j] \/ counts[i] = counts[j]
    BY <2>2
  <2> HIDE DEF f
  <2> QED
    BY <2>1, <2>2, <2>3 DEF Before
<1>16. Groups(five) = f
  <2>1. f \in [1 .. Cardinality(E) -> E]
    <3>1. f \in [1 .. n -> E]
      BY <1>13
    <3> QED
      BY <1>14, <3>1
  <2>2. \A i, j \in 1 .. Cardinality(E) : i < j => Before(f[i], f[j])
    BY <1>14, <1>15
  <2> HIDE DEF f
  <2> QED
    BY <1>10, <2>1, <2>2, GroupsFrom
<1> QED
  BY <1>2, <1>10, <1>16

LEMMA HowOften ==
  ASSUME NEW cards \in SUBSET Cards, NEW w
  PROVE  /\ Times(w, cards) \in Nat
         /\ w \in RanksIn(cards) <=> Times(w, cards) >= 1
         /\ \A some \in SUBSET cards : Times(w, some) <= Times(w, cards)
<1> DEFINE of(some) == {c \in some : RankOf(c) = w}
<1>1. \A some \in SUBSET cards : IsFiniteSet(of(some)) /\ Times(w, some) = Cardinality(of(some))
  BY CardsAreFinite, FS_Subset DEF Times
<1>2. \A some \in SUBSET cards : of(some) \subseteq of(cards)
  OBVIOUS
<1>3. w \in RanksIn(cards) <=> of(cards) # {}
  BY DEF RanksIn
<1> HIDE DEF of
<1>4. Cardinality(of(cards)) \in Nat /\ (of(cards) = {} <=> Cardinality(of(cards)) = 0)
  BY <1>1, FS_CardinalityType, FS_EmptySet
<1>5. \A some \in SUBSET cards : Cardinality(of(some)) <= Cardinality(of(cards))
  BY <1>1, <1>2, FS_Subset
<1> QED
  BY <1>1, <1>3, <1>4, <1>5

\* Five of the cards are made of what the cards have.
LEMMA MadeFrom ==
  ASSUME NEW cards \in SUBSET Cards, NEW five \in Fives, five \subseteq cards
  PROVE  \E counts, v : /\ IsMade(counts, v, cards) /\ IsCalled(five, counts, v)
                        /\ v \in [DOMAIN counts -> RanksIn(five)]
<1> DEFINE g == Groups(five)
           n == Cardinality(CountByValue(five))
           counts == [i \in DOMAIN g |-> g[i].times]
           v == [i \in DOMAIN g |-> g[i].value]
<1>1. /\ DOMAIN g = 1 .. n /\ n \in 1 .. 5
      /\ RanksIn(five) = {g[i].value : i \in 1 .. n} /\ RanksIn(five) \in SUBSET (2 .. 14)
      /\ \A i \in 1 .. n : g[i].times = Times(g[i].value, five)
      /\ \A i, j \in 1 .. n : i < j => Before(g[i], g[j]) /\ g[i].value # g[j].value
  BY RanksOfFive
<1>2. counts \in Forms /\ IsCalled(five, counts, v)
  BY MadeHands
<1>3. DOMAIN counts = 1 .. n /\ DOMAIN v = 1 .. n
      /\ \A i \in 1 .. n : counts[i] = g[i].times /\ v[i] = g[i].value
  BY <1>1
<1>4. v = [i \in 1 .. n |-> v[i]]
  BY <1>1
<1> HIDE DEF g, n, counts, v
<1>5. \A i \in 1 .. n : v[i] \in RanksIn(five)
  BY <1>1, <1>3
<1>6. v \in [DOMAIN counts -> RanksIn(five)]
  BY <1>3, <1>4, <1>5
<1>7. v \in [DOMAIN counts -> 2 .. 14]
  BY <1>1, <1>6
<1>8. ASSUME NEW i \in 1 .. n PROVE Times(v[i], cards) >= counts[i]
  <2>1. counts[i] = Times(v[i], five)
    BY <1>1, <1>3
  <2> QED
    BY <2>1, HowOften
<1>9. ASSUME NEW i \in 1 .. n, NEW j \in 1 .. n, i < j
      PROVE  v[i] # v[j] /\ (counts[i] = counts[j] => v[i] > v[j])
  <2>1. counts[i] \in Nat /\ counts[j] \in Nat
    <3>1. counts[i] = Times(v[i], five) /\ counts[j] = Times(v[j], five)
      BY <1>1, <1>3
    <3>2. five \in SUBSET Cards
      BY DEF Fives
    <3> QED
      BY <3>1, <3>2, HowOften
  <2>2. Before(g[i], g[j]) /\ g[i].value # g[j].value
    BY <1>1, <1>9
  <2> QED
    BY <1>3, <2>1, <2>2 DEF Before
<1>10. IsMade(counts, v, cards)
  BY <1>2, <1>3, <1>7, <1>8, <1>9 DEF IsMade
<1> QED
  BY <1>2, <1>6, <1>10

\* What the cards have makes five of them.
LEMMA MadeOf ==
  ASSUME NEW cards \in SUBSET Cards, NEW counts, NEW v, IsMade(counts, v, cards)
  PROVE  \E five \in Fives : /\ five \subseteq cards /\ IsCalled(five, counts, v)
                             /\ RanksIn(five) = {v[i] : i \in DOMAIN counts}
<1>1. PICK five \in Fives :
        /\ five \subseteq cards
        /\ Groups(five) = [i \in DOMAIN counts |-> [value |-> v[i], times |-> counts[i]]]
  BY Realized
<1> DEFINE g == Groups(five)
           counted == [i \in DOMAIN g |-> g[i].times]
           valued == [i \in DOMAIN g |-> g[i].value]
<1>2. DOMAIN g = DOMAIN counts /\ \A i \in DOMAIN counts : g[i].value = v[i] /\ g[i].times = counts[i]
  BY <1>1
<1>3. v = [i \in DOMAIN counts |-> v[i]] /\ counts = [i \in DOMAIN counts |-> counts[i]]
  <2>1. v \in [DOMAIN counts -> 2 .. 14] /\ counts \in Forms
    BY DEF IsMade
  <2>2. v = [i \in DOMAIN counts |-> v[i]]
    BY <2>1
  <2>3. counts = [i \in DOMAIN counts |-> counts[i]]
    BY <2>1 DEF Forms
  <2> QED
    BY <2>2, <2>3
<1>4. IsCalled(five, counted, valued)
  BY MadeHands
<1>5. counted = counts /\ valued = v
  <2>1. counted = [i \in DOMAIN counts |-> counts[i]]
    BY <1>2
  <2>2. valued = [i \in DOMAIN counts |-> v[i]]
    BY <1>2
  <2> HIDE DEF counted, valued
  <2> QED
    BY <1>3, <2>1, <2>2
<1>6. RanksIn(five) = {v[i] : i \in DOMAIN counts}
  <2>1. RanksIn(five) = {g[i].value : i \in DOMAIN g}
    BY RanksOfFive
  <2> HIDE DEF g
  <2> QED
    BY <1>2, <2>1
<1> HIDE DEF counted, valued
<1> QED
  BY <1>1, <1>4, <1>5, <1>6

Suited(cards) == {c \in cards : Cardinality({d \in cards : SuitOf(d) = SuitOf(c)}) >= 5}

\* Of seven cards, those of which there are five of a suit are of one suit.
LEMMA SuitedAre ==
  ASSUME NEW cards \in SUBSET Cards, Cardinality(cards) = 7, NEW five \in Fives
  PROVE  /\ five \subseteq Suited(cards) => Cardinality({SuitOf(c) : c \in five}) = 1
         /\ five \subseteq cards /\ Cardinality({SuitOf(c) : c \in five}) = 1 =>
              five \subseteq Suited(cards)
<1> DEFINE like(c) == {d \in cards : SuitOf(d) = SuitOf(c)}
           suits == {SuitOf(c) : c \in five}
<1>1. \A T \in SUBSET cards : IsFiniteSet(T) /\ Cardinality(T) \in Nat /\ Cardinality(T) <= 7
  BY CardsAreFinite, FS_Subset, FS_CardinalityType
<1>2. \A c : like(c) \in SUBSET cards
  OBVIOUS
<1>3. PICK c \in five : TRUE
  <2>1. five # {}
    BY FS_EmptySet DEF Fives
  <2> QED
    BY <2>1
<1>4. ASSUME five \subseteq Suited(cards) PROVE Cardinality(suits) = 1
  <2>1. ASSUME NEW d \in five PROVE SuitOf(d) = SuitOf(c)
    <3> SUFFICES ASSUME SuitOf(d) # SuitOf(c) PROVE FALSE
      OBVIOUS
    <3>1. Cardinality(like(c)) >= 5 /\ Cardinality(like(d)) >= 5
      BY <1>3, <1>4 DEF Suited
    <3>2. like(c) \cap like(d) = {} /\ like(c) \cup like(d) \in SUBSET cards
      OBVIOUS
    <3> HIDE DEF like
    <3>3. Cardinality(like(c) \cup like(d))
            = Cardinality(like(c)) + Cardinality(like(d)) - Cardinality(like(c) \cap like(d))
      BY <1>1, <1>2, FS_Union
    <3>4. Cardinality(like(c) \cap like(d)) = 0
      BY <3>2, FS_EmptySet
    <3> QED
      BY <1>1, <1>2, <3>1, <3>2, <3>3, <3>4
  <2>2. suits = {SuitOf(c)}
    BY <1>3, <2>1
  <2> HIDE DEF suits
  <2> QED
    BY <2>2, FS_Singleton
<1>5. ASSUME five \subseteq cards, Cardinality(suits) = 1 PROVE five \subseteq Suited(cards)
  <2>1. IsFiniteSet(five) /\ Cardinality(five) = 5
    BY <1>1, <1>5 DEF Fives
  <2>2. IsFiniteSet(suits)
    <3> DEFINE suit == [d \in five |-> SuitOf(d)]
    <3>1. DOMAIN suit = five /\ suits = {suit[d] : d \in five}
      OBVIOUS
    <3> HIDE DEF suit, suits
    <3> QED
      BY <2>1, <3>1, FiniteImage
  <2>3. \A d \in five : SuitOf(d) \in suits
    OBVIOUS
  <2>4. ASSUME NEW d \in five PROVE d \in Suited(cards)
    <3>1. \A e \in five : SuitOf(e) = SuitOf(d)
      <4> HIDE DEF suits
      <4>1. \E s : suits = {s}
        BY <1>5, <2>2, FS_Singleton
      <4> QED
        BY <2>3, <4>1
    <3>2. five \subseteq like(d)
      BY <1>5, <3>1
    <3> HIDE DEF like
    <3>3. Cardinality(like(d)) >= 5
      BY <1>1, <1>2, <2>1, <3>2, FS_Subset
    <3> QED
      BY <1>5, <3>3 DEF Suited, like
  <2> QED
    BY <2>4
<1> QED
  BY <1>4, <1>5

\* A claim, one kind a line.
IsClaim(r, cards) ==
  LET ranks  == RanksIn(cards)
      suited == RanksIn(Suited(cards))
      has(v, n) == v \in ranks /\ Times(v, cards) >= n
  IN  \/ \E v \in Straights(suited) : r = <<8, v>>
      \/ \E v, k : has(v, 4) /\ IsDown(k, 1, ranks \ {v}) /\ r = <<7, v, k[1]>>
      \/ \E v, w : has(v, 3) /\ has(w, 2) /\ v # w /\ r = <<6, v, w>>
      \/ \E k : IsDown(k, 5, suited) /\ r = <<5, k[1], k[2], k[3], k[4], k[5]>>
      \/ \E v \in Straights(ranks) : r = <<4, v>>
      \/ \E v, k : has(v, 3) /\ IsDown(k, 2, ranks \ {v}) /\ r = <<3, v, k[1], k[2]>>
      \/ \E v, w, x : /\ has(v, 2) /\ has(w, 2) /\ has(x, 1) /\ v > w /\ x # v /\ x # w
                      /\ r = <<2, v, w, x>>
      \/ \E v, k : has(v, 2) /\ IsDown(k, 3, ranks \ {v}) /\ r = <<1, v, k[1], k[2], k[3]>>
      \/ \E k : IsDown(k, 5, ranks) /\ r = <<0, k[1], k[2], k[3], k[4], k[5]>>

LEMMA DownIsAList ==
  ASSUME NEW n \in Nat, NEW ranks \in SUBSET (2 .. 14), NEW k, IsDown(k, n, ranks)
  PROVE  k \in Seq(Nat) /\ Len(k) = n /\ \A i \in 1 .. n : k[i] \in ranks /\ k[i] \in Nat
<1>1. k \in [1 .. n -> ranks]
  BY DEF IsDown
<1>2. ASSUME NEW i \in 1 .. n PROVE k[i] \in ranks /\ k[i] \in Nat
  <2>1. k[i] \in ranks
    BY <1>1
  <2>2. k[i] \in 2 .. 14
    BY <2>1
  <2> QED
    BY <2>1, <2>2
<1>3. k = [i \in 1 .. n |-> k[i]]
  BY <1>1
<1> QED
  BY <1>2, <1>3

\* The kickers of a value, as they stand behind it; five cards of a suit or of none.
With(c, v, n, ranks) == {<<c, v>> \o k : k \in Kickers(n, ranks)}
Five(c, ranks)       == {<<c>> \o k : k \in Kickers(5, ranks)}

LEMMA WithOne ==
  ASSUME NEW ranks \in SUBSET (2 .. 14), NEW c \in Nat, NEW v \in Nat, NEW r
  PROVE  r \in With(c, v, 1, ranks) <=> \E k : IsDown(k, 1, ranks) /\ r = <<c, v, k[1]>>
<1>1. \A k : k \in Kickers(1, ranks) <=> IsDown(k, 1, ranks)
  BY KickersAre, 1 \in Nat
<1>2. ASSUME NEW k, IsDown(k, 1, ranks) PROVE <<c, v>> \o k = <<c, v, k[1]>>
  <2>1. k \in Seq(Nat) /\ Len(k) = 1
    BY <1>2, DownIsAList, 1 \in Nat
  <2> QED
    BY <2>1, PrependTwo
<1> QED
  BY <1>1, <1>2 DEF With

LEMMA WithTwo ==
  ASSUME NEW ranks \in SUBSET (2 .. 14), NEW c \in Nat, NEW v \in Nat, NEW r
  PROVE  r \in With(c, v, 2, ranks) <=> \E k : IsDown(k, 2, ranks) /\ r = <<c, v, k[1], k[2]>>
<1>1. \A k : k \in Kickers(2, ranks) <=> IsDown(k, 2, ranks)
  BY KickersAre, 2 \in Nat
<1>2. ASSUME NEW k, IsDown(k, 2, ranks) PROVE <<c, v>> \o k = <<c, v, k[1], k[2]>>
  <2>1. k \in Seq(Nat) /\ Len(k) = 2
    BY <1>2, DownIsAList, 2 \in Nat
  <2> QED
    BY <2>1, PrependTwo
<1> QED
  BY <1>1, <1>2 DEF With

LEMMA WithThree ==
  ASSUME NEW ranks \in SUBSET (2 .. 14), NEW c \in Nat, NEW v \in Nat, NEW r
  PROVE  r \in With(c, v, 3, ranks) <=> \E k : IsDown(k, 3, ranks) /\ r = <<c, v, k[1], k[2], k[3]>>
<1>1. \A k : k \in Kickers(3, ranks) <=> IsDown(k, 3, ranks)
  BY KickersAre, 3 \in Nat
<1>2. ASSUME NEW k, IsDown(k, 3, ranks) PROVE <<c, v>> \o k = <<c, v, k[1], k[2], k[3]>>
  <2>1. k \in Seq(Nat) /\ Len(k) = 3
    BY <1>2, DownIsAList, 3 \in Nat
  <2> QED
    BY <2>1, PrependTwo
<1> QED
  BY <1>1, <1>2 DEF With

LEMMA FiveAlike ==
  ASSUME NEW ranks \in SUBSET (2 .. 14), NEW c \in Nat, NEW r
  PROVE  r \in Five(c, ranks) <=>
           \E k : IsDown(k, 5, ranks) /\ r = <<c, k[1], k[2], k[3], k[4], k[5]>>
<1>1. \A k : k \in Kickers(5, ranks) <=> IsDown(k, 5, ranks)
  BY KickersAre, 5 \in Nat
<1>2. ASSUME NEW k, IsDown(k, 5, ranks) PROVE <<c>> \o k = <<c, k[1], k[2], k[3], k[4], k[5]>>
  <2>1. k \in Seq(Nat) /\ Len(k) = 5
    BY <1>2, DownIsAList, 5 \in Nat
  <2> QED
    BY <2>1, Prepend
<1> QED
  BY <1>1, <1>2 DEF Five

LEMMA ClaimsAre ==
  ASSUME NEW cards \in SUBSET Cards, NEW r
  PROVE  r \in Claims(cards) <=> IsClaim(r, cards)
<1> DEFINE ranks  == RanksIn(cards)
           suited == RanksIn(Suited(cards))
           of(n)  == {v \in ranks : Times(v, cards) >= n}
           with(category, n, v) == With(category, v, n, ranks \ {v})
           full == {t \in {<<6, v, w>> : v \in of(3), w \in of(2)} : t[2] # t[3]}
           pairs == {t \in {<<2, v, w, x>> : v, w \in of(2), x \in ranks} :
                       t[2] > t[3] /\ t[4] \notin {t[2], t[3]}}
           straightFlushes == {<<8, v>> : v \in Straights(suited)}
           quads == UNION {with(7, 1, v) : v \in of(4)}
           straights == {<<4, v>> : v \in Straights(ranks)}
           triples == UNION {with(3, 2, v) : v \in of(3)}
           twos == UNION {with(1, 3, v) : v \in of(2)}
<1>1. ranks \in SUBSET (2 .. 14) /\ suited \in SUBSET (2 .. 14)
  BY DEF RanksIn, RankOf, Cards, Suited
<1>2. \A v \in ranks : v \in Nat /\ ranks \ {v} \in SUBSET (2 .. 14) /\ Times(v, cards) >= 1
  <2>1. \A v \in ranks : Times(v, cards) >= 1
    BY HowOften
  <2> HIDE DEF ranks
  <2> QED
    BY <1>1, <2>1
<1>3. Claims(cards) = straightFlushes \cup quads \cup full \cup Five(5, suited)
                        \cup straights \cup triples \cup pairs \cup twos \cup Five(0, ranks)
  BY DEF Claims, Suited, With, Five
<1> HIDE DEF ranks, suited
<1>4. r \in UNION {with(7, 1, v) : v \in of(4)} <=>
        \E v, k : /\ v \in ranks /\ Times(v, cards) >= 4
                  /\ IsDown(k, 1, ranks \ {v}) /\ r = <<7, v, k[1]>>
  <2>1. ASSUME NEW v \in ranks
        PROVE  r \in with(7, 1, v) <=>
                 \E k : IsDown(k, 1, ranks \ {v}) /\ r = <<7, v, k[1]>>
    <3> DEFINE rest == ranks \ {v}
    <3>1. v \in Nat /\ rest \in SUBSET (2 .. 14) /\ 7 \in Nat
      BY <1>2
    <3> HIDE DEF rest
    <3>2. r \in With(7, v, 1, rest) <=>
            \E k : IsDown(k, 1, rest) /\ r = <<7, v, k[1]>>
      BY <3>1, WithOne
    <3> QED
      BY <3>2 DEF rest
  <2> HIDE DEF with
  <2> QED
    BY <2>1
<1>5. r \in UNION {with(3, 2, v) : v \in of(3)} <=>
        \E v, k : /\ v \in ranks /\ Times(v, cards) >= 3
                  /\ IsDown(k, 2, ranks \ {v}) /\ r = <<3, v, k[1], k[2]>>
  <2>1. ASSUME NEW v \in ranks
        PROVE  r \in with(3, 2, v) <=>
                 \E k : IsDown(k, 2, ranks \ {v}) /\ r = <<3, v, k[1], k[2]>>
    <3> DEFINE rest == ranks \ {v}
    <3>1. v \in Nat /\ rest \in SUBSET (2 .. 14) /\ 3 \in Nat
      BY <1>2
    <3> HIDE DEF rest
    <3>2. r \in With(3, v, 2, rest) <=>
            \E k : IsDown(k, 2, rest) /\ r = <<3, v, k[1], k[2]>>
      BY <3>1, WithTwo
    <3> QED
      BY <3>2 DEF rest
  <2> HIDE DEF with
  <2> QED
    BY <2>1
<1>6. r \in UNION {with(1, 3, v) : v \in of(2)} <=>
        \E v, k : /\ v \in ranks /\ Times(v, cards) >= 2
                  /\ IsDown(k, 3, ranks \ {v}) /\ r = <<1, v, k[1], k[2], k[3]>>
  <2>1. ASSUME NEW v \in ranks
        PROVE  r \in with(1, 3, v) <=>
                 \E k : IsDown(k, 3, ranks \ {v}) /\ r = <<1, v, k[1], k[2], k[3]>>
    <3> DEFINE rest == ranks \ {v}
    <3>1. v \in Nat /\ rest \in SUBSET (2 .. 14) /\ 1 \in Nat
      BY <1>2
    <3> HIDE DEF rest
    <3>2. r \in With(1, v, 3, rest) <=>
            \E k : IsDown(k, 3, rest) /\ r = <<1, v, k[1], k[2], k[3]>>
      BY <3>1, WithThree
    <3> QED
      BY <3>2 DEF rest
  <2> HIDE DEF with
  <2> QED
    BY <2>1
<1>7. r \in Five(5, suited) <=>
        \E k : IsDown(k, 5, suited) /\ r = <<5, k[1], k[2], k[3], k[4], k[5]>>
  BY <1>1, FiveAlike, 5 \in Nat
<1>8. r \in Five(0, ranks) <=>
        \E k : IsDown(k, 5, ranks) /\ r = <<0, k[1], k[2], k[3], k[4], k[5]>>
  BY <1>1, FiveAlike, 0 \in Nat
<1>9. r \in full <=>
        \E v, w : /\ v \in ranks /\ Times(v, cards) >= 3
                  /\ w \in ranks /\ Times(w, cards) >= 2 /\ v # w /\ r = <<6, v, w>>
  OBVIOUS
<1>10. r \in pairs <=>
         \E v, w, x : /\ v \in ranks /\ Times(v, cards) >= 2
                      /\ w \in ranks /\ Times(w, cards) >= 2
                      /\ x \in ranks /\ Times(x, cards) >= 1
                      /\ v > w /\ x # v /\ x # w /\ r = <<2, v, w, x>>
  BY <1>2
<1>11. /\ r \in {<<8, v>> : v \in Straights(suited)} <=> \E v \in Straights(suited) : r = <<8, v>>
       /\ r \in {<<4, v>> : v \in Straights(ranks)} <=> \E v \in Straights(ranks) : r = <<4, v>>
  OBVIOUS
<1>12. r \in Claims(cards) <=>
         \/ r \in straightFlushes \/ r \in quads \/ r \in full \/ r \in Five(5, suited)
         \/ r \in straights \/ r \in triples \/ r \in pairs \/ r \in twos
         \/ r \in Five(0, ranks)
  <2> HIDE DEF full, pairs, with, of, straightFlushes, quads, straights, triples, twos
  <2> QED
    BY <1>3
<1> HIDE DEF full, pairs, with, of
<1> QED
  BY <1>4, <1>5, <1>6, <1>7, <1>8, <1>9, <1>10, <1>11, <1>12 DEF IsClaim, ranks, suited

LEMMA FiveSingles ==
  ASSUME NEW cards \in SUBSET Cards, NEW k, IsDown(k, 5, RanksIn(cards))
  PROVE  IsMade(<<1, 1, 1, 1, 1>>, k, cards)
<1> DEFINE counts == <<1, 1, 1, 1, 1>>
<1>1. DOMAIN counts = 1 .. 5 /\ counts \in Forms /\ \A i \in 1 .. 5 : counts[i] = 1
  BY DEF Forms
<1>2. RanksIn(cards) \in SUBSET (2 .. 14)
  BY DEF RanksIn, RankOf, Cards
<1>3. k \in [1 .. 5 -> RanksIn(cards)] /\ \A i, j \in 1 .. 5 : i < j => k[i] > k[j]
  BY DEF IsDown
<1>4. \A i \in 1 .. 5 : k[i] \in RanksIn(cards) /\ k[i] \in Nat /\ Times(k[i], cards) >= 1
  BY <1>2, <1>3, HowOften
<1> HIDE DEF counts
<1>5. k \in [1 .. 5 -> 2 .. 14]
  BY <1>2, <1>3
<1>6. \A i, j \in 1 .. 5 : i < j => k[i] # k[j] /\ k[i] > k[j]
  BY <1>3, <1>4
<1>7. IsMade(counts, k, cards)
  BY <1>1, <1>4, <1>5, <1>6 DEF IsMade
<1> QED
  BY <1>7 DEF counts

LEMMA StraightMade ==
  ASSUME NEW ranks \in SUBSET (2 .. 14), NEW v \in Straights(ranks)
  PROVE  /\ v \in 2 .. 14
         /\ \E k : IsDown(k, 5, ranks) /\ StraightHigh({k[i] : i \in 1 .. 5}) = v
<1>0. 1 .. 5 = {1, 2, 3, 4, 5}
  OBVIOUS
<1>1. CASE v \in ranks /\ v - 4 .. v \subseteq ranks
  <2> DEFINE k == [i \in 1 .. 5 |-> v - i + 1]
  <2>1. v \in 2 .. 14
    BY <1>1
  <2>2. {k[i] : i \in 1 .. 5} = v - 4 .. v
    <3>1. v - 4 .. v = {v, v - 1, v - 2, v - 3, v - 4}
      BY <2>1
    <3>2. {k[i] : i \in 1 .. 5} = {k[1], k[2], k[3], k[4], k[5]}
      BY <1>0
    <3>3. k[1] = v /\ k[2] = v - 1 /\ k[3] = v - 2 /\ k[4] = v - 3 /\ k[5] = v - 4
      BY <2>1
    <3> HIDE DEF k
    <3> QED
      BY <3>1, <3>2, <3>3
  <2>3. IsDown(k, 5, ranks)
    <3>1. \A i \in 1 .. 5 : k[i] \in v - 4 .. v
      BY <2>1
    <3>2. \A i, j \in 1 .. 5 : i < j => k[i] > k[j]
      BY <2>1
    <3>3. k \in [1 .. 5 -> ranks]
      BY <1>1, <3>1
    <3> HIDE DEF k
    <3> QED
      BY <3>2, <3>3 DEF IsDown
  <2>4. v - 4 .. v \in SUBSET (2 .. 14) /\ v \in v - 4 .. v
    BY <1>1, <2>1
  <2>5. StraightHigh(v - 4 .. v) = v
    BY <2>4, StraightHighIs
  <2> QED
    BY <2>1, <2>2, <2>3, <2>5
<1>2. CASE v = 5 /\ {14, 2, 3, 4, 5} \subseteq ranks
  <2> DEFINE k == <<14, 5, 4, 3, 2>>
  <2>1. {k[i] : i \in 1 .. 5} = {14, 5, 4, 3, 2}
    BY <1>0
  <2>2. IsDown(k, 5, ranks)
    <3>1. k \in [1 .. 5 -> ranks]
      BY <1>0, <1>2
    <3>2. \A i, j \in 1 .. 5 : i < j => k[i] > k[j]
      BY <1>0
    <3> QED
      BY <3>1, <3>2 DEF IsDown
  <2>3. {14, 5, 4, 3, 2} \in SUBSET (2 .. 14)
    OBVIOUS
  <2>4. StraightHigh({14, 5, 4, 3, 2}) = 5
    BY <2>3, StraightHighIs
  <2> QED
    BY <1>2, <2>1, <2>2, <2>4
<1> QED
  BY <1>1, <1>2 DEF Straights

\* What five of the seven cards are called is a claim.
LEMMA FiveMayBeCalledThat ==
  ASSUME NEW cards \in SUBSET Cards, Cardinality(cards) = 7,
         NEW five \in Fives, five \subseteq cards
  PROVE  Evaluate5(five) \in Claims(cards)
<1> DEFINE ranks  == RanksIn(cards)
           suited == RanksIn(Suited(cards))
           own    == RanksIn(five)
           high   == StraightHigh(own)
           flush  == Cardinality({SuitOf(c) : c \in five}) = 1
           r      == Evaluate5(five)
<1>1. PICK counts, v : /\ IsMade(counts, v, cards) /\ IsCalled(five, counts, v)
                       /\ v \in [DOMAIN counts -> own]
  BY MadeFrom
<1>2. /\ counts \in Forms /\ \A i \in DOMAIN counts : Times(v[i], cards) >= counts[i]
      /\ \A i, j \in DOMAIN counts :
           i < j => v[i] # v[j] /\ (counts[i] = counts[j] => v[i] > v[j])
  BY <1>1 DEF IsMade
<1>3. /\ counts = <<4, 1>> => r = <<7, v[1], v[2]>>
      /\ counts = <<3, 2>> => r = <<6, v[1], v[2]>>
      /\ counts = <<3, 1, 1>> => r = <<3, v[1], v[2], v[3]>>
      /\ counts = <<2, 2, 1>> => r = <<2, v[1], v[2], v[3]>>
      /\ counts = <<2, 1, 1, 1>> => r = <<1, v[1], v[2], v[3], v[4]>>
      /\ counts = <<1, 1, 1, 1, 1>> =>
           r = IF high # 0 THEN <<IF flush THEN 8 ELSE 4, high>>
               ELSE <<IF flush THEN 5 ELSE 0, v[1], v[2], v[3], v[4], v[5]>>
  BY <1>1 DEF IsCalled
<1>4. own \subseteq ranks /\ own \in SUBSET (2 .. 14) /\ ranks \in SUBSET (2 .. 14)
      /\ suited \in SUBSET (2 .. 14)
  BY DEF RanksIn, RankOf, Cards, Suited
<1>5. flush => own \subseteq suited
  <2>1. flush => five \subseteq Suited(cards)
    BY SuitedAre
  <2> QED
    BY <2>1 DEF RanksIn
<1>6. high # 0 => high \in Straights(own)
  BY <1>4, StraightHighIs
<1> HIDE DEF ranks, suited, own, high, flush, r
<1>7. \A i \in DOMAIN counts : v[i] \in ranks /\ v[i] \in own /\ v[i] \in Nat
  <2> SUFFICES ASSUME NEW i \in DOMAIN counts PROVE v[i] \in ranks /\ v[i] \in own /\ v[i] \in Nat
    OBVIOUS
  <2>1. v[i] \in own
    BY <1>1
  <2>2. v[i] \in 2 .. 14 /\ v[i] \in ranks
    BY <1>4, <2>1
  <2> QED
    BY <2>1, <2>2
<1>8. r \in Claims(cards) <=> IsClaim(r, cards)
  BY ClaimsAre
<1>11. ASSUME counts = <<4, 1>> PROVE IsClaim(r, cards)
  <2>1. /\ DOMAIN counts = 1 .. 2 /\ counts[1] = 4 /\ counts[2] = 1
        /\ 1 \in 1 .. 2 /\ 2 \in 1 .. 2
    BY <1>11
  <2>2. v[1] \in ranks /\ v[2] \in ranks /\ v[1] # v[2] /\ Times(v[1], cards) >= 4
    BY <1>2, <1>7, <2>1
  <2> DEFINE k == <<v[2]>>
  <2>3. IsDown(k, 1, ranks \ {v[1]}) /\ k[1] = v[2]
    BY <2>2 DEF IsDown
  <2> HIDE DEF k
  <2>4. r = <<7, v[1], k[1]>>
    BY <1>3, <1>11, <2>3
  <2> QED
    BY <2>2, <2>3, <2>4 DEF IsClaim, ranks
<1>12. ASSUME counts = <<3, 2>> PROVE IsClaim(r, cards)
  <2>1. /\ DOMAIN counts = 1 .. 2 /\ counts[1] = 3 /\ counts[2] = 2
        /\ 1 \in 1 .. 2 /\ 2 \in 1 .. 2
    BY <1>12
  <2>2. /\ v[1] \in ranks /\ v[2] \in ranks /\ v[1] # v[2]
        /\ Times(v[1], cards) >= 3 /\ Times(v[2], cards) >= 2
    BY <1>2, <1>7, <2>1
  <2>3. r = <<6, v[1], v[2]>>
    BY <1>3, <1>12
  <2> QED
    BY <2>2, <2>3 DEF IsClaim, ranks
<1>13. ASSUME counts = <<3, 1, 1>> PROVE IsClaim(r, cards)
  <2>1. /\ DOMAIN counts = 1 .. 3 /\ counts[1] = 3 /\ counts[2] = 1 /\ counts[3] = 1
        /\ 1 \in 1 .. 3 /\ 2 \in 1 .. 3 /\ 3 \in 1 .. 3
    BY <1>13
  <2>2. /\ v[1] \in ranks /\ v[2] \in ranks /\ v[3] \in ranks
        /\ v[1] # v[2] /\ v[1] # v[3] /\ v[2] > v[3] /\ Times(v[1], cards) >= 3
    BY <1>2, <1>7, <2>1
  <2> DEFINE k == <<v[2], v[3]>>
  <2>3. IsDown(k, 2, ranks \ {v[1]}) /\ k[1] = v[2] /\ k[2] = v[3]
    BY <2>2 DEF IsDown
  <2> HIDE DEF k
  <2>4. r = <<3, v[1], k[1], k[2]>>
    BY <1>3, <1>13, <2>3
  <2> QED
    BY <2>2, <2>3, <2>4 DEF IsClaim, ranks
<1>14. ASSUME counts = <<2, 2, 1>> PROVE IsClaim(r, cards)
  <2>1. /\ DOMAIN counts = 1 .. 3 /\ counts[1] = 2 /\ counts[2] = 2 /\ counts[3] = 1
        /\ 1 \in 1 .. 3 /\ 2 \in 1 .. 3 /\ 3 \in 1 .. 3
    BY <1>14
  <2>2. /\ v[1] \in ranks /\ v[2] \in ranks /\ v[3] \in ranks
        /\ v[1] > v[2] /\ v[1] # v[3] /\ v[2] # v[3]
        /\ Times(v[1], cards) >= 2 /\ Times(v[2], cards) >= 2 /\ Times(v[3], cards) >= 1
    BY <1>2, <1>7, <2>1
  <2>3. r = <<2, v[1], v[2], v[3]>>
    BY <1>3, <1>14
  <2> QED
    BY <2>2, <2>3 DEF IsClaim, ranks
<1>15. ASSUME counts = <<2, 1, 1, 1>> PROVE IsClaim(r, cards)
  <2>1. /\ DOMAIN counts = 1 .. 4 /\ counts[1] = 2 /\ counts[2] = 1 /\ counts[3] = 1
        /\ counts[4] = 1
        /\ 1 \in 1 .. 4 /\ 2 \in 1 .. 4 /\ 3 \in 1 .. 4 /\ 4 \in 1 .. 4
    BY <1>15
  <2>2. /\ v[1] \in ranks /\ v[2] \in ranks /\ v[3] \in ranks /\ v[4] \in ranks
        /\ v[1] # v[2] /\ v[1] # v[3] /\ v[1] # v[4]
        /\ v[2] > v[3] /\ v[2] > v[4] /\ v[3] > v[4] /\ Times(v[1], cards) >= 2
    BY <1>2, <1>7, <2>1
  <2> DEFINE k == <<v[2], v[3], v[4]>>
  <2>3. IsDown(k, 3, ranks \ {v[1]}) /\ k[1] = v[2] /\ k[2] = v[3] /\ k[3] = v[4]
    BY <2>2 DEF IsDown
  <2> HIDE DEF k
  <2>4. r = <<1, v[1], k[1], k[2], k[3]>>
    BY <1>3, <1>15, <2>3
  <2> QED
    BY <2>2, <2>3, <2>4 DEF IsClaim, ranks
<1>16. ASSUME counts = <<1, 1, 1, 1, 1>> PROVE IsClaim(r, cards)
  <2>1. DOMAIN counts = 1 .. 5 /\ \A i \in 1 .. 5 : counts[i] = 1
    BY <1>16
  <2>2. IsDown(v, 5, own)
    BY <1>1, <1>2, <2>1 DEF IsDown
  <2>3. \A more : own \subseteq more => IsDown(v, 5, more)
    BY <2>2 DEF IsDown
  <2>4. r = IF high # 0 THEN <<IF flush THEN 8 ELSE 4, high>>
            ELSE <<IF flush THEN 5 ELSE 0, v[1], v[2], v[3], v[4], v[5]>>
    BY <1>3, <1>16
  <2>5. CASE high # 0 /\ flush
    <3>1. high \in Straights(suited)
      BY <1>4, <1>5, <1>6, <2>5, StraightsGrow
    <3> QED
      BY <2>4, <2>5, <3>1 DEF IsClaim, suited
  <2>6. CASE high # 0 /\ ~flush
    <3>1. high \in Straights(ranks)
      BY <1>4, <1>6, <2>6, StraightsGrow
    <3> QED
      BY <2>4, <2>6, <3>1 DEF IsClaim, ranks
  <2>7. CASE high = 0 /\ flush
    <3>1. IsDown(v, 5, suited)
      BY <1>5, <2>3, <2>7
    <3> QED
      BY <2>4, <2>7, <3>1 DEF IsClaim, suited
  <2>8. CASE high = 0 /\ ~flush
    <3>1. IsDown(v, 5, ranks)
      BY <1>4, <2>3
    <3> QED
      BY <2>4, <2>8, <3>1 DEF IsClaim, ranks
  <2> QED
    BY <2>5, <2>6, <2>7, <2>8
<1> QED
  BY <1>2, <1>8, <1>11, <1>12, <1>13, <1>14, <1>15, <1>16 DEF Forms, r

\* Five of the cards are called that or something better.
IsMet(r, cards) ==
  /\ r \in Ranking
  /\ \E five \in Fives : /\ five \subseteq cards
                         /\ r = Evaluate5(five) \/ Below(r, Evaluate5(five))

LEMMA HigherCategory ==
  ASSUME NEW a \in Ranking, NEW b \in Ranking, Len(a) >= 1, Len(b) >= 1, a[1] < b[1]
  PROVE  Below(a, b)
<1>1. At(a, 1) < At(b, 1)
  BY DEF At, Ranking
<1> QED
  BY <1>1, BelowIs

\* Five cards of five values.
LEMMA FiveValues ==
  ASSUME NEW cards \in SUBSET Cards, NEW k, IsDown(k, 5, RanksIn(cards))
  PROVE  \E five \in Fives :
           LET high  == StraightHigh({k[i] : i \in 1 .. 5})
               flush == Cardinality({SuitOf(c) : c \in five}) = 1
           IN  /\ five \subseteq cards
               /\ Evaluate5(five) =
                    IF high # 0 THEN <<IF flush THEN 8 ELSE 4, high>>
                    ELSE <<IF flush THEN 5 ELSE 0, k[1], k[2], k[3], k[4], k[5]>>
<1>1. PICK five \in Fives :
        /\ five \subseteq cards /\ IsCalled(five, <<1, 1, 1, 1, 1>>, k)
        /\ RanksIn(five) = {k[i] : i \in DOMAIN <<1, 1, 1, 1, 1>>}
  BY FiveSingles, MadeOf
<1>2. DOMAIN <<1, 1, 1, 1, 1>> = 1 .. 5
  OBVIOUS
<1>3. RanksIn(five) = {k[i] : i \in 1 .. 5}
  BY <1>1, <1>2
<1>4. Evaluate5(five) =
        IF StraightHigh(RanksIn(five)) # 0
        THEN <<IF Cardinality({SuitOf(c) : c \in five}) = 1 THEN 8 ELSE 4, StraightHigh(RanksIn(five))>>
        ELSE <<IF Cardinality({SuitOf(c) : c \in five}) = 1 THEN 5 ELSE 0,
               k[1], k[2], k[3], k[4], k[5]>>
  BY <1>1 DEF IsCalled
<1> QED
  BY <1>1, <1>3, <1>4

LEMMA ClaimIsMet ==
  ASSUME NEW cards \in SUBSET Cards, Cardinality(cards) = 7, NEW r \in Claims(cards)
  PROVE  IsMet(r, cards)
<1> DEFINE ranks  == RanksIn(cards)
           suited == RanksIn(Suited(cards))
           has(v, n) == v \in ranks /\ Times(v, cards) >= n
           Flush(five) == Cardinality({SuitOf(c) : c \in five}) = 1
           High(k) == StraightHigh({k[i] : i \in 1 .. 5})
<1>0. ASSUME NEW k, NEW some \in SUBSET (2 .. 14), IsDown(k, 5, some)
      PROVE  k[1] \in Nat /\ k[2] \in Nat /\ k[3] \in Nat /\ k[4] \in Nat /\ k[5] \in Nat
  <2>1. 5 \in Nat /\ 1 \in 1 .. 5 /\ 2 \in 1 .. 5 /\ 3 \in 1 .. 5 /\ 4 \in 1 .. 5 /\ 5 \in 1 .. 5
    OBVIOUS
  <2>2. \A i \in 1 .. 5 : k[i] \in Nat
    BY <1>0, <2>1, DownIsAList
  <2> QED
    BY <2>1, <2>2
<1>1. /\ ranks \in SUBSET (2 .. 14) /\ suited \in SUBSET (2 .. 14)
      /\ Suited(cards) \in SUBSET Cards /\ Suited(cards) \subseteq cards
  BY DEF RanksIn, RankOf, Cards, Suited
<1>2. \A v \in 2 .. 14 : v \in Nat
  OBVIOUS
<1>3. \A five \in Fives : Evaluate5(five) \in Ranking
  BY Evaluate5IsARanking
<1>4. \A five \in Fives : five \subseteq Suited(cards) => Flush(five)
  BY SuitedAre
<1>5. \A v \in ranks : v \in 2 .. 14 /\ Times(v, cards) >= 1
  <2>1. \A v \in ranks : Times(v, cards) >= 1
    BY HowOften
  <2> HIDE DEF ranks
  <2> QED
    BY <1>1, <2>1
<1>6. ASSUME NEW k, IsDown(k, 5, ranks)
      PROVE  \E five \in Fives :
               /\ five \subseteq cards
               /\ Evaluate5(five) =
                    IF High(k) # 0 THEN <<IF Flush(five) THEN 8 ELSE 4, High(k)>>
                    ELSE <<IF Flush(five) THEN 5 ELSE 0, k[1], k[2], k[3], k[4], k[5]>>
  BY <1>6, FiveValues
<1>7. ASSUME NEW k, IsDown(k, 5, suited)
      PROVE  \E five \in Fives :
               /\ five \subseteq cards
               /\ Evaluate5(five) = IF High(k) # 0 THEN <<8, High(k)>>
                                    ELSE <<5, k[1], k[2], k[3], k[4], k[5]>>
  <2>1. PICK five \in Fives :
               /\ five \subseteq Suited(cards)
               /\ Evaluate5(five) =
                    IF High(k) # 0 THEN <<IF Flush(five) THEN 8 ELSE 4, High(k)>>
                    ELSE <<IF Flush(five) THEN 5 ELSE 0, k[1], k[2], k[3], k[4], k[5]>>
    BY <1>1, <1>7, FiveValues
  <2>2. Flush(five)
    BY <1>4, <2>1
  <2> HIDE DEF Flush, High
  <2>3. Evaluate5(five) = IF High(k) # 0 THEN <<8, High(k)>>
                          ELSE <<5, k[1], k[2], k[3], k[4], k[5]>>
    BY <2>1, <2>2
  <2> QED
    BY <1>1, <2>1, <2>3
<1>8. ASSUME NEW counts, NEW v, IsMade(counts, v, cards)
      PROVE  \E five \in Fives : five \subseteq cards /\ IsCalled(five, counts, v)
  BY <1>8, MadeOf
<1>9. IsClaim(r, cards)
  BY ClaimsAre
<1> HIDE DEF ranks, suited, Flush, High
<1>10. ASSUME NEW five \in Fives, five \subseteq cards, r = Evaluate5(five) PROVE IsMet(r, cards)
  BY <1>3, <1>10 DEF IsMet
<1>11. ASSUME NEW v \in Straights(suited), r = <<8, v>> PROVE IsMet(r, cards)
  <2>1. PICK k : IsDown(k, 5, suited) /\ High(k) = v
    BY <1>1, StraightMade DEF High
  <2>2. v \in 2 .. 14
    BY <1>1, StraightMade
  <2>3. PICK five \in Fives :
               /\ five \subseteq cards
               /\ Evaluate5(five) = IF High(k) # 0 THEN <<8, High(k)>>
                                    ELSE <<5, k[1], k[2], k[3], k[4], k[5]>>
    BY <1>7, <2>1
  <2>4. Evaluate5(five) = <<8, v>>
    BY <2>1, <2>2, <2>3
  <2> QED
    BY <1>10, <1>11, <2>3, <2>4
<1>12. ASSUME NEW v, NEW k, has(v, 4), IsDown(k, 1, ranks \ {v}), r = <<7, v, k[1]>>
       PROVE  IsMet(r, cards)
  <2> DEFINE c == <<4, 1>>
             w == <<v, k[1]>>
  <2>1. DOMAIN c = {1, 2} /\ c \in Forms /\ c[1] = 4 /\ c[2] = 1 /\ w[1] = v /\ w[2] = k[1]
    BY DEF Forms
  <2>2. k[1] \in ranks /\ k[1] # v
    BY <1>12 DEF IsDown
  <2>3. v \in 2 .. 14 /\ k[1] \in 2 .. 14 /\ Times(v, cards) >= 4 /\ Times(k[1], cards) >= 1
    BY <1>5, <1>12, <2>2
  <2>4. w \in [{1, 2} -> 2 .. 14]
    BY <2>3
  <2> HIDE DEF c, w
  <2>5. IsMade(c, w, cards)
    BY <2>1, <2>2, <2>3, <2>4 DEF IsMade
  <2>6. PICK five \in Fives : five \subseteq cards /\ IsCalled(five, c, w)
    BY <1>8, <2>5
  <2>7. Evaluate5(five) = <<7, v, k[1]>>
    BY <2>1, <2>6 DEF IsCalled, c
  <2> QED
    BY <1>10, <1>12, <2>6, <2>7
<1>13. ASSUME NEW v, NEW u, has(v, 3), has(u, 2), v # u, r = <<6, v, u>>
       PROVE  IsMet(r, cards)
  <2> DEFINE c == <<3, 2>>
             w == <<v, u>>
  <2>1. DOMAIN c = {1, 2} /\ c \in Forms /\ c[1] = 3 /\ c[2] = 2 /\ w[1] = v /\ w[2] = u
    BY DEF Forms
  <2>2. v \in 2 .. 14 /\ u \in 2 .. 14 /\ Times(v, cards) >= 3 /\ Times(u, cards) >= 2
    BY <1>5, <1>13
  <2>3. w \in [{1, 2} -> 2 .. 14]
    BY <2>2
  <2> HIDE DEF c, w
  <2>4. IsMade(c, w, cards)
    BY <1>13, <2>1, <2>2, <2>3 DEF IsMade
  <2>5. PICK five \in Fives : five \subseteq cards /\ IsCalled(five, c, w)
    BY <1>8, <2>4
  <2>6. Evaluate5(five) = <<6, v, u>>
    BY <2>1, <2>5 DEF IsCalled, c
  <2> QED
    BY <1>10, <1>13, <2>5, <2>6
<1>14. ASSUME NEW k, IsDown(k, 5, suited), r = <<5, k[1], k[2], k[3], k[4], k[5]>>
       PROVE  IsMet(r, cards)
  <2>1. PICK five \in Fives :
               /\ five \subseteq cards
               /\ Evaluate5(five) = IF High(k) # 0 THEN <<8, High(k)>>
                                    ELSE <<5, k[1], k[2], k[3], k[4], k[5]>>
    BY <1>7, <1>14
  <2>2. CASE High(k) = 0
    BY <1>10, <1>14, <2>1, <2>2
  <2>3. CASE High(k) # 0
    <3>1. /\ k[1] \in Nat /\ k[2] \in Nat /\ k[3] \in Nat /\ k[4] \in Nat /\ k[5] \in Nat
      BY <1>0, <1>1, <1>14
    <3>2. r \in Ranking /\ Len(r) >= 1 /\ r[1] = 5
      BY <1>14, <3>1 DEF Ranking
    <3>3. Evaluate5(five) = <<8, High(k)>>
      BY <2>1, <2>3
    <3>4. Len(Evaluate5(five)) >= 1 /\ Evaluate5(five)[1] = 8
      BY <3>3
    <3>5. Below(r, Evaluate5(five))
      BY <1>3, <3>2, <3>4, HigherCategory
    <3> QED
      BY <2>1, <3>2, <3>5 DEF IsMet
  <2> QED
    BY <2>2, <2>3
<1>15. ASSUME NEW v \in Straights(ranks), r = <<4, v>> PROVE IsMet(r, cards)
  <2>1. PICK k : IsDown(k, 5, ranks) /\ High(k) = v
    BY <1>1, StraightMade DEF High
  <2>2. v \in 2 .. 14 /\ v \in Nat
    BY <1>1, StraightMade
  <2>3. PICK five \in Fives :
               /\ five \subseteq cards
               /\ Evaluate5(five) =
                    IF High(k) # 0 THEN <<IF Flush(five) THEN 8 ELSE 4, High(k)>>
                    ELSE <<IF Flush(five) THEN 5 ELSE 0, k[1], k[2], k[3], k[4], k[5]>>
    BY <1>6, <2>1
  <2>4. Evaluate5(five) = <<IF Flush(five) THEN 8 ELSE 4, v>>
    BY <2>1, <2>2, <2>3
  <2>5. CASE ~Flush(five)
    BY <1>10, <1>15, <2>3, <2>4, <2>5
  <2>6. CASE Flush(five)
    <3>1. r \in Ranking /\ Len(r) >= 1 /\ r[1] = 4
      BY <1>15, <2>2 DEF Ranking
    <3>2. Len(Evaluate5(five)) >= 1 /\ Evaluate5(five)[1] = 8
      BY <2>4, <2>6
    <3>3. Below(r, Evaluate5(five))
      BY <1>3, <3>1, <3>2, HigherCategory
    <3> QED
      BY <2>3, <3>1, <3>3 DEF IsMet
  <2> QED
    BY <2>5, <2>6
<1>16. ASSUME NEW v, NEW k, has(v, 3), IsDown(k, 2, ranks \ {v}), r = <<3, v, k[1], k[2]>>
       PROVE  IsMet(r, cards)
  <2> DEFINE c == <<3, 1, 1>>
             w == <<v, k[1], k[2]>>
  <2>1. /\ DOMAIN c = {1, 2, 3} /\ c \in Forms /\ c[1] = 3 /\ c[2] = 1 /\ c[3] = 1
        /\ w[1] = v /\ w[2] = k[1] /\ w[3] = k[2]
    BY DEF Forms
  <2>2. k[1] \in ranks /\ k[2] \in ranks /\ k[1] # v /\ k[2] # v /\ k[1] > k[2]
    BY <1>16 DEF IsDown
  <2>3. /\ v \in 2 .. 14 /\ k[1] \in 2 .. 14 /\ k[2] \in 2 .. 14
        /\ Times(v, cards) >= 3 /\ Times(k[1], cards) >= 1 /\ Times(k[2], cards) >= 1
    BY <1>5, <1>16, <2>2
  <2>4. w \in [{1, 2, 3} -> 2 .. 14]
    BY <2>3
  <2> HIDE DEF c, w
  <2>5. IsMade(c, w, cards)
    BY <2>1, <2>2, <2>3, <2>4 DEF IsMade
  <2>6. PICK five \in Fives : five \subseteq cards /\ IsCalled(five, c, w)
    BY <1>8, <2>5
  <2>7. Evaluate5(five) = <<3, v, k[1], k[2]>>
    BY <2>1, <2>6 DEF IsCalled, c
  <2> QED
    BY <1>10, <1>16, <2>6, <2>7
<1>17. ASSUME NEW v, NEW u, NEW x, has(v, 2), has(u, 2), has(x, 1), v > u, x # v, x # u,
              r = <<2, v, u, x>>
       PROVE  IsMet(r, cards)
  <2> DEFINE c == <<2, 2, 1>>
             w == <<v, u, x>>
  <2>1. /\ DOMAIN c = {1, 2, 3} /\ c \in Forms /\ c[1] = 2 /\ c[2] = 2 /\ c[3] = 1
        /\ w[1] = v /\ w[2] = u /\ w[3] = x
    BY DEF Forms
  <2>2. /\ v \in 2 .. 14 /\ u \in 2 .. 14 /\ x \in 2 .. 14
        /\ Times(v, cards) >= 2 /\ Times(u, cards) >= 2 /\ Times(x, cards) >= 1
    BY <1>5, <1>17
  <2>3. w \in [{1, 2, 3} -> 2 .. 14]
    BY <2>2
  <2> HIDE DEF c, w
  <2>4. IsMade(c, w, cards)
    BY <1>17, <2>1, <2>2, <2>3 DEF IsMade
  <2>5. PICK five \in Fives : five \subseteq cards /\ IsCalled(five, c, w)
    BY <1>8, <2>4
  <2>6. Evaluate5(five) = <<2, v, u, x>>
    BY <2>1, <2>5 DEF IsCalled, c
  <2> QED
    BY <1>10, <1>17, <2>5, <2>6
<1>18. ASSUME NEW v, NEW k, has(v, 2), IsDown(k, 3, ranks \ {v}), r = <<1, v, k[1], k[2], k[3]>>
       PROVE  IsMet(r, cards)
  <2> DEFINE c == <<2, 1, 1, 1>>
             w == <<v, k[1], k[2], k[3]>>
  <2>1. /\ DOMAIN c = {1, 2, 3, 4} /\ c \in Forms
        /\ c[1] = 2 /\ c[2] = 1 /\ c[3] = 1 /\ c[4] = 1
        /\ w[1] = v /\ w[2] = k[1] /\ w[3] = k[2] /\ w[4] = k[3]
    BY DEF Forms
  <2>2. /\ k[1] \in ranks /\ k[2] \in ranks /\ k[3] \in ranks
        /\ k[1] # v /\ k[2] # v /\ k[3] # v /\ k[1] > k[2] /\ k[1] > k[3] /\ k[2] > k[3]
    BY <1>18 DEF IsDown
  <2>3. /\ v \in 2 .. 14 /\ k[1] \in 2 .. 14 /\ k[2] \in 2 .. 14 /\ k[3] \in 2 .. 14
        /\ Times(v, cards) >= 2
        /\ Times(k[1], cards) >= 1 /\ Times(k[2], cards) >= 1 /\ Times(k[3], cards) >= 1
    BY <1>5, <1>18, <2>2
  <2>4. w \in [{1, 2, 3, 4} -> 2 .. 14]
    BY <2>3
  <2> HIDE DEF c, w
  <2>5. IsMade(c, w, cards)
    BY <2>1, <2>2, <2>3, <2>4 DEF IsMade
  <2>6. PICK five \in Fives : five \subseteq cards /\ IsCalled(five, c, w)
    BY <1>8, <2>5
  <2>7. Evaluate5(five) = <<1, v, k[1], k[2], k[3]>>
    BY <2>1, <2>6 DEF IsCalled, c
  <2> QED
    BY <1>10, <1>18, <2>6, <2>7
<1>19. ASSUME NEW k, IsDown(k, 5, ranks), r = <<0, k[1], k[2], k[3], k[4], k[5]>>
       PROVE  IsMet(r, cards)
  <2>1. PICK five \in Fives :
               /\ five \subseteq cards
               /\ Evaluate5(five) =
                    IF High(k) # 0 THEN <<IF Flush(five) THEN 8 ELSE 4, High(k)>>
                    ELSE <<IF Flush(five) THEN 5 ELSE 0, k[1], k[2], k[3], k[4], k[5]>>
    BY <1>6, <1>19
  <2>2. /\ k[1] \in Nat /\ k[2] \in Nat /\ k[3] \in Nat /\ k[4] \in Nat /\ k[5] \in Nat
    BY <1>0, <1>1, <1>19
  <2>3. r \in Ranking /\ Len(r) >= 1 /\ r[1] = 0
    BY <1>19, <2>2 DEF Ranking
  <2>4. CASE High(k) = 0 /\ ~Flush(five)
    BY <1>10, <1>19, <2>1, <2>4
  <2>5. CASE High(k) # 0 \/ Flush(five)
    <3>1. Len(Evaluate5(five)) >= 1 /\ Evaluate5(five)[1] > 0
      <4>1. CASE High(k) # 0
        <5>1. Evaluate5(five) = <<IF Flush(five) THEN 8 ELSE 4, High(k)>>
          BY <2>1, <4>1
        <5> QED
          BY <5>1
      <4>2. CASE High(k) = 0
        <5>1. Evaluate5(five) = <<5, k[1], k[2], k[3], k[4], k[5]>>
          BY <2>1, <2>5, <4>2
        <5> QED
          BY <5>1
      <4> QED
        BY <4>1, <4>2
    <3>2. Below(r, Evaluate5(five))
      BY <1>3, <2>3, <3>1, HigherCategory
    <3> QED
      BY <2>1, <2>3, <3>2 DEF IsMet
  <2> QED
    BY <2>4, <2>5
<1> QED
  <2>1. \/ \E v \in Straights(suited) : r = <<8, v>>
        \/ \E v, k : has(v, 4) /\ IsDown(k, 1, ranks \ {v}) /\ r = <<7, v, k[1]>>
        \/ \E v, u : has(v, 3) /\ has(u, 2) /\ v # u /\ r = <<6, v, u>>
        \/ \E k : IsDown(k, 5, suited) /\ r = <<5, k[1], k[2], k[3], k[4], k[5]>>
        \/ \E v \in Straights(ranks) : r = <<4, v>>
        \/ \E v, k : has(v, 3) /\ IsDown(k, 2, ranks \ {v}) /\ r = <<3, v, k[1], k[2]>>
        \/ \E v, u, x : /\ has(v, 2) /\ has(u, 2) /\ has(x, 1) /\ v > u /\ x # v /\ x # u
                        /\ r = <<2, v, u, x>>
        \/ \E v, k : has(v, 2) /\ IsDown(k, 3, ranks \ {v}) /\ r = <<1, v, k[1], k[2], k[3]>>
        \/ \E k : IsDown(k, 5, ranks) /\ r = <<0, k[1], k[2], k[3], k[4], k[5]>>
    BY <1>9 DEF IsClaim, ranks, suited
  <2> HIDE DEF has
  <2> QED
    BY <1>11, <1>12, <1>13, <1>14, <1>15, <1>16, <1>17, <1>18, <1>19, <2>1 DEF has

LEMMA BestOfSevenCards ==
  ASSUME NEW cards \in SUBSET Cards, Cardinality(cards) = 7
  PROVE  /\ Evaluate7(cards) \in Claims(cards)
         /\ \A claim \in Claims(cards) : ~Below(Evaluate7(cards), claim)
<1> DEFINE fives == {five \in SUBSET cards : Cardinality(five) = 5}
           f == [five \in fives |-> Evaluate5(five)]
           ranks == {f[five] : five \in fives}
           best == Evaluate7(cards)
<1>1. IsFiniteSet(cards) /\ Cardinality(cards) \in Nat
  BY CardsAreFinite, FS_Subset, FS_CardinalityType
<1>2. fives \subseteq Fives /\ \A five \in Fives : five \subseteq cards => five \in fives
  BY DEF Fives
<1>3. IsFiniteSet(fives)
  <2>1. IsFiniteSet(SUBSET cards)
    BY <1>1, FS_SUBSET
  <2> QED
    BY <2>1, FS_Subset
<1>4. fives # {}
  <2>1. \E T \in SUBSET cards : Cardinality(T) = 5
    BY <1>1, SubsetOfSize, 5 \in Nat
  <2> QED
    BY <2>1
<1>5. best = BestOf(ranks)
  <2>1. Sets!kSubset(5, cards) = fives
    BY CardinalityOfSets DEF Sets!kSubset
  <2>2. {Evaluate5(five) : five \in fives} = ranks
    OBVIOUS
  <2> HIDE DEF fives, ranks
  <2> QED
    BY <2>1, <2>2 DEF Evaluate7
<1>6. \A five \in fives : f[five] = Evaluate5(five) /\ Evaluate5(five) \in Ranking
  BY <1>2, Evaluate5IsARanking
<1>7. IsFiniteSet(ranks)
  <2> HIDE DEF fives
  <2>1. fives \subseteq DOMAIN f
    OBVIOUS
  <2> HIDE DEF f
  <2> QED
    BY <1>3, <2>1, FiniteImage
<1> HIDE DEF fives, f
<1>8. ranks \subseteq Ranking /\ ranks # {}
  BY <1>4, <1>6
<1>9. \A five \in fives : Evaluate5(five) \in ranks
  BY <1>6
<1>10. \A rank \in ranks : \E five \in fives : rank = Evaluate5(five)
  BY <1>6
<1> HIDE DEF ranks, best
<1>11. best \in ranks /\ \A rank \in ranks : ~Below(best, rank)
  BY <1>5, <1>7, <1>8, BestOfIsBest
<1>12. best \in Claims(cards)
  <2>1. PICK five \in fives : best = Evaluate5(five)
    BY <1>10, <1>11
  <2>2. five \in Fives /\ five \subseteq cards
    BY <1>2, <2>1 DEF fives
  <2> QED
    BY <2>1, <2>2, FiveMayBeCalledThat
<1>13. ASSUME NEW claim \in Claims(cards), Below(best, claim) PROVE FALSE
  <2>1. IsMet(claim, cards)
    BY ClaimIsMet
  <2>2. PICK five \in Fives : /\ five \subseteq cards
                              /\ claim = Evaluate5(five) \/ Below(claim, Evaluate5(five))
    BY <2>1 DEF IsMet
  <2>3. Evaluate5(five) \in ranks /\ Evaluate5(five) \in Ranking /\ best \in Ranking
        /\ claim \in Ranking
    BY <1>2, <1>8, <1>9, <1>11, <2>1, <2>2 DEF IsMet
  <2>4. ~Below(best, Evaluate5(five))
    BY <1>11, <2>3
  <2>5. Below(claim, Evaluate5(five))
    BY <1>13, <2>2, <2>4
  <2>6. Below(best, Evaluate5(five))
    BY <1>13, <2>3, <2>5, BelowIsAnOrder
  <2> QED
    BY <2>4, <2>6
<1> QED
  BY <1>12, <1>13 DEF best

EvaluatorSpec == EvaluatorInit /\ [][Deal]_seven

\* The evaluator is right about any seven cards of the deck: what it returns is
\* what the rules call five of them, and they call no five anything better
\* (evaluate7CardHand, evaluate5, compareHandRanks).
THEOREM BestOfSevenHolds == EvaluatorSpec => []BestOfSeven
<1> DEFINE Inv == seven = {} \/ seven \in Sevens
<1>1. EvaluatorInit => Inv
  BY DEF EvaluatorInit
<1>2. Inv /\ [Deal]_seven => Inv'
  BY DEF Deal
<1>3. Inv => BestOfSeven
  <2> SUFFICES ASSUME Inv, seven # {} PROVE BestOfSeven
    BY DEF BestOfSeven
  <2>1. seven \in SUBSET Cards /\ Cardinality(seven) = 7
    BY SevensAreCards
  <2> QED
    BY <2>1, BestOfSevenCards DEF BestOfSeven
<1> QED
  BY <1>1, <1>2, <1>3, PTL DEF EvaluatorSpec

-----------------------------------------------------------------------------
(* Sums and products over a set *)

Pick(s) == CHOOSE x \in s : TRUE

\* What MapThenFoldSet iterates, for an operation on the numbers.
IsFold(op, base, f, S, it) ==
  it = [s \in SUBSET S |->
          IF s = {} THEN base ELSE op[<<f[Pick(s)], it[s \ {Pick(s)}]>>]]

FoldOf(op, base, f, S) == (CHOOSE it : IsFold(op, base, f, S, it))[S]

LEMMA FoldsAgree ==
  ASSUME NEW op, NEW base, NEW f, NEW S, IsFiniteSet(S), NEW U,
         NEW it, IsFold(op, base, f, S, it), NEW jt, IsFold(op, base, f, U, jt),
         NEW T, T \subseteq S, T \subseteq U
  PROVE  it[T] = jt[T]
<1> DEFINE Bad == {V \in SUBSET T : it[V] # jt[V]}
<1>1. IsFiniteSet(T)
  BY FS_Subset
<1>2. \A V \in SUBSET T :
        /\ it[V] = IF V = {} THEN base ELSE op[<<f[Pick(V)], it[V \ {Pick(V)}]>>]
        /\ jt[V] = IF V = {} THEN base ELSE op[<<f[Pick(V)], jt[V \ {Pick(V)}]>>]
  BY DEF IsFold
<1>3. {} \notin Bad
  BY <1>2
<1>4. ASSUME NEW V \in Bad PROVE \E x \in V : V \ {x} \in Bad
  <2>1. V # {}
    BY <1>3
  <2>2. Pick(V) \in V
    BY <2>1 DEF Pick
  <2> QED
    BY <1>2, <2>1, <2>2
<1>5. Bad = {}
  <2>1. Bad \subseteq SUBSET T
    OBVIOUS
  <2> HIDE DEF Bad
  <2> QED
    BY <1>1, <1>3, <1>4, <2>1, TakeOneAway
<1> QED
  BY <1>5

LEMMA FoldExists ==
  ASSUME NEW op, NEW base, NEW f, NEW S, IsFiniteSet(S)
  PROVE  \E it : IsFold(op, base, f, S, it)
<1> DEFINE Has(T) == \E it : IsFold(op, base, f, T, it)
           fold(T) == CHOOSE it : IsFold(op, base, f, T, it)
           Bad == {T \in SUBSET S : \E U \in SUBSET T : ~Has(U)}
           value(s) == IF s = {} THEN base
                       ELSE op[<<f[Pick(s)], fold(s \ {Pick(s)})[s \ {Pick(s)}]>>]
<1>1. ASSUME NEW T \in SUBSET S, \A x \in T : Has(T \ {x}),
             \A x \in T : \A U \in SUBSET (T \ {x}) : Has(U)
      PROVE  Has(T)
  <2> DEFINE it == [s \in SUBSET T |-> value(s)]
  <2>1. ASSUME NEW s \in SUBSET T, s # T PROVE it[s] = fold(s)[s]
    <3>1. PICK x \in T : s \in SUBSET (T \ {x})
      BY <2>1
    <3>2. IsFold(op, base, f, s, fold(s))
      <4>1. Has(s)
        BY <1>1, <3>1
      <4> QED
        BY <4>1
    <3>3. fold(s)[s] = IF s = {} THEN base
                       ELSE op[<<f[Pick(s)], fold(s)[s \ {Pick(s)}]>>]
      <4> HIDE DEF fold
      <4> QED
        BY <3>2 DEF IsFold
    <3>4. CASE s = {}
      <4> HIDE DEF fold
      <4> QED
        BY <3>3, <3>4
    <3>5. CASE s # {}
      <4> DEFINE u == s \ {Pick(s)}
      <4>1. IsFold(op, base, f, u, fold(u))
        <5>1. Has(u)
          BY <1>1, <3>1
        <5> QED
          BY <5>1
      <4>2. u \subseteq s /\ IsFiniteSet(s) /\ u \subseteq u
        BY FS_Subset
      <4> HIDE DEF fold
      <4>3. fold(s)[u] = fold(u)[u]
        BY <3>2, <4>1, <4>2, FoldsAgree
      <4> QED
        BY <3>3, <3>5, <4>3
    <3> QED
      BY <3>4, <3>5
  <2>2. ASSUME NEW s \in SUBSET T
        PROVE  value(s) = IF s = {} THEN base ELSE op[<<f[Pick(s)], it[s \ {Pick(s)}]>>]
    <3>1. CASE s = {}
      BY <3>1
    <3>2. CASE s # {}
      <4>1. s \ {Pick(s)} \in SUBSET T /\ s \ {Pick(s)} # T
        BY <3>2 DEF Pick
      <4>2. it[s \ {Pick(s)}] = fold(s \ {Pick(s)})[s \ {Pick(s)}]
        BY <2>1, <4>1
      <4> HIDE DEF it, fold
      <4> QED
        BY <3>2, <4>2
    <3> QED
      BY <3>1, <3>2
  <2>3. it = [s \in SUBSET T |-> IF s = {} THEN base
                                 ELSE op[<<f[Pick(s)], it[s \ {Pick(s)}]>>]]
    <3>1. it = [s \in SUBSET T |-> value(s)]
      OBVIOUS
    <3> HIDE DEF it, value
    <3> QED
      BY <2>2, <3>1
  <2> HIDE DEF it
  <2> QED
    BY <2>3 DEF IsFold
<1> HIDE DEF Has, fold
<1>2. ASSUME NEW T \in Bad PROVE \E x \in T : T \ {x} \in Bad
  <2> SUFFICES ASSUME \A x \in T : T \ {x} \notin Bad
               PROVE  FALSE
    OBVIOUS
  <2>1. \A x \in T : \A U \in SUBSET (T \ {x}) : Has(U)
    OBVIOUS
  <2>2. Has(T)
    BY <1>1, <2>1
  <2>3. \A U \in SUBSET T : U = T \/ \E x \in T : U \in SUBSET (T \ {x})
    OBVIOUS
  <2> QED
    BY <2>1, <2>2, <2>3
<1>3. {} \notin Bad
  <2>1. Has({})
    BY <1>1
  <2> QED
    BY <2>1
<1>4. Bad = {}
  <2>1. Bad \subseteq SUBSET S
    OBVIOUS
  <2> HIDE DEF Bad
  <2> QED
    BY <1>2, <1>3, <2>1, TakeOneAway
<1> QED
  BY <1>4 DEF Has

LEMMA FoldStep ==
  ASSUME NEW op, NEW base, NEW f, NEW S, IsFiniteSet(S)
  PROVE  FoldOf(op, base, f, S) =
           IF S = {} THEN base
           ELSE op[<<f[Pick(S)], FoldOf(op, base, f, S \ {Pick(S)})>>]
<1> DEFINE U == S \ {Pick(S)}
           it == CHOOSE it : IsFold(op, base, f, S, it)
           jt == CHOOSE jt : IsFold(op, base, f, U, jt)
<1>1. IsFiniteSet(U) /\ U \subseteq S
  BY FS_Subset
<1>2. IsFold(op, base, f, S, it) /\ IsFold(op, base, f, U, jt)
  BY <1>1, FoldExists
<1>3. FoldOf(op, base, f, S) = it[S] /\ FoldOf(op, base, f, U) = jt[U]
  BY DEF FoldOf
<1> HIDE DEF it, jt
<1>4. it[S] = IF S = {} THEN base ELSE op[<<f[Pick(S)], it[U]>>]
  BY <1>2 DEF IsFold
<1>5. it[U] = jt[U]
  BY <1>1, <1>2, FoldsAgree
<1> QED
  BY <1>3, <1>4, <1>5

\* An operation on the numbers that may be applied in any order.
IsAnyOrder(op) ==
  /\ op \in [Nat \X Nat -> Nat]
  /\ \A a, b, c \in Nat : op[<<a, op[<<b, c>>]>>] = op[<<b, op[<<a, c>>]>>]

LEMMA FoldInAnyOrder ==
  ASSUME NEW op, IsAnyOrder(op), NEW base \in Nat, NEW f, NEW S, IsFiniteSet(S),
         \A x \in S : f[x] \in Nat
  PROVE  /\ FoldOf(op, base, f, S) \in Nat
         /\ FoldOf(op, base, f, {}) = base
         /\ \A x \in S : FoldOf(op, base, f, S) = op[<<f[x], FoldOf(op, base, f, S \ {x})>>]
<1> DEFINE F(T) == FoldOf(op, base, f, T)
           Odd == {T \in SUBSET S : F(T) \notin Nat}
           Bad == {T \in SUBSET S : \E x \in T : F(T) # op[<<f[x], F(T \ {x})>>]}
<1>1. \A T \in SUBSET S : F(T) = IF T = {} THEN base ELSE op[<<f[Pick(T)], F(T \ {Pick(T)})>>]
  <2>1. \A T \in SUBSET S : IsFiniteSet(T)
    BY FS_Subset
  <2> QED
    BY <2>1, FoldStep
<1>2. \A T \in SUBSET S : T # {} => Pick(T) \in T
  BY DEF Pick
<1> HIDE DEF F
<1>3. Odd = {}
  <2>1. {} \notin Odd
    BY <1>1
  <2>2. ASSUME NEW T \in Odd PROVE \E x \in T : T \ {x} \in Odd
    <3>1. T # {} /\ F(T) = op[<<f[Pick(T)], F(T \ {Pick(T)})>>] /\ Pick(T) \in T
      BY <1>1, <1>2, <2>1
    <3>2. F(T \ {Pick(T)}) \notin Nat
      <4>1. f[Pick(T)] \in Nat /\ F(T) \notin Nat
        BY <3>1
      <4>2. \A a, b \in Nat : op[<<a, b>>] \in Nat
        BY DEF IsAnyOrder
      <4> QED
        BY <3>1, <4>1, <4>2
    <3> QED
      BY <3>1, <3>2
  <2>3. Odd \subseteq SUBSET S
    OBVIOUS
  <2> HIDE DEF Odd
  <2> QED
    BY <2>1, <2>2, <2>3, TakeOneAway
<1>4. Bad = {}
  <2>1. {} \notin Bad
    OBVIOUS
  <2>2. ASSUME NEW T \in Bad PROVE \E x \in T : T \ {x} \in Bad
    <3>1. PICK x \in T : F(T) # op[<<f[x], F(T \ {x})>>]
      OBVIOUS
    <3> DEFINE p == Pick(T)
               V == T \ {p, x}
    <3>2. p \in T /\ F(T) = op[<<f[p], F(T \ {p})>>] /\ p # x
      BY <1>1, <1>2, <3>1
    <3> HIDE DEF p
    <3> SUFFICES ASSUME T \ {p} \notin Bad, T \ {x} \notin Bad
                 PROVE  FALSE
      BY <3>2
    <3>3. F(T \ {p}) = op[<<f[x], F(V)>>]
      <4>1. (T \ {p}) \ {x} = V /\ x \in T \ {p} /\ T \ {p} \in SUBSET S
        BY <3>2
      <4> HIDE DEF V
      <4> QED
        BY <4>1
    <3>4. F(T \ {x}) = op[<<f[p], F(V)>>]
      <4>1. (T \ {x}) \ {p} = V /\ p \in T \ {x} /\ T \ {x} \in SUBSET S
        BY <3>2
      <4> HIDE DEF V
      <4> QED
        BY <4>1
    <3>5. f[x] \in Nat /\ f[p] \in Nat /\ F(V) \in Nat
      BY <1>3, <3>2
    <3>6. op[<<f[p], op[<<f[x], F(V)>>]>>] = op[<<f[x], op[<<f[p], F(V)>>]>>]
      <4> HIDE DEF V
      <4> QED
        BY <3>5 DEF IsAnyOrder
    <3> HIDE DEF V
    <3> QED
      BY <3>1, <3>2, <3>3, <3>4, <3>6
  <2>3. Bad \subseteq SUBSET S
    OBVIOUS
  <2> HIDE DEF Bad
  <2> QED
    BY <2>1, <2>2, <2>3, TakeOneAway
<1> QED
  BY <1>1, <1>3, <1>4 DEF F

Add      == [p \in Nat \X Nat |-> p[1] + p[2]]
Multiply == [p \in Nat \X Nat |-> p[1] * p[2]]

LEMMA AnyOrderWillDo ==
  /\ IsAnyOrder(Add) /\ \A a, b \in Nat : Add[<<a, b>>] = a + b
  /\ IsAnyOrder(Multiply) /\ \A a, b \in Nat : Multiply[<<a, b>>] = a * b
<1>1. \A a, b \in Nat : a + b \in Nat /\ a * b \in Nat
  OBVIOUS
<1>2. \A a, b \in Nat : Add[<<a, b>>] = a + b /\ Multiply[<<a, b>>] = a * b
  BY DEF Add, Multiply
<1>3. Add \in [Nat \X Nat -> Nat] /\ Multiply \in [Nat \X Nat -> Nat]
  BY <1>1 DEF Add, Multiply
<1>4. ASSUME NEW a \in Nat, NEW b \in Nat, NEW c \in Nat
      PROVE  Add[<<a, Add[<<b, c>>]>>] = Add[<<b, Add[<<a, c>>]>>]
  BY <1>1, <1>2
<1>5. ASSUME NEW a \in Nat, NEW b \in Nat, NEW c \in Nat
      PROVE  Multiply[<<a, Multiply[<<b, c>>]>>] = Multiply[<<b, Multiply[<<a, c>>]>>]
  <2>1. a * (b * c) = b * (a * c)
    OBVIOUS
  <2>2. b * c \in Nat /\ a * c \in Nat
    OBVIOUS
  <2> QED
    BY <1>2, <2>1, <2>2
<1> QED
  BY <1>2, <1>3, <1>4, <1>5 DEF IsAnyOrder

LEMMA FoldOfNumbers ==
  ASSUME NEW op, IsAnyOrder(op), NEW base \in Nat, NEW f, NEW S, IsFiniteSet(S),
         \A x \in S : f[x] \in Nat
  PROVE  \E it : /\ IsFold(op, base, f, S, it)
                 /\ it[S] = FoldOf(op, base, f, S)
                 /\ \A T \in SUBSET S : it[T] \in Nat
<1> DEFINE it == CHOOSE it : IsFold(op, base, f, S, it)
<1>1. IsFold(op, base, f, S, it) /\ it[S] = FoldOf(op, base, f, S)
  BY FoldExists DEF FoldOf
<1> HIDE DEF it
<1>2. ASSUME NEW T \in SUBSET S PROVE it[T] \in Nat
  <2> DEFINE jt == CHOOSE jt : IsFold(op, base, f, T, jt)
  <2>1. IsFiniteSet(T) /\ T \subseteq S /\ T \subseteq T
    BY FS_Subset
  <2>2. IsFold(op, base, f, T, jt) /\ jt[T] = FoldOf(op, base, f, T)
    BY <2>1, FoldExists DEF FoldOf
  <2> HIDE DEF jt
  <2>3. it[T] = jt[T]
    BY <1>1, <2>1, <2>2, FoldsAgree
  <2>4. FoldOf(op, base, f, T) \in Nat
    BY <2>1, FoldInAnyOrder
  <2> QED
    BY <2>2, <2>3, <2>4
<1> QED
  BY <1>1, <1>2

\* A sum can be taken apart at any element.
LEMMA SumIs ==
  ASSUME NEW f, NEW S, IsFiniteSet(S), \A x \in S : f[x] \in Nat
  PROVE  /\ SumOf(f, S) \in Nat
         /\ SumOf(f, {}) = 0
         /\ \A x \in S : SumOf(f, S) = f[x] + SumOf(f, S \ {x})
<1>1. ASSUME NEW T \in SUBSET S PROVE SumOf(f, T) = FoldOf(Add, 0, f, T)
  <2> DEFINE IsSum(it) == it = [s \in SUBSET T |->
                                  IF s = {} THEN 0 ELSE f[Pick(s)] + it[s \ {Pick(s)}]]
             sum == CHOOSE it : IsSum(it)
  <2>1. SumOf(f, T) = sum[T]
    BY DEF SumOf, Sets!MapThenSumSet, Sets!MapThenFoldSet, Pick
  <2>2. IsFiniteSet(T) /\ \A x \in T : f[x] \in Nat
    BY FS_Subset
  <2>3. PICK it : /\ IsFold(Add, 0, f, T, it) /\ it[T] = FoldOf(Add, 0, f, T)
                  /\ \A U \in SUBSET T : it[U] \in Nat
    BY <2>2, FoldOfNumbers, AnyOrderWillDo, 0 \in Nat
  <2>4. ASSUME NEW s \in SUBSET T, s # {}
        PROVE  Add[<<f[Pick(s)], it[s \ {Pick(s)}]>>] = f[Pick(s)] + it[s \ {Pick(s)}]
    <3>1. Pick(s) \in T
      BY <2>4 DEF Pick
    <3>2. f[Pick(s)] \in Nat /\ it[s \ {Pick(s)}] \in Nat
      BY <2>2, <2>3, <3>1
    <3> QED
      BY <3>2, AnyOrderWillDo
  <2>5. IsSum(it)
    BY <2>3, <2>4 DEF IsFold
  <2>6. IsSum(sum)
    BY <2>5
  <2> HIDE DEF sum
  <2> DEFINE Bad == {U \in SUBSET T : sum[U] # it[U]}
  <2>7. Bad = {}
    <3>1. {} \notin Bad
      BY <2>5, <2>6
    <3>2. ASSUME NEW U \in Bad PROVE \E x \in U : U \ {x} \in Bad
      <4>1. U # {} /\ Pick(U) \in U
        BY <3>1 DEF Pick
      <4>2. sum[U] = f[Pick(U)] + sum[U \ {Pick(U)}] /\ it[U] = f[Pick(U)] + it[U \ {Pick(U)}]
        BY <2>5, <2>6, <4>1
      <4> QED
        BY <4>1, <4>2
    <3>3. Bad \subseteq SUBSET T
      OBVIOUS
    <3> HIDE DEF Bad
    <3> QED
      BY <2>2, <3>1, <3>2, <3>3, TakeOneAway
  <2> QED
    BY <2>1, <2>3, <2>7
<1>2. /\ FoldOf(Add, 0, f, S) \in Nat
      /\ FoldOf(Add, 0, f, {}) = 0
      /\ \A x \in S : FoldOf(Add, 0, f, S) = Add[<<f[x], FoldOf(Add, 0, f, S \ {x})>>]
  BY FoldInAnyOrder, AnyOrderWillDo, 0 \in Nat
<1>3. ASSUME NEW x \in S PROVE SumOf(f, S) = f[x] + SumOf(f, S \ {x})
  <2>1. IsFiniteSet(S \ {x}) /\ \A y \in S \ {x} : f[y] \in Nat
    BY FS_Subset
  <2>2. FoldOf(Add, 0, f, S \ {x}) \in Nat
    BY <2>1, FoldInAnyOrder, AnyOrderWillDo, 0 \in Nat
  <2>3. SumOf(f, S) = FoldOf(Add, 0, f, S) /\ SumOf(f, S \ {x}) = FoldOf(Add, 0, f, S \ {x})
    BY <1>1
  <2> QED
    BY <1>2, <2>2, <2>3, AnyOrderWillDo
<1>4. {} \in SUBSET S /\ S \in SUBSET S
  OBVIOUS
<1> QED
  BY <1>1, <1>2, <1>3, <1>4

\* A product can be taken apart at any factor.
LEMMA ProductIs ==
  ASSUME NEW f, IsFiniteSet(DOMAIN f), \A x \in DOMAIN f : f[x] \in Nat
  PROVE  /\ Product(f) \in Nat
         /\ \A x \in DOMAIN f : \E rest \in Nat : Product(f) = f[x] * rest
<1> DEFINE T == DOMAIN f
           IsProduct(it) == it = [s \in SUBSET T |->
                                    IF s = {} THEN 1 ELSE f[Pick(s)] * it[s \ {Pick(s)}]]
           product == CHOOSE it : IsProduct(it)
<1>1. Product(f) = product[T]
  BY DEF Product, Sets!MapThenFoldSet, Pick
<1>2. IsFiniteSet(T) /\ \A x \in T : f[x] \in Nat
  OBVIOUS
<1> HIDE DEF T
<1>3. PICK it : /\ IsFold(Multiply, 1, f, T, it) /\ it[T] = FoldOf(Multiply, 1, f, T)
                /\ \A U \in SUBSET T : it[U] \in Nat
  BY <1>2, FoldOfNumbers, AnyOrderWillDo, 1 \in Nat
<1>4. ASSUME NEW s \in SUBSET T, s # {}
      PROVE  Multiply[<<f[Pick(s)], it[s \ {Pick(s)}]>>] = f[Pick(s)] * it[s \ {Pick(s)}]
  <2>1. Pick(s) \in T
    BY <1>4 DEF Pick
  <2>2. f[Pick(s)] \in Nat /\ it[s \ {Pick(s)}] \in Nat
    BY <1>2, <1>3, <2>1
  <2> QED
    BY <2>2, AnyOrderWillDo
<1>5. IsProduct(it)
  BY <1>3, <1>4 DEF IsFold
<1>6. IsProduct(product)
  BY <1>5
<1> HIDE DEF product
<1> DEFINE Bad == {U \in SUBSET T : product[U] # it[U]}
<1>7. Bad = {}
  <2>1. {} \notin Bad
    BY <1>5, <1>6
  <2>2. ASSUME NEW U \in Bad PROVE \E x \in U : U \ {x} \in Bad
    <3>1. U # {} /\ Pick(U) \in U
      BY <2>1 DEF Pick
    <3>2. product[U] = f[Pick(U)] * product[U \ {Pick(U)}] /\ it[U] = f[Pick(U)] * it[U \ {Pick(U)}]
      BY <1>5, <1>6, <3>1
    <3> QED
      BY <3>1, <3>2
  <2>3. Bad \subseteq SUBSET T
    OBVIOUS
  <2> HIDE DEF Bad
  <2> QED
    BY <1>2, <2>1, <2>2, <2>3, TakeOneAway
<1>8. Product(f) = FoldOf(Multiply, 1, f, T)
  BY <1>1, <1>3, <1>7
<1>9. /\ FoldOf(Multiply, 1, f, T) \in Nat
      /\ \A x \in T : FoldOf(Multiply, 1, f, T)
                        = Multiply[<<f[x], FoldOf(Multiply, 1, f, T \ {x})>>]
  BY <1>2, FoldInAnyOrder, AnyOrderWillDo, 1 \in Nat
<1>10. ASSUME NEW x \in T
       PROVE  /\ FoldOf(Multiply, 1, f, T \ {x}) \in Nat
              /\ Product(f) = f[x] * FoldOf(Multiply, 1, f, T \ {x})
  <2>1. IsFiniteSet(T \ {x}) /\ \A y \in T \ {x} : f[y] \in Nat
    BY <1>2, FS_Subset
  <2>2. FoldOf(Multiply, 1, f, T \ {x}) \in Nat
    BY <2>1, FoldInAnyOrder, AnyOrderWillDo, 1 \in Nat
  <2> QED
    BY <1>2, <1>8, <1>9, <2>2, AnyOrderWillDo
<1> QED
  BY <1>8, <1>9, <1>10 DEF T

\* Two functions that agree on a set have one sum over it.
LEMMA SumsAgree ==
  ASSUME NEW f, NEW g, NEW S, IsFiniteSet(S), \A x \in S : f[x] \in Nat /\ g[x] = f[x]
  PROVE  SumOf(g, S) = SumOf(f, S)
<1> DEFINE Bad == {T \in SUBSET S : SumOf(g, T) # SumOf(f, T)}
<1>1. ASSUME NEW T \in SUBSET S
      PROVE  /\ SumOf(f, T) \in Nat /\ SumOf(f, {}) = 0
             /\ SumOf(g, T) \in Nat /\ SumOf(g, {}) = 0
             /\ \A x \in T : /\ SumOf(f, T) = f[x] + SumOf(f, T \ {x})
                             /\ SumOf(g, T) = g[x] + SumOf(g, T \ {x})
  <2>1. IsFiniteSet(T) /\ (\A x \in T : f[x] \in Nat) /\ \A x \in T : g[x] \in Nat
    BY FS_Subset
  <2>2. /\ SumOf(f, T) \in Nat /\ SumOf(f, {}) = 0
        /\ \A x \in T : SumOf(f, T) = f[x] + SumOf(f, T \ {x})
    BY <2>1, SumIs
  <2>3. /\ SumOf(g, T) \in Nat /\ SumOf(g, {}) = 0
        /\ \A x \in T : SumOf(g, T) = g[x] + SumOf(g, T \ {x})
    BY <2>1, SumIs
  <2> QED
    BY <2>2, <2>3
<1>2. {} \notin Bad
  BY <1>1
<1>3. ASSUME NEW T \in Bad PROVE \E x \in T : T \ {x} \in Bad
  <2>1. PICK x \in T : TRUE
    BY <1>2
  <2>2. T \in SUBSET S /\ T \ {x} \in SUBSET S /\ g[x] = f[x]
    OBVIOUS
  <2>3. SumOf(f, T) = f[x] + SumOf(f, T \ {x}) /\ SumOf(g, T) = f[x] + SumOf(g, T \ {x})
    BY <1>1, <2>2
  <2> QED
    BY <2>2, <2>3
<1>4. Bad = {}
  <2>1. Bad \subseteq SUBSET S
    OBVIOUS
  <2> HIDE DEF Bad
  <2> QED
    BY <1>2, <1>3, <2>1, TakeOneAway
<1> QED
  BY <1>4

\* The sum of two functions is that of their sums.
LEMMA SumsAddUp ==
  ASSUME NEW f, NEW g, NEW h, NEW S, IsFiniteSet(S),
         \A x \in S : f[x] \in Nat /\ g[x] \in Nat /\ h[x] = f[x] + g[x]
  PROVE  SumOf(h, S) = SumOf(f, S) + SumOf(g, S)
<1> DEFINE Bad == {T \in SUBSET S : SumOf(h, T) # SumOf(f, T) + SumOf(g, T)}
<1>1. ASSUME NEW T \in SUBSET S
      PROVE  /\ SumOf(f, T) \in Nat /\ SumOf(f, {}) = 0
             /\ SumOf(g, T) \in Nat /\ SumOf(g, {}) = 0
             /\ SumOf(h, T) \in Nat /\ SumOf(h, {}) = 0
             /\ \A x \in T : /\ SumOf(f, T) = f[x] + SumOf(f, T \ {x})
                             /\ SumOf(g, T) = g[x] + SumOf(g, T \ {x})
                             /\ SumOf(h, T) = h[x] + SumOf(h, T \ {x})
  <2>1. /\ IsFiniteSet(T) /\ (\A x \in T : f[x] \in Nat)
        /\ (\A x \in T : g[x] \in Nat) /\ \A x \in T : h[x] \in Nat
    BY FS_Subset
  <2> QED
    BY <2>1, SumIs
<1>2. {} \notin Bad
  BY <1>1
<1>3. ASSUME NEW T \in Bad PROVE \E x \in T : T \ {x} \in Bad
  <2>1. PICK x \in T : TRUE
    BY <1>2
  <2>2. /\ T \in SUBSET S /\ T \ {x} \in SUBSET S
        /\ h[x] = f[x] + g[x] /\ f[x] \in Nat /\ g[x] \in Nat
    OBVIOUS
  <2>3. /\ SumOf(f, T) = f[x] + SumOf(f, T \ {x})
        /\ SumOf(g, T) = g[x] + SumOf(g, T \ {x})
        /\ SumOf(h, T) = h[x] + SumOf(h, T \ {x})
        /\ SumOf(f, T \ {x}) \in Nat /\ SumOf(g, T \ {x}) \in Nat /\ SumOf(h, T \ {x}) \in Nat
        /\ SumOf(h, T) # SumOf(f, T) + SumOf(g, T)
    BY <1>1, <2>2
  <2>4. SumOf(h, T \ {x}) # SumOf(f, T \ {x}) + SumOf(g, T \ {x})
    BY <2>2, <2>3
  <2> QED
    BY <2>2, <2>4
<1>4. Bad = {}
  <2>1. Bad \subseteq SUBSET S
    OBVIOUS
  <2> HIDE DEF Bad
  <2> QED
    BY <1>2, <1>3, <2>1, TakeOneAway
<1> QED
  BY <1>4

\* What is zero outside of a set adds nothing.
LEMMA SumOverPart ==
  ASSUME NEW f, NEW S, IsFiniteSet(S), NEW P, \A x \in S : f[x] \in Nat
  PROVE  SumOf([x \in S |-> IF x \in P THEN f[x] ELSE 0], S) = SumOf(f, S \cap P)
<1> DEFINE g == [x \in S |-> IF x \in P THEN f[x] ELSE 0]
           Bad == {T \in SUBSET S : SumOf(g, T) # SumOf(f, T \cap P)}
<1>1. \A x \in S : g[x] \in Nat /\ g[x] = IF x \in P THEN f[x] ELSE 0
  OBVIOUS
<1> HIDE DEF g
<1>2. ASSUME NEW T \in SUBSET S
      PROVE  /\ SumOf(f, T) \in Nat /\ SumOf(f, {}) = 0
             /\ SumOf(g, T) \in Nat /\ SumOf(g, {}) = 0
             /\ \A x \in T : /\ SumOf(f, T) = f[x] + SumOf(f, T \ {x})
                             /\ SumOf(g, T) = g[x] + SumOf(g, T \ {x})
  <2>1. IsFiniteSet(T) /\ (\A x \in T : f[x] \in Nat) /\ \A x \in T : g[x] \in Nat
    BY <1>1, FS_Subset
  <2> QED
    BY <2>1, SumIs
<1>3. {} \notin Bad
  <2>1. {} \cap P = {}
    OBVIOUS
  <2> QED
    BY <1>2, <2>1
<1>4. ASSUME NEW T \in Bad PROVE \E x \in T : T \ {x} \in Bad
  <2>1. PICK x \in T : TRUE
    BY <1>3
  <2>2. T \in SUBSET S /\ T \ {x} \in SUBSET S /\ T \cap P \in SUBSET S /\ x \in S
    OBVIOUS
  <2>3. SumOf(g, T) = g[x] + SumOf(g, T \ {x}) /\ SumOf(g, T \ {x}) \in Nat
    BY <1>2, <2>2
  <2>4. CASE x \in P
    <3>1. (T \cap P) \ {x} = (T \ {x}) \cap P /\ x \in T \cap P
      BY <2>4
    <3>2. SumOf(f, T \cap P) = f[x] + SumOf(f, (T \ {x}) \cap P)
      BY <1>2, <2>2, <3>1
    <3> QED
      BY <1>1, <2>2, <2>3, <2>4, <3>2
  <2>5. CASE x \notin P
    <3>1. T \cap P = (T \ {x}) \cap P
      BY <2>5
    <3>2. SumOf(g, T) = SumOf(g, T \ {x})
      BY <1>1, <2>2, <2>3, <2>5
    <3> QED
      BY <2>2, <3>1, <3>2
  <2> QED
    BY <2>4, <2>5
<1>5. Bad = {}
  <2>1. Bad \subseteq SUBSET S
    OBVIOUS
  <2> HIDE DEF Bad
  <2> QED
    BY <1>3, <1>4, <2>1, TakeOneAway
<1> QED
  BY <1>5 DEF g

\* A number, once for each element.
LEMMA SumOfOneNumber ==
  ASSUME NEW f, NEW S, IsFiniteSet(S), NEW k \in Nat, \A x \in S : f[x] = k
  PROVE  SumOf(f, S) = Cardinality(S) * k
<1> DEFINE Bad == {T \in SUBSET S : SumOf(f, T) # Cardinality(T) * k}
<1>1. ASSUME NEW T \in SUBSET S
      PROVE  /\ SumOf(f, T) \in Nat /\ SumOf(f, {}) = 0
             /\ \A x \in T : SumOf(f, T) = f[x] + SumOf(f, T \ {x})
             /\ IsFiniteSet(T) /\ Cardinality(T) \in Nat
             /\ \A x \in T : Cardinality(T) = Cardinality(T \ {x}) + 1
  <2>1. IsFiniteSet(T) /\ (\A x \in T : f[x] \in Nat) /\ Cardinality(T) \in Nat
    BY FS_Subset, FS_CardinalityType
  <2>2. ASSUME NEW x \in T PROVE Cardinality(T) = Cardinality(T \ {x}) + 1
    <3>1. Cardinality(T \ {x}) = Cardinality(T) - 1
      BY <2>1, FS_RemoveElement
    <3> QED
      BY <2>1, <3>1
  <2> QED
    BY <2>1, <2>2, SumIs
<1>2. {} \notin Bad
  BY <1>1, FS_EmptySet
<1>3. ASSUME NEW T \in Bad PROVE \E x \in T : T \ {x} \in Bad
  <2>1. PICK x \in T : TRUE
    BY <1>2
  <2>2. T \in SUBSET S /\ T \ {x} \in SUBSET S /\ f[x] = k
    OBVIOUS
  <2> DEFINE m == Cardinality(T \ {x})
             sum == SumOf(f, T \ {x})
  <2>3. SumOf(f, T) = k + sum /\ sum \in Nat /\ m \in Nat /\ Cardinality(T) = m + 1
    BY <1>1, <2>2
  <2>4. SumOf(f, T) # (m + 1) * k
    BY <2>3
  <2> HIDE DEF m, sum
  <2>5. sum # m * k
    <3>1. (m + 1) * k = m * k + k /\ m * k \in Nat
      BY <2>3
    <3> QED
      BY <2>3, <2>4, <3>1
  <2> QED
    BY <2>2, <2>5 DEF m, sum
<1>4. Bad = {}
  <2>1. Bad \subseteq SUBSET S
    OBVIOUS
  <2> HIDE DEF Bad
  <2> QED
    BY <1>2, <1>3, <2>1, TakeOneAway
<1> QED
  BY <1>4

\* What some things are worth, counted by those who have a part of them or thing
\* by thing.
LEMMA CountedTwice ==
  ASSUME NEW D, IsFiniteSet(D), NEW P, IsFiniteSet(P), NEW owners \in [P -> SUBSET D],
         NEW worth \in [P -> Nat]
  PROVE  SumOf([i \in D |-> SumOf(worth, {p \in P : i \in owners[p]})], D)
           = SumOf([p \in P |-> Cardinality(owners[p]) * worth[p]], P)
<1> DEFINE has(i, T) == {p \in T : i \in owners[p]}
           by(T) == [i \in D |-> SumOf(worth, has(i, T))]
           thing == [p \in P |-> Cardinality(owners[p]) * worth[p]]
           Bad == {T \in SUBSET P : SumOf(by(T), D) # SumOf(thing, T)}
<1>1. \A T \in SUBSET P, i \in D : by(T)[i] \in Nat
  <2>1. \A T \in SUBSET P, i \in D : IsFiniteSet(has(i, T)) /\ \A p \in has(i, T) : worth[p] \in Nat
    BY FS_Subset
  <2> HIDE DEF has
  <2> QED
    BY <2>1, SumIs
<1>2. \A p \in P : /\ IsFiniteSet(owners[p]) /\ Cardinality(owners[p]) \in Nat
                   /\ worth[p] \in Nat /\ thing[p] = Cardinality(owners[p]) * worth[p]
                   /\ thing[p] \in Nat
  BY FS_Subset, FS_CardinalityType
<1> HIDE DEF thing
<1>3. {} \notin Bad
  <2>1. \A i \in D : by({})[i] = 0
    <3>1. \A i \in D : has(i, {}) = {}
      OBVIOUS
    <3>2. SumOf(worth, {}) = 0
      BY SumIs
    <3> HIDE DEF has
    <3> QED
      BY <3>1, <3>2
  <2>2. SumOf(by({}), D) = Cardinality(D) * 0 /\ Cardinality(D) \in Nat
    <3> HIDE DEF by
    <3> QED
      BY <2>1, SumOfOneNumber, 0 \in Nat, FS_CardinalityType
  <2>3. SumOf(thing, {}) = 0
    BY <1>2, SumIs
  <2> HIDE DEF by
  <2>4. SumOf(by({}), D) = 0
    BY <2>2
  <2> QED
    BY <2>3, <2>4
<1>4. ASSUME NEW T \in Bad PROVE \E x \in T : T \ {x} \in Bad
  <2>1. PICK x \in T : TRUE
    BY <1>3
  <2> DEFINE U == T \ {x}
             k == worth[x]
             own == [i \in D |-> IF i \in owners[x] THEN [j \in D |-> k][i] ELSE 0]
  <2>2. T \in SUBSET P /\ U \in SUBSET P /\ x \in P /\ IsFiniteSet(T) /\ k \in Nat
    BY FS_Subset
  <2>3. ASSUME NEW i \in D PROVE by(T)[i] = by(U)[i] + own[i]
    <3>1. IsFiniteSet(has(i, T)) /\ \A p \in has(i, T) : worth[p] \in Nat
      BY <2>2, FS_Subset
    <3>2. CASE i \in owners[x]
      <4>1. x \in has(i, T) /\ has(i, T) \ {x} = has(i, U)
        BY <3>2
      <4>2. SumOf(worth, has(i, T)) = worth[x] + SumOf(worth, has(i, U))
        <5> HIDE DEF has, U
        <5> QED
          BY <3>1, <4>1, SumIs
      <4>3. own[i] = k /\ by(U)[i] = SumOf(worth, has(i, U)) /\ by(T)[i] = SumOf(worth, has(i, T))
        BY <3>2
      <4>4. by(U)[i] \in Nat
        BY <1>1, <2>2
      <4> HIDE DEF has, U, by, own
      <4> QED
        BY <2>2, <4>2, <4>3, <4>4
    <3>3. CASE i \notin owners[x]
      <4>1. has(i, T) = has(i, U)
        BY <3>3
      <4>2. own[i] = 0 /\ by(U)[i] = SumOf(worth, has(i, U)) /\ by(T)[i] = SumOf(worth, has(i, T))
        BY <3>3
      <4>3. by(U)[i] \in Nat
        BY <1>1, <2>2
      <4> HIDE DEF has, U, by, own
      <4> QED
        BY <4>1, <4>2, <4>3
    <3> QED
      BY <3>2, <3>3
  <2>4. SumOf(by(T), D) = SumOf(by(U), D) + SumOf(own, D)
    <3>1. \A i \in D : by(U)[i] \in Nat /\ own[i] \in Nat /\ by(T)[i] = by(U)[i] + own[i]
      BY <1>1, <2>2, <2>3
    <3> HIDE DEF by, own, U
    <3> QED
      BY <3>1, SumsAddUp
  <2>5. SumOf(own, D) = thing[x]
    <3> DEFINE all == [j \in D |-> k]
    <3>1. SumOf(own, D) = SumOf(all, D \cap owners[x])
      <4>1. \A i \in D : all[i] \in Nat
        BY <2>2
      <4>2. own = [i \in D |-> IF i \in owners[x] THEN all[i] ELSE 0]
        OBVIOUS
      <4> DEFINE Own == owners[x]
      <4> HIDE DEF all, Own
      <4>3. SumOf([i \in D |-> IF i \in Own THEN all[i] ELSE 0], D) = SumOf(all, D \cap Own)
        BY <4>1, SumOverPart
      <4> QED
        BY <4>3 DEF Own, all
    <3>2. D \cap owners[x] = owners[x] /\ IsFiniteSet(owners[x])
      BY <1>2, <2>2
    <3>3. SumOf(all, owners[x]) = Cardinality(owners[x]) * k
      <4>1. \A i \in owners[x] : all[i] = k
        BY <2>2
      <4> HIDE DEF all, k
      <4> QED
        BY <2>2, <3>2, <4>1, SumOfOneNumber
    <3> QED
      BY <1>2, <2>2, <3>1, <3>2, <3>3
  <2>6. SumOf(thing, T) = thing[x] + SumOf(thing, U) /\ SumOf(thing, U) \in Nat
    <3>1. \A p \in T : thing[p] \in Nat
      BY <1>2, <2>2
    <3>2. IsFiniteSet(U) /\ \A p \in U : thing[p] \in Nat
      BY <1>2, <2>2, FS_Subset
    <3> QED
      BY <2>2, <3>1, <3>2, SumIs
  <2>7. SumOf(by(U), D) \in Nat /\ thing[x] \in Nat
    <3>1. \A i \in D : by(U)[i] \in Nat
      BY <1>1, <2>2
    <3> HIDE DEF by, U
    <3> QED
      BY <1>2, <2>2, <3>1, SumIs
  <2>8. SumOf(by(T), D) # SumOf(thing, T)
    OBVIOUS
  <2>9. SumOf(by(U), D) # SumOf(thing, U)
    <3> HIDE DEF by, own, U
    <3> QED
      BY <2>4, <2>5, <2>6, <2>7, <2>8
  <2> QED
    BY <2>2, <2>9
<1>5. Bad = {}
  <2>1. Bad \subseteq SUBSET P
    OBVIOUS
  <2> HIDE DEF Bad
  <2> QED
    BY <1>3, <1>4, <2>1, TakeOneAway
<1> QED
  BY <1>5 DEF thing

-----------------------------------------------------------------------------
(* Equity *)

LEMMA ExactDivision ==
  ASSUME NEW k \in Nat \ {0}, NEW rest \in Nat
  PROVE  (k * rest) \div k = rest
<1> DEFINE q == (k * rest) \div k
           m == (k * rest) % k
<1>1. k * rest \in Nat
  OBVIOUS
<1>2. q \in Int /\ m \in 0 .. k - 1 /\ k * rest = k * q + m
  BY <1>1
<1> HIDE DEF q, m
<1>3. CASE q >= rest + 1
  <2>1. k * q >= k * (rest + 1) /\ k * (rest + 1) = k * rest + k
    BY <1>2, <1>3
  <2> QED
    BY <1>1, <1>2, <2>1
<1>4. CASE q <= rest - 1
  <2>1. k * q <= k * (rest - 1) /\ k * (rest - 1) = k * rest - k
    BY <1>2, <1>4
  <2> QED
    BY <1>1, <1>2, <2>1
<1>5. q = rest
  BY <1>2, <1>3, <1>4
<1> QED
  BY <1>5 DEF q

\* A request for known hands that can be answered.
IsAskable(r) == r \in Requests /\ HoldingsKnown(r) /\ Answerable(r)

Seated(r) == DOMAIN r.players

\* What the players hold, and how often it is counted.
Held(r) == [i \in Seated(r) |-> CHOOSE combo \in r.players[i] : TRUE]
Weight(r) == Product([i \in Seated(r) |-> Held(r)[i].weight])

LEMMA HoldingsAre ==
  ASSUME NEW r, IsAskable(r)
  PROVE  /\ Seated(r) = 1 .. Len(r.players) /\ Len(r.players) \in Nat /\ Len(r.players) >= 2
         /\ r.board \in SUBSET Deck /\ Cardinality(r.board) \in 0 .. 5
         /\ Held(r) \in [Seated(r) -> [cards : SUBSET Deck, weight : Nat]]
         /\ \A i \in Seated(r) : Playable(r)[i] = {Held(r)[i]}
         /\ Selections(r) \subseteq {Held(r)}
<1>1. /\ r \in [board : SUBSET Deck, players : Seq(SUBSET [cards : SUBSET Deck, weight : Nat])]
      /\ Cardinality(r.board) \in {0, 3, 4, 5} /\ Len(r.players) >= 2
      /\ \A i \in DOMAIN r.players : IsFiniteSet(r.players[i]) /\ Cardinality(r.players[i]) = 1
  BY RequestsAreValid DEF IsAskable, HoldingsKnown
<1>2. /\ Seated(r) = 1 .. Len(r.players) /\ Len(r.players) \in Nat /\ Len(r.players) >= 2
      /\ r.board \in SUBSET Deck
  BY <1>1 DEF Seated
<1>3. Cardinality(r.board) \in 0 .. 5
  BY <1>1
<1>4. ASSUME NEW i \in Seated(r)
      PROVE  /\ Held(r)[i] \in [cards : SUBSET Deck, weight : Nat]
             /\ Playable(r)[i] = {Held(r)[i]}
  <2>1. /\ r.players[i] \in SUBSET [cards : SUBSET Deck, weight : Nat]
        /\ \E x : r.players[i] = {x}
    <3>1. i \in DOMAIN r.players /\ r.players \in Seq(SUBSET [cards : SUBSET Deck, weight : Nat])
      BY <1>1, <1>4 DEF Seated
    <3>2. IsFiniteSet(r.players[i]) /\ Cardinality(r.players[i]) = 1
      BY <1>1, <3>1
    <3>3. \E x : r.players[i] = {x}
      BY <3>2, FS_Singleton
    <3>4. r.players[i] \in SUBSET [cards : SUBSET Deck, weight : Nat]
      BY <3>1
    <3> QED
      BY <3>3, <3>4
  <2>2. r.players[i] = {Held(r)[i]}
    BY <2>1 DEF Held
  <2>3. Playable(r)[i] \subseteq r.players[i] /\ Playable(r)[i] # {}
    BY <1>4 DEF Playable, Unblocked, IsAskable, Answerable, Seated
  <2> QED
    BY <2>1, <2>2, <2>3
<1>5. Held(r) \in [Seated(r) -> [cards : SUBSET Deck, weight : Nat]]
  BY <1>4 DEF Held
<1>6. ASSUME NEW held \in Selections(r) PROVE held = Held(r)
  <2>1. /\ held \in [Seated(r) -> UNION {Playable(r)[i] : i \in Seated(r)}]
        /\ \A i \in Seated(r) : held[i] \in Playable(r)[i]
    BY DEF Selections, Seated
  <2>2. \A i \in Seated(r) : held[i] = Held(r)[i]
    BY <1>4, <2>1
  <2> QED
    BY <1>5, <2>1, <2>2
<1> QED
  BY <1>2, <1>3, <1>4, <1>5, <1>6

LEMMA GamesAre ==
  ASSUME NEW r, IsAskable(r)
  PROVE  /\ IsFiniteSet(Games(r))
         /\ \A game \in Games(r) : game.held = Held(r) /\ game.community \in Fives
<1> DEFINE f == [c \in SUBSET Deck |-> [held |-> Held(r), community |-> c]]
           All == {f[c] : c \in SUBSET Deck}
<1>1. /\ r.board \in SUBSET Deck /\ Cardinality(r.board) \in 0 .. 5
      /\ Selections(r) \subseteq {Held(r)}
  BY HoldingsAre
<1>2. IsFiniteSet(Deck) /\ Deck \subseteq Cards
  BY RequestsAreValid, CardsAreFinite, FS_Subset
<1>3. ASSUME NEW game \in Games(r)
      PROVE  /\ game = [held |-> Held(r), community |-> game.community]
             /\ game.community \in SUBSET Deck
             /\ game.community \in Fives
  <2>1. PICK held \in Selections(r) :
          game \in [held : {held}, community : {r.board \cup out : out \in Runouts(r.board, held)}]
    BY DEF Games
  <2>2. held = Held(r)
    BY <1>1
  <2>3. PICK out \in Runouts(r.board, held) : game.community = r.board \cup out
    BY <2>1
  <2>4. /\ out \in SUBSET Deck /\ out \cap r.board = {}
        /\ Cardinality(out) = 5 - Cardinality(r.board)
    <3> DEFINE free == Deck \ (r.board \cup UNION {held[i].cards : i \in DOMAIN held})
    <3>1. out \in Sets!kSubset(5 - Cardinality(r.board), free)
      BY DEF Runouts
    <3>2. free \subseteq Deck /\ free \cap r.board = {}
      OBVIOUS
    <3> HIDE DEF free
    <3> QED
      BY <3>1, <3>2, CardinalityOfSets DEF Sets!kSubset
  <2>5. IsFiniteSet(out) /\ IsFiniteSet(r.board) /\ Cardinality(out) \in Nat
    BY <1>1, <1>2, <2>4, FS_Subset, FS_CardinalityType
  <2>6. Cardinality(r.board \cup out)
          = Cardinality(r.board) + Cardinality(out) - Cardinality(r.board \cap out)
    BY <2>5, FS_Union
  <2>7. Cardinality(r.board \cap out) = 0
    <3>1. r.board \cap out = {}
      BY <2>4
    <3> QED
      BY <3>1, FS_EmptySet
  <2>8. Cardinality(r.board \cup out) = 5
    BY <1>1, <2>4, <2>5, <2>6, <2>7
  <2>9. game.community \in SUBSET Deck
    BY <1>1, <2>3, <2>4
  <2>10. game.community \in Fives
    BY <1>2, <2>3, <2>8, <2>9 DEF Fives
  <2>11. game = [held |-> Held(r), community |-> game.community]
    BY <2>1, <2>2
  <2> QED
    BY <2>9, <2>10, <2>11
<1>4. IsFiniteSet(SUBSET Deck)
  BY <1>2, FS_SUBSET
<1>5. IsFiniteSet(All)
  <2>1. SUBSET Deck \subseteq DOMAIN f
    OBVIOUS
  <2> HIDE DEF f
  <2> QED
    BY <1>4, <2>1, FiniteImage
<1>6. Games(r) \in SUBSET All
  <2> SUFFICES ASSUME NEW game \in Games(r) PROVE game \in All
    OBVIOUS
  <2>1. f[game.community] = [held |-> Held(r), community |-> game.community]
    BY <1>3
  <2> HIDE DEF f
  <2> QED
    BY <1>3, <2>1
<1>7. IsFiniteSet(Games(r))
  BY <1>5, <1>6, FS_Subset
<1>8. ASSUME NEW game \in Games(r) PROVE game.held = Held(r)
  <2>1. game = [held |-> Held(r), community |-> game.community]
    BY <1>3
  <2>2. [held |-> Held(r), community |-> game.community].held = Held(r)
    OBVIOUS
  <2> QED
    BY <2>1, <2>2
<1> QED
  BY <1>3, <1>7, <1>8

\* Every game is won by somebody, and by players of the request.
LEMMA WinnersAre ==
  ASSUME NEW r, IsAskable(r), NEW game \in Games(r)
  PROVE  Winners(game) \in SUBSET Seated(r) /\ Winners(game) # {}
<1> DEFINE D == Seated(r)
           community == game.community
           rank == [i \in D |-> Evaluate7(Held(r)[i].cards \cup community)]
           ranks == {rank[i] : i \in D}
<1>1. /\ D = 1 .. Len(r.players) /\ Len(r.players) \in Nat /\ Len(r.players) >= 2
      /\ Held(r) \in [D -> [cards : SUBSET Deck, weight : Nat]]
  BY HoldingsAre
<1>2. game.held = Held(r) /\ community \in Fives /\ Deck \subseteq Cards
  BY GamesAre, RequestsAreValid
<1> HIDE DEF D, community
<1>3. ASSUME NEW i \in D PROVE rank[i] \in Ranking
  <2> DEFINE cards == Held(r)[i].cards \cup community
  <2>1. cards \in SUBSET Cards
    <3>1. Held(r)[i] \in [cards : SUBSET Deck, weight : Nat]
      BY <1>1
    <3> QED
      BY <1>2, <3>1 DEF Fives
  <2>2. Cardinality(cards) >= 5
    <3>1. IsFiniteSet(cards) /\ Cardinality(cards) \in Nat
      BY <2>1, CardsAreFinite, FS_Subset, FS_CardinalityType
    <3>2. Cardinality(community) <= Cardinality(cards) /\ Cardinality(community) = 5
      <4>1. community \in SUBSET cards
        OBVIOUS
      <4> HIDE DEF cards
      <4> QED
        BY <1>2, <3>1, <4>1, FS_Subset DEF Fives
    <3> HIDE DEF cards
    <3> QED
      BY <3>1, <3>2
  <2>3. rank[i] = Evaluate7(cards)
    OBVIOUS
  <2> HIDE DEF cards
  <2> QED
    BY <2>1, <2>2, <2>3, Evaluate7IsARanking
<1>4. IsFiniteSet(D) /\ D # {}
  <2>1. IsFiniteSet(D)
    BY <1>1, FS_Interval, 1 \in Int, Len(r.players) \in Int
  <2>2. 1 \in D
    BY <1>1
  <2> QED
    BY <2>1, <2>2
<1>5. IsFiniteSet(ranks)
  <2>1. D \subseteq DOMAIN rank
    OBVIOUS
  <2> HIDE DEF rank
  <2> QED
    BY <1>4, <2>1, FiniteImage
<1>6. BestOf(ranks) \in ranks
  <2>1. ranks \subseteq Ranking /\ ranks # {}
    BY <1>3, <1>4
  <2> HIDE DEF ranks
  <2> QED
    BY <1>5, <2>1, BestOfIsBest
<1>7. Winners(game) = {i \in D : rank[i] = BestOf(ranks)}
  <2>1. DOMAIN game.held = D
    BY <1>1, <1>2
  <2>2. rank = [i \in DOMAIN game.held |-> Evaluate7(game.held[i].cards \cup game.community)]
    BY <1>2, <2>1 DEF community
  <2>3. DOMAIN rank = D
    OBVIOUS
  <2> HIDE DEF rank
  <2> QED
    BY <2>2, <2>3 DEF Winners
<1> HIDE DEF rank
<1> QED
  BY <1>6, <1>7 DEF D

\* Every number of players can share the pot evenly.
LEMMA ShareIs ==
  ASSUME NEW r, IsAskable(r), NEW W \in SUBSET Seated(r), W # {}
  PROVE  /\ IsFiniteSet(Seated(r)) /\ Shares(r) \in Nat /\ ShareOf(r, W) \in Nat
         /\ Cardinality(W) \in 1 .. Len(r.players)
         /\ Cardinality(W) * ShareOf(r, W) = Shares(r)
<1> DEFINE D == Seated(r)
           n == Len(r.players)
           f == [i \in D |-> i]
           k == Cardinality(W)
<1>1. D = 1 .. n /\ n \in Nat
  BY HoldingsAre
<1>2. Shares(r) = Product(f)
  BY DEF Shares, Seated
<1> HIDE DEF D, n
<1>3. IsFiniteSet(D) /\ Cardinality(D) = n
  <2>1. IsFiniteSet(1 .. n) /\ Cardinality(1 .. n) = n
    BY <1>1, FS_Interval
  <2> QED
    BY <1>1, <2>1
<1>4. IsFiniteSet(W) /\ k \in 1 .. n
  <2>1. IsFiniteSet(W) /\ k <= n /\ k \in Nat
    BY <1>3, FS_Subset, FS_CardinalityType DEF D
  <2>2. k # 0
    BY <2>1, FS_EmptySet
  <2> HIDE DEF k
  <2> QED
    BY <1>1, <2>1, <2>2
<1>5. /\ Product(f) \in Nat
      /\ \A i \in D : \E rest \in Nat : Product(f) = i * rest
  <2>1. DOMAIN f = D /\ IsFiniteSet(DOMAIN f) /\ (\A i \in D : f[i] = i)
        /\ \A i \in DOMAIN f : f[i] \in Nat
    BY <1>1, <1>3
  <2> HIDE DEF f
  <2>2. /\ Product(f) \in Nat
        /\ \A i \in DOMAIN f : \E rest \in Nat : Product(f) = f[i] * rest
    BY <2>1, ProductIs
  <2> QED
    BY <2>1, <2>2
<1> HIDE DEF f, k
<1>6. PICK rest \in Nat : Product(f) = k * rest
  BY <1>1, <1>4, <1>5
<1>7. k \in Nat \ {0}
  BY <1>1, <1>4
<1>8. ShareOf(r, W) = rest
  BY <1>2, <1>6, <1>7, ExactDivision DEF ShareOf, k
<1> QED
  BY <1>2, <1>3, <1>4, <1>5, <1>6, <1>8 DEF D, n, k

\* Of known hands, every game counts as much as any other.
LEMMA WeightIs ==
  ASSUME NEW r, IsAskable(r)
  PROVE  /\ Weight(r) \in Nat
         /\ \A game \in Games(r) : Product([i \in DOMAIN game.held |-> game.held[i].weight]) = Weight(r)
         /\ Product([i \in DOMAIN r.players |->
                       SumOf([combo \in Playable(r)[i] |-> combo.weight], Playable(r)[i])])
              = Weight(r)
<1> DEFINE D == Seated(r)
           f == [i \in D |-> Held(r)[i].weight]
<1>1. /\ D = 1 .. Len(r.players) /\ Len(r.players) \in Nat
      /\ Held(r) \in [D -> [cards : SUBSET Deck, weight : Nat]]
      /\ \A i \in D : Playable(r)[i] = {Held(r)[i]}
  BY HoldingsAre
<1>2. Weight(r) = Product(f)
  BY DEF Weight
<1>3. Product(f) \in Nat
  <2>1. IsFiniteSet(D)
    BY <1>1, FS_Interval, 1 \in Int, Len(r.players) \in Int
  <2>2. DOMAIN f = D /\ \A i \in DOMAIN f : f[i] \in Nat
    BY <1>1
  <2> HIDE DEF f
  <2> QED
    BY <2>1, <2>2, ProductIs
<1>4. ASSUME NEW game \in Games(r)
      PROVE  Product([i \in DOMAIN game.held |-> game.held[i].weight]) = Weight(r)
  <2>1. game.held = Held(r) /\ DOMAIN Held(r) = D
    BY <1>1, GamesAre
  <2>2. [i \in DOMAIN game.held |-> game.held[i].weight] = f
    BY <2>1
  <2> QED
    BY <1>2, <2>2
<1>5. ASSUME NEW i \in D
      PROVE  SumOf([combo \in Playable(r)[i] |-> combo.weight], Playable(r)[i]) = f[i]
  <2> DEFINE c == Held(r)[i]
             g == [combo \in {c} |-> combo.weight]
  <2>1. Playable(r)[i] = {c} /\ c.weight \in Nat
    BY <1>1
  <2>2. IsFiniteSet({c}) /\ g[c] = c.weight
    BY FS_Singleton
  <2> HIDE DEF c, g
  <2>3. SumOf(g, {c}) = g[c] + SumOf(g, {c} \ {c}) /\ SumOf(g, {}) = 0
    BY <2>1, <2>2, SumIs
  <2>4. {c} \ {c} = {}
    OBVIOUS
  <2>5. SumOf(g, {c}) = c.weight
    BY <2>1, <2>2, <2>3, <2>4
  <2>6. f[i] = c.weight
    BY DEF c
  <2> QED
    BY <2>1, <2>5, <2>6 DEF g
<1>6. [i \in DOMAIN r.players |->
         SumOf([combo \in Playable(r)[i] |-> combo.weight], Playable(r)[i])] = f
  BY <1>5 DEF Seated
<1> QED
  BY <1>2, <1>3, <1>4, <1>6

LEMMA PotIsShared ==
  ASSUME NEW r, IsAskable(r)
  PROVE  LET answer == CalculateEquity(r)
         IN  /\ Total(answer.equity) = answer.of * Shares(r)
             /\ Len(r.players) = 2 => Total(answer.wins) = answer.of + answer.ties
<1> DEFINE D == Seated(r)
           P == {[winners |-> Winners(game), game |-> game,
                  weight  |-> Product([i \in DOMAIN game.held |-> game.held[i].weight])] :
                   game \in Games(r)}
           w == Weight(r)
           weight == [p \in P |-> p.weight]
           share  == [p \in P |-> p.weight * ShareOf(r, p.winners)]
           owners == [p \in P |-> p.winners]
           tied   == {p \in P : Cardinality(p.winners) > 1}
           by(worth) == [i \in D |-> SumOf(worth, {p \in P : i \in p.winners})]
           size == Cardinality(P)
           answer == CalculateEquity(r)
<1>1. /\ answer.wins = by(weight) /\ answer.equity = by(share)
      /\ answer.ties = SumOf(weight, tied)
      /\ answer.of = size * w
  <2>1. Product([i \in DOMAIN r.players |->
                   SumOf([combo \in Playable(r)[i] |-> combo.weight], Playable(r)[i])]) = w
    BY WeightIs
  <2> HIDE DEF w
  <2> QED
    BY <2>1 DEF CalculateEquity, Seated
<1>2. IsFiniteSet(D) /\ D = 1 .. Len(r.players) /\ Len(r.players) \in Nat
  <2>1. D = 1 .. Len(r.players) /\ Len(r.players) \in Nat
    BY HoldingsAre
  <2>2. IsFiniteSet(1 .. Len(r.players))
    BY <2>1, FS_Interval, 1 \in Int, Len(r.players) \in Int
  <2> QED
    BY <2>1, <2>2
<1>3. IsFiniteSet(P)
  <2> DEFINE f == [game \in Games(r) |->
                     [winners |-> Winners(game), game |-> game,
                      weight |-> Product([i \in DOMAIN game.held |-> game.held[i].weight])]]
  <2>1. P = {f[game] : game \in Games(r)} /\ Games(r) \subseteq DOMAIN f
    OBVIOUS
  <2> HIDE DEF P, f
  <2> QED
    BY <2>1, GamesAre, FiniteImage
<1>4. ASSUME NEW p \in P
      PROVE  /\ p.winners \in SUBSET D /\ p.winners # {}
             /\ p.weight = w
  <2>1. PICK game \in Games(r) :
          /\ p.winners = Winners(game)
          /\ p.weight = Product([i \in DOMAIN game.held |-> game.held[i].weight])
    OBVIOUS
  <2>2. Product([i \in DOMAIN game.held |-> game.held[i].weight]) = w
    BY WeightIs
  <2>3. Winners(game) \in SUBSET D /\ Winners(game) # {}
    BY WinnersAre
  <2> QED
    BY <2>1, <2>2, <2>3
<1>5. w \in Nat /\ size \in Nat
  BY <1>3, WeightIs, FS_CardinalityType
<1> HIDE DEF P, w, size, answer
<1>6. ASSUME NEW p \in P
      PROVE  /\ ShareOf(r, p.winners) \in Nat
             /\ Cardinality(p.winners) \in 1 .. Len(r.players)
             /\ Cardinality(p.winners) * ShareOf(r, p.winners) = Shares(r)
             /\ Shares(r) \in Nat
  BY <1>4, ShareIs
<1>7. owners \in [P -> SUBSET D] /\ weight \in [P -> Nat] /\ share \in [P -> Nat]
  <2>1. \A p \in P : p.weight * ShareOf(r, p.winners) \in Nat
    BY <1>4, <1>5, <1>6
  <2> QED
    BY <1>4, <1>5, <2>1
<1> HIDE DEF D
<1>8. ASSUME NEW worth \in [P -> Nat]
      PROVE  SumOf(by(worth), D) = SumOf([p \in P |-> Cardinality(p.winners) * worth[p]], P)
  <2>1. SumOf([i \in D |-> SumOf(worth, {p \in P : i \in owners[p]})], D)
          = SumOf([p \in P |-> Cardinality(owners[p]) * worth[p]], P)
    <3>1. owners \in [P -> SUBSET D]
      BY <1>7
    <3>2. IsFiniteSet(D) /\ IsFiniteSet(P) /\ worth \in [P -> Nat]
      BY <1>2, <1>3
    <3> HIDE DEF owners
    <3> QED
      BY <3>1, <3>2, CountedTwice
  <2>2. [i \in D |-> SumOf(worth, {p \in P : i \in owners[p]})] = by(worth)
    <3>1. \A i : {p \in P : i \in owners[p]} = {p \in P : i \in p.winners}
      OBVIOUS
    <3> HIDE DEF owners
    <3> QED
      BY <3>1
  <2>3. [p \in P |-> Cardinality(owners[p]) * worth[p]]
          = [p \in P |-> Cardinality(p.winners) * worth[p]]
    OBVIOUS
  <2> HIDE DEF owners, by
  <2> QED
    BY <2>1, <2>2, <2>3
<1>9. DOMAIN answer.equity = D /\ DOMAIN answer.wins = D
  BY <1>1
<1>10. Total(answer.equity) = answer.of * Shares(r)
  <2> DEFINE each == [p \in P |-> Cardinality(p.winners) * share[p]]
             k == w * Shares(r)
  <2>1. Shares(r) \in Nat
    <3>1. PICK i \in D : TRUE
      <4>1. Len(r.players) >= 2
        BY HoldingsAre
      <4> QED
        BY <1>2, <4>1
    <3> QED
      BY <3>1, ShareIs, {i} # {} DEF D
  <2>2. ASSUME NEW p \in P PROVE each[p] = k
    <3> DEFINE m == Cardinality(p.winners)
               s == ShareOf(r, p.winners)
    <3>1. each[p] = m * (w * s)
      BY <1>4
    <3>2. m \in Nat /\ s \in Nat /\ m * s = Shares(r)
      BY <1>2, <1>6
    <3> HIDE DEF m, s
    <3>3. m * (w * s) = w * (m * s)
      BY <1>5, <3>2
    <3> QED
      BY <3>1, <3>2, <3>3
  <2>3. Total(answer.equity) = SumOf(each, P)
    <3>1. Total(answer.equity) = SumOf(by(share), D)
      BY <1>1, <1>9 DEF Total
    <3> HIDE DEF by, share
    <3> QED
      BY <1>7, <1>8, <3>1
  <2>4. SumOf(each, P) = size * k
    <3>1. k \in Nat
      BY <1>5, <2>1
    <3> HIDE DEF each, k
    <3> QED
      BY <1>3, <2>2, <3>1, SumOfOneNumber DEF size
  <2>5. size * (w * Shares(r)) = (size * w) * Shares(r)
    BY <1>5, <2>1
  <2> QED
    BY <1>1, <2>3, <2>4, <2>5
<1>11. ASSUME Len(r.players) = 2 PROVE Total(answer.wins) = answer.of + answer.ties
  <2> DEFINE each == [p \in P |-> Cardinality(p.winners) * weight[p]]
             once == [p \in P |-> w]
             extra == [p \in P |-> IF p \in tied THEN weight[p] ELSE 0]
  <2>1. Total(answer.wins) = SumOf(each, P)
    <3>1. Total(answer.wins) = SumOf(by(weight), D)
      BY <1>1, <1>9 DEF Total
    <3> HIDE DEF by, weight
    <3> QED
      BY <1>7, <1>8, <3>1
  <2>2. ASSUME NEW p \in P
        PROVE  once[p] \in Nat /\ extra[p] \in Nat /\ each[p] = once[p] + extra[p]
    <3>1. Cardinality(p.winners) \in 1 .. 2 /\ weight[p] = w
      BY <1>4, <1>6, <1>11
    <3>2. each[p] = Cardinality(p.winners) * w /\ once[p] = w
      BY <3>1
    <3>3. CASE Cardinality(p.winners) = 1
      <4>1. extra[p] = 0
        BY <3>3
      <4> QED
        BY <1>5, <3>2, <3>3, <4>1
    <3>4. CASE Cardinality(p.winners) = 2
      <4>1. extra[p] = w
        BY <3>1, <3>4
      <4> QED
        BY <1>5, <3>2, <3>4, <4>1
    <3> QED
      BY <3>1, <3>3, <3>4
  <2>3. SumOf(each, P) = SumOf(once, P) + SumOf(extra, P)
    <3> HIDE DEF each, once, extra
    <3> QED
      BY <1>3, <2>2, SumsAddUp
  <2>4. SumOf(once, P) = size * w
    <3>1. \A p \in P : once[p] = w
      OBVIOUS
    <3> HIDE DEF once
    <3> QED
      BY <1>3, <1>5, <3>1, SumOfOneNumber DEF size
  <2>5. SumOf(extra, P) = SumOf(weight, tied)
    <3>1. \A p \in P : weight[p] \in Nat
      BY <1>7
    <3>2. P \cap tied = tied
      OBVIOUS
    <3> HIDE DEF weight, tied
    <3>3. SumOf([p \in P |-> IF p \in tied THEN weight[p] ELSE 0], P) = SumOf(weight, P \cap tied)
      BY <1>3, <3>1, SumOverPart
    <3> QED
      BY <3>2, <3>3
  <2> HIDE DEF each, once, extra
  <2> QED
    BY <1>1, <2>1, <2>3, <2>4, <2>5
<1> QED
  BY <1>10, <1>11 DEF answer

EquitySpec == EquityInit /\ [][Ask]_request

\* Known hands share the pot, and a game of two is won by one or by both,
\* whatever the cards, the board and the number of players (calculateEquity).
THEOREM HoldingsShareThePotHolds == EquitySpec => []HoldingsShareThePot
<1> DEFINE Asked == request = NoRequest \/ (request \in Requests /\ Answerable(request))
<1>1. EquityInit => Asked
  BY DEF EquityInit
<1>2. Asked /\ [Ask]_request => Asked'
  <2> SUFFICES ASSUME Asked, [Ask]_request PROVE Asked'
    OBVIOUS
  <2>1. CASE Ask
    BY <2>1 DEF Ask
  <2>2. CASE UNCHANGED request
    BY <2>2 DEF Answerable, Playable
  <2> QED
    BY <2>1, <2>2
<1>3. Asked => HoldingsShareThePot
  <2> SUFFICES ASSUME Asked, request # NoRequest, HoldingsKnown(request)
               PROVE  LET answer == CalculateEquity(request)
                      IN  /\ IsShared(request)
                          /\ Len(request.players) = 2 => Total(answer.wins) = answer.of + answer.ties
    BY DEF HoldingsShareThePot
  <2>1. IsAskable(request)
    BY DEF IsAskable
  <2> QED
    BY <2>1, PotIsShared DEF IsShared
<1> QED
  BY <1>1, <1>2, <1>3, PTL DEF EquitySpec
=============================================================================
