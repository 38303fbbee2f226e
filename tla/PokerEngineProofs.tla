--------------------------- MODULE PokerEngineProofs ---------------------------
(***************************************************************************)
(* Lemmas about the operators of PokerEngine: sums, the search around the  *)
(* table, what an action, a street, a departure and a showdown do, and     *)
(* what the pots pay; and the invariant of a hand between two calls,       *)
(* HandInv, with the lemmas that startHand, submitAction and abandonSeat   *)
(* keep it. No variable is needed: the hand is a parameter, so that        *)
(* PokerHandProofs, MultiplayerTableProofs and TrainerHandsProofs use      *)
(* them.                                                                   *)
(*                                                                         *)
(* An induction over the numbers is written as a minimal counterexample:   *)
(* a non-empty set of numbers has a least element.                         *)
(***************************************************************************)
EXTENDS PokerEngine, FiniteSetTheorems, WellFoundedInduction, TLAPS

\* Every non-empty set of natural numbers has a least element.
LEMMA LeastNat ==
  ASSUME NEW T, T \subseteq Nat, T # {}
  PROVE  \E n \in T : \A m \in T : n <= m
<1> DEFINE R == OpToRel(<, Nat)
<1>1. IsWellFoundedOn(R, Nat)
  BY NatLessThanWellFounded
<1>2. \A m, n \in Nat : m < n => <<m, n>> \in R
  BY DEF OpToRel
<1> HIDE DEF R
<1>3. PICK n \in T : \A m \in T : ~(<<m, n>> \in R)
  BY <1>1, WFMin
<1>4. ASSUME NEW m \in T PROVE n <= m
  <2>1. m \in Nat /\ n \in Nat
    OBVIOUS
  <2>2. ~(m < n)
    BY <2>1, <1>2, <1>3
  <2> QED
    BY <2>1, <2>2
<1> QED
  BY <1>4

\* Induction on 0 .. n, with the set of the numbers at which the claim fails.
LEMMA NoCounterexample ==
  ASSUME NEW n \in Nat, NEW Bad, Bad \subseteq 0 .. n, 0 \notin Bad,
         \A i \in 1 .. n : i - 1 \notin Bad => i \notin Bad
  PROVE  Bad = {}
<1>1. SUFFICES ASSUME Bad # {} PROVE FALSE
  OBVIOUS
<1>2. PICK m \in Bad : \A i \in Bad : m <= i
  <2>1. Bad \subseteq Nat
    OBVIOUS
  <2> QED
    BY <1>1, <2>1, LeastNat
<1>3. m \in 1 .. n /\ m - 1 \notin Bad
  BY <1>2
<1> QED
  BY <1>2, <1>3

-----------------------------------------------------------------------------
(* Sums *)

IsPrefixSum(f, n, sum) ==
  sum = [i \in 0 .. n |-> IF i = 0 THEN 0 ELSE sum[i - 1] + f[i]]

\* A function that obeys the recurrence of SumTo has natural values.
LEMMA PrefixSumType ==
  ASSUME NEW n \in Nat, NEW f, \A i \in 1 .. n : f[i] \in Nat,
         NEW sum, IsPrefixSum(f, n, sum)
  PROVE  sum \in [0 .. n -> Nat]
<1> DEFINE Bad == {i \in 0 .. n : sum[i] \notin Nat}
<1>1. sum = [i \in 0 .. n |-> sum[i]]
  BY DEF IsPrefixSum
<1>2. 0 \notin Bad
  BY DEF IsPrefixSum
<1>3. ASSUME NEW i \in 1 .. n, i - 1 \notin Bad PROVE i \notin Bad
  <2>1. i - 1 \in 0 .. n /\ i \in 0 .. n /\ i # 0
    OBVIOUS
  <2>2. sum[i] = sum[i - 1] + f[i]
    BY <2>1 DEF IsPrefixSum
  <2>3. sum[i - 1] \in Nat /\ f[i] \in Nat
    BY <1>3, <2>1
  <2> QED
    BY <2>2, <2>3
<1>4. Bad \subseteq 0 .. n
  OBVIOUS
<1>5. Bad = {}
  <2> HIDE DEF Bad
  <2> QED BY <1>2, <1>3, <1>4, NoCounterexample
<1> QED
  BY <1>1, <1>5

\* There is only one such function.
LEMMA PrefixSumUnique ==
  ASSUME NEW n \in Nat, NEW f, NEW g, NEW h,
         IsPrefixSum(f, n, g), IsPrefixSum(f, n, h)
  PROVE  g = h
<1> DEFINE Bad == {i \in 0 .. n : g[i] # h[i]}
<1>1. g = [i \in 0 .. n |-> g[i]] /\ h = [i \in 0 .. n |-> h[i]]
  BY DEF IsPrefixSum
<1>2. 0 \notin Bad
  BY DEF IsPrefixSum
<1>3. ASSUME NEW i \in 1 .. n, i - 1 \notin Bad PROVE i \notin Bad
  <2>1. i - 1 \in 0 .. n /\ i \in 0 .. n /\ i # 0
    OBVIOUS
  <2>2. g[i] = g[i - 1] + f[i] /\ h[i] = h[i - 1] + f[i]
    BY <2>1 DEF IsPrefixSum
  <2> QED
    BY <2>1, <2>2, <1>3
<1>4. Bad \subseteq 0 .. n
  OBVIOUS
<1>5. Bad = {}
  <2> HIDE DEF Bad
  <2> QED BY <1>2, <1>3, <1>4, NoCounterexample
<1> QED
  BY <1>1, <1>5

\* There is one.
LEMMA PrefixSumExists ==
  ASSUME NEW n \in Nat, NEW f
  PROVE  \E sum : IsPrefixSum(f, n, sum)
<1> DEFINE Bad == {k \in 0 .. n : ~ \E sum : IsPrefixSum(f, k, sum)}
<1>1. 0 \notin Bad
  <2>1. IsPrefixSum(f, 0, [i \in 0 .. 0 |-> 0])
    BY DEF IsPrefixSum
  <2> QED
    BY <2>1
<1>2. ASSUME NEW m \in 1 .. n, m - 1 \notin Bad PROVE m \notin Bad
  <2>1. m - 1 \in 0 .. n
    OBVIOUS
  <2>2. PICK g : IsPrefixSum(f, m - 1, g)
    BY <1>2, <2>1
  <2> DEFINE h == [i \in 0 .. m |-> IF i = m THEN g[m - 1] + f[m] ELSE g[i]]
  <2>3. ASSUME NEW i \in 0 .. m
        PROVE  h[i] = IF i = 0 THEN 0 ELSE h[i - 1] + f[i]
    <3>1. CASE i = m
      <4>1. h[m] = g[m - 1] + f[m] /\ h[m - 1] = g[m - 1] /\ m # 0
        OBVIOUS
      <4> QED
        BY <3>1, <4>1
    <3>2. CASE i # m /\ i # 0
      <4>1. i \in 0 .. (m - 1) /\ i - 1 \in 0 .. m /\ i - 1 # m
        BY <3>2
      <4>2. g[i] = g[i - 1] + f[i]
        BY <2>2, <4>1, <3>2 DEF IsPrefixSum
      <4> QED
        BY <4>1, <4>2, <3>2
    <3>3. CASE i # m /\ i = 0
      <4>1. 0 \in 0 .. (m - 1) /\ g[0] = 0
        BY <2>2 DEF IsPrefixSum
      <4> QED
        BY <3>3, <4>1
    <3> QED
      BY <3>1, <3>2, <3>3
  <2>4. IsPrefixSum(f, m, h)
    <3>1. h = [i \in 0 .. m |-> h[i]]
      OBVIOUS
    <3> HIDE DEF h
    <3> QED
      BY <2>3, <3>1 DEF IsPrefixSum
  <2> QED
    BY <2>4
<1>3. Bad \subseteq 0 .. n
  OBVIOUS
<1>4. Bad = {}
  <2> HIDE DEF Bad
  <2> QED BY <1>1, <1>2, <1>3, NoCounterexample
<1> QED
  BY <1>4

\* SumTo is the prefix sum at n.
LEMMA SumToPrefix ==
  ASSUME NEW n \in Nat, NEW f, NEW sum, IsPrefixSum(f, n, sum)
  PROVE  SumTo(f, n) = sum[n]
<1> DEFINE chosen == CHOOSE g : IsPrefixSum(f, n, g)
<1>1. IsPrefixSum(f, n, chosen)
  BY PrefixSumExists
<1>2. chosen = sum
  BY <1>1, PrefixSumUnique
<1>3. SumTo(f, n) = chosen[n]
  BY DEF SumTo, IsPrefixSum
<1> QED
  BY <1>2, <1>3

\* SumTo adds one element at a time.
LEMMA SumToRecurrence ==
  ASSUME NEW f
  PROVE  /\ SumTo(f, 0) = 0
         /\ \A n \in Nat : SumTo(f, n + 1) = SumTo(f, n) + f[n + 1]
<1>1. SumTo(f, 0) = 0
  <2>1. PICK sum : IsPrefixSum(f, 0, sum)
    BY PrefixSumExists
  <2>2. sum[0] = 0
    BY <2>1 DEF IsPrefixSum
  <2> QED
    BY <2>1, <2>2, SumToPrefix
<1>2. ASSUME NEW n \in Nat PROVE SumTo(f, n + 1) = SumTo(f, n) + f[n + 1]
  <2>1. n + 1 \in Nat /\ n + 1 # 0 /\ n + 1 \in 0 .. (n + 1) /\ (n + 1) - 1 = n
    OBVIOUS
  <2>2. PICK sum : IsPrefixSum(f, n + 1, sum)
    BY <2>1, PrefixSumExists
  <2>3. SumTo(f, n + 1) = sum[n + 1]
    BY <2>1, <2>2, SumToPrefix
  <2>4. sum[n + 1] = sum[n] + f[n + 1]
    BY <2>1, <2>2 DEF IsPrefixSum
  <2> DEFINE part == [i \in 0 .. n |-> sum[i]]
  <2>5. IsPrefixSum(f, n, part)
    <3>1. ASSUME NEW i \in 0 .. n
          PROVE  part[i] = IF i = 0 THEN 0 ELSE part[i - 1] + f[i]
      <4>1. i \in 0 .. (n + 1) /\ (i # 0 => i - 1 \in 0 .. n)
        OBVIOUS
      <4>2. sum[i] = IF i = 0 THEN 0 ELSE sum[i - 1] + f[i]
        BY <2>2, <4>1 DEF IsPrefixSum
      <4> QED
        BY <4>1, <4>2
    <3>2. part = [i \in 0 .. n |-> part[i]]
      OBVIOUS
    <3> HIDE DEF part
    <3> QED
      BY <3>1, <3>2 DEF IsPrefixSum
  <2>6. SumTo(f, n) = part[n]
    BY <2>5, SumToPrefix
  <2> QED
    BY <2>3, <2>4, <2>6
<1> QED
  BY <1>1, <1>2

\* The clockwise distance without the modulo: SMT knows little of it.
LEMMA DistValue ==
  ASSUME NEW a \in 0 .. N, NEW b \in 1 .. N
  PROVE  Dist(a, b) = IF b > a THEN b - a ELSE b - a + N
<1>1. CASE b > a
  <2>1. b - a - 1 \in 0 .. (N - 1) /\ N \in Nat /\ N > 0
    BY <1>1, NAssumption
  <2>2. (b - a - 1) % N = b - a - 1
    BY <2>1
  <2> QED
    BY <2>2, <1>1, NAssumption DEF Dist
<1>2. CASE b <= a
  <2>1. b - a - 1 \in (-N) .. -1 /\ N \in Nat /\ N > 0
    BY <1>2, NAssumption
  <2>2. (b - a - 1) % N = b - a - 1 + N
    BY <2>1, SMTT(30)
  <2> QED
    BY <2>2, <1>2, NAssumption DEF Dist
<1> QED
  BY <1>1, <1>2, NAssumption

\* A sum of natural numbers is one.
LEMMA SumToType ==
  ASSUME NEW n \in Nat, NEW f, \A i \in 1 .. n : f[i] \in Nat
  PROVE  SumTo(f, n) \in Nat
<1>1. PICK sum : IsPrefixSum(f, n, sum)
  BY PrefixSumExists
<1>2. sum \in [0 .. n -> Nat]
  BY <1>1, PrefixSumType
<1>3. SumTo(f, n) = sum[n]
  BY <1>1, SumToPrefix
<1> QED
  BY <1>2, <1>3

\* A sum of zeros is zero.
LEMMA SumToZero ==
  ASSUME NEW n \in Nat, NEW f, \A i \in 1 .. n : f[i] = 0
  PROVE  SumTo(f, n) = 0
<1> DEFINE Bad == {i \in 0 .. n : SumTo(f, i) # 0}
<1>1. 0 \notin Bad
  BY SumToRecurrence
<1>2. ASSUME NEW i \in 1 .. n, i - 1 \notin Bad PROVE i \notin Bad
  <2>1. i - 1 \in Nat /\ i - 1 \in 0 .. n /\ (i - 1) + 1 = i
    OBVIOUS
  <2>2. SumTo(f, (i - 1) + 1) = SumTo(f, i - 1) + f[(i - 1) + 1]
    BY <2>1, SumToRecurrence
  <2>3. SumTo(f, i) = 0 + 0
    BY <2>1, <2>2, <1>2
  <2> QED
    BY <2>3
<1>3. Bad \subseteq 0 .. n
  OBVIOUS
<1>4. Bad = {}
  <2> HIDE DEF Bad
  <2> QED BY <1>1, <1>2, <1>3, NoCounterexample
<1> QED
  BY <1>4

-----------------------------------------------------------------------------
(* Seats *)

\* Seats are a finite set of numbers, and so is every set of seats.
LEMMA SeatSets ==
  ASSUME NEW h
  PROVE  /\ IsFiniteSet(NonFolded(h)) /\ Cardinality(NonFolded(h)) \in Nat
         /\ IsFiniteSet(Contenders(h)) /\ Cardinality(Contenders(h)) \in Nat
<1>1. IsFiniteSet(Seats)
  BY FS_Interval, NAssumption DEF Seats
<1>2. NonFolded(h) \in SUBSET Seats /\ Contenders(h) \in SUBSET Seats
  BY DEF NonFolded, Contenders
<1>3. IsFiniteSet(NonFolded(h)) /\ IsFiniteSet(Contenders(h))
  BY <1>1, <1>2, FS_Subset
<1> QED
  BY <1>3, FS_CardinalityType

\* While a seat can act one is found, the nearest; it is another than the seat
\* the search starts from if there is another.
LEMMA FindActiveSeat ==
  ASSUME NEW h, NEW from \in Seats, Contenders(h) # {}
  PROVE  /\ FindActiveSeatAfter(h, from) \in Contenders(h)
         /\ (\E t \in Contenders(h) : t # from) => FindActiveSeatAfter(h, from) # from
         /\ \A t \in Contenders(h) :
              Dist(from, FindActiveSeatAfter(h, from)) <= Dist(from, t)
<1> DEFINE nearest == {s \in Contenders(h) :
                         \A t \in Contenders(h) : Dist(from, s) <= Dist(from, t)}
<1>1. Contenders(h) \subseteq 1 .. N /\ from \in 0 .. N
  BY NAssumption DEF Contenders, Seats
<1>2. \A s \in Contenders(h) :
        Dist(from, s) = (IF s > from THEN s - from ELSE s - from + N)
  BY <1>1, DistValue
<1>3. \A s \in Contenders(h) : Dist(from, s) \in Nat
  BY <1>1, <1>2, NAssumption
<1>4. nearest # {}
  <2> DEFINE D == {Dist(from, s) : s \in Contenders(h)}
  <2>1. D \subseteq Nat /\ D # {}
    BY <1>3
  <2>2. PICK d \in D : \A e \in D : d <= e
    <3> HIDE DEF D
    <3> QED BY <2>1, LeastNat
  <2> QED
    BY <2>2
<1>5. FindActiveSeatAfter(h, from) = CHOOSE s \in nearest : TRUE
  BY <1>4 DEF FindActiveSeatAfter
<1>6. FindActiveSeatAfter(h, from) \in nearest
  BY <1>4, <1>5
<1>7. ASSUME NEW t \in Contenders(h), t # from, from \in nearest
      PROVE  FALSE
  <2>1. Dist(from, from) <= Dist(from, t)
    BY <1>7
  <2>2. Dist(from, from) = N
    BY <1>2, <1>7, <1>1, NAssumption
  <2>3. Dist(from, t) < N
    BY <1>2, <1>7, <1>1, NAssumption
  <2> QED
    BY <2>1, <2>2, <2>3, <1>3, NAssumption
<1> QED
  BY <1>6, <1>7

-----------------------------------------------------------------------------
(* More about sums *)

\* A sum no term of which is larger is no larger.
LEMMA SumToMonotone ==
  ASSUME NEW n \in Nat, NEW f, NEW g,
         \A i \in 1 .. n : f[i] \in Nat /\ g[i] \in Nat /\ f[i] <= g[i]
  PROVE  SumTo(f, n) <= SumTo(g, n)
<1> DEFINE Bad == {i \in 0 .. n : ~(SumTo(f, i) <= SumTo(g, i))}
<1>1. 0 \notin Bad
  BY SumToRecurrence
<1>2. ASSUME NEW i \in 1 .. n, i - 1 \notin Bad PROVE i \notin Bad
  <2>1. i - 1 \in Nat /\ i - 1 \in 0 .. n /\ (i - 1) + 1 = i
    OBVIOUS
  <2>2. SumTo(f, i) = SumTo(f, i - 1) + f[i] /\ SumTo(g, i) = SumTo(g, i - 1) + g[i]
    BY <2>1, SumToRecurrence
  <2>3. SumTo(f, i - 1) \in Nat /\ SumTo(g, i - 1) \in Nat
    <3>1. \A j \in 1 .. (i - 1) : f[j] \in Nat /\ g[j] \in Nat
      OBVIOUS
    <3> QED
      BY <2>1, <3>1, SumToType
  <2>4. SumTo(f, i - 1) <= SumTo(g, i - 1)
    BY <1>2, <2>1
  <2> QED
    BY <2>2, <2>3, <2>4
<1>3. Bad \subseteq 0 .. n
  OBVIOUS
<1>4. Bad = {}
  <2> HIDE DEF Bad
  <2> QED BY <1>1, <1>2, <1>3, NoCounterexample
<1> QED
  BY <1>4

\* The sum depends on its terms only.
LEMMA SumToSame ==
  ASSUME NEW n \in Nat, NEW f, NEW g,
         \A i \in 1 .. n : f[i] \in Nat /\ f[i] = g[i]
  PROVE  SumTo(f, n) = SumTo(g, n)
<1>1. SumTo(f, n) \in Nat /\ SumTo(g, n) \in Nat
  BY SumToType
<1>2. SumTo(f, n) <= SumTo(g, n) /\ SumTo(g, n) <= SumTo(f, n)
  BY SumToMonotone
<1> QED
  BY <1>1, <1>2

\* Sums add up term by term.
LEMMA SumToPlus ==
  ASSUME NEW n \in Nat, NEW f, NEW g, NEW h,
         \A i \in 1 .. n : f[i] \in Nat /\ g[i] \in Nat /\ h[i] = f[i] + g[i]
  PROVE  SumTo(h, n) = SumTo(f, n) + SumTo(g, n)
<1> DEFINE Bad == {i \in 0 .. n : SumTo(h, i) # SumTo(f, i) + SumTo(g, i)}
<1>1. 0 \notin Bad
  BY SumToRecurrence
<1>2. ASSUME NEW i \in 1 .. n, i - 1 \notin Bad PROVE i \notin Bad
  <2>1. i - 1 \in Nat /\ i - 1 \in 0 .. n /\ (i - 1) + 1 = i
    OBVIOUS
  <2>2. /\ SumTo(f, i) = SumTo(f, i - 1) + f[i]
        /\ SumTo(g, i) = SumTo(g, i - 1) + g[i]
        /\ SumTo(h, i) = SumTo(h, i - 1) + h[i]
    BY <2>1, SumToRecurrence
  <2>3. SumTo(f, i - 1) \in Nat /\ SumTo(g, i - 1) \in Nat
    <3>1. \A j \in 1 .. (i - 1) : f[j] \in Nat /\ g[j] \in Nat
      OBVIOUS
    <3> QED
      BY <2>1, <3>1, SumToType
  <2>4. SumTo(h, i - 1) = SumTo(f, i - 1) + SumTo(g, i - 1)
    BY <1>2, <2>1
  <2> QED
    BY <2>2, <2>3, <2>4
<1>3. Bad \subseteq 0 .. n
  OBVIOUS
<1>4. Bad = {}
  <2> HIDE DEF Bad
  <2> QED BY <1>1, <1>2, <1>3, NoCounterexample
<1> QED
  BY <1>4

\* The part of a set of numbers up to i, one number at a time.
LEMMA UpToNext ==
  ASSUME NEW P, NEW i \in Nat, i # 0
  PROVE  /\ IsFiniteSet({k \in 1 .. i : k \in P})
         /\ Cardinality({k \in 1 .. i : k \in P}) \in Nat
         /\ Cardinality({k \in 1 .. i : k \in P})
              = Cardinality({k \in 1 .. (i - 1) : k \in P}) + (IF i \in P THEN 1 ELSE 0)
<1> DEFINE now == {k \in 1 .. i : k \in P}
           before == {k \in 1 .. (i - 1) : k \in P}
<1>1. IsFiniteSet(1 .. i) /\ IsFiniteSet(1 .. (i - 1))
  BY FS_Interval
<1>2. IsFiniteSet(now) /\ IsFiniteSet(before)
  <2>1. now \in SUBSET (1 .. i) /\ before \in SUBSET (1 .. (i - 1))
    OBVIOUS
  <2> HIDE DEF now, before
  <2> QED
    BY <1>1, <2>1, FS_Subset
<1>3. Cardinality(now) \in Nat /\ Cardinality(before) \in Nat
  BY <1>2, FS_CardinalityType
<1>4. CASE i \in P
  <2>1. now = before \cup {i} /\ i \notin before
    BY <1>4
  <2> HIDE DEF now, before
  <2>2. Cardinality(before \cup {i}) = Cardinality(before) + 1
    BY <1>2, <2>1, FS_AddElement
  <2>3. Cardinality(now) = Cardinality(before) + 1
    BY <2>1, <2>2
  <2> QED
    BY <1>2, <1>3, <1>4, <2>3 DEF now, before
<1>5. CASE i \notin P
  <2>1. now = before
    BY <1>5
  <2> HIDE DEF now, before
  <2>2. Cardinality(now) = Cardinality(before) + 0
    BY <1>3, <2>1
  <2> QED
    BY <1>2, <1>3, <1>5, <2>2 DEF now, before
<1> QED
  BY <1>4, <1>5

\* The sum of c over a set of indices is c for each of them.
LEMMA SumToConstantOn ==
  ASSUME NEW n \in Nat, NEW c \in Nat, NEW P \in SUBSET (1 .. n), NEW f,
         \A i \in 1 .. n : f[i] = IF i \in P THEN c ELSE 0
  PROVE  SumTo(f, n) = c * Cardinality(P)
<1> DEFINE UpTo(i) == {k \in 1 .. i : k \in P}
           Bad == {i \in 0 .. n : SumTo(f, i) # c * Cardinality(UpTo(i))}
<1>1. 0 \notin Bad
  <2>1. UpTo(0) = {}
    OBVIOUS
  <2>2. c * 0 = 0
    OBVIOUS
  <2> QED
    BY <2>1, <2>2, SumToRecurrence, FS_EmptySet
<1>2. ASSUME NEW i \in 1 .. n, i - 1 \notin Bad PROVE i \notin Bad
  <2>1. i - 1 \in Nat /\ i - 1 \in 0 .. n /\ (i - 1) + 1 = i /\ i \in Nat /\ i # 0
    OBVIOUS
  <2>2. SumTo(f, i) = SumTo(f, i - 1) + f[i]
    BY <2>1, SumToRecurrence
  <2> DEFINE m == Cardinality(UpTo(i - 1))
  <2>3. Cardinality(UpTo(i)) = m + (IF i \in P THEN 1 ELSE 0)
    BY <2>1, UpToNext
  <2>4. m \in Nat
    <3>1. IsFiniteSet(1 .. (i - 1)) /\ UpTo(i - 1) \in SUBSET (1 .. (i - 1))
      BY FS_Interval
    <3> QED
      BY <3>1, FS_Subset, FS_CardinalityType
  <2>5. SumTo(f, i - 1) = c * m
    BY <1>2, <2>1
  <2> HIDE DEF m
  <2>6. c * (m + 1) = c * m + c /\ c * (m + 0) = c * m + 0
    BY <2>4
  <2>7. f[i] = IF i \in P THEN c ELSE 0
    OBVIOUS
  <2>8. SumTo(f, i) = c * Cardinality(UpTo(i))
    <3>1. CASE i \in P
      BY <3>1, <2>2, <2>3, <2>5, <2>6, <2>7
    <3>2. CASE i \notin P
      BY <3>2, <2>2, <2>3, <2>5, <2>6, <2>7
    <3> QED
      BY <3>1, <3>2
  <2> QED
    BY <2>8
<1>3. Bad \subseteq 0 .. n
  OBVIOUS
<1>4. Bad = {}
  <2> HIDE DEF Bad
  <2> QED BY <1>1, <1>2, <1>3, NoCounterexample
<1>5. n \in 0 .. n /\ n \notin Bad
  BY <1>4
<1>6. UpTo(n) = P
  OBVIOUS
<1> QED
  BY <1>5, <1>6

\* The terms of a sum after m that are zero add nothing.
LEMMA SumToTail ==
  ASSUME NEW n \in Nat, NEW m \in 0 .. n, NEW f,
         \A i \in 1 .. n : f[i] \in Nat /\ (i > m => f[i] = 0)
  PROVE  SumTo(f, n) = SumTo(f, m)
<1> DEFINE Bad == {i \in 0 .. n : i >= m /\ SumTo(f, i) # SumTo(f, m)}
<1>1. 0 \notin Bad
  BY SumToRecurrence
<1>2. ASSUME NEW i \in 1 .. n, i - 1 \notin Bad PROVE i \notin Bad
  <2>1. i - 1 \in Nat /\ i - 1 \in 0 .. n /\ (i - 1) + 1 = i
    OBVIOUS
  <2>2. SumTo(f, i) = SumTo(f, i - 1) + f[i]
    BY <2>1, SumToRecurrence
  <2>3. SumTo(f, i - 1) \in Nat
    <3>1. \A j \in 1 .. (i - 1) : f[j] \in Nat
      OBVIOUS
    <3> QED
      BY <2>1, <3>1, SumToType
  <2>4. CASE i > m
    <3>1. SumTo(f, i - 1) = SumTo(f, m)
      BY <1>2, <2>1, <2>4
    <3> QED
      BY <2>2, <2>3, <2>4, <3>1
  <2>5. CASE ~(i > m)
    BY <2>5
  <2> QED
    BY <2>4, <2>5
<1>3. Bad \subseteq 0 .. n
  OBVIOUS
<1>4. Bad = {}
  <2> HIDE DEF Bad
  <2> QED BY <1>1, <1>2, <1>3, NoCounterexample
<1> QED
  BY <1>4

\* A term is no larger than the sum.
LEMMA SumToTerm ==
  ASSUME NEW n \in Nat, NEW f, \A i \in 1 .. n : f[i] \in Nat, NEW k \in 1 .. n
  PROVE  f[k] <= SumTo(f, n)
<1> DEFINE g == [i \in 1 .. n |-> IF i \in {k} THEN f[k] ELSE 0]
<1>1. \A i \in 1 .. n : g[i] \in Nat /\ g[i] <= f[i]
  OBVIOUS
<1>2. \A i \in 1 .. n : g[i] = IF i \in {k} THEN f[k] ELSE 0
  OBVIOUS
<1> HIDE DEF g
<1>3. SumTo(g, n) <= SumTo(f, n)
  BY <1>1, SumToMonotone
<1>4. SumTo(g, n) = f[k] * Cardinality({k})
  <2>1. {k} \in SUBSET (1 .. n) /\ f[k] \in Nat
    OBVIOUS
  <2> QED
    BY <1>2, <2>1, SumToConstantOn
<1>5. f[k] * Cardinality({k}) = f[k]
  <2>1. Cardinality({k}) = 1
    BY FS_Singleton
  <2>2. f[k] * 1 = f[k]
    OBVIOUS
  <2> QED
    BY <2>1, <2>2
<1> QED
  BY <1>3, <1>4, <1>5

\* G is the transpose of the n by m matrix F, and row and col are the sums of
\* the rows and of the columns of F.
RowsAndColumns(n, m, F, G, row, col) ==
  /\ \A i \in 1 .. n : \A j \in 1 .. m : F[i][j] \in Nat /\ G[j][i] = F[i][j]
  /\ \A i \in 1 .. n : row[i] = SumTo(F[i], m)
  /\ \A j \in 1 .. m : col[j] = SumTo(G[j], n)

\* A matrix is added up by rows or by columns.
LEMMA SumToSwap ==
  ASSUME NEW n \in Nat, NEW m \in Nat, NEW F, NEW G, NEW row, NEW col,
         RowsAndColumns(n, m, F, G, row, col)
  PROVE  SumTo(row, n) = SumTo(col, m)
<1> USE DEF RowsAndColumns
<1> DEFINE Upto(k) == [j \in 1 .. m |-> SumTo(G[j], k)]
           Bad == {k \in 0 .. n : SumTo(row, k) # SumTo(Upto(k), m)}
<1>1. \A k \in 0 .. n : \A j \in 1 .. m : Upto(k)[j] \in Nat
  <2>1. ASSUME NEW k \in 0 .. n, NEW j \in 1 .. m PROVE SumTo(G[j], k) \in Nat
    <3>1. \A i \in 1 .. k : G[j][i] \in Nat
      OBVIOUS
    <3> QED
      BY <3>1, SumToType
  <2> QED
    BY <2>1
<1>2. 0 \notin Bad
  <2>1. \A j \in 1 .. m : Upto(0)[j] = 0
    BY SumToRecurrence
  <2>2. SumTo(Upto(0), m) = 0
    <3> HIDE DEF Upto
    <3> QED BY <2>1, SumToZero
  <2> QED
    BY <2>2, SumToRecurrence
<1>3. ASSUME NEW k \in 1 .. n, k - 1 \notin Bad PROVE k \notin Bad
  <2>1. k - 1 \in Nat /\ k - 1 \in 0 .. n /\ (k - 1) + 1 = k
    OBVIOUS
  <2>2. SumTo(row, k) = SumTo(row, k - 1) + SumTo(F[k], m)
    BY <2>1, SumToRecurrence
  <2>3. \A j \in 1 .. m : Upto(k)[j] = Upto(k - 1)[j] + F[k][j]
    BY <2>1, SumToRecurrence
  <2>4. SumTo(Upto(k), m) = SumTo(Upto(k - 1), m) + SumTo(F[k], m)
    <3>1. \A j \in 1 .. m : Upto(k - 1)[j] \in Nat /\ F[k][j] \in Nat
      BY <1>1, <2>1
    <3> HIDE DEF Upto
    <3> QED
      BY <2>3, <3>1, SumToPlus
  <2>5. SumTo(row, k - 1) = SumTo(Upto(k - 1), m)
    BY <1>3, <2>1
  <2> HIDE DEF Upto
  <2> QED
    BY <2>2, <2>4, <2>5
<1>4. Bad \subseteq 0 .. n
  OBVIOUS
<1>5. Bad = {}
  <2> HIDE DEF Bad
  <2> QED BY <1>2, <1>3, <1>4, NoCounterexample
<1>6. SumTo(row, n) = SumTo(Upto(n), m)
  BY <1>5
<1>7. \A j \in 1 .. m : Upto(n)[j] \in Nat /\ Upto(n)[j] = col[j]
  BY <1>1
<1> HIDE DEF Upto
<1> QED
  BY <1>6, <1>7, SumToSame

-----------------------------------------------------------------------------
(* Pots: how one pot is shared *)

Nearer(d, winners, s) == {t \in winners : Dist(d, t) < Dist(d, s)}

\* A distance is a number of seats.
LEMMA DistType ==
  ASSUME NEW d \in Seats, NEW s \in Seats
  PROVE  Dist(d, s) \in Nat
<1>1. d \in 0 .. N /\ s \in 1 .. N /\ N \in Nat
  BY NAssumption DEF Seats
<1>2. Dist(d, s) = IF s > d THEN s - d ELSE s - d + N
  BY <1>1, DistValue
<1> QED
  BY <1>1, <1>2

\* Seats are at different distances from the dealer.
LEMMA DistDiffers ==
  ASSUME NEW d \in Seats, NEW s \in Seats, NEW t \in Seats, s # t
  PROVE  /\ Dist(d, s) \in Nat /\ Dist(d, t) \in Nat
         /\ Dist(d, s) < Dist(d, t) \/ Dist(d, t) < Dist(d, s)
<1>1. d \in 0 .. N /\ s \in 1 .. N /\ t \in 1 .. N /\ N \in Nat
  BY NAssumption DEF Seats
<1>2. Dist(d, s) = (IF s > d THEN s - d ELSE s - d + N)
      /\ Dist(d, t) = (IF t > d THEN t - d ELSE t - d + N)
  BY <1>1, DistValue
<1> QED
  BY <1>1, <1>2

\* Of two winners the one nearer the dealer has fewer winners before it.
LEMMA NearerGrows ==
  ASSUME NEW d \in Seats, NEW winners \in SUBSET Seats,
         NEW s \in winners, NEW t \in winners, Dist(d, s) < Dist(d, t)
  PROVE  Cardinality(Nearer(d, winners, s)) < Cardinality(Nearer(d, winners, t))
<1>1. IsFiniteSet(winners)
  <2>1. IsFiniteSet(Seats)
    BY FS_Interval, NAssumption DEF Seats
  <2> QED
    BY <2>1, FS_Subset
<1> DEFINE A == Nearer(d, winners, s)
           B == Nearer(d, winners, t)
<1>2. \A u \in winners : Dist(d, u) \in Nat
  BY DistType
<1>3. A \in SUBSET B /\ B \in SUBSET winners
  BY <1>2 DEF Nearer
<1>4. s \in B /\ s \notin A
  BY <1>2 DEF Nearer
<1> HIDE DEF A, B
<1>5. IsFiniteSet(B) /\ IsFiniteSet(A)
  BY <1>1, <1>3, FS_Subset
<1>6. Cardinality(A) <= Cardinality(B) /\ Cardinality(A) # Cardinality(B)
  BY <1>3, <1>4, <1>5, FS_Subset
<1>7. Cardinality(A) \in Nat /\ Cardinality(B) \in Nat
  BY <1>5, FS_CardinalityType
<1>8. Cardinality(A) < Cardinality(B)
  BY <1>6, <1>7
<1> QED
  BY <1>8 DEF A, B

\* The r winners nearest the dealer are r: each odd chip has one taker.
LEMMA OddChipTakers ==
  ASSUME NEW d \in Seats, NEW winners \in SUBSET Seats,
         NEW r \in 0 .. Cardinality(winners)
  PROVE  Cardinality({s \in winners : Cardinality(Nearer(d, winners, s)) < r}) = r
<1> DEFINE n == Cardinality(winners)
           f == [s \in winners |-> Cardinality(Nearer(d, winners, s))]
           T == 0 .. (n - 1)
           first == {s \in winners : f[s] < r}
           U == 0 .. (r - 1)
           g == [s \in first |-> f[s]]
<1>1. IsFiniteSet(winners) /\ n \in Nat
  <2>1. IsFiniteSet(Seats)
    BY FS_Interval, NAssumption DEF Seats
  <2> QED
    BY <2>1, FS_Subset, FS_CardinalityType
<1>2. ASSUME NEW s \in winners PROVE f[s] \in T
  <2> DEFINE A == Nearer(d, winners, s)
  <2>1. Dist(d, s) \in Nat
    BY DistType
  <2>2. A \in SUBSET winners /\ s \notin A
    BY <2>1 DEF Nearer
  <2> HIDE DEF A
  <2>3. IsFiniteSet(A) /\ Cardinality(A) <= n /\ Cardinality(A) # n
    BY <1>1, <2>2, FS_Subset
  <2>4. Cardinality(A) \in Nat
    BY <2>3, FS_CardinalityType
  <2>5. f[s] = Cardinality(A)
    BY DEF A
  <2> HIDE DEF f, n
  <2> QED
    BY <1>1, <2>3, <2>4, <2>5
<1>3. ASSUME NEW s \in winners, NEW t \in winners, s # t PROVE f[s] # f[t]
  <2>1. s \in Seats /\ t \in Seats
    OBVIOUS
  <2>2. f[s] < f[t] \/ f[t] < f[s]
    BY <1>3, <2>1, DistDiffers, NearerGrows
  <2>3. f[s] \in Int /\ f[t] \in Int
    <3> HIDE DEF f
    <3> QED BY <1>1, <1>2
  <2> HIDE DEF f
  <2> QED
    BY <2>2, <2>3
<1>4. f \in Injection(winners, T)
  <2>1. f = [s \in winners |-> f[s]]
    OBVIOUS
  <2> HIDE DEF f, T
  <2>2. f \in [winners -> T]
    BY <1>2, <2>1
  <2> QED
    BY <1>3, <2>2 DEF Injection, IsInjective
<1>5. IsFiniteSet(T) /\ Cardinality(T) = n
  <2>1. 0 \in Int /\ n - 1 \in Int /\ (IF 0 > n - 1 THEN 0 ELSE (n - 1) - 0 + 1) = n
    BY <1>1
  <2> HIDE DEF n
  <2> QED
    BY <2>1, FS_Interval
<1>6. f \in Surjection(winners, T)
  <2> HIDE DEF f, T, n
  <2> QED BY <1>1, <1>4, <1>5, FS_Injection DEF n
<1>7. r \in 0 .. n
  OBVIOUS
<1>8. \A s \in first : f[s] \in U
  <2> HIDE DEF f
  <2> QED BY <1>1, <1>2, <1>7
<1>9. g \in Injection(first, U)
  <2>1. g = [s \in first |-> f[s]] /\ first \subseteq winners
    OBVIOUS
  <2> HIDE DEF f, g, U, first
  <2>2. g \in [first -> U]
    BY <1>8, <2>1
  <2>3. ASSUME NEW s \in first, NEW t \in first, s # t PROVE g[s] # g[t]
    BY <1>3, <2>1, <2>3
  <2> QED
    BY <2>2, <2>3 DEF Injection, IsInjective
<1>10. g \in Surjection(first, U)
  <2>1. ASSUME NEW i \in U PROVE \E s \in first : g[s] = i
    <3>1. i \in T /\ i < r
      BY <1>1, <1>7
    <3>2. PICK s \in winners : f[s] = i
      <4> HIDE DEF f, T, n
      <4> QED BY <1>6, <3>1 DEF Surjection
    <3>3. s \in first
      <4> HIDE DEF f
      <4> QED BY <3>1, <3>2
    <3> QED
      BY <3>2, <3>3
  <2> HIDE DEF g, first, U
  <2> QED
    BY <1>9, <2>1 DEF Injection, Surjection
<1>11. IsFiniteSet(U) /\ Cardinality(U) = r
  <2>1. 0 \in Int /\ r - 1 \in Int /\ (IF 0 > r - 1 THEN 0 ELSE (r - 1) - 0 + 1) = r
    BY <1>1, <1>7
  <2> QED
    BY <2>1, FS_Interval
<1>12. Cardinality(first) = r
  <2> HIDE DEF g, first, U
  <2> QED BY <1>9, <1>10, <1>11, FS_Injection
<1> QED
  BY <1>12

\* Division with remainder.
LEMMA DivMod ==
  ASSUME NEW a \in Nat, NEW n \in Nat, n # 0
  PROVE  /\ a \div n \in Nat
         /\ a % n \in 0 .. (n - 1)
         /\ ((a \div n) * n) + (a % n) = a
BY SMTT(30)

\* The share of a pot is a number of chips.
LEMMA ShareType ==
  ASSUME NEW h, NEW amount \in Nat, NEW winners \in SUBSET Seats, NEW s
  PROVE  Share(h, amount, winners, s) \in Nat
<1>1. CASE s \notin winners
  BY <1>1 DEF Share
<1>2. CASE s \in winners
  <2>1. IsFiniteSet(Seats)
    BY FS_Interval, NAssumption DEF Seats
  <2>2. IsFiniteSet(winners) /\ Cardinality(winners) \in Nat
    BY <2>1, FS_Subset, FS_CardinalityType
  <2>3. Cardinality(winners) # 0
    BY <2>2, <1>2, FS_EmptySet
  <2>4. amount \div Cardinality(winners) \in Nat
    BY <2>2, <2>3
  <2> DEFINE odd == IF Cardinality({t \in winners : Dist(h.dealer, t) < Dist(h.dealer, s)})
                         < amount % Cardinality(winners) THEN 1 ELSE 0
  <2>5. Share(h, amount, winners, s) = (amount \div Cardinality(winners)) + odd
    BY <1>2 DEF Share
  <2>6. odd \in {0, 1}
    OBVIOUS
  <2> HIDE DEF odd
  <2> QED
    BY <2>4, <2>5, <2>6
<1> QED
  BY <1>1, <1>2

\* The shares of a pot with a winner add up to it: no chip is lost to the
\* division and no odd chip is given twice (awardPot).
LEMMA ShareTotal ==
  ASSUME NEW h, h.dealer \in Seats, NEW amount \in Nat,
         NEW winners \in SUBSET Seats, winners # {},
         NEW f, \A s \in 1 .. N : f[s] = Share(h, amount, winners, s)
  PROVE  SumTo(f, N) = amount
<1> DEFINE n == Cardinality(winners)
           q == amount \div n
           r == amount % n
           first == {s \in winners : Cardinality(Nearer(h.dealer, winners, s)) < r}
           even == [s \in 1 .. N |-> IF s \in winners THEN q ELSE 0]
           odd == [s \in 1 .. N |-> IF s \in first THEN 1 ELSE 0]
<1>1. IsFiniteSet(winners) /\ n \in Nat /\ n # 0
  <2>1. IsFiniteSet(Seats)
    BY FS_Interval, NAssumption DEF Seats
  <2> QED
    BY <2>1, FS_Subset, FS_CardinalityType, FS_EmptySet
<1>2. q \in Nat /\ r \in 0 .. (n - 1) /\ q * n + r = amount
  <2> HIDE DEF n
  <2> QED BY <1>1, DivMod
<1>3. ASSUME NEW s \in 1 .. N
      PROVE  f[s] = even[s] + odd[s]
  <2>1. CASE s \notin winners
    <3>1. f[s] = 0 /\ s \notin first
      BY <2>1 DEF Share
    <3> HIDE DEF first, q
    <3> QED
      BY <2>1, <3>1
  <2>2. CASE s \in winners
    <3>1. f[s] = q + (IF s \in first THEN 1 ELSE 0)
      BY <2>2 DEF Share, Nearer
    <3> HIDE DEF first, q
    <3> QED
      BY <2>2, <3>1
  <2> QED
    BY <2>1, <2>2
<1>4. Cardinality(first) = r
  <2>1. r \in 0 .. Cardinality(winners)
    BY <1>1, <1>2
  <2> HIDE DEF r
  <2> QED
    BY <2>1, OddChipTakers
<1>5. winners \in SUBSET (1 .. N) /\ first \in SUBSET (1 .. N)
  BY DEF Seats
<1>6. /\ \A s \in 1 .. N : even[s] = IF s \in winners THEN q ELSE 0
      /\ \A s \in 1 .. N : odd[s] = IF s \in first THEN 1 ELSE 0
  <2> HIDE DEF first, q
  <2> QED OBVIOUS
<1> HIDE DEF first, q, even, odd, n, r
<1>7. SumTo(even, N) = q * Cardinality(winners)
  BY <1>2, <1>5, <1>6, NAssumption, SumToConstantOn
<1>8. SumTo(odd, N) = 1 * Cardinality(first)
  BY <1>5, <1>6, NAssumption, SumToConstantOn
<1>9. SumTo(f, N) = SumTo(even, N) + SumTo(odd, N)
  <2>1. \A s \in 1 .. N : even[s] \in Nat /\ odd[s] \in Nat
    BY <1>2, <1>6
  <2> QED
    BY <1>3, <2>1, NAssumption, SumToPlus
<1> QED
  BY <1>2, <1>4, <1>7, <1>8, <1>9 DEF n

\* One share of a pot is at most the pot.
LEMMA ShareBound ==
  ASSUME NEW h, h.dealer \in Seats, NEW amount \in Nat,
         NEW winners \in SUBSET Seats, NEW s \in Seats
  PROVE  Share(h, amount, winners, s) \in Nat /\ Share(h, amount, winners, s) <= amount
<1>1. CASE s \notin winners
  BY <1>1 DEF Share
<1>2. CASE s \in winners
  <2> DEFINE f == [t \in 1 .. N |-> Share(h, amount, winners, t)]
  <2>1. \A t \in 1 .. N : f[t] = Share(h, amount, winners, t)
    OBVIOUS
  <2>2. \A t \in 1 .. N : f[t] \in Nat
    BY ShareType
  <2> HIDE DEF f
  <2>3. SumTo(f, N) = amount
    BY <1>2, <2>1, ShareTotal
  <2>4. s \in 1 .. N /\ N \in Nat
    BY NAssumption DEF Seats
  <2>5. f[s] <= SumTo(f, N)
    BY <2>2, <2>4, SumToTerm
  <2> QED
    BY <2>1, <2>2, <2>3, <2>4, <2>5
<1> QED
  BY <1>1, <1>2

-----------------------------------------------------------------------------
(* Pots: how the layers add up *)

\* What all seats put in, each up to m.
Matched(h, m) == SumTo([t \in Seats |-> MinOf(h.total[t], m)], N)

\* No contribution ends above p and at or below m.
NoLevelBetween(h, p, m) == \A k \in (p + 1) .. m : k \notin Levels(h)

HasTotals(h) == h.total \in [Seats -> Nat]

\* Seats are the positive numbers up to N.
LEMMA SeatNumbers == Seats = 1 .. N /\ N \in Nat /\ IsFiniteSet(Seats)
BY NAssumption, FS_Interval DEF Seats

\* The matched chips are a number, and more are matched at a higher level.
LEMMA MatchedType ==
  ASSUME NEW h, HasTotals(h), NEW p \in Nat, NEW m \in Nat, p <= m
  PROVE  Matched(h, p) \in Nat /\ Matched(h, p) <= Matched(h, m)
<1> DEFINE f == [t \in Seats |-> MinOf(h.total[t], p)]
           g == [t \in Seats |-> MinOf(h.total[t], m)]
<1>1. \A t \in 1 .. N : f[t] \in Nat /\ g[t] \in Nat /\ f[t] <= g[t]
  BY SeatNumbers DEF HasTotals, MinOf
<1> HIDE DEF f, g
<1>2. SumTo(f, N) \in Nat /\ SumTo(f, N) <= SumTo(g, N)
  BY <1>1, SeatNumbers, SumToType, SumToMonotone
<1> QED
  BY <1>2 DEF f, g, Matched

\* Nothing is matched at level 0.
LEMMA MatchedZero ==
  ASSUME NEW h, HasTotals(h)
  PROVE  Matched(h, 0) = 0
<1> DEFINE f == [t \in Seats |-> MinOf(h.total[t], 0)]
<1>1. \A t \in 1 .. N : f[t] = 0
  BY SeatNumbers DEF HasTotals, MinOf
<1> HIDE DEF f
<1>2. SumTo(f, N) = 0
  BY <1>1, SeatNumbers, SumToZero
<1> QED
  BY <1>2 DEF f, Matched

\* With no contribution above level p, everything is matched at p.
LEMMA MatchedAll ==
  ASSUME NEW h, HasTotals(h), NEW p \in Nat, \A t \in Seats : h.total[t] <= p
  PROVE  Matched(h, p) = Pot(h)
<1> DEFINE f == [t \in Seats |-> MinOf(h.total[t], p)]
<1>1. \A t \in 1 .. N : f[t] \in Nat /\ f[t] = h.total[t]
  BY SeatNumbers DEF HasTotals, MinOf
<1> HIDE DEF f
<1>2. SumTo(f, N) = SumTo(h.total, N)
  BY <1>1, SeatNumbers, SumToSame
<1> QED
  BY <1>2 DEF f, Matched, Pot

\* The layer topped by a level is as thick as the distance to the next level
\* below it (computePots: level - previousLevel).
LEMMA LayerThickness ==
  ASSUME NEW h, HasTotals(h), NEW level \in Levels(h),
         NEW p \in Levels(h) \cup {0}, p < level, NoLevelBetween(h, p, level - 1)
  PROVE  /\ LayerSize(h, level) = level - p
         /\ level \in Nat /\ level # 0 /\ p \in Nat
<1>1. level \in Nat /\ level # 0 /\ p \in Nat
  BY DEF Levels, HasTotals
<1> DEFINE same == {k \in 1 .. level : Payers(h, k) = Payers(h, level)}
<1>2. ASSUME NEW k \in (p + 1) .. level
      PROVE  Payers(h, k) = Payers(h, level)
  <2>1. ASSUME NEW s \in Seats PROVE h.total[s] >= k <=> h.total[s] >= level
    <3>1. h.total[s] \in Nat /\ (h.total[s] # 0 => h.total[s] \in Levels(h))
      BY DEF Levels, HasTotals
    <3>2. h.total[s] \notin (p + 1) .. (level - 1)
      BY <1>1, <3>1 DEF NoLevelBetween
    <3> QED
      BY <1>1, <3>1, <3>2
  <2> QED
    BY <2>1 DEF Payers
<1>3. ASSUME NEW k \in 1 .. p
      PROVE  Payers(h, k) # Payers(h, level)
  <2>1. p \in Levels(h)
    BY <1>1, <1>3
  <2>2. PICK s \in Seats : h.total[s] = p
    BY <2>1 DEF Levels
  <2>3. s \in Payers(h, k) /\ s \notin Payers(h, level)
    BY <1>1, <2>2 DEF Payers
  <2> QED
    BY <2>3
<1>4. same = (p + 1) .. level
  <2>1. ASSUME NEW k \in same PROVE k \in (p + 1) .. level
    <3>1. k \in 1 .. level /\ Payers(h, k) = Payers(h, level)
      OBVIOUS
    <3>2. k \notin 1 .. p
      BY <1>3, <3>1
    <3> QED
      BY <1>1, <3>1, <3>2
  <2>2. ASSUME NEW k \in (p + 1) .. level PROVE k \in same
    <3>1. k \in 1 .. level
      BY <1>1
    <3> QED
      BY <1>2, <3>1
  <2> QED
    BY <2>1, <2>2
<1> HIDE DEF same
<1>5. Cardinality((p + 1) .. level) = level - p
  <2>1. p + 1 \in Int /\ level \in Int
        /\ (IF p + 1 > level THEN 0 ELSE level - (p + 1) + 1) = level - p
    BY <1>1
  <2> QED
    BY <2>1, FS_Interval
<1>6. LayerSize(h, level) = Cardinality(same)
  BY DEF LayerSize, same
<1> QED
  BY <1>1, <1>4, <1>5, <1>6

\* Each layer adds what its payers put in between its level and the one below.
LEMMA LayerAdds ==
  ASSUME NEW h, HasTotals(h), NEW level \in Levels(h),
         NEW p \in Levels(h) \cup {0}, p < level, NoLevelBetween(h, p, level - 1)
  PROVE  /\ Matched(h, level) = Matched(h, p) + PotAmount(h, level)
         /\ PotAmount(h, level) \in Nat
<1>1. LayerSize(h, level) = level - p /\ level \in Nat /\ level # 0 /\ p \in Nat
  BY LayerThickness
<1> DEFINE f == [t \in Seats |-> MinOf(h.total[t], p)]
           g == [t \in Seats |-> MinOf(h.total[t], level)]
           P == Payers(h, level)
           c == level - p
           d == [t \in 1 .. N |-> IF t \in P THEN c ELSE 0]
<1>2. c \in Nat /\ P \in SUBSET (1 .. N)
  BY <1>1, SeatNumbers DEF Payers
<1>3. ASSUME NEW t \in 1 .. N
      PROVE  f[t] \in Nat /\ d[t] \in Nat /\ g[t] = f[t] + d[t]
  <2>1. h.total[t] \in Nat /\ (h.total[t] # 0 => h.total[t] \in Levels(h)) /\ t \in Seats
    BY SeatNumbers DEF Levels, HasTotals
  <2>2. h.total[t] \notin (p + 1) .. (level - 1)
    BY <1>1, <2>1 DEF NoLevelBetween
  <2>3. f[t] = MinOf(h.total[t], p) /\ g[t] = MinOf(h.total[t], level)
    BY <2>1
  <2>4. d[t] = IF h.total[t] >= level THEN c ELSE 0
    BY <2>1 DEF Payers
  <2> HIDE DEF f, g, d
  <2> QED
    BY <1>1, <2>1, <2>2, <2>3, <2>4 DEF MinOf
<1>4. \A t \in 1 .. N : d[t] = IF t \in P THEN c ELSE 0
  OBVIOUS
<1> HIDE DEF f, g, d, P, c
<1>5. SumTo(d, N) = c * Cardinality(P)
  BY <1>2, <1>4, SeatNumbers, SumToConstantOn
<1>6. SumTo(g, N) = SumTo(f, N) + SumTo(d, N)
  BY <1>3, SeatNumbers, SumToPlus
<1>7. SumTo(d, N) \in Nat
  BY <1>3, SeatNumbers, SumToType
<1>8. PotAmount(h, level) = SumTo(d, N)
  BY <1>1, <1>5 DEF PotAmount, P, c
<1> QED
  BY <1>6, <1>7, <1>8 DEF f, g, Matched

\* The layers up to m add up to what is matched at the highest level up to m.
LEMMA LayersUpTo ==
  ASSUME NEW h, HasTotals(h), NEW n \in Nat, NEW layer,
         \A level \in 1 .. n :
           layer[level] = IF level \in Levels(h) THEN PotAmount(h, level) ELSE 0
  PROVE  \A m \in 0 .. n :
           \E p \in Levels(h) \cup {0} :
             p <= m /\ NoLevelBetween(h, p, m) /\ SumTo(layer, m) = Matched(h, p)
<1> DEFINE Holds(m) == \E p \in Levels(h) \cup {0} :
                         p <= m /\ NoLevelBetween(h, p, m) /\ SumTo(layer, m) = Matched(h, p)
           Bad == {m \in 0 .. n : ~Holds(m)}
<1>1. 0 \notin Bad
  <2>1. 0 \in Levels(h) \cup {0} /\ 0 <= 0
    OBVIOUS
  <2>2. NoLevelBetween(h, 0, 0)
    BY DEF NoLevelBetween
  <2>3. SumTo(layer, 0) = Matched(h, 0)
    BY SumToRecurrence, MatchedZero
  <2>4. Holds(0)
    BY <2>1, <2>2, <2>3
  <2> QED
    BY <2>4
<1>2. ASSUME NEW m \in 1 .. n, m - 1 \notin Bad PROVE m \notin Bad
  <2>1. m - 1 \in Nat /\ m - 1 \in 0 .. n /\ (m - 1) + 1 = m /\ m \in Nat
    OBVIOUS
  <2>2. PICK p \in Levels(h) \cup {0} :
          p <= m - 1 /\ NoLevelBetween(h, p, m - 1) /\ SumTo(layer, m - 1) = Matched(h, p)
    BY <1>2, <2>1
  <2>3. p \in Nat
    BY DEF Levels, HasTotals
  <2>4. SumTo(layer, m) = SumTo(layer, m - 1) + layer[m]
    BY <2>1, SumToRecurrence
  <2>5. Matched(h, p) \in Nat
    BY <2>3, MatchedType
  <2>6. CASE m \in Levels(h)
    <3>1. p < m
      BY <2>1, <2>2, <2>3
    <3>2. Matched(h, m) = Matched(h, p) + PotAmount(h, m)
      BY <2>2, <2>6, <3>1, LayerAdds
    <3>3. layer[m] = PotAmount(h, m)
      BY <2>6
    <3>4. SumTo(layer, m) = Matched(h, m)
      BY <2>2, <2>4, <3>2, <3>3
    <3>5. NoLevelBetween(h, m, m) /\ m <= m
      BY <2>1 DEF NoLevelBetween
    <3>6. Holds(m)
      BY <2>6, <3>4, <3>5
    <3> QED
      BY <3>6
  <2>7. CASE m \notin Levels(h)
    <3>1. layer[m] = 0
      BY <2>7
    <3>2. SumTo(layer, m) = Matched(h, p)
      BY <2>2, <2>4, <2>5, <3>1
    <3>3. NoLevelBetween(h, p, m)
      BY <2>1, <2>2, <2>3, <2>7 DEF NoLevelBetween
    <3>4. p <= m
      BY <2>1, <2>2, <2>3
    <3>5. Holds(m)
      BY <3>2, <3>3, <3>4
    <3> QED
      BY <3>5
  <2> QED
    BY <2>6, <2>7
<1>3. Bad \subseteq 0 .. n
  OBVIOUS
<1>4. Bad = {}
  <2> HIDE DEF Bad
  <2> QED BY <1>1, <1>2, <1>3, NoCounterexample
<1>5. ASSUME NEW m \in 0 .. n PROVE Holds(m)
  BY <1>4
<1> QED
  BY <1>5

\* The pots of a hand as a function of their level: those that computePots
\* drops, which only folded seats reached, too.
Layers(h) == [level \in 1 .. Pot(h) |->
                IF level \in Levels(h) THEN PotAmount(h, level) ELSE 0]

\* The pot is a number no contribution exceeds.
LEMMA PotType ==
  ASSUME NEW h, HasTotals(h)
  PROVE  Pot(h) \in Nat /\ \A s \in Seats : h.total[s] \in 0 .. Pot(h)
<1>1. \A s \in 1 .. N : h.total[s] \in Nat
  BY SeatNumbers DEF HasTotals
<1>2. Pot(h) \in Nat
  BY <1>1, SeatNumbers, SumToType DEF Pot
<1>3. ASSUME NEW s \in Seats PROVE h.total[s] <= Pot(h)
  BY <1>1, SeatNumbers, SumToTerm DEF Pot
<1> QED
  BY <1>1, <1>2, <1>3, SeatNumbers

\* What the layers hold.
LEMMA LayersType ==
  ASSUME NEW h, HasTotals(h)
  PROVE  \A level \in 1 .. Pot(h) :
           /\ Layers(h)[level] = IF level \in Levels(h) THEN PotAmount(h, level) ELSE 0
           /\ Layers(h)[level] \in Nat
<1>1. Pot(h) \in Nat
  BY PotType
<1>2. ASSUME NEW level \in 1 .. Pot(h) PROVE PotAmount(h, level) \in Nat
  <2>1. Payers(h, level) \in SUBSET Seats
    BY DEF Payers
  <2>2. Cardinality(Payers(h, level)) \in Nat
    BY <2>1, SeatNumbers, FS_Subset, FS_CardinalityType
  <2> DEFINE same == {k \in 1 .. level : Payers(h, k) = Payers(h, level)}
  <2>3. same \in SUBSET (1 .. level) /\ IsFiniteSet(1 .. level)
    BY <1>1, FS_Interval
  <2> HIDE DEF same
  <2>4. Cardinality(same) \in Nat
    BY <2>3, FS_Subset, FS_CardinalityType
  <2> QED
    BY <2>2, <2>4 DEF PotAmount, LayerSize, same
<1> QED
  BY <1>2 DEF Layers

\* The layers up to m hold no more than what is matched at m.
LEMMA LayersMatched ==
  ASSUME NEW h, HasTotals(h), NEW m \in 0 .. Pot(h)
  PROVE  SumTo(Layers(h), m) <= Matched(h, m)
<1>1. Pot(h) \in Nat
  BY PotType
<1>2. PICK p \in Levels(h) \cup {0} :
        p <= m /\ NoLevelBetween(h, p, m) /\ SumTo(Layers(h), m) = Matched(h, p)
  BY <1>1, LayersType, LayersUpTo
<1>3. p \in Nat /\ m \in Nat
  BY <1>1 DEF Levels, HasTotals
<1> QED
  BY <1>2, <1>3, MatchedType

\* All layers together hold every chip that was put in (computePots).
LEMMA LayersHoldThePot ==
  ASSUME NEW h, HasTotals(h)
  PROVE  SumTo(Layers(h), Pot(h)) = Pot(h)
<1>1. Pot(h) \in Nat /\ \A s \in Seats : h.total[s] \in 0 .. Pot(h)
  BY PotType
<1>2. PICK p \in Levels(h) \cup {0} :
        /\ p <= Pot(h) /\ NoLevelBetween(h, p, Pot(h))
        /\ SumTo(Layers(h), Pot(h)) = Matched(h, p)
  <2>1. Pot(h) \in 0 .. Pot(h)
    BY <1>1
  <2> QED
    BY <1>1, <2>1, LayersType, LayersUpTo
<1>3. p \in Nat
  BY DEF Levels, HasTotals
<1>4. ASSUME NEW s \in Seats PROVE h.total[s] <= p
  <2>1. h.total[s] \in Nat /\ (h.total[s] # 0 => h.total[s] \in Levels(h))
    BY DEF Levels, HasTotals
  <2>2. h.total[s] \notin (p + 1) .. Pot(h)
    BY <1>2, <1>3, <2>1 DEF NoLevelBetween
  <2> QED
    BY <1>1, <1>3, <2>1, <2>2
<1>5. Matched(h, p) = Pot(h)
  BY <1>3, <1>4, MatchedAll
<1> QED
  BY <1>2, <1>5

-----------------------------------------------------------------------------
(* Pots: what a seat wins of them *)

\* What seat s wins of each layer.
Won(h, ranks, s) ==
  [level \in 1 .. Pot(h) |->
     IF IsPot(h, level)
       THEN Share(h, PotAmount(h, level), PotWinners(h, ranks, level), s)
       ELSE 0]

\* A hand as the showdown reads it.
Paying(h) == HasTotals(h) /\ h.dealer \in Seats

\* A seat wins of a layer at most what is in it, and nothing of a layer it did
\* not reach or is out of.
LEMMA WonOfALayer ==
  ASSUME NEW h, Paying(h), NEW ranks, NEW s \in Seats, NEW level \in 1 .. Pot(h)
  PROVE  /\ Won(h, ranks, s)[level] \in Nat
         /\ Won(h, ranks, s)[level] <= Layers(h)[level]
         /\ s \notin PotWinners(h, ranks, level) => Won(h, ranks, s)[level] = 0
         /\ h.folded[s] \/ level > h.total[s] => Won(h, ranks, s)[level] = 0
<1> DEFINE share == Share(h, PotAmount(h, level), PotWinners(h, ranks, level), s)
<1>1. Won(h, ranks, s)[level] = IF IsPot(h, level) THEN share ELSE 0
  BY DEF Won
<1>2. Layers(h)[level] = (IF level \in Levels(h) THEN PotAmount(h, level) ELSE 0)
      /\ Layers(h)[level] \in Nat
  BY LayersType DEF Paying
<1>3. IsPot(h, level) => share \in Nat /\ share <= Layers(h)[level]
  <2>1. PotWinners(h, ranks, level) \in SUBSET Seats
    BY DEF PotWinners, Eligible, Payers
  <2>2. IsPot(h, level) => PotAmount(h, level) \in Nat /\ Layers(h)[level] = PotAmount(h, level)
    BY <1>2 DEF IsPot
  <2> QED
    BY <2>1, <2>2, ShareBound DEF Paying
<1>4. s \notin PotWinners(h, ranks, level) => share = 0
  BY DEF Share
<1>5. h.folded[s] \/ level > h.total[s] => s \notin PotWinners(h, ranks, level)
  <2>1. level \in Nat /\ h.total[s] \in Nat
    BY PotType DEF Paying, HasTotals
  <2>2. level > h.total[s] => ~(h.total[s] >= level)
    BY <2>1
  <2> QED
    BY <2>2 DEF PotWinners, Eligible, Payers
<1> HIDE DEF share
<1> QED
  BY <1>1, <1>2, <1>3, <1>4, <1>5

\* Winnings add up what is won of each layer.
LEMMA WinningsSum ==
  ASSUME NEW h, Paying(h), NEW ranks, NEW s \in Seats
  PROVE  /\ Winnings(h, ranks, s) = SumTo(Won(h, ranks, s), Pot(h))
         /\ Winnings(h, ranks, s) \in Nat
<1>1. Winnings(h, ranks, s) = SumTo(Won(h, ranks, s), Pot(h))
  BY DEF Winnings, Won
<1>2. Pot(h) \in Nat
  BY PotType DEF Paying
<1>3. SumTo(Won(h, ranks, s), Pot(h)) \in Nat
  BY <1>2, WonOfALayer, SumToType
<1> QED
  BY <1>1, <1>3

\* A seat wins at most what the others matched of its own contribution: what
\* side pots are for (computePots, awardPot).
LEMMA WinningsCapped ==
  ASSUME NEW h, Paying(h), NEW ranks, NEW s \in Seats
  PROVE  Winnings(h, ranks, s) <= Matched(h, h.total[s])
<1> DEFINE w == Won(h, ranks, s)
           l == Layers(h)
           n == Pot(h)
           m == h.total[s]
<1>1. n \in Nat /\ m \in 0 .. n
  BY PotType DEF Paying
<1>2. \A level \in 1 .. n : /\ w[level] \in Nat /\ l[level] \in Nat
                            /\ w[level] <= l[level]
                            /\ level > m => w[level] = 0
  BY WonOfALayer, LayersType DEF Paying
<1>3. SumTo(l, m) <= Matched(h, m)
  BY <1>1, LayersMatched DEF Paying
<1>4. Matched(h, m) \in Nat
  BY <1>1, MatchedType DEF Paying
<1>5. Winnings(h, ranks, s) = SumTo(w, n)
  BY WinningsSum
<1> HIDE DEF w, l, n, m
<1>6. SumTo(w, n) = SumTo(w, m)
  BY <1>1, <1>2, SumToTail
<1>7. m \in Nat /\ \A level \in 1 .. m : w[level] \in Nat /\ l[level] \in Nat
                                         /\ w[level] <= l[level]
  BY <1>1, <1>2
<1>8. SumTo(w, m) <= SumTo(l, m) /\ SumTo(w, m) \in Nat /\ SumTo(l, m) \in Nat
  BY <1>7, SumToMonotone, SumToType
<1> QED
  BY <1>3, <1>4, <1>5, <1>6, <1>8 DEF m

\* A seat beaten by one that reached every layer it reached wins nothing.
LEMMA BeatenWinsNothing ==
  ASSUME NEW h, Paying(h), NEW ranks \in [Seats -> Nat],
         NEW s \in Seats, NEW t \in Seats, ~h.folded[t],
         ranks[t] > ranks[s], h.total[t] >= h.total[s]
  PROVE  Winnings(h, ranks, s) = 0
<1>1. ASSUME NEW level \in 1 .. Pot(h) PROVE s \notin PotWinners(h, ranks, level)
  <2>1. SUFFICES ASSUME s \in PotWinners(h, ranks, level) PROVE FALSE
    OBVIOUS
  <2>2. h.total[s] >= level
    BY <2>1 DEF PotWinners, Eligible, Payers
  <2>3. h.total[s] \in Nat /\ h.total[t] \in Nat /\ level \in Nat
    BY PotType DEF Paying, HasTotals
  <2>4. t \in Eligible(h, level)
    BY <2>2, <2>3 DEF Eligible, Payers
  <2>5. ranks[t] <= ranks[s] /\ ranks[t] \in Nat /\ ranks[s] \in Nat
    BY <2>1, <2>4 DEF PotWinners
  <2> QED
    BY <2>5
<1>2. \A level \in 1 .. Pot(h) : Won(h, ranks, s)[level] = 0
  BY <1>1, WonOfALayer
<1>3. Pot(h) \in Nat
  BY PotType DEF Paying
<1>4. SumTo(Won(h, ranks, s), Pot(h)) = 0
  BY <1>2, <1>3, SumToZero
<1> QED
  BY <1>4, WinningsSum

\* The best of the seats that contest a layer wins it: a pot has a winner.
LEMMA PotHasWinner ==
  ASSUME NEW h, NEW ranks \in [Seats -> Seats], NEW level, Eligible(h, level) # {}
  PROVE  PotWinners(h, ranks, level) # {}
<1> DEFINE D == {N - ranks[s] : s \in Eligible(h, level)}
<1>1. Eligible(h, level) \subseteq Seats
  BY DEF Eligible, Payers
<1>2. \A s \in Eligible(h, level) : ranks[s] \in 1 .. N /\ N \in Nat
  BY <1>1, SeatNumbers
<1>3. D \subseteq Nat /\ D # {}
  BY <1>2
<1>4. PICK d \in D : \A e \in D : d <= e
  <2> HIDE DEF D
  <2> QED BY <1>3, LeastNat
<1>5. PICK s \in Eligible(h, level) : d = N - ranks[s]
  BY <1>4
<1>6. ASSUME NEW t \in Eligible(h, level) PROVE ranks[t] <= ranks[s]
  <2>1. N - ranks[t] \in D
    OBVIOUS
  <2>2. N - ranks[s] <= N - ranks[t]
    BY <1>4, <1>5, <2>1
  <2> QED
    BY <1>2, <2>2
<1>7. s \in PotWinners(h, ranks, level)
  BY <1>6 DEF PotWinners
<1> QED
  BY <1>7

\* The seats that win a layer take all of it, and a layer nobody contests is
\* dropped (computePots, awardPot).
LEMMA LayerPaid ==
  ASSUME NEW h, Paying(h), NEW ranks \in [Seats -> Seats], NEW level \in 1 .. Pot(h),
         NEW f, \A s \in 1 .. N : f[s] = Won(h, ranks, s)[level]
  PROVE  SumTo(f, N) = IF IsPot(h, level) THEN PotAmount(h, level) ELSE 0
<1>1. CASE IsPot(h, level)
  <2>1. PotAmount(h, level) \in Nat
    BY <1>1, LayersType DEF Paying, IsPot
  <2>2. PotWinners(h, ranks, level) \in SUBSET Seats
    BY DEF PotWinners, Eligible, Payers
  <2>3. PotWinners(h, ranks, level) # {}
    BY <1>1, PotHasWinner DEF IsPot
  <2>4. \A s \in 1 .. N :
          f[s] = Share(h, PotAmount(h, level), PotWinners(h, ranks, level), s)
    BY <1>1 DEF Won
  <2>5. SumTo(f, N) = PotAmount(h, level)
    BY <2>1, <2>2, <2>3, <2>4, ShareTotal DEF Paying
  <2> QED
    BY <1>1, <2>5
<1>2. CASE ~IsPot(h, level)
  <2>1. \A s \in 1 .. N : f[s] = 0
    BY <1>2 DEF Won
  <2>2. SumTo(f, N) = 0
    BY <2>1, SeatNumbers, SumToZero
  <2> QED
    BY <1>2, <2>2
<1> QED
  BY <1>1, <1>2

\* A showdown pays no more than the pot, and all of it when the largest
\* contribution is a live one: then every layer is contested.
LEMMA WinningsTotal ==
  ASSUME NEW h, Paying(h), NEW ranks \in [Seats -> Seats],
         NEW wins, \A s \in 1 .. N : wins[s] = Winnings(h, ranks, s)
  PROVE  /\ SumTo(wins, N) <= Pot(h)
         /\ (\E s \in NonFolded(h) : \A t \in Seats : h.total[t] <= h.total[s])
              => SumTo(wins, N) = Pot(h)
<1> DEFINE n == Pot(h)
           F == [s \in 1 .. N |-> Won(h, ranks, s)]
           G == [level \in 1 .. n |-> [s \in 1 .. N |-> Won(h, ranks, s)[level]]]
           col == [level \in 1 .. n |-> SumTo(G[level], N)]
           l == Layers(h)
<1>1. n \in Nat /\ \A s \in Seats : h.total[s] \in 0 .. n
  BY PotType DEF Paying
<1>2. \A s \in 1 .. N : \A level \in 1 .. n :
        F[s][level] \in Nat /\ G[level][s] = F[s][level]
  BY WonOfALayer, SeatNumbers
<1>3. \A s \in 1 .. N : wins[s] = SumTo(F[s], n)
  BY WinningsSum, SeatNumbers
<1>4. \A level \in 1 .. n : col[level] = SumTo(G[level], N)
  OBVIOUS
<1>5. \A level \in 1 .. n :
        l[level] \in Nat /\ l[level] = IF level \in Levels(h) THEN PotAmount(h, level) ELSE 0
  BY LayersType DEF Paying
<1>6. ASSUME NEW level \in 1 .. n
      PROVE  /\ SumTo(G[level], N) = IF IsPot(h, level) THEN PotAmount(h, level) ELSE 0
             /\ SumTo(G[level], N) \in Nat /\ SumTo(G[level], N) <= l[level]
  <2>1. \A s \in 1 .. N : G[level][s] = Won(h, ranks, s)[level]
    OBVIOUS
  <2>2. SumTo(G[level], N) = IF IsPot(h, level) THEN PotAmount(h, level) ELSE 0
    <3> HIDE DEF G
    <3> QED BY <2>1, LayerPaid
  <2>3. IsPot(h, level) => level \in Levels(h)
    BY DEF IsPot
  <2> HIDE DEF G, l
  <2> QED
    BY <1>5, <2>2, <2>3
<1> HIDE DEF n, F, G, l
<1>7. \A level \in 1 .. n : /\ col[level] \in Nat /\ col[level] <= l[level]
                            /\ col[level] = IF IsPot(h, level) THEN PotAmount(h, level) ELSE 0
  BY <1>6
<1> HIDE DEF col
<1>8. SumTo(wins, N) = SumTo(col, n)
  <2>1. RowsAndColumns(N, n, F, G, wins, col)
    BY <1>2, <1>3, <1>4 DEF RowsAndColumns
  <2> QED
    BY <1>1, <2>1, SeatNumbers, SumToSwap
<1>9. SumTo(col, n) <= SumTo(l, n)
  BY <1>1, <1>5, <1>7, SumToMonotone
<1>10. SumTo(l, n) = n
  BY LayersHoldThePot DEF l, n, Paying
<1>11. ASSUME NEW s \in NonFolded(h), \A t \in Seats : h.total[t] <= h.total[s]
       PROVE  SumTo(col, n) = SumTo(l, n)
  <2>1. ASSUME NEW level \in 1 .. n, level \in Levels(h)
        PROVE  IsPot(h, level)
    <3>1. PICK t \in Seats : h.total[t] = level
      BY <2>1 DEF Levels
    <3>2. s \in Seats /\ ~h.folded[s] /\ h.total[s] >= level
      <4>1. s \in Seats /\ ~h.folded[s]
        BY DEF NonFolded
      <4> QED
        BY <1>1, <1>11, <3>1, <4>1
    <3>3. s \in Eligible(h, level)
      BY <3>2 DEF Eligible, Payers
    <3> QED
      BY <2>1, <3>3 DEF IsPot
  <2>2. \A level \in 1 .. n : col[level] \in Nat /\ col[level] = l[level]
    BY <1>5, <1>7, <2>1 DEF IsPot
  <2> QED
    BY <1>1, <2>2, SumToSame
<1> QED
  BY <1>8, <1>9, <1>10, <1>11 DEF n

\* Of two seats with equal hands and equal contributions, the one farther from
\* the dealer's left wins no more, and the other at most one chip a pot more.
LEMMA EqualHands ==
  ASSUME NEW h, Paying(h), NEW ranks \in [Seats -> Nat],
         NEW s \in NonFolded(h), NEW t \in NonFolded(h),
         ranks[s] = ranks[t], h.total[s] = h.total[t]
  PROVE  /\ Winnings(h, ranks, s) <= Winnings(h, ranks, t) + Cardinality(Levels(h))
         /\ Dist(h.dealer, t) <= Dist(h.dealer, s) =>
              Winnings(h, ranks, s) <= Winnings(h, ranks, t)
<1> DEFINE n == Pot(h)
           ws == Won(h, ranks, s)
           wt == Won(h, ranks, t)
           pots == {level \in 1 .. n : IsPot(h, level)}
           one == [level \in 1 .. n |-> IF level \in pots THEN 1 ELSE 0]
           more == [level \in 1 .. n |-> wt[level] + one[level]]
<1>1. s \in Seats /\ t \in Seats /\ ~h.folded[s] /\ ~h.folded[t]
  BY DEF NonFolded
<1>2. n \in Nat
  BY PotType DEF Paying
<1>3. \A level \in 1 .. n : ws[level] \in Nat /\ wt[level] \in Nat
  BY <1>1, WonOfALayer
<1>4. ASSUME NEW level \in 1 .. n
      PROVE  s \in PotWinners(h, ranks, level) <=> t \in PotWinners(h, ranks, level)
  BY <1>1 DEF PotWinners, Eligible, Payers
<1>5. ASSUME NEW level \in 1 .. n
      PROVE  /\ ws[level] <= wt[level] + one[level]
             /\ Dist(h.dealer, t) <= Dist(h.dealer, s) => ws[level] <= wt[level]
  <2> DEFINE W == PotWinners(h, ranks, level)
             q == PotAmount(h, level) \div Cardinality(W)
             r == PotAmount(h, level) % Cardinality(W)
             Odd(u) == IF Cardinality(Nearer(h.dealer, W, u)) < r THEN 1 ELSE 0
  <2>1. CASE ~IsPot(h, level)
    <3>1. ws[level] = 0 /\ wt[level] = 0 /\ one[level] = 0
      BY <2>1 DEF Won
    <3> QED
      BY <3>1
  <2>2. CASE IsPot(h, level) /\ s \notin W
    <3>1. ws[level] = 0
      BY <1>1, <2>2, WonOfALayer
    <3>2. one[level] \in Nat /\ wt[level] \in Nat
      BY <1>3
    <3> QED
      BY <3>1, <3>2
  <2>3. CASE IsPot(h, level) /\ s \in W
    <3>1. ws[level] = q + Odd(s)
      BY <2>3 DEF Won, Share, Nearer
    <3>2. wt[level] = q + Odd(t)
      BY <1>4, <2>3 DEF Won, Share, Nearer
    <3>3. one[level] = 1
      BY <2>3
    <3>4. q \in Nat
      <4>1. W \in SUBSET Seats
        BY DEF PotWinners, Eligible, Payers
      <4> HIDE DEF W
      <4>2. Cardinality(W) \in Nat /\ Cardinality(W) # 0
        BY <2>3, <4>1, SeatNumbers, FS_Subset, FS_CardinalityType, FS_EmptySet
      <4>3. PotAmount(h, level) \in Nat
        BY <2>3, LayersType DEF IsPot, Paying
      <4> QED
        BY <4>2, <4>3, DivMod
    <3>5. Dist(h.dealer, t) <= Dist(h.dealer, s) => Odd(s) <= Odd(t)
      <4>1. SUFFICES ASSUME Dist(h.dealer, t) <= Dist(h.dealer, s) PROVE Odd(s) <= Odd(t)
        OBVIOUS
      <4>2. Nearer(h.dealer, W, t) \in SUBSET Nearer(h.dealer, W, s)
        <5>1. \A u \in Seats : Dist(h.dealer, u) \in Nat
          BY DistType DEF Paying
        <5>2. W \subseteq Seats
          BY DEF PotWinners, Eligible, Payers
        <5> HIDE DEF W
        <5> QED
          BY <1>1, <4>1, <5>1, <5>2 DEF Nearer
      <4>3. Nearer(h.dealer, W, s) \in SUBSET Seats
        BY DEF Nearer, PotWinners, Eligible, Payers
      <4> HIDE DEF W
      <4>4. IsFiniteSet(Nearer(h.dealer, W, s))
        BY <4>3, SeatNumbers, FS_Subset
      <4>5. Cardinality(Nearer(h.dealer, W, t)) <= Cardinality(Nearer(h.dealer, W, s))
        BY <4>2, <4>4, FS_Subset
      <4>6. Cardinality(Nearer(h.dealer, W, t)) \in Nat
            /\ Cardinality(Nearer(h.dealer, W, s)) \in Nat
        BY <4>2, <4>4, FS_Subset, FS_CardinalityType
      <4>7. r \in Int
        <5>1. W \in SUBSET Seats
          BY DEF PotWinners, Eligible, Payers, W
        <5>2. Cardinality(W) \in Nat /\ Cardinality(W) # 0
          BY <2>3, <5>1, SeatNumbers, FS_Subset, FS_CardinalityType, FS_EmptySet
        <5>3. PotAmount(h, level) \in Nat
          BY <2>3, LayersType DEF IsPot, Paying
        <5> QED
          BY <5>2, <5>3, DivMod
      <4> HIDE DEF r
      <4> QED
        BY <4>5, <4>6, <4>7
    <3>6. Odd(s) \in {0, 1} /\ Odd(t) \in {0, 1}
      OBVIOUS
    <3> HIDE DEF q, Odd, one, ws, wt
    <3> QED
      BY <3>1, <3>2, <3>3, <3>4, <3>5, <3>6
  <2> QED
    BY <2>1, <2>2, <2>3
<1>6. pots \in SUBSET (1 .. n) /\ pots \subseteq Levels(h)
  BY DEF IsPot
<1>7. \A level \in 1 .. n : /\ one[level] = IF level \in pots THEN 1 ELSE 0
                            /\ one[level] \in Nat
                            /\ more[level] = wt[level] + one[level]
  OBVIOUS
<1>8. Winnings(h, ranks, s) = SumTo(ws, n) /\ Winnings(h, ranks, t) = SumTo(wt, n)
      /\ Winnings(h, ranks, t) \in Nat
  BY <1>1, WinningsSum
<1> HIDE DEF n, ws, wt, pots, one, more
<1>9. SumTo(ws, n) <= SumTo(more, n)
  BY <1>2, <1>3, <1>5, <1>7, SumToMonotone
<1>10. SumTo(more, n) = SumTo(wt, n) + SumTo(one, n)
  BY <1>2, <1>3, <1>7, SumToPlus
<1>11. SumTo(one, n) = 1 * Cardinality(pots)
  BY <1>2, <1>6, <1>7, SumToConstantOn
<1>12. Cardinality(pots) <= Cardinality(Levels(h))
       /\ Cardinality(pots) \in Nat /\ Cardinality(Levels(h)) \in Nat
  <2>1. Levels(h) \in SUBSET (0 .. n)
    BY PotType DEF Levels, Paying, n
  <2>2. IsFiniteSet(0 .. n)
    BY <1>2, FS_Interval
  <2>3. IsFiniteSet(Levels(h))
    BY <2>1, <2>2, FS_Subset
  <2> QED
    BY <1>6, <2>3, FS_Subset, FS_CardinalityType
<1>13. ASSUME Dist(h.dealer, t) <= Dist(h.dealer, s)
       PROVE  SumTo(ws, n) <= SumTo(wt, n)
  BY <1>2, <1>3, <1>5, <1>13, SumToMonotone
<1>14. SumTo(ws, n) \in Nat
  BY <1>2, <1>3, SumToType
<1> QED
  BY <1>8, <1>9, <1>10, <1>11, <1>12, <1>13, <1>14

-----------------------------------------------------------------------------
(* A hand between two calls *)

Accounted(h, st) == \A s \in Seats : h.stack[s] + h.total[s] = st[s]

BetIsLargest(h) ==
  /\ \A s \in Seats : h.street[s] <= h.currentBet
  /\ h.currentBet > 0 => \E s \in Seats : h.street[s] = h.currentBet

\* What the seats had put in when the street began: contenders the same, and no
\* seat in the hand more.
OnePrice(h) ==
  \A s \in Contenders(h), t \in NonFolded(h) :
    h.total[t] - h.street[t] <= h.total[s] - h.street[s]

\* A hand between two calls or in the middle of one.
Live(h, st) ==
  /\ h \in HandType
  /\ h.round \in BettingNow
  /\ h.board = BoardAt(h.round)
  /\ Accounted(h, st)
  /\ BetIsLargest(h)
  /\ OnePrice(h)
  /\ h.minRaise > 0

\* The seat has answered the current bet.
Answered(h, t) == h.acted[t] /\ h.street[t] = h.currentBet

TurnOwed(h) == ~h.folded[h.toAct] /\ ~Answered(h, h.toAct)

\* Clockwise from the seat to act, the contenders that still owe an answer come
\* before those that gave theirs.
InTurnOrder(h) ==
  \A t, u \in Contenders(h) \ {h.toAct} :
    Answered(h, t) /\ ~Answered(h, u) => Dist(h.toAct, u) < Dist(h.toAct, t)

\* A seat to act may be all-in already, by its blind; when it then owes nothing
\* nobody is left to bet.
BlindTurn(h) ==
  h.allIn[h.toAct] /\ h.street[h.toAct] >= h.currentBet => Contenders(h) = {}

InPlay(h, st) ==
  /\ Live(h, st)
  /\ h.toAct \in Seats
  /\ TurnOwed(h)
  /\ InTurnOrder(h)
  /\ BlindTurn(h)

\* The two ends of a hand.
Awarded(h, st) ==
  /\ Cardinality(NonFolded(h)) = 1
  /\ SumTo(h.stack, N) = SumTo(st, N)

ShownDown(h, st) ==
  \E ranks \in Ranks :
    /\ h.rank = [s \in Seats |-> IF h.folded[s] THEN 0 ELSE ranks[s]]
    /\ \A s \in Seats : h.stack[s] + h.total[s] = st[s] + Winnings(h, ranks, s)

Over(h, st) ==
  /\ h \in HandType
  /\ h.round = "complete"
  /\ h.toAct = NoSeat
  /\ \A s \in Seats : h.folded[s] => h.stack[s] + h.total[s] = st[s]
  /\ Awarded(h, st) \/ ShownDown(h, st)

HandInv(h, st) == InPlay(h, st) \/ Over(h, st)

-----------------------------------------------------------------------------
(* What an action does *)

\* Seats are the positive numbers up to N, and seatToAct = null is none of them.
LEMMA SeatsAreNumbers == Seats \subseteq Nat \ {0} /\ NoSeat \notin Seats
BY NAssumption DEF Seats, NoSeat

\* What moving chips in front of a seat changes, and what it keeps.
ChipsMoved(h, g, s, amount) ==
  /\ g \in HandType
  /\ \A t \in Seats : /\ g.stack[t] + g.total[t] = h.stack[t] + h.total[t]
                      /\ g.total[t] - g.street[t] = h.total[t] - h.street[t]
                      /\ t # s => g.allIn[t] = h.allIn[t]
  /\ g.street = [h.street EXCEPT ![s] = @ + amount]
  /\ g.stack = [h.stack EXCEPT ![s] = @ - amount]
  /\ h.allIn[s] => g.allIn[s]
  /\ g.allIn[s] /\ ~h.allIn[s] => g.stack[s] = 0
  /\ amount > 0 /\ g.stack[s] = 0 => g.allIn[s]
  /\ g.folded = h.folded /\ g.acted = h.acted /\ g.dealer = h.dealer
  /\ g.round = h.round /\ g.board = h.board
  /\ g.currentBet = h.currentBet /\ g.minRaise = h.minRaise
  /\ g.toAct = h.toAct /\ g.rank = h.rank

\* Chips moved from a stack to the pot stay counted (postBlind, applyAction).
LEMMA PutKeeps ==
  ASSUME NEW h \in HandType, NEW s \in Seats, NEW amount \in 0 .. h.stack[s]
  PROVE  ChipsMoved(h, Put(h, s, amount), s, amount)
<1> DEFINE g == Put(h, s, amount)
<1>1. h.stack \in [Seats -> Nat] /\ h.street \in [Seats -> Nat]
      /\ h.total \in [Seats -> Nat] /\ h.allIn \in [Seats -> BOOLEAN]
  BY DEF HandType
<1>2. h.stack[s] \in Nat /\ amount \in Nat /\ h.stack[s] - amount \in Nat
  BY <1>1
<1>3. g.stack = [h.stack EXCEPT ![s] = @ - amount]
      /\ g.street = [h.street EXCEPT ![s] = @ + amount]
      /\ g.total = [h.total EXCEPT ![s] = @ + amount]
      /\ g.allIn = [h.allIn EXCEPT ![s] = @ \/ h.stack[s] = amount]
  BY DEF Put, HandType
<1>4. g.stack \in [Seats -> Nat] /\ g.street \in [Seats -> Nat]
      /\ g.total \in [Seats -> Nat]
  BY <1>1, <1>2, <1>3
<1>5. g.allIn \in [Seats -> BOOLEAN]
  BY <1>1, <1>3
<1>6. g \in HandType
  BY <1>4, <1>5 DEF Put, HandType
<1>7. \A t \in Seats : /\ g.stack[t] + g.total[t] = h.stack[t] + h.total[t]
                       /\ g.total[t] - g.street[t] = h.total[t] - h.street[t]
  BY <1>1, <1>2, <1>3
<1>8. \A t \in Seats : t # s => g.allIn[t] = h.allIn[t]
  BY <1>1, <1>3
<1>9. g.allIn[s] <=> h.allIn[s] \/ h.stack[s] = amount
  BY <1>1, <1>3
<1>10. g.stack[s] = 0 <=> h.stack[s] = amount
  BY <1>1, <1>2, <1>3
<1>11. /\ g.folded = h.folded /\ g.acted = h.acted /\ g.dealer = h.dealer
       /\ g.round = h.round /\ g.board = h.board
       /\ g.currentBet = h.currentBet /\ g.minRaise = h.minRaise
       /\ g.toAct = h.toAct /\ g.rank = h.rank
  BY DEF Put, HandType
<1> HIDE DEF g
<1>12. ChipsMoved(h, g, s, amount)
  BY <1>3, <1>6, <1>7, <1>8, <1>9, <1>10, <1>11 DEF ChipsMoved
<1> QED
  BY <1>12 DEF g

\* A legal action takes chips the seat has, and leaves the bet the largest.
LEMMA PaidIsAvailable ==
  ASSUME NEW h, NEW st, Live(h, st), h.toAct \in Seats,
         NEW type, NEW amount \in Nat, IsLegal(h, h.toAct, type, amount)
  PROVE  Paid(h, type, amount) \in 0 .. h.stack[h.toAct]
<1> DEFINE s == h.toAct
<1>1. h.stack[s] \in Nat /\ h.street[s] \in Nat /\ h.currentBet \in Nat
      /\ h.minRaise \in Nat
  BY DEF Live, HandType
<1>2. h.street[s] <= h.currentBet
  BY DEF Live, BetIsLargest
<1>3. type \in LegalActions(h)
  BY DEF IsLegal
<1>4. CASE type \in {"fold", "check"}
  BY <1>1, <1>4 DEF Paid
<1>5. CASE type = "call"
  <2>1. Owed(h) > 0
    BY <1>3, <1>5 DEF LegalActions
  <2>2. Owed(h) \in Nat
    BY <1>1, <2>1 DEF Owed
  <2>3. Paid(h, type, amount) = MinOf(Owed(h), h.stack[s])
    BY <1>5 DEF Paid, CallAmount
  <2> QED
    BY <1>1, <2>2, <2>3 DEF MinOf
<1>6. CASE type \in {"bet", "raise"}
  <2>1. amount \in MinBetOrRaise(h) .. MaxTotal(h)
    BY <1>6 DEF IsLegal
  <2>2. MinBetOrRaise(h) \in Int /\ MaxTotal(h) = h.street[s] + h.stack[s]
    BY <1>1 DEF MinBetOrRaise, MaxTotal, MinOf
  <2>3. amount <= h.street[s] + h.stack[s] /\ MinBetOrRaise(h) <= amount
    BY <2>1, <2>2
  <2>4. h.street[s] <= amount
    <3>1. CASE h.currentBet = 0
      BY <3>1, <1>1, <1>2
    <3>2. CASE h.currentBet # 0
      BY <3>2, <1>1, <1>2, <2>3 DEF MinBetOrRaise
    <3> QED
      BY <3>1, <3>2
  <2>5. Paid(h, type, amount) = amount - h.street[s]
    BY <1>6 DEF Paid
  <2> QED
    BY <1>1, <2>3, <2>4, <2>5
<1>7. CASE type = "all-in"
  BY <1>1, <1>7 DEF Paid
<1> QED
  BY <1>3, <1>4, <1>5, <1>6, <1>7 DEF LegalActions, ActionTypes

\* What an action that pays an amount does to the hand (applyAction).
ActionTaken(h, g, type, paid) ==
  LET s      == h.toAct
      raised == h.street[s] + paid > h.currentBet
  IN  /\ g \in HandType
      /\ paid \in 0 .. h.stack[s]
      /\ g.stack = [h.stack EXCEPT ![s] = @ - paid]
      /\ g.street = [h.street EXCEPT ![s] = @ + paid]
      /\ \A t \in Seats : /\ g.stack[t] + g.total[t] = h.stack[t] + h.total[t]
                          /\ g.total[t] - g.street[t] = h.total[t] - h.street[t]
                          /\ t # s => g.allIn[t] = h.allIn[t]
      /\ h.allIn[s] => g.allIn[s]
      /\ paid > 0 /\ g.stack[s] = 0 => g.allIn[s]
      /\ g.folded = [h.folded EXCEPT ![s] = @ \/ type = "fold"]
      /\ g.currentBet = IF raised THEN h.street[s] + paid ELSE h.currentBet
      /\ g.minRaise = IF raised THEN h.street[s] + paid - h.currentBet ELSE h.minRaise
      /\ \A t \in Seats :
           g.acted[t] <=> \/ t = s
                          \/ h.acted[t] /\ (raised => h.folded[t] \/ h.allIn[t])
      /\ g.round = h.round /\ g.board = h.board /\ g.dealer = h.dealer
      /\ g.toAct = h.toAct /\ g.rank = h.rank

\* That is what a legal action does.
LEMMA ApplyActionTakes ==
  ASSUME NEW h, NEW st, Live(h, st), h.toAct \in Seats,
         NEW type, NEW amount \in Nat, IsLegal(h, h.toAct, type, amount)
  PROVE  ActionTaken(h, ApplyAction(h, type, amount), type, Paid(h, type, amount))
<1> DEFINE s == h.toAct
           paid == Paid(h, type, amount)
           after == IF paid = 0 THEN h ELSE Put(h, s, paid)
           raised == after.street[s] > h.currentBet
           g == ApplyAction(h, type, amount)
<1>1. paid \in 0 .. h.stack[s]
  BY PaidIsAvailable
<1>2. h \in HandType /\ h.street \in [Seats -> Nat] /\ h.currentBet \in Nat
  BY DEF Live, HandType
<1>3. ChipsMoved(h, after, s, paid)
  <2>1. CASE paid = 0
    <3>1. after = h
      BY <2>1
    <3>2. h.street = [h.street EXCEPT ![s] = @ + 0]
          /\ h.stack = [h.stack EXCEPT ![s] = @ - 0]
      BY <1>2 DEF HandType
    <3> HIDE DEF after, paid
    <3> QED
      BY <3>1, <3>2, <2>1, <1>2 DEF ChipsMoved
  <2>2. CASE paid # 0
    <3>1. after = Put(h, s, paid)
      BY <2>2
    <3>2. ChipsMoved(h, Put(h, s, paid), s, paid)
      BY <1>1, <1>2, PutKeeps
    <3> HIDE DEF after, paid
    <3> QED
      BY <3>1, <3>2
  <2> QED
    BY <2>1, <2>2
<1> USE DEF ChipsMoved
<1>4. after.street[s] \in Nat /\ after.street[s] = h.street[s] + paid
      /\ \A t \in Seats \ {s} : after.street[t] = h.street[t]
  BY <1>1, <1>2, <1>3
<1>5. g = [after EXCEPT
             !.folded[s]  = @ \/ type = "fold",
             !.currentBet = IF raised THEN after.street[s] ELSE @,
             !.minRaise   = IF raised THEN after.street[s] - h.currentBet ELSE @,
             !.acted      = [t \in Seats |->
                               \/ t = s
                               \/ @[t] /\ (raised => h.folded[t] \/ h.allIn[t])]]
  BY DEF ApplyAction
<1> HIDE DEF after, paid, g
<1>6. /\ g.stack = after.stack /\ g.total = after.total /\ g.street = after.street
      /\ g.allIn = after.allIn /\ g.round = h.round /\ g.board = h.board
      /\ g.toAct = h.toAct /\ g.dealer = after.dealer /\ g.rank = after.rank
      /\ g.currentBet = (IF raised THEN after.street[s] ELSE h.currentBet)
      /\ g.minRaise = (IF raised THEN after.street[s] - h.currentBet ELSE h.minRaise)
      /\ g.folded = [after.folded EXCEPT ![s] = @ \/ type = "fold"]
  BY <1>3, <1>5 DEF HandType
<1>7. g.acted \in [Seats -> BOOLEAN] /\ g.folded \in [Seats -> BOOLEAN]
  <2>1. after.acted \in [Seats -> BOOLEAN] /\ after.folded \in [Seats -> BOOLEAN]
        /\ h.folded \in [Seats -> BOOLEAN] /\ h.allIn \in [Seats -> BOOLEAN]
    BY <1>2, <1>3 DEF HandType
  <2>2. g.acted = [t \in Seats |-> \/ t = s
                                   \/ after.acted[t] /\ (raised => h.folded[t] \/ h.allIn[t])]
    BY <1>3, <1>5 DEF HandType
  <2>3. g.acted \in [Seats -> BOOLEAN]
    BY <2>1, <2>2
  <2>4. g.folded \in [Seats -> BOOLEAN]
    BY <2>1, <1>6
  <2> QED
    BY <2>3, <2>4
<1>8. g.currentBet \in Nat /\ g.minRaise \in Nat
  BY <1>2, <1>3, <1>4, <1>6 DEF HandType
<1>9. g \in HandType
  BY <1>3, <1>5, <1>7, <1>8 DEF HandType
<1>10. ASSUME NEW t \in Seats
       PROVE  g.acted[t] <=> \/ t = s
                             \/ h.acted[t] /\ (raised => h.folded[t] \/ h.allIn[t])
  <2>1. g.acted = [u \in Seats |-> \/ u = s
                                   \/ after.acted[u] /\ (raised => h.folded[u] \/ h.allIn[u])]
    BY <1>3, <1>5 DEF HandType
  <2> QED
    BY <1>3, <2>1
<1>11. /\ paid > 0 /\ g.stack[s] = 0 => g.allIn[s]
       /\ h.allIn[s] => g.allIn[s]
       /\ g.folded = [h.folded EXCEPT ![s] = @ \/ type = "fold"]
       /\ g.stack = [h.stack EXCEPT ![s] = @ - paid]
       /\ g.street = [h.street EXCEPT ![s] = @ + paid]
       /\ g.dealer = h.dealer /\ g.rank = h.rank
  BY <1>3, <1>6
<1>12. \A t \in Seats : /\ g.stack[t] + g.total[t] = h.stack[t] + h.total[t]
                        /\ g.total[t] - g.street[t] = h.total[t] - h.street[t]
                        /\ t # s => g.allIn[t] = h.allIn[t]
  BY <1>3, <1>6
<1>13. /\ raised <=> h.street[s] + paid > h.currentBet
       /\ g.currentBet = IF raised THEN h.street[s] + paid ELSE h.currentBet
       /\ g.minRaise = IF raised THEN h.street[s] + paid - h.currentBet ELSE h.minRaise
  <2>1. after.street[s] = h.street[s] + paid
    BY <1>4
  <2>2. raised <=> h.street[s] + paid > h.currentBet
    BY <2>1
  <2>3. CASE raised
    <3>1. g.currentBet = after.street[s] /\ g.minRaise = after.street[s] - h.currentBet
      BY <1>6, <2>3
    <3> HIDE DEF raised
    <3>2. h.street[s] \in Nat /\ paid \in Nat /\ h.currentBet \in Nat
      BY <1>1, <1>2
    <3>3. /\ g.currentBet = h.street[s] + paid
          /\ g.minRaise = h.street[s] + paid - h.currentBet
      BY <2>1, <3>1, <3>2
    <3> QED
      BY <2>2, <2>3, <3>3
  <2>4. CASE ~raised
    <3>1. g.currentBet = h.currentBet /\ g.minRaise = h.minRaise
      BY <1>6, <2>4
    <3> HIDE DEF raised
    <3> QED
      BY <2>2, <2>4, <3>1
  <2> QED
    BY <2>3, <2>4
<1>14. g.round = h.round /\ g.board = h.board /\ g.toAct = h.toAct
  BY <1>6
<1> HIDE DEF raised
<1>15. ActionTaken(h, g, type, paid)
  BY <1>1, <1>9, <1>10, <1>11, <1>12, <1>13, <1>14 DEF ActionTaken
<1> QED
  BY <1>15 DEF g, paid

\* A legal bet or raise asks for more than the current bet.
LEMMA BetsAreAbove ==
  ASSUME NEW h, NEW st, Live(h, st), h.toAct \in Seats,
         NEW type \in {"bet", "raise"}, NEW amount \in Nat,
         IsLegal(h, h.toAct, type, amount)
  PROVE  amount > h.currentBet
<1>1. /\ h.stack[h.toAct] \in Nat /\ h.street[h.toAct] \in Nat /\ h.currentBet \in Nat
      /\ h.minRaise \in Nat /\ h.minRaise > 0
  BY DEF Live, HandType
<1>2. amount \in MinBetOrRaise(h) .. MaxTotal(h) /\ type \in LegalActions(h)
  BY DEF IsLegal
<1>3. MaxTotal(h) \in Nat
  BY <1>1 DEF MaxTotal
<1>4. CASE h.currentBet = 0
  <2>1. type = "bet" /\ h.stack[h.toAct] > 0
    BY <1>1, <1>2, <1>4 DEF LegalActions
  <2>2. MinBetOrRaise(h) = MinOf(h.minRaise, h.stack[h.toAct])
    BY <1>4 DEF MinBetOrRaise
  <2>3. MinBetOrRaise(h) > 0 /\ MinBetOrRaise(h) \in Nat
    BY <2>1, <2>2, <1>1 DEF MinOf
  <2> QED
    BY <1>2, <1>3, <1>4, <2>3
<1>5. CASE h.currentBet # 0
  <2>1. MinBetOrRaise(h) = h.currentBet + h.minRaise
    BY <1>5 DEF MinBetOrRaise
  <2> QED
    BY <1>1, <1>2, <1>3, <2>1
<1> QED
  BY <1>4, <1>5

\* Every action but a fold and a check puts chips in.
LEMMA BetsPay ==
  ASSUME NEW h, NEW st, Live(h, st), h.toAct \in Seats,
         NEW type, NEW amount \in Nat, IsLegal(h, h.toAct, type, amount),
         type \notin {"fold", "check"}
  PROVE  Paid(h, type, amount) > 0
<1>1. /\ h.stack[h.toAct] \in Nat /\ h.street[h.toAct] \in Nat /\ h.currentBet \in Nat
      /\ h.street[h.toAct] <= h.currentBet
  BY DEF Live, HandType, BetIsLargest
<1>2. type \in LegalActions(h)
  BY DEF IsLegal
<1>3. CASE type = "call"
  <2>1. Paid(h, type, amount) = MinOf(h.currentBet - h.street[h.toAct], h.stack[h.toAct])
        /\ h.currentBet - h.street[h.toAct] > 0 /\ h.stack[h.toAct] > 0
    BY <1>2, <1>3 DEF Paid, LegalActions, CallAmount, Owed
  <2> QED
    BY <1>1, <2>1 DEF MinOf
<1>4. CASE type \in {"bet", "raise"}
  <2>1. Paid(h, type, amount) = amount - h.street[h.toAct]
    BY <1>4 DEF Paid
  <2>2. amount > h.currentBet
    BY <1>4, BetsAreAbove
  <2> QED
    BY <1>1, <2>1, <2>2
<1>5. CASE type = "all-in"
  BY <1>2, <1>5 DEF Paid, LegalActions
<1> QED
  BY <1>2, <1>3, <1>4, <1>5 DEF LegalActions, ActionTypes

\* It leaves its seat all-in or at the current bet.
LEMMA ActionAnswers ==
  ASSUME NEW h, NEW st, Live(h, st), h.toAct \in Seats,
         NEW type, NEW amount \in Nat, IsLegal(h, h.toAct, type, amount),
         NEW g, ActionTaken(h, g, type, Paid(h, type, amount)),
         h.toAct \in Contenders(g)
  PROVE  Answered(g, h.toAct)
<1> DEFINE s == h.toAct
           paid == Paid(h, type, amount)
<1>1. /\ h.stack[s] \in Nat /\ h.street[s] \in Nat /\ h.currentBet \in Nat
      /\ h.minRaise \in Nat /\ h.minRaise > 0 /\ h.street[s] <= h.currentBet
      /\ h.stack \in [Seats -> Nat] /\ h.street \in [Seats -> Nat]
      /\ h.folded \in [Seats -> BOOLEAN]
  BY DEF Live, HandType, BetIsLargest
<1>2. type \in LegalActions(h)
  BY DEF IsLegal
<1>3. ~g.folded[s] /\ ~g.allIn[s]
  BY DEF Contenders
<1>4. paid \in Nat /\ paid <= h.stack[s]
  BY <1>1 DEF ActionTaken
<1>5. type # "fold"
  BY <1>1, <1>3 DEF ActionTaken
<1>6. g.stack[s] = h.stack[s] - paid /\ g.street[s] = h.street[s] + paid
      /\ g.acted[s]
  BY <1>1 DEF ActionTaken
<1>7. paid = 0 \/ paid < h.stack[s]
  <2>1. ~(paid > 0 /\ g.stack[s] = 0)
    BY <1>3 DEF ActionTaken
  <2> QED
    BY <2>1, <1>1, <1>4, <1>6
<1>8. g.currentBet = IF h.street[s] + paid > h.currentBet THEN h.street[s] + paid
                                                         ELSE h.currentBet
  BY DEF ActionTaken
<1>9. CASE type = "check"
  <2>1. paid = 0 /\ h.currentBet - h.street[s] <= 0
    BY <1>2, <1>9 DEF Paid, LegalActions, Owed
  <2> QED
    BY <2>1, <1>1, <1>6, <1>8 DEF Answered
<1>10. CASE type = "call"
  <2>1. paid = MinOf(h.currentBet - h.street[s], h.stack[s]) /\ h.stack[s] > 0
        /\ h.currentBet - h.street[s] > 0
    BY <1>2, <1>10 DEF Paid, LegalActions, CallAmount, Owed
  <2>2. paid = h.currentBet - h.street[s]
    BY <2>1, <1>1, <1>7 DEF MinOf
  <2> QED
    BY <2>2, <1>1, <1>6, <1>8 DEF Answered
<1>11. CASE type \in {"bet", "raise"}
  <2>1. paid = amount - h.street[s]
    BY <1>11 DEF Paid
  <2>2. amount > h.currentBet
    BY <1>11, BetsAreAbove
  <2>3. h.street[s] + paid = amount
    BY <2>1, <1>1
  <2> HIDE DEF paid
  <2> QED
    BY <2>2, <2>3, <1>1, <1>6, <1>8 DEF Answered
<1>12. CASE type = "all-in"
  <2>1. paid = h.stack[s] /\ h.stack[s] > 0
    BY <1>2, <1>12 DEF Paid, LegalActions
  <2> QED
    BY <2>1, <1>1, <1>7
<1> QED
  BY <1>2, <1>5, <1>9, <1>10, <1>11, <1>12 DEF LegalActions, ActionTypes

\* It keeps every chip counted and the bet the largest contribution, and those
\* that still owe an answer before those that gave theirs (applyAction).
LEMMA ActionKeeps ==
  ASSUME NEW h, NEW st, Live(h, st), h.toAct \in Seats,
         NEW type, NEW paid, NEW g, ActionTaken(h, g, type, paid)
  PROVE  /\ Live(g, st)
         /\ InTurnOrder(h) => InTurnOrder(g)
<1> DEFINE s == h.toAct
           raised == h.street[s] + paid > h.currentBet
<1>1. /\ h.street \in [Seats -> Nat] /\ h.currentBet \in Nat /\ h.minRaise \in Nat
      /\ h.stack \in [Seats -> Nat] /\ h.total \in [Seats -> Nat]
      /\ h.folded \in [Seats -> BOOLEAN] /\ h.allIn \in [Seats -> BOOLEAN]
      /\ h.minRaise > 0
  BY DEF Live, HandType
<1>2. paid \in Nat /\ g \in HandType
  BY <1>1 DEF ActionTaken
<1>3. g.street[s] = h.street[s] + paid
      /\ \A t \in Seats \ {s} : g.street[t] = h.street[t]
  BY <1>1 DEF ActionTaken
<1>4. g.currentBet = IF raised THEN h.street[s] + paid ELSE h.currentBet
  BY DEF ActionTaken
<1>5. BetIsLargest(g)
  <2>1. BetIsLargest(h)
    BY DEF Live
  <2>2. CASE raised
    <3>1. g.currentBet = g.street[s]
      BY <2>2, <1>3, <1>4
    <3>2. \A t \in Seats : g.street[t] <= g.currentBet
      BY <2>1, <2>2, <3>1, <1>1, <1>2, <1>3 DEF BetIsLargest
    <3> QED
      BY <3>1, <3>2 DEF BetIsLargest
  <2>3. CASE ~raised
    <3>1. g.currentBet = h.currentBet
      BY <2>3, <1>4
    <3>2. \A t \in Seats : g.street[t] <= g.currentBet
      BY <2>1, <2>3, <3>1, <1>1, <1>2, <1>3 DEF BetIsLargest
    <3>3. ASSUME g.currentBet > 0
          PROVE  \E t \in Seats : g.street[t] = g.currentBet
      <4>1. PICK t \in Seats : h.street[t] = h.currentBet
        BY <2>1, <3>1, <3>3 DEF BetIsLargest
      <4>2. g.street[t] >= h.street[t] /\ g.street[t] \in Nat
        BY <1>1, <1>2, <1>3
      <4> QED
        BY <3>1, <3>2, <4>1, <4>2, <1>1
    <3> QED
      BY <3>2, <3>3 DEF BetIsLargest
  <2> QED
    BY <2>2, <2>3
<1>6. Accounted(g, st)
  BY DEF Live, Accounted, ActionTaken
<1>7. g.minRaise > 0
  <2>1. g.minRaise = IF raised THEN h.street[s] + paid - h.currentBet ELSE h.minRaise
    BY DEF ActionTaken
  <2> QED
    BY <2>1, <1>1, <1>2
<1>8. \A t \in Seats : /\ ~g.folded[t] => ~h.folded[t]
                       /\ t # s => (g.folded[t] <=> h.folded[t])
                       /\ ~g.allIn[t] => ~h.allIn[t]
                       /\ t # s => (g.allIn[t] <=> h.allIn[t])
  BY <1>1 DEF ActionTaken
<1>9. OnePrice(g)
  <2>1. OnePrice(h)
    BY DEF Live
  <2>2. Contenders(g) \subseteq Contenders(h) /\ NonFolded(g) \subseteq NonFolded(h)
    BY <1>8 DEF Contenders, NonFolded
  <2>3. \A t \in Seats : g.total[t] - g.street[t] = h.total[t] - h.street[t]
    BY DEF ActionTaken
  <2>4. Contenders(g) \subseteq Seats /\ NonFolded(g) \subseteq Seats
    BY DEF Contenders, NonFolded
  <2> QED
    BY <2>1, <2>2, <2>3, <2>4 DEF OnePrice
<1>10. ASSUME InTurnOrder(h)
       PROVE  InTurnOrder(g)
  <2>1. g.toAct = s
    BY DEF ActionTaken
  <2>2. SUFFICES ASSUME NEW t \in Contenders(g) \ {s}, NEW u \in Contenders(g) \ {s},
                        Answered(g, t), ~Answered(g, u)
                 PROVE  Dist(s, u) < Dist(s, t)
    BY <2>1 DEF InTurnOrder
  <2>3. t \in Contenders(h) \ {s} /\ u \in Contenders(h) \ {s}
        /\ t \in Seats /\ u \in Seats
    BY <1>8 DEF Contenders
  <2>4. \A v \in Seats : g.acted[v] <=> \/ v = s
                                        \/ h.acted[v] /\ (raised => h.folded[v] \/ h.allIn[v])
    BY DEF ActionTaken
  <2>5. ~raised
    BY <2>2, <2>3, <2>4 DEF Answered, Contenders
  <2>6. g.currentBet = h.currentBet
    BY <2>5, <1>4
  <2> HIDE DEF raised
  <2>7. Answered(h, t) /\ ~Answered(h, u)
    BY <2>2, <2>3, <2>4, <2>5, <2>6, <1>3 DEF Answered
  <2> QED
    BY <1>10, <2>3, <2>7 DEF InTurnOrder
<1>11. g.round = h.round /\ g.board = h.board
  BY DEF ActionTaken
<1> QED
  BY <1>2, <1>5, <1>6, <1>7, <1>9, <1>10, <1>11 DEF Live

-----------------------------------------------------------------------------
(* Whose turn comes next *)

\* Clockwise from c, d comes before t.
LEMMA DistBetween ==
  ASSUME NEW c \in Seats, NEW d \in Seats, NEW t \in Seats,
         d # c, d # t, t # c, Dist(c, d) <= Dist(c, t)
  PROVE  /\ Dist(d, t) = Dist(c, t) - Dist(c, d)
         /\ Dist(d, c) = N - Dist(c, d)
         /\ Dist(c, d) < Dist(c, t) /\ Dist(c, t) < N
<1>1. c \in Nat /\ d \in Nat /\ t \in Nat /\ N \in Nat
      /\ c \in 1 .. N /\ d \in 1 .. N /\ t \in 1 .. N /\ c \in 0 .. N /\ d \in 0 .. N
  BY NAssumption DEF Seats
<1>2. /\ Dist(c, d) = (IF d > c THEN d - c ELSE d - c + N)
      /\ Dist(c, t) = (IF t > c THEN t - c ELSE t - c + N)
      /\ Dist(d, t) = (IF t > d THEN t - d ELSE t - d + N)
      /\ Dist(d, c) = (IF c > d THEN c - d ELSE c - d + N)
  BY <1>1, DistValue
<1> QED
  BY <1>1, <1>2

\* The turn passes to a seat that owes an answer, and those that owe one still
\* come before the others (advance, findActiveSeatAfter).
LEMMA TurnPasses ==
  ASSUME NEW h, h \in HandType, h.toAct \in Seats, InTurnOrder(h),
         h.toAct \in Contenders(h) => Answered(h, h.toAct),
         ~IsRoundComplete(h),
         NEW g, g = [h EXCEPT !.toAct = FindActiveSeatAfter(h, h.toAct)]
  PROVE  g.toAct \in Contenders(g) /\ TurnOwed(g) /\ InTurnOrder(g)
<1> DEFINE c == h.toAct
           d == FindActiveSeatAfter(h, c)
<1>1. PICK u \in Contenders(h) : ~Answered(h, u)
  BY DEF IsRoundComplete, Answered
<1>2. u # c
  BY <1>1
<1>3. /\ d \in Contenders(h) /\ d # c
      /\ \A t \in Contenders(h) : Dist(c, d) <= Dist(c, t)
  BY <1>1, <1>2, FindActiveSeat
<1>4. /\ g.toAct = d /\ g.folded = h.folded /\ g.allIn = h.allIn
      /\ g.acted = h.acted /\ g.street = h.street /\ g.currentBet = h.currentBet
  BY DEF HandType
<1> HIDE DEF d
<1>5. Contenders(g) = Contenders(h) /\ \A t : Answered(g, t) <=> Answered(h, t)
  BY <1>4 DEF Contenders, Answered
<1>6. \A t \in Contenders(h) \ {c, d} :
        /\ t \in Seats
        /\ Dist(d, t) = Dist(c, t) - Dist(c, d)
        /\ Dist(c, d) < Dist(c, t) /\ Dist(c, t) < N
        /\ Dist(d, c) = N - Dist(c, d)
  BY <1>3, DistBetween DEF Contenders
<1>7. \A t \in Contenders(h) : Dist(c, t) \in Nat
  BY DistType DEF Contenders
<1>8. N \in Nat
  BY NAssumption
<1>9. ~Answered(h, d)
  <2>1. SUFFICES ASSUME Answered(h, d) PROVE FALSE
    OBVIOUS
  <2>2. u # d
    BY <1>1, <2>1
  <2>3. Dist(c, u) < Dist(c, d)
    BY <1>1, <1>2, <1>3, <2>1 DEF InTurnOrder
  <2>4. Dist(c, d) < Dist(c, u)
    BY <1>1, <1>2, <1>6, <2>2
  <2> QED
    BY <2>3, <2>4, <1>1, <1>3, <1>7
<1>10. TurnOwed(g)
  BY <1>3, <1>4, <1>5, <1>9 DEF TurnOwed, Contenders
<1>11. InTurnOrder(g)
  <2>1. SUFFICES ASSUME NEW t \in Contenders(h) \ {d}, NEW v \in Contenders(h) \ {d},
                        Answered(h, t), ~Answered(h, v)
                 PROVE  Dist(d, v) < Dist(d, t)
    BY <1>4, <1>5 DEF InTurnOrder
  <2>2. v # c
    BY <2>1
  <2>3. Dist(d, v) = Dist(c, v) - Dist(c, d) /\ Dist(c, v) < N
    BY <1>6, <2>2
  <2>4. CASE t = c
    <3>1. Dist(d, t) = N - Dist(c, d)
      BY <1>6, <2>2, <2>4
    <3> QED
      BY <2>3, <3>1, <1>3, <1>7, <1>8
  <2>5. CASE t # c
    <3>1. Dist(c, v) < Dist(c, t)
      BY <2>1, <2>2, <2>5 DEF InTurnOrder
    <3>2. Dist(d, t) = Dist(c, t) - Dist(c, d)
      BY <1>6, <2>5
    <3> QED
      BY <2>3, <3>1, <3>2, <1>3, <1>7
  <2> QED
    BY <2>4, <2>5
<1> QED
  BY <1>3, <1>4, <1>5, <1>10, <1>11

-----------------------------------------------------------------------------
(* Ends of a hand *)

\* The pot goes to the last seat left, and no chip is made or lost
\* (awardWithoutShowdown).
LEMMA AwardWithoutShowdownEnds ==
  ASSUME NEW h \in HandType, NEW st \in [Seats -> Nat], Accounted(h, st),
         Cardinality(NonFolded(h)) = 1, NEW winner \in Seats, ~h.folded[winner]
  PROVE  Over(AwardWithoutShowdown(h, winner), st)
<1> DEFINE g == AwardWithoutShowdown(h, winner)
           won == [s \in 1 .. N |-> IF s \in {winner} THEN Pot(h) ELSE 0]
<1>1. Pot(h) \in Nat
  BY PotType DEF HandType, HasTotals
<1>2. /\ g.stack = [h.stack EXCEPT ![winner] = @ + Pot(h)]
      /\ g.round = "complete" /\ g.toAct = NoSeat
      /\ g.total = h.total /\ g.folded = h.folded
  BY DEF AwardWithoutShowdown, HandType
<1>3. g.stack \in [Seats -> Nat]
  BY <1>1, <1>2 DEF HandType
<1>4. g \in HandType
  BY <1>2, <1>3 DEF AwardWithoutShowdown, HandType, Rounds
<1>5. \A s \in Seats : g.folded[s] => g.stack[s] + g.total[s] = st[s]
  BY <1>2 DEF Accounted, HandType
<1>6. NonFolded(g) = NonFolded(h)
  BY <1>2 DEF NonFolded
<1>7. SumTo(won, N) = Pot(h)
  <2>1. {winner} \in SUBSET (1 .. N) /\ Cardinality({winner}) = 1
    BY SeatNumbers, FS_Singleton
  <2>2. \A s \in 1 .. N : won[s] = IF s \in {winner} THEN Pot(h) ELSE 0
    OBVIOUS
  <2> HIDE DEF won
  <2>3. SumTo(won, N) = Pot(h) * Cardinality({winner})
    BY <1>1, <2>1, <2>2, SeatNumbers, SumToConstantOn
  <2> QED
    BY <1>1, <2>1, <2>3
<1>8. \A s \in 1 .. N : won[s] = (IF s = winner THEN Pot(h) ELSE 0)
  OBVIOUS
<1> HIDE DEF g, won
<1>a. \A s \in 1 .. N : /\ h.stack[s] \in Nat /\ h.total[s] \in Nat
                        /\ st[s] = h.stack[s] + h.total[s]
  BY SeatNumbers DEF HandType, Accounted
<1>b. ASSUME NEW s \in 1 .. N
      PROVE  won[s] \in Nat /\ g.stack[s] = h.stack[s] + won[s]
  <2>1. s \in Seats /\ h.stack \in [Seats -> Nat]
    BY SeatNumbers DEF HandType
  <2>2. CASE s = winner
    BY <1>1, <1>2, <1>8, <2>1, <2>2
  <2>3. CASE s # winner
    <3>1. g.stack[s] = h.stack[s] /\ won[s] = 0
      BY <1>2, <1>8, <2>1, <2>3
    <3> QED
      BY <2>1, <3>1
  <2> QED
    BY <2>2, <2>3
<1>9. SumTo(g.stack, N) = SumTo(h.stack, N) + SumTo(won, N)
  BY <1>a, <1>b, SeatNumbers, SumToPlus
<1>10. SumTo(st, N) = SumTo(h.stack, N) + SumTo(h.total, N)
  BY <1>a, SeatNumbers, SumToPlus
<1>11. Awarded(g, st)
  BY <1>6, <1>7, <1>9, <1>10 DEF Awarded, Pot
<1>12. Over(g, st)
  BY <1>2, <1>4, <1>5, <1>11 DEF Over
<1> QED
  BY <1>12 DEF g

\* A seat won nothing if it folded: it is eligible for no pot.
LEMMA FoldedWinsNothing ==
  ASSUME NEW h \in HandType, NEW ranks, NEW s \in Seats, h.folded[s]
  PROVE  Winnings(h, ranks, s) = 0
<1> DEFINE won == [level \in 1 .. Pot(h) |->
                     IF IsPot(h, level)
                       THEN Share(h, PotAmount(h, level), PotWinners(h, ranks, level), s)
                       ELSE 0]
<1>1. Pot(h) \in Nat
  <2>1. \A i \in 1 .. N : h.total[i] \in Nat
    BY DEF HandType, Seats
  <2> QED
    BY <2>1, NAssumption, SumToType DEF Pot
<1>2. ASSUME NEW level \in 1 .. Pot(h) PROVE won[level] = 0
  <2>1. s \notin PotWinners(h, ranks, level)
    BY DEF PotWinners, Eligible
  <2>2. Share(h, PotAmount(h, level), PotWinners(h, ranks, level), s) = 0
    BY <2>1 DEF Share
  <2> QED
    BY <2>2
<1>3. SumTo(won, Pot(h)) = 0
  <2> HIDE DEF won
  <2> QED BY <1>1, <1>2, SumToZero
<1> QED
  BY <1>3 DEF Winnings

\* There are finitely many levels.
LEMMA LevelsType ==
  ASSUME NEW h, HasTotals(h)
  PROVE  Cardinality(Levels(h)) \in Nat
<1>1. Levels(h) \in SUBSET (0 .. Pot(h)) /\ Pot(h) \in Nat
  BY PotType DEF Levels
<1>2. IsFiniteSet(0 .. Pot(h))
  BY <1>1, FS_Interval
<1> QED
  BY <1>1, <1>2, FS_Subset, FS_CardinalityType

\* What a seat wins depends on contributions, folds and the button only.
LEMMA WinningsSame ==
  ASSUME NEW h, NEW g, g.total = h.total, g.folded = h.folded, g.dealer = h.dealer,
         NEW ranks, NEW s
  PROVE  Winnings(g, ranks, s) = Winnings(h, ranks, s)
<1>1. \A level : Payers(g, level) = Payers(h, level)
  BY DEF Payers
<1>2. Levels(g) = Levels(h) /\ Pot(g) = Pot(h)
  BY DEF Levels, Pot
<1>3. \A level : Eligible(g, level) = Eligible(h, level)
  BY <1>1 DEF Eligible
<1>4. \A level : LayerSize(g, level) = LayerSize(h, level)
  BY <1>1 DEF LayerSize
<1>5. \A level : /\ IsPot(g, level) <=> IsPot(h, level)
                 /\ PotAmount(g, level) = PotAmount(h, level)
  BY <1>1, <1>2, <1>3, <1>4 DEF IsPot, PotAmount
<1>6. \A level : PotWinners(g, ranks, level) = PotWinners(h, ranks, level)
  BY <1>3 DEF PotWinners
<1>7. \A amount, winners : Share(g, amount, winners, s) = Share(h, amount, winners, s)
  BY DEF Share
<1>8. Won(g, ranks, s) = Won(h, ranks, s)
  BY <1>2, <1>5, <1>6, <1>7 DEF Won
<1> QED
  BY <1>2, <1>8 DEF Winnings, Won

\* A showdown ends the hand and pays no folded seat (resolveShowdown).
LEMMA ResolveShowdownEnds ==
  ASSUME NEW h \in HandType, NEW st \in [Seats -> Nat], Accounted(h, st),
         NEW ranks \in Ranks
  PROVE  Over(ResolveShowdown(h, ranks), st)
<1> DEFINE g == ResolveShowdown(h, ranks)
<1>1. /\ g.stack = [s \in Seats |-> h.stack[s] + Winnings(h, ranks, s)]
      /\ g.rank = [s \in Seats |-> IF h.folded[s] THEN 0 ELSE ranks[s]]
      /\ g.round = "complete" /\ g.toAct = NoSeat
      /\ g.total = h.total /\ g.folded = h.folded /\ g.dealer = h.dealer
  BY DEF ResolveShowdown, HandType
<1>2. Paying(h)
  BY DEF Paying, HasTotals, HandType
<1>3. h.stack \in [Seats -> Nat] /\ \A s \in Seats : Winnings(h, ranks, s) \in Nat
  BY <1>2, WinningsSum DEF HandType
<1>4. g.stack \in [Seats -> Nat]
  BY <1>1, <1>3
<1>5. g.rank \in [Seats -> Seats \cup {0}]
  <2>1. ranks \in [Seats -> Seats]
    BY DEF Ranks
  <2> QED
    BY <1>1, <2>1
<1>6. g \in HandType
  BY <1>1, <1>4, <1>5 DEF ResolveShowdown, HandType, Rounds
<1> HIDE DEF g
<1>7. \A s \in Seats : Winnings(g, ranks, s) = Winnings(h, ranks, s)
  BY <1>1, WinningsSame
<1>8. \A s \in Seats : /\ g.stack[s] = h.stack[s] + Winnings(h, ranks, s)
                       /\ h.stack[s] + h.total[s] = st[s]
                       /\ h.stack[s] \in Nat /\ h.total[s] \in Nat
  BY <1>1 DEF Accounted, HandType
<1>9. \A s \in Seats : g.stack[s] + g.total[s] = st[s] + Winnings(g, ranks, s)
  BY <1>1, <1>3, <1>7, <1>8
<1>10. \A s \in Seats : g.folded[s] => g.stack[s] + g.total[s] = st[s]
  <2>1. ASSUME NEW s \in Seats, g.folded[s]
        PROVE  g.stack[s] + g.total[s] = st[s]
    <3>1. Winnings(h, ranks, s) = 0
      BY <1>1, <1>2, <2>1, FoldedWinsNothing
    <3> QED
      BY <1>1, <1>8, <3>1
  <2> QED
    BY <2>1
<1>11. ShownDown(g, st)
  BY <1>1, <1>9 DEF ShownDown
<1>12. Over(g, st)
  BY <1>1, <1>6, <1>10, <1>11 DEF Over
<1> QED
  BY <1>12 DEF g

\* Every hand a call may leave behind is a running one or one that is over.
SettledInto(g, st) == \A after \in Settle(g) : HandInv(after, st)

\* A hand that is not at a showdown is what the call leaves behind.
LEMMA SettleRunning ==
  ASSUME NEW g, NEW st, HandInv(g, st)
  PROVE  SettledInto(g, st)
BY DEF SettledInto, Settle, HandInv, InPlay, Live, Over, BettingNow

\* Dealing the rest of the board and going to showdown ends the hand
\* (dealRemainingStreetsAndShowdown).
LEMMA ShowdownSettles ==
  ASSUME NEW h \in HandType, NEW st \in [Seats -> Nat], Accounted(h, st)
  PROVE  SettledInto(GoToShowdown(h), st)
<1> DEFINE g == GoToShowdown(h)
<1>1. g \in HandType /\ g.round = "showdown" /\ g.stack = h.stack /\ g.total = h.total
  <2>1. g = [h EXCEPT !.board = 5, !.round = "showdown"]
    BY DEF GoToShowdown
  <2>2. 5 \in 0 .. 5 /\ "showdown" \in Rounds
    BY DEF Rounds
  <2> HIDE DEF g
  <2> QED
    BY <2>1, <2>2 DEF HandType
<1>2. Accounted(g, st)
  BY <1>1 DEF Accounted
<1>3. Settle(g) = {ResolveShowdown(g, ranks) : ranks \in Ranks}
  BY <1>1 DEF Settle
<1> HIDE DEF g
<1>4. \A ranks \in Ranks : Over(ResolveShowdown(g, ranks), st)
  BY <1>1, <1>2, ResolveShowdownEnds
<1>5. \A after \in Settle(g) : HandInv(after, st)
  BY <1>3, <1>4 DEF HandInv
<1> QED
  BY <1>5 DEF SettledInto, g

\* The one seat left is in the hand.
LEMMA LastSeat ==
  ASSUME NEW h, Cardinality(NonFolded(h)) = 1
  PROVE  LET w == CHOOSE s \in NonFolded(h) : TRUE IN w \in Seats /\ ~h.folded[w]
<1>1. NonFolded(h) # {}
  BY SeatSets, FS_EmptySet
<1> QED
  BY <1>1 DEF NonFolded

-----------------------------------------------------------------------------
(* The calls keep a hand between its two cases *)

\* Clearing the street keeps the hand running with the same contenders, at one
\* price, for they all answered the same bet (resetForNextStreet).
LEMMA ResetKeepsLive ==
  ASSUME NEW h, NEW st, Live(h, st), IsRoundComplete(h)
  PROVE  LET g == ResetForNextStreet(h)
         IN  /\ Live(g, st)
             /\ g.round = h.round /\ g.dealer = h.dealer /\ g.currentBet = 0
             /\ g.acted = [s \in Seats |-> FALSE]
             /\ Contenders(g) = Contenders(h)
<1> DEFINE g == ResetForNextStreet(h)
<1>1. /\ g.stack = h.stack /\ g.total = h.total /\ g.folded = h.folded
      /\ g.allIn = h.allIn /\ g.round = h.round /\ g.board = h.board
      /\ g.dealer = h.dealer /\ g.toAct = h.toAct /\ g.rank = h.rank
      /\ g.currentBet = 0 /\ g.minRaise = BigBlind
      /\ g.street = [s \in Seats |-> 0] /\ g.acted = [s \in Seats |-> FALSE]
  BY DEF ResetForNextStreet, Live, HandType
<1>2. g \in HandType
  BY <1>1 DEF ResetForNextStreet, Live, HandType, BigBlind
<1> HIDE DEF g
<1>3. BetIsLargest(g)
  BY <1>1 DEF BetIsLargest
<1>4. Accounted(g, st)
  BY <1>1 DEF Live, Accounted
<1>5. Contenders(g) = Contenders(h) /\ NonFolded(g) = NonFolded(h)
  BY <1>1 DEF Contenders, NonFolded
<1>6. OnePrice(g)
  <2>1. SUFFICES ASSUME NEW s \in Contenders(h), NEW t \in NonFolded(h)
                 PROVE  g.total[t] - g.street[t] <= g.total[s] - g.street[s]
    BY <1>5 DEF OnePrice
  <2>2. s \in Seats /\ t \in Seats
    BY DEF Contenders, NonFolded
  <2>3. /\ h.total[s] \in Nat /\ h.total[t] \in Nat /\ h.street[s] \in Nat
        /\ h.street[t] \in Nat /\ h.currentBet \in Nat
    BY <2>2 DEF Live, HandType
  <2>4. h.total[t] - h.street[t] <= h.total[s] - h.street[s]
    BY DEF Live, OnePrice
  <2>5. h.street[s] = h.currentBet /\ h.street[t] <= h.currentBet
    BY <2>2 DEF IsRoundComplete, Live, BetIsLargest
  <2>6. g.street[s] = 0 /\ g.street[t] = 0 /\ g.total = h.total
    BY <1>1, <2>2
  <2> QED
    BY <2>3, <2>4, <2>5, <2>6
<1>7. g.minRaise > 0
  BY <1>1 DEF BigBlind
<1>8. Live(g, st)
  BY <1>1, <1>2, <1>3, <1>4, <1>6, <1>7 DEF Live
<1> QED
  BY <1>1, <1>5, <1>8 DEF g

\* With two contenders left the next street has its board and a seat to act
\* (advanceToNextStreet).
LEMMA NextStreetKeeps ==
  ASSUME NEW h, NEW st, Live(h, st), h.round # "river", h.currentBet = 0,
         h.acted = [s \in Seats |-> FALSE], Contenders(h) # {}
  PROVE  InPlay(AdvanceToNextStreet(h), st)
<1> DEFINE g == AdvanceToNextStreet(h)
           next == NextStreet(h.round)
<1>1. h.round \in {"preflop", "flop", "turn"}
  BY DEF Live, BettingNow
<1>2. /\ next \in BettingNow
      /\ h.board + (IF next = "flop" THEN 3 ELSE 1) = BoardAt(next)
      /\ BoardAt(next) \in 0 .. 5
  BY <1>1 DEF Live, NextStreet, BoardAt, BettingNow
<1>3. h.dealer \in Seats /\ h \in HandType
  BY DEF Live, HandType
<1>4. FindActiveSeatAfter(h, h.dealer) \in Contenders(h)
      /\ FindActiveSeatAfter(h, h.dealer) \in Seats
  <2>1. FindActiveSeatAfter(h, h.dealer) \in Contenders(h)
    BY <1>3, FindActiveSeat
  <2> QED
    BY <2>1 DEF Contenders
<1>5. /\ g.board = h.board + (IF next = "flop" THEN 3 ELSE 1)
      /\ g.round = next /\ g.toAct = FindActiveSeatAfter(h, h.dealer)
      /\ g.stack = h.stack /\ g.total = h.total /\ g.street = h.street
      /\ g.currentBet = h.currentBet /\ g.minRaise = h.minRaise
      /\ g.folded = h.folded /\ g.allIn = h.allIn /\ g.acted = h.acted
  BY <1>3 DEF AdvanceToNextStreet, HandType
<1> HIDE DEF next
<1>6. g \in HandType
  BY <1>2, <1>3, <1>4, <1>5 DEF AdvanceToNextStreet, HandType, Rounds, next
<1> HIDE DEF g
<1>7. Contenders(g) = Contenders(h) /\ NonFolded(g) = NonFolded(h)
  BY <1>5 DEF Contenders, NonFolded
<1>8. OnePrice(g)
  BY <1>5, <1>7 DEF Live, OnePrice
<1>9. Live(g, st)
  BY <1>2, <1>5, <1>6, <1>8 DEF Live, Accounted, BetIsLargest
<1>10. ~g.folded[g.toAct] /\ ~g.allIn[g.toAct] /\ g.toAct \in Seats
  BY <1>4, <1>5 DEF Contenders
<1>11. \A t \in Seats : ~Answered(g, t)
  BY <1>5 DEF Answered
<1>12. TurnOwed(g) /\ BlindTurn(g)
  BY <1>10, <1>11 DEF TurnOwed, BlindTurn
<1>13. InTurnOrder(g)
  BY <1>11 DEF InTurnOrder, Contenders
<1>14. InPlay(g, st)
  BY <1>9, <1>10, <1>12, <1>13 DEF InPlay
<1> QED
  BY <1>14 DEF g

\* Whatever advance decides, the hand runs on with a seat to act or is over.
LEMMA AdvanceKeeps ==
  ASSUME NEW h, NEW st \in [Seats -> Nat], Live(h, st), h.toAct \in Seats,
         InTurnOrder(h), h.toAct \in Contenders(h) => Answered(h, h.toAct)
  PROVE  SettledInto(Advance(h), st)
<1> DEFINE fresh == ResetForNextStreet(h)
<1>a. h \in HandType /\ Accounted(h, st)
  BY DEF Live
<1>1. CASE Cardinality(NonFolded(h)) = 1
  <2> DEFINE w == CHOOSE s \in NonFolded(h) : TRUE
  <2>1. Advance(h) = AwardWithoutShowdown(h, w)
    BY <1>1 DEF Advance
  <2>2. w \in Seats /\ ~h.folded[w]
    BY <1>1, LastSeat
  <2> HIDE DEF w
  <2>3. Over(AwardWithoutShowdown(h, w), st)
    BY <1>a, <1>1, <2>2, AwardWithoutShowdownEnds
  <2> QED
    BY <2>1, <2>3, SettleRunning DEF HandInv
<1>2. CASE Cardinality(NonFolded(h)) # 1 /\ ~IsRoundComplete(h)
  <2> DEFINE g == [h EXCEPT !.toAct = FindActiveSeatAfter(h, h.toAct)]
  <2>1. Advance(h) = g
    BY <1>2 DEF Advance
  <2>2. g.toAct \in Contenders(g) /\ TurnOwed(g) /\ InTurnOrder(g)
    BY <1>2, <1>a, TurnPasses
  <2>3. /\ g.stack = h.stack /\ g.total = h.total /\ g.street = h.street
        /\ g.currentBet = h.currentBet /\ g.minRaise = h.minRaise
        /\ g.folded = h.folded /\ g.allIn = h.allIn /\ g.round = h.round
        /\ g.board = h.board
    BY <1>a DEF HandType
  <2>4. g.toAct \in Seats /\ ~g.allIn[g.toAct]
    BY <2>2 DEF Contenders
  <2>5. g \in HandType
    <3>1. FindActiveSeatAfter(h, h.toAct) \in Seats
      BY <1>a, <2>4 DEF HandType
    <3> QED
      BY <1>a, <3>1 DEF HandType
  <2> HIDE DEF g
  <2>6. Contenders(g) = Contenders(h) /\ NonFolded(g) = NonFolded(h)
    BY <2>3 DEF Contenders, NonFolded
  <2>7. OnePrice(g)
    BY <2>3, <2>6 DEF Live, OnePrice
  <2>8. Live(g, st)
    BY <2>3, <2>5, <2>7 DEF Live, Accounted, BetIsLargest
  <2>9. HandInv(g, st)
    BY <2>2, <2>4, <2>8 DEF HandInv, InPlay, BlindTurn
  <2> QED
    BY <2>1, <2>9, SettleRunning
<1>3. CASE /\ Cardinality(NonFolded(h)) # 1 /\ IsRoundComplete(h)
           /\ h.round = "river" \/ BettingIsOver(h)
  <2>1. Advance(h) = GoToShowdown(fresh)
    BY <1>3 DEF Advance
  <2>2. Live(fresh, st)
    BY <1>3, ResetKeepsLive
  <2> HIDE DEF fresh
  <2> QED
    BY <2>1, <2>2, ShowdownSettles DEF Live
<1>4. CASE /\ Cardinality(NonFolded(h)) # 1 /\ IsRoundComplete(h)
           /\ ~(h.round = "river" \/ BettingIsOver(h))
  <2>1. Advance(h) = AdvanceToNextStreet(fresh)
    BY <1>4 DEF Advance
  <2>2. Live(fresh, st) /\ fresh.round # "river" /\ fresh.currentBet = 0
        /\ fresh.acted = [s \in Seats |-> FALSE] /\ Contenders(fresh) = Contenders(h)
    BY <1>4, ResetKeepsLive
  <2>3. Contenders(h) # {}
    BY <1>4, FS_EmptySet DEF BettingIsOver
  <2> HIDE DEF fresh
  <2>4. InPlay(AdvanceToNextStreet(fresh), st)
    BY <2>2, <2>3, NextStreetKeeps
  <2> QED
    BY <2>1, <2>4, SettleRunning DEF HandInv
<1> QED
  BY <1>1, <1>2, <1>3, <1>4

\* A legal action of the seat to act preserves the invariant (submitAction).
LEMMA SubmitActionKeeps ==
  ASSUME NEW h, NEW st \in [Seats -> Nat], InPlay(h, st),
         NEW type, NEW amount \in Nat, IsLegal(h, h.toAct, type, amount)
  PROVE  SettledInto(SubmitAction(h, type, amount), st)
<1> DEFINE g == ApplyAction(h, type, amount)
<1>1. Live(h, st) /\ h.toAct \in Seats /\ InTurnOrder(h)
  BY DEF InPlay
<1>2. ActionTaken(h, g, type, Paid(h, type, amount))
  BY <1>1, ApplyActionTakes
<1> HIDE DEF g
<1>3. g.toAct = h.toAct
  BY <1>2 DEF ActionTaken
<1>4. Live(g, st) /\ InTurnOrder(g)
  BY <1>1, <1>2, ActionKeeps
<1>5. g.toAct \in Contenders(g) => Answered(g, g.toAct)
  BY <1>1, <1>2, <1>3, ActionAnswers
<1>6. SettledInto(Advance(g), st)
  BY <1>1, <1>3, <1>4, <1>5, AdvanceKeeps
<1> QED
  BY <1>6 DEF SubmitAction, g

\* A fold is always legal for the seat to act.
LEMMA FoldIsLegal ==
  ASSUME NEW h, h.toAct \in Seats
  PROVE  IsLegal(h, h.toAct, "fold", 0)
<1>1. h.toAct # NoSeat
  BY SeatsAreNumbers
<1> QED
  BY <1>1 DEF IsLegal, LegalActions, ActionTypes

\* The seat that leaves out of turn, as abandonSeat marks it.
Left(h, s) == [h EXCEPT !.folded[s] = TRUE, !.allIn[s] = FALSE, !.acted[s] = TRUE]

\* Nobody else's turn or answer changes when it leaves.
LEMMA LeftKeeps ==
  ASSUME NEW h, NEW st, InPlay(h, st), NEW s \in Seats, h.toAct # s
  PROVE  /\ InPlay(Left(h, s), st)
         /\ NonFolded(Left(h, s)) = NonFolded(h) \ {s}
         /\ Contenders(Left(h, s)) = Contenders(h) \ {s}
<1> DEFINE g == Left(h, s)
<1>1. Live(h, st) /\ h.toAct \in Seats /\ TurnOwed(h) /\ InTurnOrder(h) /\ BlindTurn(h)
      /\ h \in HandType
  BY DEF InPlay, Live
<1>2. /\ g.stack = h.stack /\ g.total = h.total /\ g.street = h.street
      /\ g.currentBet = h.currentBet /\ g.round = h.round /\ g.minRaise = h.minRaise
      /\ g.board = h.board /\ g.toAct = h.toAct
      /\ g.folded = [h.folded EXCEPT ![s] = TRUE]
      /\ g.allIn = [h.allIn EXCEPT ![s] = FALSE]
      /\ g.acted = [h.acted EXCEPT ![s] = TRUE]
  BY <1>1 DEF Left, HandType
<1>3. /\ h.folded \in [Seats -> BOOLEAN] /\ h.allIn \in [Seats -> BOOLEAN]
      /\ h.acted \in [Seats -> BOOLEAN]
  BY <1>1 DEF HandType
<1>4. g \in HandType
  BY <1>1 DEF Left, HandType
<1> HIDE DEF g
<1>5. g.folded[s] /\ \A t \in Seats \ {s} : /\ g.folded[t] = h.folded[t]
                                            /\ g.allIn[t] = h.allIn[t]
                                            /\ g.acted[t] = h.acted[t]
  BY <1>2, <1>3
<1>6. NonFolded(g) = NonFolded(h) \ {s} /\ Contenders(g) = Contenders(h) \ {s}
  BY <1>5 DEF NonFolded, Contenders
<1>7. OnePrice(g)
  BY <1>1, <1>2, <1>6 DEF Live, OnePrice
<1>8. Live(g, st)
  BY <1>1, <1>2, <1>4, <1>7 DEF Live, Accounted, BetIsLargest
<1>9. \A t \in Seats \ {s} : Answered(g, t) <=> Answered(h, t)
  BY <1>2, <1>5 DEF Answered
<1>10. TurnOwed(g)
  BY <1>1, <1>2, <1>5, <1>9 DEF TurnOwed
<1>11. InTurnOrder(g)
  BY <1>1, <1>2, <1>6, <1>9 DEF InTurnOrder, Contenders
<1>12. BlindTurn(g)
  BY <1>1, <1>2, <1>5, <1>6 DEF BlindTurn
<1>13. InPlay(g, st)
  BY <1>1, <1>2, <1>8, <1>10, <1>11, <1>12 DEF InPlay
<1> QED
  BY <1>6, <1>13 DEF g

\* A seat leaving in turn or out of turn preserves the invariant (abandonSeat).
LEMMA AbandonSeatKeeps ==
  ASSUME NEW h, NEW st \in [Seats -> Nat], HandInv(h, st), NEW s \in Seats,
         ~h.folded[s], h.round # "complete"
  PROVE  SettledInto(AbandonSeat(h, s), st)
<1>1. InPlay(h, st) /\ h.toAct \in Seats
  BY DEF HandInv, Over, InPlay
<1>2. CASE h.toAct = s
  <2>1. AbandonSeat(h, s) = SubmitAction(h, "fold", 0)
    BY <1>2 DEF AbandonSeat
  <2> QED
    BY <1>1, <2>1, FoldIsLegal, SubmitActionKeeps
<1>3. CASE h.toAct # s
  <2> DEFINE left == Left(h, s)
  <2>1. AbandonSeat(h, s) = IF Cardinality(NonFolded(left)) = 1
                              THEN AwardWithoutShowdown(left, CHOOSE t \in NonFolded(left) : TRUE)
                              ELSE left
    BY <1>3 DEF AbandonSeat, Left
  <2>2. InPlay(left, st)
    BY <1>1, <1>3, LeftKeeps
  <2> HIDE DEF left
  <2>3. left \in HandType /\ Accounted(left, st)
    BY <2>2 DEF InPlay, Live
  <2>4. CASE Cardinality(NonFolded(left)) = 1
    <3> DEFINE w == CHOOSE t \in NonFolded(left) : TRUE
    <3>1. w \in Seats /\ ~left.folded[w]
      BY <2>4, LastSeat
    <3>2. AbandonSeat(h, s) = AwardWithoutShowdown(left, w)
      BY <2>1, <2>4
    <3> HIDE DEF w
    <3>3. Over(AwardWithoutShowdown(left, w), st)
      BY <2>3, <2>4, <3>1, AwardWithoutShowdownEnds
    <3> QED
      BY <3>2, <3>3, SettleRunning DEF HandInv
  <2>5. CASE Cardinality(NonFolded(left)) # 1
    <3>1. AbandonSeat(h, s) = left
      BY <2>1, <2>5
    <3> QED
      BY <2>2, <3>1, SettleRunning DEF HandInv
  <2> QED
    BY <2>4, <2>5
<1> QED
  BY <1>2, <1>3

-----------------------------------------------------------------------------
(* The deal *)

\* The hand before the blinds: every chip in its stack, the seats with chips
\* contending (startHand).
LEMMA DealtHand ==
  ASSUME NEW stacks \in [Seats -> Nat], NEW dealer \in Seats
  PROVE  /\ Dealt(stacks, dealer) \in HandType
         /\ Accounted(Dealt(stacks, dealer), stacks)
         /\ Contenders(Dealt(stacks, dealer)) = {s \in Seats : stacks[s] > 0}
<1> DEFINE d == Dealt(stacks, dealer)
<1>1. d \in HandType
  BY SeatsAreNumbers DEF Dealt, HandType, Rounds, BettingNow, BigBlind
<1>2. Accounted(d, stacks)
  BY DEF Dealt, Accounted
<1>3. Contenders(d) = {s \in Seats : stacks[s] > 0}
  <2>1. d.folded = [s \in Seats |-> stacks[s] = 0] /\ d.allIn = [s \in Seats |-> FALSE]
    BY DEF Dealt
  <2> HIDE DEF d
  <2>2. ASSUME NEW s \in Seats
        PROVE  ~d.folded[s] /\ ~d.allIn[s] <=> stacks[s] > 0
    <3>1. stacks[s] \in Nat
      OBVIOUS
    <3>2. d.folded[s] = (stacks[s] = 0) /\ d.allIn[s] = FALSE
      BY <2>1
    <3>3. ~(stacks[s] = 0) <=> stacks[s] > 0
      BY <3>1
    <3> QED
      BY <3>2, <3>3
  <2> QED
    BY <2>2 DEF Contenders
<1> QED
  BY <1>1, <1>2, <1>3

\* Dealing a hand in which two seats have chips establishes the invariant,
\* short blinds included (startHand).
LEMMA StartHandInv ==
  ASSUME NEW stacks \in [Seats -> Nat], NEW dealer \in Seats, stacks[dealer] > 0,
         \E s, t \in Seats : s # t /\ stacks[s] > 0 /\ stacks[t] > 0
  PROVE  /\ InPlay(StartHand(stacks, dealer), stacks)
         /\ StartHand(stacks, dealer).folded = [s \in Seats |-> stacks[s] = 0]
<1> DEFINE d     == Dealt(stacks, dealer)
           sb    == IF N = 2 THEN dealer ELSE FindActiveSeatAfter(d, dealer)
           bb    == FindActiveSeatAfter(d, sb)
           first == IF N = 2 THEN dealer ELSE FindActiveSeatAfter(d, bb)
           small == PostBlind(d, sb, SmallBlind)
           bet   == MinOf(BigBlind, small.stack[bb])
           both  == PostBlind(small, bb, BigBlind)
           g     == StartHand(stacks, dealer)
<1>1. g = [both EXCEPT !.currentBet = bet, !.toAct = first]
  BY DEF StartHand
<1>2. d \in HandType /\ Accounted(d, stacks)
      /\ Contenders(d) = {s \in Seats : stacks[s] > 0}
  BY DealtHand
<1>3. /\ d.stack = stacks /\ d.street = [s \in Seats |-> 0] /\ d.round = "preflop"
      /\ d.board = 0 /\ d.currentBet = 0 /\ d.minRaise = BigBlind
      /\ d.total = [s \in Seats |-> 0] /\ d.folded = [s \in Seats |-> stacks[s] = 0]
      /\ d.allIn = [s \in Seats |-> FALSE] /\ d.acted = [s \in Seats |-> FALSE]
  BY DEF Dealt
<1>4. \A from \in Seats :
        /\ FindActiveSeatAfter(d, from) \in Seats
        /\ stacks[FindActiveSeatAfter(d, from)] > 0
        /\ FindActiveSeatAfter(d, from) # from
        /\ \A t \in Seats : stacks[t] > 0 =>
             Dist(from, FindActiveSeatAfter(d, from)) <= Dist(from, t)
  <2>1. ASSUME NEW from \in Seats
        PROVE  /\ FindActiveSeatAfter(d, from) \in Contenders(d)
               /\ FindActiveSeatAfter(d, from) # from
               /\ \A t \in Contenders(d) :
                    Dist(from, FindActiveSeatAfter(d, from)) <= Dist(from, t)
    <3>1. \E t \in Contenders(d) : t # from
      BY <1>2
    <3> HIDE DEF d
    <3> QED
      BY <3>1, FindActiveSeat
  <2> QED
    BY <1>2, <2>1
<1> HIDE DEF d
<1>5. sb \in Seats /\ stacks[sb] > 0
  BY <1>4
<1>6. bb \in Seats /\ stacks[bb] > 0 /\ bb # sb
  BY <1>4, <1>5
<1>7. first \in Seats /\ stacks[first] > 0 /\ first # bb
  BY <1>4, <1>5, <1>6
<1>b. \A t \in Seats \ {sb, bb} : first = sb => stacks[t] = 0
  <2>1. SUFFICES ASSUME NEW t \in Seats \ {sb, bb}, first = sb, stacks[t] > 0
                 PROVE  FALSE
    OBVIOUS
  <2>2. N # 2
    BY <1>5, <1>6, <2>1 DEF Seats
  <2>3. Dist(sb, bb) <= Dist(sb, t)
    BY <1>4, <1>5, <2>1
  <2>4. Dist(bb, sb) <= Dist(bb, t)
    <3>1. first = FindActiveSeatAfter(d, bb)
      BY <2>2
    <3>2. \A v \in Seats : stacks[v] > 0 =>
            Dist(bb, FindActiveSeatAfter(d, bb)) <= Dist(bb, v)
      BY <1>4, <1>6
    <3> QED
      BY <2>1, <3>1, <3>2
  <2> HIDE DEF sb, bb, first
  <2>5. /\ Dist(bb, t) = Dist(sb, t) - Dist(sb, bb)
        /\ Dist(bb, sb) = N - Dist(sb, bb) /\ Dist(sb, t) < N
    BY <1>5, <1>6, <2>1, <2>3, DistBetween
  <2>6. Dist(sb, t) \in Nat /\ Dist(sb, bb) \in Nat /\ N \in Nat
    BY <1>5, <1>6, <2>1, DistType, NAssumption
  <2> QED
    BY <2>4, <2>5, <2>6
<1> HIDE DEF sb, bb, first
<1>8. ChipsMoved(d, small, sb, 1)
  <2>1. MinOf(SmallBlind, d.stack[sb]) = 1 /\ 1 \in 0 .. d.stack[sb]
    BY <1>3, <1>5 DEF MinOf, SmallBlind
  <2>2. small = Put(d, sb, 1)
    BY <2>1 DEF PostBlind
  <2> QED
    BY <1>2, <1>5, <2>1, <2>2, PutKeeps
<1> HIDE DEF small
<1>9. small.stack[bb] = stacks[bb] /\ small.street[sb] = 1
      /\ \A s \in Seats \ {sb} : small.street[s] = 0
  BY <1>3, <1>5, <1>6, <1>8 DEF ChipsMoved
<1>10. bet \in 1 .. 2 /\ bet \in 0 .. small.stack[bb]
  BY <1>6, <1>9 DEF MinOf, BigBlind
<1>11. ChipsMoved(small, both, bb, bet)
  <2>1. both = Put(small, bb, bet)
    BY DEF PostBlind
  <2>2. small \in HandType
    BY <1>8 DEF ChipsMoved
  <2> HIDE DEF both, bet
  <2> QED
    BY <1>6, <1>10, <2>1, <2>2, PutKeeps
<1> HIDE DEF both, bet
<1>12. both \in HandType /\ both.street[bb] = bet /\ both.street[sb] = 1
       /\ \A s \in Seats \ {sb, bb} : both.street[s] = 0
  <2>1. small.street \in [Seats -> Nat]
    BY <1>8 DEF ChipsMoved, HandType
  <2> QED
    BY <1>5, <1>6, <1>9, <1>10, <1>11, <2>1 DEF ChipsMoved
<1>13. /\ g.currentBet = bet /\ g.toAct = first /\ g.street = both.street
       /\ g.stack = both.stack /\ g.total = both.total
       /\ g.round = "preflop" /\ g.board = 0 /\ g.minRaise = BigBlind
       /\ g.folded = d.folded /\ g.acted = d.acted /\ g.allIn = both.allIn
  BY <1>1, <1>3, <1>8, <1>11, <1>12 DEF ChipsMoved, HandType
<1>14. g \in HandType
  <2>1. bet \in Nat
    BY <1>10
  <2> QED
    BY <1>1, <1>7, <1>12, <2>1 DEF HandType
<1> HIDE DEF g
<1>15. Accounted(g, stacks)
  BY <1>2, <1>8, <1>11, <1>13 DEF ChipsMoved, Accounted
<1>16. BetIsLargest(g)
  BY <1>6, <1>10, <1>12, <1>13 DEF BetIsLargest
<1>17. OnePrice(g)
  <2>1. \A s \in Seats : /\ small.total[s] - small.street[s] = d.total[s] - d.street[s]
                         /\ both.total[s] - both.street[s] = small.total[s] - small.street[s]
    BY <1>8, <1>11 DEF ChipsMoved
  <2>2. \A s \in Seats : g.total[s] - g.street[s] = 0
    BY <1>3, <1>13, <2>1
  <2> QED
    BY <2>2 DEF OnePrice, Contenders, NonFolded
<1>18. g.minRaise > 0
  BY <1>13 DEF BigBlind
<1>19. Live(g, stacks)
  BY <1>13, <1>14, <1>15, <1>16, <1>17, <1>18 DEF Live, BettingNow, BoardAt
<1>20. \A s \in Seats : ~Answered(g, s)
  BY <1>3, <1>13 DEF Answered
<1>21. TurnOwed(g)
  <2>1. stacks[first] # 0
    BY <1>7
  <2>2. ~d.folded[first]
    BY <1>3, <1>7, <2>1
  <2> QED
    BY <1>7, <1>13, <1>20, <2>2 DEF TurnOwed
<1>22. InTurnOrder(g)
  BY <1>20 DEF InTurnOrder, Contenders
<1>23. BlindTurn(g)
  <2>1. SUFFICES ASSUME g.allIn[first], g.street[first] >= bet
                 PROVE  Contenders(g) = {}
    BY <1>13 DEF BlindTurn
  <2>a. \A t \in Seats : ~d.allIn[t]
    BY <1>3
  <2>b. \A t \in Seats \ {sb} : ~small.allIn[t]
    BY <1>8, <2>a DEF ChipsMoved
  <2>c. small.allIn[sb] => small.stack[sb] = 0
    BY <1>5, <1>8, <2>a DEF ChipsMoved
  <2>d. \A t \in Seats \ {bb} : both.allIn[t] = small.allIn[t]
    BY <1>11 DEF ChipsMoved
  <2>e. both.stack[bb] = 0 => both.allIn[bb]
    <3>1. bet > 0
      BY <1>10
    <3> QED
      BY <3>1, <1>11 DEF ChipsMoved
  <2>2. /\ \A t \in Seats \ {sb} : ~small.allIn[t]
        /\ small.allIn[sb] => small.stack[sb] = 0
        /\ \A t \in Seats \ {bb} : both.allIn[t] = small.allIn[t]
        /\ both.stack[bb] = 0 => both.allIn[bb]
    BY <2>b, <2>c, <2>d, <2>e
  <2>3. first = sb /\ small.stack[sb] = 0
    BY <1>7, <1>13, <2>1, <2>2
  <2>4. bet = 1
    BY <1>10, <1>12, <1>13, <2>1, <2>3
  <2>5. both.stack[bb] = 0
    <3>1. both.stack[bb] = small.stack[bb] - bet
      <4>1. small.stack \in [Seats -> Nat]
        BY <1>8 DEF ChipsMoved, HandType
      <4> QED
        BY <1>6, <1>11, <4>1 DEF ChipsMoved
    <3>2. small.stack[bb] \in Nat
      BY <1>6, <1>9
    <3>3. small.stack[bb] = 1
      BY <2>4, <3>2 DEF bet, MinOf, BigBlind
    <3> QED
      BY <2>4, <3>1, <3>3
  <2>6. both.allIn[sb] /\ both.allIn[bb]
    BY <1>13, <2>1, <2>2, <2>3, <2>5
  <2>7. \A t \in Seats \ {sb, bb} : d.folded[t]
    BY <1>3, <1>b, <2>3
  <2> QED
    BY <1>13, <2>6, <2>7 DEF Contenders
<1>24. InPlay(g, stacks)
  BY <1>7, <1>13, <1>19, <1>21, <1>22, <1>23 DEF InPlay
<1>25. g.folded = [s \in Seats |-> stacks[s] = 0]
  BY <1>3, <1>13
<1> QED
  BY <1>24, <1>25 DEF g

-----------------------------------------------------------------------------
(* What an ended hand paid, and what a call leaves alone *)

\* A hand that is over paid no more than was put in, and all of it when the
\* largest contribution is a live one.
LEMMA OverPays ==
  ASSUME NEW h, NEW st \in [Seats -> Nat], Over(h, st)
  PROVE  /\ SumTo(h.stack, N) <= SumTo(st, N)
         /\ (\E s \in NonFolded(h) : \A t \in Seats : h.total[t] <= h.total[s])
              => SumTo(h.stack, N) = SumTo(st, N)
<1> DEFINE contested == \E s \in NonFolded(h) : \A t \in Seats : h.total[t] <= h.total[s]
<1>1. h \in HandType
  BY DEF Over
<1>3. \A s \in 1 .. N : h.stack[s] \in Nat /\ h.total[s] \in Nat /\ st[s] \in Nat
  BY <1>1, SeatNumbers DEF HandType
<1>4. SumTo(h.stack, N) \in Nat /\ SumTo(st, N) \in Nat
      /\ SumTo(h.total, N) \in Nat
  BY <1>3, SeatNumbers, SumToType
<1>5. CASE Awarded(h, st)
  BY <1>4, <1>5 DEF Awarded
<1>6. CASE ShownDown(h, st)
  <2>1. PICK ranks \in Ranks : \A s \in Seats :
           h.stack[s] + h.total[s] = st[s] + Winnings(h, ranks, s)
    BY <1>6 DEF ShownDown
  <2> DEFINE wins == [s \in 1 .. N |-> Winnings(h, ranks, s)]
             all  == [s \in 1 .. N |-> h.stack[s] + h.total[s]]
  <2>2. Paying(h) /\ ranks \in [Seats -> Seats]
    BY <1>1 DEF Paying, HasTotals, HandType, Ranks
  <2>3. \A s \in 1 .. N : Winnings(h, ranks, s) \in Nat
    BY <2>2, SeatNumbers, WinningsSum
  <2>4. \A s \in 1 .. N : /\ wins[s] = Winnings(h, ranks, s)
                          /\ all[s] = h.stack[s] + h.total[s]
    OBVIOUS
  <2>5. /\ SumTo(wins, N) <= Pot(h)
        /\ contested => SumTo(wins, N) = Pot(h)
    <3> HIDE DEF wins
    <3> QED
      BY <2>2, <2>4, WinningsTotal
  <2> HIDE DEF wins, all
  <2>6. \A s \in 1 .. N : all[s] = st[s] + wins[s] /\ wins[s] \in Nat
    BY <2>1, <2>3, <2>4, SeatNumbers
  <2>7. SumTo(all, N) = SumTo(h.stack, N) + SumTo(h.total, N)
    BY <1>3, <2>4, SeatNumbers, SumToPlus
  <2>8. SumTo(all, N) = SumTo(st, N) + SumTo(wins, N)
    BY <1>3, <2>6, SeatNumbers, SumToPlus
  <2>9. SumTo(wins, N) \in Nat
    BY <2>6, SeatNumbers, SumToType
  <2> QED
    BY <1>4, <2>5, <2>7, <2>8, <2>9 DEF Pot
<1> QED
  BY <1>5, <1>6 DEF Over

\* What advance leaves alone, whatever it decides.
LEMMA AdvanceLeaves ==
  ASSUME NEW h \in HandType, h.round \in BettingNow, NEW g \in Settle(Advance(h))
  PROVE  /\ g.folded = h.folded /\ g.total = h.total
         /\ g.round # "complete" => Cardinality(NonFolded(g)) # 1
<1> DEFINE fresh == ResetForNextStreet(h)
<1>2. CASE Cardinality(NonFolded(h)) = 1
  <2> DEFINE w == CHOOSE s \in NonFolded(h) : TRUE
  <2>1. Advance(h) = AwardWithoutShowdown(h, w)
    BY <1>2 DEF Advance
  <2> HIDE DEF w
  <2> DEFINE b == AwardWithoutShowdown(h, w)
  <2>2. b.folded = h.folded /\ b.total = h.total /\ b.round = "complete"
    BY DEF AwardWithoutShowdown, HandType
  <2> HIDE DEF b
  <2>3. g = b
    BY <2>1, <2>2 DEF Settle, b
  <2> QED
    BY <2>2, <2>3
<1>3. CASE Cardinality(NonFolded(h)) # 1 /\ ~IsRoundComplete(h)
  <2> DEFINE b == [h EXCEPT !.toAct = FindActiveSeatAfter(h, h.toAct)]
  <2>1. Advance(h) = b
    BY <1>3 DEF Advance
  <2>2. b.folded = h.folded /\ b.total = h.total /\ b.round = h.round
    BY DEF HandType
  <2> HIDE DEF b
  <2>3. g = b
    BY <2>1, <2>2 DEF Settle, BettingNow
  <2>4. NonFolded(g) = NonFolded(h)
    BY <2>2, <2>3 DEF NonFolded
  <2> QED
    BY <1>3, <2>2, <2>3, <2>4
<1>4. CASE /\ Cardinality(NonFolded(h)) # 1 /\ IsRoundComplete(h)
           /\ h.round = "river" \/ BettingIsOver(h)
  <2> DEFINE b == GoToShowdown(fresh)
  <2>1. Advance(h) = b
    BY <1>4 DEF Advance
  <2>2. b.folded = h.folded /\ b.total = h.total /\ b.round = "showdown"
    BY DEF GoToShowdown, ResetForNextStreet, HandType
  <2>3. PICK ranks : g = ResolveShowdown(b, ranks)
    <3> HIDE DEF b
    <3> QED
      BY <2>1, <2>2 DEF Settle
  <2>4. g.folded = b.folded /\ g.total = b.total /\ g.round = "complete"
    BY <2>3 DEF ResolveShowdown, GoToShowdown, ResetForNextStreet, HandType
  <2> QED
    BY <2>2, <2>4
<1>5. CASE /\ Cardinality(NonFolded(h)) # 1 /\ IsRoundComplete(h)
           /\ ~(h.round = "river" \/ BettingIsOver(h))
  <2> DEFINE b == AdvanceToNextStreet(fresh)
  <2>1. Advance(h) = b
    BY <1>5 DEF Advance
  <2>2. b.folded = h.folded /\ b.total = h.total /\ b.round = NextStreet(h.round)
    BY DEF AdvanceToNextStreet, ResetForNextStreet, HandType
  <2> HIDE DEF b
  <2>3. h.round \in {"preflop", "flop", "turn"}
    BY <1>5 DEF BettingNow
  <2>4. NextStreet(h.round) \in {"flop", "turn", "river"}
    BY <2>3 DEF NextStreet
  <2>5. g = b
    BY <2>1, <2>2, <2>4 DEF Settle
  <2>6. NonFolded(g) = NonFolded(h)
    BY <2>2, <2>5 DEF NonFolded
  <2> QED
    BY <1>5, <2>2, <2>5, <2>6
<1> QED
  BY <1>2, <1>3, <1>4, <1>5

\* What a call by seat s leaves alone: who folded, but for s, and what the
\* others put in; and a hand goes on for more than one seat only.
OnlyTouches(h, g, s, folds) ==
  /\ g.folded = [h.folded EXCEPT ![s] = @ \/ folds]
  /\ \A t \in Seats : t # s \/ folds => g.total[t] = h.total[t]
  /\ g.round # "complete" => Cardinality(NonFolded(g)) # 1

\* submitAction is such a call.
LEMMA SubmitTouches ==
  ASSUME NEW h, NEW st, InPlay(h, st),
         NEW type, NEW amount \in Nat, IsLegal(h, h.toAct, type, amount),
         NEW g \in Settle(SubmitAction(h, type, amount))
  PROVE  OnlyTouches(h, g, h.toAct, type = "fold")
<1> DEFINE a == ApplyAction(h, type, amount)
           s == h.toAct
           paid == Paid(h, type, amount)
<1>1. ActionTaken(h, a, type, paid)
  BY ApplyActionTakes DEF InPlay
<1>2. SubmitAction(h, type, amount) = Advance(a)
  BY DEF SubmitAction
<1> HIDE DEF a
<1>3. a \in HandType /\ a.round \in BettingNow /\ h \in HandType /\ s \in Seats
  BY <1>1 DEF ActionTaken, InPlay, Live
<1>4. /\ g.folded = a.folded /\ g.total = a.total
      /\ g.round # "complete" => Cardinality(NonFolded(g)) # 1
  BY <1>2, <1>3, AdvanceLeaves
<1>5. a.folded = [h.folded EXCEPT ![s] = @ \/ type = "fold"]
  BY <1>1 DEF ActionTaken
<1>6. ASSUME NEW t \in Seats, t # s \/ type = "fold"
      PROVE  a.total[t] = h.total[t]
  <2>1. /\ h.stack \in [Seats -> Nat] /\ h.total \in [Seats -> Nat]
        /\ a.total \in [Seats -> Nat] /\ a.stack \in [Seats -> Nat]
    BY <1>3 DEF HandType
  <2>2. a.stack[t] + a.total[t] = h.stack[t] + h.total[t]
        /\ a.stack = [h.stack EXCEPT ![s] = @ - paid]
    BY <1>1 DEF ActionTaken
  <2>3. type = "fold" => paid = 0
    BY DEF Paid
  <2>4. a.stack[t] = h.stack[t]
    <3> HIDE DEF paid
    <3>1. CASE t # s
      BY <2>1, <2>2, <3>1
    <3>2. CASE t = s
      <4>1. a.stack[t] = h.stack[t] - 0
        BY <1>6, <2>1, <2>2, <2>3, <3>2
      <4> QED
        BY <2>1, <4>1
    <3> QED
      BY <3>1, <3>2
  <2> QED
    BY <2>1, <2>2, <2>4
<1> QED
  BY <1>4, <1>5, <1>6 DEF OnlyTouches

\* So is abandonSeat, which folds.
LEMMA AbandonTouches ==
  ASSUME NEW h, NEW st, InPlay(h, st), Cardinality(NonFolded(h)) # 1,
         NEW s \in Seats, NEW g \in Settle(AbandonSeat(h, s))
  PROVE  OnlyTouches(h, g, s, TRUE)
<1>1. /\ h.round \in BettingNow /\ h.toAct \in Seats /\ h \in HandType
      /\ h.folded \in [Seats -> BOOLEAN]
  BY DEF InPlay, Live, HandType
<1>2. CASE h.folded[s]
  <2>1. AbandonSeat(h, s) = h
    BY <1>2 DEF AbandonSeat
  <2>2. g = h
    BY <1>1, <2>1 DEF Settle, BettingNow
  <2>3. h.folded = [h.folded EXCEPT ![s] = @ \/ TRUE]
    BY <1>1, <1>2
  <2> QED
    BY <2>2, <2>3 DEF OnlyTouches
<1>3. CASE ~h.folded[s] /\ h.toAct = s
  <2>1. AbandonSeat(h, s) = SubmitAction(h, "fold", 0)
    BY <1>1, <1>3 DEF AbandonSeat, BettingNow
  <2>2. IsLegal(h, h.toAct, "fold", 0)
    BY <1>1, FoldIsLegal
  <2>3. OnlyTouches(h, g, h.toAct, "fold" = "fold")
    BY <2>1, <2>2, SubmitTouches
  <2> QED
    BY <1>3, <2>3 DEF OnlyTouches
<1>4. CASE ~h.folded[s] /\ h.toAct # s
  <2> DEFINE left == Left(h, s)
  <2>1. AbandonSeat(h, s) = IF Cardinality(NonFolded(left)) = 1
                              THEN AwardWithoutShowdown(left, CHOOSE t \in NonFolded(left) : TRUE)
                              ELSE left
    BY <1>1, <1>4 DEF AbandonSeat, Left, BettingNow
  <2>2. /\ left.folded = [h.folded EXCEPT ![s] = TRUE] /\ left.total = h.total
        /\ left.round = h.round /\ left \in HandType
    BY <1>1 DEF Left, HandType
  <2> HIDE DEF left
  <2>3. CASE Cardinality(NonFolded(left)) = 1
    <3> DEFINE w == CHOOSE t \in NonFolded(left) : TRUE
               b == AwardWithoutShowdown(left, w)
    <3>1. AbandonSeat(h, s) = b
      BY <2>1, <2>3
    <3> HIDE DEF w
    <3>2. b.round = "complete" /\ b.folded = left.folded /\ b.total = left.total
      BY <2>2 DEF AwardWithoutShowdown, HandType
    <3> HIDE DEF b
    <3>3. g = b
      BY <3>1, <3>2 DEF Settle
    <3> QED
      BY <1>1, <2>2, <3>2, <3>3 DEF OnlyTouches
  <2>4. CASE Cardinality(NonFolded(left)) # 1
    <3>1. AbandonSeat(h, s) = left
      BY <2>1, <2>4
    <3>2. g = left
      BY <1>1, <2>2, <3>1 DEF Settle, BettingNow
    <3> QED
      BY <1>1, <2>2, <2>4, <3>2 DEF OnlyTouches
  <2> QED
    BY <2>3, <2>4
<1> QED
  BY <1>2, <1>3, <1>4

\* A hand that goes on after such a call has two seats in it if it had before.
LEMMA TwoPlayOn ==
  ASSUME NEW h, NEW g, NEW s \in Seats, NEW folds, OnlyTouches(h, g, s, folds),
         h.folded \in [Seats -> BOOLEAN],
         Cardinality(NonFolded(h)) > 1, g.round # "complete"
  PROVE  Cardinality(NonFolded(g)) > 1
<1>1. NonFolded(g) \in {NonFolded(h), NonFolded(h) \ {s}}
  <2>1. \A t \in Seats \ {s} : g.folded[t] = h.folded[t]
    BY DEF OnlyTouches
  <2>2. h.folded[s] => g.folded[s]
    BY DEF OnlyTouches
  <2> QED
    BY <2>1, <2>2 DEF NonFolded
<1>2. Cardinality(NonFolded(g)) >= Cardinality(NonFolded(h)) - 1
  <2>1. IsFiniteSet(NonFolded(h)) /\ Cardinality(NonFolded(h)) \in Nat
    BY SeatSets
  <2>2. Cardinality(NonFolded(h) \ {s}) \in {Cardinality(NonFolded(h)),
                                             Cardinality(NonFolded(h)) - 1}
    BY <2>1, FS_RemoveElement
  <2> QED
    BY <1>1, <2>1, <2>2
<1>3. Cardinality(NonFolded(g)) # 1
  BY DEF OnlyTouches
<1> QED
  BY <1>2, <1>3, SeatSets

\* A folded seat keeps what is behind it, through every call of others and its
\* own departure.
LEMMA FoldedKeepsStack ==
  ASSUME NEW h, NEW g, NEW st \in [Seats -> Nat], InPlay(h, st), HandInv(g, st),
         NEW s \in Seats, NEW folds, OnlyTouches(h, g, s, folds),
         NEW t \in Seats, h.folded[t], t # s \/ folds
  PROVE  g.folded[t] /\ g.stack[t] = h.stack[t]
<1>1. /\ h.folded \in [Seats -> BOOLEAN] /\ h.stack[t] \in Nat /\ h.total[t] \in Nat
      /\ h.stack[t] + h.total[t] = st[t]
  BY DEF InPlay, Live, Accounted, HandType
<1>2. g.folded[t]
  BY <1>1 DEF OnlyTouches
<1>3. g.total[t] = h.total[t]
  BY DEF OnlyTouches
<1>4. g.stack[t] \in Nat /\ g.stack[t] + g.total[t] = st[t]
  BY <1>2 DEF HandInv, InPlay, Live, Over, Accounted, HandType
<1> QED
  BY <1>1, <1>2, <1>3, <1>4

\* Two different elements make a set of more than one.
LEMMA TwoElements ==
  ASSUME NEW S, IsFiniteSet(S), NEW a \in S, NEW b \in S, a # b
  PROVE  Cardinality(S) > 1
<1>1. Cardinality(S) \in Nat /\ Cardinality({a, b}) = 2
  <2>1. IsFiniteSet({a}) /\ Cardinality({a}) = 1 /\ b \notin {a}
    BY FS_Singleton
  <2>2. Cardinality({a} \cup {b}) = 2 /\ {a} \cup {b} = {a, b}
    BY <2>1, FS_AddElement
  <2> QED
    BY <2>2, FS_CardinalityType
<1>2. Cardinality({a, b}) <= Cardinality(S)
  <2>1. {a, b} \in SUBSET S
    OBVIOUS
  <2> QED
    BY <2>1, FS_Subset
<1> QED
  BY <1>1, <1>2

\* A set of more than one has two different elements.
LEMMA NotAlone ==
  ASSUME NEW S, IsFiniteSet(S), Cardinality(S) > 1
  PROVE  \E a, b \in S : a # b
<1>1. SUFFICES ASSUME \A a, b \in S : a = b PROVE FALSE
  OBVIOUS
<1>2. CASE S = {}
  BY <1>2, FS_EmptySet
<1>3. CASE S # {}
  <2>1. PICK a : S = {a}
    BY <1>1, <1>3
  <2>2. Cardinality({a}) = 1
    BY FS_Singleton
  <2> QED
    BY <2>1, <2>2
<1> QED
  BY <1>2, <1>3

\* Two seats with chips are dealt in.
LEMMA TwoAreDealtIn ==
  ASSUME NEW stacks \in [Seats -> Nat], NEW h,
         h.folded = [s \in Seats |-> stacks[s] = 0],
         \E s, t \in Seats : s # t /\ stacks[s] > 0 /\ stacks[t] > 0
  PROVE  Cardinality(NonFolded(h)) > 1
<1>1. PICK s \in Seats, t \in Seats : s # t /\ stacks[s] > 0 /\ stacks[t] > 0
  OBVIOUS
<1>2. stacks[s] # 0 /\ stacks[t] # 0
  BY <1>1
<1>3. s \in NonFolded(h) /\ t \in NonFolded(h)
  BY <1>2 DEF NonFolded
<1> QED
  BY <1>1, <1>3, SeatSets, TwoElements
=============================================================================
