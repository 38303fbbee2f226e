-------------------------- MODULE TrainerHandsProofs --------------------------
(***************************************************************************)
(* The loops of the trainer end, play by the rules and leave the hand to   *)
(* one seat: for any number of seats and any amounts the user may ask for. *)
(*                                                                         *)
(* Nobody folds after the flop, so the hands the trainer meets are few,    *)
(* and they are given here in closed form: a street that k seats have      *)
(* answered is Mid(p, k).  A loop of the code is then a sequence of known  *)
(* hands, each of which leads to the next.                                 *)
(***************************************************************************)
EXTENDS TrainerHands, PokerEngineProofs

exVars == <<exercise, hero>>

ExerciseSpec == ExerciseInit /\ [][ExerciseNext]_exVars

-----------------------------------------------------------------------------
(* Going around the table *)

\* The seat that is d seats clockwise of another.
SeatAt(from, d) == IF from + d <= N THEN from + d ELSE from + d - N

\* A seat is known by its distance from another.
LEMMA SeatAtIs ==
  ASSUME NEW from \in Seats, NEW d \in 1 .. N
  PROVE  SeatAt(from, d) \in Seats /\ Dist(from, SeatAt(from, d)) = d
<1>1. from \in 0 .. N /\ from \in 1 .. N /\ N \in Nat
  BY NAssumption DEF Seats
<1>2. SeatAt(from, d) \in 1 .. N
  BY <1>1 DEF SeatAt
<1>3. Dist(from, SeatAt(from, d))
        = IF SeatAt(from, d) > from THEN SeatAt(from, d) - from ELSE SeatAt(from, d) - from + N
  BY <1>1, <1>2, DistValue
<1> QED
  BY <1>1, <1>2, <1>3 DEF SeatAt, Seats

\* Distances are numbers of seats, and no two seats have the same.
LEMMA DistIs ==
  ASSUME NEW from \in Seats, NEW s \in Seats
  PROVE  Dist(from, s) \in 1 .. N /\ SeatAt(from, Dist(from, s)) = s
<1>1. from \in 0 .. N /\ from \in 1 .. N /\ s \in 1 .. N /\ N \in Nat
  BY NAssumption DEF Seats
<1>2. Dist(from, s) = IF s > from THEN s - from ELSE s - from + N
  BY <1>1, DistValue
<1> QED
  BY <1>1, <1>2 DEF SeatAt

\* The seats after a seat, one by one.
LEMMA SeatAfter ==
  ASSUME NEW from \in Seats, NEW d \in 1 .. N - 1
  PROVE  SeatAt(SeatAt(from, d), 1) = SeatAt(from, d + 1)
  BY NAssumption DEF SeatAt, Seats

\* A seat that can act is the next to act after the one before it.
LEMMA NeighbourActs ==
  ASSUME NEW h, NEW c \in Seats, SeatAt(c, 1) \in Contenders(h)
  PROVE  FindActiveSeatAfter(h, c) = SeatAt(c, 1)
<1> DEFINE f == FindActiveSeatAfter(h, c)
<1>1. f \in Contenders(h) /\ Dist(c, f) <= Dist(c, SeatAt(c, 1))
  BY FindActiveSeat
<1>2. 1 \in 1 .. N
  BY NAssumption
<1>3. Dist(c, SeatAt(c, 1)) = 1
  BY <1>2, SeatAtIs
<1>4. f \in Seats
  BY <1>1 DEF Contenders
<1> HIDE DEF f
<1>5. Dist(c, f) = 1
  <2>1. Dist(c, f) \in 1 .. N
    BY <1>4, DistIs
  <2> QED
    BY <1>1, <1>3, <2>1, NAssumption
<1> QED
  BY <1>4, <1>5, DistIs DEF f

-----------------------------------------------------------------------------
(* A street everybody calls *)

\* What a street p is played with: the chips of each seat when it began, the bet
\* of the street, the minimum raise, and the seat that answers last, behind which
\* the others follow in turn; blinds were put in before.
IsStreet(p) ==
  /\ p.round \in {"preflop", "flop", "turn", "river"}
  /\ p.chips \in 1 .. 100 * BigBlind
  /\ p.bet \in 0 .. p.chips /\ p.minRaise \in Nat /\ p.last \in Seats
  /\ p.blind \in [Seats -> Nat]
  /\ \A s \in Seats : p.blind[s] <= p.bet /\ p.blind[s] < p.chips

PutIn(p, k, s) == IF Dist(p.last, s) <= k THEN p.bet ELSE p.blind[s]

\* The hand when k seats have answered and c is to act.
MidAt(p, k, c) ==
  [stack    |-> [s \in Seats |-> p.chips - PutIn(p, k, s)],
   folded   |-> [s \in Seats |-> FALSE],
   allIn    |-> [s \in Seats |-> Dist(p.last, s) <= k /\ p.bet = p.chips],
   street   |-> [s \in Seats |-> PutIn(p, k, s)],
   total    |-> [s \in Seats |-> 100 * BigBlind - p.chips + PutIn(p, k, s)],
   acted    |-> [s \in Seats |-> Dist(p.last, s) <= k],
   dealer   |-> 1,
   round    |-> p.round,
   board    |-> BoardAt(p.round),
   currentBet |-> p.bet,
   minRaise |-> p.minRaise,
   toAct    |-> c,
   rank     |-> [s \in Seats |-> 0]]

\* It is the next one in turn.
Mid(p, k) == MidAt(p, k, SeatAt(p.last, k + 1))

\* The beginning of a street after the flop.
Opened(round, chips) ==
  [round |-> round, chips |-> chips, bet |-> 0, minRaise |-> BigBlind, last |-> 1,
   blind |-> [s \in Seats |-> 0]]

Fresh(round, chips) == Mid(Opened(round, chips), 0)

\* Hands are equal when their fields are.
LEMMA SameHand ==
  ASSUME NEW h \in HandType, NEW g \in HandType,
         h.stack = g.stack, h.folded = g.folded, h.allIn = g.allIn, h.street = g.street,
         h.total = g.total, h.acted = g.acted, h.dealer = g.dealer, h.round = g.round,
         h.board = g.board, h.currentBet = g.currentBet, h.minRaise = g.minRaise,
         h.toAct = g.toAct, h.rank = g.rank
  PROVE  h = g
  BY DEF HandType

\* So are the functions of seats in them.
LEMMA SameFunctions ==
  ASSUME NEW h \in HandType, NEW g \in HandType,
         \A s \in Seats :
           /\ h.stack[s] = g.stack[s] /\ h.street[s] = g.street[s] /\ h.total[s] = g.total[s]
           /\ h.folded[s] <=> g.folded[s]
           /\ h.allIn[s] <=> g.allIn[s]
           /\ h.acted[s] <=> g.acted[s]
  PROVE  /\ h.stack = g.stack /\ h.street = g.street /\ h.total = g.total
         /\ h.folded = g.folded /\ h.allIn = g.allIn /\ h.acted = g.acted
<1>1. /\ h.stack \in [Seats -> Nat] /\ h.street \in [Seats -> Nat] /\ h.total \in [Seats -> Nat]
      /\ h.folded \in [Seats -> BOOLEAN] /\ h.allIn \in [Seats -> BOOLEAN]
      /\ h.acted \in [Seats -> BOOLEAN]
      /\ g.stack \in [Seats -> Nat] /\ g.street \in [Seats -> Nat] /\ g.total \in [Seats -> Nat]
      /\ g.folded \in [Seats -> BOOLEAN] /\ g.allIn \in [Seats -> BOOLEAN]
      /\ g.acted \in [Seats -> BOOLEAN]
  BY DEF HandType
<1>2. h.stack = g.stack /\ h.street = g.street /\ h.total = g.total
  BY <1>1
<1>3. h.folded = g.folded /\ h.allIn = g.allIn /\ h.acted = g.acted
  BY <1>1
<1> QED
  BY <1>2, <1>3

\* What a seat has put in is no more than it had.
LEMMA PutInType ==
  ASSUME NEW p, IsStreet(p), NEW k, NEW s \in Seats
  PROVE  /\ PutIn(p, k, s) \in Nat /\ p.bet \in Nat /\ p.chips \in Nat /\ p.chips > 0
         /\ PutIn(p, k, s) <= p.bet /\ p.bet <= p.chips /\ p.chips <= 200
         /\ p.blind[s] \in Nat /\ p.blind[s] <= p.bet /\ p.blind[s] < p.chips
  BY DEF IsStreet, PutIn, BigBlind

\* A street in the middle, seat by seat.
LEMMA MidFields ==
  ASSUME NEW p, NEW k, NEW c, NEW s \in Seats
  PROVE  LET m == MidAt(p, k, c)
         IN  /\ m.stack[s]  = p.chips - PutIn(p, k, s)
             /\ m.street[s] = PutIn(p, k, s)
             /\ m.total[s]  = 200 - p.chips + PutIn(p, k, s)
             /\ ~m.folded[s]
             /\ m.allIn[s] <=> Dist(p.last, s) <= k /\ p.bet = p.chips
             /\ m.acted[s] <=> Dist(p.last, s) <= k
<1> DEFINE m == MidAt(p, k, c)
<1>1. m.stack[s] = p.chips - PutIn(p, k, s) /\ m.street[s] = PutIn(p, k, s)
  BY DEF MidAt
<1>2. m.total[s] = 200 - p.chips + PutIn(p, k, s)
  <2>1. 100 * BigBlind = 200
    BY DEF BigBlind
  <2>2. m.total = [t \in Seats |-> 100 * BigBlind - p.chips + PutIn(p, k, t)]
    BY DEF MidAt
  <2> QED
    BY <2>1, <2>2
<1>3. m.allIn[s] <=> Dist(p.last, s) <= k /\ p.bet = p.chips
  BY DEF MidAt
<1>4. m.acted[s] <=> Dist(p.last, s) <= k
  BY DEF MidAt
<1>5. ~m.folded[s]
  BY DEF MidAt
<1> QED
  BY <1>1, <1>2, <1>3, <1>4, <1>5

\* A street in the middle is a hand.
LEMMA MidType ==
  ASSUME NEW p, IsStreet(p), NEW k \in 0 .. N, NEW c \in Seats
  PROVE  MidAt(p, k, c) \in HandType
<1> DEFINE h == MidAt(p, k, c)
<1>1. /\ h.stack \in [Seats -> Nat] /\ h.street \in [Seats -> Nat] /\ h.total \in [Seats -> Nat]
      /\ h.allIn \in [Seats -> BOOLEAN] /\ h.acted \in [Seats -> BOOLEAN]
      /\ h.folded \in [Seats -> BOOLEAN] /\ h.rank \in [Seats -> Seats \cup {0}]
  BY PutInType DEF MidAt, BigBlind
<1>2. /\ h.round \in Rounds /\ h.board \in 0 .. 5 /\ h.currentBet \in Nat /\ h.minRaise \in Nat
  BY DEF MidAt, IsStreet, Rounds, BettingNow, BoardAt
<1>3. h.dealer \in Seats /\ h.toAct \in Seats
  BY NAssumption DEF Seats, MidAt
<1> QED
  BY <1>1, <1>2, <1>3 DEF MidAt, HandType

-----------------------------------------------------------------------------
(* An action, field by field *)

\* What an action that pays an amount changes (applyAction).
Raises(h, paid) == h.street[h.toAct] + paid > h.currentBet

ActsOn(h, g, type, paid) ==
  /\ g \in HandType
  /\ \A t \in Seats :
       /\ g.stack[t]  = IF t = h.toAct THEN h.stack[t] - paid ELSE h.stack[t]
       /\ g.street[t] = IF t = h.toAct THEN h.street[t] + paid ELSE h.street[t]
       /\ g.total[t]  = IF t = h.toAct THEN h.total[t] + paid ELSE h.total[t]
       /\ g.allIn[t]  <=> h.allIn[t] \/ (t = h.toAct /\ paid # 0 /\ h.stack[t] = paid)
       /\ g.folded[t] <=> h.folded[t] \/ (t = h.toAct /\ type = "fold")
       /\ g.acted[t]  <=> t = h.toAct \/ (h.acted[t] /\ (Raises(h, paid) => h.folded[t] \/ h.allIn[t]))
  /\ g.currentBet = IF Raises(h, paid) THEN h.street[h.toAct] + paid ELSE h.currentBet
  /\ g.minRaise = IF Raises(h, paid) THEN h.street[h.toAct] + paid - h.currentBet ELSE h.minRaise
  /\ g.dealer = h.dealer /\ g.round = h.round /\ g.board = h.board
  /\ g.toAct = h.toAct /\ g.rank = h.rank

LEMMA ActionActsOn ==
  ASSUME NEW h \in HandType, h.toAct \in Seats, NEW type, NEW amount,
         Paid(h, type, amount) \in 0 .. h.stack[h.toAct]
  PROVE  ActsOn(h, ApplyAction(h, type, amount), type, Paid(h, type, amount))
<1> DEFINE s      == h.toAct
           paid   == Paid(h, type, amount)
           raised == h.street[s] + paid > h.currentBet
           after  == IF paid = 0 THEN h ELSE Put(h, s, paid)
           g      == ApplyAction(h, type, amount)
<1>1. /\ h.stack \in [Seats -> Nat] /\ h.street \in [Seats -> Nat] /\ h.total \in [Seats -> Nat]
      /\ h.allIn \in [Seats -> BOOLEAN] /\ h.folded \in [Seats -> BOOLEAN]
      /\ h.acted \in [Seats -> BOOLEAN] /\ h.currentBet \in Nat /\ h.minRaise \in Nat
  BY DEF HandType
<1>2. paid \in Nat /\ paid <= h.stack[s] /\ s \in Seats /\ h.stack[s] \in Nat
  BY <1>1
<1> HIDE DEF paid
<1>3. /\ after \in HandType
      /\ after.stack  = [h.stack EXCEPT ![s] = @ - paid]
      /\ after.street = [h.street EXCEPT ![s] = @ + paid]
      /\ after.total  = [h.total EXCEPT ![s] = @ + paid]
      /\ after.allIn  = [h.allIn EXCEPT ![s] = @ \/ (paid # 0 /\ h.stack[s] = paid)]
      /\ after.folded = h.folded /\ after.acted = h.acted
      /\ after.currentBet = h.currentBet /\ after.minRaise = h.minRaise
      /\ after.dealer = h.dealer /\ after.round = h.round /\ after.board = h.board
      /\ after.toAct = h.toAct /\ after.rank = h.rank
  <2>1. CASE paid = 0
    <3>1. /\ h.stack  = [h.stack EXCEPT ![s] = @ - 0]
          /\ h.street = [h.street EXCEPT ![s] = @ + 0]
          /\ h.total  = [h.total EXCEPT ![s] = @ + 0]
      BY <1>1
    <3>2. h.allIn = [h.allIn EXCEPT ![s] = @ \/ (paid # 0 /\ h.stack[s] = paid)]
      <4>1. (h.allIn[s] \/ (paid # 0 /\ h.stack[s] = paid)) = h.allIn[s]
        BY <1>1, <2>1
      <4> QED
        BY <4>1, <1>1
    <3> QED
      BY <2>1, <3>1, <3>2
  <2>2. CASE paid # 0
    <3>1. ChipsMoved(h, Put(h, s, paid), s, paid)
      BY <1>2, PutKeeps
    <3>2. /\ after.total = [h.total EXCEPT ![s] = @ + paid]
          /\ after.allIn = [h.allIn EXCEPT ![s] = @ \/ h.stack[s] = paid]
      BY <2>2 DEF Put, HandType
    <3>3. [h.allIn EXCEPT ![s] = @ \/ h.stack[s] = paid]
            = [h.allIn EXCEPT ![s] = @ \/ (paid # 0 /\ h.stack[s] = paid)]
      BY <2>2
    <3> QED
      BY <2>2, <3>1, <3>2, <3>3 DEF ChipsMoved
  <2> QED
    BY <2>1, <2>2
<1>4. after.street[s] = h.street[s] + paid /\ h.street[s] \in Nat /\ after.street[s] \in Nat
  BY <1>1, <1>2, <1>3
<1> DEFINE above == after.street[s] > h.currentBet
<1>5. g = [after EXCEPT
             !.folded[s]  = @ \/ type = "fold",
             !.currentBet = IF above THEN after.street[s] ELSE @,
             !.minRaise   = IF above THEN after.street[s] - h.currentBet ELSE @,
             !.acted      = [t \in Seats |->
                               \/ t = s
                               \/ @[t] /\ (above => h.folded[t] \/ h.allIn[t])]]
  BY DEF ApplyAction, paid
<1> HIDE DEF after, g
<1>6. /\ g.stack = after.stack /\ g.total = after.total /\ g.street = after.street
      /\ g.allIn = after.allIn /\ g.round = h.round /\ g.board = h.board
      /\ g.toAct = h.toAct /\ g.dealer = h.dealer /\ g.rank = h.rank
      /\ g.currentBet = (IF above THEN after.street[s] ELSE h.currentBet)
      /\ g.minRaise = (IF above THEN after.street[s] - h.currentBet ELSE h.minRaise)
      /\ g.folded = [h.folded EXCEPT ![s] = @ \/ type = "fold"]
  BY <1>3, <1>5 DEF HandType
<1>7. g.acted = [t \in Seats |-> t = s \/ (h.acted[t] /\ (above => h.folded[t] \/ h.allIn[t]))]
  BY <1>3, <1>5 DEF HandType
<1>8. g.acted \in [Seats -> BOOLEAN] /\ g.folded \in [Seats -> BOOLEAN]
  <2> HIDE DEF above
  <2>1. g.acted \in [Seats -> BOOLEAN]
    BY <1>1, <1>7
  <2>2. g.folded \in [Seats -> BOOLEAN]
    BY <1>1, <1>6
  <2> QED
    BY <2>1, <2>2
<1>9. g.currentBet \in Nat /\ g.minRaise \in Nat
  BY <1>1, <1>4, <1>6
<1>10. g \in HandType
  BY <1>3, <1>5, <1>8, <1>9 DEF HandType
<1>11. above = raised
  BY <1>4
<1>12. /\ g.stack = [h.stack EXCEPT ![s] = @ - paid]
       /\ g.street = [h.street EXCEPT ![s] = @ + paid]
       /\ g.total = [h.total EXCEPT ![s] = @ + paid]
       /\ g.allIn = [h.allIn EXCEPT ![s] = @ \/ (paid # 0 /\ h.stack[s] = paid)]
  BY <1>3, <1>6
<1>13. /\ g.currentBet = IF raised THEN h.street[s] + paid ELSE h.currentBet
       /\ g.minRaise = IF raised THEN h.street[s] + paid - h.currentBet ELSE h.minRaise
  <2>1. CASE raised
    BY <1>1, <1>2, <1>4, <1>6, <2>1
  <2>2. CASE ~raised
    BY <1>1, <1>2, <1>4, <1>6, <2>2
  <2> QED
    BY <2>1, <2>2
<1>14. g.acted = [t \in Seats |-> t = s \/ (h.acted[t] /\ (raised => h.folded[t] \/ h.allIn[t]))]
  <2> HIDE DEF above, raised
  <2> QED
    BY <1>7, <1>11
<1> HIDE DEF above, raised
<1>15. ASSUME NEW t \in Seats
       PROVE  /\ g.stack[t]  = IF t = s THEN h.stack[t] - paid ELSE h.stack[t]
              /\ g.street[t] = IF t = s THEN h.street[t] + paid ELSE h.street[t]
              /\ g.total[t]  = IF t = s THEN h.total[t] + paid ELSE h.total[t]
              /\ g.allIn[t]  <=> h.allIn[t] \/ (t = s /\ paid # 0 /\ h.stack[t] = paid)
              /\ g.folded[t] <=> h.folded[t] \/ (t = s /\ type = "fold")
              /\ g.acted[t]  <=> t = s \/ (h.acted[t] /\ (raised => h.folded[t] \/ h.allIn[t]))
  <2>1. /\ g.stack[t]  = IF t = s THEN h.stack[t] - paid ELSE h.stack[t]
        /\ g.street[t] = IF t = s THEN h.street[t] + paid ELSE h.street[t]
        /\ g.total[t]  = IF t = s THEN h.total[t] + paid ELSE h.total[t]
    BY <1>1, <1>12
  <2>2. g.allIn[t] <=> h.allIn[t] \/ (t = s /\ paid # 0 /\ h.stack[t] = paid)
    BY <1>1, <1>12
  <2>3. g.folded[t] <=> h.folded[t] \/ (t = s /\ type = "fold")
    BY <1>1, <1>6
  <2>4. g.acted[t] <=> t = s \/ (h.acted[t] /\ (raised => h.folded[t] \/ h.allIn[t]))
    BY <1>1, <1>14
  <2> QED
    BY <2>1, <2>2, <2>3, <2>4
<1>16. raised <=> Raises(h, paid)
  BY DEF Raises, raised
<1>17. ActsOn(h, g, type, paid)
  BY <1>6, <1>10, <1>13, <1>15, <1>16 DEF ActsOn
<1> QED
  BY <1>17 DEF g, paid

-----------------------------------------------------------------------------
(* A seat answers *)

\* The seat to answer is the only one whose answer is counted next.
LEMMA NextToAnswer ==
  ASSUME NEW p, IsStreet(p), NEW k \in 0 .. N - 1
  PROVE  LET c == SeatAt(p.last, k + 1)
         IN  /\ c \in Seats /\ Dist(p.last, c) = k + 1
             /\ PutIn(p, k, c) = p.blind[c] /\ PutIn(p, k + 1, c) = p.bet
             /\ \A s \in Seats \ {c} : /\ Dist(p.last, s) <= k + 1 <=> Dist(p.last, s) <= k
                                       /\ PutIn(p, k + 1, s) = PutIn(p, k, s)
<1> DEFINE c == SeatAt(p.last, k + 1)
<1>1. p.last \in Seats /\ k + 1 \in 1 .. N /\ k \in Nat /\ N \in Nat
  BY NAssumption DEF IsStreet
<1>2. c \in Seats /\ Dist(p.last, c) = k + 1
  BY <1>1, SeatAtIs
<1> HIDE DEF c
<1>3. ASSUME NEW s \in Seats \ {c}
      PROVE  Dist(p.last, s) <= k + 1 <=> Dist(p.last, s) <= k
  <2>1. Dist(p.last, s) \in Nat /\ Dist(p.last, s) # k + 1
    BY <1>1, <1>2, DistDiffers
  <2> QED
    BY <1>1, <2>1
<1>4. ~(k + 1 <= k)
  BY <1>1
<1> QED
  BY <1>1, <1>2, <1>3, <1>4 DEF PutIn, c

AnswerOf(h) == IF Owed(h) > 0 THEN "call" ELSE "check"

\* The answer is legal, and brings the seat up to the bet.
LEMMA AnswerIsLegal ==
  ASSUME NEW p, IsStreet(p), NEW k \in 0 .. N - 1
  PROVE  LET h == Mid(p, k)
             c == SeatAt(p.last, k + 1)
         IN  /\ h.toAct = c /\ h.stack[c] = p.chips - p.blind[c] /\ h.street[c] = p.blind[c]
             /\ IsLegal(h, c, AnswerOf(h), 0)
             /\ Paid(h, AnswerOf(h), 0) = p.bet - p.blind[c]
             /\ Paid(h, AnswerOf(h), 0) \in 0 .. h.stack[c]
<1> DEFINE h == Mid(p, k)
           c == SeatAt(p.last, k + 1)
<1>1. c \in Seats /\ PutIn(p, k, c) = p.blind[c]
  BY NextToAnswer
<1>2. /\ p.bet \in Nat /\ p.chips \in Nat /\ p.bet <= p.chips
      /\ p.blind[c] \in Nat /\ p.blind[c] <= p.bet /\ p.blind[c] < p.chips
  BY <1>1, PutInType
<1>3. /\ h.toAct = c /\ h.stack[c] = p.chips - p.blind[c] /\ h.street[c] = p.blind[c]
      /\ h.currentBet = p.bet
  BY <1>1 DEF Mid, MidAt
<1> HIDE DEF h, c
<1>4. Owed(h) = p.bet - p.blind[c] /\ h.toAct # NoSeat
  BY <1>1, <1>3, SeatsAreNumbers DEF Owed
<1>5. IsLegal(h, c, AnswerOf(h), 0)
  BY <1>2, <1>3, <1>4 DEF IsLegal, LegalActions, AnswerOf, ActionTypes
<1>6. Paid(h, AnswerOf(h), 0) = p.bet - p.blind[c]
  BY <1>2, <1>3, <1>4 DEF Paid, AnswerOf, CallAmount, MinOf
<1> QED
  BY <1>2, <1>3, <1>5, <1>6 DEF h, c

\* The hand then counts one more answer.
LEMMA AnswerIsTaken ==
  ASSUME NEW p, IsStreet(p), NEW k \in 0 .. N - 1
  PROVE  LET c == SeatAt(p.last, k + 1)
         IN  ApplyAction(Mid(p, k), AnswerOf(Mid(p, k)), 0) = MidAt(p, k + 1, c)
<1> DEFINE h    == Mid(p, k)
           c    == SeatAt(p.last, k + 1)
           type == AnswerOf(h)
           paid == Paid(h, type, 0)
           g    == ApplyAction(h, type, 0)
           m    == MidAt(p, k + 1, c)
<1>1. /\ c \in Seats /\ Dist(p.last, c) = k + 1
      /\ PutIn(p, k, c) = p.blind[c] /\ PutIn(p, k + 1, c) = p.bet
      /\ \A s \in Seats \ {c} : /\ Dist(p.last, s) <= k + 1 <=> Dist(p.last, s) <= k
                                /\ PutIn(p, k + 1, s) = PutIn(p, k, s)
  BY NextToAnswer
<1>2. /\ h.toAct = c /\ h.stack[c] = p.chips - p.blind[c] /\ h.street[c] = p.blind[c]
      /\ paid = p.bet - p.blind[c] /\ paid \in 0 .. h.stack[c]
  BY AnswerIsLegal
<1>3. k + 1 \in 0 .. N /\ k \in 0 .. N /\ k \in Nat /\ type # "fold"
  BY NAssumption DEF AnswerOf
<1>4. h \in HandType /\ m \in HandType
  BY <1>1, <1>3, MidType DEF Mid
<1>5. \A s \in Seats : /\ PutIn(p, k, s) \in Nat /\ p.bet \in Nat /\ p.chips \in Nat
                       /\ p.blind[s] \in Nat /\ p.blind[s] <= p.bet /\ p.blind[s] < p.chips
  BY PutInType
<1>6. h.currentBet = p.bet /\ ~Raises(h, paid)
  <2>1. h.currentBet = p.bet
    BY DEF Mid, MidAt
  <2> HIDE DEF h, c, paid
  <2> QED
    BY <1>1, <1>2, <1>5, <2>1 DEF Raises
<1>7. ActsOn(h, g, type, paid)
  <2> HIDE DEF h, c, type
  <2> QED
    BY <1>1, <1>2, <1>4, ActionActsOn
<1> HIDE DEF g, paid, type, c
<1>8. ASSUME NEW s \in Seats
      PROVE  /\ h.stack[s]  = p.chips - PutIn(p, k, s)
             /\ h.street[s] = PutIn(p, k, s)
             /\ h.total[s]  = 200 - p.chips + PutIn(p, k, s)
             /\ ~h.folded[s]
             /\ h.allIn[s] <=> Dist(p.last, s) <= k /\ p.bet = p.chips
             /\ h.acted[s] <=> Dist(p.last, s) <= k
             /\ m.stack[s]  = p.chips - PutIn(p, k + 1, s)
             /\ m.street[s] = PutIn(p, k + 1, s)
             /\ m.total[s]  = 200 - p.chips + PutIn(p, k + 1, s)
             /\ ~m.folded[s]
             /\ m.allIn[s] <=> Dist(p.last, s) <= k + 1 /\ p.bet = p.chips
             /\ m.acted[s] <=> Dist(p.last, s) <= k + 1
  BY MidFields DEF Mid
<1>9. /\ m.currentBet = h.currentBet /\ m.minRaise = h.minRaise /\ m.dealer = h.dealer
      /\ m.round = h.round /\ m.board = h.board /\ m.toAct = c /\ m.rank = h.rank
  BY DEF Mid, MidAt, c
<1> HIDE DEF h, m
<1>10. g \in HandType
  BY <1>7 DEF ActsOn
<1>11. ASSUME NEW s \in Seats
       PROVE  /\ g.stack[s] = m.stack[s] /\ g.street[s] = m.street[s] /\ g.total[s] = m.total[s]
              /\ g.folded[s] <=> m.folded[s]
              /\ g.allIn[s] <=> m.allIn[s]
              /\ g.acted[s] <=> m.acted[s]
  <2>1. /\ g.stack[s]  = IF s = c THEN h.stack[s] - paid ELSE h.stack[s]
        /\ g.street[s] = IF s = c THEN h.street[s] + paid ELSE h.street[s]
        /\ g.total[s]  = IF s = c THEN h.total[s] + paid ELSE h.total[s]
        /\ g.allIn[s]  <=> h.allIn[s] \/ (s = c /\ paid # 0 /\ h.stack[s] = paid)
        /\ g.folded[s] <=> h.folded[s]
        /\ g.acted[s]  <=> s = c \/ h.acted[s]
    BY <1>2, <1>3, <1>6, <1>7 DEF ActsOn
  <2>2. CASE s = c
    BY <1>1, <1>2, <1>3, <1>5, <1>8, <2>1, <2>2
  <2>3. CASE s # c
    BY <1>1, <1>8, <2>1, <2>3
  <2> QED
    BY <2>2, <2>3
<1>12. /\ g.stack = m.stack /\ g.street = m.street /\ g.total = m.total
       /\ g.folded = m.folded /\ g.allIn = m.allIn /\ g.acted = m.acted
  BY <1>4, <1>10, <1>11, SameFunctions
<1>13. g = m
  BY <1>2, <1>4, <1>6, <1>7, <1>9, <1>10, <1>12, SameHand DEF ActsOn
<1> QED
  BY <1>13 DEF g, m, h, type, c

-----------------------------------------------------------------------------
(* The turn passes, or the street ends *)

\* While nobody has folded every seat is in the hand, and there are two.
LEMMA AllAreIn ==
  ASSUME NEW h, \A s \in Seats : ~h.folded[s]
  PROVE  NonFolded(h) = Seats /\ Cardinality(NonFolded(h)) = N /\ N # 1
<1>1. NonFolded(h) = Seats
  BY DEF NonFolded
<1>2. Cardinality(Seats) = N
  BY FS_Interval, NAssumption DEF Seats
<1> QED
  BY <1>1, <1>2, NAssumption

\* The turn passes to the seat behind the one that answered.
LEMMA AnswerPassesTurn ==
  ASSUME NEW p, IsStreet(p), NEW k \in 1 .. N - 1
  PROVE  Advance(MidAt(p, k, SeatAt(p.last, k))) = Mid(p, k)
<1> DEFINE c == SeatAt(p.last, k)
           d == SeatAt(p.last, k + 1)
           m == MidAt(p, k, c)
<1>1. p.last \in Seats /\ k \in 0 .. N - 1 /\ k \in 1 .. N /\ k \in Nat
  BY NAssumption DEF IsStreet
<1>2. c \in Seats /\ d \in Seats /\ Dist(p.last, d) = k + 1 /\ d = SeatAt(c, 1)
  BY <1>1, SeatAtIs, SeatAfter, NextToAnswer
<1> HIDE DEF c, d
<1>3. ~(Dist(p.last, d) <= k)
  BY <1>1, <1>2
<1>4. ~m.folded[d] /\ ~m.allIn[d] /\ ~m.acted[d] /\ m.toAct = c
  BY <1>2, <1>3, MidFields DEF MidAt
<1>5. \A s \in Seats : ~m.folded[s]
  BY MidFields
<1> HIDE DEF m
<1>6. d \in Contenders(m)
  BY <1>2, <1>4 DEF Contenders
<1>7. ~IsRoundComplete(m)
  BY <1>4, <1>6 DEF IsRoundComplete
<1>8. FindActiveSeatAfter(m, m.toAct) = d
  BY <1>2, <1>4, <1>6, NeighbourActs
<1>9. Advance(m) = [m EXCEPT !.toAct = d]
  BY <1>5, <1>7, <1>8, AllAreIn DEF Advance
<1>10. [m EXCEPT !.toAct = d] = MidAt(p, k, d)
  <2>1. m \in HandType /\ MidAt(p, k, d) \in HandType
    BY <1>1, <1>2, MidType DEF m
  <2>2. [m EXCEPT !.toAct = d] \in HandType
    BY <1>2, <2>1 DEF HandType
  <2>3. /\ m.stack = MidAt(p, k, d).stack /\ m.street = MidAt(p, k, d).street
        /\ m.total = MidAt(p, k, d).total /\ m.folded = MidAt(p, k, d).folded
        /\ m.allIn = MidAt(p, k, d).allIn /\ m.acted = MidAt(p, k, d).acted
    <3>1. \A s \in Seats :
            /\ m.stack[s] = MidAt(p, k, d).stack[s] /\ m.street[s] = MidAt(p, k, d).street[s]
            /\ m.total[s] = MidAt(p, k, d).total[s]
            /\ m.folded[s] <=> MidAt(p, k, d).folded[s]
            /\ m.allIn[s] <=> MidAt(p, k, d).allIn[s]
            /\ m.acted[s] <=> MidAt(p, k, d).acted[s]
      BY MidFields DEF m
    <3> QED
      BY <2>1, <3>1, SameFunctions
  <2>4. /\ MidAt(p, k, d).dealer = m.dealer /\ MidAt(p, k, d).round = m.round
        /\ MidAt(p, k, d).board = m.board /\ MidAt(p, k, d).currentBet = m.currentBet
        /\ MidAt(p, k, d).minRaise = m.minRaise /\ MidAt(p, k, d).rank = m.rank
        /\ MidAt(p, k, d).toAct = d
    BY DEF m, MidAt
  <2> DEFINE g == [m EXCEPT !.toAct = d]
             f == MidAt(p, k, d)
  <2>5. /\ g.stack = m.stack /\ g.street = m.street /\ g.total = m.total
        /\ g.folded = m.folded /\ g.allIn = m.allIn /\ g.acted = m.acted
        /\ g.dealer = m.dealer /\ g.round = m.round /\ g.board = m.board
        /\ g.currentBet = m.currentBet /\ g.minRaise = m.minRaise /\ g.rank = m.rank
        /\ g.toAct = d
    BY <2>1 DEF HandType
  <2>6. /\ g \in HandType /\ f \in HandType
        /\ f.stack = m.stack /\ f.street = m.street /\ f.total = m.total
        /\ f.folded = m.folded /\ f.allIn = m.allIn /\ f.acted = m.acted
        /\ f.dealer = m.dealer /\ f.round = m.round /\ f.board = m.board
        /\ f.currentBet = m.currentBet /\ f.minRaise = m.minRaise /\ f.rank = m.rank
        /\ f.toAct = d
    BY <2>1, <2>2, <2>3, <2>4
  <2>7. g = f
    <3> HIDE DEF f, g
    <3> QED
      BY <2>5, <2>6, SameHand
  <2> QED
    BY <2>7
<1> QED
  BY <1>9, <1>10 DEF m, c, d, Mid

\* When all have answered and have chips left, the next street begins; when the
\* bet was all they had, the rest is dealt and nobody is asked any more.
LEMMA LastAnswerEnds ==
  ASSUME NEW p, IsStreet(p), p.round # "river", NEW c \in Seats
  PROVE  /\ p.bet # p.chips =>
              Advance(MidAt(p, N, c)) = Fresh(NextStreet(p.round), p.chips - p.bet)
         /\ p.bet = p.chips => Advance(MidAt(p, N, c)).round = "showdown"
<1> DEFINE m     == MidAt(p, N, c)
           fresh == ResetForNextStreet(m)
<1>1. p.last \in Seats /\ N \in 0 .. N /\ N \in Nat /\ p.round \in {"preflop", "flop", "turn"}
  BY NAssumption DEF IsStreet
<1>2. \A s \in Seats : Dist(p.last, s) <= N /\ PutIn(p, N, s) = p.bet
  <2>1. ASSUME NEW s \in Seats PROVE Dist(p.last, s) <= N
    BY <1>1, DistIs
  <2> QED
    BY <2>1 DEF PutIn
<1>3. ASSUME NEW s \in Seats
      PROVE  /\ m.stack[s] = p.chips - p.bet /\ m.street[s] = p.bet
             /\ m.total[s] = 200 - p.chips + p.bet
             /\ ~m.folded[s] /\ m.acted[s]
             /\ m.allIn[s] <=> p.bet = p.chips
  <2>1. PutIn(p, N, s) = p.bet /\ Dist(p.last, s) <= N
    BY <1>2
  <2> HIDE DEF m
  <2> QED
    BY <2>1, MidFields DEF m
<1>4. /\ m \in HandType /\ m.round = p.round /\ m.board = BoardAt(p.round) /\ m.dealer = 1
      /\ m.currentBet = p.bet /\ m.rank = [s \in Seats |-> 0]
  BY <1>1, MidType DEF MidAt
<1> HIDE DEF m
<1>5. IsRoundComplete(m)
  BY <1>3, <1>4 DEF IsRoundComplete, Contenders
<1>6. Cardinality(NonFolded(m)) # 1
  BY <1>3, AllAreIn
<1>7. CASE p.bet = p.chips
  <2>1. Contenders(m) = {}
    BY <1>3, <1>7 DEF Contenders
  <2>2. BettingIsOver(m)
    BY <2>1, FS_EmptySet DEF BettingIsOver
  <2>3. Advance(m) = GoToShowdown(fresh)
    BY <1>5, <1>6, <2>2 DEF Advance
  <2>4. GoToShowdown(fresh).round = "showdown"
    BY <1>4 DEF GoToShowdown, ResetForNextStreet, HandType
  <2> QED
    BY <1>7, <2>3, <2>4 DEF m
<1>8. CASE p.bet # p.chips
  <2> DEFINE next == NextStreet(p.round)
             q    == Opened(next, p.chips - p.bet)
             g    == AdvanceToNextStreet(fresh)
             f    == MidAt(q, 0, SeatAt(1, 1))
  <2>1. Contenders(m) = Seats
    BY <1>3, <1>8 DEF Contenders
  <2>2. ~BettingIsOver(m) /\ m.round # "river"
    <3>1. Cardinality(Seats) = N
      BY <1>3, AllAreIn
    <3> QED
      BY <1>1, <1>4, <2>1, <3>1, NAssumption DEF BettingIsOver
  <2>3. Advance(m) = g
    BY <1>5, <1>6, <2>2 DEF Advance
  <2>4. 1 \in Seats /\ SeatAt(1, 1) \in Seats
    <3>1. 1 \in Seats /\ 1 \in 1 .. N
      BY NAssumption DEF Seats
    <3> QED
      BY <3>1, SeatAtIs
  <2>5. /\ fresh \in HandType /\ fresh.stack = m.stack /\ fresh.total = m.total
        /\ fresh.folded = m.folded /\ fresh.allIn = m.allIn /\ fresh.round = m.round
        /\ fresh.board = m.board /\ fresh.dealer = m.dealer /\ fresh.rank = m.rank
        /\ fresh.currentBet = 0 /\ fresh.minRaise = BigBlind
        /\ fresh.street = [s \in Seats |-> 0] /\ fresh.acted = [s \in Seats |-> FALSE]
    <3>1. [s \in Seats |-> 0] \in [Seats -> Nat] /\ [s \in Seats |-> FALSE] \in [Seats -> BOOLEAN]
          /\ BigBlind \in Nat
      BY DEF BigBlind
    <3> QED
      BY <1>4, <3>1 DEF ResetForNextStreet, HandType
  <2> HIDE DEF fresh
  <2>6. Contenders(fresh) = Seats
    BY <2>1, <2>5 DEF Contenders
  <2>7. FindActiveSeatAfter(fresh, fresh.dealer) = SeatAt(1, 1)
    BY <1>4, <2>4, <2>5, <2>6, NeighbourActs
  <2>8. /\ next \in {"flop", "turn", "river"} /\ next \in Rounds
        /\ m.board + (IF next = "flop" THEN 3 ELSE 1) = BoardAt(next)
        /\ BoardAt(next) \in 0 .. 5
    BY <1>1, <1>4 DEF NextStreet, BoardAt, Rounds, BettingNow
  <2>9. /\ g.board = BoardAt(next) /\ g.round = next /\ g.toAct = SeatAt(1, 1)
        /\ g.stack = m.stack /\ g.total = m.total /\ g.folded = m.folded
        /\ g.allIn = m.allIn /\ g.dealer = m.dealer /\ g.rank = m.rank
        /\ g.currentBet = 0 /\ g.minRaise = BigBlind
        /\ g.street = [s \in Seats |-> 0] /\ g.acted = [s \in Seats |-> FALSE]
    <3>1. fresh.board + (IF next = "flop" THEN 3 ELSE 1) = BoardAt(next)
      BY <2>5, <2>8
    <3>2. fresh.round = p.round
      BY <1>4, <2>5
    <3> HIDE DEF q, f
    <3>3. g = [fresh EXCEPT !.board = BoardAt(next), !.round = next, !.toAct = SeatAt(1, 1)]
      BY <2>7, <3>1, <3>2 DEF AdvanceToNextStreet
    <3> HIDE DEF g, next
    <3> QED
      BY <2>5, <3>3 DEF HandType
  <2>10. g \in HandType
    <3> HIDE DEF g, next
    <3>1. g = [fresh EXCEPT !.board = g.board, !.round = next, !.toAct = SeatAt(1, 1)]
      BY <1>4, <2>5, <2>7, <2>9 DEF AdvanceToNextStreet, HandType, g, next
    <3> QED
      BY <2>4, <2>5, <2>8, <2>9, <3>1 DEF HandType
  <2>11. IsStreet(q)
    <3>1. p.chips - p.bet \in 1 .. 100 * BigBlind /\ p.chips - p.bet > 0
      <4>1. 100 * BigBlind = 200
        BY DEF BigBlind
      <4>2. /\ p.bet \in Nat /\ p.chips \in Nat /\ p.bet <= p.chips /\ p.chips <= 200
        BY <2>4, PutInType
      <4> QED
        BY <1>8, <4>1, <4>2
    <3>2. [s \in Seats |-> 0] \in [Seats -> Nat] /\ BigBlind \in Nat
      BY DEF BigBlind
    <3> HIDE DEF next
    <3> QED
      BY <2>4, <2>8, <3>1, <3>2 DEF Opened, IsStreet
  <2>12. f \in HandType
    BY <1>1, <2>4, <2>11, MidType
  <2>13. g = f
    <3>1. /\ f.round = next /\ f.board = BoardAt(next) /\ f.dealer = 1 /\ f.currentBet = 0
          /\ f.minRaise = BigBlind /\ f.toAct = SeatAt(1, 1) /\ f.rank = [s \in Seats |-> 0]
      BY DEF MidAt, Opened
    <3>2. ASSUME NEW s \in Seats
          PROVE  /\ f.stack[s] = p.chips - p.bet /\ f.street[s] = 0
                 /\ f.total[s] = 200 - p.chips + p.bet
                 /\ ~f.folded[s] /\ ~f.allIn[s] /\ ~f.acted[s]
      <4>1. PutIn(q, 0, s) = 0 /\ ~(Dist(q.last, s) <= 0)
        <5>1. Dist(1, s) \in 1 .. N
          BY <2>4, DistIs
        <5>2. ~(Dist(1, s) <= 0)
          BY <5>1
        <5> QED
          BY <5>2 DEF PutIn, Opened
      <4>2. q.chips = p.chips - p.bet /\ p.chips \in Nat /\ p.bet \in Nat
        BY PutInType DEF Opened
      <4> HIDE DEF f, q
      <4>3. /\ f.stack[s] = q.chips - 0 /\ f.street[s] = 0 /\ f.total[s] = 200 - q.chips + 0
            /\ ~f.folded[s] /\ ~f.allIn[s] /\ ~f.acted[s]
        BY <4>1, MidFields DEF f
      <4> QED
        BY <4>2, <4>3
    <3> HIDE DEF f, g, q, next
    <3>3. \A s \in Seats :
            /\ g.stack[s] = f.stack[s] /\ g.street[s] = f.street[s] /\ g.total[s] = f.total[s]
            /\ g.folded[s] <=> f.folded[s]
            /\ g.allIn[s] <=> f.allIn[s]
            /\ g.acted[s] <=> f.acted[s]
      BY <1>3, <1>8, <2>9, <3>2
    <3> QED
      BY <1>4, <2>9, <2>10, <2>12, <3>1, <3>3, SameFunctions, SameHand
  <2> QED
    BY <1>8, <2>3, <2>13 DEF Fresh, Mid, m, Opened
<1> QED
  BY <1>7, <1>8 DEF m

-----------------------------------------------------------------------------
(* The loops *)

\* What the loop of calls computes, given its steps.
LEMMA CallsOneByOne ==
  ASSUME NEW h, NEW street, NEW g, g[0] = h,
         \A i \in 1 .. N : g[i] = CallOnce(g[i - 1], street)
  PROVE  CallDown(h, street) = g[N]
<1> DEFINE IsCalled(f) ==
             f = [i \in 0 .. N |-> IF i = 0 THEN h ELSE CallOnce(f[i - 1], street)]
           closed == [i \in 0 .. N |-> g[i]]
           chosen == CHOOSE f : IsCalled(f)
           Bad    == {i \in 0 .. N : chosen[i] # g[i]}
<1>1. N \in Nat
  BY NAssumption
<1>2. IsCalled(closed)
  <2>1. ASSUME NEW i \in 0 .. N
        PROVE  g[i] = IF i = 0 THEN h ELSE CallOnce(closed[i - 1], street)
    <3>1. CASE i = 0
      BY <3>1
    <3>2. CASE i # 0
      <4>1. i \in 1 .. N /\ i - 1 \in 0 .. N
        BY <1>1, <3>2
      <4>2. closed[i - 1] = g[i - 1]
        BY <4>1
      <4> QED
        BY <3>2, <4>1, <4>2
    <3> QED
      BY <3>1, <3>2
  <2> QED
    BY <2>1
<1>3. IsCalled(chosen)
  <2> HIDE DEF IsCalled, closed
  <2> QED
    BY <1>2
<1>4. CallDown(h, street) = chosen[N]
  BY DEF CallDown
<1>5. ASSUME NEW i \in 0 .. N
      PROVE  chosen[i] = IF i = 0 THEN h ELSE CallOnce(chosen[i - 1], street)
  <2> HIDE DEF chosen
  <2> QED
    BY <1>3
<1> HIDE DEF chosen
<1>6. 0 \notin Bad
  BY <1>1, <1>5
<1>7. ASSUME NEW i \in 1 .. N, i - 1 \notin Bad PROVE i \notin Bad
  <2>1. i - 1 \in 0 .. N /\ i \in 0 .. N /\ i # 0
    BY <1>1
  <2>2. chosen[i - 1] = g[i - 1]
    BY <1>7, <2>1
  <2> QED
    BY <1>5, <2>1, <2>2
<1>8. Bad = {}
  <2>1. Bad \subseteq 0 .. N
    OBVIOUS
  <2> HIDE DEF Bad
  <2> QED
    BY <1>1, <1>6, <1>7, <2>1, NoCounterexample
<1> QED
  BY <1>1, <1>4, <1>8

\* The hand when every seat has answered.
EndOf(p) == Advance(MidAt(p, N, p.last))

\* From a street that nobody or one seat has answered, the loop of calls goes to
\* the end of it and stops there (replayToFlop, settleStreetAfterHeroAction).
LEMMA StreetIsCalled ==
  ASSUME NEW p, IsStreet(p), p.round # "river", NEW k \in {0, 1}
  PROVE  CallDown(Mid(p, k), p.round) = EndOf(p)
<1> DEFINE g == [i \in 0 .. N |-> IF k + i < N THEN Mid(p, k + i) ELSE EndOf(p)]
<1>1. N \in Nat /\ N >= 2 /\ k \in Nat /\ k <= 1 /\ p.last \in Seats
  BY NAssumption DEF IsStreet
<1>2. g[0] = Mid(p, k)
  BY <1>1
<1>3. EndOf(p).round # p.round
  <2>1. CASE p.bet = p.chips
    <3>1. EndOf(p).round = "showdown"
      BY <1>1, <2>1, LastAnswerEnds DEF EndOf
    <3> QED
      BY <3>1 DEF IsStreet
  <2>2. CASE p.bet # p.chips
    <3>1. EndOf(p) = Fresh(NextStreet(p.round), p.chips - p.bet)
      BY <1>1, <2>2, LastAnswerEnds DEF EndOf
    <3>2. EndOf(p).round = NextStreet(p.round)
      BY <3>1 DEF Fresh, Mid, MidAt, Opened
    <3> QED
      BY <3>2 DEF IsStreet, NextStreet
  <2> QED
    BY <2>1, <2>2
<1>4. ASSUME NEW i \in 1 .. N PROVE g[i] = CallOnce(g[i - 1], p.round)
  <2>1. i \in Nat /\ i - 1 \in 0 .. N /\ i \in 0 .. N
    BY <1>1
  <2>2. CASE k + i - 1 < N
    <3> DEFINE j == k + i - 1
               h == Mid(p, j)
    <3>1. j \in 0 .. N - 1 /\ j + 1 = k + i /\ j + 1 \in 1 .. N
      BY <1>1, <2>1, <2>2
    <3>2. g[i - 1] = h
      BY <1>1, <2>1, <3>1
    <3>3. h.round = p.round /\ h.toAct # NoSeat
      <4>1. h.toAct = SeatAt(p.last, j + 1) /\ h.round = p.round
        BY DEF Mid, MidAt
      <4>2. SeatAt(p.last, j + 1) \in Seats
        BY <1>1, <3>1, SeatAtIs
      <4> QED
        BY <4>1, <4>2, SeatsAreNumbers
    <3> HIDE DEF h, j
    <3>4. CallOnce(h, p.round) = Advance(MidAt(p, j + 1, SeatAt(p.last, j + 1)))
      <4>1. ApplyAction(h, AnswerOf(h), 0) = MidAt(p, j + 1, SeatAt(p.last, j + 1))
        BY <3>1, AnswerIsTaken DEF h
      <4> QED
        BY <3>3, <4>1 DEF CallOnce, SubmitAction, AnswerOf
    <3>5. CASE j + 1 < N
      <4>1. j + 1 \in 1 .. N - 1
        BY <1>1, <3>1, <3>5
      <4>2. CallOnce(h, p.round) = Mid(p, j + 1)
        BY <3>4, <4>1, AnswerPassesTurn
      <4>3. g[i] = Mid(p, j + 1)
        BY <2>1, <3>1, <3>5
      <4> QED
        BY <3>2, <4>2, <4>3
    <3>6. CASE ~(j + 1 < N)
      <4>1. j + 1 = N /\ SeatAt(p.last, N) = p.last
        BY <1>1, <3>1, <3>6 DEF SeatAt, Seats
      <4>2. CallOnce(h, p.round) = EndOf(p)
        BY <3>4, <4>1 DEF EndOf
      <4>3. g[i] = EndOf(p)
        BY <2>1, <3>1, <3>6
      <4> QED
        BY <3>2, <4>2, <4>3
    <3> QED
      BY <3>5, <3>6
  <2>3. CASE ~(k + i - 1 < N)
    <3>1. g[i - 1] = EndOf(p) /\ g[i] = EndOf(p)
      BY <1>1, <2>1, <2>3
    <3> QED
      BY <1>3, <3>1 DEF CallOnce
  <2> QED
    BY <2>2, <2>3
<1>5. g[N] = EndOf(p)
  BY <1>1
<1> HIDE DEF g
<1> QED
  BY <1>2, <1>4, <1>5, CallsOneByOne

-----------------------------------------------------------------------------
(* The hand the trainer deals *)

SmallSeat == IF N = 2 THEN 1 ELSE 2
BigSeat   == IF N = 2 THEN 2 ELSE 3

\* Before the flop the big blind answers last.
Preflop ==
  [round |-> "preflop", chips |-> 100 * BigBlind, bet |-> BigBlind, minRaise |-> BigBlind,
   last |-> BigSeat,
   blind |-> [s \in Seats |-> IF s = SmallSeat THEN SmallBlind
                              ELSE IF s = BigSeat THEN BigBlind ELSE 0]]

LEMMA BlindSeats ==
  /\ 1 \in Seats /\ SmallSeat \in Seats /\ BigSeat \in Seats
  /\ SmallSeat # BigSeat /\ BigSeat # 1 /\ BigSeat = SeatAt(SmallSeat, 1)
  /\ N # 2 => SmallSeat = SeatAt(1, 1)
  /\ N = 2 => SmallSeat = 1
  /\ N = 2 => SeatAt(BigSeat, 1) = 1
BY NAssumption DEF Seats, SmallSeat, BigSeat, SeatAt

LEMMA PreflopIsStreet == IsStreet(Preflop)
<1>1. 100 * BigBlind = 200 /\ BigBlind = 2 /\ SmallBlind = 1
  BY DEF BigBlind, SmallBlind
<1>2. Preflop.blind \in [Seats -> Nat]
  BY <1>1 DEF Preflop
<1>3. \A s \in Seats : Preflop.blind[s] <= 2 /\ Preflop.blind[s] < 200
  BY <1>1 DEF Preflop
<1>4. /\ Preflop.round = "preflop" /\ Preflop.chips = 200 /\ Preflop.bet = 2
      /\ Preflop.minRaise = 2 /\ Preflop.last = BigSeat
  BY <1>1 DEF Preflop
<1> QED
  BY <1>1, <1>2, <1>3, <1>4, BlindSeats DEF IsStreet

\* Everybody is dealt in, the blinds go where they belong, and the seat behind
\* the big blind opens (startHand).
LEMMA HundredBBIs == HundredBB = Mid(Preflop, 0)
<1> DEFINE stacks == [s \in Seats |-> 100 * BigBlind]
           dealt  == Dealt(stacks, 1)
           small  == PostBlind(dealt, SmallSeat, SmallBlind)
           big    == PostBlind(small, BigSeat, BigBlind)
           first  == SeatAt(BigSeat, 1)
           m      == Mid(Preflop, 0)
<1>1. /\ 1 \in Seats /\ SmallSeat \in Seats /\ BigSeat \in Seats /\ SmallSeat # BigSeat
      /\ first \in Seats
  <2>1. BigSeat \in Seats /\ 1 \in 1 .. N
    BY BlindSeats, NAssumption
  <2> QED
    BY <2>1, BlindSeats, SeatAtIs
<1>2. 100 * BigBlind = 200 /\ BigBlind = 2 /\ SmallBlind = 1
  BY DEF BigBlind, SmallBlind
<1>3. stacks \in [Seats -> Nat] /\ \A s \in Seats : stacks[s] = 200
  BY <1>2
<1> HIDE DEF stacks
<1>4. /\ dealt.stack = stacks /\ dealt.dealer = 1 /\ dealt.round = "preflop" /\ dealt.board = 0
      /\ dealt.minRaise = 2 /\ dealt.rank = [s \in Seats |-> 0]
      /\ dealt \in HandType
      /\ \A s \in Seats : /\ ~dealt.folded[s] /\ ~dealt.allIn[s] /\ dealt.street[s] = 0
                          /\ dealt.total[s] = 0 /\ ~dealt.acted[s]
  <2>1. /\ dealt.stack = stacks /\ dealt.dealer = 1 /\ dealt.round = "preflop" /\ dealt.board = 0
        /\ dealt.minRaise = 2 /\ dealt.rank = [s \in Seats |-> 0]
    BY <1>2 DEF Dealt
  <2>2. \A s \in Seats : /\ ~dealt.folded[s] /\ ~dealt.allIn[s] /\ dealt.street[s] = 0
                         /\ dealt.total[s] = 0 /\ ~dealt.acted[s]
    <3>1. /\ dealt.folded = [s \in Seats |-> stacks[s] = 0]
          /\ dealt.allIn = [s \in Seats |-> FALSE] /\ dealt.street = [s \in Seats |-> 0]
          /\ dealt.total = [s \in Seats |-> 0] /\ dealt.acted = [s \in Seats |-> FALSE]
      BY DEF Dealt
    <3>2. ASSUME NEW s \in Seats PROVE ~dealt.folded[s]
      <4>1. stacks[s] # 0
        BY <1>3
      <4> HIDE DEF dealt
      <4> QED
        BY <3>1, <4>1
    <3> HIDE DEF dealt
    <3> QED
      BY <3>1, <3>2
  <2>3. dealt \in HandType
    BY <1>1, <1>2, <1>3 DEF Dealt, HandType, Rounds, BettingNow
  <2> QED
    BY <2>1, <2>2, <2>3
<1> HIDE DEF dealt
<1>5. Contenders(dealt) = Seats
  BY <1>4 DEF Contenders
<1>6. SmallSeat = IF N = 2 THEN 1 ELSE FindActiveSeatAfter(dealt, 1)
  <2>1. CASE N = 2
    BY <2>1, BlindSeats
  <2>2. CASE N # 2
    BY <1>1, <1>5, <2>2, BlindSeats, NeighbourActs
  <2> QED
    BY <2>1, <2>2
<1>7. BigSeat = FindActiveSeatAfter(dealt, SmallSeat)
  BY <1>1, <1>5, BlindSeats, NeighbourActs
<1>8. first = IF N = 2 THEN 1 ELSE FindActiveSeatAfter(dealt, BigSeat)
  <2>1. CASE N = 2
    BY <2>1, BlindSeats
  <2>2. CASE N # 2
    BY <1>1, <1>5, <2>2, NeighbourActs
  <2> QED
    BY <2>1, <2>2
<1> HIDE DEF first
<1>9. /\ small = Put(dealt, SmallSeat, 1) /\ small.stack[BigSeat] = 200
      /\ small \in HandType
      /\ ChipsMoved(dealt, small, SmallSeat, 1)
      /\ small.total = [dealt.total EXCEPT ![SmallSeat] = @ + 1]
      /\ small.rank = dealt.rank
  <2>1. dealt.stack[SmallSeat] = 200 /\ dealt.stack[BigSeat] = 200 /\ 1 \in 0 .. 200
    BY <1>1, <1>3, <1>4
  <2>2. small = Put(dealt, SmallSeat, 1)
    BY <1>2, <2>1 DEF PostBlind, MinOf
  <2>3. ChipsMoved(dealt, Put(dealt, SmallSeat, 1), SmallSeat, 1)
    BY <1>1, <1>4, <2>1, PutKeeps
  <2>4. /\ Put(dealt, SmallSeat, 1).total = [dealt.total EXCEPT ![SmallSeat] = @ + 1]
        /\ Put(dealt, SmallSeat, 1).rank = dealt.rank
    BY <1>4 DEF Put, HandType
  <2> HIDE DEF small
  <2>5. small.stack[BigSeat] = 200
    BY <1>1, <1>4, <2>1, <2>2, <2>3 DEF ChipsMoved, HandType
  <2> QED
    BY <2>2, <2>3, <2>4, <2>5 DEF ChipsMoved
<1> HIDE DEF small
<1>10. /\ big = Put(small, BigSeat, 2)
       /\ ChipsMoved(small, big, BigSeat, 2)
       /\ big.total = [small.total EXCEPT ![BigSeat] = @ + 2]
       /\ big.rank = small.rank
  <2>1. big = Put(small, BigSeat, 2)
    BY <1>2, <1>9 DEF PostBlind, MinOf
  <2>2. ChipsMoved(small, Put(small, BigSeat, 2), BigSeat, 2)
    BY <1>1, <1>9, PutKeeps
  <2>3. /\ Put(small, BigSeat, 2).total = [small.total EXCEPT ![BigSeat] = @ + 2]
        /\ Put(small, BigSeat, 2).rank = small.rank
    BY <1>9 DEF Put, HandType
  <2> QED
    BY <2>1, <2>2, <2>3
<1> HIDE DEF big
<1> DEFINE h == [big EXCEPT !.currentBet = 2, !.toAct = first]
<1>11. HundredBB = h
  <2>1. MinOf(BigBlind, small.stack[BigSeat]) = 2
    BY <1>2, <1>9 DEF MinOf
  <2>2. HundredBB = [big EXCEPT !.currentBet = MinOf(BigBlind, small.stack[BigSeat]),
                                !.toAct = first]
    BY <1>6, <1>7, <1>8 DEF HundredBB, StartHand, dealt, small, big, stacks
  <2> QED
    BY <2>1, <2>2
<1>12. big \in HandType
  BY <1>10 DEF ChipsMoved
<1>13. /\ h \in HandType
       /\ h.stack = big.stack /\ h.folded = big.folded /\ h.allIn = big.allIn
       /\ h.street = big.street /\ h.total = big.total /\ h.acted = big.acted
       /\ h.dealer = big.dealer /\ h.round = big.round /\ h.board = big.board
       /\ h.currentBet = 2 /\ h.minRaise = big.minRaise /\ h.toAct = first
       /\ h.rank = big.rank
  BY <1>1, <1>12 DEF HandType
<1> HIDE DEF h
<1>14. /\ h.dealer = 1 /\ h.round = "preflop" /\ h.board = 0 /\ h.minRaise = 2
       /\ h.rank = [s \in Seats |-> 0]
  BY <1>4, <1>9, <1>10, <1>13 DEF ChipsMoved
<1>15. /\ m \in HandType /\ m.dealer = 1 /\ m.round = "preflop" /\ m.board = 0
       /\ m.currentBet = 2 /\ m.minRaise = 2 /\ m.toAct = first
       /\ m.rank = [s \in Seats |-> 0]
  <2>1. m \in HandType
    <3>1. 0 \in 0 .. N /\ SeatAt(Preflop.last, 0 + 1) = first
      BY NAssumption DEF first, Preflop
    <3> QED
      BY <1>1, <3>1, PreflopIsStreet, MidType DEF Mid
  <2> QED
    BY <1>2, <2>1 DEF Mid, MidAt, Preflop, BoardAt, first
<1> HIDE DEF m
<1>16. ASSUME NEW s \in Seats
       PROVE  /\ h.stack[s] = m.stack[s] /\ h.street[s] = m.street[s] /\ h.total[s] = m.total[s]
              /\ h.folded[s] <=> m.folded[s]
              /\ h.allIn[s] <=> m.allIn[s]
              /\ h.acted[s] <=> m.acted[s]
  <2> DEFINE put == IF s = SmallSeat THEN 1 ELSE IF s = BigSeat THEN 2 ELSE 0
  <2>1. /\ m.stack[s] = 200 - put /\ m.street[s] = put /\ m.total[s] = put
        /\ ~m.folded[s] /\ ~m.allIn[s] /\ ~m.acted[s]
    <3>1. ~(Dist(Preflop.last, s) <= 0)
      <4>1. Preflop.last = BigSeat
        BY DEF Preflop
      <4>2. Dist(BigSeat, s) \in 1 .. N
        BY <1>1, DistIs
      <4> QED
        BY <4>1, <4>2
    <3>2. PutIn(Preflop, 0, s) = put /\ Preflop.chips = 200
      <4>1. Preflop.blind[s] = put /\ Preflop.chips = 200
        BY <1>2 DEF Preflop
      <4> QED
        BY <3>1, <4>1 DEF PutIn
    <3>3. put \in Nat
      OBVIOUS
    <3> HIDE DEF put
    <3> QED
      BY <3>1, <3>2, <3>3, MidFields DEF Mid, m
  <2>2. /\ h.stack[s] = 200 - put /\ h.street[s] = put /\ h.total[s] = put
    <3>1. /\ big.stack = [small.stack EXCEPT ![BigSeat] = @ - 2]
          /\ big.street = [small.street EXCEPT ![BigSeat] = @ + 2]
          /\ big.total = [small.total EXCEPT ![BigSeat] = @ + 2]
          /\ small.stack = [dealt.stack EXCEPT ![SmallSeat] = @ - 1]
          /\ small.street = [dealt.street EXCEPT ![SmallSeat] = @ + 1]
          /\ small.total = [dealt.total EXCEPT ![SmallSeat] = @ + 1]
      BY <1>9, <1>10 DEF ChipsMoved
    <3>2. /\ dealt.stack[s] = 200 /\ dealt.street[s] = 0 /\ dealt.total[s] = 0
          /\ dealt.stack \in [Seats -> Nat] /\ dealt.street \in [Seats -> Nat]
          /\ dealt.total \in [Seats -> Nat]
      BY <1>3, <1>4 DEF HandType
    <3>3. /\ small.stack \in [Seats -> Nat] /\ small.street \in [Seats -> Nat]
          /\ small.total \in [Seats -> Nat]
      BY <1>9 DEF HandType
    <3>4. h.stack = big.stack /\ h.street = big.street /\ h.total = big.total
      BY <1>13
    <3>5. CASE s = SmallSeat
      BY <1>1, <3>1, <3>2, <3>3, <3>4, <3>5
    <3>6. CASE s = BigSeat
      BY <1>1, <3>1, <3>2, <3>3, <3>4, <3>6
    <3>7. CASE s # SmallSeat /\ s # BigSeat
      BY <1>1, <3>1, <3>2, <3>3, <3>4, <3>7
    <3> QED
      BY <3>5, <3>6, <3>7
  <2>3. ~h.folded[s] /\ ~h.acted[s]
    BY <1>4, <1>9, <1>10, <1>13 DEF ChipsMoved
  <2>4. ~h.allIn[s]
    <3>1. h.stack[s] # 0
      BY <2>2
    <3>2. ~dealt.allIn[s] /\ h.allIn[s] = big.allIn[s] /\ h.stack[s] = big.stack[s]
      BY <1>4, <1>13
    <3>3. ~small.allIn[s]
      <4>1. CASE s = SmallSeat
        <5>1. small.stack[s] = 199
          <6>1. small.stack = [dealt.stack EXCEPT ![SmallSeat] = @ - 1]
            BY <1>9 DEF ChipsMoved
          <6> QED
            BY <1>1, <1>3, <1>4, <4>1, <6>1
        <5>2. small.allIn[SmallSeat] /\ ~dealt.allIn[SmallSeat] => small.stack[SmallSeat] = 0
          BY <1>9 DEF ChipsMoved
        <5> QED
          BY <3>2, <4>1, <5>1, <5>2
      <4>2. CASE s # SmallSeat
        <5>1. small.allIn[s] = dealt.allIn[s]
          BY <1>9, <4>2 DEF ChipsMoved
        <5> QED
          BY <3>2, <5>1
      <4> QED
        BY <4>1, <4>2
    <3>4. ~big.allIn[s]
      <4>1. CASE s = BigSeat
        <5>1. big.allIn[BigSeat] /\ ~small.allIn[BigSeat] => big.stack[BigSeat] = 0
          BY <1>10 DEF ChipsMoved
        <5> QED
          BY <3>1, <3>2, <3>3, <4>1, <5>1
      <4>2. CASE s # BigSeat
        <5>1. big.allIn[s] = small.allIn[s]
          BY <1>10, <4>2 DEF ChipsMoved
        <5> QED
          BY <3>3, <5>1
      <4> QED
        BY <4>1, <4>2
    <3> QED
      BY <3>2, <3>4
  <2> HIDE DEF put
  <2> QED
    BY <2>1, <2>2, <2>3, <2>4
<1>17. h = m
  BY <1>13, <1>14, <1>15, <1>16, SameFunctions, SameHand
<1> QED
  BY <1>11, <1>17 DEF m

\* The postflop trainer starts on a flop that everybody called to see.
LEMMA FlopIsReached ==
  CallDown(HundredBB, "preflop") = Fresh("flop", 100 * BigBlind - BigBlind)
<1>1. CallDown(Mid(Preflop, 0), Preflop.round) = EndOf(Preflop)
  <2>1. Preflop.round # "river"
    BY DEF Preflop
  <2> QED
    BY <2>1, PreflopIsStreet, StreetIsCalled
<1>2. EndOf(Preflop) = Fresh(NextStreet(Preflop.round), Preflop.chips - Preflop.bet)
  <2>1. Preflop.round # "river" /\ Preflop.last \in Seats /\ Preflop.bet # Preflop.chips
    BY BlindSeats DEF Preflop, BigBlind
  <2> QED
    BY <2>1, PreflopIsStreet, LastAnswerEnds DEF EndOf
<1>3. Preflop.round = "preflop" /\ NextStreet("preflop") = "flop"
  BY DEF Preflop, NextStreet
<1>4. Preflop.chips - Preflop.bet = 100 * BigBlind - BigBlind
  BY DEF Preflop
<1> QED
  BY <1>1, <1>2, <1>3, <1>4, HundredBBIs

-----------------------------------------------------------------------------
(* Folding to the button *)

\* The hand before the flop when the k seats behind the big blind have folded.
FoldedAt(k) ==
  [Mid(Preflop, 0) EXCEPT
     !.folded = [s \in Seats |-> Dist(BigSeat, s) <= k],
     !.acted  = [s \in Seats |-> Dist(BigSeat, s) <= k],
     !.toAct  = SeatAt(BigSeat, k + 1)]

ToButton == Dist(BigSeat, 1) - 1

LEMMA ToButtonIs ==
  ToButton \in 0 .. N - 2 /\ SeatAt(BigSeat, ToButton + 1) = 1
<1>1. BigSeat \in Seats /\ 1 \in Seats /\ BigSeat # 1
  BY BlindSeats
<1>2. Dist(BigSeat, 1) \in 1 .. N /\ SeatAt(BigSeat, Dist(BigSeat, 1)) = 1
  BY <1>1, DistIs
<1>3. Dist(BigSeat, 1) # N
  BY <1>1, <1>2, NAssumption DEF SeatAt, Seats
<1>4. ToButton \in Int /\ ToButton + 1 = Dist(BigSeat, 1)
  BY <1>2, NAssumption DEF ToButton
<1>5. ToButton \in 0 .. N - 2
  BY <1>2, <1>3, <1>4, NAssumption
<1> QED
  BY <1>2, <1>4, <1>5

LEMMA FoldedAtFields ==
  ASSUME NEW k \in 0 .. N - 1
  PROVE  LET h == FoldedAt(k)
             m == Mid(Preflop, 0)
         IN  /\ h \in HandType
             /\ h.stack = m.stack /\ h.street = m.street /\ h.total = m.total
             /\ h.allIn = m.allIn /\ h.dealer = 1 /\ h.round = "preflop" /\ h.board = 0
             /\ h.currentBet = 2 /\ h.minRaise = 2 /\ h.rank = m.rank
             /\ h.toAct = SeatAt(BigSeat, k + 1) /\ h.toAct \in Seats
             /\ \A s \in Seats : /\ h.folded[s] <=> Dist(BigSeat, s) <= k
                                 /\ h.acted[s] <=> Dist(BigSeat, s) <= k
                                 /\ ~h.allIn[s] /\ h.street[s] <= 2 /\ h.stack[s] > 0
<1> DEFINE h == FoldedAt(k)
           m == Mid(Preflop, 0)
<1>1. BigSeat \in Seats /\ k + 1 \in 1 .. N /\ SeatAt(BigSeat, k + 1) \in Seats
  BY BlindSeats, SeatAtIs, NAssumption
<1>2. m \in HandType
  <2>1. 0 \in 0 .. N /\ 0 + 1 \in 1 .. N /\ Preflop.last = BigSeat
    BY NAssumption DEF Preflop
  <2> QED
    BY <1>1, <2>1, PreflopIsStreet, MidType, SeatAtIs DEF Mid
<1>3. m.dealer = 1 /\ m.round = "preflop" /\ m.board = 0 /\ m.currentBet = 2 /\ m.minRaise = 2
  BY DEF Mid, MidAt, Preflop, BoardAt, BigBlind
<1>4. ASSUME NEW s \in Seats PROVE ~m.allIn[s] /\ m.street[s] <= 2 /\ m.stack[s] > 0
  <2>1. Preflop.bet = 2 /\ Preflop.chips = 200
    BY DEF Preflop, BigBlind
  <2>2. PutIn(Preflop, 0, s) \in Nat /\ PutIn(Preflop, 0, s) <= 2
    BY <2>1, PreflopIsStreet, PutInType
  <2> HIDE DEF m
  <2> QED
    BY <2>1, <2>2, MidFields DEF Mid, m
<1> HIDE DEF m
<1> DEFINE far == [s \in Seats |-> Dist(BigSeat, s) <= k]
<1>5. far \in [Seats -> BOOLEAN] /\ \A s \in Seats : far[s] <=> Dist(BigSeat, s) <= k
  <2>1. far \in [Seats -> BOOLEAN]
    <3>1. \A s \in Seats : (Dist(BigSeat, s) <= k) \in BOOLEAN
      OBVIOUS
    <3> QED
      BY <3>1
  <2>2. \A s \in Seats : far[s] = (Dist(BigSeat, s) <= k)
    OBVIOUS
  <2> QED
    BY <2>1, <2>2
<1> HIDE DEF far
<1>6. h = [m EXCEPT !.folded = far, !.acted = far, !.toAct = SeatAt(BigSeat, k + 1)]
  BY DEF FoldedAt, m, far
<1> HIDE DEF h
<1>7. /\ h \in HandType
      /\ h.stack = m.stack /\ h.street = m.street /\ h.total = m.total
      /\ h.allIn = m.allIn /\ h.dealer = m.dealer /\ h.round = m.round /\ h.board = m.board
      /\ h.currentBet = m.currentBet /\ h.minRaise = m.minRaise /\ h.rank = m.rank
      /\ h.toAct = SeatAt(BigSeat, k + 1) /\ h.folded = far /\ h.acted = far
  BY <1>1, <1>2, <1>5, <1>6 DEF HandType
<1> QED
  BY <1>1, <1>3, <1>4, <1>5, <1>7 DEF h, m

\* Two seats are not one.
LEMMA TwoAreNotOne ==
  ASSUME NEW S \in SUBSET Seats, NEW s \in S, NEW t \in S, s # t
  PROVE  Cardinality(S) # 1
<1>1. IsFiniteSet(Seats)
  BY FS_Interval, NAssumption DEF Seats
<1>2. IsFiniteSet(S)
  BY <1>1, FS_Subset
<1> QED
  BY <1>2, FS_Singleton

\* The seat to act folds, and the turn passes to the one behind it.
LEMMA FoldPasses ==
  ASSUME NEW k \in 0 .. N - 1, k < ToButton
  PROVE  /\ IsLegal(FoldedAt(k), FoldedAt(k).toAct, "fold", 0)
         /\ SubmitAction(FoldedAt(k), "fold", 0) = FoldedAt(k + 1)
<1> DEFINE h == FoldedAt(k)
           c == SeatAt(BigSeat, k + 1)
           d == SeatAt(BigSeat, k + 2)
           g == ApplyAction(h, "fold", 0)
           f == FoldedAt(k + 1)
           m == Mid(Preflop, 0)
<1>1. /\ BigSeat \in Seats /\ k \in Nat /\ k + 1 \in 1 .. N - 1 /\ k + 1 \in 0 .. N - 1
      /\ k + 1 \in 1 .. N /\ k + 2 \in 1 .. N /\ k + 1 + 1 = k + 2 /\ ToButton \in Nat
      /\ k + 1 < ToButton + 1 /\ Dist(BigSeat, 1) = ToButton + 1 /\ 1 \in Seats
      /\ BigSeat # 1
  <2>1. ToButton \in 0 .. N - 2
    BY ToButtonIs
  <2>2. Dist(BigSeat, 1) \in 1 .. N
    BY BlindSeats, DistIs
  <2>3. Dist(BigSeat, 1) = ToButton + 1
    BY <2>2, NAssumption DEF ToButton
  <2> QED
    BY <2>1, <2>3, BlindSeats, NAssumption
<1>2. /\ c \in Seats /\ Dist(BigSeat, c) = k + 1
      /\ d \in Seats /\ Dist(BigSeat, d) = k + 2 /\ d = SeatAt(c, 1)
  BY <1>1, SeatAtIs, SeatAfter
<1> HIDE DEF c, d
<1>3. /\ h \in HandType
      /\ h.stack = m.stack /\ h.street = m.street /\ h.total = m.total
      /\ h.allIn = m.allIn /\ h.dealer = 1 /\ h.round = "preflop" /\ h.board = 0
      /\ h.currentBet = 2 /\ h.minRaise = 2 /\ h.rank = m.rank
      /\ h.toAct = c /\ h.toAct \in Seats
      /\ \A s \in Seats : /\ h.folded[s] <=> Dist(BigSeat, s) <= k
                          /\ h.acted[s] <=> Dist(BigSeat, s) <= k
                          /\ ~h.allIn[s] /\ h.street[s] <= 2 /\ h.stack[s] > 0
  BY FoldedAtFields DEF c
<1>4. /\ f \in HandType
      /\ f.stack = m.stack /\ f.street = m.street /\ f.total = m.total
      /\ f.allIn = m.allIn /\ f.dealer = 1 /\ f.round = "preflop" /\ f.board = 0
      /\ f.currentBet = 2 /\ f.minRaise = 2 /\ f.rank = m.rank
      /\ f.toAct = d
      /\ \A s \in Seats : /\ f.folded[s] <=> Dist(BigSeat, s) <= k + 1
                          /\ f.acted[s] <=> Dist(BigSeat, s) <= k + 1
                          /\ ~f.allIn[s]
  BY <1>1, FoldedAtFields DEF d
<1> HIDE DEF h, f, m
<1>5. IsLegal(h, h.toAct, "fold", 0)
  BY <1>3, SeatsAreNumbers DEF IsLegal, LegalActions, ActionTypes
<1>6. /\ Paid(h, "fold", 0) = 0 /\ Paid(h, "fold", 0) \in 0 .. h.stack[h.toAct]
      /\ ~Raises(h, 0)
  <2>1. h.street[c] \in Nat /\ h.street[c] <= 2 /\ h.stack[c] \in Nat
    BY <1>2, <1>3 DEF HandType
  <2>2. Paid(h, "fold", 0) = 0
    BY DEF Paid
  <2> QED
    BY <1>3, <2>1, <2>2 DEF Raises
<1>7. ActsOn(h, g, "fold", 0)
  BY <1>3, <1>6, ActionActsOn
<1> HIDE DEF g
<1>8. /\ g \in HandType /\ g.currentBet = 2 /\ g.minRaise = 2 /\ g.dealer = 1
      /\ g.round = "preflop" /\ g.board = 0 /\ g.toAct = c /\ g.rank = m.rank
  BY <1>3, <1>6, <1>7 DEF ActsOn
<1>9. ASSUME NEW s \in Seats
      PROVE  /\ g.stack[s] = h.stack[s] /\ g.street[s] = h.street[s] /\ g.total[s] = h.total[s]
             /\ g.folded[s] <=> Dist(BigSeat, s) <= k + 1
             /\ g.acted[s] <=> Dist(BigSeat, s) <= k + 1
             /\ ~g.allIn[s]
  <2>1. /\ g.stack[s]  = IF s = c THEN h.stack[s] - 0 ELSE h.stack[s]
        /\ g.street[s] = IF s = c THEN h.street[s] + 0 ELSE h.street[s]
        /\ g.total[s]  = IF s = c THEN h.total[s] + 0 ELSE h.total[s]
        /\ g.allIn[s] <=> h.allIn[s]
        /\ g.folded[s] <=> h.folded[s] \/ s = c
        /\ g.acted[s] <=> s = c \/ h.acted[s]
    BY <1>3, <1>6, <1>7 DEF ActsOn
  <2>2. h.stack[s] \in Nat /\ h.street[s] \in Nat /\ h.total[s] \in Nat
    BY <1>3 DEF HandType
  <2>3. s = c \/ Dist(BigSeat, s) <= k <=> Dist(BigSeat, s) <= k + 1
    <3>1. Dist(BigSeat, s) \in 1 .. N /\ (s # c => Dist(BigSeat, s) # k + 1)
      BY <1>1, <1>2, DistIs, DistDiffers
    <3> QED
      BY <1>1, <1>2, <3>1
  <2> QED
    BY <1>3, <2>1, <2>2, <2>3
<1>10. d \in Contenders(g) /\ 1 \in NonFolded(g) /\ BigSeat \in NonFolded(g) /\ ~g.acted[1]
       /\ 1 \in Contenders(g)
  <2>1. ~(Dist(BigSeat, 1) <= k + 1) /\ ~(Dist(BigSeat, d) <= k + 1)
    BY <1>1, <1>2
  <2>2. ~(Dist(BigSeat, BigSeat) <= k + 1)
    <3>1. BigSeat \in 0 .. N /\ BigSeat \in 1 .. N /\ N \in Nat
      BY <1>1, NAssumption DEF Seats
    <3>2. Dist(BigSeat, BigSeat) = N
      BY <3>1, DistValue
    <3> QED
      BY <1>1, <3>1, <3>2
  <2> QED
    BY <1>1, <1>2, <1>9, <2>1, <2>2 DEF Contenders, NonFolded
<1>11. Cardinality(NonFolded(g)) # 1
  <2>1. NonFolded(g) \in SUBSET Seats
    BY DEF NonFolded
  <2> QED
    BY <1>1, <1>10, <2>1, TwoAreNotOne
<1>12. ~IsRoundComplete(g)
  BY <1>10 DEF IsRoundComplete
<1>13. FindActiveSeatAfter(g, g.toAct) = d
  BY <1>2, <1>8, <1>10, NeighbourActs
<1> DEFINE e == [g EXCEPT !.toAct = d]
<1>14. Advance(g) = e
  BY <1>11, <1>12, <1>13 DEF Advance
<1>15. /\ e \in HandType
       /\ e.stack = g.stack /\ e.street = g.street /\ e.total = g.total
       /\ e.folded = g.folded /\ e.allIn = g.allIn /\ e.acted = g.acted
       /\ e.dealer = g.dealer /\ e.round = g.round /\ e.board = g.board
       /\ e.currentBet = g.currentBet /\ e.minRaise = g.minRaise /\ e.rank = g.rank
       /\ e.toAct = d
  BY <1>2, <1>8 DEF HandType
<1> HIDE DEF e
<1>16. \A s \in Seats :
         /\ e.stack[s] = f.stack[s] /\ e.street[s] = f.street[s] /\ e.total[s] = f.total[s]
         /\ e.folded[s] <=> f.folded[s]
         /\ e.allIn[s] <=> f.allIn[s]
         /\ e.acted[s] <=> f.acted[s]
  BY <1>3, <1>4, <1>9, <1>15
<1>17. e = f
  BY <1>4, <1>8, <1>15, <1>16, SameFunctions, SameHand
<1> QED
  BY <1>5, <1>14, <1>17 DEF SubmitAction, g, h, f

\* What the loop of folds computes, given its steps.
LEMMA FoldsOneByOne ==
  ASSUME NEW h, NEW g, g[0] = h, \A i \in 1 .. N : g[i] = FoldOnce(g[i - 1])
  PROVE  FoldToButton(h) = g[N]
<1> DEFINE IsFolded(f) == f = [i \in 0 .. N |-> IF i = 0 THEN h ELSE FoldOnce(f[i - 1])]
           closed == [i \in 0 .. N |-> g[i]]
           chosen == CHOOSE f : IsFolded(f)
           Bad    == {i \in 0 .. N : chosen[i] # g[i]}
<1>1. N \in Nat
  BY NAssumption
<1>2. IsFolded(closed)
  <2>1. ASSUME NEW i \in 0 .. N
        PROVE  g[i] = IF i = 0 THEN h ELSE FoldOnce(closed[i - 1])
    <3>1. CASE i = 0
      BY <3>1
    <3>2. CASE i # 0
      <4>1. i \in 1 .. N /\ i - 1 \in 0 .. N
        BY <1>1, <3>2
      <4>2. closed[i - 1] = g[i - 1]
        BY <4>1
      <4> QED
        BY <3>2, <4>1, <4>2
    <3> QED
      BY <3>1, <3>2
  <2> QED
    BY <2>1
<1>3. IsFolded(chosen)
  <2> HIDE DEF IsFolded, closed
  <2> QED
    BY <1>2
<1>4. FoldToButton(h) = chosen[N]
  BY DEF FoldToButton
<1>5. ASSUME NEW i \in 0 .. N
      PROVE  chosen[i] = IF i = 0 THEN h ELSE FoldOnce(chosen[i - 1])
  <2> HIDE DEF chosen
  <2> QED
    BY <1>3
<1> HIDE DEF chosen
<1>6. 0 \notin Bad
  BY <1>1, <1>5
<1>7. ASSUME NEW i \in 1 .. N, i - 1 \notin Bad PROVE i \notin Bad
  <2>1. i - 1 \in 0 .. N /\ i \in 0 .. N /\ i # 0
    BY <1>1
  <2>2. chosen[i - 1] = g[i - 1]
    BY <1>7, <2>1
  <2> QED
    BY <1>5, <2>1, <2>2
<1>8. Bad = {}
  <2>1. Bad \subseteq 0 .. N
    OBVIOUS
  <2> HIDE DEF Bad
  <2> QED
    BY <1>1, <1>6, <1>7, <2>1, NoCounterexample
<1> QED
  BY <1>1, <1>4, <1>8

\* The seats between the blinds and the button fold, and nobody else (generateScenario).
LEMMA ButtonIsReached == FoldToButton(HundredBB) = FoldedAt(ToButton)
<1> DEFINE g == [i \in 0 .. N |-> IF i < ToButton THEN FoldedAt(i) ELSE FoldedAt(ToButton)]
<1>1. N \in Nat /\ ToButton \in Nat /\ ToButton \in 0 .. N - 1 /\ ToButton < N
      /\ SeatAt(BigSeat, ToButton + 1) = 1
  BY ToButtonIs, NAssumption
<1>2. HundredBB = FoldedAt(0)
  <2> DEFINE m == Mid(Preflop, 0)
             f == FoldedAt(0)
  <2>1. 0 \in 0 .. N /\ 0 \in 0 .. N - 1 /\ 0 + 1 \in 1 .. N /\ Preflop.last = BigSeat
    BY NAssumption DEF Preflop
  <2>2. m \in HandType
    BY <2>1, BlindSeats, PreflopIsStreet, MidType, SeatAtIs DEF Mid
  <2>3. /\ f \in HandType
        /\ f.stack = m.stack /\ f.street = m.street /\ f.total = m.total
        /\ f.allIn = m.allIn /\ f.dealer = 1 /\ f.round = "preflop" /\ f.board = 0
        /\ f.currentBet = 2 /\ f.minRaise = 2 /\ f.rank = m.rank
        /\ f.toAct = SeatAt(BigSeat, 0 + 1)
        /\ \A s \in Seats : /\ f.folded[s] <=> Dist(BigSeat, s) <= 0
                            /\ f.acted[s] <=> Dist(BigSeat, s) <= 0
    BY <2>1, FoldedAtFields
  <2>4. /\ m.dealer = 1 /\ m.round = "preflop" /\ m.board = 0 /\ m.currentBet = 2
        /\ m.minRaise = 2 /\ m.toAct = SeatAt(BigSeat, 0 + 1)
    BY DEF Mid, MidAt, Preflop, BoardAt, BigBlind
  <2>5. ASSUME NEW s \in Seats
        PROVE  /\ m.stack[s] = f.stack[s] /\ m.street[s] = f.street[s] /\ m.total[s] = f.total[s]
               /\ m.folded[s] <=> f.folded[s]
               /\ m.allIn[s] <=> f.allIn[s]
               /\ m.acted[s] <=> f.acted[s]
    <3>1. Dist(BigSeat, s) \in 1 .. N
      BY BlindSeats, DistIs
    <3>2. ~(Dist(BigSeat, s) <= 0)
      BY <3>1
    <3>3. ~m.folded[s] /\ (m.acted[s] <=> Dist(BigSeat, s) <= 0)
      BY <2>1, MidFields DEF Mid
    <3> HIDE DEF f, m
    <3> QED
      BY <2>3, <3>2, <3>3
  <2>6. m = f
    <3> HIDE DEF f, m
    <3> QED
      BY <2>2, <2>3, <2>4, <2>5, SameFunctions, SameHand
  <2> QED
    BY <2>6, HundredBBIs
<1>3. g[0] = HundredBB
  BY <1>1, <1>2
<1>4. ASSUME NEW i \in 1 .. N PROVE g[i] = FoldOnce(g[i - 1])
  <2>1. i \in Nat /\ i - 1 \in 0 .. N /\ i \in 0 .. N
    BY <1>1
  <2>2. CASE i - 1 < ToButton
    <3>1. i - 1 \in 0 .. N - 1 /\ i - 1 + 1 = i
      BY <1>1, <2>1, <2>2
    <3>2. g[i - 1] = FoldedAt(i - 1)
      BY <2>1, <2>2
    <3>3. g[i] = FoldedAt(i)
      BY <1>1, <2>1, <2>2
    <3>4. FoldedAt(i - 1).toAct # 1
      <4>1. FoldedAt(i - 1).toAct = SeatAt(BigSeat, i - 1 + 1)
        BY <3>1, FoldedAtFields
      <4>2. Dist(BigSeat, SeatAt(BigSeat, i)) = i
        BY BlindSeats, SeatAtIs
      <4>3. Dist(BigSeat, 1) = ToButton + 1
        <5>1. Dist(BigSeat, 1) \in 1 .. N
          BY BlindSeats, DistIs
        <5> QED
          BY <1>1, <5>1 DEF ToButton
      <4> QED
        BY <1>1, <2>1, <2>2, <3>1, <4>1, <4>2, <4>3
    <3>5. SubmitAction(FoldedAt(i - 1), "fold", 0) = FoldedAt(i - 1 + 1)
      BY <2>2, <3>1, FoldPasses
    <3> QED
      BY <3>1, <3>2, <3>3, <3>4, <3>5 DEF FoldOnce
  <2>3. CASE ~(i - 1 < ToButton)
    <3>1. g[i - 1] = FoldedAt(ToButton) /\ g[i] = FoldedAt(ToButton)
      BY <1>1, <2>1, <2>3
    <3>2. FoldedAt(ToButton).toAct = 1
      BY <1>1, FoldedAtFields
    <3> QED
      BY <3>1, <3>2 DEF FoldOnce
  <2> QED
    BY <2>2, <2>3
<1>5. g[N] = FoldedAt(ToButton)
  BY <1>1
<1> HIDE DEF g
<1> QED
  BY <1>3, <1>4, <1>5, FoldsOneByOne

-----------------------------------------------------------------------------
(* The user decides *)

\* The street that the user opens with a bet, or with none.
Decided(round, chips, bet) ==
  [round |-> round, chips |-> chips, bet |-> bet,
   minRaise |-> IF bet > 0 THEN bet ELSE BigBlind, last |-> 1,
   blind |-> [s \in Seats |-> 0]]

LEMMA DecidedIsStreet ==
  ASSUME NEW round \in {"flop", "turn", "river"}, NEW chips \in 1 .. 100 * BigBlind,
         NEW bet \in 0 .. chips
  PROVE  IsStreet(Decided(round, chips, bet)) /\ IsStreet(Opened(round, chips))
<1>1. 100 * BigBlind = 200 /\ BigBlind = 2 /\ 1 \in Seats
  BY BlindSeats DEF BigBlind
<1>2. chips \in Nat /\ bet \in Nat /\ chips > 0 /\ 0 \in 0 .. chips
  BY <1>1
<1>3. IsStreet(Opened(round, chips))
  BY <1>1, <1>2 DEF Opened, IsStreet
<1>4. IsStreet(Decided(round, chips, bet))
  BY <1>1, <1>2 DEF Decided, IsStreet
<1> QED
  BY <1>3, <1>4

\* A street that nobody has answered, seat by seat.
LEMMA FreshFields ==
  ASSUME NEW round \in {"flop", "turn", "river"}, NEW chips \in 1 .. 100 * BigBlind
  PROVE  LET h == Fresh(round, chips)
         IN  /\ h \in HandType /\ h.toAct = SeatAt(1, 1) /\ h.toAct \in Seats
             /\ h.round = round /\ h.board = BoardAt(round) /\ h.dealer = 1
             /\ h.currentBet = 0 /\ h.minRaise = 2 /\ h.rank = [s \in Seats |-> 0]
             /\ \A s \in Seats : /\ h.stack[s] = chips /\ h.street[s] = 0
                                 /\ h.total[s] = 200 - chips
                                 /\ ~h.folded[s] /\ ~h.allIn[s] /\ ~h.acted[s]
<1> DEFINE p == Opened(round, chips)
           h == Fresh(round, chips)
<1>1. IsStreet(p)
  <2>1. 0 \in 0 .. chips
    BY DEF BigBlind
  <2> QED
    BY <2>1, DecidedIsStreet
<1>2. /\ 0 \in 0 .. N /\ 1 \in Seats /\ 1 \in 1 .. N /\ SeatAt(1, 1) \in Seats
      /\ p.last = 1 /\ p.chips = chips /\ chips \in Nat
  <2>1. 0 \in 0 .. N /\ 1 \in Seats /\ 1 \in 1 .. N
    BY NAssumption, BlindSeats
  <2> QED
    BY <2>1, SeatAtIs DEF Opened, BigBlind
<1>3. h \in HandType
  BY <1>1, <1>2, MidType DEF Fresh, Mid
<1>4. /\ h.toAct = SeatAt(1, 1) /\ h.round = round /\ h.board = BoardAt(round) /\ h.dealer = 1
      /\ h.currentBet = 0 /\ h.minRaise = 2 /\ h.rank = [s \in Seats |-> 0]
  <2>1. /\ p.round = round /\ p.bet = 0 /\ p.minRaise = 2
    BY DEF Opened, BigBlind
  <2> HIDE DEF p
  <2>2. /\ MidAt(p, 0, SeatAt(p.last, 0 + 1)).toAct = SeatAt(p.last, 0 + 1)
        /\ MidAt(p, 0, SeatAt(p.last, 0 + 1)).board = BoardAt(p.round)
        /\ MidAt(p, 0, SeatAt(p.last, 0 + 1)).round = p.round
        /\ MidAt(p, 0, SeatAt(p.last, 0 + 1)).dealer = 1
        /\ MidAt(p, 0, SeatAt(p.last, 0 + 1)).currentBet = p.bet
        /\ MidAt(p, 0, SeatAt(p.last, 0 + 1)).minRaise = p.minRaise
        /\ MidAt(p, 0, SeatAt(p.last, 0 + 1)).rank = [s \in Seats |-> 0]
    BY DEF MidAt
  <2> QED
    BY <1>2, <2>1, <2>2 DEF Fresh, Mid, p
<1>5. ASSUME NEW s \in Seats
      PROVE  /\ h.stack[s] = chips /\ h.street[s] = 0 /\ h.total[s] = 200 - chips
             /\ ~h.folded[s] /\ ~h.allIn[s] /\ ~h.acted[s]
  <2>1. Dist(1, s) \in 1 .. N
    BY <1>2, DistIs
  <2>2. ~(Dist(p.last, s) <= 0) /\ PutIn(p, 0, s) = 0
    <3>1. ~(Dist(1, s) <= 0)
      BY <2>1
    <3> QED
      BY <3>1 DEF PutIn, Opened
  <2> HIDE DEF p, h
  <2>3. /\ h.stack[s] = p.chips - 0 /\ h.street[s] = 0 /\ h.total[s] = 200 - p.chips + 0
        /\ ~h.folded[s] /\ ~h.allIn[s] /\ ~h.acted[s]
    BY <2>2, MidFields DEF Fresh, Mid, p, h
  <2> QED
    BY <1>2, <2>3
<1> QED
  BY <1>2, <1>3, <1>4, <1>5

\* A legal decision that is not to fold leaves a street one seat has answered.
LEMMA UserAnswers ==
  ASSUME NEW round \in {"flop", "turn"}, NEW chips \in 1 .. 100 * BigBlind,
         NEW type, NEW amount, type # "fold",
         IsLegal(Fresh(round, chips), Fresh(round, chips).toAct, type, amount)
  PROVE  \E bet \in 0 .. chips :
           ApplyAction(Fresh(round, chips), type, amount)
             = MidAt(Decided(round, chips, bet), 1, SeatAt(1, 1))
<1> DEFINE h   == Fresh(round, chips)
           c   == SeatAt(1, 1)
           bet == Paid(h, type, amount)
           q   == Decided(round, chips, bet)
           g   == ApplyAction(h, type, amount)
           m   == MidAt(q, 1, c)
<1>1. /\ h \in HandType /\ h.toAct = c /\ c \in Seats
      /\ h.round = round /\ h.board = BoardAt(round) /\ h.dealer = 1
      /\ h.currentBet = 0 /\ h.minRaise = 2 /\ h.rank = [s \in Seats |-> 0]
      /\ \A s \in Seats : /\ h.stack[s] = chips /\ h.street[s] = 0
                          /\ h.total[s] = 200 - chips
                          /\ ~h.folded[s] /\ ~h.allIn[s] /\ ~h.acted[s]
  BY FreshFields
<1>2. chips \in Nat /\ chips > 0 /\ chips <= 200
  BY DEF BigBlind
<1>3. IsLegal(h, c, type, amount)
  BY <1>1
<1> HIDE DEF h, c
<1>4. bet \in 0 .. chips
  <2>1. Owed(h) = 0 /\ MaxTotal(h) = chips /\ MinBetOrRaise(h) \in Nat
    BY <1>1, <1>2 DEF Owed, MaxTotal, MinBetOrRaise, MinOf
  <2>2. type \in {"check", "bet", "all-in"}
    BY <1>1, <1>3, <2>1 DEF IsLegal, LegalActions, ActionTypes
  <2>3. CASE type = "check"
    BY <1>2, <2>3 DEF Paid
  <2>4. CASE type = "bet"
    <3>1. amount \in Nat /\ amount <= chips
      BY <1>2, <1>3, <2>1, <2>4 DEF IsLegal
    <3>2. bet = amount - 0
      BY <1>1, <2>4 DEF Paid
    <3> QED
      BY <1>2, <3>1, <3>2
  <2>5. CASE type = "all-in"
    BY <1>1, <1>2, <2>5 DEF Paid
  <2> QED
    BY <2>2, <2>3, <2>4, <2>5
<1> HIDE DEF bet
<1>5. IsStreet(q)
  BY <1>4, DecidedIsStreet
<1>6. ActsOn(h, g, type, bet)
  <2>1. bet \in 0 .. h.stack[h.toAct]
    BY <1>1, <1>4
  <2> QED
    BY <1>1, <2>1, ActionActsOn DEF bet
<1> HIDE DEF g
<1>7. Raises(h, bet) <=> bet > 0
  BY <1>1, <1>2, <1>4 DEF Raises
<1>8. /\ q.round = round /\ q.chips = chips /\ q.bet = bet /\ q.last = 1
      /\ q.minRaise = (IF bet > 0 THEN bet ELSE 2) /\ \A s \in Seats : q.blind[s] = 0
  BY DEF Decided, BigBlind
<1> HIDE DEF q
<1>9. m \in HandType
  BY <1>1, <1>5, MidType, NAssumption
<1>10. /\ m.round = round /\ m.board = BoardAt(round) /\ m.dealer = 1 /\ m.currentBet = bet
       /\ m.minRaise = (IF bet > 0 THEN bet ELSE 2) /\ m.toAct = c
       /\ m.rank = [s \in Seats |-> 0]
  BY <1>8 DEF MidAt
<1>11. /\ g \in HandType /\ g.round = round /\ g.board = BoardAt(round) /\ g.dealer = 1
       /\ g.toAct = c /\ g.rank = [s \in Seats |-> 0]
       /\ g.currentBet = bet /\ g.minRaise = (IF bet > 0 THEN bet ELSE 2)
  <2>1. /\ g.currentBet = IF bet > 0 THEN h.street[c] + bet ELSE h.currentBet
        /\ g.minRaise = IF bet > 0 THEN h.street[c] + bet - h.currentBet ELSE h.minRaise
    BY <1>1, <1>6, <1>7 DEF ActsOn
  <2>2. g.currentBet = bet /\ g.minRaise = (IF bet > 0 THEN bet ELSE 2)
    BY <1>1, <1>2, <1>4, <2>1
  <2> QED
    BY <1>1, <1>6, <2>2 DEF ActsOn
<1>12. ASSUME NEW s \in Seats
       PROVE  Dist(1, s) <= 1 <=> s = c
  <2>1. 1 \in Seats /\ 1 \in 1 .. N
    BY BlindSeats, NAssumption
  <2>2. Dist(1, s) \in 1 .. N /\ SeatAt(1, Dist(1, s)) = s /\ Dist(1, c) = 1
    BY <2>1, DistIs, SeatAtIs DEF c
  <2>3. Dist(1, s) <= 1 => Dist(1, s) = 1
    BY <2>2
  <2> QED
    BY <2>2, <2>3 DEF c
<1>13. ASSUME NEW s \in Seats
       PROVE  /\ g.stack[s] = m.stack[s] /\ g.street[s] = m.street[s] /\ g.total[s] = m.total[s]
              /\ g.folded[s] <=> m.folded[s]
              /\ g.allIn[s] <=> m.allIn[s]
              /\ g.acted[s] <=> m.acted[s]
  <2>1. /\ g.stack[s]  = IF s = c THEN h.stack[s] - bet ELSE h.stack[s]
        /\ g.street[s] = IF s = c THEN h.street[s] + bet ELSE h.street[s]
        /\ g.total[s]  = IF s = c THEN h.total[s] + bet ELSE h.total[s]
        /\ g.allIn[s] <=> h.allIn[s] \/ (s = c /\ bet # 0 /\ h.stack[s] = bet)
        /\ g.folded[s] <=> h.folded[s]
        /\ g.acted[s] <=> s = c \/ (h.acted[s] /\ (Raises(h, bet) => h.folded[s] \/ h.allIn[s]))
    BY <1>1, <1>6 DEF ActsOn
  <2>2. /\ m.stack[s]  = chips - PutIn(q, 1, s)
        /\ m.street[s] = PutIn(q, 1, s)
        /\ m.total[s]  = 200 - chips + PutIn(q, 1, s)
        /\ ~m.folded[s]
        /\ m.allIn[s] <=> s = c /\ bet = chips
        /\ m.acted[s] <=> s = c
    <3> HIDE DEF m
    <3> QED
      BY <1>8, <1>12, MidFields DEF m
  <2>3. PutIn(q, 1, s) = IF s = c THEN bet ELSE 0
    BY <1>8, <1>12 DEF PutIn
  <2> HIDE DEF m
  <2>4. CASE s = c
    BY <1>1, <1>2, <1>4, <2>1, <2>2, <2>3, <2>4
  <2>5. CASE s # c
    BY <1>1, <1>2, <1>4, <2>1, <2>2, <2>3, <2>5
  <2> QED
    BY <2>4, <2>5
<1> HIDE DEF m
<1>14. g = m
  BY <1>9, <1>10, <1>11, <1>13, SameFunctions, SameHand
<1> QED
  BY <1>4, <1>14 DEF g, m, q, h, c

\* The others answer, and the user opens the next street, or there is nothing
\* left to decide (continuePostflopScenario).
LEMMA StreetIsSettled ==
  ASSUME NEW round \in {"flop", "turn"}, NEW chips \in 1 .. 100 * BigBlind,
         NEW type, NEW amount, type # "fold",
         IsLegal(Fresh(round, chips), Fresh(round, chips).toAct, type, amount)
  PROVE  LET next == Settled(SubmitAction(Fresh(round, chips), type, amount), round)
         IN  \/ next.round = "showdown"
             \/ \E left \in 1 .. 100 * BigBlind : next = Fresh(NextStreet(round), left)
<1>1. PICK bet \in 0 .. chips :
        ApplyAction(Fresh(round, chips), type, amount)
          = MidAt(Decided(round, chips, bet), 1, SeatAt(1, 1))
  BY UserAnswers
<1> DEFINE q == Decided(round, chips, bet)
<1>2. /\ IsStreet(q) /\ q.round = round /\ q.chips = chips /\ q.bet = bet /\ q.last = 1
      /\ q.round # "river" /\ 1 \in Seats
  BY DecidedIsStreet, BlindSeats DEF Decided
<1> HIDE DEF q
<1>3. SubmitAction(Fresh(round, chips), type, amount) = Mid(q, 1)
  <2>1. 1 \in 1 .. N - 1
    BY NAssumption
  <2>2. Advance(MidAt(q, 1, SeatAt(1, 1))) = Mid(q, 1)
    BY <1>2, <2>1, AnswerPassesTurn
  <2> QED
    BY <1>1, <2>2 DEF SubmitAction, q
<1>4. Settled(Mid(q, 1), round) = EndOf(q)
  BY <1>2, StreetIsCalled DEF Settled
<1>5. CASE bet = chips
  <2>1. EndOf(q).round = "showdown"
    BY <1>2, <1>5, LastAnswerEnds DEF EndOf
  <2> QED
    BY <1>3, <1>4, <2>1
<1>6. CASE bet # chips
  <2>1. EndOf(q) = Fresh(NextStreet(round), chips - bet)
    BY <1>2, <1>6, LastAnswerEnds DEF EndOf
  <2>2. chips - bet \in 1 .. 100 * BigBlind
    <3>1. 100 * BigBlind = 200
      BY DEF BigBlind
    <3>2. chips \in 1 .. 200
      BY <3>1
    <3> QED
      BY <1>6, <3>1, <3>2
  <2> QED
    BY <1>3, <1>4, <2>1, <2>2
<1> QED
  BY <1>5, <1>6

-----------------------------------------------------------------------------
(* What is true of the scenario *)

Posed(h, d) == [hand |-> h, legal |-> LegalView(h), decision |-> d]

\* The streets a user of the postflop trainer is asked about.
UsersTurn(h) ==
  \E round \in {"flop", "turn", "river"}, chips \in 1 .. 100 * BigBlind :
    h = Fresh(round, chips)

\* There is no scenario, or one before the flop, which the button decides, or one
\* of a hand that is asked of the same seat from the flop on.
ExerciseInv ==
  \/ exercise = NoExercise /\ hero = {}
  \/ /\ exercise # NoExercise
     /\ exercise = Posed(exercise.hand, exercise.decision)
     /\ \/ exercise.hand = FoldedAt(ToButton) /\ hero = {}
        \/ UsersTurn(exercise.hand) /\ hero = {SeatAt(1, 1)}

\* A scenario is stored with its hand, its limits and its decision.
LEMMA PosedIs ==
  ASSUME NEW h, NEW d
  PROVE  Posed(h, d) # NoExercise /\ Posed(h, d).hand = h /\ Posed(h, d).decision = d
<1>1. "hand" \in DOMAIN Posed(h, d) /\ "hand" \notin DOMAIN NoExercise
  BY DEF Posed, NoExercise
<1> QED
  BY <1>1 DEF Posed

\* The scenario that is kept with a decision is the one that was posed.
LEMMA DecisionIsKept ==
  ASSUME NEW h, NEW d, NEW e
  PROVE  [Posed(h, d) EXCEPT !.decision = e] = Posed(h, e)
  BY DEF Posed

LEMMA UsersTurnIs ==
  ASSUME NEW h, UsersTurn(h)
  PROVE  /\ h.toAct = SeatAt(1, 1) /\ h.toAct \in Seats
         /\ h.round \in {"flop", "turn", "river"} /\ h.board = BoardAt(h.round)
         /\ NonFolded(h) = Seats
         /\ \A s, t \in Seats : h.total[s] = h.total[t]
<1>1. PICK round \in {"flop", "turn", "river"}, chips \in 1 .. 100 * BigBlind :
        h = Fresh(round, chips)
  BY DEF UsersTurn
<1>2. /\ h.toAct = SeatAt(1, 1) /\ h.toAct \in Seats /\ h.round = round
      /\ h.board = BoardAt(round)
      /\ \A s \in Seats : h.total[s] = 200 - chips /\ ~h.folded[s]
  BY <1>1, FreshFields
<1> QED
  BY <1>2, AllAreIn

LEMMA ButtonDecides ==
  LET h == FoldedAt(ToButton)
  IN  h.round = "preflop" /\ h.toAct = 1 /\ h.board = 0
<1>1. ToButton \in 0 .. N - 1 /\ SeatAt(BigSeat, ToButton + 1) = 1
  BY ToButtonIs, NAssumption
<1> QED
  BY <1>1, FoldedAtFields

LEMMA ExerciseInvStep ==
  ASSUME ExerciseInv, [ExerciseNext]_exVars
  PROVE  ExerciseInv'
<1>1. CASE UNCHANGED exVars
  BY <1>1 DEF ExerciseInv, exVars, Posed
<1>2. CASE GenerateScenario \/ AnotherScenario
  <2>1. exercise' = Posed(FoldedAt(ToButton), NoDecision) /\ hero' = hero
    BY <1>2, ButtonIsReached DEF GenerateScenario, AnotherScenario, Exercise, Posed
  <2>2. hero = {}
    <3>1. CASE GenerateScenario
      BY <3>1 DEF GenerateScenario, ExerciseInv
    <3>2. CASE AnotherScenario
      <4>1. exercise # NoExercise /\ exercise.hand.round = "preflop"
        BY <3>2 DEF AnotherScenario
      <4>2. ~UsersTurn(exercise.hand)
        BY <4>1, UsersTurnIs
      <4> QED
        BY <4>1, <4>2 DEF ExerciseInv
    <3> QED
      BY <1>2, <3>1, <3>2
  <2> QED
    BY <2>1, <2>2, PosedIs DEF ExerciseInv
<1>3. CASE GeneratePostflopScenario
  <2> DEFINE flop == Fresh("flop", 100 * BigBlind - BigBlind)
  <2>1. exercise' = Posed(flop, NoDecision) /\ hero' = {flop.toAct}
    BY <1>3, FlopIsReached DEF GeneratePostflopScenario, Exercise, Posed
  <2>2. 100 * BigBlind - BigBlind \in 1 .. 100 * BigBlind
    BY DEF BigBlind
  <2>3. UsersTurn(flop)
    BY <2>2 DEF UsersTurn
  <2> HIDE DEF flop
  <2>4. flop.toAct = SeatAt(1, 1)
    BY <2>3, UsersTurnIs
  <2> QED
    BY <2>1, <2>3, <2>4, PosedIs DEF ExerciseInv
<1>4. ASSUME NEW type \in ActionTypes, NEW amount \in Amounts, DecideHand(type, amount)
      PROVE  ExerciseInv'
  <2> DEFINE h == exercise.hand
             d == exercise.decision
             context == Context(h)
             e == [type |-> type, amount |-> amount, street |-> context.street,
                   equity |-> HasEquity(context)]
  <2>1. /\ exercise # NoExercise /\ hero' = hero
        /\ exercise' = [exercise EXCEPT !.decision = e]
    BY <1>4 DEF DecideHand
  <2> HIDE DEF e, h, d, context
  <2>2. exercise = Posed(h, d)
    BY <2>1 DEF ExerciseInv, h, d
  <2>3. exercise' = Posed(h, e)
    BY <2>1, <2>2, DecisionIsKept
  <2>4. \/ h = FoldedAt(ToButton) /\ hero = {}
        \/ UsersTurn(h) /\ hero = {SeatAt(1, 1)}
    BY <2>1 DEF ExerciseInv, h
  <2>5. exercise' # NoExercise /\ exercise'.hand = h /\ exercise'.decision = e
    BY <2>3, PosedIs
  <2> QED
    BY <2>1, <2>3, <2>4, <2>5 DEF ExerciseInv
<1>5. CASE PlayOn
  <2> DEFINE h == exercise.hand
             d == exercise.decision
             next == Settled(SubmitAction(h, d.type, d.amount), h.round)
  <2>1. /\ exercise # NoExercise /\ h.round # "preflop"
        /\ h.round = "river" \/ IsLegal(h, h.toAct, d.type, d.amount)
        /\ IF h.round = "river" \/ d.type = "fold" \/ next.round \notin BettingNow
             THEN exercise' = NoExercise /\ hero' = {}
             ELSE exercise' = Exercise(next) /\ hero' = hero \cup {next.toAct}
    BY <1>5 DEF PlayOn
  <2>2. UsersTurn(h) /\ hero = {SeatAt(1, 1)}
    <3>1. h # FoldedAt(ToButton)
      BY <2>1, ButtonDecides
    <3> QED
      BY <2>1, <3>1 DEF ExerciseInv
  <2> HIDE DEF h, d
  <2>3. CASE h.round = "river" \/ d.type = "fold" \/ next.round \notin BettingNow
    BY <2>1, <2>3 DEF ExerciseInv
  <2>4. CASE ~(h.round = "river" \/ d.type = "fold" \/ next.round \notin BettingNow)
    <3>1. PICK round \in {"flop", "turn", "river"}, chips \in 1 .. 100 * BigBlind :
            h = Fresh(round, chips)
      BY <2>2 DEF UsersTurn
    <3>2. h.round = round /\ round \in {"flop", "turn"}
      BY <2>4, <3>1, FreshFields
    <3>3. \/ next.round = "showdown"
          \/ \E left \in 1 .. 100 * BigBlind : next = Fresh(NextStreet(round), left)
      BY <2>1, <2>4, <3>1, <3>2, StreetIsSettled
    <3> HIDE DEF next
    <3>4. next.round # "showdown"
      BY <2>4 DEF BettingNow
    <3>5. NextStreet(round) \in {"turn", "river"}
      BY <3>2 DEF NextStreet
    <3>6. UsersTurn(next)
      BY <3>3, <3>4, <3>5 DEF UsersTurn
    <3>7. next.toAct = SeatAt(1, 1)
      BY <3>6, UsersTurnIs
    <3>8. exercise' = Posed(next, NoDecision) /\ hero' = {SeatAt(1, 1)}
      BY <2>1, <2>2, <2>4, <3>7 DEF Exercise, Posed
    <3> QED
      BY <3>6, <3>8, PosedIs DEF ExerciseInv
  <2> QED
    BY <2>3, <2>4
<1> QED
  BY <1>1, <1>2, <1>3, <1>4, <1>5 DEF ExerciseNext

-----------------------------------------------------------------------------
(* Theorems *)

\* Every hand the trainer stores is one of those it means to generate: it is
\* decision-ready, and none of the throws behind the loops is reached
\* (generateScenario, generatePostflopScenario, continuePostflopScenario).
THEOREM ScenariosAreKnown == ExerciseSpec => []ExerciseInv
<1>1. ExerciseInit => ExerciseInv
  BY DEF ExerciseInit, ExerciseInv
<1>2. ExerciseInv /\ [ExerciseNext]_exVars => ExerciseInv'
  BY ExerciseInvStep
<1> QED
  BY <1>1, <1>2, PTL DEF ExerciseSpec

\* From the flop to the river the same seat decides, with the street's board, all
\* the others left against it and everybody in for the same.
THEOREM HandHasOneHero == ExerciseSpec => []OneHeroPerHand
<1>1. ASSUME ExerciseInv PROVE OneHeroPerHand
  <2>1. CASE hero = {}
    BY <2>1, FS_EmptySet DEF OneHeroPerHand
  <2>2. CASE hero # {}
    <3> DEFINE h == exercise.hand
    <3>1. UsersTurn(h) /\ hero = {SeatAt(1, 1)}
      BY <1>1, <2>2 DEF ExerciseInv
    <3> HIDE DEF h
    <3>2. /\ h.toAct \in hero
          /\ h.round \in {"flop", "turn", "river"} /\ h.board = BoardAt(h.round)
          /\ NonFolded(h) = Seats /\ hero = {h.toAct}
          /\ \A s, t \in Seats : h.total[s] = h.total[t]
      BY <3>1, UsersTurnIs
    <3>3. StreetForBoard(h.board) = h.round
      BY <3>2 DEF StreetForBoard, BoardAt
    <3>4. Context(h).street = h.round /\ Context(h).opponents = Seats \ hero
      BY <3>2, <3>3 DEF Context
    <3>5. Cardinality(hero) = 1
      BY <3>1, FS_Singleton
    <3> QED
      BY <3>2, <3>4, <3>5 DEF OneHeroPerHand, h
  <2> QED
    BY <2>1, <2>2
<1> QED
  BY <1>1, ScenariosAreKnown, PTL

\* The loops that play the other seats stop where the code expects them to, for
\* any number of seats: the folds at the button before the flop, with legal folds
\* on the way, the calls on a flop of three cards with everybody in.
THEOREM LoopsStopWhereExpected ==
  /\ LET h == FoldToButton(HundredBB)
     IN  h.toAct = 1 /\ h.round = "preflop" /\ h.board = 0
  /\ \A k \in 0 .. ToButton - 1 :
       IsLegal(FoldedAt(k), FoldedAt(k).toAct, "fold", 0)
  /\ LET h == CallDown(HundredBB, "preflop")
     IN  h.toAct \in Seats /\ h.round = "flop" /\ h.board = 3 /\ NonFolded(h) = Seats
<1>1. FoldToButton(HundredBB) = FoldedAt(ToButton)
  BY ButtonIsReached
<1>2. ASSUME NEW k \in 0 .. ToButton - 1
      PROVE  IsLegal(FoldedAt(k), FoldedAt(k).toAct, "fold", 0)
  <2>1. k \in 0 .. N - 1 /\ k < ToButton
    BY ToButtonIs, NAssumption
  <2> QED
    BY <2>1, FoldPasses
<1>3. CallDown(HundredBB, "preflop") = Fresh("flop", 100 * BigBlind - BigBlind)
  BY FlopIsReached
<1>4. 100 * BigBlind - BigBlind \in 1 .. 100 * BigBlind
  BY DEF BigBlind
<1> DEFINE flop == Fresh("flop", 100 * BigBlind - BigBlind)
<1>5. UsersTurn(flop) /\ flop.round = "flop"
  BY <1>4, FreshFields DEF UsersTurn
<1> HIDE DEF flop
<1>6. /\ flop.toAct \in Seats /\ flop.round = "flop" /\ flop.board = 3
      /\ NonFolded(flop) = Seats
  BY <1>5, UsersTurnIs DEF BoardAt
<1> QED
  BY <1>1, <1>2, <1>3, <1>6, ButtonDecides DEF flop

===============================================================================
