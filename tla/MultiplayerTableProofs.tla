------------------------ MODULE MultiplayerTableProofs ------------------------
(***************************************************************************)
(* Theorems about MultiplayerTable, in three parts.                        *)
(*                                                                         *)
(* Actions and their rows: at most one accepted action per state of the    *)
(* table, decided on that state, and rows that never break the unique      *)
(* indexes, for any roster and any number of requests, deliveries,         *)
(* departures and hands. Nothing there depends on the rules of poker. The  *)
(* invariant ties the counters together.  A row's version is at most the   *)
(* table's, so a commit, which adds one, records a version of its own; the *)
(* hand's version equals the table's, so a request that matches one was    *)
(* sent at the other; and the sequence numbers of the current hand stay    *)
(* between minus the refusals and the moves counted so far.                *)
(*                                                                         *)
(* The refinement: MultiplayerTable implements CommandLog. The argument    *)
(* needs the shape of two rows besides; every step is then a command on    *)
(* its way or forgotten, an entry of the log, a departure, or nothing.     *)
(*                                                                         *)
(* The hands, for any number of members, any stacks and any moves: whose   *)
(* turn it is, who plays on, and that no chip appears and nobody who is    *)
(* out comes back, through every interleaving of requests, folds of the    *)
(* reaper, departures and deals. These hold of a room that nobody left     *)
(* before it started, so that its members sit in seats 1 .. N (Gapless).   *)
(* The invariant says that the hand of an open table is a hand InPlay (see *)
(* PokerEngineProofs) with two seats in it, and relates the hand's seats   *)
(* to the rows: a seat that has not folded belongs to a participant that   *)
(* is eligible, an eligible participant of an open table is a member, and  *)
(* the seat of one that is out holds no more than its row says.            *)
(***************************************************************************)
EXTENDS MultiplayerTable, PokerEngineProofs

\* The table row has its four columns; the counters agree.
CountersInv ==
  /\ table = [status |-> table.status, version |-> table.version,
              handNumber |-> table.handNumber, dealer |-> table.dealer]
  /\ table.version \in Nat
  /\ table.handNumber \in Nat \ {0}
  /\ handRow.version = table.version
  /\ handRow.moves \in Nat

\* What is sent, admitted and about to be reaped.
CallsInv ==
  /\ IsFiniteSet(sent)
  /\ \A r \in sent : r.user \in Users /\ r.id \in Nat \ {0}
  /\ \A r \in reaping : r.user \in Users /\ r.id \in Int /\ r.id < 0
  /\ \A r \in admitted : r.user \in Users /\ r.id \in Int /\ (r.id > 0 => r \in sent)

\* The rows recorded so far against the counters.
RowsInv ==
  /\ IsFiniteSet(actions)
  /\ \A a \in actions :
       /\ a \in RowType
       /\ a.hand <= table.handNumber
       /\ a.accepted => a.version <= table.version
       /\ a.hand = table.handNumber =>
            IF a.accepted THEN 1 <= a.seq /\ a.seq <= handRow.moves
                          ELSE -Cardinality(RejectedRows) <= a.seq /\ a.seq <= -1

IInv == /\ CountersInv
        /\ CallsInv
        /\ RowsInv
        /\ OneActionPerVersion
        /\ ActsOnTheStateSeen
        /\ RowsAreUnique

-----------------------------------------------------------------------------
(* The steps *)

\* The first hand of a table satisfies the invariant.
LEMMA InitIInv == Init => IInv
<1> SUFFICES ASSUME Init PROVE IInv
  OBVIOUS
<1>1. CountersInv
  BY DEF Init, CountersInv, NewHand
<1>2. actions = {} /\ sent = {} /\ reaping = {} /\ admitted = {}
  BY DEF Init
<1>3. CallsInv
  BY <1>2, FS_EmptySet DEF CallsInv
<1>4. RowsInv
  BY <1>2, FS_EmptySet DEF RowsInv
<1> QED
  BY <1>1, <1>2, <1>3, <1>4 DEF IInv, OneActionPerVersion, ActsOnTheStateSeen,
     RowsAreUnique

\* A step that leaves the rows alone keeps what is said of them; a request
\* once sent stays sent.
LEMMA RowsUntouched ==
  ASSUME IInv, UNCHANGED <<table, handRow, actions>>, sent \subseteq sent', CallsInv'
  PROVE  IInv'
<1>1. CountersInv'
  BY DEF IInv, CountersInv
<1>2. RejectedRows' = RejectedRows
  BY DEF RejectedRows
<1>3. RowsInv'
  BY <1>2 DEF IInv, RowsInv
<1>4. OneActionPerVersion' /\ RowsAreUnique'
  BY DEF IInv, OneActionPerVersion, RowsAreUnique
<1>5. ActsOnTheStateSeen'
  <2>1. \A a \in actions : a.accepted /\ a.id > 0 =>
          \E r \in sent : /\ r.id = a.id /\ r.user = a.user
                          /\ r.hand = a.hand /\ r.version + 1 = a.version
    BY DEF IInv, ActsOnTheStateSeen
  <2> QED
    BY <2>1 DEF ActsOnTheStateSeen
<1> QED
  BY <1>1, <1>3, <1>4, <1>5 DEF IInv

\* Whatever the commit did to the hand, the table's version and the hand's
\* went up by one together, and a new hand counts its moves from zero.
LEMMA NextRowsCount ==
  ASSUME CountersInv, NEW h, NEW moves \in Nat, NEW completed, NEW eligible, NEW left,
         NextRows(h, moves, completed, eligible, left)
  PROVE  /\ CountersInv'
         /\ table'.version = table.version + 1
         /\ \/ table'.handNumber = table.handNumber /\ handRow'.moves = moves
            \/ table'.handNumber = table.handNumber + 1 /\ handRow'.moves = 0
<1>1. CASE PlayOn(h, moves, completed)
  <2>1. /\ handRow'.version = handRow.version + 1 /\ handRow'.moves = moves
        /\ table' = [table EXCEPT !.version = @ + 1,
                                  !.status = IF completed THEN "CLOSED" ELSE @]
    BY <1>1 DEF PlayOn
  <2>2. /\ table' = [status |-> table'.status, version |-> table.version + 1,
                     handNumber |-> table.handNumber, dealer |-> table.dealer]
    BY <2>1 DEF CountersInv
  <2> QED
    BY <2>1, <2>2 DEF CountersInv
<1>2. ASSUME NEW stacks, NEW dealer, DealNext(stacks, dealer)
      PROVE  /\ CountersInv'
             /\ table'.version = table.version + 1
             /\ table'.handNumber = table.handNumber + 1 /\ handRow'.moves = 0
  <2>1. /\ handRow'.version = table.version + 1 /\ handRow'.moves = 0
        /\ table' = [table EXCEPT !.version = @ + 1, !.handNumber = @ + 1,
                                  !.dealer = dealer]
    BY <1>2 DEF DealNext, NewHand
  <2>2. /\ table' = [status |-> table.status, version |-> table.version + 1,
                     handNumber |-> table.handNumber + 1, dealer |-> dealer]
    BY <2>1 DEF CountersInv
  <2>3. /\ table'.version = table.version + 1
        /\ table'.handNumber = table.handNumber + 1
        /\ table' = [status |-> table'.status, version |-> table'.version,
                     handNumber |-> table'.handNumber, dealer |-> table'.dealer]
    BY <2>2
  <2>4. table.version \in Nat /\ table.handNumber \in Nat
    BY DEF CountersInv
  <2> QED
    BY <2>1, <2>3, <2>4 DEF CountersInv
<1> QED
  BY <1>1, <1>2 DEF NextRows

\* A refusal is recorded under a request id and a sequence number of its own.
LEMMA CommitIllegalKeeps ==
  ASSUME IInv, NEW r \in admitted, CommitIllegal(r)
  PROVE  IInv'
<1> DEFINE row == [user |-> r.user, id |-> r.id, hand |-> table.handNumber,
                   accepted |-> FALSE, version |-> 0,
                   seq |-> -1 - Cardinality(RejectedRows)]
<1>1. /\ ~Recorded(r) /\ actions' = actions \cup {row}
      /\ UNCHANGED <<table, handRow, sent, reaping>> /\ admitted' = admitted \ {r}
  BY DEF CommitIllegal, MayAct
<1>2. CountersInv' /\ CallsInv'
  BY <1>1 DEF IInv, CountersInv, CallsInv
<1>3. IsFiniteSet(RejectedRows) /\ Cardinality(RejectedRows) \in Nat
  <2>1. RejectedRows \in SUBSET actions
    BY DEF RejectedRows
  <2> QED
    BY <2>1, FS_Subset, FS_CardinalityType DEF IInv, RowsInv
<1>4. row \notin actions
  BY <1>1 DEF Recorded
<1>5. row \in RowType
  BY <1>3 DEF IInv, CountersInv, CallsInv, RowType
<1>6. RejectedRows' = RejectedRows \cup {row} /\ row \notin RejectedRows
  BY <1>1, <1>4 DEF RejectedRows
<1>7. Cardinality(RejectedRows') = Cardinality(RejectedRows) + 1
  BY <1>3, <1>6, FS_AddElement
<1>8. RowsInv'
  <2>1. IsFiniteSet(actions')
    BY <1>1, FS_AddElement DEF IInv, RowsInv
  <2>2. ASSUME NEW a \in actions'
        PROVE  /\ a \in RowType
               /\ a.hand <= table.handNumber
               /\ a.accepted => a.version <= table.version
               /\ a.hand = table.handNumber =>
                    IF a.accepted THEN 1 <= a.seq /\ a.seq <= handRow.moves
                    ELSE -Cardinality(RejectedRows') <= a.seq /\ a.seq <= -1
    <3>1. CASE a \in actions
      <4>1. a.seq \in Int
        BY <3>1 DEF IInv, RowsInv, RowType
      <4> QED
        BY <1>3, <1>7, <3>1, <4>1 DEF IInv, RowsInv
    <3>2. CASE a = row
      BY <1>3, <1>5, <1>7, <3>2 DEF IInv, CountersInv
    <3> QED
      BY <1>1, <3>1, <3>2
  <2> QED
    BY <1>1, <2>1, <2>2 DEF RowsInv
<1>9. OneActionPerVersion' /\ ActsOnTheStateSeen'
  BY <1>1 DEF IInv, OneActionPerVersion, ActsOnTheStateSeen
<1>10. RowsAreUnique'
  <2>1. \A a \in actions : ~(a.user = row.user /\ a.id = row.id)
    BY <1>1 DEF Recorded
  <2>2. \A a \in actions : ~(a.hand = row.hand /\ a.seq = row.seq)
    <3>1. ASSUME NEW a \in actions, a.hand = table.handNumber
          PROVE  a.seq # -1 - Cardinality(RejectedRows)
      <4>1. a.seq \in Int /\ a.accepted \in BOOLEAN
        BY DEF IInv, RowsInv, RowType
      <4>2. handRow.moves \in Nat
        BY DEF IInv, CountersInv
      <4> QED
        BY <1>3, <3>1, <4>1, <4>2 DEF IInv, RowsInv
    <3> QED
      BY <3>1
  <2> QED
    BY <1>1, <2>1, <2>2 DEF IInv, RowsAreUnique
<1> QED
  BY <1>2, <1>8, <1>9, <1>10 DEF IInv

\* An accepted action is recorded under the version it leads to, which no row
\* has yet, and under the next move of its hand.
LEMMA CommitAcceptedKeeps ==
  ASSUME IInv, NEW r \in admitted, CommitAccepted(r)
  PROVE  IInv'
<1> DEFINE row == [user |-> r.user, id |-> r.id, hand |-> table.handNumber,
                   accepted |-> TRUE, version |-> table.version + 1,
                   seq |-> handRow.moves + 1]
<1>1. /\ ~Recorded(r) /\ IsCurrent(r) /\ actions' = actions \cup {row}
      /\ UNCHANGED <<sent, reaping>> /\ admitted' = admitted \ {r}
  BY DEF CommitAccepted, MayAct
<1>2. CountersInv
  BY DEF IInv
<1>3. /\ CountersInv'
      /\ table'.version = table.version + 1
      /\ \/ table'.handNumber = table.handNumber /\ handRow'.moves = handRow.moves + 1
         \/ table'.handNumber = table.handNumber + 1 /\ handRow'.moves = 0
  <2>1. PICK h, completed, eligible : NextRows(h, handRow.moves + 1, completed, eligible, {})
    BY DEF CommitAccepted
  <2>2. handRow.moves + 1 \in Nat
    BY <1>2 DEF CountersInv
  <2> QED
    BY <1>2, <2>1, <2>2, NextRowsCount
<1>4. CallsInv'
  BY <1>1 DEF IInv, CallsInv
<1>5. row \in RowType
  BY <1>2 DEF IInv, CountersInv, CallsInv, RowType
<1>6. RowsInv'
  <2>1. IsFiniteSet(actions')
    BY <1>1, FS_AddElement DEF IInv, RowsInv
  <2>2. table'.handNumber = table.handNumber => RejectedRows' = RejectedRows
    BY <1>1 DEF RejectedRows
  <2>3. ASSUME NEW a \in actions'
        PROVE  /\ a \in RowType
               /\ a.hand <= table'.handNumber
               /\ a.accepted => a.version <= table'.version
               /\ a.hand = table'.handNumber =>
                    IF a.accepted THEN 1 <= a.seq /\ a.seq <= handRow'.moves
                    ELSE -Cardinality(RejectedRows') <= a.seq /\ a.seq <= -1
    <3>1. CASE a \in actions
      <4>1. a \in RowType /\ a.seq \in Int /\ a.hand \in Nat /\ a.version \in Nat
        BY <3>1 DEF IInv, RowsInv, RowType
      <4>2. /\ a.hand <= table.handNumber
            /\ a.accepted => a.version <= table.version
            /\ a.hand = table.handNumber =>
                 IF a.accepted THEN 1 <= a.seq /\ a.seq <= handRow.moves
                 ELSE -Cardinality(RejectedRows) <= a.seq /\ a.seq <= -1
        BY <3>1 DEF IInv, RowsInv
      <4> QED
        BY <1>2, <1>3, <2>2, <4>1, <4>2 DEF CountersInv
    <3>2. CASE a = row
      BY <1>2, <1>3, <1>5, <3>2 DEF CountersInv
    <3> QED
      BY <1>1, <3>1, <3>2
  <2> QED
    BY <2>1, <2>3 DEF RowsInv
<1>7. OneActionPerVersion'
  <2>1. ASSUME NEW a \in actions, a.accepted
        PROVE  a.version # table.version + 1
    <3>1. a.version \in Nat /\ a.version <= table.version
      BY <2>1 DEF IInv, RowsInv, RowType
    <3> QED
      BY <1>2, <3>1 DEF CountersInv
  <2>2. ASSUME NEW a \in actions', NEW b \in actions',
               a.accepted, b.accepted, a.version = b.version
        PROVE  a = b
    <3>1. CASE a \in actions /\ b \in actions
      BY <2>2, <3>1 DEF IInv, OneActionPerVersion
    <3>2. CASE a = row \/ b = row
      <4>1. row.version = table.version + 1
        OBVIOUS
      <4> QED
        BY <1>1, <2>1, <2>2, <3>2, <4>1
    <3> QED
      BY <1>1, <3>1, <3>2
  <2> QED
    BY <2>2 DEF OneActionPerVersion
<1>8. ActsOnTheStateSeen'
  <2>1. row.id > 0 => /\ r \in sent /\ r.id = row.id /\ r.user = row.user
                      /\ r.hand = row.hand /\ r.version + 1 = row.version
    BY <1>1, <1>2 DEF IInv, CallsInv, IsCurrent, CountersInv
  <2> QED
    BY <1>1, <2>1 DEF IInv, ActsOnTheStateSeen
<1>9. RowsAreUnique'
  <2>1. \A a \in actions : ~(a.user = row.user /\ a.id = row.id)
    BY <1>1 DEF Recorded
  <2>2. \A a \in actions : ~(a.hand = row.hand /\ a.seq = row.seq)
    <3>1. ASSUME NEW a \in actions, a.hand = table.handNumber
          PROVE  a.seq # handRow.moves + 1
      <4>1. a.seq \in Int /\ a.accepted \in BOOLEAN
        BY DEF IInv, RowsInv, RowType
      <4>2. handRow.moves \in Nat
        BY <1>2 DEF CountersInv
      <4> QED
        BY <3>1, <4>1, <4>2 DEF IInv, RowsInv
    <3> QED
      BY <3>1
  <2> QED
    BY <1>1, <2>1, <2>2 DEF IInv, RowsAreUnique
<1> QED
  BY <1>3, <1>4, <1>6, <1>7, <1>8, <1>9 DEF IInv

\* A departure moves the versions on without a row, and perhaps the moves.
LEMMA AbandonKeeps ==
  ASSUME IInv, NEW u \in Users, Abandon(u)
  PROVE  IInv'
<1>1. UNCHANGED <<actions, sent, reaping, admitted>>
  BY DEF Abandon
<1>2. CountersInv
  BY DEF IInv
<1> DEFINE moves == handRow.moves + (IF handRow.state.toAct = SeatOf[u] THEN 1 ELSE 0)
<1>3. PICK h, completed, eligible : NextRows(h, moves, completed, eligible, {u})
  BY DEF Abandon
<1>4. moves \in Nat /\ moves >= handRow.moves
  BY <1>2 DEF CountersInv
<1> HIDE DEF moves
<1>5. /\ CountersInv'
      /\ table'.version = table.version + 1
      /\ \/ table'.handNumber = table.handNumber /\ handRow'.moves = moves
         \/ table'.handNumber = table.handNumber + 1 /\ handRow'.moves = 0
  BY <1>2, <1>3, <1>4, NextRowsCount
<1>6. CallsInv'
  BY <1>1 DEF IInv, CallsInv
<1>7. RowsInv'
  <2>1. table'.handNumber = table.handNumber => RejectedRows' = RejectedRows
    BY <1>1 DEF RejectedRows
  <2>2. ASSUME NEW a \in actions
        PROVE  /\ a \in RowType
               /\ a.hand <= table'.handNumber
               /\ a.accepted => a.version <= table'.version
               /\ a.hand = table'.handNumber =>
                    IF a.accepted THEN 1 <= a.seq /\ a.seq <= handRow'.moves
                    ELSE -Cardinality(RejectedRows') <= a.seq /\ a.seq <= -1
    <3>1. a \in RowType /\ a.seq \in Int /\ a.hand \in Nat /\ a.version \in Nat
      BY DEF IInv, RowsInv, RowType
    <3>2. /\ a.hand <= table.handNumber
          /\ a.accepted => a.version <= table.version
          /\ a.hand = table.handNumber =>
               IF a.accepted THEN 1 <= a.seq /\ a.seq <= handRow.moves
               ELSE -Cardinality(RejectedRows) <= a.seq /\ a.seq <= -1
      BY DEF IInv, RowsInv
    <3> QED
      BY <1>2, <1>4, <1>5, <2>1, <3>1, <3>2 DEF CountersInv
  <2> QED
    BY <1>1, <2>2 DEF IInv, RowsInv
<1>8. OneActionPerVersion' /\ ActsOnTheStateSeen' /\ RowsAreUnique'
  BY <1>1 DEF IInv, OneActionPerVersion, ActsOnTheStateSeen, RowsAreUnique
<1> QED
  BY <1>5, <1>6, <1>7, <1>8 DEF IInv

\* Every step of the table preserves the invariant.
LEMMA NextIInv == IInv /\ [Next]_vars => IInv'
<1> SUFFICES ASSUME IInv, [Next]_vars PROVE IInv'
  OBVIOUS
<1>1. ASSUME NEW u \in Users, NEW move \in Moves, Send(u, move)
      PROVE  IInv'
  <2> DEFINE r == [user |-> u, hand |-> table.handNumber, version |-> table.version,
                   move |-> move, id |-> Cardinality(sent) + 1]
  <2>1. sent' = sent \cup {r} /\ UNCHANGED <<table, handRow, actions, reaping, admitted>>
    BY <1>1 DEF Send
  <2>2. r.user \in Users /\ r.id \in Nat \ {0}
    BY FS_CardinalityType DEF IInv, CallsInv
  <2>3. IsFiniteSet(sent')
    BY <2>1, FS_AddElement DEF IInv, CallsInv
  <2> HIDE DEF r
  <2>4. CallsInv'
    BY <2>1, <2>2, <2>3 DEF IInv, CallsInv
  <2> QED
    BY <2>1, <2>4, RowsUntouched
<1>2. ASSUME NEW r \in sent \cup reaping, Admit(r)
      PROVE  IInv'
  <2>1. /\ admitted' = admitted \cup {r} /\ reaping' = reaping \ {r}
        /\ UNCHANGED <<table, handRow, actions, sent>>
    BY <1>2 DEF Admit
  <2>2. r.user \in Users /\ r.id \in Int /\ (r.id > 0 => r \in sent)
    BY <1>2 DEF IInv, CallsInv
  <2>3. CallsInv'
    BY <2>1, <2>2 DEF IInv, CallsInv
  <2> QED
    BY <2>1, <2>3, RowsUntouched
<1>3. ASSUME NEW r \in reaping, ReapRefused(r)
      PROVE  IInv'
  <2>1. reaping' = reaping \ {r} /\ UNCHANGED <<table, handRow, actions, sent, admitted>>
    BY <1>3 DEF ReapRefused
  <2>2. CallsInv'
    BY <2>1 DEF IInv, CallsInv
  <2> QED
    BY <2>1, <2>2, RowsUntouched
<1>4. ASSUME NEW r \in admitted, Commit(r)
      PROVE  IInv'
  <2>1. CASE CommitRefused(r)
    <3>1. admitted' = admitted \ {r} /\ UNCHANGED <<table, handRow, actions, sent, reaping>>
      BY <2>1 DEF CommitRefused
    <3>2. CallsInv'
      BY <3>1 DEF IInv, CallsInv
    <3> QED
      BY <3>1, <3>2, RowsUntouched
  <2> QED
    BY <1>4, <2>1, CommitIllegalKeeps, CommitAcceptedKeeps DEF Commit
<1>5. ASSUME NEW u \in Users,
             \/ AdmitAbandon(u) \/ AbandonRefused(u) \/ Connect(u)
             \/ Disconnect(u) \/ GraceExpires(u)
      PROVE  IInv'
  <2>1. UNCHANGED <<table, handRow, actions, sent, reaping, admitted>>
    BY <1>5 DEF AdmitAbandon, AbandonRefused, Connect, Disconnect, GraceExpires, SetPresence
  <2>2. CallsInv'
    BY <2>1 DEF IInv, CallsInv
  <2> QED
    BY <2>1, <2>2, RowsUntouched
<1>6. ASSUME NEW u \in Users, Reap(u)
      PROVE  IInv'
  <2>1. /\ reaping' = reaping \cup {TimeoutFold(u)}
        /\ UNCHANGED <<table, handRow, actions, sent, admitted>>
    BY <1>6 DEF Reap
  <2>2. TimeoutFold(u).user \in Users /\ TimeoutFold(u).id \in Int /\ TimeoutFold(u).id < 0
    BY DEF TimeoutFold, Timeout, IInv, CountersInv
  <2>3. CallsInv'
    BY <2>1, <2>2 DEF IInv, CallsInv
  <2> QED
    BY <2>1, <2>3, RowsUntouched
<1>7. CASE UNCHANGED vars
  <2>1. CallsInv'
    BY <1>7 DEF vars, IInv, CallsInv
  <2> QED
    BY <1>7, <2>1, RowsUntouched DEF vars
<1> QED
  BY <1>1, <1>2, <1>3, <1>4, <1>5, <1>6, <1>7, AbandonKeeps, BoundsAssumption DEF Next

\* The invariant holds in every state of every table.
LEMMA Invariance == Spec => []IInv
BY InitIInv, NextIInv, PTL DEF Spec

-----------------------------------------------------------------------------
(* The theorems *)

\* The version clients send back and the version act compares never part.
THEOREM VersionsAgree == Spec => []VersionsInStep
<1>1. IInv => VersionsInStep
  BY DEF IInv, CountersInv, VersionsInStep
<1> QED
  BY <1>1, Invariance, PTL

\* One state of a table is followed by at most one accepted action, however
\* many requests were sent for it and however often they are delivered.
THEOREM AtMostOneAction == Spec => []OneActionPerVersion
<1>1. IInv => OneActionPerVersion
  BY DEF IInv
<1> QED
  BY <1>1, Invariance, PTL

\* What is accepted from a client was sent for the state it changes.
THEOREM ActionsAreNeverStale == Spec => []ActsOnTheStateSeen
<1>1. IInv => ActsOnTheStateSeen
  BY DEF IInv
<1> QED
  BY <1>1, Invariance, PTL

\* No commit ever breaks a unique index of table_actions.
THEOREM IndexesHold == Spec => []RowsAreUnique
<1>1. IInv => RowsAreUnique
  BY DEF IInv
<1> QED
  BY <1>1, Invariance, PTL

-----------------------------------------------------------------------------
(* The table implements CommandLog *)

\* The columns that the log reads are there.
ShapeInv == /\ room = [status |-> room.status, members |-> room.members]
            /\ table.status \in {"ACTIVE", "CLOSED"}

RInv == IInv /\ ShapeInv

\* A commit opens no table.
LEMMA NextRowsStatus ==
  ASSUME CountersInv, NEW h, NEW moves, NEW completed, NEW eligible, NEW left,
         NextRows(h, moves, completed, eligible, left)
  PROVE  table'.status \in {table.status, "CLOSED"}
<1>1. CASE PlayOn(h, moves, completed)
  <2>1. table'.status = IF completed THEN "CLOSED" ELSE table.status
    BY <1>1 DEF PlayOn, CountersInv
  <2> QED
    BY <2>1
<1>2. ASSUME NEW stacks, NEW dealer, DealNext(stacks, dealer)
      PROVE  table'.status = table.status
  BY <1>2 DEF DealNext, CountersInv
<1> QED
  BY <1>1, <1>2 DEF NextRows

\* An accepted action moves the table on by one version and leaves the room.
LEMMA AcceptedRows ==
  ASSUME IInv, NEW r \in admitted, CommitAccepted(r)
  PROVE  /\ UNCHANGED room
         /\ table'.version = table.version + 1
         /\ table'.status \in {table.status, "CLOSED"}
<1>1. PICK h, completed, eligible : NextRows(h, handRow.moves + 1, completed, eligible, {})
  BY DEF CommitAccepted
<1>2. CountersInv /\ handRow.moves + 1 \in Nat
  BY DEF IInv, CountersInv
<1> QED
  BY <1>1, <1>2, NextRowsCount, NextRowsStatus DEF CommitAccepted

\* A departure moves it on too, and takes away who leaves, or everybody.
LEMMA AbandonRows ==
  ASSUME RInv, NEW u \in Users, Abandon(u)
  PROVE  /\ room' = [status |-> room'.status, members |-> room'.members]
         /\ room'.members \in {room.members \ {u}, {}}
         /\ table'.version = table.version + 1
         /\ table'.status \in {table.status, "CLOSED"}
<1>1. room' \in {[status |-> "CLOSED", members |-> {}],
                 [room EXCEPT !.members = @ \ {u}]}
  BY DEF Abandon
<1>2. \E moves \in Nat : \E h, completed, eligible :
        NextRows(h, moves, completed, eligible, {u})
  <2>1. handRow.moves + (IF handRow.state.toAct = SeatOf[u] THEN 1 ELSE 0) \in Nat
    BY DEF RInv, IInv, CountersInv
  <2> QED
    BY <2>1 DEF Abandon
<1>3. PICK moves \in Nat : \E h, completed, eligible :
        NextRows(h, moves, completed, eligible, {u})
  BY <1>2
<1>4. PICK h, completed, eligible : NextRows(h, moves, completed, eligible, {u})
  BY <1>3
<1>5. CountersInv
  BY DEF RInv, IInv
<1>6. /\ table'.version = table.version + 1
      /\ table'.status \in {table.status, "CLOSED"}
  BY <1>4, <1>5, NextRowsCount, NextRowsStatus
<1>7. [room EXCEPT !.members = @ \ {u}]
        = [status |-> room.status, members |-> room.members \ {u}]
  BY DEF RInv, ShapeInv
<1> QED
  BY <1>1, <1>6, <1>7

\* Other steps leave the room, and the table's row.
LEMMA OtherRows ==
  ASSUME [Next]_vars,
         ~ \E r \in admitted : CommitAccepted(r),
         ~ \E u \in Users : Abandon(u)
  PROVE  UNCHANGED <<room, table>>
<1>1. ASSUME Next PROVE UNCHANGED <<room, table>>
  BY <1>1, BoundsAssumption DEF Next, Send, Admit, ReapRefused, Commit, CommitRefused,
     CommitIllegal, AdmitAbandon, AbandonRefused, Connect, Disconnect, GraceExpires,
     SetPresence, Reap
<1> QED
  BY <1>1 DEF vars

\* The rows keep their shape.
LEMMA RInvHolds == Spec => []RInv
<1>1. Init => ShapeInv
  BY DEF Init, ShapeInv
<1>2. RInv /\ [Next]_vars => ShapeInv'
  <2> SUFFICES ASSUME RInv, [Next]_vars PROVE ShapeInv'
    OBVIOUS
  <2>1. ASSUME NEW r \in admitted, CommitAccepted(r) PROVE ShapeInv'
    BY <2>1, AcceptedRows DEF RInv, ShapeInv
  <2>2. ASSUME NEW u \in Users, Abandon(u) PROVE ShapeInv'
    BY <2>2, AbandonRows DEF RInv, ShapeInv
  <2>3. CASE UNCHANGED <<room, table>>
    BY <2>3 DEF RInv, ShapeInv
  <2> QED
    BY <2>1, <2>2, <2>3, OtherRows
<1> QED
  BY <1>1, <1>2, Invariance, PTL DEF Spec, RInv

-----------------------------------------------------------------------------
(* The steps, as steps of the log *)

Asked   == {Command(r, r.version) : r \in sent \cup reaping \cup admitted}
Entries == {Command(a, a.version - 1) : a \in {b \in actions : b.accepted}}

\* The accepted action was on its way, for the state it is applied to.
LEMMA CommitApplies ==
  ASSUME RInv, NEW r \in admitted, CommitAccepted(r)
  PROVE  \E e \in Asked : Log!Apply(e)
<1> DEFINE row == [user |-> r.user, id |-> r.id, hand |-> table.handNumber,
                   accepted |-> TRUE, version |-> table.version + 1,
                   seq |-> handRow.moves + 1]
           e   == Command(r, r.version)
<1>1. /\ ~Recorded(r) /\ IsCurrent(r) /\ table.status # "CLOSED"
      /\ actions' = actions \cup {row}
      /\ UNCHANGED <<sent, reaping>> /\ admitted' = admitted \ {r}
  BY DEF CommitAccepted, MayAct
<1>2. r.version = table.version /\ table.version \in Nat
  BY <1>1 DEF RInv, IInv, CountersInv, IsCurrent
<1>3. /\ UNCHANGED room /\ table'.version = table.version + 1
      /\ table'.status \in {table.status, "CLOSED"}
  BY AcceptedRows DEF RInv
<1>4. Running /\ e.on = table.version /\ e.who = r.user /\ e.id = r.id
  BY <1>1, <1>2 DEF RInv, ShapeInv, Running, Command
<1>5. \A f \in Entries : f.who = e.who => f.id # e.id
  BY <1>1, <1>4 DEF Entries, Command, Recorded
<1>6. Entries' = Entries \cup {e}
  <2>1. Command(row, row.version - 1) = e
    BY <1>2 DEF Command
  <2>2. {b \in actions' : b.accepted} = {b \in actions : b.accepted} \cup {row}
    BY <1>1
  <2> HIDE DEF row, e
  <2>3. Entries' = {Command(a, a.version - 1) : a \in {b \in actions' : b.accepted}}
    BY DEF Entries, Command
  <2> QED
    BY <2>1, <2>2, <2>3 DEF Entries
<1>7. e \in Asked
  BY DEF Asked
<1>8. Asked' \subseteq Asked
  BY <1>1 DEF Asked, Command
<1> HIDE DEF e
<1> QED
  BY <1>3, <1>4, <1>5, <1>6, <1>7, <1>8 DEF Log!Apply, Asked, Entries, Running

\* A commit that accepts nothing, and whatever else leaves the table, the room
\* and the accepted rows alone, is a step of the log if it asks for nothing but
\* the state the table is at.
LEMMA QuietStep ==
  ASSUME UNCHANGED <<room, table>>, Entries' = Entries,
         \/ Asked' \subseteq Asked
         \/ \E e \in Asked' : /\ e.who \in Users /\ e.on = table.version
                              /\ Asked' = Asked \cup {e}
  PROVE  [Log!LogNext]_(Log!state)
<1>1. UNCHANGED <<table.version, Running, room.members, Entries>>
  BY DEF Running
<1>2. CASE Asked' \subseteq Asked
  <2>1. Log!Forget
    BY <1>1, <1>2 DEF Log!Forget, Asked, Entries
  <2> QED
    BY <2>1 DEF Log!LogNext
<1>3. CASE \E e \in Asked' : /\ e.who \in Users /\ e.on = table.version
                             /\ Asked' = Asked \cup {e}
  <2>1. Log!Ask
    BY <1>1, <1>3 DEF Log!Ask, Asked, Entries
  <2> QED
    BY <2>1 DEF Log!LogNext
<1> QED
  BY <1>2, <1>3

\* What a step leaves of the rows decides what it is for the log.
LEMMA SameEntries == actions' = actions => Entries' = Entries
BY DEF Entries, Command

LEMMA FewerAsked ==
  (sent \cup reaping \cup admitted)' \subseteq sent \cup reaping \cup admitted
    => Asked' \subseteq Asked
BY DEF Asked, Command

LEMMA OneMoreAsked ==
  ASSUME NEW r, (sent \cup reaping \cup admitted)' = (sent \cup reaping \cup admitted) \cup {r}
  PROVE  Command(r, r.version) \in Asked' /\ Asked' = Asked \cup {Command(r, r.version)}
BY DEF Asked, Command

\* Every step of the table is a step of the log, or none.
LEMMA StepRefines == RInv /\ [Next]_vars => [Log!LogNext]_(Log!state)
<1> SUFFICES ASSUME RInv, [Next]_vars PROVE [Log!LogNext]_(Log!state)
  OBVIOUS
<1>1. ASSUME NEW u \in Users, NEW move \in Moves, Send(u, move)
      PROVE  [Log!LogNext]_(Log!state)
  <2> DEFINE r == [user |-> u, hand |-> table.handNumber, version |-> table.version,
                   move |-> move, id |-> Cardinality(sent) + 1]
  <2>1. sent' = sent \cup {r} /\ UNCHANGED <<room, table, actions, reaping, admitted>>
    BY <1>1 DEF Send
  <2>2. Command(r, r.version).who \in Users /\ Command(r, r.version).on = table.version
    BY DEF Command
  <2> HIDE DEF r
  <2>3. (sent \cup reaping \cup admitted)' = (sent \cup reaping \cup admitted) \cup {r}
    BY <2>1
  <2> QED
    BY <2>1, <2>2, <2>3, OneMoreAsked, SameEntries, QuietStep
<1>2. ASSUME NEW u \in Users, Reap(u)
      PROVE  [Log!LogNext]_(Log!state)
  <2> DEFINE r == TimeoutFold(u)
  <2>1. reaping' = reaping \cup {r} /\ UNCHANGED <<room, table, actions, sent, admitted>>
    BY <1>2 DEF Reap
  <2>2. Command(r, r.version).who \in Users /\ Command(r, r.version).on = table.version
    BY DEF Command, TimeoutFold
  <2> HIDE DEF r
  <2>3. (sent \cup reaping \cup admitted)' = (sent \cup reaping \cup admitted) \cup {r}
    BY <2>1
  <2> QED
    BY <2>1, <2>2, <2>3, OneMoreAsked, SameEntries, QuietStep
<1>3. ASSUME NEW r \in sent \cup reaping, Admit(r) \/ ReapRefused(r)
      PROVE  [Log!LogNext]_(Log!state)
  <2>1. /\ UNCHANGED <<room, table, actions, sent>>
        /\ reaping' \subseteq reaping /\ admitted' \subseteq admitted \cup {r}
    BY <1>3 DEF Admit, ReapRefused
  <2> QED
    BY <1>3, <2>1, FewerAsked, SameEntries, QuietStep
<1>4. ASSUME NEW r \in admitted, CommitRefused(r)
      PROVE  [Log!LogNext]_(Log!state)
  <2>1. UNCHANGED <<room, table, actions, sent, reaping>> /\ admitted' \subseteq admitted
    BY <1>4 DEF CommitRefused
  <2> QED
    BY <2>1, FewerAsked, SameEntries, QuietStep
<1>5. ASSUME NEW r \in admitted, CommitIllegal(r)
      PROVE  [Log!LogNext]_(Log!state)
  <2>1. /\ UNCHANGED <<room, table, sent, reaping>> /\ admitted' \subseteq admitted
        /\ {b \in actions' : b.accepted} = {b \in actions : b.accepted}
    BY <1>5 DEF CommitIllegal
  <2>2. Entries' = Entries
    BY <2>1 DEF Entries, Command
  <2> QED
    BY <2>1, <2>2, FewerAsked, QuietStep
<1>6. ASSUME NEW r \in admitted, CommitAccepted(r)
      PROVE  [Log!LogNext]_(Log!state)
  BY <1>6, CommitApplies DEF Log!LogNext, Asked
<1>7. ASSUME NEW u \in Users, Abandon(u)
      PROVE  [Log!LogNext]_(Log!state)
  <2>1. u \in room.members /\ UNCHANGED <<actions, sent, reaping, admitted>>
    BY <1>7 DEF Abandon, MayLeave
  <2>2. Entries' = Entries /\ Asked' = Asked
    BY <2>1 DEF Entries, Asked, Command
  <2>3. /\ room'.members \in {room.members \ {u}, {}}
        /\ table'.version = table.version + 1
        /\ Running' => Running
    BY <1>7, AbandonRows DEF Running
  <2>4. Log!Depart(u)
    BY <2>1, <2>2, <2>3 DEF Log!Depart, Entries, Asked
  <2> QED
    BY <2>4 DEF Log!LogNext
<1>8. ASSUME NEW u \in Users,
             \/ AdmitAbandon(u) \/ AbandonRefused(u) \/ Connect(u)
             \/ Disconnect(u) \/ GraceExpires(u)
      PROVE  [Log!LogNext]_(Log!state)
  <2>1. UNCHANGED <<room, table, actions, sent, reaping, admitted>>
    BY <1>8 DEF AdmitAbandon, AbandonRefused, Connect, Disconnect, GraceExpires, SetPresence
  <2> QED
    BY <2>1, FewerAsked, SameEntries, QuietStep
<1>9. CASE UNCHANGED vars
  <2>1. UNCHANGED <<room, table, actions, sent, reaping, admitted>>
    BY <1>9 DEF vars
  <2> QED
    BY <2>1, FewerAsked, SameEntries, QuietStep
<1> QED
  BY <1>1, <1>2, <1>3, <1>4, <1>5, <1>6, <1>7, <1>8, <1>9, BoundsAssumption DEF Next, Commit

\* The table is a log of commands: act, abandon and the reaper implement what
\* clients may rely on, whatever is retried, delayed or refused.
THEOREM TableImplementsLog == Spec => ImplementsCommandLog
<1>1. Init => Log!LogInit
  BY DEF Init, Log!LogInit, Running, NewHand
<1> QED
  BY <1>1, StepRefines, RInvHolds, PTL DEF Spec, ImplementsCommandLog, Log!LogSpec

-----------------------------------------------------------------------------
(* The hands of a table *)

\* The members' seat numbers have no gap.
Gapless == \A u \in Users : SeatOf[u] \in Seats

-----------------------------------------------------------------------------
(* The roster *)

\* A numbering of the users by the seats they sit in.
Seating ==
  /\ IsFiniteSet(Users)
  /\ \A u \in Users : SeatOf[u] \in Seats /\ HasSeat(u) /\ Position(u) = SeatOf[u]
  /\ \A s \in Seats : InSeat(s) \in Users /\ SeatOf[InSeat(s)] = s
  /\ \A s \in Seats : UserAt(s) \in Users /\ SeatOf[UserAt(s)] = s
  /\ \A u, v \in Users : SeatOf[u] = SeatOf[v] => u = v

\* N members without a gap sit in the seats 1 .. N, one in each, and are dealt
\* the seats they sit in.
LEMMA EverySeatTaken == Gapless => Seating
<1> SUFFICES ASSUME Gapless PROVE Seating
  OBVIOUS
<1>1. SeatOf \in [Users -> Seats] /\ \A u, v \in Users : SeatOf[u] = SeatOf[v] => u = v
  BY RosterAssumption DEF Gapless
<1>2. Seats = 1 .. N /\ N \in Nat /\ IsFiniteSet(Seats) /\ Cardinality(Seats) = N
  BY SeatNumbers, FS_Interval
<1>3. SeatOf \in Injection(Users, Seats)
  BY <1>1 DEF Injection, IsInjective
<1>4. IsFiniteSet(Users) /\ SeatOf \in Surjection(Users, Seats)
  BY <1>2, <1>3, FS_Injection, RosterAssumption
<1>5. \A s \in Seats : \E u \in Users : SeatOf[u] = s
  BY <1>4 DEF Surjection
<1>6. \A s \in Seats : InSeat(s) \in Users /\ SeatOf[InSeat(s)] = s
  BY <1>5 DEF InSeat
<1>7. ASSUME NEW u \in Users
      PROVE  Position(u) = SeatOf[u]
  <2> DEFINE below == {v \in Users : SeatOf[v] <= SeatOf[u]}
             seat == [v \in below |-> SeatOf[v]]
  <2>1. SeatOf[u] \in 1 .. N
    BY <1>1, <1>2
  <2>2. IsFiniteSet(1 .. SeatOf[u]) /\ Cardinality(1 .. SeatOf[u]) = SeatOf[u]
    BY <1>2, <2>1, FS_Interval
  <2>3. seat \in [below -> 1 .. SeatOf[u]]
    BY <1>1, <1>2, <2>1
  <2>4. seat \in Injection(below, 1 .. SeatOf[u])
    BY <1>1, <2>3 DEF Injection, IsInjective
  <2>5. \A k \in 1 .. SeatOf[u] : \E v \in below : seat[v] = k
    BY <1>2, <1>5, <2>1
  <2>6. seat \in Surjection(below, 1 .. SeatOf[u])
    BY <2>3, <2>5 DEF Surjection
  <2>7. Cardinality(below) = SeatOf[u]
    BY <2>2, <2>4, <2>6, FS_Injection
  <2> QED
    BY <2>7 DEF Position
<1>8. \A s \in Seats : UserAt(s) \in Users /\ SeatOf[UserAt(s)] = s
  BY <1>5, <1>7 DEF UserAt
<1> QED
  BY <1>1, <1>4, <1>6, <1>7, <1>8 DEF Seating, HasSeat

\* The next dealer is one of the eligible.
LEMMA NextDealerIsEligible ==
  ASSUME Seating, NEW eligible \in SUBSET Users, eligible # {}, table.dealer \in Seats
  PROVE  NextDealer(eligible) \in eligible
<1> DEFINE from == Position(InSeat(table.dealer))
           far(u) == Dist(from, Position(u))
           all == {far(u) : u \in eligible}
<1>1. from \in Seats /\ \A u \in eligible : far(u) \in Nat
  BY DistType DEF Seating
<1>2. all \subseteq Nat /\ all # {}
  BY <1>1
<1>3. \E n \in all : \A m \in all : n <= m
  BY <1>2, LeastNat
<1>4. \E u \in eligible : \A v \in eligible : far(u) <= far(v)
  BY <1>3
<1> QED
  BY <1>4 DEF NextDealer

-----------------------------------------------------------------------------
(* The invariant *)

\* The hand of an open table, dealt from the stacks st.
Contested(h, st) == InPlay(h, st) /\ Cardinality(NonFolded(h)) > 1

\* The types of the rows that act and abandon change together.
RowTypes ==
  /\ room \in [status : {"STARTED", "CLOSED"}, members : SUBSET Users]
  /\ table \in [status : {"ACTIVE", "CLOSED"}, version : Nat, handNumber : Nat,
                dealer : Seats]
  /\ handRow \in [status : {"ACTIVE", "COMPLETED"}, version : Nat,
                  state : HandType, moves : Nat]
  /\ participants \in [Users -> [stack : Nat, eligible : BOOLEAN,
                                 conn : {"ONLINE", "DISCONNECTED", "ELIMINATED"},
                                 since : {"never", "recent", "expired"}]]
  /\ \A u \in Users : participants[u].conn = "ELIMINATED" <=> ~participants[u].eligible

\* The hand runs while the table is open.
HandPart ==
  /\ Running <=> handRow.status = "ACTIVE"
  /\ Running => \E st \in [Seats -> Nat] : Contested(handRow.state, st)
  /\ ~Running => handRow.state.round = "complete"

\* The seats of the hand and the rows of those who sit in them.
SeatPart ==
  \A u \in Users :
    /\ Running /\ ~handRow.state.folded[SeatOf[u]] => participants[u].eligible
    /\ Running /\ participants[u].eligible => u \in room.members
    /\ ~participants[u].eligible =>
         handRow.state.stack[SeatOf[u]] <= participants[u].stack

\* The calls on their way come from users and ask for numbers of chips.
CallPart ==
  /\ sent \subseteq Requests /\ leaving \subseteq Users
  /\ \A r \in reaping \cup admitted : r.user \in Users /\ r.move.amount \in Nat

RowsPart == RowTypes /\ HandPart /\ SeatPart

TInv == RowsPart /\ CallPart

-----------------------------------------------------------------------------
(* A commit on an open table *)

\* Hand g comes of hand h when the users in left go: who folded stays folded
\* and is paid nothing, and two are left while it runs.
Follows(h, g, left) ==
  /\ \A t \in Seats : h.folded[t] => g.folded[t] /\ g.stack[t] = h.stack[t]
  /\ \A u \in left : g.folded[SeatOf[u]]
  /\ g.round # "complete" => Cardinality(NonFolded(g)) > 1

\* Those who can play the hand after h.
CanPlayOn(h, left) ==
  {u \in Users \ left : participants[u].eligible /\ h.stack[SeatOf[u]] > 0}

\* A commit, of act or of abandon, that makes hand h of the hand in play, which
\* was dealt from the stacks st.
Moved(h, st, moves, completed, left) ==
  /\ Contested(handRow.state, st)
  /\ HandInv(h, st)
  /\ Follows(handRow.state, h, left)
  /\ completed \in BOOLEAN /\ (completed <=> h.round = "complete")
  /\ moves \in Nat
  /\ left \in SUBSET Users
  /\ participants' = ParticipantsAfter(h, completed, left)
  /\ NextRows(h, moves, completed, CanPlayOn(h, left), left)
  /\ room' \in [status : {"STARTED", "CLOSED"}, members : SUBSET Users]
  /\ Running' => room.members \ left \subseteq room'.members

\* What a commit does to the participants' rows.
LEMMA ParticipantsType ==
  ASSUME Seating, RowTypes, NEW h \in HandType, NEW completed \in BOOLEAN,
         NEW left \in SUBSET Users,
         participants' = ParticipantsAfter(h, completed, left)
  PROVE  /\ participants' \in [Users -> [stack : Nat, eligible : BOOLEAN,
                                 conn : {"ONLINE", "DISCONNECTED", "ELIMINATED"},
                                 since : {"never", "recent", "expired"}]]
         /\ \A u \in Users :
              /\ participants'[u].conn = "ELIMINATED" <=> ~participants'[u].eligible
              /\ participants'[u].stack = h.stack[SeatOf[u]]
              /\ participants'[u].eligible <=>
                   /\ participants[u].eligible /\ u \notin left
                   /\ ~(completed /\ h.stack[SeatOf[u]] = 0)
<1> DEFINE paid(u) == [participants[u] EXCEPT !.stack = h.stack[SeatOf[u]]]
           out(u) == u \in left \/ (completed /\ h.stack[SeatOf[u]] = 0)
           R == [stack : Nat, eligible : BOOLEAN,
                 conn : {"ONLINE", "DISCONNECTED", "ELIMINATED"},
                 since : {"never", "recent", "expired"}]
<1>1. participants' = [u \in Users |-> IF out(u) THEN Eliminated(paid(u)) ELSE paid(u)]
  BY DEF ParticipantsAfter, Seating
<1>2. ASSUME NEW u \in Users
      PROVE  /\ participants'[u] = IF out(u) THEN Eliminated(paid(u)) ELSE paid(u)
             /\ participants[u] \in R
             /\ h.stack[SeatOf[u]] \in Nat
             /\ participants[u].conn = "ELIMINATED" <=> ~participants[u].eligible
  BY <1>1 DEF RowTypes, Seating, HandType
<1>3. ASSUME NEW u \in Users
      PROVE  /\ participants'[u] \in R
             /\ participants'[u].conn = "ELIMINATED" <=> ~participants'[u].eligible
             /\ participants'[u].stack = h.stack[SeatOf[u]]
             /\ participants'[u].eligible <=> participants[u].eligible /\ ~out(u)
  <2> HIDE DEF out
  <2>0. /\ paid(u) \in R /\ paid(u).stack = h.stack[SeatOf[u]]
        /\ paid(u).eligible = participants[u].eligible
        /\ paid(u).conn = participants[u].conn
    BY <1>2
  <2>1. CASE out(u)
    <3> HIDE DEF paid
    <3>1. participants'[u] = Eliminated(paid(u))
      BY <1>2, <2>1
    <3>2. participants'[u] = [paid(u) EXCEPT !.eligible = FALSE, !.conn = "ELIMINATED"]
      BY <3>1 DEF Eliminated
    <3> QED
      BY <2>0, <2>1, <3>2
  <2>2. CASE ~out(u)
    <3> HIDE DEF paid, R
    <3>1. participants'[u] = paid(u)
      BY <1>2, <2>2
    <3> QED
      BY <1>2, <2>0, <2>2, <3>1
  <2> QED
    BY <2>1, <2>2
<1> QED
  BY <1>1, <1>3

\* The stacks of the next hand: those of the participants who can play it.
LEMMA StacksForType ==
  ASSUME Seating, RowTypes, NEW h \in HandType, NEW left \in SUBSET Users
  PROVE  /\ StacksFor(h, left) \in [Seats -> Nat]
         /\ \A s \in Seats : StacksFor(h, left)[s] <= h.stack[s]
         /\ \A u \in Users :
              /\ u \in CanPlayOn(h, left) =>
                   StacksFor(h, left)[SeatOf[u]] = h.stack[SeatOf[u]]
              /\ u \notin CanPlayOn(h, left) => StacksFor(h, left)[SeatOf[u]] = 0
<1> DEFINE stays(u) == participants[u].eligible /\ u \notin left /\ HasSeat(u)
<1>1. ASSUME NEW s \in Seats
      PROVE  StacksFor(h, left)[s] =
               IF stays(UserAt(s)) THEN h.stack[SeatOf[UserAt(s)]] ELSE 0
  BY DEF StacksFor
<1>2. StacksFor(h, left) = [s \in Seats |-> StacksFor(h, left)[s]]
  BY DEF StacksFor
<1>3. ASSUME NEW s \in Seats
      PROVE  /\ h.stack[s] \in Nat
             /\ StacksFor(h, left)[s] = IF stays(UserAt(s)) THEN h.stack[s] ELSE 0
  BY <1>1 DEF Seating, HandType
<1>4. ASSUME NEW u \in Users
      PROVE  /\ u \in CanPlayOn(h, left) =>
                   StacksFor(h, left)[SeatOf[u]] = h.stack[SeatOf[u]]
             /\ u \notin CanPlayOn(h, left) => StacksFor(h, left)[SeatOf[u]] = 0
  <2>1. UserAt(SeatOf[u]) = u /\ SeatOf[u] \in Seats /\ HasSeat(u)
    BY DEF Seating
  <2>2. /\ h.stack[SeatOf[u]] \in Nat
        /\ StacksFor(h, left)[SeatOf[u]] = IF stays(u) THEN h.stack[SeatOf[u]] ELSE 0
    BY <1>3, <2>1
  <2>3. u \in CanPlayOn(h, left) <=> stays(u) /\ h.stack[SeatOf[u]] > 0
    BY <2>1 DEF CanPlayOn
  <2> HIDE DEF stays
  <2> QED
    BY <2>2, <2>3
<1>5. \A s \in Seats : StacksFor(h, left)[s] \in Nat /\ StacksFor(h, left)[s] <= h.stack[s]
  <2> HIDE DEF stays
  <2> QED
    BY <1>3
<1>6. StacksFor(h, left) \in [Seats -> Nat]
  BY <1>2, <1>5
<1> QED
  BY <1>4, <1>5, <1>6

\* The next hand is dealt to at least two participants, of whom one deals.
LEMMA DealtFromStacks ==
  ASSUME Seating, RowTypes, NEW h \in HandType, NEW left \in SUBSET Users,
         Cardinality(CanPlayOn(h, left)) >= 2,
         NEW stacks, stacks = StacksFor(h, left),
         NEW dealer, dealer = SeatOf[NextDealer(CanPlayOn(h, left))]
  PROVE  /\ dealer \in Seats
         /\ stacks \in [Seats -> Nat]
         /\ Contested(StartHand(stacks, dealer), stacks)
         /\ StartHand(stacks, dealer).folded = [s \in Seats |-> stacks[s] = 0]
<1> DEFINE eligible == CanPlayOn(h, left)
<1>1. eligible \in SUBSET Users /\ IsFiniteSet(eligible) /\ Cardinality(eligible) \in Nat
  <2>1. eligible \in SUBSET Users
    BY DEF CanPlayOn
  <2> QED
    BY <2>1, FS_Subset, FS_CardinalityType DEF Seating
<1>2. \E u, v \in eligible : u # v
  BY <1>1, NotAlone
<1>3. stacks \in [Seats -> Nat]
  BY StacksForType
<1>4. ASSUME NEW u \in eligible
      PROVE  u \in Users /\ SeatOf[u] \in Seats /\ stacks[SeatOf[u]] > 0
  BY <1>4, StacksForType DEF CanPlayOn, Seating
<1>5. NextDealer(eligible) \in eligible
  <2>1. table.dealer \in Seats /\ eligible # {}
    BY <1>2 DEF RowTypes
  <2> HIDE DEF eligible
  <2> QED
    BY <1>1, <2>1, NextDealerIsEligible
<1>6. dealer \in Seats /\ stacks[dealer] > 0
  BY <1>4, <1>5
<1>7. \E s, t \in Seats : s # t /\ stacks[s] > 0 /\ stacks[t] > 0
  <2>1. PICK u \in eligible, v \in eligible : u # v
    BY <1>2
  <2>2. SeatOf[u] # SeatOf[v]
    BY <1>4, <2>1 DEF Seating
  <2> QED
    BY <1>4, <2>2
<1>8. /\ InPlay(StartHand(stacks, dealer), stacks)
      /\ StartHand(stacks, dealer).folded = [s \in Seats |-> stacks[s] = 0]
  BY <1>3, <1>6, <1>7, StartHandInv
<1>9. Cardinality(NonFolded(StartHand(stacks, dealer))) > 1
  BY <1>3, <1>7, <1>8, TwoAreDealtIn
<1> QED
  BY <1>3, <1>6, <1>8, <1>9 DEF Contested

\* The rows that come of a commit, each by its columns.
LEMMA CommitRows ==
  ASSUME RowTypes, NEW h, NEW moves, NEW completed \in BOOLEAN,
         NEW eligible, NEW left, NextRows(h, moves, completed, eligible, left)
  PROVE  \/ /\ completed /\ Cardinality(eligible) >= 2
            /\ handRow' = NewHand(StacksFor(h, left), SeatOf[NextDealer(eligible)],
                                  table.version + 1)
            /\ table' = [status |-> table.status, version |-> table.version + 1,
                         handNumber |-> table.handNumber + 1,
                         dealer |-> SeatOf[NextDealer(eligible)]]
         \/ /\ ~(completed /\ Cardinality(eligible) >= 2)
            /\ handRow' = [status |-> IF completed THEN "COMPLETED" ELSE handRow.status,
                           version |-> handRow.version + 1, state |-> h, moves |-> moves]
            /\ table' = [status |-> IF completed THEN "CLOSED" ELSE table.status,
                         version |-> table.version + 1,
                         handNumber |-> table.handNumber, dealer |-> table.dealer]
<1>1. table = [status |-> table.status, version |-> table.version,
               handNumber |-> table.handNumber, dealer |-> table.dealer]
  BY DEF RowTypes
<1>2. CASE completed /\ Cardinality(eligible) >= 2
  <2>1. table' = [table EXCEPT !.version = @ + 1, !.handNumber = @ + 1,
                               !.dealer = SeatOf[NextDealer(eligible)]]
        /\ handRow' = NewHand(StacksFor(h, left), SeatOf[NextDealer(eligible)],
                              table.version + 1)
    BY <1>2 DEF NextRows, DealNext
  <2>2. table' = [status |-> table.status, version |-> table.version + 1,
                  handNumber |-> table.handNumber + 1,
                  dealer |-> SeatOf[NextDealer(eligible)]]
    BY <1>1, <2>1
  <2> QED
    BY <1>2, <2>1, <2>2
<1>3. CASE ~(completed /\ Cardinality(eligible) >= 2)
  <2>1. PlayOn(h, moves, completed)
    BY <1>3 DEF NextRows
  <2>2. table' = [table EXCEPT !.version = @ + 1,
                               !.status = IF completed THEN "CLOSED" ELSE @]
    BY <2>1 DEF PlayOn
  <2>3. table' = [status |-> IF completed THEN "CLOSED" ELSE table.status,
                  version |-> table.version + 1,
                  handNumber |-> table.handNumber, dealer |-> table.dealer]
    BY <1>1, <2>2
  <2> QED
    BY <1>3, <2>1, <2>3 DEF PlayOn
<1> QED
  BY <1>2, <1>3

\* After a hand that ended, the rows of the next one.
LEMMA DealKeeps ==
  ASSUME Seating, RowsPart, Running,
         NEW h, NEW st \in [Seats -> Nat], NEW moves, NEW left,
         Moved(h, st, moves, TRUE, left), Cardinality(CanPlayOn(h, left)) >= 2
  PROVE  RowsPart'
<1> DEFINE eligible == CanPlayOn(h, left)
           stacks == StacksFor(h, left)
           dealer == SeatOf[NextDealer(eligible)]
           g == StartHand(stacks, dealer)
<1>1. h \in HandType /\ left \in SUBSET Users /\ RowTypes
  BY DEF Moved, HandInv, InPlay, Live, Over, RowsPart
<1>2. /\ handRow' = NewHand(stacks, dealer, table.version + 1)
      /\ table' = [status |-> table.status, version |-> table.version + 1,
                   handNumber |-> table.handNumber + 1, dealer |-> dealer]
  BY <1>1, CommitRows DEF Moved
<1>3. /\ dealer \in Seats /\ stacks \in [Seats -> Nat] /\ Contested(g, stacks)
      /\ g.folded = [s \in Seats |-> stacks[s] = 0]
  BY <1>1, DealtFromStacks
<1>4. handRow' = [status |-> "ACTIVE", version |-> table.version + 1, state |-> g,
                  moves |-> 0]
  BY <1>2 DEF NewHand
<1>5. g \in HandType /\ \A s \in Seats : g.stack[s] + g.total[s] = stacks[s]
  BY <1>3 DEF Contested, InPlay, Live, Accounted
<1>6. /\ participants' \in [Users -> [stack : Nat, eligible : BOOLEAN,
                                 conn : {"ONLINE", "DISCONNECTED", "ELIMINATED"},
                                 since : {"never", "recent", "expired"}]]
      /\ \A u \in Users :
           /\ participants'[u].conn = "ELIMINATED" <=> ~participants'[u].eligible
           /\ participants'[u].stack = h.stack[SeatOf[u]]
           /\ participants'[u].eligible <=>
                /\ participants[u].eligible /\ u \notin left
                /\ ~(TRUE /\ h.stack[SeatOf[u]] = 0)
  <2>1. participants' = ParticipantsAfter(h, TRUE, left)
    BY DEF Moved
  <2> QED
    BY <1>1, <2>1, ParticipantsType
<1>7. \A u \in Users : /\ u \in eligible => stacks[SeatOf[u]] = h.stack[SeatOf[u]]
                       /\ u \notin eligible => stacks[SeatOf[u]] = 0
  BY <1>1, StacksForType
<1>8. \A u \in Users : u \in eligible <=> participants'[u].eligible
  <2>1. \A u \in Users : h.stack[SeatOf[u]] \in Nat
    BY <1>1 DEF HandType, Seating
  <2> QED
    BY <1>6, <2>1 DEF CanPlayOn
<1> HIDE DEF eligible, stacks, dealer, g
<1>9. RowTypes'
  <2>1. handRow' \in [status : {"ACTIVE", "COMPLETED"}, version : Nat,
                      state : HandType, moves : Nat]
    BY <1>1, <1>4, <1>5 DEF RowTypes
  <2>2. table' \in [status : {"ACTIVE", "CLOSED"}, version : Nat, handNumber : Nat,
                    dealer : Seats]
    BY <1>1, <1>2, <1>3 DEF RowTypes
  <2> QED
    BY <1>6, <2>1, <2>2 DEF RowTypes, Moved
<1>10. HandPart'
  BY <1>2, <1>3, <1>4 DEF HandPart, Running
<1>11. SeatPart'
  <2>1. SUFFICES ASSUME NEW u \in Users
                 PROVE  /\ ~g.folded[SeatOf[u]] => participants'[u].eligible
                        /\ participants'[u].eligible => u \in room'.members
                        /\ ~participants'[u].eligible =>
                             g.stack[SeatOf[u]] <= participants'[u].stack
    BY <1>4 DEF SeatPart
  <2>2. SeatOf[u] \in Seats /\ h.stack[SeatOf[u]] \in Nat
    BY <1>1 DEF Seating, HandType
  <2>3. ~g.folded[SeatOf[u]] => participants'[u].eligible
    <3>1. g.folded[SeatOf[u]] <=> stacks[SeatOf[u]] = 0
      BY <1>3, <2>2
    <3> QED
      BY <1>7, <1>8, <3>1
  <2>4. participants'[u].eligible => u \in room'.members
    <3>1. participants'[u].eligible => participants[u].eligible /\ u \notin left
      BY <1>6
    <3>2. Running' /\ (Running' => room.members \ left \subseteq room'.members)
      BY <1>2 DEF Running, Moved
    <3> QED
      BY <3>1, <3>2 DEF RowsPart, SeatPart
  <2>5. ~participants'[u].eligible => g.stack[SeatOf[u]] <= participants'[u].stack
    <3>1. SUFFICES ASSUME ~participants'[u].eligible
                   PROVE  g.stack[SeatOf[u]] <= h.stack[SeatOf[u]]
      BY <1>6
    <3>2. g.stack[SeatOf[u]] + g.total[SeatOf[u]] = 0
      BY <1>5, <1>7, <1>8, <2>2, <3>1
    <3>3. g.stack[SeatOf[u]] \in Nat /\ g.total[SeatOf[u]] \in Nat
      BY <1>5, <2>2 DEF HandType
    <3> QED
      BY <2>2, <3>2, <3>3
  <2> QED
    BY <2>3, <2>4, <2>5
<1> QED
  BY <1>9, <1>10, <1>11 DEF RowsPart

\* After a hand that goes on, or ended with nobody to play the next, the rows
\* of the same hand.
LEMMA PlayOnKeeps ==
  ASSUME Seating, RowsPart, Running,
         NEW h, NEW st \in [Seats -> Nat], NEW moves, NEW completed, NEW left,
         Moved(h, st, moves, completed, left),
         ~(completed /\ Cardinality(CanPlayOn(h, left)) >= 2)
  PROVE  RowsPart'
<1>1. h \in HandType /\ left \in SUBSET Users /\ RowTypes /\ completed \in BOOLEAN
      /\ moves \in Nat /\ (completed <=> h.round = "complete")
  BY DEF Moved, HandInv, InPlay, Live, Over, RowsPart
<1>2. /\ handRow' = [status |-> IF completed THEN "COMPLETED" ELSE handRow.status,
                     version |-> handRow.version + 1, state |-> h, moves |-> moves]
      /\ table' = [status |-> IF completed THEN "CLOSED" ELSE table.status,
                   version |-> table.version + 1,
                   handNumber |-> table.handNumber, dealer |-> table.dealer]
  BY <1>1, CommitRows DEF Moved
<1>3. /\ participants' \in [Users -> [stack : Nat, eligible : BOOLEAN,
                                 conn : {"ONLINE", "DISCONNECTED", "ELIMINATED"},
                                 since : {"never", "recent", "expired"}]]
      /\ \A u \in Users :
           /\ participants'[u].conn = "ELIMINATED" <=> ~participants'[u].eligible
           /\ participants'[u].stack = h.stack[SeatOf[u]]
           /\ participants'[u].eligible <=>
                /\ participants[u].eligible /\ u \notin left
                /\ ~(completed /\ h.stack[SeatOf[u]] = 0)
  <2>1. participants' = ParticipantsAfter(h, completed, left)
    BY DEF Moved
  <2> QED
    BY <1>1, <2>1, ParticipantsType
<1>4. Running' <=> ~completed
  BY <1>1, <1>2 DEF Running
<1>5. RowTypes'
  <2>1. handRow' \in [status : {"ACTIVE", "COMPLETED"}, version : Nat,
                      state : HandType, moves : Nat]
    BY <1>1, <1>2 DEF RowTypes
  <2>2. table' \in [status : {"ACTIVE", "CLOSED"}, version : Nat, handNumber : Nat,
                    dealer : Seats]
    BY <1>1, <1>2 DEF RowTypes
  <2> QED
    BY <1>3, <2>1, <2>2 DEF RowTypes, Moved
<1>6. HandPart'
  <2>1. Running' <=> handRow'.status = "ACTIVE"
    BY <1>1, <1>2, <1>4 DEF RowsPart, HandPart
  <2>2. ~completed => Contested(h, st)
    BY <1>1 DEF Moved, HandInv, Over, Contested, Follows
  <2> QED
    BY <1>1, <1>2, <1>4, <2>1, <2>2 DEF HandPart
<1>7. SeatPart'
  <2>1. SUFFICES ASSUME NEW u \in Users
                 PROVE  /\ ~completed /\ ~h.folded[SeatOf[u]] => participants'[u].eligible
                        /\ ~completed /\ participants'[u].eligible => u \in room'.members
                        /\ ~participants'[u].eligible =>
                             h.stack[SeatOf[u]] <= participants'[u].stack
    BY <1>2, <1>4 DEF SeatPart
  <2>2. SeatOf[u] \in Seats /\ h.stack[SeatOf[u]] \in Nat
    BY <1>1 DEF Seating, HandType
  <2>3. ~completed /\ ~h.folded[SeatOf[u]] => participants'[u].eligible
    <3>1. SUFFICES ASSUME ~completed, ~h.folded[SeatOf[u]]
                   PROVE  participants[u].eligible /\ u \notin left
      BY <1>3
    <3>2. Follows(handRow.state, h, left)
      BY DEF Moved
    <3>3. ~handRow.state.folded[SeatOf[u]] /\ u \notin left
      BY <2>2, <3>1, <3>2 DEF Follows
    <3> QED
      BY <3>3 DEF RowsPart, SeatPart
  <2>4. ~completed /\ participants'[u].eligible => u \in room'.members
    <3>1. participants'[u].eligible => participants[u].eligible /\ u \notin left
      BY <1>3
    <3>2. Running' => room.members \ left \subseteq room'.members
      BY DEF Moved
    <3> QED
      BY <1>4, <3>1, <3>2 DEF RowsPart, SeatPart
  <2>5. h.stack[SeatOf[u]] <= participants'[u].stack
    BY <1>3, <2>2
  <2> QED
    BY <2>3, <2>4, <2>5
<1> QED
  BY <1>5, <1>6, <1>7 DEF RowsPart

\* A commit on an open table preserves what is said of its rows.
LEMMA MovedKeeps ==
  ASSUME Seating, RowsPart, Running,
         NEW h, NEW st \in [Seats -> Nat], NEW moves, NEW completed, NEW left,
         Moved(h, st, moves, completed, left)
  PROVE  RowsPart'
<1>1. completed \in BOOLEAN
  BY DEF Moved
<1>2. CASE completed /\ Cardinality(CanPlayOn(h, left)) >= 2
  <2>1. completed = TRUE
    BY <1>1, <1>2
  <2>2. Moved(h, st, moves, TRUE, left)
    BY <2>1
  <2> QED
    BY <1>2, <2>2, DealKeeps
<1> QED
  BY <1>2, PlayOnKeeps

-----------------------------------------------------------------------------
(* What act and abandon do to the hand *)

\* A hand that was only touched at a seat that folds, or was not folded, comes
\* of the hand before.
LEMMA TouchedFollows ==
  ASSUME NEW h, NEW g, NEW st \in [Seats -> Nat], Contested(h, st), HandInv(g, st),
         NEW s \in Seats, NEW folds, OnlyTouches(h, g, s, folds),
         ~h.folded[s] \/ folds, NEW left, \A u \in left : folds /\ SeatOf[u] = s
  PROVE  Follows(h, g, left)
<1>1. InPlay(h, st) /\ h.folded \in [Seats -> BOOLEAN] /\ Cardinality(NonFolded(h)) > 1
  BY DEF Contested, InPlay, Live, HandType
<1>2. ASSUME NEW t \in Seats, h.folded[t]
      PROVE  g.folded[t] /\ g.stack[t] = h.stack[t]
  <2>1. t # s \/ folds
    BY <1>2
  <2> QED
    BY <1>1, <1>2, <2>1, FoldedKeepsStack
<1>3. \A u \in left : g.folded[SeatOf[u]]
  BY <1>1 DEF OnlyTouches
<1>4. g.round # "complete" => Cardinality(NonFolded(g)) > 1
  BY <1>1, TwoPlayOn
<1> QED
  BY <1>2, <1>3, <1>4 DEF Follows

\* An accepted action moves the hand of an open table on.
LEMMA CommitAcceptedMoves ==
  ASSUME Seating, TInv, NEW r \in admitted, CommitAccepted(r)
  PROVE  /\ Running
         /\ \E h, st, moves, completed :
              st \in [Seats -> Nat] /\ Moved(h, st, moves, completed, {})
<1> DEFINE h == handRow.state
<1>1. Running /\ MayAct(r) /\ LegalMove(r) /\ RowTypes
  BY DEF CommitAccepted, MayAct, TInv, RowsPart, RowTypes, Running
<1>2. PICK st \in [Seats -> Nat] : Contested(h, st)
  BY <1>1 DEF TInv, RowsPart, HandPart
<1>3. r.user \in Users /\ r.move.amount \in Nat /\ h.toAct = SeatOf[r.user]
      /\ IsLegal(h, h.toAct, r.move.type, r.move.amount)
  BY <1>1 DEF TInv, CallPart, MayAct, LegalMove
<1>4. PICK g \in Settle(SubmitAction(h, r.move.type, r.move.amount)) :
        /\ participants' = ParticipantsAfter(g, g.round = "complete", {})
        /\ NextRows(g, handRow.moves + 1, g.round = "complete",
                    {u \in Users : /\ participants[u].eligible
                                   /\ HasSeat(u)
                                   /\ g.stack[SeatOf[u]] > 0}, {})
        /\ room' = room
  BY DEF CommitAccepted
<1>5. InPlay(h, st) /\ h.toAct \in Seats /\ ~h.folded[h.toAct]
  BY <1>2 DEF Contested, InPlay, TurnOwed
<1> HIDE DEF h
<1>6. HandInv(g, st)
  BY <1>3, <1>4, <1>5, SubmitActionKeeps DEF SettledInto
<1>7. OnlyTouches(h, g, h.toAct, r.move.type = "fold")
  BY <1>3, <1>4, <1>5, SubmitTouches
<1>8. Follows(h, g, {})
  BY <1>2, <1>5, <1>6, <1>7, TouchedFollows
<1>9. {u \in Users : participants[u].eligible /\ HasSeat(u) /\ g.stack[SeatOf[u]] > 0}
        = CanPlayOn(g, {})
  BY DEF CanPlayOn, Seating
<1>10. handRow.moves + 1 \in Nat
  BY <1>1 DEF RowTypes
<1>11. Moved(g, st, handRow.moves + 1, g.round = "complete", {})
  BY <1>1, <1>2, <1>4, <1>6, <1>8, <1>9, <1>10 DEF Moved, RowTypes, h
<1> QED
  BY <1>1, <1>11

\* A departure from an open table moves its hand on.
LEMMA AbandonMoves ==
  ASSUME Seating, TInv, Running, NEW u \in Users, Abandon(u)
  PROVE  \E h, st, moves, completed :
           st \in [Seats -> Nat] /\ Moved(h, st, moves, completed, {u})
<1> DEFINE h == handRow.state
           s == SeatOf[u]
<1>1. RowTypes /\ table.status = "ACTIVE" /\ handRow.status = "ACTIVE"
  BY DEF TInv, RowsPart, HandPart, Running
<1>2. PICK st \in [Seats -> Nat] : Contested(h, st)
  BY DEF TInv, RowsPart, HandPart
<1>3. PICK g \in Settle(AbandonSeat(h, s)) :
        LET completed == g.round = "complete" /\ handRow.status = "ACTIVE"
            eligible == {v \in Users \ {u} :
                           /\ participants[v].eligible
                           /\ IF HasSeat(v) THEN g.stack[SeatOf[v]] > 0
                                            ELSE participants[v].stack > 0}
        IN  /\ participants' = ParticipantsAfter(g, completed, {u})
            /\ NextRows(g, handRow.moves + (IF h.toAct = s THEN 1 ELSE 0), completed,
                        eligible, {u})
            /\ room' = IF completed /\ Cardinality(eligible) < 2
                         THEN [status |-> "CLOSED", members |-> {}]
                         ELSE [room EXCEPT !.members = @ \ {u}]
  BY <1>1 DEF Abandon
<1> DEFINE completed == g.round = "complete"
           moves == handRow.moves + (IF h.toAct = s THEN 1 ELSE 0)
<1>4. {v \in Users \ {u} : /\ participants[v].eligible
                           /\ IF HasSeat(v) THEN g.stack[SeatOf[v]] > 0
                                            ELSE participants[v].stack > 0}
        = CanPlayOn(g, {u})
  BY DEF CanPlayOn, Seating
<1>5. (g.round = "complete" /\ handRow.status = "ACTIVE") = completed
  BY <1>1
<1>6. /\ participants' = ParticipantsAfter(g, completed, {u})
      /\ NextRows(g, moves, completed, CanPlayOn(g, {u}), {u})
      /\ room' = IF completed /\ Cardinality(CanPlayOn(g, {u})) < 2
                   THEN [status |-> "CLOSED", members |-> {}]
                   ELSE [room EXCEPT !.members = @ \ {u}]
  BY <1>3, <1>4, <1>5
<1>7. InPlay(h, st) /\ h.folded \in [Seats -> BOOLEAN] /\ s \in Seats
      /\ Cardinality(NonFolded(h)) # 1 /\ h.round # "complete"
  <2>1. Cardinality(NonFolded(h)) \in Nat /\ Cardinality(NonFolded(h)) > 1
    BY <1>2, SeatSets DEF Contested
  <2> QED
    BY <1>2, <2>1 DEF Contested, InPlay, Live, HandType, Seating, BettingNow
<1> HIDE DEF h, s
<1>8. HandInv(g, st)
  <2>1. CASE ~h.folded[s]
    BY <1>3, <1>7, <2>1, AbandonSeatKeeps DEF HandInv, SettledInto
  <2>2. CASE h.folded[s]
    <3>1. AbandonSeat(h, s) = h
      BY <2>2 DEF AbandonSeat
    <3> QED
      BY <1>3, <1>7, <3>1, SettleRunning DEF HandInv, SettledInto
  <2> QED
    BY <2>1, <2>2
<1>9. OnlyTouches(h, g, s, TRUE)
  BY <1>3, <1>7, AbandonTouches
<1>10. Follows(h, g, {u})
  BY <1>2, <1>7, <1>8, <1>9, TouchedFollows DEF s
<1>11. moves \in Nat
  BY <1>1 DEF RowTypes
<1>12. room' \in [status : {"STARTED", "CLOSED"}, members : SUBSET Users]
  <2>1. room \in [status : {"STARTED", "CLOSED"}, members : SUBSET Users]
    BY <1>1 DEF RowTypes
  <2> QED
    BY <1>6, <2>1
<1>13. Running' => room.members \ {u} \subseteq room'.members
  <2>1. CASE completed /\ Cardinality(CanPlayOn(g, {u})) < 2
    <3>1. IsFiniteSet(CanPlayOn(g, {u})) /\ Cardinality(CanPlayOn(g, {u})) \in Nat
      <4>1. CanPlayOn(g, {u}) \in SUBSET Users
        BY DEF CanPlayOn
      <4> QED
        BY <4>1, FS_Subset, FS_CardinalityType DEF Seating
    <3>2. ~(completed /\ Cardinality(CanPlayOn(g, {u})) >= 2)
      BY <2>1, <3>1
    <3>3. table'.status = "CLOSED"
      <4>1. completed \in BOOLEAN /\ NextRows(g, moves, completed, CanPlayOn(g, {u}), {u})
        BY <1>6
      <4> HIDE DEF completed, moves
      <4>2. table' = [status |-> IF completed THEN "CLOSED" ELSE table.status,
                      version |-> table.version + 1,
                      handNumber |-> table.handNumber, dealer |-> table.dealer]
        BY <1>1, <3>2, <4>1, CommitRows
      <4> QED
        BY <2>1, <4>2
    <3> QED
      BY <3>3 DEF Running
  <2>2. CASE ~(completed /\ Cardinality(CanPlayOn(g, {u})) < 2)
    <3>1. room \in [status : {"STARTED", "CLOSED"}, members : SUBSET Users]
      BY <1>1 DEF RowTypes
    <3> QED
      BY <1>6, <2>2, <3>1
  <2> QED
    BY <2>1, <2>2
<1>14. Moved(g, st, moves, completed, {u})
  <2>1. completed \in BOOLEAN /\ {u} \in SUBSET Users
    OBVIOUS
  <2>2. Contested(handRow.state, st) /\ Follows(handRow.state, g, {u})
    BY <1>2, <1>10 DEF h
  <2> HIDE DEF moves
  <2> QED
    BY <1>6, <1>8, <1>11, <1>12, <1>13, <2>1, <2>2 DEF Moved
<1> QED
  BY <1>14

\* Who leaves after the table closed leaves its last hand as it ended.
LEMMA LateAbandonKeeps ==
  ASSUME Seating, TInv, ~Running, NEW u \in Users, Abandon(u)
  PROVE  /\ RowsPart'
         /\ handRow'.state = handRow.state /\ handRow'.status = handRow.status
         /\ participants' = ParticipantsAfter(handRow.state, FALSE, {u})
<1> DEFINE h == handRow.state
           moves == handRow.moves + (IF h.toAct = SeatOf[u] THEN 1 ELSE 0)
<1>1. /\ RowTypes /\ h \in HandType /\ h.round = "complete"
      /\ table.status # "ACTIVE" /\ handRow.status # "ACTIVE"
  BY DEF TInv, RowsPart, RowTypes, HandPart, Running
<1>2. \E eligible : /\ participants' = ParticipantsAfter(h, FALSE, {u})
                    /\ NextRows(h, moves, FALSE, eligible, {u})
                    /\ room' = [room EXCEPT !.members = @ \ {u}]
  <2>1. PICK g \in {h} :
          LET completed == g.round = "complete" /\ handRow.status = "ACTIVE"
              eligible == {v \in Users \ {u} :
                             /\ participants[v].eligible
                             /\ IF HasSeat(v) THEN g.stack[SeatOf[v]] > 0
                                              ELSE participants[v].stack > 0}
          IN  /\ participants' = ParticipantsAfter(g, completed, {u})
              /\ NextRows(g, moves, completed, eligible, {u})
              /\ room' = IF completed /\ Cardinality(eligible) < 2
                           THEN [status |-> "CLOSED", members |-> {}]
                           ELSE [room EXCEPT !.members = @ \ {u}]
    BY <1>1 DEF Abandon
  <2>2. g = h /\ (g.round = "complete" /\ handRow.status = "ACTIVE") = FALSE
    BY <1>1, <2>1
  <2> QED
    BY <2>1, <2>2
<1>3. PICK eligible : NextRows(h, moves, FALSE, eligible, {u})
  BY <1>2
<1>4. moves \in Nat
  BY <1>1 DEF RowTypes
<1> HIDE DEF moves
<1>5. /\ handRow' = [status |-> handRow.status, version |-> handRow.version + 1,
                     state |-> h, moves |-> moves]
      /\ table' = [status |-> table.status, version |-> table.version + 1,
                   handNumber |-> table.handNumber, dealer |-> table.dealer]
  BY <1>1, <1>3, CommitRows
<1>6. /\ participants' \in [Users -> [stack : Nat, eligible : BOOLEAN,
                                 conn : {"ONLINE", "DISCONNECTED", "ELIMINATED"},
                                 since : {"never", "recent", "expired"}]]
      /\ \A v \in Users :
           /\ participants'[v].conn = "ELIMINATED" <=> ~participants'[v].eligible
           /\ participants'[v].stack = h.stack[SeatOf[v]]
  <2>1. {u} \in SUBSET Users /\ FALSE \in BOOLEAN
    OBVIOUS
  <2>2. participants' = ParticipantsAfter(h, FALSE, {u})
    BY <1>2
  <2>3. PICK g : g = h
    OBVIOUS
  <2>4. PICK completed \in BOOLEAN : completed = FALSE
    OBVIOUS
  <2>5. PICK left \in SUBSET Users : left = {u}
    BY <2>1
  <2>6. g \in HandType /\ participants' = ParticipantsAfter(g, completed, left)
    BY <1>1, <2>2, <2>3, <2>4, <2>5
  <2>7. /\ participants' \in [Users -> [stack : Nat, eligible : BOOLEAN,
                                 conn : {"ONLINE", "DISCONNECTED", "ELIMINATED"},
                                 since : {"never", "recent", "expired"}]]
        /\ \A v \in Users :
             /\ participants'[v].conn = "ELIMINATED" <=> ~participants'[v].eligible
             /\ participants'[v].stack = g.stack[SeatOf[v]]
    BY <1>1, <2>6, ParticipantsType
  <2> QED
    BY <2>3, <2>7
<1>7. RowTypes'
  <2>1. room' \in [status : {"STARTED", "CLOSED"}, members : SUBSET Users]
    BY <1>1, <1>2 DEF RowTypes
  <2>2. handRow' \in [status : {"ACTIVE", "COMPLETED"}, version : Nat,
                      state : HandType, moves : Nat]
    BY <1>1, <1>4, <1>5 DEF RowTypes
  <2>3. table' \in [status : {"ACTIVE", "CLOSED"}, version : Nat, handNumber : Nat,
                    dealer : Seats]
    BY <1>1, <1>5 DEF RowTypes
  <2> QED
    BY <1>6, <2>1, <2>2, <2>3 DEF RowTypes
<1>8. ~Running' /\ HandPart'
  BY <1>1, <1>5 DEF Running, HandPart
<1>9. SeatPart'
  <2>1. \A v \in Users : h.stack[SeatOf[v]] \in Nat
    BY <1>1 DEF HandType, Seating
  <2> QED
    BY <1>5, <1>6, <1>8, <2>1 DEF SeatPart
<1> QED
  BY <1>2, <1>5, <1>7, <1>8, <1>9 DEF RowsPart

\* A step that leaves the hand alone, and no participant's stack or place in
\* the game, preserves what is said of the rows.
LEMMA SameHandKeeps ==
  ASSUME RowsPart, UNCHANGED <<room, table, handRow>>,
         participants' \in [Users -> [stack : Nat, eligible : BOOLEAN,
                                      conn : {"ONLINE", "DISCONNECTED", "ELIMINATED"},
                                      since : {"never", "recent", "expired"}]],
         \A u \in Users :
           /\ participants'[u].stack = participants[u].stack
           /\ participants'[u].eligible = participants[u].eligible
           /\ participants'[u].conn = "ELIMINATED" <=> ~participants'[u].eligible
  PROVE  RowsPart'
<1>1. RowTypes'
  BY DEF RowsPart, RowTypes
<1>2. HandPart'
  BY DEF RowsPart, HandPart, Running
<1>3. SeatPart'
  BY DEF RowsPart, SeatPart, Running
<1> QED
  BY <1>1, <1>2, <1>3 DEF RowsPart

\* Presence is a matter of its own.
LEMMA PresenceKeeps ==
  ASSUME RowsPart, NEW u \in Users, Connect(u) \/ Disconnect(u) \/ GraceExpires(u)
  PROVE  RowsPart' /\ UNCHANGED <<room, table, handRow>>
         /\ \A v \in Users : /\ participants'[v].stack = participants[v].stack
                             /\ participants'[v].eligible = participants[v].eligible
<1>1. PICK conn, since :
        /\ participants' = [participants EXCEPT ![u].conn = conn, ![u].since = since]
        /\ UNCHANGED <<room, table, handRow>>
        /\ since \in {"never", "recent", "expired"}
        /\ \/ conn = participants[u].conn
           \/ conn \in {"ONLINE", "DISCONNECTED"} /\ participants[u].eligible
  BY DEF Connect, Disconnect, GraceExpires, SetPresence
<1> DEFINE row == [participants[u] EXCEPT !.conn = conn, !.since = since]
           R == [stack : Nat, eligible : BOOLEAN,
                 conn : {"ONLINE", "DISCONNECTED", "ELIMINATED"},
                 since : {"never", "recent", "expired"}]
<1>2. participants \in [Users -> R]
      /\ \A v \in Users : participants[v].conn = "ELIMINATED" <=> ~participants[v].eligible
  BY DEF RowsPart, RowTypes
<1>3. /\ row \in R /\ row.stack = participants[u].stack
      /\ row.eligible = participants[u].eligible
      /\ row.conn = "ELIMINATED" <=> ~row.eligible
  <2>1. participants[u] \in R /\ conn \in {"ONLINE", "DISCONNECTED", "ELIMINATED"}
    BY <1>1, <1>2
  <2>2. row \in R /\ row.stack = participants[u].stack
        /\ row.eligible = participants[u].eligible /\ row.conn = conn
    BY <1>1, <2>1
  <2> QED
    BY <1>1, <1>2, <2>2
<1>4. participants' = [participants EXCEPT ![u] = row]
  BY <1>1, <1>2
<1> HIDE DEF row, R
<1>5. participants' \in [Users -> R]
      /\ \A v \in Users : /\ participants'[v].stack = participants[v].stack
                          /\ participants'[v].eligible = participants[v].eligible
                          /\ participants'[v].conn = "ELIMINATED" <=> ~participants'[v].eligible
  BY <1>2, <1>3, <1>4
<1> QED
  BY <1>1, <1>5, SameHandKeeps DEF R

-----------------------------------------------------------------------------
(* The invariant holds *)

\* The first hand of a table satisfies the invariant.
LEMMA TInitHolds == Gapless /\ Init => TInv
<1> SUFFICES ASSUME Gapless, Init PROVE TInv
  OBVIOUS
<1> DEFINE chips == [s \in Seats |-> 2 * StartingStackBB]
           g == StartHand(chips, 1)
<1>1. Seating
  BY EverySeatTaken
<1>2. chips \in [Seats -> Nat] /\ \A s \in Seats : chips[s] > 0
  BY BoundsAssumption
<1>3. 1 \in Seats /\ 2 \in Seats
  BY NAssumption DEF Seats
<1>4. \E s, t \in Seats : s # t /\ chips[s] > 0 /\ chips[t] > 0
  <2> HIDE DEF chips
  <2> QED
    BY <1>2, <1>3
<1>5. /\ room = [status |-> "STARTED", members |-> Users]
      /\ table = [status |-> "ACTIVE", version |-> 1, handNumber |-> 1,
                  dealer |-> SeatOf[UserAt(1)]]
      /\ handRow = [status |-> "ACTIVE", version |-> 1, state |-> g, moves |-> 0]
      /\ participants = [u \in Users |-> [stack    |-> g.stack[Position(u)],
                                          eligible |-> TRUE,
                                          conn     |-> "DISCONNECTED",
                                          since    |-> "never"]]
      /\ sent = {} /\ reaping = {} /\ admitted = {} /\ leaving = {}
  BY DEF Init, NewHand
<1> HIDE DEF chips
<1>6. InPlay(g, chips) /\ g.folded = [s \in Seats |-> chips[s] = 0]
  BY <1>2, <1>3, <1>4, StartHandInv
<1>7. Contested(g, chips)
  BY <1>2, <1>4, <1>6, TwoAreDealtIn DEF Contested
<1>8. g \in HandType
  BY <1>6 DEF InPlay, Live
<1> HIDE DEF g
<1>9. RowTypes
  <2>1. \A u \in Users : g.stack[Position(u)] \in Nat
    BY <1>1, <1>8 DEF Seating, HandType
  <2>2. SeatOf[UserAt(1)] \in Seats
    BY <1>1, <1>3 DEF Seating
  <2> QED
    BY <1>5, <1>8, <2>1, <2>2 DEF RowTypes
<1>10. HandPart
  BY <1>2, <1>5, <1>7 DEF HandPart, Running
<1>11. SeatPart
  BY <1>5 DEF SeatPart
<1>12. CallPart
  BY <1>5 DEF CallPart
<1> QED
  BY <1>9, <1>10, <1>11, <1>12 DEF TInv, RowsPart

\* The calls that are on their way after a step.
LEMMA CallsKeep ==
  ASSUME IInv, TInv, [Next]_vars
  PROVE  CallPart'
<1>1. /\ IsFiniteSet(sent) /\ Cardinality(sent) \in Nat
      /\ CallPart /\ table.version \in Nat /\ table.handNumber \in Nat
  BY FS_CardinalityType DEF IInv, CallsInv, CountersInv, TInv
<1>2. /\ Moves \subseteq [type : ActionTypes, amount : Nat] /\ MaxRequests \in Nat
      /\ Roaming \subseteq Users
  BY BoundsAssumption
<1>3. \A r \in sent : r.user \in Users /\ r.move.amount \in Nat
  BY <1>1, <1>2 DEF CallPart, Requests
<1>4. ASSUME NEW u \in Users, NEW move \in Moves, Send(u, move)
      PROVE  CallPart'
  <2> DEFINE r == [user |-> u, hand |-> table.handNumber, version |-> table.version,
                   move |-> move, id |-> Cardinality(sent) + 1]
  <2>1. r \in Requests
    BY <1>1, <1>2, <1>4 DEF Send, Requests, RequestIds
  <2>2. sent' = sent \cup {r} /\ UNCHANGED <<reaping, admitted, leaving>>
    BY <1>4 DEF Send
  <2> HIDE DEF r
  <2> QED
    BY <1>1, <2>1, <2>2 DEF CallPart
<1>5. ASSUME NEW r \in sent \cup reaping, Admit(r)
      PROVE  CallPart'
  <2>1. r.user \in Users /\ r.move.amount \in Nat
    BY <1>1, <1>3, <1>5 DEF CallPart
  <2> QED
    BY <1>1, <1>5, <2>1 DEF Admit, CallPart
<1>6. ASSUME NEW r \in reaping, ReapRefused(r)
      PROVE  CallPart'
  BY <1>1, <1>6 DEF ReapRefused, CallPart
<1>7. ASSUME NEW r \in admitted, Commit(r)
      PROVE  CallPart'
  <2>1. admitted' = admitted \ {r} /\ UNCHANGED <<sent, reaping, leaving>>
    BY <1>7 DEF Commit, CommitRefused, CommitIllegal, CommitAccepted
  <2> QED
    BY <1>1, <2>1 DEF CallPart
<1>8. ASSUME NEW u \in Users, AdmitAbandon(u) \/ AbandonRefused(u) \/ Abandon(u)
      PROVE  CallPart'
  <2>1. leaving' \subseteq leaving \cup {u} /\ UNCHANGED <<sent, reaping, admitted>>
    BY <1>8 DEF AdmitAbandon, AbandonRefused, Abandon
  <2> QED
    BY <1>1, <2>1 DEF CallPart
<1>9. ASSUME NEW u \in Users, Connect(u) \/ Disconnect(u) \/ GraceExpires(u)
      PROVE  CallPart'
  BY <1>1, <1>9 DEF Connect, Disconnect, GraceExpires, SetPresence, CallPart
<1>10. ASSUME NEW u \in Users, Reap(u)
       PROVE  CallPart'
  <2>1. TimeoutFold(u).user = u /\ TimeoutFold(u).move.amount = 0
    BY DEF TimeoutFold
  <2>2. reaping' = reaping \cup {TimeoutFold(u)} /\ UNCHANGED <<sent, admitted, leaving>>
    BY <1>10 DEF Reap
  <2> QED
    BY <1>1, <2>1, <2>2 DEF CallPart
<1>11. CASE UNCHANGED vars
  BY <1>1, <1>11 DEF vars, CallPart
<1> QED
  BY <1>2, <1>4, <1>5, <1>6, <1>7, <1>8, <1>9, <1>10, <1>11 DEF Next

\* What a step may do to the hand and the rows: move an open table's hand on,
\* let somebody leave a closed table, or neither.
LEMMA StepOfTheTable ==
  ASSUME Seating, TInv, [Next]_vars
  PROVE  \/ /\ Running
            /\ \E h, st, moves, completed, left :
                 st \in [Seats -> Nat] /\ Moved(h, st, moves, completed, left)
         \/ /\ RowsPart' /\ ~Running
            /\ handRow'.state = handRow.state /\ handRow'.status = handRow.status
            /\ \E u \in Users :
                 participants' = ParticipantsAfter(handRow.state, FALSE, {u})
         \/ /\ RowsPart' /\ UNCHANGED <<room, table, handRow>>
            /\ \A v \in Users : /\ participants'[v].stack = participants[v].stack
                                /\ participants'[v].eligible = participants[v].eligible
<1> DEFINE SameHand == /\ RowsPart' /\ UNCHANGED <<room, table, handRow>>
                       /\ \A v \in Users :
                            /\ participants'[v].stack = participants[v].stack
                            /\ participants'[v].eligible = participants[v].eligible
<1>1. ASSUME UNCHANGED <<room, table, handRow, participants>>
      PROVE  SameHand
  BY <1>1, SameHandKeeps DEF TInv, RowsPart, RowTypes
<1>2. ASSUME NEW u \in Users, NEW move \in Moves, Send(u, move)
      PROVE  SameHand
  BY <1>1, <1>2 DEF Send
<1>3. ASSUME NEW r \in sent \cup reaping, Admit(r)
      PROVE  SameHand
  BY <1>1, <1>3 DEF Admit
<1>4. ASSUME NEW r \in reaping, ReapRefused(r)
      PROVE  SameHand
  BY <1>1, <1>4 DEF ReapRefused
<1>5. ASSUME NEW r \in admitted, CommitRefused(r) \/ CommitIllegal(r)
      PROVE  SameHand
  BY <1>1, <1>5 DEF CommitRefused, CommitIllegal
<1>6. ASSUME NEW u \in Users, AdmitAbandon(u) \/ AbandonRefused(u)
      PROVE  SameHand
  BY <1>1, <1>6 DEF AdmitAbandon, AbandonRefused
<1>7. ASSUME NEW u \in Users, Connect(u) \/ Disconnect(u) \/ GraceExpires(u)
      PROVE  SameHand
  BY <1>7, PresenceKeeps DEF TInv
<1>8. ASSUME NEW u \in Users, Reap(u)
      PROVE  SameHand
  BY <1>1, <1>8 DEF Reap
<1>9. CASE UNCHANGED vars
  BY <1>1, <1>9 DEF vars
<1> HIDE DEF SameHand
<1>10. CASE SameHand
  BY <1>10 DEF SameHand
<1>11. CASE \E r \in admitted : CommitAccepted(r)
  BY <1>11, CommitAcceptedMoves
<1>12. CASE \E u \in Users : Abandon(u)
  <2>1. PICK u \in Users : Abandon(u)
    BY <1>12
  <2>2. CASE Running
    BY <2>1, <2>2, AbandonMoves
  <2>3. CASE ~Running
    BY <2>1, <2>3, LateAbandonKeeps
  <2> QED
    BY <2>2, <2>3
<1>13. CASE \E r \in admitted : Commit(r)
  BY <1>5, <1>10, <1>11, <1>13 DEF Commit
<1>14. CASE \E u \in Users : AdmitAbandon(u) \/ AbandonRefused(u) \/ Abandon(u)
  BY <1>6, <1>10, <1>12, <1>14
<1>15. CASE \E u \in Roaming : Connect(u) \/ Disconnect(u)
  BY <1>7, <1>10, <1>15, BoundsAssumption
<1>16. CASE \E u \in Users : GraceExpires(u) \/ Reap(u)
  BY <1>7, <1>8, <1>10, <1>16
<1>17. CASE \/ \E u \in Users, move \in Moves : Send(u, move)
            \/ \E r \in sent \cup reaping : Admit(r)
            \/ \E r \in reaping : ReapRefused(r)
  BY <1>2, <1>3, <1>4, <1>10, <1>17
<1> QED
  BY <1>9, <1>10, <1>13, <1>14, <1>15, <1>16, <1>17 DEF Next

\* Every step of the table preserves the invariant.
LEMMA TNextKeeps == Gapless /\ IInv /\ TInv /\ [Next]_vars => TInv'
<1> SUFFICES ASSUME Gapless, IInv, TInv, [Next]_vars PROVE TInv'
  OBVIOUS
<1>1. Seating
  BY EverySeatTaken
<1>2. RowsPart'
  <2>1. CASE /\ Running
             /\ \E h, st, moves, completed, left :
                  st \in [Seats -> Nat] /\ Moved(h, st, moves, completed, left)
    BY <1>1, <2>1, MovedKeeps DEF TInv
  <2> QED
    BY <1>1, <2>1, StepOfTheTable
<1>3. CallPart'
  BY CallsKeep
<1> QED
  BY <1>2, <1>3 DEF TInv

\* The invariant holds in every state of every table without a gap.
LEMMA TInvariance == ASSUME Gapless PROVE Spec => [](IInv /\ TInv)
<1>1. Init => IInv /\ TInv
  BY InitIInv, TInitHolds
<1>2. IInv /\ TInv /\ [Next]_vars => (IInv /\ TInv)'
  BY NextIInv, TNextKeeps
<1> QED
  BY <1>1, <1>2, PTL DEF Spec

-----------------------------------------------------------------------------
(* The theorems *)

\* The rows of a table are of their types, and who is not eligible for the next
\* hand is marked as eliminated, and the other way round.
THEOREM RowsAreTyped == ASSUME Gapless PROVE Spec => []TypeOK
<1>1. IInv /\ TInv => TypeOK
  <2> SUFFICES ASSUME IInv, TInv PROVE TypeOK
    OBVIOUS
  <2>1. Seats \subseteq Nat
    BY SeatsAreNumbers
  <2>2. table \in [status : {"ACTIVE", "CLOSED"}, version : Nat, handNumber : Nat,
                   dealer : Nat]
    BY <2>1 DEF TInv, RowsPart, RowTypes
  <2>3. \A a \in actions : a \in RowType
    BY DEF IInv, RowsInv
  <2> QED
    BY <2>2, <2>3 DEF TypeOK, TInv, RowsPart, RowTypes, CallPart
<1> QED
  BY <1>1, TInvariance, PTL

\* A running hand waits for a member who is still in the game, who is offered
\* actions while nobody else is, after any interleaving of actions, folds of the
\* reaper, departures and deals (act, abandon, projectTable).
THEOREM TurnIsAMembers == ASSUME Gapless PROVE Spec => []TurnBelongsToMember
<1>1. IInv /\ TInv => TurnBelongsToMember
  <2> DEFINE h == handRow.state
  <2>1. SUFFICES ASSUME TInv, Running
                 PROVE  /\ \E u \in room.members :
                             /\ SeatOf[u] = h.toAct /\ participants[u].eligible
                             /\ \A v \in Users :
                                  ProjectTable(v).legalActions # {} <=> u = v
                        /\ \A u \in Users : ProjectTable(u).cardsOf \subseteq {u}
    BY DEF TurnBelongsToMember
  <2>2. Seating
    BY EverySeatTaken
  <2>3. PICK st \in [Seats -> Nat] : Contested(h, st)
    BY <2>1 DEF TInv, RowsPart, HandPart
  <2>4. h.toAct \in Seats /\ ~h.folded[h.toAct] /\ h.round # "complete"
    BY <2>3 DEF Contested, InPlay, TurnOwed, Live, BettingNow
  <2>5. PICK u \in Users : SeatOf[u] = h.toAct
    BY <2>2, <2>4 DEF Seating
  <2>6. participants[u].eligible /\ u \in room.members
    BY <2>1, <2>4, <2>5 DEF TInv, RowsPart, SeatPart
  <2>7. LegalActions(h) # {}
    <3>1. "fold" \in LegalActions(h)
      BY <2>4, FoldIsLegal DEF IsLegal
    <3> QED
      BY <3>1
  <2>8. \A v \in Users : ProjectTable(v).legalActions # {} <=> u = v
    BY <2>2, <2>5, <2>7 DEF ProjectTable, Seating
  <2>9. \A v \in Users : ProjectTable(v).cardsOf \subseteq {v}
    BY <2>4 DEF ProjectTable, RevealedSeats
  <2> QED
    BY <2>5, <2>6, <2>8, <2>9
<1> QED
  BY <1>1, TInvariance, PTL

\* A table is open exactly while a hand runs on it, and two members at least
\* contest that hand (act, abandon).
THEOREM TwoContestEveryHand == ASSUME Gapless PROVE Spec => []OpenWhileTwoPlay
<1>1. IInv /\ TInv => OpenWhileTwoPlay
  <2> DEFINE h == handRow.state
             rivals == {u \in room.members : participants[u].eligible /\ ~h.folded[SeatOf[u]]}
  <2> SUFFICES ASSUME TInv PROVE OpenWhileTwoPlay
    OBVIOUS
  <2>1. Seating
    BY EverySeatTaken
  <2>2. Running <=> handRow.status = "ACTIVE" /\ h.round # "complete"
    BY DEF TInv, RowsPart, HandPart, Contested, InPlay, Live, BettingNow
  <2>3. ASSUME Running PROVE Cardinality(rivals) >= 2
    <3>1. PICK st \in [Seats -> Nat] : Contested(h, st)
      BY <2>3 DEF TInv, RowsPart, HandPart
    <3>2. PICK s \in NonFolded(h), t \in NonFolded(h) : s # t
      BY <3>1, SeatSets, NotAlone DEF Contested
    <3>3. \A x \in NonFolded(h) : InSeat(x) \in rivals /\ SeatOf[InSeat(x)] = x
      BY <2>1, <2>3 DEF NonFolded, Seating, TInv, RowsPart, SeatPart
    <3>4. IsFiniteSet(rivals)
      <4>1. rivals \in SUBSET Users
        BY DEF TInv, RowsPart, RowTypes
      <4> QED
        BY <2>1, <4>1, FS_Subset DEF Seating
    <3>5. InSeat(s) \in rivals /\ InSeat(t) \in rivals /\ InSeat(s) # InSeat(t)
      BY <3>2, <3>3
    <3> HIDE DEF rivals
    <3>6. Cardinality(rivals) > 1 /\ Cardinality(rivals) \in Nat
      BY <3>4, <3>5, TwoElements, FS_CardinalityType
    <3> QED
      BY <3>6
  <2> QED
    BY <2>2, <2>3 DEF OpenWhileTwoPlay
<1> QED
  BY <1>1, TInvariance, PTL

\* The chips of a hand in play are those it was dealt from.
LEMMA DealtChips ==
  ASSUME NEW h, NEW st \in [Seats -> Nat], InPlay(h, st)
  PROVE  /\ SumTo(h.stack, N) + SumTo(h.total, N) = SumTo(st, N)
         /\ SumTo(st, N) \in Nat
<1>1. Seats = 1 .. N /\ N \in Nat
  BY SeatNumbers
<1>2. \A i \in 1 .. N : /\ h.stack[i] \in Nat /\ h.total[i] \in Nat /\ st[i] \in Nat
                        /\ st[i] = h.stack[i] + h.total[i]
  BY <1>1 DEF InPlay, Live, Accounted, HandType
<1>3. SumTo(st, N) = SumTo(h.stack, N) + SumTo(h.total, N)
  BY <1>1, <1>2, SumToPlus
<1>4. SumTo(st, N) \in Nat
  BY <1>1, <1>2, SumToType
<1> QED
  BY <1>3, <1>4

\* A commit on an open table brings no chips.
LEMMA MovedBringsNothing ==
  ASSUME Seating, RowsPart, Running,
         NEW h, NEW st \in [Seats -> Nat], NEW moves, NEW completed, NEW left,
         Moved(h, st, moves, completed, left)
  PROVE  ChipsInPlay' <= ChipsInPlay
<1>1. /\ h \in HandType /\ left \in SUBSET Users /\ RowTypes /\ completed \in BOOLEAN
      /\ (completed <=> h.round = "complete") /\ HandInv(h, st)
      /\ Contested(handRow.state, st)
  BY DEF Moved, HandInv, InPlay, Live, Over, RowsPart
<1>2. ChipsInPlay = SumTo(st, N) /\ SumTo(st, N) \in Nat /\ handRow.status = "ACTIVE"
  <2>1. handRow.status = "ACTIVE"
    BY DEF RowsPart, HandPart
  <2>2. InPlay(handRow.state, st)
    BY <1>1 DEF Contested
  <2>3. ChipsInPlay = SumTo(handRow.state.stack, N) + SumTo(handRow.state.total, N)
    BY <2>1 DEF ChipsInPlay
  <2> QED
    BY <2>1, <2>2, <2>3, DealtChips
<1>3. completed => /\ SumTo(h.stack, N) <= SumTo(st, N)
                   /\ SumTo(h.stack, N) \in Nat
  <2>1. SumTo(h.stack, N) \in Nat
    BY <1>1, SeatNumbers, SumToType DEF HandType
  <2>2. completed => Over(h, st)
    BY <1>1 DEF HandInv, InPlay, Live, BettingNow
  <2> QED
    BY <2>1, <2>2, OverPays
<1>4. NextRows(h, moves, completed, CanPlayOn(h, left), left)
  BY DEF Moved
<1>5. CASE completed /\ Cardinality(CanPlayOn(h, left)) >= 2
  <2>1. PICK stacks, dealer : /\ stacks = StacksFor(h, left)
                              /\ dealer = SeatOf[NextDealer(CanPlayOn(h, left))]
    OBVIOUS
  <2>2. handRow' = NewHand(stacks, dealer, table.version + 1)
    BY <1>1, <1>4, <1>5, <2>1, CommitRows
  <2>3. handRow'.state = StartHand(stacks, dealer) /\ handRow'.status = "ACTIVE"
    BY <2>2 DEF NewHand
  <2>4. stacks \in [Seats -> Nat] /\ Contested(StartHand(stacks, dealer), stacks)
    BY <1>1, <1>5, <2>1, DealtFromStacks
  <2>5. ChipsInPlay' = SumTo(handRow'.state.stack, N) + SumTo(handRow'.state.total, N)
    BY <2>3 DEF ChipsInPlay
  <2>6. ChipsInPlay' = SumTo(stacks, N) /\ SumTo(stacks, N) \in Nat
    BY <2>3, <2>4, <2>5, DealtChips DEF Contested
  <2>7. SumTo(stacks, N) <= SumTo(h.stack, N)
    <3>0. \A s \in Seats : StacksFor(h, left)[s] <= h.stack[s]
      BY <1>1, StacksForType
    <3>1. \A i \in 1 .. N : stacks[i] \in Nat /\ h.stack[i] \in Nat /\ stacks[i] <= h.stack[i]
      BY <1>1, <2>1, <2>4, <3>0, SeatNumbers DEF HandType
    <3> QED
      BY <3>1, SeatNumbers, SumToMonotone
  <2> QED
    BY <1>2, <1>3, <1>5, <2>6, <2>7
<1>6. CASE ~(completed /\ Cardinality(CanPlayOn(h, left)) >= 2)
  <2>1. handRow'.state = h
        /\ handRow'.status = IF completed THEN "COMPLETED" ELSE handRow.status
    BY <1>1, <1>4, <1>6, CommitRows
  <2>2. CASE completed
    <3>1. handRow'.status # "ACTIVE"
      BY <2>1, <2>2
    <3>2. ChipsInPlay' = SumTo(h.stack, N) + 0
      BY <2>1, <3>1 DEF ChipsInPlay
    <3> QED
      BY <1>2, <1>3, <2>2, <3>2
  <2>3. CASE ~completed
    <3>1. handRow'.status = "ACTIVE"
      BY <1>2, <2>1, <2>3
    <3>2. ChipsInPlay' = SumTo(h.stack, N) + SumTo(h.total, N)
      BY <2>1, <3>1 DEF ChipsInPlay
    <3>3. InPlay(h, st)
      BY <1>1, <2>3 DEF HandInv, Over
    <3>4. ChipsInPlay' = SumTo(st, N)
      BY <3>2, <3>3, DealtChips
    <3> QED
      BY <1>2, <3>4
  <2> QED
    BY <2>2, <2>3
<1> QED
  BY <1>5, <1>6

\* No step brings chips onto the table: not the award of a pot, whoever wins it
\* and however it is split, nor the deal of the next hand from the stacks of the
\* last, whoever left in between (act, abandon, startHand).
THEOREM NoChipsAppear == ASSUME Gapless PROVE Spec => ChipsNeverAppear
<1>1. ASSUME IInv /\ TInv, [Next]_vars PROVE [ChipsInPlay' <= ChipsInPlay]_vars
  <2>1. Seating /\ TInv
    BY <1>1, EverySeatTaken
  <2>2. CASE /\ Running
             /\ \E h, st, moves, completed, left :
                  st \in [Seats -> Nat] /\ Moved(h, st, moves, completed, left)
    BY <2>1, <2>2, MovedBringsNothing DEF TInv
  <2>3. CASE handRow'.state = handRow.state /\ handRow'.status = handRow.status
    <3>1. ChipsInPlay' = ChipsInPlay
      BY <2>3 DEF ChipsInPlay
    <3>2. ChipsInPlay \in Int
      <4>1. SumTo(handRow.state.stack, N) \in Nat /\ SumTo(handRow.state.total, N) \in Nat
        BY <2>1, SeatNumbers, SumToType DEF TInv, RowsPart, RowTypes, HandType
      <4> QED
        BY <4>1 DEF ChipsInPlay
    <3> QED
      BY <3>1, <3>2
  <2> QED
    BY <1>1, <2>1, <2>2, <2>3, StepOfTheTable
<1> QED
  BY <1>1, TInvariance, PTL DEF Spec, ChipsNeverAppear

\* Who is out of the game stays out and wins nothing: neither the pots of the
\* hand it left nor those of later hands (act, abandon).
THEOREM WhoIsOutStaysOut == ASSUME Gapless PROVE Spec => EliminatedStayOut
<1> DEFINE StaysOut == \A u \in Users : ~participants[u].eligible =>
                         /\ ~participants'[u].eligible
                         /\ participants'[u].stack <= participants[u].stack
<1>1. ASSUME IInv /\ TInv, [Next]_vars PROVE [StaysOut]_vars
  <2>1. Seating /\ TInv /\ RowTypes
    BY <1>1, EverySeatTaken DEF TInv, RowsPart
  <2>2. ASSUME NEW u \in Users
        PROVE  participants[u].stack \in Nat /\ SeatOf[u] \in Seats
    BY <2>1 DEF RowTypes, Seating
  <2>3. ASSUME Running, NEW h, NEW st, NEW moves, NEW completed, NEW left,
               st \in [Seats -> Nat], Moved(h, st, moves, completed, left)
        PROVE  StaysOut
    <3>1. /\ h \in HandType /\ left \in SUBSET Users /\ completed \in BOOLEAN
          /\ participants' = ParticipantsAfter(h, completed, left)
          /\ Follows(handRow.state, h, left)
      BY <2>3 DEF Moved, HandInv, InPlay, Live, Over
    <3>2. \A u \in Users :
            /\ participants'[u].stack = h.stack[SeatOf[u]]
            /\ participants'[u].eligible <=>
                 /\ participants[u].eligible /\ u \notin left
                 /\ ~(completed /\ h.stack[SeatOf[u]] = 0)
      BY <2>1, <3>1, ParticipantsType
    <3>3. ASSUME NEW u \in Users, ~participants[u].eligible
          PROVE  h.stack[SeatOf[u]] <= participants[u].stack
      <4>1. handRow.state.folded[SeatOf[u]]
            /\ handRow.state.stack[SeatOf[u]] <= participants[u].stack
        BY <2>1, <2>3, <3>3 DEF TInv, RowsPart, SeatPart
      <4>2. h.stack[SeatOf[u]] = handRow.state.stack[SeatOf[u]]
        BY <2>2, <3>1, <4>1 DEF Follows
      <4> QED
        BY <4>1, <4>2
    <3> QED
      BY <3>2, <3>3
  <2>4. ASSUME NEW u \in Users, participants' = ParticipantsAfter(handRow.state, FALSE, {u})
        PROVE  StaysOut
    <3>1. PICK h : h = handRow.state
      OBVIOUS
    <3>2. PICK completed \in BOOLEAN : completed = FALSE
      OBVIOUS
    <3>3. PICK left \in SUBSET Users : left = {u}
      OBVIOUS
    <3>4. h \in HandType /\ participants' = ParticipantsAfter(h, completed, left)
      BY <2>1, <2>4, <3>1, <3>2, <3>3 DEF RowTypes
    <3>5. \A v \in Users :
            /\ participants'[v].stack = h.stack[SeatOf[v]]
            /\ participants'[v].eligible <=>
                 /\ participants[v].eligible /\ v \notin left
                 /\ ~(completed /\ h.stack[SeatOf[v]] = 0)
      BY <2>1, <3>4, ParticipantsType
    <3>6. \A v \in Users : ~participants[v].eligible => h.stack[SeatOf[v]] <= participants[v].stack
      BY <2>1, <3>1 DEF TInv, RowsPart, SeatPart
    <3> QED
      BY <3>5, <3>6
  <2>5. ASSUME \A v \in Users : /\ participants'[v].stack = participants[v].stack
                                /\ participants'[v].eligible = participants[v].eligible
        PROVE  StaysOut
    BY <2>2, <2>5
  <2> HIDE DEF StaysOut
  <2>6. StaysOut
    BY <1>1, <2>1, <2>3, <2>4, <2>5, StepOfTheTable
  <2> QED
    BY <2>6
<1> QED
  BY <1>1, TInvariance, PTL DEF Spec, EliminatedStayOut
=============================================================================
