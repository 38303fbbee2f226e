--------------------------- MODULE MultiplayerTable ---------------------------
(***************************************************************************)
(* A started room's table: backend/src/modules/multiplayer, the service's  *)
(* act, abandon, reconnect, heartbeat, disconnect and reaper, over the     *)
(* rows of one table.                                                      *)
(*                                                                         *)
(* act and abandon check the caller's membership first, outside any lock,  *)
(* and change the table later in a transaction that locks its row: each is *)
(* an admission step and a commit step here, and anything may come between *)
(* them.  Requests may be delivered late, out of order and more than once. *)
(* The reaper reads who is to be folded in one step and folds in a later   *)
(* one, by way of act.                                                     *)
(***************************************************************************)
EXTENDS PokerEngine

CONSTANTS
  Users,            \* the room's members when it started
  SeatOf,           \* RoomMember.seatNumber of each of them
  StartingStackBB,  \* PokerRoom.startingStackBB
  Moves,            \* bound: the [type, amount] pairs clients ask for
  Roaming,          \* bound: the users whose connection comes and goes
  MaxRequests,      \* bound: requests the clients send
  MaxVersion        \* bound: no request, leave or fold starts from here on

ASSUME RosterAssumption ==
  /\ Cardinality(Users) = N
  /\ SeatOf \in [Users -> Nat \ {0}]
  /\ \A u, v \in Users : SeatOf[u] = SeatOf[v] => u = v

ASSUME BoundsAssumption ==
  /\ StartingStackBB \in Nat \ {0}
  /\ Moves \subseteq [type : ActionTypes, amount : Nat]
  /\ Roaming \subseteq Users
  /\ MaxRequests \in Nat
  /\ MaxVersion \in Nat

VARIABLES
  room,          \* PokerRoom.status and the user ids of its RoomMembers
  table,         \* the MultiplayerTable row
  handRow,       \* the MultiplayerHand row currentHandId names: hand handNumber
  participants,  \* the TableParticipant rows by user id
  actions,       \* the TableAction rows
  sent,          \* client requests sent; the network may deliver them again
  reaping,       \* act calls the reaper is about to make, from what it read
  admitted,      \* act calls past assertStartedRoomMember, before their commit
  leaving        \* abandon calls at the same point, by user

vars == <<room, table, handRow, participants, actions, sent, reaping, admitted,
          leaving>>

-----------------------------------------------------------------------------
(* The roster in seat order *)

HasSeat(u)  == SeatOf[u] \in Seats      \* hand.seats.find(...) # undefined
Position(u) == Cardinality({v \in Users : SeatOf[v] <= SeatOf[u]})
UserAt(i)   == CHOOSE u \in Users : Position(u) = i
InSeat(s)   == CHOOSE u \in Users : SeatOf[u] = s

\* The next eligible participant after the dealer, the dealer itself last.
NextDealer(eligible) ==
  LET after(u) == Dist(Position(InSeat(table.dealer)), Position(u))
  IN  CHOOSE u \in eligible : \A v \in eligible : after(u) <= after(v)

\* The chips each participant brings to the next hand, by position: none for
\* a participant that was not eligible, or left.
StacksFor(h, left) ==
  [i \in Seats |->
     LET u == UserAt(i)
     IN  IF participants[u].eligible /\ u \notin left /\ HasSeat(u)
           THEN h.stack[SeatOf[u]] ELSE 0]

-----------------------------------------------------------------------------
(* The rows *)

RequestIds == 1 .. MaxRequests

\* Mutant of Timeout: one id for the whole table.
Timeout_PerTable(n) == -1

\* The reaper's request id names the hand; the user is a field of its own.
Timeout(n) == -n

Requests ==
  [user : Users, hand : Nat, version : Nat, move : Moves, id : RequestIds]

NewHand(stacks, dealer, version) ==
  [status |-> "ACTIVE", version |-> version,
   state |-> StartHand(stacks, dealer),
   moves |-> 0]                         \* actionHistory.length

\* createTableFromStartedRoom: the members are dealt seats 1 .. N in order but
\* keep the seat numbers of the room.
Init ==
  LET chips == [s \in Seats |-> 2 * StartingStackBB]
      hand  == NewHand(chips, 1, 1)
  IN  /\ room  = [status |-> "STARTED", members |-> Users]
      /\ table = [status |-> "ACTIVE", version |-> 1, handNumber |-> 1,
                  dealer |-> SeatOf[UserAt(1)]]
      /\ handRow = hand
      /\ participants =
           [u \in Users |-> [stack    |-> hand.state.stack[Position(u)],
                             eligible |-> TRUE,
                             conn     |-> "DISCONNECTED",
                             since    |-> "never"]]    \* disconnectedAt = null
      /\ actions = {} /\ sent = {} /\ reaping = {} /\ admitted = {}
      /\ leaving = {}

StartedMember(u) == room.status = "STARTED" /\ u \in room.members

Eliminated(p) == [p EXCEPT !.eligible = FALSE, !.conn = "ELIMINATED"]

\* The participants' rows after a commit that left hand h, which completed or
\* not, and after the users in left went away.
ParticipantsAfter(h, completed, left) ==
  [u \in Users |->
     LET seated == HasSeat(u)
         p == IF seated THEN [participants[u] EXCEPT !.stack = h.stack[SeatOf[u]]]
                        ELSE participants[u]
     IN  IF u \in left \/ (completed /\ seated /\ h.stack[SeatOf[u]] = 0)
           THEN Eliminated(p) ELSE p]

DealNext(stacks, dealer) ==
  /\ handRow' = NewHand(stacks, dealer, table.version + 1)
  /\ table' = [table EXCEPT !.version = @ + 1, !.handNumber = @ + 1,
                            !.dealer = dealer]

\* The table closes with a hand that nobody follows.
PlayOn(h, moves, completed) ==
  /\ handRow' = [status  |-> IF completed THEN "COMPLETED" ELSE handRow.status,
                 version |-> handRow.version + 1,
                 state   |-> h,
                 moves   |-> moves]
  /\ table' = [table EXCEPT !.version = @ + 1,
                            !.status = IF completed THEN "CLOSED" ELSE @]

\* Mutants of NextRows: a new hand's version starts again; the table's version
\* counts the moves of a hand only; the table plays on with one player.
NextRows_HandAtOne(h, moves, completed, eligible, left) ==
  IF completed /\ Cardinality(eligible) >= 2
    THEN /\ handRow' = NewHand(StacksFor(h, left), SeatOf[NextDealer(eligible)], 1)
         /\ table' = [table EXCEPT !.version = @ + 1, !.handNumber = @ + 1,
                                   !.dealer = SeatOf[NextDealer(eligible)]]
    ELSE PlayOn(h, moves, completed)

NextRows_SameVersion(h, moves, completed, eligible, left) ==
  IF completed /\ Cardinality(eligible) >= 2
    THEN /\ handRow' = NewHand(StacksFor(h, left), SeatOf[NextDealer(eligible)],
                               table.version)
         /\ table' = [table EXCEPT !.handNumber = @ + 1,
                                   !.dealer = SeatOf[NextDealer(eligible)]]
    ELSE PlayOn(h, moves, completed)

NextRows_OnePlayer(h, moves, completed, eligible, left) ==
  IF completed /\ eligible # {}
    THEN DealNext(StacksFor(h, left), SeatOf[NextDealer(eligible)])
    ELSE PlayOn(h, moves, completed)

\* The table and hand rows after a commit that left hand h: the next hand when
\* this one completed and two can play on, else this hand a version later.
NextRows(h, moves, completed, eligible, left) ==
  IF completed /\ Cardinality(eligible) >= 2
    THEN DealNext(StacksFor(h, left), SeatOf[NextDealer(eligible)])
    ELSE PlayOn(h, moves, completed)

-----------------------------------------------------------------------------
(* act *)

\* A client sends what its view of the table asks for.  A client whose view
\* is behind is one whose request is delivered late.
Send(u, move) ==
  /\ table.version < MaxVersion
  /\ Cardinality(sent) < MaxRequests
  /\ sent' = sent \cup {[user |-> u, hand |-> table.handNumber,
                         version |-> table.version, move |-> move,
                         id |-> Cardinality(sent) + 1]}
  /\ UNCHANGED <<room, table, handRow, participants, actions, reaping, admitted,
                 leaving>>

\* assertStartedRoomMember passes, for a client's request, which may be
\* delivered again, or for the reaper's.
Admit(r) ==
  /\ r \in (sent \cup reaping) \ admitted
  /\ StartedMember(r.user)
  /\ admitted' = admitted \cup {r}
  /\ reaping' = reaping \ {r}
  /\ UNCHANGED <<room, table, handRow, participants, actions, sent, leaving>>

\* A client's request refused there leaves no trace; the reaper's call ends
\* its pass with an error.
ReapRefused(r) ==
  /\ r \in reaping
  /\ ~StartedMember(r.user)
  /\ reaping' = reaping \ {r}
  /\ UNCHANGED <<room, table, handRow, participants, actions, sent, admitted,
                 leaving>>

\* Mutant of Recorded: a request that was rejected is not remembered.
Recorded_Accepted(r) ==
  \E a \in actions : a.id = r.id /\ a.user = r.user /\ a.accepted

\* The duplicate the transaction looks for, in every hand of the table.
Recorded(r) == \E a \in actions : a.id = r.id /\ a.user = r.user

\* Mutant of IsCurrent: the version is not compared.
IsCurrent_HandOnly(r) == r.hand = table.handNumber

\* The request is for the hand and version the table is at.
IsCurrent(r) == r.hand = table.handNumber /\ r.version = handRow.version

\* Every check of the transaction but the engine's.
MayAct(r) ==
  /\ ~Recorded(r)
  /\ table.status # "CLOSED"
  /\ IsCurrent(r)
  /\ handRow.state.toAct = SeatOf[r.user]

LegalMove(r) ==
  IsLegal(handRow.state, SeatOf[r.user], r.move.type, r.move.amount)

\* A replay, or stale, or out of turn, or at a closed table: no row changes.
CommitRefused(r) ==
  /\ r \in admitted
  /\ ~MayAct(r)
  /\ admitted' = admitted \ {r}
  /\ UNCHANGED <<room, table, handRow, participants, actions, sent, reaping,
                 leaving>>

RejectedRows == {a \in actions : a.hand = table.handNumber /\ ~a.accepted}

\* recordRejectedAction: the refusal is kept for replays of the request.
CommitIllegal(r) ==
  /\ r \in admitted
  /\ MayAct(r)
  /\ ~LegalMove(r)
  /\ actions' = actions \cup
       {[user |-> r.user, id |-> r.id, hand |-> table.handNumber,
         accepted |-> FALSE, version |-> 0,
         seq |-> -1 - Cardinality(RejectedRows)]}
  /\ admitted' = admitted \ {r}
  /\ UNCHANGED <<room, table, handRow, participants, sent, reaping, leaving>>

\* The action is applied, recorded, and the table moves on by one version.
\* Only players with a seat in the hand can go on to the next; a hand that
\* leaves fewer than two closes the table but not the room.
CommitAccepted(r) ==
  /\ r \in admitted
  /\ MayAct(r)
  /\ LegalMove(r)
  /\ \E h \in Settle(SubmitAction(handRow.state, r.move.type, r.move.amount)) :
       LET completed == h.round = "complete"
           moves     == handRow.moves + 1
           eligible  == {u \in Users : /\ participants[u].eligible
                                       /\ HasSeat(u)
                                       /\ h.stack[SeatOf[u]] > 0}
       IN  /\ actions' = actions \cup
                {[user |-> r.user, id |-> r.id, hand |-> table.handNumber,
                  accepted |-> TRUE, version |-> table.version + 1,
                  seq |-> moves]}
           /\ participants' = ParticipantsAfter(h, completed, {})
           /\ NextRows(h, moves, completed, eligible, {})
  /\ admitted' = admitted \ {r}
  /\ UNCHANGED <<room, sent, reaping, leaving>>

Commit(r) == CommitRefused(r) \/ CommitIllegal(r) \/ CommitAccepted(r)

-----------------------------------------------------------------------------
(* abandon *)

AdmitAbandon(u) ==
  /\ table.version < MaxVersion
  /\ StartedMember(u)
  /\ u \notin leaving
  /\ leaving' = leaving \cup {u}
  /\ UNCHANGED <<room, table, handRow, participants, actions, sent, reaping,
                 admitted>>

\* Mutant of MayLeave: the member row is not looked for again.
MayLeave_Admitted(u) == TRUE

\* The member row is still there.
MayLeave(u) == u \in room.members

\* The member row is gone: the table closed, or another abandon of the same
\* user got here first.
AbandonRefused(u) ==
  /\ u \in leaving
  /\ ~MayLeave(u)
  /\ leaving' = leaving \ {u}
  /\ UNCHANGED <<room, table, handRow, participants, actions, sent, reaping,
                 admitted>>

\* The member leaves the hand and the room.  A participant without a seat in
\* the hand counts by the stack of its row; a hand that leaves fewer than two
\* closes the table and the room, and releases its members.
Abandon(u) ==
  /\ u \in leaving
  /\ MayLeave(u)
  /\ \E h \in IF table.status = "ACTIVE"
                THEN Settle(AbandonSeat(handRow.state, SeatOf[u]))
                ELSE {handRow.state} :
       LET completed == h.round = "complete" /\ handRow.status = "ACTIVE"
           eligible  == {v \in Users \ {u} :
                           /\ participants[v].eligible
                           /\ IF HasSeat(v) THEN h.stack[SeatOf[v]] > 0
                                            ELSE participants[v].stack > 0}
           folds     == handRow.state.toAct = SeatOf[u]
       IN  /\ participants' = ParticipantsAfter(h, completed, {u})
           /\ NextRows(h, handRow.moves + (IF folds THEN 1 ELSE 0), completed,
                       eligible, {u})
           /\ room' = IF completed /\ Cardinality(eligible) < 2
                        THEN [status |-> "CLOSED", members |-> {}]
                        ELSE [room EXCEPT !.members = @ \ {u}]
  /\ leaving' = leaving \ {u}
  /\ UNCHANGED <<actions, sent, reaping, admitted>>

-----------------------------------------------------------------------------
(* Presence and the reaper *)

SetPresence(u, conn, since) ==
  /\ participants' = [participants EXCEPT ![u].conn = conn, ![u].since = since]
  /\ UNCHANGED <<room, table, handRow, actions, sent, reaping, admitted, leaving>>

\* Mutant of Connect: eliminated participants are marked too.
Connect_Eliminated(u) == StartedMember(u) /\ SetPresence(u, "ONLINE", "never")

\* reconnect and heartbeat: both set ONLINE and clear disconnectedAt, for
\* participants that are still eligible.
Connect(u) ==
  /\ StartedMember(u)
  /\ participants[u].eligible
  /\ SetPresence(u, "ONLINE", "never")

\* disconnect, when the last socket of the user goes or its page is left.
Disconnect(u) ==
  /\ participants[u].eligible
  /\ SetPresence(u, "DISCONNECTED", "recent")

\* Sixty seconds pass (DISCONNECT_GRACE_MS).
GraceExpires(u) ==
  /\ participants[u].since = "recent"
  /\ SetPresence(u, participants[u].conn, "expired")

\* findExpiredDisconnectedParticipants.
IsExpired(u) == /\ participants[u].conn = "DISCONNECTED"
                /\ participants[u].since = "expired"
                /\ participants[u].eligible

TimeoutFold(u) ==
  [user |-> u, hand |-> table.handNumber, version |-> table.version,
   move |-> [type |-> "fold", amount |-> 0], id |-> Timeout(table.handNumber)]

\* A pass reads who is expired and in turn, and is about to call act for it.
Reap(u) ==
  /\ table.version < MaxVersion
  /\ IsExpired(u)
  /\ handRow.state.toAct = SeatOf[u]
  /\ TimeoutFold(u) \notin reaping \cup admitted
  /\ reaping' = reaping \cup {TimeoutFold(u)}
  /\ UNCHANGED <<room, table, handRow, participants, actions, sent, admitted,
                 leaving>>

-----------------------------------------------------------------------------

Next ==
  \/ \E u \in Users, move \in Moves : Send(u, move)
  \/ \E r \in sent \cup reaping : Admit(r)
  \/ \E r \in reaping : ReapRefused(r)
  \/ \E r \in admitted : Commit(r)
  \/ \E u \in Users : AdmitAbandon(u) \/ AbandonRefused(u) \/ Abandon(u)
  \/ \E u \in Roaming : Connect(u) \/ Disconnect(u)
  \/ \E u \in Users : GraceExpires(u) \/ Reap(u)

Spec == Init /\ [][Next]_vars

\* The clock and the reaper's interval run on, and what the reaper began ends.
\* Nothing is assumed of the players.  Only Commit ends a call that was admitted,
\* and it always can: it is named here by what it does to the call.
Fairness ==
  /\ \A u \in Users : WF_vars(GraceExpires(u)) /\ WF_vars(Reap(u))
  /\ WF_vars(\E r \in reaping : Admit(r) \/ ReapRefused(r))
  /\ WF_admitted(\E r \in admitted : r.id < 0 /\ admitted' = admitted \ {r})

FairSpec == Spec /\ Fairness

-----------------------------------------------------------------------------
(* What a participant is shown: projectTable *)

\* result.revealedSeats: after a showdown, the seats that did not fold.
RevealedSeats(h) ==
  IF h.round = "complete" /\ \E s \in Seats : h.rank[s] # 0 THEN NonFolded(h) ELSE {}

\* The actions are offered to the viewer in turn; cards are those of the viewer
\* and of the revealed seats.
ProjectTable(viewer) ==
  LET h == handRow.state
  IN  [status       |-> table.status,
       stateVersion |-> table.version,
       actingSeat   |-> h.toAct,
       legalActions |-> IF h.toAct = SeatOf[viewer] THEN LegalActions(h) ELSE {},
       cardsOf      |-> {u \in Users : HasSeat(u) /\
                           (u = viewer \/ SeatOf[u] \in RevealedSeats(h))}]

-----------------------------------------------------------------------------
(* Properties *)

Running == table.status = "ACTIVE"

RowType ==
  [user : Users, id : Int, hand : Nat, accepted : BOOLEAN, version : Nat, seq : Int]

\* Type correctness, with the link between the two columns that say that a
\* participant is out: eligibleForNextHand and connectionStatus.
TypeOK ==
  /\ room \in [status : {"STARTED", "CLOSED"}, members : SUBSET Users]
  /\ table \in [status : {"ACTIVE", "CLOSED"}, version : Nat, handNumber : Nat,
                dealer : Nat]
  /\ handRow \in [status : {"ACTIVE", "COMPLETED"}, version : Nat,
                  state : HandType, moves : Nat]
  /\ participants \in [Users -> [stack : Nat, eligible : BOOLEAN,
                                 conn : {"ONLINE", "DISCONNECTED", "ELIMINATED"},
                                 since : {"never", "recent", "expired"}]]
  /\ \A u \in Users : participants[u].conn = "ELIMINATED" <=> ~participants[u].eligible
  /\ \A a \in actions : a \in RowType
  /\ sent \subseteq Requests /\ leaving \subseteq Users

\* The hand's version and the table's move together, through hands, departures
\* and the close: clients send back the one, act compares the other
\* (multiplayer-lifecycle.test.ts:12, 'keeps versions aligned').
VersionsInStep == table.version = handRow.version

\* Whatever is sent twice, late or at once, one state of the table is followed
\* by at most one accepted action (spec 005, FR-007 and SC-004).
OneActionPerVersion ==
  \A a, b \in actions :
    a.accepted /\ b.accepted /\ a.version = b.version => a = b

\* An accepted action was decided on the very state it changed: the request
\* carries the hand and the version before it.  act compares the hand row's
\* version and records the table's.
ActsOnTheStateSeen ==
  \A a \in actions : a.accepted /\ a.id > 0 =>
    \E r \in sent : /\ r.id = a.id /\ r.user = a.user
                    /\ r.hand = a.hand /\ r.version + 1 = a.version

\* The table_actions rows never break the unique indexes of the schema, which
\* would turn a refusal into an internal error: a request leaves one row in all
\* its deliveries, and no two rows of a hand share a sequence number.
RowsAreUnique ==
  \A a, b \in actions :
    \/ a.user = b.user /\ a.id = b.id
    \/ a.hand = b.hand /\ a.seq = b.seq
    => a = b

\* The seat a running hand waits for belongs to a member who can still act:
\* never to one who left, lost its chips or is not at the table, after any
\* interleaving of departures, folds and new hands.  That member is offered
\* actions, nobody else is, and nobody sees another's cards (projectTable;
\* spec 005, FR-004).
TurnBelongsToMember ==
  Running =>
    /\ \E u \in room.members :
         /\ SeatOf[u] = handRow.state.toAct /\ participants[u].eligible
         /\ \A v \in Users : ProjectTable(v).legalActions # {} <=> u = v
    /\ \A u \in Users : ProjectTable(u).cardsOf \subseteq {u}

\* A table is open exactly while a hand runs on it that at least two eligible
\* members contest (spec 005, FR-015).
OpenWhileTwoPlay ==
  /\ Running <=> handRow.status = "ACTIVE" /\ handRow.state.round # "complete"
  /\ Running => Cardinality({u \in room.members :
                               /\ participants[u].eligible
                               /\ ~handRow.state.folded[SeatOf[u]]}) >= 2

ChipsInPlay ==
  SumTo(handRow.state.stack, N)
    + (IF handRow.status = "ACTIVE" THEN SumTo(handRow.state.total, N) ELSE 0)

\* No step brings chips onto the table: not the award of a pot, nor the deal
\* of the next hand from the stacks of the last (act, abandon, startHand).
ChipsNeverAppear == [][ChipsInPlay' <= ChipsInPlay]_vars

\* Who is out stays out, and wins nothing: neither the pots of the hand it
\* left nor those of later hands (spec 005, FR-016).
EliminatedStayOut ==
  [][\A u \in Users : ~participants[u].eligible =>
       /\ ~participants'[u].eligible
       /\ participants'[u].stack <= participants[u].stack]_vars

\* A player away for longer than the grace period does not hold up the table:
\* it comes back, or the turn passes (spec 005, FR-011).  A fold refused
\* because the table moved on is followed by another.
ExpiredTurnPasses ==
  \A u \in Users :
    (Running /\ IsExpired(u) /\ handRow.state.toAct = SeatOf[u]
       /\ table.version < MaxVersion)
      ~> ~(IsExpired(u) /\ handRow.state.toAct = SeatOf[u] /\ table.version < MaxVersion)

-----------------------------------------------------------------------------
(* The table as a log of commands *)

Command(x, on) == [who |-> x.user, id |-> x.id, on |-> on]

Log == INSTANCE CommandLog WITH
  People  <- Users,
  version <- table.version,
  open    <- Running,
  members <- room.members,
  asked   <- {Command(r, r.version) : r \in sent \cup reaping \cup admitted},
  log     <- {Command(a, a.version - 1) : a \in {b \in actions : b.accepted}}

\* Retries, late deliveries, checks that are made before the lock, refusals and
\* the reaper do not show: whatever act and abandon do between their steps, the
\* table is a log of commands (spec 005, FR-007).
ImplementsCommandLog == Log!LogSpec

-----------------------------------------------------------------------------
(* What the repository says of a table and the code does not do *)

Absent(u) == /\ Running
             /\ participants[u].conn = "DISCONNECTED"
             /\ handRow.state.toAct = SeatOf[u]
             /\ table.version < MaxVersion

\* specs/005-multiplayer-poker/spec.md:106, FR-011: "System MUST automatically
\* fold the acting member's hand when that member remains disconnected beyond
\* the 60-second grace period."
AbsentTurnPasses == \A u \in Users : Absent(u) ~> ~Absent(u)

\* specs/005-multiplayer-poker/spec.md:97, FR-002: "System MUST use the started
\* room's final roster and configuration as the authoritative participants and
\* rules for each hand": a hand never waits for a seat that is not on it.
TurnIsOnTheRoster ==
  Running => \E u \in Users : SeatOf[u] = handRow.state.toAct
=============================================================================
