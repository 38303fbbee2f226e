------------------------------ MODULE LobbyProofs ------------------------------
(***************************************************************************)
(* What holds of the friends and the rooms of the lobby for any number of  *)
(* users, requests in progress, rooms, seats and memberships.              *)
(***************************************************************************)
EXTENDS Rooms, FiniteSetTheorems, WellFoundedInduction, TLAPS

-----------------------------------------------------------------------------
(* Friends: the inductive invariant *)

Row == [id : Nat, sender : Acquainted, receiver : Acquainted, status : {"PENDING", "ACCEPTED"}]

Joins(q, u, v) == (q.sender = u /\ q.receiver = v) \/ (q.sender = v /\ q.receiver = u)

RowsTyped ==
  /\ requests \subseteq Row /\ created \in Nat
  /\ \A q \in requests : q.id <= created /\ q.sender # q.receiver
  /\ \A p, q \in requests : p.id = q.id => p = q

OneRowPerPair ==
  \A p, q \in requests : Joins(p, q.sender, q.receiver) => p = q

\* The request of u to v stands: u sent it, or the two are friends.
Stands(u, v) ==
  \E q \in requests : Joins(q, u, v) /\ (q.sender = u \/ q.status = "ACCEPTED")

AskedStands ==
  \A u, v \in Acquainted : u # v => (<<u, v>> \in asked <=> Stands(u, v))

\* What a handler will write, it writes for two users; and a row about to be
\* accepted by its id is, as long as it exists, the one its receiver read.
FriendCallOk(c) ==
  /\ c.op \in {"create", "race"} => c.by \in Acquainted /\ c.to \in Acquainted /\ c.by # c.to
  /\ c.op = "accept" =>
       /\ c.id \in Nat /\ c.id <= created
       /\ \A q \in requests : q.id = c.id => q.sender = c.to /\ q.receiver = c.by

CallsAreAFunction == calls = [h \in Handlers |-> calls[h]]

FriendCallsOk == \A h \in Handlers : FriendCallOk(calls[h])

FriendsInv ==
  RowsTyped /\ OneRowPerPair /\ AskedStands /\ CallsAreAFunction /\ FriendCallsOk

-----------------------------------------------------------------------------
(* Friends: the steps *)

LEMMA BetweenJoins ==
  ASSUME NEW u, NEW v, NEW q
  PROVE  q \in Between(u, v) <=> q \in requests /\ Joins(q, u, v)
  BY DEF Between, Joins

LEMMA OneCallChanges ==
  ASSUME CallsAreAFunction, NEW h \in Handlers, NEW c, Continue(h, c)
  PROVE  /\ CallsAreAFunction'
         /\ calls'[h] = c
         /\ \A g \in Handlers \ {h} : calls'[g] = calls[g]
  BY Zenon DEF CallsAreAFunction, Continue

LEMMA FriendCallChanges ==
  ASSUME FriendsInv, NEW h \in Handlers, NEW c, Continue(h, c), FriendCallOk(c),
         UNCHANGED friendRows
  PROVE  FriendsInv'
<1>1. RowsTyped' /\ OneRowPerPair' /\ AskedStands'
  BY DEF FriendsInv, friendRows, RowsTyped, OneRowPerPair, AskedStands, Stands
<1>2. \A g \in Handlers : calls'[g] = c \/ calls'[g] = calls[g]
  BY OneCallChanges DEF FriendsInv
<1>3. FriendCallsOk'
  BY <1>2 DEF FriendsInv, FriendCallsOk, FriendCallOk, friendRows
<1> QED BY <1>1, <1>3, OneCallChanges DEF FriendsInv

LEMMA FriendCallEnds ==
  ASSUME FriendsInv, NEW h \in Handlers, Finish(h), UNCHANGED friendRows
  PROVE  FriendsInv'
<1>1. FriendCallOk(Idle)
  BY DEF FriendCallOk, Idle
<1> QED BY <1>1, FriendCallChanges DEF Finish

\* A user is told again that its request stands.
LEMMA ConflictKeeps ==
  ASSUME FriendsInv, NEW h \in Handlers, Finish(h),
         NEW u \in Acquainted, NEW v \in Acquainted, u # v, Stands(u, v),
         asked' = asked \cup {<<u, v>>}, UNCHANGED <<requests, created>>
  PROVE  FriendsInv'
<1>1. asked' = asked
  BY DEF FriendsInv, AskedStands
<1> QED BY <1>1, FriendCallEnds DEF friendRows

LEMMA ResolveKeeps ==
  ASSUME FriendsInv, NEW h \in Handlers,
         NEW u \in Acquainted, NEW v \in Acquainted, u # v,
         NEW q \in Between(u, v), ResolveExistingPair(h, u, v, q)
  PROVE  FriendsInv'
<1>1. q \in requests /\ Joins(q, u, v) /\ q \in Row /\ q.id <= created /\ q.id \in Nat
  BY BetweenJoins DEF FriendsInv, RowsTyped, Row
<1>2. CASE q.status = "PENDING" /\ q.sender = v
  <2>1. /\ Continue(h, ById(u, v, q.id, "accept"))
        /\ UNCHANGED friendRows
    BY <1>2 DEF ResolveExistingPair
  <2>2. q.receiver = u
    BY <1>1, <1>2 DEF Joins
  <2>3. FriendCallOk(ById(u, v, q.id, "accept"))
    BY <1>1, <1>2, <2>2 DEF FriendCallOk, ById, FriendsInv, RowsTyped
  <2> QED BY <2>1, <2>3, FriendCallChanges
<1>3. CASE ~(q.status = "PENDING" /\ q.sender = v)
  <2>1. Stands(u, v)
    BY <1>1, <1>3 DEF Stands, Joins, Row
  <2> QED BY <1>3, <2>1, ConflictKeeps DEF ResolveExistingPair
<1> QED BY <1>2, <1>3

LEMMA SendRequestKeeps ==
  ASSUME FriendsInv, NEW h \in Handlers, NEW u \in Acquainted, NEW v \in Acquainted,
         SendRequest(h, u, v)
  PROVE  FriendsInv'
<1> DEFINE c == [op |-> "create", by |-> u, to |-> v]
<1>1. u # v
  BY DEF SendRequest
<1>2. FriendCallOk(c)
  BY <1>1 DEF FriendCallOk
<1> HIDE DEF c
<1>3. CASE Continue(h, c) /\ UNCHANGED friendRows
  BY <1>2, <1>3, FriendCallChanges
<1>4. CASE \E q \in Between(u, v) : ResolveExistingPair(h, u, v, q)
  BY <1>1, <1>4, ResolveKeeps
<1> QED BY <1>3, <1>4 DEF SendRequest, c

LEMMA ResolveRaceKeeps ==
  ASSUME FriendsInv, NEW h \in Handlers, ResolveRace(h)
  PROVE  FriendsInv'
<1>1. /\ calls[h].by \in Acquainted /\ calls[h].to \in Acquainted
      /\ calls[h].by # calls[h].to
  BY DEF ResolveRace, FriendsInv, FriendCallsOk, FriendCallOk
<1>2. CASE Finish(h) /\ UNCHANGED friendRows
  BY <1>2, FriendCallEnds
<1>3. CASE \E q \in Between(calls[h].by, calls[h].to) :
             ResolveExistingPair(h, calls[h].by, calls[h].to, q)
  BY <1>1, <1>3, ResolveKeeps
<1> QED BY <1>2, <1>3 DEF ResolveRace

\* The unique index: a new row is the first of its pair.
LEMMA CreateRequestKeeps ==
  ASSUME FriendsInv, NEW h \in Handlers, CreateRequest(h)
  PROVE  FriendsInv'
<1> DEFINE u == calls[h].by
           v == calls[h].to
           c == [op |-> "race", by |-> u, to |-> v]
           new == [id |-> created + 1, sender |-> u, receiver |-> v, status |-> "PENDING"]
<1>1. u \in Acquainted /\ v \in Acquainted /\ u # v
  BY DEF CreateRequest, FriendsInv, FriendCallsOk, FriendCallOk
<1>2. CASE Continue(h, c) /\ UNCHANGED friendRows
  <2>1. FriendCallOk(c)
    BY <1>1 DEF FriendCallOk
  <2> QED BY <1>2, <2>1, FriendCallChanges
<1>3. CASE Between(u, v) = {} /\ InsertRequest(u, v) /\ Finish(h)
  <2>1. /\ requests' = requests \cup {new} /\ created' = created + 1
        /\ asked' = asked \cup {<<u, v>>}
    BY <1>3 DEF InsertRequest
  <2>2. /\ new \in Row /\ new.id = created + 1 /\ new.sender = u /\ new.receiver = v
        /\ new.status = "PENDING" /\ created \in Nat
    BY <1>1 DEF FriendsInv, RowsTyped, Row
  <2>3. \A q \in requests : ~Joins(q, u, v)
    BY <1>3, BetweenJoins
  <2> HIDE DEF new, u, v
  <2>4. RowsTyped'
    BY <1>1, <2>1, <2>2 DEF FriendsInv, RowsTyped, Row
  <2>5. OneRowPerPair'
    BY <2>1, <2>2, <2>3 DEF FriendsInv, OneRowPerPair, Joins
  <2>6. AskedStands'
    <3> SUFFICES ASSUME NEW a \in Acquainted, NEW b \in Acquainted, a # b
                 PROVE  <<a, b>> \in asked' <=> Stands(a, b)'
      BY DEF AskedStands
    <3>1. Stands(a, b)' <=> Stands(a, b) \/ (a = u /\ b = v)
      BY <2>1, <2>2 DEF Stands, Joins
    <3>2. <<a, b>> \in asked' <=> <<a, b>> \in asked \/ (a = u /\ b = v)
      BY <2>1
    <3> QED BY <3>1, <3>2 DEF FriendsInv, AskedStands
  <2>7. CallsAreAFunction' /\ \A g \in Handlers : calls'[g] = Idle \/ calls'[g] = calls[g]
    BY <1>3, OneCallChanges DEF FriendsInv, Finish
  <2>8. FriendCallsOk'
    <3> SUFFICES ASSUME NEW g \in Handlers PROVE FriendCallOk(calls[g])'
      BY DEF FriendCallsOk
    <3>1. CASE calls'[g] = Idle
      BY <3>1 DEF FriendCallOk, Idle
    <3>2. CASE calls'[g] = calls[g]
      BY <2>1, <2>2, <3>2 DEF FriendCallOk, FriendCallsOk, FriendsInv
    <3> QED BY <2>7, <3>1, <3>2
  <2> QED BY <2>4, <2>5, <2>6, <2>7, <2>8 DEF FriendsInv
<1> QED BY <1>2, <1>3 DEF CreateRequest

\* What a handler read of a row is remembered with its id.
LEMMA AcceptRequestKeeps ==
  ASSUME FriendsInv, NEW h \in Handlers, NEW q \in requests, AcceptRequest(h, q)
  PROVE  FriendsInv'
<1>1. FriendCallOk(ById(q.receiver, q.sender, q.id, "accept"))
  BY DEF FriendsInv, RowsTyped, Row, FriendCallOk, ById
<1> QED BY <1>1, FriendCallChanges DEF AcceptRequest

LEMMA DeletingKeeps ==
  ASSUME FriendsInv, NEW h \in Handlers, NEW q \in requests, NEW u \in Acquainted,
         RejectOrCancel(h, q, u) \/ RemoveFriend(h, q, u)
  PROVE  FriendsInv'
<1>1. FriendCallOk(ById(u, u, q.id, "delete"))
  BY DEF FriendCallOk, ById
<1> QED BY <1>1, FriendCallChanges DEF RejectOrCancel, RemoveFriend

\* The row that is accepted by its id is still the one the receiver read.
LEMMA AcceptRowKeeps ==
  ASSUME FriendsInv, NEW h \in Handlers, AcceptRow(h)
  PROVE  FriendsInv'
<1>1. CASE UNCHANGED friendRows
  BY <1>1, FriendCallEnds DEF AcceptRow
<1>2. ASSUME NEW q \in requests, q.id = calls[h].id,
             requests' = (requests \ {q}) \cup {[q EXCEPT !.status = "ACCEPTED"]},
             asked' = asked \cup {<<calls[h].by, calls[h].to>>}, UNCHANGED created
      PROVE  FriendsInv'
  <2> DEFINE new == [q EXCEPT !.status = "ACCEPTED"]
  <2>1. q.sender = calls[h].to /\ q.receiver = calls[h].by
    BY <1>2 DEF AcceptRow, FriendsInv, FriendCallsOk, FriendCallOk
  <2>2. /\ new \in Row /\ new.id = q.id /\ new.sender = q.sender
        /\ new.receiver = q.receiver /\ new.status = "ACCEPTED"
    BY DEF FriendsInv, RowsTyped, Row
  <2>3. requests' = (requests \ {q}) \cup {new}
    BY <1>2
  <2> HIDE DEF new
  <2>4. RowsTyped'
    BY <1>2, <2>2, <2>3 DEF FriendsInv, RowsTyped
  <2>5. OneRowPerPair'
    BY <2>2, <2>3 DEF FriendsInv, OneRowPerPair, Joins
  <2>6. AskedStands'
    <3> SUFFICES ASSUME NEW a \in Acquainted, NEW b \in Acquainted, a # b
                 PROVE  <<a, b>> \in asked' <=> Stands(a, b)'
      BY DEF AskedStands
    <3>1. Stands(a, b)' <=> Stands(a, b) \/ (a = q.receiver /\ b = q.sender)
      BY <2>2, <2>3 DEF Stands, Joins, FriendsInv, RowsTyped, Row
    <3>2. <<a, b>> \in asked' <=> <<a, b>> \in asked \/ (a = q.receiver /\ b = q.sender)
      BY <1>2, <2>1
    <3> QED BY <3>1, <3>2 DEF FriendsInv, AskedStands
  <2>7. CallsAreAFunction' /\ \A g \in Handlers : calls'[g] = Idle \/ calls'[g] = calls[g]
    BY OneCallChanges DEF FriendsInv, Finish, AcceptRow
  <2>8. FriendCallsOk'
    <3> SUFFICES ASSUME NEW g \in Handlers PROVE FriendCallOk(calls[g])'
      BY DEF FriendCallsOk
    <3>1. CASE calls'[g] = Idle
      BY <3>1 DEF FriendCallOk, Idle
    <3>2. CASE calls'[g] = calls[g]
      BY <1>2, <2>2, <2>3, <3>2 DEF FriendCallOk, FriendCallsOk, FriendsInv
    <3> QED BY <2>7, <3>1, <3>2
  <2> QED BY <2>4, <2>5, <2>6, <2>7, <2>8 DEF FriendsInv
<1> QED BY <1>1, <1>2 DEF AcceptRow

LEMMA DeleteRowKeeps ==
  ASSUME FriendsInv, NEW h \in Handlers, DeleteRow(h)
  PROVE  FriendsInv'
<1>1. CASE UNCHANGED friendRows
  BY <1>1, FriendCallEnds DEF DeleteRow
<1>2. ASSUME NEW q \in requests, requests' = requests \ {q},
             asked' = asked \ {<<q.sender, q.receiver>>, <<q.receiver, q.sender>>},
             UNCHANGED created
      PROVE  FriendsInv'
  <2>1. RowsTyped' /\ OneRowPerPair'
    BY <1>2 DEF FriendsInv, RowsTyped, OneRowPerPair
  <2>2. AskedStands'
    <3> SUFFICES ASSUME NEW a \in Acquainted, NEW b \in Acquainted, a # b
                 PROVE  <<a, b>> \in asked' <=> Stands(a, b)'
      BY DEF AskedStands
    <3>1. Stands(a, b)' <=> Stands(a, b) /\ ~Joins(q, a, b)
      BY <1>2 DEF Stands, Joins, FriendsInv, OneRowPerPair
    <3>2. <<a, b>> \in asked' <=> <<a, b>> \in asked /\ ~Joins(q, a, b)
      BY <1>2 DEF Joins
    <3> QED BY <3>1, <3>2 DEF FriendsInv, AskedStands
  <2>3. CallsAreAFunction' /\ \A g \in Handlers : calls'[g] = Idle \/ calls'[g] = calls[g]
    BY OneCallChanges DEF FriendsInv, Finish, DeleteRow
  <2>4. FriendCallsOk'
    <3> SUFFICES ASSUME NEW g \in Handlers PROVE FriendCallOk(calls[g])'
      BY DEF FriendCallsOk
    <3>1. CASE calls'[g] = Idle
      BY <3>1 DEF FriendCallOk, Idle
    <3>2. CASE calls'[g] = calls[g]
      BY <1>2, <3>2 DEF FriendCallOk, FriendCallsOk, FriendsInv
    <3> QED BY <2>3, <3>1, <3>2
  <2> QED BY <2>1, <2>2, <2>3, <2>4 DEF FriendsInv
<1> QED BY <1>1, <1>2 DEF DeleteRow

LEMMA FriendsNextKeeps ==
  ASSUME FriendsInv, FriendsNext
  PROVE  FriendsInv'
  BY SendRequestKeeps, CreateRequestKeeps, ResolveRaceKeeps, AcceptRowKeeps, DeleteRowKeeps,
     AcceptRequestKeeps, DeletingKeeps DEF FriendsNext
-----------------------------------------------------------------------------
(* Rooms: the inductive invariant *)

\* WellFoundedInduction has it of relations; here it is about numbers.
LEMMA Least ==
  ASSUME NEW S, S \subseteq Nat, S # {}
  PROVE  \E n \in S : \A m \in S : n <= m
<1> DEFINE R == OpToRel(<, Nat)
<1>1. \A m, n \in S : <<m, n>> \in R <=> m < n
  BY DEF OpToRel
<1>2. IsWellFoundedOn(R, Nat)
  BY NatLessThanWellFounded, Zenon
<1> HIDE DEF R
<1>3. PICK n \in S : \A m \in S : ~(<<m, n>> \in R)
  BY <1>2, WFMin, Zenon
<1>4. \A m \in S : ~(m < n)
  BY <1>1, <1>3, Zenon
<1>5. ASSUME NEW m \in S PROVE n <= m
  <2>1. m \in Nat /\ n \in Nat
    OBVIOUS
  <2> QED BY <1>4, <2>1
<1> QED BY <1>5

Room    == [status : {"NONE", "WAITING", "STARTED", "CLOSED"},
            host : Users \cup {NoUser}, creator : Users \cup {NoUser}]
Seats   == 1 .. SeatLimit
Member  == [id : Nat, room : Rooms, user : Users, seat : Seats, ready : BOOLEAN]
Answers == {"NONE", "PENDING", "ACCEPTED", "DECLINED", "INVALIDATED"}

RoomsTyped ==
  /\ rooms \in [Rooms -> Room] /\ members \subseteq Member
  /\ invitations \in [Rooms -> [Users -> Answers]] /\ joined \in Nat

Exists(r) == rooms[r].status # "NONE"

\* The visibility, the creator and the invitations let u be in r.
MayBeIn(u, r) == r \in Private => u = rooms[r].creator \/ invitations[r][u] # "NONE"

HostsBelong ==
  \A r \in Rooms :
    IF Exists(r) THEN rooms[r].host \in Users /\ MayBeIn(rooms[r].host, r)
    ELSE rooms[r].host = NoUser

MembersMayBeIn == \A m \in members : Exists(m.room) /\ MayBeIn(m.user, m.room)

SeatsApart ==
  \A m, n \in members : m.user = n.user \/ (m.room = n.room /\ m.seat = n.seat) => m = n

JoinCall == [op : {"join"}, user : Users, room : Rooms, invited : BOOLEAN, seat : 0 .. SeatLimit]

\* Whatever a handler is about to do to a room, the room exists; and whoever it
\* is about to seat, or to make the host, may be in it.
RoomCallOk(c) ==
  /\ c.op = "join" => c \in JoinCall /\ Exists(c.room) /\ MayBeIn(c.user, c.room)
  /\ c.op \in {"leave", "left", "start", "close"} => c.room \in Rooms /\ Exists(c.room)
  /\ c.op = "left" /\ c.outcome = "hand over" => c.heir \in Users /\ MayBeIn(c.heir, c.room)
  /\ c.op \in {"invite", "decline"} => c.room \in Rooms /\ c.user \in Users
  /\ c.op = "ready" => c.ready \in BOOLEAN

RoomCallsOk == \A h \in Handlers : RoomCallOk(calls[h])

RoomsInv ==
  /\ RoomsTyped /\ HostsBelong /\ MembersMayBeIn /\ SeatsApart
  /\ CallsAreAFunction /\ RoomCallsOk

-----------------------------------------------------------------------------
(* Rooms: what the steps have in common *)

\* No room goes away, and nobody loses what lets them be in one.
Monotone ==
  \A r \in Rooms : Exists(r) => Exists(r)' /\ \A u \in Users : MayBeIn(u, r) => MayBeIn(u, r)'

LEMMA CallStaysOk ==
  ASSUME RoomsInv, NEW g \in Handlers, Monotone, calls'[g] = calls[g]
  PROVE  RoomCallOk(calls[g])'
<1>1. RoomCallOk(calls[g])
  BY DEF RoomsInv, RoomCallsOk
<1>2. calls[g].op = "join" => calls[g].room \in Rooms /\ calls[g].user \in Users
  BY <1>1 DEF RoomCallOk, JoinCall
<1> QED BY <1>1, <1>2 DEF RoomCallOk, Monotone

LEMMA RoomCallChanges ==
  ASSUME RoomsInv, NEW h \in Handlers, NEW c, Continue(h, c), RoomCallOk(c),
         UNCHANGED roomRows
  PROVE  RoomsInv'
<1>1. RoomsTyped' /\ HostsBelong' /\ MembersMayBeIn' /\ SeatsApart'
  BY DEF RoomsInv, roomRows, RoomsTyped, HostsBelong, MembersMayBeIn, SeatsApart,
         Exists, MayBeIn
<1>2. \A g \in Handlers : calls'[g] = c \/ calls'[g] = calls[g]
  BY OneCallChanges DEF RoomsInv
<1>3. RoomCallsOk'
  BY <1>2 DEF RoomsInv, RoomCallsOk, RoomCallOk, roomRows, Exists, MayBeIn
<1> QED BY <1>1, <1>3, OneCallChanges DEF RoomsInv

LEMMA RoomCallEnds ==
  ASSUME RoomsInv, NEW h \in Handlers, Finish(h), Monotone
  PROVE  CallsAreAFunction' /\ RoomCallsOk'
<1>1. CallsAreAFunction' /\ \A g \in Handlers : calls'[g] = Idle \/ calls'[g] = calls[g]
  BY OneCallChanges DEF RoomsInv, Finish
<1>2. ASSUME NEW g \in Handlers PROVE RoomCallOk(calls[g])'
  <2>1. CASE calls'[g] = Idle
    BY <2>1 DEF RoomCallOk, Idle
  <2>2. CASE calls'[g] = calls[g]
    BY <2>2, CallStaysOk
  <2> QED BY <1>1, <2>1, <2>2
<1> QED BY <1>1, <1>2 DEF RoomCallsOk

LEMMA NoCallChanges ==
  ASSUME RoomsInv, UNCHANGED calls, Monotone
  PROVE  CallsAreAFunction' /\ RoomCallsOk'
<1>1. ASSUME NEW g \in Handlers PROVE RoomCallOk(calls[g])'
  BY CallStaysOk
<1> QED BY <1>1 DEF RoomsInv, CallsAreAFunction, RoomCallsOk

LEMMA RefusalKeeps ==
  ASSUME RoomsInv, NEW h \in Handlers, Refuse(h)
  PROVE  RoomsInv'
<1>1. RoomCallOk(Idle)
  BY DEF RoomCallOk, Idle
<1> QED BY <1>1, RoomCallChanges DEF Refuse, Finish

\* The status and the invitations change, the hosts do not.
LEMMA SameHosts ==
  ASSUME RoomsInv,
         \A r \in Rooms : /\ rooms'[r].host = rooms[r].host
                          /\ rooms'[r].creator = rooms[r].creator
                          /\ Exists(r)' <=> Exists(r),
         \A r \in Rooms, u \in Users : invitations[r][u] # "NONE" => invitations'[r][u] # "NONE"
  PROVE  HostsBelong' /\ Monotone
  BY DEF RoomsInv, HostsBelong, Monotone, MayBeIn

LEMMA StatusChanges ==
  ASSUME RoomsInv, NEW r \in Rooms, Exists(r), NEW s \in {"STARTED", "CLOSED"},
         rooms' = [rooms EXCEPT ![r].status = s]
  PROVE  /\ rooms' \in [Rooms -> Room]
         /\ \A q \in Rooms : /\ rooms'[q].host = rooms[q].host
                             /\ rooms'[q].creator = rooms[q].creator
                             /\ Exists(q)' <=> Exists(q)
<1>1. rooms[r] \in Room /\ rooms \in [Rooms -> Room]
  BY DEF RoomsInv, RoomsTyped
<1> DEFINE row == [rooms[r] EXCEPT !.status = s]
<1>2. /\ row \in Room /\ row.status = s /\ row.host = rooms[r].host
      /\ row.creator = rooms[r].creator
  BY <1>1 DEF Room
<1>3. rooms' = [rooms EXCEPT ![r] = row]
  OBVIOUS
<1> HIDE DEF row
<1> QED BY <1>1, <1>2, <1>3 DEF Exists

LEMMA InvitationsInvalidated ==
  ASSUME RoomsInv, NEW r \in Rooms, invitations' = Invalidated(r)
  PROVE  /\ invitations' \in [Rooms -> [Users -> Answers]]
         /\ \A q \in Rooms, u \in Users :
              invitations[q][u] # "NONE" => invitations'[q][u] # "NONE"
<1> DEFINE row == [u \in Users |-> IF invitations[r][u] = "PENDING" THEN "INVALIDATED"
                                   ELSE invitations[r][u]]
<1>1. invitations \in [Rooms -> [Users -> Answers]]
  BY DEF RoomsInv, RoomsTyped
<1>2. row \in [Users -> Answers] /\ \A u \in Users : invitations[r][u] # "NONE" => row[u] # "NONE"
  BY <1>1 DEF Answers
<1>3. invitations' = [invitations EXCEPT ![r] = row]
  BY DEF Invalidated
<1> HIDE DEF row
<1> QED BY <1>1, <1>2, <1>3

LEMMA InvitationWritten ==
  ASSUME RoomsInv, NEW r \in Rooms, NEW u \in Users, NEW a \in Answers, a # "NONE",
         invitations' = [invitations EXCEPT ![r][u] = a]
  PROVE  /\ invitations' \in [Rooms -> [Users -> Answers]]
         /\ \A q \in Rooms, v \in Users :
              invitations[q][v] # "NONE" => invitations'[q][v] # "NONE"
  BY DEF RoomsInv, RoomsTyped

LEMMA MembersLeave ==
  ASSUME RoomsInv, Monotone, members' \subseteq members
  PROVE  members' \subseteq Member /\ MembersMayBeIn' /\ SeatsApart'
<1>1. members \subseteq Member /\ \A m \in members : m.room \in Rooms /\ m.user \in Users
  BY DEF RoomsInv, RoomsTyped, Member
<1> QED BY <1>1 DEF RoomsInv, MembersMayBeIn, SeatsApart, Monotone

\* The unique indexes: the row added has a user and a seat no other row has.
LEMMA MemberEnters ==
  ASSUME RoomsInv, Monotone,
         NEW u \in Users, NEW r \in Rooms, NEW seat \in Seats,
         AddMember(u, r, seat), SeatIsFree(u, r, seat), Exists(r)', MayBeIn(u, r)'
  PROVE  /\ members' \subseteq Member /\ joined' \in Nat
         /\ MembersMayBeIn' /\ SeatsApart'
<1> DEFINE new == [id |-> joined + 1, room |-> r, user |-> u, seat |-> seat, ready |-> FALSE]
<1>1. members \subseteq Member /\ joined \in Nat
      /\ \A m \in members : m.room \in Rooms /\ m.user \in Users
  BY DEF RoomsInv, RoomsTyped, Member
<1>2. new \in Member /\ new.room = r /\ new.user = u /\ new.seat = seat
  BY <1>1 DEF Member
<1>3. members' = members \cup {new} /\ joined' = joined + 1
  BY DEF AddMember
<1>4. \A m \in members : m.user # u /\ ~(m.room = r /\ m.seat = seat)
  BY DEF SeatIsFree, RowsOf, In
<1> HIDE DEF new
<1>5. MembersMayBeIn'
  BY <1>1, <1>2, <1>3 DEF RoomsInv, MembersMayBeIn, Monotone
<1>6. SeatsApart'
  BY <1>2, <1>3, <1>4 DEF RoomsInv, SeatsApart
<1> QED BY <1>1, <1>2, <1>3, <1>5, <1>6
-----------------------------------------------------------------------------
(* Rooms: the steps *)

LEMMA RoomTypes ==
  ASSUME RoomsInv, NEW r \in Rooms
  PROVE  rooms[r] \in Room /\ invitations[r] \in [Users -> Answers]
  BY DEF RoomsInv, RoomsTyped

LEMMA CreateRoomKeeps ==
  ASSUME RoomsInv, NEW u \in Users, NEW r \in Rooms, CreateRoom(u, r)
  PROVE  RoomsInv'
<1> DEFINE row == [status |-> "WAITING", host |-> u, creator |-> u]
<1>1. /\ ~Exists(r) /\ rooms' = [rooms EXCEPT ![r] = row]
      /\ AddMember(u, r, 1) /\ RowsOf(u) = {} /\ UNCHANGED <<invitations, calls>>
  BY DEF CreateRoom, Exists
<1>2. row \in Room /\ row.status = "WAITING" /\ row.host = u /\ row.creator = u
  BY DEF Room
<1> HIDE DEF row
<1>3. /\ rooms' \in [Rooms -> Room] /\ rooms'[r] = row
      /\ \A q \in Rooms \ {r} : rooms'[q] = rooms[q]
  BY <1>1, <1>2 DEF RoomsInv, RoomsTyped
<1>4. Monotone /\ HostsBelong' /\ Exists(r)' /\ MayBeIn(u, r)'
  BY <1>1, <1>2, <1>3 DEF RoomsInv, HostsBelong, Monotone, Exists, MayBeIn
<1>5. 1 \in Seats /\ SeatIsFree(u, r, 1)
  <2>1. 1 \in Seats
    BY RoomAssumption DEF Seats
  <2>2. In(r) = {}
    BY <1>1 DEF In, RoomsInv, MembersMayBeIn
  <2> QED BY <1>1, <2>1, <2>2 DEF SeatIsFree
<1>6. /\ members' \subseteq Member /\ joined' \in Nat
      /\ MembersMayBeIn' /\ SeatsApart'
  BY <1>1, <1>4, <1>5, MemberEnters
<1>7. CallsAreAFunction' /\ RoomCallsOk'
  BY <1>1, <1>4, NoCallChanges
<1> QED BY <1>1, <1>3, <1>4, <1>6, <1>7 DEF RoomsInv, RoomsTyped

LEMMA JoinKeeps ==
  ASSUME RoomsInv, NEW h \in Handlers, NEW u \in Users, NEW r \in Rooms,
         NEW invited \in BOOLEAN, Join(h, u, r, invited)
  PROVE  RoomsInv'
<1> DEFINE c == [op |-> "join", user |-> u, room |-> r, invited |-> invited, seat |-> 0]
<1>1. Exists(r) /\ MayBeIn(u, r)
  BY DEF Join, Waiting, Exists, MayBeIn, MayEnter
<1>2. c \in JoinCall
  BY RoomAssumption DEF JoinCall
<1>3. c.op = "join" /\ c.user = u /\ c.room = r
  OBVIOUS
<1>4. Continue(h, c) /\ UNCHANGED roomRows
  BY DEF Join, Check, Begin
<1> HIDE DEF c
<1>5. RoomCallOk(c)
  BY <1>1, <1>2, <1>3 DEF RoomCallOk
<1> QED BY <1>4, <1>5, RoomCallChanges

LEMMA FirstFreeIsASeat ==
  ASSUME NEW r, FreeSeats(r) # {}
  PROVE  FirstFree(r) \in Seats
<1>1. FreeSeats(r) \subseteq Seats /\ Seats \subseteq Nat
  BY RoomAssumption DEF FreeSeats, Seats
<1>2. \E s \in FreeSeats(r) : \A t \in FreeSeats(r) : s <= t
  BY <1>1, Least
<1>3. FirstFree(r) \in FreeSeats(r)
  BY <1>2 DEF FirstFree
<1> QED BY <1>1, <1>3

LEMMA JoinSeatKeeps ==
  ASSUME RoomsInv, NEW h \in Handlers, JoinSeat(h)
  PROVE  RoomsInv'
<1> DEFINE c == calls[h]
           d == [c EXCEPT !.seat = FirstFree(c.room)]
<1>1. c \in JoinCall /\ Exists(c.room) /\ MayBeIn(c.user, c.room)
  BY DEF JoinSeat, RoomsInv, RoomCallsOk, RoomCallOk
<1>2. CASE Refuse(h)
  BY <1>2, RefusalKeeps
<1>3. CASE FreeSeats(c.room) # {} /\ Continue(h, d) /\ UNCHANGED roomRows
  <2>1. FirstFree(c.room) \in 0 .. SeatLimit
    BY <1>3, FirstFreeIsASeat DEF Seats
  <2>2. d \in JoinCall /\ d.op = "join" /\ d.room = c.room /\ d.user = c.user
    BY <1>1, <2>1 DEF JoinCall
  <2> HIDE DEF d
  <2>3. RoomCallOk(d)
    BY <1>1, <2>2 DEF RoomCallOk
  <2> QED BY <1>3, <2>3, RoomCallChanges
<1> QED BY <1>2, <1>3 DEF JoinSeat

\* The user read earlier is seated, in the seat picked earlier.
LEMMA SeatTakenKeeps ==
  ASSUME RoomsInv, NEW h \in Handlers, Finish(h),
         NEW u \in Users, NEW r \in Rooms, NEW seat \in Seats, NEW invited,
         Exists(r), MayBeIn(u, r), SeatIsFree(u, r, seat), AddMember(u, r, seat),
         invitations' = (IF invited THEN [invitations EXCEPT ![r][u] = "ACCEPTED"]
                         ELSE invitations),
         UNCHANGED rooms
  PROVE  RoomsInv'
<1>1. /\ invitations' \in [Rooms -> [Users -> Answers]]
      /\ \A q \in Rooms, v \in Users :
           invitations[q][v] # "NONE" => invitations'[q][v] # "NONE"
  <2>1. CASE invited
    BY <2>1, InvitationWritten DEF Answers
  <2>2. CASE ~invited
    BY <2>2 DEF RoomsInv, RoomsTyped
  <2> QED BY <2>1, <2>2
<1>2. HostsBelong' /\ Monotone
  BY <1>1, SameHosts DEF Exists
<1>3. Exists(r)' /\ MayBeIn(u, r)'
  BY <1>2 DEF Monotone
<1> QED BY <1>1, <1>2, <1>3, MemberEnters, RoomCallEnds DEF RoomsInv, RoomsTyped

LEMMA JoinCommitKeeps ==
  ASSUME RoomsInv, NEW h \in Handlers, JoinCommit(h)
  PROVE  RoomsInv'
<1> DEFINE c == calls[h]
<1>1. c \in JoinCall /\ Exists(c.room) /\ MayBeIn(c.user, c.room) /\ c.seat # 0
  BY DEF JoinCommit, RoomsInv, RoomCallsOk, RoomCallOk
<1>2. c.user \in Users /\ c.room \in Rooms /\ c.seat \in Seats
  BY <1>1, RoomAssumption DEF JoinCall, Seats
<1>3. CASE Refuse(h)
  BY <1>3, RefusalKeeps
<1>4. CASE /\ SeatIsFree(c.user, c.room, c.seat)
           /\ AddMember(c.user, c.room, c.seat)
           /\ invitations' = IF c.invited
                               THEN [invitations EXCEPT ![c.room][c.user] = "ACCEPTED"]
                               ELSE invitations
           /\ Finish(h) /\ UNCHANGED rooms
  BY <1>1, <1>2, <1>4, SeatTakenKeeps
<1> QED BY <1>3, <1>4 DEF JoinCommit

LEMMA LeaveKeeps ==
  ASSUME RoomsInv, NEW h \in Handlers, NEW m \in members, Leave(h, m)
  PROVE  RoomsInv'
<1> DEFINE c == [op |-> "leave", user |-> m.user, room |-> m.room, id |-> m.id,
                 hosts |-> rooms[m.room].host = m.user]
<1>1. m.room \in Rooms /\ Exists(m.room)
  BY DEF RoomsInv, RoomsTyped, MembersMayBeIn, Member
<1>2. RoomCallOk(c)
  BY <1>1 DEF RoomCallOk
<1>3. Continue(h, c) /\ UNCHANGED roomRows
  BY DEF Leave, Check, Begin
<1> HIDE DEF c
<1> QED BY <1>2, <1>3, RoomCallChanges

\* The heir is one of the members, when there is any.
LEMMA HeirIsAMember ==
  ASSUME RoomsInv, NEW r, NEW id, Others(r, id) # {}
  PROVE  \E m \in members : m.room = r /\ m.user = Heir(r, id)
<1> DEFINE ids == {m.id : m \in Others(r, id)}
<1>1. \A m \in Others(r, id) : m \in members /\ m.room = r /\ m.id \in Nat
  BY DEF Others, In, RoomsInv, RoomsTyped, Member
<1>2. PICK n \in ids : \A k \in ids : n <= k
  <2>1. ids \subseteq Nat /\ ids # {}
    BY <1>1
  <2> HIDE DEF ids
  <2> QED BY <2>1, Least
<1>3. PICK m \in Others(r, id) : m.id = n
  BY <1>2
<1>4. \A o \in Others(r, id) : m.id <= o.id
  BY <1>2, <1>3
<1> DEFINE heir == CHOOSE o \in Others(r, id) : \A p \in Others(r, id) : o.id <= p.id
<1>5. heir \in Others(r, id)
  BY <1>4
<1>6. Heir(r, id) = heir.user
  BY DEF Heir
<1> HIDE DEF heir
<1> QED BY <1>1, <1>5, <1>6

LEMMA LeaveDeleteKeeps ==
  ASSUME RoomsInv, NEW h \in Handlers, LeaveDelete(h)
  PROVE  RoomsInv'
<1> DEFINE c == calls[h]
           heir == IF Others(c.room, c.id) = {} THEN NoUser ELSE Heir(c.room, c.id)
           d == [op |-> "left", room |-> c.room, id |-> c.id,
                 outcome |-> Outcome(c.room, c.id, c.hosts), heir |-> heir]
<1>1. c.room \in Rooms /\ Exists(c.room)
  BY DEF LeaveDelete, RoomsInv, RoomCallsOk, RoomCallOk
<1>2. CASE Refuse(h)
  BY <1>2, RefusalKeeps
<1>3. CASE Continue(h, d) /\ UNCHANGED roomRows
  <2>1. d.outcome = "hand over" => heir \in Users /\ MayBeIn(heir, c.room)
    <3> SUFFICES ASSUME d.outcome = "hand over"
                 PROVE  heir \in Users /\ MayBeIn(heir, c.room)
      OBVIOUS
    <3>1. Others(c.room, c.id) # {} /\ heir = Heir(c.room, c.id)
      BY DEF Outcome
    <3>2. \E m \in members : m.room = c.room /\ m.user = heir
      BY <3>1, HeirIsAMember
    <3> QED BY <3>2 DEF RoomsInv, RoomsTyped, Member, MembersMayBeIn
  <2> HIDE DEF heir
  <2>2. RoomCallOk(d)
    BY <1>1, <2>1 DEF RoomCallOk
  <2> HIDE DEF d
  <2> QED BY <1>3, <2>2, RoomCallChanges
<1> QED BY <1>2, <1>3 DEF LeaveDelete

\* The room is handed over to whom the transaction found in it.
LEMMA HandOverKeeps ==
  ASSUME RoomsInv, NEW h \in Handlers, Finish(h), NEW r \in Rooms, Exists(r),
         NEW heir \in Users, MayBeIn(heir, r),
         rooms' = [rooms EXCEPT ![r].host = heir],
         members' \subseteq members, UNCHANGED <<invitations, joined>>
  PROVE  RoomsInv'
<1> DEFINE row == [rooms[r] EXCEPT !.host = heir]
<1>1. /\ row \in Room /\ row.status = rooms[r].status /\ row.host = heir
      /\ row.creator = rooms[r].creator
  BY RoomTypes DEF Room
<1>2. rooms' = [rooms EXCEPT ![r] = row]
  OBVIOUS
<1> HIDE DEF row
<1>3. /\ rooms' \in [Rooms -> Room] /\ rooms'[r] = row
      /\ \A q \in Rooms \ {r} : rooms'[q] = rooms[q]
  BY <1>1, <1>2 DEF RoomsInv, RoomsTyped
<1>4. Monotone /\ HostsBelong'
  BY <1>1, <1>3 DEF RoomsInv, HostsBelong, Monotone, Exists, MayBeIn
<1> QED BY <1>3, <1>4, MembersLeave, RoomCallEnds DEF RoomsInv, RoomsTyped

LEMMA ClosedKeeps ==
  ASSUME RoomsInv, NEW h \in Handlers, Finish(h), NEW r \in Rooms, Exists(r),
         NEW s \in {"STARTED", "CLOSED"}, rooms' = [rooms EXCEPT ![r].status = s],
         invitations' = Invalidated(r), members' \subseteq members, UNCHANGED joined
  PROVE  RoomsInv'
<1>1. HostsBelong' /\ Monotone
  BY StatusChanges, InvitationsInvalidated, SameHosts
<1> QED BY <1>1, StatusChanges, InvitationsInvalidated, MembersLeave, RoomCallEnds
        DEF RoomsInv, RoomsTyped

LEMMA LeaveCommitKeeps ==
  ASSUME RoomsInv, NEW h \in Handlers, LeaveCommit(h)
  PROVE  RoomsInv'
<1> DEFINE c == calls[h]
<1>1. /\ c.room \in Rooms /\ Exists(c.room)
      /\ c.outcome = "hand over" => c.heir \in Users /\ MayBeIn(c.heir, c.room)
      /\ Finish(h) /\ members' \subseteq members /\ UNCHANGED joined
  BY DEF LeaveCommit, RoomsInv, RoomCallsOk, RoomCallOk
<1>2. CASE /\ rooms' = [rooms EXCEPT ![c.room].status = "CLOSED"]
           /\ invitations' = Invalidated(c.room)
  BY <1>1, <1>2, ClosedKeeps
<1>3. CASE /\ c.outcome = "hand over" /\ rooms' = [rooms EXCEPT ![c.room].host = c.heir]
           /\ UNCHANGED invitations
  BY <1>1, <1>3, HandOverKeeps
<1>4. CASE UNCHANGED <<rooms, invitations>>
  <2>1. HostsBelong' /\ Monotone
    BY <1>4, SameHosts DEF Exists
  <2> QED BY <1>1, <1>4, <2>1, MembersLeave, RoomCallEnds DEF RoomsInv, RoomsTyped
<1> QED BY <1>2, <1>3, <1>4 DEF LeaveCommit

LEMMA ReadyKeeps ==
  ASSUME RoomsInv, NEW h \in Handlers, NEW m \in members, Ready(h, m)
  PROVE  RoomsInv'
<1> DEFINE c == [op |-> "ready", user |-> m.user, ready |-> ~m.ready]
<1>1. RoomCallOk(c)
  BY DEF RoomCallOk, RoomsInv, RoomsTyped, Member
<1>2. Continue(h, c) /\ UNCHANGED roomRows
  BY DEF Ready, Check, Begin
<1> HIDE DEF c
<1> QED BY <1>1, <1>2, RoomCallChanges

LEMMA ReadyRow ==
  ASSUME NEW m \in Member, NEW ready \in BOOLEAN
  PROVE  LET n == [m EXCEPT !.ready = ready]
         IN  n \in Member /\ n.user = m.user /\ n.room = m.room /\ n.seat = m.seat
  BY DEF Member

LEMMA ReadyWriteKeeps ==
  ASSUME RoomsInv, NEW h \in Handlers, ReadyWrite(h)
  PROVE  RoomsInv'
<1> DEFINE c == calls[h]
<1>1. c.ready \in BOOLEAN
  BY DEF ReadyWrite, RoomsInv, RoomCallsOk, RoomCallOk
<1>2. /\ members' = {m \in members : m.user # c.user}
                      \cup {[m EXCEPT !.ready = c.ready] : m \in RowsOf(c.user)}
      /\ Finish(h) /\ UNCHANGED <<rooms, invitations, joined>>
  BY DEF ReadyWrite
<1>3. members \subseteq Member
  BY DEF RoomsInv, RoomsTyped
<1>4. ASSUME NEW n \in members'
      PROVE  /\ n \in Member
             /\ \E m \in members : /\ n.user = m.user /\ n.room = m.room /\ n.seat = m.seat
                                   /\ m.user # c.user => n = m
                                   /\ m.user = c.user => n = [m EXCEPT !.ready = c.ready]
  <2>1. CASE n \in members /\ n.user # c.user
    BY <1>3, <2>1
  <2>2. CASE \E m \in RowsOf(c.user) : n = [m EXCEPT !.ready = c.ready]
    BY <1>1, <1>3, <2>2, ReadyRow DEF RowsOf
  <2> QED BY <1>2, <2>1, <2>2
<1> HIDE DEF c
<1>5. MembersMayBeIn' /\ SeatsApart'
  <2>1. MembersMayBeIn'
    BY <1>2, <1>4 DEF RoomsInv, MembersMayBeIn, Exists, MayBeIn
  <2>2. SeatsApart'
    BY <1>4 DEF RoomsInv, SeatsApart
  <2> QED BY <2>1, <2>2
<1>6. HostsBelong' /\ Monotone
  BY <1>2, SameHosts DEF Exists
<1> QED BY <1>2, <1>4, <1>5, <1>6, RoomCallEnds DEF RoomsInv, RoomsTyped
\* What only reads: createInvitation, declineInvitation, startRoom, closeRoom.
LEMMA CheckKeeps ==
  ASSUME RoomsInv, NEW h \in Handlers, NEW u \in Users, NEW v \in Users, NEW r \in Rooms,
         Invite(h, u, v, r) \/ Decline(h, u, r) \/ Start(h, u, r) \/ Close(h, u, r)
  PROVE  RoomsInv'
<1>1. CASE Invite(h, u, v, r) \/ Decline(h, u, r)
  <2> DEFINE c(op, w) == [op |-> op, room |-> r, user |-> w]
  <2>1. \E op \in {"invite", "decline"}, w \in Users :
          Continue(h, c(op, w)) /\ UNCHANGED roomRows
    BY <1>1 DEF Invite, Decline, Check, Begin
  <2>2. \A op \in {"invite", "decline"}, w \in Users : RoomCallOk(c(op, w))
    BY DEF RoomCallOk
  <2> HIDE DEF c
  <2> QED BY <2>1, <2>2, RoomCallChanges
<1>2. CASE Start(h, u, r) \/ Close(h, u, r)
  <2> DEFINE c(op) == [op |-> op, room |-> r]
  <2>1. \E op \in {"start", "close"} : Continue(h, c(op)) /\ UNCHANGED roomRows
    BY <1>2 DEF Start, Close, Check, Begin
  <2>2. Exists(r)
    BY <1>2 DEF Start, Close, Waiting, Exists
  <2>3. \A op \in {"start", "close"} : RoomCallOk(c(op))
    BY <2>2 DEF RoomCallOk
  <2> HIDE DEF c
  <2> QED BY <2>1, <2>3, RoomCallChanges
<1> QED BY <1>1, <1>2

LEMMA AnswerKeeps ==
  ASSUME RoomsInv, NEW h \in Handlers, Finish(h),
         NEW r \in Rooms, NEW u \in Users, NEW a \in Answers, a # "NONE",
         invitations' = [invitations EXCEPT ![r][u] = a],
         UNCHANGED <<rooms, members, joined>>
  PROVE  RoomsInv'
<1>1. HostsBelong' /\ Monotone
  BY InvitationWritten, SameHosts DEF Exists
<1> QED BY <1>1, InvitationWritten, MembersLeave, RoomCallEnds DEF RoomsInv, RoomsTyped

LEMMA InvitationWriteKeeps ==
  ASSUME RoomsInv, NEW h \in Handlers, InviteWrite(h) \/ DeclineWrite(h)
  PROVE  RoomsInv'
<1> DEFINE c == calls[h]
<1>1. c.room \in Rooms /\ c.user \in Users
  BY DEF InviteWrite, DeclineWrite, RoomsInv, RoomCallsOk, RoomCallOk
<1>2. CASE Refuse(h)
  BY <1>2, RefusalKeeps
<1>3. ASSUME NEW a \in {"PENDING", "DECLINED"},
             invitations' = [invitations EXCEPT ![c.room][c.user] = a],
             Finish(h), UNCHANGED <<rooms, members, joined>>
      PROVE  RoomsInv'
  BY <1>1, <1>3, AnswerKeeps DEF Answers
<1> QED BY <1>2, <1>3 DEF InviteWrite, DeclineWrite

LEMMA StartCommitKeeps ==
  ASSUME RoomsInv, NEW h \in Handlers, StartCommit(h)
  PROVE  RoomsInv'
<1>1. calls[h].room \in Rooms /\ Exists(calls[h].room)
  BY DEF StartCommit, RoomsInv, RoomCallsOk, RoomCallOk
<1> QED BY <1>1, RefusalKeeps, ClosedKeeps DEF StartCommit

LEMMA CloseCommitKeeps ==
  ASSUME RoomsInv, NEW h \in Handlers, CloseCommit(h)
  PROVE  RoomsInv'
<1>1. calls[h].room \in Rooms /\ Exists(calls[h].room)
  BY DEF CloseCommit, RoomsInv, RoomCallsOk, RoomCallOk
<1> QED BY <1>1, ClosedKeeps DEF CloseCommit

LEMMA LeaveTableKeeps ==
  ASSUME RoomsInv, NEW m \in members, LeaveTable(m)
  PROVE  RoomsInv'
<1>1. m.room \in Rooms /\ Exists(m.room)
  BY DEF RoomsInv, RoomsTyped, MembersMayBeIn, Member
<1>2. members' \subseteq members /\ UNCHANGED <<invitations, joined, calls>>
  BY DEF LeaveTable
<1>3. /\ rooms' \in [Rooms -> Room]
      /\ \A q \in Rooms : /\ rooms'[q].host = rooms[q].host
                          /\ rooms'[q].creator = rooms[q].creator
                          /\ Exists(q)' <=> Exists(q)
  <2>1. CASE UNCHANGED rooms
    BY <2>1 DEF RoomsInv, RoomsTyped, Exists
  <2>2. CASE rooms' = [rooms EXCEPT ![m.room].status = "CLOSED"]
    BY <1>1, <2>2, StatusChanges
  <2> QED BY <2>1, <2>2 DEF LeaveTable
<1>4. HostsBelong' /\ Monotone
  BY <1>2, <1>3, SameHosts
<1> QED BY <1>2, <1>3, <1>4, MembersLeave, NoCallChanges DEF RoomsInv, RoomsTyped

LEMMA RoomsNextKeeps ==
  ASSUME RoomsInv, RoomsNext
  PROVE  RoomsInv'
<1>1. ASSUME NEW h \in Handlers, NEW u \in Users, NEW r \in Rooms, AcceptInvitation(h, u, r)
      PROVE  RoomsInv'
  BY <1>1, JoinKeeps DEF AcceptInvitation
<1> QED BY <1>1, CreateRoomKeeps, LeaveTableKeeps, JoinKeeps, JoinSeatKeeps, JoinCommitKeeps,
        LeaveKeeps, LeaveDeleteKeeps, LeaveCommitKeeps, ReadyKeeps, ReadyWriteKeeps,
        CheckKeeps, InvitationWriteKeeps, StartCommitKeeps, CloseCommitKeeps DEF RoomsNext

-----------------------------------------------------------------------------
(* The lobby: friends and rooms leave each other's requests alone *)

\* The friends' handlers do nothing with a room.
LEMMA FriendsLeaveRooms ==
  ASSUME RoomsInv, FriendsNext, UNCHANGED roomRows
  PROVE  RoomsInv'
<1> DEFINE Ops == {"idle", "create", "race", "accept", "delete"}
<1>1. \E h \in Handlers : \E c : Continue(h, c) /\ c.op \in Ops
  <2> DEFINE Works(h) == \E c : Continue(h, c) /\ c.op \in Ops
  <2>1. ASSUME NEW h \in Handlers, Finish(h) PROVE Works(h)
    BY <2>1 DEF Finish, Idle
  <2>2. ASSUME NEW h \in Handlers, NEW u, NEW v, NEW q, ResolveExistingPair(h, u, v, q)
        PROVE  Works(h)
    <3>1. CASE Continue(h, ById(u, v, q.id, "accept"))
      BY <3>1 DEF ById
    <3> QED BY <2>1, <2>2, <3>1 DEF ResolveExistingPair
  <2>3. ASSUME NEW h \in Handlers, NEW u, NEW v, SendRequest(h, u, v) PROVE Works(h)
    BY <2>2, <2>3 DEF SendRequest
  <2>4. ASSUME NEW h \in Handlers, CreateRequest(h) \/ ResolveRace(h) PROVE Works(h)
    BY <2>1, <2>2, <2>4 DEF CreateRequest, ResolveRace
  <2>5. ASSUME NEW h \in Handlers, AcceptRow(h) \/ DeleteRow(h) PROVE Works(h)
    BY <2>1, <2>5 DEF AcceptRow, DeleteRow
  <2>6. ASSUME NEW h \in Handlers, NEW q, AcceptRequest(h, q) PROVE Works(h)
    BY <2>6 DEF AcceptRequest, ById
  <2>7. ASSUME NEW h \in Handlers, NEW q, NEW u, RejectOrCancel(h, q, u) \/ RemoveFriend(h, q, u)
        PROVE  Works(h)
    BY <2>7 DEF RejectOrCancel, RemoveFriend, ById
  <2> HIDE DEF Works
  <2>8. \E h \in Handlers : Works(h)
    BY <2>3, <2>4, <2>5, <2>6, <2>7 DEF FriendsNext
  <2> QED BY <2>8 DEF Works
<1>2. \A c : c.op \in Ops => RoomCallOk(c)
  BY DEF RoomCallOk
<1> QED BY <1>1, <1>2, RoomCallChanges

LEMMA RoomsLeaveFriends ==
  ASSUME FriendsInv, RoomsInv, RoomsNext, UNCHANGED friendRows
  PROVE  FriendsInv'
<1> DEFINE Ops == {"idle", "join", "leave", "left", "ready", "invite", "decline", "start", "close"}
<1>1. UNCHANGED calls \/ \E h \in Handlers : \E c : Continue(h, c) /\ c.op \in Ops
  <2> DEFINE Works(h) == \E c : Continue(h, c) /\ c.op \in Ops
  <2>1. ASSUME NEW h \in Handlers, Finish(h) PROVE Works(h)
    BY <2>1 DEF Finish, Idle
  <2>2. ASSUME NEW h \in Handlers, NEW u \in Users, NEW r \in Rooms, NEW invited \in BOOLEAN,
               Join(h, u, r, invited)
        PROVE  Works(h)
    <3> DEFINE c == [op |-> "join", user |-> u, room |-> r, invited |-> invited, seat |-> 0]
    <3>1. Continue(h, c)
      BY <2>2 DEF Join, Check, Begin
    <3>2. c.op = "join"
      OBVIOUS
    <3> HIDE DEF c
    <3> QED BY <3>1, <3>2
  <2>3. ASSUME NEW h \in Handlers, JoinSeat(h) PROVE Works(h)
    <3>1. CASE Continue(h, [calls[h] EXCEPT !.seat = FirstFree(calls[h].room)])
      <4>1. calls[h] \in JoinCall
        BY <2>3 DEF JoinSeat, RoomsInv, RoomCallsOk, RoomCallOk
      <4>2. [calls[h] EXCEPT !.seat = FirstFree(calls[h].room)].op = "join"
        BY <4>1 DEF JoinCall
      <4> QED BY <3>1, <4>2
    <3> QED BY <2>1, <2>3, <3>1 DEF JoinSeat, Refuse
  <2>4. ASSUME NEW h \in Handlers, JoinCommit(h) \/ LeaveCommit(h) \/ ReadyWrite(h)
                 \/ InviteWrite(h) \/ DeclineWrite(h) \/ StartCommit(h) \/ CloseCommit(h)
        PROVE  Works(h)
    BY <2>1, <2>4 DEF JoinCommit, LeaveCommit, ReadyWrite, InviteWrite, DeclineWrite,
                      StartCommit, CloseCommit, Refuse
  <2>5. ASSUME NEW h \in Handlers, NEW m, Leave(h, m) \/ Ready(h, m) PROVE Works(h)
    BY <2>5 DEF Leave, Ready, Check, Begin
  <2>6. ASSUME NEW h \in Handlers, LeaveDelete(h) PROVE Works(h)
    BY <2>1, <2>6 DEF LeaveDelete, Refuse
  <2>7. ASSUME NEW h \in Handlers, NEW u, NEW v, NEW r, Invite(h, u, v, r) PROVE Works(h)
    BY <2>7 DEF Invite, Check, Begin
  <2>8. ASSUME NEW h \in Handlers, NEW u, NEW r,
               Decline(h, u, r) \/ Start(h, u, r) \/ Close(h, u, r)
        PROVE  Works(h)
    BY <2>8 DEF Decline, Start, Close, Check, Begin
  <2>9. ASSUME NEW u, NEW r, CreateRoom(u, r) PROVE UNCHANGED calls
    BY <2>9 DEF CreateRoom
  <2>10. ASSUME NEW m, LeaveTable(m) PROVE UNCHANGED calls
    BY <2>10 DEF LeaveTable
  <2> HIDE DEF Works
  <2>11. ASSUME NEW h \in Handlers, NEW u \in Users, NEW r \in Rooms, AcceptInvitation(h, u, r)
         PROVE  Works(h)
    BY <2>2, <2>11 DEF AcceptInvitation
  <2>12. UNCHANGED calls \/ \E h \in Handlers : Works(h)
    BY <2>2, <2>3, <2>4, <2>5, <2>6, <2>7, <2>8, <2>9, <2>10, <2>11 DEF RoomsNext
  <2> QED BY <2>12 DEF Works
<1>2. \A c : c.op \in Ops => FriendCallOk(c)
  BY DEF FriendCallOk
<1>3. CASE UNCHANGED calls
  BY <1>3 DEF FriendsInv, friendRows, RowsTyped, OneRowPerPair, AskedStands, Stands,
              CallsAreAFunction, FriendCallsOk, FriendCallOk
<1> QED BY <1>1, <1>2, <1>3, FriendCallChanges

LobbyInv == FriendsInv /\ RoomsInv

LEMMA InitHolds == LobbyInit => LobbyInv
<1> SUFFICES ASSUME LobbyInit PROVE LobbyInv
  OBVIOUS
<1>1. \A h \in Handlers : calls[h] = Idle
  BY DEF LobbyInit, RoomsInit, ServerInit
<1>2. CallsAreAFunction /\ FriendCallsOk /\ RoomCallsOk
  BY <1>1 DEF LobbyInit, RoomsInit, ServerInit, CallsAreAFunction, FriendCallsOk, RoomCallsOk, FriendCallOk,
              RoomCallOk, Idle
<1>3. RowsTyped /\ OneRowPerPair /\ AskedStands
  BY DEF LobbyInit, FriendsInit, RowsTyped, OneRowPerPair, AskedStands, Stands
<1>4. RoomsTyped /\ HostsBelong /\ MembersMayBeIn /\ SeatsApart
  BY DEF LobbyInit, RoomsInit, RoomsTyped, HostsBelong, MembersMayBeIn, SeatsApart, Exists, MayBeIn, Room, Answers
<1> QED BY <1>2, <1>3, <1>4 DEF LobbyInv, FriendsInv, RoomsInv

LEMMA StepHolds ==
  ASSUME LobbyInv, [LobbyNext]_lobbyVars
  PROVE  LobbyInv'
<1>1. CASE RoomsNext /\ UNCHANGED friendRows
  BY <1>1, RoomsNextKeeps, RoomsLeaveFriends DEF LobbyInv
<1>2. CASE FriendsNext /\ UNCHANGED roomRows
  BY <1>2, FriendsNextKeeps, FriendsLeaveRooms DEF LobbyInv
<1>3. CASE UNCHANGED lobbyVars
  BY <1>3 DEF lobbyVars, roomRows, friendRows, LobbyInv,
       FriendsInv, RowsTyped, OneRowPerPair, AskedStands, Stands, CallsAreAFunction,
       FriendCallsOk, FriendCallOk, RoomsInv, RoomsTyped, HostsBelong, MembersMayBeIn,
       SeatsApart, Exists, MayBeIn, RoomCallsOk, RoomCallOk
<1> QED BY <1>1, <1>2, <1>3 DEF LobbyNext

-----------------------------------------------------------------------------
(* The theorems *)

\* Rows, memberships and requests in progress fit together in every state.
THEOREM LobbyIsSound == LobbySpec => []LobbyInv
<1> QED BY InitHolds, StepHolds, PTL DEF LobbySpec

\* Two users are friends exactly when each was told that its request stands, and
\* the one who waits is in both lists: for any number of users and requests at
\* once, also when two requests cross (sendRequest, resolveExistingPair, accept).
THEOREM FriendsBothAsked == LobbySpec => []FriendsIffBothAsked
<1>1. ASSUME FriendsInv PROVE FriendsIffBothAsked
  <2> SUFFICES ASSUME NEW u \in Acquainted, NEW v \in Acquainted, u # v
               PROVE  LET told == <<u, v>> \in asked
                          both == told /\ <<v, u>> \in asked
                      IN  /\ both <=> v \in FriendsOf(u)
                          /\ (told /\ ~both) <=> v \in ListRequests(u).outgoing
                          /\ v \in ListRequests(u).outgoing <=> u \in ListRequests(v).incoming
    BY DEF FriendsIffBothAsked
  <2>1. (<<u, v>> \in asked <=> Stands(u, v)) /\ (<<v, u>> \in asked <=> Stands(v, u))
    BY <1>1 DEF FriendsInv, AskedStands
  <2>2. v \in FriendsOf(u) <=> \E q \in requests : Joins(q, u, v) /\ q.status = "ACCEPTED"
    BY BetweenJoins DEF FriendsOf
  <2>3. /\ v \in ListRequests(u).outgoing <=>
              \E q \in requests : q.sender = u /\ q.receiver = v /\ q.status = "PENDING"
        /\ u \in ListRequests(v).incoming <=>
              \E q \in requests : q.sender = u /\ q.receiver = v /\ q.status = "PENDING"
    BY DEF ListRequests, Incoming, Outgoing
  <2>4. \A q \in requests : q.status \in {"PENDING", "ACCEPTED"}
    BY <1>1 DEF FriendsInv, RowsTyped, Row
  <2>5. \A p, q \in requests : Joins(p, u, v) /\ Joins(q, u, v) => p = q
    BY <1>1 DEF FriendsInv, OneRowPerPair, Joins
  <2> QED BY <2>1, <2>2, <2>3, <2>4, <2>5 DEF Stands, Joins
<1> QED BY <1>1, LobbyIsSound, PTL DEF LobbyInv

\* A room never has more members than seats, for the members' seats differ.
LEMMA SeatsSuffice ==
  ASSUME RoomsInv, NEW r \in Rooms
  PROVE  Cardinality(In(r)) \in 0 .. SeatLimit
<1> DEFINE f == [m \in In(r) |-> m.seat]
<1>1. \A m \in In(r) : m \in members /\ m.room = r /\ m.seat \in Seats
  BY DEF In, RoomsInv, RoomsTyped, Member
<1>2. \A m, n \in In(r) : m.seat = n.seat => m = n
  BY <1>1 DEF RoomsInv, SeatsApart
<1>3. f \in Injection(In(r), Seats)
  BY <1>1, <1>2 DEF Injection, IsInjective
<1>4. IsFiniteSet(Seats) /\ Cardinality(Seats) <= SeatLimit
  BY FS_Interval, RoomAssumption DEF Seats
<1>5. IsFiniteSet(In(r)) /\ Cardinality(In(r)) <= Cardinality(Seats)
  BY <1>3, <1>4, FS_Injection
<1>6. Cardinality(In(r)) \in Nat /\ Cardinality(Seats) \in Nat
  BY <1>4, <1>5, FS_CardinalityType
<1> QED BY <1>4, <1>5, <1>6, RoomAssumption

\* Nobody is in two rooms, no room has more members than seats, and no two of
\* them one seat, for any number of users, rooms, seats and requests at once
\* (joinRoom's choice of a seat and the unique indexes; leaveRoom's heir).
THEOREM RoomsAreSeated == LobbySpec => []SeatingIsSound
<1>1. ASSUME RoomsInv PROVE SeatingIsSound
  <2>1. \A r \in Rooms : rooms[r].host = NoUser => rooms[r].status = "NONE"
    BY <1>1, RoomAssumption DEF RoomsInv, HostsBelong, Exists
  <2>2. ASSUME NEW u \in Users, NEW r \in ShownTo(u)
        PROVE  LET view == GetRoomForViewer(u, r)
               IN  /\ view.availableSeats \in 0 .. SeatLimit
                   /\ \A m \in view.members : m.seat \in 1 .. SeatLimit
    <3>1. members \subseteq Member
      BY <1>1 DEF RoomsInv, RoomsTyped
    <3>2. r \in Rooms
      BY <3>1 DEF ShownTo, CurrentRoom, RowsOf, PublicRooms, InvitedTo, Member
    <3>3. SeatLimit - Cardinality(In(r)) \in 0 .. SeatLimit
      BY <1>1, <3>2, SeatsSuffice, RoomAssumption
    <3>4. \A m \in In(r) : m.seat \in 1 .. SeatLimit
      BY <3>1 DEF In, Member, Seats
    <3> QED BY <3>3, <3>4 DEF GetRoomForViewer, ToRoomView
  <2> QED BY <1>1, <2>1, <2>2 DEF SeatingIsSound, RoomsInv, SeatsApart
<1> QED BY <1>1, LobbyIsSound, PTL DEF LobbyInv

\* Whoever is in a private room or is told of it made it or was invited, through
\* every hand-over and every invitation answered late (joinRoom, leaveRoom,
\* getRoomForViewer), for any number of users, rooms and requests at once.
THEOREM PrivateRoomsStayPrivate == LobbySpec => []PrivateRoomsByInvitation
<1>1. ASSUME RoomsInv PROVE PrivateRoomsByInvitation
  <2> SUFFICES ASSUME NEW u \in Users, NEW r \in ShownTo(u) \cap Private
               PROVE  u = rooms[r].creator \/ invitations[r][u] # "NONE"
    BY DEF PrivateRoomsByInvitation
  <2>1. r \in Rooms /\ r \in Private
    BY RoomAssumption
  <2>2. ASSUME NEW m \in members, m.user = u, m.room = r
        PROVE  MayBeIn(u, r)
    BY <1>1, <2>2 DEF RoomsInv, MembersMayBeIn
  <2>3. CASE r \in CurrentRoom(u)
    BY <2>1, <2>2, <2>3 DEF CurrentRoom, RowsOf, MayBeIn
  <2>4. CASE r \in InvitedTo(u)
    BY <2>4 DEF InvitedTo
  <2>5. CASE CanSee(u, r)
    <3>1. CASE rooms[r].host = u
      BY <1>1, <2>1, <3>1, RoomAssumption DEF RoomsInv, HostsBelong, MayBeIn
    <3>2. CASE \E m \in In(r) : m.user = u
      BY <2>1, <2>2, <3>2 DEF In, MayBeIn
    <3>3. CASE invitations[r][u] = "PENDING"
      BY <3>3
    <3> QED BY <2>1, <2>5, <3>1, <3>2, <3>3 DEF CanSee, SeesMembers
  <2>6. r \notin PublicRooms
    BY <2>1 DEF PublicRooms
  <2> QED BY <2>3, <2>4, <2>5, <2>6 DEF ShownTo
<1> QED BY <1>1, LobbyIsSound, PTL DEF LobbyInv

\* A closed room stays closed, a started one never waits again, and it is closed by
\* its table or by a request that found it waiting, whatever startRoom, closeRoom
\* and leaveRoom read before it was closed or started.
THEOREM RoomsMoveForward == LobbySpec => RoomsOnlyMoveForward
<1> DEFINE Ended(r) ==
             \/ \A m \in members' : m.room # r
             \/ \E h \in Handlers : EndsRoom(calls[h], r) /\ calls'[h] = Idle
           Forward(r) ==
             /\ rooms[r].status = "CLOSED" => rooms'[r].status = "CLOSED"
             /\ rooms[r].status = "STARTED" =>
                  \/ rooms'[r].status = "STARTED"
                  \/ rooms'[r].status = "CLOSED" /\ Ended(r)
<1>1. ASSUME LobbyInv, LobbyNext, NEW r \in Rooms PROVE Forward(r)
  <2>1. rooms \in [Rooms -> Room] /\ rooms[r] \in Room
    BY <1>1 DEF LobbyInv, RoomsInv, RoomsTyped
  <2>2. CASE UNCHANGED rooms
    BY <2>2
  <2>3. ASSUME NEW q, rooms' = [rooms EXCEPT ![q].status = "CLOSED"], q = r => Ended(r)
        PROVE  Forward(r)
    <3> HIDE DEF Ended
    <3> QED BY <2>1, <2>3 DEF Room
  <2>4. ASSUME NEW h \in Handlers, StartCommit(h) PROVE Forward(r)
    BY <2>1, <2>2, <2>4 DEF StartCommit, StillOpen, Waiting, Refuse, roomRows, Room
  <2>5. ASSUME NEW h \in Handlers, Finish(h), calls[h].op \in {"close", "left"}
        PROVE  Ended(calls[h].room)
    <3>1. calls'[h] = Idle
      BY <1>1, <2>5, OneCallChanges DEF Finish, LobbyInv, FriendsInv
    <3> QED BY <2>5, <3>1 DEF EndsRoom
  <2>6. ASSUME NEW h \in Handlers, LeaveCommit(h) PROVE Forward(r)
    <3>1. Ended(calls[h].room)
      BY <2>5, <2>6 DEF LeaveCommit
    <3>2. ASSUME rooms' = [rooms EXCEPT ![calls[h].room].host = calls[h].heir]
          PROVE  Forward(r)
      BY <2>1, <3>2 DEF Room
    <3> HIDE DEF Ended, Forward
    <3> QED BY <2>2, <2>3, <2>6, <3>1, <3>2 DEF LeaveCommit
  <2>7. ASSUME NEW u, NEW q, CreateRoom(u, q) PROVE Forward(r)
    BY <2>1, <2>7 DEF CreateRoom
  <2>8. ASSUME NEW m, LeaveTable(m) PROVE Forward(r)
    <3>1. CASE members' = members \ In(m.room)
      <4>1. Ended(m.room)
        BY <3>1 DEF In
      <4> HIDE DEF Ended, Forward
      <4> QED BY <2>2, <2>3, <2>8, <4>1 DEF LeaveTable
    <3> QED BY <2>2, <2>8, <3>1 DEF LeaveTable
  <2>9. ASSUME NEW h \in Handlers, CloseCommit(h) PROVE Forward(r)
    <3>1. Ended(calls[h].room)
      BY <2>5, <2>9 DEF CloseCommit
    <3> HIDE DEF Ended, Forward
    <3> QED BY <2>3, <2>9, <3>1 DEF CloseCommit
  <2>10. CASE UNCHANGED roomRows
    BY <2>2, <2>10 DEF roomRows
  <2> HIDE DEF Forward
  <2>11. ASSUME NEW h \in Handlers,
               JoinSeat(h) \/ JoinCommit(h) \/ LeaveDelete(h) \/ ReadyWrite(h)
                 \/ InviteWrite(h) \/ DeclineWrite(h)
        PROVE  Forward(r)
    BY <2>2, <2>11 DEF JoinSeat, JoinCommit, LeaveDelete, ReadyWrite, InviteWrite, DeclineWrite,
         Refuse, roomRows
  <2>12. ASSUME NEW h \in Handlers, NEW u, NEW v, NEW q, NEW m, NEW invited,
               Join(h, u, q, invited) \/ AcceptInvitation(h, u, q) \/ Leave(h, m) \/ Ready(h, m)
                 \/ Invite(h, u, v, q) \/ Decline(h, u, q) \/ Start(h, u, q) \/ Close(h, u, q)
        PROVE  Forward(r)
    BY <2>10, <2>12 DEF Join, AcceptInvitation, Leave, Ready, Invite, Decline, Start, Close, Check
  <2> QED BY <1>1, <2>4, <2>6, <2>7, <2>8, <2>9, <2>10, <2>11, <2>12 DEF LobbyNext, RoomsNext
<1>2. ASSUME LobbyInv, [LobbyNext]_lobbyVars
      PROVE  [\A r \in Rooms : Forward(r)]_lobbyVars
  BY <1>1, <1>2
<1>3. [\A r \in Rooms : Forward(r)]_lobbyVars <=>
        [\A r \in Rooms :
           /\ rooms[r].status = "CLOSED" => rooms'[r].status = "CLOSED"
           /\ rooms[r].status = "STARTED" =>
                \/ rooms'[r].status = "STARTED"
                \/ rooms'[r].status = "CLOSED" /\
                     \/ \A m \in members' : m.room # r
                     \/ \E h \in Handlers : EndsRoom(calls[h], r) /\ calls'[h] = Idle]_lobbyVars
  OBVIOUS
<1> HIDE DEF Forward
<1> QED BY <1>2, <1>3, LobbyIsSound, PTL DEF LobbySpec, RoomsOnlyMoveForward
================================================================================
