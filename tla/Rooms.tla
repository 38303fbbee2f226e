--------------------------------- MODULE Rooms ---------------------------------
(***************************************************************************)
(* The lobby: backend/src/modules/rooms/rooms.service.ts.  Every handler   *)
(* but create checks the room with plain queries and changes it later in a *)
(* transaction (READ COMMITTED), so what it checked may be gone by then.   *)
(* The queries made before the transaction are one step, and so are the    *)
(* writes with the commit; a query in the transaction that decides what is *)
(* written is a step between them.  What holds in spite of that holds      *)
(* because of the unique indexes and the conditional update of startRoom.  *)
(***************************************************************************)
EXTENDS Friends

CONSTANTS
  Users,
  MaxRooms,    \* bound: the rooms ever created
  Private,     \* which of them, in order, have visibility PRIVATE
  NoUser,      \* the host of a room not created yet
  Lively,      \* bound: the rooms whose members invite and get ready
  SeatLimit,   \* PokerRoom.seatLimit
  MinPlayers,  \* PokerRoom.minPlayers
  MaxMembers   \* bound: the memberships ever created

Rooms == 1 .. MaxRooms

ASSUME RoomAssumption ==
  /\ MaxRooms \in Nat /\ Private \subseteq Rooms
  /\ SeatLimit \in Nat /\ MinPlayers \in 2 .. SeatLimit
  /\ NoUser \notin Users
  /\ MaxMembers \in Nat

VARIABLES
  rooms,        \* the PokerRoom rows, and as history who created each
  members,      \* the RoomMember rows; the id orders them by joinedAt too
  invitations,  \* the status of the RoomInvitation row of a room and a user
  joined        \* memberships ever created: the last id

roomRows  == <<rooms, members, invitations, joined>>
lobbyVars == <<roomRows, friendRows, calls>>

RoomsInit ==
  /\ rooms = [r \in Rooms |-> [status |-> "NONE", host |-> NoUser, creator |-> NoUser]]
  /\ members = {} /\ joined = 0
  /\ invitations = [r \in Rooms |-> [u \in Users |-> "NONE"]]

LobbyInit == RoomsInit /\ FriendsInit /\ ServerInit

In(r)       == {m \in members : m.room = r}
RowsOf(u)   == {m \in members : m.user = u}          \* at most one: unique userId
Waiting(r)  == rooms[r].status = "WAITING"

Refuse(h)    == Finish(h) /\ UNCHANGED roomRows
Check(h, call) == Begin(h, call) /\ UNCHANGED roomRows

\* Every PENDING invitation of the room is INVALIDATED.
Invalidated(r) ==
  [invitations EXCEPT ![r] =
     [u \in Users |-> IF @[u] = "PENDING" THEN "INVALIDATED" ELSE @[u]]]

AddMember(u, r, seat) ==
  /\ joined < MaxMembers
  /\ members' = members \cup {[id |-> joined + 1, room |-> r, user |-> u,
                               seat |-> seat, ready |-> FALSE]}
  /\ joined' = joined + 1

-----------------------------------------------------------------------------
(* createRoom, joinRoom and acceptInvitation *)

\* The check before the transaction and the unique index ask the same.
CreateRoom(u, r) ==
  /\ rooms[r].status = "NONE" /\ \A q \in 1 .. r - 1 : rooms[q].status # "NONE"
  /\ RowsOf(u) = {}
  /\ AddMember(u, r, 1)
  /\ rooms' = [rooms EXCEPT ![r] = [status |-> "WAITING", host |-> u, creator |-> u]]
  /\ UNCHANGED <<invitations, calls>>

\* Mutant of MayEnter: the visibility is not asked when there is no invitation.
MayEnter_AnyRoom(u, r, invited) == invited => invitations[r][u] = "PENDING"

\* With an invitation, it must be pending; without one, the room be public.
MayEnter(u, r, invited) ==
  IF invited THEN invitations[r][u] = "PENDING" ELSE r \notin Private

Join(h, u, r, invited) ==
  /\ Waiting(r)
  /\ RowsOf(u) = {}
  /\ MayEnter(u, r, invited)
  /\ Check(h, [op |-> "join", user |-> u, room |-> r, invited |-> invited, seat |-> 0])

\* acceptInvitation asks whether it is pending, and joins with it.
AcceptInvitation(h, u, r) == invitations[r][u] = "PENDING" /\ Join(h, u, r, TRUE)

FreeSeats(r) == (1 .. SeatLimit) \ {m.seat : m \in In(r)}

FirstFree(r) == CHOOSE s \in FreeSeats(r) : \A t \in FreeSeats(r) : s <= t

\* The transaction looks at the room again and picks a seat.
JoinSeat(h) ==
  LET c == calls[h]
      open == Waiting(c.room) /\ FreeSeats(c.room) # {}
  IN  /\ c.op = "join" /\ c.seat = 0
      /\ \/ open /\ Continue(h, [c EXCEPT !.seat = FirstFree(c.room)]) /\ UNCHANGED roomRows
         \/ ~open /\ Refuse(h)

\* Mutant of SeatIsFree: no unique index on user_id.
SeatIsFree_SeatOnly(u, r, seat) == \A m \in In(r) : m.seat # seat

\* The unique indexes: one row per user, one per room and seat.
SeatIsFree(u, r, seat) == RowsOf(u) = {} /\ \A m \in In(r) : m.seat # seat

\* An invitation is ACCEPTED whatever it has become since it was read.
JoinCommit(h) ==
  LET c == calls[h]
  IN  /\ c.op = "join" /\ c.seat # 0
      /\ \/ /\ SeatIsFree(c.user, c.room, c.seat)
            /\ AddMember(c.user, c.room, c.seat)
            /\ invitations' = IF c.invited
                                THEN [invitations EXCEPT ![c.room][c.user] = "ACCEPTED"]
                                ELSE invitations
            /\ Finish(h)
            /\ UNCHANGED rooms
         \/ ~SeatIsFree(c.user, c.room, c.seat) /\ Refuse(h)

-----------------------------------------------------------------------------
(* leaveRoom, setReadiness *)

\* The room read here, its host included, is the one the transaction goes by.
Leave(h, m) ==
  /\ Waiting(m.room)
  /\ Check(h, [op |-> "leave", user |-> m.user, room |-> m.room, id |-> m.id,
               hosts |-> rooms[m.room].host = m.user])

Deleting(id) == \E h \in Handlers : calls[h].op = "left" /\ calls[h].id = id

\* Whom the transaction finds in the room besides its own row: another leave
\* that has not committed is still there.
Others(r, id) == {m \in In(r) : m.id # id}

Heir(r, id) ==
  (CHOOSE m \in Others(r, id) : \A n \in Others(r, id) : m.id <= n.id).user

\* The room closes with its last member, and goes to the longest-standing one
\* when its host, as read before the transaction, leaves.
Outcome(r, id, hosts) ==
  IF Others(r, id) = {} THEN "close" ELSE IF hosts THEN "hand over" ELSE "none"

\* The row is deleted, which waits for another transaction that is deleting it
\* and fails when that has committed; then the others are looked up.
LeaveDelete(h) ==
  LET c == calls[h]
      gone == \A m \in members : m.id # c.id
  IN  /\ c.op = "leave" /\ ~Deleting(c.id)
      /\ \/ gone /\ Refuse(h)
         \/ /\ ~gone
            /\ Continue(h, [op |-> "left", room |-> c.room, id |-> c.id,
                            outcome |-> Outcome(c.room, c.id, c.hosts),
                            heir |-> IF Others(c.room, c.id) = {} THEN NoUser
                                     ELSE Heir(c.room, c.id)])
            /\ UNCHANGED roomRows

LeaveCommit(h) ==
  LET c == calls[h]
  IN  /\ c.op = "left"
      /\ members' = {m \in members : m.id # c.id}
      /\ \/ /\ c.outcome = "close"
            /\ rooms' = [rooms EXCEPT ![c.room].status = "CLOSED"]
            /\ invitations' = Invalidated(c.room)
         \/ /\ c.outcome = "hand over"
            /\ rooms' = [rooms EXCEPT ![c.room].host = c.heir]
            /\ UNCHANGED invitations
         \/ c.outcome = "none" /\ UNCHANGED <<rooms, invitations>>
      /\ Finish(h)
      /\ UNCHANGED joined

\* The page asks for the opposite of what it shows (RoomsPage.tsx:158).
Ready(h, m) ==
  /\ Waiting(m.room) /\ m.room \in Lively
  /\ Check(h, [op |-> "ready", user |-> m.user, ready |-> ~m.ready])

\* The row is updated by the user: it may be one of another room by now.
ReadyWrite(h) ==
  LET c == calls[h]
  IN  /\ c.op = "ready"
      /\ members' = {m \in members : m.user # c.user}
                      \cup {[m EXCEPT !.ready = c.ready] : m \in RowsOf(c.user)}
      /\ Finish(h)
      /\ UNCHANGED <<rooms, invitations, joined>>

-----------------------------------------------------------------------------
(* createInvitation, declineInvitation *)

\* findAcceptedByPair, of the Friends component; the friendship may be gone
\* when the invitation is written.
Befriended(u, v) == \E q \in Between(u, v) : q.status = "ACCEPTED"

Invite(h, u, v, r) ==
  /\ Waiting(r) /\ rooms[r].host = u /\ u # v
  /\ r \in Lively /\ Befriended(u, v)
  /\ invitations[r][v] # "PENDING"
  /\ RowsOf(v) = {}
  /\ Check(h, [op |-> "invite", room |-> r, user |-> v])

\* One row for a room and a user, for ever: after an answer the unique index
\* refuses another invitation.
InviteWrite(h) ==
  LET c == calls[h]
  IN  /\ c.op = "invite"
      /\ \/ /\ invitations[c.room][c.user] = "NONE"
            /\ invitations' = [invitations EXCEPT ![c.room][c.user] = "PENDING"]
            /\ Finish(h)
            /\ UNCHANGED <<rooms, members, joined>>
         \/ invitations[c.room][c.user] # "NONE" /\ Refuse(h)

Decline(h, u, r) ==
  /\ invitations[r][u] = "PENDING"
  /\ Check(h, [op |-> "decline", room |-> r, user |-> u])

DeclineWrite(h) ==
  LET c == calls[h]
  IN  /\ c.op = "decline"
      /\ invitations' = [invitations EXCEPT ![c.room][c.user] = "DECLINED"]
      /\ Finish(h)
      /\ UNCHANGED <<rooms, members, joined>>

-----------------------------------------------------------------------------
(* startRoom, closeRoom, and the table of a started room *)

Start(h, u, r) ==
  /\ Waiting(r) /\ rooms[r].host = u
  /\ Cardinality(In(r)) >= MinPlayers
  /\ \A m \in In(r) : m.ready
  /\ Check(h, [op |-> "start", room |-> r])

\* Mutant of StillOpen: the update names the room only.
StillOpen_ById(r) == TRUE

\* The update of startRoom asks for status WAITING again.
StillOpen(r) == Waiting(r)

StartCommit(h) ==
  LET c == calls[h]
  IN  /\ c.op = "start"
      /\ \/ /\ StillOpen(c.room)
            /\ rooms' = [rooms EXCEPT ![c.room].status = "STARTED"]
            /\ invitations' = Invalidated(c.room)
            /\ Finish(h)
            /\ UNCHANGED <<members, joined>>
         \/ ~StillOpen(c.room) /\ Refuse(h)

Close(h, u, r) ==
  /\ Waiting(r) /\ rooms[r].host = u
  /\ Check(h, [op |-> "close", room |-> r])

\* The update of closeRoom asks for nothing.  The members' rows stay.
CloseCommit(h) ==
  LET c == calls[h]
  IN  /\ c.op = "close"
      /\ rooms' = [rooms EXCEPT ![c.room].status = "CLOSED"]
      /\ invitations' = Invalidated(c.room)
      /\ Finish(h)
      /\ UNCHANGED <<members, joined>>

\* A player leaves the table of a started room: its row goes, and all rows with
\* the room's close when too few are left to play (module MultiplayerTable).
LeaveTable(m) ==
  /\ rooms[m.room].status = "STARTED"
  /\ \/ members' = members \ {m} /\ UNCHANGED rooms
     \/ /\ members' = members \ In(m.room)
        /\ rooms' = [rooms EXCEPT ![m.room].status = "CLOSED"]
  /\ UNCHANGED <<invitations, joined, calls>>

-----------------------------------------------------------------------------

RoomsNext ==
  \/ \E u \in Users, r \in Rooms : CreateRoom(u, r)
  \/ \E m \in members : LeaveTable(m)
  \/ \E h \in Handlers :
       \/ \E u \in Users, r \in Rooms, invited \in BOOLEAN : Join(h, u, r, invited)
       \/ \E u \in Users, r \in Rooms : AcceptInvitation(h, u, r)
       \/ JoinSeat(h) \/ JoinCommit(h)
       \/ \E m \in members : Leave(h, m)
       \/ LeaveDelete(h) \/ LeaveCommit(h)
       \/ \E m \in members : Ready(h, m)
       \/ ReadyWrite(h)
       \/ \E u, v \in Users, r \in Rooms : Invite(h, u, v, r)
       \/ InviteWrite(h)
       \/ \E u \in Users, r \in Rooms : Decline(h, u, r)
       \/ DeclineWrite(h)
       \/ \E u \in Users, r \in Rooms : Start(h, u, r) \/ Close(h, u, r)
       \/ StartCommit(h) \/ CloseCommit(h)

\* Friends and rooms share the server and leave each other's rows alone.
LobbyNext ==
  \/ RoomsNext /\ UNCHANGED friendRows
  \/ FriendsNext /\ UNCHANGED roomRows

LobbySpec == LobbyInit /\ [][LobbyNext]_lobbyVars

-----------------------------------------------------------------------------
(* What the lists and pages of the lobby show *)

\* toRoomView: the members are shown to some, the seats left to all.
ToRoomView(r, includeMembers) ==
  [status |-> rooms[r].status, hostId |-> rooms[r].host,
   availableSeats |-> SeatLimit - Cardinality(In(r)),
   members |-> IF includeMembers THEN In(r) ELSE {}]

CurrentRoom(u) == {m.room : m \in RowsOf(u)}            \* getCurrentRoom
PublicRooms    == {r \in Rooms : Waiting(r) /\ r \notin Private}
InvitedTo(u)   == {r \in Rooms : invitations[r][u] = "PENDING"}

\* getRoomForViewer
SeesMembers(u, r) ==
  \/ u \in {m.user : m \in In(r)} \cup {rooms[r].host}
  \/ invitations[r][u] = "PENDING"

CanSee(u, r) == r \notin Private \/ SeesMembers(u, r)

GetRoomForViewer(u, r) == ToRoomView(r, SeesMembers(u, r))

\* Every room of which some list or page tells the user anything.
ShownTo(u) == CurrentRoom(u) \cup PublicRooms \cup InvitedTo(u) \cup {r \in Rooms : CanSee(u, r)}

-----------------------------------------------------------------------------
(* Properties *)

\* Joins, leaves, starts and closes in any order and at once leave a user in one
\* room at most and a room, as it is shown, with no more members than seats, each
\* in a seat of its own ("duplicate memberships, duplicate seat assignments" of
\* spec 004, FR-008; SC-002): joinRoom picks a seat from what it read, and may pick
\* one another join is about to take.  Nothing is said of "membership changes after
\* a room has started or closed", which FR-008 forbids too and the code makes (see
\* StartedRoomsStay), nor that the host is a member (data-model.md:10): of two
\* leaves at once the one may hand the room to the user whom the other removes.  A
\* room that was created has a host all the same, though the heir is chosen from a
\* list read earlier.
SeatingIsSound ==
  /\ \A r \in Rooms : rooms[r].host = NoUser => rooms[r].status = "NONE"
  /\ \A u \in Users : \A r \in ShownTo(u) :
       LET view == GetRoomForViewer(u, r)
       IN  /\ view.availableSeats \in 0 .. SeatLimit
           /\ \A m \in view.members : m.seat \in 1 .. SeatLimit
  /\ \A m, n \in members :
       m.user = n.user \/ (m.room = n.room /\ m.seat = n.seat) => m = n

\* A request that closes the room, and read it before: while it was waiting
EndsRoom(call, r) == call.op \in {"close", "left"} /\ call.room = r

\* A closed room is never started or opened again, and a started one never waits
\* again, though startRoom, closeRoom and leaveRoom all decide from a room read
\* earlier.  A started room is closed by its table, with all its members gone, or
\* else by a closeRoom or leaveRoom that found it waiting, and by nothing more:
\* what the check of rooms.service.ts:263 forbids is possible only there.
RoomsOnlyMoveForward ==
  [][\A r \in Rooms :
       /\ rooms[r].status = "CLOSED" => rooms'[r].status = "CLOSED"
       /\ rooms[r].status = "STARTED" =>
            \/ rooms'[r].status = "STARTED"
            \/ rooms'[r].status = "CLOSED" /\
                 \/ \A m \in members' : m.room # r
                 \/ \E h \in Handlers : EndsRoom(calls[h], r) /\ calls'[h] = Idle]_lobbyVars

\* Whoever sits in a private room, or is shown it anywhere, made it or was invited to it,
\* also after the room changed hands (spec 004, FR-007).
PrivateRoomsByInvitation ==
  \A u \in Users : \A r \in ShownTo(u) \cap Private :
    u = rooms[r].creator \/ invitations[r][u] # "NONE"

-----------------------------------------------------------------------------
(* What the repository says of the lobby and the code does not do *)

\* specs/004-poker-rooms/spec.md:101, FR-016: "System MUST preserve the final room
\* configuration and roster once the room starts"; rooms.service.ts:263: 'A started
\* room cannot be closed'; data-model.md:94: STARTED only becomes STARTED.  Nothing
\* but the room's table changes its status, its host or who its members are.
StartedRoomsStay ==
  [][\A r \in Rooms : rooms[r].status = "STARTED" =>
       \/ rooms'[r] = rooms[r] /\ {m.user : m \in In(r)}' = {m.user : m \in In(r)}
       \/ \E m \in In(r) : LeaveTable(m)]_lobbyVars

\* rooms.service.ts:111: a user with a RoomMember row is refused a room because
\* 'You already belong to an active room'.
MembersBelongToActiveRooms ==
  \A m \in members : rooms[m.room].status # "CLOSED"
=============================================================================
