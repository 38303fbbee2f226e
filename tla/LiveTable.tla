------------------------------- MODULE LiveTable -------------------------------
(***************************************************************************)
(* Who sees a table and who is seen at it: the socket handlers of          *)
(* multiplayer.socket.ts and the table page of the client, over one        *)
(* started table whose version moves as MultiplayerTable says.  The server *)
(* keeps three records of who is connected, the room of socket.io, the     *)
(* socket's own tableRooms and activeConnections, and loses them when it   *)
(* restarts; the database keeps the participants' connectionStatus.  Every *)
(* handler waits for the database, and events of one socket are delivered  *)
(* in order but handled at once.  Players who run out of chips are left    *)
(* out: they stay members and are never marked again.                      *)
(***************************************************************************)
EXTENDS Integers, FiniteSets, Sequences

CONSTANTS
  Users,       \* the members of the room when it starts
  Pages,       \* bound: the pages ever opened
  UserOf,      \* who opens each
  MaxEvents    \* bound: changes of the table, departures for good, connections
               \*   lost and restarts of the server, together

ASSUME LiveAssumption ==
  /\ UserOf \in [Pages -> Users]
  /\ MaxEvents \in Nat

VARIABLES
  version,   \* MultiplayerTable.stateVersion
  members,   \* the users with a RoomMember row: nobody joins a started room
  online,    \* the users whose connectionStatus is ONLINE
  page,      \* the client's pages: life, connection, the version each shows or,
             \*   while it loads, will show
  outbox,    \* the events each page has sent on its connection
  inflight,  \* the snapshots read for a page and not arrived yet, in no order:
             \*   each handler sends what it read when it gets to it
  handlers,  \* what the server has in progress
  inRoom,    \* the sockets in the room of socket.io
  tableRooms,\* the sockets whose data.tableRooms has the table
  active,    \* the sockets in activeConnections
  faults,    \* how many of the bounded events there were
  due        \* history: the newest version announced to a member's page, that
             \*   is, committed by a handler that will broadcast while the page's
             \*   socket, the one it has now, was in the room

records == <<inRoom, tableRooms, active>>
vars == <<version, members, online, page, outbox, inflight, handlers, records, faults, due>>

Init ==
  /\ version = 1 /\ members = Users /\ online = {} /\ faults = 0
  /\ page = [p \in Pages |-> [life |-> "new", gen |-> 0, up |-> FALSE, view |-> 0]]
  /\ outbox = [p \in Pages |-> << >>]
  /\ inflight = {} /\ handlers = {}
  /\ inRoom = {} /\ tableRooms = {} /\ active = {}
  /\ due = [p \in Pages |-> 0]

\* A socket has an id of its own for each connection of a page.
Socket(p) == <<p, page[p].gen>>
Alive(s)  == page[s[1]].up /\ page[s[1]].gen = s[2]
User(s)   == UserOf[s[1]]
Open(p)   == page[p].life = "open"

\* An emit to a socket that is gone goes nowhere.
Sent(s, v) == IF Alive(s) THEN {[to |-> s, version |-> v]} ELSE {}

Bounded == faults < MaxEvents

-----------------------------------------------------------------------------
(* The page *)

\* The effect of the component runs and asks for the table.
Load(p) ==
  /\ page[p].life = "new" /\ UserOf[p] \in members
  /\ page' = [page EXCEPT ![p].life = "loading", ![p].view = version]
  /\ UNCHANGED <<version, members, online, outbox, inflight, handlers, records, faults, due>>

\* The answer is shown, and the socket connects and joins.  A page left in the
\* meantime connects all the same, and first sends the leave it kept.
Loaded(p) ==
  /\ page[p].life \in {"loading", "cancelled"}
  /\ LET stays == page[p].life = "loading"
     IN  /\ page' = [page EXCEPT ![p].life = IF stays THEN "open" ELSE "ghost",
                                 ![p].gen = @ + 1, ![p].up = TRUE]
         /\ outbox' = [outbox EXCEPT
              ![p] = IF stays THEN <<"join">> ELSE <<"leave", "join">>]
  /\ UNCHANGED <<version, members, online, inflight, handlers, records, faults, due>>

\* The page is left: leaveTable, then disconnect.
Close(p) ==
  /\ page[p].life \in {"loading", "open"}
  /\ page' = [page EXCEPT ![p].life = IF Open(p) THEN "closed" ELSE "cancelled",
                          ![p].view = 0]
  /\ outbox' = [outbox EXCEPT ![p] = IF page[p].up THEN Append(@, "leave") ELSE @]
  /\ inflight' = {m \in inflight : m.to[1] # p}
  /\ due' = [due EXCEPT ![p] = 0]
  /\ UNCHANGED <<version, members, online, handlers, records, faults>>

TheBeat(p) == [op |-> "beat", sock |-> Socket(p)]

\* Every 25 seconds while the page is open; the bound is one on its way.  One
\* that is lost with the connection is one that was not sent.
Heartbeat(p) ==
  /\ Open(p) /\ page[p].up /\ TheBeat(p) \notin handlers
  /\ handlers' = handlers \cup {TheBeat(p)}
  /\ UNCHANGED <<version, members, online, page, outbox, inflight, records, faults, due>>

\* socket.io connects again by itself.  The page does not join again.
Reconnect(p) ==
  /\ page[p].life \in {"open", "ghost"} /\ ~page[p].up
  /\ page' = [page EXCEPT ![p].gen = @ + 1, ![p].up = TRUE]
  /\ UNCHANGED <<version, members, online, outbox, inflight, handlers, records, faults, due>>

\* An action sent from an old view is refused, and the page asks for the table
\* by the REST call reconnect, which marks the user ONLINE.
Recover(p) ==
  /\ Open(p) /\ page[p].up /\ page[p].view < version /\ UserOf[p] \in members
  /\ \A m \in inflight : m.to # <<p, 0>>
  /\ online' = online \cup {UserOf[p]}
  /\ inflight' = inflight \cup {[to |-> <<p, 0>>, version |-> version]}
  /\ UNCHANGED <<version, members, page, outbox, handlers, records, faults, due>>

\* The user gives up the game for good, which another tab may not have heard: the
\* bound on a second try is a server at rest.  When the answer comes the page is
\* left, as it may be at any time.
Abandon(p) ==
  /\ Open(p) /\ page[p].up
  /\ \/ Bounded /\ faults' = faults + 1
     \/ UserOf[p] \notin members /\ outbox[p] = << >> /\ handlers = {} /\ UNCHANGED faults
  /\ outbox' = [outbox EXCEPT ![p] = Append(@, "abandon")]
  /\ UNCHANGED <<version, members, online, page, inflight, handlers, records, due>>

\* Mutant of Accepts: whatever comes is shown.
Accepts_Any(p, v) == TRUE

\* acceptSnapshot: never an older table than the one shown.
Accepts(p, v) == v >= page[p].view

Receive(m) ==
  LET p == m.to[1]
  IN  /\ m \in inflight
      /\ page' = [page EXCEPT ![p].view =
                    IF Open(p) /\ Accepts(p, m.version) THEN m.version ELSE @]
      /\ inflight' = inflight \ {m}
      /\ UNCHANGED <<version, members, online, outbox, handlers, records, faults, due>>

-----------------------------------------------------------------------------
(* Connections that end *)

\* Mutant of Counted: a user's sockets are replaced by the newest.
Counted_Newest(s) == {t \in active : User(t) # User(s)} \cup {s}

\* addConnection.
Counted(s) == active \cup {s}

\* removeConnection answers whether the user has no other socket at the table;
\* if so the handler asks the database to mark the user, and waits.
IsLast(s) == \A t \in active \ {s} : User(t) # User(s)

Marking(s, leaves) ==
  IF IsLast(s) THEN {[op |-> "mark", sock |-> s, leaves |-> leaves]} ELSE {}

\* socket.io empties the rooms of the socket, then the disconnect handler runs.
\* What was under way on the connection is lost.
Disconnected(p) ==
  LET s == Socket(p)
  IN  /\ page[p].up
      /\ page' = [page EXCEPT ![p].up = FALSE]
      /\ outbox' = [outbox EXCEPT ![p] = << >>]
      /\ inflight' = {m \in inflight : m.to # s}
      /\ inRoom' = inRoom \ {s}
      /\ IF s \in tableRooms
           THEN active' = active \ {s} /\ handlers' = handlers \cup Marking(s, FALSE)
           ELSE UNCHANGED <<active, handlers>>
      /\ due' = [due EXCEPT ![p] = 0]
      /\ UNCHANGED <<version, members, online, tableRooms>>

\* The page is left, and its last event has arrived.
Goodbye(p) ==
  /\ page[p].life = "closed" /\ outbox[p] = << >>
  /\ Disconnected(p)
  /\ UNCHANGED faults

\* The network fails.
Drop(p) ==
  /\ Bounded /\ faults' = faults + 1
  /\ Disconnected(p)

\* The process ends, and starts again with its memory empty.
Restart ==
  /\ Bounded /\ faults' = faults + 1
  /\ page' = [p \in Pages |-> [page[p] EXCEPT !.up = FALSE]]
  /\ outbox' = [p \in Pages |-> << >>]
  /\ inflight' = {} /\ handlers' = {}
  /\ inRoom' = {} /\ tableRooms' = {} /\ active' = {}
  /\ due' = [p \in Pages |-> 0]
  /\ UNCHANGED <<version, members, online>>

-----------------------------------------------------------------------------
(* The handlers *)

\* The next event of a connection reaches the server.  A leave counts the
\* socket out at once and takes it from the room now or, when it was the last,
\* after the database has answered.
Arrive(p) ==
  LET s == Socket(p)
      event == Head(outbox[p])
  IN  /\ page[p].up /\ outbox[p] # << >>
      /\ outbox' = [outbox EXCEPT ![p] = Tail(@)]
      /\ \/ /\ event \in {"join", "abandon"}
            /\ handlers' = handlers \cup {[op |-> event, sock |-> s]}
            /\ UNCHANGED records
         \/ /\ event = "leave"
            /\ active' = active \ {s}
            /\ handlers' = handlers \cup Marking(s, TRUE)
            /\ IF IsLast(s) THEN UNCHANGED <<inRoom, tableRooms>>
                 ELSE inRoom' = inRoom \ {s} /\ tableRooms' = tableRooms \ {s}
      /\ UNCHANGED <<version, members, online, page, inflight, faults, due>>

\* table:join, once the database answered: ONLINE, and a snapshot to send.
JoinRead(k) ==
  /\ k.op = "join"
  /\ \/ /\ User(k.sock) \in members
        /\ online' = online \cup {User(k.sock)}
        /\ handlers' = (handlers \ {k}) \cup
             {[op |-> "enter", sock |-> k.sock, version |-> version]}
     \/ /\ User(k.sock) \notin members
        /\ handlers' = handlers \ {k}
        /\ UNCHANGED online
  /\ UNCHANGED <<version, members, page, outbox, inflight, records, faults, due>>

\* The socket enters the three records, also if it is gone by now; then the
\* snapshot read before goes out.
JoinEnter(k) ==
  /\ k.op = "enter"
  /\ inRoom' = IF Alive(k.sock) THEN inRoom \cup {k.sock} ELSE inRoom
  /\ tableRooms' = tableRooms \cup {k.sock}
  /\ active' = Counted(k.sock)
  /\ inflight' = inflight \cup Sent(k.sock, k.version)
  /\ handlers' = handlers \ {k}
  /\ UNCHANGED <<version, members, online, page, outbox, faults, due>>

\* multiplayerService.disconnect answered; a leave takes the socket out now.
Mark(k) ==
  /\ k.op = "mark"
  /\ online' = online \ {User(k.sock)}
  /\ inRoom' = IF k.leaves THEN inRoom \ {k.sock} ELSE inRoom
  /\ tableRooms' = IF k.leaves THEN tableRooms \ {k.sock} ELSE tableRooms
  /\ handlers' = handlers \ {k}
  /\ UNCHANGED <<version, members, page, outbox, inflight, active, faults, due>>

\* Mutant of SeenBy: a heartbeat renews lastSeenAt only.
SeenBy_NotOnline(u) == online

\* touchParticipant.
SeenBy(u) == online \cup {u}

Beat(k) ==
  /\ k \in handlers /\ k.op = "beat"
  /\ online' = IF User(k.sock) \in members THEN SeenBy(User(k.sock)) ELSE online
  /\ handlers' = handlers \ {k}
  /\ UNCHANGED <<version, members, page, outbox, inflight, records, faults, due>>

\* The table moves on and will be broadcast: who of those that stay is in the room
\* now is owed the news.
MoveOn(left) ==
  /\ version' = version + 1
  /\ members' = members \ left
  /\ due' = [p \in Pages |->
       IF UserOf[p] \in left THEN 0
       ELSE IF Open(p) /\ UserOf[p] \in members /\ Socket(p) \in inRoom THEN version'
       ELSE due[p]]

\* What a departure may do to the members: u goes; or, when too few are left to
\* play on, the room is closed and all its member rows are deleted.
Departures(u) == {{u}, members}

Broadcast(v) == [op |-> "broadcast", version |-> v]

\* An action of a player that came by socket, the reaper's, or a departure from a
\* page that is not looked at, is committed and will be broadcast.
Commit ==
  /\ Bounded /\ faults' = faults + 1
  /\ members # {}
  /\ MoveOn({}) \/ MoveOn(members)
  /\ handlers' = handlers \cup {Broadcast(version')}
  /\ UNCHANGED <<online, page, outbox, inflight, records>>

\* POST /:roomId/table/actions: act is called and nothing is broadcast.  The page
\* sends its actions by socket; another client of the user need not.
CommitQuietly ==
  /\ Bounded /\ faults' = faults + 1
  /\ members # {}
  /\ version' = version + 1
  /\ UNCHANGED <<members, online, page, outbox, inflight, handlers, records, due>>

\* multiplayerService.abandon, which is refused the second time and in a room that
\* was closed.
AbandonCommit(k) ==
  /\ k.op = "abandon"
  /\ \/ /\ User(k.sock) \in members
        /\ \E left \in Departures(User(k.sock)) : MoveOn(left)
        /\ online' = online \ {User(k.sock)}
        /\ handlers' = (handlers \ {k}) \cup
             {[op |-> "quit", sock |-> k.sock, version |-> version']}
     \/ /\ User(k.sock) \notin members
        /\ handlers' = handlers \ {k}
        /\ UNCHANGED <<version, members, online, due>>
  /\ UNCHANGED <<page, outbox, inflight, records, faults>>

\* The socket leaves the three records, and the others are told.
AbandonQuit(k) ==
  /\ k.op = "quit"
  /\ inRoom' = inRoom \ {k.sock}
  /\ tableRooms' = tableRooms \ {k.sock}
  /\ active' = active \ {k.sock}
  /\ handlers' = (handlers \ {k}) \cup {Broadcast(k.version)}
  /\ UNCHANGED <<version, members, online, page, outbox, inflight, faults, due>>

\* Mutant of Recipients: one of the sockets of each user.
Recipients_OnePerUser ==
  {CHOOSE s \in inRoom : User(s) = u : u \in {User(s) : s \in inRoom}}

\* io.in(tableRoom(roomId)).fetchSockets().
Recipients == inRoom

\* broadcastSnapshot: the sockets of the room, then a snapshot read for each.
Fetch(k) ==
  /\ k.op = "broadcast"
  /\ handlers' = (handlers \ {k}) \cup 
       {[op |-> "send", sock |-> s, version |-> k.version] : s \in Recipients}
  /\ UNCHANGED <<version, members, online, page, outbox, inflight, records, faults, due>>

\* Read and sent: two broadcasts may send what they read in either order.  A page
\* of who is no member any more, of a closed room all of them, gets table:error
\* instead and shows that alone from then on.
Send(k) ==
  /\ k.op = "send"
  /\ inflight' = IF User(k.sock) \in members THEN inflight \cup Sent(k.sock, version)
                                             ELSE inflight
  /\ handlers' = handlers \ {k}
  /\ UNCHANGED <<version, members, online, page, outbox, records, faults, due>>

Handle ==
  \E k \in handlers : \/ JoinRead(k) \/ JoinEnter(k) \/ Mark(k) \/ Fetch(k) \/ Send(k)
                       \/ AbandonCommit(k) \/ AbandonQuit(k)

Next ==
  \/ \E p \in Pages :
       \/ Load(p) \/ Loaded(p) \/ Close(p) \/ Heartbeat(p) \/ Reconnect(p)
       \/ Recover(p) \/ Abandon(p) \/ Arrive(p) \/ Goodbye(p) \/ Drop(p)
  \/ \E m \in inflight : Receive(m)
  \/ \E k \in handlers : Beat(k)
  \/ Handle \/ Commit \/ CommitQuietly \/ Restart

Spec == Init /\ [][Next]_vars

\* The server finishes what it began, what is sent on a living connection
\* arrives, and the page's timer runs.  Nothing is assumed of the players, nor
\* that a lost connection comes back.
Fairness ==
  /\ WF_vars(Handle \/ (\E m \in inflight : Receive(m)) \/ (\E p \in Pages : Arrive(p)))
  /\ \A p \in Pages : WF_vars(Heartbeat(p) \/ Beat(TheBeat(p)))

FairSpec == Spec /\ Fairness

-----------------------------------------------------------------------------
(* Properties *)

\* An open page never goes back to an older table, though broadcasts overtake
\* each other and the answers of REST calls (acceptSnapshot, recover).
ViewsNeverGoBack ==
  [][\A p \in Pages : Open(p) /\ Open(p)' => page'[p].view >= page[p].view]_vars

\* A socket in the room is counted among its user's connections, unless it is
\* just leaving: so a tab that goes never marks its user away while another is
\* at the table (addConnection, removeConnection; spec 005, FR-010).
RoomIsCounted ==
  \A s \in inRoom :
    s \in active \/ [op |-> "mark", sock |-> s, leaves |-> TRUE] \in handlers

AtTheTable(u) == u \in members /\ \E p \in Pages : UserOf[p] = u /\ Open(p) /\ page[p].up

\* A user with a page open and connected is seen, or will be, whatever late
\* writes of other connections say (heartbeat).
StayingIsSeen ==
  \A u \in {UserOf[p] : p \in Pages} :
    AtTheTable(u) ~> (u \in online \/ ~AtTheTable(u))

\* Every change that is announced reaches the pages whose sockets were in the room
\* when it was committed, unless their connection ends or their user's membership
\* does (broadcastSnapshot).  Spec 005, FR-008, promises more, "each accepted
\* state change to all currently connected members", and the code does not keep
\* it: see EveryChangeReaches.
BroadcastsReach ==
  \A p \in Pages : (page[p].view < due[p]) ~> (page[p].view >= due[p])

\* A member's page in the room that shows an older table than there is
Behind(p) ==
  /\ Open(p) /\ UserOf[p] \in members /\ Socket(p) \in inRoom
  /\ page[p].view < version

\* What spec 005 says (FR-008): "System MUST distribute each accepted state change
\* to all currently connected members so their public views converge to the same
\* hand state".  A member's page in the room does not stay behind the table.  The
\* code breaks it: POST /:roomId/table/actions broadcasts nothing.
EveryChangeReaches == \A p \in Pages : Behind(p) ~> ~Behind(p)
=============================================================================
