--------------------------- MODULE LiveTableProofs ---------------------------
(***************************************************************************)
(* Theorems about LiveTable, for any number of pages and users, any number *)
(* of lost connections, departures and restarts, and any order of what the *)
(* server has in progress.                                                 *)
(***************************************************************************)
EXTENDS LiveTable, TLAPS

PageType ==
  [life : {"new", "loading", "cancelled", "open", "ghost", "closed"},
   gen : Nat, up : BOOLEAN, view : Nat]

\* The pages show versions the table has had, and so do the snapshots on their
\* way and the snapshots about to be sent.
Typed ==
  /\ page \in [Pages -> PageType]
  /\ version \in Nat
  /\ \A m \in inflight : m.version \in Nat
  /\ \A k \in handlers : k.op = "enter" => k.version \in Nat

-----------------------------------------------------------------------------
(* RoomIsCounted *)

\* A step that lets nobody into the room, counts nobody out of it and ends no
\* leave, keeps the sockets in the room counted.
LEMMA CountedStays ==
  ASSUME RoomIsCounted, inRoom' \subseteq inRoom, active \subseteq active',
         \A k \in handlers : k.op = "mark" => k \in handlers'
  PROVE  RoomIsCounted'
  BY DEF RoomIsCounted

\* The sockets of the room stay counted in every step of a page.
LEMMA PageKeepsCounted ==
  ASSUME RoomIsCounted, NEW p \in Pages,
         \/ Load(p) \/ Loaded(p) \/ Close(p) \/ Heartbeat(p) \/ Reconnect(p)
         \/ Recover(p) \/ Abandon(p) \/ Arrive(p) \/ Goodbye(p) \/ Drop(p)
  PROVE  RoomIsCounted'
<1>1. CASE \/ Load(p) \/ Loaded(p) \/ Close(p) \/ Heartbeat(p) \/ Reconnect(p)
           \/ Recover(p) \/ Abandon(p)
  <2>1. UNCHANGED records /\ handlers \subseteq handlers'
    BY <1>1 DEF Load, Loaded, Close, Heartbeat, Reconnect, Recover, Abandon
  <2> QED
    BY <2>1, CountedStays DEF records
<1>2. CASE Arrive(p)
  <2> DEFINE s == Socket(p)
  <2>1. handlers \subseteq handlers'
    BY <1>2 DEF Arrive
  <2>2. CASE UNCHANGED records
    BY <2>1, <2>2, CountedStays DEF records
  <2>3. CASE active' = active \ {s} /\ handlers' = handlers \cup Marking(s, TRUE)
             /\ IF IsLast(s) THEN UNCHANGED <<inRoom, tableRooms>>
                  ELSE inRoom' = inRoom \ {s} /\ tableRooms' = tableRooms \ {s}
    <3>1. inRoom' \subseteq inRoom
      BY <2>3
    <3>2. s \in inRoom' => [op |-> "mark", sock |-> s, leaves |-> TRUE] \in handlers'
      BY <2>3 DEF Marking
    <3> HIDE DEF s
    <3> QED
      BY <2>1, <2>3, <3>1, <3>2 DEF RoomIsCounted
  <2> QED
    BY <1>2, <2>2, <2>3 DEF Arrive
<1>3. CASE Disconnected(p)
  <2> DEFINE s == Socket(p)
  <2>1. inRoom' = inRoom \ {s} /\ active \ {s} \subseteq active' /\ handlers \subseteq handlers'
    BY <1>3 DEF Disconnected
  <2> HIDE DEF s
  <2> QED
    BY <2>1 DEF RoomIsCounted
<1> QED
  BY <1>1, <1>2, <1>3 DEF Goodbye, Drop

\* And in every step of the server.
LEMMA HandlersKeepCounted ==
  ASSUME RoomIsCounted, NEW k \in handlers,
         \/ JoinRead(k) \/ JoinEnter(k) \/ Mark(k) \/ Fetch(k) \/ Send(k)
         \/ AbandonCommit(k) \/ AbandonQuit(k) \/ Beat(k)
  PROVE  RoomIsCounted'
<1>1. CASE JoinRead(k) \/ Fetch(k) \/ Send(k) \/ AbandonCommit(k) \/ Beat(k)
  <2>1. UNCHANGED records /\ handlers \ {k} \subseteq handlers' /\ k.op # "mark"
    BY <1>1 DEF JoinRead, Fetch, Send, AbandonCommit, Beat
  <2>2. \A m \in handlers : m.op = "mark" => m \in handlers'
    BY <2>1
  <2>3. inRoom' = inRoom /\ active' = active
    BY <2>1 DEF records
  <2> QED
    BY <2>2, <2>3, CountedStays
<1>2. CASE JoinEnter(k)
  <2>1. /\ inRoom' \subseteq inRoom \cup {k.sock} /\ active' = active \cup {k.sock}
        /\ handlers' = handlers \ {k} /\ k.op = "enter"
    BY <1>2 DEF JoinEnter, Counted
  <2>2. \A s : [op |-> "mark", sock |-> s, leaves |-> TRUE] # k
    BY <2>1
  <2> QED
    BY <2>1, <2>2 DEF RoomIsCounted
<1>3. CASE Mark(k)
  <2>1. /\ inRoom' = IF k.leaves THEN inRoom \ {k.sock} ELSE inRoom
        /\ active' = active /\ handlers' = handlers \ {k}
    BY <1>3 DEF Mark
  <2>2. ASSUME NEW s \in inRoom', s \notin active'
        PROVE  [op |-> "mark", sock |-> s, leaves |-> TRUE] \in handlers'
    <3>1. [op |-> "mark", sock |-> s, leaves |-> TRUE] \in handlers
      BY <2>1, <2>2 DEF RoomIsCounted
    <3>2. [op |-> "mark", sock |-> s, leaves |-> TRUE] # k
      <4>1. SUFFICES ASSUME [op |-> "mark", sock |-> s, leaves |-> TRUE] = k PROVE FALSE
        OBVIOUS
      <4>2. k.leaves /\ k.sock = s
        BY <4>1
      <4> QED
        BY <2>1, <2>2, <4>2
    <3> QED
      BY <2>1, <3>1, <3>2
  <2> QED
    BY <2>2 DEF RoomIsCounted
<1>4. CASE AbandonQuit(k)
  <2>1. /\ inRoom' = inRoom \ {k.sock} /\ active' = active \ {k.sock}
        /\ handlers \ {k} \subseteq handlers' /\ k.op = "quit"
    BY <1>4 DEF AbandonQuit
  <2>2. \A s : [op |-> "mark", sock |-> s, leaves |-> TRUE] # k
    BY <2>1
  <2> QED
    BY <2>1, <2>2 DEF RoomIsCounted
<1> QED
  BY <1>1, <1>2, <1>3, <1>4

\* A socket in the room is counted among its user's connections or is just
\* leaving, whatever order joins, leaves, lost connections, departures and
\* restarts come in (addConnection, removeConnection, table:leave).
THEOREM RoomStaysCounted == Spec => []RoomIsCounted
<1>1. Init => RoomIsCounted
  BY DEF Init, RoomIsCounted
<1>2. RoomIsCounted /\ [Next]_vars => RoomIsCounted'
  <2> SUFFICES ASSUME RoomIsCounted, [Next]_vars PROVE RoomIsCounted'
    OBVIOUS
  <2>1. CASE \E m \in inflight : Receive(m)
    BY <2>1, CountedStays DEF Receive, records
  <2>2. CASE Commit \/ CommitQuietly
    <3>1. UNCHANGED records /\ handlers \subseteq handlers'
      BY <2>2 DEF Commit, CommitQuietly
    <3> QED
      BY <3>1, CountedStays DEF records
  <2>3. CASE Restart
    BY <2>3 DEF Restart, RoomIsCounted
  <2>4. CASE UNCHANGED vars
    BY <2>4, CountedStays DEF vars, records
  <2>5. CASE Handle \/ \E k \in handlers : Beat(k)
    BY <2>5, HandlersKeepCounted DEF Handle
  <2> QED
    BY <2>1, <2>2, <2>3, <2>4, <2>5, PageKeepsCounted DEF Next
<1> QED
  BY <1>1, <1>2, PTL DEF Spec


-----------------------------------------------------------------------------
(* ViewsNeverGoBack *)

\* What the pages show and what is on its way to them are numbers of versions.
LEMMA TypedIsInductive ==
  ASSUME Typed, [Next]_vars
  PROVE  Typed'
<1>1. CASE \E m \in inflight : Receive(m)
  <2>1. PICK m \in inflight : Receive(m)
    BY <1>1
  <2>2. m.version \in Nat
    BY DEF Typed
  <2>3. page' \in [Pages -> PageType]
    BY <2>1, <2>2 DEF Receive, Typed, PageType
  <2> QED
    BY <2>1, <2>3 DEF Receive, Typed
<1>2. CASE Commit \/ CommitQuietly
  <2>1. page' = page /\ inflight' = inflight /\ version' \in Nat
    BY <1>2 DEF Commit, CommitQuietly, MoveOn, Typed
  <2>2. ASSUME NEW c \in handlers', c.op = "enter"
        PROVE  c \in handlers
    BY <1>2, <2>2 DEF Commit, CommitQuietly, Broadcast
  <2> QED
    BY <2>1, <2>2 DEF Typed
<1>3. CASE Restart
  <2>1. page' \in [Pages -> PageType]
    BY <1>3 DEF Restart, Typed, PageType
  <2> QED
    BY <1>3, <2>1 DEF Restart, Typed
<1>4. CASE UNCHANGED vars
  BY <1>4 DEF vars, Typed
<1>5. ASSUME NEW k \in handlers, JoinEnter(k) \/ Send(k)
      PROVE  Typed'
  <2>1. \A m \in inflight' : m.version \in Nat
    BY <1>5 DEF JoinEnter, Send, Sent, Typed
  <2>2. page' = page /\ version' = version /\ handlers' \subseteq handlers
    BY <1>5 DEF JoinEnter, Send
  <2> QED
    BY <2>1, <2>2 DEF Typed
<1>6. ASSUME NEW k \in handlers, Mark(k) \/ Beat(k)
      PROVE  Typed'
  BY <1>6 DEF Mark, Beat, Typed
<1>7. ASSUME NEW k \in handlers,
             JoinRead(k) \/ Fetch(k) \/ AbandonCommit(k) \/ AbandonQuit(k)
      PROVE  Typed'
  <2>1. page' = page /\ inflight' = inflight
    BY <1>7 DEF JoinRead, Fetch, AbandonCommit, AbandonQuit
  <2>2. version' \in Nat
    BY <1>7 DEF JoinRead, Fetch, AbandonCommit, AbandonQuit, MoveOn, Typed
  <2>3. ASSUME NEW c \in handlers', c.op = "enter"
        PROVE  c.version \in Nat
    BY <1>7, <2>3 DEF JoinRead, Fetch, AbandonCommit, AbandonQuit, Broadcast, Typed
  <2> QED
    BY <2>1, <2>2, <2>3 DEF Typed
<1>8. ASSUME NEW p \in Pages, Load(p) \/ Loaded(p) \/ Close(p) \/ Reconnect(p)
      PROVE  Typed'
  <2>1. page[p] \in PageType
    BY DEF Typed
  <2>2. page' \in [Pages -> PageType]
    <3>1. CASE Load(p)
      BY <1>8, <2>1, <3>1 DEF Load, Typed, PageType
    <3>2. CASE Loaded(p)
      <4>1. PICK stays \in BOOLEAN : stays = (page[p].life = "loading")
        OBVIOUS
      <4>2. page' = [page EXCEPT ![p].life = IF stays THEN "open" ELSE "ghost",
                                 ![p].gen = @ + 1, ![p].up = TRUE]
        BY <3>2, <4>1 DEF Loaded
      <4> QED
        BY <2>1, <4>2 DEF Typed, PageType
    <3>3. CASE Close(p)
      <4>1. PICK life \in {"closed", "cancelled"} :
              page' = [page EXCEPT ![p].life = life, ![p].view = 0]
        BY <3>3 DEF Close
      <4> QED
        BY <2>1, <4>1 DEF Typed, PageType
    <3>4. CASE Reconnect(p)
      BY <2>1, <3>4 DEF Reconnect, Typed, PageType
    <3> QED
      BY <1>8, <3>1, <3>2, <3>3, <3>4
  <2>3. inflight' \subseteq inflight /\ version' = version /\ handlers' = handlers
    BY <1>8 DEF Load, Loaded, Close, Reconnect
  <2> QED
    BY <2>2, <2>3 DEF Typed
<1>9. ASSUME NEW p \in Pages, Heartbeat(p) \/ Recover(p) \/ Abandon(p) \/ Arrive(p)
      PROVE  Typed'
  <2>1. page' = page /\ version' = version
    BY <1>9 DEF Heartbeat, Recover, Abandon, Arrive
  <2>2. \A m \in inflight' : m.version \in Nat
    <3>1. CASE Recover(p)
      BY <3>1 DEF Recover, Typed
    <3>2. CASE inflight' = inflight
      BY <3>2 DEF Typed
    <3> QED
      BY <1>9, <3>1, <3>2 DEF Heartbeat, Abandon, Arrive
  <2>3. ASSUME NEW c \in handlers', c.op = "enter"
        PROVE  c \in handlers
    BY <1>9, <2>3 DEF Heartbeat, TheBeat, Recover, Abandon, Arrive, Marking
  <2> QED
    BY <2>1, <2>2, <2>3 DEF Typed
<1>10. ASSUME NEW p \in Pages, Disconnected(p)
       PROVE  Typed'
  <2>1. page[p] \in PageType
    BY DEF Typed
  <2>2. page' \in [Pages -> PageType]
    BY <1>10, <2>1 DEF Disconnected, Typed, PageType
  <2>3. inflight' \subseteq inflight /\ version' = version
    BY <1>10 DEF Disconnected
  <2>4. ASSUME NEW c \in handlers', c.op = "enter"
        PROVE  c \in handlers
    BY <1>10, <2>4 DEF Disconnected, Marking
  <2> QED
    BY <2>2, <2>3, <2>4 DEF Typed
<1> QED
  BY <1>1, <1>2, <1>3, <1>4, <1>5, <1>6, <1>7, <1>8, <1>9, <1>10
     DEF Next, Handle, Goodbye, Drop

\* A page that is open before and after a step shows what it showed, or a
\* snapshot that is not older.
LEMMA ViewsStayOrGrow ==
  ASSUME Typed, [Next]_vars, NEW p \in Pages, Open(p), Open(p)'
  PROVE  page'[p].view >= page[p].view
<1>1. page[p].view \in Nat /\ page \in [Pages -> PageType] /\ page[p].life = "open"
  BY DEF Typed, PageType, Open
<1>2. CASE \E m \in inflight : Receive(m)
  <2>1. PICK m \in inflight : Receive(m)
    BY <1>2
  <2>2. m.version \in Nat
    BY DEF Typed
  <2>3. CASE m.to[1] = p
    BY <1>1, <2>1, <2>2, <2>3 DEF Receive, Accepts, PageType
  <2>4. CASE m.to[1] # p
    BY <1>1, <2>1, <2>4 DEF Receive
  <2> QED
    BY <2>3, <2>4
<1>3. CASE Restart
  <2>1. page'[p] = [page[p] EXCEPT !.up = FALSE] /\ page[p] \in PageType
    BY <1>1, <1>3 DEF Restart
  <2>2. page'[p].view = page[p].view
    BY <2>1 DEF PageType
  <2> QED
    BY <1>1, <2>2
<1>4. ASSUME NEW q \in Pages,
             Load(q) \/ Loaded(q) \/ Close(q) \/ Reconnect(q) \/ Disconnected(q)
      PROVE  page'[p].view = page[p].view
  <2>1. CASE q # p
    BY <1>1, <1>4, <2>1 DEF Load, Loaded, Close, Reconnect, Disconnected
  <2>2. CASE q = p
    <3>1. page[p] \in PageType
      BY <1>1
    <3>2. ~Load(p) /\ ~Loaded(p)
      BY <1>1 DEF Load, Loaded
    <3>3. ~Close(p)
      BY <1>1 DEF Close, Open, PageType
    <3>4. CASE Reconnect(p)
      BY <1>1, <3>1, <3>4 DEF Reconnect, PageType
    <3>5. CASE Disconnected(p)
      BY <1>1, <3>1, <3>5 DEF Disconnected, PageType
    <3> QED
      BY <1>4, <2>2, <3>2, <3>3, <3>4, <3>5
  <2> QED
    BY <2>1, <2>2
<1>5. CASE page' = page
  BY <1>1, <1>5
<1>6. ASSUME NEW q \in Pages, Heartbeat(q) \/ Recover(q) \/ Abandon(q) \/ Arrive(q)
      PROVE  page' = page
  BY <1>6 DEF Heartbeat, Recover, Abandon, Arrive
<1>7. ASSUME Handle \/ Commit \/ CommitQuietly \/ (\E k \in handlers : Beat(k)) \/ UNCHANGED vars
      PROVE  page' = page
  BY <1>7 DEF Handle, Commit, CommitQuietly, Beat, vars, JoinRead, JoinEnter, Mark, Fetch, Send,
              AbandonCommit, AbandonQuit
<1> QED
  BY <1>1, <1>2, <1>3, <1>4, <1>5, <1>6, <1>7 DEF Next, Goodbye, Drop

\* An open page never shows an older table than it has shown, in whatever order
\* snapshots and the answers of REST calls arrive (acceptSnapshot, recover).
THEOREM ViewsOnlyGrow == Spec => ViewsNeverGoBack
<1>1. Init => Typed
  BY DEF Init, Typed, PageType
<1>2. Typed /\ [Next]_vars => Typed'
  BY TypedIsInductive
<1>3. Typed /\ [Next]_vars =>
        [\A p \in Pages : Open(p) /\ Open(p)' => page'[p].view >= page[p].view]_vars
  BY ViewsStayOrGrow
<1> QED
  BY <1>1, <1>2, <1>3, PTL DEF Spec, ViewsNeverGoBack
=============================================================================
