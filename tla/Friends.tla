-------------------------------- MODULE Friends --------------------------------
(***************************************************************************)
(* Friend requests and friendships: backend/src/modules/friends.  A row of *)
(* friend_requests is a pending request or, once accepted, a friendship;   *)
(* the schema allows one row for two users.  Every handler reads a row in  *)
(* one query and writes it by its id in a later one, and whatever other    *)
(* handlers do may come between.                                           *)
(***************************************************************************)
EXTENDS Server

CONSTANTS
  Acquainted, \* bound: the users who send friend requests
  MaxRequests \* bound: the rows ever created

ASSUME FriendsBounds == MaxRequests \in Nat

VARIABLES
  requests,   \* the rows of friend_requests
  created,    \* rows ever created: the last id
  asked       \* history: <<u, v>> when u was told that its request to v, or its
              \*   acceptance, stands; forgotten when the row is deleted

friendRows == <<requests, created, asked>>

FriendsInit == requests = {} /\ created = 0 /\ asked = {}

\* findByPair: at most one row, whoever sent it.
Between(u, v) == {q \in requests : {q.sender, q.receiver} = {u, v}}

ById(by, to, id, op) == [op |-> op, by |-> by, to |-> to, id |-> id]

\* resolveExistingPair: a request the other side sent is accepted; anything
\* else is a conflict, and stands.
ResolveExistingPair(h, u, v, q) ==
  \/ /\ q.status = "PENDING" /\ q.sender = v
     /\ Continue(h, ById(u, v, q.id, "accept"))
     /\ UNCHANGED friendRows
  \/ /\ ~(q.status = "PENDING" /\ q.sender = v)
     /\ asked' = asked \cup {<<u, v>>}
     /\ Finish(h)
     /\ UNCHANGED <<requests, created>>

\* sendRequest looks for a row of the pair.
SendRequest(h, u, v) ==
  /\ u # v /\ calls[h] = Idle
  /\ \/ /\ Between(u, v) = {}
        /\ Continue(h, [op |-> "create", by |-> u, to |-> v])
        /\ UNCHANGED friendRows
     \/ \E q \in Between(u, v) : ResolveExistingPair(h, u, v, q)

InsertRequest(u, v) ==
  /\ created < MaxRequests
  /\ requests' = requests \cup
       {[id |-> created + 1, sender |-> u, receiver |-> v, status |-> "PENDING"]}
  /\ created' = created + 1
  /\ asked' = asked \cup {<<u, v>>}

\* Mutant of CreateRequest: a row created meanwhile is a conflict, whoever sent it.
CreateRequest_Conflict(h) ==
  LET u == calls[h].by
      v == calls[h].to
  IN  /\ calls[h].op = "create"
      /\ \/ Between(u, v) = {} /\ InsertRequest(u, v)
         \/ /\ Between(u, v) # {}
            /\ asked' = asked \cup {<<u, v>>}
            /\ UNCHANGED <<requests, created>>
      /\ Finish(h)

\* The row is created, or the unique index refuses a second one.
CreateRequest(h) ==
  LET u == calls[h].by
      v == calls[h].to
  IN  /\ calls[h].op = "create"
      /\ \/ /\ Between(u, v) = {}
            /\ InsertRequest(u, v)
            /\ Finish(h)
         \/ /\ Between(u, v) # {}
            /\ Continue(h, [op |-> "race", by |-> u, to |-> v])
            /\ UNCHANGED friendRows

\* Then the winner's row is looked up, and may be gone: an internal error.
ResolveRace(h) ==
  LET u == calls[h].by
      v == calls[h].to
  IN  /\ calls[h].op = "race"
      /\ \/ Between(u, v) = {} /\ Finish(h) /\ UNCHANGED friendRows
         \/ \E q \in Between(u, v) : ResolveExistingPair(h, u, v, q)

\* accept, reject and cancelRequest read the pending row, and who may ask;
\* removeFriend reads the friendship.
AcceptRequest(h, q) ==
  /\ calls[h] = Idle /\ q.status = "PENDING"
  /\ Continue(h, ById(q.receiver, q.sender, q.id, "accept"))
  /\ UNCHANGED friendRows

RejectOrCancel(h, q, u) ==
  /\ calls[h] = Idle /\ q.status = "PENDING"
  /\ u \in {q.sender, q.receiver}
  /\ Continue(h, ById(u, u, q.id, "delete"))
  /\ UNCHANGED friendRows

RemoveFriend(h, q, u) ==
  /\ calls[h] = Idle /\ q.status = "ACCEPTED"
  /\ u \in {q.sender, q.receiver}
  /\ Continue(h, ById(u, u, q.id, "delete"))
  /\ UNCHANGED friendRows

\* The writes go by id alone: whatever the row has become since it was read.
\* A row that is gone is an error, and changes nothing.
AcceptRow(h) ==
  /\ calls[h].op = "accept"
  /\ \/ \E q \in requests :
          /\ q.id = calls[h].id
          /\ requests' = (requests \ {q}) \cup {[q EXCEPT !.status = "ACCEPTED"]}
          /\ asked' = asked \cup {<<calls[h].by, calls[h].to>>}
          /\ UNCHANGED created
     \/ /\ \A q \in requests : q.id # calls[h].id
        /\ UNCHANGED friendRows
  /\ Finish(h)

DeleteRow(h) ==
  /\ calls[h].op = "delete"
  /\ \/ \E q \in requests :
          /\ q.id = calls[h].id
          /\ requests' = requests \ {q}
          /\ asked' = asked \ {<<q.sender, q.receiver>>, <<q.receiver, q.sender>>}
          /\ UNCHANGED created
     \/ /\ \A q \in requests : q.id # calls[h].id
        /\ UNCHANGED friendRows
  /\ Finish(h)

FriendsNext ==
  \E h \in Handlers :
    \/ \E u, v \in Acquainted : SendRequest(h, u, v)
    \/ CreateRequest(h) \/ ResolveRace(h) \/ AcceptRow(h) \/ DeleteRow(h)
    \/ \E q \in requests : AcceptRequest(h, q)
    \/ \E q \in requests, u \in Acquainted : RejectOrCancel(h, q, u) \/ RemoveFriend(h, q, u)

-----------------------------------------------------------------------------
(* The lists: listRequests, listFriends *)

Incoming(u) == {q.sender : q \in {q \in requests : q.receiver = u /\ q.status = "PENDING"}}
Outgoing(u) == {q.receiver : q \in {q \in requests : q.sender = u /\ q.status = "PENDING"}}

ListRequests(u) == [incoming |-> Incoming(u), outgoing |-> Outgoing(u)]

FriendsOf(u) ==
  {v \in Acquainted \ {u} : \E q \in Between(u, v) : q.status = "ACCEPTED"}

-----------------------------------------------------------------------------

\* Two users are friends exactly when each was told that its request to the
\* other stands, and until then the one that was told so waits in both their
\* lists; also when the two requests cross and the second finds the unique index
\* taken (spec 002, FR-006): none of them waits for an answer that was given.
FriendsIffBothAsked ==
  \A u, v \in Acquainted : u # v =>
    LET told == <<u, v>> \in asked
        both == told /\ <<v, u>> \in asked
    IN  /\ both <=> v \in FriendsOf(u)
        /\ (told /\ ~both) <=> v \in ListRequests(u).outgoing
        /\ v \in ListRequests(u).outgoing <=> u \in ListRequests(v).incoming
=============================================================================
