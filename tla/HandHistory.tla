------------------------------ MODULE HandHistory ------------------------------
(***************************************************************************)
(* The histories of finished hands: backend/src/modules/hand-history.  A   *)
(* hand may be published by several requests, each of which looks for it   *)
(* and then inserts it; its players list it, look at it and replay it, and *)
(* each may ask to be forgotten.  A history keeps the sequence numbers of  *)
(* the actions that were recorded, which may have holes.                   *)
(***************************************************************************)
EXTENDS Server, Sequences

CONSTANTS
  Sources,    \* the hands that may be published: sourceType and sourceId
  Authors,    \* the players of each
  MaxNumber,  \* bound: the highest number of an action
  RelatedLimit  \* how many related hands a player asks for

ASSUME HistoryBounds == MaxNumber \in Nat /\ RelatedLimit \in Nat

VARIABLES
  histories,  \* hand_histories: the hand, the numbers of its actions, and who
              \*   may list it and open it (history_access_policies)
  removals    \* history: the hands whose players were told they are removed

historyRows == <<histories, removals>>

HistoryInit == histories = << >> /\ removals = {}

Copies(source) == {i \in DOMAIN histories : histories[i].source = source}

\* publishTerminal: a hand that is there already is the answer.
PublishHand(h, source, numbers) ==
  /\ Copies(source) = {}
  /\ Begin(h, [op |-> "insert", source |-> source, numbers |-> numbers])
  /\ UNCHANGED historyRows

\* Mutant of MayInsert: source_type and source_id have an index that is not unique.
MayInsert_NotUnique(source) == TRUE

MayInsert(source) == Copies(source) = {}

\* Every player may list and open it.  Refused by the index, the request
\* answers with the history there is.
InsertHistory(h) ==
  LET c == calls[h]
  IN  /\ c.op = "insert"
      /\ histories' = IF ~MayInsert(c.source) THEN histories ELSE
           Append(histories, [source |-> c.source, numbers |-> c.numbers,
                              listed |-> Authors, opened |-> Authors])
      /\ Finish(h)
      /\ UNCHANGED removals

\* Mutant of Forgotten: the history is taken off the list only.
Forgotten_List(history, u) == [history EXCEPT !.listed = @ \ {u}]

\* canList, canViewDetail
Forgotten(history, u) == [history EXCEPT !.listed = @ \ {u}, !.opened = @ \ {u}]

\* removeUserPolicy; asked for again, it finds the policy it changed.
Forget(u, i) ==
  /\ histories' = [histories EXCEPT ![i] = Forgotten(histories[i], u)]
  /\ removals' = removals \cup {[source |-> histories[i].source, user |-> u]}
  /\ UNCHANGED calls

\* listForUser, findForUser and findForReplay: what a player is shown; a history
\* without an action has nothing to replay.
ListFor(u)   == {i \in DOMAIN histories : u \in histories[i].listed}
OpenedFor(u) == {i \in DOMAIN histories : u \in histories[i].opened}
ReplayFor(u) == {i \in OpenedFor(u) : histories[i].numbers # {}}

\* The analytics of a player are of the hands on its list, and name the last of
\* them as related.
AnalyticsOf(u) == ListFor(u)
RelatedHands(u) ==
  {i \in AnalyticsOf(u) : Cardinality({j \in AnalyticsOf(u) : j > i}) < RelatedLimit}

\* canOpenDetail and canOpenReplay go by some policy that lists the hand, whosever.
CanOpen(i) == \E p \in histories[i].listed : p \in histories[i].opened

\* Mutant of GapBetween: the gap ends with the next event.
GapBetween_Next(previous, current) == (previous + 1) .. current

GapBetween(previous, current) == (previous + 1) .. (current - 1)

\* projectReplay: before the first event, and where two that follow each other
\* in the sorted list are not numbered so.
Gaps(numbers) ==
  LET Follow(previous, current) ==
        /\ previous < current
        /\ \A n \in numbers : ~(previous < n /\ n < current)
      pairs == {p \in ({0} \cup numbers) \X numbers : Follow(p[1], p[2])}
  IN  {GapBetween(p[1], p[2]) : p \in {q \in pairs : q[2] > q[1] + 1}}

HistoryNext ==
  \/ \E h \in Handlers :
       \/ \E s \in Sources, numbers \in SUBSET (1 .. MaxNumber) : PublishHand(h, s, numbers)
       \/ InsertHistory(h)
  \/ \E u \in Authors, i \in DOMAIN histories : Forget(u, i)

-----------------------------------------------------------------------------
(* Properties *)

\* A player who was told that a hand is no longer in its history never lists,
\* opens or replays it again, nor is it counted in or offered by its analytics,
\* though several requests publish the hand, before and after, and other players
\* still have it; and what the analytics offer to open does open
\* (removeUserPolicy, publishTerminal, relatedHands; spec 009, FR-014).
RemovedStaysHidden ==
  /\ \A r \in removals : \A i \in Copies(r.source) :
       i \notin ListFor(r.user) \cup OpenedFor(r.user) \cup RelatedHands(r.user)
  /\ \A u \in Authors : \A i \in RelatedHands(u) : CanOpen(i) => i \in OpenedFor(u)

\* Up to the last event, a replay shows a number or announces it as missing, in
\* one gap, and never both (projectReplay; spec 010, FR-011).
GapsAreExact ==
  \A i \in UNION {ReplayFor(u) : u \in Authors} :
    LET shown == histories[i].numbers
    IN  \A n \in 1 .. MaxNumber : (\E last \in shown : n <= last) =>
          Cardinality({g \in Gaps(shown) : n \in g}) = IF n \in shown THEN 0 ELSE 1
=============================================================================
