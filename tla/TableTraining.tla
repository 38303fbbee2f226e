----------------------------- MODULE TableTraining -----------------------------
(***************************************************************************)
(* Training at one multiplayer table: multiplayer.training.repository.ts   *)
(* and its service.  Users of the table enrol in its one training session, *)
(* leave it and come back, from several tabs at once, and what they do at  *)
(* the table while enrolled is recorded as a decision, in the transaction  *)
(* of act (MultiplayerTable).  Enrolling reads the session, the user's row *)
(* and the number enrolled one after the other (READ COMMITTED).           *)
(***************************************************************************)
EXTENDS Server, Sequences

CONSTANTS
  Trainees,    \* the participants of the table
  Capacity,    \* how many may be enrolled: six
  Taken,       \* how many decisions a session is read with: fifty
  MaxActions   \* bound: actions accepted at the table

ASSUME TrainingBounds == Capacity \in Nat /\ Taken \in Nat /\ MaxActions \in Nat

VARIABLES
  training,   \* whether the table has its session
  enrolments, \* the multiplayer_training_participants, in order of creation
  tableMoves, \* the accepted table_actions: who acted
  reviewed    \* the multiplayer_training_decisions: the number of the action,
              \*   and the row of who took it

trainingRows == <<training, enrolments, tableMoves, reviewed>>

TrainingInit ==
  training = FALSE /\ enrolments = << >> /\ tableMoves = << >> /\ reviewed = {}

RowsFor(u) == {i \in DOMAIN enrolments : enrolments[i].user = u}
Enrolled   == {i \in DOMAIN enrolments : enrolments[i].status = "ENROLLED"}

\* createOrJoinTraining: the user is at the open table; the transaction looks
\* for the session.
JoinTraining(h, u) ==
  /\ Begin(h, [op |-> IF training THEN "enrol" ELSE "open", user |-> u])
  /\ UNCHANGED trainingRows

\* An existing row is updated; others are counted first.
EnrolRead(h) ==
  LET u == calls[h].user
  IN  /\ calls[h].op = "enrol"
      /\ \/ RowsFor(u) # {} /\ Continue(h, [op |-> "mark", user |-> u, as |-> "ENROLLED"])
         \/ /\ RowsFor(u) = {} /\ Cardinality(Enrolled) < Capacity
            /\ Continue(h, [op |-> "create", user |-> u])
         \/ RowsFor(u) = {} /\ Cardinality(Enrolled) >= Capacity /\ Finish(h)
      /\ UNCHANGED trainingRows

\* Mutant of MayCreate: the row of the user is not unique.
MayCreate_NotUnique(c) == c.op = "open" => ~training

\* The unique indexes: one session for the table, one row for the user.
MayCreate(c) == (c.op = "open" => ~training) /\ RowsFor(c.user) = {}

\* The row is created, with the session when there was none.  Refused by an
\* index, the request is answered with the row there is, or an error.
EnrolCreate(h) ==
  LET c == calls[h]
  IN  /\ c.op \in {"open", "create"}
      /\ training' = TRUE
      /\ enrolments' = IF MayCreate(c)
                         THEN Append(enrolments, [user |-> c.user, status |-> "ENROLLED"])
                         ELSE enrolments
      /\ Finish(h)
      /\ UNCHANGED <<tableMoves, reviewed>>

\* leaveTraining reads the user's row.
LeaveTraining(h, u) ==
  /\ RowsFor(u) # {}
  /\ Begin(h, [op |-> "mark", user |-> u, as |-> "LEFT"])
  /\ UNCHANGED trainingRows

\* By its id, whatever the row says by now.
Mark(h) ==
  LET c == calls[h]
  IN  /\ c.op = "mark"
      /\ enrolments' = [i \in DOMAIN enrolments |->
           IF enrolments[i].user = c.user THEN [enrolments[i] EXCEPT !.status = c.as]
                                          ELSE enrolments[i]]
      /\ Finish(h)
      /\ UNCHANGED <<training, tableMoves, reviewed>>

\* An action of the user is accepted, or the reaper's for it, and
\* createAcceptedDecision records it for the one who is enrolled.
Act(u) ==
  /\ Len(tableMoves) < MaxActions
  /\ tableMoves' = Append(tableMoves, u)
  /\ reviewed' = reviewed \cup
       {[move |-> Len(tableMoves'), row |-> i] : i \in RowsFor(u) \cap Enrolled}
  /\ UNCHANGED <<training, enrolments, calls>>

TrainingNext ==
  \/ \E u \in Trainees : Act(u) \/ \E h \in Handlers : JoinTraining(h, u) \/ LeaveTraining(h, u)
  \/ \E h \in Handlers : EnrolRead(h) \/ EnrolCreate(h) \/ Mark(h)

-----------------------------------------------------------------------------
(* What a trainee is shown *)

\* trainingInclude: the latest decisions of the whole session.
Recent ==
  {r \in reviewed : Cardinality({s \in reviewed : s.move > r.move}) < Taken}

Own(rs, u) == {r \in rs : enrolments[r.row].user = u}

\* get and join filter those few by the user; decisions looks for all of its own.
Shown(u)        == Own(Recent, u)
OwnDecisions(u) == Own(reviewed, u)

\* training:decision-evaluated, sent after an action of the user: the first of
\* what get shows, to a user that enrolled once, whether it has left since or not.
LatestFor(u) ==
  {r \in Shown(u) : RowsFor(u) # {} /\ \A s \in Shown(u) : s.move <= r.move}

-----------------------------------------------------------------------------
(* Properties *)

\* A user is enrolled once, though it joins from two tabs at once and the two
\* create the session together, leaves and comes back; so an action is reviewed
\* once, for who took it (createOrJoinTraining, createAcceptedDecision), and a
\* trainee is sent one decision, of its own, after which it took no action
\* enrolled (emitLatestTrainingDecision).
ReviewedOnce ==
  /\ \A i, j \in DOMAIN enrolments : enrolments[i].user = enrolments[j].user => i = j
  /\ \A r, s \in reviewed : r.move = s.move => r = s
  /\ \A r \in reviewed : enrolments[r.row].user = tableMoves[r.move]
  /\ \A u \in Trainees : \A r, s \in LatestFor(u) : r = s
  /\ \A u \in Trainees : \A r \in LatestFor(u), s \in OwnDecisions(u) : s.move <= r.move
=============================================================================
