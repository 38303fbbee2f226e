-------------------------------- MODULE Trainer --------------------------------
(***************************************************************************)
(* The training sessions of one user: trainer.service.ts and               *)
(* trainer.repository.ts.  A session walks through numbered scenarios; the *)
(* user decides the current one, once, and asks for the next.  A request   *)
(* reads the session, works on what it read, and writes in a transaction   *)
(* of its own: tabs and repeated clicks overtake each other.               *)
(*                                                                         *)
(* The preflop endpoints take any active session of the user, the postflop *)
(* endpoints a postflop one.  A scenario may be one that the strategy data *)
(* do not support; a postflop one ends its hand or leads to the next       *)
(* street, as its decision says.                                           *)
(***************************************************************************)
EXTENDS Server, Sequences

CONSTANTS
  MaxSessions,  \* bound: sessions ever created
  MaxScenarios  \* bound: scenarios ever created

ASSUME TrainerBounds == MaxSessions \in Nat /\ MaxScenarios \in Nat

VARIABLES
  sessions,   \* training_sessions: format, status, current scenario
  scenarios,  \* training_scenarios: session, sequence, supported, and (history)
              \*   the scenario whose decision led to it
  decided,    \* the scenarios that have a decision: unique for the one user
  ending      \* the postflop ones whose decision ends the hand

trainerRows == <<sessions, scenarios, decided, ending>>

NoScenario == 0
First      == 0   \* the first of its session
Replacing  == -1  \* in the place of an unsupported one

TrainerInit == sessions = << >> /\ scenarios = << >> /\ decided = {} /\ ending = {}

Active(s)      == sessions[s].status = "ACTIVE"
ScenariosOf(s) == {x \in DOMAIN scenarios : scenarios[x].session = s}
Count(s)       == Cardinality(ScenariosOf(s))

\* findSessionByUser takes any, findPostflopSessionByUser a postflop one.
Found(format) ==
  {s \in DOMAIN sessions :
     Active(s) /\ (format = "POSTFLOP" => sessions[s].format = "POSTFLOP")}

Scenario(s, sequence, supported, from) ==
  [session |-> s, sequence |-> sequence, supported |-> supported, from |-> from]

\* A unique index on the session and the sequence refuses the rest.
SequenceIsFree(s, sequence) ==
  \A x \in ScenariosOf(s) : scenarios[x].sequence # sequence

Enter(s, sequence, supported, from) ==
  /\ Len(scenarios) < MaxScenarios
  /\ scenarios' = Append(scenarios, Scenario(s, sequence, supported, from))
  /\ sessions' = [sessions EXCEPT ![s].current = Len(scenarios) + 1]

\* startOrResume and postflopStartOrResume; current and postflopCurrent resume.
StartNew(h, format) ==
  /\ Found(format) = {}
  /\ Begin(h, [op |-> "create", format |-> format])
  /\ UNCHANGED trainerRows

\* training_sessions_one_active_per_user_idx: a user has one active session, of
\* either format.
NoneActive == \A s \in DOMAIN sessions : ~Active(s)

\* createSessionWithScenario: refused by the index, it answers with the session
\* there is, be it one of the other format.
CreateSession(h) ==
  LET s == Len(sessions) + 1
  IN  /\ calls[h].op = "create"
      /\ \/ /\ NoneActive
            /\ Len(sessions) < MaxSessions /\ Len(scenarios) < MaxScenarios
            /\ \E supported \in {FALSE, calls[h].format = "PREFLOP"} :
                 scenarios' = Append(scenarios, Scenario(s, 1, supported, First))
            /\ sessions' = Append(sessions, [format |-> calls[h].format, status |-> "ACTIVE",
                                             current |-> Len(scenarios) + 1])
         \/ ~NoneActive /\ UNCHANGED <<sessions, scenarios>>
      /\ Finish(h)
      /\ UNCHANGED <<decided, ending>>

\* ensureSupportedPreflopScenario: an unsupported scenario without a decision
\* will be replaced, when a supported one was generated.
Resume(h, s) ==
  LET x == sessions[s].current
  IN  /\ s \in Found("PREFLOP") /\ x # NoScenario
      /\ ~scenarios[x].supported /\ x \notin decided
      /\ Begin(h, [op |-> "replace", scenario |-> x])
      /\ UNCHANGED trainerRows

\* replaceUnsupportedCurrentScenario holds the lock of the session: it is still
\* a preflop session at that scenario, and there is still no decision.
ReplaceScenario(h) ==
  LET x == calls[h].scenario
      s == scenarios[x].session
  IN  /\ calls[h].op = "replace"
      /\ IF /\ sessions[s].format = "PREFLOP" /\ Active(s)
            /\ sessions[s].current = x /\ x \notin decided
           THEN Enter(s, Count(s) + 1, TRUE, Replacing)
           ELSE UNCHANGED <<sessions, scenarios>>
      /\ Finish(h)
      /\ UNCHANGED <<decided, ending>>

\* decide and postflopDecide: the scenario is the current one of the session
\* found, and has no decision yet.
Decide(h, format, s) ==
  LET x == sessions[s].current
  IN  /\ s \in Found(format) /\ x # NoScenario /\ x \notin decided
      /\ Begin(h, [op |-> "decide", scenario |-> x])
      /\ UNCHANGED trainerRows

\* insertDecisionIdempotent: a second one is answered with the first.
InsertDecision(h) ==
  /\ calls[h].op = "decide"
  /\ decided' = decided \cup {calls[h].scenario}
  /\ \/ UNCHANGED ending
     \/ /\ calls[h].scenario \notin decided
        /\ sessions[scenarios[calls[h].scenario].session].format = "POSTFLOP"
        /\ ending' = ending \cup {calls[h].scenario}
  /\ Finish(h)
  /\ UNCHANGED <<sessions, scenarios>>

\* next generates a scenario of its own, postflopNext plays the decision on: both
\* for the decision of the current scenario of the session found.
PreflopNext(h, s) ==
  LET x == sessions[s].current
  IN  /\ s \in Found("PREFLOP") /\ x \in decided
      /\ \E supported \in BOOLEAN :
           Begin(h, [op |-> "continue", session |-> s, scenario |-> x,
                     supported |-> supported, sequence |-> Count(s) + 1])
      /\ UNCHANGED trainerRows

PostflopNext(h, s) ==
  LET x == sessions[s].current
  IN  /\ s \in Found("POSTFLOP") /\ x \in decided
      /\ IF x \in ending
           THEN Begin(h, [op |-> "complete", session |-> s])
           ELSE Begin(h, [op |-> "continue", session |-> s, scenario |-> x,
                          supported |-> FALSE, sequence |-> scenarios[x].sequence + 1])
      /\ UNCHANGED trainerRows

\* Mutant of NextSequence: numbered when it is written, like a replacement.
NextSequence_Now(c) == Count(c.session) + 1

NextSequence(c) == c.sequence

\* continueSession: whatever the session has become.
ContinueSession(h) ==
  LET c == calls[h]
  IN  /\ c.op = "continue"
      /\ IF SequenceIsFree(c.session, NextSequence(c))
           THEN Enter(c.session, NextSequence(c), c.supported, c.scenario)
           ELSE UNCHANGED <<sessions, scenarios>>
      /\ Finish(h)
      /\ UNCHANGED <<decided, ending>>

\* completePostflopSession, if it is still active.
CompleteSession(h) ==
  LET s == calls[h].session
  IN  /\ calls[h].op = "complete"
      /\ sessions' = IF ~Active(s) THEN sessions ELSE
           [sessions EXCEPT ![s].status = "COMPLETED", ![s].current = NoScenario]
      /\ Finish(h)
      /\ UNCHANGED <<scenarios, decided, ending>>

TrainerNext ==
  \E h \in Handlers :
    \/ \E format \in {"PREFLOP", "POSTFLOP"} :
         StartNew(h, format) \/ \E s \in DOMAIN sessions : Decide(h, format, s)
    \/ \E s \in DOMAIN sessions : Resume(h, s) \/ PreflopNext(h, s) \/ PostflopNext(h, s)
    \/ CreateSession(h) \/ ReplaceScenario(h) \/ InsertDecision(h)
    \/ ContinueSession(h) \/ CompleteSession(h)

\* toResponse: the decision of the scenario with the highest number.
LatestDecision(s) ==
  {x \in ScenariosOf(s) \cap decided :
     \A y \in ScenariosOf(s) \cap decided : scenarios[y].sequence <= scenarios[x].sequence}

-----------------------------------------------------------------------------
(* Properties *)

\* A decision moves its session on once, however often the next scenario is
\* asked for and through whichever endpoint, and never away from a scenario that
\* was replaced (next, postflopNext, continueSession); and the decision shown as
\* the latest is the one that can be gone on from (toResponse).
OneStepPerDecision ==
  /\ \A x, y \in DOMAIN scenarios :
       scenarios[x].from = scenarios[y].from /\ scenarios[x].from > 0 => x = y
  /\ \A s \in DOMAIN sessions :
       sessions[s].current \in decided => LatestDecision(s) = {sessions[s].current}
=============================================================================
