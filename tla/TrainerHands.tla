----------------------------- MODULE TrainerHands -----------------------------
(***************************************************************************)
(* The hand inside the trainer's current scenario: how it is generated,    *)
(* what decisions of the user are accepted on it, and how a decision plays *)
(* it on to the next street (trainer.generator.ts,                         *)
(* trainer.postflop-generator.ts and their callers in trainer.service.ts). *)
(* Which request gets there first is the business of module Trainer; here  *)
(* each handler is one step.  The other seats fold to the button before    *)
(* the flop, and call or check after it.                                   *)
(***************************************************************************)
EXTENDS PokerEngine

CONSTANT Amounts   \* the chips a bet or raise of the user comes to: 2 for one BB

ASSUME AmountsAreChips == Amounts \subseteq Nat

VARIABLES
  exercise,   \* training_scenarios: the engineSnapshot of the current scenario,
              \*   its legalActions, and the decision that was accepted for it
  hero        \* history: the seats that were asked for a decision after the flop

exerciseRows == <<exercise, hero>>

NoDecision == [type |-> "none"]
NoExercise == [decision |-> NoDecision]

ExerciseInit == exercise = NoExercise /\ hero = {}

\* legalActionsView: the limits of computeLegalActions, in BB there, in chips here.
LegalView(h) ==
  [actions |-> LegalActions(h), minBetOrRaiseBB |-> MinBetOrRaise(h),
   maxBetOrRaiseBB |-> MaxTotal(h)]

Exercise(h) == [hand |-> h, legal |-> LegalView(h), decision |-> NoDecision]

HundredBB == StartHand([s \in Seats |-> 100 * BigBlind], 1)

\* The loops of the code have no bound of their own.  Here they have N rounds, in
\* which nothing happens once the loop is over: a seat answers at most once.
FoldOnce(h) == IF h.toAct = 1 THEN h ELSE SubmitAction(h, "fold", 0)

FoldToButton(h) ==
  LET folded[i \in 0 .. N] == IF i = 0 THEN h ELSE FoldOnce(folded[i - 1])
  IN  folded[N]

GenerateScenario ==
  /\ exercise = NoExercise
  /\ exercise' = Exercise(FoldToButton(HundredBB))
  /\ UNCHANGED hero

\* replayToFlop and settleStreetAfterHeroAction: every seat, whoever it is, calls
\* or checks for as long as the street lasts.
CallOnce(h, street) ==
  IF h.round # street \/ h.toAct = NoSeat THEN h
  ELSE SubmitAction(h, IF Owed(h) > 0 THEN "call" ELSE "check", 0)

CallDown(h, street) ==
  LET called[i \in 0 .. N] == IF i = 0 THEN h ELSE CallOnce(called[i - 1], street)
  IN  called[N]

GeneratePostflopScenario ==
  LET flop == CallDown(HundredBB, "preflop")
  IN  /\ exercise = NoExercise
      /\ exercise' = Exercise(flop)
      /\ hero' = {flop.toAct}

\* What the check reads of the stored limits: a field that is not there is no limit.
Minimum(legal) == IF "minBetOrRaise" \in DOMAIN legal THEN legal.minBetOrRaise ELSE 0
WithinMaximum(legal, amount) ==
  "maxBetOrRaise" \in DOMAIN legal => amount <= legal.maxBetOrRaise

StreetForBoard(cards) ==
  CASE cards = 0 -> "preflop" [] cards = 3 -> "flop" [] cards = 4 -> "turn" [] OTHER -> "river"

\* evaluationContextFromScenario, evaluateTrainerScenario: the equity is calculated
\* against one opponent, and never against several.
Context(h) == [street |-> StreetForBoard(h.board), opponents |-> NonFolded(h) \ {h.toAct}]
HasEquity(context) == Cardinality(context.opponents) = 1

\* decide and postflopDecide; an amount comes with a bet or a raise, and only then.
DecideHand(type, amount) ==
  /\ exercise # NoExercise /\ exercise.decision = NoDecision
  /\ type \in exercise.legal.actions
  /\ IF type \in {"bet", "raise"}
       THEN amount >= Minimum(exercise.legal) /\ WithinMaximum(exercise.legal, amount)
       ELSE amount = 0
  /\ LET context == Context(exercise.hand)
     IN  exercise' = [exercise EXCEPT !.decision =
           [type |-> type, amount |-> amount, street |-> context.street,
            equity |-> HasEquity(context)]]
  /\ UNCHANGED hero

\* Mutant of Settled: the hand goes on right after the hero's action.
Settled_AtOnce(h, street) == h

Settled(h, street) == CallDown(h, street)

\* continuePostflopScenario; when submitAction throws, so does the request, and
\* the scenario stays as it is.
PlayOn ==
  LET h    == exercise.hand
      d    == exercise.decision
      next == Settled(SubmitAction(h, d.type, d.amount), h.round)
  IN  /\ exercise # NoExercise /\ h.round # "preflop" /\ d # NoDecision
      /\ h.round = "river" \/ IsLegal(h, h.toAct, d.type, d.amount)
      /\ IF h.round = "river" \/ d.type = "fold" \/ next.round \notin BettingNow
           THEN exercise' = NoExercise /\ hero' = {}
           ELSE exercise' = Exercise(next) /\ hero' = hero \cup {next.toAct}

\* next: another scenario before the flop.
AnotherScenario ==
  /\ exercise # NoExercise /\ exercise.hand.round = "preflop"
  /\ exercise.decision # NoDecision
  /\ exercise' = Exercise(FoldToButton(HundredBB))
  /\ UNCHANGED hero

ExerciseNext ==
  \/ GenerateScenario \/ GeneratePostflopScenario
  \/ \E type \in ActionTypes, amount \in Amounts : DecideHand(type, amount)
  \/ PlayOn \/ AnotherScenario

-----------------------------------------------------------------------------
(* Properties *)

\* From the flop to the river it is always the same seat that decides, with the
\* street's board, nothing to call, and every seat left and in for the same:
\* settleStreetAfterHeroAction stops neither before the street is over, in the
\* middle of the others, nor after it, when it would decide for the user.
OneHeroPerHand ==
  /\ Cardinality(hero) <= 1
  /\ exercise # NoExercise /\ hero # {} =>
       /\ exercise.hand.toAct \in hero
       /\ Context(exercise.hand).street = exercise.hand.round
       /\ Context(exercise.hand).opponents = Seats \ hero
       /\ \A s, t \in Seats : exercise.hand.total[s] = exercise.hand.total[t]

-----------------------------------------------------------------------------
(* What the repository says of the trainer and the code does not do *)

\* specs/008-poker-trainer-postflop/spec.md:92 FR-004: 'El sistema MUST validar
\* cada accion contra la calle, el estado de la mano, el turno, el historial y los
\* limites legales almacenados en el escenario.'
DecisionsAreLegal ==
  exercise # NoExercise /\ hero # {} /\ exercise.decision # NoDecision =>
    IsLegal(exercise.hand, exercise.hand.toAct, exercise.decision.type,
            exercise.decision.amount)
=============================================================================
