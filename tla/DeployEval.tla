------------------------------ MODULE DeployEval ------------------------------
(***************************************************************************)
(* The deployment measurement (deploy_eval.py): a main thread that hands   *)
(* the running node one fixed episode after another and only watches, on a *)
(* wall-clock budget, while the control loop runs on a spin thread.  The   *)
(* loop is EpisodeContract, which DeployLoop implements; the records are   *)
(* what evaluate.summarize_rollouts turns into the rates compared with     *)
(* those of the training environment.                                      *)
(***************************************************************************)
EXTENDS EpisodeContract, Sequences, FiniteSets

CONSTANTS
  Episodes,  \* how many the evaluation set has
  Deadline   \* episode_deadline(), in units of wall clock

ASSUME EvalAssumption ==
  /\ MaxSteps \in Nat \ {0}
  /\ Episodes \in Nat
  /\ Deadline \in Nat

VARIABLES
  hpc,      \* where the main thread is
  elapsed,  \* wall clock since set_goal
  stalled,  \* was the deadline hit?
  rec,      \* the record being put together
  results,  \* the records of the episodes done
  ticking,  \* is the spin thread alive?
  verdicts  \* history: for every goal set, how and at what count it ended

harness == <<hpc, elapsed, stalled, rec, results>>
loop    == <<contractVars, ticking, verdicts>>
evalVars == <<harness, loop>>

Ended == {"success", "collision", "timeout"}

NoRecord == [outcome |-> "idle", stalled |-> FALSE, steps |-> 0]

NoVerdict == [outcome |-> "none", steps |-> 0]

EvalInit ==
  /\ ContractInit
  /\ hpc = "next" /\ elapsed = 0 /\ stalled = FALSE
  /\ rec = NoRecord /\ results = <<>>
  /\ ticking = TRUE /\ verdicts = <<>>

-----------------------------------------------------------------------------
(* The control loop, which nobody waits for.  A tick that raises ends the  *)
(* spin thread and is reported to no one.                                  *)

Tick == ticking /\ UNCHANGED <<harness, ticking>>

TickActs ==
  /\ Tick
  /\ Judge \/ JudgeStart
  /\ verdicts' = IF phase' \in Ended
                 THEN [verdicts EXCEPT ![Len(verdicts)] = [outcome |-> phase', steps |-> judged']]
                 ELSE verdicts

TickLooks ==
  /\ Tick
  /\ phase # "running" /\ Look
  /\ UNCHANGED verdicts

TickIsBlind ==
  /\ Tick
  /\ UNCHANGED <<contractVars, verdicts>>

SpinThreadDies ==
  /\ ticking /\ ticking' = FALSE
  /\ UNCHANGED <<harness, contractVars, verdicts>>

Clock ==
  /\ hpc = "watch" /\ elapsed <= Deadline
  /\ elapsed' = elapsed + 1
  /\ UNCHANGED <<hpc, stalled, rec, results, contractVars, ticking, verdicts>>

-----------------------------------------------------------------------------
(* The main thread: run_episode, once per episode.  Each read of the       *)
(* controller is a step; ticks fall between them.                          *)

StartEpisode ==
  /\ hpc = "next" /\ Len(results) < Episodes
  /\ Abandon
  /\ hpc' = "anchor"
  /\ UNCHANGED <<elapsed, stalled, rec, results, ticking, verdicts>>

(* set_entity_pose fails, or there is no sample after it: the whole        *)
(* evaluation ends and its records are lost.                               *)
AnchorFails ==
  /\ hpc = "anchor" /\ hpc' = "failed"
  /\ UNCHANGED <<elapsed, stalled, rec, results, loop>>

SetGoal ==
  /\ hpc = "anchor"
  /\ Begin
  /\ elapsed' = 0 /\ stalled' = FALSE
  /\ verdicts' = Append(verdicts, NoVerdict)
  /\ hpc' = "watch"
  /\ UNCHANGED <<rec, results, ticking>>

(* The loop asks about the outcome before it asks for the time. *)
SeeEnd ==
  /\ hpc = "watch" /\ phase \in Ended
  /\ hpc' = "outcome"
  /\ UNCHANGED <<elapsed, stalled, rec, results, loop>>

(* Mutant: no deadline, the wait is for the loop to end the episode or die. *)
GiveUpOnDeadLoop ==
  /\ hpc = "watch" /\ phase \notin Ended /\ elapsed > Deadline /\ ~ticking
  /\ stalled' = TRUE
  /\ hpc' = "outcome"
  /\ UNCHANGED <<elapsed, rec, results, loop>>

(* Mutant: the deadline ends the wait and is not noted.                     *)
GiveUpSilently ==
  /\ hpc = "watch" /\ phase \notin Ended /\ elapsed > Deadline
  /\ hpc' = "outcome"
  /\ UNCHANGED <<elapsed, stalled, rec, results, loop>>

GiveUp ==
  /\ hpc = "watch" /\ phase \notin Ended /\ elapsed > Deadline
  /\ stalled' = TRUE
  /\ hpc' = "outcome"
  /\ UNCHANGED <<elapsed, rec, results, loop>>

ReadOutcome ==
  /\ hpc = "outcome"
  /\ rec' = [outcome |-> phase, stalled |-> stalled, steps |-> 0]
  /\ hpc' = "steps"
  /\ UNCHANGED <<elapsed, stalled, results, loop>>

(* The count includes an action that has not been judged yet.              *)
Counts == IF phase = "running" THEN {judged} \cup ({judged + 1} \cap 0..MaxSteps) ELSE {judged}

(* Mutant: the count read once the controller is cleared.                  *)
ReadStepsCleared ==
  /\ hpc = "steps"
  /\ rec' = [rec EXCEPT !.steps = 0]
  /\ hpc' = "clear"
  /\ UNCHANGED <<elapsed, stalled, results, loop>>

ReadSteps ==
  /\ hpc = "steps"
  /\ \E n \in Counts : rec' = [rec EXCEPT !.steps = n]
  /\ hpc' = "clear"
  /\ UNCHANGED <<elapsed, stalled, results, loop>>

ClearGoal ==
  /\ hpc = "clear"
  /\ Abandon
  /\ results' = Append(results, rec) /\ rec' = NoRecord
  /\ hpc' = "next"
  /\ UNCHANGED <<elapsed, stalled, ticking, verdicts>>

Finish ==
  /\ hpc = "next" /\ Len(results) = Episodes
  /\ hpc' = "done"
  /\ UNCHANGED <<elapsed, stalled, rec, results, loop>>

Over == hpc \in {"done", "failed"} /\ UNCHANGED evalVars

-----------------------------------------------------------------------------
MainThread ==
  \/ StartEpisode \/ AnchorFails \/ SetGoal \/ SeeEnd \/ GiveUp
  \/ ReadOutcome \/ ReadSteps \/ ClearGoal \/ Finish

EvalNext ==
  \/ TickActs \/ TickLooks \/ TickIsBlind \/ SpinThreadDies \/ Clock
  \/ MainThread \/ Over

EvalSpec == EvalInit /\ [][EvalNext]_evalVars

(* The main thread runs and wall clock passes; the loop owes nothing.      *)
FairEvalSpec == EvalSpec /\ WF_evalVars(MainThread) /\ WF_evalVars(Clock)

-----------------------------------------------------------------------------
(* summarize_rollouts: how many records each rate counts.                  *)

Succeeded(r) == r.outcome = "success"
Collided(r) == r.outcome = "collision"
Neither(r) == ~Succeeded(r) /\ ~Collided(r)

TimeoutsReported == Cardinality({i \in DOMAIN results : Neither(results[i])})

-----------------------------------------------------------------------------
(* Properties. *)

(* However ticks fall between the reads, the record of an episode is the  *)
(* verdict the loop passed on that episode and no other, with the count at *)
(* which it was passed, for successes and collisions as for timeouts; an   *)
(* episode without a verdict was cut off by the deadline and says so       *)
(* (run_episode: "Read before clearing: clear_goal() resets the step       *)
(* counter").                                                              *)
Consistent(r, verdict) ==
  IF r.outcome \in Ended
    THEN r.outcome = verdict.outcome /\ r.steps = verdict.steps
    ELSE r.outcome = "running" /\ r.stalled

RecordsAreConsistent == \A i \in DOMAIN results : Consistent(results[i], verdicts[i])

(* The measurement ends whatever the control loop does: every episode is   *)
(* cut off by its deadline if nothing else ends it.                        *)
EvaluationEnds == <>(hpc \in {"done", "failed"})

(* A measurement that prints no warning about stalled episodes reports as  *)
(* timeouts exactly the episodes that ran out of steps (main: "treat the   *)
(* rates above as unreliable" when one hit the deadline).                  *)
RatesTrustedUnlessWarned ==
  hpc = "done" /\ (\A i \in DOMAIN results : ~results[i].stalled) =>
    TimeoutsReported = Cardinality({i \in DOMAIN results : results[i].outcome = "timeout"})
=============================================================================
