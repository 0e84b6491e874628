------------------------------ MODULE Training ------------------------------
(***************************************************************************)
(* model.learn() as train.py sets it up: a vectorised environment whose    *)
(* workers restart their episodes by themselves, the CurriculumCallback    *)
(* that widens the sampled goal distance from what those episodes end      *)
(* with, and the EvalCallback that replays a fixed list of episodes        *)
(* through FixedEpisodeCycle.                                              *)
(*                                                                         *)
(* The learning loop and the automatic reset belong to stable-baselines3;  *)
(* they are modelled from how train.py, callbacks.py and vec_env.py use    *)
(* them.  What an episode ends with is left to chance.  The process around *)
(* the loop, and what it writes, is TrainingRun.                           *)
(***************************************************************************)
EXTENDS Naturals, Sequences, FiniteSets

CONSTANTS
    N,              \* training workers (n_envs)
    StartRadius, MaxRadius, Increment,  \* the goal radius, in steps of a metre
    Window,         \* episodes in the rolling window
    Threshold,      \* successes in a full window that earn an expansion
    Episodes,       \* length of the evaluation list (n_eval_episodes)
    EvalFreq,       \* vectorised steps between evaluations
    MaxCalls,       \* vectorised steps until total_timesteps (bound)
    Uncapped,       \* a curriculum radius of None
    Running         \* the info of a worker whose episode goes on

Workers == 1 .. N
Radii == StartRadius .. MaxRadius

ASSUME SizesAreSane ==
    /\ {N, Window, Episodes, EvalFreq, MaxCalls, Increment} \subseteq Nat \ {0}
    /\ {StartRadius, MaxRadius} \subseteq Nat /\ StartRadius <= MaxRadius
    /\ Threshold \in 1 .. Window
    /\ Uncapped \notin Radii

VARIABLES
    pc,         \* where learn() is
    cap,        \* _curriculum_radius of each worker's environment
    drawn,      \* the cap under which each worker's episode was sampled
    infos,      \* what the last vectorised step ended, per worker
    radius,     \* CurriculumCallback.radius
    outcomes,   \* CurriculumCallback._outcomes, with the cap of each episode
    calls,      \* n_calls of the callbacks
    next,       \* FixedEpisodeCycle._next
    playing,    \* the evaluation episode in progress
    played,     \* history: the episodes this evaluation has finished
    earned      \* history: the newest outcomes since the radius changed

evaluation == <<next, playing, played>>
learner == <<cap, drawn, infos, radius, outcomes, calls, evaluation, earned>>

LearnPcs == {"setup", "start", "rollout", "callbacks", "eval", "scored", "stepped"}

Outcome == [success : BOOLEAN, drawn : Radii \union {Uncapped}]

LearnerOK ==
    /\ cap \in [Workers -> Radii \union {Uncapped}]
    /\ drawn \in [Workers -> Radii \union {Uncapped}]
    /\ infos \in [Workers -> Outcome \union {Running}]
    /\ radius \in Radii
    /\ outcomes \in Seq(Outcome) /\ Len(outcomes) <= Window
    /\ calls \in 0 .. MaxCalls
    /\ next \in Nat
    /\ playing \in 0 .. Episodes - 1
    /\ played \in Seq(0 .. Episodes - 1) /\ Len(played) <= Episodes
    /\ earned \in Seq(Outcome) /\ Len(earned) <= Window

-----------------------------------------------------------------------------
Newest(s, n) == IF Len(s) <= n THEN s ELSE SubSeq(s, Len(s) - n + 1, Len(s))

Successes(s) == Cardinality({i \in DOMAIN s : s[i].success})

Unset == [w \in Workers |-> Uncapped]
Idle == [w \in Workers |-> Running]

LearnerInit ==
    /\ cap = Unset /\ drawn = Unset /\ infos = Idle
    /\ radius = StartRadius /\ outcomes = <<>> /\ earned = <<>>
    /\ calls = 0
    /\ next = 0 /\ playing = 0 /\ played = <<>>

\* What a process knew is gone with it.
Forget ==
    /\ cap' = Unset /\ drawn' = Unset /\ infos' = Idle
    /\ radius' = StartRadius /\ outcomes' = <<>> /\ earned' = <<>>
    /\ calls' = 0
    /\ next' = 0 /\ playing' = 0 /\ played' = <<>>

\* learn() resets the environments before any callback has run.
Setup ==
    /\ pc = "setup"
    /\ drawn' = cap
    /\ pc' = "start"
    /\ UNCHANGED <<cap, infos, radius, outcomes, calls, evaluation, earned>>

\* Mutant: the radius reaches one worker.
ApplyToOne(r) ==
    /\ radius' = r
    /\ cap' = [cap EXCEPT ![1] = r]

\* env_method: state on the environment, for every reset from the next on.
SetCurriculumRadius(r) == cap' = [w \in Workers |-> r]

\* CurriculumCallback._apply: the radius goes to every worker.
Apply(r) ==
    /\ radius' = r
    /\ SetCurriculumRadius(r)

TrainingStart ==
    /\ pc = "start"
    /\ Apply(StartRadius)
    /\ pc' = "rollout"
    /\ UNCHANGED <<drawn, infos, outcomes, calls, evaluation, earned>>

\* Some episodes end, some of those well; their workers reset at once, under
\* the cap they hold, before the callbacks see how the episodes ended.
VecStep ==
    /\ pc = "rollout" /\ calls < MaxCalls
    /\ \E ends \in SUBSET Workers, wins \in SUBSET Workers :
          /\ wins \subseteq ends
          /\ infos' = [w \in Workers |->
                          IF w \in ends THEN [success |-> w \in wins, drawn |-> drawn[w]]
                                        ELSE Running]
          /\ drawn' = [w \in Workers |-> IF w \in ends THEN cap[w] ELSE drawn[w]]
    /\ pc' = "callbacks"
    /\ UNCHANGED <<cap, radius, outcomes, calls, evaluation, earned>>

\* The infos that carry Monitor's "episode" key, taken worker by worker.
EndedUpTo[w \in 0 .. N] ==
    IF w = 0 THEN <<>>
    ELSE IF infos[w] = Running THEN EndedUpTo[w - 1]
    ELSE Append(EndedUpTo[w - 1], infos[w])

Ended == EndedUpTo[N]

\* The rolling window after the infos of this step.
Rolled == Newest(outcomes \o Ended, Window)

\* Mutant: a window that is not full.
ExpandsEarly ==
    /\ Successes(Rolled) >= Threshold
    /\ radius < MaxRadius

Expands ==
    /\ Len(Rolled) = Window
    /\ Successes(Rolled) >= Threshold
    /\ radius < MaxRadius

\* Mutants: the window is not cleared; the maximum is not one.
ExpandKeepingWindow ==
    /\ Expands
    /\ Apply(IF radius + Increment < MaxRadius THEN radius + Increment ELSE MaxRadius)
    /\ outcomes' = Rolled /\ earned' = <<>>

ExpandPastMax ==
    /\ Expands
    /\ Apply(radius + Increment)
    /\ outcomes' = <<>> /\ earned' = <<>>

Expand ==
    /\ Expands
    /\ Apply(IF radius + Increment < MaxRadius THEN radius + Increment ELSE MaxRadius)
    /\ outcomes' = <<>> /\ earned' = <<>>

Stay ==
    /\ ~Expands
    /\ outcomes' = Rolled /\ earned' = Newest(earned \o Ended, Window)
    /\ UNCHANGED <<radius, cap>>

\* Mutant: the cycle ends.
FixedResetNoWrap ==
    /\ playing' = IF next < Episodes THEN next ELSE Episodes - 1
    /\ next' = next + 1

\* FixedEpisodeCycle.reset: the caller does not choose the episode.
FixedReset ==
    /\ playing' = next % Episodes
    /\ next' = next + 1

\* on_step() of the callback list: the curriculum, then EvalCallback; what the
\* latter and CheckpointCallback save is up to TrainingRun.
OnStep ==
    /\ pc = "callbacks"
    /\ Expand \/ Stay
    /\ calls' = calls + 1
    /\ IF calls' % EvalFreq = 0
          THEN /\ pc' = "eval" /\ played' = <<>> /\ FixedReset
          ELSE /\ pc' = "stepped" /\ UNCHANGED evaluation
    /\ UNCHANGED <<drawn, infos>>

\* evaluate_policy: an episode ends, the environment resets itself, and after
\* n_eval_episodes of them the evaluation is over.
EvalEpisodeEnds ==
    /\ pc = "eval"
    /\ played' = Append(played, playing)
    /\ FixedReset
    /\ pc' = IF Len(played') = Episodes THEN "scored" ELSE "eval"
    /\ UNCHANGED <<cap, drawn, infos, radius, outcomes, calls, earned>>

Finish ==
    /\ pc = "rollout" /\ calls = MaxCalls
    /\ pc' = "finally"
    /\ UNCHANGED learner

-----------------------------------------------------------------------------
(***************************************************************************)
(* An expansion does not reach the episodes already running: each worker   *)
(* finishes the one it is in (and, if it has just restarted, the one it    *)
(* has just drawn).  So a window may hold outcomes of an older task, but   *)
(* never more of them than there are workers; a window longer than that    *)
(* always holds evidence for the radius it is about to widen               *)
(* (callbacks.py:31-36, 79-84).                                            *)
(***************************************************************************)
OldOutcomesAtMostWorkers ==
    Cardinality({i \in DOMAIN outcomes : outcomes[i].drawn # radius}) <= N

(***************************************************************************)
(* The radius moves only at the start of training and when the last Window *)
(* of the episodes ended since it last moved hold Threshold successes; and *)
(* it moves up, to at most the maximum (callbacks.py:57-84).  It is lost   *)
(* with the process.                                                       *)
(***************************************************************************)
Earned ==
    LET since == Newest(earned \o Ended, Window)
    IN  /\ radius < radius' /\ radius' <= MaxRadius
        /\ Len(since) = Window /\ Successes(since) >= Threshold

ExpansionIsEarned == [][radius' # radius => pc' = "off" \/ Earned]_<<pc, learner>>

(***************************************************************************)
(* "Every worker, not just the one that finished an episode" (callbacks.py *)
(* :62-64): whichever worker's episode earned an expansion, the new        *)
(* episode any worker draws is drawn under the radius the callback shows.  *)
(* Only learn()'s own first reset precedes it.                             *)
(***************************************************************************)
EpisodesFollowTheRadius ==
    pc = "callbacks" =>
        \A w \in Workers : infos[w] # Running => drawn[w] = radius

(***************************************************************************)
(* An evaluation of as many episodes as the list holds plays every one of  *)
(* them once, wherever in the cycle it begins (vec_env.py:57-59).          *)
(***************************************************************************)
CoversTheSetOnce ==
    (pc = "scored") => {played[i] : i \in DOMAIN played} = 0 .. Episodes - 1
=============================================================================
