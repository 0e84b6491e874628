----------------------------- MODULE TrainingRun -----------------------------
(***************************************************************************)
(* One run directory and the processes that work in it: train.py's main()  *)
(* around the learning loop of Training, started afresh or with --resume,  *)
(* interrupted, or killed between any two steps.  What it writes is        *)
(*                                                                         *)
(*   best/best_model.zip           by EvalCallback, after an evaluation    *)
(*   checkpoints/<algo>_<n>_steps.zip  by CheckpointCallback               *)
(*   final.zip, vecnormalize.pkl   by the finally block                    *)
(*                                                                         *)
(* A file is opened (and thereby truncated) in one step and complete in a  *)
(* later one.  A saved model is its number of steps, counted in vectorised *)
(* steps like everything here.                                             *)
(***************************************************************************)
EXTENDS Training

CONSTANTS
    SaveFreq,       \* vectorised steps between checkpoints
    MaxStarts,      \* bound: trainings started in this directory
    Absent, Torn    \* a file that is not there; one whose writing was cut off

ASSUME RunAssumption ==
    /\ {SaveFreq, MaxStarts} \subseteq Nat \ {0}
    /\ Absent \notin Nat /\ Torn \notin Nat /\ Absent # Torn

VARIABLES
    steps,      \* num_timesteps of the model
    improved,   \* best_mean_reward has left minus infinity
    best,       \* best/best_model.zip
    final,      \* final.zip
    pkl,        \* vecnormalize.pkl
    whole,      \* checkpoints that are complete
    torn,       \* checkpoints that are not
    lineage,    \* history: checkpoints of this training and those it continues
    starts      \* trainings started

memory == <<learner, steps, improved>>
checkpoints == <<whole, torn, lineage>>
disk == <<best, final, pkl, checkpoints>>
vars == <<pc, memory, disk, starts>>

Model == Nat \union {Absent, Torn}
SavePcs == {"best", "checkpoint"}
FinalPcs == {"finally", "final", "saved", "statistics"}

RunOK ==
    /\ pc \in LearnPcs \union SavePcs \union FinalPcs \union {"off"}
    /\ LearnerOK
    /\ steps \in Nat /\ improved \in BOOLEAN
    /\ best \in Model /\ final \in Model /\ pkl \in {Absent, Torn, "whole"}
    /\ whole \subseteq Nat /\ torn \subseteq Nat /\ lineage \subseteq Nat
    /\ starts \in 0 .. MaxStarts

Init ==
    /\ pc = "off" /\ LearnerInit
    /\ steps = 0 /\ improved = FALSE
    /\ best = Absent /\ final = Absent /\ pkl = Absent
    /\ whole = {} /\ torn = {} /\ lineage = {}
    /\ starts = 0

-----------------------------------------------------------------------------
(* The process. *)

Start ==
    /\ pc = "off" /\ starts < MaxStarts
    /\ pc' = "setup" /\ starts' = starts + 1
    /\ UNCHANGED <<learner, improved, best, final, pkl, whole, torn>>

\* A directory that exists is used as it is.
Fresh ==
    /\ Start
    /\ steps' = 0
    /\ lineage' = {}

\* Mutant: the counter restarts with the process.
ResumeRestarting ==
    /\ Start
    /\ \E n \in (whole \union {best, final}) \ {Absent, Torn} :
          /\ steps' = 0
          /\ lineage' = {s \in whole : s <= n}

\* --resume: the counter goes on (reset_num_timesteps is False); the curriculum,
\* the best score and the reward statistics start again.
Resume ==
    /\ Start
    /\ \E n \in (whole \union {best, final}) \ {Absent, Torn} :
          /\ steps' = n
          /\ lineage' = {s \in whole : s <= n}

\* SIGKILL, a power cut, or a second exception inside the finally block.
Dies ==
    /\ pc # "off" /\ pc' = "off"
    /\ Forget /\ steps' = 0 /\ improved' = FALSE
    /\ UNCHANGED <<disk, starts>>

\* An exception anywhere in learn(), Ctrl-C included.
Raises ==
    /\ pc \in LearnPcs \union SavePcs
    /\ pc' = "finally"
    /\ UNCHANGED <<memory, disk, starts>>

-----------------------------------------------------------------------------
(* learn(), and what its callbacks save. *)

\* The model counts a step when it is taken, before the callbacks see it.
Steps ==
    /\ VecStep
    /\ steps' = steps + 1
    /\ UNCHANGED <<improved, disk, starts>>

Learns ==
    /\ Setup \/ TrainingStart \/ OnStep \/ EvalEpisodeEnds \/ Finish
    /\ UNCHANGED <<steps, improved, disk, starts>>

\* EvalCallback: the first evaluation of a process always is its best so far.
NotBetter ==
    /\ pc = "scored" /\ improved
    /\ pc' = "stepped"
    /\ UNCHANGED <<memory, disk, starts>>

Better ==
    /\ pc = "scored"
    /\ pc' = "best" /\ best' = Torn /\ improved' = TRUE
    /\ UNCHANGED <<learner, steps, final, pkl, checkpoints, starts>>

BestSaved ==
    /\ pc = "best"
    /\ pc' = "stepped" /\ best' = steps
    /\ UNCHANGED <<memory, final, pkl, checkpoints, starts>>

\* CheckpointCallback.
NoCheckpoint ==
    /\ pc = "stepped" /\ calls % SaveFreq # 0
    /\ pc' = "rollout"
    /\ UNCHANGED <<memory, disk, starts>>

Checkpoint ==
    /\ pc = "stepped" /\ calls % SaveFreq = 0
    /\ pc' = "checkpoint"
    /\ whole' = whole \ {steps} /\ torn' = torn \union {steps}
    /\ UNCHANGED <<memory, best, final, pkl, lineage, starts>>

CheckpointSaved ==
    /\ pc = "checkpoint"
    /\ pc' = "rollout"
    /\ whole' = whole \union {steps} /\ torn' = torn \ {steps}
    /\ lineage' = lineage \union {steps}
    /\ UNCHANGED <<memory, best, final, pkl, starts>>

-----------------------------------------------------------------------------
(* The finally block: the model, then the statistics, then the environments. *)

SaveFinal ==
    /\ pc = "finally"
    /\ pc' = "final" /\ final' = Torn
    /\ UNCHANGED <<memory, best, pkl, checkpoints, starts>>

FinalSaved ==
    /\ pc = "final"
    /\ pc' = "saved" /\ final' = steps
    /\ UNCHANGED <<memory, best, pkl, checkpoints, starts>>

SaveStatistics ==
    /\ pc = "saved"
    /\ pc' = "statistics" /\ pkl' = Torn
    /\ UNCHANGED <<memory, best, final, checkpoints, starts>>

StatisticsSaved ==
    /\ pc = "statistics"
    /\ pc' = "off" /\ pkl' = "whole"
    /\ Forget /\ steps' = 0 /\ improved' = FALSE
    /\ UNCHANGED <<best, final, checkpoints, starts>>

TrainNext ==
    \/ Fresh \/ Resume \/ Dies \/ Raises
    \/ Steps \/ Learns
    \/ NotBetter \/ Better \/ BestSaved
    \/ NoCheckpoint \/ Checkpoint \/ CheckpointSaved
    \/ SaveFinal \/ FinalSaved \/ SaveStatistics \/ StatisticsSaved

-----------------------------------------------------------------------------
(***************************************************************************)
(* "checkpoints/  periodic saves, so a killed run is not a total loss"     *)
(* (train.py:13): the checkpoints of the current lineage, those this       *)
(* training completed and those at or before the model it resumed, are     *)
(* complete; and at any moment the steps a kill would cost are those since *)
(* the last SaveFreq (the counter goes on after --resume, so a training    *)
(* uses no name of its lineage twice: train.py:168-171).  Checkpoints that *)
(* are not of the lineage may be written over, and torn: all of them after *)
(* a fresh start in the directory, those later than the resumed model.     *)
(***************************************************************************)
KillIsNotTotalLoss ==
    /\ lineage \subseteq whole
    /\ calls > SaveFreq => \E s \in lineage : steps <= s + SaveFreq
=============================================================================
