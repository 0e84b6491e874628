----------------------------- MODULE ExportProofs -----------------------------
(***************************************************************************)
(* Proofs about the run directory: the learning loop (Training), the       *)
(* processes that save what it learns (TrainingRun) and the export         *)
(* (Export), for any number of workers, any frequencies and any number of  *)
(* trainings in one directory.                                             *)
(***************************************************************************)
EXTENDS Export, Integers, FunctionTheorems, FiniteSetTheorems, WellFoundedInduction, TLAPS

(* Every step is one of the training process, of the export, or none.      *)
LEMMA Cases ==
  ASSUME [Next]_allVars
  PROVE  \/ TrainNext /\ UNCHANGED <<normalize, job, policy>>
         \/ ExportNext
         \/ UNCHANGED allVars
BY DEF Next, Over

LEMMA ExportLeavesTraining ==
  ASSUME ExportNext \/ UNCHANGED allVars
  PROVE  UNCHANGED vars
BY DEF ExportNext, Trace, Refuse, Write, Written, ExportDies, allVars

-----------------------------------------------------------------------------
(* The curriculum.  The window always holds the newest outcomes since the  *)
(* radius changed, and once training has started every worker's            *)
(* environment is set to the radius.                                       *)

InLoop == {"rollout", "callbacks", "eval", "scored", "stepped", "best", "checkpoint"}

CurriculumInv ==
  /\ radius \in Radii
  /\ outcomes = earned
  /\ pc \in {"off", "setup", "start"} => radius = StartRadius
  /\ pc \in InLoop => \A w \in Workers : cap[w] = radius
  /\ drawn \in [Workers -> Radii \union {Uncapped}]
  /\ cap \in [Workers -> Radii \union {Uncapped}]
  /\ EpisodesFollowTheRadius

LEMMA InitCurriculum == ExportInit => CurriculumInv
BY SizesAreSane
DEF ExportInit, Init, LearnerInit, CurriculumInv, Unset, Radii, InLoop, EpisodesFollowTheRadius

LEMMA OnStepKeepsCurriculum ==
  ASSUME CurriculumInv, OnStep
  PROVE  CurriculumInv' /\ (radius' # radius => Earned)
<1> USE DEF CurriculumInv
<1>1. /\ pc = "callbacks" /\ pc' \in {"eval", "stepped"} /\ drawn' = drawn
  BY DEF OnStep
<1>2. /\ {StartRadius, MaxRadius, Increment} \subseteq Nat /\ Increment > 0
      /\ radius \in Nat /\ radius >= StartRadius /\ radius <= MaxRadius
  BY SizesAreSane DEF Radii
<1>3. \A w \in Workers : cap[w] = radius
  BY <1>1 DEF InLoop
<1>4. CASE Expand
  <2>1. /\ outcomes' = <<>> /\ earned' = <<>>
        /\ radius' = IF radius + Increment < MaxRadius THEN radius + Increment ELSE MaxRadius
        /\ cap' = [w \in Workers |-> radius']
        /\ Expands
    BY <1>4 DEF Expand, Apply, SetCurriculumRadius
  <2>2. radius' \in Radii /\ radius < radius' /\ radius' <= MaxRadius
    BY <1>2, <2>1 DEF Radii, Expands
  <2>3. Earned
    BY <2>1, <2>2 DEF Earned, Expands, Rolled
  <2> QED
    BY <1>1, <2>1, <2>2, <2>3 DEF EpisodesFollowTheRadius
<1>5. CASE Stay
  <2>1. UNCHANGED <<radius, cap>> /\ outcomes' = earned'
    BY <1>5 DEF Stay, Rolled
  <2> QED
    BY <1>1, <1>3, <2>1 DEF EpisodesFollowTheRadius
<1> QED
  BY <1>4, <1>5 DEF OnStep

LEMMA TrainKeepsCurriculum ==
  ASSUME CurriculumInv, TrainNext
  PROVE  CurriculumInv' /\ (radius' # radius => pc' = "off" \/ Earned)
<1> USE DEF CurriculumInv
<1>1. CASE Fresh \/ Resume
  BY <1>1 DEF Fresh, Resume, Start, learner, InLoop, EpisodesFollowTheRadius
<1>2. CASE Dies \/ StatisticsSaved
  BY <1>2, SizesAreSane
  DEF Dies, StatisticsSaved, Forget, Unset, Radii, InLoop, EpisodesFollowTheRadius
<1>3. CASE Raises \/ SaveFinal \/ FinalSaved \/ SaveStatistics
  BY <1>3
  DEF Raises, SaveFinal, FinalSaved, SaveStatistics, memory, learner, InLoop,
      EpisodesFollowTheRadius
<1>4. CASE NotBetter \/ Better \/ BestSaved \/ NoCheckpoint \/ Checkpoint \/ CheckpointSaved
  BY <1>4
  DEF NotBetter, Better, BestSaved, NoCheckpoint, Checkpoint, CheckpointSaved, memory,
      learner, InLoop, EpisodesFollowTheRadius
<1>5. CASE Steps
  <2>1. PICK ends \in SUBSET Workers, wins \in SUBSET Workers :
          /\ infos' = [w \in Workers |->
                          IF w \in ends THEN [success |-> w \in wins, drawn |-> drawn[w]]
                                        ELSE Running]
          /\ drawn' = [w \in Workers |-> IF w \in ends THEN cap[w] ELSE drawn[w]]
    BY <1>5 DEF Steps, VecStep
  <2>2. /\ pc = "rollout" /\ pc' = "callbacks" /\ UNCHANGED <<cap, radius, outcomes, earned>>
    BY <1>5 DEF Steps, VecStep
  <2>3. \A w \in Workers : infos'[w] # Running => drawn'[w] = radius
    BY <2>1, <2>2 DEF InLoop
  <2>4. drawn' \in [Workers -> Radii \union {Uncapped}]
    BY <2>1
  <2> QED
    BY <2>2, <2>3, <2>4 DEF InLoop, EpisodesFollowTheRadius
<1>6. CASE Learns
  <2>1. CASE Setup
    BY <2>1 DEF Setup, InLoop, EpisodesFollowTheRadius
  <2>2. CASE TrainingStart
    <3>1. /\ pc = "start" /\ pc' = "rollout" /\ radius' = StartRadius
          /\ cap' = [w \in Workers |-> StartRadius] /\ UNCHANGED <<outcomes, earned, drawn>>
      BY <2>2 DEF TrainingStart, Apply, SetCurriculumRadius
    <3> QED
      BY <3>1 DEF EpisodesFollowTheRadius
  <2>3. CASE OnStep
    BY <2>3, OnStepKeepsCurriculum
  <2>4. CASE EvalEpisodeEnds
    BY <2>4 DEF EvalEpisodeEnds, InLoop, EpisodesFollowTheRadius
  <2>5. CASE Finish
    BY <2>5 DEF Finish, learner, InLoop, EpisodesFollowTheRadius
  <2> QED
    BY <1>6, <2>1, <2>2, <2>3, <2>4, <2>5 DEF Learns
<1> QED
  BY <1>1, <1>2, <1>3, <1>4, <1>5, <1>6 DEF TrainNext

LEMMA NextCurriculum ==
  ASSUME CurriculumInv, [Next]_allVars
  PROVE  CurriculumInv' /\ (radius' # radius => pc' = "off" \/ Earned)
<1>1. CASE UNCHANGED vars
  BY <1>1 DEF vars, memory, learner, CurriculumInv, EpisodesFollowTheRadius
<1> QED
  BY <1>1, Cases, ExportLeavesTraining, TrainKeepsCurriculum

(* Whichever worker earned an expansion, a worker whose episode has ended  *)
(* has drawn its next one under the radius the callback shows.  The ended  *)
(* one may have been drawn under an older radius (OldAtMostWorkers).       *)
THEOREM RadiusReachesAll == Spec => []EpisodesFollowTheRadius
<1>1. CurriculumInv => EpisodesFollowTheRadius
  BY DEF CurriculumInv
<1>2. CurriculumInv /\ [Next]_allVars => CurriculumInv'
  BY NextCurriculum
<1> QED BY <1>1, <1>2, InitCurriculum, PTL DEF Spec

(* The radius moves up only on a full window of outcomes it has not used   *)
(* before, and down only with the process.                                 *)
THEOREM ExpandsWhenEarned == Spec => ExpansionIsEarned
<1>1. CurriculumInv /\ [Next]_allVars =>
        /\ CurriculumInv'
        /\ [radius' # radius => pc' = "off" \/ Earned]_<<pc, learner>>
  BY NextCurriculum
<1> QED BY <1>1, InitCurriculum, PTL DEF Spec, ExpansionIsEarned

-----------------------------------------------------------------------------
(* The export.  What has been traced went through the guard; what is being *)
(* written has been verified too.                                          *)

ExportInv ==
  /\ job \in [at : {"none", "traced", "writing"}, kind : Kind]
  /\ normalize \in BOOLEAN
  /\ job.at # "none" /\ ~job.kind.baked => ~normalize
  /\ job.at = "writing" => job.kind.loose \/ ~job.kind.baked
  /\ ExportIsThePolicy

LEMMA NextExport ==
  ASSUME ExportInv, [Next]_allVars
  PROVE  ExportInv'
<1> USE DEF ExportInv, ExportIsThePolicy
<1>1. CASE UNCHANGED <<normalize, job, policy>>
  BY <1>1
<1>2. CASE Trace
  <2>0. PICK p :
          /\ Guarded(p)
          /\ \E loose \in BOOLEAN :
               job' = [at |-> "traced", kind |-> [baked |-> p = TRUE, loose |-> loose]]
    BY <1>2 DEF Trace, Baked
  <2>1. PICK loose \in BOOLEAN :
          job' = [at |-> "traced", kind |-> [baked |-> p = TRUE, loose |-> loose]]
    BY <2>0
  <2>2. UNCHANGED <<normalize, policy>>
    BY <1>2 DEF Trace
  <2>3. /\ job'.at = "traced" /\ job'.kind.baked = (p = TRUE)
        /\ job' \in [at : {"none", "traced", "writing"}, kind : Kind]
    BY <2>1 DEF Kind
  <2>4. ~(p = TRUE) => ~normalize
    BY <2>0 DEF Guarded
  <2>5. ~job'.kind.baked => ~normalize'
    BY <2>2, <2>3, <2>4
  <2> QED
    BY <2>2, <2>3, <2>5
<1>3. CASE Refuse \/ ExportDies
  <2>1. job' = NoJob /\ UNCHANGED <<normalize, policy>>
    BY <1>3 DEF Refuse, ExportDies
  <2>2. /\ job'.at = "none"
        /\ job' \in [at : {"none", "traced", "writing"}, kind : Kind]
    BY <2>1 DEF NoJob, Kind
  <2> QED
    BY <2>1, <2>2
<1>4. CASE Write
  BY <1>4 DEF Write, Verified
<1>5. CASE Written
  <2>1. /\ job.at = "writing" /\ policy' = job.kind /\ job' = NoJob
        /\ normalize' = normalize
    BY <1>5 DEF Written
  <2>2. ExportIsThePolicy'
    BY <2>1 DEF Kind
  <2>3. job' \in [at : {"none", "traced", "writing"}, kind : Kind] /\ job'.at = "none"
    BY <2>1 DEF NoJob, Kind
  <2> QED
    BY <2>1, <2>2, <2>3
<1> QED
  BY <1>1, <1>2, <1>3, <1>4, <1>5, Cases DEF ExportNext, allVars

(* For either setting, any model and any pickle: no policy.pt lacks the    *)
(* statistics its training used, and none has statistics its training did  *)
(* not use unless --tolerance was raised for it.                           *)
THEOREM ExportIsFaithful == Spec => []ExportIsThePolicy
<1>1. ExportInit => ExportInv
  BY ExportAssumption DEF ExportInit, ExportInv, ExportIsThePolicy, NoJob, Kind
<1>2. ExportInv /\ [Next]_allVars => ExportInv'
  BY NextExport
<1>3. ExportInv => ExportIsThePolicy
  BY DEF ExportInv
<1> QED BY <1>1, <1>2, <1>3, PTL DEF Spec

-----------------------------------------------------------------------------
(* What a kill costs.  Two facts about the remainder, then the distance    *)
(* between the model's count and the newest checkpoint, at every point of  *)
(* the loop: a checkpoint is due when the callbacks' count is a multiple   *)
(* of SaveFreq, wherever the model's count began.                          *)

LEMMA OnlyZeroMultiple ==
  ASSUME NEW F \in Nat \ {0}, NEW k \in Int, F * k < F, 0 - F < F * k
  PROVE  k = 0
<1>1. k >= 1 => F * k >= F
  OBVIOUS
<1>2. k <= 0 - 1 => F * k <= 0 - F
  OBVIOUS
<1> QED BY <1>1, <1>2

LEMMA NextRemainder ==
  ASSUME NEW c \in Nat, NEW F \in Nat \ {0}, (c + 1) % F # 0
  PROVE  (c + 1) % F = (c % F) + 1
<1> DEFINE q == c \div F  r == c % F  p == (c + 1) \div F  s == (c + 1) % F
<1>1. c = F * q + r /\ q \in Nat /\ r \in 0..(F - 1)
  OBVIOUS
<1>2. c + 1 = F * p + s /\ p \in Nat /\ s \in 0..(F - 1)
  OBVIOUS
<1>3. s # 0
  OBVIOUS
<1> HIDE DEF q, r, p, s
<1>4. F * (p - q) = r + 1 - s
  <2>1. F * (p - q) = F * p - F * q
    BY <1>1, <1>2
  <2>2. F * p \in Int /\ F * q \in Int
    BY <1>1, <1>2
  <2> QED BY <1>1, <1>2, <2>1, <2>2
<1>5. p - q = 0
  BY <1>1, <1>2, <1>3, <1>4, OnlyZeroMultiple
<1>6. F * (p - q) = 0
  BY <1>5
<1>7. s = r + 1
  BY <1>1, <1>2, <1>4, <1>6
<1> QED BY <1>7 DEF r, s

\* Steps since a checkpoint was last due.
Since(c) == c % SaveFreq

LEMMA SinceRange ==
  ASSUME NEW c \in Nat
  PROVE  Since(c) \in Nat /\ Since(c) < SaveFreq
<1>1. SaveFreq \in Nat \ {0}
  BY RunAssumption
<1>2. c % SaveFreq \in 0 .. SaveFreq - 1
  BY <1>1
<1> QED BY <1>1, <1>2 DEF Since

LEMMA SinceGrows ==
  ASSUME NEW c \in Nat, Since(c + 1) # 0
  PROVE  Since(c + 1) = Since(c) + 1
<1>1. SaveFreq \in Nat \ {0}
  BY RunAssumption
<1> QED BY <1>1, NextRemainder DEF Since

LEMMA DueAtSaveFreq == SaveFreq \in Nat /\ SaveFreq > 0 /\ Since(SaveFreq) = 0
<1>1. SaveFreq \in Nat \ {0}
  BY RunAssumption
<1>2. SaveFreq % SaveFreq = 0
  BY <1>1
<1> QED BY <1>1, <1>2 DEF Since

\* Points of the loop at which a step has been taken and not yet checkpointed.
Stepping == {"eval", "scored", "best", "stepped", "checkpoint"}

CountOK ==
  /\ steps \in Nat /\ calls \in Nat
  /\ whole \subseteq Nat /\ best \in Model /\ final \in Model

LineageOK ==
  /\ lineage \subseteq whole
  /\ pc # "off" => \A s \in lineage : s <= steps
  /\ pc \in Stepping \union {"callbacks"} => \A s \in lineage : s < steps

Distance ==
  /\ pc \in {"off", "setup", "start"} => calls = 0
  /\ pc = "rollout" /\ calls >= SaveFreq =>
        \E s \in lineage : steps = s + Since(calls)
  /\ pc = "callbacks" /\ calls >= SaveFreq =>
        \E s \in lineage : steps = s + Since(calls) + 1
  /\ pc \in Stepping /\ calls > SaveFreq =>
        \E s \in lineage : steps = s + Since(calls - 1) + 1

Due == pc = "checkpoint" => Since(calls) = 0

LossInv == CountOK /\ LineageOK /\ Due /\ Distance /\ KillIsNotTotalLoss

LEMMA InitLoss == ExportInit => LossInv
BY DueAtSaveFreq
DEF ExportInit, Init, LearnerInit, LossInv, CountOK, LineageOK, Due, Distance, KillIsNotTotalLoss,
    Model, Stepping

\* In the loop, the distance says what a kill would cost.
LEMMA DistanceIsLoss ==
  ASSUME CountOK', LineageOK', Distance',
         pc' \in Stepping \union {"off", "setup", "start", "rollout", "callbacks"}
  PROVE  KillIsNotTotalLoss'
<1> SUFFICES ASSUME calls' > SaveFreq PROVE \E s \in lineage' : steps' <= s + SaveFreq
  BY DEF KillIsNotTotalLoss, LineageOK
<1>1. /\ SaveFreq \in Nat /\ calls' \in Nat /\ calls' - 1 \in Nat /\ steps' \in Nat
      /\ lineage' \subseteq Nat
  <2>1. SaveFreq \in Nat /\ calls' \in Nat /\ steps' \in Nat /\ SaveFreq > 0
    BY DueAtSaveFreq DEF CountOK
  <2>2. calls' - 1 \in Nat
    <3>1. \A c \in Nat : c > SaveFreq => c - 1 \in Nat
      BY <2>1
    <3> QED BY <2>1, <3>1
  <2>3. lineage' \subseteq Nat
    BY DEF CountOK, LineageOK
  <2> QED BY <2>1, <2>2, <2>3
<1>2. /\ Since(calls') \in Nat /\ Since(calls') < SaveFreq
      /\ Since(calls' - 1) \in Nat /\ Since(calls' - 1) < SaveFreq
  BY <1>1, SinceRange
<1>3. CASE pc' = "rollout"
  <2>1. PICK s \in lineage' : steps' = s + Since(calls')
    BY <1>1, <1>3 DEF Distance
  <2> QED BY <1>1, <1>2, <2>1
<1>4. CASE pc' = "callbacks"
  <2>1. PICK s \in lineage' : steps' = s + Since(calls') + 1
    BY <1>1, <1>4 DEF Distance
  <2> QED BY <1>1, <1>2, <2>1
<1>5. CASE pc' \in Stepping
  <2>1. PICK s \in lineage' : steps' = s + Since(calls' - 1) + 1
    BY <1>5 DEF Distance
  <2> QED BY <1>1, <1>2, <2>1
<1>6. calls' # 0
  BY <1>1
<1> QED BY <1>3, <1>4, <1>5, <1>6 DEF Distance

LEMMA StartKeepsLoss ==
  ASSUME LossInv, Fresh \/ Resume
  PROVE  LossInv'
<1>1. pc = "off" /\ pc' = "setup" /\ calls' = 0 /\ UNCHANGED <<whole, best, final>>
  BY DEF Fresh, Resume, Start, learner, LossInv, Distance
<1>2. PICK n \in Nat : /\ steps' = n
                       /\ \A s \in lineage' : s \in whole /\ s <= n
  <2>1. CASE Fresh
    BY <2>1 DEF Fresh
  <2>2. CASE Resume
    <3>1. (whole \union {best, final}) \ {Absent, Torn} \subseteq Nat
      BY DEF LossInv, CountOK, Model
    <3>2. PICK n \in (whole \union {best, final}) \ {Absent, Torn} :
            steps' = n /\ lineage' = {s \in whole : s <= n}
      BY <2>2 DEF Resume
    <3> QED BY <3>1, <3>2
  <2> QED BY <2>1, <2>2
<1>3. CountOK' /\ LineageOK'
  BY <1>1, <1>2 DEF LossInv, CountOK, LineageOK, Stepping
<1> QED
  BY <1>1, <1>3, DueAtSaveFreq DEF LossInv, LineageOK, Due, Distance, Stepping, KillIsNotTotalLoss

LEMMA StepKeepsLoss ==
  ASSUME LossInv, Steps
  PROVE  LossInv'
<1>1. /\ pc = "rollout" /\ pc' = "callbacks" /\ steps' = steps + 1
      /\ UNCHANGED <<calls, whole, lineage, best, final>>
  BY DEF Steps, VecStep, disk, checkpoints
<1>2. /\ steps \in Nat /\ calls \in Nat /\ lineage \subseteq Nat /\ SaveFreq \in Nat
      /\ Since(calls) \in Nat
  BY SinceRange, DueAtSaveFreq DEF LossInv, CountOK, LineageOK
<1>3. CountOK' /\ LineageOK'
  BY <1>1, <1>2 DEF LossInv, CountOK, LineageOK, Stepping
<1>4. Distance'
  <2>1. calls >= SaveFreq => \E s \in lineage : steps = s + Since(calls)
    BY <1>1 DEF LossInv, Distance
  <2>2. calls >= SaveFreq => \E s \in lineage : steps + 1 = s + Since(calls) + 1
    BY <1>2, <2>1
  <2> QED BY <1>1, <2>2 DEF Distance, Stepping
<1> QED
  <2>1. KillIsNotTotalLoss'
    BY <1>1, <1>3, <1>4, DistanceIsLoss
  <2> QED BY <1>1, <1>3, <1>4, <2>1 DEF LossInv, Due

LEMMA LearnKeepsLoss ==
  ASSUME LossInv, Learns
  PROVE  LossInv'
<1>1. UNCHANGED <<steps, best, final, whole, lineage>>
  BY DEF Learns, disk, checkpoints
<1>2. /\ steps \in Nat /\ calls \in Nat /\ SaveFreq \in Nat /\ SaveFreq > 0
  BY DueAtSaveFreq DEF LossInv, CountOK
<1>3. CASE OnStep
  <2>1. pc = "callbacks" /\ pc' \in {"eval", "stepped"} /\ calls' = calls + 1
    BY <1>3 DEF OnStep
  <2>2. CountOK' /\ LineageOK'
    BY <1>1, <1>2, <2>1 DEF LossInv, CountOK, LineageOK, Stepping
  <2>3. calls' - 1 = calls /\ (calls' > SaveFreq => calls >= SaveFreq)
    BY <1>2, <2>1
  <2>4. Distance'
    BY <1>1, <2>1, <2>3 DEF LossInv, Distance, Stepping
  <2> QED
    BY <2>1, <2>2, <2>4, DistanceIsLoss DEF LossInv, Due, Stepping
<1>4. CASE Setup \/ TrainingStart
  <2>1. pc \in {"setup", "start"} /\ pc' \in {"start", "rollout"} /\ calls' = calls /\ calls = 0
    BY <1>4 DEF Setup, TrainingStart, LossInv, Distance
  <2> QED
    BY <1>1, <1>2, <2>1
    DEF LossInv, CountOK, LineageOK, Due, Distance, Stepping, KillIsNotTotalLoss
<1>5. CASE EvalEpisodeEnds
  <2>1. pc = "eval" /\ pc' \in {"eval", "scored"} /\ calls' = calls
    BY <1>5 DEF EvalEpisodeEnds
  <2> QED
    BY <1>1, <2>1 DEF LossInv, CountOK, LineageOK, Due, Distance, Stepping, KillIsNotTotalLoss
<1>6. CASE Finish
  <2>1. pc = "rollout" /\ pc' = "finally" /\ calls' = calls
    BY <1>6 DEF Finish, learner
  <2> QED
    BY <1>1, <2>1 DEF LossInv, CountOK, LineageOK, Due, Distance, Stepping, KillIsNotTotalLoss
<1> QED BY <1>3, <1>4, <1>5, <1>6 DEF Learns

LEMMA CheckpointKeepsLoss ==
  ASSUME LossInv, NoCheckpoint \/ Checkpoint \/ CheckpointSaved
  PROVE  LossInv'
<1>1. UNCHANGED <<steps, calls, best, final>>
  BY DEF NoCheckpoint, Checkpoint, CheckpointSaved, memory, learner, disk
<1>2. /\ steps \in Nat /\ calls \in Nat /\ SaveFreq \in Nat /\ SaveFreq > 0
      /\ lineage \subseteq Nat
  BY DueAtSaveFreq DEF LossInv, CountOK, LineageOK
<1>3. CASE NoCheckpoint
  <2>1. /\ pc = "stepped" /\ pc' = "rollout" /\ Since(calls) # 0
        /\ UNCHANGED <<whole, lineage>>
    BY <1>3 DEF NoCheckpoint, Since, disk, checkpoints
  <2>2. CountOK' /\ LineageOK'
    BY <1>1, <1>2, <2>1 DEF LossInv, CountOK, LineageOK, Stepping
  <2>3. Distance'
    <3> SUFFICES ASSUME calls >= SaveFreq
                 PROVE  \E s \in lineage : steps = s + Since(calls)
      BY <1>1, <2>1 DEF Distance, Stepping
    <3>1. calls > SaveFreq /\ calls - 1 \in Nat
      BY <1>2, <2>1, DueAtSaveFreq
    <3>2. PICK s \in lineage : steps = s + Since(calls - 1) + 1
      BY <2>1, <3>1 DEF LossInv, Distance, Stepping
    <3>3. (calls - 1) + 1 = calls
      BY <1>2
    <3>4. Since(calls) = Since(calls - 1) + 1
      BY <2>1, <3>1, <3>3, SinceGrows
    <3>5. Since(calls - 1) \in Nat
      BY <3>1, SinceRange
    <3> QED
      BY <1>2, <3>2, <3>4, <3>5
  <2> QED
    BY <2>1, <2>2, <2>3, DistanceIsLoss DEF LossInv, Due
<1>4. CASE Checkpoint
  <2>1. /\ pc = "stepped" /\ pc' = "checkpoint" /\ whole' = whole \ {steps}
        /\ lineage' = lineage /\ Since(calls) = 0
    BY <1>4 DEF Checkpoint, Since
  <2>2. \A s \in lineage : s < steps
    BY <2>1 DEF LossInv, LineageOK, Stepping
  <2>3. steps \notin lineage
    BY <1>2, <2>2
  <2>4. CountOK' /\ LineageOK'
    BY <1>1, <2>1, <2>2, <2>3 DEF LossInv, CountOK, LineageOK
  <2>5. Distance'
    BY <1>1, <2>1 DEF LossInv, Distance, Stepping
  <2> QED
    BY <1>1, <2>1, <2>4, <2>5, DistanceIsLoss DEF LossInv, Due, Stepping
<1>5. CASE CheckpointSaved
  <2>1. /\ pc = "checkpoint" /\ pc' = "rollout" /\ whole' = whole \union {steps}
        /\ lineage' = lineage \union {steps}
    BY <1>5 DEF CheckpointSaved
  <2>2. CountOK' /\ LineageOK'
    BY <1>1, <1>2, <2>1 DEF LossInv, CountOK, LineageOK, Stepping
  <2>3. Since(calls) = 0
    BY <2>1 DEF LossInv, Due
  <2>4. Distance'
    BY <1>1, <1>2, <2>1, <2>3 DEF Distance, Stepping
  <2> QED
    BY <2>1, <2>2, <2>4, DistanceIsLoss DEF LossInv, Due
<1> QED BY <1>3, <1>4, <1>5

LEMMA TrainKeepsLoss ==
  ASSUME LossInv, TrainNext
  PROVE  LossInv'
<1>1. steps \in Nat /\ Model = Nat \union {Absent, Torn}
  BY DEF LossInv, CountOK, Model
<1>2. CASE Dies \/ StatisticsSaved
  <2>1. /\ pc' = "off" /\ steps' = 0 /\ calls' = 0
        /\ UNCHANGED <<whole, lineage, best, final>>
    BY <1>2 DEF Dies, StatisticsSaved, Forget, disk, checkpoints
  <2> QED
    BY <2>1, DueAtSaveFreq
    DEF LossInv, CountOK, LineageOK, Due, Distance, Stepping, KillIsNotTotalLoss
<1>3. CASE Raises \/ SaveFinal \/ FinalSaved \/ SaveStatistics
  <2>1. /\ pc # "off" /\ pc' \in FinalPcs /\ best' = best
        /\ UNCHANGED <<steps, calls, whole, lineage>>
    BY <1>3
    DEF Raises, SaveFinal, FinalSaved, SaveStatistics, memory, learner, disk, checkpoints,
        FinalPcs, LearnPcs, SavePcs
  <2>2. final' \in Model
    BY <1>1, <1>3
    DEF Raises, SaveFinal, FinalSaved, SaveStatistics, disk, LossInv, CountOK
  <2> QED
    BY <2>1, <2>2
    DEF LossInv, CountOK, LineageOK, Due, Distance, Stepping, KillIsNotTotalLoss, FinalPcs
<1>4. CASE NotBetter \/ Better \/ BestSaved
  BY <1>1, <1>4
  DEF NotBetter, Better, BestSaved, memory, learner, disk, checkpoints,
      LossInv, CountOK, LineageOK, Due, Distance, Stepping, KillIsNotTotalLoss
<1> QED
  BY <1>2, <1>3, <1>4, StartKeepsLoss, StepKeepsLoss, LearnKeepsLoss, CheckpointKeepsLoss
  DEF TrainNext

LEMMA NextLoss ==
  ASSUME LossInv, [Next]_allVars
  PROVE  LossInv'
<1>1. CASE UNCHANGED vars
  BY <1>1
  DEF vars, memory, learner, disk, checkpoints, LossInv, CountOK, LineageOK, Due, Distance,
      Stepping, KillIsNotTotalLoss
<1> QED BY <1>1, Cases, ExportLeavesTraining, TrainKeepsLoss

(* For any frequency and any number of kills and resumes: the checkpoints  *)
(* a training completed or continues from stay complete while it runs, and *)
(* a kill costs it at most SaveFreq vectorised steps.  Of the others in    *)
(* the directory (all of them after a fresh start, the later ones after    *)
(* resuming from an older checkpoint) nothing is said: they may be written *)
(* over, and torn.                                                         *)
THEOREM KillCostsLittle == Spec => []KillIsNotTotalLoss
<1>1. LossInv /\ [Next]_allVars => LossInv'
  BY NextLoss
<1>2. LossInv => KillIsNotTotalLoss
  BY DEF LossInv
<1> QED BY <1>1, <1>2, InitLoss, PTL DEF Spec
-----------------------------------------------------------------------------
(* The evaluation cycle.  The episodes an evaluation has played are        *)
(* consecutive, counted from wherever the cycle stood when it began, and a *)
(* full turn from anywhere meets every residue.                            *)

LEMMA RemainderOf ==
  ASSUME NEW E \in Nat \ {0}, NEW q \in Nat, NEW r \in 0 .. E - 1
  PROVE  (E * q + r) % E = r
<1> DEFINE n == E * q + r  p == n \div E  s == n % E
<1>0. E * q \in Nat
  OBVIOUS
<1>1. n \in Nat
  BY <1>0
<1>2. n = E * p + s /\ p \in Int /\ s \in 0 .. E - 1
  <2> HIDE DEF n
  <2> QED BY <1>1
<1>3. n = E * q + r
  OBVIOUS
<1> HIDE DEF n, p, s
<1>4. E * (q - p) = s - r
  <2>1. E * (q - p) = E * q - E * p
    BY <1>2
  <2>2. E * p \in Int
    BY <1>2
  <2> QED BY <1>0, <1>2, <1>3, <2>1, <2>2
<1>5. q - p = 0
  BY <1>2, <1>4, OnlyZeroMultiple
<1>6. E * (q - p) = 0
  BY <1>5
<1>7. s = r
  BY <1>2, <1>4, <1>6
<1> QED BY <1>7 DEF s, n

LEMMA FullTurn ==
  ASSUME NEW E \in Nat \ {0}, NEW f \in Nat, NEW r \in 0 .. E - 1
  PROVE  \E i \in 1 .. E : (f + i - 1) % E = r
<1> DEFINE q == f \div E  m == f % E
<1>1. f = E * q + m /\ q \in Nat /\ m \in 0 .. E - 1
  OBVIOUS
<1> HIDE DEF q, m
<1>2. E * q \in Nat
  BY <1>1
<1>3. CASE r >= m
  <2>1. (f + (r - m + 1) - 1) = E * q + r
    BY <1>1, <1>2
  <2>2. r - m + 1 \in 1 .. E
    BY <1>1, <1>3
  <2> QED BY <1>1, <2>1, <2>2, RemainderOf
<1>4. CASE r < m
  <2>1. E * (q + 1) = E * q + E
    BY <1>1
  <2>2. (f + (r - m + E + 1) - 1) = E * (q + 1) + r
    BY <1>1, <1>2, <2>1
  <2>3. r - m + E + 1 \in 1 .. E /\ q + 1 \in Nat
    BY <1>1, <1>4
  <2> QED BY <2>2, <2>3, RemainderOf
<1> QED BY <1>1, <1>3, <1>4

CycleInv ==
  /\ next \in Nat
  /\ pc \in {"eval", "scored"} =>
        \E f \in Nat :
           /\ played \in Seq(Nat) /\ Len(played) <= Episodes
           /\ next = f + Len(played) + 1
           /\ playing = (f + Len(played)) % Episodes
           /\ \A i \in 1 .. Len(played) : played[i] = (f + i - 1) % Episodes
  /\ pc = "eval" => Len(played) < Episodes
  /\ pc = "scored" => Len(played) = Episodes

LEMMA EvaluationKeepsCycle ==
  ASSUME CycleInv, EvalEpisodeEnds
  PROVE  CycleInv'
<1>0. Episodes \in Nat \ {0}
  BY SizesAreSane
<1>1. PICK f \in Nat :
        /\ played \in Seq(Nat) /\ Len(played) < Episodes
        /\ next = f + Len(played) + 1
        /\ playing = (f + Len(played)) % Episodes
        /\ \A i \in 1 .. Len(played) : played[i] = (f + i - 1) % Episodes
  BY DEF CycleInv, EvalEpisodeEnds
<1>2. /\ played' = Append(played, playing)
      /\ playing' = next % Episodes /\ next' = next + 1
      /\ pc' = IF Len(played') = Episodes THEN "scored" ELSE "eval"
  BY DEF EvalEpisodeEnds, FixedReset
<1>3. Len(played) \in Nat
  BY <1>1
<1>4. f + Len(played) \in Nat /\ playing \in Nat
  BY <1>0, <1>1, <1>3
<1>5. /\ played' \in Seq(Nat) /\ Len(played') = Len(played) + 1
      /\ \A i \in 1 .. Len(played) : played'[i] = played[i]
      /\ played'[Len(played) + 1] = playing
  BY <1>1, <1>2, <1>4
<1>6. \A i \in 1 .. Len(played') : played'[i] = (f + i - 1) % Episodes
  <2> SUFFICES ASSUME NEW i \in 1 .. Len(played') PROVE played'[i] = (f + i - 1) % Episodes
    OBVIOUS
  <2>1. CASE i \in 1 .. Len(played)
    BY <1>1, <1>5, <2>1
  <2>2. CASE i = Len(played) + 1
    <3>1. f + i - 1 = f + Len(played)
      BY <1>3, <2>2
    <3> QED BY <1>1, <1>5, <2>2, <3>1
  <2> QED BY <1>3, <1>5, <2>1, <2>2
<1>7. next' = f + Len(played') + 1 /\ next = f + Len(played') /\ next' \in Nat
  BY <1>1, <1>2, <1>3, <1>5
<1>8. Len(played') <= Episodes
  BY <1>0, <1>1, <1>3, <1>5
<1>9. playing' = (f + Len(played')) % Episodes
  BY <1>2, <1>7
<1>10. /\ pc' \in {"eval", "scored"}
       /\ pc' = "eval" => Len(played') < Episodes
       /\ pc' = "scored" => Len(played') = Episodes
  <2>1. Len(played') \in Nat /\ Episodes \in Nat
    BY <1>0, <1>3, <1>5
  <2> QED BY <1>2, <1>8, <2>1
<1> QED
  BY <1>5, <1>6, <1>7, <1>8, <1>9, <1>10 DEF CycleInv

LEMMA NextCycle ==
  ASSUME CycleInv, [Next]_allVars
  PROVE  CycleInv'
<1>1. CASE UNCHANGED vars
  BY <1>1 DEF vars, memory, learner, evaluation, CycleInv
<1>2. CASE EvalEpisodeEnds
  BY <1>2, EvaluationKeepsCycle
<1>3. CASE OnStep
  <2>1. CASE pc' = "eval"
    <3>1. played' = <<>> /\ playing' = next % Episodes /\ next' = next + 1 /\ next \in Nat
      BY <1>3, <2>1 DEF OnStep, FixedReset, CycleInv
    <3>2. Len(played') = 0 /\ played' \in Seq(Nat) /\ Episodes \in Nat \ {0}
      BY <3>1, SizesAreSane
    <3>3. next' = next + Len(played') + 1 /\ playing' = (next + Len(played')) % Episodes
      BY <3>1, <3>2
    <3>4. \A i \in 1 .. Len(played') : played'[i] = (next + i - 1) % Episodes
      BY <3>2
    <3> QED BY <2>1, <3>1, <3>2, <3>3, <3>4 DEF CycleInv
  <2>2. CASE pc' = "stepped"
    BY <1>3, <2>2 DEF OnStep, evaluation, CycleInv
  <2> QED BY <1>3, <2>1, <2>2 DEF OnStep
<1>4. ASSUME next' \in {next, 0}, pc' \notin {"eval", "scored"} PROVE CycleInv'
  BY <1>4 DEF CycleInv
<1>5. CASE TrainNext /\ ~OnStep /\ ~EvalEpisodeEnds
  <2>1. next' \in {next, 0} /\ pc' \notin {"eval", "scored"}
    BY <1>5
    DEF TrainNext, Fresh, Resume, Start, Dies, Raises, Steps, Learns, Setup, TrainingStart,
        VecStep, Finish, NotBetter, Better, BestSaved, NoCheckpoint, Checkpoint, CheckpointSaved,
        SaveFinal, FinalSaved, SaveStatistics, StatisticsSaved, Forget, memory, learner, evaluation
  <2> QED BY <1>4, <2>1
<1> QED
  BY <1>1, <1>2, <1>3, <1>5, Cases, ExportLeavesTraining

(* An evaluation plays every episode of the list, for any length and       *)
(* wherever in the cycle it begins.                                        *)
THEOREM EvaluationsCover == Spec => []CoversTheSetOnce
<1>1. ExportInit => CycleInv
  BY DEF ExportInit, Init, LearnerInit, CycleInv
<1>2. CycleInv /\ [Next]_allVars => CycleInv'
  BY NextCycle
<1>3. CycleInv => CoversTheSetOnce
  <2> SUFFICES ASSUME CycleInv, pc = "scored"
               PROVE  {played[i] : i \in DOMAIN played} = 0 .. Episodes - 1
    BY DEF CoversTheSetOnce
  <2>0. Episodes \in Nat \ {0}
    BY SizesAreSane
  <2>1. PICK f \in Nat :
          /\ played \in Seq(Nat) /\ Len(played) = Episodes
          /\ \A i \in 1 .. Episodes : played[i] = (f + i - 1) % Episodes
    BY DEF CycleInv
  <2>2. DOMAIN played = 1 .. Episodes
    BY <2>1
  <2>3. ASSUME NEW r \in 0 .. Episodes - 1 PROVE \E i \in 1 .. Episodes : played[i] = r
    <3>1. PICK i \in 1 .. Episodes : (f + i - 1) % Episodes = r
      BY <2>0, FullTurn
    <3>2. played[i] = r
      BY <2>1, <3>1
    <3> QED BY <3>2
  <2>4. ASSUME NEW i \in 1 .. Episodes PROVE played[i] \in 0 .. Episodes - 1
    <3>1. f + i - 1 \in Nat
      BY <2>0
    <3>2. (f + i - 1) % Episodes \in 0 .. Episodes - 1
      BY <2>0, <3>1
    <3> QED BY <2>1, <3>2
  <2> QED BY <2>2, <2>3, <2>4
<1> QED BY <1>1, <1>2, <1>3, PTL DEF Spec

-----------------------------------------------------------------------------
(* Induction over data, in the form the provers can use: a set that holds  *)
(* zero and the successor of each of its numbers holds them all.           *)

LEMMA InductiveSet ==
  ASSUME NEW S, 0 \in S, \A n \in Nat : n \in S => n + 1 \in S
  PROVE  \A n \in Nat : n \in S
<1> SUFFICES ASSUME Nat \ S # {} PROVE FALSE
  OBVIOUS
<1> DEFINE Out == {1 .. n : n \in Nat \ S}
<1>1. \A n \in Nat : 1 .. n \in FiniteSubsetsOf(Nat)
  <2> TAKE n \in Nat
  <2>1. IsFiniteSet(1 .. n)
    BY FS_Interval
  <2> QED BY <2>1 DEF FiniteSubsetsOf
<1>2. Out # {} /\ Out \subseteq FiniteSubsetsOf(Nat)
  BY <1>1
<1>3. IsWellFoundedOn(StrictSubsetOrdering(Nat), FiniteSubsetsOf(Nat))
  BY FS_StrictSubsetOrderingWellFounded
<1> HIDE DEF Out
<1>4. PICK I \in Out : \A J \in Out : <<J, I>> \notin StrictSubsetOrdering(Nat)
  BY <1>2, <1>3, WFMin
<1>5. PICK m \in Nat \ S : I = 1 .. m
  BY <1>4 DEF Out
<1>6. m \in Nat /\ m - 1 \in Nat /\ m - 1 \notin S
  <2>1. m # 0
    BY <1>5
  <2>2. m - 1 \in Nat /\ m = (m - 1) + 1
    BY <1>5, <2>1
  <2> QED BY <1>5, <2>2
<1>7. 1 .. m - 1 \in Out
  BY <1>6 DEF Out
<1>8. 1 .. m - 1 \subseteq 1 .. m /\ 1 .. m \subseteq Nat /\ 1 .. m - 1 # 1 .. m
  <2>1. m \in 1 .. m /\ m \notin 1 .. m - 1
    BY <1>6
  <2> QED BY <1>6, <2>1
<1>9. <<1 .. m - 1, I>> \in StrictSubsetOrdering(Nat)
  BY <1>5, <1>8 DEF StrictSubsetOrdering
<1> QED BY <1>4, <1>7, <1>9

-----------------------------------------------------------------------------
(* The outcomes a step appends.  The loop over the infos is well-defined,  *)
(* and appends at most the outcomes of the workers it has come past.       *)

LEMMA EndedLoop ==
  /\ EndedUpTo[0] = <<>>
  /\ \A w \in 1 .. N :
       EndedUpTo[w] = IF infos[w] = Running THEN EndedUpTo[w - 1]
                      ELSE Append(EndedUpTo[w - 1], infos[w])
<1> DEFINE Body(g, w) == IF w = 0 THEN <<>>
                         ELSE IF infos[w] = Running THEN g[w - 1]
                         ELSE Append(g[w - 1], infos[w])
           Loops(g, n) == g = [w \in 0 .. n |-> Body(g, w)]
           S == {n \in Nat : \E g : Loops(g, n)}
<1>1. 0 \in S
  <2>1. Loops([w \in 0 .. 0 |-> <<>>], 0)
    OBVIOUS
  <2> QED BY <2>1
<1>2. ASSUME NEW n \in Nat, n \in S PROVE n + 1 \in S
  <2>1. PICK g : Loops(g, n)
    BY <1>2
  <2> DEFINE h == [w \in 0 .. n + 1 |-> IF w = n + 1 THEN Body(g, w) ELSE g[w]]
  <2>2. \A w \in 0 .. n : h[w] = g[w] /\ g[w] = Body(g, w)
    <3>1. \A w \in 0 .. n : g[w] = Body(g, w)
      <4> HIDE DEF Body
      <4> QED BY <2>1
    <3>2. \A w \in 0 .. n : h[w] = g[w]
      <4> HIDE DEF Body
      <4> QED OBVIOUS
    <3> QED BY <3>1, <3>2
  <2>3. h[n + 1] = Body(g, n + 1)
    OBVIOUS
  <2>4. \A w \in 0 .. n + 1 : h[w] = Body(h, w)
    <3> SUFFICES ASSUME NEW w \in 0 .. n + 1 PROVE h[w] = Body(h, w)
      OBVIOUS
    <3>1. w # 0 => w - 1 \in 0 .. n
      OBVIOUS
    <3>2. w # 0 => h[w - 1] = g[w - 1]
      BY <2>2, <3>1
    <3>3. Body(h, w) = Body(g, w)
      BY <3>2
    <3>4. w = n + 1 \/ w \in 0 .. n
      OBVIOUS
    <3> QED BY <2>2, <2>3, <3>3, <3>4
  <2>5. h = [w \in 0 .. n + 1 |-> h[w]]
    OBVIOUS
  <2>6. Loops(h, n + 1)
    <3> HIDE DEF h, Body
    <3> QED BY <2>4, <2>5
  <2>7. \E f : Loops(f, n + 1)
    <3> HIDE DEF Loops, h
    <3> QED BY <2>6
  <2> HIDE DEF Loops
  <2> QED BY <2>7
<1>3. N \in Nat
  BY SizesAreSane
<1>4. N \in S
  <2> HIDE DEF S
  <2> QED BY <1>1, <1>2, <1>3, InductiveSet
<1>5. EndedUpTo = CHOOSE g : Loops(g, N)
  BY DEF EndedUpTo
<1>6. Loops(EndedUpTo, N)
  <2>1. \E g : Loops(g, N)
    BY <1>4
  <2> HIDE DEF Loops
  <2> QED BY <1>5, <2>1
<1>7. \A w \in 0 .. N : EndedUpTo[w] = Body(EndedUpTo, w)
  <2> HIDE DEF Body
  <2> QED BY <1>6
<1> QED BY <1>3, <1>7

LEMMA EndedType ==
  ASSUME infos \in [Workers -> Outcome \union {Running}]
  PROVE  \A w \in 0 .. N : EndedUpTo[w] \in Seq(Outcome)
<1> DEFINE S == {w \in Nat : w <= N => EndedUpTo[w] \in Seq(Outcome)}
<1>0. N \in Nat
  BY SizesAreSane
<1>1. 0 \in S
  <2>1. EndedUpTo[0] = <<>>
    BY EndedLoop
  <2>2. <<>> \in Seq(Outcome)
    OBVIOUS
  <2>3. EndedUpTo[0] \in Seq(Outcome)
    BY <2>1, <2>2
  <2> QED BY <2>3
<1>2. ASSUME NEW n \in Nat, n \in S PROVE n + 1 \in S
  <2> SUFFICES ASSUME n + 1 <= N PROVE EndedUpTo[n + 1] \in Seq(Outcome)
    OBVIOUS
  <2>1. n + 1 \in 1 .. N /\ (n + 1) - 1 = n /\ n <= N
    BY <1>0
  <2>2. EndedUpTo[n] \in Seq(Outcome)
    BY <1>2, <2>1
  <2>3. infos[n + 1] = Running \/ infos[n + 1] \in Outcome
    BY <2>1 DEF Workers
  <2>4. EndedUpTo[n + 1] = IF infos[n + 1] = Running THEN EndedUpTo[n]
                           ELSE Append(EndedUpTo[n], infos[n + 1])
    BY <2>1, EndedLoop
  <2> QED BY <2>2, <2>3, <2>4
<1>3. \A n \in Nat : n \in S
  <2> HIDE DEF S
  <2> QED BY <1>1, <1>2, InductiveSet
<1> QED BY <1>0, <1>3

\* Outcomes of an older task in s, and those among the infos of the first w workers.
OldIn(s) == {i \in DOMAIN s : s[i].drawn # radius}
LateUpTo(w) == {v \in 1 .. w : infos[v] # Running /\ infos[v].drawn # radius}

LEMMA OldIsFinite ==
  ASSUME NEW s \in Seq(Outcome)
  PROVE  IsFiniteSet(OldIn(s)) /\ Cardinality(OldIn(s)) \in Nat
<1>1. IsFiniteSet(1 .. Len(s)) /\ OldIn(s) \in SUBSET (1 .. Len(s))
  BY FS_Interval DEF OldIn
<1>2. IsFiniteSet(OldIn(s))
  BY <1>1, FS_Subset
<1> QED BY <1>2, FS_CardinalityType

LEMMA LateIsFinite ==
  ASSUME NEW w \in Nat
  PROVE  IsFiniteSet(LateUpTo(w)) /\ Cardinality(LateUpTo(w)) \in Nat
<1>1. IsFiniteSet(1 .. w) /\ LateUpTo(w) \in SUBSET (1 .. w)
  BY FS_Interval DEF LateUpTo
<1>2. IsFiniteSet(LateUpTo(w))
  BY <1>1, FS_Subset
<1> QED BY <1>2, FS_CardinalityType

LEMMA OldOfAppend ==
  ASSUME NEW s \in Seq(Outcome), NEW o \in Outcome
  PROVE  Cardinality(OldIn(Append(s, o))) =
           Cardinality(OldIn(s)) + IF o.drawn # radius THEN 1 ELSE 0
<1>1. /\ Len(s) \in Nat /\ DOMAIN s = 1 .. Len(s)
      /\ DOMAIN Append(s, o) = 1 .. Len(s) + 1
      /\ \A i \in 1 .. Len(s) : Append(s, o)[i] = s[i]
      /\ Append(s, o)[Len(s) + 1] = o
  OBVIOUS
<1>2. IsFiniteSet(OldIn(s)) /\ Cardinality(OldIn(s)) \in Nat /\ Len(s) + 1 \notin OldIn(s)
  <2>1. Len(s) + 1 \notin 1 .. Len(s)
    BY <1>1
  <2> QED BY <1>1, <2>1, OldIsFinite DEF OldIn
<1>3. CASE o.drawn # radius
  <2>1. OldIn(Append(s, o)) = OldIn(s) \cup {Len(s) + 1}
    BY <1>1, <1>3 DEF OldIn
  <2> QED BY <1>2, <1>3, <2>1, FS_AddElement
<1>4. CASE o.drawn = radius
  <2>1. OldIn(Append(s, o)) = OldIn(s)
    BY <1>1, <1>4 DEF OldIn
  <2> QED BY <1>2, <1>4, <2>1
<1> QED BY <1>3, <1>4

\* What the deque drops only makes it younger.
LEMMA OldOfNewest ==
  ASSUME NEW s \in Seq(Outcome), NEW n \in Nat
  PROVE  /\ Newest(s, n) \in Seq(Outcome) /\ Len(Newest(s, n)) <= n
         /\ Cardinality(OldIn(Newest(s, n))) <= Cardinality(OldIn(s))
<1>0. Len(s) \in Nat /\ Cardinality(OldIn(s)) \in Nat /\ IsFiniteSet(OldIn(s))
  BY OldIsFinite
<1>1. CASE Len(s) <= n
  BY <1>0, <1>1 DEF Newest
<1>2. CASE Len(s) > n
  <2> DEFINE k == Len(s) - n
             t == SubSeq(s, k + 1, Len(s))
  <2>1. k \in Nat /\ k + 1 \in 1 .. Len(s) + 1 /\ Newest(s, n) = t
    BY <1>0, <1>2 DEF Newest
  <2>2. /\ t \in Seq(Outcome) /\ Len(t) = n /\ DOMAIN t = 1 .. n
        /\ \A i \in 1 .. n : t[i] = s[i + k] /\ i + k \in 1 .. Len(s)
    BY <1>0, <1>2
  <2> HIDE DEF t, k
  <2> DEFINE f == [i \in OldIn(t) |-> i + k]
  <2>3. f \in Injection(OldIn(t), OldIn(s))
    <3>1. \A i \in OldIn(t) : i \in 1 .. n /\ i + k \in OldIn(s)
      BY <2>2 DEF OldIn
    <3>2. f \in [OldIn(t) -> OldIn(s)]
      BY <3>1
    <3>3. \A i, j \in OldIn(t) : f[i] = f[j] => i = j
      BY <2>1, <3>1
    <3> QED BY <3>2, <3>3, Fun_IsInj
  <2>4. Cardinality(OldIn(t)) <= Cardinality(OldIn(s))
    BY <1>0, <2>3, FS_Injection
  <2> QED BY <2>1, <2>2, <2>4
<1> QED BY <1>0, <1>1, <1>2

\* The loop appends the outcomes of the workers it has come past, no other.
LEMMA OldOfEnded ==
  ASSUME infos \in [Workers -> Outcome \union {Running}], NEW s \in Seq(Outcome)
  PROVE  /\ s \o Ended \in Seq(Outcome)
         /\ Cardinality(OldIn(s \o Ended)) = Cardinality(OldIn(s)) + Cardinality(LateUpTo(N))
<1> DEFINE S == {w \in Nat : w <= N =>
                   Cardinality(OldIn(s \o EndedUpTo[w])) =
                     Cardinality(OldIn(s)) + Cardinality(LateUpTo(w))}
<1>0. N \in Nat /\ Cardinality(OldIn(s)) \in Nat
  BY SizesAreSane, OldIsFinite
<1>1. 0 \in S
  <2>1. EndedUpTo[0] = <<>> /\ s \o <<>> = s
    BY EndedLoop
  <2>2. LateUpTo(0) = {}
    BY DEF LateUpTo
  <2>3. Cardinality(LateUpTo(0)) = 0
    BY <2>2, FS_EmptySet
  <2>4. Cardinality(OldIn(s)) + 0 = Cardinality(OldIn(s))
    BY <1>0
  <2>5. Cardinality(OldIn(s \o EndedUpTo[0])) = Cardinality(OldIn(s)) + Cardinality(LateUpTo(0))
    BY <2>1, <2>3, <2>4
  <2> QED BY <2>5
<1>2. ASSUME NEW n \in Nat, n \in S PROVE n + 1 \in S
  <2> SUFFICES ASSUME n + 1 <= N
               PROVE  Cardinality(OldIn(s \o EndedUpTo[n + 1])) =
                        Cardinality(OldIn(s)) + Cardinality(LateUpTo(n + 1))
    OBVIOUS
  <2>1. n + 1 \in 1 .. N /\ (n + 1) - 1 = n /\ n \in 0 .. N /\ n <= N
    BY <1>0
  <2>2. EndedUpTo[n] \in Seq(Outcome)
    BY <2>1, EndedType
  <2>3. Cardinality(OldIn(s \o EndedUpTo[n])) = Cardinality(OldIn(s)) + Cardinality(LateUpTo(n))
    BY <1>2, <2>1
  <2>4. EndedUpTo[n + 1] = IF infos[n + 1] = Running THEN EndedUpTo[n]
                           ELSE Append(EndedUpTo[n], infos[n + 1])
    BY <2>1, EndedLoop
  <2>5. /\ IsFiniteSet(LateUpTo(n)) /\ Cardinality(LateUpTo(n)) \in Nat
        /\ n + 1 \notin LateUpTo(n)
    BY LateIsFinite DEF LateUpTo
  <2>6. CASE infos[n + 1] = Running
    <3>1. LateUpTo(n + 1) = LateUpTo(n)
      BY <2>6 DEF LateUpTo
    <3> QED BY <2>3, <2>4, <2>6, <3>1
  <2>7. CASE infos[n + 1] # Running
    <3> DEFINE o == infos[n + 1]
    <3>1. o \in Outcome
      BY <2>1, <2>7 DEF Workers
    <3> HIDE DEF o
    <3>2. s \o EndedUpTo[n + 1] = Append(s \o EndedUpTo[n], o) /\ s \o EndedUpTo[n] \in Seq(Outcome)
      <4>1. EndedUpTo[n + 1] = Append(EndedUpTo[n], o)
        BY <2>4, <2>7 DEF o
      <4> QED BY <2>2, <3>1, <4>1
    <3>3. Cardinality(OldIn(s \o EndedUpTo[n + 1])) =
            Cardinality(OldIn(s \o EndedUpTo[n])) + IF o.drawn # radius THEN 1 ELSE 0
      BY <3>1, <3>2, OldOfAppend
    <3>4. CASE o.drawn # radius
      <4>1. LateUpTo(n + 1) = LateUpTo(n) \cup {n + 1}
        BY <2>7, <3>4 DEF LateUpTo, o
      <4>2. Cardinality(LateUpTo(n + 1)) = Cardinality(LateUpTo(n)) + 1
        BY <2>5, <4>1, FS_AddElement
      <4> QED BY <1>0, <2>3, <2>5, <3>3, <3>4, <4>2
    <3>5. CASE o.drawn = radius
      <4>1. LateUpTo(n + 1) = LateUpTo(n)
        BY <3>5 DEF LateUpTo, o
      <4> QED BY <1>0, <2>3, <2>5, <3>3, <3>5, <4>1
    <3> QED BY <3>4, <3>5
  <2> QED BY <2>6, <2>7
<1>3. \A n \in Nat : n \in S
  <2> HIDE DEF S
  <2> QED BY <1>1, <1>2, InductiveSet
<1>4. Ended \in Seq(Outcome)
  BY <1>0, EndedType DEF Ended
<1> QED BY <1>0, <1>3, <1>4 DEF Ended

-----------------------------------------------------------------------------
(* The backlog of an expansion.  The workers that have yet to hand in an   *)
(* episode of an older task, or have just handed it in, and the outcomes   *)
(* of older tasks already in the window are together at most N.            *)

Owing ==
  {w \in Workers :
     \/ drawn[w] # radius
     \/ pc = "callbacks" /\ infos[w] # Running /\ infos[w].drawn # radius}

Backlog == Cardinality(OldIn(outcomes)) + Cardinality(Owing) <= N

BacklogInv ==
  /\ CurriculumInv
  /\ infos \in [Workers -> Outcome \union {Running}]
  /\ outcomes \in Seq(Outcome) /\ Len(outcomes) <= Window
  /\ pc \in {"off", "setup", "start"} => outcomes = <<>>
  /\ Backlog

LEMMA SomeWorkers ==
  ASSUME NEW T \in SUBSET Workers
  PROVE  IsFiniteSet(T) /\ Cardinality(T) \in Nat /\ Cardinality(T) <= N
<1>1. IsFiniteSet(Workers) /\ Cardinality(Workers) = N
  <2>1. N \in Nat /\ N >= 1 /\ 1 \in Int /\ N \in Int
    BY SizesAreSane
  <2>2. IsFiniteSet(1 .. N) /\ Cardinality(1 .. N) = IF 1 > N THEN 0 ELSE N - 1 + 1
    BY <2>1, FS_Interval
  <2> QED BY <2>1, <2>2 DEF Workers
<1> QED BY <1>1, FS_Subset, FS_CardinalityType

LEMMA EmptyWindow ==
  ASSUME NEW T \in SUBSET Workers, NEW r
  PROVE  Cardinality({i \in DOMAIN <<>> : <<>>[i].drawn # r}) + Cardinality(T) <= N
<1>1. {i \in DOMAIN <<>> : <<>>[i].drawn # r} = {}
  OBVIOUS
<1>2. Cardinality({i \in DOMAIN <<>> : <<>>[i].drawn # r}) = 0
  BY <1>1, FS_EmptySet
<1>3. Cardinality(T) \in Nat /\ Cardinality(T) <= N /\ N \in Nat
  BY SomeWorkers, SizesAreSane
<1> QED BY <1>2, <1>3

LEMMA InitBacklog == ExportInit => BacklogInv
<1> SUFFICES ASSUME ExportInit PROVE BacklogInv
  OBVIOUS
<1>1. outcomes = <<>> /\ infos \in [Workers -> Outcome \union {Running}]
  BY DEF ExportInit, Init, LearnerInit, Idle
<1>2. Owing \in SUBSET Workers
  BY DEF Owing
<1>3. Backlog
  BY <1>1, <1>2, EmptyWindow DEF Backlog, OldIn
<1>4. outcomes \in Seq(Outcome) /\ Len(outcomes) <= Window
  BY <1>1, SizesAreSane
<1> QED BY <1>1, <1>3, <1>4, InitCurriculum DEF BacklogInv

\* After a step that leaves the window alone and makes nobody owe anything new.
LEMMA NobodyNewOwes ==
  ASSUME Backlog, outcomes \in Seq(Outcome), UNCHANGED <<outcomes, radius>>,
         Owing' \subseteq Owing
  PROVE  Backlog'
<1>1. OldIn(outcomes)' = OldIn(outcomes)
  BY DEF OldIn
<1>2. Owing \in SUBSET Workers /\ Owing' \in SUBSET Owing
  BY DEF Owing
<1>3. Cardinality(Owing') <= Cardinality(Owing)
  BY <1>2, SomeWorkers, FS_Subset
<1>4. /\ Cardinality(Owing) \in Nat /\ Cardinality(Owing') \in Nat /\ N \in Nat
      /\ Cardinality(OldIn(outcomes)) \in Nat
  <2>1. Owing' \in SUBSET Workers
    BY <1>2
  <2> QED BY <1>2, <2>1, SomeWorkers, OldIsFinite, SizesAreSane
<1> QED BY <1>1, <1>3, <1>4 DEF Backlog

LEMMA OnStepKeepsBacklog ==
  ASSUME BacklogInv, OnStep
  PROVE  BacklogInv'
<1> USE DEF BacklogInv
<1>1. CurriculumInv'
  BY OnStepKeepsCurriculum
<1>2. pc = "callbacks" /\ pc' \in {"eval", "stepped"} /\ UNCHANGED <<drawn, infos>>
  BY DEF OnStep
<1>3. Window \in Nat /\ N \in Nat
  BY SizesAreSane
<1>4. CASE Expand
  <2>1. outcomes' = <<>>
    BY <1>4 DEF Expand
  <2>2. Owing' \in SUBSET Workers
    BY DEF Owing
  <2>3. Backlog'
    BY <2>1, <2>2, EmptyWindow DEF Backlog, OldIn
  <2>4. outcomes' \in Seq(Outcome) /\ Len(outcomes') <= Window
    BY <1>3, <2>1
  <2> QED BY <1>1, <1>2, <2>3, <2>4
<1>5. CASE Stay
  <2>1. outcomes' = Newest(outcomes \o Ended, Window) /\ radius' = radius
    BY <1>5 DEF Stay, Rolled
  <2>2. /\ outcomes \o Ended \in Seq(Outcome)
        /\ Cardinality(OldIn(outcomes \o Ended)) =
             Cardinality(OldIn(outcomes)) + Cardinality(LateUpTo(N))
    BY OldOfEnded
  <2>3. /\ outcomes' \in Seq(Outcome) /\ Len(outcomes') <= Window
        /\ Cardinality(OldIn(outcomes')) <= Cardinality(OldIn(outcomes \o Ended))
    BY <1>3, <2>1, <2>2, OldOfNewest
  <2>4. OldIn(outcomes)' = OldIn(outcomes')
    BY <2>1 DEF OldIn
  <2>5. Owing = Owing' \cup LateUpTo(N) /\ Owing' \cap LateUpTo(N) = {}
    <3>1. Owing' = {w \in Workers : drawn[w] # radius}
      BY <1>2, <2>1 DEF Owing
    <3>2. Owing = {w \in Workers : drawn[w] # radius} \cup LateUpTo(N)
      BY <1>2 DEF Owing, LateUpTo, Workers
    <3>3. \A w \in LateUpTo(N) : drawn[w] = radius
      BY <1>2 DEF LateUpTo, Workers, CurriculumInv, EpisodesFollowTheRadius
    <3> QED BY <3>1, <3>2, <3>3
  <2>6. /\ IsFiniteSet(Owing') /\ Cardinality(Owing') \in Nat
        /\ IsFiniteSet(LateUpTo(N)) /\ Cardinality(LateUpTo(N)) \in Nat
    <3>1. Owing' \in SUBSET Workers
      BY DEF Owing
    <3> QED BY <1>3, <3>1, SomeWorkers, LateIsFinite
  <2>7. Cardinality(Owing) = Cardinality(Owing') + Cardinality(LateUpTo(N))
    <3>1. Cardinality(Owing' \cup LateUpTo(N)) =
            Cardinality(Owing') + Cardinality(LateUpTo(N)) - Cardinality(Owing' \cap LateUpTo(N))
      BY <2>6, FS_Union
    <3>2. Cardinality(Owing' \cap LateUpTo(N)) = 0
      BY <2>5, FS_EmptySet
    <3> QED BY <2>5, <2>6, <3>1, <3>2
  <2>8. /\ Cardinality(OldIn(outcomes)) \in Nat /\ Cardinality(OldIn(outcomes')) \in Nat
        /\ Cardinality(OldIn(outcomes \o Ended)) \in Nat
    BY <2>2, <2>3, OldIsFinite
  <2>9. Backlog'
    BY <1>3, <2>2, <2>3, <2>4, <2>6, <2>7, <2>8 DEF Backlog
  <2> QED BY <1>1, <1>2, <2>3, <2>9
<1> QED BY <1>4, <1>5 DEF OnStep

LEMMA StepKeepsBacklog ==
  ASSUME BacklogInv, CurriculumInv', Steps
  PROVE  BacklogInv'
<1> USE DEF BacklogInv
<1>1. PICK ends \in SUBSET Workers, wins \in SUBSET Workers :
        /\ infos' = [w \in Workers |->
                        IF w \in ends THEN [success |-> w \in wins, drawn |-> drawn[w]]
                                      ELSE Running]
        /\ drawn' = [w \in Workers |-> IF w \in ends THEN cap[w] ELSE drawn[w]]
  BY DEF Steps, VecStep
<1>2. /\ pc = "rollout" /\ pc' = "callbacks" /\ UNCHANGED <<cap, radius, outcomes>>
  BY DEF Steps, VecStep
<1>3. infos' \in [Workers -> Outcome \union {Running}]
  <2>1. \A w \in Workers : [success |-> w \in wins, drawn |-> drawn[w]] \in Outcome
    BY DEF CurriculumInv, Outcome
  <2> QED BY <1>1, <2>1
<1>4. Owing' \subseteq Owing
  <2> SUFFICES ASSUME NEW w \in Workers, drawn[w] = radius
               PROVE  /\ drawn'[w] = radius
                      /\ infos'[w] # Running => infos'[w].drawn = radius
    BY <1>2 DEF Owing
  <2>1. cap[w] = radius
    BY <1>2 DEF CurriculumInv, InLoop
  <2>2. infos'[w] # Running => infos'[w] = [success |-> w \in wins, drawn |-> drawn[w]]
    BY <1>1
  <2> QED BY <1>1, <2>1, <2>2
<1>5. Backlog'
  BY <1>2, <1>4, NobodyNewOwes
<1> QED BY <1>2, <1>3, <1>5

LEMMA TrainKeepsBacklog ==
  ASSUME BacklogInv, TrainNext
  PROVE  BacklogInv'
<1> USE DEF BacklogInv
<1>1. CurriculumInv'
  BY TrainKeepsCurriculum
<1>2. ASSUME outcomes' = <<>>, infos' \in [Workers -> Outcome \union {Running}]
      PROVE  BacklogInv'
  <2>1. Owing' \in SUBSET Workers
    BY DEF Owing
  <2>2. Backlog'
    BY <1>2, <2>1, EmptyWindow DEF Backlog, OldIn
  <2>3. outcomes' \in Seq(Outcome) /\ Len(outcomes') <= Window
    BY <1>2, SizesAreSane
  <2> QED BY <1>1, <1>2, <2>2, <2>3
<1>3. ASSUME UNCHANGED <<drawn, infos, outcomes, radius>>,
             pc' \notin {"callbacks", "off", "setup", "start"}
      PROVE  BacklogInv'
  <2>1. Owing' \subseteq Owing
    BY <1>3 DEF Owing
  <2> QED BY <1>1, <1>3, <2>1, NobodyNewOwes
<1>4. CASE Fresh \/ Resume
  BY <1>2, <1>4 DEF Fresh, Resume, Start, learner
<1>5. CASE Dies \/ StatisticsSaved
  <2>1. outcomes' = <<>> /\ infos' = Idle
    BY <1>5 DEF Dies, StatisticsSaved, Forget
  <2> QED BY <1>2, <2>1 DEF Idle
<1>6. CASE Raises \/ SaveFinal \/ FinalSaved \/ SaveStatistics
  BY <1>3, <1>6 DEF Raises, SaveFinal, FinalSaved, SaveStatistics, memory, learner
<1>7. CASE NotBetter \/ Better \/ BestSaved \/ NoCheckpoint \/ Checkpoint \/ CheckpointSaved
  BY <1>3, <1>7
  DEF NotBetter, Better, BestSaved, NoCheckpoint, Checkpoint, CheckpointSaved, memory, learner
<1>8. CASE Steps
  BY <1>1, <1>8, StepKeepsBacklog
<1>9. CASE Learns
  <2>1. CASE Setup \/ TrainingStart
    BY <1>2, <2>1 DEF Setup, TrainingStart
  <2>2. CASE OnStep
    BY <2>2, OnStepKeepsBacklog
  <2>3. CASE EvalEpisodeEnds \/ Finish
    BY <1>3, <2>3 DEF EvalEpisodeEnds, Finish, learner
  <2> QED BY <1>9, <2>1, <2>2, <2>3 DEF Learns
<1> QED BY <1>4, <1>5, <1>6, <1>7, <1>8, <1>9 DEF TrainNext

LEMMA NextBacklog ==
  ASSUME BacklogInv, [Next]_allVars
  PROVE  BacklogInv'
<1>1. CASE UNCHANGED vars
  <2>1. CurriculumInv'
    BY NextCurriculum DEF BacklogInv
  <2>2. UNCHANGED <<pc, drawn, infos, outcomes, radius>>
    BY <1>1 DEF vars, memory, learner
  <2>3. Owing' = Owing
    BY <2>2 DEF Owing
  <2>4. Backlog'
    BY <2>2, <2>3, NobodyNewOwes DEF BacklogInv
  <2> QED BY <2>1, <2>2, <2>4 DEF BacklogInv
<1> QED
  BY <1>1, Cases, ExportLeavesTraining, TrainKeepsBacklog

(* A window never holds more outcomes of older tasks than there are        *)
(* workers: an expansion leaves each of them one episode to finish.        *)
THEOREM OldAtMostWorkers == Spec => []OldOutcomesAtMostWorkers
<1>1. BacklogInv => OldOutcomesAtMostWorkers
  <2> SUFFICES ASSUME BacklogInv PROVE OldOutcomesAtMostWorkers
    OBVIOUS
  <2>1. Owing \in SUBSET Workers
    BY DEF Owing
  <2>2. /\ Cardinality(Owing) \in Nat /\ Cardinality(OldIn(outcomes)) \in Nat /\ N \in Nat
    BY <2>1, SomeWorkers, OldIsFinite, SizesAreSane DEF BacklogInv
  <2>3. Cardinality(OldIn(outcomes)) <= N
    BY <2>2 DEF BacklogInv, Backlog
  <2> QED BY <2>3 DEF OldOutcomesAtMostWorkers, OldIn
<1>2. BacklogInv /\ [Next]_allVars => BacklogInv'
  BY NextBacklog
<1> QED BY <1>1, <1>2, InitBacklog, PTL DEF Spec

-----------------------------------------------------------------------------
(* Types.  Most are part of the invariants above; these are the others.    *)

RestOK ==
  /\ pc \in LearnPcs \union SavePcs \union FinalPcs \union {"off"}
  /\ calls \in 0 .. MaxCalls
  /\ pc = "callbacks" => calls < MaxCalls
  /\ playing \in 0 .. Episodes - 1
  /\ played \in Seq(0 .. Episodes - 1) /\ Len(played) <= Episodes
  /\ improved \in BOOLEAN /\ pkl \in {Absent, Torn, "whole"} /\ torn \subseteq Nat
  /\ starts \in 0 .. MaxStarts
  /\ normalize \in Settings
  /\ policy \in Kind \union {Absent, Torn}

TypeInv == BacklogInv /\ LossInv /\ CycleInv /\ ExportInv /\ RestOK

LEMMA InitRest == ExportInit => RestOK
<1> SUFFICES ASSUME ExportInit PROVE RestOK
  OBVIOUS
<1>1. 0 \in 0 .. MaxCalls /\ 0 \in 0 .. Episodes - 1 /\ 0 \in 0 .. MaxStarts
  BY SizesAreSane, RunAssumption
<1>2. <<>> \in Seq(0 .. Episodes - 1) /\ Len(<<>>) <= Episodes
  BY SizesAreSane
<1> QED BY <1>1, <1>2 DEF ExportInit, Init, LearnerInit, RestOK

LEMMA LearnKeepsRest ==
  ASSUME RestOK, CycleInv, Learns
  PROVE  pc' \in LearnPcs \union FinalPcs /\ calls' \in 0 .. MaxCalls
         /\ (pc' = "callbacks" => calls' < MaxCalls)
         /\ playing' \in 0 .. Episodes - 1
         /\ played' \in Seq(0 .. Episodes - 1) /\ Len(played') <= Episodes
<1>0. Episodes \in Nat \ {0} /\ MaxCalls \in Nat /\ next \in Nat
  BY SizesAreSane DEF CycleInv
<1>1. next % Episodes \in 0 .. Episodes - 1
  BY <1>0
<1>2. <<>> \in Seq(0 .. Episodes - 1) /\ Len(<<>>) <= Episodes
  BY <1>0
<1>3. CASE Setup \/ TrainingStart \/ Finish
  BY <1>3 DEF Setup, TrainingStart, Finish, learner, evaluation, RestOK, LearnPcs, FinalPcs
<1>4. CASE OnStep
  <2>1. calls' \in 0 .. MaxCalls /\ pc' \in {"eval", "stepped"}
    BY <1>0, <1>4 DEF OnStep, RestOK
  <2>2. \/ played' = <<>> /\ playing' = next % Episodes
        \/ played' = played /\ playing' = playing
    BY <1>4 DEF OnStep, FixedReset, evaluation
  <2> QED BY <1>1, <1>2, <2>1, <2>2 DEF RestOK, LearnPcs
<1>5. CASE EvalEpisodeEnds
  <2>1. /\ played' = Append(played, playing) /\ playing' = next % Episodes
        /\ calls' = calls /\ pc' \in {"eval", "scored"} /\ pc = "eval"
    BY <1>5 DEF EvalEpisodeEnds, FixedReset
  <2>2. Len(played) < Episodes /\ Len(played) \in Nat
    BY <2>1 DEF CycleInv, RestOK
  <2>3. /\ Append(played, playing) \in Seq(0 .. Episodes - 1)
        /\ Len(Append(played, playing)) = Len(played) + 1
    BY DEF RestOK
  <2>4. Len(played') <= Episodes
    BY <1>0, <2>1, <2>2, <2>3
  <2> QED BY <1>1, <2>1, <2>3, <2>4 DEF RestOK, LearnPcs
<1> QED BY <1>3, <1>4, <1>5 DEF Learns

LEMMA TrainKeepsRest ==
  ASSUME RestOK, CycleInv, LossInv, TrainNext, UNCHANGED <<normalize, job, policy>>
  PROVE  RestOK'
<1>0. Episodes \in Nat \ {0} /\ MaxCalls \in Nat /\ MaxStarts \in Nat /\ steps \in Nat
  BY SizesAreSane, RunAssumption DEF LossInv, CountOK
<1>1. CASE Fresh \/ Resume
  <2>1. starts' \in 0 .. MaxStarts
    BY <1>0, <1>1 DEF Fresh, Resume, Start, RestOK
  <2> QED
    BY <1>1, <2>1 DEF Fresh, Resume, Start, learner, evaluation, RestOK, LearnPcs
<1>2. CASE Dies \/ StatisticsSaved
  <2>1. /\ pc' = "off" /\ calls' = 0 /\ playing' = 0 /\ played' = <<>> /\ improved' = FALSE
        /\ pkl' \in {pkl, "whole"} /\ UNCHANGED <<torn, starts>>
    BY <1>2 DEF Dies, StatisticsSaved, Forget, disk, checkpoints
  <2>2. <<>> \in Seq(0 .. Episodes - 1) /\ Len(<<>>) <= Episodes
    BY <1>0
  <2>3. 0 \in 0 .. MaxCalls /\ 0 \in 0 .. Episodes - 1
    BY <1>0
  <2> QED BY <2>1, <2>2, <2>3 DEF RestOK
<1>3. CASE Raises \/ SaveFinal \/ FinalSaved \/ SaveStatistics
  BY <1>3
  DEF Raises, SaveFinal, FinalSaved, SaveStatistics, memory, learner, evaluation, disk,
      checkpoints, RestOK, FinalPcs
<1>4. CASE NotBetter \/ Better \/ BestSaved \/ NoCheckpoint
  BY <1>4
  DEF NotBetter, Better, BestSaved, NoCheckpoint, memory, learner, evaluation, disk,
      checkpoints, RestOK, LearnPcs, SavePcs
<1>5. CASE Checkpoint \/ CheckpointSaved
  <2>1. torn' \subseteq torn \union {steps}
    BY <1>5 DEF Checkpoint, CheckpointSaved
  <2> QED
    BY <1>0, <1>5, <2>1
    DEF Checkpoint, CheckpointSaved, memory, learner, evaluation, RestOK, LearnPcs, SavePcs
<1>6. CASE Steps
  BY <1>6 DEF Steps, VecStep, evaluation, disk, checkpoints, RestOK, LearnPcs
<1>7. CASE Learns
  BY <1>7, LearnKeepsRest DEF Learns, disk, checkpoints, RestOK
<1> QED BY <1>1, <1>2, <1>3, <1>4, <1>5, <1>6, <1>7 DEF TrainNext

LEMMA NextRest ==
  ASSUME RestOK, CycleInv, LossInv, ExportInv, [Next]_allVars
  PROVE  RestOK'
<1>1. ASSUME UNCHANGED vars, normalize' = normalize, policy' \in Kind \union {Absent, Torn}
      PROVE  RestOK'
  BY <1>1 DEF vars, memory, learner, evaluation, disk, checkpoints, RestOK
<1>2. CASE ExportNext
  <2>1. policy' \in {policy, Torn, job.kind} /\ normalize' = normalize
    BY <1>2 DEF ExportNext, Trace, Refuse, Write, Written, ExportDies
  <2>2. job.kind \in Kind
    BY DEF ExportInv
  <2> QED BY <1>1, <1>2, <2>1, <2>2, ExportLeavesTraining DEF RestOK
<1>3. CASE UNCHANGED allVars
  BY <1>1, <1>3 DEF allVars, RestOK
<1> QED BY <1>2, <1>3, Cases, TrainKeepsRest

(* Every variable of the run directory, the learner and the export keeps   *)
(* its type: in particular the radius never leaves its range, the window   *)
(* never outgrows its length, and no evaluation plays more episodes than   *)
(* the list holds.                                                         *)
THEOREM Typed == Spec => []ExportOK
<1>1. ExportInit => TypeInv
  <2>1. ExportInit => ExportInv
    BY ExportAssumption DEF ExportInit, ExportInv, ExportIsThePolicy, NoJob, Kind
  <2>2. ExportInit => CycleInv
    BY DEF ExportInit, Init, LearnerInit, CycleInv
  <2> QED BY <2>1, <2>2, InitBacklog, InitLoss, InitRest DEF TypeInv
<1>2. TypeInv /\ [Next]_allVars => TypeInv'
  BY NextBacklog, NextLoss, NextCycle, NextExport, NextRest DEF TypeInv
<1>3. TypeInv => ExportOK
  <2> SUFFICES ASSUME TypeInv PROVE ExportOK
    OBVIOUS
  <2>1. LearnerOK
    BY DEF TypeInv, BacklogInv, CurriculumInv, CycleInv, RestOK, LearnerOK
  <2>2. RunOK
    BY <2>1 DEF TypeInv, LossInv, CountOK, LineageOK, RestOK, RunOK
  <2> QED BY <2>2 DEF TypeInv, ExportInv, RestOK, ExportOK
<1> QED BY <1>1, <1>2, <1>3, PTL DEF Spec
=============================================================================
