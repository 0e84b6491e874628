----------------------------- MODULE DeployRules -----------------------------
(***************************************************************************)
(* What the deployment side decides on, and the arithmetic of the decision *)
(* (robot_rl_env/deploy.py, contract.py).                                  *)
(*                                                                         *)
(* Metres are abstracted to what the rules compare them with.  A clearance *)
(* (the minimum of the pooled scan) is a number on the scale of the two    *)
(* thresholds.  A distance is only ever asked "is it below GOAL_TOLERANCE",*)
(* so poses and goals are opaque and Within says which pose is inside the  *)
(* tolerance of which goal.                                                *)
(***************************************************************************)
EXTENDS Naturals

CONSTANTS
  Goals,               \* goals a caller may hand over, in the odom frame
  NoGoal,              \* self._goal is None
  Poses,               \* robot poses /odom may report
  Within,              \* pairs <<pose, goal>> closer than GOAL_TOLERANCE
  Clearances,          \* values of pooled.min()
  NoData,              \* no message of that topic has arrived yet
  SafetyStop,          \* contract.SAFETY_STOP_THRESHOLD
  CollisionThreshold,  \* contract.COLLISION_THRESHOLD
  Actions,             \* what the policy may return, after clip_action
  Stop,                \* action.STOP, the action that scales to zero velocity
  MaxSteps             \* contract.MAX_EPISODE_STEPS

ASSUME DeployAssumption ==
  /\ NoGoal \notin Goals
  /\ Within \subseteq Poses \X Goals
  /\ Clearances \subseteq Nat
  /\ NoData \notin Clearances \cup Poses
  /\ SafetyStop \in Nat
  /\ CollisionThreshold \in Nat
  /\ Stop \in Actions
  /\ MaxSteps \in Nat \ {0}

(* contract.py keeps the deployment hard stop tighter than the collision   *)
(* threshold the policy was trained against.                               *)
ASSUME ThresholdAssumption == SafetyStop < CollisionThreshold

Terminal == {"success", "collision", "timeout"}
Outcomes == Terminal \cup {"idle", "running"}

Reached(pose, g) == <<pose, g>> \in Within

(* Mutants of Verdict: the budget compared strictly, and the deployment    *)
(* stop distance used where the training threshold belongs.                *)
VerdictOneStepLate(reached, clear, steps) ==
  IF reached THEN "success"
  ELSE IF clear < CollisionThreshold THEN "collision"
  ELSE IF steps > MaxSteps THEN "timeout"
  ELSE "running"

VerdictAtStopDistance(reached, clear, steps) ==
  IF reached THEN "success"
  ELSE IF clear < SafetyStop THEN "collision"
  ELSE IF steps >= MaxSteps THEN "timeout"
  ELSE "running"

(* The episode bookkeeping of one judged observation: the order of the     *)
(* three tests is the code's, success before collision before timeout.     *)
Verdict(reached, clear, steps) ==
  IF reached THEN "success"
  ELSE IF clear < CollisionThreshold THEN "collision"
  ELSE IF steps >= MaxSteps THEN "timeout"
  ELSE "running"
=============================================================================
