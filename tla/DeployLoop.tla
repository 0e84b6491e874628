------------------------------ MODULE DeployLoop ------------------------------
(***************************************************************************)
(* The free-running control loop as its authors intend it to run: one      *)
(* timer callback at a time, goals handed over between ticks.  One action  *)
(* per operation of deploy.DeploymentController, with policy_node._on_tick *)
(* around tick() and the sample cache of ObservationAssembler under it.    *)
(* PolicyNode.tla is the same loop with the threads it really runs on.     *)
(*                                                                         *)
(* Wall-clock time passes in Tock, in units of which ControlPeriod make up *)
(* one period of the control timer; a tick is never later than its period. *)
(***************************************************************************)
EXTENDS DeployRules

CONSTANTS
  WatchdogTimeout,  \* contract.WATCHDOG_TIMEOUT
  ControlPeriod,    \* units of wall clock per timer period
  AgeCap            \* ages saturate here: the only bound of the model

ASSUME TimingAssumption ==
  /\ WatchdogTimeout \in Nat
  /\ ControlPeriod \in Nat \ {0}
  /\ AgeCap \in Nat
  /\ AgeCap > WatchdogTimeout + ControlPeriod

VARIABLES
  scan, odom,        \* ObservationAssembler's cache: min pooled range, pose
  scanAge, odomAge,  \* wall clock since each arrived
  goal, outcome, step, prevAction,   \* DeploymentController
  status,            \* the last Command, with the age its tick saw
  sinceTick          \* wall clock since the last tick

sensors    == <<scan, odom, scanAge, odomAge>>
controller == <<goal, outcome, step, prevAction>>
vars       == <<sensors, controller, status, sinceTick>>

-----------------------------------------------------------------------------
HasSample == scan # NoData /\ odom # NoData

(* A snapshot is as old as its older topic. *)
SampleAge == IF scanAge >= odomAge THEN scanAge ELSE odomAge

(* min_lidar of the snapshot; None when there is no snapshot to take. *)
SampleClear == IF HasSample THEN scan ELSE NoData

(* Mutant of Blind: the age of one topic passes for the age of both. *)
BlindToOdom == ~HasSample \/ scanAge > WatchdogTimeout

Blind == ~HasSample \/ SampleAge > WatchdogTimeout

AtGoal == goal # NoGoal /\ Reached(odom, goal)

(* What the tick's bookkeeping makes of the sample; only a running episode *)
(* is judged.                                                              *)
JudgedOutcome == IF outcome = "running" THEN Verdict(AtGoal, scan, step) ELSE outcome

Reasons == Terminal \cup {"none", "watchdog", "safety", "no_goal", "policy"}

Statuses == [action : Actions, reason : Reasons, outcome : Outcomes,
             step : 0..MaxSteps, reached : BOOLEAN,
             clear : Clearances \cup {NoData}, age : 0..AgeCap]

Init ==
  /\ scan = NoData /\ odom = NoData
  /\ scanAge = AgeCap /\ odomAge = AgeCap
  /\ goal = NoGoal /\ outcome = "idle" /\ step = 0 /\ prevAction = Stop
  /\ status = [action |-> Stop, reason |-> "none", outcome |-> "idle", step |-> 0,
               reached |-> FALSE, clear |-> NoData, age |-> AgeCap]
  /\ sinceTick = 0

-----------------------------------------------------------------------------
(* Sensors and time. *)

OnScan(c) ==
  /\ scan' = c /\ scanAge' = 0
  /\ UNCHANGED <<odom, odomAge, controller, status, sinceTick>>

OnOdom(p) ==
  /\ odom' = p /\ odomAge' = 0
  /\ UNCHANGED <<scan, scanAge, controller, status, sinceTick>>

Older(age) == IF age < AgeCap THEN age + 1 ELSE AgeCap

Tock ==
  /\ sinceTick < ControlPeriod
  /\ scanAge' = Older(scanAge) /\ odomAge' = Older(odomAge)
  /\ sinceTick' = sinceTick + 1
  /\ UNCHANGED <<scan, odom, controller, status>>

-----------------------------------------------------------------------------
(* Goals. *)

(* Mutant: a goal that does not restart the count.                         *)
SetGoalMidCount(g) ==
  /\ goal' = g /\ outcome' = "running" /\ prevAction' = Stop
  /\ UNCHANGED <<step, sensors, status, sinceTick>>

SetGoal(g) ==
  /\ goal' = g /\ outcome' = "running" /\ step' = 0 /\ prevAction' = Stop
  /\ UNCHANGED <<sensors, status, sinceTick>>

ClearGoal ==
  /\ goal' = NoGoal /\ outcome' = "idle" /\ step' = 0 /\ prevAction' = Stop
  /\ UNCHANGED <<sensors, status, sinceTick>>

-----------------------------------------------------------------------------
(* The tick.  Halt is _stop(): a stop is remembered as the previous action *)
(* and the Command carries the outcome the bookkeeping has just recorded.  *)

(* Mutant of Halt: the policy is not told that the robot was stopped. *)
HaltUntold(reason, reached) ==
  /\ UNCHANGED prevAction
  /\ status' = [action |-> Stop, reason |-> reason, outcome |-> outcome', step |-> step,
                reached |-> reached, clear |-> SampleClear, age |-> SampleAge]
  /\ UNCHANGED <<goal, step>>

Halt(reason, reached) ==
  /\ prevAction' = Stop
  /\ status' = [action |-> Stop, reason |-> reason, outcome |-> outcome', step |-> step,
                reached |-> reached, clear |-> SampleClear, age |-> SampleAge]
  /\ UNCHANGED <<goal, step>>

TickWatchdog ==
  /\ Blind
  /\ UNCHANGED outcome
  /\ Halt("watchdog", FALSE)

(* Mutant of TickSafety: the gate ahead of the bookkeeping. *)
TickSafetyUnbooked ==
  /\ ~Blind /\ scan < SafetyStop
  /\ UNCHANGED outcome
  /\ Halt("safety", AtGoal)

TickSafety ==
  /\ ~Blind /\ scan < SafetyStop
  /\ outcome' = JudgedOutcome
  /\ Halt("safety", AtGoal)

TickTerminal ==
  /\ ~Blind /\ scan >= SafetyStop
  /\ JudgedOutcome \in Terminal
  /\ outcome' = JudgedOutcome
  /\ Halt(JudgedOutcome, AtGoal)

TickNoGoal ==
  /\ ~Blind /\ scan >= SafetyStop
  /\ JudgedOutcome \notin Terminal /\ goal = NoGoal
  /\ outcome' = JudgedOutcome
  /\ Halt("no_goal", FALSE)

(* Mutant of TickPolicy: an action that costs no step. *)
TickPolicyUncounted(a) ==
  /\ ~Blind /\ scan >= SafetyStop
  /\ JudgedOutcome \notin Terminal /\ goal # NoGoal
  /\ outcome' = JudgedOutcome
  /\ prevAction' = a /\ step' = step
  /\ status' = [action |-> a, reason |-> "policy", outcome |-> outcome', step |-> step',
                reached |-> AtGoal, clear |-> scan, age |-> SampleAge]
  /\ UNCHANGED goal

TickPolicy(a) ==
  /\ ~Blind /\ scan >= SafetyStop
  /\ JudgedOutcome \notin Terminal /\ goal # NoGoal
  /\ outcome' = JudgedOutcome
  /\ prevAction' = a /\ step' = step + 1
  /\ status' = [action |-> a, reason |-> "policy", outcome |-> outcome', step |-> step',
                reached |-> AtGoal, clear |-> scan, age |-> SampleAge]
  /\ UNCHANGED goal

Tick ==
  /\ \/ TickWatchdog \/ TickSafety \/ TickTerminal \/ TickNoGoal
     \/ \E a \in Actions : TickPolicy(a)
  /\ sinceTick' = 0
  /\ UNCHANGED sensors

-----------------------------------------------------------------------------
Next ==
  \/ \E c \in Clearances : OnScan(c)
  \/ \E p \in Poses : OnOdom(p)
  \/ Tock
  \/ \E g \in Goals : SetGoal(g)
  \/ ClearGoal
  \/ Tick

Spec == Init /\ [][Next]_vars

(* The timer keeps firing; nothing obliges sensors, callers or the clock.  *)
FairSpec == Spec /\ WF_vars(Tick)

-----------------------------------------------------------------------------
(* Properties. *)

TypeOK ==
  /\ scan \in Clearances \cup {NoData} /\ odom \in Poses \cup {NoData}
  /\ scanAge \in 0..AgeCap /\ odomAge \in 0..AgeCap
  /\ goal \in Goals \cup {NoGoal} /\ outcome \in Outcomes
  /\ step \in 0..MaxSteps /\ prevAction \in Actions
  /\ status \in Statuses
  /\ sinceTick \in 0..ControlPeriod

(* A robot is never left driving on old data: whatever stops arriving (one *)
(* topic is enough), a non-zero command outlives the older of its two      *)
(* readings by at most the watchdog timeout and one control period.  This  *)
(* is the age rule of latest_sample together with the watchdog of tick.    *)
WheelsStopWhenBlind ==
  status.action # Stop => SampleAge <= WatchdogTimeout + ControlPeriod

(* The policy drives only inside an episode that has not ended, on a fresh *)
(* sample that shows neither the goal nor a collision: no order of late    *)
(* data, retargeting and stops lets tick reach the policy otherwise.       *)
DriveIsJustified ==
  status.reason = "policy" =>
    /\ status.outcome = "running" /\ ~status.reached
    /\ status.clear >= CollisionThreshold
    /\ status.age <= WatchdogTimeout

(* A safety stop is never the only thing wrong: no running episode         *)
(* survives a tick that trips the gate (deploy.py, module docstring).      *)
SafetyTripEndsEpisode ==
  status.reason = "safety" => status.outcome # "running"

(* What the next observation will call the previous action is either what  *)
(* was last published or a stop; it never claims motion that was cancelled *)
(* (_stop, set_goal and clear_goal all rewrite it).                        *)
PrevActionNeverInvented == prevAction \in {status.action, Stop}

(* There is a goal exactly when there is an episode, whatever sequence of  *)
(* goals, clears and ticks: tick never compares a distance it did not take *)
(* (deploy.py computes it only for a goal and uses it only when running).  *)
GoalMeansEpisode == (goal = NoGoal) <=> (outcome = "idle")

(* Judged actions: the newest action of a running episode is still out.    *)
Judged == IF outcome = "running" /\ step > 0 THEN step - 1 ELSE step

Observed == [reached |-> status.reached,
             collided |-> status.clear # NoData /\ status.clear < CollisionThreshold]

Contract == INSTANCE EpisodeContract
              WITH phase <- outcome, judged <- Judged, seen <- Observed

(* The controller keeps the books of env.step: every action is judged once,*)
(* by the same rules, watchdog ticks cost no step, an ended episode stays  *)
(* ended until the next goal (deploy.py: "mirrors env.step exactly").      *)
KeepsEpisodeContract == Contract!ContractSpec

(* A caller handing over a goal. *)
Retarget == \E g \in Goals : SetGoal(g)

(* Once callers leave it alone, an episode ends or is held by the          *)
(* watchdog: the step budget cannot be outlived while data is fresh.       *)
EpisodeEnds ==
  (<>[][~Retarget]_vars) =>
     ((outcome = "running") ~> (outcome # "running" \/ status.reason = "watchdog"))
=============================================================================
