--------------------------- MODULE DeployLoopProofs ---------------------------
(***************************************************************************)
(* Proofs about DeployLoop for every choice of its constants.              *)
(***************************************************************************)
EXTENDS DeployLoop, TLAPS

(* What the wheels obey was decided on data that has since aged by no more *)
(* than the time since that tick.                                          *)
CommandIsRecent == status.action # Stop => SampleAge <= WatchdogTimeout + sinceTick

(* The inductive invariant.  GoalMeansEpisode is what keeps the policy out *)
(* of an idle controller, and with it the step count inside its budget.    *)
IInv ==
  /\ TypeOK
  /\ GoalMeansEpisode
  /\ CommandIsRecent

LEMMA VerdictType ==
  ASSUME NEW r, NEW c, NEW n
  PROVE  /\ Verdict(r, c, n) \in Outcomes
         /\ Verdict(r, c, n) # "idle"
         /\ Verdict(r, c, n) \in Terminal \/ Verdict(r, c, n) = "running"
BY DEF Verdict, Outcomes, Terminal

LEMMA JudgedType ==
  ASSUME TypeOK
  PROVE  /\ JudgedOutcome \in Outcomes
         /\ JudgedOutcome = "idle" <=> outcome = "idle"
BY VerdictType DEF JudgedOutcome, TypeOK

LEMMA SightedScan ==
  ASSUME TypeOK, ~Blind
  PROVE  /\ scan \in Clearances /\ scan \in Nat /\ scan # NoData
         /\ SampleClear = scan
         /\ SampleAge <= WatchdogTimeout
BY DeployAssumption, TimingAssumption DEF TypeOK, Blind, HasSample, SampleAge, SampleClear

LEMMA SampleTypes ==
  ASSUME TypeOK
  PROVE  /\ SampleAge \in 0..AgeCap
         /\ SampleClear \in Clearances \cup {NoData}
         /\ AtGoal \in BOOLEAN
BY DEF TypeOK, SampleAge, SampleClear, HasSample, AtGoal, Reached

LEMMA PolicyRuns ==
  ASSUME TypeOK, GoalMeansEpisode, NEW a \in Actions, TickPolicy(a)
  PROVE  /\ outcome = "running" /\ outcome' = "running"
         /\ ~AtGoal /\ scan >= CollisionThreshold /\ step < MaxSteps
<1>1. outcome # "idle"
  BY DEF TickPolicy, GoalMeansEpisode
<1>2. outcome = "running"
  BY <1>1 DEF TickPolicy, JudgedOutcome, TypeOK, Outcomes
<1>3. Verdict(AtGoal, scan, step) \notin Terminal /\ JudgedOutcome = Verdict(AtGoal, scan, step)
  BY <1>2 DEF TickPolicy, JudgedOutcome
<1>4. outcome' = "running"
  BY <1>3, VerdictType DEF TickPolicy
<1>5. scan \in Nat
  BY SightedScan DEF TickPolicy
<1>6. ~AtGoal /\ ~(scan < CollisionThreshold) /\ ~(step >= MaxSteps)
  BY <1>3 DEF Verdict, Terminal
<1>7. step \in Nat
  BY DEF TypeOK
<1> QED
  BY <1>2, <1>4, <1>5, <1>6, <1>7, DeployAssumption

-----------------------------------------------------------------------------
LEMMA HaltTypes ==
  ASSUME TypeOK, NEW r \in Reasons, NEW b \in BOOLEAN, outcome' \in Outcomes, Halt(r, b)
  PROVE  /\ prevAction' = Stop /\ prevAction' \in Actions
         /\ status' \in Statuses /\ status'.action = Stop
         /\ step' = step /\ goal' = goal
<1>1. Stop \in Actions
  BY DeployAssumption
<1>2. step \in 0..MaxSteps
  BY DEF TypeOK
<1>3. status' \in Statuses
  BY <1>1, <1>2, SampleTypes DEF Halt, Statuses
<1> QED
  BY <1>1, <1>3 DEF Halt

LEMMA TickTypes ==
  ASSUME TypeOK, GoalMeansEpisode, Tick
  PROVE  TypeOK' /\ GoalMeansEpisode'
<1>1. /\ JudgedOutcome \in Outcomes /\ outcome \in Outcomes
      /\ JudgedOutcome = "idle" <=> outcome = "idle"
  BY JudgedType DEF TypeOK
<1>2. /\ scan' \in Clearances \cup {NoData} /\ odom' \in Poses \cup {NoData}
      /\ scanAge' \in 0..AgeCap /\ odomAge' \in 0..AgeCap
      /\ sinceTick' \in 0..ControlPeriod
  BY TimingAssumption DEF TypeOK, Tick, sensors
<1>3. ASSUME NEW r \in Reasons, NEW b \in BOOLEAN, Halt(r, b),
             outcome' \in {outcome, JudgedOutcome}
      PROVE  TypeOK' /\ GoalMeansEpisode'
  <2>1. outcome' \in Outcomes /\ (outcome' = "idle" <=> outcome = "idle")
    BY <1>1, <1>3
  <2>2. /\ prevAction' \in Actions /\ status' \in Statuses
        /\ step' = step /\ goal' = goal
    BY <1>3, <2>1, HaltTypes
  <2> QED
    BY <1>2, <2>1, <2>2 DEF TypeOK, GoalMeansEpisode
<1>4. CASE TickWatchdog
  BY <1>3, <1>4 DEF TickWatchdog, Reasons
<1>5. CASE TickSafety
  BY <1>3, <1>5, SampleTypes DEF TickSafety, Reasons
<1>6. CASE TickTerminal
  BY <1>3, <1>6, SampleTypes DEF TickTerminal, Reasons
<1>7. CASE TickNoGoal
  BY <1>3, <1>7 DEF TickNoGoal, Reasons
<1>8. ASSUME NEW a \in Actions, TickPolicy(a)
      PROVE  TypeOK' /\ GoalMeansEpisode'
  <2>1. outcome = "running" /\ outcome' = "running" /\ step < MaxSteps
    BY <1>8, PolicyRuns
  <2>2. step' = step + 1 /\ step' \in 0..MaxSteps
    BY <1>8, <2>1, DeployAssumption DEF TickPolicy, TypeOK
  <2>3. scan \in Clearances
    BY <1>8, SightedScan DEF TickPolicy
  <2>4. status' = [action |-> a, reason |-> "policy", outcome |-> "running", step |-> step',
                   reached |-> AtGoal, clear |-> scan, age |-> SampleAge]
    BY <1>8, <2>1 DEF TickPolicy
  <2>5. status' \in Statuses
    BY <2>2, <2>3, <2>4, SampleTypes DEF Statuses, Reasons, Outcomes
  <2>6. goal' = goal /\ prevAction' \in Actions
    BY <1>8 DEF TickPolicy
  <2> QED
    BY <1>2, <2>1, <2>2, <2>5, <2>6 DEF TypeOK, GoalMeansEpisode, Outcomes
<1> QED
  BY <1>4, <1>5, <1>6, <1>7, <1>8 DEF Tick

LEMMA OlderType ==
  ASSUME NEW n \in 0..AgeCap
  PROVE  Older(n) \in 0..AgeCap /\ Older(n) <= n + 1
BY TimingAssumption DEF Older

LEMMA InitIInv == Init => IInv
<1> SUFFICES ASSUME Init PROVE IInv
  OBVIOUS
<1>1. TypeOK
  BY DeployAssumption, TimingAssumption
  DEF Init, TypeOK, Statuses, Reasons, Outcomes, Terminal
<1>2. GoalMeansEpisode /\ CommandIsRecent
  BY DEF Init, GoalMeansEpisode, CommandIsRecent
<1> QED
  BY <1>1, <1>2 DEF IInv

LEMMA NextIInv == IInv /\ [Next]_vars => IInv'
<1> SUFFICES ASSUME IInv, [Next]_vars PROVE IInv'
  OBVIOUS
<1> USE DEF IInv
<1>1. ASSUME NEW c \in Clearances, OnScan(c) PROVE IInv'
  <2>1. TypeOK' /\ GoalMeansEpisode'
    BY <1>1, TimingAssumption DEF OnScan, TypeOK, GoalMeansEpisode, controller
  <2>2. SampleAge' <= SampleAge
    BY <1>1 DEF OnScan, SampleAge, TypeOK
  <2>3. CommandIsRecent'
    BY <1>1, <2>1, <2>2, SampleTypes, TimingAssumption
    DEF OnScan, CommandIsRecent, TypeOK, SampleAge
  <2> QED BY <2>1, <2>3
<1>2. ASSUME NEW p \in Poses, OnOdom(p) PROVE IInv'
  <2>1. TypeOK' /\ GoalMeansEpisode'
    BY <1>2, TimingAssumption DEF OnOdom, TypeOK, GoalMeansEpisode, controller
  <2>2. SampleAge' <= SampleAge
    BY <1>2 DEF OnOdom, SampleAge, TypeOK
  <2>3. CommandIsRecent'
    BY <1>2, <2>1, <2>2, SampleTypes, TimingAssumption
    DEF OnOdom, CommandIsRecent, TypeOK, SampleAge
  <2> QED BY <2>1, <2>3
<1>3. CASE Tock
  <2>1. /\ scanAge' = Older(scanAge) /\ odomAge' = Older(odomAge)
        /\ scanAge' \in 0..AgeCap /\ odomAge' \in 0..AgeCap
        /\ scanAge' <= scanAge + 1 /\ odomAge' <= odomAge + 1
    BY <1>3, OlderType DEF Tock, TypeOK
  <2>2. TypeOK' /\ GoalMeansEpisode'
    BY <1>3, <2>1, TimingAssumption DEF Tock, TypeOK, GoalMeansEpisode, controller
  <2>3. SampleAge' <= SampleAge + 1
    BY <2>1 DEF SampleAge, TypeOK
  <2>4. CommandIsRecent'
    BY <1>3, <2>1, <2>2, <2>3, SampleTypes, TimingAssumption
    DEF Tock, CommandIsRecent, TypeOK, SampleAge
  <2> QED BY <2>2, <2>4
<1>4. ASSUME NEW g \in Goals, SetGoal(g) PROVE IInv'
  <2>1. SampleAge' = SampleAge
    BY <1>4 DEF SetGoal, SampleAge, sensors
  <2> QED
    BY <1>4, <2>1, DeployAssumption
    DEF SetGoal, TypeOK, GoalMeansEpisode, CommandIsRecent, Outcomes, sensors
<1>5. CASE ClearGoal
  <2>1. SampleAge' = SampleAge
    BY <1>5 DEF ClearGoal, SampleAge, sensors
  <2> QED
    BY <1>5, <2>1, DeployAssumption
    DEF ClearGoal, TypeOK, GoalMeansEpisode, CommandIsRecent, Outcomes, sensors
<1>6. CASE Tick
  <2>1. TypeOK' /\ GoalMeansEpisode'
    BY <1>6, TickTypes
  <2>2. SampleAge' = SampleAge /\ sinceTick' = 0
    BY <1>6 DEF Tick, sensors, SampleAge
  <2>3. status'.action = Stop \/ SampleAge <= WatchdogTimeout
    <3>1. CASE \E a \in Actions : TickPolicy(a)
      BY <3>1, SightedScan DEF TickPolicy
    <3>2. CASE TickWatchdog \/ TickSafety \/ TickTerminal \/ TickNoGoal
      BY <3>2 DEF TickWatchdog, TickSafety, TickTerminal, TickNoGoal, Halt
    <3> QED BY <1>6, <3>1, <3>2 DEF Tick
  <2>4. CommandIsRecent'
    BY <2>2, <2>3, SampleTypes, TimingAssumption DEF CommandIsRecent
  <2> QED BY <2>1, <2>4
<1>7. CASE UNCHANGED vars
  BY <1>7 DEF vars, sensors, controller, TypeOK, GoalMeansEpisode, CommandIsRecent, SampleAge
<1> QED
  BY <1>1, <1>2, <1>3, <1>4, <1>5, <1>6, <1>7 DEF Next

(* The inductive invariant holds in every reachable state. *)
THEOREM Inductive == Spec => []IInv
BY InitIInv, NextIInv, PTL DEF Spec

(* Every variable of the loop keeps its type; in particular the step count *)
(* of deploy.DeploymentController never leaves its budget.                 *)
THEOREM Typed == Spec => []TypeOK
<1>1. IInv => TypeOK
  BY DEF IInv
<1> QED BY <1>1, Inductive, PTL

(* A goal and an episode come and go together. *)
THEOREM GoalIsEpisode == Spec => []GoalMeansEpisode
<1>1. IInv => GoalMeansEpisode
  BY DEF IInv
<1> QED BY <1>1, Inductive, PTL

(* A motion command outlives the older of its two readings by at most the  *)
(* watchdog timeout and one control period, whatever those are.            *)
THEOREM BlindRobotStops == Spec => []WheelsStopWhenBlind
<1>1. IInv => WheelsStopWhenBlind
  BY SampleTypes, TimingAssumption DEF IInv, CommandIsRecent, WheelsStopWhenBlind, TypeOK
<1> QED BY <1>1, Inductive, PTL

-----------------------------------------------------------------------------
(* What a Command says was true of the sample it was decided on.  A tick   *)
(* that trips the gate finds any running episode collided or better.       *)
LEMMA SafetyEnds ==
  ASSUME TypeOK, TickSafety
  PROVE  outcome' # "running"
<1>1. scan \in Nat /\ scan < CollisionThreshold
  BY SightedScan, DeployAssumption, ThresholdAssumption DEF TickSafety
<1>2. Verdict(AtGoal, scan, step) # "running"
  BY <1>1 DEF Verdict
<1> QED
  BY <1>2 DEF TickSafety, JudgedOutcome

LEMMA InitCommand ==
  Init => DriveIsJustified /\ SafetyTripEndsEpisode /\ PrevActionNeverInvented
BY DEF Init, DriveIsJustified, SafetyTripEndsEpisode, PrevActionNeverInvented

LEMMA NextCommand ==
  ASSUME IInv, [Next]_vars,
         DriveIsJustified, SafetyTripEndsEpisode, PrevActionNeverInvented
  PROVE  DriveIsJustified' /\ SafetyTripEndsEpisode' /\ PrevActionNeverInvented'
<1>1. CASE UNCHANGED <<status, prevAction>>
  BY <1>1 DEF DriveIsJustified, SafetyTripEndsEpisode, PrevActionNeverInvented
<1>2. CASE UNCHANGED status /\ prevAction' = Stop
  BY <1>2 DEF DriveIsJustified, SafetyTripEndsEpisode, PrevActionNeverInvented
<1>3. CASE TickSafety
  <2>1. status'.reason = "safety" /\ status'.outcome # "running" /\ prevAction' = Stop
    BY <1>3, SafetyEnds DEF TickSafety, Halt, IInv
  <2> QED
    BY <2>1 DEF DriveIsJustified, SafetyTripEndsEpisode, PrevActionNeverInvented
<1>4. CASE TickWatchdog \/ TickTerminal \/ TickNoGoal
  <2>1. prevAction' = Stop /\ status'.reason \in Terminal \cup {"watchdog", "no_goal"}
    BY <1>4 DEF TickWatchdog, TickTerminal, TickNoGoal, Halt
  <2> QED
    BY <2>1 DEF Terminal, DriveIsJustified, SafetyTripEndsEpisode, PrevActionNeverInvented
<1>5. ASSUME NEW a \in Actions, TickPolicy(a)
      PROVE  DriveIsJustified' /\ SafetyTripEndsEpisode' /\ PrevActionNeverInvented'
  <2>1. outcome' = "running" /\ ~AtGoal /\ scan >= CollisionThreshold
    BY <1>5, PolicyRuns DEF IInv
  <2>2. SampleAge <= WatchdogTimeout
    BY <1>5, SightedScan DEF TickPolicy, IInv
  <2>3. status' = [action |-> a, reason |-> "policy", outcome |-> "running", step |-> step',
                   reached |-> AtGoal, clear |-> scan, age |-> SampleAge]
    BY <1>5, <2>1 DEF TickPolicy
  <2>4. prevAction' = a
    BY <1>5 DEF TickPolicy
  <2> QED
    BY <2>1, <2>2, <2>3, <2>4
    DEF DriveIsJustified, SafetyTripEndsEpisode, PrevActionNeverInvented
<1> QED
  BY <1>1, <1>2, <1>3, <1>4, <1>5
  DEF Next, OnScan, OnOdom, Tock, SetGoal, ClearGoal, Tick, vars, controller

LEMMA Commands ==
  Spec => [](DriveIsJustified /\ SafetyTripEndsEpisode /\ PrevActionNeverInvented)
<1> DEFINE Good == DriveIsJustified /\ SafetyTripEndsEpisode /\ PrevActionNeverInvented
<1>1. Init => Good
  BY InitCommand
<1>2. IInv /\ Good /\ [Next]_vars => Good'
  BY NextCommand
<1> HIDE DEF Good
<1>3. Spec => []Good
  BY <1>1, <1>2, Inductive, PTL DEF Spec
<1> QED
  BY <1>3 DEF Good

(* The policy drives only in a running episode, on a sample no older than  *)
(* the watchdog allows that shows neither the goal nor a collision.        *)
THEOREM DrivesOnlyJustified == Spec => []DriveIsJustified
BY Commands, PTL

(* No running episode survives a tick that trips the safety gate: this is  *)
(* where the gate being tighter than the collision threshold is used.      *)
THEOREM SafetyTripEnds == Spec => []SafetyTripEndsEpisode
BY Commands, PTL

(* The previous action the policy is shown was published or is a stop.     *)
THEOREM PrevActionIsReal == Spec => []PrevActionNeverInvented
BY Commands, PTL

-----------------------------------------------------------------------------
(* The loop implements the episode contract of the training environment.   *)

LEMMA ObservedType ==
  ASSUME TypeOK
  PROVE  Observed \in Contract!Seen
BY DEF TypeOK, Statuses, Observed, Contract!Seen

LEMMA SameVerdict ==
  ASSUME NEW r, NEW c, NEW n, NEW s, s.reached = r, s.collided = (c < CollisionThreshold)
  PROVE  Contract!EnvVerdict(s, n) = Verdict(r, c, n)
BY DEF Verdict, Contract!EnvVerdict

(* A tick that records a verdict judges the newest action, or the start.   *)
LEMMA BookingJudges ==
  ASSUME TypeOK, TypeOK', outcome = "running", ~Blind,
         outcome' = Verdict(AtGoal, scan, step),
         Observed' = [reached |-> AtGoal, collided |-> scan < CollisionThreshold],
         outcome' = "running" => step' = step + 1,
         outcome' # "running" => step' = step
  PROVE  Contract!ContractNext
<1>1. step \in Nat /\ step' \in Nat
  BY DEF TypeOK
<1>2. Observed' \in Contract!Seen
  BY SampleTypes DEF Contract!Seen
<1>3. CASE step = 0
  <2>1. Judged = 0 /\ Judged' = 0
    BY <1>1, <1>3 DEF Judged
  <2>2. outcome' = Contract!EnvVerdict(Observed', 0)
    BY <1>3, SameVerdict
  <2>3. Contract!JudgeStart
    BY <2>1, <2>2, <1>2 DEF Contract!JudgeStart
  <2> QED BY <2>3 DEF Contract!ContractNext
<1>4. CASE step > 0
  <2>1. Judged = step - 1 /\ Judged' = step /\ Judged' = Judged + 1
    <3>1. Judged = step - 1
      BY <1>4 DEF Judged
    <3>2. CASE outcome' = "running"
      BY <1>1, <1>4, <3>1, <3>2 DEF Judged
    <3>3. CASE outcome' # "running"
      BY <1>1, <3>1, <3>3 DEF Judged
    <3> QED BY <3>1, <3>2, <3>3
  <2>2. outcome' = Contract!EnvVerdict(Observed', Judged')
    BY <2>1, SameVerdict
  <2>3. Contract!Judge
    BY <2>1, <2>2, <1>2 DEF Contract!Judge
  <2> QED BY <2>3 DEF Contract!ContractNext
<1> QED
  BY <1>1, <1>3, <1>4

LEMMA LookingLooks ==
  ASSUME TypeOK', outcome' = outcome, step' = step
  PROVE  Contract!ContractNext
<1>1. Judged' = Judged
  BY DEF Judged
<1>2. Observed' \in Contract!Seen
  BY DEF TypeOK, Statuses, Observed, Contract!Seen
<1> QED
  BY <1>1, <1>2 DEF Contract!Look, Contract!ContractNext

LEMMA TickKeepsContract ==
  ASSUME TypeOK, GoalMeansEpisode, TypeOK', Tick
  PROVE  Contract!ContractNext
<1>1. CASE TickWatchdog
  BY <1>1, LookingLooks DEF TickWatchdog, Halt
<1>2. ASSUME TickSafety \/ TickTerminal \/ TickNoGoal
      PROVE  Contract!ContractNext
  <2>1. ~Blind /\ outcome' = JudgedOutcome /\ step' = step
    BY <1>2 DEF TickSafety, TickTerminal, TickNoGoal, Halt
  <2>2. CASE outcome # "running"
    BY <2>1, <2>2, LookingLooks DEF JudgedOutcome
  <2>3. CASE outcome = "running"
    <3>1. outcome' # "running"
      <4>1. CASE TickSafety
        BY <4>1, SafetyEnds
      <4>2. CASE TickTerminal
        BY <4>2 DEF TickTerminal, Terminal
      <4>3. CASE TickNoGoal
        BY <4>3, <2>3 DEF TickNoGoal, GoalMeansEpisode
      <4> QED BY <1>2, <4>1, <4>2, <4>3
    <3>2. SampleClear = scan /\ scan # NoData
      BY <2>1, SightedScan
    <3>3. status'.reached = AtGoal /\ status'.clear = scan
      <4>1. CASE TickSafety \/ TickTerminal
        BY <4>1, <3>2 DEF TickSafety, TickTerminal, Halt
      <4>2. CASE TickNoGoal
        BY <4>2, <2>3 DEF TickNoGoal, GoalMeansEpisode
      <4> QED BY <1>2, <4>1, <4>2
    <3>4. Observed' = [reached |-> AtGoal, collided |-> scan < CollisionThreshold]
      BY <3>2, <3>3 DEF Observed
    <3> QED
      BY <2>1, <2>3, <3>1, <3>4, BookingJudges DEF JudgedOutcome
  <2> QED BY <2>2, <2>3
<1>3. ASSUME NEW a \in Actions, TickPolicy(a)
      PROVE  Contract!ContractNext
  <2>1. outcome = "running" /\ outcome' = "running" /\ ~Blind /\ step' = step + 1
    BY <1>3, PolicyRuns DEF TickPolicy
  <2>2. outcome' = Verdict(AtGoal, scan, step)
    BY <1>3, <2>1 DEF TickPolicy, JudgedOutcome
  <2>3. status'.reached = AtGoal /\ status'.clear = scan /\ scan # NoData
    BY <1>3, <2>1, SightedScan DEF TickPolicy
  <2>4. Observed' = [reached |-> AtGoal, collided |-> scan < CollisionThreshold]
    BY <2>3 DEF Observed
  <2> QED
    BY <2>1, <2>2, <2>4, BookingJudges
<1> QED
  BY <1>1, <1>2, <1>3 DEF Tick

LEMMA StepKeepsContract ==
  ASSUME IInv, TypeOK', [Next]_vars
  PROVE  [Contract!ContractNext]_(Contract!contractVars)
<1>1. CASE UNCHANGED <<outcome, step, status>>
  BY <1>1 DEF Contract!contractVars, Judged, Observed
<1>2. ASSUME NEW g \in Goals, SetGoal(g) PROVE Contract!ContractNext
  BY <1>2 DEF SetGoal, Contract!ContractNext, Contract!Begin, Judged, Observed
<1>3. CASE ClearGoal
  BY <1>3 DEF ClearGoal, Contract!ContractNext, Contract!Abandon, Judged, Observed
<1>4. CASE Tick
  BY <1>4, TickKeepsContract DEF IInv
<1> QED
  BY <1>1, <1>2, <1>3, <1>4 DEF Next, OnScan, OnOdom, Tock, vars, controller

(* deploy.py's controller keeps the books of env.step: its steps are steps *)
(* of the episode contract or leave the contract's state alone.            *)
THEOREM ImplementsContract == Spec => KeepsEpisodeContract
<1>1. Init => Contract!ContractInit
  BY DEF Init, Contract!ContractInit, Contract!Seen, Judged, Observed
<1>2. IInv /\ IInv' /\ [Next]_vars => [Contract!ContractNext]_(Contract!contractVars)
  BY StepKeepsContract DEF IInv
<1> QED
  BY <1>1, <1>2, Inductive, PTL DEF Spec, KeepsEpisodeContract, Contract!ContractSpec
=============================================================================
