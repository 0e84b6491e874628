------------------------------ MODULE PolicyNode ------------------------------
(***************************************************************************)
(* The deployment node with the threads it runs on (policy_node.py,        *)
(* deploy_eval.py).  The control timer has a mutually exclusive callback   *)
(* group of its own, so ticks do not overlap each other; goals arrive on a *)
(* reentrant group (policy_node) or from the harness thread (deploy_eval), *)
(* so set_goal and clear_goal run at the same time as a tick and as each   *)
(* other.  Nothing locks the controller: every read and every assignment   *)
(* of one of its attributes is a step of its own here.                     *)
(***************************************************************************)
EXTENDS DeployRules

CONSTANTS
  Callers,     \* threads that hand over goals
  StepCap,     \* bound: past MaxSteps every count means the same
  Hosts        \* programs that run the node: "policy_node", "deploy_eval"

ASSUME NodeAssumption ==
  /\ StepCap \in Nat /\ StepCap > MaxSteps
  /\ Hosts \subseteq {"policy_node", "deploy_eval"}

VARIABLES
  host,          \* the program this is
  silent,        \* has the bridge stopped delivering?
  goal, outcome, step, prevAction,  \* DeploymentController's attributes
  tick,          \* the control callback: its pc and its local variables
  caller,        \* each caller: its pc and the goal it carries
  main,          \* the main thread: spin, brake, shutdown, down
  wheels         \* the last message on /cmd_vel

controller == <<goal, outcome, step, prevAction>>
vars == <<host, silent, controller, tick, caller, main, wheels>>

(* deploy_eval also clears goals; policy_node never does.  It spins the    *)
(* executor on a thread of its own; policy_node on the main thread.        *)
MayClear == host = "deploy_eval"
SpinOnMain == host = "policy_node"

TickPcs == {"idle", "ask_goal", "measure", "ask_running", "judge", "book", "gate",
            "ask_goal_again", "assemble", "policy", "read_count", "write_count",
            "halt", "publish_policy", "publish_stop", "raised"}

IdleTick == [pc |-> "idle", clear |-> NoData, pose |-> NoData, fresh |-> FALSE,
             dist |-> "none", verdict |-> "running", count |-> 0, action |-> Stop]

IdleCaller == [pc |-> "idle", goal |-> NoGoal]

Init ==
  /\ host \in Hosts /\ silent = FALSE
  /\ goal = NoGoal /\ outcome = "idle" /\ step = 0 /\ prevAction = Stop
  /\ tick = IdleTick
  /\ caller = [c \in Callers |-> IdleCaller]
  /\ main = "spin"
  /\ wheels = Stop

(* The executor hands out callbacks: while the thread that spins it does.  *)
(* A callback that raised ends the spin.                                   *)
Dispatching ==
  /\ tick.pc # "raised"
  /\ main = "spin" \/ (~SpinOnMain /\ main \in {"brake", "shutdown"})

(* Callbacks in flight keep running until the nodes are destroyed. *)
Alive == main # "down"

-----------------------------------------------------------------------------
(* The bridge.  What the sample cache holds is abstracted to what a snapshot *)
(* of it can be: any fresh reading while data arrives, and, always, nothing *)
(* or something older than the watchdog allows (DeployLoop models the cache *)
(* and its ages).                                                           *)

FallSilent == ~silent /\ silent' = TRUE /\ UNCHANGED <<host, controller, tick, caller, main, wheels>>
Recover    == silent /\ silent' = FALSE /\ UNCHANGED <<host, controller, tick, caller, main, wheels>>

-----------------------------------------------------------------------------
(* The control callback, one shared read or write a step. *)

TickAt(pc) == Alive /\ tick.pc = pc
TickGoto(pc) == tick' = [tick EXCEPT !.pc = pc]
OutsideTick == <<host, silent, caller, main>>

(* Mutant: no sample, no message (the wheels keep what they had). *)
TickSampleBlindHolds ==
  /\ Dispatching /\ TickAt("idle")
  /\ UNCHANGED vars

(* _on_tick and the watchdog: the snapshot is taken under one lock, and one *)
(* that is missing or too old is all the tick needs to know.                *)
TickSampleBlind ==
  /\ Dispatching /\ TickAt("idle")
  /\ TickGoto("halt")
  /\ UNCHANGED <<OutsideTick, controller, wheels>>

TickSample(c, p) ==
  /\ Dispatching /\ TickAt("idle")
  /\ ~silent
  /\ tick' = [tick EXCEPT !.pc = "ask_goal", !.clear = c, !.pose = p, !.fresh = TRUE]
  /\ UNCHANGED <<OutsideTick, controller, wheels>>

(* distance = None if self._goal is None else math.dist(.., self._goal):   *)
(* the goal is read twice.                                                 *)
TickAskGoal ==
  /\ TickAt("ask_goal")
  /\ TickGoto(IF goal = NoGoal THEN "ask_running" ELSE "measure")
  /\ UNCHANGED <<OutsideTick, controller, wheels>>

TickMeasure ==
  /\ TickAt("measure")
  /\ IF goal = NoGoal
       THEN TickGoto("raised")
       ELSE tick' = [tick EXCEPT !.pc = "ask_running",
                                 !.dist = IF Reached(tick.pose, goal) THEN "near" ELSE "far"]
  /\ UNCHANGED <<OutsideTick, controller, wheels>>

TickAskRunning ==
  /\ TickAt("ask_running")
  /\ TickGoto(IF outcome = "running" THEN "judge" ELSE "gate")
  /\ UNCHANGED <<OutsideTick, controller, wheels>>

(* Comparing a distance that was never taken raises TypeError. *)
TickJudge ==
  /\ TickAt("judge")
  /\ IF tick.dist = "none"
       THEN TickGoto("raised")
       ELSE LET v == Verdict(tick.dist = "near", tick.clear, step)
            IN  tick' = [tick EXCEPT !.pc = IF v = "running" THEN "gate" ELSE "book",
                                     !.verdict = v]
  /\ UNCHANGED <<OutsideTick, controller, wheels>>

TickBook ==
  /\ TickAt("book")
  /\ outcome' = tick.verdict
  /\ TickGoto("gate")
  /\ UNCHANGED <<OutsideTick, goal, step, prevAction, wheels>>

(* Mutant of TickGate: a collision outcome trusted to stop the robot. *)
TickGateByOutcome ==
  /\ TickAt("gate")
  /\ TickGoto(IF outcome \in Terminal THEN "halt" ELSE "ask_goal_again")
  /\ UNCHANGED <<OutsideTick, controller, wheels>>

(* The safety gate looks at the snapshot alone; only then is the outcome   *)
(* read again.                                                             *)
TickGate ==
  /\ TickAt("gate")
  /\ TickGoto(IF tick.clear < SafetyStop \/ outcome \in Terminal
                THEN "halt" ELSE "ask_goal_again")
  /\ UNCHANGED <<OutsideTick, controller, wheels>>

TickAskGoalAgain ==
  /\ TickAt("ask_goal_again")
  /\ TickGoto(IF goal = NoGoal THEN "halt" ELSE "assemble")
  /\ UNCHANGED <<OutsideTick, controller, wheels>>

(* assemble_observation cannot take a goal that has been cleared since. *)
TickAssemble ==
  /\ TickAt("assemble")
  /\ TickGoto(IF goal = NoGoal THEN "raised" ELSE "policy")
  /\ UNCHANGED <<OutsideTick, controller, wheels>>

TickRunPolicy(a) ==
  /\ TickAt("policy")
  /\ prevAction' = a
  /\ tick' = [tick EXCEPT !.pc = "read_count", !.action = a]
  /\ UNCHANGED <<OutsideTick, goal, outcome, step, wheels>>

(* self._step += 1 is a read and a write. *)
TickReadCount ==
  /\ TickAt("read_count")
  /\ tick' = [tick EXCEPT !.pc = "write_count", !.count = step]
  /\ UNCHANGED <<OutsideTick, controller, wheels>>

TickWriteCount ==
  /\ TickAt("write_count")
  /\ step' = IF tick.count < StepCap THEN tick.count + 1 ELSE StepCap
  /\ TickGoto("publish_policy")
  /\ UNCHANGED <<OutsideTick, goal, outcome, prevAction, wheels>>

(* _stop(). *)
TickHalt ==
  /\ TickAt("halt")
  /\ prevAction' = Stop
  /\ tick' = [tick EXCEPT !.pc = "publish_stop", !.action = Stop]
  /\ UNCHANGED <<OutsideTick, goal, outcome, step, wheels>>

TickPublishStop ==
  /\ TickAt("publish_stop")
  /\ wheels' = tick.action
  /\ tick' = IdleTick
  /\ UNCHANGED <<OutsideTick, controller>>

TickPublishPolicy ==
  /\ TickAt("publish_policy")
  /\ wheels' = tick.action
  /\ tick' = IdleTick
  /\ UNCHANGED <<OutsideTick, controller>>

TickNext ==
  \/ TickSampleBlind \/ \E c \in Clearances, p \in Poses : TickSample(c, p)
  \/ TickAskGoal \/ TickMeasure \/ TickAskRunning \/ TickJudge \/ TickBook
  \/ TickGate \/ TickAskGoalAgain \/ TickAssemble \/ (\E a \in Actions : TickRunPolicy(a))
  \/ TickReadCount \/ TickWriteCount \/ TickHalt \/ TickPublishStop \/ TickPublishPolicy

-----------------------------------------------------------------------------
(* Callers: _on_goal callbacks, or the harness between two polls.  set_goal *)
(* and clear_goal assign the same four attributes in the same order.        *)

(* deploy_eval has one thread that calls. *)
MayCall ==
  /\ main = "spin"
  /\ SpinOnMain => Dispatching
  /\ MayClear => \A c \in Callers : caller[c].pc = "idle"

(* The harness is the main thread: interrupted, its call goes no further.   *)
CallerAt(c, pc) == caller[c].pc = pc /\ (IF SpinOnMain THEN Alive ELSE main = "spin")
CallerGoto(c, pc) == caller' = [caller EXCEPT ![c].pc = pc]
OutsideCaller == <<host, silent, tick, main, wheels>>

Call(c, g) ==
  /\ MayCall /\ CallerAt(c, "idle")
  /\ caller' = [caller EXCEPT ![c] = [pc |-> "goal", goal |-> g]]
  /\ UNCHANGED <<OutsideCaller, controller>>

CallSetGoal(c) == \E g \in Goals : Call(c, g)
CallClearGoal(c) == MayClear /\ Call(c, NoGoal)

AssignGoal(c) ==
  /\ CallerAt(c, "goal")
  /\ goal' = caller[c].goal
  /\ CallerGoto(c, "outcome")
  /\ UNCHANGED <<OutsideCaller, outcome, step, prevAction>>

(* Mutant: the outcome left to the next tick.                             *)
AssignOutcomeLater(c) ==
  /\ CallerAt(c, "outcome")
  /\ CallerGoto(c, "step")
  /\ UNCHANGED <<OutsideCaller, controller>>

AssignOutcome(c) ==
  /\ CallerAt(c, "outcome")
  /\ outcome' = IF caller[c].goal = NoGoal THEN "idle" ELSE "running"
  /\ CallerGoto(c, "step")
  /\ UNCHANGED <<OutsideCaller, goal, step, prevAction>>

AssignStep(c) ==
  /\ CallerAt(c, "step")
  /\ step' = 0
  /\ CallerGoto(c, "prev_action")
  /\ UNCHANGED <<OutsideCaller, goal, outcome, prevAction>>

AssignPrevAction(c) ==
  /\ CallerAt(c, "prev_action")
  /\ prevAction' = Stop
  /\ caller' = [caller EXCEPT ![c] = IdleCaller]
  /\ UNCHANGED <<OutsideCaller, goal, outcome, step>>

CallerProceeds(c) ==
  AssignGoal(c) \/ AssignOutcome(c) \/ AssignStep(c) \/ AssignPrevAction(c)

-----------------------------------------------------------------------------
(* The main thread's way out: Ctrl-C or the end of the episode list, or an  *)
(* exception the executor re-raises; then brake(), then executor.shutdown,  *)
(* which waits for callbacks in flight, but two seconds at most, then       *)
(* destroy_node.                                                            *)

OutsideMain == <<host, silent, controller, tick, caller>>

Interrupt ==
  /\ main = "spin" /\ main' = "brake"
  /\ UNCHANGED <<OutsideMain, wheels>>

SpinRaises ==
  /\ SpinOnMain /\ tick.pc = "raised"
  /\ main = "spin" /\ main' = "brake"
  /\ UNCHANGED <<OutsideMain, wheels>>

Brake ==
  /\ main = "brake" /\ main' = "shutdown"
  /\ wheels' = Stop
  /\ UNCHANGED OutsideMain

(* A tick that outlives the two seconds has no publisher left to reach the  *)
(* wheels with, and what it still assigns nobody reads: it ends here.       *)
Shutdown ==
  /\ main = "shutdown" /\ main' = "down"
  /\ UNCHANGED <<OutsideMain, wheels>>

Terminated == main = "down" /\ UNCHANGED vars

-----------------------------------------------------------------------------
Next ==
  \/ FallSilent \/ Recover
  \/ TickNext
  \/ \E c \in Callers : CallSetGoal(c) \/ CallClearGoal(c) \/ CallerProceeds(c)
  \/ Interrupt \/ SpinRaises \/ Brake \/ Shutdown \/ Terminated

Spec == Init /\ [][Next]_vars

(* Threads that have something to run get to run; sensors, callers and the  *)
(* operator owe nothing.                                                    *)
FairSpec ==
  /\ Spec
  /\ WF_vars(TickNext)
  /\ \A c \in Callers : WF_vars(CallerProceeds(c))
  /\ WF_vars(SpinRaises) /\ WF_vars(Brake) /\ WF_vars(Shutdown)

-----------------------------------------------------------------------------
(* Properties. *)

TypeOK ==
  /\ host \in Hosts /\ silent \in BOOLEAN
  /\ goal \in Goals \cup {NoGoal} /\ outcome \in Outcomes
  /\ step \in 0..StepCap /\ prevAction \in Actions
  /\ tick \in [pc : TickPcs, clear : Clearances \cup {NoData}, pose : Poses \cup {NoData},
               fresh : BOOLEAN, dist : {"none", "near", "far"},
               verdict : Terminal \cup {"running"}, count : 0..StepCap, action : Actions]
  /\ caller \in [Callers -> [pc : {"idle", "goal", "outcome", "step", "prev_action"},
                             goal : Goals \cup {NoGoal}]]
  /\ main \in {"spin", "brake", "shutdown", "down"}
  /\ wheels \in Actions

(* Whatever callers do to the controller under a running tick, a command    *)
(* that is not a stop leaves for the wheels only on a snapshot that was     *)
(* fresh when taken and outside the hard stop distance: the watchdog and    *)
(* the safety gate decide on the tick's own copy (deploy.py: the gate       *)
(* "cannot be reached through the code above").                             *)
GateHoldsUnderRaces ==
  [][wheels' # wheels /\ wheels' # Stop
       => tick.fresh /\ tick.clear # NoData /\ tick.clear >= SafetyStop]_vars

CallersQuiet == \A c \in Callers : caller[c].pc = "idle"

(* No call in progress: a goal and an episode come and go together, however *)
(* goals interleave with ticks and each other (policy_node, never clearing).*)
GoalMeansEpisode ==
  host = "policy_node" /\ CallersQuiet => ((goal = NoGoal) <=> (outcome = "idle"))

(* Data that stops for good stops the robot for good, as long as the loop   *)
(* is up: the watchdog needs no episode, no goal and no caller.             *)
WatchdogStopsWheels ==
  (<>[]silent /\ [](main = "spin" /\ tick.pc # "raised")) => <>[](wheels = Stop)

(* Violated by the code: the first goal, assigned between the tick's look   *)
(* at the goal and its look at the outcome, has it compare None with the    *)
(* tolerance.                                                               *)
TickNeverRaises == tick.pc # "raised"
=============================================================================
