--------------------------- MODULE PolicyNodeProofs ---------------------------
(***************************************************************************)
(* Proofs about PolicyNode: any number of callers, any thresholds, any     *)
(* interleaving.                                                           *)
(***************************************************************************)
EXTENDS PolicyNode, TLAPS

PastSample == {"ask_goal", "measure", "ask_running", "judge", "book", "gate",
               "ask_goal_again", "assemble", "policy", "read_count", "write_count",
               "publish_policy"}

PastGate == {"ask_goal_again", "assemble", "policy", "read_count", "write_count",
             "publish_policy"}

(* The tick's own copy of the sample, which no caller can reach, carries   *)
(* the watchdog's and the gate's decision to the publish.                  *)
SampleInHand ==
  /\ tick.pc \in PastSample => tick.fresh /\ tick.clear \in Clearances
  /\ tick.pc \in PastGate => tick.clear >= SafetyStop
  /\ tick.pc = "publish_stop" => tick.action = Stop

GateInv == TypeOK /\ SampleInHand

LEMMA ClearanceIsReal ==
  ASSUME NEW c \in Clearances
  PROVE  c \in Nat /\ c # NoData
BY DeployAssumption

LEMMA VerdictType ==
  ASSUME NEW r, NEW c, NEW n
  PROVE  Verdict(r, c, n) \in Terminal \cup {"running"}
BY DEF Verdict, Terminal

LEMMA InitGate == Init => GateInv
<1> SUFFICES ASSUME Init PROVE GateInv
  OBVIOUS
<1>1. StepCap \in Nat /\ Stop \in Actions
  BY DeployAssumption, NodeAssumption
<1>2. /\ tick \in [pc : TickPcs, clear : Clearances \cup {NoData}, pose : Poses \cup {NoData},
                  fresh : BOOLEAN, dist : {"none", "near", "far"},
                  verdict : Terminal \cup {"running"}, count : 0..StepCap, action : Actions]
      /\ SampleInHand
  BY <1>1 DEF Init, IdleTick, SampleInHand, TickPcs, PastSample, PastGate
<1>3. caller \in [Callers -> [pc : {"idle", "goal", "outcome", "step", "prev_action"},
                             goal : Goals \cup {NoGoal}]]
  BY DEF Init, IdleCaller
<1>4. host \in Hosts /\ silent \in BOOLEAN
  BY DEF Init
<1>5. /\ goal \in Goals \cup {NoGoal} /\ outcome \in Outcomes
      /\ step \in 0..StepCap /\ prevAction \in Actions
      /\ main \in {"spin", "brake", "shutdown", "down"} /\ wheels \in Actions
  BY <1>1 DEF Init, Outcomes
<1>6. TypeOK
  BY <1>2, <1>3, <1>4, <1>5 DEF TypeOK
<1> QED
  BY <1>2, <1>6 DEF GateInv

(* The control callback: each of its steps keeps its types and what the    *)
(* later ones rely on.                                                     *)
LEMMA TickKeepsGate ==
  ASSUME GateInv, TickNext
  PROVE  GateInv'
<1> USE DEF GateInv
<1>0. UNCHANGED <<host, silent, caller, main>>
  BY DEF TickNext, OutsideTick, TickSampleBlind, TickSample, TickAskGoal, TickMeasure,
     TickAskRunning, TickJudge, TickBook, TickGate, TickAskGoalAgain, TickAssemble,
     TickRunPolicy, TickReadCount, TickWriteCount, TickHalt, TickPublishStop,
     TickPublishPolicy
<1>1. CASE TickSampleBlind
  BY <1>0, <1>1 DEF TickSampleBlind, TickAt, TickGoto, controller, TypeOK,
     SampleInHand, TickPcs, PastSample, PastGate
<1>2. ASSUME NEW c \in Clearances, NEW p \in Poses, TickSample(c, p) PROVE GateInv'
  BY <1>0, <1>2 DEF TickSample, TickAt, controller, TypeOK, SampleInHand,
     TickPcs, PastSample, PastGate
<1>3. CASE TickAskGoal
  BY <1>0, <1>3 DEF TickAskGoal, TickAt, TickGoto, controller, TypeOK,
     SampleInHand, TickPcs, PastSample, PastGate
<1>4. CASE TickMeasure
  <2>1. CASE goal = NoGoal
    BY <1>0, <1>4, <2>1 DEF TickMeasure, TickAt, TickGoto, controller, TypeOK,
       SampleInHand, TickPcs, PastSample, PastGate
  <2>2. CASE goal # NoGoal
    <3>1. PICK d \in {"near", "far"} : tick' = [tick EXCEPT !.pc = "ask_running", !.dist = d]
      BY <1>4, <2>2 DEF TickMeasure
    <3> QED
      BY <1>0, <1>4, <3>1 DEF TickMeasure, TickAt, controller, TypeOK,
         SampleInHand, TickPcs, PastSample, PastGate
  <2> QED BY <2>1, <2>2
<1>5. CASE TickAskRunning
  BY <1>0, <1>5 DEF TickAskRunning, TickAt, TickGoto, controller, TypeOK,
     SampleInHand, TickPcs, PastSample, PastGate
<1>6. CASE TickJudge
  <2>1. Verdict(tick.dist = "near", tick.clear, step) \in Terminal \cup {"running"}
    BY VerdictType
  <2>2. CASE tick.dist = "none"
    BY <1>0, <1>6, <2>2 DEF TickJudge, TickAt, TickGoto, controller, TypeOK,
       SampleInHand, TickPcs, PastSample, PastGate
  <2>3. CASE tick.dist # "none"
    <3>1. PICK pc \in {"gate", "book"}, v \in Terminal \cup {"running"} :
             tick' = [tick EXCEPT !.pc = pc, !.verdict = v]
      BY <1>6, <2>1, <2>3 DEF TickJudge
    <3> QED
      BY <1>0, <1>6, <3>1 DEF TickJudge, TickAt, controller, TypeOK,
         SampleInHand, TickPcs, PastSample, PastGate
  <2> QED BY <2>2, <2>3
<1>7. CASE TickBook
  BY <1>0, <1>7 DEF TickBook, TickAt, TickGoto, TypeOK, SampleInHand, Outcomes, Terminal,
     TickPcs, PastSample, PastGate
<1>8. CASE TickGate
  <2>1. tick.clear \in Nat /\ SafetyStop \in Nat
    BY <1>8, ClearanceIsReal, DeployAssumption DEF TickGate, TickAt, SampleInHand, PastSample
  <2>2. tick'.pc \in {"halt", "ask_goal_again"} /\ tick' = [tick EXCEPT !.pc = tick'.pc]
    BY <1>8 DEF TickGate, TickAt, TickGoto, TypeOK
  <2>3. tick'.pc = "ask_goal_again" => tick.clear >= SafetyStop
    BY <1>8, <2>1 DEF TickGate, TickAt, TickGoto, TypeOK
  <2>4. TypeOK'
    BY <1>0, <1>8, <2>2 DEF TickGate, controller, TypeOK, TickPcs
  <2>5. SampleInHand'
    BY <1>8, <2>2, <2>3 DEF TickGate, TickAt, SampleInHand, TypeOK, PastSample, PastGate
  <2> QED BY <2>4, <2>5
<1>9. CASE TickAskGoalAgain
  BY <1>0, <1>9 DEF TickAskGoalAgain, TickAt, TickGoto, controller, TypeOK,
     SampleInHand, TickPcs, PastSample, PastGate
<1>10. CASE TickAssemble
  BY <1>0, <1>10 DEF TickAssemble, TickAt, TickGoto, controller, TypeOK,
     SampleInHand, TickPcs, PastSample, PastGate
<1>11. ASSUME NEW a \in Actions, TickRunPolicy(a) PROVE GateInv'
  BY <1>0, <1>11 DEF TickRunPolicy, TickAt, TypeOK, SampleInHand, TickPcs,
     PastSample, PastGate
<1>12. CASE TickReadCount
  BY <1>0, <1>12 DEF TickReadCount, TickAt, controller, TypeOK, SampleInHand,
     TickPcs, PastSample, PastGate
<1>13. CASE TickWriteCount
  <2>1. step' \in 0..StepCap
    BY <1>13, NodeAssumption DEF TickWriteCount, TypeOK
  <2> QED
    BY <1>0, <1>13, <2>1 DEF TickWriteCount, TickAt, TickGoto, TypeOK,
       SampleInHand, TickPcs, PastSample, PastGate
<1>14. CASE TickHalt
  BY <1>0, <1>14, DeployAssumption DEF TickHalt, TickAt, TypeOK, SampleInHand,
     TickPcs, PastSample, PastGate
<1>15. CASE TickPublishStop
  BY <1>0, <1>15, DeployAssumption, NodeAssumption
  DEF TickPublishStop, TickAt, IdleTick, controller, TypeOK, SampleInHand,
      TickPcs, PastSample, PastGate
<1>16. CASE TickPublishPolicy
  BY <1>0, <1>16, DeployAssumption, NodeAssumption
  DEF TickPublishPolicy, TickAt, IdleTick, controller, TypeOK, SampleInHand,
      TickPcs, PastSample, PastGate
<1> QED
  BY <1>1, <1>2, <1>3, <1>4, <1>5, <1>6, <1>7, <1>8, <1>9, <1>10, <1>11, <1>12, <1>13,
     <1>14, <1>15, <1>16 DEF TickNext

LEMMA NextGate == GateInv /\ [Next]_vars => GateInv'
<1> SUFFICES ASSUME GateInv, [Next]_vars PROVE GateInv'
  OBVIOUS
<1> USE DEF GateInv
<1>1. CASE FallSilent \/ Recover
  BY <1>1 DEF FallSilent, Recover, controller, TypeOK, SampleInHand
<1>2. CASE TickNext
  BY <1>2, TickKeepsGate
<1>3. ASSUME NEW c \in Callers, CallSetGoal(c) \/ CallClearGoal(c) PROVE GateInv'
  BY <1>3 DEF CallSetGoal, CallClearGoal, Call, OutsideCaller, controller, TypeOK, SampleInHand
<1>4. ASSUME NEW c \in Callers, CallerProceeds(c) PROVE GateInv'
  <2>1. CASE AssignGoal(c)
    BY <2>1, NodeAssumption DEF AssignGoal, CallerGoto, OutsideCaller, TypeOK, SampleInHand
  <2>2. CASE AssignOutcome(c)
    BY <2>2 DEF AssignOutcome, CallerGoto, OutsideCaller, TypeOK, SampleInHand, Outcomes
  <2>3. CASE AssignStep(c)
    BY <2>3, NodeAssumption DEF AssignStep, CallerGoto, OutsideCaller, TypeOK, SampleInHand
  <2>4. CASE AssignPrevAction(c)
    BY <2>4, DeployAssumption
    DEF AssignPrevAction, IdleCaller, OutsideCaller, TypeOK, SampleInHand
  <2> QED BY <1>4, <2>1, <2>2, <2>3, <2>4 DEF CallerProceeds
<1>5. CASE Interrupt \/ SpinRaises \/ Brake \/ Shutdown
  BY <1>5, DeployAssumption
  DEF Interrupt, SpinRaises, Brake, Shutdown, OutsideMain, controller, TypeOK,
      SampleInHand
<1>6. CASE UNCHANGED vars
  BY <1>6 DEF vars, controller, TypeOK, SampleInHand
<1> QED
  BY <1>1, <1>2, <1>3, <1>4, <1>5, <1>6 DEF Next, Terminated

(* The tick's copy of the sample stays sound in every reachable state.     *)
THEOREM SampleStaysInHand == Spec => []GateInv
BY InitGate, NextGate, PTL DEF Spec

(* Every variable keeps its type, lost updates and all.                    *)
THEOREM Typed == Spec => []TypeOK
<1>1. GateInv => TypeOK
  BY DEF GateInv
<1> QED BY <1>1, SampleStaysInHand, PTL

LEMMA OnlyTicksDrive ==
  ASSUME GateInv, [Next]_vars, wheels' # wheels, wheels' # Stop
  PROVE  TickPublishPolicy
<1>1. ~TickPublishStop
  BY DEF TickPublishStop, TickAt, GateInv, SampleInHand
<1>2. CASE TickNext
  BY <1>1, <1>2
  DEF TickNext, TickSampleBlind, TickSample, TickAskGoal, TickMeasure, TickAskRunning,
      TickJudge, TickBook, TickGate, TickAskGoalAgain, TickAssemble, TickRunPolicy,
      TickReadCount, TickWriteCount, TickHalt
<1>3. ASSUME NEW c \in Callers, CallSetGoal(c) \/ CallClearGoal(c) \/ CallerProceeds(c)
      PROVE  FALSE
  BY <1>3 DEF CallSetGoal, CallClearGoal, Call, CallerProceeds, AssignGoal, AssignOutcome,
     AssignStep, AssignPrevAction, OutsideCaller
<1>4. ~(FallSilent \/ Recover \/ Interrupt \/ SpinRaises \/ Brake \/ Shutdown)
  BY DEF FallSilent, Recover, Interrupt, SpinRaises, Brake, Shutdown
<1>5. ~(UNCHANGED vars)
  BY DEF vars
<1> QED
  BY <1>2, <1>3, <1>4, <1>5 DEF Next, Terminated

(* The watchdog and the safety gate hold against every interleaving of the *)
(* tick with any number of callers and with shutdown.                      *)
THEOREM GateHolds == Spec => GateHoldsUnderRaces
<1> DEFINE Gated ==
      wheels' # wheels /\ wheels' # Stop
        => tick.fresh /\ tick.clear # NoData /\ tick.clear >= SafetyStop
<1>1. GateInv /\ [Next]_vars => Gated
  BY OnlyTicksDrive, ClearanceIsReal
  DEF TickPublishPolicy, TickAt, GateInv, SampleInHand, PastSample, PastGate
<1>2. GateInv /\ [Next]_vars => [Gated]_vars
  BY <1>1
<1>3. Spec => [][Gated]_vars
  BY <1>2, SampleStaysInHand, PTL DEF Spec
<1> QED
  BY <1>3 DEF GateHoldsUnderRaces

-----------------------------------------------------------------------------
(* In policy_node, where goals are never cleared, an episode without a     *)
(* goal cannot come about, and a goal without an episode is a call that    *)
(* has not got further yet.                                                *)
EpisodeInv ==
  /\ \A c \in Callers : caller[c].pc # "idle" => caller[c].goal # NoGoal
  /\ \A c \in Callers : caller[c].pc \notin {"idle", "goal"} => goal # NoGoal
  /\ outcome # "idle" => goal # NoGoal
  /\ tick.pc \in {"judge", "book"} => outcome # "idle"
  /\ goal # NoGoal /\ outcome = "idle" => \E c \in Callers : caller[c].pc = "outcome"

LEMMA InitEpisode == Init => EpisodeInv
BY DEF Init, EpisodeInv, IdleTick, IdleCaller

LEMMA TickKeepsEpisode ==
  ASSUME TypeOK, EpisodeInv, TickNext
  PROVE  EpisodeInv'
<1>1. UNCHANGED <<host, caller, goal>>
  BY DEF TickNext, OutsideTick, TickSampleBlind, TickSample, TickAskGoal, TickMeasure,
     TickAskRunning, TickJudge, TickBook, TickGate, TickAskGoalAgain, TickAssemble,
     TickRunPolicy, TickReadCount, TickWriteCount, TickHalt, TickPublishStop,
     TickPublishPolicy, controller
<1>2. CASE TickBook
  <2>1. outcome # "idle" /\ outcome' # "idle"
    BY <1>2 DEF TickBook, TickAt, EpisodeInv, TypeOK, Terminal
  <2> QED
    BY <1>1, <2>1 DEF EpisodeInv
<1>3. CASE UNCHANGED outcome
  <2>1. tick'.pc \in {"judge", "book"} => outcome = "running" \/ tick.pc \in {"judge", "book"}
    <3> SUFFICES ASSUME tick'.pc \in {"judge", "book"}
                 PROVE  outcome = "running" \/ tick.pc \in {"judge", "book"}
      OBVIOUS
    <3>1. CASE TickAskRunning
      BY <3>1 DEF TickAskRunning, TickGoto, TypeOK
    <3>2. CASE TickJudge
      BY <3>2 DEF TickJudge, TickAt
    <3>3. CASE TickMeasure
      BY <3>3 DEF TickMeasure, TickGoto, TypeOK
    <3>4. CASE TickPublishStop \/ TickPublishPolicy
      BY <3>4 DEF TickPublishStop, TickPublishPolicy, IdleTick
    <3>5. CASE TickGate \/ TickAskGoalAgain \/ TickAskGoal \/ TickAssemble
      BY <3>5 DEF TickGate, TickAskGoalAgain, TickAskGoal, TickAssemble, TickGoto, TypeOK
    <3>6. CASE \/ TickSampleBlind \/ TickBook \/ TickReadCount \/ TickWriteCount \/ TickHalt
               \/ \E c \in Clearances, p \in Poses : TickSample(c, p)
               \/ \E a \in Actions : TickRunPolicy(a)
      BY <3>6 DEF TickSampleBlind, TickBook, TickReadCount, TickWriteCount, TickHalt,
         TickSample, TickRunPolicy, TickGoto, TypeOK
    <3> QED
      BY <3>1, <3>2, <3>3, <3>4, <3>5, <3>6 DEF TickNext
  <2> QED
    BY <1>1, <1>3, <2>1 DEF EpisodeInv
<1> QED
  BY <1>2, <1>3
  DEF TickNext, TickSampleBlind, TickSample, TickAskGoal, TickMeasure, TickAskRunning,
      TickJudge, TickGate, TickAskGoalAgain, TickAssemble, TickRunPolicy, TickReadCount,
      TickWriteCount, TickHalt, TickPublishStop, TickPublishPolicy, controller

LEMMA CallKeepsEpisode ==
  ASSUME host = "policy_node", TypeOK, EpisodeInv, NEW c \in Callers,
         CallSetGoal(c) \/ CallClearGoal(c) \/ CallerProceeds(c)
  PROVE  EpisodeInv'
<1> USE DeployAssumption
<1>1. ASSUME NEW g \in Goals, Call(c, g) PROVE EpisodeInv'
  <2>1. /\ caller[c].pc = "idle" /\ UNCHANGED <<tick, goal, outcome>>
        /\ caller' = [caller EXCEPT ![c] = [pc |-> "goal", goal |-> g]]
    BY <1>1 DEF Call, CallerAt, OutsideCaller, controller
  <2> QED
    BY <2>1 DEF EpisodeInv, TypeOK
<1>2. CASE AssignGoal(c)
  <2>1. /\ caller[c].pc = "goal" /\ goal' = caller[c].goal /\ UNCHANGED <<tick, outcome>>
        /\ caller' = [caller EXCEPT ![c].pc = "outcome"]
    BY <1>2 DEF AssignGoal, CallerAt, CallerGoto, OutsideCaller
  <2>2. goal' # NoGoal /\ caller'[c].pc = "outcome"
    BY <2>1 DEF EpisodeInv, TypeOK
  <2>3. \A d \in Callers : caller'[d].pc # "idle" => caller'[d].goal # NoGoal
    <3> TAKE d \in Callers
    <3>1. CASE d = c
      BY <2>1, <2>2, <3>1 DEF EpisodeInv, TypeOK
    <3>2. CASE d # c
      BY <2>1, <3>2 DEF EpisodeInv, TypeOK
    <3> QED BY <3>1, <3>2
  <2> QED
    BY <2>1, <2>2, <2>3 DEF EpisodeInv
<1>3. CASE AssignOutcome(c)
  <2>1. /\ caller[c].pc = "outcome" /\ UNCHANGED <<tick, goal>>
        /\ outcome' = IF caller[c].goal = NoGoal THEN "idle" ELSE "running"
        /\ caller' = [caller EXCEPT ![c].pc = "step"]
    BY <1>3 DEF AssignOutcome, CallerAt, CallerGoto, OutsideCaller
  <2>2. outcome' = "running" /\ goal # NoGoal
    BY <2>1 DEF EpisodeInv
  <2>3. \A d \in Callers : caller'[d].pc # "idle" => caller'[d].goal # NoGoal
    <3> TAKE d \in Callers
    <3>1. CASE d = c
      BY <2>1, <3>1 DEF EpisodeInv, TypeOK
    <3>2. CASE d # c
      BY <2>1, <3>2 DEF EpisodeInv, TypeOK
    <3> QED BY <3>1, <3>2
  <2> QED
    BY <2>1, <2>2, <2>3 DEF EpisodeInv
<1>4. CASE AssignStep(c) \/ AssignPrevAction(c)
  <2>1. /\ caller[c].pc \in {"step", "prev_action"} /\ UNCHANGED <<tick, goal, outcome>>
        /\ caller' \in {[caller EXCEPT ![c].pc = "prev_action"],
                        [caller EXCEPT ![c] = IdleCaller]}
    BY <1>4 DEF AssignStep, AssignPrevAction, CallerAt, CallerGoto, OutsideCaller
  <2> QED
    BY <2>1 DEF EpisodeInv, TypeOK, IdleCaller
<1> QED
  BY <1>1, <1>2, <1>3, <1>4 DEF CallSetGoal, CallClearGoal, CallerProceeds, MayClear

LEMMA HostStays == [Next]_vars => UNCHANGED host
BY DEF Next, FallSilent, Recover, TickNext, OutsideTick, TickSampleBlind, TickSample,
   TickAskGoal, TickMeasure, TickAskRunning, TickJudge, TickBook, TickGate,
   TickAskGoalAgain, TickAssemble, TickRunPolicy, TickReadCount, TickWriteCount,
   TickHalt, TickPublishStop, TickPublishPolicy, CallSetGoal, CallClearGoal, Call,
   CallerProceeds, AssignGoal, AssignOutcome, AssignStep, AssignPrevAction,
   OutsideCaller, Interrupt, SpinRaises, Brake, Shutdown, Terminated, OutsideMain, vars

LEMMA NextEpisode ==
  ASSUME host = "policy_node", TypeOK, EpisodeInv, [Next]_vars
  PROVE  EpisodeInv'
<1>1. CASE TickNext
  BY <1>1, TickKeepsEpisode
<1>2. ASSUME NEW c \in Callers, CallSetGoal(c) \/ CallClearGoal(c) \/ CallerProceeds(c)
      PROVE  EpisodeInv'
  BY <1>2, CallKeepsEpisode
<1>3. CASE UNCHANGED <<tick, caller, goal, outcome>>
  BY <1>3 DEF EpisodeInv
<1> QED
  BY <1>1, <1>2, <1>3
  DEF Next, FallSilent, Recover, Interrupt, SpinRaises, Brake, Shutdown, Terminated,
      OutsideMain, controller, vars

(* In policy_node, whenever no _on_goal is in progress, there is a goal    *)
(* exactly when there is an episode: races on the other attributes leave   *)
(* these two together.                                                     *)
THEOREM GoalIsEpisode == Spec => []GoalMeansEpisode
<1> DEFINE HostInv == host = "policy_node" => EpisodeInv
<1>1. Init => HostInv
  BY InitEpisode
<1>2. TypeOK /\ HostInv /\ [Next]_vars => HostInv'
  BY NextEpisode, HostStays
<1>3. TypeOK /\ HostInv => GoalMeansEpisode
  BY DEF EpisodeInv, GoalMeansEpisode, CallersQuiet, TypeOK
<1> QED
  BY <1>1, <1>2, <1>3, Typed, PTL DEF Spec
=============================================================================
