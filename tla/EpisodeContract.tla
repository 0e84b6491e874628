--------------------------- MODULE EpisodeContract ---------------------------
(***************************************************************************)
(* The episode both sides of the sim-to-deployment comparison promise to   *)
(* run: begun by a goal, judged once after every action, ended by the      *)
(* first of success, collision and the step budget, and latched until the  *)
(* next goal.  It is the bookkeeping of RobotNavEnv.step (env.py) with the *)
(* simulator abstracted away: seen is what the judged observation said.    *)
(***************************************************************************)
EXTENDS Naturals

CONSTANT MaxSteps

VARIABLES
  phase,   \* "idle", "running" or how the episode ended
  judged,  \* actions whose result has been observed and judged
  seen     \* the observation last looked at: [reached, collided]

contractVars == <<phase, judged, seen>>

Seen == [reached : BOOLEAN, collided : BOOLEAN]

(* terminated beats truncated, and success is what a reached goal reports. *)
EnvVerdict(s, n) ==
  IF s.reached THEN "success"
  ELSE IF s.collided THEN "collision"
  ELSE IF n >= MaxSteps THEN "timeout"
  ELSE "running"

ContractInit ==
  /\ phase = "idle"
  /\ judged = 0
  /\ seen \in Seen

(* reset / set_goal. *)
Begin ==
  /\ phase' = "running"
  /\ judged' = 0
  /\ UNCHANGED seen

(* clear_goal. *)
Abandon ==
  /\ phase' = "idle"
  /\ judged' = 0
  /\ UNCHANGED seen

(* One action has been carried out and its observation is judged. *)
Judge ==
  /\ phase = "running"
  /\ judged' = judged + 1
  /\ seen' \in Seen
  /\ phase' = EnvVerdict(seen', judged')

(* The observation an episode starts from already ends it.  RobotNavEnv    *)
(* never does this (reset validates the start); a deployed robot can be    *)
(* handed a goal it is standing on.                                        *)
JudgeStart ==
  /\ phase = "running"
  /\ judged = 0
  /\ seen' \in Seen
  /\ phase' = EnvVerdict(seen', 0)
  /\ UNCHANGED judged

(* Sensors are looked at while there is nothing to judge: no action is out *)
(* (watchdog), no episode runs, or the episode is over.                    *)
Look ==
  /\ seen' \in Seen
  /\ UNCHANGED <<phase, judged>>

ContractNext == Begin \/ Abandon \/ Judge \/ JudgeStart \/ Look

ContractSpec == ContractInit /\ [][ContractNext]_contractVars
=============================================================================
