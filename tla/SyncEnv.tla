------------------------------- MODULE SyncEnv -------------------------------
(***************************************************************************)
(* What a learner may assume of RobotNavEnv: a world that stands still     *)
(* between calls.  reset puts the robot at the start it was asked for and  *)
(* shows it there; step carries out the action it was given, all of it and *)
(* nothing else, and shows the result.  A call may raise instead; what the *)
(* step after that shows is not promised, only that the promise holds      *)
(* again from there.                                                       *)
(***************************************************************************)
EXTENDS Naturals, Sequences

CONSTANTS
  Places,   \* starts an episode may be given
  NoPlace,  \* nowhere the environment was asked to put the robot
  Actions

VARIABLES
  phase,  \* "over" (reset required), "running" or "raised"
  asked,  \* the call in progress: reset to a place, an action, or NoPlace
  at,     \* start of the episode on show
  ran     \* the actions whose joint effect the last observation shows

syncVars == <<phase, asked, at, ran>>

SyncInit == phase = "over" /\ asked = NoPlace /\ at = NoPlace /\ ran = <<>>

AskReset(p) == asked = NoPlace /\ asked' = p /\ UNCHANGED <<phase, at, ran>>

AskStep(a) ==
  /\ asked = NoPlace /\ phase # "over"
  /\ asked' = a /\ UNCHANGED <<phase, at, ran>>

Reset ==
  /\ asked \in Places
  /\ phase' = "running" /\ at' = asked /\ ran' = <<>> /\ asked' = NoPlace

Step ==
  /\ phase = "running" /\ asked \in Actions
  /\ ran' = Append(ran, asked) /\ asked' = NoPlace /\ UNCHANGED at
  /\ phase' \in {"running", "over"}

Raise == phase' = "raised" /\ asked' = NoPlace /\ UNCHANGED <<at, ran>>

StepAfterRaise ==
  /\ phase = "raised" /\ asked \in Actions
  /\ at' \in Places \cup {NoPlace} /\ ran' \in Seq(Actions) /\ asked' = NoPlace
  /\ phase' \in {"running", "over"}

SyncNext ==
  \/ \E p \in Places : AskReset(p)
  \/ \E a \in Actions : AskStep(a)
  \/ Reset \/ Step \/ Raise \/ StepAfterRaise

SyncSpec == SyncInit /\ [][SyncNext]_syncVars
=============================================================================
