-------------------------------- MODULE EvalSet --------------------------------
(***************************************************************************)
(* The held-out evaluation set (eval_set.py) and the rejection sampling it *)
(* is made with (arena.py).  Every program that scores a policy generates  *)
(* the set again, for the number of episodes it wants, from the same seed: *)
(* the training callback, evaluate.py, deploy_eval.py, record.py.  What    *)
(* the seed fixes is the stream of draws, grown here as it is read.        *)
(* Coordinates are integers; x and y of a point are one draw, a yaw is one.*)
(* Boxes are not turned, and distances are compared squared.               *)
(***************************************************************************)
EXTENDS Integers, Sequences

CONSTANTS
  Draws,       \* points the generator can come up with
  HalfExtent,  \* from the origin to a wall
  Margin,      \* MIN_OBSTACLE_CLEARANCE
  Boxes,       \* OBSTACLES, as centre and half sizes
  Cylinders,   \* OBSTACLES, as centre and radius
  MinSep,      \* MIN_START_GOAL_DISTANCE
  Reach,       \* MAX_EVAL_DISTANCE
  Attempts,    \* MAX_SAMPLE_ATTEMPTS
  Counts,      \* how many episodes programs ask for
  Runs         \* bound: how often the set is generated

ASSUME EvalSetAssumption ==
  /\ Draws \subseteq Int \X Int
  /\ HalfExtent \in Nat /\ Margin \in Nat \ {0} /\ MinSep \in Nat /\ Reach \in Nat
  /\ Boxes \subseteq [cx : Int, cy : Int, hx : Nat, hy : Nat]
  /\ Cylinders \subseteq [cx : Int, cy : Int, r : Nat]
  /\ Attempts \in Nat /\ Counts \subseteq Nat \ {0} /\ Runs \in Nat

VARIABLES
  stream,  \* the draws made so far from the seed
  pc,      \* where episodes(n) is
  count,   \* n
  pos,     \* draws this call has used
  tries,   \* draws rejected by the running sample_free_point
  start,   \* the start sampled for the next episode
  goal,    \* its goal
  out,     \* the episodes generated so far
  made     \* history: what earlier calls got, complete or cut short

call == <<count, start, goal>>
vars == <<stream, pc, call, pos, tries, out, made>>

Episodes == [start : Draws, goal : Draws]

NoPoint == <<>>

Init ==
  /\ stream = <<>> /\ pc = "idle" /\ count = 0 /\ pos = 0 /\ tries = 0
  /\ start = NoPoint /\ goal = NoPoint /\ out = <<>> /\ made = <<>>

-----------------------------------------------------------------------------
(* Geometry: clearance(p) >= Margin, and squared distances.                *)

Magnitude(i) == IF i < 0 THEN -i ELSE i
Overhang(i, half) == IF Magnitude(i) > half THEN Magnitude(i) - half ELSE 0
Square(i) == i * i
Apart(p, q) == Square(p[1] - q[1]) + Square(p[2] - q[2])

ClearOfBox(p, b) ==
  Square(Overhang(p[1] - b.cx, b.hx)) + Square(Overhang(p[2] - b.cy, b.hy)) >= Square(Margin)

ClearOfCylinder(p, c) == Apart(p, <<c.cx, c.cy>>) >= Square(c.r + Margin)

IsFree(p) ==
  /\ \A k \in {1, 2} : HalfExtent - Magnitude(p[k]) >= Margin
  /\ \A b \in Boxes : ClearOfBox(p, b)
  /\ \A c \in Cylinders : ClearOfCylinder(p, c)

NotTooNear(p, q) == Apart(p, q) >= Square(MinSep)
Reachable(p, q) == Apart(p, q) <= Square(Reach)

-----------------------------------------------------------------------------
(* episodes(n).                                                            *)

(* The next draw: what the seed has already been seen to give at this      *)
(* place, or something new.                                                *)
Draw(d) ==
  /\ IF pos < Len(stream) THEN d = stream[pos + 1] /\ UNCHANGED stream
                          ELSE stream' = Append(stream, d)
  /\ pos' = pos + 1

(* Mutant: one generator for the whole process, seeded when imported.      *)
BeginUnseeded(n) ==
  /\ pc = "idle" /\ Len(made) < Runs
  /\ count' = n /\ tries' = 0 /\ out' = <<>>
  /\ pc' = "start"
  /\ UNCHANGED <<stream, pos, start, goal, made>>

Begin(n) ==
  /\ pc = "idle" /\ Len(made) < Runs
  /\ count' = n /\ pos' = 0 /\ tries' = 0 /\ out' = <<>>
  /\ pc' = "start"
  /\ UNCHANGED <<stream, start, goal, made>>

(* sample_free_point(rng) *)
DrawStart ==
  /\ pc = "start" /\ tries < Attempts
  /\ \E d \in Draws :
       /\ Draw(d)
       /\ IF IsFree(d) THEN start' = d /\ tries' = 0 /\ pc' = "yaw"
                       ELSE tries' = tries + 1 /\ UNCHANGED <<start, pc>>
  /\ UNCHANGED <<count, goal, out, made>>

DrawYaw ==
  /\ pc = "yaw"
  /\ \E d \in Draws : Draw(d)
  /\ pc' = "goal"
  /\ UNCHANGED <<call, tries, out, made>>

(* Mutant: the annulus without its outer edge.                             *)
DrawGoalAnywhere ==
  /\ pc = "goal" /\ tries < Attempts
  /\ \E d \in Draws :
       /\ Draw(d)
       /\ IF IsFree(d) /\ NotTooNear(start, d)
            THEN goal' = d /\ tries' = 0 /\ pc' = "validate"
            ELSE tries' = tries + 1 /\ UNCHANGED <<goal, pc>>
  /\ UNCHANGED <<count, start, out, made>>

(* Mutant: a free point outside the annulus costs no attempt.              *)
DrawGoalFreely ==
  /\ pc = "goal" /\ tries < Attempts
  /\ \E d \in Draws :
       /\ Draw(d)
       /\ IF IsFree(d) /\ NotTooNear(start, d) /\ Reachable(start, d)
            THEN goal' = d /\ tries' = 0 /\ pc' = "validate"
            ELSE tries' = (IF IsFree(d) THEN tries ELSE tries + 1) /\ UNCHANGED <<goal, pc>>
  /\ UNCHANGED <<count, start, out, made>>

(* sample_free_point(rng, center=robot_xy, min_radius, max_radius)         *)
DrawGoal ==
  /\ pc = "goal" /\ tries < Attempts
  /\ \E d \in Draws :
       /\ Draw(d)
       /\ IF IsFree(d) /\ NotTooNear(start, d) /\ Reachable(start, d)
            THEN goal' = d /\ tries' = 0 /\ pc' = "validate"
            ELSE tries' = tries + 1 /\ UNCHANGED <<goal, pc>>
  /\ UNCHANGED <<count, start, out, made>>

(* Mutant: a failure starts over from the same seed.                       *)
ExhaustedStartsOver ==
  /\ pc \in {"start", "goal"} /\ tries = Attempts
  /\ pc' = "start" /\ pos' = 0 /\ tries' = 0 /\ out' = <<>>
  /\ UNCHANGED <<stream, call, made>>

(* SamplingFailure ends the program that asked.                            *)
Exhausted ==
  /\ pc \in {"start", "goal"} /\ tries = Attempts
  /\ pc' = "idle" /\ made' = Append(made, out)
  /\ UNCHANGED <<stream, call, pos, tries, out>>

Valid(p, q) == IsFree(p) /\ IsFree(q) /\ NotTooNear(p, q)

Validate ==
  /\ pc = "validate"
  /\ IF Valid(start, goal)
       THEN /\ out' = Append(out, [start |-> start, goal |-> goal])
            /\ pc' = IF Len(out) + 1 = count THEN "return" ELSE "start"
       ELSE pc' = "invalid" /\ UNCHANGED out
  /\ UNCHANGED <<stream, call, pos, tries, made>>

Return ==
  /\ pc = "return"
  /\ pc' = "idle" /\ made' = Append(made, out)
  /\ UNCHANGED <<stream, call, pos, tries, out>>

Enough == pc = "idle" /\ Len(made) = Runs /\ UNCHANGED vars

Generate == DrawStart \/ DrawYaw \/ DrawGoal \/ Exhausted \/ Validate \/ Return

Next == (\E n \in Counts : Begin(n)) \/ Generate \/ Enough

Spec == Init /\ [][Next]_vars

(* The generating loop is sequential code that runs.                       *)
FairSpec == Spec /\ WF_vars(Generate)

-----------------------------------------------------------------------------
(* Properties. *)

TypeOK ==
  /\ stream \in Seq(Draws) /\ pos \in 0..Len(stream)
  /\ pc \in {"idle", "start", "yaw", "goal", "validate", "return", "invalid"}
  /\ count \in Counts \cup {0} /\ tries \in 0..Attempts
  /\ start \in Draws \cup {NoPoint} /\ goal \in Draws \cup {NoPoint}
  /\ out \in Seq(Episodes) /\ made \in Seq(Seq(Episodes))

Legal(e) == Valid(e.start, e.goal) /\ Reachable(e.start, e.goal)

AllLegal(episodes) == \A i \in DOMAIN episodes : Legal(episodes[i])

(* Every episode any program scores starts and ends clear of everything,   *)
(* is not over when it begins, and can be finished in time, whatever was   *)
(* drawn (eval_set.py:69-87: an unreachable goal is a ceiling on the       *)
(* reported rate; validate_episode does not look at it).                   *)
EpisodesAreLegal == AllLegal(out) /\ \A k \in DOMAIN made : AllLegal(made[k])

(* The validation of the generated set, against the arena it was sampled   *)
(* in, never fails (validate_episode: "The sampler's own output satisfies  *)
(* this by construction").                                                 *)
SamplerPassesValidation == pc # "invalid"

StartsWith(s, t) == Len(t) <= Len(s) /\ \A i \in DOMAIN t : s[i] = t[i]
Agree(s, t) == StartsWith(s, t) \/ StartsWith(t, s)

(* Programs that ask for different numbers of episodes, or whose sampling  *)
(* failed half way, have seen the same episodes in the same order as far   *)
(* as both went (episodes: "Prefix-stable by construction").               *)
PrefixStable == \A j, k \in DOMAIN made : Agree(made[j], made[k])

(* A program that asks for n episodes reads no more of the stream than n   *)
(* times two full budgets and a yaw, whichever constraint rejects: neither *)
(* a narrow annulus nor an unlucky seed keeps it drawing                   *)
(* (MAX_SAMPLE_ATTEMPTS bounds a point, nothing in the code bounds a set). *)
DrawsPerEpisode == 2 * Attempts + 1

DrawsAreBounded == pos <= count * DrawsPerEpisode

(* Generating the set ends, with a set or an error, however many draws are *)
(* rejected (MAX_SAMPLE_ATTEMPTS).                                         *)
GenerationEnds == (pc = "start") ~> (pc = "idle")
=============================================================================
