----------------------------- MODULE StepBarrier -----------------------------
(***************************************************************************)
(* How RobotNavEnv (env.py) makes an asynchronous simulator look like      *)
(* SyncEnv: it orders a number of iterations over a service                *)
(* (sim_control.py), counts what it ordered, and waits until both sensor   *)
(* topics carry a stamp at or beyond that count (observation_node.py).     *)
(* The simulator and the bridge are external and run on their own.         *)
(*                                                                         *)
(* Time is simulated time in units of one environment step,                *)
(* SIM_STEPS_PER_ACTION iterations, which is also the period of /scan and  *)
(* /odom: the world publishes one reading of each at the end of each unit. *)
(* A reading is its stamp, since the stamp fixes the state it shows.       *)
(***************************************************************************)
EXTENDS Naturals, Sequences, FiniteSets

CONSTANTS
  Actions, Stop,   \* velocity commands; Stop is the zero command
  Places, NoPlace, \* episode starts; anywhere else
  BrakeUnits,      \* contract.BRAKE_ITERATIONS, in units
  Depth,           \* SENSOR_QOS depth: readings a subscription can hold
  MaxSteps,        \* contract.MAX_EPISODE_STEPS
  Starts,          \* world time when the environment attaches to it
  EarlyReply,      \* may the control service answer before the run is done?
  Overlap,         \* callbacks of one subscription that may run at once
  Faults,          \* what may go wrong, out of FaultKinds
  Horizon,         \* bound: no call starts that would run beyond this time
  InboxCap         \* bound: requests the simulator may leave unread

FaultKinds == {"slow_topic",  \* OBS_TIMEOUT passes before the readings arrive
               "refused",     \* the service answers success=False
               "late_reply"}  \* SERVICE_TIMEOUT passes, the request lives on

ASSUME BarrierAssumption ==
  /\ Stop \in Actions
  /\ NoPlace \notin Places \cup Actions /\ Places \cap Actions = {}
  /\ BrakeUnits \in Nat \ {0} /\ Depth \in Nat \ {0}
  /\ MaxSteps \in Nat \ {0} /\ Overlap \in Nat \ {0}
  /\ Starts \subseteq Nat
  /\ EarlyReply \in BOOLEAN
  /\ Faults \subseteq FaultKinds
  /\ Horizon \in Nat /\ InboxCap \in Nat \ {0}

VARIABLES
  \* RobotNavEnv
  pc,       \* where the calling thread is
  arg,      \* the argument of the call: an action or a place
  target,   \* _sim_ns
  steps,    \* _step_count
  outcome,  \* how the episode stands; _needs_reset is outcome # "running"
  last,     \* how the last call went: "none", "returned", "raised"
  obs,      \* the last observation: its stamp, and what the world then was
  seen,     \* its two tests: [reached, collided]
  \* the simulator
  now,      \* world time
  robot,    \* [at, ran, still]: where it was put, the commands it has run
            \* since, one a unit, and for how many units it has been braking
  drive,    \* the velocity command in force
  inbox,    \* service requests on their way
  todo,     \* iterations ordered and not yet run
  pose,     \* teleport queued by UserCommands
  reply,    \* of the outstanding call: "none", "owed", "sent"
  \* each subscription
  taken,    \* stamp of the last reading handed to a callback
  held,     \* stamps callbacks in progress carry
  cache     \* _scan_stamp_ns, _odom_stamp_ns; 0 is None

env   == <<arg, target, steps, outcome, last, obs, seen>>
world == <<now, robot, drive, inbox, todo, pose, reply>>
subs  == <<taken, held, cache>>
vars  == <<pc, env, world, subs>>

Topics == {"scan", "odom"}

Later(m, n) == IF m >= n THEN m ELSE n
Earlier(m, n) == IF m <= n THEN m ELSE n

Request(units, place) == [units |-> units, place |-> place, live |-> TRUE]

Calls == {"attach", "brake", "place", "settle", "step"}
Waits == {"first", "reset_wait", "step_wait"}

(* The constructor has paused the world and ordered its first unit. *)
Init ==
  /\ pc = "attach" /\ arg = NoPlace /\ target = 0 /\ steps = 0
  /\ outcome = "idle" /\ last = "none"
  /\ obs = [stamp |-> 0, at |-> NoPlace, ran |-> <<>>]
  /\ seen = [reached |-> FALSE, collided |-> FALSE]
  /\ now \in Starts
  /\ robot = [at |-> NoPlace, ran |-> <<>>, still |-> 0] /\ drive = Stop
  /\ inbox = <<Request(1, NoPlace)>> /\ todo = 0 /\ pose = NoPlace /\ reply = "none"
  /\ taken = [t \in Topics |-> now]
  /\ held = [t \in Topics |-> {}] /\ cache = [t \in Topics |-> 0]

-----------------------------------------------------------------------------
(* The simulator. *)

(* Requests are served in order.  A teleport is queued and answered at     *)
(* once; iterations are added to what is left to run.  Nobody is left to   *)
(* answer when the caller has given up.                                    *)
SimTakes ==
  /\ inbox # <<>>
  /\ inbox' = Tail(inbox)
  /\ LET r == Head(inbox) IN
       /\ todo' = todo + r.units
       /\ pose' = IF r.place = NoPlace THEN pose ELSE r.place
       /\ reply' = IF ~r.live THEN reply ELSE IF r.units = 0 THEN "sent" ELSE "owed"
  /\ UNCHANGED <<pc, env, now, robot, drive, subs>>

SimReplies ==
  /\ reply = "owed"
  /\ EarlyReply \/ todo = 0
  /\ reply' = "sent"
  /\ UNCHANGED <<pc, env, now, robot, drive, inbox, todo, pose, subs>>

(* A robot teleported before it has come to rest rolls away from the place *)
(* it was put.                                                             *)
SimRuns ==
  /\ todo > 0
  /\ now' = now + 1 /\ todo' = todo - 1 /\ pose' = NoPlace
  /\ robot' =
       [at    |-> IF pose = NoPlace THEN robot.at
                  ELSE IF robot.still < BrakeUnits THEN NoPlace ELSE pose,
        ran   |-> IF pose = NoPlace THEN Append(robot.ran, drive) ELSE <<>>,
        still |-> IF drive = Stop THEN Earlier(robot.still + 1, BrakeUnits) ELSE 0]
  /\ UNCHANGED <<pc, env, drive, inbox, reply, subs>>

-----------------------------------------------------------------------------
(* Subscriptions: reliable, in order, KEEP_LAST.  Of the readings not yet  *)
(* taken only the newest Depth are sure to survive.  Pooling runs outside  *)
(* the lock, on a reentrant group: callbacks finish in any order.          *)

(* Mutant: a reading that finds a callback in progress is not handled.     *)
TakeUnlessBusy(t) ==
  /\ \E s \in (taken[t] + 1)..now :
       /\ s = taken[t] + 1 \/ s + Depth <= now + 1
       /\ taken' = [taken EXCEPT ![t] = s]
       /\ held' = [held EXCEPT ![t] = IF @ = {} THEN {s} ELSE @]
  /\ UNCHANGED <<pc, env, world, cache>>

Take(t) ==
  /\ Cardinality(held[t]) < Overlap
  /\ \E s \in (taken[t] + 1)..now :
       /\ s = taken[t] + 1 \/ s + Depth <= now + 1
       /\ taken' = [taken EXCEPT ![t] = s]
       /\ held' = [held EXCEPT ![t] = @ \cup {s}]
  /\ UNCHANGED <<pc, env, world, cache>>

Commit(t) ==
  /\ \E s \in held[t] :
       /\ cache' = [cache EXCEPT ![t] = s]
       /\ held' = [held EXCEPT ![t] = @ \ {s}]
  /\ UNCHANGED <<pc, env, world, taken>>

-----------------------------------------------------------------------------
(* The environment. *)

Order(units, place) ==
  /\ inbox' = Append(inbox, Request(units, place))
  /\ reply' = "none"
  /\ UNCHANGED <<now, robot, todo, pose>>

Answered(call) == pc = call /\ reply = "sent"

(* sim_time_ns() is 0 until a /clock message has been handled, which       *)
(* wait_for_first_message does not wait for; one from the middle of the    *)
(* unit is as good as one from its end, no reading lying between.          *)
SimTime == {0, now}

HeardAll == \A t \in Topics : cache[t] # 0

AttachReturns ==
  /\ Answered("attach")
  /\ target' = target + 1
  /\ pc' = "first"
  /\ UNCHANGED <<arg, steps, outcome, last, obs, seen, world, subs>>

FirstMessages ==
  /\ pc = "first" /\ HeardAll
  /\ \E clock \in SimTime : target' = Later(target, clock)
  /\ pc' = "idle"
  /\ UNCHANGED <<arg, steps, outcome, last, obs, seen, world, subs>>

InTime(units) == now + todo + units <= Horizon /\ Len(inbox) < InboxCap

(* Mutant of ResetBrakes: the zero command is forgotten. *)
ResetCoasts(p) ==
  /\ pc = "idle" /\ InTime(BrakeUnits + 1)
  /\ arg' = p
  /\ Order(BrakeUnits, NoPlace)
  /\ pc' = "brake"
  /\ UNCHANGED <<target, steps, outcome, last, obs, seen, drive, subs>>

ResetBrakes(p) ==
  /\ pc = "idle" /\ InTime(BrakeUnits + 1)
  /\ arg' = p /\ drive' = Stop
  /\ Order(BrakeUnits, NoPlace)
  /\ pc' = "brake"
  /\ UNCHANGED <<target, steps, outcome, last, obs, seen, subs>>

(* Mutant of ResetPlaces: the brake is not counted.                        *)
ResetPlacesUncounted ==
  /\ Answered("brake")
  /\ Order(0, arg)
  /\ pc' = "place"
  /\ UNCHANGED <<env, drive, subs>>

(* Mutant of ResetPlaces: the same start whatever the episode's.            *)
ResetPlacesAlike ==
  /\ Answered("brake")
  /\ target' = target + BrakeUnits
  /\ Order(0, CHOOSE p \in Places : TRUE)
  /\ pc' = "place"
  /\ UNCHANGED <<arg, steps, outcome, last, obs, seen, drive, subs>>

ResetPlaces ==
  /\ Answered("brake")
  /\ target' = target + BrakeUnits
  /\ Order(0, arg)
  /\ pc' = "place"
  /\ UNCHANGED <<arg, steps, outcome, last, obs, seen, drive, subs>>

ResetSettles ==
  /\ Answered("place")
  /\ Order(1, NoPlace)
  /\ pc' = "settle"
  /\ UNCHANGED <<env, drive, subs>>

(* Mutant of ResetWaits: a stamp the paused world never reaches. *)
ResetWaitsTooFar ==
  /\ Answered("settle")
  /\ target' = target + 2
  /\ pc' = "reset_wait"
  /\ UNCHANGED <<arg, steps, outcome, last, obs, seen, world, subs>>

ResetWaits ==
  /\ Answered("settle")
  /\ target' = target + 1
  /\ pc' = "reset_wait"
  /\ UNCHANGED <<arg, steps, outcome, last, obs, seen, world, subs>>

(* Mutant of Fresh: either topic will do. *)
FreshOnOneTopic == \E t \in Topics : cache[t] >= target

(* wait_for_sample: the predicate and the snapshot under one lock. *)
Fresh == \A t \in Topics : cache[t] >= target

Stamp == Earlier(cache["scan"], cache["odom"])

(* A current sample shows the world as it is; of an older one only the     *)
(* stamp is kept.                                                          *)
Observe ==
  obs' = IF Stamp = now THEN [stamp |-> Stamp, at |-> robot.at, ran |-> robot.ran]
                        ELSE [stamp |-> Stamp, at |-> NoPlace, ran |-> <<>>]

(* Mutant of ResetReturns: the count goes on from the last episode. *)
ResetReturnsMidCount ==
  /\ pc = "reset_wait" /\ Fresh
  /\ Observe
  /\ outcome' = "running" /\ last' = "returned"
  /\ arg' = NoPlace /\ pc' = "idle"
  /\ UNCHANGED <<target, steps, seen, world, subs>>

ResetReturns ==
  /\ pc = "reset_wait" /\ Fresh
  /\ Observe
  /\ steps' = 0 /\ outcome' = "running" /\ last' = "returned"
  /\ arg' = NoPlace /\ pc' = "idle"
  /\ UNCHANGED <<target, seen, world, subs>>

StepActs(a) ==
  /\ pc = "idle" /\ outcome = "running" /\ InTime(1)
  /\ arg' = a /\ drive' = a
  /\ Order(1, NoPlace)
  /\ pc' = "step"
  /\ UNCHANGED <<target, steps, outcome, last, obs, seen, subs>>

StepWaits ==
  /\ Answered("step")
  /\ target' = target + 1 /\ steps' = steps + 1
  /\ pc' = "step_wait"
  /\ UNCHANGED <<arg, outcome, last, obs, seen, world, subs>>

(* terminated is reached or collided; truncated only when not terminated. *)
StepReturns ==
  /\ pc = "step_wait" /\ Fresh
  /\ Observe
  /\ \E r, c \in BOOLEAN :
       /\ seen' = [reached |-> r, collided |-> c]
       /\ outcome' = IF r THEN "success"
                     ELSE IF c THEN "collision"
                     ELSE IF steps >= MaxSteps THEN "timeout"
                     ELSE "running"
  /\ last' = "returned" /\ arg' = NoPlace /\ pc' = "idle"
  /\ UNCHANGED <<target, steps, world, subs>>

(* Mutant of Raise: iterations counted although the call failed. *)
RaiseCounted ==
  /\ last' = "raised" /\ arg' = NoPlace
  /\ pc' = IF pc \in {"attach", "first"} THEN "closed" ELSE "idle"
  /\ target' = IF pc \in Calls THEN target + 1 ELSE target
  /\ UNCHANGED <<steps, outcome, obs, seen, now, robot, drive, todo, pose, subs>>

(* An exception leaves the call where it stands: nothing is undone and     *)
(* _needs_reset is not set.  The constructor closes what it built.         *)
Raise ==
  /\ last' = "raised" /\ arg' = NoPlace
  /\ pc' = IF pc \in {"attach", "first"} THEN "closed" ELSE "idle"
  /\ UNCHANGED <<target, steps, outcome, obs, seen, now, robot, drive, todo, pose, subs>>

CallTimesOut ==
  /\ "late_reply" \in Faults
  /\ pc \in Calls /\ reply # "sent"
  /\ inbox' = [i \in DOMAIN inbox |-> [inbox[i] EXCEPT !.live = FALSE]]
  /\ reply' = "none"
  /\ Raise

CallRefused ==
  /\ "refused" \in Faults
  /\ pc \in Calls /\ inbox # <<>> /\ Head(inbox).live
  /\ inbox' = Tail(inbox) /\ reply' = "none"
  /\ Raise

WaitTimesOut ==
  /\ "slow_topic" \in Faults
  /\ \/ pc = "first" /\ \E t \in Topics : cache[t] = 0
     \/ pc \in {"reset_wait", "step_wait"} /\ ~Fresh
  /\ UNCHANGED <<inbox, reply>>
  /\ Raise

Close ==
  /\ pc = "idle" /\ pc' = "closed"
  /\ UNCHANGED <<env, world, subs>>

Closed == pc = "closed" /\ UNCHANGED vars

-----------------------------------------------------------------------------
SimNext == SimTakes \/ SimReplies \/ SimRuns

EnvReturns ==
  \/ AttachReturns \/ FirstMessages
  \/ ResetPlaces \/ ResetSettles \/ ResetWaits \/ ResetReturns
  \/ StepWaits \/ StepReturns

EnvRaises == CallTimesOut \/ CallRefused \/ WaitTimesOut

Next ==
  \/ SimNext
  \/ \E t \in Topics : Take(t) \/ Commit(t)
  \/ \E p \in Places : ResetBrakes(p)
  \/ \E a \in Actions : StepActs(a)
  \/ EnvReturns \/ EnvRaises
  \/ Close \/ Closed

Spec == Init /\ [][Next]_vars

(* The simulator serves and runs what it was sent, the bridge delivers and *)
(* the executor runs callbacks, the calling thread goes on when it can.    *)
FairSpec ==
  /\ Spec
  /\ WF_vars(SimNext) /\ WF_vars(EnvReturns)
  /\ \A t \in Topics : WF_vars(Take(t)) /\ WF_vars(Commit(t))

-----------------------------------------------------------------------------
(* Properties. *)

Times == 0..Horizon

TypeOK ==
  /\ pc \in Calls \cup Waits \cup {"idle", "closed"}
  /\ arg \in Actions \cup Places \cup {NoPlace}
  /\ target \in Nat /\ steps \in Nat
  /\ outcome \in {"idle", "running", "success", "collision", "timeout"}
  /\ last \in {"none", "returned", "raised"}
  /\ obs \in [stamp : Nat, at : Places \cup {NoPlace}, ran : Seq(Actions)]
  /\ seen \in [reached : BOOLEAN, collided : BOOLEAN]
  /\ now \in Nat /\ todo \in Nat
  /\ robot \in [at : Places \cup {NoPlace}, ran : Seq(Actions), still : 0..BrakeUnits]
  /\ drive \in Actions /\ pose \in Places \cup {NoPlace}
  /\ inbox \in Seq([units : Nat, place : Places \cup {NoPlace}, live : BOOLEAN])
  /\ reply \in {"none", "owed", "sent"}
  /\ taken \in [Topics -> Nat] /\ cache \in [Topics -> Nat]
  /\ held \in [Topics -> SUBSET Nat]

(* The barrier: what a call returns was sampled at the present of the      *)
(* world, on both topics, however the bridge delays, drops or reorders,    *)
(* and whichever call raised before (wait_for_sample: "It never returns    *)
(* stale data").                                                           *)
NeverStale == pc = "idle" /\ last = "returned" => obs.stamp = now

(* Nothing moves behind the caller's back: between calls the world has run *)
(* what was ordered and nothing is left to run (_advance: the count of     *)
(* iterations is the time).                                                *)
WorldAwaitsCaller ==
  pc = "idle" /\ last = "returned" => target = now /\ todo = 0 /\ inbox = <<>>

(* Whatever call failed, and however late the simulator executes what it   *)
(* was sent, the count never runs ahead of the time the world has reached  *)
(* or is already committed to reach: no later call waits for a stamp that  *)
(* never comes (_advance: time is counted when the service has answered,   *)
(* never before).                                                          *)
NeverWaitsInVain == target <= now + todo

(* As long as callbacks finish in the order they began, a call never waits *)
(* for a reading that has been dropped, overwritten or was never ordered:  *)
(* while a topic lacks the stamp waited for, the world still has to run,   *)
(* the bridge to deliver or a callback to finish, whatever failed before   *)
(* and however long the queue is (wait_for_sample: a timeout means that    *)
(* something is wrong, not that it waited for the wrong thing).            *)
Lacks(t) == IF pc = "first" THEN cache[t] = 0 ELSE cache[t] < target

ReadingIsOnItsWay ==
  Overlap = 1 /\ pc \in Waits =>
    \A t \in Topics : Lacks(t) => todo > 0 \/ taken[t] < now \/ held[t] # {}

(* env.py, "Wires sim_control and observation_node into the interface":    *)
(* reset shows the robot at the start this call was asked for and without  *)
(* a move since; step shows what the observation before it showed and the  *)
(* action this call was given, once, and nothing else.  The first step     *)
(* after an exception may show anything; a reset never.                    *)
Sync == INSTANCE SyncEnv
          WITH phase <- IF last = "raised" THEN "raised"
                        ELSE IF outcome = "running" THEN "running" ELSE "over",
               asked <- arg, at <- obs.at, ran <- obs.ran

LooksSynchronous == Sync!SyncSpec

(* The same episode contract the deployment controller keeps: one action,  *)
(* one judgement, by the same rules; an ended episode takes no action.     *)
Contract == INSTANCE EpisodeContract
              WITH phase <- outcome,
                   judged <- IF pc = "step_wait" THEN steps - 1 ELSE steps

KeepsEpisodeContract == Contract!ContractSpec

(* With callbacks in order every call comes back, whatever was refused or  *)
(* given up before: no queue limit, burst, early answer or late execution  *)
(* makes the stamp it waits for be one that never comes.                   *)
CallsReturn == (pc \in Calls \cup Waits) ~> (pc \in {"idle", "closed"})
=============================================================================
