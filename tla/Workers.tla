------------------------------- MODULE Workers -------------------------------
(***************************************************************************)
(* train.py's processes: one simulator per training worker and one for the *)
(* evaluation environment, each a launch process (leader) with its gz and  *)
(* bridge children (body) in a ROS domain of its own; the environments     *)
(* that talk to them; and main(), which starts, uses and closes them and   *)
(* may be run again after it ended or died.                                *)
(*                                                                         *)
(* External, modelled from how the code uses them: ros2 launch (its        *)
(* children end with it on SIGTERM), and SB3's vectorised environments     *)
(* (DummyVecEnv in main's process for one worker; for more, SubprocVecEnv, *)
(* whose daemon processes end without closing anything when main dies).    *)
(***************************************************************************)
EXTENDS Naturals, FiniteSets

CONSTANTS
    N,          \* training workers (--n-envs)
    Faults,     \* which of the failures below may happen
    None        \* no simulator

\* slow:   a launch that is not ready within LAUNCH_TIMEOUT
\* exits:  a launch process that ends by itself and takes its children along
\* dies:   a launch process that dies and leaves its children behind
\* raise:  a RobotNavEnv constructor or step that raises
\* save:   model.save() or train_env.save() that raises
FaultKinds == {"slow", "exits", "dies", "raise", "save"}

Slots == 0 .. N                 \* the evaluation environment is slot N
Train == 0 .. N - 1
Sims == Slots \X {"own", "old"} \* launched by this run, or left by another

ASSUME WorkersAssumption == N \in Nat \ {0} /\ Faults \subseteq FaultKinds
ASSUME NoneIsNoSimulator == None \notin Sims

VARIABLES
    pc,         \* main()
    st,         \* each slot: its factory, and then its environment
    leader,     \* the slots whose launch process of this run is alive
    body,       \* the slots whose gz and bridges of this run are alive
    old,        \* the slots where gz and bridges of earlier runs are alive
    env,        \* the simulator each slot's environment talks to
    bereft      \* history: slots whose leader died before its children

vars == <<pc, st, leader, body, old, env, bereft>>
group == <<leader, body, old, bereft>>

TypeOK ==
    /\ pc \in {"train_env", "eval_env", "learn", "save", "close_train",
               "close_eval", "ended", "died"}
    /\ st \in [Slots -> {"off", "launching", "ready", "attached",
                         "reading", "raising", "closing", "failed", "closed", "dead"}]
    /\ leader \subseteq Slots /\ body \subseteq Slots
    /\ old \subseteq Slots /\ bereft \subseteq Slots
    /\ env \in [Slots -> Sims \union {None}]
    /\ \A i \in Slots : env[i] # None <=> st[i] = "attached"

Init ==
    /\ pc = "train_env"
    /\ st = [i \in Slots |-> "off"]
    /\ env = [i \in Slots |-> None]
    /\ leader = {} /\ body = {} /\ old = {} /\ bereft = {}

Go(i, s) == st' = [st EXCEPT ![i] = s]

-----------------------------------------------------------------------------
(* The simulator of slot i: sim_launcher.Simulator                         *)

\* start(): SubprocVecEnv starts its workers together, main() the others.
Launch(i) ==
    /\ st[i] = "off"
    /\ i = N => pc = "eval_env"
    /\ Go(i, "launching")
    /\ leader' = leader \union {i}
    /\ UNCHANGED <<pc, body, old, env, bereft>>

\* external: gz and both bridges come up and advertise
Boot(i) ==
    /\ i \in leader \ body /\ st[i] = "launching"
    /\ body' = body \union {i}
    /\ UNCHANGED <<pc, st, leader, old, env, bereft>>

\* external: the launch process ends by itself
LaunchExits(i) ==
    /\ "exits" \in Faults /\ i \in leader /\ st[i] = "launching"
    /\ leader' = leader \ {i} /\ body' = body \ {i}
    /\ UNCHANGED <<pc, st, old, env, bereft>>

LeaderDies(i) ==
    /\ "dies" \in Faults /\ i \in leader \intersect body
    /\ leader' = leader \ {i} /\ bereft' = bereft \union {i}
    /\ UNCHANGED <<pc, st, body, old, env>>

\* _wait_until_ready: poll() first, then the graph of this slot's domain,
\* where a simulator of an earlier run answers as well as this one's.
SeeReady(i) ==
    /\ st[i] = "launching" /\ i \in leader
    /\ i \in body \union old
    /\ Go(i, "ready")
    /\ UNCHANGED <<pc, env, group>>

\* The launch has exited: stdout.read() returns when the last process that
\* holds the pipe is gone, and only then is the error raised.
SeeExit(i) ==
    /\ st[i] = "launching" /\ i \notin leader
    /\ Go(i, "reading")
    /\ UNCHANGED <<pc, env, group>>

ReadOutput(i) ==
    /\ st[i] = "reading" /\ i \notin body
    /\ Go(i, "raising")
    /\ UNCHANGED <<pc, env, group>>

\* Mutant of LaunchTimesOut: the error of a slow launch quotes its output too.
TimesOutReading(i) ==
    /\ "slow" \in Faults
    /\ st[i] = "launching"
    /\ Go(i, "reading")
    /\ UNCHANGED <<pc, env, group>>

LaunchTimesOut(i) ==
    /\ "slow" \in Faults
    /\ st[i] = "launching"
    /\ Go(i, "raising")
    /\ UNCHANGED <<pc, env, group>>

\* make_env's except and SimulatorLifetime.close() end in stop().
Settle(i) == Go(i, IF st[i] = "raising" THEN "failed" ELSE "closed")

\* stop(): nothing is done about the group of a launch that is already dead.
StopReturnsAtOnce(i) ==
    /\ st[i] \in {"raising", "closing"} /\ i \notin leader
    /\ Settle(i)
    /\ UNCHANGED <<pc, env, group>>

\* SIGTERM to the leader alone, which leaves what it launched.
LeaderEnds(i) ==
    /\ leader' = leader \ {i} /\ body' = body

\* killpg: SIGTERM, on which launch ends its children and then itself, or
\* SIGKILL to all of them when the grace has passed.
GroupEnds(i) ==
    /\ leader' = leader \ {i} /\ body' = body \ {i}

StopTerminates(i) ==
    /\ st[i] \in {"raising", "closing"} /\ i \in leader
    /\ GroupEnds(i)
    /\ Settle(i)
    /\ UNCHANGED <<pc, old, env, bereft>>

-----------------------------------------------------------------------------
(* The environment of slot i: vec_env.make_env                             *)

\* RobotNavEnv's rclpy context takes the domain of its own process, which is
\* the one docker-compose sets and slot 0's simulator uses, for every slot.
Home == 0

Reachable ==
    { s \in Sims : s[1] = Home /\ (IF s[2] = "own" THEN Home \in body ELSE Home \in old) }

Attach(i) ==
    /\ st[i] = "ready"
    /\ \E s \in Reachable : env' = [env EXCEPT ![i] = s]
    /\ Go(i, "attached")
    /\ UNCHANGED <<pc, group>>

AttachLeaving(i) ==
    /\ st[i] = "ready"
    /\ "raise" \in Faults \/ Reachable = {}
    /\ Go(i, "failed")
    /\ UNCHANGED <<pc, env, group>>

AttachRaises(i) ==
    /\ st[i] = "ready"
    /\ "raise" \in Faults \/ Reachable = {}
    /\ Go(i, "raising")
    /\ UNCHANGED <<pc, env, group>>

-----------------------------------------------------------------------------
(* main()                                                                  *)

Alive == pc \notin {"ended", "died"}

TrainEnvHopedFor ==
    /\ pc = "train_env" /\ st[0] = "attached"
    /\ pc' = "eval_env"
    /\ UNCHANGED <<st, env, group>>

\* SubprocVecEnv asks worker 0 for its spaces; DummyVecEnv builds it in place.
TrainEnvBuilt ==
    /\ pc = "train_env" /\ st[0] \in {"attached", "failed"}
    /\ pc' = IF st[0] = "attached" THEN "eval_env" ELSE "died"
    /\ UNCHANGED <<st, env, group>>

EvalEnvBuilt ==
    /\ pc = "eval_env" /\ st[N] \in {"attached", "failed"}
    /\ pc' = IF st[N] = "attached" THEN "learn" ELSE "died"
    /\ UNCHANGED <<st, env, group>>

\* An exception in a worker's step ends its process, and nothing is closed.
WorkerRaises(i) ==
    /\ "raise" \in Faults /\ N > 1
    /\ pc = "learn" /\ i \in Train /\ st[i] = "attached"
    /\ Go(i, "dead") /\ env' = [env EXCEPT ![i] = None]
    /\ UNCHANGED <<pc, group>>

\* learn() returns or raises; either way the finally block runs.
LearnEnds ==
    /\ pc = "learn"
    /\ \/ \A i \in Train : st[i] = "attached"
       \/ \E i \in Train : st[i] \in {"failed", "dead"}
    /\ pc' = "save"
    /\ UNCHANGED <<st, env, group>>

Save ==
    /\ pc = "save"
    /\ \/ pc' = "close_train"
       \/ "save" \in Faults /\ pc' = "died"
    /\ UNCHANGED <<st, env, group>>

\* close() of the environments in S: RobotNavEnv.close, then stop().
Closing(S) ==
    /\ st' = [i \in Slots |-> IF i \in S THEN "closing" ELSE st[i]]
    /\ env' = [i \in Slots |-> IF i \in S THEN None ELSE env[i]]

\* train_env.close() raises on the pipe of a worker that is gone.
CloseTrainEnv ==
    /\ pc = "close_train"
    /\ IF \A i \in Train : st[i] = "attached"
          THEN pc' = "close_eval" /\ Closing(Train)
          ELSE pc' = "died" /\ UNCHANGED <<st, env>>
    /\ UNCHANGED group

CloseEvalEnv ==
    /\ pc = "close_eval" /\ st[N] = "attached"
    /\ \A i \in Train : st[i] = "closed"
    /\ Closing({N})
    /\ UNCHANGED <<pc, group>>

ReturnAtOnce ==
    /\ pc = "close_eval"
    /\ pc' = "ended"
    /\ UNCHANGED <<st, env, group>>

Return ==
    /\ pc = "close_eval" /\ st[N] = "closed"
    /\ pc' = "ended"
    /\ UNCHANGED <<st, env, group>>

\* A SIGKILL, or a terminal that went away: nothing is closed.
Killed ==
    /\ Alive
    /\ pc' = "died"
    /\ UNCHANGED <<st, env, group>>

\* The next training run finds what this one left.
RunAgain ==
    /\ ~Alive
    /\ pc' = "train_env"
    /\ st' = [i \in Slots |-> "off"] /\ env' = [i \in Slots |-> None]
    /\ old' = old \union body
    /\ leader' = {} /\ body' = {} /\ bereft' = {}

\* What slot i's factory, environment and stop() do while main's processes live.
Slot(i) ==
    /\ Alive
    /\ \/ Launch(i) \/ SeeReady(i) \/ SeeExit(i)
       \/ ReadOutput(i) \/ LaunchTimesOut(i)
       \/ StopReturnsAtOnce(i) \/ StopTerminates(i)
       \/ Attach(i) \/ AttachRaises(i)

World(i) == Alive /\ (Boot(i) \/ LaunchExits(i) \/ LeaderDies(i))

Main ==
    \/ TrainEnvBuilt \/ EvalEnvBuilt \/ LearnEnds \/ Save
    \/ CloseTrainEnv \/ CloseEvalEnv \/ Return

Next ==
    \/ Main
    \/ \E i \in Slots : Slot(i) \/ World(i) \/ WorkerRaises(i)
    \/ Killed \/ RunAgain

Spec == Init /\ [][Next]_vars

\* Every process is scheduled, a launch that does not fail comes up, and the
\* timesteps of learn() run out.
FairSpec ==
    /\ Spec /\ WF_vars(Main)
    /\ \A i \in Slots : WF_vars(Alive /\ Boot(i)) /\ WF_vars(Slot(i))

-----------------------------------------------------------------------------
(***************************************************************************)
(* A factory that raised and an environment that was closed leave no       *)
(* process behind, whichever of the launch, the readiness check and the    *)
(* constructor failed (sim_launcher.py:119-124, vec_env.py:107-112), unless *)
(* the launch process died alone: then stop() returns before it looks at   *)
(* the group.                                                              *)
(***************************************************************************)
StoppedMeansGone ==
    \A i \in Slots : st[i] \in {"failed", "closed"} /\ i \notin bereft
                        => i \notin leader \union body

(***************************************************************************)
(* A run that leaves main() through its finally block leaves no simulator  *)
(* for the next one to attach to (train.py:173-181, vec_env.py:10-14), with *)
(* the same exception.                                                     *)
(***************************************************************************)
OrderlyEndLeavesNothing ==
    pc = "ended" => leader \union body \subseteq bereft

(***************************************************************************)
(* What the readiness check reads to its end has one: nobody is left who   *)
(* holds the pipe open, unless the launch process died alone. The read has *)
(* no deadline, so LAUNCH_TIMEOUT bounds a start only because of this      *)
(* (sim_launcher.py:135-138).                                              *)
(***************************************************************************)
ReadsOnlyWhatEnds ==
    \A i \in Slots : st[i] = "reading" /\ i \notin bereft
                        => i \notin leader \union body

(***************************************************************************)
(* Every run of main() ends, through whatever fails, unless a launch       *)
(* process died alone: then the readiness check reads a pipe its children  *)
(* hold open, past LAUNCH_TIMEOUT (sim_launcher.py:135-150).               *)
(***************************************************************************)
MainEnds == (pc = "train_env") ~> (~Alive \/ bereft # {})

(***************************************************************************)
(* "the simulator it starts is the one that process talks to" (vec_env.py  *)
(* :7-8): an attached environment is attached to its own simulator.        *)
(***************************************************************************)
OwnSimulator ==
    \A i \in Slots : st[i] = "attached" => env[i] = <<i, "own">>
=============================================================================
