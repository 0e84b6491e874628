# TLA+ models of ros2-rl-nav

Specifications, model-checking configurations and machine-checked proofs for
the robot navigation package in `src/robot_rl_env/robot_rl_env` (file names
below are relative to that directory). Contents: the inventory of the system,
the modules and how they correspond to the code, what the runs check, what is
proved, where code and documentation disagree, what is not modelled, the plan.

## 1. The system

A policy is trained with reinforcement learning against Gazebo and then drives
the same robot from a ROS node. The groups of code that keep state:

| Part | State | Operations | Hard behaviour |
|---|---|---|---|
| **Environment** `env.py` `RobotNavEnv` | `_sim_ns` (simulated time it has ordered), `_step_count`, `_needs_reset`, goal, previous action | constructor, `reset`, `step`, `close` | turns an asynchronous simulator into a synchronous `step`: it orders iterations, counts them, waits for both sensor stamps to reach the count |
| **Simulator client** `sim_control.py` | none beyond pending futures | `step`, `set_entity_pose`, `pause` with `SERVICE_TIMEOUT` | refusals; a call that timed out is still with the simulator |
| **Observation assembler** `observation_node.py` | one cached reading and stamp per topic, `/clock` | callbacks on a reentrant group, `wait_for_first_message`, `wait_for_sample`, `latest_sample` | overlapping callbacks, KEEP_LAST queues, one silent topic |
| **Deployment controller** `deploy.py` | goal, outcome, step, previous action | `set_goal`, `clear_goal`, `tick` | must keep the books of `env.step` exactly; safety gate and watchdog |
| **Policy node** `policy_node.py` | the controller, timers, publishers | goal callback, timer callback, `brake`, `main` | goal callbacks run beside the tick without a lock; shutdown |
| **Measurement** `deploy_eval.py`, `evaluate.py` | one record per episode | `run_episode`, `main`, `summarize_rollouts` | a thread that watches a loop it does not control, on a deadline |
| **Training** `train.py`, `callbacks.py`, `vec_env.py` | goal radius, rolling window, episode cycle | `learn`, curriculum, periodic evaluation | workers reset themselves; expansions meet episodes in progress |
| **Workers** `sim_launcher.py`, `vec_env.py`, `train.py` | process groups, domains | `start`, readiness, `stop`, factories, the finally block | a failure at any point of N concurrent launches, and the next run |
| **Evaluation set** `eval_set.py`, `arena.py` | a generator seeded anew by each program | `episodes`, `sample_episode`, `validate_episode` | several programs regenerate one set, for different sizes, by rejection on a budget |
| **Monitor** `monitor*.py` | last goal seen, last status, open event streams, stop event | topic callbacks, `telemetry`, `/stream`, `POST /goal`, `stop` | unlocked reads beside reentrant callbacks; goals in foreign frames; tabs that do not read |
| **Run directory** `train.py`, stable-baselines3's callbacks | `best/`, `checkpoints/`, `final.zip`, `vecnormalize.pkl` | periodic and final saves, `--resume` | a training is interrupted or killed at any step of a save, and the next one continues what it left |
| **Policy export** `export_policy.py` | `policy.pt` | `find_vecnormalize`, guard, trace, `verify`, save | the statistics are found by directory, beside models of several trainings, some of them torn |
| **Report** `report.py` | the README's two tables | `discover`, the tables, `splice` | reads result files while `evaluate` and `deploy_eval` write them or after one was killed |
| **Offline rest** `record.py`, `observation.py`, `action.py` | none | pure functions | floating point and drawing |

Interaction: the environment calls the simulator client and waits on the
assembler; the policy node's timer callback takes a snapshot from the
assembler, calls `DeploymentController.tick` and publishes; `deploy_eval` calls
`set_goal`/`clear_goal` of the running node from another thread and polls it;
`train.main` owns the workers, each of which owns a simulator and an
environment; the callbacks act on the environments between vectorised steps.
The monitor hears the topics the policy node publishes and publishes goals to
it. A training leaves its run directory to the export, `evaluate` and
`deploy_eval` leave their metrics in it to the report: they meet in files only.
Training, `evaluate`, `deploy_eval` and `record` each generate the
evaluation set for themselves.

What makes each part correct:

- environment: a call returns what the world is like *now*, after exactly the
  actions ordered; the world stands still between calls; every call returns;
- controller: a driving command is backed by a fresh sample outside the safety
  distance; an episode is judged by the rules of `env.step`, one judgement per
  action; a goal and an episode come and go together;
- measurement: a record tells one story, and the measurement ends;
- curriculum: an expansion is earned by episodes since the last one;
- run directory: a killed training costs at most what it learned since its last
  checkpoint, and a resumed one keeps the checkpoints it rests on;
- export: a complete `policy.pt` treats observations as the training did;
- report: no seed with results is missing without a mark, both tables rest on the
  same runs;
- workers: what was stopped is gone, and an environment has its own simulator;
- evaluation set: every episode is legal and can be finished, and all programs
  see the same ones;
- monitor: what is drawn is what is pursued, a click is pursued, Ctrl-C returns.

## 2. Modules

| Module | Models | Composition |
|---|---|---|
| `EpisodeContract` | the abstract episode both sides keep: begin, judge an action, abandon | abstract specification |
| `DeployRules` | goal tolerance, verdict order, outcomes | used by the next two |
| `DeployLoop` | controller, sample cache, watchdog and wall clock; a tick is one step | implements `EpisodeContract` |
| `PolicyNode` | the same controller with its threads: every attribute read or write of a tick or a caller is a step; shutdown | |
| `DeployEval` | `run_episode` against a loop that is `EpisodeContract` | extends `EpisodeContract` |
| `SyncEnv` | the synchronous environment a learner believes in: what a call is asked for, and what it shows when it returns | abstract specification |
| `StepBarrier` | `RobotNavEnv` + `SimControl` + subscriptions + simulator | implements `SyncEnv` and `EpisodeContract` |
| `Training` | `learn()` with `CurriculumCallback`, `FixedEpisodeCycle`, `EvalCallback`: a component, without a specification of its own | |
| `TrainingRun` | one run directory and the processes that train in it, started afresh or resumed, interrupted or killed; every file is truncated in one step and complete in a later one | extends `Training` |
| `Export` | `export_policy.main` over that directory, between trainings | extends `TrainingRun`; carries the specification of all three |
| `Report` | `report.main` file by file, beside `evaluate` and `deploy_eval` writing | |
| `Workers` | `Simulator`, `make_env`, `SimulatorLifetime`, `train.main` | |
| `EvalSet` | `episodes(n)` for one program after another, each draw of the seeded generator a step | |
| `Monitor` | `MonitorNode`, `MonitorServer`, and the policy node as the monitor sees it | |
| `*Proofs` | theorems about the module they extend | |
| `MC*` | model values for TLC | |

Definitions carry the name of the method or the place in it they stand for:
`DeployLoop!TickSafety` is the way out of `tick()` at the safety gate,
`StepBarrier!ResetBrakes` the first `_advance` of `reset()`,
`Workers!ReadOutput` the `stdout.read()` of the readiness loop. Operators
introduced as *mutants* in a comment are not used by the specifications: each
is a plausible mistake in the definition that follows it, and putting it in
that definition's place makes a property fail. They show that the properties
can fail.

### Abstractions

- A pose is a model value; which goals it is within the tolerance of is the
  constant `Within`. A clearance is a small number compared with
  `SafetyStop < CollisionThreshold`. An action is a model value.
- A sensor reading in `StepBarrier` is its stamp, because a stamp fixes the
  state of the world it shows. One unit of time is one environment step
  (`SIM_STEPS_PER_ACTION` iterations), which is also the sensor period. The lag
  of `/cmd_vel` behind `multi_step` (env.py:48-57) is one iteration, below it.
- `EarlyReply` says whether the control service may answer before the
  iterations have run. `contract.py:118-160` measures that it does not for the
  brake; `NeverStale` does not need this, `LooksSynchronous` does.
- In `PolicyNode` a tick that outlives the two seconds of `executor.shutdown`
  ends with the node: its publisher is gone, and nobody reads what it assigns.
- In `DeployEval` the loop is the contract, hence ticks are atomic.
  `run_episode` clears the goal and settles for a second before it sets the next,
  so that no tick is in flight across both; the one failure of the threaded loop
  that remains, a tick that raises, is `SpinThreadDies`.
- In `EvalSet` the seed fixes an unknown sequence of draws: it is chosen draw by
  draw when it is first read, and read back by whoever starts from the seed
  again. Coordinates are integers, distances are compared squared, boxes are not
  turned.
- In `Monitor` messages under way are sets, taken in any order: both nodes
  handle them on reentrant groups. A goal is a model value, in the policy
  node's frame or in another; the frame a browser draws is the goal in it, and
  stays drawn after its stream ended until the next frame comes.
- `Training` leaves to chance how episodes end; a radius is a natural number.
- In `TrainingRun` a saved model is its number of steps, counted in vectorised
  steps. Whether an evaluation is the best so far is left to chance, except that
  the first one of a process is always allowed to be. Of `vecnormalize.pkl` only
  what an export takes from it is kept: whether observations were normalised.
- In `Export` one terminal starts one program after the other, and
  `hyperparams.NORMALIZE_OBS` does not change between them. Statistics are never
  the identity, so that a trace which normalises and `predict` on raw
  observations do differ. A pickle found above a run directory, or named on the
  command line, may be any. Of `--tolerance` it matters only whether it was
  raised so far that this difference passes.
- In `Report` a metric is reduced to whether it is a number, a cell to the runs
  it averages over and its mark. One report runs at a time; evaluations and
  deployments write whenever they like.
- In `Workers`, a launch's children end with it on SIGTERM (ros2 launch) or
  SIGKILL (`killpg`), so that `stop()` is one step. For more than one worker,
  SubprocVecEnv's processes are daemons: when `main` dies they end and close
  nothing. Every environment uses the ROS domain of its own process, `Home`.

## 3. Runs

| Run | Question | Bounds and why they suffice |
|---|---|---|
| `deploy_loop` | do watchdog, safety gate, books and previous action hold for every order of sensor messages, time, goals, clears and ticks, and does an episode end? | 2 poses and 2 goals with one ambiguous pair, clearances on each side of both thresholds, 3 steps (first, middle, last), watchdog 2 periods; ages saturate at `AgeCap` |
| `policy_node` | which of these survive two callers interleaved with a tick at each attribute, under `policy_node` and under `deploy_eval`? | 2 callers and 1 tick: each race is between a tick and a caller or two callers; `MaxSteps` 1 makes the budget's edge reachable |
| `step_barrier` | is an observation the present, is the whole `SyncEnv`, with callbacks out of order, silent topics and refused calls? | queue of 1, brake of 2 units, so that a burst overflows the queue; 2 callbacks per topic at a time; 2 places, so that the start asked for can be confused with the other and with the one before; 2 steps, world time to 7: two resets, or one and its two steps; replies after the run |
| `step_barrier_faults` | with late execution, early replies, refusals and a world already stepped, does the environment ever wait for a stamp nobody ordered, or for a reading that was lost; does every call return, and are the books `EpisodeContract`'s? | as above, with 1 callback per topic at a time, 1 place and 1 action, since what the robot does is not the question; starts at 0 and 3, world time to 8: two episodes from 0; a call begins when the simulator has taken what was ordered before it, but not yet run it |
| `deploy_eval` | do records agree with the episode they report, are the rates right unless a warning is printed, and does the measurement end? | 2 episodes of at most 2 steps, deadline 2 |
| `export` | is each expansion earned, how much of an old task may be in the window, does an evaluation cover the list, what does a kill cost, what can be exported from what is left? | 2 workers, window 3, 2 successes, radii 2, 4, 5 (the last capped), 3 episodes; evaluations and checkpoints every 2 of 4 vectorised steps: two of each in one process, two expansions; 2 trainings in one directory, the second fresh or resumed from any model; both settings of `NORMALIZE_OBS`, both kinds of `--tolerance` |
| `report` | can a seed be dropped or the two tables rest on different runs, whatever is written meanwhile? | 2 runs, of one algorithm or of two: the least with a pair, a partial cell and a run read before another changes; any number of reports and writes |
| `workers` | after any failure, is what was stopped gone, does the read without a deadline have an end, and does `main` end? | 2 workers and the evaluation, all faults, any number of runs of `main` |
| `eval_set` | is every episode legal and reachable, do two programs see the same set, does generating end, and after how many draws? | 4 draws: one in an obstacle's margin, one pair too near, one too far, the rest legal; 2 attempts (one rejection short of the budget, and at it); sizes 1 and 2 in either order |
| `monitor` | does the drawn goal become the pursued one, is a click pursued, what does stopping wait for? | 1 goal in the right frame and 1 in another, 1 stream: the streams share nothing but what they read, and each race is between one reader and the callbacks. A second goal in the right frame is beyond TLC here; the stale status these runs meet is the one from before the goal |
| `first_goal`, `own_simulator` | statements of the documentation the code does not meet, section 5 | |

Beyond the bounds of these runs are `NeverStale` and `WorldAwaitsCaller` with
early replies, and `NeverWaitsInVain` and `ReadingIsOnItsWay` with waits that
time out or a call queued behind a request already given up; there the proof in
`StepBarrierProofs` stands for the run. The type invariant of every specification
is proved; the runs check only `ExportOK`, which is put together from three
modules, and spend the rest on what is not a matter of types.

Deadlock is checked in all of them. A directory in which nobody starts anything
any more is the one place of rest (`Over` in `Export`).

**Fairness.** `DeployLoop`: the control timer fires. `PolicyNode`: a thread
that has something to run gets to run; bridge, callers and operator owe nothing.
`StepBarrier`: simulator, bridge and the calling thread make progress; faults
owe nothing. `DeployEval`: the main thread runs and the wall clock passes; the
loop owes nothing, since the deadline must do without it. `Workers`: each
process is scheduled, a launch that does not fail comes up, and the timesteps of
`learn()` run out. `EvalSet`: the generating loop runs. `Monitor`: timers fire,
handed-out callbacks and handler threads run, and the main thread goes on once
interrupted; browsers, tabs and other publishers owe nothing. `Export` and
`Report` state no fairness: a program may be left where it is.
The code relies on the operating system for all of these and
on nothing stronger; no strong fairness is used.

## 4. What the checks and the proofs show

**Deployment.** `DriveIsJustified`, `WheelsStopWhenBlind` and
`SafetyTripEndsEpisode` say that a driving command needs a fresh sample short of
goal and collision, does not outlive its sample by more than the watchdog plus a
period, and that a tripped gate leaves no running episode.
`KeepsEpisodeContract` is the claim in the docstring of `deploy.py` that its
bookkeeping "mirrors env.step exactly"; `StepBarrier` is shown to keep the same
contract. In `DeployEval`, `RecordsAreConsistent` compares each record with a
history of what the loop judged: the verdict on that episode and the count at
which it was passed, for every outcome, since the means of evaluate.py:112 rest
on the successes' counts. In `PolicyNode` the bookkeeping does not survive the
races, but `GateHoldsUnderRaces` does: gate and watchdog decide on the tick's own
copy.

**Environment.** `NeverStale` and `WorldAwaitsCaller` are about one moment, the
return of a call; `LooksSynchronous` relates it to the call: the start on show
is the one this `reset` was asked for, whatever episode came before, and the
actions on show are those given since, each carried out whole. A call that
raises, refused or out of time, frees a `step` that comes next from this (the
velocity was published, the step perhaps counted, env.py:306-313); a `reset`, and
every call after that step, is held to it again. `CallsReturn` is the liveness;
`NeverWaitsInVain` is what remains with every fault, and
`ReadingIsOnItsWay` is the half of `CallsReturn` that needs no fairness: what a
call waits for is under way. It speaks of callbacks that finish in order; with
two at once it is false, which is one of the divergences of section 5.
`KeepsEpisodeContract` is not claimed with observation timeouts: a step whose
wait raises was counted and is not judged.

**Training and workers.** `OldOutcomesAtMostWorkers` measures the price of
expanding while episodes run: as many outcomes of the old task as there are
workers may sit in the cleared window. `EpisodesFollowTheRadius` is about the
episode a worker draws when one ends, not about the one that ended.
`StoppedMeansGone` and `OrderlyEndLeavesNothing` except launches whose own
process died alone, because `stop()` returns on a dead leader without looking at
the group. `OrderlyEndLeavesNothing` says nothing of a `save()` or `close()` that
raises in the finally block. `ReadsOnlyWhatEnds`, with the same exception, is why
a start is bounded: `stdout.read()` has no deadline, and is reached only when
nobody holds the other end.

**Run directory and export.** `KillIsNotTotalLoss` is the docstring's "so a
killed run is not a total loss" (train.py:13), with the number the code gives
it. It needs `reset_num_timesteps=False`: a counter that restarted would have the
resumed training truncate the checkpoints it rests on. It is about the current
lineage: a fresh start in the directory gives up all earlier checkpoints, a
resume from an older model the later ones, and those may be overwritten and torn.
`ExportIsThePolicy` is the "one thing this file must never do quietly"
(export_policy.py:25). Two defences make it hold and both are needed: the guard
refuses raw observations for a policy trained on normalised ones, whatever the
tolerance; `verify` refuses statistics where the training used none, unless
`--tolerance` was raised.

**Report.** `NoSeedIsDropped` speaks of the runs that had an `eval.json` when the
report began, however files are torn or rewritten while it reads: it holds
because a torn file raises and no program ever deletes one. `TablesAgree` is the
"same seeds" of report.py:276.

**Evaluation set and monitor.** `EpisodesAreLegal` includes the one rule
`validate_episode` does not check, that a goal can be reached in time;
`DrawsAreBounded` prices a set: two budgets and a yaw for each episode.
`PrefixStable` holds between programs that ask for different sizes and when a
sampling fails half way. `SettledGoalIsDrawn` holds with statuses stored in any
order, because the status is published on every tick: an old one is replaced.
It needs the status topic: without it the browser draws the last goal seen,
pursued or not. `OneFrameAfterStop` and `StopReturns` are the two halves of
stopping: streams finish the frame they are on, and nobody waits for them.

### Theorems

All theorems hold for every value of the constants that satisfies the named
assumptions of the modules, which TLC evaluates on each run.

| Module | Proved | Argument |
|---|---|---|
| `DeployLoopProofs` | types, all invariants and the safety action property of `deploy_loop`, and that it implements `EpisodeContract` | the invariant adds that the last command agrees with the tick that gave it and that a command other than a stop is at most watchdog + time since the tick old (`CommandIsRecent`); every `Tick...` action maps to `Judge`, `JudgeStart`, `Look` or a stutter |
| `PolicyNodeProofs` | types, `GateHoldsUnderRaces`, `GoalMeansEpisode`, for any number of callers | the gate: the tick's copy is fixed from the snapshot to the publication, so past the gate it is known to be fresh and clear. Goal and episode: while callers are inside `set_goal` the two disagree, and some caller still owes the outcome; under `policy_node` no caller owes an idle one |
| `MeasurementProofs`, on `DeployEval` | types, `RecordsAreConsistent`, `RatesTrustedUnlessWarned`, for any number of episodes, steps and any deadline | a record is put together from reads at different moments of a loop that goes on. Once the loop has named an outcome, outcome and step are those of the verdict in the history and stand still until the goal is cleared (`VerdictStands`), an expired watch or a stall is known before the record is written (`WatchIsOver`), so each record fits the loop at the moment it is appended (`RecordFits`), and what is printed is counted from records |
| `StepBarrierProofs` | types; `NeverStale`, `WorldAwaitsCaller` for environments attached at time 0 without late replies; `NeverWaitsInVain` with every fault and without that assumption; for every queue depth, overlap, brake length and horizon | for the last, an inequality is enough (`CommittedInv`): `_sim_ns` plus what the call is about to count never exceeds world time, iterations left and requests on their way, and no request is ever withdrawn. For the first two it is conservation: world time, iterations left, and requests on their way add up to `_sim_ns` plus the call being made; no callback carries and no cache holds a stamp from the future |
| the same module | `LooksSynchronous`, for a service that answers when it is done and no request executed late, with silent and delayed topics, overlaps and refusals; `KeepsEpisodeContract`, for topics that do not fall silent | synchronous: an answer means nothing is left to run (`AnswersWhenDone`), a place is ordered once and while the robot stands, and what is on show is the world until the one ordered action has run (`RobotInv`); each step then is a step of `SyncEnv` or leaves its variables alone. Contract: in the middle of a step the episode is running and the step counted (`EpisodeInv`), so each call begins, judges or abandons an episode when it returns |
| the same module | `ReadingIsOnItsWay`, with every fault, early and late answers, from any start | with one callback at a time a subscription with nothing in hand shows the last reading it took, and one that has never shown anything is still to see the constructor's unit run (`ArrivalInv`); with `NeverWaitsInVain` a stamp that is missing is then ahead of the world or of the subscription |
| `WorkersProofs` | types, `StoppedMeansGone`, `OrderlyEndLeavesNothing`, `ReadsOnlyWhatEnds`, for any number of workers and every set of faults | children without their launch process are those of a launch that died alone; from the end of `learn()` on only `close()` and `stop()` move a slot, in the order of the finally block |
| `EvalSetProofs` | types, `EpisodesAreLegal`, that validation never raises (`SamplerPassesValidation`), `DrawsAreBounded`, and `PrefixStable`, for every arena, seed, size, budget and number of generations | the start is free from the moment it was accepted, and past the goal's acceptance the pair is legal; what is appended and returned was both. Draws: a full price for each finished episode and what the running one has cost (`DrawsInv`). Prefixes: generating is a machine driven by draws, so the stream has one account, the state after each draw (`Account`); it only grows, the episodes in it only grow, and every generation stands or stopped at some place of it (`PrefixInv`) |
| `MonitorProofs` | types, `OneFrameAfterStop`, for any number of streams, goals and messages | a late frame leaves its stream at the check that the event fails; for the types, statuses carry only what the policy node pursues, and a second look at the status happens only when there is one |
| `ExportProofs` | types of all three modules (`ExportOK`), `EpisodesFollowTheRadius`, `ExpansionIsEarned`, `OldOutcomesAtMostWorkers`, `CoversTheSetOnce`, `KillIsNotTotalLoss`, `ExportIsThePolicy`, for any number of workers, trainings and exports, any frequencies | curriculum: the window always is the history of outcomes since the radius moved (`CurriculumInv`). Price of an expansion: a worker owes at most one old episode, and the workers that still owe one and the old outcomes in the window are together at most N (`BacklogInv`): one step of the workers appends one outcome for each episode that ended, shown by induction over the loop of infos. Coverage: the episodes of an evaluation are consecutive modulo the list's length, and as many as the list is long meet every remainder (`CycleInv`). Kills: at each point of the loop the model's count is the newest checkpoint's plus the remainder of the callbacks' count by `SaveFreq` (`Distance`), wherever the model's count began; checkpoints of the lineage lie strictly below the step being saved, so a save truncates none of them. Export: what is traced passed the guard, what is written was verified or let through |
| `MeasurementProofs`, on `Report` | types, `NoSeedIsDropped`, `TablesAgree`, for any number of runs and algorithms | an `eval.json` that existed when the report began exists ever after, so what was read of it is not None (`NothingMissed`); a cell that is not marked averages over as many runs as it was asked for, hence over all of them (`CellIsHonest`) |

Only model-checked: all liveness (`EpisodeEnds`, `WatchdogStopsWheels`,
`CallsReturn`, `EvaluationEnds`, `MainEnds`, `GenerationEnds`,
`SettledGoalIsDrawn`, `ClickIsPursued`, `StopReturns`), because the prover does
not reach ENABLED. For three of them the safety half is proved: `ReadingIsOnItsWay`
for `CallsReturn`, `DrawsAreBounded` for `GenerationEnds`, `ReadsOnlyWhatEnds` for
`MainEnds`. The project declares no recursive operator of its own. The one
loop whose result is proved for every length, the callback's loop over the
infos, is the recursive function `EndedUpTo`; the library states induction over
an operator, which the provers cannot instantiate, so `ExportProofs` derives
induction over a set of numbers (`InductiveSet`) from the well-foundedness of
strict inclusion of finite sets.

## 5. Where the code and its documentation disagree

The first two have a run with a counterexample.

1. **Every environment attaches to worker 0's simulator** (`own_simulator`).
   `vec_env.py:5-8` says the simulator a worker starts is the one it talks to.
   `worker_environment` reaches `ros2 launch` and `ros2 list` only; `RobotNavEnv`
   opens its context in the unchanged environment of its process, where
   docker-compose sets domain 42, worker 0's.
2. **The first goal can end the control loop** (`first_goal`). A goal assigned
   between two reads of one tick makes it compare `None` with the tolerance.

Met while modelling, reachable in the models, without a run of their own:

- a stalled episode is reported as a timeout: `summarize_rollouts` counts every
  record that is neither success nor collision (evaluate.py:98), although
  deploy_eval.py:82-83 and 364 say it is not folded into the timeout rate.
  `RatesTrustedUnlessWarned` is what remains;
- evaluations do not start at the same episode, although vec_env.py:57-60 says
  "the same episodes in the same sequence": an evaluation resets once more than
  it plays, so each starts one further. `CoversTheSetOnce` is what remains;
- a goal the policy node drops for its frame is drawn until a status names
  another, although monitor_node.py:111-112 says "the drawn goal is the one the
  node is actually pursuing"; and for good if the node has no goal, or no status
  topic;
- a status without a goal that arrives between two reads of `_status` raises in
  `telemetry()` and ends the stream (monitor_node.py:166-167);
- a verdict judged for a goal being replaced is booked to its successor, and
  `step += 1` can write the old count over the new zero (deploy.py:270, 298);
- a tick in flight publishes after the closing brake (policy_node.py:325-329);
- a safety trip within the goal tolerance is a success, not the "COLLISION" of
  deploy.py:42-50; an observation both at the goal and in collision counts once
  in `deploy_eval` and twice in `evaluate` (evaluate.py:158);
- a goal that replaces a running episode shows the policy a stop that was never
  commanded (deploy.py:210-213);
- a loop that ticks on old data hits the deadline too, although deploy_eval.py:83
  says a deadline hit means it stopped ticking;
- an environment attached to a stepped world before `/clock` was heard, and one
  whose request was executed after `SERVICE_TIMEOUT`, return old readings
  (env.py:181, sim_control.py:147);
- overlapping callbacks can overwrite the newest reading, so that a wait times
  out on data that arrived (observation_node.py:86-138);
- `best/` is not "the highest-scoring policy on the held-out set" (train.py:14)
  once a directory has seen two processes: the best score is not saved, and the
  first evaluation of a resumed or repeated training replaces the model;
- `vecnormalize.pkl` is "required to resume" (train.py:16, 58), but `--resume`
  never loads it: reward statistics and curriculum start again;
- with `NORMALIZE_OBS` on, nothing can be exported without raising `--tolerance`: `verify` compares the trace
  with `predict` on raw observations (export_policy.py:181-198), which disagrees
  with every trace that normalises them, although lines 33-36 say statistics are
  "baked in";
- for `final.zip` the search one level up reaches `runs/`, the place
  export_policy.py:134-137 says it does not reach;
- `CheckpointCallback` saves statistics beside each checkpoint
  (`save_vecnormalize=True`) under a name `find_vecnormalize` does not look for;
- callbacks count calls from zero in each process: trainings that are resumed and
  killed within `CHECKPOINT_FREQ` never reach a checkpoint;
- a training started afresh by mistake and interrupted at once overwrites
  `final.zip` with an untrained model, and `policy.pt`, `eval.json` and `gap.json`
  of an earlier training stay as if they were of this one;
- an absent or torn baseline raises after the measurement is over and before it
  is saved (deploy_eval.py:377);
- result files and the README are written in place: a report that is killed while
  writing leaves a README whose markers are gone, and every later report raises
  until it is restored;
- a failure between the first launch and line 163 of `train.py`, a failing
  `save()`, or a worker that raised leaves simulators to the next run;
- the first episode of each worker is drawn from the whole arena, because
  `learn()` resets before the curriculum sets its radius (callbacks.py:57).

## 6. Not modelled

Rewards, the learner, floating-point geometry (frames, lidar pooling, the
observation vector, turned boxes), the drawing of `record.py`, the networks and
the arithmetic of `verify`, argument parsing and logging. `record.py` plays
`evaluate`'s episodes through the same `run_episode` and keeps no state of its
own; `hyperparams.py` and `contract.py` are constants, whose values the
configurations scale down. `SuccessRateCallback` only logs. The policy node's
status topic and frame check are in `Monitor`: nothing feeds back from them into
the controller.

## 7. Plan

Done, in this order: the deployment core (`EpisodeContract`, `DeployRules`,
`DeployLoop`, `PolicyNode`), the environment (`SyncEnv`, `StepBarrier`),
`DeployEval`, `Training`, `Workers`, `EvalSet`, `Monitor`, the run directory
and what is made of it (`TrainingRun`, `Export`, `Report`), and the proofs of
section 4. What would come next:

1. Composition of `Workers` and `StepBarrier`: two environments on one simulator.
2. Pure rules over small domains against reference definitions: action scaling
   and its inverse, pooling of lidar rays.
3. Proofs: the safety half of `EvaluationEnds` and `MainEnds`, as a measure every
   step of the main thread lowers.
