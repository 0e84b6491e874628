---------------------------- MODULE WorkersProofs ----------------------------
(***************************************************************************)
(* For any number of workers and any set of faults: what was stopped is    *)
(* gone, and a run of main() that ends through its finally block leaves no *)
(* simulator behind, launches whose own process died alone excepted.       *)
(***************************************************************************)
EXTENDS Workers, TLAPS

(* Children outlive their launch process only if it died alone.            *)
BodyHasLeader == body \subseteq leader \union bereft

(* How far the slots are at the places main() passes once training ended.  *)
ClosingInOrder ==
  /\ pc \in {"learn", "save", "close_train"} => st[N] = "attached"
  /\ pc = "close_eval" =>
        /\ st[N] \in {"attached", "closing", "closed"}
        /\ \A i \in Train : st[i] \in {"closing", "closed"}
        /\ st[N] # "attached" => \A i \in Train : st[i] = "closed"
  /\ pc = "ended" => \A i \in Slots : st[i] = "closed"

(* A read begins after the launch process has ended, and a slot is         *)
(* launched once in a run.                                                 *)
ReadersAreLeft == \A i \in Slots : st[i] = "reading" => i \notin leader

IInv == TypeOK /\ BodyHasLeader /\ StoppedMeansGone /\ ReadersAreLeft /\ ClosingInOrder

LEMMA SlotFacts ==
  /\ N \in Slots /\ 0 \in Slots /\ Train \subseteq Slots /\ N \notin Train
  /\ Slots = Train \union {N}
BY WorkersAssumption DEF Slots, Train

LEMMA InitInv == Init => IInv
BY DEF Init, IInv, TypeOK, BodyHasLeader, StoppedMeansGone, ReadersAreLeft, ClosingInOrder, Slots, Sims

(* Every move of one slot goes from a place to a place it may reach, and   *)
(* touches the processes of no other.                                      *)
LEMMA TypePreserved == TypeOK /\ [Next]_vars => TypeOK'
<1> SUFFICES ASSUME TypeOK, [Next]_vars PROVE TypeOK'
  OBVIOUS
<1> USE SlotFacts
<1>1. CASE Main
  BY <1>1 DEF Main, TypeOK, TrainEnvBuilt, EvalEnvBuilt, LearnEnds, Save, CloseTrainEnv,
     CloseEvalEnv, Return, Closing, group
<1>2. ASSUME NEW i \in Slots, Slot(i) PROVE TypeOK'
  <2>1. CASE Launch(i) BY <2>1 DEF TypeOK, Launch, Go
  <2>2. CASE SeeReady(i) BY <2>2 DEF TypeOK, SeeReady, Go, group
  <2>3. CASE SeeExit(i) BY <2>3 DEF TypeOK, SeeExit, Go, group
  <2>4. CASE ReadOutput(i) BY <2>4 DEF TypeOK, ReadOutput, Go, group
  <2>5. CASE LaunchTimesOut(i) BY <2>5 DEF TypeOK, LaunchTimesOut, Go, group
  <2>6. CASE StopReturnsAtOnce(i) BY <2>6 DEF TypeOK, StopReturnsAtOnce, Settle, Go, group
  <2>7. CASE StopTerminates(i) BY <2>7 DEF TypeOK, StopTerminates, GroupEnds, Settle, Go
  <2>8. CASE Attach(i)
    <3>1. PICK s \in Reachable : env' = [env EXCEPT ![i] = s] BY <2>8 DEF Attach
    <3>2. s \in Sims /\ s # None
      <4>1. s \in Sims BY <3>1 DEF Reachable
      <4>2. QED BY <4>1, NoneIsNoSimulator
    <3>3. QED BY <3>1, <3>2, <2>8 DEF TypeOK, Attach, Go, group
  <2>9. CASE AttachRaises(i) BY <2>9 DEF TypeOK, AttachRaises, Go, group
  <2>10. QED
    BY <1>2, <2>1, <2>2, <2>3, <2>4, <2>5, <2>6, <2>7, <2>8, <2>9 DEF Slot
<1>3. ASSUME NEW i \in Slots, World(i) PROVE TypeOK'
  BY <1>3 DEF TypeOK, World, Boot, LaunchExits, LeaderDies
<1>4. ASSUME NEW i \in Slots, WorkerRaises(i) PROVE TypeOK'
  BY <1>4 DEF TypeOK, WorkerRaises, Go, group
<1>5. CASE Killed BY <1>5 DEF TypeOK, Killed, group
<1>6. CASE RunAgain BY <1>6 DEF TypeOK, RunAgain
<1>7. CASE UNCHANGED vars BY <1>7 DEF TypeOK, vars
<1>8. QED BY <1>1, <1>2, <1>3, <1>4, <1>5, <1>6, <1>7 DEF Next

LEMMA ProcessesPreserved ==
  IInv /\ [Next]_vars => BodyHasLeader' /\ StoppedMeansGone' /\ ReadersAreLeft'
<1> SUFFICES ASSUME IInv, [Next]_vars PROVE BodyHasLeader' /\ StoppedMeansGone' /\ ReadersAreLeft'
  OBVIOUS
<1> USE SlotFacts DEF IInv, BodyHasLeader, StoppedMeansGone, ReadersAreLeft
<1>1. CASE Main
  <2>1. UNCHANGED group
    BY <1>1 DEF Main, TrainEnvBuilt, EvalEnvBuilt, LearnEnds, Save, CloseTrainEnv,
       CloseEvalEnv, Return
  <2>2. \A i \in Slots : st'[i] = st[i] \/ st'[i] = "closing"
    BY <1>1 DEF Main, TrainEnvBuilt, EvalEnvBuilt, LearnEnds, Save, CloseTrainEnv,
       CloseEvalEnv, Return, Closing, TypeOK
  <2>3. QED BY <2>1, <2>2 DEF group
<1>2. ASSUME NEW i \in Slots, Slot(i) PROVE BodyHasLeader' /\ StoppedMeansGone' /\ ReadersAreLeft'
  <2> USE DEF TypeOK
  <2>1. CASE Launch(i) BY <2>1 DEF Launch, Go
  <2>2. CASE SeeReady(i) BY <2>2 DEF SeeReady, Go, group
  <2>3. CASE SeeExit(i) BY <2>3 DEF SeeExit, Go, group
  <2>4. CASE ReadOutput(i) BY <2>4 DEF ReadOutput, Go, group
  <2>5. CASE LaunchTimesOut(i) BY <2>5 DEF LaunchTimesOut, Go, group
  <2>6. CASE StopReturnsAtOnce(i) BY <2>6 DEF StopReturnsAtOnce, Settle, Go, group
  <2>7. CASE StopTerminates(i) BY <2>7 DEF StopTerminates, GroupEnds, Settle, Go
  <2>8. CASE Attach(i) BY <2>8 DEF Attach, Go, group
  <2>9. CASE AttachRaises(i) BY <2>9 DEF AttachRaises, Go, group
  <2>10. QED
    BY <1>2, <2>1, <2>2, <2>3, <2>4, <2>5, <2>6, <2>7, <2>8, <2>9 DEF Slot
<1>3. ASSUME NEW i \in Slots, World(i) PROVE BodyHasLeader' /\ StoppedMeansGone' /\ ReadersAreLeft'
  BY <1>3 DEF World, Boot, LaunchExits, LeaderDies, TypeOK
<1>4. ASSUME NEW i \in Slots, WorkerRaises(i) PROVE BodyHasLeader' /\ StoppedMeansGone' /\ ReadersAreLeft'
  BY <1>4 DEF WorkerRaises, Go, group, TypeOK
<1>5. CASE Killed BY <1>5 DEF Killed, group
<1>6. CASE RunAgain BY <1>6 DEF RunAgain
<1>7. CASE UNCHANGED vars BY <1>7 DEF vars
<1>8. QED BY <1>1, <1>2, <1>3, <1>4, <1>5, <1>6, <1>7 DEF Next

(* From the end of learn() on, only close() and stop() move a slot.        *)
LEMMA OrderPreserved == IInv /\ [Next]_vars => ClosingInOrder'
<1> SUFFICES ASSUME IInv, [Next]_vars PROVE ClosingInOrder'
  OBVIOUS
<1> USE SlotFacts DEF IInv, ClosingInOrder, TypeOK
<1>1. CASE Main
  <2>1. CASE TrainEnvBuilt BY <2>1 DEF TrainEnvBuilt
  <2>2. CASE EvalEnvBuilt BY <2>2 DEF EvalEnvBuilt
  <2>3. CASE LearnEnds BY <2>3 DEF LearnEnds
  <2>4. CASE Save BY <2>4 DEF Save
  <2>5. CASE CloseTrainEnv BY <2>5 DEF CloseTrainEnv, Closing
  <2>6. CASE CloseEvalEnv BY <2>6 DEF CloseEvalEnv, Closing
  <2>7. CASE Return BY <2>7 DEF Return
  <2>8. QED BY <1>1, <2>1, <2>2, <2>3, <2>4, <2>5, <2>6, <2>7 DEF Main
<1>2. ASSUME NEW i \in Slots, Slot(i) PROVE ClosingInOrder'
  <2> Alive BY <1>2 DEF Slot
  <2> USE DEF Alive
  <2>1. CASE Launch(i) BY <2>1 DEF Launch, Go
  <2>2. CASE SeeReady(i) BY <2>2 DEF SeeReady, Go
  <2>3. CASE SeeExit(i) BY <2>3 DEF SeeExit, Go
  <2>4. CASE ReadOutput(i) BY <2>4 DEF ReadOutput, Go
  <2>5. CASE LaunchTimesOut(i) BY <2>5 DEF LaunchTimesOut, Go
  <2>6. CASE StopReturnsAtOnce(i) BY <2>6 DEF StopReturnsAtOnce, Settle, Go
  <2>7. CASE StopTerminates(i) BY <2>7 DEF StopTerminates, Settle, Go
  <2>8. CASE Attach(i) BY <2>8 DEF Attach, Go
  <2>9. CASE AttachRaises(i) BY <2>9 DEF AttachRaises, Go
  <2>10. QED
    BY <1>2, <2>1, <2>2, <2>3, <2>4, <2>5, <2>6, <2>7, <2>8, <2>9 DEF Slot
<1>3. ASSUME NEW i \in Slots, World(i) PROVE ClosingInOrder'
  BY <1>3 DEF World, Boot, LaunchExits, LeaderDies
<1>4. ASSUME NEW i \in Slots, WorkerRaises(i) PROVE ClosingInOrder'
  BY <1>4 DEF WorkerRaises, Go
<1>5. CASE Killed BY <1>5 DEF Killed
<1>6. CASE RunAgain BY <1>6 DEF RunAgain
<1>7. CASE UNCHANGED vars BY <1>7 DEF vars
<1>8. QED BY <1>1, <1>2, <1>3, <1>4, <1>5, <1>6, <1>7 DEF Next

LEMMA Invariance == Spec => []IInv
<1>1. IInv /\ [Next]_vars => IInv'
  BY TypePreserved, ProcessesPreserved, OrderPreserved DEF IInv
<1>2. QED BY <1>1, InitInv, PTL DEF Spec

(* Type correctness, for any number of workers.                            *)
THEOREM Typed == Spec => []TypeOK
BY Invariance, PTL DEF IInv

(* A factory that raised and an environment that was closed leave no       *)
(* process behind, unless the launch process died alone.                   *)
THEOREM StoppedIsGone == Spec => []StoppedMeansGone
BY Invariance, PTL DEF IInv

(* The read without a deadline has an end, for any number of workers and   *)
(* every set of faults, unless the launch process died alone.              *)
THEOREM ReadsEnd == Spec => []ReadsOnlyWhatEnds
<1>1. IInv => ReadsOnlyWhatEnds
  BY DEF IInv, BodyHasLeader, ReadersAreLeft, ReadsOnlyWhatEnds
<1>2. QED BY <1>1, Invariance, PTL

(* main() leaving through its finally block leaves no simulator.           *)
THEOREM OrderlyEnd == Spec => []OrderlyEndLeavesNothing
<1>1. IInv => OrderlyEndLeavesNothing
  BY SlotFacts DEF IInv, TypeOK, ClosingInOrder, StoppedMeansGone, OrderlyEndLeavesNothing
<1>2. QED BY <1>1, Invariance, PTL
=============================================================================
