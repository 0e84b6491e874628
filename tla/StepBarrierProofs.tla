-------------------------- MODULE StepBarrierProofs --------------------------
(***************************************************************************)
(* Proofs about StepBarrier: the stamp barrier is sound for every length   *)
(* of the brake, every queue depth, every number of overlapping callbacks, *)
(* early or late answers, and after any exception but one; and the count   *)
(* never runs ahead of the world, whatever fails.  The calls keep the      *)
(* books of EpisodeContract, and what the learner sees is SyncEnv.         *)
(***************************************************************************)
EXTENDS StepBarrier, FiniteSetTheorems, TLAPS

Requests == [units : Nat, place : Places \cup {NoPlace}, live : BOOLEAN]

(* The place a teleport will be ordered for is a place. *)
TypeInv ==
  /\ TypeOK
  /\ pc = "brake" => arg \in Places

LEMMA RequestType ==
  ASSUME NEW n \in Nat, NEW p \in Places \cup {NoPlace}
  PROVE  Request(n, p) \in Requests
BY DEF Request, Requests

LEMMA OrderTypes ==
  ASSUME TypeOK, NEW n \in Nat, NEW p \in Places \cup {NoPlace}, Order(n, p)
  PROVE  /\ inbox' \in Seq(Requests) /\ reply' = "none"
         /\ now' = now /\ robot' = robot /\ todo' = todo /\ pose' = pose
<1>1. inbox \in Seq(Requests)
  BY DEF TypeOK, Requests
<1>2. Append(inbox, Request(n, p)) \in Seq(Requests)
  BY <1>1, RequestType
<1> QED
  BY <1>2 DEF Order

LEMMA InitTypeInv == Init => TypeInv
<1> SUFFICES ASSUME Init PROVE TypeInv
  OBVIOUS
<1>1. now \in Nat /\ Stop \in Actions
  BY BarrierAssumption DEF Init
<1>2. inbox \in Seq(Requests)
  BY RequestType DEF Init
<1>3. robot \in [at : Places \cup {NoPlace}, ran : Seq(Actions), still : 0..BrakeUnits]
  BY BarrierAssumption DEF Init
<1>4. /\ obs \in [stamp : Nat, at : Places \cup {NoPlace}, ran : Seq(Actions)]
      /\ seen \in [reached : BOOLEAN, collided : BOOLEAN]
  BY DEF Init
<1>5. taken \in [Topics -> Nat] /\ cache \in [Topics -> Nat] /\ held \in [Topics -> SUBSET Nat]
  BY <1>1 DEF Init
<1> QED
  BY <1>1, <1>2, <1>3, <1>4, <1>5 DEF Init, TypeInv, TypeOK, Calls, Requests

LEMMA SimTypes ==
  ASSUME TypeInv, SimNext
  PROVE  TypeInv'
<1> USE DEF TypeInv
<1>1. CASE SimTakes
  <2>1. inbox \in Seq(Requests) /\ inbox # <<>>
    BY <1>1 DEF SimTakes, TypeOK, Requests
  <2>2. Head(inbox) \in Requests /\ Tail(inbox) \in Seq(Requests)
    BY <2>1
  <2>3. /\ todo' \in Nat /\ pose' \in Places \cup {NoPlace}
        /\ reply' \in {"none", "owed", "sent"}
    BY <1>1, <2>2 DEF SimTakes, TypeOK, Requests
  <2> QED
    BY <1>1, <2>2, <2>3 DEF SimTakes, TypeOK, env, subs, Requests
<1>2. CASE SimReplies
  BY <1>2 DEF SimReplies, TypeOK, env, subs
<1>3. CASE SimRuns
  <2>1. now' \in Nat /\ todo' \in Nat /\ pose' \in Places \cup {NoPlace}
    BY <1>3 DEF SimRuns, TypeOK
  <2>2. Append(robot.ran, drive) \in Seq(Actions) /\ <<>> \in Seq(Actions)
    BY DEF TypeOK
  <2>3. (IF drive = Stop THEN Earlier(robot.still + 1, BrakeUnits) ELSE 0) \in 0..BrakeUnits
    BY BarrierAssumption DEF TypeOK, Earlier
  <2>4. robot' \in [at : Places \cup {NoPlace}, ran : Seq(Actions), still : 0..BrakeUnits]
    BY <1>3, <2>2, <2>3 DEF SimRuns, TypeOK
  <2> QED
    BY <1>3, <2>1, <2>4 DEF SimRuns, TypeOK, env, subs
<1> QED
  BY <1>1, <1>2, <1>3 DEF SimNext

LEMMA SubscriptionTypes ==
  ASSUME TypeInv, NEW t \in Topics, Take(t) \/ Commit(t)
  PROVE  TypeInv'
<1> USE DEF TypeInv
<1>1. CASE Take(t)
  <2>1. PICK s \in (taken[t] + 1)..now :
          /\ taken' = [taken EXCEPT ![t] = s]
          /\ held' = [held EXCEPT ![t] = @ \cup {s}]
    BY <1>1 DEF Take
  <2>2. s \in Nat
    BY <2>1 DEF TypeOK
  <2> QED
    BY <1>1, <2>1, <2>2 DEF Take, TypeOK, env, world
<1>2. CASE Commit(t)
  <2>1. PICK s \in held[t] :
          /\ cache' = [cache EXCEPT ![t] = s]
          /\ held' = [held EXCEPT ![t] = @ \ {s}]
    BY <1>2 DEF Commit
  <2>2. s \in Nat
    BY <2>1 DEF TypeOK
  <2> QED
    BY <1>2, <2>1, <2>2 DEF Commit, TypeOK, env, world
<1> QED
  BY <1>1, <1>2

LEMMA ObserveType ==
  ASSUME TypeOK, Observe
  PROVE  obs' \in [stamp : Nat, at : Places \cup {NoPlace}, ran : Seq(Actions)]
<1>1. Stamp \in Nat
  BY DEF TypeOK, Stamp, Earlier, Topics
<1> QED
  BY <1>1 DEF Observe, TypeOK

LEMMA CallTypes ==
  ASSUME TypeInv,
         \/ EnvReturns
         \/ \E p \in Places : ResetBrakes(p)
         \/ \E a \in Actions : StepActs(a)
  PROVE  TypeInv'
<1> USE DEF TypeInv
<1>1. CASE AttachReturns
  BY <1>1 DEF AttachReturns, Answered, TypeOK, world, subs, Waits
<1>2. CASE FirstMessages
  <2>1. target' \in Nat
    BY <1>2 DEF FirstMessages, SimTime, HeardAll, TypeOK, Later
  <2> QED
    BY <1>2, <2>1 DEF FirstMessages, SimTime, HeardAll, TypeOK, world, subs
<1>3. CASE ResetPlaces
  <2>1. arg \in Places \cup {NoPlace}
    BY <1>3 DEF ResetPlaces, Answered
  <2>2. /\ inbox' \in Seq(Requests) /\ reply' = "none"
        /\ now' = now /\ robot' = robot /\ todo' = todo /\ pose' = pose
    BY <1>3, <2>1, OrderTypes DEF ResetPlaces
  <2> QED
    BY <1>3, <2>2, BarrierAssumption DEF ResetPlaces, TypeOK, subs, Calls, Requests
<1>4. CASE ResetSettles
  <2>1. /\ inbox' \in Seq(Requests) /\ reply' = "none"
        /\ now' = now /\ robot' = robot /\ todo' = todo /\ pose' = pose
    BY <1>4, OrderTypes DEF ResetSettles
  <2> QED
    BY <1>4, <2>1 DEF ResetSettles, TypeOK, env, subs, Calls, Requests
<1>5. CASE ResetWaits
  BY <1>5 DEF ResetWaits, TypeOK, world, subs, Waits
<1>6. CASE ResetReturns
  BY <1>6, ObserveType DEF ResetReturns, TypeOK, world, subs
<1>7. CASE StepWaits
  BY <1>7 DEF StepWaits, TypeOK, world, subs, Waits
<1>8. CASE StepReturns
  <2>1. /\ outcome' \in {"idle", "running", "success", "collision", "timeout"}
        /\ seen' \in [reached : BOOLEAN, collided : BOOLEAN]
    BY <1>8 DEF StepReturns
  <2>2. obs' \in [stamp : Nat, at : Places \cup {NoPlace}, ran : Seq(Actions)]
    BY <1>8, ObserveType DEF StepReturns
  <2> QED
    BY <1>8, <2>1, <2>2 DEF StepReturns, TypeOK, world, subs
<1>9. ASSUME NEW p \in Places, ResetBrakes(p) PROVE TypeInv'
  <2>1. BrakeUnits \in Nat /\ Stop \in Actions
    BY BarrierAssumption
  <2>2. /\ inbox' \in Seq(Requests) /\ reply' = "none"
        /\ now' = now /\ robot' = robot /\ todo' = todo /\ pose' = pose
    BY <1>9, <2>1, OrderTypes DEF ResetBrakes
  <2> QED
    BY <1>9, <2>1, <2>2 DEF ResetBrakes, TypeOK, subs, Calls, Requests
<1>10. ASSUME NEW a \in Actions, StepActs(a) PROVE TypeInv'
  <2>1. /\ inbox' \in Seq(Requests) /\ reply' = "none"
        /\ now' = now /\ robot' = robot /\ todo' = todo /\ pose' = pose
    BY <1>10, OrderTypes DEF StepActs
  <2> QED
    BY <1>10, <2>1 DEF StepActs, TypeOK, subs, Calls, Requests
<1> QED
  BY <1>1, <1>2, <1>3, <1>4, <1>5, <1>6, <1>7, <1>8, <1>9, <1>10 DEF EnvReturns

LEMMA RaiseTypes ==
  ASSUME TypeInv, EnvRaises
  PROVE  TypeInv'
<1> USE DEF TypeInv
<1>1. Raise
  BY DEF EnvRaises, CallTimesOut, CallRefused, WaitTimesOut
<1>2. inbox' \in Seq(Requests) /\ reply' \in {"none", "owed", "sent"}
  <2>1. inbox \in Seq(Requests)
    BY DEF TypeOK, Requests
  <2>2. CASE CallTimesOut
    <3>1. \A i \in DOMAIN inbox : [inbox[i] EXCEPT !.live = FALSE] \in Requests
      <4> TAKE i \in DOMAIN inbox
      <4>1. inbox[i] \in Requests
        BY <2>1
      <4> QED BY <4>1 DEF Requests
    <3>2. inbox' \in [1..Len(inbox) -> Requests] /\ Len(inbox) \in Nat
      BY <2>1, <2>2, <3>1 DEF CallTimesOut
    <3> QED
      BY <2>2, <3>2 DEF CallTimesOut
  <2>3. CASE CallRefused
    BY <2>1, <2>3 DEF CallRefused
  <2>4. CASE WaitTimesOut
    BY <2>1, <2>4 DEF WaitTimesOut, TypeOK
  <2> QED BY <2>2, <2>3, <2>4 DEF EnvRaises
<1> QED
  BY <1>1, <1>2 DEF Raise, TypeOK, subs, Calls, Waits, Requests

LEMMA NextTypeInv == TypeInv /\ [Next]_vars => TypeInv'
<1> SUFFICES ASSUME TypeInv, [Next]_vars PROVE TypeInv'
  OBVIOUS
<1>1. CASE Close \/ Closed \/ UNCHANGED vars
  BY <1>1 DEF Close, Closed, vars, env, world, subs, TypeInv, TypeOK
<1> QED
  BY <1>1, SimTypes, SubscriptionTypes, CallTypes, RaiseTypes DEF Next

THEOREM TypeInvariant == Spec => []TypeInv
BY InitTypeInv, NextTypeInv, PTL DEF Spec

(* Every variable keeps its type, whatever fails.                          *)
THEOREM Typed == Spec => []TypeOK
<1>1. TypeInv => TypeOK
  BY DEF TypeInv
<1> QED BY <1>1, TypeInvariant, PTL

-----------------------------------------------------------------------------
(* The barrier.  No reading is from the future, and the environment's      *)
(* count is the world's time plus what it has yet to run: while a call is  *)
(* out, plus what that call orders.                                        *)

OrderedBy(call) ==
  IF call = "brake" THEN BrakeUnits ELSE IF call \in {"attach", "settle", "step"} THEN 1 ELSE 0

NoReadingFromTheFuture ==
  \A t \in Topics :
    /\ taken[t] <= now /\ cache[t] <= now
    /\ \A s \in held[t] : s <= now

CountIsTime ==
  /\ inbox = <<>> =>
       IF pc \in Calls THEN now + todo = target + OrderedBy(pc) ELSE now + todo = target
  /\ inbox # <<>> =>
       /\ pc \in Calls /\ reply = "none" /\ now + todo = target
       /\ \E p \in Places \cup {NoPlace} : inbox = <<Request(OrderedBy(pc), p)>>

BarrierInv ==
  /\ TypeInv
  /\ NoReadingFromTheFuture
  /\ CountIsTime
  /\ pc \in {"attach", "first"} => last = "none"
  /\ NeverStale
  /\ WorldAwaitsCaller

(* The two assumptions of the barrier theorem: the environment meets a     *)
(* world nobody has stepped before, and no request outlives its call.      *)
Undisturbed == Starts \subseteq {0} /\ "late_reply" \notin Faults

LEMMA InitBarrier == Undisturbed /\ Init => BarrierInv
<1> SUFFICES ASSUME Undisturbed, Init PROVE BarrierInv
  OBVIOUS
<1>1. TypeInv
  BY InitTypeInv
<1>2. now = 0 /\ todo = 0 /\ target = 0
  BY DEF Undisturbed, Init
<1>3. CountIsTime
  <2>1. OrderedBy("attach") = 1
    BY DEF OrderedBy
  <2>2. inbox = <<Request(OrderedBy(pc), NoPlace)>> /\ inbox # <<>>
    BY <2>1 DEF Init
  <2>3. pc \in Calls /\ reply = "none" /\ now + todo = target
    BY <1>2 DEF Init, Calls
  <2> QED
    BY <2>2, <2>3 DEF CountIsTime
<1>4. NoReadingFromTheFuture
  BY <1>2 DEF Init, NoReadingFromTheFuture
<1> QED
  BY <1>1, <1>3, <1>4 DEF Init, BarrierInv, NeverStale, WorldAwaitsCaller

(* What the calls below share: they leave time and readings alone.         *)
LEMMA ReadingsStay ==
  ASSUME NoReadingFromTheFuture, UNCHANGED <<now, subs>>
  PROVE  NoReadingFromTheFuture'
BY DEF NoReadingFromTheFuture, subs

LEMMA SimKeepsBarrier ==
  ASSUME BarrierInv, SimNext
  PROVE  BarrierInv'
<1> USE DEF BarrierInv
<1>1. TypeInv'
  BY SimTypes
<1>2. now \in Nat /\ todo \in Nat /\ target \in Nat /\ BrakeUnits \in Nat
  BY BarrierAssumption DEF TypeInv, TypeOK
<1>3. CASE SimTakes
  <2>1. PICK p \in Places \cup {NoPlace} : inbox = <<Request(OrderedBy(pc), p)>>
    BY <1>3 DEF SimTakes, CountIsTime
  <2>2. /\ inbox' = <<>> /\ todo' = todo + OrderedBy(pc)
        /\ pc \in Calls /\ now + todo = target
    BY <1>3, <2>1 DEF SimTakes, Request, CountIsTime
  <2>3. UNCHANGED <<pc, now, target, last, obs, subs>> /\ pc # "idle"
    BY <1>3, <2>2 DEF SimTakes, env, Calls
  <2>4. CountIsTime'
    BY <1>2, <2>2, <2>3 DEF CountIsTime, OrderedBy
  <2> QED
    BY <1>1, <2>3, <2>4, ReadingsStay DEF NeverStale, WorldAwaitsCaller
<1>4. CASE SimReplies
  <2>1. UNCHANGED <<pc, now, todo, target, last, obs, inbox, subs>> /\ inbox = <<>>
    BY <1>4 DEF SimReplies, env, CountIsTime
  <2> QED
    BY <1>1, <2>1, ReadingsStay DEF CountIsTime, NeverStale, WorldAwaitsCaller
<1>5. CASE SimRuns
  <2>1. /\ todo > 0 /\ now' = now + 1 /\ todo' = todo - 1
        /\ UNCHANGED <<pc, target, last, obs, inbox, reply, subs>>
    BY <1>5 DEF SimRuns, env
  <2>2. CountIsTime'
    BY <1>2, <2>1 DEF CountIsTime, OrderedBy
  <2>3. NoReadingFromTheFuture'
    BY <1>2, <2>1 DEF NoReadingFromTheFuture, subs, TypeInv, TypeOK
  <2>4. ~(pc = "idle" /\ last = "returned")
    BY <1>2, <2>1 DEF WorldAwaitsCaller
  <2> QED
    BY <1>1, <2>1, <2>2, <2>3, <2>4 DEF NeverStale, WorldAwaitsCaller
<1> QED
  BY <1>3, <1>4, <1>5 DEF SimNext

LEMMA SubscriptionKeepsBarrier ==
  ASSUME BarrierInv, NEW t \in Topics, Take(t) \/ Commit(t)
  PROVE  BarrierInv'
<1> USE DEF BarrierInv
<1>1. TypeInv'
  BY SubscriptionTypes
<1>2. UNCHANGED <<pc, env, world>>
  BY DEF Take, Commit
<1>3. NoReadingFromTheFuture'
  <2>1. CASE Take(t)
    <3>1. PICK s \in (taken[t] + 1)..now :
            /\ taken' = [taken EXCEPT ![t] = s]
            /\ held' = [held EXCEPT ![t] = @ \cup {s}]
      BY <2>1 DEF Take
    <3>2. s <= now /\ cache' = cache
      BY <2>1, <3>1 DEF Take, TypeInv, TypeOK
    <3> QED
      BY <1>2, <3>1, <3>2 DEF NoReadingFromTheFuture, TypeInv, TypeOK, world
  <2>2. CASE Commit(t)
    <3>1. PICK s \in held[t] :
            /\ cache' = [cache EXCEPT ![t] = s]
            /\ held' = [held EXCEPT ![t] = @ \ {s}]
      BY <2>2 DEF Commit
    <3>2. s <= now /\ taken' = taken
      BY <2>2, <3>1 DEF Commit, NoReadingFromTheFuture
    <3> QED
      BY <1>2, <3>1, <3>2 DEF NoReadingFromTheFuture, TypeInv, TypeOK, world
  <2> QED BY <2>1, <2>2
<1> QED
  BY <1>1, <1>2, <1>3 DEF CountIsTime, NeverStale, WorldAwaitsCaller, env, world

(* A call that orders something leaves from a world that owes nothing.     *)
LEMMA OrderKeepsBarrier ==
  ASSUME BarrierInv, TypeInv', inbox = <<>>,
         NEW call \in Calls, NEW p \in Places \cup {NoPlace}, Order(OrderedBy(call), p),
         pc' = call, target' = now + todo, call # "attach", UNCHANGED subs
  PROVE  BarrierInv'
<1>1. inbox' = <<Request(OrderedBy(call), p)>> /\ reply' = "none"
      /\ now' = now /\ todo' = todo
  BY DEF Order, BarrierInv, TypeInv, TypeOK
<1>2. CountIsTime'
  BY <1>1 DEF CountIsTime
<1>3. pc' \notin {"idle", "attach", "first"}
  BY DEF Calls
<1> QED
  BY <1>1, <1>2, <1>3, ReadingsStay DEF BarrierInv, NeverStale, WorldAwaitsCaller

(* The wait ends on readings of the present, for none can be later.        *)
LEMMA FreshIsNow ==
  ASSUME BarrierInv, Fresh, pc \notin Calls
  PROVE  Stamp = now /\ now = target /\ todo = 0 /\ inbox = <<>>
<1>1. now \in Nat /\ todo \in Nat /\ target \in Nat /\ now + todo = target /\ inbox = <<>>
  BY DEF BarrierInv, TypeInv, TypeOK, CountIsTime
<1>2. /\ cache["scan"] \in Nat /\ cache["odom"] \in Nat
      /\ cache["scan"] >= target /\ cache["odom"] >= target
      /\ cache["scan"] <= now /\ cache["odom"] <= now
  BY DEF Fresh, BarrierInv, NoReadingFromTheFuture, TypeInv, TypeOK, Topics
<1> QED
  BY <1>1, <1>2 DEF Stamp, Earlier

LEMMA CallKeepsBarrier ==
  ASSUME BarrierInv,
         \/ EnvReturns
         \/ \E p \in Places : ResetBrakes(p)
         \/ \E a \in Actions : StepActs(a)
  PROVE  BarrierInv'
<1>1. TypeInv'
  BY CallTypes DEF BarrierInv
<1>2. now \in Nat /\ todo \in Nat /\ target \in Nat /\ BrakeUnits \in Nat
  BY BarrierAssumption DEF BarrierInv, TypeInv, TypeOK
<1>3. reply = "sent" => inbox = <<>>
  BY DEF BarrierInv, CountIsTime
<1>4. CASE AttachReturns
  <2>1. inbox = <<>> /\ now + todo = target + 1
    BY <1>3, <1>4 DEF AttachReturns, Answered, BarrierInv, CountIsTime, Calls, OrderedBy
  <2>2. /\ pc' = "first" /\ target' = target + 1
        /\ UNCHANGED <<now, todo, inbox, last, subs>>
    BY <1>4 DEF AttachReturns, world
  <2>3. CountIsTime'
    BY <1>2, <2>1, <2>2 DEF CountIsTime, Calls
  <2> QED
    BY <1>1, <1>4, <2>2, <2>3, ReadingsStay
    DEF BarrierInv, NeverStale, WorldAwaitsCaller, AttachReturns, Answered
<1>5. CASE FirstMessages
  <2>1. inbox = <<>> /\ now + todo = target /\ last = "none"
    BY <1>5 DEF FirstMessages, SimTime, HeardAll, BarrierInv, CountIsTime, Calls
  <2>2. target' = target
    BY <1>2, <1>5, <2>1 DEF FirstMessages, SimTime, HeardAll, Later
  <2>3. pc' = "idle" /\ UNCHANGED <<now, todo, inbox, last, subs>>
    BY <1>5 DEF FirstMessages, SimTime, HeardAll, world
  <2>4. CountIsTime'
    BY <2>1, <2>2, <2>3 DEF CountIsTime, Calls
  <2> QED
    BY <1>1, <2>1, <2>3, <2>4, ReadingsStay DEF BarrierInv, NeverStale, WorldAwaitsCaller
<1>6. ASSUME NEW p \in Places, ResetBrakes(p) PROVE BarrierInv'
  <2>1. inbox = <<>> /\ now + todo = target
    BY <1>6 DEF ResetBrakes, BarrierInv, CountIsTime, Calls
  <2>2. Order(OrderedBy("brake"), NoPlace) /\ pc' = "brake" /\ target' = now + todo
        /\ UNCHANGED subs
    BY <1>6, <2>1 DEF ResetBrakes, OrderedBy
  <2> QED
    BY <1>1, <2>1, <2>2, OrderKeepsBarrier DEF Calls
<1>7. CASE ResetPlaces
  <2>1. inbox = <<>> /\ now + todo = target + BrakeUnits
    BY <1>3, <1>7 DEF ResetPlaces, Answered, BarrierInv, CountIsTime, Calls, OrderedBy
  <2>2. Order(OrderedBy("place"), arg) /\ pc' = "place" /\ target' = now + todo
        /\ UNCHANGED subs /\ arg \in Places
    BY <1>7, <2>1 DEF ResetPlaces, Answered, OrderedBy, BarrierInv, TypeInv
  <2> QED
    BY <1>1, <2>1, <2>2, OrderKeepsBarrier DEF Calls
<1>8. CASE ResetSettles
  <2>1. inbox = <<>> /\ now + todo = target
    BY <1>2, <1>3, <1>8 DEF ResetSettles, Answered, BarrierInv, CountIsTime, Calls, OrderedBy
  <2>2. Order(OrderedBy("settle"), NoPlace) /\ pc' = "settle" /\ target' = now + todo
        /\ UNCHANGED subs
    BY <1>8, <2>1 DEF ResetSettles, OrderedBy, env
  <2> QED
    BY <1>1, <2>1, <2>2, OrderKeepsBarrier DEF Calls
<1>9. ASSUME NEW a \in Actions, StepActs(a) PROVE BarrierInv'
  <2>1. inbox = <<>> /\ now + todo = target
    BY <1>9 DEF StepActs, BarrierInv, CountIsTime, Calls
  <2>2. Order(OrderedBy("step"), NoPlace) /\ pc' = "step" /\ target' = now + todo
        /\ UNCHANGED subs
    BY <1>9, <2>1 DEF StepActs, OrderedBy
  <2> QED
    BY <1>1, <2>1, <2>2, OrderKeepsBarrier DEF Calls
<1>10. CASE ResetWaits \/ StepWaits
  <2>1. inbox = <<>> /\ now + todo = target + 1
    BY <1>3, <1>10
    DEF ResetWaits, StepWaits, Answered, BarrierInv, CountIsTime, Calls, OrderedBy
  <2>2. /\ pc' \in {"reset_wait", "step_wait"} /\ target' = target + 1
        /\ UNCHANGED <<now, todo, inbox, last, subs>>
    BY <1>10 DEF ResetWaits, StepWaits, world
  <2>3. CountIsTime'
    BY <1>2, <2>1, <2>2 DEF CountIsTime, Calls
  <2> QED
    BY <1>1, <2>2, <2>3, ReadingsStay DEF BarrierInv, NeverStale, WorldAwaitsCaller
<1>11. CASE ResetReturns \/ StepReturns
  <2>1. Stamp = now /\ now = target /\ todo = 0 /\ inbox = <<>>
    BY <1>11, FreshIsNow DEF ResetReturns, StepReturns, Calls
  <2>2. pc' = "idle" /\ Observe /\ UNCHANGED <<target, now, todo, inbox, subs>>
    BY <1>11 DEF ResetReturns, StepReturns, world
  <2>3. obs'.stamp = now'
    BY <2>1, <2>2 DEF Observe
  <2>4. CountIsTime'
    BY <1>2, <2>1, <2>2 DEF CountIsTime, Calls
  <2> QED
    BY <1>1, <2>1, <2>2, <2>3, <2>4, ReadingsStay
    DEF BarrierInv, NeverStale, WorldAwaitsCaller
<1> QED
  BY <1>4, <1>5, <1>6, <1>7, <1>8, <1>9, <1>10, <1>11 DEF EnvReturns

LEMMA RaiseKeepsBarrier ==
  ASSUME Undisturbed, BarrierInv, EnvRaises
  PROVE  BarrierInv'
<1>1. TypeInv'
  BY RaiseTypes DEF BarrierInv
<1>2. ~CallTimesOut
  BY DEF Undisturbed, CallTimesOut
<1>3. /\ pc' \in {"idle", "closed"} /\ last' = "raised"
      /\ UNCHANGED <<target, now, todo, subs>>
  BY <1>2 DEF EnvRaises, CallRefused, WaitTimesOut, Raise
<1>4. inbox' = <<>> /\ now + todo = target
  <2>1. CASE CallRefused
    BY <2>1 DEF CallRefused, BarrierInv, CountIsTime
  <2>2. CASE WaitTimesOut
    BY <2>2 DEF WaitTimesOut, BarrierInv, CountIsTime, Calls
  <2> QED BY <1>2, <2>1, <2>2 DEF EnvRaises
<1>5. CountIsTime'
  BY <1>3, <1>4 DEF CountIsTime, Calls
<1> QED
  BY <1>1, <1>3, <1>5, ReadingsStay DEF BarrierInv, NeverStale, WorldAwaitsCaller

LEMMA NextBarrier ==
  ASSUME Undisturbed, BarrierInv, [Next]_vars
  PROVE  BarrierInv'
<1>1. CASE Close \/ Closed \/ UNCHANGED vars
  <2>1. TypeInv'
    BY NextTypeInv DEF BarrierInv
  <2>2. UNCHANGED <<env, world, subs>> /\ (pc' = pc \/ (pc = "idle" /\ pc' = "closed"))
    BY <1>1 DEF Close, Closed, vars
  <2>3. CountIsTime'
    BY <2>2 DEF CountIsTime, Calls, env, world, BarrierInv
  <2>4. NoReadingFromTheFuture'
    BY <2>2, ReadingsStay DEF BarrierInv, world
  <2> QED
    BY <2>1, <2>2, <2>3, <2>4 DEF BarrierInv, NeverStale, WorldAwaitsCaller, env, world
<1> QED
  BY <1>1, SimKeepsBarrier, SubscriptionKeepsBarrier, CallKeepsBarrier, RaiseKeepsBarrier
  DEF Next

THEOREM Barrier ==
  ASSUME Undisturbed
  PROVE  Spec => []BarrierInv
<1>1. Init => BarrierInv
  BY InitBarrier
<1>2. BarrierInv /\ [Next]_vars => BarrierInv'
  BY NextBarrier
<1> QED BY <1>1, <1>2, PTL DEF Spec

(* wait_for_sample never returns stale data: not with bursts that outrun   *)
(* the queue, callbacks that overtake each other, services that answer     *)
(* before they are done, refused calls and timed-out waits.                *)
THEOREM StaleNever ==
  ASSUME Undisturbed
  PROVE  Spec => []NeverStale
<1>1. BarrierInv => NeverStale
  BY DEF BarrierInv
<1> QED BY <1>1, Barrier, PTL

(* Between calls the count of iterations is the world's time.              *)
THEOREM WorldWaits ==
  ASSUME Undisturbed
  PROVE  Spec => []WorldAwaitsCaller
<1>1. BarrierInv => WorldAwaitsCaller
  BY DEF BarrierInv
<1> QED BY <1>1, Barrier, PTL

-----------------------------------------------------------------------------
(* The count never runs ahead, with every fault and a world stepped before *)
(* the environment met it.  A request somebody still waits for is the last *)
(* of the queue; once it has been taken, the world is committed to what    *)
(* the call is about to count.  An abandoned request only adds time.       *)

Awaited ==
  \A i \in 1..Len(inbox) : inbox[i].live =>
    /\ i = Len(inbox)
    /\ pc \in Calls /\ reply = "none"
    /\ inbox[i].units = OrderedBy(pc)

CommittedInv ==
  /\ TypeInv
  /\ NeverWaitsInVain
  /\ pc \in Calls /\ reply # "none" => target + OrderedBy(pc) <= now + todo
  /\ Awaited

LEMMA Numbers ==
  ASSUME TypeInv
  PROVE  /\ now \in Nat /\ todo \in Nat /\ target \in Nat
         /\ OrderedBy(pc) \in Nat /\ BrakeUnits \in Nat
         /\ inbox \in Seq(Requests) /\ Len(inbox) \in Nat
BY BarrierAssumption DEF TypeInv, TypeOK, OrderedBy, Requests

LEMMA InitCommitted == Init => CommittedInv
<1> SUFFICES ASSUME Init PROVE CommittedInv
  OBVIOUS
<1>1. TypeInv /\ now \in Nat
  BY InitTypeInv, BarrierAssumption DEF Init
<1>2. Awaited
  <2>1. inbox = <<Request(1, NoPlace)>> /\ OrderedBy(pc) = 1
    BY DEF Init, OrderedBy
  <2> QED
    BY <2>1 DEF Init, Awaited, Request, Calls
<1> QED
  BY <1>1, <1>2 DEF Init, CommittedInv, NeverWaitsInVain

LEMMA SimKeepsCommitted ==
  ASSUME CommittedInv, SimNext
  PROVE  CommittedInv'
<1> USE DEF CommittedInv
<1>1. TypeInv'
  BY SimTypes
<1>2. /\ now \in Nat /\ todo \in Nat /\ target \in Nat /\ OrderedBy(pc) \in Nat
      /\ inbox \in Seq(Requests) /\ Len(inbox) \in Nat
  BY Numbers
<1>3. CASE SimTakes
  <2>1. /\ inbox # <<>> /\ inbox' = Tail(inbox) /\ UNCHANGED <<pc, now, target>>
        /\ todo' = todo + inbox[1].units /\ inbox[1].units \in Nat
        /\ ~inbox[1].live => reply' = reply
    <3>1. inbox # <<>> /\ inbox[1] \in Requests /\ Head(inbox) = inbox[1]
      BY <1>2, <1>3 DEF SimTakes
    <3>2. inbox[1].units \in Nat
      BY <3>1 DEF Requests
    <3> QED
      BY <1>3, <3>1, <3>2 DEF SimTakes, env
  <2>2. \A i \in 1..Len(inbox') : inbox'[i] = inbox[i + 1] /\ i + 1 \in 1..Len(inbox)
    BY <1>2, <2>1
  <2>3. Len(inbox') = Len(inbox) - 1 /\ 1 \in 1..Len(inbox)
    BY <1>2, <2>1
  <2>4. OrderedBy(pc') = OrderedBy(pc)
    BY <2>1
  <2>5. CASE inbox[1].live
    <3>1. Len(inbox) = 1 /\ inbox[1].units = OrderedBy(pc) /\ Len(inbox') = 0
      BY <2>3, <2>5 DEF Awaited
    <3>2. Awaited'
      BY <3>1 DEF Awaited
    <3> QED
      BY <1>1, <1>2, <2>1, <2>4, <3>1, <3>2 DEF NeverWaitsInVain
  <2>6. CASE ~inbox[1].live
    <3>1. Awaited'
      <4> SUFFICES ASSUME NEW i \in 1..Len(inbox'), inbox'[i].live
                   PROVE  /\ i = Len(inbox') /\ pc' \in Calls /\ reply' = "none"
                          /\ inbox'[i].units = OrderedBy(pc')
        BY DEF Awaited
      <4>1. inbox'[i] = inbox[i + 1] /\ i + 1 \in 1..Len(inbox)
        BY <2>2
      <4>2. /\ i + 1 = Len(inbox) /\ pc \in Calls /\ reply = "none"
            /\ inbox[i + 1].units = OrderedBy(pc)
        BY <4>1 DEF Awaited
      <4>3. i = Len(inbox')
        BY <1>2, <2>3, <4>2
      <4> QED
        BY <2>1, <2>4, <2>6, <4>1, <4>2, <4>3
    <3> QED
      BY <1>1, <1>2, <2>1, <2>4, <2>6, <3>1 DEF NeverWaitsInVain
  <2> QED BY <2>5, <2>6
<1>4. CASE SimReplies
  <2>1. UNCHANGED <<pc, now, todo, target, inbox>> /\ reply = "owed" /\ reply' = "sent"
    BY <1>4 DEF SimReplies, env
  <2> QED
    BY <1>1, <2>1 DEF NeverWaitsInVain, Awaited, OrderedBy
<1>5. CASE SimRuns
  <2>1. /\ todo > 0 /\ now' = now + 1 /\ todo' = todo - 1
        /\ UNCHANGED <<pc, target, inbox, reply>>
    BY <1>5 DEF SimRuns, env
  <2>2. now' + todo' = now + todo
    BY <1>2, <2>1
  <2> QED
    BY <1>1, <2>1, <2>2 DEF NeverWaitsInVain, Awaited, OrderedBy
<1> QED
  BY <1>3, <1>4, <1>5 DEF SimNext

(* A call orders when nobody waits for an answer.                          *)
LEMMA OrderKeepsCommitted ==
  ASSUME CommittedInv, TypeInv', pc \notin Calls \/ reply = "sent",
         NEW call \in Calls, NEW p \in Places \cup {NoPlace}, Order(OrderedBy(call), p),
         pc' = call, target' <= now + todo
  PROVE  CommittedInv'
<1>1. /\ now' = now /\ todo' = todo /\ reply' = "none"
      /\ inbox' = Append(inbox, Request(OrderedBy(call), p))
  BY DEF Order
<1>2. inbox \in Seq(Requests) /\ Len(inbox) \in Nat
  BY Numbers DEF CommittedInv
<1>3. /\ Len(inbox') = Len(inbox) + 1
      /\ inbox'[Len(inbox) + 1] = Request(OrderedBy(call), p)
      /\ \A i \in 1..Len(inbox) : inbox'[i] = inbox[i]
  BY <1>1, <1>2
<1>4. \A i \in 1..Len(inbox) : ~inbox[i].live
  BY DEF CommittedInv, Awaited
<1>5. Awaited'
  BY <1>1, <1>2, <1>3, <1>4 DEF Awaited, Request
<1> QED
  BY <1>1, <1>5 DEF CommittedInv, NeverWaitsInVain

(* A call that only counts what has been answered.                         *)
LEMMA CountKeepsCommitted ==
  ASSUME CommittedInv, TypeInv', pc \notin Calls \/ reply = "sent", pc' \notin Calls,
         UNCHANGED <<now, todo, inbox>>, target' <= now + todo
  PROVE  CommittedInv'
<1>1. \A i \in 1..Len(inbox) : ~inbox[i].live
  BY DEF CommittedInv, Awaited
<1> QED
  BY <1>1 DEF CommittedInv, NeverWaitsInVain, Awaited

LEMMA CallKeepsCommitted ==
  ASSUME CommittedInv,
         \/ EnvReturns
         \/ \E p \in Places : ResetBrakes(p)
         \/ \E a \in Actions : StepActs(a)
  PROVE  CommittedInv'
<1>1. TypeInv'
  BY CallTypes DEF CommittedInv
<1>2. now \in Nat /\ todo \in Nat /\ target \in Nat /\ BrakeUnits \in Nat
  BY Numbers DEF CommittedInv
<1>3. target <= now + todo
  BY DEF CommittedInv, NeverWaitsInVain
<1>4. CASE AttachReturns \/ ResetWaits \/ StepWaits
  <2>1. pc \in Calls /\ reply = "sent" /\ target + 1 <= now + todo
    BY <1>4 DEF AttachReturns, ResetWaits, StepWaits, Answered, CommittedInv, Calls, OrderedBy
  <2> QED
    BY <1>1, <1>4, <2>1, CountKeepsCommitted
    DEF AttachReturns, ResetWaits, StepWaits, Calls, world
<1>5. CASE FirstMessages
  <2>1. target' <= now + todo
    BY <1>2, <1>3, <1>5 DEF FirstMessages, SimTime, HeardAll, Later
  <2>2. pc \notin Calls /\ pc' \notin Calls /\ UNCHANGED <<now, todo, inbox>>
    BY <1>5 DEF FirstMessages, SimTime, HeardAll, Calls, world
  <2> QED
    BY <1>1, <2>1, <2>2, CountKeepsCommitted
<1>6. CASE ResetReturns \/ StepReturns
  <2>1. pc \notin Calls /\ pc' \notin Calls /\ UNCHANGED <<now, todo, inbox, target>>
    BY <1>6 DEF ResetReturns, StepReturns, Calls, world
  <2> QED
    BY <1>1, <1>3, <2>1, CountKeepsCommitted
<1>7. ASSUME NEW p \in Places, ResetBrakes(p) PROVE CommittedInv'
  <2>1. Order(OrderedBy("brake"), NoPlace) /\ pc' = "brake" /\ target' = target
        /\ pc \notin Calls
    BY <1>7 DEF ResetBrakes, OrderedBy, Calls
  <2> QED
    BY <1>1, <1>3, <2>1, OrderKeepsCommitted DEF Calls
<1>8. CASE ResetPlaces
  <2>1. reply = "sent" /\ target + BrakeUnits <= now + todo /\ arg \in Places
    BY <1>8 DEF ResetPlaces, Answered, CommittedInv, TypeInv, Calls, OrderedBy
  <2>2. Order(OrderedBy("place"), arg) /\ pc' = "place" /\ target' = target + BrakeUnits
    BY <1>8 DEF ResetPlaces, OrderedBy
  <2> QED
    BY <1>1, <2>1, <2>2, OrderKeepsCommitted DEF Calls
<1>9. CASE ResetSettles
  <2>1. Order(OrderedBy("settle"), NoPlace) /\ pc' = "settle" /\ target' = target
        /\ reply = "sent"
    BY <1>9 DEF ResetSettles, Answered, OrderedBy, env
  <2> QED
    BY <1>1, <1>3, <2>1, OrderKeepsCommitted DEF Calls
<1>10. ASSUME NEW a \in Actions, StepActs(a) PROVE CommittedInv'
  <2>1. Order(OrderedBy("step"), NoPlace) /\ pc' = "step" /\ target' = target
        /\ pc \notin Calls
    BY <1>10 DEF StepActs, OrderedBy, Calls
  <2> QED
    BY <1>1, <1>3, <2>1, OrderKeepsCommitted DEF Calls
<1> QED
  BY <1>4, <1>5, <1>6, <1>7, <1>8, <1>9, <1>10 DEF EnvReturns

(* Whatever raises leaves the count alone and nobody waiting.              *)
LEMMA RaiseKeepsCommitted ==
  ASSUME CommittedInv, EnvRaises
  PROVE  CommittedInv'
<1>1. TypeInv'
  BY RaiseTypes DEF CommittedInv
<1>2. pc' \notin Calls /\ UNCHANGED <<target, now, todo>>
  BY DEF EnvRaises, CallTimesOut, CallRefused, WaitTimesOut, Raise, Calls
<1>3. inbox \in Seq(Requests) /\ Len(inbox) \in Nat
  BY Numbers DEF CommittedInv
<1>4. \A i \in 1..Len(inbox') : ~inbox'[i].live
  <2>1. CASE CallTimesOut
    <3>1. inbox' = [i \in 1..Len(inbox) |-> [inbox[i] EXCEPT !.live = FALSE]]
      BY <1>3, <2>1 DEF CallTimesOut
    <3>2. Len(inbox') = Len(inbox)
      BY <1>3, <3>1
    <3>3. \A i \in 1..Len(inbox) : inbox[i] \in Requests
      BY <1>3
    <3> QED
      BY <3>1, <3>2, <3>3 DEF Requests
  <2>2. CASE CallRefused
    <3>1. inbox # <<>> /\ inbox[1].live /\ inbox' = Tail(inbox)
      BY <2>2 DEF CallRefused
    <3>2. 1 \in 1..Len(inbox)
      BY <1>3, <3>1
    <3>3. Len(inbox) = 1
      BY <3>1, <3>2 DEF CommittedInv, Awaited
    <3>4. Len(inbox') = 0
      BY <1>3, <3>1, <3>3
    <3> QED
      BY <3>4
  <2>3. CASE WaitTimesOut
    BY <2>3 DEF WaitTimesOut, CommittedInv, Awaited, Calls
  <2> QED
    BY <2>1, <2>2, <2>3 DEF EnvRaises
<1> QED
  BY <1>1, <1>2, <1>4 DEF CommittedInv, NeverWaitsInVain, Awaited

LEMMA NextCommitted ==
  ASSUME CommittedInv, [Next]_vars
  PROVE  CommittedInv'
<1>1. ASSUME NEW t \in Topics, Take(t) \/ Commit(t) PROVE CommittedInv'
  <2>1. TypeInv' /\ UNCHANGED <<pc, env, world>>
    BY <1>1, SubscriptionTypes DEF CommittedInv, Take, Commit
  <2> QED
    BY <2>1 DEF CommittedInv, NeverWaitsInVain, Awaited, OrderedBy, env, world
<1>2. CASE Close \/ Closed \/ UNCHANGED vars
  <2>1. TypeInv'
    BY NextTypeInv DEF CommittedInv
  <2>2. UNCHANGED <<env, world>> /\ (pc' = pc \/ (pc = "idle" /\ pc' = "closed"))
    BY <1>2 DEF Close, Closed, vars
  <2> QED
    BY <2>1, <2>2 DEF CommittedInv, NeverWaitsInVain, Awaited, OrderedBy, Calls, env, world
<1> QED
  BY <1>1, <1>2, SimKeepsCommitted, CallKeepsCommitted, RaiseKeepsCommitted DEF Next

(* No call ever waits for a stamp beyond what the world is committed to,   *)
(* whatever was refused, timed out or abandoned before, and whatever time  *)
(* the world had when the environment attached to it.                      *)
THEOREM NeverInVain == Spec => []NeverWaitsInVain
<1>1. Init => CommittedInv
  BY InitCommitted
<1>2. CommittedInv /\ [Next]_vars => CommittedInv'
  BY NextCommitted
<1>3. CommittedInv => NeverWaitsInVain
  BY DEF CommittedInv
<1> QED BY <1>1, <1>2, <1>3, PTL DEF Spec
-----------------------------------------------------------------------------
(* No reading is lost.  With one callback at a time a subscription that    *)
(* has nothing in hand shows the last reading it took; an environment that *)
(* has not heard from a topic is still to see the world run.               *)

Arrives(t) ==
  /\ taken[t] <= now
  /\ held[t] \subseteq {taken[t]} \ {0}
  /\ held[t] = {} => cache[t] \in {0, taken[t]}
  /\ cache[t] = 0 => pc \in {"attach", "first", "closed"}
  /\ cache[t] = 0 /\ held[t] = {} /\ taken[t] = now /\ todo = 0
       => pc # "first" /\ (pc = "attach" => reply = "none")

ArrivalInv ==
  /\ CommittedInv
  /\ pc = "attach" /\ reply = "none" => \A i \in 1..Len(inbox) : inbox[i].units >= 1
  /\ \A t \in Topics : Arrives(t)

LEMMA SubscriptionNumbers ==
  ASSUME TypeInv, NEW t \in Topics
  PROVE  /\ taken[t] \in Nat /\ cache[t] \in Nat /\ held[t] \in SUBSET Nat
         /\ now \in Nat /\ todo \in Nat /\ target \in Nat
BY DEF TypeInv, TypeOK

LEMMA InitArrival == Init => ArrivalInv
<1> SUFFICES ASSUME Init PROVE ArrivalInv
  OBVIOUS
<1>1. CommittedInv /\ now \in Nat
  BY InitCommitted, BarrierAssumption DEF Init
<1>2. inbox = <<Request(1, NoPlace)>>
  BY DEF Init
<1>3. \A i \in 1..Len(inbox) : inbox[i].units >= 1
  BY <1>2 DEF Request
<1>4. \A t \in Topics : Arrives(t)
  BY <1>1 DEF Init, Arrives
<1> QED
  BY <1>1, <1>3, <1>4 DEF ArrivalInv

LEMMA SimKeepsArrival ==
  ASSUME ArrivalInv, SimNext
  PROVE  ArrivalInv'
<1>1. CommittedInv'
  BY SimKeepsCommitted DEF ArrivalInv
<1>2. TypeInv /\ Awaited
  BY DEF ArrivalInv, CommittedInv
<1>3. UNCHANGED <<pc, taken, held, cache>> /\ now \in Nat /\ todo \in Nat
  BY <1>2 DEF SimNext, SimTakes, SimReplies, SimRuns, subs, TypeInv, TypeOK
<1>4. CASE SimTakes
  <2>1. inbox # <<>> /\ inbox' = Tail(inbox) /\ now' = now
        /\ todo' = todo + inbox[1].units
        /\ (~inbox[1].live => reply' = reply)
        /\ (inbox[1].live => reply' # "none")
    BY <1>4 DEF SimTakes
  <2>2. /\ inbox \in Seq(Requests) /\ Len(inbox) \in Nat \ {0} /\ 1 \in 1..Len(inbox)
        /\ inbox[1].units \in Nat
    <3>1. inbox \in Seq(Requests) /\ Len(inbox) \in Nat \ {0} /\ 1 \in 1..Len(inbox)
      BY <1>2, <2>1, Numbers
    <3>2. inbox[1] \in Requests
      BY <3>1
    <3> QED BY <3>1, <3>2 DEF Requests
  <2>3. Len(inbox') = Len(inbox) - 1 /\ \A i \in 1..Len(inbox') :
          inbox'[i] = inbox[i + 1] /\ i + 1 \in 1..Len(inbox)
    BY <2>1, <2>2
  <2>4. pc = "attach" /\ reply' = "none" =>
          reply = "none" /\ \A i \in 1..Len(inbox') : inbox'[i].units >= 1
    <3>1. ASSUME pc = "attach", reply' = "none" PROVE reply = "none"
      BY <2>1, <3>1
    <3> QED
      BY <2>3, <3>1 DEF ArrivalInv
  <2>5. ASSUME NEW t \in Topics PROVE Arrives(t)'
    <3>1. Arrives(t) /\ taken[t] \in Nat
      BY <1>2, SubscriptionNumbers DEF ArrivalInv
    <3>2. CASE todo' = 0
      <4>1. todo = 0 /\ inbox[1].units = 0
        BY <1>3, <2>1, <2>2, <3>2
      <4>2. ~(pc = "attach" /\ reply = "none")
        BY <2>2, <4>1 DEF ArrivalInv
      <4> QED
        BY <1>3, <2>1, <3>1, <3>2, <4>1, <4>2 DEF Arrives
    <3>3. CASE todo' # 0
      BY <1>3, <2>1, <3>1, <3>3 DEF Arrives
    <3> QED BY <3>2, <3>3
  <2> QED
    BY <1>1, <1>3, <2>4, <2>5 DEF ArrivalInv
<1>5. CASE SimReplies
  <2>1. UNCHANGED <<inbox, now, todo>> /\ reply = "owed" /\ reply' = "sent"
    BY <1>5 DEF SimReplies
  <2>2. ASSUME NEW t \in Topics PROVE Arrives(t)'
    BY <1>3, <2>1 DEF ArrivalInv, Arrives
  <2> QED
    BY <1>1, <2>1, <2>2 DEF ArrivalInv
<1>6. CASE SimRuns
  <2>1. now' = now + 1 /\ UNCHANGED <<inbox, reply>>
    BY <1>6 DEF SimRuns
  <2>2. ASSUME NEW t \in Topics PROVE Arrives(t)'
    <3>1. Arrives(t) /\ taken[t] \in Nat
      BY <1>2, SubscriptionNumbers DEF ArrivalInv
    <3>2. taken'[t] < now' /\ taken'[t] <= now'
      BY <1>3, <2>1, <3>1 DEF Arrives
    <3> QED
      BY <1>3, <3>1, <3>2 DEF Arrives
  <2> QED
    BY <1>1, <1>3, <2>1, <2>2 DEF ArrivalInv
<1> QED
  BY <1>4, <1>5, <1>6 DEF SimNext

(* Here one callback at a time is what counts.                             *)
LEMMA SubscriptionKeepsArrival ==
  ASSUME Overlap = 1, ArrivalInv, CommittedInv', NEW u \in Topics, Take(u) \/ Commit(u)
  PROVE  ArrivalInv'
<1>1. UNCHANGED <<pc, now, todo, reply, inbox>> /\ TypeInv
  BY DEF Take, Commit, world, ArrivalInv, CommittedInv
<1>2. ASSUME NEW t \in Topics PROVE Arrives(t)'
  <2>1. Arrives(t) /\ Arrives(u)
    BY DEF ArrivalInv
  <2>2. /\ taken \in [Topics -> Nat] /\ held \in [Topics -> SUBSET Nat]
        /\ cache \in [Topics -> Nat] /\ now \in Nat
    BY <1>1 DEF TypeInv, TypeOK
  <2>3. CASE t # u
    <3>1. taken'[t] = taken[t] /\ held'[t] = held[t] /\ cache'[t] = cache[t]
      BY <2>2, <2>3 DEF Take, Commit
    <3> QED
      BY <1>1, <2>1, <3>1 DEF Arrives
  <2>4. CASE t = u /\ Take(u)
    <3>1. held[t] = {}
      <4>1. Cardinality(held[t]) < 1
        BY <2>4 DEF Take
      <4>2. held[t] = {} \/ held[t] = {taken[t]}
        BY <2>1 DEF Arrives
      <4> QED
        BY <4>1, <4>2, FS_Singleton
    <3>2. PICK s \in (taken[t] + 1)..now :
            /\ taken' = [taken EXCEPT ![t] = s]
            /\ held' = [held EXCEPT ![t] = @ \cup {s}]
      BY <2>4 DEF Take
    <3>3. s \in Nat /\ s # 0 /\ s <= now
      BY <2>2, <3>2
    <3>4. taken'[t] = s /\ held'[t] = {s} /\ cache'[t] = cache[t]
      BY <2>2, <2>4, <3>1, <3>2 DEF Take
    <3> QED
      BY <1>1, <2>1, <3>3, <3>4 DEF Arrives
  <2>5. CASE t = u /\ Commit(u)
    <3>1. PICK s \in held[t] :
            /\ cache' = [cache EXCEPT ![t] = s]
            /\ held' = [held EXCEPT ![t] = @ \ {s}]
      BY <2>5 DEF Commit
    <3>2. s = taken[t] /\ s # 0 /\ held[t] \subseteq {s}
      BY <2>1, <3>1 DEF Arrives
    <3>3. taken'[t] = taken[t] /\ cache'[t] = s /\ held'[t] = {}
      BY <2>2, <2>5, <3>1, <3>2 DEF Commit
    <3> QED
      BY <1>1, <2>1, <3>2, <3>3 DEF Arrives
  <2> QED BY <2>3, <2>4, <2>5
<1> QED
  BY <1>1, <1>2 DEF ArrivalInv

(* The calling thread leaves the subscriptions alone; only the constructor *)
(* meets a topic it has not heard from.                                    *)
LEMMA CallKeepsArrival ==
  ASSUME ArrivalInv, CommittedInv', UNCHANGED <<now, todo, subs>>,
         pc' = "attach" => pc = "attach" /\ UNCHANGED <<reply, inbox>>,
         pc' = "first" => pc = "first" \/ (pc = "attach" /\ reply = "sent"),
         pc' \in {"attach", "first", "closed"} \/ HeardAll
           \/ pc \notin {"attach", "first", "closed"}
  PROVE  ArrivalInv'
<1>1. ASSUME NEW t \in Topics PROVE Arrives(t)'
  BY DEF ArrivalInv, Arrives, subs, HeardAll
<1> QED
  BY <1>1 DEF ArrivalInv

LEMMA NextArrival ==
  ASSUME Overlap = 1, ArrivalInv, [Next]_vars
  PROVE  ArrivalInv'
<1>1. CommittedInv'
  BY NextCommitted DEF ArrivalInv
<1>2. CASE \E t \in Topics : Take(t) \/ Commit(t)
  <2>1. PICK t \in Topics : Take(t) \/ Commit(t)
    BY <1>2
  <2> QED BY <1>1, <2>1, SubscriptionKeepsArrival
<1>3. CASE AttachReturns \/ FirstMessages
  BY <1>1, <1>3, CallKeepsArrival DEF AttachReturns, FirstMessages, Answered, world
<1>4. CASE (\E p \in Places : ResetBrakes(p)) \/ (\E a \in Actions : StepActs(a))
           \/ ResetPlaces \/ ResetSettles
  BY <1>1, <1>4, CallKeepsArrival
  DEF ResetBrakes, StepActs, ResetPlaces, ResetSettles, Answered, Order
<1>5. CASE ResetWaits \/ ResetReturns \/ StepWaits \/ StepReturns
  BY <1>1, <1>5, CallKeepsArrival
  DEF ResetWaits, ResetReturns, StepWaits, StepReturns, Answered, world
<1>6. CASE EnvRaises
  BY <1>1, <1>6, CallKeepsArrival
  DEF EnvRaises, CallTimesOut, CallRefused, WaitTimesOut, Raise, Calls
<1>7. CASE Close \/ Closed \/ UNCHANGED vars
  <2>1. UNCHANGED <<now, todo, subs, reply, inbox>>
    BY <1>7 DEF Close, Closed, vars, world
  <2>2. pc' = pc \/ (pc = "idle" /\ pc' = "closed")
    BY <1>7 DEF Close, Closed, vars
  <2> QED BY <1>1, <2>1, <2>2, CallKeepsArrival
<1>8. CASE SimNext
  BY <1>8, SimKeepsArrival
<1> QED
  BY <1>2, <1>3, <1>4, <1>5, <1>6, <1>7, <1>8 DEF Next, EnvReturns

(* A call that lacks a reading has one on its way, for every queue depth,  *)
(* brake and moment of attaching, with early and late answers and whatever *)
(* was refused or timed out before, if callbacks finish in order.  This is *)
(* what is left of CallsReturn when fairness is set aside: the wait is for *)
(* something that is under way.                                            *)
THEOREM NothingIsLost == Spec => []ReadingIsOnItsWay
<1>1. CASE Overlap = 1
  <2>1. Init => ArrivalInv
    BY InitArrival
  <2>2. ArrivalInv /\ [Next]_vars => ArrivalInv'
    BY <1>1, NextArrival
  <2>3. ArrivalInv => ReadingIsOnItsWay
    <3> SUFFICES ASSUME ArrivalInv, pc \in Waits, NEW t \in Topics, Lacks(t),
                        todo = 0, held[t] = {}
                 PROVE  taken[t] < now
      BY SubscriptionNumbers DEF ReadingIsOnItsWay, ArrivalInv, CommittedInv
    <3>1. Arrives(t) /\ TypeInv /\ target <= now + todo
      BY DEF ArrivalInv, CommittedInv, NeverWaitsInVain
    <3>2. taken[t] \in Nat /\ cache[t] \in Nat /\ now \in Nat /\ target \in Nat
      BY <3>1, SubscriptionNumbers
    <3>3. CASE pc = "first"
      BY <3>1, <3>2, <3>3 DEF Arrives, Lacks
    <3>4. CASE pc # "first"
      BY <3>1, <3>2, <3>4 DEF Arrives, Lacks, Waits
    <3> QED BY <3>3, <3>4
  <2> QED BY <2>1, <2>2, <2>3, PTL DEF Spec
<1>2. CASE Overlap # 1
  <2>1. ReadingIsOnItsWay
    BY <1>2 DEF ReadingIsOnItsWay
  <2> QED BY <2>1, PTL
<1> QED BY <1>1, <1>2
-----------------------------------------------------------------------------
(* The episode contract.  A wait that times out has counted a step nobody  *)
(* judged, so the books are those of the contract unless that happens.     *)

EpisodeInv ==
  /\ TypeInv
  /\ pc \in {"step", "step_wait"} => outcome = "running"
  /\ pc = "step_wait" => steps >= 1

LEMMA NextEpisode == EpisodeInv /\ [Next]_vars => EpisodeInv'
<1> SUFFICES ASSUME EpisodeInv, [Next]_vars PROVE EpisodeInv'
  OBVIOUS
<1> USE DEF EpisodeInv
<1>1. TypeInv' /\ steps \in Nat
  BY NextTypeInv DEF TypeInv, TypeOK
<1>2. CASE SimNext \/ (\E t \in Topics : Take(t) \/ Commit(t)) \/ UNCHANGED vars
  BY <1>1, <1>2 DEF SimNext, SimTakes, SimReplies, SimRuns, Take, Commit, env, vars
<1>3. CASE \E p \in Places : ResetBrakes(p)
  BY <1>1, <1>3 DEF ResetBrakes
<1>4. CASE \E a \in Actions : StepActs(a)
  BY <1>1, <1>4 DEF StepActs
<1>5. CASE StepWaits
  BY <1>1, <1>5 DEF StepWaits, Answered
<1>6. CASE EnvReturns /\ ~StepWaits
  BY <1>1, <1>6
  DEF EnvReturns, AttachReturns, FirstMessages, ResetPlaces, ResetSettles, ResetWaits,
      ResetReturns, StepReturns
<1>7. CASE EnvRaises
  BY <1>1, <1>7 DEF EnvRaises, CallTimesOut, CallRefused, WaitTimesOut, Raise
<1>8. CASE Close \/ Closed
  BY <1>1, <1>8 DEF Close, Closed, env, vars
<1> QED
  BY <1>2, <1>3, <1>4, <1>5, <1>6, <1>7, <1>8 DEF Next

(* Every step is one of the contract's, or leaves its state alone.         *)
LEMMA StepKeepsContract ==
  ASSUME EpisodeInv, TypeInv', "slow_topic" \notin Faults, [Next]_vars
  PROVE  [Contract!ContractNext]_(Contract!contractVars)
<1> USE DEF EpisodeInv
<1>1. steps \in Nat /\ MaxSteps \in Nat
  BY BarrierAssumption DEF TypeInv, TypeOK
<1>2. CASE ResetReturns
  <2>1. /\ pc = "reset_wait" /\ pc' = "idle" /\ steps' = 0 /\ outcome' = "running" /\ seen' = seen
    BY <1>2 DEF ResetReturns
  <2> QED
    BY <2>1 DEF Contract!Begin, Contract!ContractNext
<1>3. CASE StepReturns
  <2>1. /\ pc = "step_wait" /\ pc' = "idle" /\ steps' = steps /\ outcome = "running"
        /\ steps >= 1
    BY <1>3 DEF StepReturns
  <2>2. PICK r \in BOOLEAN, c \in BOOLEAN :
          /\ seen' = [reached |-> r, collided |-> c]
          /\ outcome' = IF r THEN "success"
                        ELSE IF c THEN "collision"
                        ELSE IF steps >= MaxSteps THEN "timeout"
                        ELSE "running"
    BY <1>3 DEF StepReturns
  <2>3. seen' \in Contract!Seen
    BY <2>2 DEF Contract!Seen
  <2>4. outcome' = Contract!EnvVerdict(seen', steps)
    BY <2>2 DEF Contract!EnvVerdict
  <2>5. steps = (steps - 1) + 1
    BY <1>1
  <2>6. Contract!Judge
    BY <2>1, <2>3, <2>4, <2>5 DEF Contract!Judge
  <2> QED
    BY <2>6 DEF Contract!ContractNext
<1>4. CASE StepWaits
  <2>1. /\ pc = "step" /\ pc' = "step_wait" /\ steps' = steps + 1
        /\ UNCHANGED <<outcome, seen>>
    BY <1>4 DEF StepWaits, Answered
  <2>2. (IF pc' = "step_wait" THEN steps' - 1 ELSE steps') = steps
    BY <1>1, <2>1
  <2> QED
    BY <2>1, <2>2 DEF Contract!contractVars
<1>5. CASE ~ResetReturns /\ ~StepReturns /\ ~StepWaits
  <2>1. UNCHANGED <<outcome, seen, steps>> /\ (pc = "step_wait" <=> pc' = "step_wait")
    <3>1. CASE SimNext \/ (\E t \in Topics : Take(t) \/ Commit(t)) \/ UNCHANGED vars
      BY <3>1 DEF SimNext, SimTakes, SimReplies, SimRuns, Take, Commit, env, vars
    <3>2. CASE \/ \E p \in Places : ResetBrakes(p)
               \/ \E a \in Actions : StepActs(a)
      BY <3>2 DEF ResetBrakes, StepActs
    <3>3. CASE EnvReturns
      BY <1>5, <3>3
      DEF EnvReturns, AttachReturns, FirstMessages, ResetPlaces, ResetSettles, ResetWaits,
          Answered, env
    <3>4. CASE EnvRaises
      <4>1. CallTimesOut \/ CallRefused
        BY <3>4 DEF EnvRaises, WaitTimesOut
      <4> QED
        BY <4>1 DEF CallTimesOut, CallRefused, Raise, Calls
    <3>5. CASE Close \/ Closed
      BY <3>5 DEF Close, Closed, env, vars
    <3> QED BY <3>1, <3>2, <3>3, <3>4, <3>5 DEF Next
  <2> QED
    BY <2>1 DEF Contract!contractVars
<1> QED BY <1>2, <1>3, <1>4, <1>5

(* RobotNavEnv keeps the books the deployment controller keeps: one        *)
(* judgement per action, by the same rules, latched until the next reset;  *)
(* with late, early and refused answers and any number of exceptions, as   *)
(* long as no sensor falls silent in the middle of a step.                 *)
THEOREM ImplementsContract ==
  ASSUME "slow_topic" \notin Faults
  PROVE  Spec => KeepsEpisodeContract
<1>1. Init => EpisodeInv /\ Contract!ContractInit
  BY InitTypeInv DEF Init, EpisodeInv, Contract!ContractInit, Contract!Seen
<1>2. EpisodeInv /\ EpisodeInv' /\ [Next]_vars => [Contract!ContractNext]_(Contract!contractVars)
  BY StepKeepsContract DEF EpisodeInv
<1> QED
  BY <1>1, <1>2, NextEpisode, PTL DEF Spec, KeepsEpisodeContract, Contract!ContractSpec

-----------------------------------------------------------------------------
(* The synchronous world.  The service answers when it is done, so that    *)
(* the robot stands when it is placed.                                     *)

AnswersWhenDone ==
  /\ reply = "sent" \/ pc \in Waits \/ pc = "idle" => todo = 0 /\ inbox = <<>>
  /\ inbox # <<>> => todo = 0

PlacesOnce == inbox # <<>> => Head(inbox).place = IF pc = "place" THEN arg ELSE NoPlace

Resetting == {"brake", "place", "settle", "reset_wait"}

\* After its brake the robot stands, and stays where it is put.
PlacedWhileStanding ==
  /\ pc \in Resetting => arg \in Places
  /\ pc \in {"brake", "place", "settle"} => drive = Stop
  /\ pc = "brake" /\ inbox = <<>> =>
       robot.still + todo >= BrakeUnits /\ (pose = NoPlace \/ todo >= BrakeUnits)
  /\ pc \in {"place", "settle"} => robot.still = BrakeUnits
  /\ pc = "place" => todo = 0 /\ pose = IF inbox = <<>> THEN arg ELSE NoPlace
  /\ pc = "settle" =>
       IF inbox = <<>> /\ todo = 0 THEN robot.at = arg /\ robot.ran = <<>> /\ pose = NoPlace
       ELSE pose = arg /\ todo = IF inbox = <<>> THEN 1 ELSE 0
  /\ pc = "reset_wait" => robot.at = arg /\ robot.ran = <<>> /\ pose = NoPlace

\* From a call that returned to the next: the world is the one on show, until
\* the one action that was ordered has been carried out.
Shown == robot.at = obs.at /\ robot.ran = obs.ran
Moved == robot.at = obs.at /\ robot.ran = Append(obs.ran, arg)

ShowsTheWorld ==
  /\ pc \in {"attach", "first", "idle"} => arg = NoPlace
  /\ pc \in {"step", "step_wait"} => outcome = "running" /\ arg \in Actions
  /\ last = "none" => outcome = "idle"
  /\ pc = "step_wait" \/ (pc = "step" /\ inbox = <<>> /\ todo = 0) => pose = NoPlace
  /\ last = "returned" =>
       /\ pc \in {"idle", "step", "step_wait"} => pose = NoPlace
       /\ pc = "idle" => Shown
       /\ pc = "step" =>
            /\ drive = arg
            /\ IF inbox = <<>> /\ todo = 0 THEN Moved
               ELSE Shown /\ todo = IF inbox = <<>> THEN 1 ELSE 0
       /\ pc = "step_wait" => Moved

RobotInv ==
  BarrierInv /\ AnswersWhenDone /\ PlacesOnce /\ PlacedWhileStanding /\ ShowsTheWorld

LEMMA InitRobot == Undisturbed /\ Init => RobotInv
<1> SUFFICES ASSUME Undisturbed, Init PROVE RobotInv
  OBVIOUS
<1>1. BarrierInv
  BY InitBarrier
<1> QED
  BY <1>1
  DEF Init, RobotInv, AnswersWhenDone, Waits, PlacesOnce, Request, PlacedWhileStanding,
      Resetting, ShowsTheWorld

LEMMA SimKeepsRobot ==
  ASSUME ~EarlyReply, RobotInv, SimNext
  PROVE  RobotInv'
<1> USE DEF RobotInv
<1>1. BarrierInv'
  BY SimKeepsBarrier
<1>2. /\ todo \in Nat /\ BrakeUnits \in Nat /\ BrakeUnits > 0
      /\ robot \in [at : Places \cup {NoPlace}, ran : Seq(Actions), still : 0..BrakeUnits]
      /\ NoPlace \notin Places
  BY BarrierAssumption DEF BarrierInv, TypeInv, TypeOK
<1>3. CASE SimTakes
  <2>1. PICK p \in Places \cup {NoPlace} : inbox = <<Request(OrderedBy(pc), p)>>
    BY <1>3 DEF SimTakes, BarrierInv, CountIsTime
  <2>2. /\ inbox # <<>> /\ inbox' = <<>> /\ todo' = todo + OrderedBy(pc)
        /\ pose' = IF p = NoPlace THEN pose ELSE p
        /\ reply' = IF OrderedBy(pc) = 0 THEN "sent" ELSE "owed"
        /\ pc \in Calls /\ reply = "none"
    BY <1>3, <2>1 DEF SimTakes, Request, BarrierInv, CountIsTime
  <2>3. UNCHANGED <<pc, arg, outcome, last, obs, robot, drive>>
    BY <1>3 DEF SimTakes, env
  <2>4. p = IF pc = "place" THEN arg ELSE NoPlace
    BY <2>1, <2>2 DEF PlacesOnce, Request
  <2>5. OrderedBy(pc) = 0 => pc = "place"
    BY <1>2, <2>2 DEF OrderedBy, Calls
  <2>6. AnswersWhenDone' /\ PlacesOnce'
    BY <2>2, <2>3, <2>5 DEF AnswersWhenDone, PlacesOnce, PlacedWhileStanding, OrderedBy, Calls, Waits
  <2>7. PlacedWhileStanding'
    BY <1>2, <2>2, <2>3, <2>4 DEF PlacedWhileStanding, OrderedBy, Resetting, Calls
  <2>8. ShowsTheWorld'
    BY <1>2, <2>2, <2>3, <2>4 DEF ShowsTheWorld, Shown, Moved, OrderedBy, Calls
  <2> QED
    BY <1>1, <2>6, <2>7, <2>8
<1>4. CASE SimReplies
  <2>1. todo = 0 /\ inbox = <<>> /\ UNCHANGED <<pc, env, robot, drive, inbox, todo, pose>>
    BY <1>4 DEF SimReplies, BarrierInv, CountIsTime
  <2> QED
    BY <1>1, <2>1
    DEF AnswersWhenDone, PlacesOnce, PlacedWhileStanding, ShowsTheWorld, Shown, Moved, env
<1>5. CASE SimRuns
  <2>1. /\ todo > 0 /\ todo' = todo - 1 /\ pose' = NoPlace
        /\ UNCHANGED <<pc, arg, outcome, last, obs, drive, inbox, reply>>
        /\ robot' =
             [at    |-> IF pose = NoPlace THEN robot.at
                        ELSE IF robot.still < BrakeUnits THEN NoPlace ELSE pose,
              ran   |-> IF pose = NoPlace THEN Append(robot.ran, drive) ELSE <<>>,
              still |-> IF drive = Stop THEN Earlier(robot.still + 1, BrakeUnits) ELSE 0]
    BY <1>5 DEF SimRuns, env
  <2>2. reply # "sent" /\ pc \notin Waits /\ pc # "place"
    BY <2>1 DEF AnswersWhenDone, PlacedWhileStanding
  <2>3. AnswersWhenDone' /\ PlacesOnce'
    BY <2>1, <2>2 DEF AnswersWhenDone, PlacesOnce
  <2>4. PlacedWhileStanding'
    <3>1. CASE pc = "brake"
      BY <1>2, <2>1, <3>1 DEF PlacedWhileStanding, Resetting, Earlier
    <3>2. CASE pc = "settle"
      <4>1. inbox = <<>> /\ todo = 1 /\ pose = arg /\ arg \in Places /\ pose # NoPlace
        BY <1>2, <2>1, <3>2 DEF PlacedWhileStanding, Resetting
      <4>2. robot.still = BrakeUnits /\ drive = Stop
        BY <3>2 DEF PlacedWhileStanding
      <4>3. robot'.at = arg /\ robot'.ran = <<>> /\ robot'.still = BrakeUnits /\ todo' = 0
        BY <1>2, <2>1, <4>1, <4>2 DEF Earlier
      <4> QED
        BY <2>1, <3>2, <4>1, <4>2, <4>3 DEF PlacedWhileStanding, Resetting
    <3>3. CASE pc \notin Resetting
      BY <2>1, <3>3 DEF PlacedWhileStanding, Resetting
    <3> QED BY <2>2, <3>1, <3>2, <3>3 DEF Resetting, Waits
  <2>5. ShowsTheWorld'
    <3>1. CASE last = "returned" /\ pc = "step"
      <4>1. pose = NoPlace /\ drive = arg /\ inbox = <<>> /\ todo = 1 /\ Shown
        BY <1>2, <2>1, <3>1 DEF ShowsTheWorld
      <4>2. Moved' /\ todo' = 0
        BY <1>2, <2>1, <4>1 DEF Shown, Moved
      <4> QED
        BY <2>1, <3>1, <4>1, <4>2 DEF ShowsTheWorld
    <3>2. CASE last = "returned" /\ pc = "idle"
      BY <1>2, <2>1, <3>2 DEF BarrierInv, WorldAwaitsCaller
    <3>3. CASE last = "returned" => pc \notin {"step", "idle"}
      BY <2>1, <2>2, <3>3 DEF ShowsTheWorld, Waits
    <3> QED BY <3>1, <3>2, <3>3
  <2> QED BY <1>1, <2>3, <2>4, <2>5
<1> QED BY <1>3, <1>4, <1>5 DEF SimNext

LEMMA SubscriptionKeepsRobot ==
  ASSUME RobotInv, NEW t \in Topics, Take(t) \/ Commit(t)
  PROVE  RobotInv'
<1>1. BarrierInv' /\ UNCHANGED <<pc, env, world>>
  BY SubscriptionKeepsBarrier DEF RobotInv, Take, Commit
<1> QED
  BY <1>1
  DEF RobotInv, AnswersWhenDone, PlacesOnce, PlacedWhileStanding, ShowsTheWorld, Shown, Moved,
      env, world

(* What a call leaves: pc, its argument, what is on order, and the world.  *)
LEMMA CallKeepsRobot ==
  ASSUME RobotInv,
         \/ EnvReturns
         \/ \E p \in Places : ResetBrakes(p)
         \/ \E a \in Actions : StepActs(a)
  PROVE  RobotInv'
<1> USE DEF RobotInv
<1>1. BarrierInv'
  BY CallKeepsBarrier
<1>2. /\ todo \in Nat /\ BrakeUnits \in Nat /\ BrakeUnits > 0
      /\ robot \in [at : Places \cup {NoPlace}, ran : Seq(Actions), still : 0..BrakeUnits]
      /\ NoPlace \notin Places /\ inbox \in Seq(Requests)
  BY BarrierAssumption DEF BarrierInv, TypeInv, TypeOK, Requests
<1>3. CASE AttachReturns \/ FirstMessages
  <2>1. /\ pc \in {"attach", "first"} /\ pc' \in {"first", "idle"} /\ last = "none"
        /\ todo = 0 /\ inbox = <<>>
    BY <1>3 DEF AttachReturns, FirstMessages, Answered, AnswersWhenDone, Waits, BarrierInv
  <2>2. UNCHANGED <<arg, outcome, last, obs, world>>
    BY <1>3 DEF AttachReturns, FirstMessages
  <2> QED
    BY <1>1, <2>1, <2>2
    DEF AnswersWhenDone, PlacesOnce, PlacedWhileStanding, Resetting, ShowsTheWorld, world
<1>4. ASSUME NEW p \in Places, ResetBrakes(p) PROVE RobotInv'
  <2>1. /\ pc = "idle" /\ pc' = "brake" /\ arg' = p /\ drive' = Stop /\ reply' = "none"
        /\ UNCHANGED <<outcome, last, obs, robot, todo, pose>>
    BY <1>4 DEF ResetBrakes, Order
  <2>2. todo = 0 /\ inbox = <<>>
    BY <2>1 DEF AnswersWhenDone
  <2>3. inbox' = <<Request(BrakeUnits, NoPlace)>> /\ inbox' # <<>> /\ Head(inbox').place = NoPlace
    BY <1>4, <2>2 DEF ResetBrakes, Order, Request
  <2> QED
    BY <1>1, <2>1, <2>2, <2>3
    DEF AnswersWhenDone, Waits, PlacesOnce, PlacedWhileStanding, Resetting, ShowsTheWorld
<1>5. CASE ResetPlaces
  <2>1. /\ pc = "brake" /\ pc' = "place" /\ reply' = "none" /\ arg \in Places
        /\ UNCHANGED <<arg, outcome, last, obs, robot, drive, todo, pose>>
    BY <1>5 DEF ResetPlaces, Answered, Order, BarrierInv, TypeInv
  <2>2. todo = 0 /\ inbox = <<>>
    BY <1>5 DEF ResetPlaces, Answered, AnswersWhenDone
  <2>3. inbox' = <<Request(0, arg)>> /\ inbox' # <<>> /\ Head(inbox').place = arg
    BY <1>5, <2>2 DEF ResetPlaces, Order, Request
  <2>4. robot.still = BrakeUnits /\ pose = NoPlace /\ drive = Stop
    BY <1>2, <2>1, <2>2 DEF PlacedWhileStanding
  <2> QED
    BY <1>1, <2>1, <2>2, <2>3, <2>4
    DEF AnswersWhenDone, Waits, PlacesOnce, PlacedWhileStanding, Resetting, ShowsTheWorld
<1>6. CASE ResetSettles
  <2>1. /\ pc = "place" /\ pc' = "settle" /\ reply' = "none"
        /\ UNCHANGED <<arg, outcome, last, obs, robot, drive, todo, pose>>
    BY <1>6 DEF ResetSettles, Answered, Order, env
  <2>2. todo = 0 /\ inbox = <<>>
    BY <1>6 DEF ResetSettles, Answered, AnswersWhenDone
  <2>3. inbox' = <<Request(1, NoPlace)>> /\ inbox' # <<>> /\ Head(inbox').place = NoPlace
    BY <1>6, <2>2 DEF ResetSettles, Order, Request
  <2>4. robot.still = BrakeUnits /\ pose = arg /\ drive = Stop /\ arg \in Places
    BY <2>1, <2>2 DEF PlacedWhileStanding, Resetting
  <2> QED
    BY <1>1, <2>1, <2>2, <2>3, <2>4
    DEF AnswersWhenDone, Waits, PlacesOnce, PlacedWhileStanding, Resetting, ShowsTheWorld
<1>7. CASE ResetWaits
  <2>1. /\ pc = "settle" /\ pc' = "reset_wait" /\ todo = 0 /\ inbox = <<>>
        /\ UNCHANGED <<arg, outcome, last, obs, world>>
    BY <1>7 DEF ResetWaits, Answered, AnswersWhenDone
  <2> QED
    BY <1>1, <2>1
    DEF AnswersWhenDone, PlacesOnce, PlacedWhileStanding, Resetting, ShowsTheWorld, world
<1>8. CASE ResetReturns
  <2>1. /\ pc = "reset_wait" /\ pc' = "idle" /\ outcome' = "running" /\ last' = "returned"
        /\ arg' = NoPlace /\ Observe /\ UNCHANGED world
    BY <1>8 DEF ResetReturns
  <2>2. Stamp = now /\ todo = 0 /\ inbox = <<>> /\ pose = NoPlace
    BY <1>8, <2>1, FreshIsNow DEF ResetReturns, Calls, PlacedWhileStanding
  <2>3. obs'.at = robot.at /\ obs'.ran = robot.ran
    BY <2>1, <2>2 DEF Observe
  <2> QED
    BY <1>1, <2>1, <2>2, <2>3
    DEF AnswersWhenDone, PlacesOnce, PlacedWhileStanding, Resetting, ShowsTheWorld, Shown, world
<1>9. ASSUME NEW a \in Actions, StepActs(a) PROVE RobotInv'
  <2>1. /\ pc = "idle" /\ pc' = "step" /\ arg' = a /\ drive' = a /\ reply' = "none"
        /\ outcome = "running"
        /\ UNCHANGED <<outcome, last, obs, robot, todo, pose>>
    BY <1>9 DEF StepActs, Order
  <2>2. todo = 0 /\ inbox = <<>>
    BY <2>1 DEF AnswersWhenDone
  <2>3. inbox' = <<Request(1, NoPlace)>> /\ inbox' # <<>> /\ Head(inbox').place = NoPlace
    BY <1>9, <2>2 DEF StepActs, Order, Request
  <2> QED
    BY <1>1, <2>1, <2>2, <2>3
    DEF AnswersWhenDone, Waits, PlacesOnce, PlacedWhileStanding, Resetting, ShowsTheWorld, Shown
<1>10. CASE StepWaits
  <2>1. /\ pc = "step" /\ pc' = "step_wait" /\ todo = 0 /\ inbox = <<>>
        /\ UNCHANGED <<arg, outcome, last, obs, world>>
    BY <1>10 DEF StepWaits, Answered, AnswersWhenDone
  <2> QED
    BY <1>1, <2>1
    DEF AnswersWhenDone, PlacesOnce, PlacedWhileStanding, Resetting, ShowsTheWorld, Moved, world
<1>11. CASE StepReturns
  <2>1. /\ pc = "step_wait" /\ pc' = "idle" /\ last' = "returned" /\ arg' = NoPlace
        /\ Observe /\ UNCHANGED world
    BY <1>11 DEF StepReturns
  <2>2. Stamp = now /\ todo = 0 /\ inbox = <<>> /\ pose = NoPlace
    BY <1>11, <2>1, FreshIsNow DEF StepReturns, Calls, ShowsTheWorld
  <2>3. obs'.at = robot.at /\ obs'.ran = robot.ran
    BY <2>1, <2>2 DEF Observe
  <2> QED
    BY <1>1, <2>1, <2>2, <2>3
    DEF AnswersWhenDone, PlacesOnce, PlacedWhileStanding, Resetting, ShowsTheWorld, Shown, world
<1> QED
  BY <1>3, <1>4, <1>5, <1>6, <1>7, <1>8, <1>9, <1>10, <1>11 DEF EnvReturns

LEMMA RaiseKeepsRobot ==
  ASSUME Undisturbed, RobotInv, EnvRaises
  PROVE  RobotInv'
<1> USE DEF RobotInv
<1>1. BarrierInv'
  BY RaiseKeepsBarrier
<1>2. CallRefused \/ WaitTimesOut
  BY DEF Undisturbed, EnvRaises, CallTimesOut
<1>3. /\ pc' \in {"idle", "closed"} /\ last' = "raised" /\ todo' = todo /\ arg' = NoPlace
  BY <1>2 DEF CallRefused, WaitTimesOut, Raise
<1>4. inbox' = <<>> /\ todo = 0
  <2>1. CASE CallRefused
    BY <2>1 DEF CallRefused, BarrierInv, CountIsTime, AnswersWhenDone
  <2>2. CASE WaitTimesOut
    BY <2>2 DEF WaitTimesOut, AnswersWhenDone, Waits
  <2> QED BY <1>2, <2>1, <2>2
<1> QED
  BY <1>1, <1>3, <1>4
  DEF AnswersWhenDone, PlacesOnce, PlacedWhileStanding, Resetting, ShowsTheWorld

LEMMA NextRobot ==
  ASSUME Undisturbed, ~EarlyReply, RobotInv, [Next]_vars
  PROVE  RobotInv'
<1>1. CASE Close \/ Closed \/ UNCHANGED vars
  <2>1. BarrierInv'
    BY NextBarrier DEF RobotInv
  <2>2. UNCHANGED <<env, world>> /\ (pc' = pc \/ (pc = "idle" /\ pc' = "closed"))
    BY <1>1 DEF Close, Closed, vars
  <2> QED
    BY <2>1, <2>2
    DEF RobotInv, AnswersWhenDone, Waits, PlacesOnce, PlacedWhileStanding, Resetting,
        ShowsTheWorld, Shown, Moved, env, world
<1> QED
  BY <1>1, SimKeepsRobot, SubscriptionKeepsRobot, CallKeepsRobot, RaiseKeepsRobot DEF Next

(* A call that comes back, or raises, is a call of the synchronous world;  *)
(* nothing else shows.                                                     *)
LEMMA StepLooksSynchronous ==
  ASSUME Undisturbed, RobotInv, TypeInv', [Next]_vars
  PROVE  [Sync!SyncNext]_(Sync!syncVars)
<1> USE DEF RobotInv
<1>1. CASE ResetReturns
  <2>1. /\ pc = "reset_wait" /\ Fresh /\ Observe
        /\ outcome' = "running" /\ last' = "returned" /\ arg' = NoPlace
    BY <1>1 DEF ResetReturns
  <2>2. Stamp = now
    BY <2>1, FreshIsNow DEF Calls
  <2>3. /\ obs'.at = robot.at /\ obs'.ran = robot.ran
        /\ arg \in Places /\ robot.at = arg /\ robot.ran = <<>>
    BY <2>1, <2>2 DEF Observe, PlacedWhileStanding, Resetting
  <2>4. Sync!Reset
    BY <2>1, <2>3 DEF Sync!Reset
  <2> QED
    BY <2>4 DEF Sync!SyncNext
<1>2. CASE StepReturns
  <2>1. /\ pc = "step_wait" /\ Fresh /\ Observe /\ last' = "returned"
        /\ outcome = "running" /\ arg \in Actions /\ arg' = NoPlace
        /\ outcome' \in {"running", "success", "collision", "timeout"}
    BY <1>2 DEF StepReturns, ShowsTheWorld
  <2>2. Stamp = now
    BY <2>1, FreshIsNow DEF Calls
  <2>3. obs'.at = robot.at /\ obs'.ran = robot.ran
    BY <2>1, <2>2 DEF Observe
  <2>4. last \in {"raised", "returned"}
    BY <2>1 DEF ShowsTheWorld, BarrierInv, TypeInv, TypeOK
  <2>5. CASE last = "returned"
    <3>1. robot.at = obs.at /\ robot.ran = Append(obs.ran, arg)
      BY <2>1, <2>5 DEF ShowsTheWorld, Moved
    <3>2. Sync!Step
      BY <2>1, <2>3, <2>5, <3>1 DEF Sync!Step
    <3> QED
      BY <3>2 DEF Sync!SyncNext
  <2>6. CASE last = "raised"
    <3>1. obs'.at \in Places \cup {NoPlace} /\ obs'.ran \in Seq(Actions)
      BY DEF TypeInv, TypeOK
    <3>2. Sync!StepAfterRaise
      BY <2>1, <2>6, <3>1 DEF Sync!StepAfterRaise
    <3> QED
      BY <3>2 DEF Sync!SyncNext
  <2> QED BY <2>4, <2>5, <2>6
<1>3. CASE EnvRaises
  <2>1. last' = "raised" /\ obs' = obs /\ arg' = NoPlace
    BY <1>3 DEF EnvRaises, CallTimesOut, CallRefused, WaitTimesOut, Raise
  <2>2. Sync!Raise
    BY <2>1 DEF Sync!Raise
  <2> QED
    BY <2>2 DEF Sync!SyncNext
<1>4. ASSUME NEW p \in Places, ResetBrakes(p) PROVE Sync!SyncNext
  <2>1. arg = NoPlace /\ arg' = p /\ UNCHANGED <<outcome, last, obs>>
    BY <1>4 DEF ResetBrakes, ShowsTheWorld
  <2>2. Sync!AskReset(p)
    BY <2>1 DEF Sync!AskReset
  <2> QED
    BY <2>2 DEF Sync!SyncNext
<1>5. ASSUME NEW a \in Actions, StepActs(a) PROVE Sync!SyncNext
  <2>1. arg = NoPlace /\ arg' = a /\ outcome = "running" /\ UNCHANGED <<outcome, last, obs>>
    BY <1>5 DEF StepActs, ShowsTheWorld
  <2>2. Sync!AskStep(a)
    BY <2>1 DEF Sync!AskStep
  <2> QED
    BY <2>2 DEF Sync!SyncNext
<1>6. CASE \/ SimNext \/ (\E t \in Topics : Take(t) \/ Commit(t)) \/ Close \/ Closed
           \/ UNCHANGED vars
           \/ AttachReturns \/ FirstMessages \/ ResetPlaces \/ ResetSettles \/ ResetWaits
           \/ StepWaits
  <2>1. UNCHANGED <<arg, outcome, last, obs>>
    <3>1. CASE SimNext \/ (\E t \in Topics : Take(t) \/ Commit(t)) \/ UNCHANGED vars
      BY <3>1 DEF SimNext, SimTakes, SimReplies, SimRuns, Take, Commit, env, vars
    <3>2. CASE \/ AttachReturns \/ FirstMessages \/ ResetPlaces \/ ResetSettles \/ ResetWaits
               \/ StepWaits
      BY <3>2
      DEF AttachReturns, FirstMessages, ResetPlaces, ResetSettles, ResetWaits, StepWaits, env
    <3>3. CASE Close \/ Closed
      BY <3>3 DEF Close, Closed, env, vars
    <3> QED BY <1>6, <3>1, <3>2, <3>3
  <2> QED
    BY <2>1 DEF Sync!syncVars
<1> QED BY <1>1, <1>2, <1>3, <1>4, <1>5, <1>6 DEF Next, EnvReturns

(* RobotNavEnv looks like a world that stands still between calls: reset   *)
(* shows the robot at the start this call was asked for, step shows this   *)
(* call's action, once, after what was on show; for every length of the brake, queue depth and number of   *)
(* overlapping callbacks, with refused calls and waits that time out, when *)
(* the service answers only once its iterations are done (sim_control.py). *)
THEOREM ImplementsSyncEnv ==
  ASSUME Undisturbed, ~EarlyReply
  PROVE  Spec => LooksSynchronous
<1>1. Init => RobotInv /\ Sync!SyncInit
  BY InitRobot DEF Init, Sync!SyncInit
<1>2. RobotInv /\ [Next]_vars => RobotInv'
  BY NextRobot
<1>3. RobotInv /\ RobotInv' /\ [Next]_vars => [Sync!SyncNext]_(Sync!syncVars)
  BY StepLooksSynchronous DEF RobotInv, BarrierInv
<1> QED
  BY <1>1, <1>2, <1>3, PTL DEF Spec, LooksSynchronous, Sync!SyncSpec

=============================================================================
