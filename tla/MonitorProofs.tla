----------------------------- MODULE MonitorProofs -----------------------------
(***************************************************************************)
(* What the stop event does to open streams, for any number of browsers    *)
(* and any traffic on the topics.                                          *)
(***************************************************************************)
EXTENDS Monitor, TLAPS

(* Statuses carry what the policy node pursues, never a goal it dropped.   *)
StatusesTyped == \A m \in arrived : m.kind = "status" => m.goal \in Goals \cup {NoGoal}

(* telemetry() comes to its second look only when there is a status.       *)
StatusHeard == \A s \in Streams : stream[s].pc = "again" => status # NoStatus

(* A click that has not been answered has its goal.                        *)
ClickHasGoal == click.pc # "idle" => click.goal \in Goals

Typing == TypeOK /\ StatusesTyped /\ StatusHeard /\ ClickHasGoal

(* A frame written after the stop event leaves its stream at the check the *)
(* event fails; a stream that is on a frame has written none since.        *)
LateFrames ==
  \A s \in Streams : late[s] = 0 \/ (late[s] = 1 /\ Stopping /\ stream[s].pc = "check")

IInv == Typing /\ LateFrames

LEMMA InitInv == Init => IInv
BY DEF Init, IInv, Typing, TypeOK, StatusesTyped, StatusHeard, ClickHasGoal,
            LateFrames, Closed, StreamPcs

(* Delivering a message, of a topic or of a status.                        *)
LEMMA DeliverTyped ==
  ASSUME Typing, NEW g \in Anywhere \cup {NoGoal}, NEW kind \in {"goal", "status"},
         kind = "status" => g \in Goals \cup {NoGoal},
         Deliver(kind, g)
  PROVE  arrived' \subseteq Messages /\ StatusesTyped'
<1> DEFINE m == [kind |-> kind, goal |-> g]
<1>1. m \in Messages BY DEF Messages
<1>2. \A n \in arrived' : n \in arrived \/ n = m BY DEF Deliver
<1>3. arrived' \subseteq Messages BY <1>1, <1>2 DEF Typing, TypeOK
<1>4. StatusesTyped' BY <1>2 DEF Typing, StatusesTyped
<1>5. QED BY <1>3, <1>4

LEMMA TypingPreserved == IInv /\ [Next]_vars => Typing'
<1> SUFFICES ASSUME IInv, [Next]_vars PROVE Typing'
  OBVIOUS
<1> USE DEF IInv, Typing, TypeOK, StatusHeard, ClickHasGoal, policy, heard, served
<1>1. ASSUME NEW g \in Anywhere, Publish(g), UNCHANGED <<served, main>>,
             click' \in [pc : {"idle", "publish", "answer"}, goal : Goals \cup {NoGoal}],
             ClickHasGoal'
      PROVE  Typing'
  <2>1. arrived' \subseteq Messages /\ StatusesTyped'
    BY <1>1, DeliverTyped DEF Publish
  <2>2. arriving' \subseteq Anywhere BY <1>1 DEF Publish
  <2>3. UNCHANGED <<publishing, pursued, goalOdom, status, stream, frame, late, main>>
    BY <1>1 DEF Publish
  <2>4. TypeOK' BY <1>1, <2>1, <2>2, <2>3
  <2>5. StatusHeard' BY <2>3
  <2>6. QED BY <1>1, <2>1, <2>4, <2>5
<1>2. ASSUME NEW g \in Anywhere, OthersPublish(g) PROVE Typing'
  BY <1>1, <1>2 DEF OthersPublish
<1>3. ASSUME NEW g \in Anywhere, PolicyTakesGoal(g) PROVE Typing'
  BY <1>3 DEF PolicyTakesGoal, StatusesTyped, Anywhere
<1>4. CASE PolicyTick
  <2>1. arrived' \subseteq Messages /\ StatusesTyped'
    BY <1>4, DeliverTyped DEF PolicyTick, Anywhere
  <2>2. QED BY <1>4, <2>1 DEF PolicyTick
<1>5. ASSUME NEW m \in Messages, Store(m) PROVE Typing'
  <2>1. m.goal \in Anywhere \cup {NoGoal} /\ m.kind \in {"goal", "status"}
    BY DEF Messages
  <2>2. m.kind = "status" => m.goal \in Goals \cup {NoGoal}
    BY <1>5 DEF Store, StatusesTyped
  <2>3. StatusHeard'
    <3>1. UNCHANGED stream BY <1>5 DEF Store
    <3>2. status' # NoStatus \/ UNCHANGED status
      BY <1>5, <2>1, <2>2, MonitorAssumption DEF Store
    <3>3. QED BY <3>1, <3>2
  <2>4. status' \in Goals \cup {NoGoal, NoStatus} /\ goalOdom' \in Anywhere \cup {NoGoal}
    BY <1>5, <2>1, <2>2 DEF Store
  <2>5. arrived' \subseteq arrived BY <1>5 DEF Store
  <2>6. UNCHANGED <<policy, served, click, main>> BY <1>5 DEF Store
  <2>7. TypeOK' BY <2>4, <2>5, <2>6
  <2>8. StatusesTyped' BY <2>5 DEF StatusesTyped
  <2>9. ClickHasGoal' BY <2>6
  <2>10. QED BY <2>3, <2>7, <2>8, <2>9
<1>6. ASSUME NEW s \in Streams, End(s), UNCHANGED <<policy, heard, click, main>>,
             frame' \in [Streams -> Anywhere \cup {NoGoal}]
      PROVE  Typing'
  BY <1>6 DEF End, Closed, StreamPcs, StatusesTyped
<1>7. ASSUME NEW s \in Streams,
             Connect(s) \/ StreamRuns(s) \/ TabHangs(s) \/ TabCloses(s)
      PROVE  Typing'
  <2> USE DEF Go, OutsideStreams, StreamPcs, StatusesTyped
  <2>1. CASE Connect(s) BY <2>1 DEF Connect
  <2>2. CASE StreamChecks(s) BY <2>2 DEF StreamChecks
  <2>3. CASE StreamStops(s) BY <1>6, <2>3 DEF StreamStops
  <2>4. CASE ReadGoal(s) BY <2>4 DEF ReadGoal
  <2>5. CASE ReadStatus(s) BY <2>5 DEF ReadStatus
  <2>6. CASE ReadStatusAgain(s)
    <3>1. CASE status = NoGoal BY <1>6, <2>6, <3>1 DEF ReadStatusAgain
    <3>2. CASE status # NoGoal
      <4>1. status \in Anywhere
        BY <2>6, <3>2 DEF ReadStatusAgain, Anywhere
      <4>2. stream' = [stream EXCEPT ![s] = [pc |-> "write", draws |-> status]]
        BY <2>6, <3>2 DEF ReadStatusAgain
      <4>3. UNCHANGED <<OutsideStreams, frame, late>>
        BY <2>6, <3>2 DEF ReadStatusAgain
      <4>4. QED BY <4>1, <4>2, <4>3
    <3>3. QED BY <3>1, <3>2
  <2>7. CASE Write(s) BY <2>7 DEF Write
  <2>8. CASE TabHangs(s) BY <2>8 DEF TabHangs
  <2>9. CASE TabCloses(s) BY <1>6, <2>9 DEF TabCloses
  <2>10. QED
    BY <1>7, <2>1, <2>2, <2>3, <2>4, <2>5, <2>6, <2>7, <2>8, <2>9 DEF StreamRuns
<1>8. ASSUME NEW g \in Goals, Click(g) PROVE Typing'
  BY <1>8 DEF Click, OutsideClick, StatusesTyped
<1>9. CASE PublishGoal
  <2>1. click.goal \in Anywhere BY <1>9 DEF PublishGoal, Anywhere
  <2>2. click' = [click EXCEPT !.pc = "answer"] /\ UNCHANGED <<served, main>>
    BY <1>9 DEF PublishGoal
  <2>3. ClickHasGoal' BY <1>9, <2>2 DEF PublishGoal
  <2>4. QED BY <1>1, <1>9, <2>1, <2>2, <2>3 DEF PublishGoal
<1>10. CASE Answer
  BY <1>10 DEF Answer, OutsideClick, StatusesTyped
<1>11. CASE Interrupt \/ MainEnding
  BY <1>11 DEF Interrupt, MainEnding, ServerShutdown, ServerClose, ExecutorShutdown,
               MainGo, OutsideMain, StatusesTyped
<1>12. CASE UNCHANGED vars
  BY <1>12 DEF vars, StatusesTyped
<1>13. QED
  BY <1>2, <1>3, <1>4, <1>5, <1>7, <1>8, <1>9, <1>10, <1>11, <1>12 DEF Next, Down

LEMMA LateFramesPreserved == IInv /\ [Next]_vars => LateFrames'
<1> SUFFICES ASSUME IInv, [Next]_vars PROVE LateFrames'
  OBVIOUS
<1> USE DEF IInv, Typing, TypeOK, LateFrames, Stopping, Spinning, policy, heard, served
<1>1. CASE UNCHANGED <<stream, late, main>>
  BY <1>1
<1>2. ASSUME NEW g \in Anywhere, OthersPublish(g) \/ PolicyTakesGoal(g) PROVE LateFrames'
  BY <1>1, <1>2 DEF OthersPublish, PolicyTakesGoal
<1>3. CASE PolicyTick BY <1>1, <1>3 DEF PolicyTick
<1>4. ASSUME NEW m \in Messages, Store(m) PROVE LateFrames'
  BY <1>1, <1>4 DEF Store
<1>5. ASSUME NEW s \in Streams, End(s), UNCHANGED main PROVE LateFrames'
  BY <1>5 DEF End, Closed
<1>6. ASSUME NEW s \in Streams,
             Connect(s) \/ StreamRuns(s) \/ TabHangs(s) \/ TabCloses(s)
      PROVE  LateFrames'
  <2> USE DEF Go, OutsideStreams
  <2>1. CASE Connect(s) BY <2>1 DEF Connect
  <2>2. CASE StreamChecks(s) BY <2>2 DEF StreamChecks
  <2>3. CASE StreamStops(s) BY <1>5, <2>3 DEF StreamStops
  <2>4. CASE ReadGoal(s) BY <2>4 DEF ReadGoal
  <2>5. CASE ReadStatus(s) BY <2>5 DEF ReadStatus
  <2>6. CASE ReadStatusAgain(s)
    <3>1. CASE status = NoGoal BY <1>5, <2>6, <3>1 DEF ReadStatusAgain
    <3>2. CASE status # NoGoal BY <2>6, <3>2 DEF ReadStatusAgain
    <3>3. QED BY <3>1, <3>2
  <2>7. CASE Write(s)
    <3>1. late[s] = 0 BY <2>7 DEF Write
    <3>2. QED BY <2>7, <3>1 DEF Write
  <2>8. CASE TabHangs(s) BY <2>8 DEF TabHangs
  <2>9. CASE TabCloses(s) BY <1>5, <2>9 DEF TabCloses
  <2>10. QED
    BY <1>6, <2>1, <2>2, <2>3, <2>4, <2>5, <2>6, <2>7, <2>8, <2>9 DEF StreamRuns
<1>7. ASSUME NEW g \in Goals, Click(g) PROVE LateFrames'
  BY <1>1, <1>7 DEF Click, OutsideClick
<1>8. CASE PublishGoal BY <1>1, <1>8 DEF PublishGoal
<1>9. CASE Answer BY <1>1, <1>9 DEF Answer, OutsideClick
<1>10. CASE Interrupt \/ MainEnding
  BY <1>10 DEF Interrupt, MainEnding, ServerShutdown, ServerClose, ExecutorShutdown,
               MainGo, OutsideMain
<1>11. CASE UNCHANGED vars BY <1>1, <1>11 DEF vars
<1>12. QED
  BY <1>2, <1>3, <1>4, <1>6, <1>7, <1>8, <1>9, <1>10, <1>11 DEF Next, Down

LEMMA Invariance == Spec => []IInv
<1>1. IInv /\ [Next]_vars => IInv'
  BY TypingPreserved, LateFramesPreserved DEF IInv
<1>2. QED BY <1>1, InitInv, PTL DEF Spec

(* Type correctness: no goal in a foreign frame is ever pursued or told of. *)
THEOREM Typed == Spec => []TypeOK
BY Invariance, PTL DEF IInv, Typing

(* No stream writes a second frame after the stop event has been set.      *)
THEOREM StreamsFinish == Spec => []OneFrameAfterStop
<1>1. IInv => OneFrameAfterStop BY DEF IInv, LateFrames, OneFrameAfterStop
<1>2. QED BY <1>1, Invariance, PTL
=============================================================================
