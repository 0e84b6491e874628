-------------------------------- MODULE Monitor --------------------------------
(***************************************************************************)
(* The live monitor (monitor_node.py, monitor_server.py, monitor.py): an   *)
(* executor whose threads store what the topics say, an HTTP server with a *)
(* thread for every open event stream and every click, and the main thread *)
(* that ends them.  Nothing locks the stored goal and status: telemetry()  *)
(* reads them one after the other while callbacks replace them.            *)
(* The policy node is what the monitor sees of it: it takes goals in its   *)
(* own frame, keeps the last one, and says every tick which one that is.   *)
(***************************************************************************)
EXTENDS Naturals

CONSTANTS
  Goals,    \* goals in the frame the policy node takes
  Foreign,  \* goals in another frame, from another publisher
  NoGoal,   \* null in a status, None in the monitor
  NoStatus, \* no status received yet
  Streams   \* event streams of browsers

ASSUME MonitorAssumption ==
  /\ Goals \cap Foreign = {}
  /\ NoGoal \notin Goals \cup Foreign /\ NoStatus \notin Goals \cup {NoGoal}

VARIABLES
  publishing,  \* is the policy node's status topic on?
  pursued,     \* controller.goal of the policy node
  arriving,    \* goals in the hands of the policy node's callbacks
  arrived,     \* messages in the hands of the monitor's callbacks
  goalOdom,    \* _goal_odom: the last goal seen on the topic
  status,      \* _status: the goal in the last status
  stream,      \* each stream: where its handler is, the goal it will draw
  frame,       \* the goal the page draws; NoGoal before its first frame
  late,        \* history: frames a stream wrote after the stop event was set
  click,       \* the POST handler: its pc and its goal
  main         \* main thread: spin, stop, shut, close, executor, down

policy  == <<publishing, pursued, arriving>>
heard   == <<arrived, goalOdom, status>>
served  == <<stream, frame, late>>
vars    == <<policy, heard, served, click, main>>

Anywhere == Goals \cup Foreign

Messages == [kind : {"goal", "status"}, goal : Anywhere \cup {NoGoal}]
Closed  == [pc |-> "closed", draws |-> NoGoal]

Init ==
  /\ publishing \in BOOLEAN
  /\ pursued = NoGoal /\ arriving = {}
  /\ arrived = {} /\ goalOdom = NoGoal /\ status = NoStatus
  /\ stream = [s \in Streams |-> Closed] /\ frame = [s \in Streams |-> NoGoal]
  /\ late = [s \in Streams |-> 0]
  /\ click = [pc |-> "idle", goal |-> NoGoal]
  /\ main = "spin"

(* stopping.is_set(); the executor still hands out callbacks; the process  *)
(* and its daemon threads are still there.                                 *)
Stopping == main # "spin"
Spinning == main = "spin"
Alive    == main # "down"

-----------------------------------------------------------------------------
(* Topics.  Both nodes take messages on reentrant groups, so that what has *)
(* been published is stored in any order; a queue before the callbacks     *)
(* adds nothing to that.  Equal messages under way count once.  The        *)
(* monitor takes none once its executor has stopped spinning.              *)

Deliver(kind, g) ==
  arrived' = IF Spinning THEN arrived \cup {[kind |-> kind, goal |-> g]} ELSE arrived

Publish(g) ==
  /\ arriving' = arriving \cup {g}
  /\ Deliver("goal", g)
  /\ UNCHANGED <<publishing, pursued, goalOdom, status>>

(* RViz or a command line, in any frame.                                   *)
OthersPublish(g) == Publish(g) /\ UNCHANGED <<served, click, main>>

(* PolicyNode._on_goal: a goal in the wrong frame is logged and dropped.   *)
PolicyTakesGoal(g) ==
  /\ g \in arriving
  /\ arriving' = arriving \ {g}
  /\ pursued' = IF g \in Foreign THEN pursued ELSE g
  /\ UNCHANGED <<publishing, heard, served, click, main>>

(* PolicyNode._publish_status, at the end of every tick.                   *)
PolicyTick ==
  /\ publishing /\ Spinning
  /\ Deliver("status", pursued)
  /\ UNCHANGED <<policy, goalOdom, status, served, click, main>>

(* _on_goal_seen, _on_status                                               *)
Store(m) ==
  /\ Alive /\ m \in arrived
  /\ IF m.kind = "goal" THEN goalOdom' = m.goal /\ UNCHANGED status
                        ELSE status' = m.goal /\ UNCHANGED goalOdom
  /\ arrived' = arrived \ {m}
  /\ UNCHANGED <<policy, served, click, main>>

-----------------------------------------------------------------------------
(* An event stream: one handler thread, one frame after another.           *)

Go(s, from, to) == Alive /\ stream[s].pc = from /\ stream' = [stream EXCEPT ![s].pc = to]
OutsideStreams == <<policy, heard, click, main>>

(* The listening socket accepts until shutdown() has returned; the static  *)
(* scene is sent first.  EventSource connects again after any end; until   *)
(* the next frame the page goes on drawing the last one.                   *)
Connect(s) ==
  /\ main \in {"spin", "stop"}
  /\ Go(s, "closed", "check")
  /\ UNCHANGED <<OutsideStreams, frame, late>>

End(s) ==
  /\ stream' = [stream EXCEPT ![s] = Closed]
  /\ late' = [late EXCEPT ![s] = 0]

(* Mutant of StreamChecks: the event is asked for once, on connecting.     *)
StreamNeverChecks(s) ==
  /\ Go(s, "check", "goal")
  /\ UNCHANGED <<OutsideStreams, frame, late>>

(* while not server.stopping.is_set()                                      *)
StreamChecks(s) ==
  /\ ~Stopping
  /\ Go(s, "check", "goal")
  /\ UNCHANGED <<OutsideStreams, frame, late>>

StreamStops(s) ==
  /\ Alive /\ Stopping /\ stream[s].pc = "check"
  /\ End(s)
  /\ UNCHANGED <<OutsideStreams, frame>>

(* telemetry(): the goal seen, then the status, twice.                     *)
ReadGoal(s) ==
  /\ Alive /\ stream[s].pc = "goal"
  /\ stream' = [stream EXCEPT ![s] = [pc |-> "status", draws |-> goalOdom]]
  /\ UNCHANGED <<OutsideStreams, frame, late>>

(* Mutant of ReadStatus: the goal seen on the topic is good enough.        *)
ReadStatusNot(s) ==
  /\ Go(s, "status", "write")
  /\ UNCHANGED <<OutsideStreams, frame, late>>

ReadStatus(s) ==
  /\ Go(s, "status", IF status \in {NoStatus, NoGoal} THEN "write" ELSE "again")
  /\ UNCHANGED <<OutsideStreams, frame, late>>

(* tuple(None) raises, and the handler thread with it.                     *)
ReadStatusAgain(s) ==
  /\ Alive /\ stream[s].pc = "again"
  /\ IF status = NoGoal
       THEN End(s)
       ELSE /\ stream' = [stream EXCEPT ![s] = [pc |-> "write", draws |-> status]]
            /\ UNCHANGED late
  /\ UNCHANGED <<OutsideStreams, frame>>

(* The frame reaches the browser, and the handler waits for the event or   *)
(* the interval, whichever is first.                                       *)
Write(s) ==
  /\ Alive /\ stream[s].pc = "write"
  /\ stream' = [stream EXCEPT ![s] = [pc |-> "check", draws |-> NoGoal]]
  /\ frame' = [frame EXCEPT ![s] = stream[s].draws]
  /\ late' = [late EXCEPT ![s] = IF Stopping THEN @ + 1 ELSE @]
  /\ UNCHANGED OutsideStreams

(* A tab that does not read: the write does not return until it is closed. *)
TabHangs(s) ==
  /\ Alive /\ stream[s].pc = "write"
  /\ stream' = [stream EXCEPT ![s] = [pc |-> "hung", draws |-> NoGoal]]
  /\ UNCHANGED <<OutsideStreams, frame, late>>

(* BrokenPipeError, ConnectionResetError: the page is gone.                *)
TabCloses(s) ==
  /\ Alive /\ stream[s].pc \in {"write", "hung"}
  /\ End(s)
  /\ frame' = [frame EXCEPT ![s] = NoGoal]
  /\ UNCHANGED OutsideStreams

StreamRuns(s) ==
  \/ StreamChecks(s) \/ StreamStops(s)
  \/ ReadGoal(s) \/ ReadStatus(s) \/ ReadStatusAgain(s) \/ Write(s)

-----------------------------------------------------------------------------
(* POST /goal.  A request parse_goal_request refuses is answered 400 and   *)
(* changes nothing, so only clicks inside the arena are here.              *)

OutsideClick == <<policy, heard, served, main>>

Click(g) ==
  /\ main \in {"spin", "stop"} /\ click.pc = "idle"
  /\ click' = [pc |-> "publish", goal |-> g]
  /\ UNCHANGED OutsideClick

(* Mutant of PublishGoal: the point in the frame it was clicked in.        *)
PublishGoalWorld ==
  /\ Alive /\ click.pc = "publish"
  /\ \E f \in Foreign : Publish(f)
  /\ click' = [click EXCEPT !.pc = "answer"]
  /\ UNCHANGED <<served, main>>

(* publish_goal stamps the message with the frame the policy node takes.   *)
PublishGoal ==
  /\ Alive /\ click.pc = "publish"
  /\ Publish(click.goal)
  /\ click' = [click EXCEPT !.pc = "answer"]
  /\ UNCHANGED <<served, main>>

Answer ==
  /\ Alive /\ click.pc = "answer"
  /\ click' = [pc |-> "idle", goal |-> NoGoal]
  /\ UNCHANGED OutsideClick

-----------------------------------------------------------------------------
(* The main thread: executor.spin until Ctrl-C or an exception, then       *)
(* MonitorServer.stop (the event, shutdown of the accepting loop, close,   *)
(* join of its thread), then executor.shutdown, then the process ends.     *)

OutsideMain == <<policy, heard, served, click>>
MainGo(from, to) == main = from /\ main' = to /\ UNCHANGED OutsideMain

Interrupt == MainGo("spin", "stop")
ServerShutdown == MainGo("stop", "shut")

(* Mutant of ServerClose: handler threads are joined, not daemons.         *)
ServerCloseJoins ==
  /\ \A s \in Streams : stream[s].pc = "closed"
  /\ MainGo("shut", "close")

(* server_close() does not wait for handlers: they are daemon threads.     *)
ServerClose == MainGo("shut", "close")

ExecutorShutdown == MainGo("close", "down")

Down == main = "down" /\ UNCHANGED vars

MainEnding == ServerShutdown \/ ServerClose \/ ExecutorShutdown

-----------------------------------------------------------------------------
Next ==
  \/ \E g \in Anywhere : OthersPublish(g) \/ PolicyTakesGoal(g)
  \/ PolicyTick \/ \E m \in Messages : Store(m)
  \/ \E s \in Streams : Connect(s) \/ StreamRuns(s) \/ TabHangs(s) \/ TabCloses(s)
  \/ (\E g \in Goals : Click(g)) \/ PublishGoal \/ Answer
  \/ Interrupt \/ MainEnding \/ Down

Spec == Init /\ [][Next]_vars

(* Timers fire, executors run the callbacks they were handed, handler      *)
(* threads run; the main thread, once interrupted, goes on.  Browsers,     *)
(* tabs and other publishers owe nothing.                                  *)
FairSpec ==
  /\ Spec
  /\ \A g \in Anywhere : WF_vars(PolicyTakesGoal(g))
  /\ WF_vars(PolicyTick) /\ \A m \in Messages : WF_vars(Store(m))
  /\ \A s \in Streams : WF_vars(StreamRuns(s))
  /\ WF_vars(PublishGoal) /\ WF_vars(MainEnding)

-----------------------------------------------------------------------------
(* Properties. *)

StreamPcs == {"closed", "check", "goal", "status", "again", "write", "hung"}

TypeOK ==
  /\ publishing \in BOOLEAN
  /\ pursued \in Goals \cup {NoGoal} /\ arriving \subseteq Anywhere
  /\ arrived \subseteq Messages
  /\ goalOdom \in Anywhere \cup {NoGoal}
  /\ status \in Goals \cup {NoGoal, NoStatus}
  /\ stream \in [Streams -> [pc : StreamPcs, draws : Anywhere \cup {NoGoal}]]
  /\ frame \in [Streams -> Anywhere \cup {NoGoal}]
  /\ late \in [Streams -> Nat]
  /\ click \in [pc : {"idle", "publish", "answer"}, goal : Goals \cup {NoGoal}]
  /\ main \in {"spin", "stop", "shut", "close", "down"}

(* Once the stop event is set, a stream writes the frame it is on, if it   *)
(* is on one, and no other (MonitorServer.stop: open streams "finish the   *)
(* frame they are on and return").                                         *)
OneFrameAfterStop == \A s \in Streams : late[s] <= 1

(* While the policy node pursues one goal and says so, every page that is  *)
(* connected and reads comes to draw that goal and no other, whatever it   *)
(* drew before its connection was last lost, whatever was published in     *)
(* foreign frames and in whatever order statuses were stored (telemetry:   *)
(* the status "beats the last one seen on the topic").                     *)
SettledGoalIsDrawn ==
  \A g \in Goals :
    publishing /\ <>[](pursued = g) /\ []Spinning
      => <>[](\A s \in Streams : stream[s].pc \in {"closed", "hung"} \/ frame[s] \in {g, NoGoal})

(* A click is pursued: its goal gets to the policy node in a frame it      *)
(* takes (publish_goal).                                                   *)
ClickIsPursued ==
  \A g \in Goals : (click = [pc |-> "publish", goal |-> g]) ~> (pursued = g \/ Stopping)

(* Ctrl-C returns, whatever tabs are open and whether they read or not     *)
(* (MonitorServer: "Otherwise shutdown blocks on browser tabs").           *)
StopReturns == Stopping ~> (main = "down")
=============================================================================
