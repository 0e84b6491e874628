-------------------------- MODULE MeasurementProofs --------------------------
(***************************************************************************)
(* Proofs about the measurements of a trained policy: the deployment       *)
(* evaluation (DeployEval), for any number of episodes, step budget and    *)
(* deadline, and the report made of the measurements of all runs (Report), *)
(* for any number of runs and algorithms and any traffic on the files.     *)
(***************************************************************************)
EXTENDS DeployEval, Report, FiniteSetTheorems, TLAPS

-----------------------------------------------------------------------------
(* The deployment evaluation.  What the main thread has read stays true    *)
(* while it reads on, because a verdict stands until the next goal.        *)

Phases == Ended \union {"idle", "running"}

Record == [outcome : Phases, stalled : BOOLEAN, steps : 0 .. MaxSteps]

Verdicts == [outcome : Ended \union {"none"}, steps : 0 .. MaxSteps]

EvalOK ==
  /\ phase \in Phases /\ judged \in 0 .. MaxSteps /\ seen \in Seen
  /\ verdicts \in Seq(Verdicts)
  /\ hpc \in {"next", "anchor", "watch", "outcome", "steps", "clear", "done", "failed"}
  /\ elapsed \in 0 .. Deadline + 1 /\ stalled \in BOOLEAN /\ ticking \in BOOLEAN
  /\ rec \in Record /\ results \in Seq(Record) /\ Len(results) <= Episodes

\* Of the control loop: there is one goal more than there are records while an
\* episode is set, and a verdict stands, with its count, as it was passed.
VerdictStands ==
  /\ phase = "running" => judged < MaxSteps
  /\ Len(verdicts) = IF phase = "idle" THEN Len(results) ELSE Len(results) + 1
  /\ phase \in Ended =>
       verdicts[Len(verdicts)] = [outcome |-> phase, steps |-> judged]

Reading == {"steps", "clear"}

\* Of the main thread: an episode is set from set_goal to clear_goal; what was
\* read of an ended one is what the loop still says of it.
WatchIsOver ==
  /\ hpc \in {"watch", "outcome"} \union Reading <=> phase # "idle"
  /\ hpc = "outcome" => phase \in Ended \/ stalled
  /\ hpc \notin {"next", "done", "failed"} => Len(results) < Episodes

RecordFits ==
  hpc \in Reading =>
    /\ rec.outcome \in Ended \/ (rec.outcome = "running" /\ rec.stalled)
    /\ rec.outcome \in Ended => rec.outcome = phase
    /\ rec.outcome \in Ended /\ hpc = "clear" => rec.steps = judged

EvalInv == EvalOK /\ VerdictStands /\ WatchIsOver /\ RecordFits /\ RecordsAreConsistent

LEMMA NoRecordIsRecord == NoRecord \in Record
BY EvalAssumption DEF NoRecord, Record, Phases, Seen

LEMMA InitEval == EvalInit => EvalInv
<1> SUFFICES ASSUME EvalInit PROVE EvalInv
  OBVIOUS
<1>1. EvalOK
  <2>1. Deadline \in Nat /\ MaxSteps \in Nat /\ Episodes \in Nat
    BY EvalAssumption
  <2>2. results \in Seq(Record) /\ Len(results) <= Episodes
    BY <2>1 DEF EvalInit
  <2>3. 0 \in 0 .. MaxSteps /\ 0 \in 0 .. Deadline + 1
    BY <2>1
  <2>4. /\ phase \in Phases /\ judged \in 0 .. MaxSteps /\ seen \in Seen
        /\ verdicts \in Seq(Verdicts) /\ elapsed \in 0 .. Deadline + 1
    BY <2>3 DEF EvalInit, ContractInit, Phases
  <2>5. stalled \in BOOLEAN /\ ticking \in BOOLEAN /\ rec \in Record /\ hpc = "next"
    BY NoRecordIsRecord DEF EvalInit
  <2> QED
    BY <2>2, <2>4, <2>5 DEF EvalOK
<1> QED
  BY <1>1
  DEF EvalInit, ContractInit, EvalInv, VerdictStands, WatchIsOver, RecordFits, Reading,
      RecordsAreConsistent, Ended

(* A step of the control loop or of the clock: a verdict that stands is    *)
(* not touched, and one that is passed comes with its count.               *)
LEMMA LoopKeepsEval ==
  ASSUME EvalInv, TickActs \/ TickLooks \/ TickIsBlind \/ SpinThreadDies \/ Clock
  PROVE  EvalInv'
<1> USE DEF EvalInv
<1>1. /\ UNCHANGED <<hpc, stalled, rec, results>>
      /\ elapsed' \in 0 .. Deadline + 1 /\ ticking' \in BOOLEAN
  <2>1. Deadline \in Nat /\ elapsed \in 0 .. Deadline + 1
    BY EvalAssumption DEF EvalOK
  <2>2. CASE TickActs \/ TickLooks \/ TickIsBlind \/ SpinThreadDies
    BY <2>1, <2>2 DEF TickActs, TickLooks, TickIsBlind, SpinThreadDies, Tick, harness, EvalOK
  <2>3. CASE Clock
    BY <2>1, <2>3 DEF Clock, EvalOK
  <2> QED BY <2>2, <2>3
<1>2. CASE TickActs
  <2>1. /\ phase = "running" /\ seen' \in Seen
        /\ judged' = judged + 1 \/ (judged = 0 /\ judged' = judged)
        /\ phase' = EnvVerdict(seen', judged')
    BY <1>2 DEF TickActs, Judge, JudgeStart
  <2>2. judged \in 0 .. MaxSteps /\ judged < MaxSteps /\ MaxSteps \in Nat \ {0}
    BY <2>1, EvalAssumption DEF EvalOK, VerdictStands
  <2>3. judged' \in 0 .. MaxSteps
    BY <2>1, <2>2
  <2>4. phase' \in Ended \union {"running"}
    BY <2>1 DEF EnvVerdict, Ended
  <2> DEFINE last == Len(verdicts)
             passed == [outcome |-> phase', steps |-> judged']
  <2>5. /\ last = Len(results) + 1 /\ last \in 1 .. Len(verdicts)
        /\ verdicts \in Seq(Verdicts) /\ Len(results) \in Nat
    BY <2>1 DEF VerdictStands, EvalOK
  <2>6. verdicts' = IF phase' \in Ended THEN [verdicts EXCEPT ![last] = passed] ELSE verdicts
    BY <1>2 DEF TickActs
  <2>7. phase' \in Ended => passed \in Verdicts
    BY <2>3 DEF Verdicts
  <2> HIDE DEF last, passed
  <2>8. /\ verdicts' \in Seq(Verdicts) /\ Len(verdicts') = last
        /\ \A i \in 1 .. Len(results) : verdicts'[i] = verdicts[i]
        /\ phase' \in Ended => verdicts'[last] = passed
    <3>1. CASE phase' \notin Ended
      BY <2>5, <2>6, <3>1 DEF last
    <3>2. CASE phase' \in Ended
      BY <2>5, <2>6, <2>7, <3>2 DEF last
    <3> QED BY <3>1, <3>2
  <2>9. phase' = "running" => judged' < MaxSteps
    BY <2>1, <2>2, <2>3 DEF EnvVerdict
  <2>10. VerdictStands'
    BY <1>1, <2>4, <2>5, <2>8, <2>9 DEF VerdictStands, Ended, passed
  <2>11. EvalOK'
    BY <1>1, <2>1, <2>3, <2>4, <2>8 DEF EvalOK, Phases
  <2>12. WatchIsOver' /\ RecordFits'
    BY <1>1, <2>1, <2>4 DEF WatchIsOver, RecordFits, Reading, Ended
  <2>13. RecordsAreConsistent'
    BY <1>1, <2>5, <2>8 DEF RecordsAreConsistent, EvalOK
  <2> QED BY <2>10, <2>11, <2>12, <2>13
<1>3. CASE TickLooks \/ TickIsBlind \/ SpinThreadDies \/ Clock
  <2>1. UNCHANGED <<phase, judged, verdicts>> /\ seen' \in Seen
    BY <1>3
    DEF TickLooks, TickIsBlind, SpinThreadDies, Clock, Look, contractVars, EvalOK
  <2> QED
    BY <1>1, <2>1
    DEF EvalOK, VerdictStands, WatchIsOver, RecordFits, RecordsAreConsistent
<1> QED BY <1>2, <1>3

(* A step of the main thread.                                              *)
LEMMA MainKeepsEval ==
  ASSUME EvalInv, MainThread
  PROVE  EvalInv'
<1> USE DEF EvalInv
<1>1. Deadline \in Nat /\ MaxSteps \in Nat \ {0}
  BY EvalAssumption
<1>2. CASE StartEpisode
  <2>1. /\ hpc = "next" /\ hpc' = "anchor" /\ Len(results) < Episodes
        /\ phase' = "idle" /\ judged' = 0
        /\ UNCHANGED <<seen, elapsed, stalled, rec, results, ticking, verdicts>>
    BY <1>2 DEF StartEpisode, Abandon
  <2>2. phase = "idle"
    BY <2>1 DEF WatchIsOver, Reading
  <2>3. EvalOK'
    BY <1>1, <2>1 DEF EvalOK, Phases
  <2>4. VerdictStands'
    BY <2>1, <2>2 DEF VerdictStands, Ended
  <2>5. WatchIsOver' /\ RecordFits'
    BY <2>1 DEF WatchIsOver, RecordFits, Reading
  <2>6. RecordsAreConsistent'
    BY <2>1 DEF RecordsAreConsistent, Consistent
  <2> QED BY <2>3, <2>4, <2>5, <2>6
<1>3. CASE AnchorFails \/ SeeEnd \/ GiveUp \/ Finish
  <2>1. UNCHANGED <<elapsed, rec, results, loop>> /\ stalled' \in BOOLEAN
    BY <1>3 DEF AnchorFails, SeeEnd, GiveUp, Finish, EvalOK
  <2>2. \/ hpc = "watch" /\ hpc' = "outcome" /\ (phase \in Ended \/ stalled')
        \/ hpc \in {"next", "anchor"} /\ hpc' \in {"failed", "done"}
    BY <1>3 DEF AnchorFails, SeeEnd, GiveUp, Finish
  <2> QED
    BY <2>1, <2>2
    DEF loop, contractVars, EvalOK, VerdictStands, WatchIsOver, RecordFits, Reading,
        RecordsAreConsistent
<1>4. CASE SetGoal
  <2>1. /\ hpc = "anchor" /\ hpc' = "watch" /\ phase' = "running" /\ judged' = 0
        /\ elapsed' = 0 /\ stalled' = FALSE
        /\ verdicts' = Append(verdicts, NoVerdict)
        /\ UNCHANGED <<seen, rec, results, ticking>>
    BY <1>4 DEF SetGoal, Begin
  <2>2. /\ 0 \in 0 .. Deadline + 1 /\ 0 \in 0 .. MaxSteps /\ 0 < MaxSteps
        /\ Len(results) < Episodes /\ phase = "idle" /\ Len(verdicts) = Len(results)
    BY <1>1, <2>1 DEF WatchIsOver, VerdictStands, Reading
  <2>3. NoVerdict \in Verdicts
    BY <1>1 DEF NoVerdict, Verdicts
  <2>4. /\ verdicts' \in Seq(Verdicts) /\ Len(verdicts') = Len(results) + 1
        /\ \A i \in 1 .. Len(results) : verdicts'[i] = verdicts[i]
    BY <2>1, <2>2, <2>3 DEF EvalOK
  <2>5. EvalOK'
    BY <2>1, <2>2, <2>4 DEF EvalOK, Phases
  <2>6. RecordsAreConsistent'
    BY <2>1, <2>4 DEF RecordsAreConsistent, EvalOK
  <2> QED
    BY <2>1, <2>2, <2>4, <2>5, <2>6 DEF VerdictStands, WatchIsOver, RecordFits, Reading, Ended
<1>5. CASE ReadOutcome
  <2>1. /\ hpc = "outcome" /\ hpc' = "steps" /\ UNCHANGED <<elapsed, stalled, results, loop>>
        /\ rec' = [outcome |-> phase, stalled |-> stalled, steps |-> 0]
    BY <1>5 DEF ReadOutcome
  <2>2. phase # "idle" /\ (phase \in Ended \/ stalled)
    BY <2>1 DEF WatchIsOver
  <2>3. EvalOK'
    BY <1>1, <2>1 DEF EvalOK, Record, loop, contractVars
  <2>4. RecordFits'
    BY <2>1, <2>2 DEF RecordFits, EvalOK, Phases, Ended, loop, contractVars
  <2> QED
    BY <2>1, <2>2, <2>3, <2>4
    DEF VerdictStands, WatchIsOver, Reading, RecordsAreConsistent, loop, contractVars
<1>6. CASE ReadSteps
  <2>1. PICK n \in Counts : rec' = [rec EXCEPT !.steps = n]
    BY <1>6 DEF ReadSteps
  <2>2. hpc = "steps" /\ hpc' = "clear" /\ UNCHANGED <<elapsed, stalled, results, loop>>
    BY <1>6 DEF ReadSteps
  <2>3. n \in 0 .. MaxSteps /\ (phase # "running" => n = judged)
    BY <1>1 DEF Counts, EvalOK
  <2>4. /\ rec'.outcome = rec.outcome /\ rec'.stalled = rec.stalled
        /\ rec'.steps = n /\ rec' \in Record
    BY <2>1, <2>3 DEF EvalOK, Record
  <2>5. EvalOK'
    BY <2>2, <2>4 DEF EvalOK, loop, contractVars
  <2>6. RecordFits'
    BY <2>2, <2>3, <2>4 DEF RecordFits, Reading, VerdictStands, Ended, loop, contractVars
  <2> QED
    BY <2>2, <2>5, <2>6
    DEF VerdictStands, WatchIsOver, Reading, RecordsAreConsistent, loop, contractVars
<1>7. CASE ClearGoal
  <2>1. /\ hpc = "clear" /\ hpc' = "next" /\ phase' = "idle" /\ judged' = 0
        /\ UNCHANGED <<elapsed, stalled, seen, ticking, verdicts>>
        /\ results' = Append(results, rec) /\ rec' = NoRecord
    BY <1>7 DEF ClearGoal, Abandon
  <2>2. /\ phase # "idle" /\ Len(verdicts) = Len(results) + 1
        /\ Len(results) \in Nat /\ verdicts \in Seq(Verdicts)
    BY <2>1 DEF WatchIsOver, VerdictStands, Reading, EvalOK
  <2>3. Consistent(rec, verdicts[Len(results) + 1])
    BY <2>1, <2>2 DEF RecordFits, Reading, Consistent, VerdictStands, Ended
  <2>4. RecordsAreConsistent'
    <3>1. \A i \in DOMAIN results' : \/ i = Len(results) + 1 /\ results'[i] = rec
                                     \/ i \in DOMAIN results /\ results'[i] = results[i]
      BY <2>1, <2>2 DEF EvalOK
    <3>2. \A i \in DOMAIN results' : Consistent(results'[i], verdicts[i])
      BY <2>3, <3>1 DEF RecordsAreConsistent
    <3> QED BY <2>1, <3>2 DEF RecordsAreConsistent, Consistent
  <2>5. Len(results') = Len(results) + 1 /\ Len(results) + 1 <= Episodes
    BY <2>1, EvalAssumption DEF EvalOK, WatchIsOver
  <2>6. EvalOK'
    BY <1>1, <2>1, <2>5, NoRecordIsRecord DEF EvalOK, Phases
  <2> QED
    BY <2>1, <2>2, <2>4, <2>5, <2>6 DEF VerdictStands, WatchIsOver, RecordFits, Reading, Ended
<1> QED
  BY <1>2, <1>3, <1>4, <1>5, <1>6, <1>7 DEF MainThread

LEMMA NextEval == EvalInv /\ [EvalNext]_evalVars => EvalInv'
<1> SUFFICES ASSUME EvalInv, [EvalNext]_evalVars PROVE EvalInv'
  OBVIOUS
<1>1. CASE Over \/ UNCHANGED evalVars
  BY <1>1
  DEF Over, evalVars, harness, loop, contractVars, EvalInv, EvalOK, VerdictStands, WatchIsOver,
      RecordFits, RecordsAreConsistent
<1> QED
  BY <1>1, LoopKeepsEval, MainKeepsEval DEF EvalNext

LEMMA EvalInvariance == EvalSpec => []EvalInv
BY InitEval, NextEval, PTL DEF EvalSpec

(* Every variable keeps its type; the count never passes the step budget,  *)
(* however late the main thread looks.                                     *)
THEOREM EvalTyped == EvalSpec => []EvalOK
<1>1. EvalInv => EvalOK
  BY DEF EvalInv
<1> QED BY <1>1, EvalInvariance, PTL

(* However ticks fall between the reads of the main thread, and whether or *)
(* not the control loop lives: a record is the verdict on its episode with *)
(* the count at that verdict, or says that the deadline cut it off.        *)
THEOREM RecordsTellOneStory == EvalSpec => []RecordsAreConsistent
<1>1. EvalInv => RecordsAreConsistent
  BY DEF EvalInv
<1> QED BY <1>1, EvalInvariance, PTL

(* Without a warning, the episodes reported as timeouts are those that ran *)
(* out of steps, for any number of episodes.                               *)
THEOREM RatesAreHonest == EvalSpec => []RatesTrustedUnlessWarned
<1>1. EvalInv => RatesTrustedUnlessWarned
  <2> SUFFICES ASSUME RecordsAreConsistent, \A i \in DOMAIN results : ~results[i].stalled
               PROVE  {i \in DOMAIN results : Neither(results[i])}
                        = {i \in DOMAIN results : results[i].outcome = "timeout"}
    BY DEF EvalInv, RatesTrustedUnlessWarned, TimeoutsReported
  <2>1. \A i \in DOMAIN results : results[i].outcome \in Ended
    BY DEF RecordsAreConsistent, Consistent
  <2> QED
    BY <2>1 DEF Neither, Succeeded, Collided, Ended
<1> QED BY <1>1, EvalInvariance, PTL

-----------------------------------------------------------------------------
(* The report.                                                             *)


Files == Measurement \union {Absent, Torn}

\* eval.json never goes away again, and what has been read of it is not None
\* if it existed at the start.
NothingMissed ==
  /\ \A r \in begun : eval[r] # Absent
  /\ \A r \in begun : r <= Len(evals) => evals[r] # Absent

ReadAll == pc \in {"tables", "splicing"} => Len(evals) = NumRuns /\ Len(gaps) = NumRuns

ReportInv == TypeOK /\ NothingMissed /\ ReadAll /\ TablesAgree

LEMMA InitReport == Init => ReportInv
<1> SUFFICES ASSUME Init PROVE ReportInv
  OBVIOUS
<1>1. TypeOK
  BY ReportAssumption DEF Init, TypeOK
<1>2. NothingMissed /\ ReadAll
  BY DEF Init, NothingMissed, ReadAll
<1>3. TablesAgree
  BY DEF Init, TablesAgree, Placeholders, NoCell
<1> QED BY <1>1, <1>2, <1>3 DEF ReportInv

-----------------------------------------------------------------------------
(* What a cell says.  One that is not marked as partial rests on everyone. *)
LEMMA CellIsHonest ==
  ASSUME NEW asked \in SUBSET Runs, NEW over \in SUBSET asked,
         Cell(over, asked).mark \in {"one", "plain"}
  PROVE  Cell(over, asked).over = asked
<1>1. IsFiniteSet(Runs)
  BY ReportAssumption, FS_Interval DEF Runs
<1>2. IsFiniteSet(asked)
  BY <1>1, FS_Subset
<1>3. /\ IsFiniteSet(over) /\ Cardinality(over) <= Cardinality(asked)
      /\ Cardinality(over) = Cardinality(asked) => over = asked
  BY <1>2, FS_Subset
<1>4. Cardinality(over) \in Nat /\ Cardinality(asked) \in Nat
  BY <1>2, <1>3, FS_CardinalityType
<1>5. Cardinality(over) = Cardinality(asked)
  BY <1>3, <1>4 DEF Cell
<1> QED BY <1>3, <1>5 DEF Cell

\* The state in which both tables are made.
LEMMA TablesAreOfAll ==
  ASSUME ReportInv, pc = "splicing"
  PROVE  /\ \A r \in begun :
              LET row == ResultsTable[algorithm[r]] IN
                /\ r \in row.seeds
                /\ \A cell \in {row.rate, row.path} :
                      cell.mark \in {"one", "plain"} => r \in cell.over
         /\ \A r \in Paired : r \in ResultsTable[algorithm[r]].seeds
         /\ GapTable.sync.over = Paired /\ GapTable.free.over = Paired
<1>1. begun \subseteq Scored
  <2> SUFFICES ASSUME NEW r \in begun PROVE r \in Scored
    OBVIOUS
  <2>1. r \in Runs /\ Len(evals) = NumRuns
    BY DEF ReportInv, TypeOK, ReadAll
  <2>2. r <= Len(evals)
    BY <2>1, ReportAssumption DEF Runs
  <2> QED BY <2>1, <2>2 DEF ReportInv, NothingMissed, Scored
<1>2. \A r \in Scored : algorithm[r] \in Algorithms /\ r \in ResultsTable[algorithm[r]].seeds
  BY DEF Scored, ReportInv, TypeOK, ResultsTable, Row
<1>3. ASSUME NEW r \in begun, NEW cell \in {ResultsTable[algorithm[r]].rate,
                                             ResultsTable[algorithm[r]].path},
             cell.mark \in {"one", "plain"}
      PROVE  r \in cell.over
  <2> DEFINE seeds == {q \in Scored : algorithm[q] = algorithm[r]}
             solved == {q \in seeds : evals[q].solved}
  <2>1. r \in Scored /\ r \in seeds /\ algorithm[r] \in Algorithms
    BY <1>1, <1>2
  <2>2. seeds \in SUBSET Runs /\ solved \in SUBSET seeds /\ seeds \in SUBSET seeds
    BY DEF Scored
  <2>3. \/ cell = Cell(seeds, seeds)
        \/ cell = Cell(solved, seeds)
    BY <2>1 DEF ResultsTable, Row
  <2> HIDE DEF seeds, solved
  <2>4. cell.over = seeds
    BY <1>3, <2>2, <2>3, CellIsHonest
  <2> QED BY <2>1, <2>4
<1>4. Paired \subseteq Scored
  BY DEF Paired
<1>5. GapTable.sync.over = Paired /\ GapTable.free.over = Paired
  BY DEF GapTable, Cell
<1> QED BY <1>1, <1>2, <1>3, <1>4, <1>5

-----------------------------------------------------------------------------
LEMMA WritersKeep ==
  ASSUME ReportInv, NEW r \in Runs,
         WriteEval(r) \/ EvalWritten(r) \/ WriteGap(r) \/ GapWritten(r)
  PROVE  ReportInv' /\ readme' = readme
<1> USE DEF ReportInv
<1>1. UNCHANGED <<algorithm, marked, pc, evals, gaps, begun, readme>>
  BY DEF WriteEval, EvalWritten, WriteGap, GapWritten
<1>2. /\ eval' \in [Runs -> Measurement \union {Absent, Torn}]
      /\ \A q \in Runs : eval[q] # Absent => eval'[q] # Absent
  BY ReportAssumption DEF TypeOK, WriteEval, EvalWritten, WriteGap, GapWritten
<1>3. gap' \in [Runs -> {"rates", Absent, Torn}]
  BY DEF TypeOK, WriteEval, EvalWritten, WriteGap, GapWritten
<1>4. TypeOK' /\ NothingMissed'
  BY <1>1, <1>2, <1>3 DEF TypeOK, NothingMissed
<1> QED BY <1>1, <1>4 DEF ReadAll, TablesAgree

LEMMA ReadersKeep ==
  ASSUME ReportInv, BeginReport \/ ReadEval \/ ReadGap \/ Discovered \/ Raises
  PROVE  ReportInv' /\ readme' = readme
<1> USE DEF ReportInv
<1>1. UNCHANGED <<algorithm, eval, gap, marked, readme>>
  BY DEF BeginReport, ReadEval, ReadGap, Discovered, Raises, files
<1>2. CASE BeginReport
  <2>1. /\ evals' = <<>> /\ gaps' = <<>> /\ pc' = "reading"
        /\ begun' = {r \in Runs : eval[r] # Absent}
    BY <1>2 DEF BeginReport
  <2>2. \A r \in begun' : ~(r <= Len(evals'))
    BY <2>1 DEF Runs
  <2>3. TypeOK'
    BY <1>1, <2>1, ReportAssumption DEF TypeOK
  <2> QED BY <1>1, <2>1, <2>2, <2>3 DEF NothingMissed, ReadAll, TablesAgree
<1>3. CASE ReadEval
  <2> DEFINE value == eval[Len(evals) + 1]
  <2>1. /\ Len(evals) < NumRuns /\ value # Torn /\ evals' = Append(evals, value)
        /\ pc = "reading" /\ UNCHANGED <<pc, gaps, begun>>
    BY <1>3 DEF ReadEval, Value
  <2>2. /\ Len(evals) \in Nat /\ Len(evals) + 1 \in Runs
        /\ Len(gaps) \in Nat
    BY <2>1, ReportAssumption DEF TypeOK, Runs
  <2>3. value \in Measurement \union {Absent}
    BY <2>1, <2>2 DEF TypeOK
  <2> HIDE DEF value
  <2>4. /\ evals' \in Seq(Measurement \union {Absent}) /\ Len(evals') = Len(evals) + 1
        /\ evals'[Len(evals) + 1] = value
        /\ \A i \in 1 .. Len(evals) : evals'[i] = evals[i]
    BY <2>1, <2>3 DEF TypeOK
  <2>5. Len(gaps') <= Len(evals') /\ Len(evals') <= NumRuns
    BY <2>1, <2>2, <2>4, ReportAssumption DEF TypeOK
  <2>6. \A r \in begun : r <= Len(evals') => evals'[r] # Absent
    <3> SUFFICES ASSUME NEW r \in begun, r <= Len(evals') PROVE evals'[r] # Absent
      OBVIOUS
    <3>0. r \in Nat
      BY ReportAssumption DEF TypeOK, Runs
    <3>1. r >= 1 /\ (r <= Len(evals) \/ r = Len(evals) + 1)
      <4>1. r \in Runs
        BY DEF TypeOK
      <4>2. r >= 1
        BY <4>1, ReportAssumption DEF Runs
      <4>3. r <= Len(evals) + 1
        BY <2>4
      <4> QED BY <2>2, <3>0, <4>2, <4>3
    <3>2. CASE r <= Len(evals)
      BY <2>2, <2>4, <3>0, <3>1, <3>2 DEF NothingMissed
    <3>3. CASE r = Len(evals) + 1
      BY <2>4, <3>3 DEF NothingMissed, value
    <3> QED BY <3>1, <3>2, <3>3
  <2> QED
    BY <1>1, <2>1, <2>4, <2>5, <2>6 DEF TypeOK, NothingMissed, ReadAll, TablesAgree
<1>4. CASE ReadGap
  <2> DEFINE value == gap[Len(gaps) + 1]
  <2>1. /\ Len(gaps) < Len(evals) /\ value # Torn /\ gaps' = Append(gaps, value)
        /\ pc = "reading" /\ UNCHANGED <<pc, evals, begun>>
    BY <1>4 DEF ReadGap, Value
  <2>2. /\ Len(gaps) \in Nat /\ Len(evals) \in Nat /\ Len(gaps) + 1 \in Runs
    BY <2>1, ReportAssumption DEF TypeOK, Runs
  <2>3. value \in {"rates", Absent}
    BY <2>1, <2>2 DEF TypeOK
  <2> HIDE DEF value
  <2>4. gaps' \in Seq({"rates", Absent}) /\ Len(gaps') = Len(gaps) + 1
    BY <2>1, <2>3 DEF TypeOK
  <2>5. Len(gaps') <= Len(evals')
    BY <2>1, <2>2, <2>4
  <2> QED
    BY <1>1, <2>1, <2>4, <2>5 DEF TypeOK, NothingMissed, ReadAll, TablesAgree
<1>5. CASE Discovered
  <2>1. /\ pc' = "tables" /\ Len(gaps) = NumRuns /\ UNCHANGED <<evals, gaps, begun>>
    BY <1>5 DEF Discovered
  <2>2. Len(evals) = NumRuns
    BY <2>1, ReportAssumption DEF TypeOK
  <2> QED BY <1>1, <2>1, <2>2 DEF TypeOK, NothingMissed, ReadAll, TablesAgree
<1>6. CASE Raises
  <2>1. pc' = "idle" /\ evals' = <<>> /\ gaps' = <<>> /\ begun' = {}
    BY <1>6 DEF Raises, Ends
  <2> QED BY <1>1, <2>1, ReportAssumption DEF TypeOK, NothingMissed, ReadAll, TablesAgree
<1> QED BY <1>2, <1>3, <1>4, <1>5, <1>6

Dropping ==
  readme' # readme /\ readme' \notin {Torn, Placeholders} =>
    \A r \in begun :
       LET row == readme'.results[algorithm[r]] IN
          /\ r \in row.seeds
          /\ \A cell \in {row.rate, row.path} :
                cell.mark \in {"one", "plain"} => r \in cell.over

LEMMA PublishingKeeps ==
  ASSUME ReportInv, Splice \/ Written \/ Restore
  PROVE  ReportInv' /\ Dropping
<1> USE DEF ReportInv
<1>1. UNCHANGED files
  BY DEF Splice, Written, Restore
<1>2. CASE Splice
  BY <1>1, <1>2 DEF Splice, files, TypeOK, NothingMissed, ReadAll, TablesAgree, Dropping
<1>3. CASE Written
  <2>1. /\ pc = "splicing" /\ pc' = "idle" /\ evals' = <<>> /\ gaps' = <<>> /\ begun' = {}
        /\ readme' = [results |-> ResultsTable, gap |-> GapTable]
    BY <1>3 DEF Written, Ends
  <2>2. Dropping
    BY <2>1, TablesAreOfAll DEF Dropping
  <2>3. TablesAgree'
    <3>1. readme'.results = ResultsTable /\ readme'.gap = GapTable /\ algorithm' = algorithm
      BY <1>1, <2>1 DEF files
    <3> QED BY <2>1, <3>1, TablesAreOfAll DEF TablesAgree
  <2> QED
    BY <1>1, <2>1, <2>2, <2>3, ReportAssumption DEF files, TypeOK, NothingMissed, ReadAll
<1>4. CASE Restore
  BY <1>1, <1>4
  DEF Restore, files, TypeOK, NothingMissed, ReadAll, TablesAgree, Placeholders, NoCell, Dropping
<1> QED BY <1>2, <1>3, <1>4

LEMMA NextReport ==
  ASSUME ReportInv, [Next]_vars
  PROVE  ReportInv' /\ Dropping
<1>1. CASE UNCHANGED vars
  BY <1>1
  DEF vars, files, ReportInv, TypeOK, NothingMissed, ReadAll, TablesAgree, Dropping
<1> QED
  BY <1>1, WritersKeep, ReadersKeep, PublishingKeeps DEF Next, ReportNext, Dropping

(* Type correctness; in particular a torn file is never read as a value.   *)
THEOREM Typed == Spec => []TypeOK
<1>1. ReportInv /\ [Next]_vars => ReportInv'
  BY NextReport
<1>2. ReportInv => TypeOK
  BY DEF ReportInv
<1> QED BY <1>1, <1>2, InitReport, PTL DEF Spec

(* A published table has every seed that had results when the report       *)
(* began, in every cell that does not say otherwise.                       *)
THEOREM SeedsStay == Spec => NoSeedIsDropped
<1>1. ReportInv /\ [Next]_vars => ReportInv' /\ [Dropping]_vars
  BY NextReport
<1> QED BY <1>1, InitReport, PTL DEF Spec, NoSeedIsDropped, Dropping

(* The gap is averaged over the same seeds, all of which the table shows.  *)
THEOREM GapIsPaired == Spec => []TablesAgree
<1>1. ReportInv /\ [Next]_vars => ReportInv'
  BY NextReport
<1>2. ReportInv => TablesAgree
  BY DEF ReportInv
<1> QED BY <1>1, <1>2, InitReport, PTL DEF Spec
=============================================================================
