-------------------------------- MODULE Report --------------------------------
(***************************************************************************)
(* report.py's main(): it reads eval.json and gap.json of one run after    *)
(* the other, tabulates them and splices both tables into the README,      *)
(* while evaluate.py and deploy_eval.py are still writing such files and   *)
(* may be killed at it ("while a run is in progress", report.py:53-55).    *)
(*                                                                         *)
(* A file is truncated when it is opened and complete later, or never.     *)
(* Of the metrics only what decides a cell's wording is kept: whether the  *)
(* run solved any episode, for without one its path metrics are NaN; its   *)
(* rates are always numbers, and of gap.json nothing else is used.  A cell *)
(* is the set of runs it averages over and its mark.                       *)
(***************************************************************************)
EXTENDS Naturals, Sequences, FiniteSets

CONSTANTS
    NumRuns,        \* directories runs/<algo>-seed<n>, in the order of their names
    Algorithms,     \* sac and ppo
    Absent, Torn    \* a file that is not there; one whose writing was cut off

Runs == 1 .. NumRuns
Sections == {"RESULTS", "GAP"}
Measurement == [solved : BOOLEAN]

ASSUME ReportAssumption ==
    /\ NumRuns \in Nat
    /\ {Absent, Torn} \intersect (Measurement \union {"rates"}) = {} /\ Absent # Torn

VARIABLES
    algorithm,  \* of each run, from its directory's name
    eval,       \* eval.json of each run
    gap,        \* gap.json of each run
    pc,         \* where main() is
    evals,      \* what it has read, run by run
    gaps,
    begun,      \* history: runs whose eval.json existed when it began
    marked,     \* sections the README has both markers of, in order
    readme      \* Torn, or its two tables

files == <<algorithm, eval, gap, marked>>
vars == <<files, pc, evals, gaps, begun, readme>>

-----------------------------------------------------------------------------
(* evaluate.py and deploy_eval.py, for any run and as often as they like.  *)

\* path.write_text: open() truncates ...
WriteEval(r) ==
    /\ eval' = [eval EXCEPT ![r] = Torn]
    /\ UNCHANGED <<algorithm, gap, marked, pc, evals, gaps, begun, readme>>

\* ... and what it then writes are the metrics of the episodes played.
EvalWritten(r) ==
    /\ eval[r] = Torn
    /\ \E m \in Measurement : eval' = [eval EXCEPT ![r] = m]
    /\ UNCHANGED <<algorithm, gap, marked, pc, evals, gaps, begun, readme>>

\* deploy_eval reads a baseline it was given when the measurement is over; one
\* that is absent or torn raises, and the measurement is lost.
WriteGap(r) ==
    /\ gap' = [gap EXCEPT ![r] = Torn]
    /\ UNCHANGED <<algorithm, eval, marked, pc, evals, gaps, begun, readme>>

GapWritten(r) ==
    /\ gap[r] = Torn
    /\ gap' = [gap EXCEPT ![r] = "rates"]
    /\ UNCHANGED <<algorithm, eval, marked, pc, evals, gaps, begun, readme>>

-----------------------------------------------------------------------------
(* report.py: discover(). *)

BeginReport ==
    /\ pc = "idle" /\ pc' = "reading"
    /\ evals' = <<>> /\ gaps' = <<>>
    /\ begun' = {r \in Runs : eval[r] # Absent}
    /\ UNCHANGED <<files, readme>>

\* Mutant of Value: malformed is None too.
ValueOrNone(file) == IF file = Torn THEN Absent ELSE file

\* _read_metrics: absent is None, malformed raises.
Value(file) == file

ReadEval ==
    /\ pc = "reading" /\ Len(evals) = Len(gaps) /\ Len(evals) < NumRuns
    /\ LET value == Value(eval[Len(evals) + 1]) IN
          /\ value # Torn
          /\ evals' = Append(evals, value)
    /\ UNCHANGED <<files, pc, gaps, begun, readme>>

ReadGap ==
    /\ pc = "reading" /\ Len(gaps) < Len(evals)
    /\ LET value == Value(gap[Len(gaps) + 1]) IN
          /\ value # Torn
          /\ gaps' = Append(gaps, value)
    /\ UNCHANGED <<files, pc, evals, begun, readme>>

Discovered ==
    /\ pc = "reading" /\ Len(gaps) = NumRuns
    /\ pc' = "tables"
    /\ UNCHANGED <<files, evals, gaps, begun, readme>>

Ends == evals' = <<>> /\ gaps' = <<>> /\ begun' = {}

\* An exception: a torn file, a marker that is missing; or somebody stops it.
Raises ==
    /\ pc # "idle" /\ pc' = "idle"
    /\ Ends
    /\ UNCHANGED <<files, readme>>

-----------------------------------------------------------------------------
(* The tables. *)

\* What the README shows before there is anything to show.
NoCell == [over |-> {}, mark |-> "none"]
Placeholders ==
    [results |-> [a \in Algorithms |-> [seeds |-> {}, rate |-> NoCell, path |-> NoCell]],
     gap     |-> [sync |-> NoCell, free |-> NoCell]]

Scored == {r \in Runs : evals[r] # Absent}
\* Mutant of Paired: deployed is enough.
PairedByGap == {r \in Runs : gaps[r] # Absent}

\* discover keeps a run with either file; the gap needs both.
Paired == {r \in Scored : gaps[r] # Absent}

\* aggregate: a mean over the finite values, and out of how many.  format_cell:
\* the cell says so when some were not.
Cell(over, asked) ==
    LET n == Cardinality(over)
        total == Cardinality(asked)
    IN  [over |-> over,
         mark |-> IF n = 0 THEN "none" ELSE IF total = 1 THEN "one"
                  ELSE IF n # total THEN "partial" ELSE "plain"]

Row(a) ==
    LET seeds == {r \in Scored : algorithm[r] = a}
    IN  [seeds |-> seeds,
         rate  |-> Cell(seeds, seeds),
         path  |-> Cell({r \in seeds : evals[r].solved}, seeds)]

ResultsTable == [a \in Algorithms |-> Row(a)]

GapTable == [sync |-> Cell(Paired, Paired), free |-> Cell(Paired, Paired)]

\* A marker that is missing, as in a README that was cut off, raises.
HasMarkers == marked = Sections /\ readme # Torn

\* Both tables go into the text before the file is touched.
Splice ==
    /\ pc = "tables" /\ HasMarkers
    /\ pc' = "splicing" /\ readme' = Torn
    /\ UNCHANGED <<files, evals, gaps, begun>>

Written ==
    /\ pc = "splicing" /\ pc' = "idle"
    /\ readme' = [results |-> ResultsTable, gap |-> GapTable]
    /\ Ends
    /\ UNCHANGED files

\* Somebody restores the README from the repository.
Restore ==
    /\ pc = "idle" /\ readme = Torn
    /\ readme' = Placeholders
    /\ UNCHANGED <<files, pc, evals, gaps, begun>>

Init ==
    /\ algorithm \in [Runs -> Algorithms]
    /\ eval = [r \in Runs |-> Absent] /\ gap = [r \in Runs |-> Absent]
    /\ marked \in SUBSET Sections
    /\ pc = "idle" /\ evals = <<>> /\ gaps = <<>> /\ begun = {}
    /\ readme = Placeholders

ReportNext ==
    \/ BeginReport \/ ReadEval \/ ReadGap \/ Discovered
    \/ Splice \/ Written \/ Raises

Next ==
    \/ ReportNext \/ Restore
    \/ \E r \in Runs : WriteEval(r) \/ EvalWritten(r) \/ WriteGap(r) \/ GapWritten(r)

Spec == Init /\ [][Next]_vars

-----------------------------------------------------------------------------
(* Properties. *)

TypeOK ==
    /\ algorithm \in [Runs -> Algorithms] /\ marked \subseteq Sections
    /\ eval \in [Runs -> Measurement \union {Absent, Torn}]
    /\ gap \in [Runs -> {"rates", Absent, Torn}]
    /\ pc \in {"idle", "reading", "tables", "splicing"}
    /\ evals \in Seq(Measurement \union {Absent}) /\ gaps \in Seq({"rates", Absent})
    /\ Len(gaps) <= Len(evals) /\ Len(evals) <= NumRuns
    /\ begun \subseteq Runs

(***************************************************************************)
(* "A truncated eval.json from an interrupted run must not silently drop a *)
(* seed out of the average" (report.py:85-88): every run that had an       *)
(* eval.json when the report began counts in its row, and in every cell of *)
(* that row that does not say it rests on fewer, whatever the evaluations  *)
(* write or leave behind while the files are being read.                   *)
(***************************************************************************)
NoSeedIsDropped ==
    [][ readme' # readme /\ readme' \notin {Torn, Placeholders} =>
          \A r \in begun :
             LET row == readme'.results[algorithm[r]] IN
                /\ r \in row.seeds
                /\ \A cell \in {row.rate, row.path} :
                      cell.mark \in {"one", "plain"} => r \in cell.over ]_vars

(***************************************************************************)
(* The gap is averaged "over the same seeds" (report.py:276-281), and over *)
(* seeds the table above it shows: whatever was deployed without having    *)
(* been evaluated, and however often a report failed half way.             *)
(***************************************************************************)
TablesAgree ==
    readme # Torn =>
        /\ readme.gap.sync.over = readme.gap.free.over
        /\ \A r \in readme.gap.sync.over : r \in readme.results[algorithm[r]].seeds
=============================================================================
