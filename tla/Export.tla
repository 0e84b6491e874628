-------------------------------- MODULE Export --------------------------------
(***************************************************************************)
(* export_policy.py over the run directory of TrainingRun: a saved model   *)
(* becomes policy.pt, the file the robot runs, if its observation          *)
(* statistics can be accounted for.                                        *)
(*                                                                         *)
(* Whether a training normalises observations is hyperparams.NORMALIZE_OBS *)
(* and does not change between programs.  A pickle is whether its wrapper  *)
(* normalised observations; the wrapper of the run's own directory did if  *)
(* the setting says so, one from elsewhere may not agree.                  *)
(***************************************************************************)
EXTENDS TrainingRun

CONSTANTS
    Settings,       \* values of hyperparams.NORMALIZE_OBS considered
    None            \* no pickle; no statistics

ASSUME ExportAssumption ==
    /\ Settings \subseteq BOOLEAN
    /\ None \notin BOOLEAN

VARIABLES
    normalize,  \* hyperparams.NORMALIZE_OBS
    job,        \* the export in progress: where it is, and of what kind
    policy      \* policy.pt: Absent, Torn, or the kind of its export

allVars == <<vars, normalize, job, policy>>

\* How an export is set up: are statistics part of the module, and was
\* --tolerance raised above anything the two computations differ by?  (A lower
\* one than the default only refuses more.)
Kind == [baked : BOOLEAN, loose : BOOLEAN]

NoJob == [at |-> "none", kind |-> [baked |-> FALSE, loose |-> FALSE]]

ExportOK ==
    /\ RunOK
    /\ normalize \in Settings
    /\ job \in [at : {"none", "traced", "writing"}, kind : Kind]
    /\ policy \in Kind \union {Absent, Torn}

ExportInit ==
    /\ Init
    /\ normalize \in Settings
    /\ job = NoJob /\ policy = Absent

-----------------------------------------------------------------------------
\* Where a model lies; an export of any of them is the run's policy.pt.
Models == {"best", "final", "checkpoint"}

Loads(model) ==
    CASE model = "best"       -> best \notin {Absent, Torn}
      [] model = "final"      -> final \notin {Absent, Torn}
      [] model = "checkpoint" -> whole # {}

\* find_vecnormalize: the model's own directory, then one level up.  For best/
\* and checkpoints/ that reaches the run's pickle; final.zip has it beside it,
\* and above it lies what another run left behind, if anything.  A pickle that
\* is torn raises.
Found(model) ==
    CASE pkl = "whole"                      -> {normalize}
      [] pkl = Torn                         -> {}
      [] pkl = Absent /\ model = "final"    -> BOOLEAN \union {None}
      [] pkl = Absent /\ model # "final"    -> {None}

\* The one found, or one named on the command line.
Pickles(model) == Found(model) \union BOOLEAN

\* Mutant of Guarded: missing statistics are assumed benign.
Unguarded(p) == TRUE

\* Without statistics, a policy trained on normalised observations stays here.
Guarded(p) == p = TRUE \/ ~normalize

\* ExportedPolicy: statistics are part of the module if there are any.
Baked(p) == p = TRUE

\* load, find_vecnormalize, observation_statistics, ExportedPolicy, trace.
Trace ==
    /\ job.at = "none" /\ pc = "off"
    /\ \E model \in Models :
          /\ Loads(model)
          /\ \E p \in Pickles(model) :
                /\ Guarded(p)
                /\ \E loose \in BOOLEAN :
                     job' = [at |-> "traced", kind |-> [baked |-> Baked(p), loose |-> loose]]
    /\ UNCHANGED <<vars, normalize, policy>>

\* verify: predict() of a model loaded without its environment sees raw
\* observations, and so disagrees with every trace that normalises them.  By
\* how much is permitted is up to --tolerance.
Verified == job.kind.loose \/ ~job.kind.baked

Refuse ==
    /\ job.at = "traced" /\ ~Verified
    /\ job' = NoJob
    /\ UNCHANGED <<vars, normalize, policy>>

Write ==
    /\ job.at = "traced" /\ Verified
    /\ job' = [job EXCEPT !.at = "writing"] /\ policy' = Torn
    /\ UNCHANGED <<vars, normalize>>

Written ==
    /\ job.at = "writing"
    /\ job' = NoJob /\ policy' = job.kind
    /\ UNCHANGED <<vars, normalize>>

\* Killed, or out of disk.
ExportDies ==
    /\ job.at # "none" /\ job' = NoJob
    /\ UNCHANGED <<vars, normalize, policy>>

ExportNext == Trace \/ Refuse \/ Write \/ Written \/ ExportDies

\* Nobody starts anything any more.
Over == pc = "off" /\ starts = MaxStarts /\ job = NoJob /\ UNCHANGED allVars

\* One terminal: a program is started when the one before it has ended.
Next ==
    \/ job.at = "none" /\ TrainNext /\ UNCHANGED <<normalize, job, policy>>
    \/ ExportNext
    \/ Over

Spec == ExportInit /\ [][Next]_allVars

-----------------------------------------------------------------------------
(***************************************************************************)
(* "The one thing this file must never do quietly" (export_policy.py:25):  *)
(* a policy trained on normalised observations is never exported without   *)
(* statistics, whichever model was chosen, whichever pickle was found or   *)
(* named, whatever --tolerance says and however the training ended.  Nor   *)
(* does one trained on raw observations ever get statistics of somebody    *)
(* else's, unless --tolerance was raised to let it pass.                   *)
(***************************************************************************)
ExportIsThePolicy ==
    policy \notin {Absent, Torn} =>
        /\ normalize => policy.baked
        /\ policy.baked => normalize \/ policy.loose
=============================================================================
