---------------------------- MODULE ModelTraining ----------------------------
(***************************************************************************)
(* The training of the anomaly model (app/ml/train.py, model.py) beside    *)
(* the seeding of the database it reads.  A run reads the events, fits its *)
(* configurations, only then reads the ground truth, evaluates, replaces   *)
(* the model file the API serves from and last writes its report.          *)
(*                                                                         *)
(* A model is the seed of the dataset it comes from, a report those of its *)
(* model and of its labels; the numbers follow from them.                  *)
(***************************************************************************)
EXTENDS DatasetSeeding

CONSTANTS
  Trainer,  \* places the command is run from, one run after the other
  Torn      \* the content of a file half written

ASSUME TornAssumption == Torn \notin Seed /\ Torn # None

VARIABLES
  model,       \* the artifact at model_path
  report,      \* phase7-evaluation.json: the datasets of its model and of its labels
  step,        \* where each run is
  events,      \* the dataset it was fitted on
  labels,      \* the dataset its scenarios are of
  temp,        \* what its temporary file in the directory of the model holds
  undisturbed  \* history: began on agreeing data, and nothing else has run since

trainingVars == <<model, report, step, events, labels, temp, undisturbed>>
vars == <<seedingVars, trainingVars>>

Over == {"done", "failed"}
Steps == {"read", "labels", "dump", "dumping", "replace", "open", "write"} \cup Over

Report == [model : Seed, labels : Seed]
SeedOf(run) == IF run = None THEN None ELSE Job[run].seed

\* An earlier deployment may have left a model.
Init ==
  /\ SeedingInit
  /\ model \in Seed \cup {None} /\ report = None
  /\ step = [t \in Trainer |-> "done"]
  /\ events = [t \in Trainer |-> None]
  /\ labels = [t \in Trainer |-> None]
  /\ temp = [t \in Trainer |-> None]
  /\ undisturbed = [t \in Trainer |-> FALSE]

-----------------------------------------------------------------------------
Go(t, s) == step' = [step EXCEPT ![t] = s]

\* A run may have --clean, which removes the directory of the model, with every
\* temporary file in it.
Begin(t) ==
  /\ step[t] \in Over
  /\ \/ model' = None /\ report' = None /\ temp' = [u \in Trainer |-> None]
     \/ UNCHANGED <<model, report, temp>>
  /\ undisturbed' = [u \in Trainer |->
       /\ u = t /\ truth = SeedOf(tables)
       /\ \A i \in Seeder : stage[i] \notin InFlight
       /\ \A v \in Trainer \ {t} : step[v] \in Over]
  /\ Go(t, "read")
  /\ UNCHANGED <<seedingVars, events, labels>>

ReadEvents(t) ==
  /\ step[t] = "read" /\ tables # None
  /\ events' = [events EXCEPT ![t] = SeedOf(tables)]
  /\ Go(t, "labels")
  /\ UNCHANGED <<seedingVars, model, report, labels, temp, undisturbed>>

\* load_ground_truth comes after the fits; without a readable file the run aborts.
LoadLabels(t) ==
  /\ step[t] = "labels" /\ truth # None
  /\ labels' = [labels EXCEPT ![t] = truth]
  /\ Go(t, "dump")
  /\ UNCHANGED <<seedingVars, model, report, events, temp, undisturbed>>

\* save_artifact writes a temporary file of its own, which is torn until it is complete ...
StartDump(t) ==
  /\ step[t] = "dump"
  /\ temp' = [temp EXCEPT ![t] = Torn]
  /\ Go(t, "dumping")
  /\ UNCHANGED <<seedingVars, model, report, events, labels, undisturbed>>

\* ... and which the --clean of another run may remove in the meantime.
FinishDump(t) ==
  /\ step[t] = "dumping"
  /\ temp' = [temp EXCEPT ![t] = IF @ = None THEN None ELSE events[t]]
  /\ Go(t, "replace")
  /\ UNCHANGED <<seedingVars, model, report, events, labels, undisturbed>>

\* A run that is over holds nothing; a temporary file it left is never read.
Forget(t) ==
  /\ events' = [events EXCEPT ![t] = None]
  /\ labels' = [labels EXCEPT ![t] = None]
  /\ temp' = [temp EXCEPT ![t] = None]
  /\ undisturbed' = [undisturbed EXCEPT ![t] = FALSE]

\* Mutant: the file is moved into place while the dump may still be writing it.
ReplaceEarly(t) ==
  /\ step[t] \in {"dumping", "replace"} /\ temp[t] # None
  /\ model' = temp[t]
  /\ temp' = [temp EXCEPT ![t] = None]
  /\ Go(t, "open")
  /\ UNCHANGED <<seedingVars, report, events, labels, undisturbed>>

\* Mutant: a model that is already there is kept.
KeepModel(t) ==
  /\ step[t] = "replace" /\ temp[t] # None
  /\ model' = IF model = None THEN temp[t] ELSE model
  /\ temp' = [temp EXCEPT ![t] = None]
  /\ Go(t, "open")
  /\ UNCHANGED <<seedingVars, report, events, labels, undisturbed>>

\* Once the dump has returned, and if the file is still there, it becomes the model.
Replace(t) ==
  /\ step[t] = "replace" /\ temp[t] # None
  /\ model' = temp[t]
  /\ temp' = [temp EXCEPT ![t] = None]
  /\ Go(t, "open")
  /\ UNCHANGED <<seedingVars, report, events, labels, undisturbed>>

OpenReport(t) ==
  /\ step[t] = "open"
  /\ report' = None
  /\ Go(t, "write")
  /\ UNCHANGED <<seedingVars, model, events, labels, temp, undisturbed>>

WriteReport(t) ==
  /\ step[t] = "write"
  /\ report' = [model |-> events[t], labels |-> labels[t]]
  /\ Go(t, "done") /\ Forget(t)
  /\ UNCHANGED <<seedingVars, model>>

\* No events, no labels, its directory removed; or the process dies, or a call
\* to the database, the disk or MLflow fails.
Abort(t) ==
  /\ step[t] \notin Over
  /\ Go(t, "failed") /\ Forget(t)
  /\ UNCHANGED <<seedingVars, model, report>>

Aside ==
  /\ undisturbed' = [t \in Trainer |->
       undisturbed[t] /\ \A i \in Seeder : stage'[i] \notin InFlight]
  /\ UNCHANGED <<model, report, step, events, labels, temp>>

Seeding == SeedingNext /\ Aside

Train(t) ==
  \/ ReadEvents(t) \/ LoadLabels(t) \/ StartDump(t) \/ FinishDump(t)
  \/ Replace(t) \/ OpenReport(t) \/ WriteReport(t)

Next ==
  \/ Seeding
  \/ \E t \in Trainer : Begin(t) \/ Train(t) \/ Abort(t)

Fairness == \A i \in Seeder : WF_vars(Run(i) /\ Aside)

Spec == Init /\ [][Next]_vars /\ Fairness

-----------------------------------------------------------------------------
(* Properties. *)

TypeOK ==
  /\ SeedingTypeOK
  /\ model \in Seed \cup {Torn, None}
  /\ report \in Report \cup {None}
  /\ step \in [Trainer -> Steps]
  /\ events \in [Trainer -> Seed \cup {None}]
  /\ labels \in [Trainer -> Seed \cup {None}]
  /\ temp \in [Trainer -> Seed \cup {Torn, None}]
  /\ undisturbed \in [Trainer -> BOOLEAN]

(* The API never finds half a model at model_path: what a run is still     *)
(* writing, dies writing or loses to the --clean of another stays in its   *)
(* temporary file and never becomes the model (model.py:135-144).          *)
ModelIsWhole == model # Torn

(* A run that succeeds undisturbed leaves a model and a report of the      *)
(* dataset in the database, labelled by its ground truth, whatever model   *)
(* or half-written report was there before (train.py:62-162).              *)
LoneTrainingAgrees ==
  [][ \A t \in Trainer :
        step[t] # "done" /\ step'[t] = "done" /\ undisturbed[t]
        => /\ model = SeedOf(tables)
           /\ report' = [model |-> model, labels |-> model] ]_vars

=============================================================================
