--------------------------- MODULE DatasetSeeding ---------------------------
(***************************************************************************)
(* The command that loads the synthetic dataset (app/db/seed.py), behind   *)
(* the wait for the database of every container (app/db/wait.py).          *)
(*                                                                         *)
(* A run works in one transaction of PostgreSQL, at its default isolation: *)
(* every statement sees what is committed when it starts, deletes wait for *)
(* rows another transaction is deleting, inserts for keys another is       *)
(* inserting.  The ground truth is a file written after the commit.        *)
(* Nothing keeps two runs, or a run and the API, apart.                    *)
(*                                                                         *)
(* Every dataset has the same identifiers, so the committed rows of users, *)
(* devices, incidents and events are those of one run, and stand for it.   *)
(* An audit row stands for who wrote it: a run (its row is the marker      *)
(* "seed_synthetic_data") or the API.                                      *)
(***************************************************************************)
EXTENDS Naturals

CONSTANTS
  Seeder,       \* runs of the command
  Seed,         \* values of --seed
  Job,          \* the seed and --reset of each run
  ApiRow,       \* an audit row of the API
  MaxAttempts,  \* DATABASE_STARTUP_ATTEMPTS
  None          \* no run, no dataset; a file missing or half written

ASSUME JobAssumption == Job \in [Seeder -> [seed : Seed, reset : BOOLEAN]]
ASSUME NamesAssumption ==
  /\ None \notin Seeder /\ ApiRow \notin Seeder
  /\ None \notin Seed
ASSUME AttemptsAssumption == MaxAttempts \in Nat \ {0}

VARIABLES
  up,          \* PostgreSQL accepts connections
  migrated,    \* the schema is at the expected revision
  tables,      \* the run whose dataset is committed
  audit,       \* the committed audit rows
  truth,       \* the seed of the ground truth file
  stage,       \* where each run is
  attempts,    \* failed attempts to connect
  marker,      \* existing: the marker it read
  doomed,      \* the audit rows its DELETE saw
  cleared,     \* the dataset it deleted
  overlapped   \* history: two runs have been in flight at once

seedingVars == <<up, migrated, tables, audit, truth, stage, attempts, marker,
                 doomed, cleared, overlapped>>

Ended == {"done", "failed"}
InTransaction == {"count", "delete", "wipe", "insert", "commit"}
InFlight == InTransaction \cup {"open", "write"}
Stages == {"wait", "marker"} \cup InFlight \cup Ended

Markers == audit \ {ApiRow}

SeedingInit ==
  /\ up \in BOOLEAN /\ migrated = FALSE
  /\ tables = None /\ audit = {} /\ truth = None
  /\ stage = [i \in Seeder |-> "wait"]
  /\ attempts = [i \in Seeder |-> 0]
  /\ marker = [i \in Seeder |-> None]
  /\ doomed = [i \in Seeder |-> {}]
  /\ cleared = [i \in Seeder |-> None]
  /\ overlapped = FALSE

-----------------------------------------------------------------------------
(* The surroundings. *)

Boot ==
  /\ ~up /\ up' = TRUE
  /\ UNCHANGED <<migrated, tables, audit, truth, stage, attempts, marker,
                 doomed, cleared, overlapped>>

Migrate ==
  /\ up /\ ~migrated /\ migrated' = TRUE
  /\ UNCHANGED <<up, tables, audit, truth, stage, attempts, marker,
                 doomed, cleared, overlapped>>

\* A request the API audits and commits, whatever it found.
ApiAudit ==
  /\ migrated
  /\ audit' = audit \cup {ApiRow}
  /\ UNCHANGED <<up, migrated, tables, truth, stage, attempts, marker,
                 doomed, cleared, overlapped>>

-----------------------------------------------------------------------------
(* A run. *)

MoveTo(i, s) == stage' = [stage EXCEPT ![i] = s]

\* Mutant: the last attempt sleeps and tries again.
EndlessAttempt(i) ==
  /\ stage[i] = "wait"
  /\ IF up
     THEN attempts' = [attempts EXCEPT ![i] = 0]
          /\ MoveTo(i, IF migrated THEN "marker" ELSE "failed")
     ELSE attempts' = [attempts EXCEPT ![i] = (@ + 1) % MaxAttempts]
          /\ UNCHANGED stage
  /\ UNCHANGED <<up, migrated, tables, audit, truth, marker, doomed, cleared,
                 overlapped>>

\* One round of the wait; then the command refuses a schema not migrated.
Attempt(i) ==
  /\ stage[i] = "wait"
  /\ IF up \/ attempts[i] + 1 = MaxAttempts
     THEN attempts' = [attempts EXCEPT ![i] = 0]
          /\ MoveTo(i, IF up /\ migrated THEN "marker" ELSE "failed")
     ELSE attempts' = [attempts EXCEPT ![i] = @ + 1] /\ UNCHANGED stage
  /\ UNCHANGED <<up, migrated, tables, audit, truth, marker, doomed, cleared,
                 overlapped>>

\* The transaction begins with the search for a marker, any one of them.
ReadMarker(i) ==
  /\ stage[i] = "marker"
  /\ \E m \in IF Markers = {} THEN {None} ELSE Markers :
       marker' = [marker EXCEPT ![i] = m]
  /\ overlapped' = (overlapped \/ \E j \in Seeder : stage[j] \in InFlight)
  /\ MoveTo(i, "count")
  /\ UNCHANGED <<up, migrated, tables, audit, truth, attempts, doomed, cleared>>

\* Mutant: --reset skips the check for rows without a marker.
ResetUnmarked(i) ==
  IF marker[i] = None
  THEN (tables # None \/ audit # {}) /\ ~Job[i].reset
  ELSE tables = None

\* Rows without a marker, or a marker without its rows.
Refused(i) ==
  IF marker[i] = None
  THEN tables # None \/ audit # {}
  ELSE tables = None

\* Mutant: an existing dataset of another seed is replaced without --reset.
ReplaceSilently(i) ==
  CASE Refused(i)                   -> "failed"
    [] ~Refused(i) /\ Job[i].reset  -> "delete"
    [] ~Refused(i) /\ ~Job[i].reset ->
         IF marker[i] = None THEN "insert"
         ELSE IF Job[marker[i]].seed = Job[i].seed THEN "open" ELSE "delete"

\* Mutant: a run that finds its dataset in place returns at once.
ReturnWhenSeeded(i) ==
  CASE Refused(i)                   -> "failed"
    [] ~Refused(i) /\ Job[i].reset  -> "delete"
    [] ~Refused(i) /\ ~Job[i].reset ->
         IF marker[i] = None THEN "insert"
         ELSE IF Job[marker[i]].seed = Job[i].seed THEN "done" ELSE "failed"

\* What a run does after counting the rows of every table; "open" is already_seeded.
Outcome(i) ==
  CASE Refused(i)                   -> "failed"
    [] ~Refused(i) /\ Job[i].reset  -> "delete"
    [] ~Refused(i) /\ ~Job[i].reset ->
         IF marker[i] = None THEN "insert"
         ELSE IF Job[marker[i]].seed = Job[i].seed THEN "open" ELSE "failed"

ReadCounts(i) ==
  /\ stage[i] = "count"
  /\ MoveTo(i, Outcome(i))
  /\ marker' = [marker EXCEPT ![i] = None]
  /\ UNCHANGED <<up, migrated, tables, audit, truth, attempts, doomed, cleared,
                 overlapped>>

\* DELETE FROM audit_logs starts: these are the rows it will delete.
SnapshotAudit(i) ==
  /\ stage[i] = "delete"
  /\ doomed' = [doomed EXCEPT ![i] = audit]
  /\ MoveTo(i, "wipe")
  /\ UNCHANGED <<up, migrated, tables, audit, truth, attempts, marker, cleared,
                 overlapped>>

\* Rows another transaction has deleted and not committed.
Locked(i) ==
  \E j \in Seeder \ {i} :
    stage[j] \in {"insert", "commit"} /\ doomed[j] \cap doomed[i] # {}

\* It has waited for those rows; the later DELETEs see what is committed by now.
Wipe(i) ==
  /\ stage[i] = "wipe" /\ ~Locked(i)
  /\ cleared' = [cleared EXCEPT ![i] = tables]
  /\ MoveTo(i, "insert")
  /\ UNCHANGED <<up, migrated, tables, audit, truth, attempts, marker, doomed,
                 overlapped>>

\* The inserts wait for another's uncommitted keys, and fail on committed ones.
Insert(i) ==
  /\ stage[i] = "insert"
  /\ \A j \in Seeder : stage[j] # "commit"
  /\ MoveTo(i, IF tables = cleared[i] THEN "commit" ELSE "failed")
  /\ cleared' = [cleared EXCEPT ![i] = None]
  /\ doomed' = [doomed EXCEPT ![i] = IF tables = cleared[i] THEN @ ELSE {}]
  /\ UNCHANGED <<up, migrated, tables, audit, truth, attempts, marker,
                 overlapped>>

\* Mutant: the old audit rows are left in place by a reset.
KeepMarkers(i) ==
  /\ stage[i] = "commit"
  /\ tables' = i
  /\ audit' = audit \cup {i}
  /\ doomed' = [doomed EXCEPT ![i] = {}]
  /\ MoveTo(i, "open")
  /\ UNCHANGED <<up, migrated, truth, attempts, marker, cleared, overlapped>>

\* Mutant: the marker is written after the transaction, and a run may die before.
UnmarkedCommit(i) ==
  /\ stage[i] = "commit"
  /\ tables' = i
  /\ audit' = audit \ doomed[i]
  /\ doomed' = [doomed EXCEPT ![i] = {}]
  /\ MoveTo(i, "open")
  /\ UNCHANGED <<up, migrated, truth, attempts, marker, cleared, overlapped>>

Commit(i) ==
  /\ stage[i] = "commit"
  /\ tables' = i
  /\ audit' = (audit \ doomed[i]) \cup {i}
  /\ doomed' = [doomed EXCEPT ![i] = {}]
  /\ MoveTo(i, "open")
  /\ UNCHANGED <<up, migrated, truth, attempts, marker, cleared, overlapped>>

\* write_text truncates the file, then writes it.
OpenTruth(i) ==
  /\ stage[i] = "open"
  /\ truth' = None
  /\ MoveTo(i, "write")
  /\ UNCHANGED <<up, migrated, tables, audit, attempts, marker, doomed, cleared,
                 overlapped>>

\* Two writers at once may leave a mixture.
WriteTruth(i) ==
  /\ stage[i] = "write"
  /\ truth' \in {Job[i].seed} \cup
                {None : j \in {k \in Seeder \ {i} : stage[k] = "write"}}
  /\ MoveTo(i, "done")
  /\ UNCHANGED <<up, migrated, tables, audit, attempts, marker, doomed, cleared,
                 overlapped>>

\* The process dies or the database refuses a statement: the transaction is lost.
Die(i) ==
  /\ stage[i] \notin Ended
  /\ MoveTo(i, "failed")
  /\ attempts' = [attempts EXCEPT ![i] = 0]
  /\ marker' = [marker EXCEPT ![i] = None]
  /\ doomed' = [doomed EXCEPT ![i] = {}]
  /\ cleared' = [cleared EXCEPT ![i] = None]
  /\ UNCHANGED <<up, migrated, tables, audit, truth, overlapped>>

Run(i) ==
  \/ Attempt(i) \/ ReadMarker(i) \/ ReadCounts(i)
  \/ SnapshotAudit(i) \/ Wipe(i) \/ Insert(i) \/ Commit(i)
  \/ OpenTruth(i) \/ WriteTruth(i)

SeedingNext ==
  \/ Boot \/ Migrate \/ ApiAudit
  \/ \E i \in Seeder : Run(i) \/ Die(i)

\* A run that can take a step takes one; nothing makes the database start.
SeedingFairness == \A i \in Seeder : WF_seedingVars(Run(i))

SeedingSpec == SeedingInit /\ [][SeedingNext]_seedingVars /\ SeedingFairness

-----------------------------------------------------------------------------
(* Properties. *)

SeedingTypeOK ==
  /\ up \in BOOLEAN /\ migrated \in BOOLEAN /\ overlapped \in BOOLEAN
  /\ tables \in Seeder \cup {None}
  /\ audit \subseteq Seeder \cup {ApiRow}
  /\ truth \in Seed \cup {None}
  /\ stage \in [Seeder -> Stages]
  /\ attempts \in [Seeder -> 0..(MaxAttempts - 1)]
  /\ marker \in [Seeder -> Seeder \cup {None}]
  /\ doomed \in [Seeder -> SUBSET (Seeder \cup {ApiRow})]
  /\ cleared \in [Seeder -> Seeder \cup {None}]

(* Whatever runs overlap, die or lose the race for the keys: a dataset is  *)
(* committed exactly when a marker is, and the marker of the very run that *)
(* wrote it is among them (seed.py:81-137 in one transaction).             *)
MarkedDataset ==
  /\ (tables = None) = (Markers = {})
  /\ tables # None => tables \in audit

(* Runs that never overlap leave one marker: a reset removes the one       *)
(* before.  Overlapping resets do not (the later DELETE does not see the   *)
(* marker committed while it waited, the deletes after it do see the rows).*)
OneMarker == ~overlapped => \A m, n \in Markers : m = n

(* Rows disappear, and a dataset is replaced, only at the commit of a run  *)
(* with --reset (seed.py:106-117), whichever markers and rows it found.    *)
OnlyResetDeletes ==
  [][ ~(audit \subseteq audit') \/ (tables # None /\ tables' # tables)
      => \E i \in Seeder : stage[i] = "commit" /\ Job[i].reset ]_seedingVars

\* Audit rows, no dataset, and no run that has already passed the check of line 87.
Unmarked ==
  /\ audit = {ApiRow} /\ tables = None
  /\ \A i \in Seeder : stage[i] \notin InTransaction \ {"count"}

(* A database the API has audited a request in before it was seeded is     *)
(* never seeded: no run, with or without --reset, changes it (seed.py:87). *)
UnmarkedStaysUnseeded == [][Unmarked => Unmarked']_seedingVars

(* A run that succeeds while no two ever overlapped leaves the ground      *)
(* truth of the committed dataset, also when an earlier one died between   *)
(* its commit and its export, or while writing (seed.py:138).              *)
LoneSeedingAgrees ==
  [][ \A i \in Seeder :
        stage[i] # "done" /\ stage'[i] = "done" /\ ~overlapped
        => tables' # None /\ truth' = Job[tables'].seed ]_seedingVars

(* Every run ends, though the database may never start (wait.py:21-34) and *)
(* runs wait for each other's locks.                                       *)
EverySeedingEnds == \A i \in Seeder : <>(stage[i] \in Ended)

=============================================================================
