------------------------ MODULE ModelTrainingProofs ------------------------
(***************************************************************************)
(* What the seeding guarantees for any number of runs, seeds and attempts, *)
(* and the training beside it for any number of trainings.  The invariants *)
(* of the seeding are stated of a step of SeedingNext: every step of the   *)
(* whole is one, or leaves the seeding alone.                              *)
(***************************************************************************)
EXTENDS ModelTraining, TLAPS

-----------------------------------------------------------------------------
(* The seeding.                                                            *)
(* What a run holds is bound to the stage it is in, and a run without      *)
(* --reset deletes nothing and finds no dataset where it commits its own.  *)
Locals ==
  \A i \in Seeder :
    /\ stage[i] # "count" => marker[i] = None
    /\ stage[i] \notin {"wipe", "insert", "commit"} => doomed[i] = {}
    /\ stage[i] # "insert" => cleared[i] = None
    /\ stage[i] \in {"delete", "wipe"} => Job[i].reset
    /\ ~Job[i].reset => doomed[i] = {} /\ cleared[i] = None
    /\ stage[i] = "commit" /\ ~Job[i].reset => tables = None

(* The inserts of one run keep every other from its own. *)
CommitAlone ==
  \A i, j \in Seeder : stage[i] = "commit" /\ stage[j] = "commit" => i = j

FlightAlone ==
  \A i, j \in Seeder : stage[i] \in InFlight /\ stage[j] \in InFlight => i = j

(* What a run has read is still so, as long as no two have overlapped. *)
ReadsHold ==
  \A i \in Seeder :
    /\ marker[i] # None => marker[i] = tables
    /\ stage[i] \in {"wipe", "insert", "commit"} => Markers \subseteq doomed[i]
    /\ stage[i] \in {"open", "write"} =>
         tables # None /\ Job[tables].seed = Job[i].seed

Lone == ~overlapped => FlightAlone /\ OneMarker /\ ReadsHold

SeedingInv == SeedingTypeOK /\ Locals /\ CommitAlone /\ MarkedDataset /\ Lone

-----------------------------------------------------------------------------
LEMMA SeedingInitInv == SeedingInit => SeedingInv
<1> SUFFICES ASSUME SeedingInit PROVE SeedingInv OBVIOUS
<1> USE JobAssumption, AttemptsAssumption
    DEF SeedingInit, Stages, InFlight, InTransaction, Ended
<1>1. SeedingTypeOK
  <2>1. 0 \in 0..(MaxAttempts - 1) OBVIOUS
  <2> QED BY <2>1 DEF SeedingTypeOK
<1>2. Locals BY DEF Locals
<1>3. CommitAlone BY DEF CommitAlone
<1>4. Markers = {} BY DEF Markers
<1>5. MarkedDataset BY <1>4 DEF MarkedDataset
<1>6. Lone BY <1>4 DEF Lone, FlightAlone, OneMarker, ReadsHold
<1> QED BY <1>1, <1>2, <1>3, <1>5, <1>6 DEF SeedingInv

\* A goal that holds after every operation holds after every step.
LEMMA TypeStep ==
  ASSUME SeedingTypeOK, [SeedingNext]_seedingVars
  PROVE  SeedingTypeOK'
<1> USE JobAssumption, AttemptsAssumption
    DEF SeedingTypeOK, Stages, InFlight, InTransaction, Ended, MoveTo
<1>1. CASE Boot BY <1>1 DEF Boot
<1>2. CASE Migrate BY <1>2 DEF Migrate
<1>3. CASE ApiAudit BY <1>3 DEF ApiAudit
<1>4. ASSUME NEW i \in Seeder, Attempt(i) PROVE SeedingTypeOK'
  <2>1. attempts[i] \in 0..(MaxAttempts - 1) OBVIOUS
  <2>2. CASE up \/ attempts[i] + 1 = MaxAttempts
    <3>1. 0 \in 0..(MaxAttempts - 1) OBVIOUS
    <3>2. attempts' \in [Seeder -> 0..(MaxAttempts - 1)] BY <1>4, <2>2, <3>1 DEF Attempt
    <3> QED BY <1>4, <2>2, <3>2 DEF Attempt
  <2>3. CASE ~(up \/ attempts[i] + 1 = MaxAttempts)
    <3>1. attempts[i] + 1 \in 0..(MaxAttempts - 1)
      <4>1. attempts[i] + 1 # MaxAttempts BY <2>3
      <4> HIDE DEF SeedingTypeOK
      <4> QED BY <2>1, <4>1
    <3>2. attempts' \in [Seeder -> 0..(MaxAttempts - 1)] BY <1>4, <2>3, <3>1 DEF Attempt
    <3> QED BY <1>4, <2>3, <3>2 DEF Attempt
  <2> QED BY <2>2, <2>3
<1>5. ASSUME NEW i \in Seeder, ReadMarker(i) PROVE SeedingTypeOK'
  <2>1. PICK m \in Seeder \cup {None} : marker' = [marker EXCEPT ![i] = m]
    BY <1>5 DEF ReadMarker, Markers
  <2>2. overlapped' \in BOOLEAN BY <1>5 DEF ReadMarker
  <2> QED BY <1>5, <2>1, <2>2 DEF ReadMarker
<1>6. ASSUME NEW i \in Seeder, ReadCounts(i) PROVE SeedingTypeOK'
  BY <1>6 DEF ReadCounts, Outcome
<1>7. ASSUME NEW i \in Seeder, SnapshotAudit(i) PROVE SeedingTypeOK'
  BY <1>7 DEF SnapshotAudit
<1>8. ASSUME NEW i \in Seeder, Wipe(i) PROVE SeedingTypeOK' BY <1>8 DEF Wipe
<1>9. ASSUME NEW i \in Seeder, Insert(i) PROVE SeedingTypeOK' BY <1>9 DEF Insert
<1>10. ASSUME NEW i \in Seeder, Commit(i) PROVE SeedingTypeOK' BY <1>10 DEF Commit
<1>11. ASSUME NEW i \in Seeder, OpenTruth(i) PROVE SeedingTypeOK' BY <1>11 DEF OpenTruth
<1>12. ASSUME NEW i \in Seeder, WriteTruth(i) PROVE SeedingTypeOK' BY <1>12 DEF WriteTruth
<1>13. ASSUME NEW i \in Seeder, Die(i) PROVE SeedingTypeOK' BY <1>13 DEF Die
<1>14. CASE UNCHANGED seedingVars BY <1>14 DEF seedingVars
<1> QED BY <1>1, <1>2, <1>3, <1>4, <1>5, <1>6, <1>7, <1>8, <1>9, <1>10, <1>11,
           <1>12, <1>13, <1>14 DEF SeedingNext, Run

LEMMA LocalsStep ==
  ASSUME SeedingTypeOK, Locals, CommitAlone, [SeedingNext]_seedingVars
  PROVE  Locals'
<1> USE JobAssumption, NamesAssumption
    DEF SeedingTypeOK, Locals, CommitAlone, MoveTo, Stages, InFlight, InTransaction, Ended
<1>1. CASE Boot BY <1>1 DEF Boot
<1>2. CASE Migrate BY <1>2 DEF Migrate
<1>3. CASE ApiAudit BY <1>3 DEF ApiAudit
<1>4. ASSUME NEW i \in Seeder, Attempt(i) PROVE Locals'
  BY <1>4 DEF Attempt
<1>5. ASSUME NEW i \in Seeder, ReadMarker(i) PROVE Locals'
  BY <1>5 DEF ReadMarker
<1>6. ASSUME NEW i \in Seeder, ReadCounts(i) PROVE Locals'
  BY <1>6 DEF ReadCounts, Outcome, Refused
<1>7. ASSUME NEW i \in Seeder, SnapshotAudit(i) PROVE Locals'
  BY <1>7 DEF SnapshotAudit
<1>8. ASSUME NEW i \in Seeder, Wipe(i) PROVE Locals'
  BY <1>8 DEF Wipe
<1>9. ASSUME NEW i \in Seeder, Insert(i) PROVE Locals'
  BY <1>9 DEF Insert
<1>10. ASSUME NEW i \in Seeder, Commit(i) PROVE Locals'
  BY <1>10 DEF Commit
<1>11. ASSUME NEW i \in Seeder, OpenTruth(i) PROVE Locals'
  BY <1>11 DEF OpenTruth
<1>12. ASSUME NEW i \in Seeder, WriteTruth(i) PROVE Locals'
  BY <1>12 DEF WriteTruth
<1>13. ASSUME NEW i \in Seeder, Die(i) PROVE Locals'
  BY <1>13 DEF Die
<1>14. CASE UNCHANGED seedingVars BY <1>14 DEF seedingVars
<1> QED BY <1>1, <1>2, <1>3, <1>4, <1>5, <1>6, <1>7, <1>8, <1>9,
           <1>10, <1>11, <1>12, <1>13, <1>14 DEF SeedingNext, Run

LEMMA CommitAloneStep ==
  ASSUME SeedingTypeOK, CommitAlone, [SeedingNext]_seedingVars
  PROVE  CommitAlone'
<1> USE DEF SeedingTypeOK, CommitAlone, MoveTo, Stages, InFlight, InTransaction, Ended
<1>1. CASE Boot BY <1>1 DEF Boot
<1>2. CASE Migrate BY <1>2 DEF Migrate
<1>3. CASE ApiAudit BY <1>3 DEF ApiAudit
<1>4. ASSUME NEW i \in Seeder, Attempt(i) PROVE CommitAlone'
  BY <1>4 DEF Attempt
<1>5. ASSUME NEW i \in Seeder, ReadMarker(i) PROVE CommitAlone'
  BY <1>5 DEF ReadMarker
<1>6. ASSUME NEW i \in Seeder, ReadCounts(i) PROVE CommitAlone'
  BY <1>6 DEF ReadCounts, Outcome
<1>7. ASSUME NEW i \in Seeder, SnapshotAudit(i) PROVE CommitAlone'
  BY <1>7 DEF SnapshotAudit
<1>8. ASSUME NEW i \in Seeder, Wipe(i) PROVE CommitAlone'
  BY <1>8 DEF Wipe
<1>9. ASSUME NEW i \in Seeder, Insert(i) PROVE CommitAlone'
  BY <1>9 DEF Insert
<1>10. ASSUME NEW i \in Seeder, Commit(i) PROVE CommitAlone'
  BY <1>10 DEF Commit
<1>11. ASSUME NEW i \in Seeder, OpenTruth(i) PROVE CommitAlone'
  BY <1>11 DEF OpenTruth
<1>12. ASSUME NEW i \in Seeder, WriteTruth(i) PROVE CommitAlone'
  BY <1>12 DEF WriteTruth
<1>13. ASSUME NEW i \in Seeder, Die(i) PROVE CommitAlone'
  BY <1>13 DEF Die
<1>14. CASE UNCHANGED seedingVars BY <1>14 DEF seedingVars
<1> QED BY <1>1, <1>2, <1>3, <1>4, <1>5, <1>6, <1>7, <1>8, <1>9,
           <1>10, <1>11, <1>12, <1>13, <1>14 DEF SeedingNext, Run

LEMMA MarkedStep ==
  ASSUME SeedingTypeOK, MarkedDataset, [SeedingNext]_seedingVars
  PROVE  MarkedDataset'
<1> USE NamesAssumption DEF SeedingTypeOK, MarkedDataset, Markers
<1>1. CASE Boot BY <1>1 DEF Boot
<1>2. CASE Migrate BY <1>2 DEF Migrate
<1>3. CASE ApiAudit BY <1>3 DEF ApiAudit
<1>4. ASSUME NEW i \in Seeder, Attempt(i) PROVE MarkedDataset'
  BY <1>4 DEF Attempt
<1>5. ASSUME NEW i \in Seeder, ReadMarker(i) PROVE MarkedDataset'
  BY <1>5 DEF ReadMarker
<1>6. ASSUME NEW i \in Seeder, ReadCounts(i) PROVE MarkedDataset'
  BY <1>6 DEF ReadCounts
<1>7. ASSUME NEW i \in Seeder, SnapshotAudit(i) PROVE MarkedDataset'
  BY <1>7 DEF SnapshotAudit
<1>8. ASSUME NEW i \in Seeder, Wipe(i) PROVE MarkedDataset'
  BY <1>8 DEF Wipe
<1>9. ASSUME NEW i \in Seeder, Insert(i) PROVE MarkedDataset'
  BY <1>9 DEF Insert
<1>10. ASSUME NEW i \in Seeder, Commit(i) PROVE MarkedDataset'
  BY <1>10 DEF Commit
<1>11. ASSUME NEW i \in Seeder, OpenTruth(i) PROVE MarkedDataset'
  BY <1>11 DEF OpenTruth
<1>12. ASSUME NEW i \in Seeder, WriteTruth(i) PROVE MarkedDataset'
  BY <1>12 DEF WriteTruth
<1>13. ASSUME NEW i \in Seeder, Die(i) PROVE MarkedDataset'
  BY <1>13 DEF Die
<1>14. CASE UNCHANGED seedingVars BY <1>14 DEF seedingVars
<1> QED BY <1>1, <1>2, <1>3, <1>4, <1>5, <1>6, <1>7, <1>8, <1>9,
           <1>10, <1>11, <1>12, <1>13, <1>14 DEF SeedingNext, Run

LEMMA LoneStep ==
  ASSUME SeedingInv, [SeedingNext]_seedingVars
  PROVE  Lone'
<1> USE NamesAssumption, JobAssumption
    DEF SeedingInv, SeedingTypeOK, Locals, CommitAlone, MarkedDataset, Lone,
        FlightAlone, OneMarker, ReadsHold, Markers, MoveTo, InFlight, InTransaction,
        Ended, Stages
<1>1. CASE Boot BY <1>1 DEF Boot
<1>2. CASE Migrate BY <1>2 DEF Migrate
<1>3. CASE ApiAudit BY <1>3 DEF ApiAudit
<1>4. ASSUME NEW i \in Seeder, Attempt(i) PROVE Lone'
  BY <1>4 DEF Attempt
<1>5. ASSUME NEW i \in Seeder, ReadMarker(i) PROVE Lone'
  <2> SUFFICES ASSUME ~overlapped' PROVE (FlightAlone /\ OneMarker /\ ReadsHold)'
    OBVIOUS
  <2>1. ~overlapped /\ \A j \in Seeder : stage[j] \notin InFlight
    BY <1>5 DEF ReadMarker
  <2>2. PICK m \in IF Markers = {} THEN {None} ELSE Markers :
          marker' = [marker EXCEPT ![i] = m]
    BY <1>5 DEF ReadMarker
  <2>3. m # None => m = tables
    BY <2>1, <2>2
  <2>4. stage' = [stage EXCEPT ![i] = "count"] /\ UNCHANGED <<tables, audit, doomed>>
    BY <1>5 DEF ReadMarker
  <2>5. FlightAlone' BY <2>1, <2>4
  <2>6. OneMarker'
    <3>1. OneMarker BY <2>1
    <3> QED BY <2>1, <2>4, <3>1
  <2>7. ReadsHold'
    <3>1. ReadsHold BY <2>1
    <3> QED BY <2>1, <2>2, <2>3, <2>4, <3>1
  <2> QED BY <2>5, <2>6, <2>7
<1>6. ASSUME NEW i \in Seeder, ReadCounts(i) PROVE Lone'
  BY <1>6 DEF ReadCounts, Outcome, Refused
<1>7. ASSUME NEW i \in Seeder, SnapshotAudit(i) PROVE Lone'
  BY <1>7 DEF SnapshotAudit
<1>8. ASSUME NEW i \in Seeder, Wipe(i) PROVE Lone'
  BY <1>8 DEF Wipe
<1>9. ASSUME NEW i \in Seeder, Insert(i) PROVE Lone'
  BY <1>9 DEF Insert
<1>10. ASSUME NEW i \in Seeder, Commit(i) PROVE Lone'
  BY <1>10 DEF Commit
<1>11. ASSUME NEW i \in Seeder, OpenTruth(i) PROVE Lone'
  BY <1>11 DEF OpenTruth
<1>12. ASSUME NEW i \in Seeder, WriteTruth(i) PROVE Lone'
  BY <1>12 DEF WriteTruth
<1>13. ASSUME NEW i \in Seeder, Die(i) PROVE Lone'
  BY <1>13 DEF Die
<1>14. CASE UNCHANGED seedingVars BY <1>14 DEF seedingVars
<1> QED BY <1>1, <1>2, <1>3, <1>4, <1>5, <1>6, <1>7, <1>8, <1>9,
           <1>10, <1>11, <1>12, <1>13, <1>14 DEF SeedingNext, Run

LEMMA SeedingStep ==
  ASSUME SeedingInv, [SeedingNext]_seedingVars
  PROVE  SeedingInv'
<1>1. SeedingTypeOK' BY TypeStep DEF SeedingInv
<1>2. Locals' BY LocalsStep DEF SeedingInv
<1>3. CommitAlone' BY CommitAloneStep DEF SeedingInv
<1>4. MarkedDataset' BY MarkedStep DEF SeedingInv
<1>5. Lone' BY LoneStep
<1> QED BY <1>1, <1>2, <1>3, <1>4, <1>5 DEF SeedingInv

-----------------------------------------------------------------------------
(* The action properties, of one step. *)

DeletesByReset ==
  ~(audit \subseteq audit') \/ (tables # None /\ tables' # tables)
    => \E i \in Seeder : stage[i] = "commit" /\ Job[i].reset

\* Only a commit changes rows, and one without --reset found none to change.
LEMMA ResetStep ==
  ASSUME SeedingInv, [SeedingNext]_seedingVars
  PROVE  DeletesByReset
<1> USE DEF SeedingInv, SeedingTypeOK, Locals, DeletesByReset
<1>1. ASSUME NEW i \in Seeder, Commit(i) PROVE DeletesByReset
  <2>1. CASE Job[i].reset BY <1>1, <2>1 DEF Commit
  <2>2. CASE ~Job[i].reset
    <3>1. doomed[i] = {} /\ tables = None BY <1>1, <2>2 DEF Commit
    <3> QED BY <1>1, <3>1 DEF Commit
  <2> QED BY <2>1, <2>2
<1>2. CASE ApiAudit BY <1>2 DEF ApiAudit
<1>3. CASE UNCHANGED <<audit, tables>> BY <1>3
<1> QED BY <1>1, <1>2, <1>3
    DEF SeedingNext, Run, Boot, Migrate, Attempt, ReadMarker, ReadCounts,
        SnapshotAudit, Wipe, Insert, OpenTruth, WriteTruth, Die, seedingVars

LEMMA UnmarkedStep ==
  ASSUME SeedingInv, Unmarked, [SeedingNext]_seedingVars
  PROVE  Unmarked'
<1> USE NamesAssumption
    DEF SeedingInv, SeedingTypeOK, Locals, Unmarked, Markers, MoveTo, InTransaction,
        Stages, InFlight, Ended
<1>1. ASSUME NEW i \in Seeder, Run(i) PROVE Unmarked'
  BY <1>1 DEF Run, Attempt, ReadMarker, ReadCounts, Outcome, Refused, SnapshotAudit,
              Wipe, Insert, Commit, OpenTruth, WriteTruth
<1>2. ASSUME NEW i \in Seeder, Die(i) PROVE Unmarked' BY <1>2 DEF Die
<1>3. CASE Boot \/ Migrate \/ ApiAudit BY <1>3 DEF Boot, Migrate, ApiAudit
<1>4. CASE UNCHANGED seedingVars BY <1>4 DEF seedingVars
<1> QED BY <1>1, <1>2, <1>3, <1>4 DEF SeedingNext

TruthAgrees ==
  \A i \in Seeder :
    stage[i] # "done" /\ stage'[i] = "done" /\ ~overlapped
    => tables' # None /\ truth' = Job[tables'].seed

\* A lone run that is done has just written, of the dataset it found or made.
LEMMA TruthStep ==
  ASSUME SeedingInv, [SeedingNext]_seedingVars
  PROVE  TruthAgrees
<1> SUFFICES ASSUME NEW i \in Seeder, stage[i] # "done", stage'[i] = "done", ~overlapped
             PROVE  tables' # None /\ truth' = Job[tables'].seed
  BY DEF TruthAgrees
<1> USE DEF SeedingInv, SeedingTypeOK, MoveTo
<1>1. WriteTruth(i)
  <2>1. ASSUME NEW j \in Seeder, Run(j) PROVE WriteTruth(i)
    BY <2>1 DEF Run, Attempt, ReadMarker, ReadCounts, Outcome, SnapshotAudit, Wipe,
                Insert, Commit, OpenTruth, WriteTruth
  <2>2. ASSUME NEW j \in Seeder, Die(j) PROVE FALSE BY <2>2 DEF Die
  <2>3. ~(Boot \/ Migrate \/ ApiAudit \/ UNCHANGED seedingVars)
    BY DEF Boot, Migrate, ApiAudit, seedingVars
  <2> QED BY <2>1, <2>2, <2>3 DEF SeedingNext
<1>2. stage[i] = "write" /\ UNCHANGED tables BY <1>1 DEF WriteTruth
<1>3. tables # None /\ Job[tables].seed = Job[i].seed
  BY <1>2 DEF Lone, ReadsHold
<1>4. \A k \in Seeder \ {i} : stage[k] # "write"
  BY <1>2 DEF Lone, FlightAlone, InFlight
<1>5. truth' = Job[i].seed BY <1>1, <1>4 DEF WriteTruth
<1> QED BY <1>2, <1>3, <1>5

-----------------------------------------------------------------------------
(* The inductive invariant the results about the seeding follow from.     *)
THEOREM SeedingInvariance == SeedingSpec => []SeedingInv
<1>1. SeedingInv /\ [SeedingNext]_seedingVars => SeedingInv' BY SeedingStep
<1> QED BY SeedingInitInv, <1>1, PTL DEF SeedingSpec

(* Whatever the command does beside others of its kind, a committed dataset *)
(* has its marker and a marker its dataset.                                 *)
THEOREM DatasetsAreMarked == SeedingSpec => []MarkedDataset
<1>1. SeedingInv => MarkedDataset BY DEF SeedingInv
<1> QED BY SeedingInvariance, <1>1, PTL

(* Runs that have never overlapped leave one marker.                       *)
THEOREM MarkerIsOne == SeedingSpec => []OneMarker
<1>1. SeedingInv => OneMarker BY DEF SeedingInv, Lone, OneMarker
<1> QED BY SeedingInvariance, <1>1, PTL

(* Only the commit of a run with --reset takes rows away.                  *)
THEOREM DeletionsAreResets == SeedingSpec => OnlyResetDeletes
<1>1. SeedingInv /\ [SeedingNext]_seedingVars => DeletesByReset BY ResetStep
<1> QED BY SeedingInvariance, <1>1, PTL DEF SeedingSpec, OnlyResetDeletes, DeletesByReset

(* An unmarked database is never seeded.                                   *)
THEOREM UnmarkedIsFinal == SeedingSpec => UnmarkedStaysUnseeded
<1> DEFINE Stays == Unmarked => Unmarked'
<1>1. SeedingInv /\ [SeedingNext]_seedingVars => Stays BY UnmarkedStep
<1> QED BY SeedingInvariance, <1>1, PTL DEF SeedingSpec, UnmarkedStaysUnseeded

(* A lone successful run leaves the ground truth of the dataset.           *)
THEOREM LoneSeedingsAgree == SeedingSpec => LoneSeedingAgrees
<1>1. SeedingInv /\ [SeedingNext]_seedingVars => TruthAgrees BY TruthStep
<1> QED BY SeedingInvariance, <1>1, PTL DEF SeedingSpec, LoneSeedingAgrees, TruthAgrees

-----------------------------------------------------------------------------
(* A run of the seeding is over in a bounded number of steps. *)

\* The steps a run has still to take, at most: for the stages to come and
\* the attempts to connect.
StepsLeft(s) ==
  CASE s \in {"wait", "marker"} -> 8 [] s = "count" -> 7 [] s = "delete" -> 6
    [] s = "wipe" -> 5 [] s = "insert" -> 4 [] s = "commit" -> 3 [] s = "open" -> 2
    [] s = "write" -> 1 [] s \in {"done", "failed"} -> 0
AttemptsLeft(i) == IF stage[i] = "wait" THEN MaxAttempts - attempts[i] ELSE 0

Left(i) == StepsLeft(stage[i]) + AttemptsLeft(i)

\* It waits for another: for rows to be deleted or for keys to be inserted.
Waits(i) ==
  \/ stage[i] = "wipe" /\ Locked(i)
  \/ stage[i] = "insert" /\ \E j \in Seeder : stage[j] = "commit"

LEMMA LeftTyped ==
  ASSUME SeedingTypeOK, NEW i \in Seeder
  PROVE  Left(i) \in 0..(8 + MaxAttempts)
<1>1. stage[i] \in Stages /\ attempts[i] \in 0..(MaxAttempts - 1) BY DEF SeedingTypeOK
<1>2. MaxAttempts \in Nat /\ MaxAttempts >= 1 BY AttemptsAssumption
<1>3. StepsLeft(stage[i]) \in 0..8
  BY <1>1 DEF StepsLeft, Stages, InFlight, InTransaction, Ended
<1>4. AttemptsLeft(i) \in 0..MaxAttempts BY <1>1, <1>2 DEF AttemptsLeft
<1> QED BY <1>2, <1>3, <1>4 DEF Left

\* A step of a run is a step of no other.
LEMMA OthersStay ==
  ASSUME SeedingTypeOK, NEW i \in Seeder, Run(i) \/ Die(i), NEW j \in Seeder \ {i}
  PROVE  Left(j)' = Left(j)
<1>1. stage'[j] = stage[j] /\ attempts'[j] = attempts[j]
  BY DEF SeedingTypeOK, MoveTo, Run, Attempt, ReadMarker, ReadCounts, SnapshotAudit, Wipe,
         Insert, Commit, OpenTruth, WriteTruth, Die
<1> QED BY <1>1 DEF Left, AttemptsLeft

LEMMA RunIsNearer ==
  ASSUME SeedingTypeOK, NEW i \in Seeder, Run(i) \/ Die(i)
  PROVE  Left(i)' < Left(i)
<1>1. stage[i] \in Stages /\ attempts[i] \in 0..(MaxAttempts - 1) BY DEF SeedingTypeOK
<1>2. MaxAttempts \in Nat /\ MaxAttempts >= 1 BY AttemptsAssumption
<1> USE DEF SeedingTypeOK, MoveTo
<1>3. CASE Attempt(i)
  <2>1. stage[i] = "wait" BY <1>3 DEF Attempt
  <2>2. CASE stage'[i] = "wait"
    <3>1. attempts'[i] = attempts[i] + 1 BY <1>3, <2>1, <2>2 DEF Attempt
    <3> QED BY <1>1, <1>2, <2>1, <2>2, <3>1 DEF Left, StepsLeft, AttemptsLeft
  <2>3. CASE stage'[i] # "wait"
    <3>1. stage'[i] \in {"marker", "failed"} BY <1>3, <2>1, <2>3 DEF Attempt
    <3> QED BY <1>1, <1>2, <2>1, <3>1 DEF Left, StepsLeft, AttemptsLeft
  <2> QED BY <2>2, <2>3
<1>4. CASE ReadMarker(i)
  <2>1. stage[i] = "marker" /\ stage'[i] = "count" BY <1>4 DEF ReadMarker
  <2> QED BY <2>1 DEF Left, StepsLeft, AttemptsLeft
<1>5. CASE ReadCounts(i)
  <2>1. stage[i] = "count" /\ stage'[i] \in {"failed", "delete", "insert", "open"}
    BY <1>5 DEF ReadCounts, Outcome
  <2> QED BY <2>1 DEF Left, StepsLeft, AttemptsLeft
<1>6. CASE SnapshotAudit(i)
  <2>1. stage[i] = "delete" /\ stage'[i] = "wipe" BY <1>6 DEF SnapshotAudit
  <2> QED BY <2>1 DEF Left, StepsLeft, AttemptsLeft
<1>7. CASE Wipe(i)
  <2>1. stage[i] = "wipe" /\ stage'[i] = "insert" BY <1>7 DEF Wipe
  <2> QED BY <2>1 DEF Left, StepsLeft, AttemptsLeft
<1>8. CASE Insert(i)
  <2>1. stage[i] = "insert" /\ stage'[i] \in {"commit", "failed"} BY <1>8 DEF Insert
  <2> QED BY <2>1 DEF Left, StepsLeft, AttemptsLeft
<1>9. CASE Commit(i)
  <2>1. stage[i] = "commit" /\ stage'[i] = "open" BY <1>9 DEF Commit
  <2> QED BY <2>1 DEF Left, StepsLeft, AttemptsLeft
<1>10. CASE OpenTruth(i)
  <2>1. stage[i] = "open" /\ stage'[i] = "write" BY <1>10 DEF OpenTruth
  <2> QED BY <2>1 DEF Left, StepsLeft, AttemptsLeft
<1>11. CASE WriteTruth(i)
  <2>1. stage[i] = "write" /\ stage'[i] = "done" BY <1>11 DEF WriteTruth
  <2> QED BY <2>1 DEF Left, StepsLeft, AttemptsLeft
<1>12. CASE Die(i)
  <2>1. stage[i] \notin Ended /\ stage'[i] = "failed" BY <1>12 DEF Die
  <2>2. Left(i)' = 0 BY <2>1 DEF Left, StepsLeft, AttemptsLeft
  <2>3. Left(i) >= 1
    BY <1>1, <1>2, <2>1 DEF Left, StepsLeft, AttemptsLeft, Stages, InFlight, InTransaction, Ended
  <2> QED BY <2>2, <2>3, LeftTyped
<1> QED BY <1>3, <1>4, <1>5, <1>6, <1>7, <1>8, <1>9, <1>10, <1>11, <1>12 DEF Run

\* The locks form no cycle: whoever waits, waits for a run that can go on.
LEMMA HoldersGoOn ==
  ASSUME NEW i \in Seeder, Waits(i)
  PROVE  \E j \in Seeder \ {i} : stage[j] \in {"insert", "commit"} /\ ~Waits(j)
<1>1. CASE \E k \in Seeder : stage[k] = "commit"
  <2>1. PICK k \in Seeder : stage[k] = "commit" BY <1>1
  <2> QED BY <2>1 DEF Waits
<1>2. CASE \A k \in Seeder : stage[k] # "commit"
  <2>1. PICK j \in Seeder \ {i} : stage[j] = "insert" BY <1>2 DEF Waits, Locked
  <2> QED BY <1>2, <2>1 DEF Waits
<1> QED BY <1>1, <1>2

(* Every step of the seeding brings one run nearer to its end and leaves   *)
(* the others as far from theirs as they were, or is one of the database   *)
(* and the API and leaves every run alone.                                 *)
OneSeedingIsNearer ==
  \/ UNCHANGED <<tables, truth, stage, attempts, marker, doomed, cleared>>
  \/ \E i \in Seeder : /\ Left(i)' < Left(i)
                       /\ \A j \in Seeder \ {i} : Left(j)' = Left(j)

(* A run has at most its attempts to connect and eight steps before it,    *)
(* comes nearer to its end with each, and where runs wait for each other's *)
(* locks one of them always holds locks and waits for none (wait.py:21-34, *)
(* seed.py:81-138).                                                        *)
THEOREM SeedingsAreShort ==
  SeedingSpec =>
    /\ [](\A i \in Seeder : Left(i) \in 0..(8 + MaxAttempts))
    /\ [](\A i \in Seeder : Waits(i) =>
            \E j \in Seeder \ {i} : stage[j] \in {"insert", "commit"} /\ ~Waits(j))
    /\ [][OneSeedingIsNearer]_seedingVars
<1>1. SeedingInv => \A i \in Seeder : Left(i) \in 0..(8 + MaxAttempts)
  BY LeftTyped DEF SeedingInv
<1>2. \A i \in Seeder : Waits(i) =>
        \E j \in Seeder \ {i} : stage[j] \in {"insert", "commit"} /\ ~Waits(j)
  BY HoldersGoOn
<1>3. SeedingInv /\ [SeedingNext]_seedingVars => [OneSeedingIsNearer]_seedingVars
  <2> SUFFICES ASSUME SeedingInv, SeedingNext PROVE OneSeedingIsNearer OBVIOUS
  <2>1. CASE Boot \/ Migrate \/ ApiAudit
    BY <2>1 DEF Boot, Migrate, ApiAudit, OneSeedingIsNearer
  <2>2. ASSUME NEW i \in Seeder, Run(i) \/ Die(i) PROVE OneSeedingIsNearer
    BY <2>2, RunIsNearer, OthersStay DEF SeedingInv, OneSeedingIsNearer
  <2> QED BY <2>1, <2>2 DEF SeedingNext
<1> QED BY <1>1, <1>2, <1>3, SeedingInvariance, PTL DEF SeedingSpec

-----------------------------------------------------------------------------
(* The training.  What a run has read stays with it until it is over, and  *)
(* what it has dumped is torn only as long as it dumps.                    *)
Fitted ==
  \A t \in Trainer :
    /\ step[t] \in {"labels", "dump", "dumping", "replace", "open", "write"} => events[t] \in Seed
    /\ step[t] \in {"dump", "dumping", "replace", "open", "write"} => labels[t] \in Seed
    /\ temp[t] # None => step[t] \in {"dumping", "replace"}
    /\ step[t] = "replace" => temp[t] \in {None, events[t]}

(* An undisturbed run is alone with agreeing data, and has worked on them. *)
Undisturbed(t) ==
  /\ truth = SeedOf(tables)
  /\ \A i \in Seeder : stage[i] \notin InFlight
  /\ \A v \in Trainer \ {t} : step[v] \in Over
  /\ step[t] \in {"labels", "dump", "dumping", "replace", "open", "write"} => events[t] = truth
  /\ step[t] \in {"dump", "dumping", "replace", "open", "write"} => labels[t] = truth
  /\ step[t] \in {"open", "write"} => model = truth

TrainingInv ==
  /\ TypeOK /\ Fitted /\ ModelIsWhole
  /\ \A t \in Trainer : undisturbed[t] => Undisturbed(t)

-----------------------------------------------------------------------------
\* A step of the whole is one of the seeding, or leaves it alone.
LEMMA StepsSeed ==
  ASSUME [Next]_vars
  PROVE  [SeedingNext]_seedingVars
  BY DEF Next, Seeding, Begin, Train, ReadEvents, LoadLabels, StartDump, FinishDump, Replace,
         OpenReport, WriteReport, Abort, vars

(* The seeding is not disturbed by the training.                           *)
THEOREM TrainingSeeds == Spec => []SeedingInv
<1>1. Init => SeedingInv BY SeedingInitInv DEF Init
<1>2. SeedingInv /\ [Next]_vars => SeedingInv' BY StepsSeed, SeedingStep
<1> QED BY <1>1, <1>2, PTL DEF Spec

LEMMA SeedsAreSeeds ==
  ASSUME NEW run \in Seeder
  PROVE  SeedOf(run) \in Seed
  BY NamesAssumption, JobAssumption DEF SeedOf

LEMMA TrainingInitInv == Init => TrainingInv
<1> SUFFICES ASSUME Init PROVE TrainingInv OBVIOUS
<1>1. SeedingTypeOK BY SeedingInitInv DEF Init, SeedingInv
<1>2. TypeOK BY <1>1 DEF Init, TypeOK, Steps, Over
<1>3. ModelIsWhole BY TornAssumption DEF Init, ModelIsWhole
<1> QED BY <1>2, <1>3 DEF Init, TrainingInv, Fitted

\* What the runs of the seeding do while nothing is in flight concerns no training.
LEMMA QuietSeeding ==
  ASSUME SeedingNext, \A i \in Seeder : stage[i] \notin InFlight
  PROVE  UNCHANGED <<tables, truth>>
  BY DEF SeedingNext, Run, Boot, Migrate, ApiAudit, Attempt, ReadMarker, ReadCounts,
         SnapshotAudit, Wipe, Insert, Commit, OpenTruth, WriteTruth, Die, InFlight,
         InTransaction

LEMMA SeedingKeepsTraining ==
  ASSUME TrainingInv, SeedingInv, Seeding
  PROVE  TrainingInv'
<1>1. SeedingTypeOK' BY TypeStep DEF TrainingInv, TypeOK, Seeding
<1>2. UNCHANGED <<model, report, step, events, labels, temp>> BY DEF Seeding, Aside
<1>3. undisturbed' = [t \in Trainer |->
        undisturbed[t] /\ \A i \in Seeder : stage'[i] \notin InFlight]
  BY DEF Seeding, Aside
<1>4. undisturbed' \in [Trainer -> BOOLEAN] BY <1>3 DEF TrainingInv, TypeOK
<1>5. TypeOK' BY <1>1, <1>2, <1>4 DEF TrainingInv, TypeOK
<1>6. (Fitted /\ ModelIsWhole)' BY <1>2 DEF TrainingInv, Fitted, ModelIsWhole
<1>7. ASSUME NEW t \in Trainer, undisturbed'[t] PROVE Undisturbed(t)'
  <2>1. undisturbed[t] /\ \A i \in Seeder : stage'[i] \notin InFlight BY <1>3, <1>7
  <2>2. Undisturbed(t) BY <2>1 DEF TrainingInv
  <2>3. UNCHANGED <<tables, truth>> BY <2>2, QuietSeeding DEF Undisturbed, Seeding
  <2> QED BY <1>2, <2>1, <2>2, <2>3 DEF Undisturbed, SeedOf
<1> QED BY <1>5, <1>6, <1>7 DEF TrainingInv

\* A run at work, and every other that is, has only itself as undisturbed.
LEMMA OthersDisturbed ==
  ASSUME TrainingInv, NEW t \in Trainer, step[t] \notin Over,
         NEW v \in Trainer, undisturbed[v]
  PROVE  v = t
  BY DEF TrainingInv, Undisturbed

LEMMA TrainKeepsTraining ==
  ASSUME TrainingInv, SeedingInv, NEW t \in Trainer, Train(t) \/ Abort(t)
  PROVE  TrainingInv'
<1> USE DEF Go, Forget, Over, Steps
<1>1. step[t] \notin Over /\ UNCHANGED seedingVars
  BY DEF Train, Abort, ReadEvents, LoadLabels, StartDump, FinishDump, Replace, OpenReport,
         WriteReport
<1>2. SeedingTypeOK' BY <1>1, TypeStep DEF TrainingInv, TypeOK
<1>3. tables \in Seeder \cup {None} /\ truth \in Seed \cup {None}
  BY DEF TrainingInv, TypeOK, SeedingTypeOK
<1>4. tables # None => SeedOf(tables) \in Seed BY <1>3, SeedsAreSeeds
<1>5. TypeOK'
  <2> USE <1>2 DEF TrainingInv, TypeOK
  <2>1. CASE ReadEvents(t) BY <1>4, <2>1 DEF ReadEvents
  <2>2. CASE LoadLabels(t) BY <1>3, <2>2 DEF LoadLabels
  <2>3. CASE StartDump(t) BY <2>3 DEF StartDump
  <2>8. CASE FinishDump(t) BY <2>8 DEF FinishDump, Fitted
  <2>4. CASE Replace(t) BY <2>4 DEF Replace, Fitted
  <2>5. CASE OpenReport(t) BY <2>5 DEF OpenReport
  <2>6. CASE WriteReport(t) BY <2>6 DEF WriteReport, Report, Fitted
  <2>7. CASE Abort(t) BY <2>7 DEF Abort
  <2> QED BY <2>1, <2>2, <2>3, <2>4, <2>5, <2>6, <2>7, <2>8 DEF Train
<1>6. Fitted'
  BY <1>3, <1>4 DEF TrainingInv, TypeOK, Fitted, Train, Abort, ReadEvents,
     LoadLabels, StartDump, FinishDump, Replace, OpenReport, WriteReport
<1>7. ModelIsWhole'
  BY TornAssumption DEF TrainingInv, Fitted, ModelIsWhole, Train, Abort, ReadEvents,
     LoadLabels, StartDump, FinishDump, Replace, OpenReport, WriteReport
<1>8. ASSUME NEW v \in Trainer, undisturbed'[v] PROVE Undisturbed(v)'
  <2>1. undisturbed[v]
    BY <1>8 DEF TrainingInv, TypeOK, Train, Abort, ReadEvents, LoadLabels, StartDump, FinishDump,
       Replace, OpenReport, WriteReport
  <2>2. v = t BY <1>1, <2>1, OthersDisturbed
  <2>3. Undisturbed(t) BY <2>1, <2>2 DEF TrainingInv
  <2>4. UNCHANGED <<tables, truth, stage>> BY <1>1 DEF seedingVars
  <2>5. step' = [step EXCEPT ![t] = step'[t]]
    BY DEF TrainingInv, TypeOK, Train, Abort, ReadEvents, LoadLabels, StartDump, FinishDump,
       Replace, OpenReport, WriteReport
  <2>6. CASE Train(t) /\ ~WriteReport(t)
    <3> USE <1>3, <2>2, <2>3, <2>4, <2>5 DEF TrainingInv, TypeOK, Undisturbed, SeedOf
    <3>1. CASE ReadEvents(t) BY <3>1 DEF ReadEvents
    <3>2. CASE LoadLabels(t) BY <3>2 DEF LoadLabels
    <3>3. CASE StartDump(t) \/ FinishDump(t) BY <3>3 DEF StartDump, FinishDump
    <3>4. CASE Replace(t) BY <3>4 DEF Replace, Fitted
    <3>5. CASE OpenReport(t) BY <3>5 DEF OpenReport
    <3> QED BY <2>6, <3>1, <3>2, <3>3, <3>4, <3>5 DEF Train
  <2>7. CASE WriteReport(t) \/ Abort(t)
    BY <1>8, <2>2, <2>7 DEF TrainingInv, TypeOK, WriteReport, Abort
  <2> QED BY <2>6, <2>7
<1> QED BY <1>5, <1>6, <1>7, <1>8 DEF TrainingInv

LEMMA BeginKeepsTraining ==
  ASSUME TrainingInv, NEW t \in Trainer, Begin(t)
  PROVE  TrainingInv'
<1> USE DEF Go, Over, Steps
<1>1. UNCHANGED seedingVars /\ step' = [step EXCEPT ![t] = "read"] BY DEF Begin
<1>2. SeedingTypeOK' BY <1>1, TypeStep DEF TrainingInv, TypeOK
<1>3. undisturbed' = [u \in Trainer |->
        /\ u = t /\ truth = SeedOf(tables)
        /\ \A i \in Seeder : stage[i] \notin InFlight
        /\ \A v \in Trainer \ {t} : step[v] \in Over]
  BY DEF Begin
<1>4. undisturbed' \in [Trainer -> BOOLEAN] BY <1>3
<1>5. TypeOK' BY <1>1, <1>2, <1>4 DEF TrainingInv, TypeOK, Begin
<1>6. Fitted' BY <1>1 DEF TrainingInv, TypeOK, Fitted, Begin
<1>7. ModelIsWhole' BY TornAssumption DEF TrainingInv, ModelIsWhole, Begin
<1>8. ASSUME NEW v \in Trainer, undisturbed'[v] PROVE Undisturbed(v)'
  <2>1. v = t BY <1>3, <1>8
  <2> QED BY <1>1, <1>3, <1>8, <2>1 DEF Undisturbed, SeedOf, TrainingInv, TypeOK, seedingVars
<1> QED BY <1>5, <1>6, <1>7, <1>8 DEF TrainingInv

LEMMA TrainingStep ==
  ASSUME TrainingInv, SeedingInv, [Next]_vars
  PROVE  TrainingInv'
<1>1. CASE Seeding BY <1>1, SeedingKeepsTraining
<1>2. ASSUME NEW t \in Trainer, Begin(t) PROVE TrainingInv' BY <1>2, BeginKeepsTraining
<1>3. ASSUME NEW t \in Trainer, Train(t) \/ Abort(t) PROVE TrainingInv'
  BY <1>3, TrainKeepsTraining
<1>4. CASE UNCHANGED vars
  BY <1>4 DEF vars, seedingVars, trainingVars, TrainingInv, TypeOK, SeedingTypeOK,
              Fitted, ModelIsWhole, Undisturbed, SeedOf
<1> QED BY <1>1, <1>2, <1>3, <1>4 DEF Next

(* The inductive invariant the results about the training follow from.    *)
THEOREM TrainingInvariance == Spec => []TrainingInv
<1>1. TrainingInv /\ SeedingInv /\ [Next]_vars => TrainingInv' BY TrainingStep
<1> QED BY TrainingInitInv, TrainingSeeds, <1>1, PTL DEF Spec

-----------------------------------------------------------------------------
(* The model the API loads is never half written, with any number of runs  *)
(* that save at the same time, die while a file is torn, and remove each   *)
(* other's files: what is moved into place is a file whose dump has        *)
(* returned (Fitted).                                                      *)
THEOREM ModelsAreWhole == Spec => []ModelIsWhole
<1>1. TrainingInv => ModelIsWhole BY DEF TrainingInv
<1> QED BY TrainingInvariance, <1>1, PTL

AgreesInTheEnd ==
  \A t \in Trainer :
    step[t] # "done" /\ step'[t] = "done" /\ undisturbed[t]
    => /\ model = SeedOf(tables)
       /\ report' = [model |-> model, labels |-> model]

(* A lone run that succeeds has written the report of its model.           *)
LEMMA AgreementStep ==
  ASSUME TrainingInv, [Next]_vars
  PROVE  AgreesInTheEnd
<1> SUFFICES ASSUME NEW t \in Trainer,
                    step[t] # "done", step'[t] = "done", undisturbed[t]
             PROVE  model = SeedOf(tables) /\ report' = [model |-> model, labels |-> model]
  BY DEF AgreesInTheEnd
<1>1. WriteReport(t)
  <2> USE DEF TrainingInv, TypeOK, Go
  <2>1. step' # step OBVIOUS
  <2>2. ~Seeding /\ ~UNCHANGED vars BY <2>1 DEF Seeding, Aside, vars, trainingVars
  <2>3. ASSUME NEW u \in Trainer, Begin(u) PROVE FALSE BY <2>3 DEF Begin
  <2>4. ASSUME NEW u \in Trainer, Abort(u) PROVE FALSE BY <2>4 DEF Abort
  <2>5. ASSUME NEW u \in Trainer,
               \/ ReadEvents(u) \/ LoadLabels(u) \/ StartDump(u)
               \/ FinishDump(u) \/ Replace(u) \/ OpenReport(u)
        PROVE  FALSE
    BY <2>5 DEF ReadEvents, LoadLabels, StartDump, FinishDump, Replace, OpenReport
  <2>6. ASSUME NEW u \in Trainer, WriteReport(u) PROVE u = t BY <2>6 DEF WriteReport
  <2> HIDE DEF TrainingInv, TypeOK, Go
  <2>7. PICK u \in Trainer : WriteReport(u) BY <2>2, <2>3, <2>4, <2>5 DEF Next, Train
  <2>8. u = t BY <2>6, <2>7
  <2> QED BY <2>7, <2>8, Zenon
<1>2. Undisturbed(t) BY DEF TrainingInv
<1> QED BY <1>1, <1>2 DEF Undisturbed, WriteReport

(* An undisturbed run that succeeds leaves model, report and dataset of    *)
(* one seed.                                                               *)
THEOREM LoneTrainingsAgree == Spec => LoneTrainingAgrees
<1>1. TrainingInv /\ [Next]_vars => AgreesInTheEnd BY AgreementStep
<1> QED BY TrainingInvariance, <1>1, PTL DEF Spec, LoneTrainingAgrees, AgreesInTheEnd

(* The results about the seeding, of the system with its trainings.        *)
THEOREM DatasetsStayMarked == Spec => []MarkedDataset
<1>1. SeedingInv => MarkedDataset BY DEF SeedingInv
<1> QED BY TrainingSeeds, <1>1, PTL

(* A lone marker stays the only one, whatever trains.                      *)
THEOREM MarkerStaysOne == Spec => []OneMarker
<1>1. SeedingInv => OneMarker BY DEF SeedingInv, Lone, OneMarker
<1> QED BY TrainingSeeds, <1>1, PTL

=============================================================================
