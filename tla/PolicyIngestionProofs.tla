------------------------ MODULE PolicyIngestionProofs ------------------------
(***************************************************************************)
(* Theorems of PolicyIngestion, for any number of runs, directories, files *)
(* and configurations.                                                     *)
(***************************************************************************)
EXTENDS PolicyIngestion, TLAPS

\* The chunks of a document are chunks.
LEMMA ChunksAreChunks ==
  ASSUME NEW d \in Document, NEW v \in Version, NEW c \in Config
  PROVE  /\ ChunksOf(d, v, c) \subseteq Chunk
         /\ \A e \in ChunksOf(d, v, c) :
              e.doc = d /\ e.config = c /\ e.version = v
BY PiecesAssumption DEF ChunksOf, Chunk

LEMMA JobsAreJobs ==
  ASSUME NEW j \in Job
  PROVE  j.root \in Root /\ j.config \in Config /\ j.prune \in BOOLEAN /\ j # None
BY JobAssumption DEF Job_

LEMMA DocIsDocument ==
  ASSUME NEW r \in Root, NEW p \in Path
  PROVE  Doc(r, p) \in Document /\ Doc(r, p).corpus = CorpusOf[r] /\ Doc(r, p).path = p
BY DEF Doc, Document

(***************************************************************************)
(* Types.                                                                  *)
(***************************************************************************)
LEMMA TypeInit == Init => TypeOK
<1>. SUFFICES ASSUME Init PROVE TypeOK
  OBVIOUS
<1>1. \A i \in Ingestor : ~Active(i) /\ job[i] = None /\ path[i] = None /\ stage[i] = "idle"
  BY DEF Init, Active
<1>2. /\ points \subseteq Chunk
      /\ stage \in [Ingestor -> Stage]
      /\ job \in [Ingestor -> Job \cup {None}]
      /\ path \in [Ingestor -> Path \cup {None}]
  BY DEF Init, Stage
<1>3. QED BY <1>1, <1>2 DEF Init, TypeOK

\* A run that exits keeps the types, given the collection it leaves.
LEMMA TypeExit ==
  ASSUME TypeOK, NEW i \in Ingestor, NEW error \in BOOLEAN, Exit(i, error),
         points' \subseteq Chunk
  PROVE  TypeOK'
BY PathAssumption, JobAssumption DEF TypeOK, Exit, Active, Stage

\* What a request does leaves chunks in the collection.
LEMMA RequestedTyped ==
  ASSUME TypeOK, NEW i \in Ingestor
  PROVE  Requested(i) \subseteq Chunk
BY DEF TypeOK, Requested, New, Obsolete

LEMMA TypeStep == TypeOK /\ [Next]_vars => TypeOK'
<1>. SUFFICES ASSUME TypeOK, [Next]_vars PROVE TypeOK'
  OBVIOUS
<1>. USE PathAssumption
<1>0. ASSUME NEW i \in Ingestor, Active(i)
      PROVE  /\ job[i] \in Job /\ job[i].root \in Root /\ job[i].config \in Config
  BY <1>0, JobsAreJobs DEF TypeOK
<1>1. ASSUME NEW i \in Ingestor, Start(i) PROVE TypeOK'
  <2>1. PICK j \in Job :
          /\ job' = [job EXCEPT ![i] = j]
          /\ quiet' = [k \in Ingestor |->
               IF k = i
               THEN \A o \in Ingestor : Active(o) => Agree(job[o], touched[o], j)
               ELSE quiet[k] /\ (Active(k) => Agree(job[k], touched[k], j))]
    BY <1>1 DEF Start
  <2>2. clashed' \in BOOLEAN BY <1>1 DEF Start, TypeOK
  <2>3. quiet' \in [Ingestor -> BOOLEAN] BY <2>1 DEF TypeOK
  <2>4. stage' \in [Ingestor -> Stage] BY <1>1 DEF TypeOK, Start, Stage
  <2>5. \A k \in Ingestor :
          /\ (stage[k] # "idle")' <=> job'[k] # None
          /\ path'[k] # None <=> stage'[k] \in {"compare", "upsert", "delete"}
    BY <1>1, <2>1, JobAssumption DEF TypeOK, Start, Active, locals
  <2>6. QED BY <1>1, <2>1, <2>2, <2>3, <2>4, <2>5 DEF TypeOK, Start, Active, locals
<1>2. ASSUME NEW i \in Ingestor, Validate(i) PROVE TypeOK'
  <2>1. clashed' \in BOOLEAN BY <1>2 DEF TypeOK, Validate
  <2>2. QED BY <1>2, <2>1 DEF TypeOK, Validate, Active, Stage, locals
<1>3. ASSUME NEW i \in Ingestor, Refuse(i) PROVE TypeOK'
  BY <1>3, TypeExit DEF Refuse, TypeOK
<1>4. ASSUME NEW i \in Ingestor, List(i) PROVE TypeOK'
  BY <1>4 DEF TypeOK, List, Active, Stage, locals, history
<1>5. ASSUME NEW i \in Ingestor, Load(i) PROVE TypeOK'
  <2>1. Active(i) BY <1>5 DEF Load, Active
  <2>2. PICK p \in todo[i] :
          /\ files[job[i].root][p] \in Version
          /\ todo' = [todo EXCEPT ![i] = @ \ {p}]
          /\ path' = [path EXCEPT ![i] = p]
          /\ seen' = [seen EXCEPT ![i] = @ \cup {Doc(job[i].root, p)}]
          /\ desired' = [desired EXCEPT ![i] =
                ChunksOf(Doc(job[i].root, p), files[job[i].root][p], job[i].config)]
    BY <1>5 DEF Load
  <2>3. p \in Path /\ Doc(job[i].root, p) \in Document
    BY <1>0, <2>1, DocIsDocument DEF TypeOK
  <2>4. ChunksOf(Doc(job[i].root, p), files[job[i].root][p], job[i].config)
          \subseteq Chunk
    BY <1>0, <2>1, <2>2, <2>3, ChunksAreChunks
  <2>5. QED BY <1>5, <2>2, <2>3, <2>4 DEF TypeOK, Load, Active, Stage, history
<1>6. ASSUME NEW i \in Ingestor, LoadFails(i) PROVE TypeOK'
  BY <1>6 DEF TypeOK, LoadFails, NextFile, Active, Stage, history
<1>7. ASSUME NEW i \in Ingestor, Compare(i) PROVE TypeOK'
  BY <1>7 DEF TypeOK, Compare, NextFile, Active, Stage, history
<1>8. ASSUME NEW i \in Ingestor, Upsert(i) PROVE TypeOK'
  BY <1>8 DEF TypeOK, Upsert, New, Active, Stage, locals, history
<1>9. ASSUME NEW i \in Ingestor, Delete(i) PROVE TypeOK'
  BY <1>9 DEF TypeOK, Delete, NextFile, Active, Stage, history
<1>10. ASSUME NEW i \in Ingestor, RequestFails(i) PROVE TypeOK'
  <2>1. points' \subseteq Chunk
    BY <1>10, RequestedTyped DEF TypeOK, RequestFails
  <2>2. QED BY <1>10, <2>1 DEF TypeOK, RequestFails, NextFile, Active, Stage, history
<1>11. ASSUME NEW i \in Ingestor, Finish(i) PROVE TypeOK'
  BY <1>11, TypeExit DEF Finish, TypeOK
<1>12. ASSUME NEW i \in Ingestor, PruneReads(i) PROVE TypeOK'
  BY <1>12 DEF TypeOK, PruneReads, Stale, Active, Stage, history
<1>13. ASSUME NEW i \in Ingestor, PruneDeletes(i) PROVE TypeOK'
  BY <1>13, TypeExit DEF PruneDeletes, TypeOK
<1>14. ASSUME NEW i \in Ingestor, Abort(i) PROVE TypeOK'
  <2>1. points' \subseteq Chunk
    BY <1>14, RequestedTyped DEF TypeOK, Abort
  <2>2. QED BY <1>14, <2>1, TypeExit DEF Abort
<1>15. ASSUME NEW r \in Root, NEW p \in Path, Edit(r, p) PROVE TypeOK'
  BY <1>15, ContentsAssumption DEF TypeOK, Edit, Active, locals
<1>16. CASE UNCHANGED vars
  BY <1>16 DEF TypeOK, vars, locals, history, Active
<1>17. QED
  BY <1>1, <1>2, <1>3, <1>4, <1>5, <1>6, <1>7, <1>8, <1>9, <1>10, <1>11, <1>12,
     <1>13, <1>14, <1>15, <1>16 DEF Next, Step

\* The variables keep their types, and a run holds a document only while it
\* works on one.
THEOREM IngestionTypeCorrect == Spec => []TypeOK
BY TypeInit, TypeStep, PTL DEF Spec

-----------------------------------------------------------------------------
(***************************************************************************)
(* What a step of one run leaves quiet.                                    *)
(***************************************************************************)
InLoop(i) == stage[i] \in {"compare", "upsert", "delete"}

\* Nothing of run k changes.
Same(k) ==
  /\ stage'[k] = stage[k] /\ job'[k] = job[k] /\ failed'[k] = failed[k]
  /\ todo'[k] = todo[k] /\ path'[k] = path[k] /\ seen'[k] = seen[k]
  /\ desired'[k] = desired[k] /\ existing'[k] = existing[k]
  /\ stale'[k] = stale[k]

LEMMA ExitIsLocal ==
  ASSUME TypeOK, NEW i \in Ingestor, NEW error \in BOOLEAN, Exit(i, error)
  PROVE  /\ \A k \in Ingestor \ {i} : Same(k) /\ quiet'[k] = quiet[k]
                                      /\ touched'[k] = touched[k]
         /\ files' = files /\ clashed' = clashed /\ stage'[i] = "idle"
         /\ desired'[i] = {} /\ existing'[i] = {} /\ stale'[i] = {}
         /\ job'[i] = None
BY DEF Exit, Same, TypeOK

\* Another run keeps all it has, except that it may no longer be quiet.
LEMMA StepIsLocal ==
  ASSUME TypeOK, NEW i \in Ingestor, Step(i), NEW k \in Ingestor \ {i}
  PROVE  /\ Same(k) /\ files' = files /\ touched'[k] = touched[k]
         /\ quiet'[k] => quiet[k]
         /\ quiet'[k] = quiet[k] \/ Start(i)
<1>1. CASE Start(i)
  BY <1>1 DEF Start, Same, locals, TypeOK
<1>2. CASE Validate(i) \/ List(i) \/ Load(i) \/ PruneReads(i)
  BY <1>2 DEF Validate, List, Load, PruneReads, Same, locals, history, TypeOK
<1>3. CASE LoadFails(i) \/ Delete(i) \/ RequestFails(i) \/ Upsert(i)
  BY <1>3 DEF LoadFails, Delete, RequestFails, Upsert, NextFile, Same, locals, history, TypeOK
<1>4. CASE Compare(i)
  BY <1>4 DEF Compare, NextFile, Same, history, TypeOK
<1>5. CASE Refuse(i) \/ Finish(i) \/ PruneDeletes(i) \/ Abort(i)
  <2>1. failed[i] \in BOOLEAN BY DEF TypeOK
  <2>2. PICK error \in BOOLEAN : Exit(i, error)
    BY <1>5, <2>1 DEF Refuse, Finish, PruneDeletes, Abort
  <2>3. QED BY <2>2, ExitIsLocal
<1>6. QED BY <1>1, <1>2, <1>3, <1>4, <1>5 DEF Step

\* The collection changes only by the request under way.
LEMMA PointsChange ==
  ASSUME TypeOK, NEW i \in Ingestor, Step(i)
  PROVE  points' = points \/ (Active(i) /\ points' = Requested(i))
<1>1. CASE Start(i) \/ Validate(i) \/ List(i) \/ Load(i) \/ PruneReads(i)
           \/ LoadFails(i) \/ Refuse(i) \/ Finish(i) \/ Compare(i)
  BY <1>1 DEF Start, Validate, List, Load, PruneReads, LoadFails, Refuse,
              Finish, Compare
<1>2. CASE Upsert(i) \/ Delete(i) \/ PruneDeletes(i)
  BY <1>2 DEF Upsert, Delete, PruneDeletes, Requested, Active
<1>3. CASE RequestFails(i) \/ Abort(i)
  BY <1>3 DEF RequestFails, Abort, Active
<1>4. QED BY <1>1, <1>2, <1>3 DEF Step

\* What a request may take away.
LEMMA Removed ==
  ASSUME NEW i \in Ingestor, NEW c \in points \ Requested(i)
  PROVE  \/ stage[i] = "delete" /\ c \in Obsolete(i)
         \/ stage[i] = "prune_delete" /\ c \in stale[i]
BY DEF Requested

-----------------------------------------------------------------------------
(***************************************************************************)
(* What a run holds: the chunks of the document in hand, points of that    *)
(* document, and stale points of its own corpus.                           *)
(***************************************************************************)
HandOf(i) ==
  /\ InLoop(i) => \E v \in Version :
                    desired[i] = ChunksOf(InHand(i), v, job[i].config)
  /\ ~InLoop(i) => desired[i] = {} /\ existing[i] = {}
  /\ \A c \in existing[i] : c.doc = InHand(i)
  /\ stage[i] # "prune_delete" => stale[i] = {}
  /\ \A c \in stale[i] : /\ c.doc.corpus = CorpusOf[job[i].root]
                         /\ c.doc \notin seen[i]

HandOK == \A i \in Ingestor : HandOf(i)

LEMMA HandInit == Init => HandOK
BY DEF Init, HandOK, HandOf, InLoop

LEMMA HandStep == TypeOK /\ HandOK /\ [Next]_vars => HandOK'
<1>. SUFFICES ASSUME TypeOK, HandOK, [Next]_vars PROVE HandOK'
  OBVIOUS
<1>. USE DEF HandOK
<1>0. ASSUME NEW k \in Ingestor, Same(k) PROVE HandOf(k)'
  <2>1. HandOf(k) OBVIOUS
  <2>2. InHand(k)' = InHand(k) BY <1>0 DEF Same, InHand
  <2>3. QED BY <1>0, <2>1, <2>2 DEF HandOf, Same, InLoop
<1>1. ASSUME NEW i \in Ingestor, Step(i) PROVE HandOf(i)'
  <2>0. HandOf(i) OBVIOUS
  <2>1. CASE Start(i) \/ Validate(i) \/ List(i)
    BY <2>0, <2>1 DEF Start, Validate, List, HandOf, InLoop, locals, TypeOK
  <2>2. CASE Load(i)
    <3>1. PICK p \in todo[i] :
            /\ files[job[i].root][p] \in Version
            /\ path' = [path EXCEPT ![i] = p]
            /\ desired' = [desired EXCEPT ![i] =
                  ChunksOf(Doc(job[i].root, p), files[job[i].root][p], job[i].config)]
      BY <2>2 DEF Load
    <3>2. InHand(i)' = Doc(job[i].root, p) /\ job' = job
      BY <2>2, <3>1 DEF Load, InHand, TypeOK
    <3>3. desired'[i] = ChunksOf(InHand(i)', files[job[i].root][p], job'[i].config)
      BY <3>1, <3>2 DEF TypeOK
    <3>4. stage'[i] = "compare" /\ existing'[i] = {} /\ stale'[i] = {}
      BY <2>0, <2>2 DEF Load, HandOf, InLoop, TypeOK
    <3>5. QED BY <3>1, <3>3, <3>4 DEF HandOf, InLoop
  <2>3. CASE LoadFails(i) \/ Delete(i) \/ RequestFails(i)
    BY <2>0, <2>3 DEF LoadFails, Delete, RequestFails, NextFile, HandOf, InLoop, TypeOK
  <2>4. CASE Compare(i)
    <3>1. CASE stage'[i] = "load"
      BY <2>0, <2>4, <3>1 DEF Compare, NextFile, HandOf, InLoop, TypeOK
    <3>2. CASE stage'[i] # "load"
      <4>1. existing' = [existing EXCEPT ![i] = {c \in points : c.doc = InHand(i)}]
        BY <2>4, <3>2 DEF Compare, NextFile, TypeOK
      <4>2. /\ stage'[i] \in {"upsert", "delete"} /\ UNCHANGED <<job, path, desired, stale>>
        BY <2>4, <3>2 DEF Compare, NextFile, TypeOK
      <4>3. InHand(i)' = InHand(i) BY <4>2 DEF InHand
      <4>4. existing'[i] = {c \in points : c.doc = InHand(i)}
        BY <4>1 DEF TypeOK
      <4>5. stale[i] = {} BY <2>0, <2>4 DEF HandOf, Compare
      <4>6. QED BY <2>0, <2>4, <4>2, <4>3, <4>4, <4>5 DEF HandOf, InLoop, Compare
    <3>3. QED BY <3>1, <3>2
  <2>5. CASE Upsert(i)
    <3>1. InHand(i)' = InHand(i) BY <2>5 DEF Upsert, InHand, locals
    <3>2. QED BY <2>0, <2>5, <3>1 DEF Upsert, HandOf, InLoop, locals, TypeOK
  <2>6. CASE PruneReads(i)
    <3>1. stale'[i] = Stale(i) /\ stage'[i] = "prune_delete"
          /\ UNCHANGED <<job, seen, desired, existing>>
      BY <2>6 DEF PruneReads, TypeOK
    <3>2. \A c \in Stale(i) : /\ c.doc.corpus = CorpusOf[job[i].root]
                              /\ c.doc \notin seen[i]
      BY DEF Stale
    <3>3. desired[i] = {} /\ existing[i] = {}
      BY <2>0, <2>6 DEF HandOf, InLoop, PruneReads
    <3>4. QED BY <3>1, <3>2, <3>3 DEF HandOf, InLoop
  <2>7. CASE Refuse(i) \/ Finish(i) \/ PruneDeletes(i) \/ Abort(i)
    <3>1. failed[i] \in BOOLEAN BY DEF TypeOK
    <3>2. PICK error \in BOOLEAN : Exit(i, error)
      BY <2>7, <3>1 DEF Refuse, Finish, PruneDeletes, Abort
    <3>3. QED BY <3>2, ExitIsLocal DEF HandOf, InLoop
  <2>8. QED BY <1>1, <2>1, <2>2, <2>3, <2>4, <2>5, <2>6, <2>7 DEF Step
<1>2. ASSUME NEW r \in Root, NEW p \in Path, Edit(r, p), NEW k \in Ingestor
      PROVE  Same(k)
  BY <1>2 DEF Edit, Same, locals
<1>3. CASE UNCHANGED vars
  BY <1>0, <1>3 DEF vars, locals, Same
<1>4. QED BY <1>0, <1>1, <1>2, <1>3, StepIsLocal DEF Next

LEMMA HandInvariance == Spec => [](TypeOK /\ HandOK)
BY TypeInit, TypeStep, HandInit, HandStep, PTL DEF Spec

(***************************************************************************)
(* No run deletes from a corpus other than its own.                        *)
(***************************************************************************)
THEOREM CorpusIsScope == Spec => ScopedToCorpus
<1>1. ASSUME TypeOK, HandOK, [Next]_vars, NEW c \in points \ points'
      PROVE  \E i \in Ingestor :
               Active(i) /\ c.doc.corpus = CorpusOf[job[i].root]
  <2>1. PICK i \in Ingestor : Step(i)
    BY <1>1 DEF Next, Edit, vars
  <2>2. Active(i) /\ points' = Requested(i)
    BY <1>1, <2>1, PointsChange
  <2>3. HandOf(i) BY <1>1 DEF HandOK
  <2>4. CASE stage[i] = "delete" /\ c \in Obsolete(i)
    <3>1. c.doc = InHand(i) BY <2>3, <2>4 DEF HandOf, Obsolete
    <3>2. job[i].root \in Root /\ path[i] \in Path
      BY <1>1, <2>2, <2>4, JobsAreJobs DEF TypeOK
    <3>3. c.doc.corpus = CorpusOf[job[i].root]
      BY <3>1, <3>2, DocIsDocument DEF InHand
    <3>4. QED BY <2>2, <3>3
  <2>5. CASE stage[i] = "prune_delete" /\ c \in stale[i]
    BY <2>2, <2>3, <2>5 DEF HandOf
  <2>6. QED BY <1>1, <2>2, <2>4, <2>5, Removed
<1>. DEFINE Scoped == \A c \in points \ points' :
                        \E i \in Ingestor :
                          Active(i) /\ c.doc.corpus = CorpusOf[job[i].root]
<1>2. TypeOK /\ HandOK /\ [Next]_vars => Scoped
  BY <1>1
<1>. QED BY <1>2, HandInvariance, PTL DEF Spec, ScopedToCorpus

-----------------------------------------------------------------------------
(***************************************************************************)
(* One configuration: without a clash, runs past their checks have that of *)
(* every point, and of each other.                                         *)
(***************************************************************************)
ConfigOK ==
  clashed \/ /\ \A c, d \in points : c.config = d.config
             /\ \A i, k \in Ingestor :
                  Checked(i) /\ Checked(k) => job[i].config = job[k].config
             /\ \A i \in Ingestor :
                  Checked(i) => \A c \in points : c.config = job[i].config

LEMMA ConfigInit == Init => ConfigOK
BY DEF Init, ConfigOK, Checked

\* Chunks in hand have the configuration of the run.
LEMMA DesiredConfig ==
  ASSUME TypeOK, HandOK, NEW i \in Ingestor, NEW c \in desired[i]
  PROVE  Active(i) /\ c.config = job[i].config /\ c.doc = InHand(i)
<1>1. HandOf(i) /\ InLoop(i) BY DEF HandOK, HandOf
<1>2. Active(i) /\ job[i].root \in Root /\ job[i].config \in Config /\ path[i] \in Path
  BY <1>1, JobsAreJobs DEF TypeOK, InLoop, Active
<1>3. InHand(i) \in Document BY <1>2, DocIsDocument DEF InHand
<1>4. PICK v \in Version : desired[i] = ChunksOf(InHand(i), v, job[i].config)
  BY <1>1 DEF HandOf
<1>5. QED BY <1>2, <1>3, <1>4, ChunksAreChunks

\* A point that appears is a chunk in hand.
LEMMA Added ==
  ASSUME NEW i \in Ingestor, NEW c \in Requested(i) \ points
  PROVE  stage[i] = "upsert" /\ c \in desired[i]
BY DEF Requested, New

LEMMA ConfigStep == TypeOK /\ HandOK /\ ConfigOK /\ [Next]_vars => ConfigOK'
<1>. SUFFICES ASSUME TypeOK, HandOK, ConfigOK, [Next]_vars, ~clashed' PROVE ConfigOK'
  BY DEF ConfigOK
<1>1. ASSUME NEW i \in Ingestor, Step(i) PROVE ConfigOK'
  <2>0. ~clashed
    BY <1>1 DEF Step, Start, Validate, Refuse, List, Load, LoadFails, Compare,
       Upsert, Delete, RequestFails, Finish, PruneReads, PruneDeletes, Abort,
       NextFile, Exit, history
  <2>1. \A k \in Ingestor \ {i} : Same(k) BY <1>1, StepIsLocal
  <2>2. CASE Validate(i)
    <3>1. points' = points /\ job' = job BY <2>2 DEF Validate
    <3>2. \A c \in points : c.config = job[i].config
      BY <2>0, <2>2 DEF Validate, ConfigOK
    <3>3. ASSUME NEW k \in Ingestor, Checked(k) PROVE job[k].config = job[i].config
      <4>1. CASE points = {} BY <2>2, <3>3, <4>1 DEF Validate
      <4>2. CASE points # {} BY <2>0, <3>2, <3>3, <4>2 DEF ConfigOK
      <4>3. QED BY <4>1, <4>2
    <3>4. \A k \in Ingestor : Checked(k)' => k = i \/ Checked(k)
      BY <2>1 DEF Checked, Same
    <3>5. QED BY <2>0, <3>1, <3>2, <3>3, <3>4 DEF ConfigOK
  <2>3. CASE ~Validate(i)
    <3>1. Checked(i)' => Checked(i) /\ job'[i] = job[i]
      BY <1>1, <2>3 DEF Step, Start, Refuse, List, Load, LoadFails, Compare, Upsert,
         Delete, RequestFails, Finish, PruneReads, PruneDeletes, Abort, NextFile,
         Exit, Checked, TypeOK
    <3>2. \A k \in Ingestor : Checked(k)' => Checked(k) /\ job'[k] = job[k]
      BY <2>1, <3>1 DEF Checked, Same
    <3>3. ASSUME NEW c \in points' PROVE c \in points \/
               (Checked(i) /\ c.config = job[i].config)
      <4>1. CASE c \notin points
        <5>1. points' = Requested(i) BY <1>1, <3>3, <4>1, PointsChange
        <5>2. stage[i] = "upsert" /\ c \in desired[i] BY <3>3, <4>1, <5>1, Added
        <5>3. QED BY <5>2, DesiredConfig DEF Checked
      <4>2. QED BY <4>1
    <3>4. \A c, d \in points' : c.config = d.config
      BY <2>0, <3>3 DEF ConfigOK
    <3>5. ASSUME NEW k \in Ingestor, Checked(k)', NEW c \in points'
          PROVE  c.config = job'[k].config
      BY <2>0, <3>2, <3>3, <3>5 DEF ConfigOK
    <3>6. QED BY <2>0, <3>2, <3>4, <3>5 DEF ConfigOK
  <2>4. QED BY <2>2, <2>3
<1>2. CASE UNCHANGED vars \/ \E r \in Root, p \in Path : Edit(r, p)
  BY <1>2 DEF Edit, vars, locals, history, ConfigOK, Checked
<1>3. QED BY <1>1, <1>2 DEF Next

(***************************************************************************)
(* The collection holds one configuration unless a check of the empty one  *)
(* met a run of another that was past its own.                             *)
(***************************************************************************)
THEOREM ConfigurationIsOne == Spec => []OneConfiguration
<1>1. ConfigOK => OneConfiguration BY DEF ConfigOK, OneConfiguration
<1>2. QED BY <1>1, TypeInit, TypeStep, HandInit, HandStep, ConfigInit, ConfigStep,
             PTL DEF Spec

\* docs/rag.md holds, and no mismatched index is served, except after a race of
\* two checks: the whole extent of what the run mixed_index shows.
THEOREM OnlyRacesMismatch == Spec => [](clashed \/ NoMismatchServed)
<1>1. OneConfiguration => clashed \/ NoMismatchServed
  BY DEF OneConfiguration, NoMismatchServed
<1>2. QED BY <1>1, ConfigurationIsOne, PTL

-----------------------------------------------------------------------------
(***************************************************************************)
(* A run whose directory did not change: every listed file is to come, in  *)
(* hand, loaded or failed, and only these are.                             *)
(***************************************************************************)
Listed(i) == stage[i] \in {"load", "compare", "upsert", "delete", "prune_delete"}

FileOK(i, p, content) ==
  /\ content = Absent => p \notin todo[i] /\ Doc(job[i].root, p) \notin seen[i]
  /\ content = Unreadable => p \in todo[i] \/ failed[i]
  /\ content \in Version => p \in todo[i] \/ Doc(job[i].root, p) \in seen[i]

LoopOf(i) ==
  /\ \A p \in Path : FileOK(i, p, files[job[i].root][p])
  /\ InLoop(i) =>
       /\ files[job[i].root][path[i]] \in Version
       /\ desired[i] = ChunksOf(InHand(i), files[job[i].root][path[i]], job[i].config)
  /\ stage[i] = "prune_delete" => todo[i] = {} /\ ~failed[i]

LoopOK ==
  \A i \in Ingestor :
    /\ ~Listed(i) => seen[i] = {}
    /\ Listed(i) /\ ~touched[i] => LoopOf(i)

\* Paths of one directory name different documents.
LEMMA DocInjective ==
  ASSUME NEW r, NEW p, NEW q, Doc(r, p) = Doc(r, q) PROVE p = q
BY DEF Doc

LEMMA LoopInit == Init => LoopOK
BY DEF Init, LoopOK, Active, Listed

LEMMA LoopStep == TypeOK /\ HandOK /\ LoopOK /\ [Next]_vars => LoopOK'
<1>. SUFFICES ASSUME TypeOK, HandOK, LoopOK, [Next]_vars PROVE LoopOK'
  OBVIOUS
<1>. DEFINE Kept(k) == /\ ~Listed(k) => seen[k] = {}
                       /\ Listed(k) /\ ~touched[k] => LoopOf(k)
<1>1. ASSUME NEW k \in Ingestor, Same(k), files' = files, touched'[k] = touched[k]
      PROVE  Kept(k)'
  <2>1. Kept(k) BY DEF LoopOK
  <2>2. InHand(k)' = InHand(k) BY <1>1 DEF Same, InHand
  <2>3. \A p, c : FileOK(k, p, c)' <=> FileOK(k, p, c)
    BY <1>1 DEF FileOK, Same
  <2>4. QED BY <1>1, <2>1, <2>2, <2>3 DEF LoopOf, Same, Active, Listed, InLoop
<1>2. ASSUME NEW i \in Ingestor, Step(i) PROVE Kept(i)'
  <2>0. Kept(i) /\ HandOf(i) BY DEF LoopOK, HandOK
  <2>1. CASE Start(i)
    <3>1. seen'[i] = seen[i] /\ stage'[i] = "validate"
      BY <2>1 DEF Start, locals, TypeOK
    <3>2. seen[i] = {} BY <2>0, <2>1 DEF Start, Listed
    <3>3. QED BY <3>1, <3>2 DEF Listed
  <2>2. CASE Validate(i)
    BY <2>0, <2>2 DEF Validate, locals, Listed, TypeOK
  <2>3. CASE List(i)
    <3>1. /\ todo'[i] = {p \in Path : files[job[i].root][p] # Absent}
          /\ stage'[i] = "load" /\ UNCHANGED <<files, job, seen>>
      BY <2>3 DEF List, TypeOK
    <3>2. seen[i] = {} BY <2>0, <2>3 DEF List, Listed
    <3>3. \A p \in Path : FileOK(i, p, files[job[i].root][p])'
      BY <3>1, <3>2, FileAssumption DEF FileOK
    <3>4. QED BY <3>1, <3>3 DEF LoopOf, Listed, InLoop
  <2>4. CASE Load(i)
    <3>1. PICK p \in todo[i] :
            /\ files[job[i].root][p] \in Version
            /\ todo' = [todo EXCEPT ![i] = @ \ {p}]
            /\ path' = [path EXCEPT ![i] = p]
            /\ seen' = [seen EXCEPT ![i] = @ \cup {Doc(job[i].root, p)}]
            /\ desired' = [desired EXCEPT ![i] =
                  ChunksOf(Doc(job[i].root, p), files[job[i].root][p], job[i].config)]
      BY <2>4 DEF Load
    <3>2. /\ todo'[i] = todo[i] \ {p} /\ path'[i] = p
          /\ seen'[i] = seen[i] \cup {Doc(job[i].root, p)}
          /\ desired'[i] = ChunksOf(Doc(job[i].root, p), files[job[i].root][p], job[i].config)
          /\ stage'[i] = "compare"
          /\ UNCHANGED <<files, job, failed, touched>>
      BY <2>4, <3>1 DEF Load, history, TypeOK
    <3>3. InHand(i)' = Doc(job[i].root, p) BY <3>2 DEF InHand
    <3>4. Listed(i) BY <2>4 DEF Load, Listed
    <3>5. ASSUME ~touched[i], NEW q \in Path
          PROVE  FileOK(i, q, files[job[i].root][q])'
      <4>1. FileOK(i, q, files[job[i].root][q]) BY <2>0, <3>4, <3>5 DEF LoopOf
      <4>2. CASE q = p BY <3>1, <3>2, <4>1, <4>2, FileAssumption DEF FileOK
      <4>3. CASE q # p
        <5>1. Doc(job[i].root, q) # Doc(job[i].root, p) BY <4>3, DocInjective
        <5>2. QED BY <3>2, <4>1, <4>3, <5>1 DEF FileOK
      <4>4. QED BY <4>2, <4>3
    <3>6. QED BY <3>1, <3>2, <3>3, <3>5 DEF LoopOf, Listed, InLoop
  <2>5. CASE LoadFails(i)
    <3>1. PICK p \in todo[i] :
            /\ files[job[i].root][p] \notin Version
            /\ todo' = [todo EXCEPT ![i] = @ \ {p}]
      BY <2>5 DEF LoadFails
    <3>2. /\ todo'[i] = todo[i] \ {p} /\ failed'[i] = TRUE /\ stage'[i] = "load"
          /\ UNCHANGED <<files, job, seen, touched>>
      BY <2>5, <3>1 DEF LoadFails, NextFile, history, TypeOK
    <3>3. Listed(i) BY <2>5 DEF LoadFails, Listed
    <3>4. ASSUME ~touched[i], NEW q \in Path
          PROVE  FileOK(i, q, files[job[i].root][q])'
      <4>1. FileOK(i, q, files[job[i].root][q]) BY <2>0, <3>3, <3>4 DEF LoopOf
      <4>2. QED BY <3>1, <3>2, <4>1 DEF FileOK
    <3>5. QED BY <3>2, <3>4 DEF LoopOf, Listed, InLoop
  <2>6. CASE Delete(i) \/ RequestFails(i) \/ Compare(i) \/ Upsert(i)
    <3>1. /\ UNCHANGED <<files, job, seen, todo, touched>>
          /\ failed[i] => failed'[i]
      BY <2>6 DEF Delete, RequestFails, Compare, Upsert, NextFile, locals, history, TypeOK
    <3>2. Listed(i)
      BY <2>6 DEF Delete, RequestFails, Compare, Upsert, Listed
    <3>3. \/ stage'[i] = "load"
          \/ InLoop(i) /\ InLoop(i)' /\ UNCHANGED <<path, desired>>
      BY <2>6 DEF Delete, RequestFails, Compare, Upsert, NextFile, locals, InLoop, TypeOK
    <3>4. ASSUME ~touched[i], NEW q \in Path
          PROVE  FileOK(i, q, files[job[i].root][q])'
      <4>1. FileOK(i, q, files[job[i].root][q]) BY <2>0, <3>2, <3>4 DEF LoopOf
      <4>2. QED BY <3>1, <4>1 DEF FileOK
    <3>5. CASE stage'[i] = "load"
      BY <3>1, <3>4, <3>5 DEF LoopOf, Listed, InLoop
    <3>6. CASE InLoop(i) /\ InLoop(i)' /\ UNCHANGED <<path, desired>>
      <4>1. InHand(i)' = InHand(i) BY <3>1, <3>6 DEF InHand
      <4>2. stage'[i] \in {"compare", "upsert", "delete"} BY <3>6 DEF InLoop
      <4>3. QED BY <2>0, <3>1, <3>2, <3>4, <3>6, <4>1, <4>2 DEF LoopOf, Listed, InLoop
    <3>7. QED BY <3>3, <3>5, <3>6
  <2>7. CASE PruneReads(i)
    <3>1. /\ stage'[i] = "prune_delete" /\ todo[i] = {} /\ ~failed[i]
          /\ UNCHANGED <<files, job, failed, todo, seen, touched>> /\ Listed(i)
      BY <2>7 DEF PruneReads, history, Listed, TypeOK
    <3>2. ASSUME ~touched[i], NEW q \in Path
          PROVE  FileOK(i, q, files[job[i].root][q])'
      <4>1. FileOK(i, q, files[job[i].root][q]) BY <2>0, <3>1, <3>2 DEF LoopOf
      <4>2. QED BY <3>1, <4>1 DEF FileOK
    <3>3. QED BY <3>1, <3>2 DEF LoopOf, Listed, InLoop
  <2>8. CASE Refuse(i) \/ Finish(i) \/ PruneDeletes(i) \/ Abort(i)
    <3>1. stage'[i] = "idle" /\ seen'[i] = {}
      BY <2>8 DEF Refuse, Finish, PruneDeletes, Abort, Exit, TypeOK
    <3>2. QED BY <3>1 DEF Listed
  <2>9. QED BY <1>2, <2>1, <2>2, <2>3, <2>4, <2>5, <2>6, <2>7, <2>8 DEF Step
<1>3. ASSUME NEW r \in Root, NEW p \in Path, Edit(r, p), NEW k \in Ingestor
      PROVE  Kept(k)'
  <2>1. Same(k) BY <1>3 DEF Edit, Same, locals
  <2>2. CASE Active(k) /\ job[k].root = r
    <3>1. touched'[k] = TRUE BY <1>3, <2>2 DEF Edit
    <3>2. QED BY <2>1, <3>1 DEF LoopOK, Same, Listed
  <2>3. CASE ~Active(k)
    BY <2>1, <2>3 DEF LoopOK, Same, Active, Listed
  <2>4. CASE Active(k) /\ job[k].root # r
    <3>1. touched'[k] = touched[k] BY <1>3, <2>4 DEF Edit, TypeOK
    <3>2. job[k].root \in Root BY <2>4, JobsAreJobs DEF TypeOK
    <3>3. files'[job[k].root] = files[job[k].root]
      BY <1>3, <2>4, <3>2 DEF Edit, TypeOK
    <3>4. Kept(k) BY DEF LoopOK
    <3>5. InHand(k)' = InHand(k) BY <2>1 DEF Same, InHand
    <3>6. \A q, c : FileOK(k, q, c)' <=> FileOK(k, q, c) BY <2>1 DEF FileOK, Same
    <3>7. job'[k] = job[k] BY <2>1 DEF Same
    <3>8. QED BY <2>1, <3>1, <3>3, <3>4, <3>5, <3>6, <3>7
            DEF LoopOf, Same, Listed, InLoop
  <2>5. QED BY <2>2, <2>3, <2>4
<1>4. CASE UNCHANGED vars
  BY <1>1, <1>4 DEF vars, locals, history, Same, LoopOK
<1>5. ASSUME NEW i \in Ingestor, Step(i), NEW k \in Ingestor \ {i} PROVE Kept(k)'
  BY <1>1, <1>5, StepIsLocal
<1>6. QED BY <1>2, <1>3, <1>4, <1>5 DEF Next, LoopOK

-----------------------------------------------------------------------------
(***************************************************************************)
(* A quiet run: those active with it have other documents, or want the     *)
(* same of the same unchanged files; and what it read of the collection    *)
(* is still good for what it is about to do.                               *)
(***************************************************************************)
PointsOf(d) == {c \in points : c.doc = d}

Together(i, k) ==
  \/ CorpusOf[job[i].root] # CorpusOf[job[k].root]
  \/ /\ job[i].root = job[k].root /\ job[i].config = job[k].config
     /\ ~touched[i] /\ ~touched[k]

QuietOf(i) ==
  /\ \A k \in Ingestor \ {i} : Active(k) => Together(i, k)
  /\ stage[i] = "upsert" =>
       /\ PointsOf(InHand(i)) \subseteq existing[i] \cup desired[i]
       /\ existing[i] \cap desired[i] \subseteq points
  /\ stage[i] = "delete" =>
       /\ PointsOf(InHand(i)) \subseteq existing[i] \cup desired[i]
       /\ desired[i] \subseteq points
  /\ stage[i] = "prune_delete" => Stale(i) \subseteq stale[i]

QuietOK == \A i \in Ingestor : Active(i) /\ quiet[i] => QuietOf(i)

LEMMA QuietInit == Init => QuietOK
BY DEF Init, QuietOK, Active

\* A step other than the start is one of an active run, and keeps its job and
\* its history.
LEMMA ActiveStep ==
  ASSUME TypeOK, NEW i \in Ingestor, Step(i), ~Start(i)
  PROVE  /\ Active(i)
         /\ Active(i)' => /\ job'[i] = job[i] /\ quiet'[i] = quiet[i]
                          /\ touched'[i] = touched[i]
BY DEF Step, Validate, Refuse, List, Load, LoadFails, Compare, Upsert, Delete,
   RequestFails, Finish, PruneReads, PruneDeletes, Abort, NextFile, Exit, history,
   Active, TypeOK

\* A chunk some file of the directory has now, under the configuration.
Wanted(j, c) ==
  \E p \in Path : /\ files[j.root][p] \in Version
                  /\ c \in ChunksOf(Doc(j.root, p), files[j.root][p], j.config)

\* A wanted chunk is one of the document it names.
LEMMA WantedOfItsFile ==
  ASSUME TypeOK, NEW i \in Ingestor, Active(i), NEW c, Wanted(job[i], c),
         NEW p \in Path, c.doc = Doc(job[i].root, p)
  PROVE  /\ files[job[i].root][p] \in Version
         /\ c \in ChunksOf(Doc(job[i].root, p), files[job[i].root][p], job[i].config)
<1>1. PICK q \in Path :
        /\ files[job[i].root][q] \in Version
        /\ c \in ChunksOf(Doc(job[i].root, q), files[job[i].root][q], job[i].config)
  BY DEF Wanted
<1>2. job[i].root \in Root /\ job[i].config \in Config
  BY JobsAreJobs DEF TypeOK
<1>3. c.doc = Doc(job[i].root, q)
  BY <1>1, <1>2, DocIsDocument, ChunksAreChunks
<1>4. p = q BY <1>3, DocInjective
<1>5. QED BY <1>1, <1>4

\* The chunks in hand are the wanted ones of the document in hand.
LEMMA DesiredIsWanted ==
  ASSUME TypeOK, NEW i \in Ingestor, InLoop(i), LoopOf(i), NEW c, c.doc = InHand(i)
  PROVE  c \in desired[i] <=> Wanted(job[i], c)
<1>1. Active(i) /\ path[i] \in Path BY DEF TypeOK, InLoop, Active
<1>2. /\ files[job[i].root][path[i]] \in Version
      /\ desired[i] = ChunksOf(InHand(i), files[job[i].root][path[i]], job[i].config)
  BY DEF LoopOf
<1>3. InHand(i) = Doc(job[i].root, path[i]) BY DEF InHand
<1>4. ASSUME c \in desired[i] PROVE Wanted(job[i], c)
  BY <1>1, <1>2, <1>3, <1>4 DEF Wanted
<1>5. ASSUME Wanted(job[i], c) PROVE c \in desired[i]
  BY <1>1, <1>2, <1>3, <1>5, WantedOfItsFile
<1>6. QED BY <1>4, <1>5

\* The document of a wanted chunk has been seen by a run of unchanged files that
\* has come to its pruning.
LEMMA WantedIsSeen ==
  ASSUME TypeOK, NEW i \in Ingestor, stage[i] = "prune_delete", LoopOf(i),
         NEW c, Wanted(job[i], c)
  PROVE  c.doc \in seen[i]
<1>1. PICK p \in Path :
        /\ files[job[i].root][p] \in Version
        /\ c \in ChunksOf(Doc(job[i].root, p), files[job[i].root][p], job[i].config)
  BY DEF Wanted
<1>2. job[i].root \in Root /\ job[i].config \in Config
  BY JobsAreJobs DEF TypeOK, Active
<1>3. c.doc = Doc(job[i].root, p)
  BY <1>1, <1>2, DocIsDocument, ChunksAreChunks
<1>4. FileOK(i, p, files[job[i].root][p]) /\ todo[i] = {} BY DEF LoopOf
<1>5. QED BY <1>1, <1>3, <1>4 DEF FileOK

\* What another run takes from the documents of a quiet one no file has, and
\* what it adds to them some file has.
LEMMA OthersHarmless ==
  ASSUME TypeOK, HandOK, LoopOK, QuietOK, NEW i \in Ingestor, Active(i), quiet[i],
         NEW k \in Ingestor \ {i}, Step(k)
  PROVE  /\ \A c \in points \ points' :
              \/ c.doc.corpus # CorpusOf[job[i].root]
              \/ ~touched[i] /\ ~Wanted(job[i], c)
         /\ \A c \in points' \ points :
              \/ c.doc.corpus # CorpusOf[job[i].root]
              \/ ~touched[i] /\ Wanted(job[i], c)
<1>1. CASE points' = points BY <1>1
<1>2. CASE points' # points
  <2>1. Active(k) /\ points' = Requested(k) BY <1>2, PointsChange
  <2>2. Together(i, k) /\ HandOf(k) BY <2>1 DEF QuietOK, QuietOf, HandOK
  <2>3. job[k].root \in Root BY <2>1, JobsAreJobs DEF TypeOK
  <2>4. InLoop(k) => InHand(k).corpus = CorpusOf[job[k].root]
    <3>1. InLoop(k) => path[k] \in Path BY DEF TypeOK, InLoop
    <3>2. QED BY <2>3, <3>1, DocIsDocument DEF InHand
  <2>5. ASSUME CorpusOf[job[i].root] = CorpusOf[job[k].root], Listed(k)
        PROVE  ~touched[i] /\ LoopOf(k)
    BY <2>2, <2>5 DEF Together, LoopOK
  <2>6. ASSUME NEW c \in points \ points',
               c.doc.corpus = CorpusOf[job[i].root]
        PROVE  ~touched[i] /\ ~Wanted(job[i], c)
    <3>1. CASE stage[k] = "delete" /\ c \in Obsolete(k)
      <4>1. InLoop(k) /\ Listed(k) BY <3>1 DEF InLoop, Listed
      <4>2. c.doc = InHand(k) /\ c \notin desired[k]
        BY <2>2, <3>1 DEF HandOf, Obsolete
      <4>3. CorpusOf[job[i].root] = CorpusOf[job[k].root]
        BY <2>4, <2>6, <4>1, <4>2
      <4>4. ~touched[i] /\ LoopOf(k) BY <2>5, <4>1, <4>3
      <4>5. ~Wanted(job[k], c) BY <4>1, <4>2, <4>4, DesiredIsWanted
      <4>6. QED BY <2>2, <4>3, <4>4, <4>5 DEF Together, Wanted
    <3>2. CASE stage[k] = "prune_delete" /\ c \in stale[k]
      <4>1. Listed(k) BY <3>2 DEF Listed
      <4>2. c.doc.corpus = CorpusOf[job[k].root] /\ c.doc \notin seen[k]
        BY <2>2, <3>2 DEF HandOf
      <4>3. ~touched[i] /\ LoopOf(k) BY <2>5, <2>6, <4>1, <4>2
      <4>4. ~Wanted(job[k], c) BY <3>2, <4>2, <4>3, WantedIsSeen
      <4>5. QED BY <2>2, <2>6, <4>2, <4>3, <4>4 DEF Together, Wanted
    <3>3. QED BY <2>1, <2>6, <3>1, <3>2, Removed
  <2>7. ASSUME NEW c \in points' \ points,
               c.doc.corpus = CorpusOf[job[i].root]
        PROVE  ~touched[i] /\ Wanted(job[i], c)
    <3>1. stage[k] = "upsert" /\ c \in desired[k] BY <2>1, <2>7, Added
    <3>2. InLoop(k) /\ Listed(k) BY <3>1 DEF InLoop, Listed
    <3>3. c.doc = InHand(k) BY <3>1, DesiredConfig
    <3>4. CorpusOf[job[i].root] = CorpusOf[job[k].root]
      BY <2>4, <2>7, <3>2, <3>3
    <3>5. ~touched[i] /\ LoopOf(k) BY <2>5, <3>2, <3>4
    <3>6. Wanted(job[k], c) BY <3>1, <3>2, <3>3, <3>5, DesiredIsWanted
    <3>7. QED BY <2>2, <3>4, <3>5, <3>6 DEF Together, Wanted
  <2>8. QED BY <2>6, <2>7
<1>3. QED BY <1>1, <1>2

\* The runs active with a quiet one remain such as leave it quiet.
LEMMA TogetherStep ==
  ASSUME TypeOK, QuietOK, [Next]_vars, NEW i \in Ingestor, Active(i)', quiet'[i],
         NEW k \in Ingestor \ {i}, Active(k)'
  PROVE  Together(i, k)'
<1>1. ASSUME NEW m \in Ingestor, Step(m), Start(m) PROVE Together(i, k)'
  <2>1. PICK j \in Job :
          /\ job' = [job EXCEPT ![m] = j]
          /\ quiet' = [n \in Ingestor |->
               IF n = m
               THEN \A o \in Ingestor : Active(o) => Agree(job[o], touched[o], j)
               ELSE quiet[n] /\ (Active(n) => Agree(job[n], touched[n], j))]
          /\ touched' = [touched EXCEPT ![m] = FALSE]
    BY <1>1 DEF Start
  <2>2. job'[m] = j /\ touched'[m] = FALSE BY <2>1 DEF TypeOK
  <2>3. \A n \in Ingestor \ {m} : Same(n) /\ touched'[n] = touched[n]
    BY <1>1, StepIsLocal
  <2>4. \A n \in Ingestor \ {m} : Active(n)' <=> Active(n)
    BY <2>3 DEF Same, Active
  <2>5. CASE i = m
    <3>1. Active(k) => Agree(job[k], touched[k], j) BY <2>1, <2>5
    <3>2. QED BY <2>2, <2>3, <2>4, <2>5, <3>1 DEF Agree, Together, Same
  <2>6. CASE k = m
    <3>1. Active(i) => Agree(job[i], touched[i], j) BY <2>1, <2>6
    <3>2. QED BY <2>2, <2>3, <2>4, <2>6, <3>1 DEF Agree, Together, Same
  <2>7. CASE i # m /\ k # m
    <3>1. quiet[i] BY <2>1, <2>7
    <3>2. Together(i, k) BY <2>4, <2>7, <3>1 DEF QuietOK, QuietOf
    <3>3. QED BY <2>3, <2>7, <3>2 DEF Together, Same
  <2>8. QED BY <2>5, <2>6, <2>7
<1>2. ASSUME NEW m \in Ingestor, Step(m), ~Start(m) PROVE Together(i, k)'
  <2>1. Active(m) /\ (Active(m)' => /\ job'[m] = job[m] /\ quiet'[m] = quiet[m]
                                    /\ touched'[m] = touched[m])
    BY <1>2, ActiveStep
  <2>2. \A n \in Ingestor \ {m} :
          Same(n) /\ touched'[n] = touched[n] /\ quiet'[n] = quiet[n]
    BY <1>2, StepIsLocal
  <2>3. \A n \in Ingestor : Active(n)' =>
          /\ Active(n) /\ job'[n] = job[n] /\ touched'[n] = touched[n]
          /\ quiet'[n] = quiet[n]
    BY <2>1, <2>2 DEF Same, Active
  <2>4. Together(i, k) BY <2>3 DEF QuietOK, QuietOf
  <2>5. QED BY <2>3, <2>4 DEF Together
<1>3. ASSUME NEW r \in Root, NEW p \in Path, Edit(r, p) PROVE Together(i, k)'
  <2>1. UNCHANGED <<stage, job>> /\ quiet[i]
        /\ ~(job[i].root = r /\ job[k].root = r /\ Active(i) /\ Active(k))
    BY <1>3 DEF Edit
  <2>2. Active(i) /\ Active(k) BY <2>1 DEF Active
  <2>3. Together(i, k) BY <2>1, <2>2 DEF QuietOK, QuietOf
  <2>4. \A n \in {i, k} : job[n].root # r => touched'[n] = touched[n]
    BY <1>3 DEF Edit, TypeOK
  <2>5. QED BY <2>1, <2>2, <2>3, <2>4 DEF Together
<1>4. CASE UNCHANGED vars
  BY <1>4 DEF vars, history, QuietOK, QuietOf, Together, Active
<1>5. QED BY <1>1, <1>2, <1>3, <1>4 DEF Next

LEMMA QuietStep == TypeOK /\ HandOK /\ LoopOK /\ QuietOK /\ [Next]_vars => QuietOK'
<1>. SUFFICES ASSUME TypeOK, HandOK, LoopOK, QuietOK, [Next]_vars PROVE QuietOK'
  OBVIOUS
<1>0. ASSUME NEW i \in Ingestor, Active(i)', quiet'[i]
      PROVE  \A k \in Ingestor \ {i} : Active(k)' => Together(i, k)'
  BY <1>0, TogetherStep
<1>1. ASSUME NEW i \in Ingestor, Step(i), Active(i)', quiet'[i] PROVE QuietOf(i)'
  <2>0. \A k \in Ingestor \ {i} : Active(k)' => Together(i, k)' BY <1>0, <1>1
  <2>1. CASE Start(i)
    <3>1. stage'[i] = "validate" BY <2>1 DEF Start, TypeOK
    <3>2. QED BY <2>0, <3>1 DEF QuietOf
  <2>2. CASE ~Start(i)
    <3>0. Active(i) /\ quiet[i] BY <1>1, <2>2, ActiveStep
    <3>1. QuietOf(i) /\ HandOf(i) BY <3>0 DEF QuietOK, HandOK
    <3>3. CASE Validate(i) \/ List(i) \/ Load(i) \/ LoadFails(i) \/ Delete(i)
               \/ RequestFails(i)
      <4>1. stage'[i] \in {"list", "load", "compare"}
        BY <3>3 DEF Validate, List, Load, LoadFails, Delete, RequestFails, NextFile, TypeOK
      <4>2. QED BY <2>0, <4>1 DEF QuietOf
    <3>4. CASE Compare(i)
      <4>1. CASE stage'[i] = "load" BY <2>0, <4>1 DEF QuietOf
      <4>2. CASE stage'[i] # "load"
        <5>1. /\ existing' = [existing EXCEPT ![i] = PointsOf(InHand(i))]
              /\ stage' = [stage EXCEPT ![i] =
                   IF desired[i] \subseteq PointsOf(InHand(i)) THEN "delete" ELSE "upsert"]
              /\ UNCHANGED <<points, job, path, desired>>
          BY <3>4, <4>2 DEF Compare, NextFile, PointsOf, TypeOK
        <5>2. existing'[i] = PointsOf(InHand(i)) BY <5>1 DEF TypeOK
        <5>3. InHand(i)' = InHand(i) BY <5>1 DEF InHand
        <5>4. PointsOf(InHand(i))' = PointsOf(InHand(i)) BY <5>1, <5>3 DEF PointsOf
        <5>5. PointsOf(InHand(i)) \subseteq points BY DEF PointsOf
        <5>6. CASE desired[i] \subseteq PointsOf(InHand(i))
          <6>1. stage'[i] = "delete" BY <5>1, <5>6 DEF TypeOK
          <6>2. QED BY <2>0, <5>1, <5>2, <5>4, <5>5, <5>6, <6>1 DEF QuietOf
        <5>7. CASE ~(desired[i] \subseteq PointsOf(InHand(i)))
          <6>1. stage'[i] = "upsert" BY <5>1, <5>7 DEF TypeOK
          <6>2. QED BY <2>0, <5>1, <5>2, <5>4, <5>5, <6>1 DEF QuietOf
        <5>8. QED BY <5>6, <5>7
      <4>3. QED BY <4>1, <4>2
    <3>5. CASE Upsert(i)
      <4>1. /\ points' = points \cup New(i) /\ stage'[i] = "delete"
            /\ UNCHANGED <<job, path, desired, existing>>
        BY <3>5 DEF Upsert, locals, TypeOK
      <4>2. InHand(i)' = InHand(i) BY <4>1 DEF InHand
      <4>3. /\ PointsOf(InHand(i)) \subseteq existing[i] \cup desired[i]
            /\ existing[i] \cap desired[i] \subseteq points
        BY <3>1, <3>5 DEF QuietOf, Upsert
      <4>4. PointsOf(InHand(i))' \subseteq existing[i] \cup desired[i]
        BY <4>1, <4>2, <4>3 DEF PointsOf, New
      <4>5. desired[i] \subseteq points' BY <4>1, <4>3 DEF New
      <4>6. QED BY <2>0, <4>1, <4>4, <4>5 DEF QuietOf
    <3>6. CASE PruneReads(i)
      <4>1. stale'[i] = Stale(i) /\ stage'[i] = "prune_delete"
            /\ UNCHANGED <<points, job, seen>>
        BY <3>6 DEF PruneReads, TypeOK
      <4>2. Stale(i)' = Stale(i) BY <4>1 DEF Stale
      <4>3. QED BY <2>0, <4>1, <4>2 DEF QuietOf
    <3>7. CASE Refuse(i) \/ Finish(i) \/ PruneDeletes(i) \/ Abort(i)
      BY <1>1, <3>7 DEF Refuse, Finish, PruneDeletes, Abort, Exit, Active, TypeOK
    <3>8. QED BY <1>1, <2>2, <3>3, <3>4, <3>5, <3>6, <3>7 DEF Step
  <2>3. QED BY <2>1, <2>2
<1>2. ASSUME NEW k \in Ingestor, Step(k), NEW i \in Ingestor \ {k}, Active(i)', quiet'[i]
      PROVE  QuietOf(i)'
  <2>0. \A m \in Ingestor \ {i} : Active(m)' => Together(i, m)' BY <1>0, <1>2
  <2>1. Same(i) /\ Active(i) /\ quiet[i] BY <1>2, StepIsLocal DEF Same, Active
  <2>2. QuietOf(i) /\ HandOf(i) BY <2>1 DEF QuietOK, HandOK
  <2>3. /\ \A c \in points \ points' :
             c.doc.corpus # CorpusOf[job[i].root] \/ (~touched[i] /\ ~Wanted(job[i], c))
        /\ \A c \in points' \ points :
             c.doc.corpus # CorpusOf[job[i].root] \/ (~touched[i] /\ Wanted(job[i], c))
    BY <1>2, <2>1, OthersHarmless
  <2>4. job[i].root \in Root BY <2>1, JobsAreJobs DEF TypeOK
  <2>5. InHand(i)' = InHand(i) BY <2>1 DEF Same, InHand
  <2>6. ASSUME InLoop(i)
        PROVE  /\ \A c \in points' \ points : c.doc = InHand(i) => c \in desired[i]
               /\ \A c \in desired[i] : c \in points => c \in points'
    <3>1. InHand(i).corpus = CorpusOf[job[i].root]
      <4>1. path[i] \in Path BY <2>6 DEF TypeOK, InLoop
      <4>2. QED BY <2>4, <4>1, DocIsDocument DEF InHand
    <3>2. ~touched[i] => LoopOf(i) BY <2>6 DEF LoopOK, InLoop, Listed
    <3>3. ASSUME NEW c \in points' \ points, c.doc = InHand(i) PROVE c \in desired[i]
      BY <2>3, <2>6, <3>1, <3>2, <3>3, DesiredIsWanted
    <3>4. ASSUME NEW c \in desired[i], c \in points, c \notin points' PROVE FALSE
      <4>1. c.doc = InHand(i) BY DesiredConfig
      <4>2. QED BY <2>3, <2>6, <3>1, <3>2, <3>4, <4>1, DesiredIsWanted
    <3>5. QED BY <3>3, <3>4
  <2>7. CASE stage[i] = "upsert"
    <3>1. InLoop(i) /\ stage'[i] = "upsert" BY <2>1, <2>7 DEF InLoop, Same
    <3>2. PointsOf(InHand(i))' \subseteq existing[i] \cup desired[i]
      BY <2>2, <2>5, <2>6, <2>7, <3>1 DEF QuietOf, PointsOf
    <3>3. existing[i] \cap desired[i] \subseteq points'
      BY <2>2, <2>6, <2>7, <3>1 DEF QuietOf
    <3>4. QED BY <2>0, <2>1, <3>1, <3>2, <3>3 DEF QuietOf, Same
  <2>8. CASE stage[i] = "delete"
    <3>1. InLoop(i) /\ stage'[i] = "delete" BY <2>1, <2>8 DEF InLoop, Same
    <3>2. PointsOf(InHand(i))' \subseteq existing[i] \cup desired[i]
      BY <2>2, <2>5, <2>6, <2>8, <3>1 DEF QuietOf, PointsOf
    <3>3. desired[i] \subseteq points'
      BY <2>2, <2>6, <2>8, <3>1 DEF QuietOf
    <3>4. QED BY <2>0, <2>1, <3>1, <3>2, <3>3 DEF QuietOf, Same
  <2>9. CASE stage[i] = "prune_delete"
    <3>1. ~touched[i] => LoopOf(i) BY <2>9 DEF LoopOK, Listed
    <3>2. ASSUME NEW c \in points', c.doc.corpus = CorpusOf[job[i].root],
                 c.doc \notin seen[i]
          PROVE  c \in stale[i]
      <4>1. CASE c \in points BY <2>2, <2>9, <3>2, <4>1 DEF QuietOf, Stale
      <4>2. CASE c \notin points
        BY <2>3, <2>9, <3>1, <3>2, <4>2, WantedIsSeen
      <4>3. QED BY <4>1, <4>2
    <3>3. Stale(i)' \subseteq stale[i] BY <2>1, <3>2 DEF Stale, Same
    <3>4. QED BY <2>0, <2>1, <2>9, <3>3 DEF QuietOf, Same
  <2>10. CASE stage[i] \notin {"upsert", "delete", "prune_delete"}
    BY <2>0, <2>1, <2>10 DEF QuietOf, Same
  <2>11. QED BY <2>7, <2>8, <2>9, <2>10
<1>3. ASSUME NEW i \in Ingestor, Active(i)', quiet'[i],
             UNCHANGED vars \/ \E r \in Root, p \in Path : Edit(r, p)
      PROVE  QuietOf(i)'
  <2>0. \A m \in Ingestor \ {i} : Active(m)' => Together(i, m)' BY <1>0, <1>3
  <2>1. UNCHANGED <<points, stage, job, path, seen, desired, existing, stale>> /\ quiet[i]
    BY <1>3 DEF Edit, vars, locals, history
  <2>2. QuietOf(i) BY <1>3, <2>1 DEF QuietOK, Active
  <2>3. QED BY <2>0, <2>1, <2>2 DEF QuietOf, PointsOf, InHand, Stale
<1>4. QED BY <1>1, <1>2, <1>3 DEF Next, QuietOK

-----------------------------------------------------------------------------
\* The inductive invariant of the last two theorems.
IngestInv == TypeOK /\ HandOK /\ QuietOK /\ LoopOK

LEMMA IngestInvInit == Init => IngestInv
BY TypeInit, HandInit, QuietInit, LoopInit DEF IngestInv

LEMMA IngestInvStep == IngestInv /\ [Next]_vars => IngestInv'
BY TypeStep, HandStep, QuietStep, LoopStep DEF IngestInv

\* A file no point of which was seen by a run of an unchanged directory, at its
\* pruning, is gone.
LEMMA UnseenIsAbsent ==
  ASSUME IngestInv, NEW i \in Ingestor, stage[i] = "prune_delete", ~touched[i],
         NEW p \in Path, Doc(job[i].root, p) \notin seen[i]
  PROVE  files[job[i].root][p] = Absent
<1>1. LoopOf(i) BY DEF IngestInv, LoopOK, Listed
<1>2. FileOK(i, p, files[job[i].root][p]) /\ todo[i] = {} /\ ~failed[i]
  BY <1>1 DEF LoopOf
<1>3. job[i].root \in Root BY JobsAreJobs DEF IngestInv, TypeOK, Active
<1>4. files[job[i].root][p] \in Version \cup {Absent, Unreadable}
  BY <1>3 DEF IngestInv, TypeOK
<1>5. QED BY <1>2, <1>4 DEF FileOK

(***************************************************************************)
(* A document that can be retrieved whole stays so, but for runs at odds   *)
(* and for the pruning of what is gone.                                    *)
(***************************************************************************)
THEOREM EvidenceIsKept == Spec => EvidenceKept
<1>. DEFINE Excused(d) ==
       \E i \in Ingestor :
         /\ Active(i)
         /\ \/ ~quiet[i]
            \/ /\ stage[i] = "prune_delete"
               /\ touched[i] \/ files[job[i].root][d.path] = Absent
<1>. DEFINE KeptUnlessExcused ==
       \A d \in {c.doc : c \in points \ points'} :
         (Retrievable(d, points) /\ ~Retrievable(d, points')) => Excused(d)
<1>1. ASSUME IngestInv, [Next]_vars, NEW d \in {c.doc : c \in points \ points'},
             Retrievable(d, points), ~Retrievable(d, points')
      PROVE  Excused(d)
  <2>0. TypeOK /\ HandOK /\ QuietOK BY <1>1 DEF IngestInv
  <2>1. PICK i \in Ingestor : Step(i) BY <1>1 DEF Next, Edit, vars
  <2>2. Active(i) /\ points' = Requested(i) BY <1>1, <2>0, <2>1, PointsChange
  <2>3. d \in Document BY <1>1, <2>0 DEF TypeOK, Chunk
  <2>4. CASE ~quiet[i] BY <2>2, <2>4
  <2>5. CASE quiet[i]
    <3>1. PICK v \in Version, c \in Config : ChunksOf(d, v, c) \subseteq points
      BY <1>1 DEF Retrievable
    <3>2. PICK e \in ChunksOf(d, v, c) : e \notin points'
      BY <1>1, <3>1 DEF Retrievable
    <3>3. e \in points \ Requested(i) /\ e.doc = d
      BY <2>2, <2>3, <3>1, <3>2, ChunksAreChunks
    <3>4. QuietOf(i) /\ HandOf(i) BY <2>0, <2>2, <2>5 DEF QuietOK, HandOK
    <3>5. job[i].root \in Root /\ job[i].config \in Config
      BY <2>0, <2>2, JobsAreJobs DEF TypeOK
    <3>6. CASE stage[i] = "delete" /\ e \in Obsolete(i)
      <4>1. InHand(i) = d BY <3>3, <3>4, <3>6 DEF HandOf, Obsolete
      <4>2. PICK w \in Version : desired[i] = ChunksOf(d, w, job[i].config)
        BY <3>4, <3>6, <4>1 DEF HandOf, InLoop
      <4>3. desired[i] \subseteq points' BY <2>2, <3>4, <3>6 DEF QuietOf, Requested, Obsolete
      <4>4. QED BY <1>1, <3>5, <4>2, <4>3 DEF Retrievable
    <3>7. CASE stage[i] = "prune_delete" /\ e \in stale[i]
      <4>1. d.corpus = CorpusOf[job[i].root] /\ d \notin seen[i]
        BY <3>3, <3>4, <3>7 DEF HandOf
      <4>2. d = Doc(job[i].root, d.path) /\ d.path \in Path
        BY <2>3, <4>1 DEF Document, Doc
      <4>3. touched[i] \/ files[job[i].root][d.path] = Absent
        BY <1>1, <3>7, <4>1, <4>2, UnseenIsAbsent
      <4>4. QED BY <2>2, <3>7, <4>3
    <3>8. QED BY <3>3, <3>6, <3>7, Removed
  <2>6. QED BY <2>4, <2>5
<1>2. IngestInv /\ [Next]_vars => KeptUnlessExcused
  BY <1>1
<1>. QED BY <1>2, IngestInvInit, IngestInvStep, PTL DEF Spec, EvidenceKept

-----------------------------------------------------------------------------
(***************************************************************************)
(* A quiet run of an unchanged directory has indexed what it went through, *)
(* whatever the others write meanwhile.                                    *)
(***************************************************************************)
IndexedOf(i) ==
  \A p \in Path :
    (files[job[i].root][p] \in Version /\ p \notin todo[i] /\ p # path[i])
      => UpToDate(job[i], p, points)

IndexedOK ==
  \A i \in Ingestor :
    (Listed(i) /\ quiet[i] /\ ~touched[i] /\ ~failed[i]) => IndexedOf(i)

LEMMA IndexedInit == Init => IndexedOK
BY DEF Init, IndexedOK, Listed

\* A file stays up to date while the points of its document do not change.
LEMMA UpToDateFrame ==
  ASSUME NEW j, NEW p, NEW before, NEW after, UpToDate(j, p, before),
         {c \in before : c.doc = Doc(j.root, p)} = {c \in after : c.doc = Doc(j.root, p)}
  PROVE  UpToDate(j, p, after)
BY DEF UpToDate

LEMMA IndexedStep == IngestInv /\ IndexedOK /\ [Next]_vars => IndexedOK'
<1>. SUFFICES ASSUME IngestInv, IndexedOK, [Next]_vars PROVE IndexedOK'
  OBVIOUS
<1>0. TypeOK /\ HandOK /\ QuietOK /\ LoopOK BY DEF IngestInv
<1>1. ASSUME NEW i \in Ingestor, Step(i), Listed(i)', quiet'[i], ~touched'[i], ~failed'[i],
             NEW p \in Path,
             files'[job'[i].root][p] \in Version, p \notin todo'[i], p # path'[i]
      PROVE  UpToDate(job[i], p, points)' 
  <2>1. CASE Start(i) \/ Validate(i)
    BY <1>0, <1>1, <2>1 DEF Start, Validate, Listed, TypeOK
  <2>2. CASE List(i)
    <3>1. todo'[i] = {q \in Path : files[job[i].root][q] # Absent} /\ UNCHANGED <<files, job>>
      BY <1>0, <2>2 DEF List, TypeOK
    <3>2. QED BY <1>1, <3>1, FileAssumption
  <2>3. CASE Load(i)
    <3>1. PICK q \in todo[i] :
            /\ todo' = [todo EXCEPT ![i] = @ \ {q}]
            /\ path' = [path EXCEPT ![i] = q]
      BY <2>3 DEF Load
    <3>2. /\ todo'[i] = todo[i] \ {q} /\ path'[i] = q /\ stage[i] = "load"
          /\ UNCHANGED <<files, job, failed, quiet, touched, points>>
      BY <1>0, <2>3, <3>1 DEF Load, history, TypeOK
    <3>3. IndexedOf(i) BY <1>1, <3>2 DEF IndexedOK, Listed
    <3>4. path[i] = None BY <1>0, <3>2 DEF TypeOK
    <3>5. QED BY <1>1, <3>2, <3>3, <3>4, PathAssumption DEF IndexedOf, UpToDate
  <2>4. CASE LoadFails(i) \/ RequestFails(i)
    BY <1>0, <1>1, <2>4 DEF LoadFails, RequestFails, TypeOK
  <2>5. CASE Compare(i) \/ Upsert(i) \/ Delete(i)
    <3>1. /\ InLoop(i) /\ Listed(i) /\ Active(i)
          /\ UNCHANGED <<files, job, todo, failed, quiet, touched>>
      BY <1>0, <2>5 DEF Compare, Upsert, Delete, NextFile, locals, history, InLoop,
         Listed, Active, TypeOK
    <3>2. IndexedOf(i) /\ QuietOf(i) /\ HandOf(i) /\ LoopOf(i)
      BY <1>0, <1>1, <3>1 DEF IndexedOK, QuietOK, HandOK, LoopOK
    <3>3. job[i].root \in Root BY <1>0, <3>1, JobsAreJobs DEF TypeOK
    <3>4. CASE p # path[i]
      <4>1. UpToDate(job[i], p, points)
        BY <1>1, <3>1, <3>2, <3>4 DEF IndexedOf
      <4>2. Doc(job[i].root, p) # InHand(i)
        BY <3>4, DocInjective DEF InHand
      <4>3. \A c \in points : c \notin points' => c.doc = InHand(i)
        BY <2>5, <3>2 DEF Compare, NextFile, Upsert, Delete, Obsolete, HandOf
      <4>4. \A c \in points' : c \notin points => c.doc = InHand(i)
        BY <1>0, <2>5, DesiredConfig DEF Compare, NextFile, Upsert, Delete, New
      <4>5. {c \in points : c.doc = Doc(job[i].root, p)}
              = {c \in points' : c.doc = Doc(job[i].root, p)}
        BY <4>2, <4>3, <4>4
      <4>6. UpToDate(job[i], p, points') BY <4>1, <4>5, UpToDateFrame
      <4>7. QED BY <3>1, <4>6 DEF UpToDate
    <3>5. CASE p = path[i]
      <4>1. stage'[i] = "load"
        <5>1. path'[i] # path[i] BY <1>1, <3>5
        <5>2. QED BY <1>0, <2>5, <5>1 DEF Compare, Upsert, Delete, NextFile, locals, TypeOK
      <4>2. Doc(job[i].root, p) = InHand(i) BY <3>5 DEF InHand
      <4>3. desired[i] = ChunksOf(InHand(i), files[job[i].root][p], job[i].config)
        BY <3>1, <3>2, <3>5 DEF LoopOf
      <4>4. {c \in points' : c.doc = InHand(i)} = desired[i]
        <5>1. CASE Compare(i)
          <6>1. points' = points /\ {c \in points : c.doc = InHand(i)} = desired[i]
            BY <1>0, <4>1, <5>1 DEF Compare, TypeOK
          <6>2. QED BY <6>1
        <5>2. CASE Upsert(i) BY <1>0, <4>1, <5>2 DEF Upsert, TypeOK
        <5>3. CASE Delete(i)
          <6>1. /\ points' = points \ Obsolete(i) /\ desired[i] \subseteq points
                /\ PointsOf(InHand(i)) \subseteq existing[i] \cup desired[i]
            BY <3>2, <5>3 DEF Delete, QuietOf
          <6>2. \A c \in desired[i] : c.doc = InHand(i) BY <1>0, DesiredConfig
          <6>3. QED BY <6>1, <6>2 DEF PointsOf, Obsolete
        <5>4. QED BY <2>5, <5>1, <5>2, <5>3
      <4>5. QED BY <3>1, <4>2, <4>3, <4>4 DEF UpToDate
    <3>6. QED BY <3>4, <3>5
  <2>6. CASE PruneReads(i)
    <3>1. Listed(i) /\ UNCHANGED <<files, job, todo, path, failed, quiet, touched, points>>
      BY <2>6 DEF PruneReads, Listed, history
    <3>2. IndexedOf(i) BY <1>1, <3>1 DEF IndexedOK
    <3>3. QED BY <1>1, <3>1, <3>2 DEF IndexedOf, UpToDate
  <2>7. CASE Refuse(i) \/ Finish(i) \/ PruneDeletes(i) \/ Abort(i)
    BY <1>0, <1>1, <2>7 DEF Refuse, Finish, PruneDeletes, Abort, Exit, Listed, TypeOK
  <2>8. QED BY <1>1, <2>1, <2>2, <2>3, <2>4, <2>5, <2>6, <2>7 DEF Step
<1>2. ASSUME NEW k \in Ingestor, Step(k), NEW i \in Ingestor \ {k}, Listed(i)',
             quiet'[i], ~touched'[i], ~failed'[i],
             NEW p \in Path,
             files'[job'[i].root][p] \in Version, p \notin todo'[i], p # path'[i]
      PROVE  UpToDate(job[i], p, points)'
  <2>1. /\ Same(i) /\ files' = files /\ touched'[i] = touched[i] /\ quiet[i]
        /\ Listed(i) /\ Active(i)
    BY <1>0, <1>2, StepIsLocal DEF Same, Listed, Active
  <2>2. IndexedOf(i) BY <1>2, <2>1 DEF IndexedOK, Same
  <2>3. UpToDate(job[i], p, points) /\ files[job[i].root][p] \in Version
    BY <1>2, <2>1, <2>2 DEF IndexedOf, Same
  <2>4. job[i].root \in Root BY <1>0, <2>1, JobsAreJobs DEF TypeOK
  <2>5. Doc(job[i].root, p).corpus = CorpusOf[job[i].root] BY <2>4, DocIsDocument
  <2>6. ASSUME NEW c \in points, c.doc = Doc(job[i].root, p), c \notin points'
        PROVE  FALSE
    <3>1. ~Wanted(job[i], c) BY <1>0, <1>2, <2>1, <2>5, <2>6, OthersHarmless
    <3>2. c \in ChunksOf(Doc(job[i].root, p), files[job[i].root][p], job[i].config)
      BY <2>3, <2>6 DEF UpToDate
    <3>3. QED BY <2>3, <3>1, <3>2 DEF Wanted
  <2>7. ASSUME NEW c \in points', c.doc = Doc(job[i].root, p), c \notin points
        PROVE  FALSE
    <3>1. Wanted(job[i], c) BY <1>0, <1>2, <2>1, <2>5, <2>7, OthersHarmless
    <3>2. c \in ChunksOf(Doc(job[i].root, p), files[job[i].root][p], job[i].config)
      BY <1>0, <2>1, <2>7, <3>1, WantedOfItsFile
    <3>3. QED BY <2>3, <2>7, <3>2 DEF UpToDate
  <2>8. {c \in points : c.doc = Doc(job[i].root, p)}
          = {c \in points' : c.doc = Doc(job[i].root, p)}
    BY <2>6, <2>7
  <2>9. UpToDate(job[i], p, points') BY <2>3, <2>8, UpToDateFrame
  <2>10. QED BY <2>1, <2>9 DEF UpToDate, Same
<1>3. ASSUME NEW i \in Ingestor, Step(i) PROVE IndexedOK'
  BY <1>1, <1>2, <1>3 DEF IndexedOK, IndexedOf
<1>4. ASSUME NEW r \in Root, NEW q \in Path, Edit(r, q), NEW k \in Ingestor,
             Listed(k)', quiet'[k], ~touched'[k], ~failed'[k]
      PROVE  IndexedOf(k)'
  <2>1. UNCHANGED <<points, stage, job, failed, todo, path>> /\ quiet[k]
    BY <1>4 DEF Edit, locals
  <2>2. Listed(k) /\ Active(k) BY <1>4, <2>1 DEF Listed, Active
  <2>3. job[k].root # r /\ ~touched[k] BY <1>4, <2>2 DEF Edit
  <2>4. job[k].root \in Root BY <1>0, <2>2, JobsAreJobs DEF TypeOK
  <2>5. files'[job[k].root] = files[job[k].root]
    BY <1>0, <1>4, <2>3, <2>4 DEF Edit, TypeOK
  <2>6. IndexedOf(k) BY <1>4, <2>1, <2>2, <2>3 DEF IndexedOK
  <2>7. QED BY <2>1, <2>5, <2>6 DEF IndexedOf, UpToDate
<1>5. CASE UNCHANGED vars
  BY <1>5 DEF vars, locals, history, IndexedOK, IndexedOf, Listed, UpToDate
<1>6. QED BY <1>3, <1>4, <1>5 DEF Next, IndexedOK

(***************************************************************************)
(* A successful quiet run of an unchanged directory leaves what the files   *)
(* say, whatever came before it.                                           *)
(***************************************************************************)
THEOREM RunsConverge == Spec => RunConverges
<1>. DEFINE Succeeds(i) == /\ Active(i) /\ stage'[i] = "idle" /\ ~failed'[i]
                           /\ quiet[i] /\ ~touched[i]
<1>. DEFINE Result(i, p, content) ==
       /\ content # Unreadable
       /\ content # Absent => UpToDate(job[i], p, points')
       /\ (content = Absent /\ job[i].prune)
            => \A c \in points' : c.doc # Doc(job[i].root, p)
<1>. DEFINE Converges ==
       \A i \in Ingestor :
         Succeeds(i) => \A p \in Path : Result(i, p, files[job[i].root][p])
<1>1. ASSUME IngestInv, IndexedOK, [Next]_vars, NEW i \in Ingestor, Succeeds(i),
             NEW p \in Path
      PROVE  Result(i, p, files[job[i].root][p])
  <2>0. TypeOK /\ HandOK /\ QuietOK /\ LoopOK BY <1>1 DEF IngestInv
  <2>1. Step(i)
    <3>1. stage'[i] # stage[i] BY <1>1 DEF Active
    <3>2. QED BY <2>0, <1>1, <3>1, StepIsLocal DEF Next, Edit, vars, Same
  <2>2. Finish(i) \/ PruneDeletes(i)
    BY <1>1, <2>0, <2>1 DEF Step, Start, Validate, Refuse, List, Load, LoadFails,
       Compare, Upsert, Delete, RequestFails, PruneReads, Abort, NextFile, Exit, TypeOK
  <2>3. /\ Listed(i) /\ path[i] = None /\ job[i].root \in Root
    <3>1. stage[i] \in {"load", "prune_delete"} BY <2>2 DEF Finish, PruneDeletes
    <3>2. QED BY <1>1, <2>0, <3>1, JobsAreJobs DEF Listed, TypeOK
  <2>4. LoopOf(i) /\ QuietOf(i) /\ HandOf(i)
    BY <1>1, <2>0, <2>3 DEF LoopOK, QuietOK, HandOK
  <2>5. todo[i] = {} /\ ~failed[i]
    BY <1>1, <2>0, <2>2, <2>4 DEF Finish, PruneDeletes, LoopOf, Exit, TypeOK
  <2>6. IndexedOf(i) BY <1>1, <2>3, <2>5 DEF IndexedOK
  <2>7. FileOK(i, p, files[job[i].root][p]) BY <2>4 DEF LoopOf
  <2>8. files[job[i].root][p] \in Version \cup {Absent, Unreadable}
    BY <2>0, <2>3 DEF TypeOK
  <2>9. files[job[i].root][p] # Unreadable BY <2>5, <2>7 DEF FileOK
  <2>10. files[job[i].root][p] # Absent =>
           UpToDate(job[i], p, points) /\ Doc(job[i].root, p) \in seen[i]
    BY <2>3, <2>5, <2>6, <2>7, <2>8, <2>9, PathAssumption DEF IndexedOf, FileOK
  <2>11. CASE Finish(i)
    <3>1. points' = points /\ ~job[i].prune BY <2>5, <2>11 DEF Finish
    <3>2. QED BY <2>9, <2>10, <3>1
  <2>12. CASE PruneDeletes(i)
    <3>1. points' = points \ stale[i] /\ Stale(i) \subseteq stale[i]
      BY <2>4, <2>12 DEF PruneDeletes, QuietOf
    <3>2. ASSUME Doc(job[i].root, p) \in seen[i]
          PROVE  {c \in points : c.doc = Doc(job[i].root, p)}
                   = {c \in points' : c.doc = Doc(job[i].root, p)}
      BY <2>4, <3>1, <3>2 DEF HandOf
    <3>3. files[job[i].root][p] # Absent => UpToDate(job[i], p, points')
      BY <2>10, <3>2, UpToDateFrame
    <3>4. ASSUME files[job[i].root][p] = Absent, NEW c \in points'
          PROVE  c.doc # Doc(job[i].root, p)
      <4>1. Doc(job[i].root, p) \notin seen[i] BY <2>7, <3>4 DEF FileOK
      <4>2. Doc(job[i].root, p).corpus = CorpusOf[job[i].root] BY DEF Doc
      <4>3. QED BY <3>1, <3>4, <4>1, <4>2 DEF Stale
    <3>5. QED BY <2>9, <3>3, <3>4
  <2>13. QED BY <2>2, <2>11, <2>12
<1>2. IngestInv /\ IndexedOK /\ [Next]_vars => Converges
  BY <1>1
<1>. QED BY <1>2, IngestInvInit, IngestInvStep, IndexedInit, IndexedStep, PTL
         DEF Spec, RunConverges

-----------------------------------------------------------------------------
(***************************************************************************)
(* What of a file can be found after a successful run.                     *)
(***************************************************************************)

\* No later piece of the content has the key of this one.
LastOfKey(v, n) ==
  \A m \in DOMAIN Pieces[v] : Pieces[v][m] = Pieces[v][n] => m <= n

LEMMA TextOfLast ==
  ASSUME NEW v \in Version, NEW n \in DOMAIN Pieces[v], LastOfKey(v, n),
         NEW c, c.version = v, c.key = Pieces[v][n]
  PROVE  TextOf(c) = n
<1>1. \A m \in DOMAIN Pieces[v] : m \in Nat
  BY PiecesAssumption
<1>2. ASSUME NEW m \in DOMAIN Pieces[v], Pieces[v][m] = c.key,
             \A k \in DOMAIN Pieces[v] : Pieces[v][k] = c.key => k <= m
      PROVE  m = n
  BY <1>1, <1>2 DEF LastOfKey
<1>3. QED BY <1>2 DEF TextOf, LastOfKey

LEMMA LastPieceFound ==
  ASSUME NEW j, NEW p, NEW indexed, UpToDate(j, p, indexed),
         files[j.root][p] \in Version,
         NEW n \in DOMAIN Pieces[files[j.root][p]], LastOfKey(files[j.root][p], n)
  PROVE  \E c \in indexed : /\ c.doc = Doc(j.root, p)
                            /\ c.version = files[j.root][p]
                            /\ TextOf(c) = n
<1>. DEFINE v == files[j.root][p]
            d == Doc(j.root, p)
            c == [doc |-> d, version |-> v, key |-> Pieces[v][n], config |-> j.config]
<1>1. c \in ChunksOf(d, v, j.config)
  BY DEF ChunksOf
<1>2. c \in indexed BY <1>1 DEF UpToDate
<1>3. TextOf(c) = n
  <2>1. c.version = v /\ c.key = Pieces[v][n] OBVIOUS
  <2>2. QED BY <2>1, TextOfLast
<1>4. QED BY <1>2, <1>3

\* The text of the last piece of every key of every file is in the index after
\* a successful run that met no other and no edit (chunk_document, ingest).
LastFound ==
  \A i \in Ingestor :
    (/\ Active(i) /\ stage'[i] = "idle" /\ ~failed'[i]
     /\ quiet[i] /\ ~touched[i])
    => \A p \in {q \in Path : files[job[i].root][q] \in Version} :
         \A n \in DOMAIN Pieces[files[job[i].root][p]] :
           LastOfKey(files[job[i].root][p], n) =>
             \E c \in points' :
               /\ c.doc = Doc(job[i].root, p)
               /\ c.version = files[job[i].root][p]
               /\ TextOf(c) = n

LastPiecesIndexed == [][LastFound]_vars

(***************************************************************************)
(* Nothing is missing from the index after such a run but the pieces that  *)
(* a later one of the same file, heading and position has replaced.        *)
(***************************************************************************)
THEOREM LastPiecesAreIndexed == Spec => LastPiecesIndexed
<1>. DEFINE Succeeds(i) == /\ Active(i) /\ stage'[i] = "idle" /\ ~failed'[i]
                           /\ quiet[i] /\ ~touched[i]
<1>. DEFINE Converged ==
       \A i \in Ingestor : Succeeds(i) =>
         \A p \in Path :
            LET content == files[job[i].root][p] IN
            /\ content # Unreadable
            /\ content # Absent => UpToDate(job[i], p, points')
            /\ (content = Absent /\ job[i].prune)
                 => \A c \in points' : c.doc # Doc(job[i].root, p)
<1>1. ASSUME Converged, NEW i \in Ingestor, Succeeds(i),
             NEW p \in Path, files[job[i].root][p] \in Version,
             NEW n \in DOMAIN Pieces[files[job[i].root][p]],
             LastOfKey(files[job[i].root][p], n)
      PROVE  \E c \in points' : /\ c.doc = Doc(job[i].root, p)
                                /\ c.version = files[job[i].root][p]
                                /\ TextOf(c) = n
  <2>1. UpToDate(job[i], p, points') BY <1>1, FileAssumption
  <2>2. QED BY <1>1, <2>1, LastPieceFound
<1>2. [Converged]_vars => [LastFound]_vars
  BY <1>1 DEF LastFound
<1>3. RunConverges => LastPiecesIndexed
  BY <1>2, PTL DEF RunConverges, LastPiecesIndexed
<1>4. QED BY <1>3, RunsConverge

(***************************************************************************)
(* Where no two pieces of a file share heading and position, every piece   *)
(* is indexed, as docs/rag.md says.                                        *)
(***************************************************************************)
THEOREM DistinctPiecesAreIndexed ==
  ASSUME \A v \in Version : \A m, n \in DOMAIN Pieces[v] :
           Pieces[v][m] = Pieces[v][n] => m = n
  PROVE  Spec => EveryPieceIndexed
<1>1. \A v \in Version : \A n \in DOMAIN Pieces[v] : n \in Nat /\ LastOfKey(v, n)
  BY PiecesAssumption DEF LastOfKey
<1>. DEFINE Found ==
       \A i \in Ingestor :
       (/\ Active(i) /\ stage'[i] = "idle" /\ ~failed'[i]
        /\ quiet[i] /\ ~touched[i])
       => \A p \in {q \in Path : files[job[i].root][q] \in Version} :
            \A n \in DOMAIN Pieces[files[job[i].root][p]] :
              \E c \in points' :
                /\ c.doc = Doc(job[i].root, p)
                /\ c.version = files[job[i].root][p]
                /\ TextOf(c) = n
<1>2. [LastFound]_vars => [Found]_vars
  BY <1>1 DEF LastFound
<1>3. QED BY <1>2, LastPiecesAreIndexed, PTL DEF LastPiecesIndexed, EveryPieceIndexed
=============================================================================
