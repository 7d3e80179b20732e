--------------------------- MODULE PolicyIngestion ---------------------------
(***************************************************************************)
(* The ingestion of policy documents into Qdrant (app/rag/service.py,      *)
(* store.py, documents.py): runs of the ingest command that go through a   *)
(* directory file by file, write the chunks a file should have, delete the *)
(* ones it should not, and with --prune delete the documents whose file is *)
(* gone.                                                                   *)
(*                                                                         *)
(* Nothing keeps two runs apart, a run may die or lose an answer of Qdrant *)
(* at any request, and the files change under it.  A chunk is its          *)
(* identifier, the hash of everything that makes it; payload and vector    *)
(* follow from it.                                                         *)
(***************************************************************************)
EXTENDS Naturals, Sequences

CONSTANTS
  Ingestor,    \* the processes that may run the command
  Root,        \* the directories ingested
  CorpusOf,    \* root.name of each directory
  Path,        \* the relative paths of documents, in their sorted order
  Version,     \* the contents a document may have
  Key,         \* (section title, page, index) of a piece
  Pieces,      \* the keys of the pieces each content is cut into, in order
  Contents,    \* what the file at each path of each directory may be
  Config,      \* embedding model, target and overlap
  Job,         \* the directory, configuration and --prune of a run
  Absent,      \* no such file
  Unreadable,  \* a file load_document refuses
  None         \* no run, or no document in hand

Job_ == [root : Root, config : Config, prune : BOOLEAN]

ASSUME PathAssumption == Path \subseteq Nat /\ None \notin Path
ASSUME JobAssumption == Job \subseteq Job_ /\ None \notin Job
ASSUME PiecesAssumption == Pieces \in [Version -> Seq(Key)]
ASSUME FileAssumption ==
  /\ Absent \notin Version /\ Unreadable \notin Version
  /\ Absent # Unreadable
ASSUME ContentsAssumption ==
  \A r \in Root, p \in Path :
    Contents[r][p] \subseteq Version \cup {Absent, Unreadable}

VARIABLES
  files,     \* the directories
  points,    \* the collection
  stage,     \* where each run is
  job,       \* its arguments
  todo,      \* the listed paths it has not reached
  path,      \* the path in hand
  seen,      \* the documents it has loaded
  failed,    \* stats.failures > 0, or an exception: the exit status is 1
  desired,   \* the chunks of the document in hand
  existing,  \* those the collection held when it was asked
  stale,     \* the points --prune is about to delete
  quiet,     \* history: no other run was at odds with this one
  touched,   \* history: a file of its directory changed during it
  clashed    \* history: the check of a run passed on an empty collection that
             \* a run of another configuration was about to fill

locals == <<todo, path, seen, desired, existing, stale>>
history == <<quiet, touched, clashed>>
vars == <<files, points, stage, job, failed, locals, history>>

Document == [corpus : {CorpusOf[r] : r \in Root}, path : Path]
Chunk == [doc : Document, version : Version, key : Key, config : Config]
Stage == {"idle", "validate", "list", "load", "compare", "upsert", "delete",
          "prune_delete"}

Doc(r, p) == [corpus |-> CorpusOf[r], path |-> p]

\* chunk_document: one identifier for each key, whatever the number of pieces.
ChunksOf(d, v, c) ==
  {[doc |-> d, version |-> v, key |-> Pieces[v][n], config |-> c] :
     n \in DOMAIN Pieces[v]}

Active(i) == stage[i] # "idle"
InHand(i) == Doc(job[i].root, path[i])

\* Two runs that want the same of the files as they are, or want nothing of each
\* other's documents; touched tells of the first whether the files are as it
\* read them.
Agree(j, changed, k) ==
  \/ CorpusOf[j.root] # CorpusOf[k.root]
  \/ j.root = k.root /\ j.config = k.config /\ ~changed

New(i) == desired[i] \ existing[i]
\* Mutant: obsolete points are those not just written, which after a crash
\* between the upsert and the delete are all of them.
Obsolete_NotNew(i) == existing[i] \ New(i)

Obsolete(i) == existing[i] \ desired[i]

\* Mutant: pruning that holds document identifiers instead of point identifiers.
Stale_Documents(i) ==
  {c.doc : c \in {e \in points : /\ e.doc.corpus = CorpusOf[job[i].root]
                                 /\ e.doc \notin seen[i]}}

\* Mutant: pruning that forgets the filter on the corpus.
Stale_EveryCorpus(i) == {c \in points : c.doc \notin seen[i]}

\* What --prune finds to delete in the collection as it is.
Stale(i) ==
  {c \in points : c.doc.corpus = CorpusOf[job[i].root] /\ c.doc \notin seen[i]}

Init ==
  /\ files \in [Root -> [Path -> Version \cup {Absent, Unreadable}]]
  /\ \A r \in Root, p \in Path : files[r][p] \in Contents[r][p]
  /\ points = {}
  /\ stage = [i \in Ingestor |-> "idle"]
  /\ job = [i \in Ingestor |-> None]
  /\ failed = [i \in Ingestor |-> FALSE]
  /\ todo = [i \in Ingestor |-> {}]
  /\ path = [i \in Ingestor |-> None]
  /\ seen = [i \in Ingestor |-> {}]
  /\ desired = [i \in Ingestor |-> {}]
  /\ existing = [i \in Ingestor |-> {}]
  /\ stale = [i \in Ingestor |-> {}]
  /\ quiet = [i \in Ingestor |-> TRUE]
  /\ touched = [i \in Ingestor |-> FALSE]
  /\ clashed = FALSE

(***************************************************************************)
(* The run: its checks, the list of files, one file after another.         *)
(***************************************************************************)
Start(i) ==
  /\ stage[i] = "idle"
  /\ \E j \in Job :
       /\ job' = [job EXCEPT ![i] = j]
       /\ quiet' = [k \in Ingestor |->
            IF k = i
            THEN \A o \in Ingestor : Active(o) => Agree(job[o], touched[o], j)
            ELSE quiet[k] /\ (Active(k) => Agree(job[k], touched[k], j))]
  /\ stage' = [stage EXCEPT ![i] = "validate"]
  /\ failed' = [failed EXCEPT ![i] = FALSE]
  /\ touched' = [touched EXCEPT ![i] = FALSE]
  /\ UNCHANGED <<files, points, locals, clashed>>

\* The process is over; what it held is gone.
Exit(i, error) ==
  /\ stage' = [stage EXCEPT ![i] = "idle"]
  /\ failed' = [failed EXCEPT ![i] = error]
  /\ job' = [job EXCEPT ![i] = None]
  /\ todo' = [todo EXCEPT ![i] = {}]
  /\ path' = [path EXCEPT ![i] = None]
  /\ seen' = [seen EXCEPT ![i] = {}]
  /\ desired' = [desired EXCEPT ![i] = {}]
  /\ existing' = [existing EXCEPT ![i] = {}]
  /\ stale' = [stale EXCEPT ![i] = {}]
  /\ quiet' = [quiet EXCEPT ![i] = TRUE]
  /\ touched' = [touched EXCEPT ![i] = FALSE]
  /\ UNCHANGED <<files, clashed>>

\* A run past its check, which has written or will.
Checked(i) == stage[i] \notin {"idle", "validate"}

\* Mutant: a run that skips the check of the configuration.
Validate_Skipped(i) ==
  /\ stage[i] = "validate"
  /\ stage' = [stage EXCEPT ![i] = "list"]
  /\ UNCHANGED <<files, points, job, failed, locals, history>>

\* validate_configuration looks at one point, and any may come first.
Validate(i) ==
  /\ stage[i] = "validate"
  /\ points = {} \/ \E first \in points : first.config = job[i].config
  /\ stage' = [stage EXCEPT ![i] = "list"]
  /\ clashed' = (clashed \/ (/\ points = {}
                             /\ \E k \in Ingestor :
                                  /\ Checked(k)
                                  /\ job[k].config # job[i].config))
  /\ UNCHANGED <<files, points, job, failed, locals, quiet, touched>>

Refuse(i) ==
  /\ stage[i] = "validate"
  /\ \E first \in points : first.config # job[i].config
  /\ Exit(i, TRUE)
  /\ UNCHANGED points

List(i) ==
  /\ stage[i] = "list"
  /\ todo' = [todo EXCEPT ![i] = {p \in Path : files[job[i].root][p] # Absent}]
  /\ stage' = [stage EXCEPT ![i] = "load"]
  /\ UNCHANGED <<files, points, job, failed, path, seen, desired, existing,
                 stale, history>>

\* The loop goes on with the next file.
NextFile(i) ==
  /\ stage' = [stage EXCEPT ![i] = "load"]
  /\ path' = [path EXCEPT ![i] = None]
  /\ desired' = [desired EXCEPT ![i] = {}]
  /\ existing' = [existing EXCEPT ![i] = {}]
  /\ UNCHANGED <<files, job, seen, stale, history>>

Least(p, S) == p \in S /\ \A q \in S : p <= q

Load(i) ==
  /\ stage[i] = "load"
  /\ \E p \in todo[i] :
       /\ Least(p, todo[i])
       /\ files[job[i].root][p] \in Version
       /\ todo' = [todo EXCEPT ![i] = @ \ {p}]
       /\ path' = [path EXCEPT ![i] = p]
       /\ seen' = [seen EXCEPT ![i] = @ \cup {Doc(job[i].root, p)}]
       /\ desired' = [desired EXCEPT ![i] =
                        ChunksOf(Doc(job[i].root, p), files[job[i].root][p],
                                 job[i].config)]
  /\ stage' = [stage EXCEPT ![i] = "compare"]
  /\ UNCHANGED <<files, points, job, failed, existing, stale, history>>

LoadFails(i) ==
  /\ stage[i] = "load"
  /\ \E p \in todo[i] :
       /\ Least(p, todo[i])
       /\ files[job[i].root][p] \notin Version
       /\ todo' = [todo EXCEPT ![i] = @ \ {p}]
  /\ failed' = [failed EXCEPT ![i] = TRUE]
  /\ NextFile(i)
  /\ UNCHANGED points

Compare(i) ==
  /\ stage[i] = "compare"
  /\ LET old == {c \in points : c.doc = InHand(i)} IN
     IF old = desired[i]
     THEN NextFile(i) /\ UNCHANGED <<points, todo, failed>>
     ELSE /\ existing' = [existing EXCEPT ![i] = old]
          /\ stage' = [stage EXCEPT ![i] =
                         IF desired[i] \subseteq old THEN "delete" ELSE "upsert"]
          /\ UNCHANGED <<files, points, job, failed, todo, path, seen, desired,
                         stale, history>>

Upsert(i) ==
  /\ stage[i] = "upsert"
  /\ points' = points \cup New(i)
  /\ stage' = [stage EXCEPT ![i] = "delete"]
  /\ UNCHANGED <<files, job, failed, locals, history>>

Delete(i) ==
  /\ stage[i] = "delete"
  /\ points' = points \ Obsolete(i)
  /\ NextFile(i)
  /\ UNCHANGED <<todo, failed>>

\* What the request under way does to the collection, if it arrives.
Requested(i) ==
  CASE stage[i] = "upsert" -> points \cup New(i)
    [] stage[i] = "delete" -> points \ Obsolete(i)
    [] stage[i] = "prune_delete" -> points \ stale[i]
    [] OTHER -> points

\* A request of this file fails, or only its answer is lost.
RequestFails(i) ==
  /\ stage[i] \in {"compare", "upsert", "delete"}
  /\ points' \in {points, Requested(i)}
  /\ failed' = [failed EXCEPT ![i] = TRUE]
  /\ NextFile(i)
  /\ UNCHANGED todo

(***************************************************************************)
(* The end: pruning, the exit status, a crash or an error outside the loop.*)
(***************************************************************************)
Finish(i) ==
  /\ stage[i] = "load" /\ todo[i] = {}
  /\ ~job[i].prune \/ failed[i]
  /\ Exit(i, failed[i])
  /\ UNCHANGED points

\* Mutant: pruning after a file could not be read.
PruneReads_AfterFailure(i) ==
  /\ stage[i] = "load" /\ todo[i] = {}
  /\ job[i].prune
  /\ stale' = [stale EXCEPT ![i] = Stale(i)]
  /\ stage' = [stage EXCEPT ![i] = "prune_delete"]
  /\ UNCHANGED <<files, points, job, failed, todo, path, seen, desired,
                 existing, history>>

PruneReads(i) ==
  /\ stage[i] = "load" /\ todo[i] = {}
  /\ job[i].prune /\ ~failed[i]
  /\ stale' = [stale EXCEPT ![i] = Stale(i)]
  /\ stage' = [stage EXCEPT ![i] = "prune_delete"]
  /\ UNCHANGED <<files, points, job, failed, todo, path, seen, desired,
                 existing, history>>

PruneDeletes(i) ==
  /\ stage[i] = "prune_delete"
  /\ points' = points \ stale[i]
  /\ Exit(i, FALSE)

Abort(i) ==
  /\ Active(i)
  /\ points' \in {points, Requested(i)}
  /\ Exit(i, TRUE)

\* The directories are the user's: a file may change at any time.
Edit(r, p) ==
  /\ \E content \in Contents[r][p] :
       /\ content # files[r][p]
       /\ files' = [files EXCEPT ![r][p] = content]
  /\ touched' = [i \in Ingestor |->
                   touched[i] \/ (Active(i) /\ job[i].root = r)]
  /\ quiet' = [i \in Ingestor |->
                 quiet[i] /\ ~\E k \in Ingestor \ {i} :
                               /\ Active(i) /\ job[i].root = r
                               /\ Active(k) /\ job[k].root = r]
  /\ UNCHANGED <<points, stage, job, failed, locals, clashed>>

Step(i) ==
  \/ Start(i) \/ Validate(i) \/ Refuse(i) \/ List(i)
  \/ Load(i) \/ LoadFails(i)
  \/ Compare(i) \/ Upsert(i) \/ Delete(i) \/ RequestFails(i)
  \/ Finish(i) \/ PruneReads(i) \/ PruneDeletes(i)
  \/ Abort(i)

Next ==
  \/ \E i \in Ingestor : Step(i)
  \/ \E r \in Root, p \in Path : Edit(r, p)

Spec == Init /\ [][Next]_vars

(***************************************************************************)
(* Properties.                                                             *)
(***************************************************************************)

\* The types: a run holds a path only while it has a document in hand, whose
\* chunks are desired, and deletes points of whole chunks only.
TypeOK ==
  /\ files \in [Root -> [Path -> Version \cup {Absent, Unreadable}]]
  /\ points \subseteq Chunk
  /\ stage \in [Ingestor -> Stage]
  /\ job \in [Ingestor -> Job \cup {None}]
  /\ failed \in [Ingestor -> BOOLEAN]
  /\ todo \in [Ingestor -> SUBSET Path]
  /\ path \in [Ingestor -> Path \cup {None}]
  /\ seen \in [Ingestor -> SUBSET Document]
  /\ desired \in [Ingestor -> SUBSET Chunk]
  /\ existing \in [Ingestor -> SUBSET Chunk]
  /\ stale \in [Ingestor -> SUBSET Chunk]
  /\ quiet \in [Ingestor -> BOOLEAN]
  /\ touched \in [Ingestor -> BOOLEAN]
  /\ clashed \in BOOLEAN
  /\ \A i \in Ingestor :
       /\ Active(i) <=> job[i] # None
       /\ path[i] # None <=> stage[i] \in {"compare", "upsert", "delete"}

\* The points of a document are the chunks its file has under a job.
UpToDate(j, p, indexed) ==
  {c \in indexed : c.doc = Doc(j.root, p)}
    = ChunksOf(Doc(j.root, p), files[j.root][p], j.config)

\* A run that exits with success, that no edit met, and no run of its corpus but
\* such as work on the same unchanged files with the same configuration, leaves
\* of every file of its directory exactly the chunks it has now, whatever crashes
\* and overlaps came before it, and with --prune nothing of a deleted file
\* (ingest, docs/rag.md "until the next successful ingest").
RunConverges ==
  [][\A i \in Ingestor :
       (/\ Active(i) /\ stage'[i] = "idle" /\ ~failed'[i]
        /\ quiet[i] /\ ~touched[i])
       => \A p \in Path :
            LET content == files[job[i].root][p] IN
            /\ content # Unreadable
            /\ content # Absent => UpToDate(job[i], p, points')
            /\ (content = Absent /\ job[i].prune)
                 => \A c \in points' : c.doc # Doc(job[i].root, p)]_vars

\* Every piece of some content of the document can be retrieved.
Retrievable(d, indexed) ==
  \E v \in Version, c \in Config : ChunksOf(d, v, c) \subseteq indexed

\* A document that can be retrieved whole stays so: only runs at odds (of other
\* files or another configuration), or the pruning of a file that is gone (or
\* changed while the run went on), take it away.  New chunks are written before
\* old ones are deleted, and a failed read suppresses the pruning of the whole
\* run (ingest).
EvidenceKept ==
  [][\A d \in {c.doc : c \in points \ points'} :
       (Retrievable(d, points) /\ ~Retrievable(d, points'))
       => \E i \in Ingestor :
            /\ Active(i)
            /\ \/ ~quiet[i]
               \/ /\ stage[i] = "prune_delete"
                  /\ touched[i] \/ files[job[i].root][d.path] = Absent]_vars

\* The collection holds chunks of one configuration, and the check of one point
\* stands for all of them, unless the check of a run once found nothing while one
\* of another configuration was past its own (validate_configuration).
OneConfiguration ==
  clashed \/ \A c, d \in points : c.config = d.config

\* docs/rag.md: the configuration is checked before ingest or retrieval, and a
\* mismatched index is never served.  A retrieval under a configuration that the
\* first point passes meets points of that one only (RetrievalService.retrieve).
NoMismatchServed ==
  \A c \in Config :
    (\E first \in points : first.config = c) => \A d \in points : d.config = c

\* A point that disappears belongs to the corpus of a run under way: no run
\* deletes from another corpus (the comment on pruning in ingest).
ScopedToCorpus ==
  [][\A c \in points \ points' :
       \E i \in Ingestor :
         Active(i) /\ c.doc.corpus = CorpusOf[job[i].root]]_vars

\* The piece whose text a chunk has: of pieces with one key the last is kept,
\* as the upsert writes them in order under one identifier.
TextOf(c) ==
  CHOOSE n \in DOMAIN Pieces[c.version] :
    /\ Pieces[c.version][n] = c.key
    /\ \A m \in DOMAIN Pieces[c.version] : Pieces[c.version][m] = c.key => m <= n

\* docs/rag.md: headings delimit the sections, and a point is identified by its
\* document, content, heading and position.  After a successful run that met no
\* other and no edit, the text of every piece of every file is in the index.
EveryPieceIndexed ==
  [][\A i \in Ingestor :
       (/\ Active(i) /\ stage'[i] = "idle" /\ ~failed'[i]
        /\ quiet[i] /\ ~touched[i])
       => \A p \in {q \in Path : files[job[i].root][q] \in Version} :
            \A n \in DOMAIN Pieces[files[job[i].root][p]] :
              \E c \in points' :
                /\ c.doc = Doc(job[i].root, p)
                /\ c.version = files[job[i].root][p]
                /\ TextOf(c) = n]_vars
=============================================================================
