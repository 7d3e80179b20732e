# TLA+ models of the Enterprise Security Intelligence Copilot

The repository is a FastAPI service that answers a security question by routing
it to at most three evidence sources (policies in Qdrant, events and incidents
in PostgreSQL, an anomaly model), and having a local language model write a
summary of what they returned. These modules model the part of it that decides
what is asked, what is kept, what may be said and what is delivered, the server
and the console around it, and the commands that fill its stores: the seeding of
the database, the training of the model and its evaluation, the ingestion of the
policies. TLC checks them, and TLAPS proves the results. Paths below are relative
to the repository root.

Run a check with `tlc -config investigation.cfg MCInvestigationGraph`, a proof
with `tlapm InvestigationGraphProofs.tla`. `PROJECT.json` maps every definition
to the lines it models.

## 1. Inventory

| Component | State | Operations | Interacts with |
|---|---|---|---|
| Request routing (`app/agent/routing.py`, `schemas.py`) | none | `required_tools`, `requested_window`, `validated_decisions`, the validators of `ToolDecision` | called by the agent's first node; its decisions are validated again by the tools |
| Investigation agent (`app/agent/graph.py`) | `AgentState`, two limits | nodes route, tools, assess, synthesize, finalize | language model (two calls), tools |
| Agent tools (`app/agent/tools.py`) | none | `run`, `_run`, `_anomaly` | Qdrant, the request's database session, the anomaly service |
| Investigation endpoint (`app/api/routes/investigate.py`, `services.py`, `dependencies.py`) | a database session per request | `investigate`, `audit`, `get_session` | agent, `audit_logs` |
| Data and knowledge API (`app/api/routes/`) | a session per request | queries and their audit | PostgreSQL, Qdrant |
| Middleware and health (`app/api/main.py`) | application state, metrics | body limit, request identifier, error handlers, readiness | everything |
| Ollama provider (`app/llm/ollama.py`) | HTTP client | `health`, `generate`, `generate_structured` | native Ollama, metrics |
| Operational metrics (`app/core/observability.py`) | counters, timers behind a lock | `increment`, `observe`, `snapshot`, `emit` | every component, many threads |
| Policy ingestion and retrieval (`app/rag/`) | a Qdrant collection | `ingest`, prune, `retrieve` | files, embedder, Qdrant |
| Anomaly service (`app/ml/service.py`) | the artifact of a request | `default_user_window`, `analyze_user` | PostgreSQL, the model file |
| Model training (`app/ml/train.py`, `model.py`) | the model file | `run_training`, `save_artifact`, `load_artifact` | PostgreSQL, file system, MLflow |
| Dataset seeding (`app/db/seed.py`, `wait.py`) | the dataset, the ground-truth file | `seed_database`, `wait_for_database` | PostgreSQL, file system |
| Web client (`frontend/`) | Streamlit session state | `_request`, pages | the API |
| Offline evaluation (`app/evaluation/`, `app/agent/evaluate*.py`) | none | fixed cases | all of the above |

What is hard in it:

* **Partial failure.** Three sources, two calls of a model and an audit record
  may each fail on their own, and the answer has to say exactly what is missing.
  The tools share one database session with the audit, which none of them rolls
  back.
* **Limits.** Steps and calls are bounded, and the bound may be hit at any node,
  with other fields of the state already written.
* **Sequences of guards.** The text of the answer is rewritten by several
  guards, each of which may meet what the one before it wrote.
* **Validation at a distance.** What the router builds is refused or accepted
  by validators in two other modules and one service.
* **Crashes and overlaps.** An ingestion changes Qdrant in several requests, any
  of which may be lost with the process, while the files change and another
  ingestion runs. A seeding commits to PostgreSQL and exports a file afterwards,
  a training reads both and writes two more, and nothing keeps two commands
  apart.
* **Threads.** The worker threads share a pool of connections and counters that
  each of them increments one at a time, between calls that may block or fail.
* **Stale results.** The console gives up on a request the server goes on with,
  and a click stops the script that waits for an answer.
* **Two ways to one number.** The training, the evaluation and the API each
  select the events of a user's day and compute features and figures of it on
  their own.

What makes the components correct: a request is routed to the sources its words
justify and to nothing else, with its own identifiers and interval; an answer
never claims more than its sources gave; a missing source is visible; a reader
sees no incident; every investigation ends; nothing is delivered unaudited; the
collection holds what the files say after a successful ingestion, and never less
of a document than before on the way; a dataset in the database has its marker,
and after a seeding or a training that met no other, database, ground truth,
model and report are of one seed; the connections, the audit and the counters of
the server fit the requests it has answered; the console shows the answer to the
last question.
`PROJECT.json` lists each hazard at its line with the properties that watch it.

## 2. Modules

```
Routing ── RouteDecision ── MCRouteDecision (routing.cfg)
   │            └────────── RouteDecisionProofs
   └── InvestigationGraph ··INSTANCE·· InvestigationContract
            ├── InvestigationInvariant ── MCInvestigationGraph (investigation.cfg,
            │         │                     summary_claims.cfg, last_day.cfg)
            │         └── InvestigationGraphProofs ──┐
            └── InvestigateEndpoint ──────────────── InvestigateEndpointProofs
                      └── MCInvestigateEndpoint (endpoint.cfg, outage.cfg)

PolicyIngestion ── MCPolicyIngestion (ingestion.cfg, mixed_index.cfg,
      │                                      repeated_heading.cfg)
      └─────────── PolicyIngestionProofs

DatasetSeeding ── ModelTraining ── MCModelTraining (bootstrap.cfg)
                       └────────── ModelTrainingProofs (both)

ApiServer ── ConsoleSession ── MCConsoleSession (serving.cfg)
                   └────────── ConsoleSessionProofs (both)

DailyObservations ── HoldoutEvaluation ── MCHoldoutEvaluation (evaluation.cfg)
      └── DailyObservationsProofs └────── HoldoutEvaluationProofs
```

**Routing** holds operators only. A request is a record of cues, one field for
each regular expression of `routing.py`: whether it matches, or the set of
identifiers or the list of instants it finds. An instant is a number on a line
from 0 to `MaxInstant`, so that the first and last days of the calendar, where
datetime arithmetic overflows, are in reach. `RequiredTools`, `Verdict` and
`Decision` are `required_tools`, the exits of `validated_decisions` in their
order, and the arguments it binds. `Consistent`, `InputAccepted` and
`WindowAccepted` are the three validators a decision meets later.

**RouteDecision** applies it: one step from a request and a proposed plan to a
verdict and the decisions.

**InvestigationGraph** is `InvestigationAgent`. The fields of `AgentState` are
its variables; `pc` is the node about to run; `_tools` is one step for each call,
in the order of the decisions. `StepLimit` is `_enter` refusing a node, for any
node; `Finalize` reads the whole state and writes the response in one step, with
the guards as operators composed in the order of the code. The language model
is the environment: it proposes any plan of `Plans`, writes any prose of
`Syntheses`, fails or times out. A tool returns any subset of the records that
match its decision, up to the number it asks for, or fails. Prose is the set of
claims the guards search for, and the identifiers it mentions.

| Code | Model |
|---|---|
| `state["selected_tools"]`, `tool_results`, `errors`, ... | `selected`, `results`, `errors`, ... |
| `_enter` | `Enter`, `StepLimit` |
| `_route` | `RouteSelects`, `RouteOverLimit`, `RouteTimeout`, `RouteFails`, `RouteRaises` |
| `_tools` | `ToolsBegin`, `ToolRefused`, `ToolReturns`, `ToolFails`, `AnomalyReturns`, `ToolsEnd` |
| `_assess` | `Assess` |
| `_synthesize` | `SynthesisAccepted`, `SynthesisInvents`, `SynthesisTimeout`, `SynthesisFails` |
| `_finalize` | `Finalize` (`GuardML`, `ExplainML`, `GuardPolicy`, `GuardOverclaim`) |
| edges of the compiled graph | `Successor`, the values of `pc'` |

**InvestigationContract** says what a requester may rely on without nodes,
limits or prose: a required source is consulted at most once, what it gives is
kept, an answer carries everything that was found, is sufficient only if every
required source succeeded, and is "complete" only if it is sufficient. The
detailed module implements it: `phase` is read off `pc`, a source has failed
when its result is neither `none` nor `success`, and the answer is the
response without its prose.

**InvestigateEndpoint** runs the investigation inside one request: the session
(idle, open, broken), PostgreSQL that stops and starts at any moment, the audit
row, and the status. `SessionEffect` ties what became of a tool call to what it
did to the session; a broken session stays broken until the handler of a failed
audit rolls it back or the request closes it.

**PolicyIngestion** is the ingest command: any number of processes run it, each
on a directory under a configuration, with or without `--prune`. A step is a
request to Qdrant or a look at the directory: `validate_configuration` (one
point, any of them), `rglob`, `load_document`, `document_points`, `upsert`,
`delete_ids`, and at the end `all_points` and the deletion of what is stale.
Between any two, a file may change, the process may die, a request may fail or
be applied with its answer lost, and another process may take a step. A chunk
is its identifier; a content is the sequence of the keys (heading, page, index)
of its pieces, so that two pieces with one key are one chunk.

| Code | Model |
|---|---|
| local variables of `ingest` | `todo`, `path`, `seen`, `desired`, `existing`, `stale` |
| `stats.failures`, the exit status | `failed` |
| lines 62-66 | `Start`, `Validate`, `Refuse`, `Abort` |
| the loop over `paths` | `List`, `Load`, `LoadFails`, `Compare`, `Upsert`, `Delete`, `RequestFails`, `NextFile` |
| pruning and the end | `PruneReads`, `PruneDeletes`, `Finish`, `Exit` |

`quiet`, `touched` and `clashed` are history, and only say to which runs a
property applies. A run is quiet while every other of its corpus works on the
same directory, unchanged, under the same configuration (`Agree`): two runs that
want the same may overlap as they like. Its directory was `touched` if a file
changed during it. The configurations `clashed` if a check passed on an empty
collection while a run of another configuration was past its own.

**DatasetSeeding** is `python -m app.db.seed` after `app.db.wait`: any number of
runs, each with a seed and perhaps `--reset`. A run is one transaction of
PostgreSQL at its default isolation. The model keeps what two such transactions
can notice of each other: a statement sees what is committed when it starts, a
delete waits for rows another is deleting, an insert for keys another is
inserting. All datasets have the same identifiers, so the committed rows are
those of one run and stand for it; an audit row stands for who wrote it, and the
audit row of a run is the marker it looks for the next time. The API may write
an audit row at any moment. The ground truth is a file, truncated and written
after the commit. A run may die before any step.

| Code | Model |
|---|---|
| `wait_for_database`, the revision check | `Attempt` |
| `existing`, `populated` and what follows of them | `ReadMarker`, `ReadCounts` (`Outcome`) |
| the deletes of `--reset` | `SnapshotAudit`, `Wipe` |
| the inserts, `session.commit` | `Insert`, `Commit` |
| the export of the ground truth | `OpenTruth`, `WriteTruth` |

**ModelTraining** adds `python -m app.ml.train` in front of the same database:
it reads the events, fits, reads the ground truth only then, writes the artifact
to a temporary file, replaces the model with it, writes the report. With
`--clean` it first removes the directory, other runs' temporary files included.
A model is the seed of the dataset it was fitted on. `temp` is what a temporary
file holds: nothing readable (`Torn`) from its creation until `joblib.dump` has
returned (`StartDump`, `FinishDump`), then the artifact; `Replace` makes the model
of whatever it holds, and a run may die in between.

**ApiServer** is the process of the API: requests that arrive one after the other
and are served side by side, with the pool of connections (`app/db/session.py`),
the calls to Qdrant and Ollama (`app/rag/service.py`, `app/llm/ollama.py`), the
audit records and the unlabelled counters. `Refusal` is everything that may
answer before a handler runs, in its order: body limit, body, token, role,
validation. An investigation is here the sequence of what it holds and waits for:
its details are those of InvestigationGraph, which runs alone. `status` is
the answer a request is going to get, 0 as long as that is open.

| Code | Model |
|---|---|
| routes, dependencies, middleware before the handler | `Arrive` |
| statements, `ApiService.audit`, `except SQLAlchemyError` | `Acquire`, `Read`, `Audit`, `SqlFails`, `ReadRaises` |
| `/health`, `/metrics` | `ProbeDatabase`, `ProbeServices`, `Snapshot` |
| `PolicyRetrievalService.retrieve` | `StartRetrieval` ... `RetrievalFails` |
| `_post`, `generate_structured` | `AskModel` ... `CountFailure` |
| `_tools`, `_assess` | `ToolsRead`, `ToolBreaks`, `ToolsRefused`, `Assess` |
| the counting middleware | `CountRequest`, `Reply` |

**ConsoleSession** puts browser sessions in front of it: a session sends one
request at a time and waits, its client may give up while the server works on,
and a click may stop the script before it assigns what it got. `shown` is
`st.session_state` of the copilot, the one result that outlives its page.

**DailyObservations** holds the functions of `app/ml/features.py`: the grouping
of events by day and entity, their order, the sliding window of fifteen minutes,
the changes of country. **HoldoutEvaluation** runs them: a training builds the
observations of a period and splits them, scikit-learn's model gives each of the
later ones any score, `evaluate_holdout` ranks and counts them against the
scenarios, and the API analyses a user over a window or over the default one,
with events of a query of its own. `Sorted` is Python's `sorted`: an element's
place is the number of those before it. The window is a recursive function over
the events, so that a proof can follow it.

## 3. Runs

| Run | Question | Result |
|---|---|---|
| `routing` | Is every decision the router returns accepted by the validators it meets later, with the interval the request names and no overlapping source? | holds, 14 976 states |
| `investigation` | Is what the response says backed by what the tools returned, for every kind of request, failure and prose and every pair of limits; is a missing analysis explained, a limit final, nothing retried, the contract implemented; does every investigation end? | holds, 134 638 states |
| `endpoint` | Is every delivered answer audited and every request answered while PostgreSQL comes and goes? | holds, 11 016 states |
| `ingestion` | Does a successful run leave what the files say, whatever happened before; does any run take away what it should not; how far does one configuration hold? | holds, 975 344 states |
| `bootstrap` | What do database, ground truth, model and report agree on when seedings and trainings overlap and crash; does every seeding end? | holds, 419 804 states |
| `serving` | Do counters, connections, audit and console fit together while requests wait for each other, fail and are abandoned; is every request answered? | holds, 487 048 states |
| `evaluation` | Is each event counted once, do the figures of an evaluation agree, does the API analyse what was trained on? | holds, 129 588 states |
| `summary_claims` | Do the guards cover the summary, as `docs/agent.md` says? | violated |
| `last_day` | Is every written date answered, as `docs/agent.md` says? | violated |
| `outage` | Is partial evidence delivered when a tool fails and PostgreSQL is reachable, as `docs/agent.md` says? | violated |
| `mixed_index` | Is a mismatched index never served, as `docs/rag.md` says? | violated |
| `repeated_heading` | Is every section of every file in the index after a successful run? | violated |

The five violations:

* `summary_claims`: the guards for anomaly claims and violation claims
  (`app/agent/graph.py:434`, `:448`) read the interpretation; the summary meets
  only the overclaim guard (`:457`). `docs/agent.md:47` and `:53` promise the
  filtering of the claim.
* `last_day`: `9999-12-31` overflows at `app/agent/routing.py:81`.
  `OverflowError` is not among the exceptions `_route` handles, so the request
  ends in 500 where `docs/agent.md:28` promises that day.
* `outage`: a failing statement leaves the shared session in a transaction
  that only a rollback ends; `_tools` goes on without one, and the audit fails
  on it. The policy evidence that was found is not returned and the caller gets
  503 from a database that answers (`app/api/routes/investigate.py:75`, against
  `docs/agent.md:51`).

* `mixed_index`: an ingestion checks the configuration of the first point once, at
  its start, and the check passes on an empty collection
  (`app/rag/store.py:89`). Two first runs of different configurations both pass
  and both write; from then on the one point a retrieval looks at may be of
  either, and the search meets both. `docs/rag.md:21` says that the tool gives an
  error "instead of serving a mismatched index".
* `repeated_heading`: the key of a chunk counts pieces within a section
  (`app/rag/documents.py:139`), so two sections with one heading get the same
  identifier. The later replaces the earlier, the run exits with success, and
  the next one finds the identifiers equal and skips the file. `docs/rag.md:19`
  derives the identifier from heading and position.

Peculiarities the models keep and no document denies: with a step limit of
4 a synthesis may finish and `finalize` be refused, and the response is then
`limit_exceeded` with `evidence_sufficiency` still true (`graph.py:472`, the
deployed limit is 5). `ExplainML` has a default reason for an absent analysis
(`graph.py:436-442`) which, next to observed records, the absence guard would
replace by a sentence that says nothing of the model (`:452`); it is never
reached, because `_anomaly` gives every exception a code of its own
(`tools.py:184-201`) and what it returns passes the schema it was made from.
`FailureCodes` is therefore the named ones, and its mutant a path that ends
without a name. `docs/agent.md:51` holds: `MLAbsenceExplained` has no exception.
Two ingestions of one directory that an edit finds together may take away a
document that was whole: a file changes and changes back, and the identifiers the
first run has read before are those the second has written since
(`app/rag/service.py:90`); nothing keeps two runs apart, and `EvidenceKept` and
`RunConverges` do not speak of such runs. A click during an investigation leaves
the earlier result displayed (`frontend/app.py:202-208`): the page has not learnt
of the answer, and `ShownIsLastAnswer` speaks of what it has learnt. Two
overlapping `--reset` leave two markers, since the delete of the second does not
see the first one's (`OneMarker` speaks of runs that never overlapped). An API
that audited a request before the first seeding keeps every seeding out for good,
`--reset` included (`app/db/seed.py:87`, `UnmarkedStaysUnseeded`). A seeding
or a `--clean` beside a training leaves a report of two datasets, or none.

### Bounds

* Identifiers: two users, one incident, two events in the graph, so that
  "ambiguous" and "belongs to another user" both happen. The router never
  relates one identifier to another, so two of a kind decide everything.
* Calendar: instants 0 to 6 with a day of 2: intervals shorter, as long as and
  longer than a day, and both ends of the calendar. Requests name up to three
  instants, one more than is accepted.
* Records: two events of one user (one of an incident), one incident, one policy
  chunk; both flags of the model. Every property speaks of the kinds of records
  and of single identifiers; the numbers of records a call asks for (3, 5, 1)
  are not reached in the graph's runs, and the theorems do not depend on them.
* Prose: in the interpretation no claim, each alone, all of them, and the pairs
  that two guards meet one after the other; for the summary, the mentions and the
  write-action filter a selection of their own, since the guards treat them
  independently. The theorems take any prose.
* Limits: all fifteen pairs the constructor accepts, on all requests.
* `endpoint` uses one record of each kind and one neutral prose: the endpoint
  reads only the outcome of the response. PostgreSQL may stop and start any
  number of times.

* `ingestion`: two processes, since every property is about one run and one that
  meets it; a directory with a file of three states and one that comes and goes,
  so that one file fails while another is gone, and so that two runs may want the
  same of it or, with an edit between them, not the same; a second corpus with one file
  ingested under two configurations. Runs, crashes and edits are unbounded. The
  processes are interchangeable (symmetry); no liveness is checked there.
  A request that fails is applied at once or never: one that Qdrant applies
  after the client's 15 seconds is not modelled.
* `bootstrap`: three seedings (one plain, two with `--reset`, two seeds), so that
  a third meets what two overlapping ones left; one place from which trainings
  run, with or without `--clean`, one after the other; two attempts to connect.
  Trainings that save at the same time, and clean each other's files, are not in
  this instance: the theorems cover them.
* `serving`: two requests with one connection, so that each meets the other
  waiting for it, holding it or giving it back, on six routes that stand for the
  ten (the others differ in whether an item may be missing and who may call);
  one browser that sends both, so that an answer may come after the next
  question. More requests, connections and browsers are left to the theorems.
* `evaluation`: ticks of five minutes, a period of two days, twelve rows on both
  sides of the ends of the period, of midnight and of fifteen minutes, in every
  set of two to five; two users, two addresses, two countries, three labellings,
  scores on both sides of zero and at it. `Top` is 1 and 2 in place of 5 and
  10, which these datasets do not reach.

### Fairness

`investigation` assumes that the thread of a request keeps running (weak fairness of
`Next`): a call of the model ends within `llm_timeout_seconds`, one of a store
is assumed to end. `endpoint` assumes it of the request's own steps
(`Progress`), and nothing of PostgreSQL, which may stay away or flap for ever.
The graph has no cycle, so the only liveness at stake is that no state is left
without a step.

`bootstrap` assumes that a seeding that can take a step takes one; nothing makes
the database start, so `EverySeedingEnds` rests on the bound of the attempts, and
on the locks of the transactions forming no cycle. `serving` assumes that
the thread of a request keeps running and that what it waits for ends: a statement
of PostgreSQL answers or fails, the wait for a connection ends after the 30
seconds of the pool, a search after the 5 of the Qdrant client, a call of the
model after its read timeout (`Serve`). Nothing is assumed of success, of the
model's plans or of the users (`Outside`, and the actions of the console).
`evaluation` checks no liveness.

## 4. Proofs

All theorems hold for every value of the constants that the named assumptions
admit: any finite or infinite sets of requests, records and prose, any calendar,
any limits up to the constructor's.

* **RouteDecisionProofs** proves the three properties of the router. The lemma
  `CueIds` (a decision's identifier is one the request names) and
  `IntervalDecided` (what "decided" says of an interval) carry the argument.
* **InvestigationGraphProofs** proves type correctness, and the invariant
  `IInv` of *InvestigationInvariant*. The properties are not inductive: a
  response is made from the whole state, so `IInv` says at each node what the
  earlier ones have left: that only required sources are selected
  (`SelectionInv`), that the decisions left to process are the selected ones
  without a result (`LoopInv`), that results and evidence agree after each call
  (`EvidenceInv`), that "sufficient" implies that every source succeeded
  (`JudgedInv`), that a kept synthesis passed its checks (`ProseInv`), that a
  limit leads to the end (`LimitInv`) and that the response is the state
  (`ResponseInv`). There is one lemma for each node and one for a turn of the
  tool loop. The safety properties but one, the two action properties and the refinement of
  the contract follow from it.
  `AbsenceIsExplained` needs more of the state than `IInv` says: while the agent
  goes on, a selected analysis has a result unless it is still to be called or a
  limit was hit (`CallsInv`), a successful one is the analysis in hand
  (`AnalysisInv`), and `finalize` therefore finds either the analysis or one of
  the reasons `ExplainML` names, which no later guard matches (`AbsenceGuarded`).
* **InvestigateEndpointProofs** proves that the endpoint implements the graph
  (every step is a step of the graph or a stutter), so that everything above
  holds of the investigation a request runs, and then the audit and session
  properties.

* **PolicyIngestionProofs** proves all five properties of the ingestion, for any
  number of processes, directories and files. `StepIsLocal` and `PointsChange`
  say what a step of one run leaves of another and of the collection; on them
  rest `HandOK` (what a run holds belongs to the document in hand, or is stale
  in its own corpus), `ConfigOK` (without a clash, runs past their check have
  the configuration of every point and of each other) and `LoopOK` (in an
  unchanged directory, every file is to come, loaded or failed, and the chunks in
  hand are those of the file). Other runs go on beside a quiet one: what they take
  from its documents no file has, what they add some file has (`OthersHarmless`,
  from `LoopOK` of the other run), so `QuietOK` keeps what a run has read of the
  collection good for what it is about to do, and `IndexedOK` what it went through
  up to date. `EvidenceKept` and `RunConverges` relate the collection to files and
  to earlier reads, and hold only by these.

* **ModelTrainingProofs** first proves the safety results of the seeding for any
  number of runs, seeds and attempts. `MarkedDataset` is not inductive: a commit
  that replaces a dataset must be that of a run that deleted the old one's marker
  or adds its own. `Locals` binds what a run holds to its stage, `CommitAlone`
  says that the keys admit one run to its commit, and `Lone` what is true as long
  as no two runs have overlapped: one is in flight, and what it has read of the
  markers still holds. Then it shows that every step of the whole is a step of the
  seeding or leaves it alone (`StepsSeed`), so that its invariant carries over,
  and adds `Fitted` (what a run has read stays with it) and `Undisturbed` (a run
  nothing has disturbed works on agreeing data), from which `ModelIsWhole` and
  `LoneTrainingAgrees` follow for any number of trainings at once. Of the temporary
  file `Fitted` says that when its run comes to replace the model it is gone or
  holds the dataset the run was fitted on, although it was torn on the way and
  another run's `--clean` may have removed it.
* **ConsoleSessionProofs** proves the three results of the server for any number of
  requests, any set of routes and any size of the pool. They rest on `Located`:
  which answer, call and record a request may have at each stage. The counters
  are compared with the cardinality of sets of requests; `CallShift` says how one
  step of a call moves such a number, `Counts` what it must count for it, and
  each action is shown to count just that. The invariant of the server carries
  over to any number of consoles in front of it, and `ShownIsLastAnswer` follows
  from it: an answered request is never touched again (`Final`), and a copilot
  waits only for requests of its own route (`WaitsForIts`).

* **DailyObservationsProofs** and **HoldoutEvaluationProofs** prove the three
  properties of the evaluation for any events, scenarios and scores, any period of
  whole days, any length of the burst. Assumed are what the columns of
  `security_events` hold (`IsDataset`: finite, one row to an identifier), that the
  ground truth is finite (`DataAssumption`), and that the period begins and ends
  at midnight and an analysis needs an event (`PeriodAssumption`). The proof of a
  sorted list never follows the sorting: places are counted (`BelowGrows`,
  `PlacesList`, `ListsOnce`), and everything else is read off the places. That
  the queue of fifteen minutes has held the largest window needs an induction over
  the events (`WindowHolds`); it is by least counterexample (`LeastNatural`),
  since the induction theorems cannot be instantiated. `QueueSlides` is its step: what
  the queue holds after an event are the times of those before it that are not
  older than the burst. `DayOfTime`, `OneDay` and `Midnight` are the arithmetic
  of days. The invariant `EvaluationInv` says at each stage what the training has
  left: the observations are those of the events of the period, the scores are
  those of the holdout, the result is what `EvaluateHoldout` makes of them. From
  it, `EventsArePartitioned` needs that groups are days (`PartitionFollows`),
  `EvaluationHangsTogether` that the flagged observations are the first ranks
  (`FlaggedFirst`), and `ServedDays` that an analysis of a day selects the events
  of one group (`AnalysesAreOfDays`).

**How long things take.** Liveness is out of the proof system's reach, its half
that needs no fairness is not: a measure of the steps still to come, with a proof
that every step decreases it. What remains for TLC is that a step is taken as long
as one is left.

* `InvestigationsAreShort`: at most nine steps for an investigation. The loop of
  the tools makes at most as many as sources were selected (`Few`, `FewCalls`).
* `AnswersAreNear`: at most ten steps of a request at the endpoint, while
  PostgreSQL may come and go any number of times in between.
* `RequestsAreShort`: at most 22 steps of a request in the server; a step of one
  request leaves every other as far from its answer as it was (`OthersWait`).
* `SeedingsAreShort`: at most the attempts to connect and eight steps of a
  seeding; the locks form no cycle (`HoldersGoOn`).

**What the violated claims come to.** Four of the five claims that a run refutes
hold under a condition, and the theorem says which: the condition is the whole
extent of the disagreement.

* `OnlyCalendarEndsRaise` (run `last_day`): an investigation raises only for an
  instant within a day of the beginning of the calendar or a date whose day has
  no end in it.
* `SummariesAreGuarded` (run `summary_claims`): whatever the model writes, flags
  in the summary are those of an observation, and no overclaim and no inexact
  score is left; only an anomaly or a violation can be claimed without evidence.
* `LastPiecesAreIndexed` and `DistinctPiecesAreIndexed` (run `repeated_heading`):
  what is missing from the index after a successful quiet run are the pieces that
  a later one of the same heading and position has replaced, so nothing where no
  two share both.

* `OnlyRacesMismatch` (run `mixed_index`): the index is mismatched only after a
  check that passed on an empty collection while a run of another configuration
  was past its own.

The fifth (run `outage`) has its counterpart in `BrokenSessionIsFinal`: with a
broken session the request ends in an error.

`ConsolesOnlyAsk` shows the consoles' specification to implement the server's
(its safety part): a page is never more to the server than a request that arrives.

What is only model-checked: the liveness properties `Ends`,
`EveryRequestAnswered` (of the endpoint and of the server) and
`EverySeedingEnds` (liveness under fairness is beyond the proof system), and the
violations. Every safety invariant and every action property the passing runs
check is also a theorem. `IInv` is checked by TLC as well, in the run
`investigation`.

## 5. Order of the work

1. `Routing`, `RouteDecision` and their proofs.
2. `InvestigationGraph`, `InvestigationContract` and their proofs.
3. `InvestigateEndpoint` and its proofs.
4. `PolicyIngestion` and its proofs.
5. `DatasetSeeding`, `ModelTraining` and their proofs.
6. `ApiServer`, `ConsoleSession` and their proofs.
7. `DailyObservations`, `HoldoutEvaluation` and their proofs.

What could follow: the investigation of InvestigationGraph inside the server of
ApiServer in place of its outline; a retrieval while an ingestion changes the
collection; the labelled counters.

## 6. Not modelled

* Data, not control: the rendering of records and of prose, the regular
  expressions themselves, the relevance heuristic of the policy tool, retrieval
  scores, the rows a filter or a page selects, the generator of the synthetic
  dataset, the isolation forest, the features that are a count of one kind of
  event or a quotient of two. `event_type_from_request` only narrows a filter
  and is part of "which records match".
* Of the server: the labelled counters, those of investigations and of inference,
  the timers and the log (nothing reads them back); headers and request
  identifiers; CORS; a server without `DATABASE_URL`; a malformed
  `Content-Length`, a token that is not ASCII (`compare_digest` raises,
  `dependencies.py:37`). Responses of the API the client cannot parse. The
  loading of the artifact: each request loads it for itself, and `ModelIsWhole`
  says what it can find.
* Of the evaluation: scenarios are a set, one to an identifier, as the generator
  writes them; `evaluation.py:68-73` would take two with one identifier for one.
* The size of a prompt: evidence between the 8000 characters of the provider and
  the 11000 of `evidence_prompt` always ends in `synthesis_failed`, which here is
  one of the ways a synthesis may fail.
* Of the commands: MLflow (a failure of it is one of the reasons a training
  aborts), the metadata check of an artifact, the files of single experiments;
  a late application of a request by Qdrant.
* Retrieval between its check and its search: `PolicyIngestion` says what the
  collection may hold, `ApiServer` takes a retrieval for one step.
* The database schema and its migration (declarations), settings, smoke tests,
  and the offline evaluation (`app/evaluation/`, `app/agent/evaluate*.py`,
  `app/rag/evaluate.py`): sequential scripts that run fixed cases and write a
  report.
