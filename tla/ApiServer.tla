----------------------------- MODULE ApiServer -----------------------------
(***************************************************************************)
(* The API process: the requests its worker threads run side by side       *)
(* (app/api), the pool of database connections they share, the calls they  *)
(* make to Qdrant and Ollama, the audit record each leaves and the         *)
(* counters they all increment (app/core/observability.py).                *)
(*                                                                         *)
(* A request takes a connection with its first statement and gives it back *)
(* with a commit, a rollback or the end of its session.  An investigation  *)
(* asks the model for a plan, runs its tools, asks the model for a text;   *)
(* InvestigationGraph has its details, this module what it holds meanwhile.*)
(***************************************************************************)
EXTENDS Naturals, FiniteSets

CONSTANTS
  Requests,  \* how many requests the process receives
  Endpoint,  \* the routes they use
  PoolSize,  \* connections, overflow included
  None       \* no route yet

Routes == {"health", "events", "event", "user_events", "incidents", "incident",
           "audit", "metrics", "retrieval", "investigation"}

ASSUME RequestsAssumption == Requests \in Nat
ASSUME EndpointAssumption == Endpoint \subseteq Routes /\ None \notin Routes \cup Nat
ASSUME PoolAssumption == PoolSize \in Nat \ {0}

\* What the routes ask of the caller, and what they may answer.
Posted == {"retrieval", "investigation"}
Parameterless == {"health", "metrics"}
AdminOnly == {"incidents", "incident", "audit", "metrics"}
Items == {"event", "incident"}

Roles == {"admin", "reader", "nobody"}
Forms == {"valid", "invalid", "unreadable", "too_large"}

Counter == {"api_requests_total", "api_errors_total",
            "llm_calls_total", "llm_failures_total", "llm_timeouts_total",
            "retrieval_calls_total", "retrieval_insufficient_total"}

\* Numbered as they arrive.
Request == 1..Requests

VARIABLES
  endpoint,  \* the route of each request
  stage,     \* where its thread is
  call,      \* its call to Qdrant or Ollama, if one is under way
  todo,      \* the sources an investigation has still to ask
  evidence,  \* the investigations that have found some
  status,    \* the status it will be answered with, 0 as long as it is open
  pool,      \* the requests that hold a connection
  broken,    \* those in whose transaction a statement has failed
  audited,   \* the requests with a committed audit record
  count      \* OperationalMetrics

vars == <<endpoint, stage, call, todo, evidence, status, pool, broken, audited, count>>

Calls == {"idle", "searching", "waiting", "failing"}
Sources == {"policy", "records"}
Stages == {"new", "probe", "services", "snapshot", "read", "retrieve", "route",
           "tools", "synthesis", "audit", "count", "reply", "answered"}

Init ==
  /\ endpoint = [r \in Request |-> None]
  /\ stage = [r \in Request |-> "new"]
  /\ call = [r \in Request |-> "idle"]
  /\ todo = [r \in Request |-> {}]
  /\ evidence = {}
  /\ status = [r \in Request |-> 0]
  /\ pool = {} /\ broken = {} /\ audited = {}
  /\ count = [c \in Counter |-> 0]

-----------------------------------------------------------------------------
Go(r, s) == stage' = [stage EXCEPT ![r] = s]
Answer(r, code) == status' = [status EXCEPT ![r] = code]
Called(r, c) == call' = [call EXCEPT ![r] = c]
Increment(c) == count' = [count EXCEPT ![c] = @ + 1]
Release(r) == pool' = pool \ {r} /\ broken' = broken \ {r}

Uncounted == UNCHANGED count
Disconnected == UNCHANGED <<pool, broken, audited>>
Uninvolved == UNCHANGED <<endpoint, todo, evidence>>

-----------------------------------------------------------------------------
(* Arrival: everything that can refuse a request before its handler runs.  *)

Refusal(e, role, form) ==
  CASE e \in Posted /\ form = "too_large"           -> 413
    [] e \in Posted /\ form = "unreadable"          -> 422
    [] e # "health" /\ role = "nobody"              -> 401
    [] e \in AdminOnly /\ role = "reader"           -> 403
    [] e \notin Parameterless /\ form = "invalid"   -> 422
    [] OTHER                                        -> 0

FirstStage(e) ==
  CASE e = "health"        -> "probe"
    [] e = "metrics"       -> "snapshot"
    [] e = "retrieval"     -> "retrieve"
    [] e = "investigation" -> "route"
    [] OTHER               -> "read"

Arrive(r, e, role, form) ==
  /\ stage[r] = "new"
  /\ \A q \in Request : q < r => stage[q] # "new"
  /\ form \in {"unreadable", "too_large"} => e \in Posted
  /\ form = "invalid" => e \notin Parameterless
  /\ endpoint' = [endpoint EXCEPT ![r] = e]
  /\ Answer(r, Refusal(e, role, form))
  /\ Go(r, IF Refusal(e, role, form) = 0 THEN FirstStage(e) ELSE "count")
  /\ UNCHANGED <<call, todo, evidence, pool, broken, audited, count>>

-----------------------------------------------------------------------------
(* Statements of a request's session. *)

NeedsConnection(r) ==
  \/ stage[r] \in {"probe", "read", "audit"}
  \/ stage[r] = "tools" /\ call[r] = "idle" /\ "records" \in todo[r]

Acquire(r) ==
  /\ NeedsConnection(r) /\ r \notin pool
  /\ Cardinality(pool) < PoolSize
  /\ pool' = pool \cup {r}
  /\ UNCHANGED <<endpoint, stage, call, todo, evidence, status, broken, audited, count>>

\* The rows of a page or an item; an item may be missing.
Read(r) ==
  /\ stage[r] = "read" /\ r \in pool
  /\ \E code \in IF endpoint[r] \in Items THEN {200, 404} ELSE {200} : Answer(r, code)
  /\ Go(r, "audit")
  /\ UNCHANGED call /\ Disconnected /\ Uncounted /\ Uninvolved

\* ApiService.audit: one row, and the commit that returns the connection.
Audit(r) ==
  /\ stage[r] = "audit" /\ r \in pool \ broken
  /\ audited' = audited \cup {r}
  /\ Release(r)
  /\ Go(r, "count")
  /\ UNCHANGED <<call, status>> /\ Uncounted /\ Uninvolved

\* Mutant: a failed audit does not stop the answer.
SqlFails_Swallowed(r) ==
  /\ stage[r] \in {"read", "audit"}
  /\ Release(r)
  /\ Answer(r, IF stage[r] = "audit" THEN status[r] ELSE 503)
  /\ Go(r, "count")
  /\ UNCHANGED <<call, audited>> /\ Uncounted /\ Uninvolved

\* No connection in time, or a statement or the commit fails: the handler rolls
\* back; a commit whose answer was lost may have been made.
SqlFails(r) ==
  /\ stage[r] \in {"read", "audit"}
  /\ \/ UNCHANGED audited
     \/ stage[r] = "audit" /\ r \in pool \ broken /\ audited' = audited \cup {r}
  /\ Release(r)
  /\ Answer(r, 503)
  /\ Go(r, "count")
  /\ UNCHANGED call /\ Uncounted /\ Uninvolved

\* A filter that is no instant in UTC raises before the first statement.
ReadRaises(r) ==
  /\ stage[r] = "read" /\ r \notin pool
  /\ endpoint[r] = "events"
  /\ Answer(r, 500) /\ Go(r, "count")
  /\ UNCHANGED call /\ Disconnected /\ Uncounted /\ Uninvolved

-----------------------------------------------------------------------------
(* GET /health and GET /metrics. *)

\* Mutant: the session of the probe stays open while the others are asked.
ProbeDatabase_Open(r) ==
  /\ stage[r] = "probe"
  /\ \/ r \in pool /\ UNCHANGED status
     \/ Answer(r, 503)
  /\ UNCHANGED <<pool, broken>>
  /\ Go(r, "services")
  /\ UNCHANGED <<call, audited>> /\ Uncounted /\ Uninvolved

\* SELECT 1 on a session of its own, closed before the other dependencies are asked.
ProbeDatabase(r) ==
  /\ stage[r] = "probe"
  /\ \/ r \in pool /\ UNCHANGED status
     \/ Answer(r, 503)
  /\ Release(r)
  /\ Go(r, "services")
  /\ UNCHANGED <<call, audited>> /\ Uncounted /\ Uninvolved

ProbeServices(r) ==
  /\ stage[r] = "services"
  /\ \E code \in {200, 503} : Answer(r, IF status[r] = 0 THEN code ELSE 503)
  /\ Go(r, "count")
  /\ UNCHANGED call /\ Disconnected /\ Uncounted /\ Uninvolved

\* The counters are copied before there is a connection.
Snapshot(r) ==
  /\ stage[r] = "snapshot"
  /\ Answer(r, 200) /\ Go(r, "audit")
  /\ UNCHANGED call /\ Disconnected /\ Uncounted /\ Uninvolved

-----------------------------------------------------------------------------
(* Retrieval, by its own route or as a tool of an investigation. *)

MayRetrieve(r) ==
  \/ stage[r] = "retrieve"
  \/ stage[r] = "tools" /\ "policy" \in todo[r]

\* What a retrieval leaves: a route goes to its audit, a tool to the next source.
Retrieved(r, code, found) ==
  /\ Called(r, "idle")
  /\ IF stage[r] = "retrieve"
     THEN Answer(r, code) /\ Go(r, "audit") /\ UNCHANGED <<todo, evidence>>
     ELSE /\ todo' = [todo EXCEPT ![r] = @ \ {"policy"}]
          /\ evidence' = IF found THEN evidence \cup {r} ELSE evidence
          /\ UNCHANGED <<stage, status>>
  /\ UNCHANGED endpoint /\ Disconnected

StartRetrieval(r) ==
  /\ MayRetrieve(r) /\ call[r] = "idle"
  /\ Called(r, "searching")
  /\ Increment("retrieval_calls_total")
  /\ UNCHANGED <<stage, status>> /\ Disconnected /\ Uninvolved

\* The service cannot be built, or the query is refused: nothing is counted.
RetrievalImpossible(r) ==
  /\ MayRetrieve(r) /\ call[r] = "idle"
  /\ Retrieved(r, 503, FALSE) /\ Uncounted

RetrievalFinds(r) ==
  /\ MayRetrieve(r) /\ call[r] = "searching"
  /\ Retrieved(r, 200, TRUE) /\ Uncounted

RetrievalInsufficient(r) ==
  /\ MayRetrieve(r) /\ call[r] = "searching"
  /\ Retrieved(r, 200, FALSE)
  /\ Increment("retrieval_insufficient_total")

RetrievalFails(r) ==
  /\ MayRetrieve(r) /\ call[r] = "searching"
  /\ Retrieved(r, 503, FALSE) /\ Uncounted

-----------------------------------------------------------------------------
(* The calls an investigation makes to the model. *)

MayAskModel(r) == stage[r] \in {"route", "synthesis"} /\ call[r] = "idle"

\* Whatever went wrong with the model, the investigation ends with a response.
Conclude(r) ==
  /\ Called(r, "idle") /\ Answer(r, 200) /\ Go(r, "audit")
  /\ Disconnected /\ Uninvolved

AskModel(r) ==
  /\ MayAskModel(r)
  /\ Called(r, "waiting")
  /\ Increment("llm_calls_total")
  /\ UNCHANGED <<stage, status>> /\ Disconnected /\ Uninvolved

\* Evidence longer than the provider accepts is refused before it is counted.
PromptRefused(r) ==
  /\ MayAskModel(r) /\ stage[r] = "synthesis"
  /\ Conclude(r) /\ Uncounted

\* The plan names the sources to ask, possibly none.
ModelPlans(r) ==
  /\ call[r] = "waiting" /\ stage[r] = "route"
  /\ Called(r, "idle")
  /\ \E sources \in SUBSET Sources : todo' = [todo EXCEPT ![r] = sources]
  /\ Go(r, "tools")
  /\ UNCHANGED <<endpoint, evidence, status>> /\ Disconnected /\ Uncounted

\* A text, or a plan validated_decisions refuses.
ModelAnswers(r) ==
  /\ call[r] = "waiting"
  /\ Conclude(r) /\ Uncounted

\* Mutant: an answer that fails the schema is counted by both functions.
SchemaFails_Twice(r) ==
  /\ call[r] = "waiting"
  /\ count' = [count EXCEPT !["llm_failures_total"] = @ + 2]
  /\ Conclude(r)

\* generate_structured: a call that succeeded, whose text does not fit the schema.
SchemaFails(r) ==
  /\ call[r] = "waiting"
  /\ Increment("llm_failures_total")
  /\ Conclude(r)

\* The dates of an accepted plan overflow: run raises it again.
RoutingRaises(r) ==
  /\ call[r] = "waiting" /\ stage[r] = "route"
  /\ Called(r, "idle") /\ Answer(r, 500) /\ Go(r, "count")
  /\ Disconnected /\ Uncounted /\ Uninvolved

\* Mutant: the request for the plan has no time limit.
ModelTimesOut_TextOnly(r) ==
  /\ call[r] = "waiting" /\ stage[r] = "synthesis"
  /\ Called(r, "failing")
  /\ Increment("llm_timeouts_total")
  /\ UNCHANGED <<stage, status>> /\ Disconnected /\ Uninvolved

ModelTimesOut(r) ==
  /\ call[r] = "waiting"
  /\ Called(r, "failing")
  /\ Increment("llm_timeouts_total")
  /\ UNCHANGED <<stage, status>> /\ Disconnected /\ Uninvolved

\* Unreachable, missing, an HTTP error, or a response _post refuses.
ModelBreaks(r) ==
  /\ call[r] = "waiting"
  /\ Called(r, "failing")
  /\ UNCHANGED <<stage, status>> /\ Disconnected /\ Uncounted /\ Uninvolved

\* The finally of _post; the agent takes the exception for a failed node.
CountFailure(r) ==
  /\ call[r] = "failing"
  /\ Increment("llm_failures_total")
  /\ Conclude(r)

-----------------------------------------------------------------------------
(* The tools of an investigation that read PostgreSQL, on its one session. *)

RecordsRead(r, found) ==
  /\ stage[r] = "tools" /\ call[r] = "idle" /\ "records" \in todo[r]
  /\ todo' = [todo EXCEPT ![r] = @ \ {"records"}]
  /\ evidence' = IF found THEN evidence \cup {r} ELSE evidence
  /\ UNCHANGED <<endpoint, stage, call, status, pool, audited, count>>

ToolsRead(r) ==
  /\ r \in pool
  /\ \E found \in BOOLEAN : RecordsRead(r, found)
  /\ UNCHANGED broken

\* A statement fails, after others may have found something: _tools does not roll back.
ToolBreaks(r) ==
  /\ r \in pool
  /\ \E found \in BOOLEAN : RecordsRead(r, found)
  /\ broken' = broken \cup {r}

\* The calls are refused before a statement, or there is no connection in time.
ToolsRefused(r) ==
  /\ r \notin pool
  /\ RecordsRead(r, FALSE)
  /\ UNCHANGED broken

\* _assess: without evidence the model is not asked again.
Assess(r) ==
  /\ stage[r] = "tools" /\ todo[r] = {}
  /\ evidence' = evidence \ {r}
  /\ IF r \in evidence
     THEN Go(r, "synthesis") /\ UNCHANGED status
     ELSE Go(r, "audit") /\ Answer(r, 200)
  /\ UNCHANGED <<endpoint, call, todo>> /\ Disconnected /\ Uncounted

-----------------------------------------------------------------------------
(* The outermost middleware, when the handler is over. *)

CountRequest(r) ==
  /\ stage[r] = "count"
  /\ Increment("api_requests_total")
  /\ Go(r, "reply")
  /\ UNCHANGED <<call, status>> /\ Disconnected /\ Uninvolved

Reply(r) ==
  /\ stage[r] = "reply"
  /\ IF status[r] >= 400 THEN Increment("api_errors_total") ELSE Uncounted
  /\ Go(r, "answered")
  /\ UNCHANGED <<call, status>> /\ Disconnected /\ Uninvolved

-----------------------------------------------------------------------------
\* What the thread of a request does by itself, or when PostgreSQL answers or a
\* time limit (of the pool, Qdrant or Ollama) passes.
Serve(r) ==
  \/ Acquire(r) \/ Read(r) \/ Audit(r) \/ SqlFails(r)
  \/ ProbeDatabase(r) \/ ProbeServices(r) \/ Snapshot(r)
  \/ StartRetrieval(r) \/ RetrievalFails(r)
  \/ AskModel(r) \/ ModelTimesOut(r) \/ CountFailure(r)
  \/ ToolsRead(r) \/ ToolBreaks(r) \/ ToolsRefused(r) \/ Assess(r)
  \/ CountRequest(r) \/ Reply(r)

\* What other programs, or the data, may do to it and need not.
Outside(r) ==
  \/ ReadRaises(r)
  \/ RetrievalImpossible(r) \/ RetrievalFinds(r) \/ RetrievalInsufficient(r)
  \/ PromptRefused(r) \/ ModelPlans(r) \/ ModelAnswers(r) \/ SchemaFails(r)
  \/ RoutingRaises(r) \/ ModelBreaks(r)

Handle(r) == Serve(r) \/ Outside(r)

Next ==
  \E r \in Request :
    \/ \E e \in Endpoint, role \in Roles, form \in Forms : Arrive(r, e, role, form)
    \/ Handle(r)

Fairness == \A r \in Request : WF_vars(Serve(r))

Spec == Init /\ [][Next]_vars /\ Fairness

-----------------------------------------------------------------------------
(* Properties. *)

TypeOK ==
  /\ endpoint \in [Request -> Routes \cup {None}]
  /\ stage \in [Request -> Stages]
  /\ call \in [Request -> Calls]
  /\ todo \in [Request -> SUBSET Sources]
  /\ evidence \subseteq Request
  /\ status \in [Request -> {0, 200, 401, 403, 404, 413, 422, 500, 503}]
  /\ pool \subseteq Request /\ broken \subseteq pool /\ audited \subseteq Request
  /\ count \in [Counter -> Nat]

InCall(kinds) == {r \in Request : call[r] \in kinds}
At(stages) == {r \in Request : stage[r] \in stages}
Errors == {r \in At({"answered"}) : status[r] >= 400}

(* Whenever an administrator looks, the counters agree: every finished     *)
(* request is counted once and every error once, no retrieval or call of   *)
(* the model has failed or timed out more often than it was begun, and     *)
(* what separates the numbers is still under way (main.py:138-141,         *)
(* ollama.py:92-193, service.py:115-160).                                  *)
CountersBalanced ==
  /\ count["api_requests_total"] = Cardinality(At({"reply", "answered"}))
  /\ count["api_errors_total"] = Cardinality(Errors)
  /\ count["llm_failures_total"] + Cardinality(InCall({"waiting", "failing"}))
       <= count["llm_calls_total"]
  /\ count["llm_timeouts_total"]
       <= count["llm_failures_total"] + Cardinality(InCall({"failing"}))
  /\ count["retrieval_insufficient_total"] + Cardinality(InCall({"searching"}))
       <= count["retrieval_calls_total"]

Holding == {"probe", "read", "tools", "synthesis", "audit"}

(* The pool is never overdrawn, and what waits for the model's plan, for   *)
(* Qdrant on behalf of /retrieval or for nothing any more holds none of    *)
(* it: a connection outlives neither its commit, its rollback nor the      *)
(* handler, though tools and synthesis share it with the audit.            *)
PoolKept ==
  /\ Cardinality(pool) <= PoolSize
  /\ pool \subseteq At(Holding)

(* No data without its audit record, and no record of a request that was   *)
(* refused or raised: a 200 or 404 of an audited route has its row,        *)
(* whatever failed on the way, and a row belongs to such an answer or to   *)
(* one that was lost (data.py:44-64, knowledge.py:34-74).                  *)
AuditMatchesAnswer ==
  \A r \in Request :
    /\ stage[r] \in {"count", "reply", "answered"} /\ status[r] \in {200, 404}
       => r \in audited \/ endpoint[r] = "health"
    /\ r \in audited => status[r] \in {200, 404, 503}

(* Every request that arrives is answered, whatever the model, Qdrant, the *)
(* pool and the other requests do: each wait ends by itself.               *)
EveryRequestAnswered ==
  \A r \in Request : stage[r] # "new" ~> stage[r] = "answered"

=============================================================================
