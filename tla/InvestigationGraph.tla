------------------------- MODULE InvestigationGraph -------------------------
(***************************************************************************)
(* One investigation: InvestigationAgent of app/agent/graph.py running its *)
(* five nodes, with the tools of app/agent/tools.py and the language model *)
(* as the environment that answers, fails or times out.                    *)
(*                                                                         *)
(* The fields of AgentState are the variables.  ToolsNode is split into    *)
(* one step per tool call, in the order of the decisions.  Prose is the    *)
(* set of claims the output guards look for in it; errors is the set of    *)
(* error codes (the tool a code belongs to is in results).                 *)
(***************************************************************************)
EXTENDS Routing, FiniteSets

CONSTANTS
  Requests,      \* the requests an agent may be given
  Plans,         \* the RoutePlans the model may propose
  Records,       \* the EvidenceRecords PostgreSQL and Qdrant hold
  Observations,  \* the MLEvidence the anomaly model may produce
  Syntheses,     \* the Synthesis values the model may write
  StepLimits,    \* the values of max_steps an agent is built with
  CallLimits,    \* the values of max_tool_calls
  None           \* a field of AgentState left None

VARIABLES
  request, role,             \* the inputs of run
  max_steps, max_tool_calls, \* the arguments of the constructor
  pc,                        \* the node about to run
  plan,                      \* the accepted RoutePlan
  selected,                  \* selected_tools
  todo,                      \* the decisions ToolsNode has still to process
  evidence, ml_evidence, results, errors,
  sufficient, can_synthesize, outcome, synthesis, response,
  steps, calls

inputs == <<request, role, max_steps, max_tool_calls>>
routing == <<plan, selected>>
gathered == <<evidence, ml_evidence, results, calls, todo>>
judged == <<sufficient, can_synthesize>>
vars == <<inputs, pc, routing, gathered, judged, errors, outcome, synthesis,
          response, steps>>

EntityIds == UserIds \cup IncidentIds \cup EventIds

Claims == {"anomalous", "flagged", "not_flagged", "inexact_score",
           "violation", "overclaim"}
Synthesis == [mentions : SUBSET EntityIds, summary : SUBSET Claims,
              interpretation : SUBSET Claims, write_step : BOOLEAN]

\* The constructor refuses any other limits.
ASSUME LimitAssumption == StepLimits \subseteq 1..5 /\ CallLimits \subseteq 1..3
ASSUME RequestAssumption == Requests \subseteq Cues /\ Plans \subseteq RoutePlan
ASSUME SynthesisAssumption == Syntheses \subseteq Synthesis
\* A record is an event, an incident or a policy chunk.  A score belongs to
\* one user.
ASSUME RecordAssumption ==
  /\ \A r \in Records : r.kind \in {"policy", "event", "incident"}
  /\ \A m \in Observations : m.entity_id \in UserIds /\ m.flagged \in BOOLEAN

\* ToolExecutionError codes of _anomaly; the other tools have no code.
MLCodes == {"unknown_entity", "insufficient_history", "invalid_window",
            "dependency_failure", "inference_failure"}
Results == MLCodes \cup {"none", "success", "empty", "rejected", "forbidden",
                         "failure"}

Outcomes == {"insufficient_evidence", "limit_exceeded", "routing_failed",
             "evidence_ready", "partial_evidence_ready", "complete",
             "partial_evidence", "output_rejected", "synthesis_failed"}
ErrorCodes ==
  Results \cup {"graph_step_limit", "tool_call_limit", "ollama_timeout",
               "routing_failed", "synthesis_failed", "invented_identifier",
               "anomaly_score_reference_filtered",
               "anomaly_flag_reference_filtered",
               "write_action_recommendation_filtered"}

\* AgentResponse; the interpretation may be one of the fixed sentences.
Markers == {"no_conclusion", "ml_missing", "ml_unavailable", "policy_missing"}
AgentResponse ==
  [summary : SUBSET Claims, interpretation : SUBSET (Claims \cup Markers),
   mentions : SUBSET EntityIds, observed : SUBSET Records,
   policies : SUBSET Records, ml_analysis : SUBSET Observations,
   sufficient : BOOLEAN,
   sources : SUBSET {e.source_id : e \in Records \cup Observations},
   selected : SUBSET ToolName, results : [ToolName -> Results],
   errors : SUBSET ErrorCodes, outcome : Outcomes,
   tool_calls : Nat, graph_steps : Nat]

\* What a requester learns of the evidence: the answer of the contract.
Answers == [verdict : Outcomes, sufficient : BOOLEAN,
            items : SUBSET (Records \cup Observations)]

ASSUME NoneAssumption == None \notin Synthesis \cup AgentResponse \cup Answers

KindOf(t) == CASE t = "search_policy" -> "policy"
               [] t = "get_incident" -> "incident"
               [] OTHER -> "event"

\* The most records one call returns: top_k 3, limit 5, or one row by key.
MaxRecords(t) == CASE t = "search_policy" -> 3
                   [] t \in {"search_security_events", "get_user_events"} -> 5
                   [] OTHER -> 1

-----------------------------------------------------------------------------
Init ==
  /\ request \in Requests
  /\ role \in {"reader", "admin"}
  /\ max_steps \in StepLimits /\ max_tool_calls \in CallLimits
  /\ pc = "route"
  /\ plan = <<>> /\ selected = {} /\ todo = {}
  /\ evidence = {} /\ ml_evidence = {}
  /\ results = [t \in ToolName |-> "none"]
  /\ errors = {}
  /\ sufficient = FALSE /\ can_synthesize = FALSE
  /\ outcome = "insufficient_evidence"
  /\ synthesis = None /\ response = None
  /\ steps = 0 /\ calls = 0

\* Mutant: one node too many is let in.
Enter_OffByOne(node) ==
  /\ pc = node
  /\ steps <= max_steps
  /\ steps' = steps + 1

\* _enter, for a node that is allowed to run.
Enter(node) ==
  /\ pc = node
  /\ steps < max_steps
  /\ steps' = steps + 1

\* Mutant: a synthesis that may not run is sent back to be assessed again.
Successor_Back(node) ==
  CASE node = "route" -> IF selected # {} THEN "tools" ELSE "assess"
    [] node = "tools" -> "assess"
    [] node = "assess" -> IF can_synthesize THEN "synthesize" ELSE "finalize"
    [] node = "synthesize" -> "assess"

\* The edges of the compiled graph.
Successor(node) ==
  CASE node = "route" -> IF selected # {} THEN "tools" ELSE "assess"
    [] node = "tools" -> "assess"
    [] node = "assess" -> IF can_synthesize THEN "synthesize" ELSE "finalize"
    [] node = "synthesize" -> "finalize"

\* _enter, for a node over the limit: the node does nothing else.
StepLimit(node) ==
  /\ pc = node
  /\ steps >= max_steps
  /\ errors' = errors \cup {"graph_step_limit"}
  /\ outcome' = "limit_exceeded"
  /\ sufficient' = FALSE
  /\ pc' = Successor(node)
  /\ UNCHANGED <<inputs, routing, gathered, can_synthesize, synthesis, response,
                 steps>>

-----------------------------------------------------------------------------
(***************************************************************************)
(* _route                                                                  *)
(***************************************************************************)
RouteEnds(error, verdict) ==
  /\ errors' = {error}
  /\ outcome' = verdict
  /\ pc' = "assess"
  /\ UNCHANGED <<inputs, routing, gathered, judged, synthesis, response>>

RouteTimeout ==
  Enter("route") /\ RouteEnds("ollama_timeout", "routing_failed")

\* An LLMError, a plan RoutePlan refuses, or the ValueError of an ambiguous
\* request.
RouteFails ==
  Enter("route") /\ RouteEnds("routing_failed", "routing_failed")

RouteOverLimit(p) ==
  /\ Verdict(request) = "decided"
  /\ Cardinality(SelectedTools(p, request)) > max_tool_calls
  /\ Enter("route")
  /\ RouteEnds("tool_call_limit", "limit_exceeded")

RouteSelects(p) ==
  /\ Verdict(request) \in {"decided", "nothing_required"}
  /\ Cardinality(SelectedTools(p, request)) <= max_tool_calls
  /\ Enter("route")
  /\ plan' = p
  /\ selected' = SelectedTools(p, request)
  /\ pc' = IF selected' # {} THEN "tools" ELSE "assess"
  /\ UNCHANGED <<inputs, gathered, judged, errors, outcome, synthesis, response>>

\* OverflowError is none of the exceptions _route handles: run re-raises it.
RouteRaises ==
  /\ Verdict(request) = "overflow"
  /\ Enter("route")
  /\ pc' = "raised"
  /\ UNCHANGED <<inputs, routing, gathered, judged, errors, outcome, synthesis,
                 response>>

-----------------------------------------------------------------------------
(***************************************************************************)
(* _tools                                                                  *)
(***************************************************************************)
ToolsBegin ==
  /\ Enter("tools")
  /\ todo' = selected
  /\ pc' = "calling"
  /\ UNCHANGED <<inputs, routing, evidence, ml_evidence, results, calls, judged,
                 errors, outcome, synthesis, response>>

\* The loop reaches t: every decision before it has been processed.
Turn(t) ==
  /\ pc = "calling"
  /\ t \in todo
  /\ \A u \in todo : Rank(plan, t) <= Rank(plan, u)
  /\ calls < max_tool_calls

\* Mutant: a failed call is tried again.
Processed_Retry(t, result) ==
  /\ todo' = IF result = "failure" THEN todo ELSE todo \ {t}
  /\ results' = [results EXCEPT ![t] = result]
  /\ UNCHANGED <<inputs, pc, routing, judged, outcome, synthesis, response, steps>>

Processed(t, result) ==
  /\ todo' = todo \ {t}
  /\ results' = [results EXCEPT ![t] = result]
  /\ UNCHANGED <<inputs, pc, routing, judged, outcome, synthesis, response, steps>>

\* Mutant: the incident tool does not look at the role.
Refusal_NoRole(t) ==
  IF ~InputAccepted(Decision(t, request), request) THEN "rejected" ELSE "none"

\* The checks _run makes before it touches a source.
Refusal(t) ==
  IF ~InputAccepted(Decision(t, request), request) THEN "rejected"
  ELSE IF t = "get_incident" /\ role # "admin" THEN "forbidden"
  ELSE "none"

\* ToolInputError and ToolAccessError: an error, and no call is counted.
ToolRefused(t) ==
  /\ Turn(t)
  /\ Refusal(t) # "none"
  /\ errors' = errors \cup {Refusal(t)}
  /\ UNCHANGED <<evidence, ml_evidence, calls>>
  /\ Processed(t, Refusal(t))

\* The records that match the decision's filters or key.
Matching(d) ==
  {r \in Records :
     /\ r.kind = KindOf(d.name)
     /\ d.name = "get_event" => r.source_id = d.event_id
     /\ d.name = "get_incident" => r.source_id = d.incident_id
     /\ d.name \in {"search_security_events", "get_user_events"} =>
          /\ d.user_id # NoId => d.user_id \in r.related_ids
          /\ d.incident_id # NoId => d.incident_id \in r.related_ids}

\* Mutant: a source that found nothing still counts as a success.
ResultOf_AlwaysSuccess(items) == "success"

ResultOf(items) == IF items # {} THEN "success" ELSE "empty"

ToolReturns(t) ==
  /\ t # "analyze_user_anomaly"
  /\ Turn(t)
  /\ Refusal(t) = "none"
  /\ \E found \in SUBSET Matching(Decision(t, request)) :
       /\ Cardinality(found) <= MaxRecords(t)
       /\ evidence' = evidence \cup found
       /\ Processed(t, ResultOf(found))
  /\ calls' = calls + 1
  /\ UNCHANGED <<ml_evidence, errors>>

\* Mutant: a failing anomaly call loses the records found before it.
ToolFails_DropsEvidence(t, code) ==
  /\ Turn(t)
  /\ Refusal(t) = "none"
  /\ errors' = errors \cup {code}
  /\ calls' = calls + 1
  /\ evidence' = {}
  /\ UNCHANGED ml_evidence
  /\ Processed(t, code)

\* ToolExecutionError keeps its code; any other exception is "failure".
ToolFails(t, code) ==
  /\ Turn(t)
  /\ Refusal(t) = "none"
  /\ errors' = errors \cup {code}
  /\ calls' = calls + 1
  /\ UNCHANGED <<evidence, ml_evidence>>
  /\ Processed(t, code)

\* Mutant: the anomaly tool passes on the exceptions it has no name for.
FailureCodes_Unnamed(t) ==
  IF t # "analyze_user_anomaly" THEN {"failure"}
  ELSE IF WindowAccepted(Decision(t, request)) THEN MLCodes \cup {"failure"}
  ELSE {"invalid_window"}

\* The codes a call may end with.  _anomaly turns every exception of its
\* service into a named code; a window the service does not accept is refused
\* before anything is read.
FailureCodes(t) ==
  IF t # "analyze_user_anomaly" THEN {"failure"}
  ELSE IF WindowAccepted(Decision(t, request)) THEN MLCodes
  ELSE {"invalid_window"}

AnomalyReturns ==
  /\ Turn("analyze_user_anomaly")
  /\ Refusal("analyze_user_anomaly") = "none"
  /\ WindowAccepted(Decision("analyze_user_anomaly", request))
  /\ \E m \in Observations :
       /\ m.entity_id = Decision("analyze_user_anomaly", request).user_id
       /\ ml_evidence' = ml_evidence \cup {m}
  /\ calls' = calls + 1
  /\ UNCHANGED <<evidence, errors>>
  /\ Processed("analyze_user_anomaly", "success")

\* The loop ends, or breaks at the call limit with decisions left.
ToolsEnd ==
  /\ pc = "calling"
  /\ todo = {} \/ calls >= max_tool_calls
  /\ errors' = errors \cup
       (IF todo = {} THEN {} ELSE {"tool_call_limit"})
  /\ pc' = "assess"
  /\ UNCHANGED <<inputs, routing, gathered, judged, outcome, synthesis, response,
                 steps>>

-----------------------------------------------------------------------------
(***************************************************************************)
(* _assess                                                                 *)
(***************************************************************************)
HasEvidence == evidence # {} \/ ml_evidence # {}

\* Mutant: an error does not stop the evidence from being sufficient.
Sufficient_IgnoreResults ==
  selected # {} /\ HasEvidence

Sufficient ==
  /\ selected # {} /\ HasEvidence /\ errors = {}
  /\ \A t \in ToolName : results[t] \in {"none", "success"}

\* Mutant: a request without evidence is reported as such, whatever stopped it.
Assessment_Insufficient ==
  IF Sufficient THEN "evidence_ready"
  ELSE IF HasEvidence THEN "partial_evidence_ready"
  ELSE "insufficient_evidence"

Assessment ==
  IF Sufficient THEN "evidence_ready"
  ELSE IF HasEvidence THEN "partial_evidence_ready"
  ELSE outcome

Assess ==
  /\ Enter("assess")
  /\ sufficient' = Sufficient
  /\ can_synthesize' = HasEvidence
  /\ outcome' = Assessment
  /\ pc' = IF HasEvidence THEN "synthesize" ELSE "finalize"
  /\ UNCHANGED <<inputs, routing, gathered, errors, synthesis, response>>

-----------------------------------------------------------------------------
(***************************************************************************)
(* _synthesize                                                             *)
(***************************************************************************)
SynthesisEnds(error, verdict) ==
  /\ errors' = errors \cup {error}
  /\ outcome' = verdict
  /\ pc' = "finalize"
  /\ UNCHANGED <<inputs, routing, gathered, judged, synthesis, response>>

SynthesisTimeout ==
  Enter("synthesize") /\ SynthesisEnds("ollama_timeout", "synthesis_failed")

\* An LLMError, prose Synthesis refuses, or evidence too long to send.
SynthesisFails ==
  Enter("synthesize") /\ SynthesisEnds("synthesis_failed", "synthesis_failed")

\* The identifiers that records and observations name.
Named(records, observations) ==
  {r.source_id : r \in records} \cup UNION {r.related_ids : r \in records}
    \cup {m.entity_id : m \in observations}

\* Mutant: the identifiers the request names count as known.
KnownIds_FromRequest ==
  Named(evidence, ml_evidence)
    \cup request.users \cup request.incidents \cup request.events

KnownIds == Named(evidence, ml_evidence)

SynthesisInvents(s) ==
  /\ ~(s.mentions \subseteq KnownIds)
  /\ Enter("synthesize")
  /\ SynthesisEnds("invented_identifier", "output_rejected")

\* Score and flag references that match no observation.
Unverified(prose) ==
  {c \in prose :
     \/ c = "inexact_score"
     \/ c = "flagged" /\ \A m \in ml_evidence : ~m.flagged
     \/ c = "not_flagged" /\ \A m \in ml_evidence : m.flagged}

\* verified_ml_claims: what replaces them still speaks of an anomaly.
Verified(prose) ==
  (prose \ Unverified(prose)) \cup
    (IF Unverified(prose) = {} THEN {} ELSE {"anomalous"})

FilterErrors(s) ==
  LET dropped == Unverified(s.summary) \cup Unverified(s.interpretation)
  IN (IF "inexact_score" \in dropped
      THEN {"anomaly_score_reference_filtered"} ELSE {}) \cup
     (IF dropped \cap {"flagged", "not_flagged"} # {}
      THEN {"anomaly_flag_reference_filtered"} ELSE {})

SynthesisAccepted(s) ==
  /\ s.mentions \subseteq KnownIds
  /\ Enter("synthesize")
  /\ synthesis' = [s EXCEPT !.summary = Verified(@), !.interpretation = Verified(@)]
  /\ errors' = errors \cup FilterErrors(s)
  /\ outcome' = IF sufficient THEN "complete" ELSE "partial_evidence"
  /\ pc' = "finalize"
  /\ UNCHANGED <<inputs, routing, gathered, judged, response>>

-----------------------------------------------------------------------------
(***************************************************************************)
(* _finalize                                                               *)
(***************************************************************************)
Observed == {r \in evidence : r.kind # "policy"}
Policies == {r \in evidence : r.kind = "policy"}

MLClaims == {"anomalous", "flagged", "not_flagged", "inexact_score"}

Grounded ==
  /\ steps < max_steps
  /\ synthesis # None
  /\ outcome \in {"complete", "partial_evidence"}

MLOnly == Grounded /\ ml_evidence # {} /\ Observed = {}

(***************************************************************************)
(* The guards on the interpretation.  The fixed sentences are the markers  *)
(* no_conclusion, ml_missing, ml_unavailable and policy_missing; the one   *)
(* that replaces an overclaim claims nothing.                              *)
(***************************************************************************)
DraftInterpretation ==
  IF ~Grounded THEN {}
  ELSE IF MLOnly THEN {"no_conclusion"} ELSE synthesis.interpretation

GuardML(prose) ==
  IF ml_evidence = {} /\ prose \cap MLClaims # {} THEN {"ml_missing"} ELSE prose

\* The default reason, when the sentence about the observed records follows
\* it, matches UNSUPPORTED_ABSENCE: "no valid ... The observed".
ExplainML(prose) ==
  IF "analyze_user_anomaly" \notin selected \/ ml_evidence # {} THEN prose
  ELSE IF results["analyze_user_anomaly"] \in MLCodes \/ Observed = {}
  THEN {"ml_unavailable"} ELSE {"ml_unavailable", "overclaim"}

\* Mutant: any record will do as policy evidence.
GuardPolicy_AnyRecord(prose) ==
  IF evidence = {} /\ "violation" \in prose THEN {"policy_missing"} ELSE prose

GuardPolicy(prose) ==
  IF Policies = {} /\ "violation" \in prose THEN {"policy_missing"} ELSE prose

GuardOverclaim(prose) == IF "overclaim" \in prose THEN {} ELSE prose

Interpretation ==
  GuardOverclaim(GuardPolicy(ExplainML(GuardML(DraftInterpretation))))

\* The summary meets only the last of these guards.
Summary ==
  GuardOverclaim(IF Grounded /\ ~MLOnly THEN synthesis.summary ELSE {})

FinalErrors ==
  errors
    \cup (IF steps < max_steps THEN {} ELSE {"graph_step_limit"})
    \cup (IF Grounded /\ synthesis.write_step
          THEN {"write_action_recommendation_filtered"} ELSE {})

Response ==
  [summary        |-> Summary,
   interpretation |-> Interpretation,
   mentions       |-> IF Grounded THEN synthesis.mentions ELSE {},
   observed       |-> Observed,
   policies       |-> Policies,
   ml_analysis    |-> ml_evidence,
   sufficient     |-> sufficient,
   sources        |-> {r.source_id : r \in evidence} \cup
                      {m.source_id : m \in ml_evidence},
   selected       |-> selected,
   results        |-> results,
   errors         |-> FinalErrors,
   outcome        |-> IF steps < max_steps THEN outcome ELSE "limit_exceeded",
   tool_calls     |-> calls,
   graph_steps    |-> IF steps < max_steps THEN steps + 1 ELSE steps]

Finalize ==
  /\ pc = "finalize"
  /\ response' = Response
  /\ errors' = FinalErrors
  /\ steps' = Response.graph_steps
  /\ outcome' = Response.outcome
  /\ sufficient' = (sufficient /\ steps < max_steps)
  /\ pc' = "done"
  /\ UNCHANGED <<inputs, routing, gathered, can_synthesize, synthesis>>

Nodes == {"route", "tools", "assess", "synthesize"}
Ended == pc \in {"done", "raised"} /\ UNCHANGED vars

Next ==
  \/ \E node \in Nodes : StepLimit(node)
  \/ RouteTimeout \/ RouteFails \/ RouteRaises
  \/ \E p \in Plans : RouteOverLimit(p) \/ RouteSelects(p)
  \/ ToolsBegin
  \/ \E t \in ToolName : ToolRefused(t) \/ ToolReturns(t)
  \/ \E t \in ToolName : \E code \in FailureCodes(t) : ToolFails(t, code)
  \/ AnomalyReturns
  \/ ToolsEnd
  \/ Assess
  \/ SynthesisTimeout \/ SynthesisFails
  \/ \E s \in Syntheses : SynthesisInvents(s) \/ SynthesisAccepted(s)
  \/ Finalize
  \/ Ended

Spec == Init /\ [][Next]_vars

\* The worker thread keeps running; a call to the model ends within
\* llm_timeout_seconds, and a call to a store is assumed to end.
FairSpec == Spec /\ WF_vars(Next)

-----------------------------------------------------------------------------
TypeOK ==
  /\ request \in Requests /\ role \in {"reader", "admin"}
  /\ max_steps \in StepLimits /\ max_tool_calls \in CallLimits
  /\ pc \in Nodes \cup {"calling", "finalize", "done", "raised"}
  /\ plan \in {<<>>} \cup Plans
  /\ selected \subseteq ToolName /\ todo \subseteq ToolName
  /\ evidence \subseteq Records /\ ml_evidence \subseteq Observations
  /\ results \in [ToolName -> Results]
  /\ sufficient \in BOOLEAN /\ can_synthesize \in BOOLEAN
  /\ outcome \in Outcomes
  /\ synthesis \in Synthesis \cup {None}
  /\ errors \subseteq ErrorCodes
  /\ IF pc = "done" THEN response \in AgentResponse ELSE response = None
  /\ steps \in 0..max_steps
  /\ calls \in 0..max_tool_calls

Answered == pc = "done"

(***************************************************************************)
(* "complete" is never said of an investigation that missed a source: each *)
(* source the request requires was called, succeeded, and left a record of *)
(* its kind in the answer, whatever the model planned and however many     *)
(* calls and steps were allowed (_route, _tools, _assess, _synthesize).    *)
(***************************************************************************)
Shown(t) ==
  IF t = "analyze_user_anomaly" THEN response.ml_analysis # {}
  ELSE \E r \in response.observed \cup response.policies : r.kind = KindOf(t)

CompleteMeansEverySource ==
  Answered /\ response.outcome = "complete" =>
    /\ response.sufficient
    /\ RequiredTools(request) # {}
    /\ \A t \in RequiredTools(request) : response.results[t] = "success" /\ Shown(t)

(***************************************************************************)
(* Tool results and evidence tell the same story at the end: a source that *)
(* succeeded is shown, and a record is shown only if a required source     *)
(* that succeeded returned it, even when a later tool, the synthesis or a  *)
(* limit stopped the investigation (_tools, _finalize).                    *)
(***************************************************************************)
ResultsMatchEvidence ==
  Answered =>
    /\ \A t \in ToolName : response.results[t] = "success" => Shown(t)
    /\ \A r \in response.observed \cup response.policies :
         \E t \in RequiredTools(request) \ {"analyze_user_anomaly"} :
           response.results[t] = "success" /\ r \in Matching(Decision(t, request))
    /\ response.ml_analysis # {} =>
         response.results["analyze_user_anomaly"] = "success"

(***************************************************************************)
(* The guards of _finalize together: the interpretation never speaks of an *)
(* anomaly, a flag or a score the application did not produce, of a policy *)
(* violation without policy evidence, or of more than the evidence shows,  *)
(* and draws no conclusion from the anomaly model alone.                   *)
(***************************************************************************)
InterpretationBacked ==
  Answered =>
    /\ response.interpretation \cap MLClaims # {} => response.ml_analysis # {}
    /\ "flagged" \in response.interpretation =>
         \E m \in response.ml_analysis : m.flagged
    /\ "not_flagged" \in response.interpretation =>
         \E m \in response.ml_analysis : ~m.flagged
    /\ "violation" \in response.interpretation => response.policies # {}
    /\ response.interpretation \cap {"overclaim", "inexact_score"} = {}
    /\ response.ml_analysis # {} /\ response.observed = {} =>
         response.interpretation \subseteq {"no_conclusion"}

(***************************************************************************)
(* A requester who asked for an analysis and got none is told that it was  *)
(* unavailable, in every ending: whether its call failed, or a limit came  *)
(* before it, whichever other guard rewrites the interpretation before or  *)
(* after (_tools, _finalize).  It takes more than the guards: the reason   *)
(* given to a failure without a name would, next to observed records, fall *)
(* to the absence guard, so every failure must have one by then.           *)
(***************************************************************************)
MLAbsenceExplained ==
  /\ Answered
  /\ "analyze_user_anomaly" \in response.selected
  /\ response.ml_analysis = {}
  => response.interpretation = {"ml_unavailable"}

\* Prose names users, incidents and events only if a returned record or
\* observation names them, and is shown only when it passed that check
\* (_synthesize, _finalize).
NoIdentifierInvented ==
  Answered =>
    response.mentions \subseteq
      Named(response.observed \cup response.policies, response.ml_analysis)

\* A reader is never given an incident record, and no investigation that
\* needed one is complete for a reader (_run, _assess).
ReaderSeesNoIncident ==
  role = "reader" /\ Answered =>
    /\ \A r \in response.observed : r.kind # "incident"
    /\ "get_incident" \in RequiredTools(request) => ~response.sufficient

\* No retries: what became of a tool call never changes (_tools).
NoRetry ==
  [][\A t \in ToolName : results[t] # "none" => results'[t] = results[t]]_vars

\* A limit, once hit, is what the response reports: no later node overwrites
\* it, and nothing is synthesized after it (_enter, _assess, _synthesize).
LimitIsFinal ==
  [][outcome = "limit_exceeded" =>
       outcome' = "limit_exceeded" /\ synthesis' = synthesis]_vars

\* Every investigation ends, within its steps (the edges of the graph).
Ends == <>(pc \in {"done", "raised"})

(***************************************************************************)
(* The investigation implements its contract.                              *)
(***************************************************************************)
AnswerOf ==
  IF response = None THEN None
  ELSE [verdict |-> response.outcome, sufficient |-> response.sufficient,
        items |-> response.observed \cup response.policies
                    \cup response.ml_analysis]

Contract == INSTANCE InvestigationContract WITH
  Source <- ToolName,
  Item <- Records \cup Observations,
  phase <- IF pc = "done" THEN "answered" ELSE IF pc = "raised" THEN "raised"
           ELSE "open",
  required <- RequiredTools(request),
  consulted <- [t \in ToolName |->
                  IF results[t] \in {"none", "success"} THEN results[t]
                  ELSE "failed"],
  items <- evidence \cup ml_evidence,
  answer <- AnswerOf

ContractSpec == Contract!Spec

(***************************************************************************)
(* What docs/agent.md says of the prose and of dates, which the code does  *)
(* not keep: the summary is not held to the guards of the interpretation,  *)
(* and the last representable day is not answered at all.                  *)
(***************************************************************************)
SummaryBacked ==
  Answered =>
    /\ response.summary \cap MLClaims # {} => response.ml_analysis # {}
    /\ "violation" \in response.summary => response.policies # {}

EveryDateAnswered == pc # "raised"
=============================================================================
