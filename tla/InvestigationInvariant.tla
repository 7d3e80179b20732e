------------------------ MODULE InvestigationInvariant ------------------------
(***************************************************************************)
(* The inductive invariant of an investigation: what every node may assume *)
(* of the fields of AgentState that the nodes before it have written.      *)
(***************************************************************************)
EXTENDS InvestigationGraph

ML == "analyze_user_anomaly"

\* Nothing is selected but the sources the request requires, and nothing is
\* gathered before the tools run.
SelectionInv ==
  /\ selected # {} => selected = RequiredTools(request)
  /\ pc = "route" => selected = {}
  /\ pc \in {"route", "tools"} =>
       /\ evidence = {} /\ ml_evidence = {}
       /\ \A t \in ToolName : results[t] = "none"

\* The loop of _tools: the decisions left are the ones without a result, and
\* a loop left early has left an error.
LoopInv ==
  /\ \A t \in ToolName : results[t] # "none" => t \in selected
  /\ pc = "calling" =>
       /\ todo \subseteq selected
       /\ \A t \in selected : t \in todo <=> results[t] = "none"
  /\ pc = "assess" => errors # {} \/ \A t \in selected : results[t] # "none"

\* The tool_results and the evidence agree after every call.
EvidenceInv ==
  /\ \A t \in ToolName \ {ML} :
       results[t] = "success" => \E r \in evidence : r.kind = KindOf(t)
  /\ \A r \in evidence : \E t \in selected \ {ML} :
       results[t] = "success" /\ r \in Matching(Decision(t, request))
  /\ results[ML] = "success" <=> ml_evidence # {}
  /\ role = "reader" => results["get_incident"] # "success"

EverySource == selected # {} /\ \A t \in selected : results[t] = "success"

\* Sufficiency is decided by _assess and withdrawn by the limits only.
JudgedInv ==
  /\ sufficient => pc \in {"synthesize", "finalize", "done"} /\ EverySource
  /\ can_synthesize => pc \in {"synthesize", "finalize", "done"}
  /\ pc = "synthesize" => HasEvidence
  /\ outcome \in {"complete", "partial_evidence"} => pc \in {"finalize", "done"}
  /\ outcome = "complete" /\ pc = "finalize" => sufficient
  /\ outcome = "partial_evidence" /\ pc = "finalize" => ~sufficient /\ HasEvidence

\* Whatever hits a limit leads to the end without gathering or writing more.
LimitInv ==
  outcome = "limit_exceeded" =>
    /\ pc \in {"assess", "finalize", "done"}
    /\ pc = "assess" => ~HasEvidence

\* A synthesis that is kept has passed the checks of _synthesize.
ProseInv ==
  synthesis # None =>
    /\ pc \in {"finalize", "done"}
    /\ synthesis.mentions \subseteq KnownIds
    /\ Unverified(synthesis.interpretation) = {}

\* The response is made of the state _finalize found.
ResponseInv ==
  pc = "done" =>
    /\ response.selected = selected /\ response.results = results
    /\ response.observed = Observed /\ response.policies = Policies
    /\ response.ml_analysis = ml_evidence
    /\ response.outcome = "complete" => response.sufficient
    /\ response.sufficient => EverySource

(***************************************************************************)
(* The inductive invariant: in every state, at every node, the fields of   *)
(* AgentState are consistent with what the nodes that wrote them did       *)
(* (_route, _tools, _assess, _synthesize and _finalize together).          *)
(***************************************************************************)
IInv ==
  /\ TypeOK /\ SelectionInv /\ LoopInv /\ EvidenceInv /\ JudgedInv /\ ProseInv
  /\ LimitInv /\ ResponseInv
  /\ InterpretationBacked /\ NoIdentifierInvented
=============================================================================
