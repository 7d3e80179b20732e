---------------------- MODULE InvestigationGraphProofs ----------------------
(***************************************************************************)
(* Proofs about InvestigationGraph, for every set of requests, plans,      *)
(* records and observations, and every pair of limits.                     *)
(***************************************************************************)
EXTENDS InvestigationInvariant, FiniteSetTheorems, TLAPS

-----------------------------------------------------------------------------
(***************************************************************************)
(* Type correctness.                                                       *)
(***************************************************************************)
LEMMA SelectedTyped ==
  ASSUME NEW p, NEW c
  PROVE  SelectedTools(p, c) \subseteq ToolName
BY DEF SelectedTools, RequiredTools

LEMMA FailureCodesTyped ==
  ASSUME NEW t
  PROVE  FailureCodes(t) \subseteq Results \ {"none", "success"}
BY DEF FailureCodes, MLCodes, Results

LEMMA VerifiedTyped ==
  ASSUME NEW s \in Synthesis
  PROVE  [s EXCEPT !.summary = Verified(@), !.interpretation = Verified(@)]
           \in Synthesis
<1>1. ASSUME NEW prose \in SUBSET Claims
      PROVE  Verified(prose) \in SUBSET Claims
  BY DEF Verified, Unverified, Claims
<1>. QED  BY <1>1 DEF Synthesis

LEMMA LimitsTyped ==
  /\ \A n \in StepLimits : n \in Nat /\ n >= 1
  /\ \A n \in CallLimits : n \in Nat /\ n >= 1
BY LimitAssumption

LEMMA InterpretationTyped ==
  ASSUME TypeOK
  PROVE  /\ Summary \in SUBSET Claims
         /\ Interpretation \in SUBSET (Claims \cup Markers)
<1>1. Grounded => synthesis \in Synthesis
  BY DEF Grounded, TypeOK
<1>2. /\ DraftInterpretation \in SUBSET (Claims \cup Markers)
      /\ Summary \in SUBSET Claims
  BY <1>1 DEF DraftInterpretation, Summary, GuardOverclaim, Synthesis, Markers
<1>3. GuardML(DraftInterpretation) \in SUBSET (Claims \cup Markers)
  BY <1>2 DEF GuardML, Markers
<1>4. ExplainML(GuardML(DraftInterpretation)) \in SUBSET (Claims \cup Markers)
  BY <1>3 DEF ExplainML, Markers, Claims
<1>5. GuardPolicy(ExplainML(GuardML(DraftInterpretation)))
        \in SUBSET (Claims \cup Markers)
  BY <1>4 DEF GuardPolicy, Markers
<1>. QED  BY <1>2, <1>5 DEF Interpretation, GuardOverclaim

LEMMA ResponseTyped ==
  ASSUME TypeOK
  PROVE  Response \in AgentResponse
<1>1. (IF Grounded THEN synthesis.mentions ELSE {}) \in SUBSET EntityIds
  BY DEF Grounded, TypeOK, Synthesis
<1>2. Observed \in SUBSET Records /\ Policies \in SUBSET Records
  BY DEF Observed, Policies, TypeOK
<1>3. {r.source_id : r \in evidence} \cup {m.source_id : m \in ml_evidence}
        \in SUBSET {e.source_id : e \in Records \cup Observations}
  BY DEF TypeOK
<1>4. FinalErrors \in SUBSET ErrorCodes
  BY DEF FinalErrors, TypeOK, ErrorCodes
<1>5. (IF steps < max_steps THEN outcome ELSE "limit_exceeded") \in Outcomes
  BY DEF TypeOK, Outcomes
<1>6. /\ calls \in Nat
      /\ (IF steps < max_steps THEN steps + 1 ELSE steps) \in Nat
  BY LimitsTyped DEF TypeOK
<1>. QED
  BY <1>1, <1>2, <1>3, <1>4, <1>5, <1>6, InterpretationTyped
     DEF Response, AgentResponse, TypeOK

LEMMA TypeInit == Init => TypeOK
<1>. SUFFICES ASSUME Init
              PROVE  TypeOK
  OBVIOUS
<1>1. steps \in 0..max_steps /\ calls \in 0..max_tool_calls
  BY LimitsTyped DEF Init
<1>2. results \in [ToolName -> Results]
  BY DEF Init, Results
<1>3. /\ plan \in {<<>>} \cup Plans /\ synthesis \in Synthesis \cup {None}
      /\ evidence \subseteq Records /\ ml_evidence \subseteq Observations
      /\ selected \subseteq ToolName /\ todo \subseteq ToolName
      /\ errors \subseteq ErrorCodes
  BY DEF Init
<1>4. pc \in Nodes /\ pc # "done" /\ response = None
  BY DEF Init, Nodes
<1>5. sufficient \in BOOLEAN /\ can_synthesize \in BOOLEAN
  BY DEF Init
<1>6. outcome \in Outcomes
  BY DEF Init, Outcomes
<1>. QED  BY <1>1, <1>2, <1>3, <1>4, <1>5, <1>6 DEF Init, TypeOK

LEMMA TypeStep == TypeOK /\ [Next]_vars => TypeOK'
<1>. SUFFICES ASSUME TypeOK, [Next]_vars
              PROVE  TypeOK'
  OBVIOUS
<1>. USE LimitsTyped DEF inputs, routing, gathered, judged, Nodes
<1>1. ASSUME NEW node \in Nodes, StepLimit(node)
      PROVE  TypeOK'
  BY <1>1 DEF StepLimit, Successor, TypeOK, ErrorCodes, Outcomes
<1>2. CASE RouteTimeout
  BY <1>2 DEF RouteTimeout, RouteEnds, Enter, TypeOK, ErrorCodes, Outcomes
<1>3. CASE RouteFails
  BY <1>3 DEF RouteFails, RouteEnds, Enter, TypeOK, ErrorCodes, Outcomes
<1>4. CASE RouteRaises
  BY <1>4 DEF RouteRaises, Enter, TypeOK
<1>5. ASSUME NEW p \in Plans, RouteOverLimit(p)
      PROVE  TypeOK'
  BY <1>5 DEF RouteOverLimit, RouteEnds, Enter, TypeOK, ErrorCodes, Outcomes
<1>6. ASSUME NEW p \in Plans, RouteSelects(p)
      PROVE  TypeOK'
  BY <1>6, SelectedTyped DEF RouteSelects, Enter, TypeOK
<1>7. CASE ToolsBegin
  BY <1>7 DEF ToolsBegin, Enter, TypeOK
<1>8. ASSUME NEW t \in ToolName, ToolRefused(t)
      PROVE  TypeOK'
  BY <1>8 DEF ToolRefused, Turn, Refusal, Processed, Results, ErrorCodes, TypeOK
<1>9. ASSUME NEW t \in ToolName, ToolReturns(t)
      PROVE  TypeOK'
  BY <1>9 DEF ToolReturns, Turn, Matching, ResultOf, Processed, Results, TypeOK
<1>10. ASSUME NEW t \in ToolName, NEW code \in FailureCodes(t), ToolFails(t, code)
       PROVE  TypeOK'
  <2>1. code \in Results /\ code \in ErrorCodes
    BY FailureCodesTyped DEF ErrorCodes
  <2>. QED  BY <1>10, <2>1 DEF ToolFails, Turn, Processed, TypeOK
<1>11. CASE AnomalyReturns
  BY <1>11 DEF AnomalyReturns, Turn, Processed, Results, ToolName, TypeOK
<1>12. CASE ToolsEnd
  BY <1>12 DEF ToolsEnd, TypeOK, ErrorCodes
<1>13. CASE Assess
  <2>1. Sufficient \in BOOLEAN /\ HasEvidence \in BOOLEAN
    BY DEF Sufficient, HasEvidence
  <2>2. Assessment \in Outcomes
    BY DEF Assessment, TypeOK, Outcomes
  <2>. QED  BY <1>13, <2>1, <2>2 DEF Assess, Enter, TypeOK
<1>14. CASE SynthesisTimeout \/ SynthesisFails
  BY <1>14 DEF SynthesisTimeout, SynthesisFails, SynthesisEnds, Enter, TypeOK,
               ErrorCodes, Outcomes
<1>15. ASSUME NEW s \in Syntheses, SynthesisInvents(s)
       PROVE  TypeOK'
  BY <1>15 DEF SynthesisInvents, SynthesisEnds, Enter, TypeOK, ErrorCodes, Outcomes
<1>16. ASSUME NEW s \in Syntheses, SynthesisAccepted(s)
       PROVE  TypeOK'
  <2>1. synthesis' \in Synthesis
    BY <1>16, VerifiedTyped, SynthesisAssumption DEF SynthesisAccepted
  <2>2. FilterErrors(s) \subseteq ErrorCodes
    BY DEF FilterErrors, ErrorCodes
  <2>. QED
    BY <1>16, <2>1, <2>2 DEF SynthesisAccepted, Enter, TypeOK, Outcomes
<1>17. CASE Finalize
  <2>1. Response \in AgentResponse
    BY ResponseTyped
  <2>2. Response.graph_steps \in 0..max_steps
    BY DEF Response, TypeOK
  <2>3. FinalErrors \in SUBSET ErrorCodes
    BY DEF FinalErrors, TypeOK, ErrorCodes
  <2>4. Response.outcome \in Outcomes
    BY DEF Response, TypeOK, Outcomes
  <2>. QED  BY <1>17, <2>1, <2>2, <2>3, <2>4 DEF Finalize, TypeOK
<1>18. CASE UNCHANGED vars
  BY <1>18 DEF vars, TypeOK
<1>. QED
  BY <1>1, <1>2, <1>3, <1>4, <1>5, <1>6, <1>7, <1>8, <1>9, <1>10, <1>11, <1>12,
     <1>13, <1>14, <1>15, <1>16, <1>17, <1>18
     DEF Next, Ended

(***************************************************************************)
(* Every state of an investigation is well typed: in particular no more    *)
(* nodes run and no more tools are called than the limits allow.           *)
(***************************************************************************)
THEOREM TypeCorrect == Spec => []TypeOK
BY TypeInit, TypeStep, PTL DEF Spec

-----------------------------------------------------------------------------
(***************************************************************************)
(* The inductive invariant.  InvStep has a lemma for each kind of step:    *)
(* the ones that only move the graph along, the tool calls, the assessment *)
(* and the synthesis, and the response.                                    *)
(***************************************************************************)
\* What the prose properties say of a response.
ProseProperties ==
  InterpretationBacked /\ NoIdentifierInvented

\* The inductive invariant but for the types.
FieldsInv ==
  /\ SelectionInv /\ LoopInv /\ EvidenceInv /\ JudgedInv /\ ProseInv /\ LimitInv
  /\ ResponseInv /\ ProseProperties

LEMMA InvInit == Init => IInv
<1>. SUFFICES ASSUME Init
              PROVE  IInv
  OBVIOUS
<1>1. TypeOK
  BY TypeInit
<1>2. SelectionInv /\ LoopInv
  BY DEF Init, SelectionInv, LoopInv
<1>3. EvidenceInv
  BY DEF Init, EvidenceInv, ML, ToolName
<1>4. JudgedInv /\ ProseInv /\ LimitInv /\ ResponseInv
  BY DEF Init, JudgedInv, ProseInv, LimitInv, ResponseInv
<1>5. InterpretationBacked /\ NoIdentifierInvented
  BY DEF Init, InterpretationBacked, NoIdentifierInvented, Answered
<1>. QED  BY <1>1, <1>2, <1>3, <1>4, <1>5 DEF IInv

(***************************************************************************)
(* A step that leaves the request, the selection and what was gathered     *)
(* alone, and does not end the investigation.                              *)
(***************************************************************************)
LEMMA GatheredKept ==
  ASSUME IInv, UNCHANGED <<inputs, routing, gathered, response>>,
         pc # "done", pc' # "done",
         pc' \in {"route", "tools"} => pc' = pc
  PROVE  SelectionInv' /\ EvidenceInv' /\ ResponseInv' /\ ProseProperties'
<1>. USE DEF inputs, routing, gathered
<1>1. SelectionInv'
  BY DEF IInv, SelectionInv
<1>2. EvidenceInv'
  BY DEF IInv, EvidenceInv
<1>3. ResponseInv' /\ ProseProperties'
  BY DEF ResponseInv, ProseProperties, InterpretationBacked,
                 NoIdentifierInvented, Answered
<1>. QED  BY <1>1, <1>2, <1>3

LEMMA StepLimitInv ==
  ASSUME IInv, NEW node \in Nodes, StepLimit(node)
  PROVE  FieldsInv'
<1>. USE DEF Nodes
<1>1. pc = node /\ pc' = Successor(node)
  BY DEF StepLimit
<1>2. pc = "route" => selected = {}
  BY DEF IInv, SelectionInv
<1>3. pc' \in {"assess", "synthesize", "finalize"} /\ pc # "done"
  BY <1>1, <1>2 DEF Successor
<1>4. SelectionInv' /\ EvidenceInv' /\ ResponseInv' /\ ProseProperties'
  BY <1>3, GatheredKept DEF StepLimit
<1>5. LoopInv'
  BY <1>3 DEF StepLimit, IInv, LoopInv, routing, gathered
<1>6. JudgedInv' /\ ProseInv'
  <2>1. pc = "assess" => pc' = "finalize"
    BY <1>1 DEF Successor, IInv, JudgedInv
  <2>2. pc' # "synthesize"
    BY <1>1, <2>1, <1>2 DEF Successor
  <2>. QED
    BY <1>1, <1>3, <2>1, <2>2 DEF StepLimit, IInv, JudgedInv, ProseInv, Successor
<1>7. LimitInv'
  <2>1. pc = "synthesize" => pc' = "finalize"
    BY <1>1 DEF Successor
  <2>2. pc = "assess" => pc' = "finalize"
    BY <1>1 DEF Successor, IInv, JudgedInv
  <2>3. pc \in {"route", "tools"} => ~HasEvidence'
    BY DEF StepLimit, IInv, SelectionInv, HasEvidence, gathered
  <2>4. pc \in {"route", "tools"} => pc' # "synthesize"
    BY <1>1, <1>2 DEF Successor
  <2>. QED  BY <2>1, <2>2, <2>3, <2>4, <1>1, <1>3 DEF LimitInv, HasEvidence
<1>. QED  BY <1>4, <1>5, <1>6, <1>7 DEF FieldsInv

LEMMA RouteEndsInv ==
  ASSUME IInv, RouteTimeout \/ RouteFails \/ RouteRaises
                 \/ \E p \in Plans : RouteOverLimit(p)
  PROVE  FieldsInv'
<1>. USE DEF RouteTimeout, RouteFails, RouteRaises, RouteOverLimit, RouteEnds, Enter
<1>1. /\ pc = "route" /\ pc' \in {"assess", "raised"}
      /\ pc' = "assess" => errors' # {}
      /\ UNCHANGED <<inputs, routing, gathered, judged, response, synthesis>>
      /\ outcome' \in {outcome, "routing_failed", "limit_exceeded"}
  OBVIOUS
<1>2. SelectionInv' /\ EvidenceInv' /\ ResponseInv' /\ ProseProperties'
  BY <1>1, GatheredKept
<1>3. LoopInv'
  BY <1>1 DEF IInv, LoopInv, routing, gathered
<1>4. JudgedInv' /\ ProseInv'
  BY <1>1 DEF IInv, JudgedInv, ProseInv, judged
<1>5. LimitInv'
  BY <1>1 DEF IInv, SelectionInv, LimitInv, HasEvidence, gathered
<1>. QED  BY <1>2, <1>3, <1>4, <1>5 DEF FieldsInv

LEMMA RouteSelectsInv ==
  ASSUME IInv, NEW p \in Plans, RouteSelects(p)
  PROVE  FieldsInv'
<1>. USE DEF RouteSelects, Enter, inputs, gathered, judged
<1>1. /\ pc = "route" /\ pc' = IF selected' # {} THEN "tools" ELSE "assess"
      /\ \A t \in ToolName : results[t] = "none"
      /\ evidence = {} /\ ml_evidence = {}
  BY DEF IInv, SelectionInv
<1>2. SelectionInv'
  BY <1>1 DEF SelectionInv, SelectedTools
<1>3. LoopInv'
  BY <1>1 DEF LoopInv
<1>4. EvidenceInv'
  BY <1>1 DEF EvidenceInv, ML, ToolName
<1>5. JudgedInv' /\ ProseInv' /\ LimitInv'
  BY <1>1 DEF IInv, JudgedInv, ProseInv, LimitInv
<1>6. ResponseInv' /\ ProseProperties'
  BY <1>1 DEF ResponseInv, ProseProperties, InterpretationBacked,
                 NoIdentifierInvented, Answered
<1>. QED  BY <1>2, <1>3, <1>4, <1>5, <1>6 DEF FieldsInv

LEMMA ToolsBeginInv ==
  ASSUME IInv, ToolsBegin
  PROVE  FieldsInv'
<1>. USE DEF ToolsBegin, Enter, inputs, routing, judged
<1>1. /\ pc = "tools" /\ pc' = "calling" /\ selected \subseteq ToolName
      /\ \A t \in ToolName : results[t] = "none"
  BY DEF IInv, SelectionInv, TypeOK
<1>2. SelectionInv'
  BY <1>1 DEF IInv, SelectionInv
<1>3. LoopInv'
  BY <1>1 DEF IInv, LoopInv
<1>4. EvidenceInv'
  BY DEF IInv, EvidenceInv
<1>5. JudgedInv' /\ ProseInv' /\ LimitInv'
  BY <1>1 DEF IInv, JudgedInv, ProseInv, LimitInv
<1>6. ResponseInv' /\ ProseProperties'
  BY <1>1 DEF ResponseInv, ProseProperties, InterpretationBacked,
                 NoIdentifierInvented, Answered
<1>. QED  BY <1>2, <1>3, <1>4, <1>5, <1>6 DEF FieldsInv

(***************************************************************************)
(* One turn of the loop: what it does apart from the evidence it adds.     *)
(***************************************************************************)
LEMMA TurnInv ==
  ASSUME IInv, NEW t \in ToolName, NEW result \in Results \ {"none"},
         Turn(t), Processed(t, result)
  PROVE  /\ SelectionInv' /\ LoopInv' /\ JudgedInv' /\ ProseInv' /\ LimitInv'
         /\ ResponseInv' /\ ProseProperties'
         /\ results[t] = "none" /\ t \in selected
         /\ results'[t] = result
         /\ \A u \in ToolName \ {t} : results'[u] = results[u]
<1>. USE DEF Turn, Processed, inputs, routing, judged
<1>1. /\ pc = "calling" /\ pc' = "calling" /\ t \in todo
      /\ results \in [ToolName -> Results] /\ selected \subseteq ToolName
  BY DEF IInv, TypeOK
<1>2. results[t] = "none" /\ t \in selected
  BY <1>1 DEF IInv, LoopInv
<1>3. /\ results'[t] = result
      /\ \A u \in ToolName \ {t} : results'[u] = results[u]
  BY <1>1
<1>4. SelectionInv'
  BY <1>1 DEF IInv, SelectionInv
<1>5. LoopInv'
  BY <1>1, <1>2, <1>3 DEF IInv, LoopInv
<1>6. JudgedInv' /\ ProseInv' /\ LimitInv'
  BY <1>1 DEF IInv, JudgedInv, ProseInv, LimitInv
<1>7. ResponseInv' /\ ProseProperties'
  BY <1>1 DEF ResponseInv, ProseProperties, InterpretationBacked,
                 NoIdentifierInvented, Answered
<1>. QED  BY <1>2, <1>3, <1>4, <1>5, <1>6, <1>7

\* A call that adds nothing and does not end in success.
LEMMA NothingAdded ==
  ASSUME IInv, NEW t \in ToolName, NEW result \in Results \ {"none", "success"},
         Turn(t), Processed(t, result), UNCHANGED <<evidence, ml_evidence>>
  PROVE  EvidenceInv'
<1>1. /\ results[t] = "none" /\ results'[t] = result
      /\ \A u \in ToolName \ {t} : results'[u] = results[u]
  BY TurnInv
<1>2. UNCHANGED <<request, role, selected>> /\ selected \subseteq ToolName
  BY DEF Processed, inputs, routing, IInv, TypeOK
<1>3. EvidenceInv
  BY DEF IInv
<1>4. ML \in ToolName /\ "get_incident" \in ToolName
  BY DEF ML, ToolName
<1>. QED  BY <1>1, <1>2, <1>3, <1>4 DEF EvidenceInv

LEMMA ReturnedInv ==
  ASSUME IInv, NEW t \in ToolName, ToolReturns(t)
  PROVE  EvidenceInv'
<1>. DEFINE hits == Matching(Decision(t, request))
<1>1. PICK found \in SUBSET hits : /\ evidence' = evidence \cup found
                                   /\ Processed(t, ResultOf(found))
  BY DEF ToolReturns
<1>2. /\ Turn(t) /\ t # ML /\ Refusal(t) = "none"
      /\ ml_evidence' = ml_evidence
  BY DEF ToolReturns, ML
<1>3. ResultOf(found) \in Results \ {"none"}
  BY DEF ResultOf, Results
<1>4. /\ results[t] = "none" /\ results'[t] = ResultOf(found) /\ t \in selected
      /\ \A u \in ToolName \ {t} : results'[u] = results[u]
  BY <1>1, <1>2, <1>3, TurnInv
<1>5. UNCHANGED <<request, role, selected>> /\ selected \subseteq ToolName
  BY <1>1 DEF Processed, inputs, routing, IInv, TypeOK
<1>6. EvidenceInv
  BY DEF IInv
<1>7. \A r \in found : r.kind = KindOf(t)
  BY DEF Matching, Decision
<1>8. \A u \in ToolName \ {ML} :
        results'[u] = "success" => \E r \in evidence' : r.kind = KindOf(u)
  <2>1. results'[t] = "success" => found # {}
    BY <1>4 DEF ResultOf
  <2>. QED  BY <2>1, <1>1, <1>4, <1>6, <1>7 DEF EvidenceInv
<1>9. \A r \in evidence' : \E u \in selected' \ {ML} :
        results'[u] = "success" /\ r \in Matching(Decision(u, request))
  <2>1. ASSUME NEW r \in found
        PROVE  results'[t] = "success" /\ r \in Matching(Decision(t, request))
    BY <1>4 DEF ResultOf
  <2>2. ASSUME NEW r \in evidence
        PROVE  \E u \in selected \ {ML} :
                 results'[u] = "success" /\ r \in Matching(Decision(u, request))
    <3>1. PICK u \in selected \ {ML} :
            results[u] = "success" /\ r \in Matching(Decision(u, request))
      BY <1>6 DEF EvidenceInv
    <3>2. u # t /\ u \in ToolName
      BY <3>1, <1>4, <1>5
    <3>. QED  BY <3>1, <3>2, <1>4
  <2>. QED  BY <2>1, <2>2, <1>1, <1>2, <1>4, <1>5
<1>10. results'[ML] = "success" <=> ml_evidence' # {}
  BY <1>2, <1>4, <1>6 DEF EvidenceInv, ML, ToolName
<1>11. role' = "reader" => results'["get_incident"] # "success"
  <2>1. CASE t = "get_incident"
    BY <2>1, <1>2, <1>5 DEF Refusal
  <2>2. CASE t # "get_incident"
    BY <2>2, <1>4, <1>5, <1>6 DEF EvidenceInv, ToolName
  <2>. QED  BY <2>1, <2>2
<1>12. \A r \in evidence' : \E u \in selected' \ {ML} :
         results'[u] = "success" /\ r \in Matching(Decision(u, request'))
  BY <1>5, <1>9
<1>. QED  BY <1>8, <1>10, <1>11, <1>12 DEF EvidenceInv

LEMMA AnalysedInv ==
  ASSUME IInv, AnomalyReturns
  PROVE  EvidenceInv'
<1>1. /\ Turn(ML) /\ Processed(ML, "success")
      /\ evidence' = evidence /\ ml_evidence' # {}
      /\ ML \in ToolName /\ "success" \in Results \ {"none"}
      /\ ML # "get_incident"
  BY DEF AnomalyReturns, ML, ToolName, Results
<1>2. /\ results'[ML] = "success"
      /\ \A u \in ToolName \ {ML} : results'[u] = results[u]
  BY <1>1, TurnInv
<1>3. UNCHANGED <<request, role, selected>> /\ selected \subseteq ToolName
  BY <1>1 DEF Processed, inputs, routing, IInv, TypeOK
<1>4. EvidenceInv /\ "get_incident" \in ToolName
  BY DEF IInv, ToolName
<1>. QED  BY <1>1, <1>2, <1>3, <1>4 DEF EvidenceInv

LEMMA CallInv ==
  ASSUME IInv,
         \/ \E t \in ToolName : ToolRefused(t) \/ ToolReturns(t)
         \/ \E t \in ToolName : \E code \in FailureCodes(t) : ToolFails(t, code)
         \/ AnomalyReturns
  PROVE  FieldsInv'
<1>1. ASSUME NEW t \in ToolName, ToolRefused(t)
      PROVE  \E result \in Results \ {"none"} :
               Turn(t) /\ Processed(t, result) /\ EvidenceInv'
  <2>1. /\ Refusal(t) \in Results \ {"none", "success"}
        /\ Turn(t) /\ Processed(t, Refusal(t))
        /\ UNCHANGED <<evidence, ml_evidence>>
    BY <1>1 DEF ToolRefused, Refusal, Results
  <2>2. EvidenceInv'
    BY <2>1, NothingAdded
  <2>. QED  BY <2>1, <2>2
<1>2. ASSUME NEW t \in ToolName, ToolReturns(t)
      PROVE  \E result \in Results \ {"none"} :
               Turn(t) /\ Processed(t, result) /\ EvidenceInv'
  BY <1>2, ReturnedInv DEF ToolReturns, ResultOf, Results
<1>3. ASSUME NEW t \in ToolName, NEW code \in FailureCodes(t), ToolFails(t, code)
      PROVE  \E result \in Results \ {"none"} :
               Turn(t) /\ Processed(t, result) /\ EvidenceInv'
  <2>1. /\ code \in Results \ {"none", "success"}
        /\ Turn(t) /\ Processed(t, code)
        /\ UNCHANGED <<evidence, ml_evidence>>
    BY <1>3, FailureCodesTyped DEF ToolFails
  <2>2. EvidenceInv'
    BY <2>1, NothingAdded
  <2>. QED  BY <2>1, <2>2
<1>4. ASSUME AnomalyReturns
      PROVE  \E result \in Results \ {"none"} :
               Turn(ML) /\ Processed(ML, result) /\ EvidenceInv'
  <2>1. /\ "success" \in Results \ {"none"} /\ ML \in ToolName
        /\ Turn(ML) /\ Processed(ML, "success")
    BY <1>4 DEF AnomalyReturns, Results, ML, ToolName
  <2>. QED  BY <1>4, <2>1, AnalysedInv
<1>5. PICK t \in ToolName, result \in Results \ {"none"} :
        Turn(t) /\ Processed(t, result) /\ EvidenceInv'
  BY <1>1, <1>2, <1>3, <1>4 DEF ML, ToolName
<1>. QED  BY <1>5, TurnInv DEF FieldsInv

LEMMA ToolsEndInv ==
  ASSUME IInv, ToolsEnd
  PROVE  FieldsInv'
<1>. USE DEF ToolsEnd
<1>1. /\ pc = "calling" /\ pc' = "assess"
      /\ UNCHANGED <<inputs, routing, gathered, judged, outcome, synthesis, response>>
  OBVIOUS
<1>2. SelectionInv' /\ EvidenceInv' /\ ResponseInv' /\ ProseProperties'
  BY <1>1, GatheredKept
<1>3. LoopInv'
  <2>1. todo = {} \/ errors' # {}
    OBVIOUS
  <2>2. todo = {} => \A t \in selected : results[t] # "none"
    BY <1>1 DEF IInv, LoopInv
  <2>. QED  BY <1>1, <2>1, <2>2 DEF IInv, LoopInv, routing, gathered
<1>4. JudgedInv' /\ ProseInv' /\ LimitInv'
  BY <1>1 DEF IInv, JudgedInv, ProseInv, LimitInv, judged
<1>. QED  BY <1>2, <1>3, <1>4 DEF FieldsInv

\* _assess finds no result missing when it finds no error.
LEMMA SufficientMeansEverySource ==
  ASSUME IInv, pc = "assess", Sufficient
  PROVE  EverySource
<1>1. \A t \in selected : results[t] # "none" /\ t \in ToolName
  BY DEF IInv, LoopInv, TypeOK, Sufficient
<1>. QED  BY <1>1 DEF EverySource, Sufficient

LEMMA AssessInv ==
  ASSUME IInv, Assess
  PROVE  FieldsInv'
<1>. USE DEF Assess, Enter
<1>1. /\ pc = "assess" /\ pc' \in {"synthesize", "finalize"}
      /\ UNCHANGED <<inputs, routing, gathered, synthesis, response>>
  OBVIOUS
<1>2. SelectionInv' /\ EvidenceInv' /\ ResponseInv' /\ ProseProperties'
  BY <1>1, GatheredKept
<1>3. LoopInv'
  BY <1>1 DEF IInv, LoopInv, routing, gathered
<1>4. JudgedInv'
  <2>1. sufficient' => EverySource'
    BY <1>1, SufficientMeansEverySource DEF EverySource, routing, gathered
  <2>2. outcome' \notin {"complete", "partial_evidence"}
    BY <1>1 DEF Assessment, IInv, JudgedInv
  <2>3. HasEvidence' = HasEvidence
    BY <1>1 DEF HasEvidence, gathered
  <2>. QED  BY <1>1, <2>1, <2>2, <2>3 DEF JudgedInv
<1>5. ProseInv'
  BY <1>1 DEF IInv, ProseInv
<1>6. LimitInv'
  BY <1>1 DEF IInv, LimitInv, Assessment
<1>. QED  BY <1>2, <1>3, <1>4, <1>5, <1>6 DEF FieldsInv

LEMMA SynthesisInv ==
  ASSUME IInv,
         \/ SynthesisTimeout \/ SynthesisFails
         \/ \E s \in Syntheses : SynthesisInvents(s) \/ SynthesisAccepted(s)
  PROVE  FieldsInv'
<1>. USE DEF SynthesisTimeout, SynthesisFails, SynthesisInvents, SynthesisAccepted,
             SynthesisEnds, Enter
<1>1. /\ pc = "synthesize" /\ pc' = "finalize"
      /\ UNCHANGED <<inputs, routing, gathered, judged, response>>
  OBVIOUS
<1>2. SelectionInv' /\ EvidenceInv' /\ ResponseInv' /\ ProseProperties'
  BY <1>1, GatheredKept
<1>3. LoopInv'
  BY <1>1 DEF IInv, LoopInv, routing, gathered
<1>4. JudgedInv'
  <2>1. /\ outcome' = "complete" => sufficient
        /\ outcome' = "partial_evidence" => ~sufficient
    OBVIOUS
  <2>2. sufficient' => EverySource'
    BY <1>1 DEF IInv, JudgedInv, EverySource, judged, routing, gathered
  <2>3. HasEvidence'
    BY <1>1 DEF IInv, JudgedInv, HasEvidence, gathered
  <2>. QED  BY <1>1, <2>1, <2>2, <2>3 DEF JudgedInv, judged
<1>5. ProseInv'
  <2>1. synthesis = None
    BY <1>1 DEF IInv, ProseInv
  <2>2. ASSUME NEW s \in Syntheses, SynthesisAccepted(s)
        PROVE  ProseInv'
    <3>1. s \in Synthesis
      BY SynthesisAssumption
    <3>2. /\ synthesis'.mentions = s.mentions
          /\ synthesis'.interpretation = Verified(s.interpretation)
      BY <2>2, <3>1 DEF Synthesis
    <3>3. Unverified(Verified(s.interpretation)) = {}
      BY DEF Unverified, Verified
    <3>4. Unverified(synthesis.interpretation)' = {} /\ KnownIds' = KnownIds
      BY <1>1, <3>2, <3>3 DEF Unverified, KnownIds, gathered
    <3>. QED  BY <1>1, <2>2, <3>2, <3>4 DEF ProseInv
  <2>3. CASE synthesis' = synthesis
    BY <2>1, <2>3 DEF ProseInv
  <2>. QED  BY <2>2, <2>3
<1>6. LimitInv'
  BY <1>1 DEF LimitInv
<1>. QED  BY <1>2, <1>3, <1>4, <1>5, <1>6 DEF FieldsInv

(***************************************************************************)
(* The interpretation _finalize writes, guard by guard.  Backed is what    *)
(* the guards leave true of it.                                            *)
(***************************************************************************)
Backed(prose) ==
  /\ prose \cap MLClaims # {} => ml_evidence # {}
  /\ "flagged" \in prose => \E m \in ml_evidence : m.flagged
  /\ "not_flagged" \in prose => \E m \in ml_evidence : ~m.flagged
  /\ "inexact_score" \notin prose
  /\ ml_evidence # {} /\ Observed = {} => prose \subseteq {"no_conclusion"}

LEMMA InterpretationGuarded ==
  ASSUME IInv
  PROVE  /\ Backed(Interpretation)
         /\ "violation" \in Interpretation => Policies # {}
         /\ "overclaim" \notin Interpretation
<1>. USE DEF Backed
<1>1. Backed(GuardML(DraftInterpretation))
  <2>1. CASE Grounded /\ ~MLOnly
    <3>1. Unverified(synthesis.interpretation) = {}
      BY <2>1 DEF Grounded, IInv, ProseInv
    <3>2. /\ "flagged" \in synthesis.interpretation => \E m \in ml_evidence : m.flagged
          /\ "not_flagged" \in synthesis.interpretation =>
               \E m \in ml_evidence : ~m.flagged
          /\ "inexact_score" \notin synthesis.interpretation
      BY <3>1 DEF Unverified
    <3>3. DraftInterpretation = synthesis.interpretation
      BY <2>1 DEF DraftInterpretation
    <3>4. ml_evidence = {} \/ Observed # {}
      BY <2>1 DEF MLOnly
    <3>. QED  BY <3>2, <3>3, <3>4 DEF GuardML, MLClaims
  <2>2. CASE ~Grounded \/ MLOnly
    <3>1. DraftInterpretation \in {{}, {"no_conclusion"}}
      BY <2>2 DEF DraftInterpretation
    <3>. QED  BY <3>1 DEF GuardML, MLClaims
  <2>. QED  BY <2>1, <2>2
<1>2. Backed(ExplainML(GuardML(DraftInterpretation)))
  BY <1>1 DEF ExplainML, MLClaims
<1>3. Backed(GuardPolicy(ExplainML(GuardML(DraftInterpretation))))
  <2>1. ml_evidence # {} /\ Observed = {} =>
          "violation" \notin ExplainML(GuardML(DraftInterpretation))
    BY <1>2
  <2>. QED  BY <1>2, <2>1 DEF GuardPolicy, MLClaims
<1>4. "violation" \in GuardPolicy(ExplainML(GuardML(DraftInterpretation)))
        => Policies # {}
  BY DEF GuardPolicy
<1>. QED  BY <1>3, <1>4 DEF Interpretation, GuardOverclaim

LEMMA FinalizeInv ==
  ASSUME IInv, Finalize
  PROVE  FieldsInv'
<1>1. /\ pc = "finalize" /\ pc' = "done"
      /\ UNCHANGED <<inputs, routing, gathered, synthesis>>
      /\ response' = Response
      /\ sufficient' => sufficient
  BY DEF Finalize
<1>2. SelectionInv' /\ EvidenceInv' /\ LoopInv'
  <2>1. SelectionInv' /\ EvidenceInv'
    BY <1>1 DEF IInv, SelectionInv, EvidenceInv, inputs, routing, gathered
  <2>. QED  BY <1>1, <2>1 DEF IInv, LoopInv, routing, gathered
<1>3. JudgedInv'
  BY <1>1 DEF IInv, JudgedInv, EverySource, routing, gathered
<1>4. ProseInv'
  <2>1. KnownIds' = KnownIds
        /\ \A prose : Unverified(prose)' = Unverified(prose)
    BY <1>1 DEF KnownIds, Unverified, gathered
  <2>. QED  BY <1>1, <2>1 DEF IInv, ProseInv, Unverified, gathered
<1>5. ResponseInv'
  <2>1. /\ response'.selected = selected /\ response'.results = results
        /\ response'.observed = Observed /\ response'.policies = Policies
        /\ response'.ml_analysis = ml_evidence /\ response'.sufficient = sufficient
        /\ response'.outcome \in {outcome, "limit_exceeded"}
    BY <1>1 DEF Response
  <2>2. /\ outcome = "complete" => sufficient
        /\ sufficient => EverySource
    BY <1>1 DEF IInv, JudgedInv
  <2>3. Observed' = Observed /\ Policies' = Policies /\ EverySource' = EverySource
    BY <1>1 DEF Observed, Policies, EverySource, routing, gathered
  <2>. QED  BY <1>1, <2>1, <2>2, <2>3 DEF ResponseInv, routing, gathered
<1>6. InterpretationBacked'
  <2>1. /\ response'.interpretation = Interpretation
        /\ response'.observed = Observed /\ response'.policies = Policies
        /\ response'.ml_analysis = ml_evidence
    BY <1>1 DEF Response
  <2>. QED  BY <2>1, InterpretationGuarded DEF InterpretationBacked, Backed
<1>7. NoIdentifierInvented'
  <2>1. response'.mentions \subseteq KnownIds
    BY <1>1 DEF Response, Grounded, IInv, ProseInv
  <2>2. /\ response'.observed = Observed /\ response'.policies = Policies
        /\ response'.ml_analysis = ml_evidence
    BY <1>1 DEF Response
  <2>3. Observed \cup Policies = evidence
    BY DEF Observed, Policies
  <2>. QED  BY <2>1, <2>2, <2>3 DEF NoIdentifierInvented, KnownIds
<1>8. LimitInv'
  BY <1>1 DEF LimitInv
<1>. QED
  BY <1>2, <1>3, <1>4, <1>5, <1>6, <1>7, <1>8 DEF FieldsInv, ProseProperties

LEMMA StutterInv ==
  ASSUME IInv, UNCHANGED vars
  PROVE  IInv'
<1>. USE DEF vars, inputs, routing, gathered, judged
<1>1. TypeOK' /\ SelectionInv' /\ LoopInv'
  BY TypeStep DEF IInv, SelectionInv, LoopInv
<1>2. EvidenceInv' /\ JudgedInv' /\ LimitInv'
  BY DEF IInv, EvidenceInv, JudgedInv, LimitInv, EverySource, HasEvidence
<1>3. ProseInv' /\ ResponseInv'
  BY DEF IInv, ProseInv, ResponseInv, EverySource, KnownIds, Unverified, Observed,
         Policies
<1>4. InterpretationBacked' /\ NoIdentifierInvented'
  BY DEF IInv, InterpretationBacked, NoIdentifierInvented, Answered, KnownIds
<1>. QED  BY <1>1, <1>2, <1>3, <1>4 DEF IInv

LEMMA InvStep == IInv /\ [Next]_vars => IInv'
<1>. SUFFICES ASSUME IInv, [Next]_vars
              PROVE  IInv'
  OBVIOUS
<1>1. TypeOK'
  BY TypeStep DEF IInv
<1>2. CASE UNCHANGED vars
  BY <1>2, StutterInv
<1>3. CASE \E node \in Nodes : StepLimit(node)
  BY <1>1, <1>3, StepLimitInv DEF IInv, FieldsInv, ProseProperties
<1>4. CASE RouteTimeout \/ RouteFails \/ RouteRaises
             \/ \E p \in Plans : RouteOverLimit(p)
  BY <1>1, <1>4, RouteEndsInv DEF IInv, FieldsInv, ProseProperties
<1>5. CASE \E p \in Plans : RouteSelects(p)
  BY <1>1, <1>5, RouteSelectsInv DEF IInv, FieldsInv, ProseProperties
<1>6. CASE ToolsBegin
  BY <1>1, <1>6, ToolsBeginInv DEF IInv, FieldsInv, ProseProperties
<1>7. CASE \/ \E t \in ToolName : ToolRefused(t) \/ ToolReturns(t)
           \/ \E t \in ToolName : \E code \in FailureCodes(t) : ToolFails(t, code)
           \/ AnomalyReturns
  BY <1>1, <1>7, CallInv DEF IInv, FieldsInv, ProseProperties
<1>8. CASE ToolsEnd
  BY <1>1, <1>8, ToolsEndInv DEF IInv, FieldsInv, ProseProperties
<1>9. CASE Assess
  BY <1>1, <1>9, AssessInv DEF IInv, FieldsInv, ProseProperties
<1>10. CASE \/ SynthesisTimeout \/ SynthesisFails
            \/ \E s \in Syntheses : SynthesisInvents(s) \/ SynthesisAccepted(s)
  BY <1>1, <1>10, SynthesisInv DEF IInv, FieldsInv, ProseProperties
<1>11. CASE Finalize
  BY <1>1, <1>11, FinalizeInv DEF IInv, FieldsInv, ProseProperties
<1>. QED
  BY <1>2, <1>3, <1>4, <1>5, <1>6, <1>7, <1>8, <1>9, <1>10, <1>11 DEF Next, Ended

(***************************************************************************)
(* In every state of every investigation the fields of AgentState are      *)
(* consistent with what the nodes before wrote (the inductive invariant).  *)
(***************************************************************************)
THEOREM Invariance == Spec => []IInv
BY InvInit, InvStep, PTL DEF Spec

-----------------------------------------------------------------------------
(***************************************************************************)
(* The properties of the answer.                                           *)
(***************************************************************************)
LEMMA EverySourceShown ==
  ASSUME IInv, Answered
  PROVE  \A t \in ToolName : response.results[t] = "success" => Shown(t)
<1>1. /\ response.results = results /\ response.ml_analysis = ml_evidence
      /\ response.observed \cup response.policies = evidence
  BY DEF IInv, ResponseInv, Answered, Observed, Policies
<1>2. /\ results[ML] = "success" => ml_evidence # {}
      /\ \A t \in ToolName \ {ML} :
           results[t] = "success" => \E r \in evidence : r.kind = KindOf(t)
  BY DEF IInv, EvidenceInv
<1>. QED  BY <1>1, <1>2 DEF Shown, ML

\* "complete" is only said when every required source was called, succeeded
\* and is shown.
THEOREM CompleteIsEverySource == Spec => []CompleteMeansEverySource
<1>1. IInv => CompleteMeansEverySource
  <2>. SUFFICES ASSUME IInv, Answered, response.outcome = "complete"
                PROVE  /\ response.sufficient
                       /\ RequiredTools(request) # {}
                       /\ \A t \in RequiredTools(request) :
                            response.results[t] = "success" /\ Shown(t)
    BY DEF CompleteMeansEverySource
  <2>1. response.sufficient /\ EverySource /\ response.results = results
    BY DEF IInv, ResponseInv, Answered
  <2>2. selected = RequiredTools(request) /\ selected \subseteq ToolName
    BY <2>1 DEF EverySource, IInv, SelectionInv, TypeOK
  <2>. QED  BY <2>1, <2>2, EverySourceShown DEF EverySource
<1>. QED  BY <1>1, Invariance, PTL

\* What succeeded is shown, and what is shown was returned by a required
\* source that succeeded.
THEOREM ResultsAreEvidence == Spec => []ResultsMatchEvidence
<1>1. IInv => ResultsMatchEvidence
  <2>. SUFFICES ASSUME IInv, Answered
                PROVE  ResultsMatchEvidence
    BY DEF ResultsMatchEvidence
  <2>1. /\ response.results = results /\ response.ml_analysis = ml_evidence
        /\ response.observed \cup response.policies = evidence
    BY DEF IInv, ResponseInv, Answered, Observed, Policies
  <2>2. \A r \in evidence : \E t \in RequiredTools(request) \ {ML} :
          results[t] = "success" /\ r \in Matching(Decision(t, request))
    BY DEF IInv, EvidenceInv, SelectionInv
  <2>3. ml_evidence # {} => results[ML] = "success"
    BY DEF IInv, EvidenceInv
  <2>. QED  BY <2>1, <2>2, <2>3, EverySourceShown DEF ResultsMatchEvidence, ML
<1>. QED  BY <1>1, Invariance, PTL

\* No incident record reaches a reader, and an investigation that needed one
\* is never sufficient for a reader.
THEOREM ReaderIsRefused == Spec => []ReaderSeesNoIncident
<1>1. IInv => ReaderSeesNoIncident
  <2>. SUFFICES ASSUME IInv, Answered, role = "reader"
                PROVE  /\ \A r \in response.observed : r.kind # "incident"
                       /\ "get_incident" \in RequiredTools(request)
                            => ~response.sufficient
    BY DEF ReaderSeesNoIncident
  <2>1. results["get_incident"] # "success"
    BY DEF IInv, EvidenceInv
  <2>2. ASSUME NEW r \in evidence
        PROVE  r.kind # "incident"
    <3>1. PICK t \in ToolName :
            results[t] = "success" /\ r \in Matching(Decision(t, request))
      BY <2>2 DEF IInv, EvidenceInv, TypeOK
    <3>2. r.kind = KindOf(t)
      BY <3>1 DEF Matching, Decision
    <3>. QED  BY <2>1, <3>1, <3>2 DEF KindOf, ToolName
  <2>3. response.observed \subseteq evidence
    BY DEF IInv, ResponseInv, Answered, Observed
  <2>4. response.sufficient => EverySource
    BY DEF IInv, ResponseInv, Answered
  <2>5. selected # {} => selected = RequiredTools(request)
    BY DEF IInv, SelectionInv
  <2>. QED  BY <2>1, <2>2, <2>3, <2>4, <2>5 DEF EverySource
<1>. QED  BY <1>1, Invariance, PTL

\* The interpretation claims no more than the evidence returned with it.
THEOREM InterpretationIsBacked == Spec => []InterpretationBacked
<1>1. IInv => InterpretationBacked
  BY DEF IInv
<1>. QED  BY <1>1, Invariance, PTL

\* No prose names an entity the returned evidence does not name.
THEOREM IdentifiersAreKnown == Spec => []NoIdentifierInvented
<1>1. IInv => NoIdentifierInvented
  BY DEF IInv
<1>. QED  BY <1>1, Invariance, PTL

-----------------------------------------------------------------------------
(***************************************************************************)
(* What a step may never do.                                               *)
(***************************************************************************)

\* No tool call is made again or has its result changed.
THEOREM ResultsAreFinal == Spec => NoRetry
<1>. DEFINE Kept == \A t \in ToolName : results[t] # "none" => results'[t] = results[t]
<1>1. ASSUME IInv, Next
      PROVE  Kept
  <2>1. CASE results' = results
    BY <2>1
  <2>2. ASSUME NEW t \in ToolName, NEW result \in Results \ {"none"},
               Turn(t), Processed(t, result)
        PROVE  Kept
    BY <1>1, <2>2, TurnInv
  <2>3. ASSUME NEW t \in ToolName, ToolRefused(t) \/ ToolReturns(t)
        PROVE  Kept
    <3>1. CASE ToolRefused(t)
      <4>1. Refusal(t) \in Results \ {"none"} /\ Turn(t) /\ Processed(t, Refusal(t))
        BY <3>1 DEF ToolRefused, Refusal, Results
      <4>. QED  BY <4>1, <2>2
    <3>2. CASE ToolReturns(t)
      <4>1. PICK found \in SUBSET Matching(Decision(t, request)) :
              Turn(t) /\ Processed(t, ResultOf(found))
        BY <3>2 DEF ToolReturns
      <4>2. ResultOf(found) \in Results \ {"none"}
        BY DEF ResultOf, Results
      <4>. QED  BY <4>1, <4>2, <2>2
    <3>. QED  BY <2>3, <3>1, <3>2
  <2>4. ASSUME NEW t \in ToolName, NEW code \in FailureCodes(t), ToolFails(t, code)
        PROVE  Kept
    <3>1. code \in Results \ {"none"} /\ Turn(t) /\ Processed(t, code)
      BY <2>4, FailureCodesTyped DEF ToolFails
    <3>. QED  BY <3>1, <2>2
  <2>5. CASE AnomalyReturns
    <3>1. /\ "success" \in Results \ {"none"} /\ ML \in ToolName
          /\ Turn(ML) /\ Processed(ML, "success")
      BY <2>5 DEF AnomalyReturns, Results, ML, ToolName
    <3>. QED  BY <3>1, <2>2
  <2>6. CASE \/ \E node \in Nodes : StepLimit(node)
             \/ RouteTimeout \/ RouteFails \/ RouteRaises
             \/ \E p \in Plans : RouteOverLimit(p) \/ RouteSelects(p)
             \/ ToolsBegin \/ ToolsEnd \/ Assess \/ SynthesisTimeout \/ SynthesisFails
             \/ \E s \in Syntheses : SynthesisInvents(s) \/ SynthesisAccepted(s)
             \/ Finalize \/ Ended
    <3>1. results' = results
      BY <2>6
         DEF StepLimit, RouteTimeout, RouteFails, RouteRaises, RouteOverLimit,
             RouteSelects, RouteEnds, ToolsBegin, ToolsEnd, Assess, SynthesisTimeout,
             SynthesisFails, SynthesisInvents, SynthesisAccepted, SynthesisEnds,
             Finalize, Ended, vars, gathered
    <3>. QED  BY <3>1
  <2>. QED  BY <1>1, <2>3, <2>4, <2>5, <2>6 DEF Next
<1>2. IInv /\ [Next]_vars => [Kept]_vars
  BY <1>1
<1>. QED  BY <1>2, Invariance, PTL DEF Spec, NoRetry

\* A limit, once hit, is the outcome, and no synthesis is accepted after it.
THEOREM LimitsAreFinal == Spec => LimitIsFinal
<1>. DEFINE Kept == outcome = "limit_exceeded" =>
                      outcome' = "limit_exceeded" /\ synthesis' = synthesis
<1>1. ASSUME IInv, Next, outcome = "limit_exceeded"
      PROVE  outcome' = "limit_exceeded" /\ synthesis' = synthesis
  <2>1. pc \in {"assess", "finalize", "done"} /\ (pc = "assess" => ~HasEvidence)
    BY <1>1 DEF IInv, LimitInv
  <2>2. CASE \E node \in Nodes : StepLimit(node)
    BY <2>2 DEF StepLimit
  <2>3. CASE Assess
    BY <1>1, <2>1, <2>3 DEF Assess, Enter, Assessment, Sufficient
  <2>4. CASE Finalize
    BY <1>1, <2>4 DEF Finalize, Response
  <2>5. CASE Ended
    BY <1>1, <2>5 DEF Ended, vars
  <2>6. ~(\/ RouteTimeout \/ RouteFails \/ RouteRaises
          \/ \E p \in Plans : RouteOverLimit(p) \/ RouteSelects(p)
          \/ ToolsBegin)
    BY <2>1 DEF RouteTimeout, RouteFails, RouteRaises, RouteOverLimit, RouteSelects,
                ToolsBegin, Enter
  <2>7. ~(\/ \E t \in ToolName : ToolRefused(t) \/ ToolReturns(t)
          \/ \E t \in ToolName : \E code \in FailureCodes(t) : ToolFails(t, code)
          \/ AnomalyReturns \/ ToolsEnd)
    BY <2>1 DEF ToolRefused, ToolReturns, ToolFails, AnomalyReturns, ToolsEnd, Turn
  <2>8. ~(\/ SynthesisTimeout \/ SynthesisFails
          \/ \E s \in Syntheses : SynthesisInvents(s) \/ SynthesisAccepted(s))
    BY <2>1 DEF SynthesisTimeout, SynthesisFails, SynthesisInvents,
                SynthesisAccepted, Enter
  <2>. QED  BY <1>1, <2>2, <2>3, <2>4, <2>5, <2>6, <2>7, <2>8 DEF Next
<1>2. IInv /\ [Next]_vars => [Kept]_vars
  BY <1>1
<1>. QED  BY <1>2, Invariance, PTL DEF Spec, LimitIsFinal

-----------------------------------------------------------------------------
(***************************************************************************)
(* The investigation implements its contract.                              *)
(***************************************************************************)
Consulted ==
  [t \in ToolName |-> IF results[t] \in {"none", "success"} THEN results[t] ELSE "failed"]

Phase == IF pc = "done" THEN "answered" ELSE IF pc = "raised" THEN "raised" ELSE "open"

LEMMA ContractInit == Init => Contract!Init
<1>. SUFFICES ASSUME Init
              PROVE  Contract!Init
  OBVIOUS
<1>1. RequiredTools(request) \subseteq ToolName
  BY DEF RequiredTools
<1>. QED  BY <1>1 DEF Init, Contract!Init, AnswerOf

\* Every step but a tool call, the response and OverflowError is a stutter.
LEMMA ContractStutter ==
  ASSUME UNCHANGED <<request, evidence, ml_evidence, results, response>>,
         Phase' = Phase
  PROVE  UNCHANGED Contract!cvars
BY DEF Contract!cvars, Phase, AnswerOf

LEMMA ContractCall ==
  ASSUME IInv, IInv', NEW t \in ToolName, NEW result \in Results \ {"none"},
         Turn(t), Processed(t, result),
         evidence \subseteq evidence', ml_evidence \subseteq ml_evidence',
         result # "success" => UNCHANGED <<evidence, ml_evidence>>
  PROVE  Contract!Consult(t)
<1>1. /\ results[t] = "none" /\ t \in RequiredTools(request)
      /\ results' = [results EXCEPT ![t] = result]
      /\ results \in [ToolName -> Results] /\ pc = "calling" /\ pc' = "calling"
      /\ UNCHANGED <<request, response>>
  BY TurnInv DEF IInv, SelectionInv, TypeOK, Turn, Processed, inputs
<1>2. Consulted' = [Consulted EXCEPT ![t] = IF result = "success" THEN "success" ELSE "failed"]
  BY <1>1 DEF Consulted
<1>3. result = "success" => evidence' \cup ml_evidence' # {}
  <2>1. EvidenceInv' /\ results'[t] = result
    BY <1>1 DEF IInv
  <2>. QED  BY <2>1 DEF EvidenceInv, ML
<1>4. evidence' \cup ml_evidence' \subseteq Records \cup Observations
  BY DEF IInv, TypeOK
<1>5. Consulted[t] = "none" /\ AnswerOf' = AnswerOf
  BY <1>1 DEF Consulted, AnswerOf
<1>. QED  BY <1>1, <1>2, <1>3, <1>4, <1>5 DEF Contract!Consult, Consulted

LEMMA ContractAnswer ==
  ASSUME IInv, IInv', Finalize
  PROVE  Contract!Answer
<1>1. /\ pc = "finalize" /\ pc' = "done" /\ response' = Response
      /\ UNCHANGED <<request, evidence, ml_evidence, results, selected>>
  BY DEF Finalize, inputs, routing, gathered
<1>2. /\ Response.outcome \in {outcome, "limit_exceeded"}
      /\ Response.sufficient = sufficient
      /\ Response.observed = Observed /\ Response.policies = Policies
      /\ Response.ml_analysis = ml_evidence
      /\ Response \in AgentResponse
  BY ResponseTyped DEF Response, IInv
<1>3. AnswerOf' = [verdict |-> Response.outcome, sufficient |-> sufficient,
                   items |-> evidence \cup ml_evidence]
  BY <1>1, <1>2, NoneAssumption DEF AnswerOf, Observed, Policies
<1>4. AnswerOf' # None
  <2>1. AnswerOf' \in Answers
    BY <1>2, <1>3 DEF Answers, AgentResponse, IInv, TypeOK
  <2>. QED  BY <2>1, NoneAssumption
<1>5. /\ sufficient => EverySource
      /\ outcome = "complete" => sufficient
      /\ outcome = "partial_evidence" => ~sufficient /\ HasEvidence
  BY <1>1 DEF IInv, JudgedInv
<1>6. sufficient => Contract!Sufficient
  <2>. SUFFICES ASSUME sufficient
                PROVE  Contract!Sufficient
    OBVIOUS
  <2>1. /\ selected = RequiredTools(request) /\ selected \subseteq ToolName
        /\ selected # {} /\ \A t \in selected : results[t] = "success"
    BY <1>5 DEF EverySource, IInv, SelectionInv, TypeOK
  <2>2. evidence \cup ml_evidence # {}
    BY <2>1 DEF IInv, EvidenceInv, ML
  <2>. QED  BY <2>1, <2>2 DEF Contract!Sufficient
<1>7. Contract!Honest(AnswerOf')
  BY <1>2, <1>3, <1>5, <1>6 DEF Contract!Honest, HasEvidence
<1>. QED  BY <1>1, <1>4, <1>7 DEF Contract!Answer

LEMMA ContractStep == IInv /\ IInv' /\ [Next]_vars => [Contract!Next]_(Contract!cvars)
<1>. SUFFICES ASSUME IInv, IInv', [Next]_vars
              PROVE  [Contract!Next]_(Contract!cvars)
  OBVIOUS
<1>1. CASE \/ \E node \in Nodes : StepLimit(node)
           \/ RouteTimeout \/ RouteFails
           \/ \E p \in Plans : RouteOverLimit(p) \/ RouteSelects(p)
           \/ ToolsBegin \/ ToolsEnd \/ Assess \/ SynthesisTimeout \/ SynthesisFails
           \/ \E s \in Syntheses : SynthesisInvents(s) \/ SynthesisAccepted(s)
           \/ Ended \/ UNCHANGED vars
  <2>1. UNCHANGED <<request, evidence, ml_evidence, results, response>>
    BY <1>1
       DEF StepLimit, RouteTimeout, RouteFails, RouteOverLimit, RouteSelects,
           RouteEnds, ToolsBegin, ToolsEnd, Assess, SynthesisTimeout, SynthesisFails,
           SynthesisInvents, SynthesisAccepted, SynthesisEnds, Ended, vars, inputs,
           gathered
  <2>2. Phase' = Phase
    <3>1. ASSUME NEW node \in Nodes, StepLimit(node)
          PROVE  pc \notin {"done", "raised"} /\ pc' \notin {"done", "raised"}
      BY <3>1 DEF StepLimit, Successor, Nodes
    <3>. QED
      BY <1>1, <3>1
         DEF RouteTimeout, RouteFails, RouteOverLimit, RouteSelects, RouteEnds,
             ToolsBegin, ToolsEnd, Assess, SynthesisTimeout, SynthesisFails,
             SynthesisInvents, SynthesisAccepted, SynthesisEnds, Ended, vars, Enter,
             Phase
  <2>. QED  BY <2>1, <2>2, ContractStutter
<1>2. CASE RouteRaises
  <2>1. /\ pc = "route" /\ pc' = "raised"
        /\ UNCHANGED <<request, evidence, ml_evidence, results, response>>
        /\ evidence = {} /\ ml_evidence = {}
    BY <1>2 DEF RouteRaises, Enter, inputs, gathered, IInv, SelectionInv
  <2>. QED  BY <2>1 DEF Contract!Next, Contract!Raise, AnswerOf
<1>3. CASE \E t \in ToolName : ToolRefused(t)
  BY <1>3, ContractCall DEF ToolRefused, Refusal, Results, Contract!Next
<1>4. ASSUME NEW t \in ToolName, ToolReturns(t)
      PROVE  Contract!Consult(t)
  <2>1. PICK found \in SUBSET Matching(Decision(t, request)) :
          evidence' = evidence \cup found /\ Processed(t, ResultOf(found))
    BY <1>4 DEF ToolReturns
  <2>2. /\ Turn(t) /\ ml_evidence' = ml_evidence
        /\ ResultOf(found) \in Results \ {"none"}
        /\ ResultOf(found) # "success" => found = {}
    BY <1>4 DEF ToolReturns, ResultOf, Results
  <2>. QED  BY <2>1, <2>2, ContractCall
<1>5. ASSUME NEW t \in ToolName, NEW code \in FailureCodes(t), ToolFails(t, code)
      PROVE  Contract!Consult(t)
  <2>1. /\ code \in Results \ {"none"} /\ Turn(t) /\ Processed(t, code)
        /\ UNCHANGED <<evidence, ml_evidence>>
    BY <1>5, FailureCodesTyped DEF ToolFails
  <2>. QED  BY <2>1, ContractCall
<1>6. ASSUME AnomalyReturns
      PROVE  Contract!Consult(ML) /\ ML \in ToolName
  <2>1. /\ "success" \in Results \ {"none"} /\ ML \in ToolName
        /\ Turn(ML) /\ Processed(ML, "success")
        /\ evidence' = evidence /\ ml_evidence \subseteq ml_evidence'
    BY <1>6 DEF AnomalyReturns, Results, ML, ToolName
  <2>. QED  BY <2>1, ContractCall
<1>7. CASE Finalize
  BY <1>7, ContractAnswer DEF Contract!Next
<1>. QED  BY <1>1, <1>2, <1>3, <1>4, <1>5, <1>6, <1>7 DEF Next, Contract!Next

(***************************************************************************)
(* Every investigation is a behaviour of InvestigationContract: it only    *)
(* consults required sources, each once, and its answer is honest.         *)
(***************************************************************************)
THEOREM ImplementsContract == Spec => ContractSpec
BY ContractInit, ContractStep, Invariance, PTL DEF Spec, ContractSpec, Contract!Spec

-----------------------------------------------------------------------------
(***************************************************************************)
(* An investigation is short.                                              *)
(***************************************************************************)

\* No more sources are selected than may be called (_route).
Few == Cardinality(selected) <= max_tool_calls

\* The steps still to come: one for each node, and one for each decision.
Remaining ==
  CASE pc = "route"             -> 9
    [] pc = "tools"             -> 8
    [] pc = "calling"           -> 4 + Cardinality(todo)
    [] pc = "assess"            -> 3
    [] pc = "synthesize"        -> 2
    [] pc = "finalize"          -> 1
    [] pc \in {"done", "raised"} -> 0

LEMMA ToolsAreFinite ==
  \A S \in SUBSET ToolName : IsFiniteSet(S) /\ Cardinality(S) \in Nat
<1>1. \A a, b : IsFiniteSet({a, b})
  <2>1. \A a, b : {a, b} = {a} \cup {b}
    OBVIOUS
  <2>2. \A a, b : IsFiniteSet({a}) /\ IsFiniteSet({b})
    BY FS_Singleton
  <2>3. \A a, b : IsFiniteSet({a} \cup {b})
    BY <2>2, FS_Union
  <2>. QED  BY <2>1, <2>3
<1>2. IsFiniteSet({"search_policy", "search_security_events"}
                    \cup {"get_user_events", "get_incident"})
  BY <1>1, FS_Union
<1>3. ToolName = ({"search_policy", "search_security_events"}
                    \cup {"get_user_events", "get_incident"})
                   \cup {"get_event", "analyze_user_anomaly"}
  BY DEF ToolName
<1>4. IsFiniteSet(ToolName)
  BY <1>1, <1>2, <1>3, FS_Union
<1>. QED  BY <1>4, FS_Subset, FS_CardinalityType

LEMMA FewInit == Init => Few
<1>1. Cardinality({}) = 0
  BY FS_EmptySet
<1>. QED  BY <1>1, LimitsTyped DEF Init, Few

LEMMA FewStep ==
  ASSUME Few, [Next]_vars
  PROVE  Few'
<1>1. CASE \E p \in Plans : RouteSelects(p)
  BY <1>1 DEF RouteSelects, Few, inputs
<1>2. CASE ~\E p \in Plans : RouteSelects(p)
  <2>1. UNCHANGED <<inputs, selected>>
    BY <1>2
       DEF Next, StepLimit, RouteTimeout, RouteFails, RouteRaises, RouteOverLimit,
           RouteEnds, ToolsBegin, ToolRefused, ToolReturns, ToolFails, AnomalyReturns,
           Processed, ToolsEnd, Assess, SynthesisTimeout, SynthesisFails,
           SynthesisInvents, SynthesisAccepted, SynthesisEnds, Finalize, Ended,
           inputs, routing, vars
  <2>. QED  BY <2>1 DEF Few, inputs
<1>. QED  BY <1>1, <1>2

LEMMA FewAlways == Spec => []Few
BY FewInit, FewStep, PTL DEF Spec

\* The calls of a loop are at most those allowed, hence three.
LEMMA FewCalls ==
  ASSUME IInv, Few
  PROVE  /\ Cardinality(selected) \in 0..3
         /\ pc = "calling" => Cardinality(todo) \in 0..3
<1>1. selected \in SUBSET ToolName /\ todo \in SUBSET ToolName /\ max_tool_calls \in 1..3
  BY LimitAssumption DEF IInv, TypeOK
<1>2. Cardinality(selected) \in 0..3
  BY <1>1, ToolsAreFinite DEF Few
<1>3. ASSUME pc = "calling"
      PROVE  Cardinality(todo) \in 0..3
  <2>1. todo \in SUBSET selected
    BY <1>3 DEF IInv, LoopInv
  <2>2. Cardinality(todo) <= Cardinality(selected)
    BY <1>1, <2>1, ToolsAreFinite, FS_Subset
  <2>. QED  BY <1>1, <1>2, <2>2, ToolsAreFinite
<1>. QED  BY <1>2, <1>3

LEMMA RemainingTyped == IInv /\ Few => Remaining \in 0..9
BY FewCalls DEF Remaining, IInv, TypeOK, Nodes

\* A decision that has been processed is one step less.
LEMMA TurnIsSpent ==
  ASSUME IInv, Few, NEW t \in ToolName, NEW result, Turn(t), Processed(t, result)
  PROVE  Remaining' < Remaining
<1>1. pc = "calling" /\ pc' = "calling" /\ t \in todo /\ todo' = todo \ {t}
  BY DEF Turn, Processed
<1>2. IsFiniteSet(todo) /\ Cardinality(todo) \in Nat
  BY ToolsAreFinite DEF IInv, TypeOK
<1>3. Cardinality(todo \ {t}) = Cardinality(todo) - 1
  BY <1>1, <1>2, FS_RemoveElement
<1>. QED  BY <1>1, <1>2, <1>3 DEF Remaining

LEMMA StepIsSpent ==
  ASSUME IInv, Few, Next, ~Ended
  PROVE  Remaining' < Remaining
<1>1. CASE \E node \in Nodes : StepLimit(node)
  <2>1. PICK node \in Nodes : StepLimit(node)
    BY <1>1
  <2>2. pc = node /\ pc' = Successor(node)
    BY <2>1 DEF StepLimit
  <2>. QED  BY <2>2 DEF Remaining, Successor, Nodes
<1>2. CASE \/ RouteTimeout \/ RouteFails \/ RouteRaises
           \/ \E p \in Plans : RouteOverLimit(p) \/ RouteSelects(p)
  BY <1>2
     DEF RouteTimeout, RouteFails, RouteRaises, RouteOverLimit, RouteSelects, RouteEnds,
         Enter, Remaining
<1>3. CASE ToolsBegin
  <2>1. pc = "tools" /\ pc' = "calling" /\ todo' = selected
    BY <1>3 DEF ToolsBegin, Enter
  <2>2. Cardinality(selected) \in 0..3
    BY FewCalls
  <2>. QED  BY <2>1, <2>2 DEF Remaining
<1>4. CASE \E t \in ToolName : ToolRefused(t) \/ ToolReturns(t)
  BY <1>4, TurnIsSpent DEF ToolRefused, ToolReturns
<1>5. CASE \E t \in ToolName : \E code \in FailureCodes(t) : ToolFails(t, code)
  BY <1>5, TurnIsSpent DEF ToolFails
<1>6. CASE AnomalyReturns
  BY <1>6, TurnIsSpent DEF AnomalyReturns, ToolName
<1>7. CASE ToolsEnd
  <2>1. pc = "calling" /\ pc' = "assess"
    BY <1>7 DEF ToolsEnd
  <2>2. Cardinality(todo) \in 0..3
    BY <2>1, FewCalls
  <2>. QED  BY <2>1, <2>2 DEF Remaining
<1>8. CASE \/ SynthesisTimeout \/ SynthesisFails
           \/ \E s \in Syntheses : SynthesisInvents(s) \/ SynthesisAccepted(s)
  <2>1. pc = "synthesize" /\ pc' = "finalize"
    BY <1>8
       DEF SynthesisTimeout, SynthesisFails, SynthesisInvents, SynthesisAccepted,
           SynthesisEnds, Enter
  <2>. QED  BY <2>1 DEF Remaining
<1>9. CASE Assess \/ Finalize
  <2>1. \/ pc = "assess" /\ pc' \in {"synthesize", "finalize"}
        \/ pc = "finalize" /\ pc' = "done"
    BY <1>9 DEF Assess, Enter, Finalize
  <2>. QED  BY <2>1 DEF Remaining
<1>. QED  BY <1>1, <1>2, <1>3, <1>4, <1>5, <1>6, <1>7, <1>8, <1>9 DEF Next

(***************************************************************************)
(* Whatever the request, the plan, the sources and the model do, an        *)
(* investigation is over after at most nine steps: every step there is     *)
(* brings it nearer to its end (the edges of the graph, the loop of        *)
(* _tools).  That a step is taken is what the liveness property adds.      *)
(***************************************************************************)
Nearer == Remaining' < Remaining

THEOREM InvestigationsAreShort == Spec => [](Remaining \in 0..9) /\ [][Nearer]_vars
<1>1. IInv /\ Few => Remaining \in 0..9
  BY RemainingTyped
<1>2. IInv /\ Few /\ [Next]_vars => [Nearer]_vars
  BY StepIsSpent DEF Nearer, Ended
<1>. QED  BY <1>1, <1>2, FewAlways, Invariance, PTL DEF Spec

-----------------------------------------------------------------------------
(***************************************************************************)
(* The absence of an analysis is explained.  The reason holds because the  *)
(* call failed with a name, or was never made; and a call that was never   *)
(* made is one no other call was made before, for the call limit does not  *)
(* end a loop that was let in (CallsInv).                                  *)
(***************************************************************************)
CallsInv ==
  /\ pc \in {"route", "tools"} => calls = 0
  /\ pc = "calling" => calls + Cardinality(todo) <= max_tool_calls

AnalysisInv ==
  /\ results[ML] \in MLCodes \cup {"none", "success"}
  /\ pc \notin {"route", "tools", "calling"} =>
       evidence = {} \/ \A t \in selected : results[t] # "none"

AbsenceInv == CallsInv /\ AnalysisInv /\ MLAbsenceExplained

LEMMA AnalysisAccepted == Refusal(ML) = "none"
BY DEF Refusal, InputAccepted, Decision, FirstOf, TakesUser, TakesIncident, ML, ToolName

LEMMA AbsenceInit == Init => AbsenceInv
<1>. SUFFICES ASSUME Init
              PROVE  AbsenceInv
  OBVIOUS
<1>1. CallsInv /\ MLAbsenceExplained
  BY DEF Init, CallsInv, MLAbsenceExplained, Answered
<1>2. AnalysisInv
  BY DEF Init, AnalysisInv, ML, ToolName
<1>. QED  BY <1>1, <1>2 DEF AbsenceInv

\* A turn of the loop makes at most one call, and has one decision less to make.
LEMMA TurnIsCounted ==
  ASSUME IInv, CallsInv, AnalysisInv, NEW t \in ToolName, NEW result,
         Turn(t), Processed(t, result), calls' \in {calls, calls + 1},
         t = ML => result \in MLCodes \cup {"success"}
  PROVE  CallsInv' /\ AnalysisInv' /\ pc' # "done"
<1>1. /\ pc = "calling" /\ pc' = "calling" /\ t \in todo /\ todo' = todo \ {t}
      /\ max_tool_calls' = max_tool_calls
      /\ results' = [results EXCEPT ![t] = result]
  BY DEF Turn, Processed, inputs
<1>2. /\ IsFiniteSet(todo) /\ Cardinality(todo) \in Nat
      /\ calls \in Int /\ max_tool_calls \in Int
  BY ToolsAreFinite, LimitsTyped DEF IInv, TypeOK
<1>3. Cardinality(todo \ {t}) = Cardinality(todo) - 1
  BY <1>1, <1>2, FS_RemoveElement
<1>4. CallsInv'
  BY <1>1, <1>2, <1>3 DEF CallsInv
<1>5. results \in [ToolName -> Results] /\ ML \in ToolName
  BY DEF IInv, TypeOK, ML, ToolName
<1>6. results'[ML] \in MLCodes \cup {"none", "success"}
  BY <1>1, <1>5 DEF AnalysisInv
<1>. QED  BY <1>1, <1>4, <1>6 DEF AnalysisInv

\* The other nodes leave the calls alone, or make none of what was selected.
LEMMA NodeIsCounted ==
  ASSUME IInv, CallsInv, AnalysisInv, UNCHANGED <<evidence, results, calls>>,
         max_tool_calls' = max_tool_calls,
         pc' \in {"route", "tools"} => pc \in {"route", "tools"},
         pc' # "calling",
         pc \in {"route", "tools"} \/ selected' = selected,
         pc = "calling" => \A t \in selected : results[t] # "none"
  PROVE  CallsInv' /\ AnalysisInv'
<1>1. pc \in {"route", "tools"} => evidence = {}
  BY DEF IInv, SelectionInv
<1>2. CallsInv'
  BY DEF CallsInv
<1>. QED  BY <1>1, <1>2 DEF AnalysisInv

LEMMA CountedStep ==
  ASSUME IInv, Few, CallsInv, AnalysisInv, [Next]_vars
  PROVE  CallsInv' /\ AnalysisInv'
<1>. USE DEF inputs, routing, gathered
<1>1. ASSUME NEW node \in Nodes, StepLimit(node)
      PROVE  CallsInv' /\ AnalysisInv'
  <2>1. pc = node /\ pc' = Successor(node) /\ (pc = "route" => selected = {})
    BY <1>1 DEF StepLimit, IInv, SelectionInv
  <2>2. pc \in {"route", "tools", "assess", "synthesize"}
        /\ pc' \in {"assess", "synthesize", "finalize"}
    BY <2>1 DEF Successor, Nodes
  <2>. QED  BY <1>1, <2>2, NodeIsCounted DEF StepLimit
<1>2. CASE \/ RouteTimeout \/ RouteFails \/ RouteRaises
           \/ \E p \in Plans : RouteOverLimit(p) \/ RouteSelects(p)
  <2>1. /\ pc = "route" /\ pc' \in {"tools", "assess", "raised"}
        /\ UNCHANGED <<evidence, results, calls, max_tool_calls>>
    BY <1>2
       DEF RouteTimeout, RouteFails, RouteRaises, RouteOverLimit, RouteSelects,
           RouteEnds, Enter
  <2>. QED  BY <2>1, NodeIsCounted
<1>3. CASE ToolsBegin
  <2>1. /\ pc = "tools" /\ pc' = "calling" /\ todo' = selected
        /\ UNCHANGED <<results, calls, max_tool_calls>>
    BY <1>3 DEF ToolsBegin, Enter
  <2>2. Cardinality(selected) \in Int /\ max_tool_calls \in Int
    BY FewCalls, LimitsTyped DEF IInv, TypeOK
  <2>3. CallsInv'
    BY <2>1, <2>2 DEF CallsInv, Few
  <2>. QED  BY <2>1, <2>3 DEF AnalysisInv
<1>4. ASSUME NEW t \in ToolName, ToolRefused(t)
      PROVE  CallsInv' /\ AnalysisInv'
  <2>1. t # ML
    BY <1>4, AnalysisAccepted DEF ToolRefused
  <2>2. Turn(t) /\ Processed(t, Refusal(t)) /\ calls' = calls
    BY <1>4 DEF ToolRefused
  <2>. QED  BY <2>1, <2>2, TurnIsCounted
<1>5. ASSUME NEW t \in ToolName, ToolReturns(t)
      PROVE  CallsInv' /\ AnalysisInv'
  <2>1. PICK result : Turn(t) /\ Processed(t, result) /\ calls' = calls + 1 /\ t # ML
    BY <1>5 DEF ToolReturns, ML
  <2>. QED  BY <2>1, TurnIsCounted
<1>6. ASSUME NEW t \in ToolName, NEW code \in FailureCodes(t), ToolFails(t, code)
      PROVE  CallsInv' /\ AnalysisInv'
  <2>1. t = ML => code \in MLCodes
    BY DEF FailureCodes, MLCodes, ML
  <2>2. Turn(t) /\ Processed(t, code) /\ calls' = calls + 1
    BY <1>6 DEF ToolFails
  <2>. QED  BY <2>1, <2>2, TurnIsCounted
<1>7. CASE AnomalyReturns
  <2>1. Turn(ML) /\ Processed(ML, "success") /\ calls' = calls + 1 /\ ML \in ToolName
    BY <1>7 DEF AnomalyReturns, ML, ToolName
  <2>. QED  BY <2>1, TurnIsCounted
<1>8. CASE ToolsEnd
  <2>1. pc = "calling" /\ pc' = "assess" /\ (todo = {} \/ calls >= max_tool_calls)
    BY <1>8 DEF ToolsEnd
  <2>2. todo = {}
    <3>1. /\ Cardinality(todo) \in Nat /\ calls \in Int /\ max_tool_calls \in Int
          /\ calls + Cardinality(todo) <= max_tool_calls /\ IsFiniteSet(todo)
      BY <2>1, ToolsAreFinite, LimitsTyped DEF CallsInv, IInv, TypeOK
    <3>2. calls >= max_tool_calls => Cardinality(todo) = 0
      BY <3>1
    <3>. QED  BY <2>1, <3>1, <3>2, FS_EmptySet
  <2>3. \A t \in selected : results[t] # "none"
    BY <2>1, <2>2 DEF IInv, LoopInv
  <2>. QED  BY <1>8, <2>1, <2>3, NodeIsCounted DEF ToolsEnd
<1>9. CASE \/ Assess \/ SynthesisTimeout \/ SynthesisFails \/ Finalize
           \/ \E s \in Syntheses : SynthesisInvents(s) \/ SynthesisAccepted(s)
  <2>1. /\ pc \in {"assess", "synthesize", "finalize"}
        /\ pc' \in {"synthesize", "finalize", "done"}
        /\ UNCHANGED <<evidence, results, calls, max_tool_calls, selected>>
    BY <1>9
       DEF Assess, SynthesisTimeout, SynthesisFails, SynthesisInvents,
           SynthesisAccepted, SynthesisEnds, Enter, Finalize
  <2>. QED  BY <2>1, NodeIsCounted
<1>10. CASE UNCHANGED vars
  BY <1>10 DEF vars, CallsInv, AnalysisInv
<1>. QED
  BY <1>1, <1>2, <1>3, <1>4, <1>5, <1>6, <1>7, <1>8, <1>9, <1>10 DEF Next, Ended

LEMMA AbsenceGuarded ==
  ASSUME IInv, AnalysisInv, pc = "finalize", ML \in selected, ml_evidence = {}
  PROVE  Interpretation = {"ml_unavailable"}
<1>1. results[ML] \in MLCodes \/ Observed = {}
  BY DEF AnalysisInv, IInv, EvidenceInv, Observed
<1>2. ExplainML(GuardML(DraftInterpretation)) = {"ml_unavailable"}
  BY <1>1 DEF ExplainML, ML
<1>. QED  BY <1>2 DEF Interpretation, GuardPolicy, GuardOverclaim

\* Only _finalize writes a response.
LEMMA AnswersAreFinal ==
  ASSUME [Next]_vars, ~Finalize
  PROVE  UNCHANGED <<pc, response>> \/ pc' # "done"
<1>1. ASSUME NEW node \in Nodes, StepLimit(node)
      PROVE  pc' # "done"
  BY <1>1 DEF StepLimit, Successor, Nodes
<1>. QED
  BY <1>1
     DEF Next, RouteTimeout, RouteFails, RouteRaises, RouteOverLimit, RouteSelects,
         RouteEnds, ToolsBegin, ToolRefused, ToolReturns, ToolFails, AnomalyReturns,
         Processed, ToolsEnd, Assess, SynthesisTimeout, SynthesisFails,
         SynthesisInvents, SynthesisAccepted, SynthesisEnds, Ended, vars

LEMMA AbsenceStep ==
  ASSUME IInv, Few, AbsenceInv, [Next]_vars
  PROVE  AbsenceInv'
<1>1. CallsInv' /\ AnalysisInv'
  BY CountedStep DEF AbsenceInv
<1>2. CASE Finalize
  <2>1. /\ pc = "finalize" /\ response'.selected = selected
        /\ response'.ml_analysis = ml_evidence
        /\ response'.interpretation = Interpretation
    BY <1>2 DEF Finalize, Response
  <2>. QED  BY <1>1, <2>1, AbsenceGuarded DEF AbsenceInv, MLAbsenceExplained, ML
<1>3. CASE ~Finalize
  BY <1>1, <1>3, AnswersAreFinal DEF AbsenceInv, MLAbsenceExplained, Answered
<1>. QED  BY <1>2, <1>3

(***************************************************************************)
(* A requester whose analysis was selected and is missing is told that it  *)
(* was unavailable, in every ending and with every pair of limits: no      *)
(* failure is without a name, no loop is left for the call limit, and no   *)
(* later guard replaces the explanation (tools.py:184-201, _tools,         *)
(* _finalize).                                                             *)
(***************************************************************************)
THEOREM AbsenceIsExplained == Spec => []MLAbsenceExplained
<1>1. IInv /\ Few /\ AbsenceInv /\ [Next]_vars => AbsenceInv'
  BY AbsenceStep
<1>2. AbsenceInv => MLAbsenceExplained
  BY DEF AbsenceInv
<1>. QED  BY AbsenceInit, <1>1, <1>2, Invariance, FewAlways, PTL DEF Spec

-----------------------------------------------------------------------------
(***************************************************************************)
(* What the violated documentation comes to.                               *)
(***************************************************************************)

\* The instants of a request that 24 hours may be added to or taken from.
WithinCalendar(c) ==
  /\ \A i \in DOMAIN c.times : c.times[i] # NotADate => c.times[i] >= Day
  /\ \A i \in DOMAIN c.dates : c.dates[i] # NotADate => c.dates[i] + Day <= MaxInstant

LEMMA WindowRepresentable ==
  ASSUME NEW c \in Cues, WithinCalendar(c)
  PROVE  Verdict(c) # "overflow"
<1>. SUFFICES ASSUME ~Unparsable(c), ~AmbiguousTime(c) PROVE Representable(RawWindow(c))
  BY DEF Verdict
<1>1. /\ c.times \in Seq(WrittenInstant) /\ c.dates \in Seq(WrittenInstant)
      /\ Day \in Nat /\ MaxInstant \in Nat
  BY DayAssumption, MaxInstantAssumption DEF Cues
<1>2. \A i \in DOMAIN c.times : c.times[i] \in Day..MaxInstant
  BY <1>1 DEF Unparsable, WithinCalendar, WrittenInstant
<1>3. \A i \in DOMAIN c.dates : c.dates[i] \in 0..MaxInstant /\ c.dates[i] + Day <= MaxInstant
  BY <1>1 DEF Unparsable, WithinCalendar, WrittenInstant
<1>4. CASE Len(c.times) = 2
  <2>1. c.times[1] \in Day..MaxInstant /\ c.times[2] \in Day..MaxInstant
    BY <1>1, <1>2, <1>4
  <2>. QED  BY <1>1, <1>4, <2>1 DEF RawWindow, Representable, Window
<1>5. CASE Len(c.times) = 1
  <2>1. c.times[1] \in Day..MaxInstant
    BY <1>1, <1>2, <1>5
  <2>. QED  BY <1>1, <1>5, <2>1 DEF RawWindow, Representable, Window
<1>6. CASE Len(c.times) \notin {1, 2} /\ c.dates # <<>>
  <2>1. Len(c.dates) >= 1
    BY <1>1, <1>6
  <2>2. c.dates[1] \in 0..MaxInstant /\ c.dates[1] + Day <= MaxInstant
    BY <1>1, <1>3, <2>1
  <2>. QED  BY <1>1, <1>6, <2>2 DEF RawWindow, Representable, Window
<1>7. CASE Len(c.times) \notin {1, 2} /\ c.dates = <<>>
  BY <1>7 DEF RawWindow, Representable
<1>. QED  BY <1>4, <1>5, <1>6, <1>7

(***************************************************************************)
(* An investigation raises for no date but those of the first and the last *)
(* day of the calendar (requested_window, _route): every other request has *)
(* the answer docs/agent.md promises.                                      *)
(***************************************************************************)
THEOREM OnlyCalendarEndsRaise ==
  ASSUME \A c \in Requests : WithinCalendar(c)
  PROVE  Spec => []EveryDateAnswered
<1>1. Init => EveryDateAnswered
  BY DEF Init, EveryDateAnswered
<1>2. ASSUME TypeOK, EveryDateAnswered, [Next]_vars
      PROVE  EveryDateAnswered'
  <2>1. ~RouteRaises
    <3>1. Verdict(request) # "overflow"
      BY <1>2, WindowRepresentable, RequestAssumption DEF TypeOK
    <3>. QED  BY <3>1 DEF RouteRaises
  <2>2. ASSUME NEW node \in Nodes, StepLimit(node)
        PROVE  pc' # "raised"
    BY <2>2 DEF StepLimit, Successor, Nodes
  <2>. QED
    BY <1>2, <2>1, <2>2
       DEF Next, RouteTimeout, RouteFails, RouteOverLimit, RouteSelects, RouteEnds,
           ToolsBegin, ToolRefused, ToolReturns, ToolFails, AnomalyReturns, Processed,
           ToolsEnd, Assess, SynthesisTimeout, SynthesisFails, SynthesisInvents,
           SynthesisAccepted, SynthesisEnds, Finalize, Ended, vars, EveryDateAnswered
<1>. QED  BY <1>1, <1>2, TypeCorrect, PTL DEF Spec

-----------------------------------------------------------------------------
\* The references of a summary that was kept match the observations.
SummaryVerified ==
  synthesis # None => Unverified(synthesis.summary) = {}

\* What the summary of an answer never says without the evidence for it.
SummaryGuarded ==
  Answered =>
    /\ "flagged" \in response.summary => \E m \in response.ml_analysis : m.flagged
    /\ "not_flagged" \in response.summary => \E m \in response.ml_analysis : ~m.flagged
    /\ response.summary \cap {"overclaim", "inexact_score"} = {}

LEMMA SummaryStep ==
  ASSUME IInv, SummaryVerified, [Next]_vars
  PROVE  SummaryVerified'
<1>1. CASE \E s \in Syntheses : SynthesisAccepted(s)
  <2>1. PICK s \in Syntheses : SynthesisAccepted(s)
    BY <1>1
  <2>2. s \in Synthesis
    BY SynthesisAssumption
  <2>3. synthesis'.summary = Verified(s.summary) /\ ml_evidence' = ml_evidence
    BY <2>1, <2>2 DEF SynthesisAccepted, gathered, Synthesis
  <2>. QED  BY <2>3 DEF SummaryVerified, Verified, Unverified
<1>2. CASE AnomalyReturns
  <2>1. pc = "calling" /\ synthesis' = synthesis
    BY <1>2 DEF AnomalyReturns, Turn, Processed
  <2>. QED  BY <2>1 DEF IInv, ProseInv, SummaryVerified
<1>3. CASE ~AnomalyReturns /\ ~\E s \in Syntheses : SynthesisAccepted(s)
  <2>1. UNCHANGED <<synthesis, ml_evidence>>
    BY <1>3
       DEF Next, StepLimit, RouteTimeout, RouteFails, RouteRaises, RouteOverLimit,
           RouteSelects, RouteEnds, ToolsBegin, ToolRefused, ToolReturns, ToolFails,
           Processed, ToolsEnd, Assess, SynthesisTimeout, SynthesisFails,
           SynthesisInvents, SynthesisEnds, Finalize, Ended, gathered, vars
  <2>. QED  BY <2>1 DEF SummaryVerified, Unverified
<1>. QED  BY <1>1, <1>2, <1>3

LEMMA SummaryFinal ==
  ASSUME SummaryVerified, SummaryGuarded, [Next]_vars
  PROVE  SummaryGuarded'
<1>1. CASE Finalize
  <2>1. pc' = "done" /\ response'.summary = Summary /\ response'.ml_analysis = ml_evidence
    BY <1>1 DEF Finalize, Response
  <2>2. Summary \cap {"overclaim"} = {} /\ Unverified(Summary) = {}
    BY DEF Summary, GuardOverclaim, SummaryVerified, Grounded, Unverified
  <2>. QED  BY <2>1, <2>2 DEF SummaryGuarded, Unverified
<1>2. CASE ~Finalize
  <2>1. UNCHANGED <<pc, response>> \/ pc' # "done"
    BY <1>2, AnswersAreFinal
  <2>. QED  BY <2>1 DEF SummaryGuarded, Answered
<1>. QED  BY <1>1, <1>2

(***************************************************************************)
(* The summary meets fewer guards than the interpretation, but what it may *)
(* claim without evidence is an anomaly or a violation and nothing else:   *)
(* flags are those of an observation, and no score or overclaim is left    *)
(* (verified_ml_claims, _finalize).                                        *)
(***************************************************************************)
THEOREM SummariesAreGuarded == Spec => []SummaryGuarded
<1>1. Init => SummaryVerified /\ SummaryGuarded
  BY DEF Init, SummaryVerified, SummaryGuarded, Answered
<1>. QED  BY <1>1, SummaryStep, SummaryFinal, Invariance, PTL DEF Spec
=============================================================================
