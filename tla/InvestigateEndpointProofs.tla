----------------------- MODULE InvestigateEndpointProofs -----------------------
(***************************************************************************)
(* Theorems of InvestigateEndpoint.  The endpoint runs the investigation   *)
(* step by step and changes none of its state, so what is proved of an     *)
(* investigation holds of the one a request runs; on top of it, the audit  *)
(* and the session.                                                        *)
(***************************************************************************)
EXTENDS InvestigateEndpoint, InvestigationGraphProofs

\* A step of the endpoint is a step of the investigation or leaves it alone.
LEMMA StepOfGraph == ASSUME [ENext]_evars PROVE [Next]_vars
<1>1. CASE AgentStep BY <1>1 DEF AgentStep
<1>2. CASE AuditCommits \/ AuditFails \/ CommitLost \/ AgentRaises
  BY <1>2 DEF AuditCommits, AuditFails, CommitLost, AgentRaises
<1>3. CASE PostgresStops \/ PostgresStarts \/ Sent \/ UNCHANGED evars
  BY <1>3 DEF PostgresStops, PostgresStarts, Sent, evars
<1>4. QED BY <1>1, <1>2, <1>3 DEF ENext, Progress

(***************************************************************************)
(* The endpoint runs the investigation as its specification says: every    *)
(* behaviour of a request is one of InvestigationGraph (investigate).      *)
(***************************************************************************)
THEOREM EndpointRunsGraph == ESpec => Spec
<1>1. EInit => Init BY DEF EInit
<1>2. [ENext]_evars => [Next]_vars BY StepOfGraph
<1>3. QED BY <1>1, <1>2, PTL DEF ESpec, Spec

\* The invariant of the investigation, for the one a request runs.
LEMMA EndpointInvariance == ESpec => []IInv
BY EndpointRunsGraph, Invariance, PTL

-----------------------------------------------------------------------------
(***************************************************************************)
(* The invariant of the endpoint: nothing is audited before the answer.    *)
(***************************************************************************)
EInv == ETypeOK /\ DeliveredIsAudited /\ (status = 0 => audit_log = {})

\* What a tool call may make of the session.
LEMMA SessionTyped ==
  ASSUME NEW t \in ToolName, NEW result,
         session \in {"idle", "open", "broken"}, SessionEffect(t, result)
  PROVE  session' \in {"idle", "open", "broken"}
BY DEF SessionEffect, ReadsSucceed, ReadsFail

LEMMA EInvInit == EInit => EInv
<1>1. Init => TypeOK BY TypeInit
<1>2. QED BY <1>1 DEF EInit, EInv, ETypeOK, DeliveredIsAudited

LEMMA EInvStep == EInv /\ TypeOK' /\ [ENext]_evars => EInv'
<1>. SUFFICES ASSUME EInv, TypeOK', [ENext]_evars
              PROVE  EInv'
  OBVIOUS
<1>. USE DEF EInv, ETypeOK, DeliveredIsAudited
<1>0. pc = "done" => response.outcome \in Outcomes
  BY DEF TypeOK, AgentResponse
<1>1. CASE AgentStep
  <2>1. session' \in {"idle", "open", "broken"}
    BY <1>1, SessionTyped DEF AgentStep, DatabaseTools
  <2>2. QED BY <1>1, <2>1 DEF AgentStep
<1>2. CASE AuditCommits
  BY <1>0, <1>2 DEF AuditCommits, vars
<1>3. CASE AuditFails
  BY <1>3 DEF AuditFails, vars
<1>4. CASE CommitLost
  <2>1. postgres' \in BOOLEAN BY <1>4 DEF CommitLost
  <2>2. audit_log' \subseteq Outcomes /\ pc' = "done"
    BY <1>0, <1>4 DEF CommitLost, vars
  <2>3. session' = "idle" /\ status' = 503
    BY <1>4 DEF CommitLost
  <2>4. QED BY <2>1, <2>2, <2>3
<1>5. CASE AgentRaises
  BY <1>5 DEF AgentRaises, vars
<1>6. CASE PostgresStops
  <2>1. postgres' \in BOOLEAN BY <1>6 DEF PostgresStops
  <2>2. session' \in {"idle", "open", "broken"} BY <1>6 DEF PostgresStops
  <2>3. status = 0 /\ UNCHANGED <<pc, response, audit_log, status>>
    BY <1>6 DEF PostgresStops, vars
  <2>4. QED BY <2>1, <2>2, <2>3
<1>7. CASE PostgresStarts
  BY <1>7 DEF PostgresStarts, vars
<1>8. CASE Sent \/ UNCHANGED evars
  BY <1>8 DEF Sent, evars, vars
<1>9. QED
  BY <1>1, <1>2, <1>3, <1>4, <1>5, <1>6, <1>7, <1>8 DEF ENext, Progress

LEMMA EndpointInv == ESpec => []EInv
<1>1. IInv => TypeOK BY DEF IInv
<1>2. QED BY <1>1, EInvInit, EInvStep, EndpointInvariance, PTL DEF ESpec

\* The endpoint's variables keep their types, whatever PostgreSQL does
\* between two steps of the request.
THEOREM EndpointTypeCorrect == ESpec => []ETypeOK
<1>1. EInv => ETypeOK BY DEF EInv
<1>2. QED BY <1>1, EndpointInv, PTL

(***************************************************************************)
(* No answer leaves without its audit row, and no row is written for an    *)
(* investigation that raised (investigate, ApiService.audit).              *)
(***************************************************************************)
THEOREM DeliveriesAreAudited == ESpec => []DeliveredIsAudited
<1>1. EInv => DeliveredIsAudited BY DEF EInv
<1>2. QED BY <1>1, EndpointInv, PTL

-----------------------------------------------------------------------------
\* Nothing is read through a broken session.
LEMMA BrokenReadsNothing ==
  ASSUME IInv, AgentStep, session = "broken",
         NEW t \in DatabaseTools, NEW result \in {"success", "empty"},
         Turn(t), Processed(t, result)
  PROVE  FALSE
<1>1. t \in ToolName /\ result \in Results \ {"none"}
  BY DEF DatabaseTools, Results
<1>2. /\ results[t] = "none" /\ results'[t] = result
      /\ \A u \in ToolName \ {t} : results'[u] = results[u]
  BY <1>1, TurnInv
<1>3. PICK u \in DatabaseTools :
        results'[u] # results[u] /\ SessionEffect(u, results'[u])
  BY <1>2 DEF AgentStep
<1>4. u = t
  BY <1>2, <1>3 DEF DatabaseTools
<1>. QED  BY <1>2, <1>3, <1>4 DEF SessionEffect, BeforeReading, ReadsSucceed

LEMMA BrokenSessionKept ==
  ASSUME AgentStep, session = "broken"
  PROVE  session' = "broken"
BY DEF AgentStep, SessionEffect, BeforeReading, ReadsSucceed, ReadsFail

LEMMA BrokenAgentStep ==
  ASSUME IInv, AgentStep, session = "broken"
  PROVE  /\ \A r \in evidence' \ evidence : r.kind = "policy"
         /\ ml_evidence' = ml_evidence
<1>1. ASSUME NEW t \in ToolName, ToolReturns(t)
      PROVE  /\ \A r \in evidence' \ evidence : r.kind = "policy"
             /\ ml_evidence' = ml_evidence
  <2>1. PICK found \in SUBSET Matching(Decision(t, request)) :
          /\ evidence' = evidence \cup found
          /\ Turn(t) /\ Processed(t, ResultOf(found))
    BY <1>1 DEF ToolReturns
  <2>2. t \notin DatabaseTools
    BY <2>1, BrokenReadsNothing DEF ResultOf
  <2>3. \A r \in found : r.kind = "policy"
    BY <2>2 DEF DatabaseTools, Matching, Decision, KindOf
  <2>. QED  BY <1>1, <2>1, <2>3 DEF ToolReturns
<1>2. ~AnomalyReturns
  <2>1. ML \in DatabaseTools
    BY DEF ML, DatabaseTools, ToolName
  <2>. QED  BY <2>1, BrokenReadsNothing DEF AnomalyReturns, ML
<1>3. ASSUME NEW t \in ToolName,
             ToolRefused(t) \/ \E code \in FailureCodes(t) : ToolFails(t, code)
      PROVE  UNCHANGED <<evidence, ml_evidence>>
  BY <1>3 DEF ToolRefused, ToolFails
<1>4. CASE \/ \E node \in Nodes : StepLimit(node)
           \/ RouteTimeout \/ RouteFails \/ RouteRaises
           \/ \E p \in Plans : RouteOverLimit(p) \/ RouteSelects(p)
           \/ ToolsBegin \/ ToolsEnd \/ Assess \/ SynthesisTimeout \/ SynthesisFails
           \/ \E s \in Syntheses : SynthesisInvents(s) \/ SynthesisAccepted(s)
           \/ Finalize \/ Ended
  BY <1>4
     DEF StepLimit, RouteTimeout, RouteFails, RouteRaises, RouteOverLimit,
         RouteSelects, RouteEnds, ToolsBegin, ToolsEnd, Assess, SynthesisTimeout,
         SynthesisFails, SynthesisInvents, SynthesisAccepted, SynthesisEnds,
         Finalize, Ended, vars, gathered
<1>. QED  BY <1>1, <1>2, <1>3, <1>4 DEF AgentStep, Next

(***************************************************************************)
(* Once a tool, or PostgreSQL going away, has broken the session, nothing  *)
(* more is read from PostgreSQL and the request ends in 500 or 503.        *)
(***************************************************************************)
THEOREM BrokenSessionIsFinal == ESpec => BrokenIsFinal
<1>. DEFINE Poisoned ==
       session = "broken" =>
         /\ \A r \in evidence' \ evidence : r.kind = "policy"
         /\ ml_evidence' = ml_evidence
         /\ session' = "broken" \/ status' \in {500, 503}
<1>1. ASSUME IInv, ENext
      PROVE  Poisoned
  <2>1. CASE AgentStep
    BY <1>1, <2>1, BrokenAgentStep, BrokenSessionKept
  <2>2. CASE AuditCommits \/ AuditFails \/ CommitLost \/ AgentRaises
    BY <2>2 DEF AuditCommits, AuditFails, CommitLost, AgentRaises, vars, gathered
  <2>3. CASE PostgresStops \/ PostgresStarts \/ Sent
    BY <2>3 DEF PostgresStops, PostgresStarts, Sent, evars, vars, gathered
  <2>. QED  BY <1>1, <2>1, <2>2, <2>3 DEF ENext, Progress
<1>2. IInv /\ [ENext]_evars => [Poisoned]_evars
  BY <1>1
<1>. QED  BY <1>2, EndpointInvariance, PTL DEF ESpec, BrokenIsFinal

-----------------------------------------------------------------------------
(***************************************************************************)
(* A request is answered within a bounded number of its own steps.         *)
(***************************************************************************)

\* The steps of the investigation, and the one that sends its answer.
StepsToAnswer == IF status = 0 THEN Remaining + 1 ELSE 0

\* PostgreSQL coming or going takes nothing from the request and adds nothing.
AnswerIsNearer ==
  \/ UNCHANGED <<vars, audit_log, status>> /\ postgres' # postgres
  \/ StepsToAnswer' < StepsToAnswer

LEMMA EndpointStepIsSpent ==
  ASSUME IInv, IInv', Few, Few', EInv, ENext, evars' # evars
  PROVE  AnswerIsNearer
<1>1. Remaining \in 0..9 /\ Remaining' \in 0..9
  <2>1. IInv /\ Few => Remaining \in 0..9
    BY RemainingTyped
  <2>2. (IInv /\ Few => Remaining \in 0..9)'
    BY RemainingTyped, PTL
  <2>. QED  BY <2>1, <2>2
<1>2. CASE AgentStep
  <2>1. Next /\ status = 0 /\ status' = 0 /\ pc \notin {"done", "raised"}
    BY <1>2 DEF AgentStep
  <2>2. Remaining' < Remaining
    BY <2>1, StepIsSpent DEF Ended
  <2>3. StepsToAnswer = Remaining + 1 /\ StepsToAnswer' = Remaining' + 1
    BY <2>1 DEF StepsToAnswer
  <2>4. \A a, b \in 0..9 : a < b => a + 1 < b + 1
    OBVIOUS
  <2>5. Remaining' + 1 < Remaining + 1
    BY <1>1, <2>2, <2>4, Zenon
  <2>. QED  BY <2>3, <2>5 DEF AnswerIsNearer
<1>3. CASE AuditCommits \/ AuditFails \/ CommitLost \/ AgentRaises
  <2>1. status = 0 /\ status' # 0
    BY <1>3 DEF AuditCommits, AuditFails, CommitLost, AgentRaises
  <2>. QED  BY <1>1, <2>1 DEF AnswerIsNearer, StepsToAnswer
<1>4. CASE PostgresStops \/ PostgresStarts
  BY <1>4 DEF PostgresStops, PostgresStarts, AnswerIsNearer
<1>5. ~Sent
  BY DEF Sent
<1>. QED  BY <1>2, <1>3, <1>4, <1>5 DEF ENext, Progress

(***************************************************************************)
(* However often PostgreSQL comes and goes, a request is answered after at *)
(* most ten steps of its own: one for each of the investigation and one    *)
(* for the audit, whatever becomes of it (investigate, get_session).       *)
(***************************************************************************)
THEOREM AnswersAreNear ==
  ESpec => [](StepsToAnswer \in 0..10) /\ [][AnswerIsNearer]_evars
<1>1. IInv /\ Few => StepsToAnswer \in 0..10
  BY RemainingTyped DEF StepsToAnswer
<1>2. /\ IInv /\ IInv' /\ Few /\ Few' /\ EInv /\ [ENext]_evars
      => [AnswerIsNearer]_evars
  BY EndpointStepIsSpent
<1>3. ESpec => [](IInv /\ Few)
  BY EndpointRunsGraph, Invariance, FewAlways, PTL
<1>. QED  BY <1>1, <1>2, <1>3, EndpointInv, PTL DEF ESpec
=============================================================================
