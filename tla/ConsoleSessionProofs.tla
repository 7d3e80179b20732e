------------------------- MODULE ConsoleSessionProofs -------------------------
(***************************************************************************)
(* What the server keeps for any number of requests, any routes and any    *)
(* size of the pool, and what consoles and server keep together.           *)
(*                                                                         *)
(* The invariant of the server is a conjunction.  Located says what a      *)
(* thread can be doing at each stage, which the counters, the pool and the *)
(* audit all rest on: that a stage answers once, and that a call belongs   *)
(* to its stage.  It holds with consoles in front of the server, since all *)
(* they do to it is to send requests.  What a page displays stays true     *)
(* because an answered request is never touched again (Final).             *)
(***************************************************************************)
EXTENDS ConsoleSession, FiniteSetTheorems, TLAPS

Codes == {200, 401, 403, 404, 413, 422, 500, 503}
Finished == {"count", "reply", "answered"}

\* What holds of a request by the stage it is at.
Located ==
  \A r \in Request :
    /\ stage[r] \in {"probe", "services"} => endpoint[r] = "health"
    /\ stage[r] = "probe" => status[r] = 0
    /\ stage[r] = "audit" => status[r] \in {200, 404, 503}
    /\ stage[r] = "services" => status[r] \in {0, 503}
    /\ stage[r] \in Finished => status[r] \in Codes
    /\ call[r] = "searching"
       => stage[r] = "retrieve" \/ (stage[r] = "tools" /\ "policy" \in todo[r])
    /\ call[r] \in {"waiting", "failing"} => stage[r] \in {"route", "synthesis"}
    /\ r \in audited => stage[r] \in Finished

-----------------------------------------------------------------------------
(* Types. *)

LEMMA TypeInit == Init => TypeOK
BY EndpointAssumption
DEF Init, TypeOK, Stages, Calls, Sources, Counter

LEMMA Counting ==
  ASSUME TypeOK, NEW c \in Counter, Increment(c)
  PROVE  /\ count' \in [Counter -> Nat]
         /\ count'[c] = count[c] + 1
         /\ \A d \in Counter \ {c} : count'[d] = count[d]
BY DEF Increment, TypeOK

LEMMA ArriveType ==
  ASSUME TypeOK, NEW r \in Request, NEW e \in Endpoint, NEW role \in Roles, NEW form \in Forms,
         Arrive(r, e, role, form)
  PROVE  TypeOK'
BY EndpointAssumption
DEF TypeOK, Arrive, Refusal, FirstStage, Routes, Go, Answer, Stages

LEMMA HandleType ==
  ASSUME TypeOK, Located, NEW r \in Request, Handle(r)
  PROVE  TypeOK'
<1> USE DEF TypeOK, Go, Answer, Called, Release, Uncounted, Disconnected, Uninvolved,
            Stages, Calls, Counter
<1>1. CASE Acquire(r) BY <1>1 DEF Acquire
<1>2. CASE Read(r) BY <1>2 DEF Read
<1>3. CASE Audit(r) BY <1>3 DEF Audit
<1>4. CASE SqlFails(r) BY <1>4 DEF SqlFails
<1>5. CASE ReadRaises(r) BY <1>5 DEF ReadRaises
<1>6. CASE ProbeDatabase(r) BY <1>6 DEF ProbeDatabase
<1>7. CASE ProbeServices(r) BY <1>7 DEF ProbeServices
<1>8. CASE Snapshot(r) BY <1>8 DEF Snapshot
<1>9. CASE StartRetrieval(r) BY <1>9, Counting DEF StartRetrieval
<1>10. CASE RetrievalImpossible(r) BY <1>10 DEF RetrievalImpossible, Retrieved
<1>11. CASE RetrievalFinds(r) BY <1>11 DEF RetrievalFinds, Retrieved
<1>12. CASE RetrievalInsufficient(r) BY <1>12, Counting DEF RetrievalInsufficient, Retrieved
<1>13. CASE RetrievalFails(r) BY <1>13 DEF RetrievalFails, Retrieved
<1>14. CASE AskModel(r) BY <1>14, Counting DEF AskModel
<1>15. CASE PromptRefused(r) BY <1>15 DEF PromptRefused, Conclude
<1>16. CASE ModelPlans(r) BY <1>16 DEF ModelPlans
<1>17. CASE ModelAnswers(r) BY <1>17 DEF ModelAnswers, Conclude
<1>18. CASE SchemaFails(r) BY <1>18, Counting DEF SchemaFails, Conclude
<1>19. CASE RoutingRaises(r) BY <1>19 DEF RoutingRaises
<1>20. CASE ModelTimesOut(r) BY <1>20, Counting DEF ModelTimesOut
<1>21. CASE ModelBreaks(r) BY <1>21 DEF ModelBreaks
<1>22. CASE CountFailure(r) BY <1>22, Counting DEF CountFailure, Conclude
<1>23. CASE ToolsRead(r) BY <1>23 DEF ToolsRead, RecordsRead
<1>24. CASE ToolBreaks(r) BY <1>24 DEF ToolBreaks, RecordsRead
<1>25. CASE ToolsRefused(r) BY <1>25 DEF ToolsRefused, RecordsRead
<1>26. CASE Assess(r) BY <1>26 DEF Assess
<1>27. CASE CountRequest(r) BY <1>27, Counting DEF CountRequest
<1>28. CASE Reply(r) BY <1>28, Counting DEF Reply
<1> QED
  BY <1>1, <1>2, <1>3, <1>4, <1>5, <1>6, <1>7, <1>8, <1>9, <1>10,
     <1>11, <1>12, <1>13, <1>14, <1>15, <1>16, <1>17, <1>18, <1>19, <1>20,
     <1>21, <1>22, <1>23, <1>24, <1>25, <1>26, <1>27, <1>28
  DEF Handle, Serve, Outside

-----------------------------------------------------------------------------
(* Located. *)

LEMMA ArriveLocated ==
  ASSUME TypeOK, Located, NEW r \in Request, NEW e \in Endpoint, NEW role \in Roles,
         NEW form \in Forms, Arrive(r, e, role, form)
  PROVE  Located'
BY EndpointAssumption
DEF TypeOK, Located, Arrive, Refusal, FirstStage, Routes, Go, Answer, Finished, Codes

LEMMA HandleLocated ==
  ASSUME TypeOK, Located, NEW r \in Request, Handle(r)
  PROVE  Located'
<1> USE DEF TypeOK, Located, Go, Answer, Called, Disconnected, Uninvolved, Finished, Codes
<1>1. CASE Acquire(r) BY <1>1 DEF Acquire
<1>2. CASE Read(r) BY <1>2 DEF Read
<1>3. CASE Audit(r) BY <1>3 DEF Audit
<1>4. CASE SqlFails(r) BY <1>4 DEF SqlFails
<1>5. CASE ReadRaises(r) BY <1>5 DEF ReadRaises
<1>6. CASE ProbeDatabase(r) BY <1>6 DEF ProbeDatabase
<1>7. CASE ProbeServices(r) BY <1>7 DEF ProbeServices
<1>8. CASE Snapshot(r) BY <1>8 DEF Snapshot
<1>9. CASE StartRetrieval(r) BY <1>9 DEF StartRetrieval, MayRetrieve
<1>10. CASE RetrievalImpossible(r) BY <1>10 DEF RetrievalImpossible, Retrieved, MayRetrieve
<1>11. CASE RetrievalFinds(r) BY <1>11 DEF RetrievalFinds, Retrieved, MayRetrieve
<1>12. CASE RetrievalInsufficient(r) BY <1>12 DEF RetrievalInsufficient, Retrieved, MayRetrieve
<1>13. CASE RetrievalFails(r) BY <1>13 DEF RetrievalFails, Retrieved, MayRetrieve
<1>14. CASE AskModel(r) BY <1>14 DEF AskModel, MayAskModel
<1>15. CASE PromptRefused(r) BY <1>15 DEF PromptRefused, Conclude, MayAskModel
<1>16. CASE ModelPlans(r) BY <1>16 DEF ModelPlans
<1>17. CASE ModelAnswers(r) BY <1>17 DEF ModelAnswers, Conclude
<1>18. CASE SchemaFails(r) BY <1>18 DEF SchemaFails, Conclude
<1>19. CASE RoutingRaises(r) BY <1>19 DEF RoutingRaises
<1>20. CASE ModelTimesOut(r) BY <1>20 DEF ModelTimesOut
<1>21. CASE ModelBreaks(r) BY <1>21 DEF ModelBreaks
<1>22. CASE CountFailure(r) BY <1>22 DEF CountFailure, Conclude
<1>23. CASE ToolsRead(r) BY <1>23 DEF ToolsRead, RecordsRead
<1>24. CASE ToolBreaks(r) BY <1>24 DEF ToolBreaks, RecordsRead
<1>25. CASE ToolsRefused(r) BY <1>25 DEF ToolsRefused, RecordsRead
<1>26. CASE Assess(r) BY <1>26 DEF Assess
<1>27. CASE CountRequest(r) BY <1>27 DEF CountRequest
<1>28. CASE Reply(r) BY <1>28 DEF Reply
<1> QED
  BY <1>1, <1>2, <1>3, <1>4, <1>5, <1>6, <1>7, <1>8, <1>9, <1>10,
     <1>11, <1>12, <1>13, <1>14, <1>15, <1>16, <1>17, <1>18, <1>19, <1>20,
     <1>21, <1>22, <1>23, <1>24, <1>25, <1>26, <1>27, <1>28
  DEF Handle, Serve, Outside

-----------------------------------------------------------------------------
(* The audit. *)

LEMMA ArriveAudited ==
  ASSUME TypeOK, Located, AuditMatchesAnswer, NEW r \in Request, NEW e \in Endpoint,
         NEW role \in Roles, NEW form \in Forms, Arrive(r, e, role, form)
  PROVE  AuditMatchesAnswer'
BY EndpointAssumption
DEF TypeOK, Located, AuditMatchesAnswer, Arrive, Refusal, FirstStage, Routes, Go, Answer, Finished

LEMMA HandleAudited ==
  ASSUME TypeOK, Located, AuditMatchesAnswer, NEW r \in Request, Handle(r)
  PROVE  AuditMatchesAnswer'
<1> USE DEF TypeOK, Located, AuditMatchesAnswer, Go, Answer, Called, Disconnected,
            Uninvolved, Finished
<1>1. CASE Acquire(r) BY <1>1 DEF Acquire
<1>2. CASE Read(r) BY <1>2 DEF Read
<1>3. CASE Audit(r) BY <1>3 DEF Audit
<1>4. CASE SqlFails(r) BY <1>4 DEF SqlFails
<1>5. CASE ReadRaises(r) BY <1>5 DEF ReadRaises
<1>6. CASE ProbeDatabase(r) BY <1>6 DEF ProbeDatabase
<1>7. CASE ProbeServices(r) BY <1>7 DEF ProbeServices
<1>8. CASE Snapshot(r) BY <1>8 DEF Snapshot
<1>9. CASE StartRetrieval(r) BY <1>9 DEF StartRetrieval, MayRetrieve
<1>10. CASE RetrievalImpossible(r) BY <1>10 DEF RetrievalImpossible, Retrieved, MayRetrieve
<1>11. CASE RetrievalFinds(r) BY <1>11 DEF RetrievalFinds, Retrieved, MayRetrieve
<1>12. CASE RetrievalInsufficient(r) BY <1>12 DEF RetrievalInsufficient, Retrieved, MayRetrieve
<1>13. CASE RetrievalFails(r) BY <1>13 DEF RetrievalFails, Retrieved, MayRetrieve
<1>14. CASE AskModel(r) BY <1>14 DEF AskModel, MayAskModel
<1>15. CASE PromptRefused(r) BY <1>15 DEF PromptRefused, Conclude, MayAskModel
<1>16. CASE ModelPlans(r) BY <1>16 DEF ModelPlans
<1>17. CASE ModelAnswers(r) BY <1>17 DEF ModelAnswers, Conclude
<1>18. CASE SchemaFails(r) BY <1>18 DEF SchemaFails, Conclude
<1>19. CASE RoutingRaises(r) BY <1>19 DEF RoutingRaises
<1>20. CASE ModelTimesOut(r) BY <1>20 DEF ModelTimesOut
<1>21. CASE ModelBreaks(r) BY <1>21 DEF ModelBreaks
<1>22. CASE CountFailure(r) BY <1>22 DEF CountFailure, Conclude
<1>23. CASE ToolsRead(r) BY <1>23 DEF ToolsRead, RecordsRead
<1>24. CASE ToolBreaks(r) BY <1>24 DEF ToolBreaks, RecordsRead
<1>25. CASE ToolsRefused(r) BY <1>25 DEF ToolsRefused, RecordsRead
<1>26. CASE Assess(r) BY <1>26 DEF Assess
<1>27. CASE CountRequest(r) BY <1>27 DEF CountRequest
<1>28. CASE Reply(r) BY <1>28 DEF Reply
<1> QED
  BY <1>1, <1>2, <1>3, <1>4, <1>5, <1>6, <1>7, <1>8, <1>9, <1>10,
     <1>11, <1>12, <1>13, <1>14, <1>15, <1>16, <1>17, <1>18, <1>19, <1>20,
     <1>21, <1>22, <1>23, <1>24, <1>25, <1>26, <1>27, <1>28
  DEF Handle, Serve, Outside

-----------------------------------------------------------------------------
(* The pool. *)

LEMMA RequestsFinite == \A S \in SUBSET Request : IsFiniteSet(S) /\ Cardinality(S) \in Nat
<1>1. IsFiniteSet(Request) BY RequestsAssumption, FS_Interval DEF Request
<1> QED BY <1>1, FS_Subset, FS_CardinalityType

LEMMA ReleaseBounds ==
  ASSUME TypeOK, PoolKept, pool' = pool \/ (\E r \in Request : pool' = pool \ {r})
  PROVE  Cardinality(pool') <= PoolSize
<1>1. IsFiniteSet(pool) /\ Cardinality(pool) \in Nat BY RequestsFinite DEF TypeOK
<1>2. pool' \in SUBSET pool OBVIOUS
<1>3. Cardinality(pool') <= Cardinality(pool) BY <1>1, <1>2, FS_Subset
<1>4. Cardinality(pool') \in Nat BY <1>1, <1>2, FS_Subset, FS_CardinalityType
<1> QED BY <1>1, <1>3, <1>4, PoolAssumption DEF PoolKept

LEMMA AcquireBounds ==
  ASSUME TypeOK, NEW r \in Request, Acquire(r)
  PROVE  Cardinality(pool') <= PoolSize
<1>1. IsFiniteSet(pool) /\ Cardinality(pool) \in Nat BY RequestsFinite DEF TypeOK
<1>2. Cardinality(pool \cup {r}) = Cardinality(pool) + 1 BY <1>1, FS_AddElement DEF Acquire
<1> QED BY <1>1, <1>2, PoolAssumption DEF Acquire

HoldersWait == pool \subseteq At(Holding)

LEMMA ArriveHolds ==
  ASSUME TypeOK, HoldersWait, NEW r \in Request, NEW e \in Endpoint, NEW role \in Roles,
         NEW form \in Forms, Arrive(r, e, role, form)
  PROVE  HoldersWait'
BY DEF TypeOK, HoldersWait, At, Holding, Arrive, Go

LEMMA HandleHolds ==
  ASSUME TypeOK, Located, HoldersWait, NEW r \in Request, Handle(r)
  PROVE  HoldersWait'
<1> USE DEF TypeOK, Located, HoldersWait, At, Holding, Go, Called, Release, Disconnected
<1>1. CASE Acquire(r) BY <1>1 DEF Acquire, NeedsConnection
<1>2. CASE Read(r) BY <1>2 DEF Read
<1>3. CASE Audit(r) BY <1>3 DEF Audit
<1>4. CASE SqlFails(r) BY <1>4 DEF SqlFails
<1>5. CASE ReadRaises(r) BY <1>5 DEF ReadRaises
<1>6. CASE ProbeDatabase(r) BY <1>6 DEF ProbeDatabase
<1>7. CASE ProbeServices(r) BY <1>7 DEF ProbeServices
<1>8. CASE Snapshot(r) BY <1>8 DEF Snapshot
<1>9. CASE StartRetrieval(r) BY <1>9 DEF StartRetrieval, MayRetrieve
<1>10. CASE RetrievalImpossible(r) BY <1>10 DEF RetrievalImpossible, Retrieved, MayRetrieve
<1>11. CASE RetrievalFinds(r) BY <1>11 DEF RetrievalFinds, Retrieved, MayRetrieve
<1>12. CASE RetrievalInsufficient(r) BY <1>12 DEF RetrievalInsufficient, Retrieved, MayRetrieve
<1>13. CASE RetrievalFails(r) BY <1>13 DEF RetrievalFails, Retrieved, MayRetrieve
<1>14. CASE AskModel(r) BY <1>14 DEF AskModel, MayAskModel
<1>15. CASE PromptRefused(r) BY <1>15 DEF PromptRefused, Conclude, MayAskModel
<1>16. CASE ModelPlans(r) BY <1>16 DEF ModelPlans
<1>17. CASE ModelAnswers(r) BY <1>17 DEF ModelAnswers, Conclude
<1>18. CASE SchemaFails(r) BY <1>18 DEF SchemaFails, Conclude
<1>19. CASE RoutingRaises(r) BY <1>19 DEF RoutingRaises
<1>20. CASE ModelTimesOut(r) BY <1>20 DEF ModelTimesOut
<1>21. CASE ModelBreaks(r) BY <1>21 DEF ModelBreaks
<1>22. CASE CountFailure(r) BY <1>22 DEF CountFailure, Conclude
<1>23. CASE ToolsRead(r) BY <1>23 DEF ToolsRead, RecordsRead
<1>24. CASE ToolBreaks(r) BY <1>24 DEF ToolBreaks, RecordsRead
<1>25. CASE ToolsRefused(r) BY <1>25 DEF ToolsRefused, RecordsRead
<1>26. CASE Assess(r) BY <1>26 DEF Assess
<1>27. CASE CountRequest(r) BY <1>27 DEF CountRequest
<1>28. CASE Reply(r) BY <1>28 DEF Reply
<1> QED
  BY <1>1, <1>2, <1>3, <1>4, <1>5, <1>6, <1>7, <1>8, <1>9, <1>10,
     <1>11, <1>12, <1>13, <1>14, <1>15, <1>16, <1>17, <1>18, <1>19, <1>20,
     <1>21, <1>22, <1>23, <1>24, <1>25, <1>26, <1>27, <1>28
  DEF Handle, Serve, Outside

LEMMA HandleBounds ==
  ASSUME TypeOK, PoolKept, NEW r \in Request, Handle(r)
  PROVE  Cardinality(pool') <= PoolSize
<1>1. CASE Acquire(r) BY <1>1, AcquireBounds
<1>2. CASE ~Acquire(r)
  <2>1. pool' = pool \/ pool' = pool \ {r}
    BY <1>2
    DEF Handle, Serve, Outside, Release, Disconnected, Conclude, Retrieved, RecordsRead,
        Read, Audit, SqlFails, ReadRaises, ProbeDatabase, ProbeServices, Snapshot,
        StartRetrieval, RetrievalImpossible, RetrievalFinds, RetrievalInsufficient,
        RetrievalFails, AskModel, PromptRefused, ModelPlans, ModelAnswers, SchemaFails,
        RoutingRaises, ModelTimesOut, ModelBreaks, CountFailure, ToolsRead, ToolBreaks,
        ToolsRefused, Assess, CountRequest, Reply
  <2> QED BY <2>1, ReleaseBounds
<1> QED BY <1>1, <1>2

-----------------------------------------------------------------------------
(* The counters of the requests. *)

Replied == {"reply", "answered"}

ServedBalance ==
  /\ count["api_requests_total"] = Cardinality(At(Replied))
  /\ count["api_errors_total"] = Cardinality(Errors)

\* What all but the middleware leave alone.
ServedSame ==
  /\ At(Replied)' = At(Replied) /\ Errors' = Errors
  /\ count'["api_requests_total"] = count["api_requests_total"]
  /\ count'["api_errors_total"] = count["api_errors_total"]

LEMMA ArriveServed ==
  ASSUME TypeOK, NEW r \in Request, NEW e \in Endpoint, NEW role \in Roles,
         NEW form \in Forms, Arrive(r, e, role, form)
  PROVE  ServedSame
BY DEF TypeOK, ServedSame, At, Errors, Replied, Arrive, FirstStage, Go, Answer

LEMMA HandleServed ==
  ASSUME TypeOK, Located, NEW r \in Request, Handle(r),
         ~CountRequest(r), ~Reply(r)
  PROVE  ServedSame
<1> USE Counting
    DEF TypeOK, Located, At, Errors, Replied, Go, Answer, Called,
            Disconnected, Counter, Uncounted, ServedSame
<1>1. CASE Acquire(r) BY <1>1 DEF Acquire
<1>2. CASE Read(r) BY <1>2 DEF Read
<1>3. CASE Audit(r) BY <1>3 DEF Audit
<1>4. CASE SqlFails(r) BY <1>4 DEF SqlFails
<1>5. CASE ReadRaises(r) BY <1>5 DEF ReadRaises
<1>6. CASE ProbeDatabase(r) BY <1>6 DEF ProbeDatabase
<1>7. CASE ProbeServices(r) BY <1>7 DEF ProbeServices
<1>8. CASE Snapshot(r) BY <1>8 DEF Snapshot
<1>9. CASE StartRetrieval(r) BY <1>9 DEF StartRetrieval, MayRetrieve
<1>10. CASE RetrievalImpossible(r) BY <1>10 DEF RetrievalImpossible, Retrieved, MayRetrieve
<1>11. CASE RetrievalFinds(r) BY <1>11 DEF RetrievalFinds, Retrieved, MayRetrieve
<1>12. CASE RetrievalInsufficient(r) BY <1>12 DEF RetrievalInsufficient, Retrieved, MayRetrieve
<1>13. CASE RetrievalFails(r) BY <1>13 DEF RetrievalFails, Retrieved, MayRetrieve
<1>14. CASE AskModel(r) BY <1>14 DEF AskModel, MayAskModel
<1>15. CASE PromptRefused(r) BY <1>15 DEF PromptRefused, Conclude, MayAskModel
<1>16. CASE ModelPlans(r) BY <1>16 DEF ModelPlans
<1>17. CASE ModelAnswers(r) BY <1>17 DEF ModelAnswers, Conclude
<1>18. CASE SchemaFails(r) BY <1>18 DEF SchemaFails, Conclude
<1>19. CASE RoutingRaises(r) BY <1>19 DEF RoutingRaises
<1>20. CASE ModelTimesOut(r) BY <1>20 DEF ModelTimesOut
<1>21. CASE ModelBreaks(r) BY <1>21 DEF ModelBreaks
<1>22. CASE CountFailure(r) BY <1>22 DEF CountFailure, Conclude
<1>23. CASE ToolsRead(r) BY <1>23 DEF ToolsRead, RecordsRead
<1>24. CASE ToolBreaks(r) BY <1>24 DEF ToolBreaks, RecordsRead
<1>25. CASE ToolsRefused(r) BY <1>25 DEF ToolsRefused, RecordsRead
<1>26. CASE Assess(r) BY <1>26 DEF Assess
<1> QED
  BY <1>1, <1>2, <1>3, <1>4, <1>5, <1>6, <1>7, <1>8, <1>9, <1>10,
     <1>11, <1>12, <1>13, <1>14, <1>15, <1>16, <1>17, <1>18, <1>19, <1>20,
     <1>21, <1>22, <1>23, <1>24, <1>25, <1>26
  DEF Handle, Serve, Outside

LEMMA CountsRequests ==
  ASSUME TypeOK, ServedBalance, NEW r \in Request, CountRequest(r)
  PROVE  ServedBalance'
<1> USE DEF TypeOK, Go, Disconnected, Uninvolved, Counter
<1>1. At(Replied)' = At(Replied) \cup {r} /\ r \notin At(Replied)
  BY DEF CountRequest, At, Replied
<1>2. Errors' = Errors BY DEF CountRequest, Errors, At
<1>3. At(Replied) \in SUBSET Request BY DEF At
<1>4. Cardinality(At(Replied)') = Cardinality(At(Replied)) + 1
  BY <1>1, <1>3, RequestsFinite, FS_AddElement
<1>5. /\ count'["api_requests_total"] = count["api_requests_total"] + 1
      /\ count'["api_errors_total"] = count["api_errors_total"]
  BY Counting DEF CountRequest
<1> QED BY <1>2, <1>4, <1>5 DEF ServedBalance

LEMMA CountsErrors ==
  ASSUME TypeOK, ServedBalance, NEW r \in Request, Reply(r)
  PROVE  ServedBalance'
<1> USE DEF TypeOK, Go, Disconnected, Uninvolved, Uncounted, Counter
<1>1. At(Replied)' = At(Replied) BY DEF Reply, At, Replied
<1>2. Errors \in SUBSET Request BY DEF Errors, At
<1>3. r \notin Errors BY DEF Reply, Errors, At
<1>4. count'["api_requests_total"] = count["api_requests_total"] BY Counting DEF Reply
<1>5. CASE status[r] >= 400
  <2>1. Errors' = Errors \cup {r} BY <1>5 DEF Reply, Errors, At
  <2>2. Cardinality(Errors') = Cardinality(Errors) + 1
    BY <1>2, <1>3, <2>1, RequestsFinite, FS_AddElement
  <2>3. count'["api_errors_total"] = count["api_errors_total"] + 1 BY <1>5, Counting DEF Reply
  <2> QED BY <1>1, <1>4, <2>2, <2>3 DEF ServedBalance
<1>6. CASE ~(status[r] >= 400)
  <2>1. Errors' = Errors BY <1>6 DEF Reply, Errors, At
  <2>2. count' = count BY <1>6 DEF Reply
  <2> QED BY <1>1, <2>1, <2>2 DEF ServedBalance
<1> QED BY <1>5, <1>6

-----------------------------------------------------------------------------
(* The counters of the calls. *)

CallBalance ==
  /\ count["llm_failures_total"] + Cardinality(InCall({"waiting", "failing"}))
       <= count["llm_calls_total"]
  /\ count["llm_timeouts_total"]
       <= count["llm_failures_total"] + Cardinality(InCall({"failing"}))
  /\ count["retrieval_insufficient_total"] + Cardinality(InCall({"searching"}))
       <= count["retrieval_calls_total"]

CallCounter == Counter \ {"api_requests_total", "api_errors_total"}

\* The number of calls of some kinds, and what r's part of it is.
Number(kinds) == Cardinality(InCall(kinds))
Part(c, kinds) == IF c \in kinds THEN 1 ELSE 0

LEMMA CallShift ==
  ASSUME TypeOK, NEW r \in Request, NEW c \in Calls, Called(r, c), NEW kinds \in SUBSET Calls
  PROVE  /\ Number(kinds) \in Nat /\ Cardinality(InCall(kinds)') \in Nat
         /\ Cardinality(InCall(kinds)') = Number(kinds) + Part(c, kinds) - Part(call[r], kinds)
<1> USE DEF TypeOK, InCall, Called
<1>1. InCall(kinds) \in SUBSET Request /\ InCall(kinds)' \in SUBSET Request OBVIOUS
<1>2. r \in InCall(kinds) <=> call[r] \in kinds OBVIOUS
<1>3. c \in kinds => InCall(kinds)' = InCall(kinds) \cup {r} OBVIOUS
<1>4. c \notin kinds => InCall(kinds)' = InCall(kinds) \ {r} OBVIOUS
<1> DEFINE I == InCall(kinds)
           J == InCall(kinds)'
<1> HIDE DEF I, J, TypeOK, InCall, Called
<1>5. IsFiniteSet(I) /\ Cardinality(I) \in Nat /\ Cardinality(J) \in Nat
  BY <1>1, RequestsFinite, Zenon DEF I, J
<1>6. /\ Cardinality(I \cup {r}) = IF r \in I THEN Cardinality(I) ELSE Cardinality(I) + 1
      /\ Cardinality(I \ {r}) = IF r \in I THEN Cardinality(I) - 1 ELSE Cardinality(I)
  BY <1>5, FS_AddElement, FS_RemoveElement
<1>7. Cardinality(J) = Cardinality(I) + Part(c, kinds) - Part(call[r], kinds)
  <2>1. c \in kinds => J = I \cup {r} BY <1>3 DEF I, J
  <2>2. c \notin kinds => J = I \ {r} BY <1>4 DEF I, J
  <2>3. r \in I <=> call[r] \in kinds BY <1>2 DEF I
  <2>4. /\ Part(c, kinds) = IF c \in kinds THEN 1 ELSE 0
        /\ Part(call[r], kinds) = IF r \in I THEN 1 ELSE 0
    BY <2>3 DEF Part
  <2>5. CASE c \in kinds
    <3>1. Cardinality(J) = IF r \in I THEN Cardinality(I) ELSE Cardinality(I) + 1
      BY <1>6, <2>1, <2>5
    <3> QED BY <1>5, <2>4, <2>5, <3>1
  <2>6. CASE c \notin kinds
    <3>1. Cardinality(J) = IF r \in I THEN Cardinality(I) - 1 ELSE Cardinality(I)
      BY <1>6, <2>2, <2>6
    <3> QED BY <1>5, <2>4, <2>6, <3>1
  <2> QED BY <2>5, <2>6
<1> QED BY <1>5, <1>7 DEF I, J, Number

\* What a step of a call must count, by where it was and where it goes.
Counts(from, to, bump) ==
  /\ \A d \in CallCounter \ bump : count'[d] = count[d]
  /\ \A d \in bump : count'[d] = count[d] + 1
  /\ from = "idle" /\ to = "searching" => bump = {"retrieval_calls_total"}
  /\ from = "idle" /\ to = "waiting" => bump = {"llm_calls_total"}
  /\ from = "idle" /\ to = "idle" => bump = {}
  /\ from = "searching" => to = "idle" /\ bump \in {{}, {"retrieval_insufficient_total"}}
  /\ from = "waiting" =>
       \/ to = "idle" /\ bump \in {{}, {"llm_failures_total"}}
       \/ to = "failing" /\ bump \in {{}, {"llm_timeouts_total"}}
  /\ from = "failing" => to = "idle" /\ bump = {"llm_failures_total"}
  /\ from = "idle" => to # "failing"

LEMMA CallsBalance ==
  ASSUME TypeOK, CallBalance, NEW r \in Request, NEW c \in Calls, Called(r, c),
         NEW bump \in SUBSET CallCounter, Counts(call[r], c, bump)
  PROVE  CallBalance'
<1> DEFINE A == {"waiting", "failing"}
           F == {"failing"}
           S == {"searching"}
<1>1. A \in SUBSET Calls /\ F \in SUBSET Calls /\ S \in SUBSET Calls BY DEF Calls
<1>2. /\ Number(A) \in Nat
      /\ Cardinality(InCall(A)') = Number(A) + Part(c, A) - Part(call[r], A)
  BY <1>1, CallShift
<1>3. /\ Number(F) \in Nat
      /\ Cardinality(InCall(F)') = Number(F) + Part(c, F) - Part(call[r], F)
  BY <1>1, CallShift
<1>4. /\ Number(S) \in Nat
      /\ Cardinality(InCall(S)') = Number(S) + Part(c, S) - Part(call[r], S)
  BY <1>1, CallShift
<1>5. call[r] \in Calls /\ \A d \in CallCounter : count[d] \in Nat
  BY DEF TypeOK, CallCounter
<1>6. CASE call[r] = "idle"
  BY <1>2, <1>3, <1>4, <1>5, <1>6 DEF CallBalance, Counts, Number, Part, Calls, CallCounter, Counter
<1>7. CASE call[r] = "searching"
  BY <1>2, <1>3, <1>4, <1>5, <1>7 DEF CallBalance, Counts, Number, Part, Calls, CallCounter, Counter
<1>8. CASE call[r] = "waiting"
  BY <1>2, <1>3, <1>4, <1>5, <1>8 DEF CallBalance, Counts, Number, Part, Calls, CallCounter, Counter
<1>9. CASE call[r] = "failing"
  BY <1>2, <1>3, <1>4, <1>5, <1>9 DEF CallBalance, Counts, Number, Part, Calls, CallCounter, Counter
<1> QED BY <1>5, <1>6, <1>7, <1>8, <1>9 DEF Calls

LEMMA CallsAside ==
  ASSUME TypeOK, CallBalance, UNCHANGED call,
         \A d \in CallCounter : count'[d] = count[d]
  PROVE  CallBalance'
BY DEF CallBalance, InCall, CallCounter, Counter

LEMMA HandleCalls ==
  ASSUME TypeOK, CallBalance, NEW r \in Request, Handle(r)
  PROVE  CallBalance'
<1> USE Counting DEF CallCounter, Counter, Calls, Uncounted
<1>1. CASE Acquire(r) BY <1>1, CallsAside DEF Acquire
<1>2. CASE Read(r) BY <1>2, CallsAside DEF Read
<1>3. CASE Audit(r) BY <1>3, CallsAside DEF Audit
<1>4. CASE SqlFails(r) BY <1>4, CallsAside DEF SqlFails
<1>5. CASE ReadRaises(r) BY <1>5, CallsAside DEF ReadRaises
<1>6. CASE ProbeDatabase(r) BY <1>6, CallsAside DEF ProbeDatabase
<1>7. CASE ProbeServices(r) BY <1>7, CallsAside DEF ProbeServices
<1>8. CASE Snapshot(r) BY <1>8, CallsAside DEF Snapshot
<1>9. CASE StartRetrieval(r)
  <2>1. Called(r, "searching") BY <1>9 DEF StartRetrieval
  <2>2. Counts(call[r], "searching", {"retrieval_calls_total"}) BY <1>9 DEF StartRetrieval, Counts
  <2> QED BY <2>1, <2>2, CallsBalance
<1>10. CASE RetrievalImpossible(r)
  <2>1. Called(r, "idle") BY <1>10 DEF RetrievalImpossible, Retrieved
  <2>2. Counts(call[r], "idle", {}) BY <1>10 DEF RetrievalImpossible, Retrieved, Counts
  <2> QED BY <2>1, <2>2, CallsBalance
<1>11. CASE RetrievalFinds(r)
  <2>1. Called(r, "idle") BY <1>11 DEF RetrievalFinds, Retrieved
  <2>2. Counts(call[r], "idle", {}) BY <1>11 DEF RetrievalFinds, Retrieved, Counts
  <2> QED BY <2>1, <2>2, CallsBalance
<1>12. CASE RetrievalInsufficient(r)
  <2>1. Called(r, "idle") BY <1>12 DEF RetrievalInsufficient, Retrieved
  <2>2. Counts(call[r], "idle", {"retrieval_insufficient_total"})
    BY <1>12 DEF RetrievalInsufficient, Retrieved, Counts
  <2> QED BY <2>1, <2>2, CallsBalance
<1>13. CASE RetrievalFails(r)
  <2>1. Called(r, "idle") BY <1>13 DEF RetrievalFails, Retrieved
  <2>2. Counts(call[r], "idle", {}) BY <1>13 DEF RetrievalFails, Retrieved, Counts
  <2> QED BY <2>1, <2>2, CallsBalance
<1>14. CASE AskModel(r)
  <2>1. Called(r, "waiting") BY <1>14 DEF AskModel, MayAskModel
  <2>2. Counts(call[r], "waiting", {"llm_calls_total"}) BY <1>14 DEF AskModel, MayAskModel, Counts
  <2> QED BY <2>1, <2>2, CallsBalance
<1>15. CASE PromptRefused(r)
  <2>1. Called(r, "idle") BY <1>15 DEF PromptRefused, Conclude, MayAskModel
  <2>2. Counts(call[r], "idle", {}) BY <1>15 DEF PromptRefused, Conclude, MayAskModel, Counts
  <2> QED BY <2>1, <2>2, CallsBalance
<1>16. CASE ModelPlans(r)
  <2>1. Called(r, "idle") BY <1>16 DEF ModelPlans
  <2>2. Counts(call[r], "idle", {}) BY <1>16 DEF ModelPlans, Counts
  <2> QED BY <2>1, <2>2, CallsBalance
<1>17. CASE ModelAnswers(r)
  <2>1. Called(r, "idle") BY <1>17 DEF ModelAnswers, Conclude
  <2>2. Counts(call[r], "idle", {}) BY <1>17 DEF ModelAnswers, Conclude, Counts
  <2> QED BY <2>1, <2>2, CallsBalance
<1>18. CASE SchemaFails(r)
  <2>1. Called(r, "idle") BY <1>18 DEF SchemaFails, Conclude
  <2>2. Counts(call[r], "idle", {"llm_failures_total"}) BY <1>18 DEF SchemaFails, Conclude, Counts
  <2> QED BY <2>1, <2>2, CallsBalance
<1>19. CASE RoutingRaises(r)
  <2>1. Called(r, "idle") BY <1>19 DEF RoutingRaises
  <2>2. Counts(call[r], "idle", {}) BY <1>19 DEF RoutingRaises, Counts
  <2> QED BY <2>1, <2>2, CallsBalance
<1>20. CASE ModelTimesOut(r)
  <2>1. Called(r, "failing") BY <1>20 DEF ModelTimesOut
  <2>2. Counts(call[r], "failing", {"llm_timeouts_total"}) BY <1>20 DEF ModelTimesOut, Counts
  <2> QED BY <2>1, <2>2, CallsBalance
<1>21. CASE ModelBreaks(r)
  <2>1. Called(r, "failing") BY <1>21 DEF ModelBreaks
  <2>2. Counts(call[r], "failing", {}) BY <1>21 DEF ModelBreaks, Counts
  <2> QED BY <2>1, <2>2, CallsBalance
<1>22. CASE CountFailure(r)
  <2>1. Called(r, "idle") BY <1>22 DEF CountFailure, Conclude
  <2>2. Counts(call[r], "idle", {"llm_failures_total"}) BY <1>22 DEF CountFailure, Conclude, Counts
  <2> QED BY <2>1, <2>2, CallsBalance
<1>23. CASE ToolsRead(r) BY <1>23, CallsAside DEF ToolsRead, RecordsRead
<1>24. CASE ToolBreaks(r) BY <1>24, CallsAside DEF ToolBreaks, RecordsRead
<1>25. CASE ToolsRefused(r) BY <1>25, CallsAside DEF ToolsRefused, RecordsRead
<1>26. CASE Assess(r) BY <1>26, CallsAside DEF Assess
<1>27. CASE CountRequest(r) BY <1>27, CallsAside DEF CountRequest
<1>28. CASE Reply(r) BY <1>28, CallsAside DEF Reply
<1> QED
  BY <1>1, <1>2, <1>3, <1>4, <1>5, <1>6, <1>7, <1>8, <1>9, <1>10,
     <1>11, <1>12, <1>13, <1>14, <1>15, <1>16, <1>17, <1>18, <1>19, <1>20,
     <1>21, <1>22, <1>23, <1>24, <1>25, <1>26, <1>27, <1>28
  DEF Handle, Serve, Outside

-----------------------------------------------------------------------------
(* The invariant of the server, and what follows of its steps: those of    *)
(* the consoles in front of it are among them.                             *)

ServerInv == TypeOK /\ Located /\ PoolKept /\ AuditMatchesAnswer /\ CountersBalanced

LEMMA ServerInitInv == Init => ServerInv
<1> SUFFICES ASSUME Init PROVE ServerInv OBVIOUS
<1>1. TypeOK BY TypeInit
<1>2. Located /\ AuditMatchesAnswer BY DEF Init, Located, AuditMatchesAnswer, Finished
<1>3. /\ At(Replied) = {} /\ Errors = {} /\ InCall({"waiting", "failing"}) = {}
      /\ InCall({"failing"}) = {} /\ InCall({"searching"}) = {}
  BY DEF Init, At, Replied, Errors, InCall
<1>4. PoolKept BY FS_EmptySet, PoolAssumption DEF Init, PoolKept
<1>5. \A c \in Counter : count[c] = 0 BY DEF Init
<1>6. ServedBalance BY <1>3, <1>5, FS_EmptySet DEF ServedBalance, Counter
<1>7. CallBalance BY <1>3, <1>5, FS_EmptySet DEF CallBalance, Counter
<1>8. CountersBalanced BY <1>6, <1>7 DEF CountersBalanced, ServedBalance, CallBalance, Replied
<1> QED BY <1>1, <1>2, <1>4, <1>8 DEF ServerInv

LEMMA ArriveKeepsServer ==
  ASSUME ServerInv, NEW r \in Request, NEW e \in Endpoint, NEW role \in Roles,
         NEW form \in Forms, Arrive(r, e, role, form)
  PROVE  ServerInv'
<1> USE DEF ServerInv
<1>1. TypeOK' BY ArriveType
<1>2. Located' BY ArriveLocated
<1>3. AuditMatchesAnswer' BY ArriveAudited
<1>4. PoolKept'
  <2>1. HoldersWait' BY ArriveHolds DEF PoolKept, HoldersWait
  <2>2. Cardinality(pool') <= PoolSize BY ReleaseBounds DEF Arrive
  <2> QED BY <2>1, <2>2 DEF PoolKept, HoldersWait
<1>5. ServedBalance'
  BY ArriveServed DEF CountersBalanced, ServedBalance, ServedSame, Replied
<1>6. CallBalance' BY CallsAside DEF CountersBalanced, CallBalance, Arrive
<1>7. CountersBalanced' BY <1>5, <1>6 DEF CountersBalanced, ServedBalance, CallBalance, Replied
<1> QED BY <1>1, <1>2, <1>3, <1>4, <1>7

LEMMA HandleKeepsServer ==
  ASSUME ServerInv, NEW r \in Request, Handle(r)
  PROVE  ServerInv'
<1> USE DEF ServerInv
<1>1. TypeOK' BY HandleType
<1>2. Located' BY HandleLocated
<1>3. AuditMatchesAnswer' BY HandleAudited
<1>4. PoolKept'
  <2>1. HoldersWait' BY HandleHolds DEF PoolKept, HoldersWait
  <2>2. Cardinality(pool') <= PoolSize BY HandleBounds
  <2> QED BY <2>1, <2>2 DEF PoolKept, HoldersWait
<1>5. ServedBalance'
  <2>1. ServedBalance BY DEF CountersBalanced, ServedBalance, Replied
  <2>2. CASE CountRequest(r) BY <2>1, <2>2, CountsRequests
  <2>3. CASE Reply(r) BY <2>1, <2>3, CountsErrors
  <2>4. CASE ~CountRequest(r) /\ ~Reply(r)
    BY <2>1, <2>4, HandleServed DEF ServedBalance, ServedSame
  <2> QED BY <2>2, <2>3, <2>4
<1>6. CallBalance' BY HandleCalls DEF CountersBalanced, CallBalance
<1>7. CountersBalanced' BY <1>5, <1>6 DEF CountersBalanced, ServedBalance, CallBalance, Replied
<1> QED BY <1>1, <1>2, <1>3, <1>4, <1>7

LEMMA IdleKeepsServer ==
  ASSUME ServerInv, UNCHANGED vars
  PROVE  ServerInv'
<1> USE DEF vars, ServerInv
<1>1. TypeOK' BY DEF TypeOK
<1>2. Located' BY DEF Located
<1>3. AuditMatchesAnswer' BY DEF AuditMatchesAnswer
<1>4. PoolKept' BY DEF PoolKept, At
<1>5. CountersBalanced' BY DEF CountersBalanced, At, InCall, Errors
<1> QED BY <1>1, <1>2, <1>3, <1>4, <1>5

LEMMA ServerStep ==
  ASSUME ServerInv, [Next]_vars
  PROVE  ServerInv'
BY ArriveKeepsServer, HandleKeepsServer, IdleKeepsServer DEF Next

-----------------------------------------------------------------------------
(* The inductive invariant the results about the server follow from.      *)
THEOREM ServerInvariance == Spec => []ServerInv
<1>1. ServerInv /\ [Next]_vars => ServerInv' BY ServerStep
<1> QED BY ServerInitInv, <1>1, PTL DEF Spec

(* However many requests share it, the pool is never overdrawn and nobody  *)
(* keeps a connection it is not going to use.                              *)
THEOREM PoolIsKept == Spec => []PoolKept
<1>1. ServerInv => PoolKept BY DEF ServerInv
<1> QED BY ServerInvariance, <1>1, PTL

(* Successful answers and audit records go together.                       *)
THEOREM AuditsMatchAnswers == Spec => []AuditMatchesAnswer
<1>1. ServerInv => AuditMatchesAnswer BY DEF ServerInv
<1> QED BY ServerInvariance, <1>1, PTL

(* The counters agree at every moment.                                     *)
THEOREM CountersAreBalanced == Spec => []CountersBalanced
<1>1. ServerInv => CountersBalanced BY DEF ServerInv
<1> QED BY ServerInvariance, <1>1, PTL

-----------------------------------------------------------------------------
(* A request is served in a bounded number of steps. *)

\* The steps a thread has still to take, at most: for the stages to come, the
\* call it may make, the sources it has to ask and the connection it may get.
StagesLeft(s) ==
  CASE s = "new" -> 15 [] s = "route" -> 14 [] s = "tools" -> 8 [] s = "synthesis" -> 7
    [] s = "retrieve" -> 6 [] s \in {"read", "probe", "snapshot"} -> 5 [] s = "audit" -> 4
    [] s = "services" -> 3 [] s = "count" -> 2 [] s = "reply" -> 1 [] s = "answered" -> 0
CallLeft(c) ==
  CASE c = "idle" -> 2 [] c \in {"searching", "waiting"} -> 1 [] c = "failing" -> 0
SourcesLeft(sources) ==
  (IF "policy" \in sources THEN 2 ELSE 0) + (IF "records" \in sources THEN 2 ELSE 0)
ConnectionLeft(r) == IF r \in pool THEN 0 ELSE 1

Remaining(r) ==
  StagesLeft(stage[r]) + CallLeft(call[r]) + SourcesLeft(todo[r]) + ConnectionLeft(r)

LEMMA RemainingTyped ==
  ASSUME TypeOK, NEW r \in Request
  PROVE  Remaining(r) \in 0..22
<1>1. stage[r] \in Stages /\ call[r] \in Calls BY DEF TypeOK
<1>2. StagesLeft(stage[r]) \in 0..15 BY <1>1 DEF StagesLeft, Stages
<1>3. CallLeft(call[r]) \in 0..2 BY <1>1 DEF CallLeft, Calls
<1>4. SourcesLeft(todo[r]) \in 0..4 BY DEF SourcesLeft
<1>5. ConnectionLeft(r) \in 0..1 BY DEF ConnectionLeft
<1> QED BY <1>2, <1>3, <1>4, <1>5 DEF Remaining

\* What is another's stays as it is.
LEMMA OthersWait ==
  ASSUME TypeOK, NEW r \in Request, Handle(r), NEW q \in Request \ {r}
  PROVE  Remaining(q)' = Remaining(q)
<1> USE DEF TypeOK, Go, Called, Disconnected, Uninvolved, Release
<1> DEFINE Untouched == /\ stage'[q] = stage[q] /\ call'[q] = call[q] /\ todo'[q] = todo[q]
                        /\ q \in pool' <=> q \in pool
<1> SUFFICES Untouched BY DEF Remaining, ConnectionLeft
<1>1. CASE Acquire(r) BY <1>1 DEF Acquire
<1>2. CASE Read(r) BY <1>2 DEF Read
<1>3. CASE Audit(r) BY <1>3 DEF Audit
<1>4. CASE SqlFails(r) BY <1>4 DEF SqlFails
<1>5. CASE ReadRaises(r) BY <1>5 DEF ReadRaises
<1>6. CASE ProbeDatabase(r) BY <1>6 DEF ProbeDatabase
<1>7. CASE ProbeServices(r) BY <1>7 DEF ProbeServices
<1>8. CASE Snapshot(r) BY <1>8 DEF Snapshot
<1>9. CASE StartRetrieval(r) BY <1>9 DEF StartRetrieval, MayRetrieve
<1>10. CASE RetrievalImpossible(r) BY <1>10 DEF RetrievalImpossible, Retrieved, MayRetrieve
<1>11. CASE RetrievalFinds(r) BY <1>11 DEF RetrievalFinds, Retrieved, MayRetrieve
<1>12. CASE RetrievalInsufficient(r) BY <1>12 DEF RetrievalInsufficient, Retrieved, MayRetrieve
<1>13. CASE RetrievalFails(r) BY <1>13 DEF RetrievalFails, Retrieved, MayRetrieve
<1>14. CASE AskModel(r) BY <1>14 DEF AskModel, MayAskModel
<1>15. CASE PromptRefused(r) BY <1>15 DEF PromptRefused, Conclude, MayAskModel
<1>16. CASE ModelPlans(r) BY <1>16 DEF ModelPlans
<1>17. CASE ModelAnswers(r) BY <1>17 DEF ModelAnswers, Conclude
<1>18. CASE SchemaFails(r) BY <1>18 DEF SchemaFails, Conclude
<1>19. CASE RoutingRaises(r) BY <1>19 DEF RoutingRaises
<1>20. CASE ModelTimesOut(r) BY <1>20 DEF ModelTimesOut
<1>21. CASE ModelBreaks(r) BY <1>21 DEF ModelBreaks
<1>22. CASE CountFailure(r) BY <1>22 DEF CountFailure, Conclude
<1>23. CASE ToolsRead(r) BY <1>23 DEF ToolsRead, RecordsRead
<1>24. CASE ToolBreaks(r) BY <1>24 DEF ToolBreaks, RecordsRead
<1>25. CASE ToolsRefused(r) BY <1>25 DEF ToolsRefused, RecordsRead
<1>26. CASE Assess(r) BY <1>26 DEF Assess
<1>27. CASE CountRequest(r) BY <1>27 DEF CountRequest
<1>28. CASE Reply(r) BY <1>28 DEF Reply
<1> QED
  BY <1>1, <1>2, <1>3, <1>4, <1>5, <1>6, <1>7, <1>8, <1>9, <1>10,
     <1>11, <1>12, <1>13, <1>14, <1>15, <1>16, <1>17, <1>18, <1>19, <1>20,
     <1>21, <1>22, <1>23, <1>24, <1>25, <1>26, <1>27, <1>28
  DEF Handle, Serve, Outside

\* A thread that does something has less to do.
LEMMA HandleIsNearer ==
  ASSUME TypeOK, Located, NEW r \in Request, Handle(r)
  PROVE  Remaining(r)' < Remaining(r)
<1> USE DEF TypeOK, Located, Go, Called, Disconnected, Uninvolved, Release, Finished, Codes,
            Remaining, StagesLeft, ConnectionLeft
<1>0. CallLeft(call[r]) \in Int /\ SourcesLeft(todo[r]) \in Int
  BY DEF CallLeft, Calls, SourcesLeft
<1>1. CASE Acquire(r)
  <2>1. StagesLeft(stage[r]) \in Int BY DEF Stages
  <2> HIDE DEF StagesLeft
  <2> QED BY <1>0, <1>1, <2>1 DEF Acquire
<1>2. CASE Read(r) BY <1>0, <1>2 DEF Read
<1>3. CASE Audit(r) BY <1>0, <1>3 DEF Audit
<1>4. CASE SqlFails(r) BY <1>0, <1>4 DEF SqlFails
<1>5. CASE ReadRaises(r) BY <1>0, <1>5 DEF ReadRaises
<1>6. CASE ProbeDatabase(r) BY <1>0, <1>6 DEF ProbeDatabase
<1>7. CASE ProbeServices(r) BY <1>0, <1>7 DEF ProbeServices
<1>8. CASE Snapshot(r) BY <1>0, <1>8 DEF Snapshot
<1>9. CASE StartRetrieval(r) BY <1>9 DEF StartRetrieval, MayRetrieve, CallLeft, SourcesLeft
<1>10. CASE RetrievalImpossible(r) BY <1>10
      DEF RetrievalImpossible, Retrieved, MayRetrieve, CallLeft, SourcesLeft
<1>11. CASE RetrievalFinds(r) BY <1>11
      DEF RetrievalFinds, Retrieved, MayRetrieve, CallLeft, SourcesLeft
<1>12. CASE RetrievalInsufficient(r) BY <1>12
      DEF RetrievalInsufficient, Retrieved, MayRetrieve, CallLeft, SourcesLeft
<1>13. CASE RetrievalFails(r) BY <1>13
      DEF RetrievalFails, Retrieved, MayRetrieve, CallLeft, SourcesLeft
<1>14. CASE AskModel(r) BY <1>14 DEF AskModel, MayAskModel, CallLeft, SourcesLeft
<1>15. CASE PromptRefused(r) BY <1>15
      DEF PromptRefused, Conclude, MayAskModel, CallLeft, SourcesLeft
<1>16. CASE ModelPlans(r) BY <1>16 DEF ModelPlans, CallLeft, SourcesLeft
<1>17. CASE ModelAnswers(r) BY <1>17 DEF ModelAnswers, Conclude, CallLeft, SourcesLeft
<1>18. CASE SchemaFails(r) BY <1>18 DEF SchemaFails, Conclude, CallLeft, SourcesLeft
<1>19. CASE RoutingRaises(r) BY <1>19 DEF RoutingRaises, CallLeft, SourcesLeft
<1>20. CASE ModelTimesOut(r) BY <1>20 DEF ModelTimesOut, CallLeft, SourcesLeft
<1>21. CASE ModelBreaks(r) BY <1>21 DEF ModelBreaks, CallLeft, SourcesLeft
<1>22. CASE CountFailure(r) BY <1>22 DEF CountFailure, Conclude, CallLeft, SourcesLeft
<1>23. CASE ToolsRead(r) BY <1>23 DEF ToolsRead, RecordsRead, CallLeft, SourcesLeft
<1>24. CASE ToolBreaks(r) BY <1>24 DEF ToolBreaks, RecordsRead, CallLeft, SourcesLeft
<1>25. CASE ToolsRefused(r) BY <1>25 DEF ToolsRefused, RecordsRead, CallLeft, SourcesLeft
<1>26. CASE Assess(r) BY <1>0, <1>26 DEF Assess
<1>27. CASE CountRequest(r) BY <1>0, <1>27 DEF CountRequest
<1>28. CASE Reply(r) BY <1>0, <1>28 DEF Reply
<1> QED
  BY <1>1, <1>2, <1>3, <1>4, <1>5, <1>6, <1>7, <1>8, <1>9, <1>10,
     <1>11, <1>12, <1>13, <1>14, <1>15, <1>16, <1>17, <1>18, <1>19, <1>20,
     <1>21, <1>22, <1>23, <1>24, <1>25, <1>26, <1>27, <1>28
  DEF Handle, Serve, Outside

LEMMA ArriveIsNearer ==
  ASSUME TypeOK, NEW r \in Request, NEW e \in Endpoint, NEW role \in Roles,
         NEW form \in Forms, Arrive(r, e, role, form)
  PROVE  /\ Remaining(r)' < Remaining(r)
         /\ \A q \in Request \ {r} : Remaining(q)' = Remaining(q)
<1>1. \A q \in Request : /\ CallLeft(call[q]) \in Int /\ SourcesLeft(todo[q]) \in Int
                         /\ ConnectionLeft(q) \in Int
  BY DEF TypeOK, CallLeft, Calls, SourcesLeft, ConnectionLeft
<1>2. /\ UNCHANGED <<call, todo, pool>>
      /\ stage[r] = "new" /\ stage' = [stage EXCEPT ![r] = stage'[r]]
      /\ stage'[r] \in {"probe", "snapshot", "retrieve", "route", "read", "count"}
  BY DEF TypeOK, Arrive, FirstStage, Go
<1>3. \A q \in Request : ConnectionLeft(q)' = ConnectionLeft(q) BY <1>2 DEF ConnectionLeft
<1>4. StagesLeft(stage'[r]) < StagesLeft(stage[r]) /\ StagesLeft(stage'[r]) \in Int
      /\ StagesLeft(stage[r]) \in Int
  <2>1. StagesLeft(stage[r]) = 15 BY <1>2 DEF StagesLeft
  <2>2. \A s \in {"probe", "snapshot", "retrieve", "route", "read", "count"} :
          StagesLeft(s) \in 2..14
    BY DEF StagesLeft
  <2> QED BY <1>2, <2>1, <2>2
<1>5. \A q \in Request \ {r} : stage'[q] = stage[q] BY <1>2 DEF TypeOK
<1> QED BY <1>1, <1>2, <1>3, <1>4, <1>5 DEF Remaining

(* Every step brings one request nearer to its answer and leaves the       *)
(* others as far from theirs as they were: a request takes at most 22      *)
(* steps, whatever the model, Qdrant, PostgreSQL and the other requests do *)
(* and however long it waits between two of them (main.py, data.py,        *)
(* knowledge.py, ollama.py).                                               *)
OneIsNearer ==
  \E r \in Request :
    /\ Remaining(r)' < Remaining(r)
    /\ \A q \in Request \ {r} : Remaining(q)' = Remaining(q)

THEOREM RequestsAreShort ==
  Spec => /\ [](\A r \in Request : Remaining(r) \in 0..22)
          /\ [][OneIsNearer]_vars
<1>1. ServerInv => \A r \in Request : Remaining(r) \in 0..22
  BY RemainingTyped DEF ServerInv
<1>2. ServerInv /\ [Next]_vars => [OneIsNearer]_vars
  BY ArriveIsNearer, HandleIsNearer, OthersWait DEF ServerInv, Next, OneIsNearer
<1> QED BY <1>1, <1>2, ServerInvariance, PTL DEF Spec

-----------------------------------------------------------------------------
(* The consoles. *)

\* Nothing happens to a request any more, except that others go on.
Final(q) ==
  /\ stage'[q] = "answered" /\ status'[q] = status[q] /\ endpoint'[q] = endpoint[q]
  /\ q \in audited => q \in audited'

LEMMA HandleSpares ==
  ASSUME TypeOK, Located, NEW r \in Request, Handle(r),
         NEW q \in Request, stage[q] = "answered"
  PROVE  Final(q)
<1> USE DEF TypeOK, Located, Final, Go, Answer, Called, Disconnected, Uninvolved, Finished
<1>1. CASE Acquire(r) BY <1>1 DEF Acquire
<1>2. CASE Read(r) BY <1>2 DEF Read
<1>3. CASE Audit(r) BY <1>3 DEF Audit
<1>4. CASE SqlFails(r) BY <1>4 DEF SqlFails
<1>5. CASE ReadRaises(r) BY <1>5 DEF ReadRaises
<1>6. CASE ProbeDatabase(r) BY <1>6 DEF ProbeDatabase
<1>7. CASE ProbeServices(r) BY <1>7 DEF ProbeServices
<1>8. CASE Snapshot(r) BY <1>8 DEF Snapshot
<1>9. CASE StartRetrieval(r) BY <1>9 DEF StartRetrieval, MayRetrieve
<1>10. CASE RetrievalImpossible(r) BY <1>10 DEF RetrievalImpossible, Retrieved, MayRetrieve
<1>11. CASE RetrievalFinds(r) BY <1>11 DEF RetrievalFinds, Retrieved, MayRetrieve
<1>12. CASE RetrievalInsufficient(r) BY <1>12 DEF RetrievalInsufficient, Retrieved, MayRetrieve
<1>13. CASE RetrievalFails(r) BY <1>13 DEF RetrievalFails, Retrieved, MayRetrieve
<1>14. CASE AskModel(r) BY <1>14 DEF AskModel, MayAskModel
<1>15. CASE PromptRefused(r) BY <1>15 DEF PromptRefused, Conclude, MayAskModel
<1>16. CASE ModelPlans(r) BY <1>16 DEF ModelPlans
<1>17. CASE ModelAnswers(r) BY <1>17 DEF ModelAnswers, Conclude
<1>18. CASE SchemaFails(r) BY <1>18 DEF SchemaFails, Conclude
<1>19. CASE RoutingRaises(r) BY <1>19 DEF RoutingRaises
<1>20. CASE ModelTimesOut(r) BY <1>20 DEF ModelTimesOut
<1>21. CASE ModelBreaks(r) BY <1>21 DEF ModelBreaks
<1>22. CASE CountFailure(r) BY <1>22 DEF CountFailure, Conclude
<1>23. CASE ToolsRead(r) BY <1>23 DEF ToolsRead, RecordsRead
<1>24. CASE ToolBreaks(r) BY <1>24 DEF ToolBreaks, RecordsRead
<1>25. CASE ToolsRefused(r) BY <1>25 DEF ToolsRefused, RecordsRead
<1>26. CASE Assess(r) BY <1>26 DEF Assess
<1>27. CASE CountRequest(r) BY <1>27 DEF CountRequest
<1>28. CASE Reply(r) BY <1>28 DEF Reply
<1> QED
  BY <1>1, <1>2, <1>3, <1>4, <1>5, <1>6, <1>7, <1>8, <1>9, <1>10,
     <1>11, <1>12, <1>13, <1>14, <1>15, <1>16, <1>17, <1>18, <1>19, <1>20,
     <1>21, <1>22, <1>23, <1>24, <1>25, <1>26, <1>27, <1>28
  DEF Handle, Serve, Outside

LEMMA ArriveSpares ==
  ASSUME TypeOK, NEW r \in Request, NEW e \in Endpoint, NEW role \in Roles,
         NEW form \in Forms, Arrive(r, e, role, form),
         NEW q \in Request, stage[q] = "answered"
  PROVE  Final(q)
BY DEF TypeOK, Final, Arrive, Go, Answer

LEMMA HandleArrived ==
  ASSUME TypeOK, NEW r \in Request, Handle(r)
  PROVE  /\ endpoint' = endpoint
         /\ \A q \in Request : stage[q] # "new" => stage'[q] # "new"
<1> USE DEF TypeOK, Go, Answer, Called, Disconnected, Uninvolved
<1>1. CASE Acquire(r) BY <1>1 DEF Acquire
<1>2. CASE Read(r) BY <1>2 DEF Read
<1>3. CASE Audit(r) BY <1>3 DEF Audit
<1>4. CASE SqlFails(r) BY <1>4 DEF SqlFails
<1>5. CASE ReadRaises(r) BY <1>5 DEF ReadRaises
<1>6. CASE ProbeDatabase(r) BY <1>6 DEF ProbeDatabase
<1>7. CASE ProbeServices(r) BY <1>7 DEF ProbeServices
<1>8. CASE Snapshot(r) BY <1>8 DEF Snapshot
<1>9. CASE StartRetrieval(r) BY <1>9 DEF StartRetrieval, MayRetrieve
<1>10. CASE RetrievalImpossible(r) BY <1>10 DEF RetrievalImpossible, Retrieved, MayRetrieve
<1>11. CASE RetrievalFinds(r) BY <1>11 DEF RetrievalFinds, Retrieved, MayRetrieve
<1>12. CASE RetrievalInsufficient(r) BY <1>12 DEF RetrievalInsufficient, Retrieved, MayRetrieve
<1>13. CASE RetrievalFails(r) BY <1>13 DEF RetrievalFails, Retrieved, MayRetrieve
<1>14. CASE AskModel(r) BY <1>14 DEF AskModel, MayAskModel
<1>15. CASE PromptRefused(r) BY <1>15 DEF PromptRefused, Conclude, MayAskModel
<1>16. CASE ModelPlans(r) BY <1>16 DEF ModelPlans
<1>17. CASE ModelAnswers(r) BY <1>17 DEF ModelAnswers, Conclude
<1>18. CASE SchemaFails(r) BY <1>18 DEF SchemaFails, Conclude
<1>19. CASE RoutingRaises(r) BY <1>19 DEF RoutingRaises
<1>20. CASE ModelTimesOut(r) BY <1>20 DEF ModelTimesOut
<1>21. CASE ModelBreaks(r) BY <1>21 DEF ModelBreaks
<1>22. CASE CountFailure(r) BY <1>22 DEF CountFailure, Conclude
<1>23. CASE ToolsRead(r) BY <1>23 DEF ToolsRead, RecordsRead
<1>24. CASE ToolBreaks(r) BY <1>24 DEF ToolBreaks, RecordsRead
<1>25. CASE ToolsRefused(r) BY <1>25 DEF ToolsRefused, RecordsRead
<1>26. CASE Assess(r) BY <1>26 DEF Assess
<1>27. CASE CountRequest(r) BY <1>27 DEF CountRequest
<1>28. CASE Reply(r) BY <1>28 DEF Reply
<1> QED
  BY <1>1, <1>2, <1>3, <1>4, <1>5, <1>6, <1>7, <1>8, <1>9, <1>10,
     <1>11, <1>12, <1>13, <1>14, <1>15, <1>16, <1>17, <1>18, <1>19, <1>20,
     <1>21, <1>22, <1>23, <1>24, <1>25, <1>26, <1>27, <1>28
  DEF Handle, Serve, Outside

-----------------------------------------------------------------------------
\* A session waits for a request that has arrived; the copilot for one of its route.
WaitsForIts ==
  \A s \in Session : waiting[s] # None =>
    /\ stage[waiting[s]] # "new"
    /\ copilot[s] => endpoint[waiting[s]] = "investigation"

ShowsAnswered == \A s \in Session : shown[s] # None => stage[shown[s]] = "answered"

ConsoleInv == ServerInv /\ ConsoleTypeOK /\ WaitsForIts /\ ShowsAnswered /\ ShownIsLastAnswer

LEMMA NoneIsNoRequest == None \notin Request
BY EndpointAssumption, RequestsAssumption DEF Request

LEMMA ConsoleInitInv == ConsoleInit => ConsoleInv
BY ServerInitInv, NoneIsNoRequest
DEF ConsoleInit, ConsoleInv, ServerInv, ConsoleTypeOK, WaitsForIts, ShowsAnswered,
    ShownIsLastAnswer

LEMMA ServingKeeps ==
  ASSUME ConsoleInv, Serving
  PROVE  ConsoleInv'
<1> USE NoneIsNoRequest DEF Serving, sessionVars
<1>1. PICK r \in Request : Handle(r) OBVIOUS
<1>2. ServerInv' BY <1>1, HandleKeepsServer DEF ConsoleInv
<1>3. ConsoleTypeOK' BY <1>2 DEF ConsoleInv, ServerInv, ConsoleTypeOK
<1>4. WaitsForIts'
  BY <1>1, HandleArrived DEF ConsoleInv, ServerInv, ConsoleTypeOK, WaitsForIts
<1>5. \A q \in Request : stage[q] = "answered" => Final(q)
  BY <1>1, HandleSpares DEF ConsoleInv, ServerInv
<1>6. ShowsAnswered' /\ ShownIsLastAnswer'
  BY <1>5 DEF ConsoleInv, ConsoleTypeOK, ShowsAnswered, ShownIsLastAnswer, Final
<1> QED BY <1>2, <1>3, <1>4, <1>6 DEF ConsoleInv

LEMMA AskKeeps ==
  ASSUME ConsoleInv, NEW s \in Session, NEW r \in Request, NEW e \in Endpoint,
         NEW role \in Roles, NEW form \in Forms, Ask(s, r, e, role, form)
  PROVE  ConsoleInv'
<1> USE NoneIsNoRequest
<1>1. Arrive(r, e, role, form) /\ UNCHANGED <<shown, learnt>> BY DEF Ask
<1>2. ServerInv' BY <1>1, ArriveKeepsServer DEF ConsoleInv
<1>3. PICK page \in IF e = "investigation" THEN BOOLEAN ELSE {FALSE} : Wait(s, r, page)
  BY DEF Ask
<1>4. ConsoleTypeOK'
  BY <1>1, <1>2, <1>3 DEF ConsoleInv, ServerInv, ConsoleTypeOK, Wait
<1>5. endpoint' = [endpoint EXCEPT ![r] = e] /\ stage'[r] # "new"
  BY <1>1 DEF Arrive, Go, FirstStage, ConsoleInv, ServerInv, TypeOK
<1>6. \A q \in Request : stage[q] # "new" =>
        q # r /\ stage'[q] = stage[q] /\ endpoint'[q] = endpoint[q]
  BY <1>1 DEF Arrive, Go, ConsoleInv, ServerInv, TypeOK
<1>7. WaitsForIts'
  <2> SUFFICES ASSUME NEW v \in Session, waiting'[v] # None
               PROVE  /\ stage'[waiting'[v]] # "new"
                      /\ copilot'[v] => endpoint'[waiting'[v]] = "investigation"
    BY DEF WaitsForIts
  <2>1. CASE v = s
    <3>1. waiting'[s] = r /\ copilot'[s] = page
      BY <1>3 DEF Wait, ConsoleInv, ConsoleTypeOK
    <3>2. endpoint'[r] = e BY <1>5 DEF ConsoleInv, ServerInv, TypeOK
    <3>3. page => e = "investigation" BY <1>3
    <3> QED BY <1>5, <2>1, <3>1, <3>2, <3>3
  <2>2. CASE v # s
    BY <1>3, <1>6, <2>2 DEF Wait, ConsoleInv, ConsoleTypeOK, WaitsForIts
  <2> QED BY <2>1, <2>2
<1>8. \A q \in Request : stage[q] = "answered" => Final(q)
  BY <1>1, ArriveSpares DEF ConsoleInv, ServerInv
<1>9. ShowsAnswered' /\ ShownIsLastAnswer'
  BY <1>1, <1>8 DEF ConsoleInv, ConsoleTypeOK, ShowsAnswered, ShownIsLastAnswer, Final
<1> QED BY <1>2, <1>4, <1>7, <1>9 DEF ConsoleInv

LEMMA ReceiveKeeps ==
  ASSUME ConsoleInv, NEW s \in Session, Receive(s)
  PROVE  ConsoleInv'
<1> USE NoneIsNoRequest
<1>1. ServerInv' BY IdleKeepsServer DEF ConsoleInv, Receive
<1>2. waiting[s] \in Request /\ stage[waiting[s]] = "answered"
  BY DEF ConsoleInv, ConsoleTypeOK, Receive
<1>3. ConsoleTypeOK'
  BY <1>1, <1>2 DEF ConsoleInv, ServerInv, ConsoleTypeOK, Receive, Wait, Learn, Show
<1>4. WaitsForIts'
  BY DEF ConsoleInv, ConsoleTypeOK, WaitsForIts, Receive, Wait, vars
<1>5. copilot[s] /\ status[waiting[s]] = 200
      => endpoint[waiting[s]] = "investigation" /\ waiting[s] \in audited
  BY <1>2 DEF ConsoleInv, ServerInv, WaitsForIts, AuditMatchesAnswer
<1>6. ShowsAnswered' /\ ShownIsLastAnswer'
  BY <1>2, <1>5
  DEF ConsoleInv, ConsoleTypeOK, ShowsAnswered, ShownIsLastAnswer, Receive, Learn, Show, vars
<1> QED BY <1>1, <1>3, <1>4, <1>6 DEF ConsoleInv

LEMMA UserKeeps ==
  ASSUME ConsoleInv, NEW s \in Session, Unsent(s) \/ GiveUp(s) \/ Interrupt(s)
  PROVE  ConsoleInv'
<1> USE NoneIsNoRequest DEF Unsent, GiveUp, Interrupt, Wait, Learn, Show
<1>1. ServerInv' BY IdleKeepsServer DEF ConsoleInv
<1>2. ConsoleTypeOK' BY <1>1 DEF ConsoleInv, ServerInv, ConsoleTypeOK
<1>3. WaitsForIts' BY DEF ConsoleInv, ConsoleTypeOK, WaitsForIts, vars
<1>4. ShowsAnswered' /\ ShownIsLastAnswer'
  BY DEF ConsoleInv, ConsoleTypeOK, ShowsAnswered, ShownIsLastAnswer, vars
<1> QED BY <1>1, <1>2, <1>3, <1>4 DEF ConsoleInv

LEMMA ConsoleIdle ==
  ASSUME ConsoleInv, UNCHANGED allVars
  PROVE  ConsoleInv'
<1>1. ServerInv' BY IdleKeepsServer DEF ConsoleInv, allVars
<1>2. ConsoleTypeOK' BY <1>1 DEF ConsoleInv, ServerInv, ConsoleTypeOK, allVars, sessionVars
<1>3. WaitsForIts' /\ ShowsAnswered' /\ ShownIsLastAnswer'
  BY DEF ConsoleInv, WaitsForIts, ShowsAnswered, ShownIsLastAnswer, allVars, sessionVars, vars
<1> QED BY <1>1, <1>2, <1>3 DEF ConsoleInv

LEMMA ConsoleStep ==
  ASSUME ConsoleInv, [ConsoleNext]_allVars
  PROVE  ConsoleInv'
BY ServingKeeps, AskKeeps, ReceiveKeeps, UserKeeps, ConsoleIdle DEF ConsoleNext

-----------------------------------------------------------------------------
(* What a page waits for and shows, beside the invariant of the server.    *)
THEOREM ConsoleInvariance == ConsoleSpec => []ConsoleInv
<1>1. ConsoleInv /\ [ConsoleNext]_allVars => ConsoleInv' BY ConsoleStep
<1> QED BY ConsoleInitInv, <1>1, PTL DEF ConsoleSpec

(* The copilot displays nothing but the audited answer to its last request, *)
(* with any number of sessions.                                             *)
THEOREM ShownAreAnswers == ConsoleSpec => []ShownIsLastAnswer
<1>1. ConsoleInv => ShownIsLastAnswer BY DEF ConsoleInv
<1> QED BY ConsoleInvariance, <1>1, PTL

(* The guarantees of the server, with the consoles in front of it.          *)
THEOREM ServerBehindConsoles ==
  ConsoleSpec => [](PoolKept /\ AuditMatchesAnswer /\ CountersBalanced)
<1>1. ConsoleInv => PoolKept /\ AuditMatchesAnswer /\ CountersBalanced
  BY DEF ConsoleInv, ServerInv
<1> QED BY ConsoleInvariance, <1>1, PTL

(* Whatever the users do, interrupt or give up on, the server works as its *)
(* own specification says: a page is never more to it than a request that  *)
(* arrives, and each is answered as shortly (client.py, main.py).          *)
THEOREM ConsolesOnlyAsk ==
  ConsoleSpec => Init /\ [][Next]_vars /\ [][OneIsNearer]_vars
<1>1. ConsoleInit => Init BY DEF ConsoleInit
<1>2. [ConsoleNext]_allVars => [Next]_vars
  BY DEF ConsoleNext, Serving, Ask, Unsent, Receive, GiveUp, Interrupt, Next, allVars
<1>3. ServerInv /\ [Next]_vars => [OneIsNearer]_vars
  BY ArriveIsNearer, HandleIsNearer, OthersWait DEF ServerInv, Next, OneIsNearer
<1>4. ConsoleInv => ServerInv BY DEF ConsoleInv
<1> QED BY <1>1, <1>2, <1>3, <1>4, ConsoleInvariance, PTL DEF ConsoleSpec

=============================================================================
