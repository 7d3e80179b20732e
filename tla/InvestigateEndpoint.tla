------------------------- MODULE InvestigateEndpoint -------------------------
(***************************************************************************)
(* POST /investigate (app/api/routes/investigate.py): one investigation    *)
(* whose tools share the database session of the request, the audit record *)
(* written on that session when it is over, and the status returned.       *)
(*                                                                         *)
(* The session is SQLAlchemy's, modelled as the code uses it: idle, open   *)
(* (a transaction holds a connection), or broken (a statement of the       *)
(* transaction failed or its connection was lost).  A broken session fails *)
(* every statement until it is rolled back, and only the handler of a      *)
(* failed audit rolls back.                                                *)
(***************************************************************************)
EXTENDS InvestigationGraph

VARIABLES
  postgres,   \* whether PostgreSQL can be reached
  session,    \* service.session
  audit_log,  \* the rows of audit_logs this request has written
  status      \* the HTTP status, 0 before there is one

evars == <<vars, postgres, session, audit_log, status>>

\* Only search_policy reads another store than PostgreSQL.
DatabaseTools == ToolName \ {"search_policy"}

EInit ==
  /\ Init
  /\ postgres \in BOOLEAN
  /\ session = "idle" /\ audit_log = {} /\ status = 0

-----------------------------------------------------------------------------
(***************************************************************************)
(* What a tool call does to the session, by what became of the call.       *)
(***************************************************************************)
ReadsSucceed ==
  /\ postgres /\ session # "broken"
  /\ session' = "open"

\* No connection, a failing statement, or the transaction broken before.
ReadsFail ==
  \/ session = "broken" /\ UNCHANGED session
  \/ session = "idle" /\ ~postgres /\ UNCHANGED session
  \/ session # "broken" /\ postgres /\ session' = "broken"

\* The decision is refused, or an explicit window is, before any statement.
BeforeReading(t, result) ==
  \/ result \in {"rejected", "forbidden"}
  \/ result = "invalid_window" /\ ~WindowAccepted(Decision(t, request))

SessionEffect(t, result) ==
  \/ BeforeReading(t, result) /\ UNCHANGED session
  \/ ~BeforeReading(t, result) /\ ReadsSucceed
  \/ result \in {"failure", "inference_failure"} /\ ReadsFail

\* One step of the agent; the tool it calls, if any, has a new result.
AgentStep ==
  /\ status = 0 /\ pc \notin {"done", "raised"}
  /\ Next
  /\ IF \E t \in DatabaseTools : results'[t] # results[t]
     THEN \E t \in DatabaseTools :
            results'[t] # results[t] /\ SessionEffect(t, results'[t])
     ELSE UNCHANGED session
  /\ UNCHANGED <<postgres, audit_log, status>>

-----------------------------------------------------------------------------
(***************************************************************************)
(* The end of the request.                                                 *)
(***************************************************************************)

\* Mutant: the audit is taken to be written whatever the session is.
AuditCommits_AnySession ==
  /\ status = 0 /\ pc = "done"
  /\ postgres
  /\ audit_log' = audit_log \cup {response.outcome}
  /\ session' = "idle" /\ status' = 200
  /\ UNCHANGED <<vars, postgres>>

\* Mutant: the audit records what became of a tool, not of the investigation.
AuditCommits_ToolResult ==
  /\ status = 0 /\ pc = "done"
  /\ postgres /\ session # "broken"
  /\ audit_log' = audit_log \cup {response.results["search_policy"]}
  /\ session' = "idle" /\ status' = 200
  /\ UNCHANGED <<vars, postgres>>

\* service.audit: the row is inserted and the transaction committed.
AuditCommits ==
  /\ status = 0 /\ pc = "done"
  /\ postgres /\ session # "broken"
  /\ audit_log' = audit_log \cup {response.outcome}
  /\ session' = "idle" /\ status' = 200
  /\ UNCHANGED <<vars, postgres>>

\* Mutant: a failed audit does not stop the answer.
AuditFails_Swallowed ==
  /\ status = 0 /\ pc = "done"
  /\ session = "broken" \/ ~postgres
  /\ session' = "idle" /\ status' = 200
  /\ UNCHANGED <<vars, postgres, audit_log>>

\* Mutant: a broken session is not an error of the audit.
AuditFails_Unreachable ==
  /\ status = 0 /\ pc = "done"
  /\ session # "broken" /\ ~postgres
  /\ session' = "idle" /\ status' = 503
  /\ UNCHANGED <<vars, postgres, audit_log>>

\* The insert cannot be flushed: rollback, and the result is not returned.
AuditFails ==
  /\ status = 0 /\ pc = "done"
  /\ session = "broken" \/ ~postgres
  /\ session' = "idle" /\ status' = 503
  /\ UNCHANGED <<vars, postgres, audit_log>>

\* PostgreSQL goes away during the commit, which may have been recorded.
CommitLost ==
  /\ status = 0 /\ pc = "done"
  /\ postgres /\ session # "broken"
  /\ postgres' = FALSE
  /\ audit_log' \in {audit_log, audit_log \cup {response.outcome}}
  /\ session' = "idle" /\ status' = 503
  /\ UNCHANGED vars

\* Mutant: the connection of a request that raised is not given back.
AgentRaises_Leaks ==
  /\ status = 0 /\ pc = "raised"
  /\ status' = 500
  /\ UNCHANGED <<vars, postgres, session, audit_log>>

\* The exception run re-raises passes get_session, which closes the session.
AgentRaises ==
  /\ status = 0 /\ pc = "raised"
  /\ session' = "idle" /\ status' = 500
  /\ UNCHANGED <<vars, postgres, audit_log>>

Sent == status # 0 /\ UNCHANGED evars

\* The database comes and goes; the connection of an open transaction is lost.
PostgresStops ==
  /\ status = 0 /\ postgres
  /\ postgres' = FALSE
  /\ session' = IF session = "open" THEN "broken" ELSE session
  /\ UNCHANGED <<vars, audit_log, status>>

PostgresStarts ==
  /\ status = 0 /\ ~postgres
  /\ postgres' = TRUE
  /\ UNCHANGED <<vars, session, audit_log, status>>

Progress == AgentStep \/ AuditCommits \/ AuditFails \/ CommitLost \/ AgentRaises
ENext == Progress \/ PostgresStops \/ PostgresStarts \/ Sent

ESpec == EInit /\ [][ENext]_evars

\* The worker thread runs the request to its end; PostgreSQL owes nothing.
EFairSpec == ESpec /\ WF_evars(Progress)

-----------------------------------------------------------------------------
ETypeOK ==
  /\ TypeOK
  /\ postgres \in BOOLEAN
  /\ session \in {"idle", "open", "broken"}
  /\ audit_log \subseteq Outcomes
  /\ status \in {0, 200, 500, 503}

(***************************************************************************)
(* No investigation is delivered unaudited, under another outcome than the *)
(* caller sees, or with its connection kept; a row without a delivery is   *)
(* possible only for a finished investigation (investigate, audit).        *)
(***************************************************************************)
DeliveredIsAudited ==
  /\ status = 200 => audit_log = {response.outcome}
  /\ audit_log # {} => pc = "done" /\ status \in {200, 503}
  /\ status # 0 => session = "idle"

(***************************************************************************)
(* A transaction broken by one tool poisons the rest of the request: no    *)
(* source in PostgreSQL adds anything after it, and what the others found  *)
(* is not delivered (AgentTools._run, investigate).                        *)
(***************************************************************************)
BrokenIsFinal ==
  [][session = "broken" =>
       /\ \A r \in evidence' \ evidence : r.kind = "policy"
       /\ ml_evidence' = ml_evidence
       /\ session' = "broken" \/ status' \in {500, 503}]_evars

\* Every request is answered, whatever PostgreSQL does.
EveryRequestAnswered == <>(status # 0)

(***************************************************************************)
(* What docs/agent.md says of a failing tool next to one that succeeds:    *)
(* the valid evidence is retained.  A finished investigation with partial  *)
(* evidence would then be delivered whenever PostgreSQL can be reached at  *)
(* the end; it is not when a tool's failure broke the session the audit is *)
(* written on (investigate).                                               *)
(***************************************************************************)
PartialEvidenceDelivered ==
  [][/\ status = 0 /\ status' # 0
     /\ pc = "done" /\ response.outcome = "partial_evidence"
     /\ postgres /\ postgres'
     => status' = 200]_evars
=============================================================================
