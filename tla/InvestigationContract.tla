----------------------- MODULE InvestigationContract -----------------------
(***************************************************************************)
(* What an investigation promises its requester, whatever the model and    *)
(* the stores do: sources are consulted at most once and only if required, *)
(* what they give is kept, and the answer is no stronger than they were.   *)
(***************************************************************************)
CONSTANTS
  Source,  \* the sources an investigation may consult
  Item,    \* what they may return
  None     \* no answer yet

VARIABLES
  phase,      \* "open", then "answered" or "raised"
  required,   \* the sources the request requires
  consulted,  \* what became of each source
  items,      \* everything they returned
  answer      \* the answer, when there is one

cvars == <<phase, required, consulted, items, answer>>

Result == {"none", "success", "failed"}

Init ==
  /\ phase = "open"
  /\ required \subseteq Source
  /\ consulted = [s \in Source |-> "none"]
  /\ items = {}
  /\ answer = None

Consult(s) ==
  /\ phase = "open"
  /\ s \in required /\ consulted[s] = "none"
  /\ \E result \in {"success", "failed"} :
       /\ consulted' = [consulted EXCEPT ![s] = result]
       /\ IF result = "failed" THEN items' = items
          ELSE /\ items \subseteq items' /\ items' # {}
               /\ items' \subseteq Item
  /\ UNCHANGED <<phase, required, answer>>

\* Sufficient: every required source was consulted and succeeded.
Sufficient ==
  items # {} /\ required # {} /\ \A s \in required : consulted[s] = "success"

Honest(a) ==
  /\ a.items = items
  /\ a.sufficient => Sufficient
  /\ a.verdict = "complete" => a.sufficient
  /\ a.verdict = "partial_evidence" => ~a.sufficient /\ items # {}

Answer ==
  /\ phase = "open"
  /\ phase' = "answered"
  /\ answer' # None /\ Honest(answer')
  /\ UNCHANGED <<required, consulted, items>>

Raise ==
  /\ phase = "open" /\ items = {}
  /\ phase' = "raised"
  /\ UNCHANGED <<required, consulted, items, answer>>

Next == (\E s \in Source : Consult(s)) \/ Answer \/ Raise

Spec == Init /\ [][Next]_cvars
=============================================================================
