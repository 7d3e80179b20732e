------------------------------ MODULE Routing ------------------------------
(***************************************************************************)
(* How a request becomes tool decisions: app/agent/routing.py, the         *)
(* ToolDecision and RoutePlan validators of app/agent/schemas.py and the   *)
(* identifier checks at the head of AgentTools._run (app/agent/tools.py).  *)
(*                                                                         *)
(* A request is abstracted to what the regular expressions of routing.py   *)
(* find in it.  Instants are integers; a regex-shaped instant that no      *)
(* calendar has (2026-13-40) is NotADate, and an interval that leaves      *)
(* 0..MaxInstant is one datetime arithmetic cannot represent (years        *)
(* outside 0001..9999).                                                    *)
(***************************************************************************)
EXTENDS Integers, Sequences

CONSTANTS
  UserIds,      \* the U### identifiers a request may name
  IncidentIds,  \* the INC### identifiers
  EventIds,     \* the EV###### identifiers
  NoId,         \* an identifier argument left None
  Day,          \* the length of 24 hours in instants
  MaxInstant    \* datetime.max; datetime.min is instant 0

ASSUME IdAssumption == NoId \notin UserIds \cup IncidentIds \cup EventIds
ASSUME DayAssumption == Day \in Nat \ {0}
ASSUME MaxInstantAssumption == MaxInstant \in Nat

ToolName == {"search_policy", "search_security_events", "get_user_events",
             "get_incident", "get_event", "analyze_user_anomaly"}

NotADate == -2
NoTime == -1
WrittenInstant == {NotADate} \cup 0..MaxInstant

(***************************************************************************)
(* The cues of a request.  Every ML_ONLY phrase also matches ML_RE.        *)
(***************************************************************************)
Cues == {c \in [policy : BOOLEAN, event_word : BOOLEAN, activity : BOOLEAN,
                ml : BOOLEAN, ml_only : BOOLEAN,
                users : SUBSET UserIds, incidents : SUBSET IncidentIds,
                events : SUBSET EventIds,
                times : Seq(WrittenInstant), dates : Seq(WrittenInstant)] :
           c.ml_only => c.ml}

\* RoutePlan: at most three names, none twice.
RoutePlan == {p \in Seq(ToolName) :
                /\ Len(p) <= 3
                /\ \A i, j \in DOMAIN p : p[i] = p[j] => i = j}

-----------------------------------------------------------------------------
WantsML(c) == c.ml /\ c.users # {}

\* Mutant: a request about an event number also starts an event search.
EventSearchWanted_Always(c) ==
  \/ c.event_word
  \/ c.users # {} /\ WantsML(c) /\ ~c.ml_only

EventSearchWanted(c) ==
  \/ c.event_word /\ c.events = {}
  \/ c.users # {} /\ WantsML(c) /\ ~c.ml_only

UserActivityWanted(c) ==
  /\ ~EventSearchWanted(c)
  /\ c.users # {} /\ c.activity /\ ~WantsML(c)

\* required_tools: the sources the request itself justifies.
RequiredTools(c) ==
  {t \in ToolName :
     \/ t = "search_policy" /\ c.policy
     \/ t = "get_incident" /\ c.incidents # {}
     \/ t = "get_event" /\ c.events # {}
     \/ t = "search_security_events" /\ EventSearchWanted(c)
     \/ t = "get_user_events" /\ UserActivityWanted(c)
     \/ t = "analyze_user_anomaly" /\ WantsML(c)}

\* More than three members, without a recursively defined cardinality.
MoreThanThree(S) ==
  \E a, b, d, e \in S : a # b /\ a # d /\ a # e /\ b # d /\ b # e /\ d # e

TooManySources(c) == MoreThanThree(RequiredTools(c))

AtMostOne(S) == \A x, y \in S : x = y

Ambiguous(c) ==
  ~(AtMostOne(c.users) /\ AtMostOne(c.incidents) /\ AtMostOne(c.events))

(***************************************************************************)
(* requested_window.  The outcomes are a window, no window, ValueError and *)
(* the OverflowError of datetime arithmetic.                               *)
(***************************************************************************)
AmbiguousTime(c) ==
  \/ Len(c.times) > 2
  \/ c.times # <<>> /\ c.dates # <<>>
  \/ Len(c.dates) > 1

Unparsable(c) ==
  \/ \E i \in DOMAIN c.times : c.times[i] = NotADate
  \/ \E i \in DOMAIN c.dates : c.dates[i] = NotADate

Window(start, end) == [start |-> start, end |-> end]
NoWindow == Window(NoTime, NoTime)

RawWindow(c) ==
  IF Len(c.times) = 2 THEN Window(c.times[1], c.times[2])
  ELSE IF Len(c.times) = 1 THEN Window(c.times[1] - Day, c.times[1])
  ELSE IF c.dates # <<>> THEN Window(c.dates[1], c.dates[1] + Day)
  ELSE NoWindow

Representable(w) == w = NoWindow \/ (w.start >= 0 /\ w.end <= MaxInstant)

\* Mutant: an interval of no length is let through.
Ordered_NonStrict(w) == w = NoWindow \/ w.start <= w.end

Ordered(w) == w = NoWindow \/ w.start < w.end

(***************************************************************************)
(* validated_decisions.  A request that requires no source is answered []  *)
(* before anything else is looked at; the verdict does not depend on the   *)
(* plan, which only orders the tools.                                      *)
(***************************************************************************)
Verdict(c) ==
  IF RequiredTools(c) = {} THEN "nothing_required"
  ELSE IF \/ TooManySources(c) \/ Ambiguous(c)
          \/ AmbiguousTime(c) \/ Unparsable(c) THEN "value_error"
  ELSE IF ~Representable(RawWindow(c)) THEN "overflow"
  ELSE IF ~Ordered(RawWindow(c)) THEN "value_error"
  ELSE "decided"

\* users[0] if users else None, for a list with at most one distinct member.
FirstOf(S) == IF S = {} THEN NoId ELSE CHOOSE x \in S : TRUE

\* The tools each kind of argument is bound to.
TakesUser == {"get_user_events", "search_security_events", "analyze_user_anomaly"}
TakesIncident == {"get_incident", "search_security_events"}
TakesWindow == {"search_security_events", "analyze_user_anomaly"}

WindowFor(t, c) == IF t \in TakesWindow THEN RawWindow(c) ELSE NoWindow

\* Mutant: every tool is handed the requester's user, whether it takes one.
Decision_UserForEveryTool(t, c) ==
  [name        |-> t,
   user_id     |-> FirstOf(c.users),
   incident_id |-> IF t \in TakesIncident THEN FirstOf(c.incidents) ELSE NoId,
   event_id    |-> IF t = "get_event" THEN FirstOf(c.events) ELSE NoId,
   start_time  |-> WindowFor(t, c).start,
   end_time    |-> WindowFor(t, c).end]

\* The arguments of one decision, all taken from the request.
Decision(t, c) ==
  [name        |-> t,
   user_id     |-> IF t \in TakesUser THEN FirstOf(c.users) ELSE NoId,
   incident_id |-> IF t \in TakesIncident THEN FirstOf(c.incidents) ELSE NoId,
   event_id    |-> IF t = "get_event" THEN FirstOf(c.events) ELSE NoId,
   start_time  |-> WindowFor(t, c).start,
   end_time    |-> WindowFor(t, c).end]

\* Mutant: the sources the proposal omits are not added.
SelectedTools_PlanOnly(plan, c) ==
  IF Verdict(c) = "decided"
  THEN RequiredTools(c) \cap {plan[i] : i \in DOMAIN plan} ELSE {}

\* The tools of the returned decisions: what the plan adds is dropped, what
\* it omits is added.
SelectedTools(plan, c) ==
  IF Verdict(c) = "decided" THEN RequiredTools(c) ELSE {}

(***************************************************************************)
(* The order of the decisions: the plan's, then that of required_tools.    *)
(***************************************************************************)
RequiredRank ==
  [t \in ToolName |->
     CASE t = "search_policy" -> 1
       [] t = "get_incident" -> 2
       [] t = "get_event" -> 3
       [] t = "search_security_events" -> 4
       [] t = "get_user_events" -> 5
       [] t = "analyze_user_anomaly" -> 6]

Rank(plan, t) ==
  IF \E i \in DOMAIN plan : plan[i] = t
  THEN CHOOSE i \in DOMAIN plan : plan[i] = t
  ELSE 3 + RequiredRank[t]

-----------------------------------------------------------------------------
(***************************************************************************)
(* ToolDecision.consistent, the validator every decision must pass.        *)
(***************************************************************************)
Consistent(d) ==
  /\ d.start_time # NoTime /\ d.end_time # NoTime => d.start_time <= d.end_time
  /\ d.name \in {"get_user_events", "analyze_user_anomaly"} => d.user_id # NoId
  /\ d.name = "get_incident" => d.incident_id # NoId
  /\ d.name = "get_event" => d.event_id # NoId
  /\ d.name \in {"search_policy", "get_incident", "get_user_events", "get_event"}
       => d.start_time = NoTime /\ d.end_time = NoTime
  /\ d.name \in {"search_policy", "get_incident", "get_event"} => d.user_id = NoId
  /\ d.name \in {"search_policy", "get_user_events", "analyze_user_anomaly",
                 "get_event"} => d.incident_id = NoId
  /\ d.name # "get_event" => d.event_id = NoId
  /\ d.name = "analyze_user_anomaly"
       => (d.start_time = NoTime <=> d.end_time = NoTime)

(***************************************************************************)
(* The identifier checks at the head of AgentTools._run; a decision that   *)
(* fails them is rejected with ToolInputError.                             *)
(***************************************************************************)
InputAccepted(d, c) ==
  /\ d.name = "search_security_events" =>
       /\ c.users # {} => d.user_id \in c.users
       /\ c.incidents # {} => d.incident_id \in c.incidents
  /\ d.user_id = NoId \/ d.user_id \in c.users
  /\ d.incident_id = NoId \/ d.incident_id \in c.incidents
  /\ d.event_id = NoId \/ d.event_id \in c.events
  /\ d.name \in ToolName

\* A window the anomaly service accepts: ordered and at most 24 hours.
\* No window means the service chooses the user's latest active day.
WindowAccepted(d) ==
  \/ d.start_time = NoTime
  \/ d.start_time < d.end_time /\ d.end_time - d.start_time <= Day
=============================================================================
