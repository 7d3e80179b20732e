---------------------------- MODULE RouteDecision ----------------------------
(***************************************************************************)
(* validated_decisions of app/agent/routing.py as one step from a request  *)
(* and a proposed plan to the decisions the tools are run with.            *)
(***************************************************************************)
EXTENDS Routing

CONSTANTS
  Requests,  \* the requests routed
  Plans      \* the plans the model may propose for them

ASSUME RoutedAssumption == Requests \subseteq Cues /\ Plans \subseteq RoutePlan

VARIABLES request, plan, verdict, decisions
vars == <<request, plan, verdict, decisions>>

Init ==
  /\ request \in Requests /\ plan \in Plans
  /\ verdict = "pending" /\ decisions = {}

Decide ==
  /\ verdict = "pending"
  /\ verdict' = Verdict(request)
  /\ decisions' = {Decision(t, request) : t \in SelectedTools(plan, request)}
  /\ UNCHANGED <<request, plan>>

Spec == Init /\ [][Decide]_vars

-----------------------------------------------------------------------------
(***************************************************************************)
(* Every decision the router returns passes the validator of ToolDecision  *)
(* and the identifier checks of AgentTools._run: a selected tool is never  *)
(* rejected, whatever the model proposed (validated_decisions).            *)
(***************************************************************************)
DecisionsRunnable ==
  \A d \in decisions : Consistent(d) /\ InputAccepted(d, request)

(***************************************************************************)
(* The interval a tool is given is the one the request names, the same for *)
(* the event search and the analysis, never empty, and too long for the    *)
(* analysis only if the request wrote both ends (requested_window).        *)
(***************************************************************************)
IntervalAsked ==
  \A d \in decisions : d.name \in TakesWindow =>
    \/ request.times = <<>> /\ request.dates = <<>>
         /\ d.start_time = NoTime /\ d.end_time = NoTime
    \/ /\ d.start_time < d.end_time
       /\ request.times # <<>> =>
            d.end_time = request.times[Len(request.times)]
       /\ Len(request.times) = 2 => d.start_time = request.times[1]
       /\ Len(request.times) # 2 =>
            WindowAccepted(d) /\ d.end_time - d.start_time = Day
       /\ request.dates # <<>> => d.start_time = request.dates[1]

(***************************************************************************)
(* Sources are never mixed up: an event number is looked up, not searched  *)
(* for, unless an analysis asks for the user's events, and an event search *)
(* and a list of a user's events are never both run (required_tools).      *)
(***************************************************************************)
Names == {d.name : d \in decisions}

SourcesApart ==
  /\ {"get_event", "search_security_events"} \subseteq Names =>
       "analyze_user_anomaly" \in Names /\ ~request.ml_only
  /\ "get_user_events" \in Names =>
       Names \cap {"search_security_events", "analyze_user_anomaly"} = {}
  /\ ~MoreThanThree(Names)
=============================================================================
