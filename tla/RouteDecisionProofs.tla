------------------------- MODULE RouteDecisionProofs -------------------------
(***************************************************************************)
(* Proofs about the router, for every set of identifiers, every length of  *)
(* a day and every request and plan.                                       *)
(***************************************************************************)
EXTENDS RouteDecision, TLAPS

LEMMA FirstOfMember ==
  ASSUME NEW S, S \subseteq UserIds \cup IncidentIds \cup EventIds
  PROVE  /\ FirstOf(S) = NoId <=> S = {}
         /\ FirstOf(S) = NoId \/ FirstOf(S) \in S
BY IdAssumption DEF FirstOf

\* The identifiers of a request are the ones its cues allow.
LEMMA CueIds ==
  ASSUME NEW c \in Cues
  PROVE  /\ c.users \subseteq UserIds /\ c.incidents \subseteq IncidentIds
         /\ c.events \subseteq EventIds
         /\ c.times \in Seq(WrittenInstant) /\ c.dates \in Seq(WrittenInstant)
BY DEF Cues

LEMMA WindowTyped ==
  ASSUME NEW c \in Cues, Verdict(c) = "decided"
  PROVE  \/ /\ c.times = <<>> /\ c.dates = <<>>
            /\ RawWindow(c) = NoWindow
         \/ /\ RawWindow(c).start \in 0..MaxInstant
            /\ RawWindow(c).end \in 0..MaxInstant
            /\ RawWindow(c).start < RawWindow(c).end
            /\ c.times # <<>> => /\ c.dates = <<>> /\ Len(c.times) \in {1, 2}
                                 /\ RawWindow(c).end = c.times[Len(c.times)]
            /\ Len(c.times) = 2 => RawWindow(c).start = c.times[1]
            /\ Len(c.times) # 2 => RawWindow(c).end - RawWindow(c).start = Day
            /\ c.dates # <<>> => RawWindow(c).start = c.dates[1]
<1>. DEFINE times == c.times
            dates == c.dates
            w == RawWindow(c)
<1>1. /\ ~AmbiguousTime(c) /\ ~Unparsable(c)
      /\ Representable(w) /\ Ordered(w)
  BY DEF Verdict
<1>2. /\ times \in Seq(WrittenInstant) /\ dates \in Seq(WrittenInstant)
      /\ MaxInstant \in Nat /\ Day \in Nat /\ Day > 0
  BY CueIds, MaxInstantAssumption, DayAssumption
<1>3. /\ \A i \in 1..Len(times) : times[i] \in 0..MaxInstant
      /\ \A i \in 1..Len(dates) : dates[i] \in 0..MaxInstant
  BY <1>1, <1>2 DEF Unparsable, WrittenInstant
<1>4. CASE Len(times) = 2
  <2>1. w = Window(times[1], times[2]) /\ dates = <<>> /\ times # <<>>
    BY <1>1, <1>2, <1>4 DEF RawWindow, AmbiguousTime
  <2>2. times[1] \in 0..MaxInstant /\ times[2] \in 0..MaxInstant
    BY <1>3, <1>4
  <2>3. w # NoWindow
    BY <2>1, <2>2, <1>2 DEF Window, NoWindow, NoTime
  <2>. QED  BY <1>1, <1>2, <1>4, <2>1, <2>2, <2>3 DEF Window, Ordered
<1>5. CASE Len(times) = 1
  <2>1. w = Window(times[1] - Day, times[1]) /\ dates = <<>> /\ times # <<>>
    BY <1>1, <1>2, <1>5 DEF RawWindow, AmbiguousTime
  <2>2. times[1] \in 0..MaxInstant
    BY <1>3, <1>5
  <2>3. w # NoWindow
    BY <2>1, <2>2, <1>2 DEF Window, NoWindow, NoTime
  <2>. QED
    BY <1>1, <1>2, <1>5, <2>1, <2>2, <2>3 DEF Window, Representable
<1>6. CASE Len(times) = 0 /\ dates # <<>>
  <2>1. w = Window(dates[1], dates[1] + Day) /\ times = <<>>
    BY <1>2, <1>6 DEF RawWindow
  <2>2. dates[1] \in 0..MaxInstant
    BY <1>2, <1>3, <1>6
  <2>3. w # NoWindow
    BY <2>1, <2>2, <1>2 DEF Window, NoWindow, NoTime
  <2>. QED
    BY <1>1, <1>2, <1>6, <2>1, <2>2, <2>3 DEF Window, Representable
<1>7. CASE Len(times) = 0 /\ dates = <<>>
  <2>1. times = <<>>
    BY <1>2, <1>7
  <2>2. w = NoWindow
    BY <1>7, <2>1 DEF RawWindow
  <2>. QED  BY <1>7, <2>1, <2>2
<1>8. Len(times) \in {0, 1, 2}
  <2>1. Len(times) \in Nat
    BY <1>2
  <2>2. ~(Len(times) > 2)
    BY <1>1 DEF AmbiguousTime
  <2>3. \A n \in Nat : ~(n > 2) => n \in {0, 1, 2}
    OBVIOUS
  <2>. QED  BY <2>1, <2>2, <2>3, Zenon
<1>. QED  BY <1>4, <1>5, <1>6, <1>7, <1>8

\* A required tool has the identifier it needs.
LEMMA DecisionRuns ==
  ASSUME NEW c \in Cues, Verdict(c) = "decided", NEW t \in RequiredTools(c)
  PROVE  Consistent(Decision(t, c)) /\ InputAccepted(Decision(t, c), c)
<1>. DEFINE d == Decision(t, c)
<1>1. /\ t \in ToolName
      /\ t \in {"get_user_events", "analyze_user_anomaly"} => c.users # {}
      /\ t = "get_incident" => c.incidents # {}
      /\ t = "get_event" => c.events # {}
  BY DEF RequiredTools, UserActivityWanted, WantsML
<1>2. /\ FirstOf(c.users) = NoId <=> c.users = {}
      /\ FirstOf(c.users) = NoId \/ FirstOf(c.users) \in c.users
      /\ FirstOf(c.incidents) = NoId <=> c.incidents = {}
      /\ FirstOf(c.incidents) = NoId \/ FirstOf(c.incidents) \in c.incidents
      /\ FirstOf(c.events) = NoId <=> c.events = {}
      /\ FirstOf(c.events) = NoId \/ FirstOf(c.events) \in c.events
  <2>1. /\ c.users \subseteq UserIds \cup IncidentIds \cup EventIds
        /\ c.incidents \subseteq UserIds \cup IncidentIds \cup EventIds
        /\ c.events \subseteq UserIds \cup IncidentIds \cup EventIds
    BY CueIds
  <2>. QED  BY <2>1, FirstOfMember
<1>3. /\ d.name = t
      /\ d.user_id = IF t \in TakesUser THEN FirstOf(c.users) ELSE NoId
      /\ d.incident_id = IF t \in TakesIncident THEN FirstOf(c.incidents) ELSE NoId
      /\ d.event_id = IF t = "get_event" THEN FirstOf(c.events) ELSE NoId
      /\ d.start_time = WindowFor(t, c).start /\ d.end_time = WindowFor(t, c).end
  BY DEF Decision
<1>4. \/ d.start_time = NoTime /\ d.end_time = NoTime
      \/ /\ t \in TakesWindow /\ d.start_time \in Nat /\ d.end_time \in Nat
         /\ d.start_time < d.end_time
  BY <1>3, WindowTyped, MaxInstantAssumption DEF WindowFor, NoWindow, Window
<1>5. Consistent(d)
  <2>1. /\ d.start_time # NoTime /\ d.end_time # NoTime => d.start_time <= d.end_time
        /\ d.name = "analyze_user_anomaly"
             => (d.start_time = NoTime <=> d.end_time = NoTime)
        /\ d.name \notin TakesWindow => d.start_time = NoTime /\ d.end_time = NoTime
    BY <1>3, <1>4 DEF NoTime
  <2>. QED
    BY <2>1, <1>1, <1>2, <1>3 DEF Consistent, TakesUser, TakesIncident, TakesWindow
<1>6. InputAccepted(d, c)
  BY <1>1, <1>2, <1>3 DEF InputAccepted, TakesUser, TakesIncident
<1>. QED  BY <1>5, <1>6

LEMMA IntervalDecided ==
  ASSUME NEW c \in Cues, Verdict(c) = "decided", NEW t \in TakesWindow
  PROVE  LET d == Decision(t, c)
         IN \/ c.times = <<>> /\ c.dates = <<>>
                 /\ d.start_time = NoTime /\ d.end_time = NoTime
            \/ /\ d.start_time < d.end_time
               /\ c.times # <<>> => d.end_time = c.times[Len(c.times)]
               /\ Len(c.times) = 2 => d.start_time = c.times[1]
               /\ Len(c.times) # 2 =>
                    WindowAccepted(d) /\ d.end_time - d.start_time = Day
               /\ c.dates # <<>> => d.start_time = c.dates[1]
<1>1. /\ Decision(t, c).start_time = RawWindow(c).start
      /\ Decision(t, c).end_time = RawWindow(c).end
  BY DEF Decision, WindowFor
<1>. QED
  BY <1>1, WindowTyped, DayAssumption DEF NoWindow, Window, WindowAccepted

\* Between the request and its decisions nothing else is added.
RouteInv ==
  /\ request \in Cues
  /\ decisions # {} =>
       /\ Verdict(request) = "decided"
       /\ decisions = {Decision(t, request) : t \in RequiredTools(request)}

LEMMA RouteInvariance == Spec => []RouteInv
<1>1. Init => RouteInv
  BY RoutedAssumption DEF Init, RouteInv
<1>2. RouteInv /\ [Decide]_vars => RouteInv'
  BY DEF RouteInv, Decide, SelectedTools, vars
<1>. QED  BY <1>1, <1>2, PTL DEF Spec

\* A decision the router returns is valid, and no tool rejects it.
THEOREM EveryDecisionRuns == Spec => []DecisionsRunnable
<1>1. RouteInv => DecisionsRunnable
  BY DecisionRuns DEF RouteInv, DecisionsRunnable
<1>. QED  BY <1>1, RouteInvariance, PTL

\* The interval of a decision is the one the request asked for.
THEOREM EveryIntervalIsAsked == Spec => []IntervalAsked
<1>1. RouteInv => IntervalAsked
  <2>. SUFFICES ASSUME RouteInv, NEW d \in decisions, d.name \in TakesWindow
                PROVE  \/ request.times = <<>> /\ request.dates = <<>>
                            /\ d.start_time = NoTime /\ d.end_time = NoTime
                       \/ /\ d.start_time < d.end_time
                          /\ request.times # <<>> =>
                               d.end_time = request.times[Len(request.times)]
                          /\ Len(request.times) = 2 => d.start_time = request.times[1]
                          /\ Len(request.times) # 2 =>
                               WindowAccepted(d) /\ d.end_time - d.start_time = Day
                          /\ request.dates # <<>> => d.start_time = request.dates[1]
    BY DEF IntervalAsked
  <2>1. PICK t \in RequiredTools(request) : d = Decision(t, request)
    BY DEF RouteInv
  <2>2. t \in TakesWindow /\ request \in Cues /\ Verdict(request) = "decided"
    BY <2>1 DEF RouteInv, Decision
  <2>. QED  BY <2>1, <2>2, IntervalDecided
<1>. QED  BY <1>1, RouteInvariance, PTL

\* Lookups, searches and lists of events are not mixed, and at most three
\* sources are asked.
THEOREM SourcesAreApart == Spec => []SourcesApart
<1>1. RouteInv => SourcesApart
  <2>. SUFFICES ASSUME RouteInv
                PROVE  SourcesApart
    OBVIOUS
  <2>1. Names = {} \/ Names = RequiredTools(request)
    <3>1. CASE decisions = {}
      BY <3>1 DEF Names
    <3>2. CASE decisions = {Decision(t, request) : t \in RequiredTools(request)}
      <4>1. \A t : Decision(t, request).name = t
        BY DEF Decision
      <4>. QED  BY <3>2, <4>1 DEF Names
    <3>. QED  BY <3>1, <3>2 DEF RouteInv
  <2>2. Names # {} => ~MoreThanThree(RequiredTools(request))
    BY DEF Names, RouteInv, Verdict, TooManySources
  <2>3. ~MoreThanThree(Names)
    BY <2>1, <2>2 DEF MoreThanThree
  <2>4. \A t \in RequiredTools(request) :
          /\ t = "get_event" => request.events # {}
          /\ t = "search_security_events" => EventSearchWanted(request)
          /\ t = "get_user_events" => UserActivityWanted(request)
          /\ t = "analyze_user_anomaly" => WantsML(request)
    BY DEF RequiredTools
  <2>5. WantsML(request) => "analyze_user_anomaly" \in RequiredTools(request)
    BY DEF RequiredTools, ToolName
  <2>. QED
    BY <2>1, <2>3, <2>4, <2>5 DEF SourcesApart, UserActivityWanted, EventSearchWanted
<1>. QED  BY <1>1, RouteInvariance, PTL
=============================================================================
