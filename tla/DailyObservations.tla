------------------------- MODULE DailyObservations -------------------------
(***************************************************************************)
(* The observations the anomaly model is fitted on, scores and explains    *)
(* (app/ml/features.py): the events of one user, or of one address nobody  *)
(* was logged in from, on one UTC day, and the features they have.         *)
(*                                                                         *)
(* Time is counted in ticks.  Users and addresses are numbers, in the      *)
(* order of their names.  Of the twenty features, those that are more than *)
(* a count of events or a quotient of two are computed; "events" stands    *)
(* for the others.                                                         *)
(***************************************************************************)
EXTENDS Integers, Sequences, FiniteSets, SequencesExt, FiniteSetsExt

CONSTANTS
  Day,     \* ticks of a UTC day
  Hour,    \* ticks of an hour
  Burst,   \* ticks of fifteen minutes
  NoUser,  \* events of the firewall
  NoLand   \* events without a country

ASSUME TicksAssumption ==
  /\ Day \in Nat \ {0} /\ Hour \in Nat \ {0} /\ Burst \in Nat
  /\ Day % Hour = 0

\* An event is [id, time, user, source, login, country].  Identifiers are the
\* primary key of security_events, and a time, a source, a user are what the
\* columns hold.
IsDataset(S) ==
  /\ IsFiniteSet(S)
  /\ \A e \in S : /\ e.id \in Int /\ e.time \in Int /\ e.source \in Int
                  /\ e.user = NoUser \/ e.user \in Int
  /\ \A e, f \in S : e.id = f.id => e = f

\* The elements of a set in the order of Before, a total order on it: an
\* element's place is the number of those before it.
Place(x, S, Before(_, _)) == Cardinality({y \in S : Before(y, x)}) + 1
Sorted(S, Before(_, _)) ==
  [i \in 1..Cardinality(S) |-> CHOOSE x \in S : Place(x, S, Before) = i]

Earlier(a, b) == a.time < b.time \/ (a.time = b.time /\ a.id < b.id)
InOrder(S) == Sorted(S, Earlier)

EntityOf(e) ==
  IF e.user # NoUser THEN <<"user", e.user>> ELSE <<"source_ip", e.source>>

DayStart(t) == t - (t % Day)

-----------------------------------------------------------------------------
(* Features. *)

\* Mutant: an event exactly fifteen minutes old has left the window.
Expire_Inclusive(active, boundary) ==
  LET stay == {i \in DOMAIN active : active[i] > boundary}
  IN  IF stay = {} THEN <<>> ELSE SubSeq(active, Min(stay), Len(active))

\* The queue of the window without its head, as far as it lies before the boundary.
Expire(active, boundary) ==
  LET stay == {i \in DOMAIN active : active[i] >= boundary}
  IN  IF stay = {} THEN <<>> ELSE SubSeq(active, Min(stay), Len(active))

\* The window after the first i events, the most it has held among them.
MaxEventsIn15m(S) ==
  LET ordered == InOrder(S)
      window[i \in 0..Cardinality(S)] ==
        IF i = 0 THEN [active |-> <<>>, maximum |-> 0]
        ELSE LET last == window[i - 1]
                 now == ordered[i].time
                 active == Append(Expire(last.active, now - Burst), now)
             IN  [active |-> active, maximum |-> Max({last.maximum, Len(active)})]
  IN  window[Cardinality(S)].maximum

Logins(S) == {e \in S : e.login /\ e.country # NoLand}

CountryTransitions(S) ==
  LET logins == InOrder(Logins(S))
  IN  Cardinality({i \in 1..(Cardinality(Logins(S)) - 1) :
                     logins[i].country # logins[i + 1].country})

Values(S) ==
  [events      |-> Cardinality(S),
   countries   |-> Cardinality({e.country : e \in S} \ {NoLand}),
   transitions |-> CountryTransitions(S),
   hours       |-> Cardinality({(e.time % Day) \div Hour : e \in S}),
   burst       |-> MaxEventsIn15m(S)]

-----------------------------------------------------------------------------
(* Observations. *)

Selected(S, entity, start, end) ==
  {e \in S : start <= e.time /\ e.time < end /\ EntityOf(e) = entity}

\* build_observation, of events that leave some selected.
Observation(S, entity, start, end) ==
  LET selected == Selected(S, entity, start, end)
      ordered == InOrder(selected)
  IN  [entity   |-> entity,
       start    |-> start,
       end      |-> end,
       features |-> Values(selected),
       ids      |-> [i \in DOMAIN ordered |-> ordered[i].id]]

BuildDaily(S, start, end) ==
  LET active == {e \in S : start <= e.time /\ e.time < end}
      GroupOf(e) == <<DayStart(e.time), EntityOf(e)>>
  IN  {Observation({e \in active : GroupOf(e) = g}, g[2], g[1], g[1] + Day) :
         g \in {GroupOf(e) : e \in active}}

\* The order in which the observations are kept, by day, kind and name.
Kinds == <<"source_ip", "user">>
KeptBefore(a, b) ==
  \/ a.start < b.start
  \/ a.start = b.start /\ a.entity[1] = Kinds[1] /\ b.entity[1] = Kinds[2]
  \/ a.start = b.start /\ a.entity[1] = b.entity[1] /\ a.entity[2] < b.entity[2]

Training(observations, cutoff) == {o \in observations : o.start < cutoff}
Holdout(observations, cutoff) == {o \in observations : o.start >= cutoff}

SplitRefused(observations, cutoff) ==
  \/ Training(observations, cutoff) = {} \/ Holdout(observations, cutoff) = {}
  \/ \E o \in Training(observations, cutoff) : o.end > cutoff

=============================================================================
