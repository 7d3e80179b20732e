------------------------- MODULE HoldoutEvaluation -------------------------
(***************************************************************************)
(* From events to the numbers of an evaluation (app/ml/train.py,           *)
(* app/ml/evaluation.py), and beside it the analysis of one user the API   *)
(* offers with the same model (app/ml/service.py).                         *)
(*                                                                         *)
(* The model is scikit-learn's isolation forest: it may give a holdout     *)
(* observation any score, and predicts an outlier where its decision       *)
(* function is negative, that is where the score is positive.              *)
(***************************************************************************)
EXTENDS DailyObservations

CONSTANTS
  Datasets,     \* contents of security_events
  Labellings,   \* ground truths: scenarios, each the identifiers of its events
  Scores,       \* what the model may say of an observation
  Windows,      \* windows an analysis is asked for
  PeriodStart, Cutoff, PeriodEnd,
  Top,          \* how many of the highest ranks are looked at
  MinimumEvents,
  None          \* no score, no rank

\* The scores are the numbers the model gives, whole multiples of some unit.
ASSUME DataAssumption ==
  /\ \A S \in Datasets : IsDataset(S)
  /\ \A L \in Labellings : IsFiniteSet(L)
  /\ Scores \subseteq Int /\ Top \subseteq Nat
  /\ None \notin Int

\* The period is one of whole UTC days; an analysis needs an event at least.
ASSUME PeriodAssumption ==
  /\ PeriodStart \in Int /\ Cutoff \in Int /\ PeriodEnd \in Int
  /\ PeriodStart % Day = 0 /\ PeriodEnd % Day = 0
  /\ Windows \subseteq Int \X Int
  /\ MinimumEvents \in Nat \ {0}

VARIABLES
  dataset,       \* the rows of security_events
  scenarios,     \* the ground truth
  stage,
  observations,  \* what the training has built
  score,         \* of each holdout observation
  result,        \* the evaluation
  analysis       \* the observation behind the last answer about a user

vars == <<dataset, scenarios, stage, observations, score, result, analysis>>

NoEvaluation == [scenarios |-> {}]

Init ==
  /\ dataset \in Datasets /\ scenarios \in Labellings
  /\ stage = "read"
  /\ observations = {} /\ score = <<>>
  /\ result = NoEvaluation /\ analysis = None

InPeriod == {e \in dataset : PeriodStart <= e.time /\ e.time < PeriodEnd}
Tested == Holdout(observations, Cutoff)

-----------------------------------------------------------------------------
(* The training. *)

\* Without events, or without two periods to compare, there is no model.
Observe ==
  /\ stage = "read"
  /\ LET built == BuildDaily(InPeriod, PeriodStart, PeriodEnd)
     IN  IF SplitRefused(built, Cutoff)
         THEN stage' = "refused" /\ UNCHANGED observations
         ELSE stage' = "score" /\ observations' = built
  /\ UNCHANGED <<dataset, scenarios, score, result, analysis>>

ScoreHoldout ==
  /\ stage = "score"
  /\ score' \in [Tested -> Scores]
  /\ stage' = "evaluate"
  /\ UNCHANGED <<dataset, scenarios, observations, result, analysis>>

Flagged(o) == score[o] > 0

\* Mutant: an observation precedes those of a higher score.
Above_Ascending(a, b) == score[a] < score[b] \/ (score[a] = score[b] /\ KeptBefore(a, b))

\* Equal scores keep their order.
Above(a, b) == score[a] > score[b] \/ (score[a] = score[b] /\ KeptBefore(a, b))
Ranked == Sorted(Tested, Above)

Related(scenario) == {o \in Tested : ToSet(o.ids) \cap scenario # {}}

ScenarioResult(scenario) ==
  LET related == Related(scenario)
      ranks == {i \in DOMAIN Ranked : Ranked[i] \in related}
  IN  [scenario   |-> scenario,
       flagged    |-> \E o \in related : Flagged(o),
       best_rank  |-> IF ranks = {} THEN None ELSE Min(ranks),
       best_score |-> IF related = {} THEN None ELSE Max({score[o] : o \in related})]

TopCapture(limit) ==
  LET top == {Ranked[i] : i \in DOMAIN Ranked \cap 1..limit}
  IN  Cardinality({s \in scenarios : Related(s) \cap top # {}})

EvaluateHoldout ==
  LET flagged == {o \in Tested : Flagged(o)}
      related == UNION {Related(s) : s \in scenarios}
  IN  [scenarios             |-> {ScenarioResult(s) : s \in scenarios},
       holdout_observations  |-> Cardinality(Tested),
       flagged_observations  |-> Cardinality(flagged),
       flagged_scenario      |-> Cardinality(flagged \cap related),
       false_positives       |-> Cardinality(flagged \ related),
       normal_observations   |-> Cardinality(Tested \ related),
       top                   |-> [limit \in Top |-> TopCapture(limit)]]

\* The labels are read when the scores are final.
Evaluate ==
  /\ stage = "evaluate"
  /\ result' = EvaluateHoldout
  /\ stage' = "done"
  /\ UNCHANGED <<dataset, scenarios, observations, score, analysis>>

-----------------------------------------------------------------------------
(* The analysis of a user. *)

EventsOf(user) == {e \in dataset : e.user = user}
Users == {e.user : e \in dataset} \ {NoUser}

\* Mutant: the twenty-four hours up to the latest event.
DefaultWindow_Rolling(user) ==
  LET latest == Max({e.time : e \in EventsOf(user)})
  IN  <<latest + 1 - Day, latest + 1>>

\* The latest day the user was active.
DefaultWindow(user) ==
  LET latest == Max({e.time : e \in EventsOf(user)})
  IN  <<DayStart(latest), DayStart(latest) + Day>>

WindowRefused(w) == w[1] >= w[2] \/ w[2] - w[1] > Day

Analyze(user, w) ==
  /\ stage = "done"
  /\ ~WindowRefused(w)
  /\ LET events == {e \in EventsOf(user) : w[1] <= e.time /\ e.time < w[2]}
     IN  Cardinality(events) >= MinimumEvents
         /\ analysis' = Observation(events, <<"user", user>>, w[1], w[2])
  /\ UNCHANGED <<dataset, scenarios, stage, observations, score, result>>

Next ==
  \/ Observe \/ ScoreHoldout \/ Evaluate
  \/ \E user \in Users, w \in Windows : Analyze(user, w)
  \/ \E user \in Users : Analyze(user, DefaultWindow(user))

Spec == Init /\ [][Next]_vars

-----------------------------------------------------------------------------
(* Properties. *)

\* The most events of a set that lie within one window of fifteen minutes,
\* and the bounds on the changes of country along its logins.
LargestBurst(S) ==
  Max({Cardinality({f \in S : e.time - Burst <= f.time /\ f.time <= e.time}) :
         e \in S})
PlausibleTransitions(n, S) ==
  LET logins == {e \in S : e.login /\ e.country # NoLand}
      lands == {e.country : e \in logins}
  IN  IF logins = {} THEN n = 0
      ELSE Cardinality(lands) - 1 <= n /\ n < Cardinality(logins)

\* The daily observations partition the events of the period: each event is
\* counted once, with its own day and entity, in the features of that day;
\* and nothing at or after the cutoff reaches what the model is fitted on
\* (build_daily_observations, chronological_split).
ObservationsPartition ==
  stage \in {"score", "evaluate", "done"} =>
    /\ \A e \in InPeriod :
         Cardinality({o \in observations : e.id \in ToSet(o.ids)}) = 1
    /\ \A o \in observations :
         LET S == {e \in dataset : e.id \in ToSet(o.ids)}
         IN  /\ S # {} /\ S \subseteq InPeriod
             /\ Len(o.ids) = Cardinality(S)
             /\ \A e \in S : EntityOf(e) = o.entity /\ e.time \div Day = o.start \div Day
             /\ o.features.burst = LargestBurst(S)
             /\ PlausibleTransitions(o.features.transitions, S)
             /\ o \in Training(observations, Cutoff) <=> \A e \in S : e.time < Cutoff

\* An evaluation hangs together: the flagged observations are those of the
\* scenarios and the false positives, no observation is both normal and of a
\* scenario, a scenario is flagged exactly when its best rank lies within the
\* flagged observations and its best score is positive, and it is captured by
\* the highest ranks exactly when its best rank is one of them
\* (evaluate_holdout computes each of these on its own).
FlagsFollowRanks ==
  stage = "done" =>
    LET related == {o \in Tested : \E s \in scenarios : ToSet(o.ids) \cap s # {}}
    IN  /\ result.flagged_observations = result.flagged_scenario + result.false_positives
        /\ result.holdout_observations
             = result.normal_observations + Cardinality(related)
        /\ \A r \in result.scenarios :
             /\ (r.best_rank = None) <=> (r.best_score = None)
             /\ r.flagged <=> (r.best_score # None /\ r.best_score > 0)
             /\ r.flagged <=> (r.best_rank # None
                                 /\ r.best_rank <= result.flagged_observations)
        /\ \A limit \in Top :
             result.top[limit] =
               Cardinality({r \in result.scenarios :
                              r.best_rank # None /\ r.best_rank <= limit})

\* What the API says of a user's day is what the training and the evaluation
\* saw of it: an analysis of a whole UTC day of the period, and one of the
\* default window, is of the very observation built for that day, though the
\* events come from another query (_analyze_user, default_user_window).
ServedAsTrained ==
  [][\A user \in Users :
       LET last == Max({e.time : e \in EventsOf(user)})
           InThePeriod(w) == PeriodStart <= w[1] /\ w[2] <= PeriodEnd
       IN  /\ \A w \in Windows :
                Analyze(user, w) /\ InThePeriod(w) /\ w[1] % Day = 0 /\ w[2] = w[1] + Day
                  => analysis' \in observations
           /\ Analyze(user, DefaultWindow(user)) =>
                /\ analysis'.start <= last /\ last < analysis'.end
                /\ PeriodStart <= last /\ last < PeriodEnd
                     => analysis' \in observations]_vars

=============================================================================
