---------------------- MODULE HoldoutEvaluationProofs ----------------------
(***************************************************************************)
(* What the training, the evaluation and the analysis of a user make of    *)
(* the events, for every content of the tables, every labelling, every     *)
(* period of whole days and every score the model may give.                *)
(***************************************************************************)
EXTENDS HoldoutEvaluation, DailyObservationsProofs

BuiltStages == {"score", "evaluate", "done"}

(* What the training has built stays what it was built from, and the       *)
(* scores cover the holdout.                                               *)
EvaluationInv ==
  /\ dataset \in Datasets /\ scenarios \in Labellings
  /\ stage \in BuiltStages =>
       /\ observations = BuildDaily(InPeriod, PeriodStart, PeriodEnd)
       /\ ~SplitRefused(observations, Cutoff)
  /\ stage \in {"evaluate", "done"} => score \in [Tested -> Scores]
  /\ FlagsFollowRanks

-----------------------------------------------------------------------------
(* The observations. *)

\* The period of a dataset is a dataset, and its observations are its days.
LEMMA PeriodDays ==
  ASSUME EvaluationInv
  PROVE  /\ IsDataset(dataset) /\ IsDataset(InPeriod) /\ InPeriod \in SUBSET dataset
         /\ stage \in BuiltStages => observations = Days(InPeriod)
<1>1. IsDataset(dataset) BY DataAssumption DEF EvaluationInv
<1>2. InPeriod \in SUBSET dataset BY DEF InPeriod
<1>3. IsDataset(InPeriod) BY <1>1, <1>2, PartOfDataset
<1>4. During(InPeriod, PeriodStart, PeriodEnd) = InPeriod BY DEF During, InPeriod
<1>5. BuildDaily(InPeriod, PeriodStart, PeriodEnd) = Days(InPeriod)
  BY <1>3, <1>4, DailyAreDays DEF Days
<1> QED BY <1>1, <1>2, <1>3, <1>5 DEF EvaluationInv

\* Each event of the period is in the observation of its day, and in no other.
LEMMA InOneObservation ==
  ASSUME EvaluationInv, stage \in BuiltStages, NEW e \in InPeriod
  PROVE  {o \in observations : e.id \in ToSet(o.ids)} = {DayOf(InPeriod, e)}
<1> DEFINE P == InPeriod
<1>1. IsDataset(P) /\ observations = Days(P) BY PeriodDays
<1> HIDE DEF P
<1>2. e \in P BY DEF P
<1>3. \A f \in P : {g \in P : g.id \in ToSet(DayOf(P, f).ids)} = DayGroup(P, f)
  BY <1>1, EventsOfDay
<1>4. DayOf(P, e) \in observations BY <1>1, <1>2 DEF Days
<1>5. e.id \in ToSet(DayOf(P, e).ids) BY <1>1, <1>2, <1>3 DEF DayGroup
<1>6. ASSUME NEW o \in observations, e.id \in ToSet(o.ids)
      PROVE  o = DayOf(P, e)
  <2>1. PICK f \in P : o = DayOf(P, f) BY <1>1 DEF Days
  <2>2. e \in DayGroup(P, f) BY <1>2, <1>3, <1>6, <2>1
  <2>3. DayOf(P, e) = DayOf(P, f) BY <1>2, <2>2, SameDay DEF DayGroup
  <2> QED BY <2>1, <2>3
<1> QED BY <1>4, <1>5, <1>6 DEF P

\* What the invariant says is enough for the partition.
LEMMA PartitionFollows ==
  ASSUME EvaluationInv
  PROVE  ObservationsPartition
<1> SUFFICES ASSUME stage \in BuiltStages
             PROVE  /\ \A e \in InPeriod :
                         Cardinality({o \in observations : e.id \in ToSet(o.ids)}) = 1
                    /\ \A o \in observations :
                         LET S == {e \in dataset : e.id \in ToSet(o.ids)}
                         IN  /\ S # {} /\ S \subseteq InPeriod
                             /\ Len(o.ids) = Cardinality(S)
                             /\ \A e \in S : /\ EntityOf(e) = o.entity
                                             /\ e.time \div Day = o.start \div Day
                             /\ o.features.burst = LargestBurst(S)
                             /\ PlausibleTransitions(o.features.transitions, S)
                             /\ o \in Training(observations, Cutoff)
                                  <=> \A e \in S : e.time < Cutoff
  BY DEF ObservationsPartition, BuiltStages
<1>1. /\ IsDataset(dataset) /\ IsDataset(InPeriod) /\ InPeriod \in SUBSET dataset
      /\ observations = Days(InPeriod)
  BY PeriodDays
<1>2. ASSUME NEW e \in InPeriod
      PROVE  Cardinality({o \in observations : e.id \in ToSet(o.ids)}) = 1
  <2>1. {o \in observations : e.id \in ToSet(o.ids)} = {DayOf(InPeriod, e)}
    BY InOneObservation
  <2>2. Cardinality({DayOf(InPeriod, e)}) = 1 BY FS_Singleton
  <2> QED BY <2>1, <2>2
<1>3. ASSUME NEW o \in observations
      PROVE  LET S == {e \in dataset : e.id \in ToSet(o.ids)}
             IN  /\ S # {} /\ S \subseteq InPeriod
                 /\ Len(o.ids) = Cardinality(S)
                 /\ \A e \in S : EntityOf(e) = o.entity /\ e.time \div Day = o.start \div Day
                 /\ o.features.burst = LargestBurst(S)
                 /\ PlausibleTransitions(o.features.transitions, S)
                 /\ o \in Training(observations, Cutoff) <=> \A e \in S : e.time < Cutoff
  <2>1. PICK d \in InPeriod : o = DayOf(InPeriod, d) BY <1>1 DEF Days
  <2> DEFINE S == {e \in dataset : e.id \in ToSet(o.ids)}
             G == DayGroup(InPeriod, d)
  <2>2. S = G BY <1>1, <2>1, EventsOfDay
  <2>3. /\ d \in G /\ G \in SUBSET InPeriod /\ IsDataset(G)
        /\ Len(o.ids) = Cardinality(G)
    BY <1>1, <2>1, IdsOfDay
  <2>4. /\ o.entity = EntityOf(d) /\ o.start = DayStart(d.time)
        /\ o.end = DayStart(d.time) + Day /\ o.features = Values(G)
    BY <2>1 DEF DayOf
  <2>5. \A e \in G : /\ e.time \in Int /\ EntityOf(e) = o.entity
                     /\ DayStart(e.time) = o.start
    BY <2>3, <2>4 DEF DayGroup, IsDataset
  <2>6. ASSUME NEW e \in G
        PROVE  EntityOf(e) = o.entity /\ e.time \div Day = o.start \div Day
    BY <2>5, Midnight
  <2>7. o.features.burst = LargestBurst(G)
    <3>1. MaxEventsIn15m(G) = Max({Cardinality(WithinBurst(G, e)) : e \in G})
      BY <2>3, BurstIsLargest
    <3> QED BY <2>4, <3>1 DEF Values, LargestBurst, WithinBurst
  <2>8. PlausibleTransitions(o.features.transitions, G)
    <3>1. o.features.transitions = CountryTransitions(G) BY <2>4 DEF Values
    <3>2. Logins(G) = {e \in G : e.login /\ e.country # NoLand} BY DEF Logins
    <3> QED BY <2>3, <3>1, <3>2, TransitionsBounded DEF PlausibleTransitions
  <2>9. o \in Training(observations, Cutoff) <=> \A e \in G : e.time < Cutoff
    <3>1. /\ d.time \in Int /\ DayStart(d.time) \in Int /\ DayStart(d.time) <= d.time
          /\ Cutoff \in Int /\ Day \in Nat
      BY <2>3, <2>5, DayOfTime, PeriodAssumption, TicksAssumption
    <3>2. ASSUME o \in Training(observations, Cutoff), NEW e \in G
          PROVE  e.time < Cutoff
      <4>1. ~(o.end > Cutoff) BY <3>2 DEF EvaluationInv, SplitRefused
      <4>2. e.time < DayStart(e.time) + Day /\ DayStart(e.time) = DayStart(d.time)
            /\ e.time \in Int
        BY <2>4, <2>5, DayOfTime
      <4> QED BY <4>1, <4>2, <3>1, <2>4
    <3>3. ASSUME \A e \in G : e.time < Cutoff
          PROVE  o \in Training(observations, Cutoff)
      <4>1. d.time < Cutoff BY <2>3, <3>3
      <4>2. o.start < Cutoff BY <4>1, <3>1, <2>4
      <4> QED BY <4>2 DEF Training
    <3> QED BY <3>2, <3>3
  <2> HIDE DEF G
  <2>10. /\ S # {} /\ S \subseteq InPeriod
         /\ Len(o.ids) = Cardinality(S)
         /\ \A e \in S : EntityOf(e) = o.entity /\ e.time \div Day = o.start \div Day
         /\ o.features.burst = LargestBurst(S)
         /\ PlausibleTransitions(o.features.transitions, S)
         /\ o \in Training(observations, Cutoff) <=> \A e \in S : e.time < Cutoff
    BY <2>2, <2>3, <2>6, <2>7, <2>8, <2>9
  <2> QED BY <2>10
<1> QED BY <1>2, <1>3

-----------------------------------------------------------------------------
(* The evaluation. *)

\* What FlagsFollowRanks says of an evaluation, of any value of it.
Coherent(r) ==
  LET related == {o \in Tested : \E s \in scenarios : ToSet(o.ids) \cap s # {}}
  IN  /\ r.flagged_observations = r.flagged_scenario + r.false_positives
      /\ r.holdout_observations = r.normal_observations + Cardinality(related)
      /\ \A x \in r.scenarios :
           /\ (x.best_rank = None) <=> (x.best_score = None)
           /\ x.flagged <=> (x.best_score # None /\ x.best_score > 0)
           /\ x.flagged <=> (x.best_rank # None /\ x.best_rank <= r.flagged_observations)
      /\ \A limit \in Top :
           r.top[limit] = Cardinality({x \in r.scenarios :
                                         x.best_rank # None /\ x.best_rank <= limit})

\* The holdout is finite and its scores are numbers.
LEMMA TestedScored ==
  ASSUME EvaluationInv, stage = "evaluate"
  PROVE  /\ Tested \in SUBSET Days(InPeriod) /\ IsFiniteSet(Tested)
         /\ \A o \in Tested : score[o] \in Int
<1>1. IsDataset(InPeriod) /\ observations = Days(InPeriod) BY PeriodDays DEF BuiltStages
<1>2. Tested \in SUBSET Days(InPeriod) BY <1>1 DEF Tested, Holdout
<1>3. IsFiniteSet(Days(InPeriod)) BY <1>1, DaysFinite
<1>4. IsFiniteSet(Tested) BY <1>2, <1>3, FS_Subset
<1>5. score \in [Tested -> Scores] /\ Scores \subseteq Int BY DataAssumption DEF EvaluationInv
<1> QED BY <1>2, <1>4, <1>5

AboveOn(S) == {p \in S \X S : Above(p[1], p[2])}

LEMMA AboveOrders ==
  ASSUME EvaluationInv, stage = "evaluate"
  PROVE  IsOrder(AboveOn(Tested), Tested)
<1> DEFINE T == Tested
<1>1. \A x, y \in T : <<x, y>> \in AboveOn(T) <=> Above(x, y) BY DEF AboveOn
<1>2. \A x \in T : score[x] \in Int BY TestedScored
<1>3. IsDataset(InPeriod) /\ T \in SUBSET Days(InPeriod) BY TestedScored, PeriodDays
<1> HIDE DEF T
<1>4. /\ \A a \in T : ~KeptBefore(a, a)
      /\ \A a, b, c \in T : KeptBefore(a, b) /\ KeptBefore(b, c) => KeptBefore(a, c)
      /\ \A a, b \in T : a = b \/ KeptBefore(a, b) \/ KeptBefore(b, a)
  BY <1>3, KeptOrder
<1>5. \A x \in T : ~Above(x, x) BY <1>2, <1>4 DEF Above
<1>6. \A x, y, z \in T : Above(x, y) /\ Above(y, z) => Above(x, z)
  BY <1>2, <1>4 DEF Above
<1>7. \A x, y \in T : x = y \/ Above(x, y) \/ Above(y, x) BY <1>2, <1>4 DEF Above
<1> QED BY <1>1, <1>5, <1>6, <1>7 DEF IsOrder, T

\* The ranking lists every holdout observation once, the scores never rising.
LEMMA RankedListed ==
  ASSUME EvaluationInv, stage = "evaluate"
  PROVE  /\ Cardinality(Tested) \in Nat
         /\ Ranked \in [1..Cardinality(Tested) -> Tested]
         /\ \A o \in Tested : \E i \in 1..Cardinality(Tested) : Ranked[i] = o
         /\ \A i, j \in 1..Cardinality(Tested) :
              /\ Ranked[i] = Ranked[j] => i = j
              /\ i < j => score[Ranked[i]] >= score[Ranked[j]]
<1> DEFINE T == Tested
           R == AboveOn(T)
<1>1. IsFiniteSet(T) /\ IsOrder(R, T) BY TestedScored, AboveOrders
<1>2. \A x \in T : {y \in T : Above(y, x)} = Below(x, R, T) BY DEF Below, AboveOn
<1>3. Ranked = [i \in 1..Cardinality(T) |->
                  CHOOSE x \in T : Cardinality(Below(x, R, T)) + 1 = i]
  <2>1. Ranked = [i \in 1..Cardinality(T) |-> CHOOSE x \in T : Place(x, T, Above) = i]
    BY DEF Ranked, Sorted
  <2>2. \A x \in T : Place(x, T, Above) = Cardinality(Below(x, R, T)) + 1
    BY <1>2 DEF Place
  <2> QED BY <2>1, <2>2
<1>4. \A x \in T : score[x] \in Int BY TestedScored
<1> HIDE DEF R, T
<1>5. Lists(Ranked, T, R) BY <1>1, <1>3, PlacesList
<1>6. /\ Cardinality(T) \in Nat
      /\ \A i, j \in 1..Cardinality(T) : Ranked[i] = Ranked[j] => i = j
  BY <1>1, <1>5, ListsOnce
<1>7. ASSUME NEW i \in 1..Cardinality(T), NEW j \in 1..Cardinality(T), i < j
      PROVE  score[Ranked[i]] >= score[Ranked[j]]
  <2>1. Ranked[i] \in T /\ Ranked[j] \in T /\ <<Ranked[i], Ranked[j]>> \in R
    BY <1>5, <1>7 DEF Lists
  <2>2. Above(Ranked[i], Ranked[j]) BY <2>1 DEF R, AboveOn
  <2>3. score[Ranked[i]] \in Int /\ score[Ranked[j]] \in Int BY <2>1, <1>4
  <2> HIDE DEF Ranked
  <2> QED BY <2>2, <2>3 DEF Above
<1> QED BY <1>5, <1>6, <1>7 DEF Lists, T

\* The flagged observations are those of the first ranks, as many as there are.
LEMMA FlaggedFirst ==
  ASSUME EvaluationInv, stage = "evaluate"
  PROVE  /\ Cardinality({o \in Tested : Flagged(o)}) \in Nat
         /\ \A i \in 1..Cardinality(Tested) :
              Flagged(Ranked[i]) <=> i <= Cardinality({o \in Tested : Flagged(o)})
<1> DEFINE T == Tested
           n == Cardinality(T)
           r == Ranked
           F == {i \in 1..n : Flagged(r[i])}
           flagged == {o \in T : Flagged(o)}
           f == [i \in F |-> r[i]]
<1>1. /\ n \in Nat /\ r \in [1..n -> T]
      /\ \A o \in T : \E i \in 1..n : r[i] = o
      /\ \A i, j \in 1..n : r[i] = r[j] => i = j
      /\ \A i, j \in 1..n : i < j => score[r[i]] >= score[r[j]]
  BY RankedListed
<1>2. \A o \in T : score[o] \in Int BY TestedScored
<1> HIDE DEF r, T, n
<1>3. F \in SUBSET (1..n) /\ IsFiniteSet(1..n) BY <1>1, FS_Interval
<1>4. IsFiniteSet(F) BY <1>3, FS_Subset
<1>5. f \in Surjection(F, flagged) BY <1>1 DEF Surjection
<1>6. f \in Injection(F, flagged) BY <1>1 DEF Injection, IsInjective
<1> HIDE DEF f
<1>7. Cardinality(flagged) = Cardinality(F) BY <1>4, <1>5, <1>6, FS_Surjection
<1>8. Cardinality(F) \in Nat BY <1>4, FS_CardinalityType
<1>9. ASSUME NEW i \in 1..n, Flagged(r[i]) PROVE i <= Cardinality(F)
  <2>1. \A j \in 1..i : j \in F
    <3> SUFFICES ASSUME NEW j \in 1..i PROVE j \in F OBVIOUS
    <3>1. j \in 1..n /\ (j = i \/ j < i) BY <1>1
    <3>2. j < i => score[r[j]] >= score[r[i]] BY <3>1, <1>1
    <3>3. score[r[i]] \in Int /\ score[r[j]] \in Int BY <3>1, <1>1, <1>2
    <3>4. score[r[j]] > 0 BY <1>9, <3>1, <3>2, <3>3 DEF Flagged
    <3> QED BY <3>1, <3>4 DEF Flagged
  <2>2. (1..i) \in SUBSET F BY <2>1
  <2>3. i \in Nat /\ i > 0 BY <1>1
  <2>4. Cardinality(1..i) = i BY <2>3, FS_Interval
  <2> HIDE DEF F
  <2>5. Cardinality(1..i) <= Cardinality(F) BY <2>2, <1>4, FS_Subset
  <2> QED BY <2>4, <2>5
<1>10. ASSUME NEW i \in 1..n, ~Flagged(r[i]) PROVE ~(i <= Cardinality(F))
  <2>1. \A j \in F : j \in 1..(i - 1)
    <3> SUFFICES ASSUME NEW j \in F, ~(j < i) PROVE FALSE BY <1>1
    <3>1. j \in 1..n /\ (j = i \/ i < j) BY <1>1
    <3>2. i < j => score[r[i]] >= score[r[j]] BY <3>1, <1>1
    <3>3. score[r[i]] \in Int /\ score[r[j]] \in Int BY <3>1, <1>1, <1>2
    <3>4. score[r[i]] > 0 BY <3>1, <3>2, <3>3 DEF Flagged
    <3> QED BY <3>4, <1>10 DEF Flagged
  <2>2. F \in SUBSET (1..(i - 1)) BY <2>1
  <2>3. i \in Nat /\ i > 0 /\ 1 \in Int /\ i - 1 \in Int BY <1>1
  <2>4. /\ IsFiniteSet(1..(i - 1))
        /\ Cardinality(1..(i - 1)) = IF 1 > i - 1 THEN 0 ELSE i - 1 - 1 + 1
    BY <2>3, FS_Interval
  <2>5. (IF 1 > i - 1 THEN 0 ELSE i - 1 - 1 + 1) = i - 1 BY <2>3
  <2> HIDE DEF F
  <2>6. Cardinality(F) <= Cardinality(1..(i - 1)) BY <2>2, <2>4, FS_Subset
  <2>7. Cardinality(F) <= i - 1 BY <2>4, <2>5, <2>6
  <2> QED BY <2>3, <2>7, <1>8
<1>11. \A i \in 1..n : Flagged(r[i]) <=> i <= Cardinality(flagged)
  BY <1>7, <1>9, <1>10
<1> QED BY <1>7, <1>8, <1>11 DEF T, n, r

\* A scenario's best rank and score are of its observations, and flag it.
LEMMA ScenarioFollowsRanks ==
  ASSUME EvaluationInv, stage = "evaluate", NEW s
  PROVE  LET x == ScenarioResult(s)
             count == Cardinality({o \in Tested : Flagged(o)})
         IN  /\ x.scenario = s
             /\ (x.best_rank = None) <=> (x.best_score = None)
             /\ x.flagged <=> (x.best_score # None /\ x.best_score > 0)
             /\ x.flagged <=> (x.best_rank # None /\ x.best_rank <= count)
             /\ \A limit \in Nat :
                  (x.best_rank # None /\ x.best_rank <= limit)
                    <=> Related(s) \cap {Ranked[i] : i \in DOMAIN Ranked \cap 1..limit} # {}
<1> DEFINE T == Tested
           n == Cardinality(T)
           r == Ranked
           related == Related(s)
           ranks == {i \in DOMAIN r : r[i] \in related}
           scored == {score[o] : o \in related}
           count == Cardinality({o \in T : Flagged(o)})
           x == ScenarioResult(s)
<1>1. /\ n \in Nat /\ r \in [1..n -> T]
      /\ \A o \in T : \E i \in 1..n : r[i] = o
      /\ \A i, j \in 1..n : r[i] = r[j] => i = j
  BY RankedListed
<1>2. IsFiniteSet(T) /\ \A o \in T : score[o] \in Int BY TestedScored
<1>3. count \in Nat /\ \A i \in 1..n : Flagged(r[i]) <=> i <= count BY FlaggedFirst
<1>4. related \in SUBSET T BY DEF Related
<1>5. /\ x.scenario = s
      /\ x.flagged = (\E o \in related : Flagged(o))
      /\ x.best_rank = IF ranks = {} THEN None ELSE Min(ranks)
      /\ x.best_score = IF related = {} THEN None ELSE Max(scored)
  BY DEF ScenarioResult
<1> HIDE DEF T, r, related, count, x, n
<1>6. DOMAIN r = 1..n BY <1>1
<1>7. IsFiniteSet(ranks) /\ ranks \in SUBSET Int
  <2>1. IsFiniteSet(1..n) /\ ranks \in SUBSET (1..n) BY <1>1, <1>6, FS_Interval
  <2> HIDE DEF ranks
  <2>2. IsFiniteSet(ranks) BY <2>1, FS_Subset
  <2> QED BY <2>1, <2>2
<1>8. IsFiniteSet(scored) /\ scored \in SUBSET Int
  <2> DEFINE f == [o \in related |-> score[o]]
  <2>1. IsFiniteSet(related) BY <1>2, <1>4, FS_Subset
  <2>2. f \in Surjection(related, scored) BY DEF Surjection
  <2>3. scored \in SUBSET Int BY <1>2, <1>4
  <2> HIDE DEF f, scored
  <2> QED BY <2>1, <2>2, <2>3, FS_Surjection
<1>9. related = {} <=> ranks = {} BY <1>1, <1>4, <1>6
<1>10. None \notin Int BY DataAssumption
<1>11. CASE related = {}
  <2>1. x.best_rank = None /\ x.best_score = None /\ ~x.flagged BY <1>5, <1>9, <1>11
  <2> QED BY <1>5, <1>11, <2>1 DEF x, related
<1>12. CASE related # {}
  <2> DEFINE best == Min(ranks)
             high == Max(scored)
  <2>1. x.best_rank = best /\ x.best_score = high BY <1>5, <1>9, <1>12
  <2>2. best \in ranks /\ \A i \in ranks : best <= i BY <1>7, <1>9, <1>12, Extrema
  <2>3. high \in scored /\ \A v \in scored : v <= high
    <3>1. scored # {} BY <1>12
    <3> QED BY <1>8, <3>1, Extrema
  <2> HIDE DEF best, high
  <2>4. best \in 1..n /\ r[best] \in related BY <1>6, <2>2
  <2>5. high \in Int /\ best \in Int BY <1>7, <1>8, <2>2, <2>3
  <2>6. best # None /\ high # None BY <1>10, <2>5
  <2>7. ASSUME NEW o \in related PROVE \E i \in ranks : r[i] = o BY <1>1, <1>4, <1>6
  <2>8. x.flagged <=> high > 0
    <3>1. ASSUME NEW o \in related, Flagged(o) PROVE high > 0
      <4>1. score[o] <= high /\ score[o] \in Int BY <2>3, <1>2, <1>4
      <4> QED BY <3>1, <4>1, <2>5 DEF Flagged
    <3>2. ASSUME high > 0 PROVE \E o \in related : Flagged(o)
      BY <3>2, <2>3 DEF Flagged
    <3> QED BY <1>5, <3>1, <3>2
  <2>9. x.flagged <=> best <= count
    <3>1. ASSUME NEW o \in related, Flagged(o) PROVE best <= count
      <4>1. PICK i \in ranks : r[i] = o BY <2>7
      <4>2. i \in 1..n /\ best <= i /\ i <= count BY <1>3, <1>6, <2>2, <3>1, <4>1
      <4> QED BY <4>2, <2>5, <1>1, <1>3
    <3>2. ASSUME best <= count PROVE \E o \in related : Flagged(o)
      BY <3>2, <2>4, <1>3
    <3> QED BY <1>5, <3>1, <3>2
  <2>10. ASSUME NEW limit \in Nat
         PROVE  best <= limit <=> related \cap {r[i] : i \in DOMAIN r \cap 1..limit} # {}
    <3>1. ASSUME best <= limit PROVE best \in DOMAIN r \cap 1..limit
      BY <3>1, <2>4, <1>6, <1>1
    <3>2. ASSUME NEW i \in DOMAIN r \cap 1..limit, r[i] \in related PROVE best <= limit
      <4>1. best <= i /\ i \in Int /\ i <= limit BY <3>2, <2>2, <1>6
      <4> QED BY <4>1, <2>5
    <3> QED BY <3>1, <3>2, <2>4
  <2> HIDE DEF ranks, scored
  <2>11. /\ x.scenario = s
         /\ (x.best_rank = None) <=> (x.best_score = None)
         /\ x.flagged <=> (x.best_score # None /\ x.best_score > 0)
         /\ x.flagged <=> (x.best_rank # None /\ x.best_rank <= count)
         /\ \A limit \in Nat :
              (x.best_rank # None /\ x.best_rank <= limit)
                <=> related \cap {r[i] : i \in DOMAIN r \cap 1..limit} # {}
    BY <1>5, <2>1, <2>6, <2>8, <2>9, <2>10
  <2> QED BY <2>11 DEF x, count, related, r, T
<1> QED BY <1>11, <1>12

\* The evaluation of a scored holdout hangs together.
LEMMA EvaluationCoheres ==
  ASSUME EvaluationInv, stage = "evaluate"
  PROVE  Coherent(EvaluateHoldout)
<1> DEFINE T == Tested
           E == EvaluateHoldout
           flagged == {o \in T : Flagged(o)}
           related == UNION {Related(s) : s \in scenarios}
           first(limit) == {Ranked[i] : i \in DOMAIN Ranked \cap 1..limit}
<1>1. /\ E.scenarios = {ScenarioResult(s) : s \in scenarios}
      /\ E.holdout_observations = Cardinality(T)
      /\ E.flagged_observations = Cardinality(flagged)
      /\ E.flagged_scenario = Cardinality(flagged \cap related)
      /\ E.false_positives = Cardinality(flagged \ related)
      /\ E.normal_observations = Cardinality(T \ related)
      /\ \A limit \in Top : E.top[limit] = TopCapture(limit)
  BY DEF EvaluateHoldout
<1>2. related = {o \in T : \E s \in scenarios : ToSet(o.ids) \cap s # {}} BY DEF Related
<1>3. IsFiniteSet(T) BY TestedScored
<1> HIDE DEF T, E
<1>4. Cardinality(flagged) = Cardinality(flagged \cap related) + Cardinality(flagged \ related)
  <2>1. flagged \in SUBSET T OBVIOUS
  <2> HIDE DEF flagged, related
  <2>2. IsFiniteSet(flagged) BY <1>3, <2>1, FS_Subset
  <2>3. IsFiniteSet(flagged \cap related) /\ Cardinality(flagged) \in Nat
    BY <2>2, FS_Intersection, FS_CardinalityType
  <2>4. Cardinality(flagged \ related) = Cardinality(flagged) - Cardinality(flagged \cap related)
    BY <2>2, FS_Difference
  <2>5. Cardinality(flagged \cap related) \in Nat BY <2>3, FS_CardinalityType
  <2> QED BY <2>3, <2>4, <2>5
<1>5. Cardinality(T) = Cardinality(T \ related) + Cardinality(related)
  <2>1. T \cap related = related BY <1>2
  <2> HIDE DEF related
  <2>2. IsFiniteSet(T \cap related) /\ Cardinality(T) \in Nat
    BY <1>3, FS_Intersection, FS_CardinalityType
  <2>3. Cardinality(T \ related) = Cardinality(T) - Cardinality(T \cap related)
    BY <1>3, FS_Difference
  <2>4. Cardinality(related) \in Nat BY <2>1, <2>2, FS_CardinalityType
  <2> QED BY <2>1, <2>2, <2>3, <2>4
<1>6. \A s \in scenarios :
        LET x == ScenarioResult(s)
        IN  /\ x.scenario = s
            /\ (x.best_rank = None) <=> (x.best_score = None)
            /\ x.flagged <=> (x.best_score # None /\ x.best_score > 0)
            /\ x.flagged <=> (x.best_rank # None /\ x.best_rank <= Cardinality(flagged))
            /\ \A limit \in Nat :
                 (x.best_rank # None /\ x.best_rank <= limit)
                   <=> Related(s) \cap first(limit) # {}
  BY ScenarioFollowsRanks DEF T
<1> HIDE DEF first, flagged, related
<1>7. ASSUME NEW limit \in Top
      PROVE  E.top[limit] = Cardinality({x \in E.scenarios :
                                           x.best_rank # None /\ x.best_rank <= limit})
  <2> DEFINE caught == {s \in scenarios : Related(s) \cap first(limit) # {}}
             within == {x \in E.scenarios : x.best_rank # None /\ x.best_rank <= limit}
             f == [s \in caught |-> ScenarioResult(s)]
  <2>1. limit \in Nat /\ IsFiniteSet(scenarios) BY DataAssumption DEF EvaluationInv
  <2>2. E.top[limit] = Cardinality(caught) BY <1>1 DEF TopCapture, first
  <2>3. \A s \in scenarios :
          /\ ScenarioResult(s).scenario = s
          /\ ScenarioResult(s) \in within <=> s \in caught
    BY <1>1, <1>6, <2>1
  <2>4. IsFiniteSet(caught) BY <2>1, FS_Subset
  <2>5. \A x \in within : \E s \in scenarios : x = ScenarioResult(s) BY <1>1
  <2> HIDE DEF within
  <2>6. f \in Surjection(caught, within) BY <2>3, <2>5 DEF Surjection
  <2>7. f \in Injection(caught, within) BY <2>3 DEF Injection, IsInjective
  <2> HIDE DEF f, caught
  <2>8. Cardinality(within) = Cardinality(caught) BY <2>4, <2>6, <2>7, FS_Surjection
  <2> QED BY <2>2, <2>8 DEF within
<1>8. \A x \in E.scenarios :
        /\ (x.best_rank = None) <=> (x.best_score = None)
        /\ x.flagged <=> (x.best_score # None /\ x.best_score > 0)
        /\ x.flagged <=> (x.best_rank # None /\ x.best_rank <= E.flagged_observations)
  BY <1>1, <1>6
<1>9. E.flagged_observations = E.flagged_scenario + E.false_positives BY <1>1, <1>4
<1>10. E.holdout_observations = E.normal_observations + Cardinality(related) BY <1>1, <1>5
<1> QED BY <1>2, <1>7, <1>8, <1>9, <1>10 DEF Coherent, T, E

-----------------------------------------------------------------------------
(* The invariant. *)

LEMMA EvaluationInitInv == Init => EvaluationInv
  BY DEF Init, EvaluationInv, BuiltStages, FlagsFollowRanks

LEMMA FlagsAreCoherent == FlagsFollowRanks <=> (stage = "done" => Coherent(result))
  BY DEF FlagsFollowRanks, Coherent

\* What is evaluated does not change afterwards.
LEMMA CoherentStays ==
  ASSUME UNCHANGED <<scenarios, observations, result>>, Coherent(result)
  PROVE  Coherent(result)'
  BY DEF Coherent, Tested, Holdout

LEMMA EvaluationStep ==
  ASSUME EvaluationInv, [Next]_vars
  PROVE  EvaluationInv'
<1>1. ASSUME UNCHANGED <<dataset, scenarios, stage, observations, score, result>>
      PROVE  EvaluationInv'
  <2>1. InPeriod' = InPeriod BY <1>1 DEF InPeriod
  <2>2. Tested' = Tested BY <1>1 DEF Tested
  <2>3. SplitRefused(observations, Cutoff)' <=> SplitRefused(observations, Cutoff) BY <1>1
  <2>4. FlagsFollowRanks'
    <3>1. FlagsFollowRanks BY DEF EvaluationInv
    <3>2. stage' = "done" => Coherent(result) BY <3>1, <1>1, FlagsAreCoherent
    <3>3. stage' = "done" => Coherent(result)' BY <3>2, <1>1, CoherentStays
    <3> QED BY <3>3 DEF FlagsFollowRanks, Coherent
  <2> QED BY <1>1, <2>1, <2>2, <2>3, <2>4 DEF EvaluationInv
<1>2. CASE Observe
  <2>1. InPeriod' = InPeriod BY <1>2 DEF Observe, InPeriod
  <2>2. stage' \in {"refused", "score"} BY <1>2 DEF Observe
  <2>3. stage' \in BuiltStages =>
          /\ observations' = BuildDaily(InPeriod, PeriodStart, PeriodEnd)
          /\ ~SplitRefused(observations, Cutoff)'
    BY <1>2 DEF Observe, BuiltStages
  <2>4. FlagsFollowRanks' BY <2>2 DEF FlagsFollowRanks
  <2> QED BY <1>2, <2>1, <2>2, <2>3, <2>4 DEF Observe, EvaluationInv
<1>3. CASE ScoreHoldout
  <2>1. InPeriod' = InPeriod /\ Tested' = Tested BY <1>3 DEF ScoreHoldout, InPeriod, Tested
  <2>2. stage = "score" /\ stage' = "evaluate" /\ score' \in [Tested -> Scores]
    BY <1>3 DEF ScoreHoldout
  <2>3. FlagsFollowRanks' BY <2>2 DEF FlagsFollowRanks
  <2>4. SplitRefused(observations, Cutoff)' <=> SplitRefused(observations, Cutoff)
    BY <1>3 DEF ScoreHoldout
  <2> QED BY <1>3, <2>1, <2>2, <2>3, <2>4 DEF ScoreHoldout, EvaluationInv, BuiltStages
<1>4. CASE Evaluate
  <2>1. InPeriod' = InPeriod /\ Tested' = Tested BY <1>4 DEF Evaluate, InPeriod, Tested
  <2>2. stage = "evaluate" /\ stage' = "done" /\ result' = EvaluateHoldout
    BY <1>4 DEF Evaluate
  <2>3. Coherent(EvaluateHoldout) BY <2>2, EvaluationCoheres
  <2>4. Coherent(result)'
    <3>1. Coherent(result') BY <2>2, <2>3
    <3> QED BY <3>1, <1>4 DEF Evaluate, Coherent, Tested, Holdout
  <2>5. FlagsFollowRanks' BY <2>4 DEF FlagsFollowRanks, Coherent
  <2>6. SplitRefused(observations, Cutoff)' <=> SplitRefused(observations, Cutoff)
    BY <1>4 DEF Evaluate
  <2> QED BY <1>4, <2>1, <2>2, <2>5, <2>6 DEF Evaluate, EvaluationInv, BuiltStages
<1>5. ASSUME NEW user, NEW w, Analyze(user, w) PROVE EvaluationInv'
  BY <1>1, <1>5 DEF Analyze
<1>6. CASE UNCHANGED vars BY <1>1, <1>6 DEF vars
<1> QED BY <1>2, <1>3, <1>4, <1>5, <1>6 DEF Next

(* The flags, the ranks, the scores and the counts of an evaluation agree. *)
THEOREM EvaluationHangsTogether == Spec => []FlagsFollowRanks
<1>1. EvaluationInv => FlagsFollowRanks BY DEF EvaluationInv
<1> QED BY EvaluationInitInv, EvaluationStep, <1>1, PTL DEF Spec

(* The observations partition the events of the period, with the features  *)
(* of all their events, and none after the cutoff is fitted on             *)
(* (build_daily_observations, chronological_split).                        *)
THEOREM EventsArePartitioned == Spec => []ObservationsPartition
<1> QED BY EvaluationInitInv, EvaluationStep, PartitionFollows, PTL DEF Spec

-----------------------------------------------------------------------------
(* The analysis of a user. *)

\* The analysis of a whole day of the period is of that day's observation.
LEMMA DayAnalyzed ==
  ASSUME EvaluationInv, NEW user \in Users, NEW start \in Int, start % Day = 0,
         PeriodStart <= start, start + Day <= PeriodEnd,
         NEW w, w = <<start, start + Day>>, Analyze(user, w)
  PROVE  analysis' \in observations
<1> DEFINE P == InPeriod
           entity == <<"user", user>>
           events == {e \in EventsOf(user) : w[1] <= e.time /\ e.time < w[2]}
<1>1. IsDataset(dataset) /\ IsDataset(P) /\ observations = Days(P)
  BY PeriodDays DEF Analyze, BuiltStages
<1>2. /\ Cardinality(events) >= MinimumEvents
      /\ analysis' = Observation(events, entity, w[1], w[2])
  BY DEF Analyze
<1>3. w[1] = start /\ w[2] = start + Day OBVIOUS
<1>4. user # NoUser BY DEF Users
<1>5. PeriodStart \in Int /\ PeriodEnd \in Int /\ Day \in Nat /\ start + Day \in Int
  BY PeriodAssumption, TicksAssumption
<1>6. \A e \in dataset : e.time \in Int BY <1>1 DEF IsDataset
<1>7. \A e \in events : /\ e \in P /\ e.time \in Int /\ start <= e.time
                        /\ e.time < start + Day /\ EntityOf(e) = entity
  <2> SUFFICES ASSUME NEW e \in events
               PROVE  /\ e \in P /\ e.time \in Int /\ start <= e.time
                      /\ e.time < start + Day /\ EntityOf(e) = entity
    OBVIOUS
  <2>1. e \in dataset /\ e.user = user /\ start <= e.time /\ e.time < start + Day
    BY <1>3 DEF EventsOf
  <2>2. e.time \in Int BY <2>1, <1>6
  <2>3. PeriodStart <= e.time /\ e.time < PeriodEnd BY <2>1, <2>2, <1>5
  <2>4. EntityOf(e) = entity BY <2>1, <1>4 DEF EntityOf
  <2> QED BY <2>1, <2>2, <2>3, <2>4 DEF InPeriod
<1>8. events # {}
  <2>1. Cardinality({}) = 0 BY FS_EmptySet
  <2>2. ~(0 >= MinimumEvents) BY PeriodAssumption
  <2> HIDE DEF events
  <2> QED BY <1>2, <2>1, <2>2
<1>9. PICK d \in events : TRUE BY <1>8
<1>10. \A e \in P : e \in events <=> DayStart(e.time) = start /\ EntityOf(e) = entity
  <2> SUFFICES ASSUME NEW e \in P
               PROVE  e \in events <=> DayStart(e.time) = start /\ EntityOf(e) = entity
    OBVIOUS
  <2>1. e \in dataset /\ e.time \in Int BY <1>6 DEF InPeriod
  <2>2. e \in events => DayStart(e.time) = start /\ EntityOf(e) = entity
    BY <1>7, OneDay
  <2>3. ASSUME DayStart(e.time) = start, EntityOf(e) = entity PROVE e \in events
    <3>1. start <= e.time /\ e.time < start + Day BY <2>1, <2>3, DayOfTime
    <3>2. e.user = user BY <2>3 DEF EntityOf
    <3> QED BY <2>1, <3>1, <3>2, <1>3 DEF EventsOf
  <2> QED BY <2>2, <2>3
<1> HIDE DEF events, P
<1>11. d \in P /\ DayStart(d.time) = start /\ EntityOf(d) = entity BY <1>7, <1>9, <1>10
<1>12. DayGroup(P, d) = events BY <1>7, <1>10, <1>11 DEF DayGroup
<1>13. Selected(events, entity, start, start + Day) = events BY <1>7 DEF Selected
<1>14. Observation(events, entity, start, start + Day) = DayOf(P, d)
  BY <1>11, <1>12, <1>13 DEF Observation, DayOf
<1> QED BY <1>1, <1>2, <1>3, <1>11, <1>14 DEF Days

\* A whole day that holds a time of the period lies within it.
LEMMA DayInPeriod ==
  ASSUME NEW t \in Int, PeriodStart <= t, t < PeriodEnd
  PROVE  PeriodStart <= DayStart(t) /\ DayStart(t) + Day <= PeriodEnd
<1> DEFINE a == PeriodStart \div Day
           b == PeriodEnd \div Day
           q == t \div Day
<1>1. /\ PeriodStart \in Int /\ PeriodEnd \in Int /\ Day \in Nat \ {0}
      /\ PeriodStart % Day = 0 /\ PeriodEnd % Day = 0
  BY PeriodAssumption, TicksAssumption
<1>2. /\ a \in Int /\ b \in Int /\ q \in Int
      /\ PeriodStart = Day * a /\ PeriodEnd = Day * b
  BY <1>1, Quotient
<1>3. /\ DayStart(t) \in Int /\ DayStart(t) <= t /\ t < DayStart(t) + Day
      /\ DayStart(t) = Day * q
  BY DayOfTime
<1> HIDE DEF a, b, q
<1>4. Day * a < Day * q + Day /\ Day * q < Day * b BY <1>1, <1>2, <1>3
<1>5. a <= q /\ q + 1 <= b BY <1>1, <1>2, <1>4, MultiplesOrdered
<1>6. Day * a <= Day * q /\ Day * (q + 1) <= Day * b BY <1>1, <1>2, <1>5, MultiplesGrow
<1>7. Day * (q + 1) = Day * q + Day /\ Day * q \in Int BY <1>1, <1>2
<1> QED BY <1>1, <1>2, <1>3, <1>6, <1>7

ServedStep ==
  \A user \in Users :
     LET last == Max({e.time : e \in EventsOf(user)})
         InThePeriod(w) == PeriodStart <= w[1] /\ w[2] <= PeriodEnd
     IN  /\ \A w \in Windows :
              Analyze(user, w) /\ InThePeriod(w) /\ w[1] % Day = 0 /\ w[2] = w[1] + Day
                => analysis' \in observations
         /\ Analyze(user, DefaultWindow(user)) =>
              /\ analysis'.start <= last /\ last < analysis'.end
              /\ PeriodStart <= last /\ last < PeriodEnd
                   => analysis' \in observations

\* Every analysis is of the observation of its day.
LEMMA AnalysesAreOfDays ==
  ASSUME EvaluationInv
  PROVE  ServedStep
<1> SUFFICES ASSUME NEW user \in Users
             PROVE  LET last == Max({e.time : e \in EventsOf(user)})
                        InThePeriod(w) == PeriodStart <= w[1] /\ w[2] <= PeriodEnd
                    IN  /\ \A w \in Windows :
                             /\ Analyze(user, w) /\ InThePeriod(w)
                             /\ w[1] % Day = 0 /\ w[2] = w[1] + Day
                             => analysis' \in observations
                        /\ Analyze(user, DefaultWindow(user)) =>
                             /\ analysis'.start <= last /\ last < analysis'.end
                             /\ PeriodStart <= last /\ last < PeriodEnd
                                  => analysis' \in observations
  BY DEF ServedStep
<1> DEFINE times == {e.time : e \in EventsOf(user)}
           last == Max(times)
<1>1. ASSUME NEW w \in Windows, Analyze(user, w), PeriodStart <= w[1], w[2] <= PeriodEnd,
             w[1] % Day = 0, w[2] = w[1] + Day
      PROVE  analysis' \in observations
  <2>1. w[1] \in Int /\ w = <<w[1], w[1] + Day>> BY <1>1, PeriodAssumption
  <2>2. w[1] + Day <= PeriodEnd BY <1>1
  <2> QED BY <1>1, <2>1, <2>2, DayAnalyzed
<1>2. last \in Int
  <2>1. IsDataset(dataset) BY PeriodDays
  <2>2. EventsOf(user) \in SUBSET dataset /\ EventsOf(user) # {} BY DEF EventsOf, Users
  <2>3. IsFiniteSet(EventsOf(user)) /\ times \in SUBSET Int /\ times # {}
    BY <2>1, <2>2, FS_Subset DEF IsDataset
  <2> DEFINE f == [e \in EventsOf(user) |-> e.time]
  <2>4. f \in Surjection(EventsOf(user), times) BY DEF Surjection
  <2> HIDE DEF f, times
  <2>5. IsFiniteSet(times) BY <2>3, <2>4, FS_Surjection
  <2> QED BY <2>3, <2>5, Extrema
<1>3. DefaultWindow(user) = <<DayStart(last), DayStart(last) + Day>> BY DEF DefaultWindow
<1> HIDE DEF last
<1>4. DayStart(last) \in Int /\ DayStart(last) <= last /\ last < DayStart(last) + Day
      /\ DayStart(last) % Day = 0
  BY <1>2, DayOfTime, Midnight
<1>5. ASSUME Analyze(user, DefaultWindow(user))
      PROVE  /\ analysis'.start <= last /\ last < analysis'.end
             /\ PeriodStart <= last /\ last < PeriodEnd => analysis' \in observations
  <2>1. analysis'.start = DayStart(last) /\ analysis'.end = DayStart(last) + Day
    BY <1>3, <1>5 DEF Analyze, Observation
  <2>2. ASSUME PeriodStart <= last, last < PeriodEnd PROVE analysis' \in observations
    <3>1. PeriodStart <= DayStart(last) /\ DayStart(last) + Day <= PeriodEnd
      BY <1>2, <2>2, DayInPeriod
    <3> QED BY <1>3, <1>4, <1>5, <3>1, DayAnalyzed
  <2> QED BY <1>4, <2>1, <2>2
<1> QED BY <1>1, <1>5 DEF last

(* The API analyses a day as the training and the evaluation saw it, and   *)
(* the default window is the day of the user's last event (_analyze_user,  *)
(* default_user_window).                                                   *)
THEOREM ServedDays == Spec => ServedAsTrained
<1>1. EvaluationInv => [ServedStep]_vars BY AnalysesAreOfDays
<1> QED BY EvaluationInitInv, EvaluationStep, <1>1, PTL DEF Spec, ServedAsTrained, ServedStep
=============================================================================
