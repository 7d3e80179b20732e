---------------------- MODULE DailyObservationsProofs ----------------------
(***************************************************************************)
(* What sorting, the extrema of finite sets and the features compute, for  *)
(* any finite set of events, and that the daily observations partition     *)
(* them.                                                                   *)
(***************************************************************************)
EXTENDS DailyObservations, FiniteSetTheorems, SequenceTheorems, TLAPS

-----------------------------------------------------------------------------
(* Orders and places. *)

IsOrder(R, S) ==
  /\ \A x \in S : <<x, x>> \notin R
  /\ \A x, y, z \in S : <<x, y>> \in R /\ <<y, z>> \in R => <<x, z>> \in R
  /\ \A x, y \in S : x = y \/ <<x, y>> \in R \/ <<y, x>> \in R

Below(x, R, S) == {y \in S : <<y, x>> \in R}

(* A sequence that lists the set S, each element once, as R orders it. *)
Lists(s, S, R) ==
  /\ s \in [1..Cardinality(S) -> S]
  /\ \A x \in S : \E i \in 1..Cardinality(S) : s[i] = x
  /\ \A i, j \in 1..Cardinality(S) : <<s[i], s[j]>> \in R <=> i < j

\* The number of elements below grows along the order.
LEMMA BelowGrows ==
  ASSUME NEW S, IsFiniteSet(S), NEW R, IsOrder(R, S), NEW x \in S, NEW y \in S
  PROVE  /\ Cardinality(Below(x, R, S)) \in Nat
         /\ Cardinality(Below(x, R, S)) < Cardinality(S)
         /\ <<x, y>> \in R <=> Cardinality(Below(x, R, S)) < Cardinality(Below(y, R, S))
<1>1. ASSUME NEW a \in S
      PROVE  /\ Cardinality(Below(a, R, S)) \in Nat
             /\ Cardinality(Below(a, R, S)) < Cardinality(S)
  <2>1. Below(a, R, S) \in SUBSET S /\ Below(a, R, S) # S BY DEF Below, IsOrder
  <2> QED BY <2>1, FS_Subset, FS_CardinalityType
<1>2. ASSUME NEW a \in S, NEW b \in S, <<a, b>> \in R
      PROVE  Cardinality(Below(a, R, S)) < Cardinality(Below(b, R, S))
  <2>1. Below(a, R, S) \in SUBSET Below(b, R, S) BY <1>2 DEF Below, IsOrder
  <2>2. Below(a, R, S) # Below(b, R, S) BY <1>2 DEF Below, IsOrder
  <2>3. Below(b, R, S) \in SUBSET S BY DEF Below
  <2>4. IsFiniteSet(Below(b, R, S)) BY <2>3, FS_Subset
  <2>5. Cardinality(Below(a, R, S)) <= Cardinality(Below(b, R, S))
        /\ Cardinality(Below(b, R, S)) # Cardinality(Below(a, R, S))
    BY <2>1, <2>2, <2>4, FS_Subset
  <2> QED BY <2>5, <1>1
<1>3. <<x, y>> \in R => Cardinality(Below(x, R, S)) < Cardinality(Below(y, R, S))
  BY <1>2
<1>4. <<y, x>> \in R => Cardinality(Below(y, R, S)) < Cardinality(Below(x, R, S))
  BY <1>2
<1>5. x = y \/ <<x, y>> \in R \/ <<y, x>> \in R BY DEF IsOrder
<1>6. x = y => <<x, y>> \notin R BY DEF IsOrder
<1> QED BY <1>1, <1>3, <1>4, <1>5, <1>6

\* Listing by the number of elements below is sorting.
LEMMA PlacesList ==
  ASSUME NEW S, IsFiniteSet(S), NEW R, IsOrder(R, S), NEW s,
         s = [i \in 1..Cardinality(S) |->
                CHOOSE x \in S : Cardinality(Below(x, R, S)) + 1 = i]
  PROVE  Lists(s, S, R)
<1> DEFINE n == Cardinality(S)
           p == [x \in S |-> Cardinality(Below(x, R, S)) + 1]
<1>0. n \in Nat BY FS_CardinalityType
<1>a. \A x, y \in S :
        /\ Cardinality(Below(x, R, S)) \in Nat /\ Cardinality(Below(x, R, S)) < n
        /\ <<x, y>> \in R <=> Cardinality(Below(x, R, S)) < Cardinality(Below(y, R, S))
  BY BelowGrows
<1>b. \A x \in S : p[x] \in 1..n
  <2> SUFFICES ASSUME NEW x \in S PROVE p[x] \in 1..n OBVIOUS
  <2>1. p[x] = Cardinality(Below(x, R, S)) + 1 OBVIOUS
  <2> DEFINE c == Cardinality(Below(x, R, S))
  <2>2. c \in Nat /\ c < n BY <1>a
  <2> HIDE DEF c, n
  <2>3. c + 1 \in 1..n BY <1>0, <2>2
  <2> QED BY <2>1, <2>3 DEF c
<1>1. p \in [S -> 1..n] BY <1>b
<1>2. \A x, y \in S : <<x, y>> \in R <=> p[x] < p[y]
  <2> SUFFICES ASSUME NEW x \in S, NEW y \in S
               PROVE  <<x, y>> \in R <=> p[x] < p[y]
    OBVIOUS
  <2> DEFINE c == Cardinality(Below(x, R, S))
             d == Cardinality(Below(y, R, S))
  <2>1. p[x] = c + 1 /\ p[y] = d + 1 OBVIOUS
  <2>2. c \in Nat /\ d \in Nat /\ (<<x, y>> \in R <=> c < d) BY <1>a
  <2> HIDE DEF c, d, p
  <2> QED BY <2>1, <2>2
<1>3. \A x, y \in S : p[x] = p[y] => x = y BY <1>1, <1>2 DEF IsOrder
<1>4. p \in Injection(S, 1..n) BY <1>1, <1>3 DEF Injection, IsInjective
<1>5. IsFiniteSet(1..n) /\ Cardinality(1..n) = n BY <1>0, FS_Interval
<1>6. p \in Surjection(S, 1..n) BY <1>4, <1>5, FS_Injection
<1>7. \A i \in 1..n : \E x \in S : p[x] = i BY <1>6 DEF Surjection
<1>8. \A i \in 1..n : s[i] \in S /\ p[s[i]] = i
  <2> SUFFICES ASSUME NEW i \in 1..n PROVE s[i] \in S /\ p[s[i]] = i OBVIOUS
  <2>1. \E x \in S : Cardinality(Below(x, R, S)) + 1 = i BY <1>7
  <2>2. s[i] = CHOOSE x \in S : Cardinality(Below(x, R, S)) + 1 = i OBVIOUS
  <2>3. s[i] \in S /\ Cardinality(Below(s[i], R, S)) + 1 = i BY <2>1, <2>2
  <2> QED BY <2>3
<1>9. DOMAIN s = 1..n /\ s = [i \in 1..n |-> s[i]] OBVIOUS
<1>10. s \in [1..n -> S] BY <1>8, <1>9
<1>c. \A x \in S : p[x] \in 1..n /\ \A y \in S : p[x] = p[y] => x = y BY <1>b, <1>3
<1> HIDE DEF p, n
<1>11. \A x \in S : \E i \in 1..n : s[i] = x
  <2> SUFFICES ASSUME NEW x \in S PROVE \E i \in 1..n : s[i] = x OBVIOUS
  <2>1. s[p[x]] \in S /\ p[s[p[x]]] = p[x] BY <1>c, <1>8
  <2> QED BY <1>c, <2>1
<1>12. \A i, j \in 1..n : <<s[i], s[j]>> \in R <=> i < j
  <2> SUFFICES ASSUME NEW i \in 1..n, NEW j \in 1..n
               PROVE  <<s[i], s[j]>> \in R <=> i < j
    OBVIOUS
  <2>1. s[i] \in S /\ s[j] \in S /\ p[s[i]] = i /\ p[s[j]] = j BY <1>8
  <2> QED BY <1>2, <2>1
<1> QED BY <1>10, <1>11, <1>12 DEF Lists, n

\* A list has no element twice.
LEMMA ListsOnce ==
  ASSUME NEW S, IsFiniteSet(S), NEW R, IsOrder(R, S), NEW s, Lists(s, S, R)
  PROVE  /\ Cardinality(S) \in Nat
         /\ \A i, j \in 1..Cardinality(S) : s[i] = s[j] => i = j
<1>1. Cardinality(S) \in Nat BY FS_CardinalityType
<1>2. ASSUME NEW i \in 1..Cardinality(S), NEW j \in 1..Cardinality(S), s[i] = s[j]
      PROVE  i = j
  <2>1. s[i] \in S /\ <<s[i], s[j]>> \notin R /\ <<s[j], s[i]>> \notin R
    BY <1>2 DEF Lists, IsOrder
  <2>2. ~(i < j) /\ ~(j < i) BY <2>1 DEF Lists
  <2> QED BY <1>1, <2>2
<1> QED BY <1>1, <1>2

-----------------------------------------------------------------------------
(* Extrema. *)

\* A finite, non-empty set of integers has a least and a greatest element.
LEMMA Extrema ==
  ASSUME NEW S \in SUBSET Int, IsFiniteSet(S), S # {}
  PROVE  /\ Max(S) \in S /\ \A x \in S : x <= Max(S)
         /\ Min(S) \in S /\ \A x \in S : Min(S) <= x
<1> DEFINE R == {p \in S \X S : p[1] < p[2]}
           s == [i \in 1..Cardinality(S) |->
                   CHOOSE x \in S : Cardinality(Below(x, R, S)) + 1 = i]
           n == Cardinality(S)
<1>1. \A x, y \in S : <<x, y>> \in R <=> x < y OBVIOUS
<1> HIDE DEF R
<1>2. IsOrder(R, S) BY <1>1 DEF IsOrder
<1>3. Lists(s, S, R) BY <1>2, PlacesList
<1>4. n \in Nat /\ n # 0 BY FS_CardinalityType, FS_EmptySet
<1> HIDE DEF s
<1>5. /\ \A i \in 1..n : s[i] \in S /\ s[i] \in Int
      /\ \A x \in S : \E i \in 1..n : s[i] = x
      /\ \A i, j \in 1..n : s[i] < s[j] <=> i < j
  BY <1>1, <1>3 DEF Lists
<1> HIDE DEF n
<1>6. s[n] \in S /\ \A x \in S : x <= s[n]
  <2>1. n \in 1..n BY <1>4
  <2>2. ASSUME NEW x \in S PROVE x <= s[n]
    <3>1. PICK i \in 1..n : s[i] = x BY <1>5
    <3>2. ~(n < i) BY <1>4
    <3>3. ~(s[n] < s[i]) /\ s[n] \in Int /\ s[i] \in Int BY <3>2, <2>1, <1>5
    <3> QED BY <3>1, <3>3
  <2> QED BY <2>1, <2>2, <1>5
<1>7. s[1] \in S /\ \A x \in S : s[1] <= x
  <2>1. 1 \in 1..n BY <1>4
  <2>2. ASSUME NEW x \in S PROVE s[1] <= x
    <3>1. PICK i \in 1..n : s[i] = x BY <1>5
    <3>2. ~(i < 1) BY <1>4
    <3>3. ~(s[i] < s[1]) /\ s[1] \in Int /\ s[i] \in Int BY <3>2, <2>1, <1>5
    <3> QED BY <3>1, <3>3
  <2> QED BY <2>1, <2>2, <1>5
<1>8. Max(S) \in S /\ \A x \in S : Max(S) >= x BY <1>6 DEF Max
<1>9. Min(S) \in S /\ \A x \in S : Min(S) <= x BY <1>7 DEF Min
<1> QED BY <1>8, <1>9

LEMMA GreaterOfTwo ==
  ASSUME NEW a \in Int, NEW b \in Int
  PROVE  /\ Max({a, b}) = a \/ Max({a, b}) = b
         /\ a <= Max({a, b}) /\ b <= Max({a, b})
<1>1. IsFiniteSet({a}) /\ {a, b} = {a} \cup {b} BY FS_Singleton
<1>2. IsFiniteSet({a, b}) BY <1>1, FS_AddElement
<1>3. {a, b} \in SUBSET Int /\ {a, b} # {} /\ a \in {a, b} /\ b \in {a, b} OBVIOUS
<1>4. Max({a, b}) \in {a, b} /\ \A x \in {a, b} : x <= Max({a, b}) BY <1>2, <1>3, Extrema
<1> QED BY <1>4

\* A non-empty set of natural numbers has a least element.
LEMMA LeastNatural ==
  ASSUME NEW S \in SUBSET Nat, NEW n \in S
  PROVE  \E m \in S : \A k \in S : m <= k
<1> DEFINE T == S \cap (0..n)
<1>1. IsFiniteSet(0..n) /\ T \in SUBSET (0..n) BY FS_Interval
<1>2. IsFiniteSet(T) BY <1>1, FS_Subset
<1>3. T \in SUBSET Int /\ n \in T OBVIOUS
<1>4. PICK m \in T : \A k \in T : m <= k BY <1>2, <1>3, Extrema
<1>5. \A k \in S : m <= k BY <1>4
<1> QED BY <1>4, <1>5

-----------------------------------------------------------------------------
(* Days. *)

\* A whole number of days within a day of another is the same number of days.
LEMMA SameMultiple ==
  ASSUME NEW d \in Nat \ {0}, NEW a \in Int, NEW b \in Int,
         d * a < d * b + d, d * b < d * a + d
  PROVE  a = b
<1>1. CASE a > b
  <2>1. d * (a - b) >= d BY <1>1
  <2>2. d * (a - b) = d * a - d * b OBVIOUS
  <2>3. d * a \in Int /\ d * b \in Int OBVIOUS
  <2> QED BY <2>1, <2>2, <2>3
<1>2. CASE b > a
  <2>1. d * (b - a) >= d BY <1>2
  <2>2. d * (b - a) = d * b - d * a OBVIOUS
  <2>3. d * a \in Int /\ d * b \in Int OBVIOUS
  <2> QED BY <2>1, <2>2, <2>3
<1> QED BY <1>1, <1>2

LEMMA MultiplesGrow ==
  ASSUME NEW d \in Nat \ {0}, NEW a \in Int, NEW b \in Int, a <= b
  PROVE  d * a <= d * b
<1>1. d * (b - a) >= 0 OBVIOUS
<1>2. d * (b - a) = d * b - d * a /\ d * a \in Int /\ d * b \in Int OBVIOUS
<1> QED BY <1>1, <1>2

LEMMA MultiplesOrdered ==
  ASSUME NEW d \in Nat \ {0}, NEW a \in Int, NEW b \in Int, d * a < d * b + d
  PROVE  a <= b
<1> SUFFICES ASSUME a >= b + 1 PROVE FALSE OBVIOUS
<1>1. d * (b + 1) <= d * a BY MultiplesGrow
<1>2. d * (b + 1) = d * b + d /\ d * a \in Int /\ d * b \in Int OBVIOUS
<1> QED BY <1>1, <1>2

LEMMA Quotient ==
  ASSUME NEW t \in Int, NEW d \in Nat \ {0}
  PROVE  /\ t \div d \in Int /\ t % d \in 0..(d - 1)
         /\ t = d * (t \div d) + (t % d)
  OBVIOUS

\* The day of a time begins at midnight, and holds it.
LEMMA DayOfTime ==
  ASSUME NEW t \in Int
  PROVE  /\ DayStart(t) \in Int
         /\ DayStart(t) <= t /\ t < DayStart(t) + Day
         /\ DayStart(t) = Day * (t \div Day)
<1>1. t % Day \in 0..(Day - 1) /\ t = Day * (t \div Day) + (t % Day) /\ t \div Day \in Int
  BY TicksAssumption, Quotient
<1>2. Day * (t \div Day) \in Int BY <1>1, TicksAssumption
<1> QED BY <1>1, <1>2, TicksAssumption DEF DayStart

\* No other day holds it.
LEMMA OneDay ==
  ASSUME NEW t \in Int, NEW w \in Int, w % Day = 0, w <= t, t < w + Day
  PROVE  DayStart(t) = w
<1>1. w = Day * (w \div Day) /\ w \div Day \in Int BY TicksAssumption, Quotient
<1>2. DayStart(t) = Day * (t \div Day) /\ t \div Day \in Int
  BY DayOfTime, TicksAssumption, Quotient
<1>3. DayStart(t) \in Int /\ DayStart(t) <= t /\ t < DayStart(t) + Day BY DayOfTime
<1>4. w < DayStart(t) + Day /\ DayStart(t) < w + Day BY <1>3, TicksAssumption
<1> DEFINE a == w \div Day
           b == t \div Day
<1>5. a \in Int /\ b \in Int /\ Day * a < Day * b + Day /\ Day * b < Day * a + Day
  BY <1>1, <1>2, <1>4
<1>6. a = b BY <1>5, SameMultiple, TicksAssumption
<1> QED BY <1>1, <1>2, <1>6

\* Midnight is the start of its own day, and of that many days.
LEMMA Midnight ==
  ASSUME NEW t \in Int
  PROVE  DayStart(t) % Day = 0 /\ DayStart(t) \div Day = t \div Day
<1> DEFINE w == DayStart(t)
<1>1. w \in Int /\ w = Day * (t \div Day) /\ t \div Day \in Int
  BY DayOfTime, TicksAssumption, Quotient
<1>2. w \div Day \in Int /\ w % Day \in 0..(Day - 1) /\ w = Day * (w \div Day) + (w % Day)
  BY <1>1, TicksAssumption, Quotient
<1> DEFINE a == w \div Day
           b == t \div Day
           r == w % Day
<1>3. a \in Int /\ b \in Int /\ r \in 0..(Day - 1) /\ Day * b = Day * a + r
  BY <1>1, <1>2
<1> HIDE DEF a, b, r
<1>4. Day * a \in Int /\ Day * b \in Int BY <1>3, TicksAssumption
<1>5. a = b
  <2>1. Day * a < Day * b + Day /\ Day * b < Day * a + Day BY <1>3, <1>4, TicksAssumption
  <2> QED BY <1>3, <2>1, SameMultiple, TicksAssumption
<1>6. r = 0 BY <1>3, <1>4, <1>5, TicksAssumption
<1> QED BY <1>5, <1>6 DEF a, b, r

-----------------------------------------------------------------------------
(* Events in order. *)

EarlierOn(S) == {p \in S \X S : Earlier(p[1], p[2])}

LEMMA PartOfDataset ==
  ASSUME NEW S, IsDataset(S), NEW T \in SUBSET S
  PROVE  IsDataset(T)
  BY FS_Subset DEF IsDataset

LEMMA EarlierOrders ==
  ASSUME NEW S, IsDataset(S)
  PROVE  IsOrder(EarlierOn(S), S)
<1>1. \A x, y \in S : <<x, y>> \in EarlierOn(S) <=> Earlier(x, y) BY DEF EarlierOn
<1>2. \A x \in S : x.id \in Int /\ x.time \in Int BY DEF IsDataset
<1>3. \A x, y \in S : x.id = y.id => x = y BY DEF IsDataset
<1>4. \A x \in S : ~Earlier(x, x) BY <1>2 DEF Earlier
<1>5. \A x, y, z \in S : Earlier(x, y) /\ Earlier(y, z) => Earlier(x, z)
  BY <1>2 DEF Earlier
<1>6. \A x, y \in S : x = y \/ Earlier(x, y) \/ Earlier(y, x) BY <1>2, <1>3 DEF Earlier
<1> QED BY <1>1, <1>4, <1>5, <1>6 DEF IsOrder

\* The events of a dataset in order: each once, the times never falling.
LEMMA EventsListed ==
  ASSUME NEW S, IsDataset(S)
  PROVE  /\ Cardinality(S) \in Nat
         /\ InOrder(S) \in [1..Cardinality(S) -> S]
         /\ \A e \in S : \E i \in 1..Cardinality(S) : InOrder(S)[i] = e
         /\ \A i, j \in 1..Cardinality(S) :
              /\ InOrder(S)[i] = InOrder(S)[j] => i = j
              /\ i < j => InOrder(S)[i].time <= InOrder(S)[j].time
<1> DEFINE R == EarlierOn(S)
<1>1. IsFiniteSet(S) /\ IsOrder(R, S) BY EarlierOrders DEF IsDataset
<1>2. \A x \in S : {y \in S : Earlier(y, x)} = Below(x, R, S) BY DEF Below, EarlierOn
<1>3. InOrder(S) = [i \in 1..Cardinality(S) |->
                      CHOOSE x \in S : Cardinality(Below(x, R, S)) + 1 = i]
  BY <1>2 DEF InOrder, Sorted, Place
<1> HIDE DEF R
<1>4. Lists(InOrder(S), S, R) BY <1>1, <1>3, PlacesList
<1>5. /\ Cardinality(S) \in Nat
      /\ \A i, j \in 1..Cardinality(S) : InOrder(S)[i] = InOrder(S)[j] => i = j
  BY <1>1, <1>4, ListsOnce
<1>6. \A i, j \in 1..Cardinality(S) : i < j => Earlier(InOrder(S)[i], InOrder(S)[j])
  BY <1>4 DEF Lists, R, EarlierOn
<1>7. \A i, j \in 1..Cardinality(S) : i < j => InOrder(S)[i].time <= InOrder(S)[j].time
  <2> SUFFICES ASSUME NEW i \in 1..Cardinality(S), NEW j \in 1..Cardinality(S), i < j
               PROVE  InOrder(S)[i].time <= InOrder(S)[j].time
    OBVIOUS
  <2>1. InOrder(S)[i] \in S /\ InOrder(S)[j] \in S BY <1>4 DEF Lists
  <2>2. InOrder(S)[i].time \in Int /\ InOrder(S)[j].time \in Int BY <2>1 DEF IsDataset
  <2>3. Earlier(InOrder(S)[i], InOrder(S)[j]) BY <1>6
  <2> QED BY <2>2, <2>3 DEF Earlier
<1> QED BY <1>4, <1>5, <1>7 DEF Lists

-----------------------------------------------------------------------------
(* Observations. *)

DayGroup(S, e) == {f \in S : DayStart(f.time) = DayStart(e.time) /\ EntityOf(f) = EntityOf(e)}

(* The observation of an event's day, of all the events of its group. *)
DayOf(S, e) ==
  [entity   |-> EntityOf(e),
   start    |-> DayStart(e.time),
   end      |-> DayStart(e.time) + Day,
   features |-> Values(DayGroup(S, e)),
   ids      |-> [i \in DOMAIN InOrder(DayGroup(S, e)) |-> InOrder(DayGroup(S, e))[i].id]]

During(S, start, end) == {e \in S : start <= e.time /\ e.time < end}

\* Building the observations selects every event of a group again.
LEMMA DailyAreDays ==
  ASSUME NEW S, IsDataset(S), NEW start, NEW end
  PROVE  BuildDaily(S, start, end)
           = {DayOf(During(S, start, end), e) : e \in During(S, start, end)}
<1> DEFINE A == During(S, start, end)
           GroupOf(e) == <<DayStart(e.time), EntityOf(e)>>
           Group(g) == {e \in A : GroupOf(e) = g}
           Built(g) == Observation(Group(g), g[2], g[1], g[1] + Day)
<1>1. BuildDaily(S, start, end) = {Built(g) : g \in {GroupOf(e) : e \in A}}
  BY DEF BuildDaily, During
<1>2. ASSUME NEW e \in A PROVE Built(GroupOf(e)) = DayOf(A, e)
  <2>1. Group(GroupOf(e)) = DayGroup(A, e) BY DEF DayGroup
  <2>2. \A f \in DayGroup(A, e) :
          DayStart(e.time) <= f.time /\ f.time < DayStart(e.time) + Day
    BY DayOfTime DEF DayGroup, During, IsDataset
  <2>3. Selected(DayGroup(A, e), EntityOf(e), DayStart(e.time), DayStart(e.time) + Day)
          = DayGroup(A, e)
    BY <2>2 DEF Selected, DayGroup
  <2>4. GroupOf(e)[1] = DayStart(e.time) /\ GroupOf(e)[2] = EntityOf(e) OBVIOUS
  <2>5. Built(GroupOf(e))
          = Observation(DayGroup(A, e), EntityOf(e), DayStart(e.time), DayStart(e.time) + Day)
    BY <2>1, <2>4
  <2> QED BY <2>3, <2>5 DEF Observation, DayOf
<1> HIDE DEF A, Built
<1>3. {Built(g) : g \in {GroupOf(e) : e \in A}} = {DayOf(A, e) : e \in A}
  <2>1. \A e \in A : Built(GroupOf(e)) = DayOf(A, e) BY <1>2
  <2> HIDE DEF GroupOf
  <2> QED BY <2>1
<1> QED BY <1>1, <1>3 DEF A

\* The identifiers of an observation are those of its events, each once.
LEMMA IdsOfDay ==
  ASSUME NEW S, IsDataset(S), NEW e \in S
  PROVE  /\ e \in DayGroup(S, e) /\ DayGroup(S, e) \in SUBSET S /\ IsDataset(DayGroup(S, e))
         /\ ToSet(DayOf(S, e).ids) = {f.id : f \in DayGroup(S, e)}
         /\ Len(DayOf(S, e).ids) = Cardinality(DayGroup(S, e))
<1> DEFINE G == DayGroup(S, e)
           n == Cardinality(G)
           ids == [i \in DOMAIN InOrder(G) |-> InOrder(G)[i].id]
<1>1. e \in G /\ G \in SUBSET S BY DEF DayGroup
<1>2. IsDataset(G) BY <1>1, PartOfDataset
<1>3. DayOf(S, e).ids = ids BY DEF DayOf
<1> HIDE DEF G, n
<1>4. /\ n \in Nat /\ DOMAIN InOrder(G) = 1..n
      /\ \A i \in 1..n : InOrder(G)[i] \in G
      /\ \A f \in G : \E i \in 1..n : InOrder(G)[i] = f
  BY <1>2, EventsListed DEF n
<1>5. ToSet(ids) = {f.id : f \in G} BY <1>4 DEF ToSet
<1>6. Len(ids) = n BY <1>4
<1> QED BY <1>1, <1>2, <1>3, <1>5, <1>6 DEF G, n

\* An event of the set is in an observation exactly when it is of its group.
LEMMA EventsOfDay ==
  ASSUME NEW S, IsDataset(S), NEW T \in SUBSET S, NEW e \in T
  PROVE  {f \in S : f.id \in ToSet(DayOf(T, e).ids)} = DayGroup(T, e)
<1>1. IsDataset(T) BY PartOfDataset
<1>2. /\ ToSet(DayOf(T, e).ids) = {f.id : f \in DayGroup(T, e)}
      /\ DayGroup(T, e) \in SUBSET S
  BY <1>1, IdsOfDay
<1>3. \A f, g \in S : f.id = g.id => f = g BY DEF IsDataset
<1> QED BY <1>2, <1>3

\* Events have the same observation exactly when they are of one group.
LEMMA SameDay ==
  ASSUME NEW S, NEW e \in S, NEW f \in S
  PROVE  DayOf(S, e) = DayOf(S, f)
           <=> DayStart(e.time) = DayStart(f.time) /\ EntityOf(e) = EntityOf(f)
<1>1. ASSUME DayOf(S, e) = DayOf(S, f)
      PROVE  DayStart(e.time) = DayStart(f.time) /\ EntityOf(e) = EntityOf(f)
  <2>1. /\ DayOf(S, e).start = DayStart(e.time) /\ DayOf(S, f).start = DayStart(f.time)
        /\ DayOf(S, e).entity = EntityOf(e) /\ DayOf(S, f).entity = EntityOf(f)
    BY DEF DayOf
  <2> QED BY <2>1, <1>1
<1>2. ASSUME DayStart(e.time) = DayStart(f.time), EntityOf(e) = EntityOf(f)
      PROVE  DayOf(S, e) = DayOf(S, f)
  <2>1. DayGroup(S, e) = DayGroup(S, f) BY <1>2 DEF DayGroup
  <2> QED BY <1>2, <2>1 DEF DayOf
<1> QED BY <1>1, <1>2

Days(S) == {DayOf(S, e) : e \in S}

LEMMA DaysFinite ==
  ASSUME NEW S, IsDataset(S)
  PROVE  IsFiniteSet(Days(S))
<1> DEFINE f == [e \in S |-> DayOf(S, e)]
<1>1. f \in Surjection(S, Days(S)) BY DEF Days, Surjection
<1> QED BY <1>1, FS_Surjection DEF IsDataset

\* Day, kind and name tell observations apart, and order them.
LEMMA KeptOrder ==
  ASSUME NEW S, IsDataset(S)
  PROVE  /\ \A a \in Days(S) : ~KeptBefore(a, a)
         /\ \A a, b, c \in Days(S) : KeptBefore(a, b) /\ KeptBefore(b, c) => KeptBefore(a, c)
         /\ \A a, b \in Days(S) : a = b \/ KeptBefore(a, b) \/ KeptBefore(b, a)
<1>1. ASSUME NEW a \in Days(S)
      PROVE  /\ a.start \in Int /\ a.entity[1] \in {"source_ip", "user"}
             /\ a.entity[2] \in Int /\ a.entity = <<a.entity[1], a.entity[2]>>
  <2>1. PICK e \in S : a = DayOf(S, e) BY DEF Days
  <2>2. a.start = DayStart(e.time) /\ a.entity = EntityOf(e) BY <2>1 DEF DayOf
  <2>3. /\ e.time \in Int /\ e.source \in Int
        /\ e.user # NoUser => e.user \in Int
    BY DEF IsDataset
  <2>4. DayStart(e.time) \in Int BY <2>3, DayOfTime
  <2> QED BY <2>2, <2>3, <2>4 DEF EntityOf
<1>2. ASSUME NEW a \in Days(S), NEW b \in Days(S), a.start = b.start, a.entity = b.entity
      PROVE  a = b
  <2>1. PICK e \in S : a = DayOf(S, e) BY DEF Days
  <2>2. PICK f \in S : b = DayOf(S, f) BY DEF Days
  <2>3. /\ a.start = DayStart(e.time) /\ a.entity = EntityOf(e)
        /\ b.start = DayStart(f.time) /\ b.entity = EntityOf(f)
    BY <2>1, <2>2 DEF DayOf
  <2> QED BY <1>2, <2>1, <2>2, <2>3, SameDay
<1>3. Kinds[1] = "source_ip" /\ Kinds[2] = "user" BY DEF Kinds
<1>4. \A a \in Days(S) : ~KeptBefore(a, a) BY <1>1, <1>3 DEF KeptBefore
<1>5. \A a, b, c \in Days(S) : KeptBefore(a, b) /\ KeptBefore(b, c) => KeptBefore(a, c)
  <2> SUFFICES ASSUME NEW a \in Days(S), NEW b \in Days(S), NEW c \in Days(S),
                      KeptBefore(a, b), KeptBefore(b, c)
               PROVE  KeptBefore(a, c)
    OBVIOUS
  <2>1. a.start \in Int /\ b.start \in Int /\ c.start \in Int BY <1>1
  <2>2. a.entity[2] \in Int /\ b.entity[2] \in Int /\ c.entity[2] \in Int BY <1>1
  <2> QED BY <2>1, <2>2, <1>3 DEF KeptBefore
<1>6. \A a, b \in Days(S) : a = b \/ KeptBefore(a, b) \/ KeptBefore(b, a)
  <2> SUFFICES ASSUME NEW a \in Days(S), NEW b \in Days(S),
                      ~KeptBefore(a, b), ~KeptBefore(b, a)
               PROVE  a = b
    OBVIOUS
  <2>1. a.start \in Int /\ b.start \in Int BY <1>1
  <2>2. a.entity[2] \in Int /\ b.entity[2] \in Int BY <1>1
  <2>3. a.entity[1] \in {"source_ip", "user"} /\ b.entity[1] \in {"source_ip", "user"} BY <1>1
  <2>4. a.start = b.start BY <2>1 DEF KeptBefore
  <2>5. a.entity[1] = b.entity[1] BY <2>3, <2>4, <1>3 DEF KeptBefore
  <2>6. a.entity[2] = b.entity[2] BY <2>2, <2>4, <2>5 DEF KeptBefore
  <2>7. a.entity = b.entity BY <1>1, <2>5, <2>6
  <2> QED BY <2>4, <2>7, <1>2
<1> QED BY <1>4, <1>5, <1>6

-----------------------------------------------------------------------------
(* The window of fifteen minutes. *)

\* What has left the window is a head of the queue.
LEMMA ExpireDropsAHead ==
  ASSUME NEW a \in Seq(Int), NEW b \in Int,
         \A j, k \in 1..Len(a) : j < k => a[j] <= a[k]
  PROVE  LET rest == Expire(a, b)
         IN  /\ rest \in Seq(Int) /\ Len(rest) <= Len(a)
             /\ \A k \in 1..Len(rest) : rest[k] = a[Len(a) - Len(rest) + k]
             /\ \A k \in 1..Len(a) : k > Len(a) - Len(rest) <=> a[k] >= b
<1> DEFINE stay == {i \in DOMAIN a : a[i] >= b}
           n == Len(a)
<1>1. n \in Nat /\ DOMAIN a = 1..n /\ \A k \in 1..n : a[k] \in Int OBVIOUS
<1>2. CASE stay = {}
  <2>1. Expire(a, b) = <<>> BY <1>2 DEF Expire
  <2>2. \A k \in 1..n : ~(a[k] >= b) BY <1>1, <1>2
  <2> QED BY <1>1, <2>1, <2>2
<1>3. CASE stay # {}
  <2> DEFINE m == Min(stay)
             rest == SubSeq(a, m, n)
  <2>1. Expire(a, b) = rest BY <1>3 DEF Expire
  <2>2. stay \in SUBSET (1..n) /\ IsFiniteSet(1..n) BY <1>1, FS_Interval
  <2>3. IsFiniteSet(stay) BY <2>2, FS_Subset
  <2>4. stay \in SUBSET Int BY <1>1
  <2>5. m \in stay /\ \A i \in stay : m <= i BY <1>3, <2>3, <2>4, Extrema
  <2>6. m \in 1..n /\ a[m] >= b BY <2>5, <1>1
  <2> HIDE DEF m
  <2>7. rest \in Seq(Int) /\ Len(rest) = n - m + 1
    BY <1>1, <2>6, SubSeqProperties
  <2>8. \A k \in 1..(n - m + 1) : rest[k] = a[m + k - 1]
    BY <1>1, <2>6, SubSeqProperties
  <2>9. \A k \in 1..n : k >= m <=> a[k] >= b
    <3> SUFFICES ASSUME NEW k \in 1..n PROVE k >= m <=> a[k] >= b OBVIOUS
    <3>1. a[k] \in Int /\ a[m] \in Int BY <1>1, <2>6
    <3>2. k >= m => a[k] >= a[m] BY <3>1, <2>6
    <3>3. a[k] >= b => k >= m BY <1>1, <2>5
    <3> QED BY <3>1, <3>2, <3>3, <2>6
  <2> HIDE DEF rest, stay, n
  <2>a. n - Len(rest) = m - 1 /\ Len(rest) <= n BY <1>1, <2>6, <2>7
  <2>b. \A k \in 1..Len(rest) : rest[k] = a[n - Len(rest) + k]
    <3> SUFFICES ASSUME NEW k \in 1..Len(rest) PROVE rest[k] = a[n - Len(rest) + k] OBVIOUS
    <3>1. k \in 1..(n - m + 1) /\ n - Len(rest) + k = m + k - 1 BY <1>1, <2>6, <2>7, <2>a
    <3> QED BY <3>1, <2>8
  <2>c. \A k \in 1..n : k > n - Len(rest) <=> a[k] >= b BY <1>1, <2>6, <2>9, <2>a
  <2> QED BY <2>1, <2>7, <2>a, <2>b, <2>c DEF n
<1> QED BY <1>2, <1>3

(* The window after one more event at the time now. *)
Slide(last, now) ==
  LET active == Append(Expire(last.active, now - Burst), now)
  IN  [active |-> active, maximum |-> Max({last.maximum, Len(active)})]

IsWindow(w, n, ordered) ==
  w = [i \in 0..n |-> IF i = 0 THEN [active |-> <<>>, maximum |-> 0]
                      ELSE Slide(w[i - 1], ordered[i].time)]

\* The recursion that slides the window has a solution of any length.
LEMMA WindowExists ==
  ASSUME NEW n \in Nat, NEW ordered
  PROVE  \E w : IsWindow(w, n, ordered)
<1> DEFINE Bad == {m \in 0..n : ~\E w : IsWindow(w, m, ordered)}
<1> SUFFICES ASSUME n \in Bad PROVE FALSE OBVIOUS
<1>1. Bad \in SUBSET Nat OBVIOUS
<1>2. PICK m \in Bad : \A k \in Bad : m <= k BY <1>1, LeastNatural
<1>3. m \in 0..n /\ ~\E w : IsWindow(w, m, ordered) BY <1>2
<1>4. CASE m = 0
  <2> DEFINE w == [i \in 0..0 |-> [active |-> <<>>, maximum |-> 0]]
  <2>1. w = [i \in 0..0 |-> IF i = 0 THEN [active |-> <<>>, maximum |-> 0]
                            ELSE Slide(w[i - 1], ordered[i].time)]
    OBVIOUS
  <2>2. IsWindow(w, 0, ordered) BY <2>1 DEF IsWindow
  <2> QED BY <1>3, <1>4, <2>2
<1>5. CASE m # 0
  <2>1. m - 1 \in 0..n /\ m - 1 \notin Bad BY <1>2, <1>3, <1>5
  <2>2. PICK v : IsWindow(v, m - 1, ordered) BY <2>1
  <2> DEFINE w == [i \in 0..m |-> IF i = 0 THEN [active |-> <<>>, maximum |-> 0]
                                  ELSE Slide(v[i - 1], ordered[i].time)]
  <2>3. \A i \in 0..(m - 1) : w[i] = v[i]
    <3> SUFFICES ASSUME NEW i \in 0..(m - 1) PROVE w[i] = v[i] OBVIOUS
    <3>1. v[i] = IF i = 0 THEN [active |-> <<>>, maximum |-> 0]
                 ELSE Slide(v[i - 1], ordered[i].time)
      BY <2>2 DEF IsWindow
    <3>2. i \in 0..m BY <1>3
    <3> QED BY <3>1, <3>2
  <2>4. w = [i \in 0..m |-> IF i = 0 THEN [active |-> <<>>, maximum |-> 0]
                            ELSE Slide(w[i - 1], ordered[i].time)]
    <3>1. ASSUME NEW i \in 0..m, i # 0 PROVE w[i - 1] = v[i - 1]
      <4> HIDE DEF w
      <4>1. i - 1 \in 0..(m - 1) BY <1>3, <3>1
      <4> QED BY <2>3, <4>1
    <3> QED BY <3>1
  <2>5. IsWindow(w, m, ordered) BY <2>4 DEF IsWindow
  <2> QED BY <1>3, <2>5
<1> QED BY <1>4, <1>5

LEMMA BurstOfWindow ==
  ASSUME NEW S, IsDataset(S)
  PROVE  \E w : /\ IsWindow(w, Cardinality(S), InOrder(S))
                /\ MaxEventsIn15m(S) = w[Cardinality(S)].maximum
<1> DEFINE w == CHOOSE w : IsWindow(w, Cardinality(S), InOrder(S))
<1>1. Cardinality(S) \in Nat BY EventsListed
<1>2. IsWindow(w, Cardinality(S), InOrder(S)) BY <1>1, WindowExists
<1>3. MaxEventsIn15m(S) = w[Cardinality(S)].maximum
  BY DEF MaxEventsIn15m, IsWindow, Slide
<1> QED BY <1>2, <1>3

(* The queue after i events at the times t: those within fifteen minutes. *)
Queue(a, i, t) ==
  /\ a \in Seq(Int) /\ Len(a) <= i /\ (i > 0 => Len(a) > 0)
  /\ \A k \in 1..Len(a) : a[k] = t[i - Len(a) + k]
  /\ i > 0 => \A j \in 1..i : j > i - Len(a) <=> t[j] >= t[i] - Burst

LEMMA QueueSlides ==
  ASSUME NEW n \in Nat, NEW t \in [1..n -> Int],
         \A j, k \in 1..n : j < k => t[j] <= t[k],
         NEW i \in 1..n, NEW a, Queue(a, i - 1, t)
  PROVE  Queue(Append(Expire(a, t[i] - Burst), t[i]), i, t)
<1> DEFINE b == t[i] - Burst
           rest == Expire(a, b)
           new == Append(rest, t[i])
           L == Len(a)
           M == Len(rest)
<1>1. b \in Int /\ t[i] \in Int /\ b <= t[i] BY TicksAssumption
<1>2. a \in Seq(Int) /\ L \in Nat /\ L <= i - 1 BY DEF Queue
<1>3. \A k \in 1..L : a[k] = t[i - 1 - L + k] /\ i - 1 - L + k \in 1..(i - 1)
  BY <1>2 DEF Queue
<1>4. \A j, k \in 1..L : j < k => a[j] <= a[k]
  <2> SUFFICES ASSUME NEW j \in 1..L, NEW k \in 1..L, j < k PROVE a[j] <= a[k] OBVIOUS
  <2> DEFINE x == i - 1 - L + j
             y == i - 1 - L + k
  <2>1. a[j] = t[x] /\ a[k] = t[y] /\ x \in 1..(i - 1) /\ y \in 1..(i - 1) BY <1>3
  <2>2. x < y BY <1>2
  <2> HIDE DEF x, y
  <2> QED BY <2>1, <2>2
<1>5. /\ rest \in Seq(Int) /\ M <= L
      /\ \A k \in 1..M : rest[k] = a[L - M + k]
      /\ \A k \in 1..L : k > L - M <=> a[k] >= b
  BY <1>1, <1>2, <1>4, ExpireDropsAHead
<1> HIDE DEF b, rest
<1>6. M \in Nat BY <1>5
<1>7. /\ new \in Seq(Int) /\ Len(new) = M + 1 /\ new[M + 1] = t[i]
      /\ \A k \in 1..M : new[k] = rest[k]
  BY <1>1, <1>5
<1> HIDE DEF new, L, M
<1>8. M + 1 <= i BY <1>2, <1>5, <1>6
<1>9. \A k \in 1..(M + 1) : new[k] = t[i - (M + 1) + k]
  <2> SUFFICES ASSUME NEW k \in 1..(M + 1) PROVE new[k] = t[i - (M + 1) + k] OBVIOUS
  <2>1. CASE k = M + 1 BY <2>1, <1>6, <1>7
  <2>2. CASE k # M + 1
    <3>1. k \in 1..M /\ L - M + k \in 1..L BY <2>2, <1>2, <1>5, <1>6
    <3>2. new[k] = a[L - M + k] BY <3>1, <1>5, <1>7
    <3>3. a[L - M + k] = t[i - 1 - L + (L - M + k)] BY <3>1, <1>3
    <3>4. i - 1 - L + (L - M + k) = i - (M + 1) + k BY <1>2, <1>6
    <3> QED BY <3>2, <3>3, <3>4
  <2> QED BY <2>1, <2>2
<1>10. ASSUME NEW j \in 1..i PROVE j > i - (M + 1) <=> t[j] >= b
  <2>1. CASE j = i BY <2>1, <1>1, <1>6
  <2>2. CASE j # i /\ j > i - 1 - L
    <3> DEFINE k == j - (i - 1 - L)
    <3>1. k \in 1..L /\ i - 1 - L + k = j BY <2>2, <1>2
    <3>2. a[k] = t[j] BY <3>1, <1>3
    <3>3. k > L - M <=> a[k] >= b BY <3>1, <1>5
    <3>4. k > L - M <=> j > i - (M + 1) BY <1>2, <1>6
    <3> QED BY <3>2, <3>3, <3>4
  <2>3. CASE j # i /\ ~(j > i - 1 - L)
    <3>1. i - 1 > 0 /\ j \in 1..(i - 1) BY <2>3, <1>2
    <3>2. ~(t[j] >= t[i - 1] - Burst) BY <3>1, <2>3 DEF Queue, L
    <3>3. t[i - 1] <= t[i] /\ t[i - 1] \in Int /\ t[j] \in Int BY <3>1
    <3>4. ~(t[j] >= b) BY <3>2, <3>3, <1>1, TicksAssumption DEF b
    <3>5. ~(j > i - (M + 1)) BY <2>3, <1>2, <1>5, <1>6
    <3> QED BY <3>4, <3>5
  <2> QED BY <2>1, <2>2, <2>3
<1>11. Queue(new, i, t)
  <2>1. \A k \in 1..Len(new) : new[k] = t[i - Len(new) + k] BY <1>7, <1>9
  <2>2. \A j \in 1..i : j > i - Len(new) <=> t[j] >= t[i] - Burst BY <1>7, <1>10 DEF b
  <2> QED BY <1>6, <1>7, <1>8, <2>1, <2>2 DEF Queue
<1> QED BY <1>11 DEF new, rest, b

\* After every event the queue is the window, and the maximum that of all windows.
LEMMA WindowHolds ==
  ASSUME NEW S, IsDataset(S), NEW w, IsWindow(w, Cardinality(S), InOrder(S)),
         NEW t, t = [i \in 1..Cardinality(S) |-> InOrder(S)[i].time]
  PROVE  \A i \in 0..Cardinality(S) :
           /\ Queue(w[i].active, i, t)
           /\ w[i].maximum \in Nat
           /\ \A k \in 0..i : Len(w[k].active) \in 0..w[i].maximum
           /\ \E k \in 0..i : w[i].maximum = Len(w[k].active)
<1> DEFINE n == Cardinality(S)
           Good(i) == /\ Queue(w[i].active, i, t)
                      /\ w[i].maximum \in Nat
                      /\ \A k \in 0..i : Len(w[k].active) \in 0..w[i].maximum
                      /\ \E k \in 0..i : w[i].maximum = Len(w[k].active)
           Bad == {i \in 0..n : ~Good(i)}
<1>1. n \in Nat /\ \A i \in 1..n : t[i] = InOrder(S)[i].time BY EventsListed
<1>2. t \in [1..n -> Int] /\ \A j, k \in 1..n : j < k => t[j] <= t[k]
  BY EventsListed DEF IsDataset
<1>3. \A i \in 0..n : w[i] = IF i = 0 THEN [active |-> <<>>, maximum |-> 0]
                             ELSE Slide(w[i - 1], InOrder(S)[i].time)
  BY DEF IsWindow
<1> HIDE DEF n
<1>4. Good(0)
  <2>1. w[0].active = <<>> /\ w[0].maximum = 0 BY <1>1, <1>3
  <2>2. Queue(<<>>, 0, t) BY DEF Queue
  <2>3. \A k \in 0..0 : k = 0 OBVIOUS
  <2>4. 0 \in 0..0 /\ Len(<<>>) = 0 OBVIOUS
  <2> QED BY <2>1, <2>2, <2>3, <2>4
<1>5. ASSUME NEW i \in 1..n, Good(i - 1) PROVE Good(i)
  <2> DEFINE old == w[i - 1]
             now == t[i]
             active == Append(Expire(old.active, now - Burst), now)
  <2>1. w[i] = Slide(old, now) BY <1>1, <1>3
  <2>2. w[i].active = active /\ w[i].maximum = Max({old.maximum, Len(active)})
    BY <2>1 DEF Slide
  <2>3. Queue(active, i, t) BY <1>1, <1>2, <1>5, QueueSlides
  <2> HIDE DEF active
  <2>4. Len(active) \in Nat /\ old.maximum \in Nat BY <1>5, <2>3 DEF Queue
  <2> DEFINE m == Max({old.maximum, Len(active)})
  <2>6. /\ m = old.maximum \/ m = Len(active)
        /\ old.maximum <= m /\ Len(active) <= m
    <3>1. old.maximum \in Int /\ Len(active) \in Int BY <2>4
    <3> QED BY <3>1, GreaterOfTwo
  <2> HIDE DEF m
  <2>7. m \in Nat BY <2>4, <2>6
  <2>8. w[i].maximum = m BY <2>2 DEF m
  <2>9. ASSUME NEW k \in 0..i PROVE Len(w[k].active) \in 0..m
    <3>1. CASE k = i BY <3>1, <2>2, <2>4, <2>6, <2>7
    <3>2. CASE k # i
      <4>1. k \in 0..(i - 1) BY <3>2, <1>1
      <4>2. Len(w[k].active) \in 0..old.maximum BY <4>1, <1>5
      <4> QED BY <4>2, <2>4, <2>6, <2>7
    <3> QED BY <3>1, <3>2
  <2>10. \E k \in 0..i : m = Len(w[k].active)
    <3>1. CASE m = Len(active) BY <3>1, <2>2, <1>1
    <3>2. CASE m = old.maximum
      <4>1. PICK k \in 0..(i - 1) : old.maximum = Len(w[k].active) BY <1>5
      <4>2. k \in 0..i BY <1>1
      <4> QED BY <3>2, <4>1, <4>2
    <3> QED BY <2>6, <3>1, <3>2
  <2> QED BY <2>2, <2>3, <2>7, <2>8, <2>9, <2>10
<1> SUFFICES ASSUME NEW i \in Bad PROVE FALSE BY DEF n
<1>6. Bad \in SUBSET Nat BY <1>1
<1>7. PICK m \in Bad : \A k \in Bad : m <= k BY <1>6, LeastNatural
<1>8. m \in 0..n /\ ~Good(m) OBVIOUS
<1> HIDE DEF Good
<1>9. m # 0 BY <1>4, <1>8
<1>10. m - 1 \in 0..n /\ m - 1 \notin Bad BY <1>1, <1>7, <1>8, <1>9
<1>11. Good(m - 1) BY <1>10
<1> QED BY <1>1, <1>5, <1>8, <1>9, <1>11

\* Consecutive places hold as many events.
LEMMA SpanOfEvents ==
  ASSUME NEW S, IsDataset(S), NEW lo \in Int, NEW hi \in Int,
         1 <= lo, lo <= hi + 1, hi <= Cardinality(S)
  PROVE  /\ IsFiniteSet({InOrder(S)[j] : j \in lo..hi})
         /\ Cardinality({InOrder(S)[j] : j \in lo..hi}) = hi - lo + 1
<1> DEFINE s == InOrder(S)
           T == {s[j] : j \in lo..hi}
           f == [j \in lo..hi |-> s[j]]
<1>1. IsFiniteSet(lo..hi) /\ Cardinality(lo..hi) = hi - lo + 1
  <2>1. Cardinality(lo..hi) = IF lo > hi THEN 0 ELSE hi - lo + 1 BY FS_Interval
  <2>2. IsFiniteSet(lo..hi) BY FS_Interval
  <2>3. CASE lo > hi
    <3>1. hi - lo + 1 = 0 BY <2>3
    <3> QED BY <2>1, <2>2, <2>3, <3>1
  <2>4. CASE ~(lo > hi) BY <2>1, <2>2, <2>4
  <2> QED BY <2>3, <2>4
<1>2. \A j \in lo..hi : j \in 1..Cardinality(S) BY EventsListed
<1>3. f \in Surjection(lo..hi, T) BY DEF Surjection
<1>4. f \in Injection(lo..hi, T) BY <1>2, EventsListed DEF Injection, IsInjective
<1> HIDE DEF f, T
<1>5. IsFiniteSet(T) /\ Cardinality(T) = Cardinality(lo..hi) BY <1>1, <1>3, <1>4, FS_Surjection
<1> QED BY <1>1, <1>5 DEF T

WithinBurst(S, e) == {f \in S : e.time - Burst <= f.time /\ f.time <= e.time}

\* The feature is the most events that lie within fifteen minutes of one another.
LEMMA BurstIsLargest ==
  ASSUME NEW S, IsDataset(S), S # {}
  PROVE  MaxEventsIn15m(S) = Max({Cardinality(WithinBurst(S, e)) : e \in S})
<1> DEFINE s == InOrder(S)
           n == Cardinality(S)
           t == [i \in 1..n |-> s[i].time]
           C == {Cardinality(WithinBurst(S, e)) : e \in S}
<1>1. PICK w : IsWindow(w, n, s) /\ MaxEventsIn15m(S) = w[n].maximum BY BurstOfWindow
<1>2. \A i \in 0..n : /\ Queue(w[i].active, i, t) /\ w[i].maximum \in Nat
                      /\ \A k \in 0..i : Len(w[k].active) \in 0..w[i].maximum
                      /\ \E k \in 0..i : w[i].maximum = Len(w[k].active)
  BY <1>1, WindowHolds
<1> DEFINE L(i) == Len(w[i].active)
<1>3. /\ n \in Nat /\ s \in [1..n -> S]
      /\ \A e \in S : \E i \in 1..n : s[i] = e
      /\ \A i, j \in 1..n : i < j => s[i].time <= s[j].time
  BY EventsListed
<1>4. \A e \in S : e.time \in Int BY DEF IsDataset
<1>5. \A i \in 1..n : s[i] \in S /\ t[i] = s[i].time /\ s[i].time \in Int BY <1>3, <1>4
<1>6. n > 0 BY <1>3
<1> DEFINE most == w[n].maximum
<1>7. /\ \A k \in 1..n : L(k) \in 1..k /\ L(k) <= most
      /\ most \in Nat
      /\ \A k \in 1..n : \A j \in 1..k : j > k - L(k) <=> t[j] >= t[k] - Burst
      /\ \E k \in 0..n : most = L(k)
  <2>1. n \in 0..n BY <1>3
  <2>2. ASSUME NEW k \in 1..n
        PROVE  /\ L(k) \in 1..k /\ L(k) <= most
               /\ \A j \in 1..k : j > k - L(k) <=> t[j] >= t[k] - Burst
    <3>1. k \in 0..n /\ k > 0 BY <1>3
    <3>2. Queue(w[k].active, k, t) BY <3>1, <1>2
    <3>3. L(k) \in 0..most BY <3>1, <2>1, <1>2
    <3> HIDE DEF t
    <3>4. L(k) <= k /\ L(k) > 0 /\ \A j \in 1..k : j > k - L(k) <=> t[j] >= t[k] - Burst
      BY <3>1, <3>2 DEF Queue
    <3> QED BY <3>3, <3>4
  <2> QED BY <1>2, <2>1, <2>2
<1> HIDE DEF t, L, most, n, s
<1>8. \A e \in S : IsFiniteSet(WithinBurst(S, e)) /\ Cardinality(WithinBurst(S, e)) \in Nat
  <2> SUFFICES ASSUME NEW e \in S
               PROVE  IsFiniteSet(WithinBurst(S, e)) /\ Cardinality(WithinBurst(S, e)) \in Nat
    OBVIOUS
  <2>1. WithinBurst(S, e) \in SUBSET S /\ IsFiniteSet(S) BY DEF WithinBurst, IsDataset
  <2> QED BY <2>1, FS_Subset, FS_CardinalityType
<1>9. \A k \in 1..n : /\ IsFiniteSet({s[j] : j \in (k - L(k) + 1)..k})
                      /\ Cardinality({s[j] : j \in (k - L(k) + 1)..k}) = L(k)
  <2> SUFFICES ASSUME NEW k \in 1..n
               PROVE  /\ IsFiniteSet({s[j] : j \in (k - L(k) + 1)..k})
                      /\ Cardinality({s[j] : j \in (k - L(k) + 1)..k}) = L(k)
    OBVIOUS
  <2> DEFINE lo == k - L(k) + 1
  <2>1. L(k) \in 1..k BY <1>7
  <2>2. lo \in Int /\ k \in Int /\ 1 <= lo /\ lo <= k + 1 /\ k <= n /\ k - lo + 1 = L(k)
    BY <2>1, <1>3
  <2> HIDE DEF lo
  <2>3. /\ IsFiniteSet({s[j] : j \in lo..k})
        /\ Cardinality({s[j] : j \in lo..k}) = k - lo + 1
    BY <2>2, SpanOfEvents DEF s, n
  <2> QED BY <2>2, <2>3 DEF lo
<1>10. ASSUME NEW e \in S PROVE Cardinality(WithinBurst(S, e)) <= most
  <2> DEFINE K == {i \in 1..n : s[i].time = e.time}
             k == Max(K)
  <2>1. IsFiniteSet(1..n) /\ K \in SUBSET (1..n) BY <1>3, FS_Interval
  <2>2. IsFiniteSet(K) /\ K \in SUBSET Int /\ K # {} BY <2>1, <1>3, FS_Subset
  <2>3. k \in K /\ \A i \in K : i <= k BY <2>2, Extrema
  <2> HIDE DEF k
  <2>4. k \in 1..n /\ s[k].time = e.time BY <2>3
  <2> DEFINE T == {s[j] : j \in (k - L(k) + 1)..k}
  <2>5. WithinBurst(S, e) \in SUBSET T
    <3> SUFFICES ASSUME NEW f \in WithinBurst(S, e) PROVE f \in T OBVIOUS
    <3>1. f \in S /\ e.time - Burst <= f.time /\ f.time <= e.time BY DEF WithinBurst
    <3>2. PICK j \in 1..n : s[j] = f BY <1>3, <3>1
    <3>3. j <= k
      <4> SUFFICES ASSUME j > k PROVE FALSE BY <1>3, <2>4
      <4>1. s[k].time <= s[j].time BY <1>3, <2>4
      <4>2. s[j].time = e.time BY <4>1, <2>4, <3>1, <3>2, <1>4
      <4>3. j \in K BY <4>2
      <4> QED BY <2>3, <4>3, <1>3, <2>4
    <3>4. t[j] >= t[k] - Burst BY <1>5, <2>4, <3>1, <3>2
    <3>5. j \in 1..k BY <3>3, <1>3, <2>4
    <3>6. j > k - L(k) BY <3>4, <3>5, <1>7, <2>4
    <3>7. L(k) \in 1..k BY <1>7, <2>4
    <3>8. j \in (k - L(k) + 1)..k BY <3>5, <3>6, <3>7, <2>4, <1>3
    <3> QED BY <3>2, <3>8
  <2>6. IsFiniteSet(T) /\ Cardinality(T) = L(k) BY <1>9, <2>4
  <2>7. Cardinality(WithinBurst(S, e)) <= L(k) BY <2>5, <2>6, FS_Subset
  <2>8. L(k) <= most /\ L(k) \in 1..k /\ most \in Nat BY <1>7, <2>4
  <2> QED BY <2>7, <2>8, <1>8, <2>4, <1>3
<1>11. \E e \in S : most <= Cardinality(WithinBurst(S, e))
  <2>1. PICK k \in 0..n : most = L(k) BY <1>7
  <2>2. CASE k = 0
    <3>1. 1 \in 1..n BY <1>3, <1>6
    <3>2. L(1) \in 1..1 /\ L(1) <= most BY <3>1, <1>7
    <3>3. Queue(w[0].active, 0, t) BY <1>2, <1>3
    <3>4. L(0) <= 0 BY <3>3 DEF Queue, L
    <3>5. most <= 0 /\ L(1) > 0 /\ L(1) \in Int BY <2>1, <2>2, <3>2, <3>4
    <3> QED BY <3>2, <3>5, <1>7
  <2>3. CASE k # 0
    <3>1. k \in 1..n BY <2>3, <1>3
    <3> DEFINE e == s[k]
               T == {s[j] : j \in (k - L(k) + 1)..k}
    <3>2. e \in S BY <3>1, <1>5
    <3>3. T \in SUBSET WithinBurst(S, e)
      <4> SUFFICES ASSUME NEW j \in (k - L(k) + 1)..k PROVE s[j] \in WithinBurst(S, e)
        OBVIOUS
      <4>1. L(k) \in 1..k BY <1>7, <3>1
      <4>2. j \in 1..k /\ j > k - L(k) /\ j \in 1..n BY <4>1, <3>1, <1>3
      <4>3. t[j] >= t[k] - Burst BY <4>2, <3>1, <1>7
      <4>4. s[j].time <= s[k].time
        <5>1. CASE j = k BY <5>1, <1>5, <3>1
        <5>2. CASE j < k BY <5>2, <4>2, <3>1, <1>3
        <5> QED BY <5>1, <5>2, <4>2
      <4> QED BY <4>2, <4>3, <4>4, <1>5, <3>1, TicksAssumption DEF WithinBurst
    <3>4. Cardinality(T) = L(k) BY <1>9, <3>1
    <3>5. Cardinality(T) <= Cardinality(WithinBurst(S, e)) BY <3>2, <3>3, <1>8, FS_Subset
    <3> QED BY <2>1, <3>2, <3>4, <3>5
  <2> QED BY <2>2, <2>3
<1>12. IsFiniteSet(C) /\ C \in SUBSET Int /\ C # {}
  <2> DEFINE f == [e \in S |-> Cardinality(WithinBurst(S, e))]
  <2>1. f \in Surjection(S, C) BY DEF Surjection
  <2>2. IsFiniteSet(S) BY DEF IsDataset
  <2>3. C \in SUBSET Int /\ C # {} BY <1>8
  <2> HIDE DEF f, C
  <2>4. IsFiniteSet(C) BY <2>1, <2>2, FS_Surjection
  <2> QED BY <2>3, <2>4
<1>13. Max(C) \in C /\ \A c \in C : c <= Max(C) BY <1>12, Extrema
<1>14. Max(C) <= most BY <1>13, <1>10
<1>15. most <= Max(C)
  <2>1. PICK e \in S : most <= Cardinality(WithinBurst(S, e)) BY <1>11
  <2>2. Cardinality(WithinBurst(S, e)) <= Max(C) BY <1>13
  <2>3. Max(C) \in Int /\ Cardinality(WithinBurst(S, e)) \in Int /\ most \in Int
    BY <1>7, <1>8, <1>12, <1>13
  <2> HIDE DEF C
  <2> QED BY <2>1, <2>2, <2>3
<1>16. Max(C) \in Int /\ most \in Int BY <1>7, <1>12, <1>13
<1> HIDE DEF C
<1>17. Max(C) = most BY <1>14, <1>15, <1>16
<1> QED BY <1>1, <1>17 DEF C, most

-----------------------------------------------------------------------------
(* The changes of country. *)

\* Every country but the first is entered once at least, and every change
\* takes a login of its own after the first.
LEMMA TransitionsBounded ==
  ASSUME NEW S, IsDataset(S)
  PROVE  /\ Logins(S) = {} => CountryTransitions(S) = 0
         /\ Logins(S) # {} =>
              /\ Cardinality({e.country : e \in Logins(S)}) - 1 <= CountryTransitions(S)
              /\ CountryTransitions(S) < Cardinality(Logins(S))
<1> DEFINE G == Logins(S)
           m == Cardinality(G)
           s == InOrder(G)
           lands == {e.country : e \in G}
           changes == {i \in 1..(m - 1) : s[i].country # s[i + 1].country}
<1>1. IsDataset(G)
  <2>1. G \in SUBSET S BY DEF Logins
  <2> QED BY <2>1, PartOfDataset
<1>2. CountryTransitions(S) = Cardinality(changes) BY DEF CountryTransitions
<1> HIDE DEF G
<1>3. /\ m \in Nat /\ s \in [1..m -> G] /\ \A e \in G : \E i \in 1..m : s[i] = e
      /\ IsFiniteSet(G)
  BY <1>1, EventsListed DEF IsDataset
<1>4. (m = 0 <=> G = {}) BY <1>3, FS_EmptySet
<1> HIDE DEF m, s
<1>5. IsFiniteSet(1..(m - 1)) /\ (m > 0 => Cardinality(1..(m - 1)) = m - 1)
  <2>1. 1 \in Int /\ m - 1 \in Int BY <1>3
  <2>2. /\ IsFiniteSet(1..(m - 1))
        /\ Cardinality(1..(m - 1)) = IF 1 > m - 1 THEN 0 ELSE m - 1 - 1 + 1
    BY <2>1, FS_Interval
  <2>3. m > 0 => (IF 1 > m - 1 THEN 0 ELSE m - 1 - 1 + 1) = m - 1 BY <1>3
  <2> QED BY <2>2, <2>3
<1>6. changes \in SUBSET (1..(m - 1)) OBVIOUS
<1>7. /\ IsFiniteSet(changes) /\ Cardinality(changes) \in Nat
      /\ Cardinality(changes) <= Cardinality(1..(m - 1))
  BY <1>5, <1>6, FS_Subset, FS_CardinalityType
<1>8. CASE G = {}
  <2>1. changes = {} BY <1>4, <1>8
  <2>2. Cardinality(changes) = 0 BY <2>1, FS_EmptySet
  <2> QED BY <1>2, <1>8, <2>2 DEF G
<1>9. CASE G # {}
  <2>1. m > 0 /\ 1 \in 1..m BY <1>3, <1>4, <1>9
  <2> DEFINE home == s[1].country
             others == lands \ {home}
             Entry(l) == CHOOSE i \in changes : s[i + 1].country = l
             f == [l \in others |-> Entry(l)]
  <2>2. home \in lands BY <1>3, <2>1
  <2>3. ASSUME NEW l \in others PROVE \E i \in changes : s[i + 1].country = l
    <3> DEFINE at == {i \in 1..m : s[i].country = l}
    <3>1. PICK e \in G : e.country = l OBVIOUS
    <3>2. PICK i \in 1..m : s[i] = e BY <1>3
    <3>3. i \in at /\ at \in SUBSET Nat BY <3>1, <3>2
    <3>4. PICK j \in at : \A k \in at : j <= k BY <3>3, LeastNatural
    <3>5. j \in 1..m /\ s[j].country = l /\ l # home OBVIOUS
    <3>6. j # 1 BY <3>5
    <3>7. j - 1 \in 1..(m - 1) /\ j - 1 \in 1..m /\ j - 1 + 1 = j BY <3>5, <3>6, <1>3
    <3>8. j - 1 \notin at BY <3>4, <3>5
    <3>9. s[j - 1].country # l BY <3>7, <3>8
    <3> QED BY <3>5, <3>7, <3>9
  <2>4. \A l \in others : Entry(l) \in changes /\ s[Entry(l) + 1].country = l BY <2>3
  <2> HIDE DEF Entry, changes
  <2>5. f \in [others -> changes] BY <2>4
  <2>6. \A k, l \in others : f[k] = f[l] => k = l BY <2>4
  <2>7. f \in Injection(others, changes) BY <2>5, <2>6 DEF Injection, IsInjective
  <2>8. IsFiniteSet(others) /\ Cardinality(others) <= Cardinality(changes)
    BY <1>7, <2>7, FS_Injection
  <2>9. IsFiniteSet(lands) /\ Cardinality(lands) = Cardinality(others) + 1
    <3>1. lands = others \cup {home} /\ home \notin others BY <2>2
    <3> HIDE DEF others, lands
    <3> QED BY <2>8, <3>1, FS_AddElement
  <2>10. Cardinality(others) \in Nat BY <2>8, FS_CardinalityType
  <2> DEFINE c == Cardinality(others)
             d == Cardinality(changes)
  <2>11. Cardinality(lands) = c + 1 /\ c \in Nat /\ d \in Nat /\ c <= d /\ d <= m - 1
    BY <1>5, <1>7, <2>1, <2>8, <2>9, <2>10
  <2> HIDE DEF c, d, lands
  <2>12. Cardinality(lands) - 1 <= d /\ d < m BY <2>11, <1>3
  <2> QED BY <1>2, <1>9, <2>12 DEF d, m, G, lands
<1> QED BY <1>8, <1>9
=============================================================================
