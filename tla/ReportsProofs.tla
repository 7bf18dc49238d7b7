--------------------------- MODULE ReportsProofs ---------------------------
(***************************************************************************)
(* The split of the time of a process into prime and non-prime time is     *)
(* right, for every holidays file, every length of the day and every       *)
(* process that ends within the year; and the command summaries of csacms  *)
(* count every process once, for any jobs and any number of nights.        *)
(***************************************************************************)
EXTENDS Reports, TLAPS, FiniteSetTheorems, WellFoundedInduction, SequenceTheorems

(* A set of naturals that is not empty has a least element. *)
LEMMA MinExists ==
  ASSUME NEW T \in SUBSET Nat, T # {}
  PROVE \E x \in T : \A y \in T : x <= y
<1>1. \E x \in T : \A y \in T : ~ (<<y, x>> \in OpToRel(<, Nat))
  BY NatLessThanWellFounded, WFMin
<1>2. PICK x \in T : \A y \in T : ~ (<<y, x>> \in OpToRel(<, Nat))
  BY <1>1
<1>3. ASSUME NEW y \in T PROVE x <= y
  <2>1. x \in Nat /\ y \in Nat OBVIOUS
  <2>2. y < x => <<y, x>> \in OpToRel(<, Nat) BY <2>1 DEF OpToRel
  <2>3. ~ (<<y, x>> \in OpToRel(<, Nat)) BY <1>2
  <2>4. ~ (y < x) BY <2>2, <2>3, Zenon
  <2> QED BY <2>1, <2>4
<1> QED BY <1>3

(***************************************************************************)
(* pop_calc, one second after the other                                    *)
(***************************************************************************)
At0(start) == [day |-> DayOf(start), prime |-> 0, nonprime |-> 0]

(* The seconds in s, the last of them counted last. *)
Counting(start, f, s) ==
  IF s = {} THEN At0(start) ELSE Second(f[s \ {Max(s)}], start + Max(s) - 1)

LEMMA MaxOf ==
  ASSUME NEW k \in Nat, NEW s \in SUBSET (1..k), k \in s
  PROVE Max(s) = k
<1>1. \A y \in s : k >= y OBVIOUS
<1>2. \E x \in s : \A y \in s : x >= y BY <1>1
<1> DEFINE m == CHOOSE x \in s : \A y \in s : x >= y
<1>3. m \in s /\ \A y \in s : m >= y BY <1>2
<1>4. Max(s) = m BY DEF Max
<1> HIDE DEF m
<1>5. m \in Nat /\ k >= m /\ m >= k BY <1>1, <1>3
<1> QED BY <1>4, <1>5

LEMMA MaxIn ==
  ASSUME NEW k \in Nat, NEW s \in SUBSET (1..k), s # {}
  PROVE Max(s) \in s /\ \A y \in s : Max(s) >= y
<1> DEFINE T == {k - y : y \in s}
<1>0. \A y \in s : y \in Nat /\ k - y \in Nat
  <2>1. ASSUME NEW y \in s PROVE y \in Nat /\ k - y \in Nat
    <3>1. y \in 1..k OBVIOUS
    <3> QED BY <3>1
  <2> QED BY <2>1
<1>1. T \in SUBSET Nat /\ T # {} BY <1>0
<1>2. PICK x \in T : \A y \in T : x <= y BY <1>1, MinExists
<1>3. PICK m \in s : x = k - m BY <1>2
<1>4. ASSUME NEW y \in s PROVE m >= y
  <2>1. x <= k - y BY <1>2
  <2>2. y \in Nat /\ m \in Nat BY <1>0
  <2> QED BY <1>3, <2>1, <2>2
<1> QED BY <1>4 DEF Max

LEMMA CountingExists ==
  ASSUME NEW start, NEW duration \in Nat
  PROVE \E f : f = [s \in SUBSET (1..duration) |-> Counting(start, f, s)]
<1> DEFINE P(k) == \E f : f = [s \in SUBSET (1..k) |-> Counting(start, f, s)]
           T == {k \in 0..duration : ~P(k)}
<1>1. P(0)
  <2> DEFINE f == [s \in SUBSET (1..0) |-> At0(start)]
  <2>1. \A s \in SUBSET (1..0) : Counting(start, f, s) = At0(start) BY DEF Counting
  <2>2. f = [s \in SUBSET (1..0) |-> Counting(start, f, s)] BY <2>1
  <2> QED BY <2>2
<1>2. ASSUME NEW k \in 1..duration, P(k - 1) PROVE P(k)
  <2>1. PICK f : f = [s \in SUBSET (1..(k - 1)) |-> Counting(start, f, s)] BY <1>2
  <2> DEFINE g == [s \in SUBSET (1..k) |->
                     IF k \in s THEN Second(f[s \ {k}], start + k - 1) ELSE f[s]]
  <2>2. ASSUME NEW s \in SUBSET (1..k) PROVE g[s] = Counting(start, g, s)
    <3>1. CASE k \in s
      <4>1. Max(s) = k BY <3>1, MaxOf
      <4>2. s \ {k} \in SUBSET (1..k) /\ k \notin s \ {k} OBVIOUS
      <4>3. g[s \ {k}] = f[s \ {k}] BY <4>2
      <4>4. g[s] = Second(f[s \ {k}], start + k - 1) BY <3>1
      <4> HIDE DEF g
      <4> QED BY <3>1, <4>1, <4>3, <4>4 DEF Counting
    <3>2. CASE k \notin s /\ s # {}
      <4>1. s \in SUBSET (1..(k - 1)) BY <3>2
      <4>2. f[s] = Counting(start, f, s) BY <2>1, <4>1
      <4>3. s \ {Max(s)} \in SUBSET (1..k) /\ k \notin s \ {Max(s)} BY <3>2
      <4>4. g[s \ {Max(s)}] = f[s \ {Max(s)}] BY <4>3
      <4>5. g[s] = f[s] BY <3>2
      <4> HIDE DEF g
      <4> QED BY <3>2, <4>2, <4>4, <4>5 DEF Counting
    <3>3. CASE s = {}
      <4>1. s \in SUBSET (1..(k - 1)) BY <3>3
      <4>2. f[s] = Counting(start, f, s) BY <2>1, <4>1
      <4>3. g[s] = f[s] BY <3>3
      <4> HIDE DEF g
      <4> QED BY <3>3, <4>2, <4>3 DEF Counting
    <3> QED BY <3>1, <3>2, <3>3
  <2>3. g = [s \in SUBSET (1..k) |-> Counting(start, g, s)]
    <3> DEFINE h == [s \in SUBSET (1..k) |-> Counting(start, g, s)]
    <3>1. \A s \in SUBSET (1..k) : g[s] = h[s] BY <2>2
    <3> QED BY <3>1
  <2> QED BY <2>3
<1>3. T = {}
  <2>1. SUFFICES ASSUME T # {} PROVE FALSE OBVIOUS
  <2>2. T \in SUBSET Nat OBVIOUS
  <2> HIDE DEF P
  <2>3. PICK k \in T : \A j \in T : k <= j
    <3> HIDE DEF T
    <3> QED BY <2>1, <2>2, MinExists
  <2>4. k \in 0..duration /\ ~P(k) OBVIOUS
  <2>5. k # 0 BY <1>1, <2>4
  <2>6. k - 1 \in 0..duration /\ ~(k <= k - 1) /\ k \in 1..duration BY <2>4, <2>5
  <2>7. P(k - 1) BY <2>3, <2>6
  <2> QED BY <1>2, <2>4, <2>6, <2>7
<1>4. duration \notin T BY <1>3
<1>5. duration \in 0..duration OBVIOUS
<1> QED BY <1>4, <1>5

(* The counts after the first k seconds; after all of them they are those  *)
(* of pop_calc.                                                            *)
LEMMA PopCalcCounts ==
  ASSUME NEW start, NEW duration \in Nat
  PROVE \E f : /\ f = [s \in SUBSET (1..duration) |-> Counting(start, f, s)]
               /\ PopCalc(start, duration) = f[1..duration]
<1> DEFINE f == CHOOSE f : f = [s \in SUBSET (1..duration) |-> Counting(start, f, s)]
           seq == [i \in DOMAIN [k \in 1..duration |-> k] |-> i]
           iter == CHOOSE iter : iter = [s \in SUBSET (DOMAIN seq) |->
                     IF s = {} THEN At0(start)
                     ELSE Second(iter[s \ {Max(s)}], start + seq[Max(s)] - 1)]
<1>1. f = [s \in SUBSET (1..duration) |-> Counting(start, f, s)] BY CountingExists
<1>2. PopCalc(start, duration) = iter[DOMAIN seq]
  BY DEF PopCalc, FoldLeftDomain, FoldLeft, MapThenFoldSet, At0
<1> DEFINE its(h, s) == IF s = {} THEN At0(start) ELSE Second(h[s \ {Max(s)}], start + seq[Max(s)] - 1)
<1>3. DOMAIN seq = 1..duration /\ \A i \in 1..duration : seq[i] = i OBVIOUS
<1>4. ASSUME NEW h, NEW s \in SUBSET (1..duration)
      PROVE its(h, s) = Counting(start, h, s)
  <2>1. CASE s # {}
    <3>1. Max(s) \in s BY <2>1, MaxIn
    <3>2. seq[Max(s)] = Max(s) BY <1>3, <3>1
    <3> HIDE DEF seq
    <3> QED BY <2>1, <3>2 DEF Counting
  <2>2. CASE s = {} BY <2>2 DEF Counting
  <2> QED BY <2>1, <2>2
<1>5. \A h : [s \in SUBSET (DOMAIN seq) |-> its(h, s)] = [s \in SUBSET (1..duration) |-> Counting(start, h, s)]
  <2> HIDE DEF seq, its
  <2> QED BY <1>3, <1>4
<1>6. f = iter
  <2>1. \A h : h = [s \in SUBSET (DOMAIN seq) |-> its(h, s)] <=> h = [s \in SUBSET (1..duration) |-> Counting(start, h, s)]
    <3> HIDE DEF seq, its
    <3> QED BY <1>5
  <2>2. iter = CHOOSE h : h = [s \in SUBSET (DOMAIN seq) |-> its(h, s)] OBVIOUS
  <2> HIDE DEF iter, seq, its
  <2> QED BY <2>1, <2>2
<1>7. PopCalc(start, duration) = f[1..duration]
  <2> HIDE DEF f, iter, seq
  <2> QED BY <1>2, <1>3, <1>6
<1> QED BY <1>1, <1>7

(***************************************************************************)
(* Days                                                                    *)
(***************************************************************************)
LEMMA NextMidnight ==
  ASSUME NEW d \in Int
  PROVE Midnight(d) \in Int /\ Midnight(d + 1) = Midnight(d) + SecsPerDay
BY PrimeAssumption DEF Midnight

LEMMA MidnightsInOrder ==
  ASSUME NEW c \in Int, NEW d \in Int, c < d
  PROVE Midnight(c) + SecsPerDay <= Midnight(d)
<1>1. SecsPerDay \in Nat /\ SecsPerDay > 1 BY PrimeAssumption
<1>2. (d - c - 1) * SecsPerDay >= 0 BY <1>1
<1> QED BY <1>1, <1>2 DEF Midnight

(* A second belongs to one day. *)
LEMMA DayAtIs ==
  ASSUME NEW d \in Int, NEW j \in Int, Midnight(d) <= j, j < Midnight(d) + SecsPerDay
  PROVE DayAt(j) = d
<1>1. SecsPerDay \in Nat /\ SecsPerDay > 0 BY PrimeAssumption
<1>2. DayAt(j) \in Int /\ Midnight(DayAt(j)) <= j /\ j < Midnight(DayAt(j)) + SecsPerDay
  BY <1>1 DEF DayAt, Midnight
<1>3. ~(DayAt(j) < d) /\ ~(d < DayAt(j))
  <2>1. Midnight(d) \in Int /\ Midnight(DayAt(j)) \in Int BY <1>2, NextMidnight
  <2>2. ~(DayAt(j) < d)
    <3>1. SUFFICES ASSUME DayAt(j) < d PROVE FALSE OBVIOUS
    <3>2. Midnight(DayAt(j)) + SecsPerDay <= Midnight(d) BY <1>2, <3>1, MidnightsInOrder
    <3> QED BY <1>1, <1>2, <2>1, <3>2
  <2>3. ~(d < DayAt(j))
    <3>1. SUFFICES ASSUME d < DayAt(j) PROVE FALSE OBVIOUS
    <3>2. Midnight(d) + SecsPerDay <= Midnight(DayAt(j)) BY <1>2, <3>1, MidnightsInOrder
    <3> QED BY <1>1, <1>2, <2>1, <3>2
  <2> QED BY <2>2, <2>3
<1> QED BY <1>2, <1>3

(* The search finds the day whose midnight was last before the start. *)
LEMMA DayOfStart ==
  ASSUME NEW start \in Nat \ {0}, start <= Midnight(Days + 1)
  PROVE /\ DayOf(start) \in 0..Days
        /\ Midnight(DayOf(start)) < start /\ start <= Midnight(DayOf(start)) + SecsPerDay
<1> DEFINE T == {d \in 0..Days : Midnight(d) < start}
           R == {Days - d : d \in T}
           m == CHOOSE x \in T : \A y \in T : x >= y
<1>0. Days \in Nat BY PrimeAssumption
<1>1. 0 \in T
  <2>1. Midnight(0) = 0 BY PrimeAssumption DEF Midnight
  <2> QED BY <1>0, <2>1
<1>2. R \in SUBSET Nat /\ R # {} BY <1>0, <1>1
<1>3. PICK x \in R : \A y \in R : x <= y
  <2> HIDE DEF R
  <2> QED BY <1>2, MinExists
<1>4. PICK d \in T : x = Days - d OBVIOUS
<1>5. ASSUME NEW c \in T PROVE d >= c
  <2>1. x <= Days - c BY <1>3
  <2>2. c \in 0..Days /\ d \in 0..Days OBVIOUS
  <2> QED BY <1>0, <1>4, <2>1, <2>2
<1>6. DayOf(start) = m BY DEF DayOf, Max
<1>7. m \in T /\ \A y \in T : m >= y BY <1>5
<1> HIDE DEF m
<1>8. m \in 0..Days /\ Midnight(m) < start BY <1>7
<1>9. start <= Midnight(m) + SecsPerDay
  <2>1. Midnight(m + 1) = Midnight(m) + SecsPerDay /\ Midnight(m) \in Int BY <1>0, <1>8, NextMidnight
  <2>2. CASE m = Days BY <2>1, <2>2
  <2>3. CASE m # Days
    <3>1. m + 1 \in 0..Days BY <1>0, <1>8, <2>3
    <3>2. ~(m >= m + 1) BY <1>0, <1>8
    <3>3. m + 1 \notin T BY <1>7, <3>2
    <3>4. ~(Midnight(m + 1) < start) BY <3>1, <3>3
    <3>5. Midnight(m + 1) \in Int BY <1>0, <1>8, NextMidnight
    <3> QED BY <2>1, <3>4, <3>5
  <2> QED BY <2>2, <2>3
<1> QED BY <1>6, <1>8, <1>9

(* Prime time begins and ends within the day. *)
LEMMA DayTimesType ==
  ASSUME NEW d \in Int
  PROVE /\ DayTimes(d).peak \in Int /\ Midnight(d) <= DayTimes(d).peak
        /\ DayTimes(d).off \in Int /\ Midnight(d) <= DayTimes(d).off
        /\ DayTimes(d).peak < Midnight(d) + SecsPerDay
        /\ DayTimes(d).off < Midnight(d) + SecsPerDay
<1> DEFINE times == IF IsHoliday(d) THEN [peak |-> SecsPerDay - 1, off |-> SecsPerDay - 1]
                    ELSE ParsePopTimes(PopTimes[WeekKind(d)])
<1>1. SecsPerDay \in Nat /\ SecsPerDay > 1 BY PrimeAssumption
<1>2. WeekKind(d) \in Kind BY DEF WeekKind, Kind
<1>3. PopTimes[WeekKind(d)] \in {<<"none">>, <<"all">>} \cup {<<"at", f, t>> : f, t \in 0..(SecsPerDay - 1)}
  BY <1>2, PrimeAssumption
<1>4. ParsePopTimes(PopTimes[WeekKind(d)]) \in [peak : 0..(SecsPerDay - 1), off : 0..(SecsPerDay - 1)]
  <2>1. CASE PopTimes[WeekKind(d)] = <<"none">> BY <1>1, <2>1 DEF ParsePopTimes
  <2>2. CASE PopTimes[WeekKind(d)] = <<"all">> BY <1>1, <2>2 DEF ParsePopTimes
  <2>3. CASE PopTimes[WeekKind(d)] \in {<<"at", f, t>> : f, t \in 0..(SecsPerDay - 1)}
    <3>1. PICK f \in 0..(SecsPerDay - 1), t \in 0..(SecsPerDay - 1) : PopTimes[WeekKind(d)] = <<"at", f, t>>
      BY <2>3
    <3> QED BY <1>1, <3>1 DEF ParsePopTimes
  <2> QED BY <1>3, <2>1, <2>2, <2>3
<1>5. times \in [peak : 0..(SecsPerDay - 1), off : 0..(SecsPerDay - 1)] BY <1>1, <1>4
<1>6. DayTimes(d) = [peak |-> Midnight(d) + times.peak, off |-> Midnight(d) + times.off]
  BY DEF DayTimes
<1>7. Midnight(d) \in Int BY NextMidnight
<1> HIDE DEF times
<1> QED BY <1>1, <1>5, <1>6, <1>7

(***************************************************************************)
(* One second                                                              *)
(***************************************************************************)
One(b) == IF b THEN 1 ELSE 0

LEMMA SecondStep ==
  ASSUME NEW d \in Int, NEW p \in Nat, NEW n \in Nat, NEW j \in Nat,
         Midnight(d) < j, j <= Midnight(d) + SecsPerDay,
         NEW r, r = Second([day |-> d, prime |-> p, nonprime |-> n], j)
  PROVE /\ r.day \in Int /\ r.prime \in Nat /\ r.nonprime \in Nat
        /\ r = [day |-> r.day, prime |-> r.prime, nonprime |-> r.nonprime]
        /\ Midnight(r.day) <= j /\ j < Midnight(r.day) + SecsPerDay
        /\ r.prime = p + One(PrimeSecond(j))
        /\ r.prime + r.nonprime = p + n + 1 + One(Doubled(j))
<1> DEFINE new == j = Midnight(d) + SecsPerDay
           e == IF new THEN d + 1 ELSE d
           peak == DayTimes(e).peak
           off == DayTimes(e).off
           mid == Midnight(e)
           prime == ~(j > mid /\ j < peak) /\ j >= peak /\ j < off
           nonprime == \/ j > mid /\ j < peak
                       \/ ~prime /\ j >= off /\ j < mid + SecsPerDay
<1>1. r = [day |-> e, prime |-> p + One(prime), nonprime |-> n + One(new) + One(nonprime)]
  BY DEF Second, One
<1>2. SecsPerDay \in Nat /\ SecsPerDay > 1 /\ Midnight(d) \in Int BY PrimeAssumption, NextMidnight
<1>3. /\ e \in Int /\ mid \in Int
      /\ new => mid = j
      /\ ~new => mid < j /\ j < mid + SecsPerDay
  <2>1. CASE new
    <3>1. e = d + 1 BY <2>1
    <3>2. Midnight(d + 1) = Midnight(d) + SecsPerDay BY NextMidnight
    <3> QED BY <1>2, <2>1, <3>1, <3>2
  <2>2. CASE ~new BY <1>2, <2>2
  <2> QED BY <2>1, <2>2
<1>4. mid <= j /\ j < mid + SecsPerDay BY <1>2, <1>3
<1>5. DayAt(j) = e
  <2> HIDE DEF e
  <2> QED BY <1>3, <1>4, DayAtIs
<1>6. /\ peak \in Int /\ mid <= peak /\ peak < mid + SecsPerDay
      /\ off \in Int /\ mid <= off /\ off < mid + SecsPerDay
  <2> HIDE DEF e
  <2> QED BY <1>3, DayTimesType
<1>7. PrimeSecond(j) <=> peak <= j /\ j < off BY <1>5 DEF PrimeSecond
<1>8. Doubled(j) <=> j = mid /\ j \in {peak, off} BY <1>5 DEF Doubled
<1> HIDE DEF e, peak, off, mid
<1>9. prime <=> PrimeSecond(j) BY <1>2, <1>3, <1>4, <1>6, <1>7
<1>10. CASE new
  <2>1. mid = j BY <1>3, <1>10
  <2>2. Doubled(j) <=> prime \/ nonprime BY <1>2, <1>3, <1>6, <1>8, <2>1
  <2>3. ~(prime /\ nonprime) BY <1>2, <1>3, <1>6, <2>1
  <2> HIDE DEF new, prime, nonprime
  <2>4. One(prime) + One(nonprime) = One(Doubled(j)) BY <2>2, <2>3 DEF One
  <2>5. One(new) = 1 BY <1>10 DEF One
  <2>6. One(prime) \in Nat /\ One(nonprime) \in Nat /\ One(Doubled(j)) \in Nat BY DEF One
  <2>7. One(PrimeSecond(j)) = One(prime) BY <1>9 DEF One
  <2> QED BY <1>1, <1>3, <1>4, <2>4, <2>5, <2>6, <2>7 DEF mid
<1>11. CASE ~new
  <2>1. mid < j BY <1>3, <1>11
  <2>2. ~Doubled(j) BY <1>3, <1>8, <2>1
  <2>3. nonprime <=> ~prime BY <1>2, <1>3, <1>4, <1>6, <2>1
  <2> HIDE DEF new, prime, nonprime
  <2>4. One(prime) + One(nonprime) = 1 BY <2>3 DEF One
  <2>5. One(new) = 0 /\ One(Doubled(j)) = 0 BY <1>11, <2>2 DEF One
  <2>6. One(prime) \in Nat /\ One(nonprime) \in Nat BY DEF One
  <2>7. One(PrimeSecond(j)) = One(prime) BY <1>9 DEF One
  <2> QED BY <1>1, <1>3, <1>4, <2>4, <2>5, <2>6, <2>7 DEF mid
<1> QED BY <1>10, <1>11

(* The first k seconds that are in A, and the next one. *)
First(start, k, A) == {j \in start..(start + k - 1) : j \in A}

LEMMA OneMore ==
  ASSUME NEW start \in Nat, NEW k \in Nat, NEW A
  PROVE /\ Cardinality(First(start, k, A)) \in Nat
        /\ start + k \in A => Cardinality(First(start, k + 1, A)) = Cardinality(First(start, k, A)) + 1
        /\ start + k \notin A => Cardinality(First(start, k + 1, A)) = Cardinality(First(start, k, A))
<1> DEFINE T == First(start, k, A)
           U == First(start, k + 1, A)
<1>0. T = {j \in start..(start + k - 1) : j \in A} /\ U = {j \in start..(start + k) : j \in A} BY DEF First
<1> HIDE DEF T, U
<1>1. IsFiniteSet(start..(start + k - 1)) BY FS_Interval
<1>2. T \in SUBSET (start..(start + k - 1)) BY <1>0
<1>3. IsFiniteSet(T) BY <1>1, <1>2, FS_Subset
<1>4. CASE start + k \in A
  <2>1. U = T \cup {start + k} BY <1>0, <1>4
  <2>2. start + k \notin T BY <1>2
  <2>3. Cardinality(T \cup {start + k}) = Cardinality(T) + 1 BY <1>3, <2>2, FS_AddElement
  <2>4. Cardinality(T) \in Nat BY <1>3, FS_CardinalityType
  <2> QED BY <1>4, <2>1, <2>3, <2>4 DEF T, U
<1>5. CASE ~start + k \in A
  <2>1. U = T BY <1>0, <1>5
  <2>2. Cardinality(T) \in Nat BY <1>3, FS_CardinalityType
  <2> QED BY <1>5, <2>1, <2>2 DEF T, U
<1> QED BY <1>4, <1>5

(***************************************************************************)
(* The whole process                                                       *)
(***************************************************************************)
(* The counts c after the first k seconds. *)
Counted(start, k, c) ==
  /\ c.day \in Int /\ c.prime \in Nat /\ c.nonprime \in Nat
  /\ c = [day |-> c.day, prime |-> c.prime, nonprime |-> c.nonprime]
  /\ Midnight(c.day) < start + k /\ start + k <= Midnight(c.day) + SecsPerDay
  /\ c.prime = Cardinality({j \in start..(start + k - 1) : PrimeSecond(j)})
  /\ c.prime + c.nonprime = k + Cardinality({j \in start..(start + k - 1) : Doubled(j)})

LEMMA CountedAtStart ==
  ASSUME NEW start \in Nat \ {0}, start <= Midnight(Days + 1)
  PROVE Counted(start, 0, At0(start))
<1>1. {j \in start..(start + 0 - 1) : PrimeSecond(j)} = {} /\ {j \in start..(start + 0 - 1) : Doubled(j)} = {} OBVIOUS
<1>2. Cardinality({}) = 0 BY FS_EmptySet
<1>3. DayOf(start) \in Int /\ Midnight(DayOf(start)) < start /\ start <= Midnight(DayOf(start)) + SecsPerDay
  BY DayOfStart, PrimeAssumption
<1>4. Midnight(DayOf(start)) \in Int /\ SecsPerDay \in Nat BY <1>3, NextMidnight, PrimeAssumption
<1> PICK c : c = At0(start) OBVIOUS
<1>5. c = [day |-> DayOf(start), prime |-> 0, nonprime |-> 0] BY DEF At0
<1> PICK P : P = {j \in start..(start + 0 - 1) : PrimeSecond(j)} OBVIOUS
<1> PICK W : W = {j \in start..(start + 0 - 1) : Doubled(j)} OBVIOUS
<1>9. Cardinality(P) = 0 /\ Cardinality(W) = 0 BY <1>1, <1>2
<1>6. /\ c.prime = Cardinality({j \in start..(start + 0 - 1) : PrimeSecond(j)})
      /\ c.prime + c.nonprime = 0 + Cardinality({j \in start..(start + 0 - 1) : Doubled(j)})
  BY <1>5, <1>9
<1>7. Midnight(c.day) < start + 0 /\ start + 0 <= Midnight(c.day) + SecsPerDay
  BY <1>3, <1>4, <1>5
<1>8. Counted(start, 0, c) BY <1>3, <1>5, <1>6, <1>7 DEF Counted
<1> QED BY <1>8

LEMMA CountedOn ==
  ASSUME NEW start \in Nat, NEW k \in Nat, NEW c, Counted(start, k, c)
  PROVE Counted(start, k + 1, Second(c, start + k))
<1> DEFINE j == start + k
           P == {i \in Nat : PrimeSecond(i)}
           W == {i \in Nat : Doubled(i)}
<1> PICK r : r = Second(c, j) OBVIOUS
<1>1. /\ r.day \in Int /\ r.prime \in Nat /\ r.nonprime \in Nat
      /\ r = [day |-> r.day, prime |-> r.prime, nonprime |-> r.nonprime]
      /\ Midnight(r.day) <= j /\ j < Midnight(r.day) + SecsPerDay
      /\ r.prime = c.prime + One(PrimeSecond(j))
      /\ r.prime + r.nonprime = c.prime + c.nonprime + 1 + One(Doubled(j))
  <2>1. /\ c.day \in Int /\ c.prime \in Nat /\ c.nonprime \in Nat
        /\ c = [day |-> c.day, prime |-> c.prime, nonprime |-> c.nonprime]
        /\ Midnight(c.day) < j /\ j <= Midnight(c.day) + SecsPerDay
    BY DEF Counted
  <2>2. j \in Nat OBVIOUS
  <2>3. r = Second([day |-> c.day, prime |-> c.prime, nonprime |-> c.nonprime], j) BY <2>1
  <2> HIDE DEF j
  <2> QED BY <2>1, <2>2, <2>3, SecondStep
<1>2. /\ {i \in start..(start + k - 1) : PrimeSecond(i)} = First(start, k, P)
      /\ {i \in start..(start + (k + 1) - 1) : PrimeSecond(i)} = First(start, k + 1, P)
      /\ {i \in start..(start + k - 1) : Doubled(i)} = First(start, k, W)
      /\ {i \in start..(start + (k + 1) - 1) : Doubled(i)} = First(start, k + 1, W)
  BY DEF First
<1>3. ASSUME NEW A
      PROVE /\ Cardinality(First(start, k, A)) \in Nat
            /\ j \in A => Cardinality(First(start, k + 1, A)) = Cardinality(First(start, k, A)) + 1
            /\ j \notin A => Cardinality(First(start, k + 1, A)) = Cardinality(First(start, k, A))
  BY OneMore
<1>4. /\ Cardinality(First(start, k + 1, P)) = Cardinality(First(start, k, P)) + One(PrimeSecond(j))
      /\ Cardinality(First(start, k + 1, W)) = Cardinality(First(start, k, W)) + One(Doubled(j))
  <2>1. (j \in P <=> PrimeSecond(j)) /\ (j \in W <=> Doubled(j)) OBVIOUS
  <2>2. Cardinality(First(start, k, P)) \in Nat /\ Cardinality(First(start, k, W)) \in Nat BY <1>3
  <2> HIDE DEF P, W
  <2>4. (PrimeSecond(j) => Cardinality(First(start, k + 1, P)) = Cardinality(First(start, k, P)) + 1)
        /\ (~PrimeSecond(j) => Cardinality(First(start, k + 1, P)) = Cardinality(First(start, k, P)) + 0)
    <3>1. PrimeSecond(j) => Cardinality(First(start, k + 1, P)) = Cardinality(First(start, k, P)) + 1 BY <1>3, <2>1
    <3>2. ~PrimeSecond(j) => Cardinality(First(start, k + 1, P)) = Cardinality(First(start, k, P)) BY <1>3, <2>1
    <3>3. Cardinality(First(start, k, P)) = Cardinality(First(start, k, P)) + 0 BY <2>2
    <3> QED BY <3>1, <3>2, <3>3
  <2>5. (Doubled(j) => Cardinality(First(start, k + 1, W)) = Cardinality(First(start, k, W)) + 1)
        /\ (~Doubled(j) => Cardinality(First(start, k + 1, W)) = Cardinality(First(start, k, W)) + 0)
    <3>1. Doubled(j) => Cardinality(First(start, k + 1, W)) = Cardinality(First(start, k, W)) + 1 BY <1>3, <2>1
    <3>2. ~Doubled(j) => Cardinality(First(start, k + 1, W)) = Cardinality(First(start, k, W)) BY <1>3, <2>1
    <3>3. Cardinality(First(start, k, W)) = Cardinality(First(start, k, W)) + 0 BY <2>2
    <3> QED BY <3>1, <3>2, <3>3
  <2> QED BY <2>4, <2>5, Zenon DEF One
<1>5. One(PrimeSecond(j)) \in Nat /\ One(Doubled(j)) \in Nat BY DEF One
<1>6. /\ c.prime \in Nat /\ c.nonprime \in Nat
      /\ c.prime = Cardinality(First(start, k, P))
      /\ c.prime + c.nonprime = k + Cardinality(First(start, k, W))
  <2> HIDE DEF P, W
  <2> QED BY <1>2 DEF Counted
<1> HIDE DEF P, W
<1>7. r.prime = Cardinality(First(start, k + 1, P)) /\ r.prime + r.nonprime = (k + 1) + Cardinality(First(start, k + 1, W))
  BY <1>1, <1>3, <1>4, <1>5, <1>6
<1>8. Midnight(r.day) \in Int BY <1>1, NextMidnight
<1>9. Midnight(r.day) < start + (k + 1) /\ start + (k + 1) <= Midnight(r.day) + SecsPerDay
  BY <1>1, <1>8, PrimeAssumption
<1>10. Counted(start, k + 1, r) BY <1>1, <1>2, <1>7, <1>9 DEF Counted
<1> QED BY <1>10

(* From the first second to the last. *)
LEMMA PopCalcSplits ==
  ASSUME NEW start \in Nat \ {0}, NEW duration \in Nat, start + duration <= Midnight(Days + 1)
  PROVE SplitsRight(start, duration)
<1>0. start <= Midnight(Days + 1)
  <2>1. Midnight(Days + 1) \in Int BY PrimeAssumption, NextMidnight
  <2> QED BY <2>1
<1>1. PICK f : /\ f = [s \in SUBSET (1..duration) |-> Counting(start, f, s)]
               /\ PopCalc(start, duration) = f[1..duration]
  BY PopCalcCounts
<1> DEFINE T == {k \in 0..duration : ~Counted(start, k, f[1..k])}
<1>2. T = {}
  <2>1. SUFFICES ASSUME T # {} PROVE FALSE OBVIOUS
  <2>2. T \in SUBSET Nat OBVIOUS
  <2>3. PICK k \in T : \A i \in T : k <= i
    <3> HIDE DEF T
    <3> QED BY <2>1, <2>2, MinExists
  <2>4. k \in 0..duration /\ ~Counted(start, k, f[1..k]) OBVIOUS
  <2>5. 1..k \in SUBSET (1..duration) BY <2>4
  <2>6. f[1..k] = Counting(start, f, 1..k) BY <1>1, <2>5
  <2>7. k # 0
    <3>1. SUFFICES ASSUME k = 0 PROVE FALSE OBVIOUS
    <3>2. 1..k = {} BY <3>1
    <3>3. f[1..k] = At0(start) BY <2>6, <3>2 DEF Counting
    <3>4. Counted(start, 0, At0(start)) BY <1>0, CountedAtStart
    <3> QED BY <2>4, <3>1, <3>3, <3>4
  <2>8. k - 1 \in Nat /\ k - 1 \in 0..duration /\ ~(k <= k - 1) BY <2>4, <2>7
  <2>9. Counted(start, k - 1, f[1..(k - 1)]) BY <2>3, <2>8
  <2>10. f[1..k] = Second(f[1..(k - 1)], start + (k - 1))
    <3>0. k \in 1..k /\ k \in Nat BY <2>4, <2>7
    <3>1. k \in 1..k /\ k \in Nat /\ 1..k # {} BY <3>0
    <3>2. Max(1..k) = k BY <3>1, MaxOf
    <3>3. (1..k) \ {k} = 1..(k - 1) BY <2>4, <2>7
    <3>4. start + k - 1 = start + (k - 1) BY <2>4
    <3> QED BY <2>6, <3>1, <3>2, <3>3, <3>4 DEF Counting
  <2>11. Counted(start, (k - 1) + 1, f[1..k]) BY <2>8, <2>9, <2>10, CountedOn
  <2>12. (k - 1) + 1 = k BY <2>4
  <2> QED BY <2>4, <2>11, <2>12
<1>3. duration \notin T /\ duration \in 0..duration BY <1>2
<1>4. Counted(start, duration, PopCalc(start, duration)) BY <1>1, <1>3
<1> QED BY <1>4 DEF Counted, SplitsRight

(* pop_calc counts each second of a process once, as prime or non-prime by *)
(* the times of its own day, however many days and holidays the process    *)
(* spans and wherever it begins; a midnight at which prime or non-prime    *)
(* time begins counts once more, as what begins.                           *)
THEOREM YearSplits ==
  ASSUME NEW start, NEW duration, InYear(start, duration)
  PROVE SplitsRight(start, duration)
<1>1. Midnight(Days + 1) \in Int BY PrimeAssumption, NextMidnight
<1>2. start \in Nat \ {0} /\ duration \in Nat /\ start + duration <= Midnight(Days + 1) BY <1>1 DEF InYear
<1> QED BY <1>2, PopCalcSplits

(* So does csacms for the processes of every night.                        *)
THEOREM SplitsAlwaysAddUp == Spec => []SplitsAddUp
<1>1. SplitsAddUp BY YearSplits DEF SplitsAddUp
<1> QED BY <1>1, PTL

(***************************************************************************)
(* Sums over finite sets                                                   *)
(***************************************************************************)
Pick(s) == CHOOSE x \in s : TRUE
Summing(g, f, s) == IF s = {} THEN 0 ELSE g[Pick(s)] + f[s \ {Pick(s)}]

LEMMA PickIn ==
  ASSUME NEW s, s # {}
  PROVE Pick(s) \in s
BY DEF Pick

(* What holds of a finite set whenever it holds of the smaller ones. *)
LEMMA Smaller ==
  ASSUME NEW S, IsFiniteSet(S), NEW s \in SUBSET S, NEW x \in s
  PROVE /\ IsFiniteSet(s) /\ Cardinality(s) \in Nat
        /\ s \ {x} \in SUBSET S
        /\ Cardinality(s \ {x}) = Cardinality(s) - 1 /\ Cardinality(s) > 0
<1>1. IsFiniteSet(s) /\ Cardinality(s) \in Nat BY FS_Subset, FS_CardinalityType
<1>2. IsFiniteSet(s \ {x}) /\ Cardinality(s \ {x}) = Cardinality(s) - 1 BY <1>1, FS_RemoveElement
<1>3. Cardinality(s \ {x}) \in Nat BY <1>2, FS_CardinalityType
<1> QED BY <1>1, <1>2, <1>3

(* A family of sets that is not empty has one of the fewest elements. *)
LEMMA FewestExists ==
  ASSUME NEW S, IsFiniteSet(S), NEW F \in SUBSET (SUBSET S), F # {}
  PROVE \E s \in F : \A r \in F : Cardinality(s) <= Cardinality(r)
<1> DEFINE T == {Cardinality(s) : s \in F}
<1>1. T \in SUBSET Nat
  <2>1. ASSUME NEW s \in F PROVE Cardinality(s) \in Nat
    <3>1. s \in SUBSET S OBVIOUS
    <3> QED BY <3>1, FS_Subset, FS_CardinalityType
  <2> QED BY <2>1
<1>2. T # {} OBVIOUS
<1>3. PICK n \in T : \A m \in T : n <= m
  <2> HIDE DEF T
  <2> QED BY <1>1, <1>2, MinExists
<1> QED BY <1>3

(* Induction over the subsets of a finite set, for a set of subsets. *)
LEMMA SubsetInduction ==
  ASSUME NEW S, IsFiniteSet(S), NEW G, \A s \in SUBSET S : (\A x \in s : s \ {x} \in G) => s \in G
  PROVE \A s \in SUBSET S : s \in G
<1> DEFINE F == {s \in SUBSET S : s \notin G}
<1>1. SUFFICES ASSUME F # {} PROVE FALSE OBVIOUS
<1>2. PICK s \in F : \A r \in F : Cardinality(s) <= Cardinality(r)
  <2>1. F \in SUBSET (SUBSET S) OBVIOUS
  <2> HIDE DEF F
  <2> QED BY <1>1, <2>1, FewestExists
<1>3. s \in SUBSET S /\ s \notin G OBVIOUS
<1>4. ASSUME NEW x \in s PROVE s \ {x} \in G
  <2>1. s \ {x} \in SUBSET S /\ ~(Cardinality(s) <= Cardinality(s \ {x})) BY <1>3, Smaller
  <2> QED BY <1>2, <2>1
<1> QED BY <1>3, <1>4

(* Induction up to a number, for a set of numbers. *)
LEMMA UpTo ==
  ASSUME NEW n \in Nat, NEW G, 0 \in G, \A k \in 1..n : k - 1 \in G => k \in G
  PROVE \A k \in 0..n : k \in G
<1> DEFINE T == {k \in 0..n : k \notin G}
<1>1. SUFFICES ASSUME T # {} PROVE FALSE OBVIOUS
<1>2. PICK k \in T : \A m \in T : k <= m
  <2>1. T \in SUBSET Nat OBVIOUS
  <2> HIDE DEF T
  <2> QED BY <1>1, <2>1, MinExists
<1>3. k \in 0..n /\ k \notin G OBVIOUS
<1>4. k \in 1..n BY <1>3
<1>5. k - 1 \in 0..n /\ ~(k <= k - 1) BY <1>4
<1>6. k - 1 \in G BY <1>2, <1>5
<1> QED BY <1>3, <1>4, <1>6

LEMMA SummingExists ==
  ASSUME NEW g, NEW S, IsFiniteSet(S)
  PROVE \E f : f = [s \in SUBSET S |-> Summing(g, f, s)]
<1> DEFINE D(n) == {s \in SUBSET S : Cardinality(s) <= n}
           P(n) == \E f : f = [s \in D(n) |-> Summing(g, f, s)]
           T == {n \in Nat : ~P(n)}
<1>1. P(0)
  <2> DEFINE f == [s \in D(0) |-> 0]
  <2>1. ASSUME NEW s \in D(0) PROVE Summing(g, f, s) = 0
    <3>1. IsFiniteSet(s) /\ Cardinality(s) \in Nat /\ Cardinality(s) <= 0 BY FS_Subset, FS_CardinalityType
    <3>2. s = {} BY <3>1, FS_EmptySet
    <3> QED BY <3>2 DEF Summing
  <2>2. f = [s \in D(0) |-> Summing(g, f, s)]
    <3> HIDE DEF D
    <3> QED BY <2>1
  <2> HIDE DEF f
  <2> QED BY <2>2
<1>2. ASSUME NEW n \in Nat, P(n) PROVE P(n + 1)
  <2>1. PICK f : f = [s \in D(n) |-> Summing(g, f, s)] BY <1>2
  <2> DEFINE h == [s \in D(n + 1) |-> Summing(g, f, s)]
  <2>2. ASSUME NEW s \in D(n + 1) PROVE Summing(g, f, s) = Summing(g, h, s)
    <3>1. CASE s = {} BY <3>1 DEF Summing
    <3>2. CASE s # {}
      <4> DEFINE r == s \ {Pick(s)}
      <4>1. Pick(s) \in s BY <3>2, PickIn
      <4>2. r \in SUBSET S /\ Cardinality(r) = Cardinality(s) - 1 /\ Cardinality(s) \in Nat /\ Cardinality(s) <= n + 1
        BY <4>1, Smaller
      <4>3. r \in D(n) /\ r \in D(n + 1) BY <4>2
      <4>4. f[r] = Summing(g, f, r) /\ h[r] = Summing(g, f, r)
        <5> HIDE DEF D, r
        <5> QED BY <2>1, <4>3
      <4> HIDE DEF h, D
      <4> QED BY <3>2, <4>4 DEF Summing
    <3> QED BY <3>1, <3>2
  <2>3. h = [s \in D(n + 1) |-> Summing(g, h, s)]
    <3> DEFINE k == [s \in D(n + 1) |-> Summing(g, h, s)]
    <3>1. \A s \in D(n + 1) : h[s] = k[s]
      <4> HIDE DEF D
      <4> QED BY <2>2
    <3> HIDE DEF D
    <3> QED BY <3>1
  <2> HIDE DEF h
  <2> QED BY <2>3
<1>3. T = {}
  <2>1. SUFFICES ASSUME T # {} PROVE FALSE OBVIOUS
  <2> HIDE DEF P
  <2>2. PICK n \in T : \A m \in T : n <= m
    <3>1. T \in SUBSET Nat OBVIOUS
    <3> HIDE DEF T
    <3> QED BY <2>1, <3>1, MinExists
  <2>3. n \in Nat /\ ~P(n) OBVIOUS
  <2>4. n # 0 BY <1>1, <2>3
  <2>5. n - 1 \in Nat /\ ~(n <= n - 1) /\ (n - 1) + 1 = n BY <2>3, <2>4
  <2>6. P(n - 1) BY <2>2, <2>5
  <2>7. P((n - 1) + 1) BY <1>2, <2>5, <2>6
  <2> QED BY <2>3, <2>5, <2>7
<1>4. Cardinality(S) \in Nat BY FS_CardinalityType
<1>5. D(Cardinality(S)) = SUBSET S
  <2>1. ASSUME NEW s \in SUBSET S PROVE Cardinality(s) <= Cardinality(S) BY FS_Subset
  <2> QED BY <2>1
<1>6. P(Cardinality(S))
  <2> HIDE DEF P
  <2> QED BY <1>3, <1>4
<1> HIDE DEF D
<1> QED BY <1>5, <1>6

(* The sums over the subsets of S. *)
Sums(g, S) == CHOOSE f : f = [s \in SUBSET S |-> Summing(g, f, s)]

LEMMA SumsAt ==
  ASSUME NEW g, NEW S, IsFiniteSet(S), NEW s \in SUBSET S
  PROVE Sums(g, S)[s] = Summing(g, Sums(g, S), s)
<1>1. Sums(g, S) = [r \in SUBSET S |-> Summing(g, Sums(g, S), r)] BY SummingExists DEF Sums
<1> QED BY <1>1

LEMMA SumsDef ==
  ASSUME NEW g, NEW S
  PROVE SumFunctionOnSet(g, S) = Sums(g, S)[S]
BY DEF SumFunctionOnSet, FoldFunctionOnSet, MapThenFoldSet, Sums, Summing, Pick

LEMMA SumsAgree ==
  ASSUME NEW g, NEW S, NEW T, IsFiniteSet(S), IsFiniteSet(T), NEW s \in SUBSET S, s \in SUBSET T
  PROVE Sums(g, S)[s] = Sums(g, T)[s]
<1> DEFINE F == {r \in SUBSET S : r \in SUBSET T /\ Sums(g, S)[r] # Sums(g, T)[r]}
<1>1. F = {}
  <2>1. SUFFICES ASSUME F # {} PROVE FALSE OBVIOUS
  <2>2. PICK r \in F : \A q \in F : Cardinality(r) <= Cardinality(q)
    <3>1. F \in SUBSET (SUBSET S) OBVIOUS
    <3> HIDE DEF F
    <3> QED BY <2>1, <3>1, FewestExists
  <2>3. Sums(g, S)[r] = Summing(g, Sums(g, S), r) /\ Sums(g, T)[r] = Summing(g, Sums(g, T), r)
    <3>1. r \in SUBSET S /\ r \in SUBSET T OBVIOUS
    <3> HIDE DEF F
    <3> QED BY <3>1, SumsAt
  <2>4. r # {}
    <3>1. SUFFICES ASSUME r = {} PROVE FALSE OBVIOUS
    <3>2. Sums(g, S)[r] = 0 /\ Sums(g, T)[r] = 0 BY <2>3, <3>1 DEF Summing
    <3> QED BY <3>2
  <2> DEFINE q == r \ {Pick(r)}
  <2>5. Pick(r) \in r BY <2>4, PickIn
  <2>6. q \in SUBSET S /\ q \in SUBSET T /\ ~(Cardinality(r) <= Cardinality(q))
    <3>1. r \in SUBSET S /\ r \in SUBSET T OBVIOUS
    <3>2. Cardinality(r) \in Nat /\ Cardinality(q) = Cardinality(r) - 1 BY <2>5, <3>1, Smaller
    <3> QED BY <3>1, <3>2
  <2>7. Sums(g, S)[q] = Sums(g, T)[q] BY <2>2, <2>6
  <2>8. Sums(g, S)[r] = Sums(g, T)[r] BY <2>3, <2>4, <2>7 DEF Summing
  <2> QED BY <2>8
<1> QED BY <1>1

LEMMA SumEmpty ==
  ASSUME NEW g
  PROVE SumFunctionOnSet(g, {}) = 0
<1>1. IsFiniteSet({}) BY FS_EmptySet
<1>2. {} \in SUBSET {} OBVIOUS
<1>3. Sums(g, {})[{}] = Summing(g, Sums(g, {}), {}) BY <1>1, <1>2, SumsAt
<1> QED BY <1>3, SumsDef DEF Summing

LEMMA SumPick ==
  ASSUME NEW g, NEW S, IsFiniteSet(S), S # {}
  PROVE SumFunctionOnSet(g, S) = g[Pick(S)] + SumFunctionOnSet(g, S \ {Pick(S)})
<1> DEFINE R == S \ {Pick(S)}
<1>1. IsFiniteSet(R) BY FS_RemoveElement
<1>2. S \in SUBSET S /\ R \in SUBSET S /\ R \in SUBSET R OBVIOUS
<1>3. Sums(g, S)[S] = Summing(g, Sums(g, S), S) BY <1>2, SumsAt
<1>4. Sums(g, S)[R] = Sums(g, R)[R] BY <1>1, <1>2, SumsAgree
<1> QED BY <1>3, <1>4, SumsDef DEF Summing

(* Where all values are naturals: *)
LEMMA SumType ==
  ASSUME NEW g, NEW S, IsFiniteSet(S), \A x \in S : g[x] \in Nat
  PROVE SumFunctionOnSet(g, S) \in Nat
<1> DEFINE G == {s \in SUBSET S : SumFunctionOnSet(g, s) \in Nat}
<1>1. ASSUME NEW s \in SUBSET S, \A x \in s : s \ {x} \in G PROVE s \in G
  <2>1. CASE s = {} BY <2>1, SumEmpty
  <2>2. CASE s # {}
    <3>1. IsFiniteSet(s) BY FS_Subset
    <3>2. Pick(s) \in s BY <2>2, PickIn
    <3>3. SumFunctionOnSet(g, s) = g[Pick(s)] + SumFunctionOnSet(g, s \ {Pick(s)}) BY <2>2, <3>1, SumPick
    <3>4. SumFunctionOnSet(g, s \ {Pick(s)}) \in Nat /\ g[Pick(s)] \in Nat BY <1>1, <3>2
    <3> QED BY <3>3, <3>4
  <2> QED BY <2>1, <2>2
<1>2. \A s \in SUBSET S : s \in G
  <2> HIDE DEF G
  <2> QED BY <1>1, SubsetInduction
<1> QED BY <1>2

(* Any element can be taken out. *)
LEMMA SumRemove ==
  ASSUME NEW g, NEW S, IsFiniteSet(S), \A x \in S : g[x] \in Nat, NEW y \in S
  PROVE SumFunctionOnSet(g, S) = g[y] + SumFunctionOnSet(g, S \ {y})
<1> DEFINE G == {s \in SUBSET S : \A x \in s : SumFunctionOnSet(g, s) = g[x] + SumFunctionOnSet(g, s \ {x})}
<1>1. ASSUME NEW s \in SUBSET S, \A x \in s : s \ {x} \in G PROVE s \in G
  <2>1. SUFFICES ASSUME NEW x \in s PROVE SumFunctionOnSet(g, s) = g[x] + SumFunctionOnSet(g, s \ {x}) OBVIOUS
  <2>2. IsFiniteSet(s) /\ s # {} BY FS_Subset
  <2>3. PICK p \in s : p = Pick(s) BY <2>2, PickIn
  <2>4. SumFunctionOnSet(g, s) = g[p] + SumFunctionOnSet(g, s \ {p}) BY <2>2, <2>3, SumPick
  <2>5. CASE p = x BY <2>4, <2>5
  <2>6. CASE p # x
    <3>1. x \in s \ {p} /\ p \in s \ {x} BY <2>6
    <3>2. s \ {p} \in G /\ s \ {x} \in G BY <1>1
    <3>3. SumFunctionOnSet(g, s \ {p}) = g[x] + SumFunctionOnSet(g, (s \ {p}) \ {x}) BY <3>1, <3>2
    <3>4. SumFunctionOnSet(g, s \ {x}) = g[p] + SumFunctionOnSet(g, (s \ {x}) \ {p}) BY <3>1, <3>2
    <3>5. PICK r \in SUBSET S : r = (s \ {p}) \ {x} /\ r = (s \ {x}) \ {p} OBVIOUS
    <3>6. IsFiniteSet(r) BY FS_Subset
    <3>7. SumFunctionOnSet(g, r) \in Nat /\ g[p] \in Nat /\ g[x] \in Nat BY <3>6, SumType
    <3> HIDE DEF G
    <3> QED BY <2>4, <3>3, <3>4, <3>5, <3>7
  <2> QED BY <2>5, <2>6
<1>2. \A s \in SUBSET S : s \in G
  <2> HIDE DEF G
  <2> QED BY <1>1, SubsetInduction
<1> QED BY <1>2

LEMMA SumAdd ==
  ASSUME NEW g, NEW S, IsFiniteSet(S), \A x \in S : g[x] \in Nat, NEW y, y \notin S, g[y] \in Nat
  PROVE SumFunctionOnSet(g, S \cup {y}) = g[y] + SumFunctionOnSet(g, S)
<1>1. IsFiniteSet(S \cup {y}) BY FS_AddElement
<1>2. (S \cup {y}) \ {y} = S OBVIOUS
<1>3. y \in S \cup {y} /\ \A x \in S \cup {y} : g[x] \in Nat OBVIOUS
<1>4. SumFunctionOnSet(g, S \cup {y}) = g[y] + SumFunctionOnSet(g, (S \cup {y}) \ {y}) BY <1>1, <1>3, SumRemove
<1> QED BY <1>2, <1>4

(* Only the values on the set count. *)
LEMMA SumSame ==
  ASSUME NEW g, NEW h, NEW S, IsFiniteSet(S), \A x \in S : g[x] = h[x]
  PROVE SumFunctionOnSet(g, S) = SumFunctionOnSet(h, S)
<1> DEFINE G == {s \in SUBSET S : SumFunctionOnSet(g, s) = SumFunctionOnSet(h, s)}
<1>1. ASSUME NEW s \in SUBSET S, \A x \in s : s \ {x} \in G PROVE s \in G
  <2>1. CASE s = {} BY <2>1, SumEmpty
  <2>2. CASE s # {}
    <3>1. IsFiniteSet(s) BY FS_Subset
    <3>2. Pick(s) \in s BY <2>2, PickIn
    <3>3. SumFunctionOnSet(g, s) = g[Pick(s)] + SumFunctionOnSet(g, s \ {Pick(s)}) BY <2>2, <3>1, SumPick
    <3>4. SumFunctionOnSet(h, s) = h[Pick(s)] + SumFunctionOnSet(h, s \ {Pick(s)}) BY <2>2, <3>1, SumPick
    <3>5. SumFunctionOnSet(g, s \ {Pick(s)}) = SumFunctionOnSet(h, s \ {Pick(s)}) /\ g[Pick(s)] = h[Pick(s)]
      BY <1>1, <3>2
    <3> QED BY <3>3, <3>4, <3>5
  <2> QED BY <2>1, <2>2
<1>2. \A s \in SUBSET S : s \in G
  <2> HIDE DEF G
  <2> QED BY <1>1, SubsetInduction
<1> QED BY <1>2

LEMMA SumUnion ==
  ASSUME NEW g, NEW S, NEW T, IsFiniteSet(S), IsFiniteSet(T), S \cap T = {}, \A x \in S \cup T : g[x] \in Nat
  PROVE SumFunctionOnSet(g, S \cup T) = SumFunctionOnSet(g, S) + SumFunctionOnSet(g, T)
<1> DEFINE G == {s \in SUBSET S : SumFunctionOnSet(g, s \cup T) = SumFunctionOnSet(g, s) + SumFunctionOnSet(g, T)}
<1>0. SumFunctionOnSet(g, T) \in Nat BY SumType
<1>1. ASSUME NEW s \in SUBSET S, \A x \in s : s \ {x} \in G PROVE s \in G
  <2>1. CASE s = {}
    <3>1. s \cup T = T BY <2>1
    <3> QED BY <1>0, <2>1, <3>1, SumEmpty
  <2>2. CASE s # {}
    <3>1. IsFiniteSet(s) /\ IsFiniteSet(s \ {Pick(s)}) BY FS_Subset, FS_RemoveElement
    <3>2. PICK p \in s : p = Pick(s) BY <2>2, PickIn
    <3>3. IsFiniteSet(s \ {p}) BY <3>1, FS_RemoveElement
    <3>4. SumFunctionOnSet(g, s \ {p}) \in Nat /\ g[p] \in Nat BY <3>3, SumType
    <3>5. SumFunctionOnSet(g, s) = g[p] + SumFunctionOnSet(g, s \ {p}) BY <3>1, SumRemove
    <3>6. IsFiniteSet(s \cup T) /\ p \in s \cup T /\ \A x \in s \cup T : g[x] \in Nat BY <3>1, FS_Union
    <3>7. SumFunctionOnSet(g, s \cup T) = g[p] + SumFunctionOnSet(g, (s \cup T) \ {p}) BY <3>6, SumRemove
    <3>8. (s \cup T) \ {p} = (s \ {p}) \cup T OBVIOUS
    <3>9. SumFunctionOnSet(g, (s \ {p}) \cup T) = SumFunctionOnSet(g, s \ {p}) + SumFunctionOnSet(g, T) BY <1>1
    <3>10. SumFunctionOnSet(g, (s \cup T) \ {p}) = SumFunctionOnSet(g, s \ {p}) + SumFunctionOnSet(g, T) BY <3>8, <3>9
    <3>11. SumFunctionOnSet(g, s \cup T) = SumFunctionOnSet(g, s) + SumFunctionOnSet(g, T)
      <4> HIDE DEF G
      <4> QED BY <1>0, <3>4, <3>5, <3>7, <3>10
    <3> QED BY <3>11
  <2> QED BY <2>1, <2>2
<1>2. \A s \in SUBSET S : s \in G
  <2> HIDE DEF G
  <2> QED BY <1>1, SubsetInduction
<1>3. S \in G
  <2>1. S \in SUBSET S OBVIOUS
  <2> HIDE DEF G
  <2> QED BY <1>2, <2>1
<1>4. PICK s \in G : s = S BY <1>3
<1>5. SumFunctionOnSet(g, s \cup T) = SumFunctionOnSet(g, s) + SumFunctionOnSet(g, T) OBVIOUS
<1> HIDE DEF G
<1> QED BY <1>4, <1>5

LEMMA SumLess ==
  ASSUME NEW g, NEW T, IsFiniteSet(T), \A x \in T : g[x] \in Nat, NEW S \in SUBSET T
  PROVE SumFunctionOnSet(g, S) <= SumFunctionOnSet(g, T)
<1>1. PICK R \in SUBSET T : R = T \ S OBVIOUS
<1>2. IsFiniteSet(S) /\ IsFiniteSet(R) BY FS_Subset
<1>3. S \cup R = T /\ S \cap R = {} BY <1>1
<1>4. \A x \in S \cup R : g[x] \in Nat BY <1>3
<1>5. SumFunctionOnSet(g, S \cup R) = SumFunctionOnSet(g, S) + SumFunctionOnSet(g, R) BY <1>2, <1>3, <1>4, SumUnion
<1>6. SumFunctionOnSet(g, S) \in Nat /\ SumFunctionOnSet(g, R) \in Nat BY <1>2, SumType
<1>7. SumFunctionOnSet(g, T) = SumFunctionOnSet(g, S) + SumFunctionOnSet(g, R) BY <1>3, <1>5
<1> QED BY <1>6, <1>7

(* A sum of ones is a cardinality. *)
LEMMA SumOnes ==
  ASSUME NEW g, NEW S, IsFiniteSet(S), \A x \in S : g[x] = 1
  PROVE SumFunctionOnSet(g, S) = Cardinality(S)
<1> DEFINE G == {s \in SUBSET S : SumFunctionOnSet(g, s) = Cardinality(s)}
<1>1. ASSUME NEW s \in SUBSET S, \A x \in s : s \ {x} \in G PROVE s \in G
  <2>1. CASE s = {} BY <2>1, SumEmpty, FS_EmptySet
  <2>2. CASE s # {}
    <3>1. IsFiniteSet(s) BY FS_Subset
    <3>2. PICK p \in s : p = Pick(s) BY <2>2, PickIn
    <3>3. SumFunctionOnSet(g, s) = g[p] + SumFunctionOnSet(g, s \ {p}) BY <2>2, <3>1, <3>2, SumPick
    <3>4. SumFunctionOnSet(g, s \ {p}) = Cardinality(s \ {p}) BY <1>1, <3>2
    <3>5. Cardinality(s) \in Nat /\ Cardinality(s \ {p}) = Cardinality(s) - 1 /\ g[p] = 1 BY Smaller
    <3>6. SumFunctionOnSet(g, s) = Cardinality(s) BY <3>3, <3>4, <3>5
    <3> QED BY <3>6
  <2> QED BY <2>1, <2>2
<1>2. \A s \in SUBSET S : s \in G
  <2> HIDE DEF G
  <2> QED BY <1>1, SubsetInduction
<1> QED BY <1>2

(* Over a set that is counted by another. *)
Image(f, S) == {f[x] : x \in S}

LEMMA SumImage ==
  ASSUME NEW g, NEW h, NEW f, NEW S, IsFiniteSet(S), \A x \in S : h[x] = g[f[x]] /\ h[x] \in Nat
  PROVE /\ IsFiniteSet(Image(f, S))
        /\ SumFunctionOnSet(g, Image(f, S)) <= SumFunctionOnSet(h, S)
        /\ (\A x, y \in S : f[x] = f[y] => x = y) => SumFunctionOnSet(g, Image(f, S)) = SumFunctionOnSet(h, S)
<1> DEFINE Im(s) == {f[x] : x \in s}
           Apart(s) == \A x, y \in s : f[x] = f[y] => x = y
           G == {s \in SUBSET S : /\ IsFiniteSet(Im(s)) /\ SumFunctionOnSet(g, Im(s)) <= SumFunctionOnSet(h, s)
                                  /\ Apart(s) => SumFunctionOnSet(g, Im(s)) = SumFunctionOnSet(h, s)}
<1>1. ASSUME NEW s \in SUBSET S, \A x \in s : s \ {x} \in G PROVE s \in G
  <2>1. CASE s = {}
    <3>1. Im(s) = {} BY <2>1
    <3> HIDE DEF Im
    <3> QED BY <2>1, <3>1, SumEmpty, FS_EmptySet
  <2>2. CASE s # {}
    <3>1. IsFiniteSet(s) BY FS_Subset
    <3>2. PICK p \in s : p = Pick(s) BY <2>2, PickIn
    <3>3. PICK r \in SUBSET S : r = s \ {p} OBVIOUS
    <3>4. r \in G BY <1>1, <3>3
    <3>5. SumFunctionOnSet(h, s) = h[p] + SumFunctionOnSet(h, r) BY <2>2, <3>1, <3>2, <3>3, SumPick
    <3>6. IsFiniteSet(Im(r)) /\ SumFunctionOnSet(g, Im(r)) <= SumFunctionOnSet(h, r) BY <3>4
    <3>7. Apart(r) => SumFunctionOnSet(g, Im(r)) = SumFunctionOnSet(h, r) BY <3>4
    <3>8. \A y \in Im(r) : g[y] \in Nat OBVIOUS
    <3>9. Im(s) = Im(r) \cup {f[p]} BY <3>3
    <3>10. Apart(s) => Apart(r) /\ f[p] \notin Im(r) BY <3>3
    <3>11. h[p] = g[f[p]] /\ h[p] \in Nat OBVIOUS
    <3> HIDE DEF Im, Apart
    <3>12. IsFiniteSet(r) BY <3>1, <3>3, FS_RemoveElement
    <3>13. SumFunctionOnSet(h, r) \in Nat BY <3>12, SumType
    <3>14. SumFunctionOnSet(g, Im(r)) \in Nat BY <3>6, <3>8, SumType
    <3>15. IsFiniteSet(Im(s)) BY <3>6, <3>9, FS_AddElement
    <3>16. CASE f[p] \in Im(r)
      <4>1. Im(s) = Im(r) BY <3>9, <3>16
      <4>2. SumFunctionOnSet(g, Im(s)) <= SumFunctionOnSet(h, s) BY <3>5, <3>6, <3>11, <3>13, <3>14, <4>1
      <4> QED BY <3>10, <3>15, <3>16, <4>2
    <3>17. CASE f[p] \notin Im(r)
      <4>1. SumFunctionOnSet(g, Im(s)) = g[f[p]] + SumFunctionOnSet(g, Im(r)) BY <3>6, <3>8, <3>9, <3>11, <3>17, SumAdd
      <4>2. SumFunctionOnSet(g, Im(s)) <= SumFunctionOnSet(h, s) BY <3>5, <3>6, <3>11, <3>13, <3>14, <4>1
      <4>3. Apart(s) => SumFunctionOnSet(g, Im(s)) = SumFunctionOnSet(h, s) BY <3>5, <3>7, <3>10, <3>11, <4>1
      <4> QED BY <3>15, <4>2, <4>3
    <3> QED BY <3>16, <3>17
  <2> QED BY <2>1, <2>2
<1>2. \A s \in SUBSET S : s \in G
  <2> HIDE DEF G
  <2> QED BY <1>1, SubsetInduction
<1>3. S \in G BY <1>2
<1> QED BY <1>3 DEF Image

(***************************************************************************)
(* Folds over a sequence                                                   *)
(***************************************************************************)
LEMMA MaxFacts ==
  /\ \A n \in Nat : \A s \in SUBSET (1..n) : s # {} => Max(s) \in s
  /\ \A k \in Nat \ {0} : Max(1..k) = k
<1>1. ASSUME NEW n \in Nat, NEW s \in SUBSET (1..n), s # {} PROVE Max(s) \in s
  <2> DEFINE T == {k \in 0..n : n - k \in s}
  <2>1. T \in SUBSET Nat OBVIOUS
  <2>2. PICK x \in s : TRUE BY <1>1
  <2>3. n - x \in T
    <3>1. x \in 1..n OBVIOUS
    <3>2. n - x \in 0..n /\ n - (n - x) = x BY <3>1
    <3> QED BY <3>2
  <2>4. PICK k \in T : \A m \in T : k <= m
    <3> HIDE DEF T
    <3> QED BY <2>1, <2>3, MinExists
  <2>5. n - k \in s OBVIOUS
  <2>6. \A y \in s : n - k >= y
    <3> TAKE y \in s
    <3>1. y \in 1..n /\ k \in 0..n OBVIOUS
    <3>2. n - y \in 0..n /\ n - (n - y) = y BY <3>1
    <3>3. k <= n - y BY <2>4, <3>2
    <3> QED BY <3>1, <3>3
  <2> QED BY <2>5, <2>6 DEF Max
<1>2. ASSUME NEW k \in Nat \ {0} PROVE Max(1..k) = k
  <2>1. k \in 1..k /\ \A y \in 1..k : k >= y OBVIOUS
  <2>2. Max(1..k) \in 1..k
    <3>1. k \in Nat /\ 1..k \in SUBSET (1..k) /\ 1..k # {} BY <2>1
    <3>2. PICK s \in SUBSET (1..k) : s = 1..k BY <3>1
    <3>3. Max(s) \in s BY <1>1, <3>1, <3>2
    <3> QED BY <3>2, <3>3
  <2>3. \A y \in 1..k : Max(1..k) >= y BY <2>1 DEF Max
  <2> QED BY <2>1, <2>2, <2>3
<1> QED BY <1>1, <1>2

Saving(table, recs, f, s) == IF s = {} THEN table ELSE SaveRecord(f[s \ {Max(s)}], recs[Max(s)])

LEMMA SavingExists ==
  ASSUME NEW table, NEW recs, NEW N \in Nat, NEW S, S = 1..N
  PROVE \E f : f = [s \in SUBSET S |-> Saving(table, recs, f, s)]
<1>0. IsFiniteSet(S) BY FS_Interval
<1> DEFINE D(n) == {s \in SUBSET S : Cardinality(s) <= n}
           P(n) == \E f : f = [s \in D(n) |-> Saving(table, recs, f, s)]
           G == {n \in Nat : P(n)}
<1>1. P(0)
  <2> DEFINE f == [s \in D(0) |-> table]
  <2>1. ASSUME NEW s \in D(0) PROVE Saving(table, recs, f, s) = table
    <3>1. IsFiniteSet(s) /\ Cardinality(s) \in Nat /\ Cardinality(s) <= 0 BY <1>0, FS_Subset, FS_CardinalityType
    <3>2. s = {} BY <3>1, FS_EmptySet
    <3> QED BY <3>2 DEF Saving
  <2>2. f = [s \in D(0) |-> Saving(table, recs, f, s)]
    <3> HIDE DEF D
    <3> QED BY <2>1
  <2> HIDE DEF f
  <2> QED BY <2>2
<1>2. ASSUME NEW n \in Nat, P(n) PROVE P(n + 1)
  <2>1. PICK f : f = [s \in D(n) |-> Saving(table, recs, f, s)] BY <1>2
  <2> DEFINE h == [s \in D(n + 1) |-> Saving(table, recs, f, s)]
  <2>2. ASSUME NEW s \in D(n + 1) PROVE Saving(table, recs, f, s) = Saving(table, recs, h, s)
    <3>1. CASE s = {} BY <3>1 DEF Saving
    <3>2. CASE s # {}
      <4> DEFINE r == s \ {Max(s)}
      <4>1. PICK x \in s : x = Max(s) BY <3>2, MaxFacts
      <4>2. r \in SUBSET S /\ Cardinality(r) = Cardinality(s) - 1 /\ Cardinality(s) \in Nat /\ Cardinality(s) <= n + 1
        <5>1. s \in SUBSET S /\ Cardinality(s) <= n + 1 OBVIOUS
        <5>2. r = s \ {x} BY <4>1
        <5> HIDE DEF r, D
        <5>3. /\ Cardinality(s) \in Nat /\ s \ {x} \in SUBSET S /\ Cardinality(s \ {x}) = Cardinality(s) - 1
          BY <1>0, <5>1, Smaller
        <5> QED BY <5>1, <5>2, <5>3
      <4>3. r \in D(n) /\ r \in D(n + 1) BY <4>2
      <4>4. f[r] = Saving(table, recs, f, r) /\ h[r] = Saving(table, recs, f, r)
        <5> HIDE DEF D, r
        <5> QED BY <2>1, <4>3
      <4> HIDE DEF h, D
      <4> QED BY <3>2, <4>4 DEF Saving
    <3> QED BY <3>1, <3>2
  <2>3. h = [s \in D(n + 1) |-> Saving(table, recs, h, s)]
    <3> DEFINE k == [s \in D(n + 1) |-> Saving(table, recs, h, s)]
    <3>1. \A s \in D(n + 1) : h[s] = k[s]
      <4> HIDE DEF D
      <4> QED BY <2>2
    <3> HIDE DEF D
    <3> QED BY <3>1
  <2> HIDE DEF h
  <2> QED BY <2>3
<1>3. Cardinality(S) \in Nat BY <1>0, FS_CardinalityType
<1>4. \A n \in 0..Cardinality(S) : n \in G
  <2>1. 0 \in G
    <3> HIDE DEF P
    <3> QED BY <1>1
  <2>2. ASSUME NEW n \in 1..Cardinality(S), n - 1 \in G PROVE n \in G
    <3>1. n - 1 \in Nat /\ (n - 1) + 1 = n BY <1>3
    <3> HIDE DEF P
    <3>2. P(n - 1) BY <2>2
    <3>3. P((n - 1) + 1) BY <1>2, <3>1, <3>2
    <3> QED BY <1>3, <3>1, <3>3
  <2> HIDE DEF G
  <2> QED BY <1>3, <2>1, <2>2, UpTo
<1>5. D(Cardinality(S)) = SUBSET S
  <2>1. ASSUME NEW s \in SUBSET S PROVE Cardinality(s) <= Cardinality(S) BY <1>0, FS_Subset
  <2> QED BY <2>1
<1>6. P(Cardinality(S))
  <2>1. Cardinality(S) \in 0..Cardinality(S) BY <1>3
  <2>2. Cardinality(S) \in G
    <3> HIDE DEF G
    <3> QED BY <1>4, <2>1
  <2> HIDE DEF P
  <2> QED BY <2>2
<1> HIDE DEF D
<1> QED BY <1>5, <1>6

(* What save_record_data makes of the records, one after the other. *)
LEMMA SaveAllSteps ==
  ASSUME NEW table, NEW R, NEW recs \in Seq(R)
  PROVE \E h : /\ h[0] = table /\ SaveAll(table, recs) = h[Len(recs)]
               /\ \A k \in 1..Len(recs) : h[k] = SaveRecord(h[k - 1], recs[k])
<1> DEFINE S == 1..Len(recs)
           f == CHOOSE f : f = [s \in SUBSET S |-> Saving(table, recs, f, s)]
           h == [k \in 0..Len(recs) |-> f[1..k]]
<1>0. Len(recs) \in Nat /\ DOMAIN recs = S OBVIOUS
<1>1. f = [s \in SUBSET S |-> Saving(table, recs, f, s)] BY <1>0, SavingExists
<1>2. SaveAll(table, recs) = f[S] BY <1>0 DEF SaveAll, FoldLeft, MapThenFoldSet, Saving
<1> HIDE DEF f
<1>3. h[0] = table
  <2>1. 0 \in 0..Len(recs) /\ 1..0 = {} BY <1>0
  <2>2. h[0] = f[{}] BY <2>1
  <2>3. f[{}] = Saving(table, recs, f, {}) BY <1>1
  <2> QED BY <2>2, <2>3 DEF Saving
<1>4. h[Len(recs)] = f[S] BY <1>0
<1>5. ASSUME NEW k \in 1..Len(recs) PROVE h[k] = SaveRecord(h[k - 1], recs[k])
  <2>1. k \in Nat \ {0} /\ k \in 0..Len(recs) /\ k - 1 \in 0..Len(recs) /\ 1..k \in SUBSET S /\ 1..k # {} BY <1>0
  <2>2. (1..k) \ {k} = 1..(k - 1) BY <2>1
  <2>3. Max(1..k) = k BY <2>1, MaxFacts
  <2>4. h[k] = f[1..k] /\ h[k - 1] = f[1..(k - 1)] BY <2>1
  <2>5. f[1..k] = Saving(table, recs, f, 1..k)
    <3> HIDE DEF S
    <3> QED BY <1>1, <2>1
  <2> HIDE DEF h
  <2> QED BY <2>1, <2>2, <2>3, <2>4, <2>5 DEF Saving
<1> HIDE DEF h
<1> QED BY <1>2, <1>3, <1>4, <1>5

(***************************************************************************)
(* Sequences                                                               *)
(***************************************************************************)
(* The pieces of a sequence of sequences are joined one after the other. *)
Joined(ss, f, i) == IF i = 1 THEN ss[i] ELSE f[i - 1] \o ss[i]

LEMMA JoinedExists ==
  ASSUME NEW N \in Nat, NEW ss
  PROVE \E f : f = [i \in 1..N |-> Joined(ss, f, i)]
<1> DEFINE P(k) == \E f : f = [i \in 1..k |-> Joined(ss, f, i)]
           G == {k \in Nat : P(k)}
<1>1. P(0)
  <2> DEFINE f == [i \in 1..0 |-> ss[i]]
  <2>1. f = [i \in 1..0 |-> Joined(ss, f, i)]
    <3> DEFINE g == [i \in 1..0 |-> Joined(ss, f, i)]
    <3>1. \A i \in 1..0 : f[i] = g[i] OBVIOUS
    <3> QED BY <3>1
  <2> QED BY <2>1
<1>2. ASSUME NEW k \in 1..N, P(k - 1) PROVE P(k)
  <2>1. PICK f : f = [i \in 1..(k - 1) |-> Joined(ss, f, i)] BY <1>2
  <2> DEFINE g == [i \in 1..k |-> IF i = k THEN Joined(ss, f, i) ELSE f[i]]
  <2>2. ASSUME NEW i \in 1..k PROVE g[i] = Joined(ss, g, i)
    <3>1. i # 1 => i - 1 \in 1..(k - 1) OBVIOUS
    <3>2. i # 1 => g[i - 1] = f[i - 1] BY <3>1
    <3>3. Joined(ss, g, i) = Joined(ss, f, i)
      <4> HIDE DEF g
      <4> QED BY <3>2, Zenon DEF Joined
    <3>4. i # k => i \in 1..(k - 1) OBVIOUS
    <3>5. i # k => f[i] = Joined(ss, f, i) BY <3>4, <2>1
    <3> QED BY <3>3, <3>5
  <2>3. g = [i \in 1..k |-> Joined(ss, g, i)] BY <2>2
  <2> QED BY <2>3
<1>3. \A k \in 0..N : k \in G
  <2>1. 0 \in G
    <3> HIDE DEF P
    <3> QED BY <1>1
  <2>2. ASSUME NEW k \in 1..N, k - 1 \in G PROVE k \in G
    <3> HIDE DEF P
    <3> QED BY <1>2, <2>2
  <2> HIDE DEF G
  <2> QED BY <2>1, <2>2, UpTo
<1>4. P(N)
  <2>1. N \in 0..N OBVIOUS
  <2> HIDE DEF P
  <2> QED BY <1>3, <2>1
<1> QED BY <1>4

Cat(x, y) == x \o y
Builds(f, ss, N) == \A k \in 1..N : f[k] = Cat(f[k - 1], ss[k])

LEMMA FlattenSteps ==
  ASSUME NEW R, NEW ss \in Seq(Seq(R))
  PROVE \E h : /\ h[0] = <<>> /\ FlattenSeq(ss) = h[Len(ss)] /\ Builds(h, ss, Len(ss))
               /\ \A k \in 0..Len(ss) : h[k] \in Seq(R)
<1> DEFINE f == CHOOSE f : f = [i \in 1..Len(ss) |-> Joined(ss, f, i)]
           h == [k \in 0..Len(ss) |-> IF k = 0 THEN <<>> ELSE f[k]]
           G == {k \in 0..Len(ss) : h[k] \in Seq(R)}
<1>0. Len(ss) \in Nat OBVIOUS
<1>1. f = [i \in 1..Len(ss) |-> Joined(ss, f, i)] BY <1>0, JoinedExists
<1>2. FlattenSeq(ss) = IF Len(ss) = 0 THEN ss ELSE f[Len(ss)] BY DEF FlattenSeq, Joined
<1> HIDE DEF f
<1>3. h[0] = <<>> BY <1>0
<1>4. FlattenSeq(ss) = h[Len(ss)]
  <2>1. Len(ss) \in 0..Len(ss) BY <1>0
  <2>2. Len(ss) = 0 => ss = <<>> BY EmptySeq
  <2> QED BY <1>2, <2>1, <2>2
<1>5. ASSUME NEW k \in 1..Len(ss) PROVE h[k] = h[k - 1] \o ss[k]
  <2>1. k \in 0..Len(ss) /\ k - 1 \in 0..Len(ss) /\ k # 0 BY <1>0
  <2>2. h[k] = f[k] /\ f[k] = Joined(ss, f, k) BY <1>1, <2>1
  <2>3. CASE k = 1
    <3>1. h[k - 1] = <<>> BY <1>0, <2>3
    <3>2. ss[k] \in Seq(R) OBVIOUS
    <3>3. <<>> \o ss[k] = ss[k] BY <3>2, ConcatEmptySeq
    <3> HIDE DEF h
    <3> QED BY <2>2, <2>3, <3>1, <3>3 DEF Joined
  <2>4. CASE k # 1
    <3>1. k - 1 # 0 BY <2>1, <2>4
    <3>2. h[k - 1] = f[k - 1] BY <2>1, <3>1
    <3> HIDE DEF h
    <3> QED BY <2>2, <2>4, <3>2 DEF Joined
  <2> QED BY <2>3, <2>4
<1>6. \A k \in 0..Len(ss) : k \in G
  <2>1. 0 \in G BY <1>0, <1>3
  <2>2. ASSUME NEW k \in 1..Len(ss), k - 1 \in G PROVE k \in G
    <3>1. h[k - 1] \in Seq(R) BY <2>2
    <3>2. ss[k] \in Seq(R) /\ k \in 0..Len(ss) BY <1>0
    <3>3. h[k] = h[k - 1] \o ss[k] BY <1>5
    <3> HIDE DEF h
    <3> QED BY <3>1, <3>2, <3>3, ConcatProperties
  <2> HIDE DEF G
  <2> QED BY <1>0, <2>1, <2>2, UpTo
<1>7. \A k \in 0..Len(ss) : h[k] \in Seq(R) BY <1>6
<1> HIDE DEF h
<1>8. Builds(h, ss, Len(ss)) BY <1>5 DEF Builds, Cat
<1> QED BY <1>3, <1>4, <1>7, <1>8

LEMMA CatFacts ==
  ASSUME NEW R, NEW x \in Seq(R), NEW y \in Seq(R), NEW z \in Seq(R)
  PROVE Cat(Cat(x, y), z) = Cat(x, Cat(y, z)) /\ Cat(x, <<>>) = x
BY ConcatAssociative, ConcatEmptySeq DEF Cat

Typed(f, m, N, R) == \A k \in m..N : f[k] \in Seq(R)

LEMMA JoinOn ==
  ASSUME NEW R, NEW N \in Nat, NEW x \in Seq(R), NEW g, NEW b, NEW tt, g[0] = x, b[0] = <<>>,
         Typed(tt, 1, N, R), Typed(b, 0, N, R), Builds(b, tt, N), Builds(g, tt, N)
  PROVE g[N] = Cat(x, b[N])
<1> DEFINE G == {k \in 0..N : g[k] = Cat(x, b[k])}
<1>1. 0 \in G
  <2>1. Cat(x, <<>>) = x BY CatFacts
  <2> QED BY <2>1
<1>2. ASSUME NEW k \in 1..N, k - 1 \in G PROVE k \in G
  <2>1. g[k - 1] = Cat(x, b[k - 1]) BY <1>2
  <2>2. b[k - 1] \in Seq(R) /\ tt[k] \in Seq(R) /\ k \in 0..N
    <3>1. k - 1 \in 0..N OBVIOUS
    <3> QED BY <3>1 DEF Typed
  <2>3. g[k] = Cat(g[k - 1], tt[k]) /\ b[k] = Cat(b[k - 1], tt[k]) BY DEF Builds
  <2>4. g[k] = Cat(x, b[k])
    <3> HIDE DEF G
    <3> QED BY <2>1, <2>2, <2>3, CatFacts
  <2> QED BY <2>2, <2>4
<1>3. N \in G
  <2>1. N \in 0..N OBVIOUS
  <2> HIDE DEF G
  <2> QED BY <1>1, <1>2, <2>1, UpTo
<1> QED BY <1>3

LEMMA FlattenConcat ==
  ASSUME NEW R, NEW ss \in Seq(Seq(R)), NEW tt \in Seq(Seq(R))
  PROVE FlattenSeq(ss \o tt) = FlattenSeq(ss) \o FlattenSeq(tt)
<1>1. PICK uu \in Seq(Seq(R)) : uu = ss \o tt BY ConcatProperties
<1>2. Len(uu) = Len(ss) + Len(tt) /\ Len(ss) \in Nat /\ Len(tt) \in Nat BY <1>1, ConcatProperties
<1>3. \A k \in 1..Len(ss) : uu[k] = ss[k] BY <1>1, <1>2, ConcatProperties
<1>4. \A k \in 1..Len(tt) : uu[Len(ss) + k] = tt[k]
  <2> TAKE k \in 1..Len(tt)
  <2>1. Len(ss) + k \in 1..(Len(ss) + Len(tt)) /\ ~(Len(ss) + k <= Len(ss)) /\ Len(ss) + k - Len(ss) = k BY <1>2
  <2> QED BY <1>1, <2>1, ConcatProperties
<1>5. PICK h : /\ h[0] = <<>> /\ FlattenSeq(uu) = h[Len(uu)] /\ Builds(h, uu, Len(uu))
               /\ \A k \in 0..Len(uu) : h[k] \in Seq(R)
  BY FlattenSteps
<1>6. PICK a : /\ a[0] = <<>> /\ FlattenSeq(ss) = a[Len(ss)] /\ Builds(a, ss, Len(ss))
               /\ \A k \in 0..Len(ss) : a[k] \in Seq(R)
  BY FlattenSteps
<1>7. PICK b : /\ b[0] = <<>> /\ FlattenSeq(tt) = b[Len(tt)] /\ Builds(b, tt, Len(tt))
               /\ \A k \in 0..Len(tt) : b[k] \in Seq(R)
  BY FlattenSteps
<1>8. h[Len(ss)] = a[Len(ss)]
  <2> DEFINE G == {k \in 0..Len(ss) : h[k] = a[k]}
  <2>1. 0 \in G BY <1>2, <1>5, <1>6
  <2>2. ASSUME NEW k \in 1..Len(ss), k - 1 \in G PROVE k \in G
    <3>1. k \in 1..Len(uu) /\ k \in 0..Len(ss) BY <1>2
    <3>2. h[k] = Cat(h[k - 1], uu[k]) /\ a[k] = Cat(a[k - 1], ss[k]) BY <1>5, <1>6, <3>1 DEF Builds
    <3>3. h[k - 1] = a[k - 1] /\ uu[k] = ss[k] BY <1>3, <2>2
    <3> QED BY <3>1, <3>2, <3>3
  <2>3. Len(ss) \in 0..Len(ss) BY <1>2
  <2>4. Len(ss) \in G
    <3> HIDE DEF G
    <3> QED BY <1>2, <2>1, <2>2, <2>3, UpTo
  <2> QED BY <2>4
<1>9. h[Len(ss) + Len(tt)] = Cat(a[Len(ss)], b[Len(tt)])
  <2>1. a[Len(ss)] \in Seq(R)
    <3>1. Len(ss) \in 0..Len(ss) BY <1>2
    <3> QED BY <1>6, <3>1
  <2>2. PICK x \in Seq(R) : x = a[Len(ss)] BY <2>1
  <2>3. PICK g : g = [k \in 0..Len(tt) |-> h[Len(ss) + k]] OBVIOUS
  <2>4. 0 \in 0..Len(tt) /\ Len(tt) \in 0..Len(tt) /\ Len(ss) + 0 = Len(ss) BY <1>2
  <2>5. g[0] = x
    <3>1. g[0] = h[Len(ss) + 0] BY <2>3, <2>4
    <3> QED BY <1>8, <2>2, <2>4, <3>1
  <2>6. Builds(g, tt, Len(tt))
    <3> SUFFICES ASSUME NEW k \in 1..Len(tt) PROVE g[k] = Cat(g[k - 1], tt[k]) BY DEF Builds
    <3>1. Len(ss) + k \in 1..Len(uu) /\ k \in 0..Len(tt) /\ k - 1 \in 0..Len(tt) /\ (Len(ss) + k) - 1 = Len(ss) + (k - 1)
      BY <1>2
    <3>2. h[Len(ss) + k] = Cat(h[(Len(ss) + k) - 1], uu[Len(ss) + k]) BY <1>5, <3>1 DEF Builds
    <3>3. g[k] = h[Len(ss) + k] /\ g[k - 1] = h[Len(ss) + (k - 1)] BY <2>3, <3>1
    <3>4. uu[Len(ss) + k] = tt[k] BY <1>4
    <3> QED BY <3>1, <3>2, <3>3, <3>4
  <2>7. g[Len(tt)] = Cat(x, b[Len(tt)])
    <3>1. Typed(tt, 1, Len(tt), R) BY DEF Typed
    <3>2. b[0] = <<>> /\ Builds(b, tt, Len(tt)) /\ Typed(b, 0, Len(tt), R) BY <1>7 DEF Typed
    <3>3. PICK N \in Nat : N = Len(tt) BY <1>2
    <3> QED BY <2>5, <2>6, <3>1, <3>2, <3>3, JoinOn, SMTT(60)
  <2>8. g[Len(tt)] = h[Len(ss) + Len(tt)] BY <2>3, <2>4
  <2> QED BY <2>2, <2>7, <2>8
<1>10. FlattenSeq(uu) = Cat(FlattenSeq(ss), FlattenSeq(tt)) BY <1>2, <1>5, <1>6, <1>7, <1>9
<1> QED BY <1>1, <1>10 DEF Cat

(* SetToSeq gives each element of a finite set one place. *)
LEMMA SetToSeqFacts ==
  ASSUME NEW S, IsFiniteSet(S)
  PROVE /\ SetToSeq(S) \in Seq(S)
        /\ \A i, j \in DOMAIN SetToSeq(S) : SetToSeq(S)[i] = SetToSeq(S)[j] => i = j
        /\ {SetToSeq(S)[i] : i \in DOMAIN SetToSeq(S)} = S
<1>1. Cardinality(S) \in Nat /\ ExistsBijection(1..Cardinality(S), S) BY FS_CardinalityType
<1>2. PICK f \in [1..Cardinality(S) -> S] : IsInjective(f)
  BY <1>1 DEF ExistsBijection, Bijection, Injection, IsInjective
<1>3. SetToSeq(S) \in [1..Cardinality(S) -> S] /\ IsInjective(SetToSeq(S)) BY <1>2 DEF SetToSeq
<1> DEFINE s == SetToSeq(S)
<1>4. s \in Injection(1..Cardinality(S), S) BY <1>3 DEF Injection, IsInjective
<1>5. IsFiniteSet(1..Cardinality(S)) /\ Cardinality(1..Cardinality(S)) = Cardinality(S)
  BY <1>1, FS_Interval
<1>6. s \in Surjection(1..Cardinality(S), S)
  <2> HIDE DEF s
  <2> QED BY <1>4, <1>5, FS_Injection
<1>7. s \in Seq(S) BY <1>1, <1>3, SeqDef
<1>8. {s[i] : i \in DOMAIN s} = S BY <1>3, <1>6 DEF Surjection
<1> QED BY <1>3, <1>7, <1>8 DEF IsInjective

(***************************************************************************)
(* Lists of command entries: what they add up to                           *)
(***************************************************************************)
Process == UNION {ToSet(job.eop) : job \in JobRecord}
Command == {rec.cmd : rec \in Process} \cup {Other, Unnamed}
CmsEntry == [cmd : Command, prime : Nat, nonprime : Nat, cpu : Nat]

Val(x, m) == IF m = "cpu" THEN x.cpu ELSE x.prime + x.nonprime
Extra(x, m, cmd) == IF x.cmd = cmd THEN Val(x, m) ELSE 0
Vals(list, m) == [n \in DOMAIN list |-> Val(list[n], m)]
Under(list, cmd) == {n \in DOMAIN list : list[n].cmd = cmd}
Total(list, m, S) == SumFunctionOnSet(Vals(list, m), S)
PerCmd(list, m, cmd) == Total(list, m, Under(list, cmd))

LEMMA ListFacts ==
  ASSUME NEW list \in Seq(CmsEntry), NEW m, NEW S \in SUBSET DOMAIN list
  PROVE /\ IsFiniteSet(DOMAIN list) /\ IsFiniteSet(S)
        /\ \A n \in DOMAIN list : Vals(list, m)[n] = Val(list[n], m) /\ Val(list[n], m) \in Nat
        /\ Total(list, m, S) \in Nat
<1>1. DOMAIN list = 1..Len(list) /\ Len(list) \in Nat OBVIOUS
<1>2. IsFiniteSet(DOMAIN list) BY <1>1, FS_Interval
<1>3. IsFiniteSet(S) BY <1>2, FS_Subset
<1>4. \A n \in DOMAIN list : Vals(list, m)[n] = Val(list[n], m) /\ Val(list[n], m) \in Nat
  <2> TAKE n \in DOMAIN list
  <2>1. list[n] \in CmsEntry OBVIOUS
  <2>2. Val(list[n], m) \in Nat BY <2>1 DEF Val, CmsEntry
  <2> QED BY <2>2 DEF Vals
<1>5. Total(list, m, S) \in Nat
  <2>1. \A x \in S : Vals(list, m)[x] \in Nat BY <1>4
  <2> QED BY <1>3, <2>1, SumType DEF Total
<1> QED BY <1>2, <1>3, <1>4, <1>5

(* Lists that agree on a set of places. *)
LEMMA TotalSame ==
  ASSUME NEW a \in Seq(CmsEntry), NEW b \in Seq(CmsEntry), NEW m, NEW S \in SUBSET DOMAIN a, S \subseteq DOMAIN b,
         \A n \in S : a[n] = b[n]
  PROVE Total(a, m, S) = Total(b, m, S)
<1>1. IsFiniteSet(S) BY ListFacts
<1>2. \A n \in S : Vals(a, m)[n] = Vals(b, m)[n] BY DEF Vals
<1> QED BY <1>1, <1>2, SumSame DEF Total

(* What the place n contributes. *)
SplitAt(a, m, S, n) ==
  /\ Total(a, m, S) = Val(a[n], m) + Total(a, m, S \ {n})
  /\ Val(a[n], m) \in Nat /\ Total(a, m, S \ {n}) \in Nat

LEMMA TotalRemove ==
  ASSUME NEW a \in Seq(CmsEntry), NEW m, NEW S \in SUBSET DOMAIN a, NEW n \in S
  PROVE SplitAt(a, m, S, n)
<1>1. IsFiniteSet(S) /\ n \in DOMAIN a /\ S \ {n} \in SUBSET DOMAIN a BY ListFacts
<1>2. \A x \in S : Vals(a, m)[x] \in Nat BY ListFacts
<1>3. SumFunctionOnSet(Vals(a, m), S) = Vals(a, m)[n] + SumFunctionOnSet(Vals(a, m), S \ {n}) BY <1>1, <1>2, SumRemove
<1>4. Vals(a, m)[n] = Val(a[n], m) /\ Val(a[n], m) \in Nat BY <1>1, ListFacts
<1>5. Total(a, m, S \ {n}) \in Nat BY <1>1, ListFacts
<1> QED BY <1>3, <1>4, <1>5 DEF Total, SplitAt

(* Two lists one after the other. *)
Shift(k, S) == {k + n : n \in S}
Names(list) == {list[n].cmd : n \in DOMAIN list}

(* c is a followed by b. *)
Follows(a, b, c) ==
  /\ c \in Seq(CmsEntry) /\ DOMAIN a \in SUBSET Nat /\ DOMAIN b \in SUBSET Nat /\ Len(a) \in Nat
  /\ DOMAIN c = DOMAIN a \cup Shift(Len(a), DOMAIN b) /\ DOMAIN a \cap Shift(Len(a), DOMAIN b) = {}
  /\ \A n \in DOMAIN a : c[n] = a[n]
  /\ \A n \in DOMAIN b : c[Len(a) + n] = b[n]

LEMMA CatEntries ==
  ASSUME NEW a \in Seq(CmsEntry), NEW b \in Seq(CmsEntry)
  PROVE Follows(a, b, Cat(a, b))
<1> DEFINE c == Cat(a, b)
<1>1. c \in Seq(CmsEntry) /\ c = a \o b BY ConcatProperties DEF Cat
<1>2. Len(c) = Len(a) + Len(b) /\ Len(a) \in Nat /\ Len(b) \in Nat BY <1>1
<1>3. \A n \in 1..Len(a) : n \in 1..Len(c) /\ c[n] = a[n] BY <1>1, <1>2
<1>4. \A n \in 1..Len(b) : Len(a) + n \in 1..Len(c) /\ c[Len(a) + n] = b[n]
  <2> TAKE n \in 1..Len(b)
  <2>1. Len(a) + n \in 1..Len(c) /\ ~(Len(a) + n <= Len(a)) /\ Len(a) + n - Len(a) = n BY <1>2
  <2> QED BY <1>1, <1>2, <2>1, ConcatProperties
<1>5. DOMAIN a = 1..Len(a) /\ DOMAIN b = 1..Len(b) /\ DOMAIN c = 1..Len(c) BY <1>1
<1>6. DOMAIN c = DOMAIN a \cup Shift(Len(a), DOMAIN b)
  <2>1. ASSUME NEW n \in DOMAIN c PROVE n \in DOMAIN a \/ n \in Shift(Len(a), DOMAIN b)
    <3>1. CASE n <= Len(a) BY <1>2, <1>5, <3>1
    <3>2. CASE ~(n <= Len(a))
      <4>1. n - Len(a) \in DOMAIN b /\ n = Len(a) + (n - Len(a)) BY <1>2, <1>5, <3>2
      <4> QED BY <4>1 DEF Shift
    <3> QED BY <3>1, <3>2
  <2>2. ASSUME NEW n \in Shift(Len(a), DOMAIN b) PROVE n \in DOMAIN c BY <1>4, <1>5 DEF Shift
  <2>3. ASSUME NEW n \in DOMAIN a PROVE n \in DOMAIN c BY <1>3, <1>5
  <2> QED BY <2>1, <2>2, <2>3
<1>7. DOMAIN a \cap Shift(Len(a), DOMAIN b) = {}
  <2>1. SUFFICES ASSUME NEW n \in DOMAIN a, n \in Shift(Len(a), DOMAIN b) PROVE FALSE OBVIOUS
  <2>2. PICK k \in DOMAIN b : n = Len(a) + k BY <2>1 DEF Shift
  <2>3. n \in 1..Len(a) /\ k \in 1..Len(b) BY <1>5
  <2> QED BY <1>2, <2>2, <2>3
<1> QED BY <1>1, <1>2, <1>3, <1>4, <1>5, <1>6, <1>7 DEF Follows

LEMMA TotalShift ==
  ASSUME NEW a \in Seq(CmsEntry), NEW b \in Seq(CmsEntry), NEW c, Follows(a, b, c), NEW m, NEW B \in SUBSET DOMAIN b
  PROVE Total(c, m, Shift(Len(a), B)) = Total(b, m, B)
<1>1. /\ c \in Seq(CmsEntry) /\ DOMAIN b \in SUBSET Nat /\ Len(a) \in Nat
      /\ DOMAIN c = DOMAIN a \cup Shift(Len(a), DOMAIN b) /\ \A n \in DOMAIN b : c[Len(a) + n] = b[n]
  BY DEF Follows
<1>2. PICK f : f = [n \in B |-> Len(a) + n] OBVIOUS
<1>3. PICK g, h : g = Vals(c, m) /\ h = Vals(b, m) OBVIOUS
<1>4. IsFiniteSet(B) BY ListFacts
<1>5. \A n \in B : h[n] = g[f[n]] /\ h[n] \in Nat
  <2> TAKE n \in B
  <2>1. f[n] = Len(a) + n /\ f[n] \in DOMAIN c /\ c[f[n]] = b[n] BY <1>1, <1>2 DEF Shift
  <2>2. h[n] = Val(b[n], m) /\ Val(b[n], m) \in Nat BY <1>3, ListFacts
  <2>3. g[f[n]] = Val(c[f[n]], m) BY <1>3, <2>1 DEF Vals
  <2> QED BY <2>1, <2>2, <2>3
<1>6. \A x, y \in B : f[x] = f[y] => x = y
  <2> TAKE x, y \in B
  <2>1. x \in Nat /\ y \in Nat /\ f[x] = Len(a) + x /\ f[y] = Len(a) + y BY <1>1, <1>2
  <2> QED BY <1>1, <2>1
<1>7. SumFunctionOnSet(g, Image(f, B)) = SumFunctionOnSet(h, B) BY <1>4, <1>5, <1>6, SumImage
<1>8. Image(f, B) = Shift(Len(a), B) BY <1>2 DEF Shift, Image
<1> QED BY <1>3, <1>7, <1>8 DEF Total

LEMMA TotalUnion ==
  ASSUME NEW c \in Seq(CmsEntry), NEW m, NEW A \in SUBSET DOMAIN c, NEW B \in SUBSET DOMAIN c, A \cap B = {}
  PROVE /\ Total(c, m, A \cup B) = Total(c, m, A) + Total(c, m, B)
        /\ Total(c, m, A) \in Nat /\ Total(c, m, B) \in Nat
<1>1. IsFiniteSet(A) /\ IsFiniteSet(B) /\ Total(c, m, A) \in Nat /\ Total(c, m, B) \in Nat BY ListFacts
<1>2. PICK g : g = Vals(c, m) OBVIOUS
<1>3. \A x \in A \cup B : g[x] \in Nat
  <2> TAKE x \in A \cup B
  <2>1. x \in DOMAIN c OBVIOUS
  <2> QED BY <1>2, <2>1, ListFacts
<1>4. SumFunctionOnSet(g, A \cup B) = SumFunctionOnSet(g, A) + SumFunctionOnSet(g, B) BY <1>1, <1>3, SumUnion
<1> QED BY <1>1, <1>2, <1>4 DEF Total

(* One list after the other. *)
AddsUp(a, b, c, m) ==
  /\ Names(c) = Names(a) \cup Names(b)
  /\ Total(c, m, DOMAIN c) = Total(a, m, DOMAIN a) + Total(b, m, DOMAIN b)
  /\ \A cmd : PerCmd(c, m, cmd) = PerCmd(a, m, cmd) + PerCmd(b, m, cmd)

LEMMA OfCat ==
  ASSUME NEW a \in Seq(CmsEntry), NEW b \in Seq(CmsEntry), NEW c, Follows(a, b, c), NEW m
  PROVE c \in Seq(CmsEntry) /\ AddsUp(a, b, c, m)
<1>1. /\ c \in Seq(CmsEntry) /\ DOMAIN a \in SUBSET Nat /\ DOMAIN b \in SUBSET Nat /\ Len(a) \in Nat
      /\ DOMAIN c = DOMAIN a \cup Shift(Len(a), DOMAIN b) /\ DOMAIN a \cap Shift(Len(a), DOMAIN b) = {}
      /\ \A n \in DOMAIN a : c[n] = a[n]
      /\ \A n \in DOMAIN b : c[Len(a) + n] = b[n]
  BY DEF Follows
<1>2. ASSUME NEW A \in SUBSET DOMAIN a, NEW B \in SUBSET DOMAIN b
      PROVE Total(c, m, A \cup Shift(Len(a), B)) = Total(a, m, A) + Total(b, m, B)
  <2>1. PICK C : C = Shift(Len(a), B) OBVIOUS
  <2>2. A \in SUBSET DOMAIN c /\ C \in SUBSET DOMAIN c /\ A \cap C = {} BY <1>1, <2>1 DEF Shift
  <2>3. Total(c, m, A \cup C) = Total(c, m, A) + Total(c, m, C) BY <1>1, <2>2, TotalUnion
  <2>4. Total(c, m, A) = Total(a, m, A) BY <1>1, <2>2, TotalSame
  <2>5. Total(c, m, C) = Total(b, m, B) BY <2>1, TotalShift
  <2> QED BY <2>1, <2>3, <2>4, <2>5
<1>3. Total(c, m, DOMAIN c) = Total(a, m, DOMAIN a) + Total(b, m, DOMAIN b)
  <2>1. DOMAIN a \in SUBSET DOMAIN a /\ DOMAIN b \in SUBSET DOMAIN b OBVIOUS
  <2> QED BY <1>1, <1>2, <2>1
<1>4. ASSUME NEW cmd PROVE PerCmd(c, m, cmd) = PerCmd(a, m, cmd) + PerCmd(b, m, cmd)
  <2>1. Under(a, cmd) \in SUBSET DOMAIN a /\ Under(b, cmd) \in SUBSET DOMAIN b BY DEF Under
  <2>2. Under(c, cmd) = Under(a, cmd) \cup Shift(Len(a), Under(b, cmd))
    <3>1. ASSUME NEW n \in Under(c, cmd) PROVE n \in Under(a, cmd) \cup Shift(Len(a), Under(b, cmd))
      <4>1. CASE n \in DOMAIN a BY <1>1, <4>1 DEF Under
      <4>2. CASE n \in Shift(Len(a), DOMAIN b)
        <5>1. PICK k \in DOMAIN b : n = Len(a) + k BY <4>2 DEF Shift
        <5>2. b[k].cmd = cmd BY <1>1, <5>1 DEF Under
        <5>3. k \in Under(b, cmd) BY <5>2 DEF Under
        <5> QED BY <5>1, <5>3 DEF Shift
      <4> QED BY <1>1, <4>1, <4>2 DEF Under
    <3>2. ASSUME NEW n \in Under(a, cmd) PROVE n \in Under(c, cmd) BY <1>1 DEF Under
    <3>3. ASSUME NEW n \in Shift(Len(a), Under(b, cmd)) PROVE n \in Under(c, cmd)
      <4>1. PICK k \in Under(b, cmd) : n = Len(a) + k BY DEF Shift
      <4>2. k \in DOMAIN b /\ b[k].cmd = cmd BY DEF Under
      <4>3. n \in DOMAIN c /\ c[n] = b[k] BY <1>1, <4>1, <4>2 DEF Shift
      <4> QED BY <4>2, <4>3 DEF Under
    <3> QED BY <3>1, <3>2, <3>3
  <2> QED BY <1>2, <2>1, <2>2 DEF PerCmd
<1>5. Names(c) = Names(a) \cup Names(b)
  <2>1. ASSUME NEW x \in Names(c) PROVE x \in Names(a) \cup Names(b)
    <3>1. PICK n \in DOMAIN c : x = c[n].cmd BY DEF Names
    <3>2. CASE n \in DOMAIN a BY <1>1, <3>1, <3>2 DEF Names
    <3>3. CASE n \in Shift(Len(a), DOMAIN b)
      <4>1. PICK k \in DOMAIN b : n = Len(a) + k BY <3>3 DEF Shift
      <4>2. c[n] = b[k] BY <1>1, <4>1
      <4> QED BY <3>1, <4>2 DEF Names
    <3> QED BY <1>1, <3>2, <3>3
  <2>2. ASSUME NEW x \in Names(a) PROVE x \in Names(c) BY <1>1 DEF Names
  <2>3. ASSUME NEW x \in Names(b) PROVE x \in Names(c)
    <3>1. PICK k \in DOMAIN b : x = b[k].cmd BY DEF Names
    <3>2. Len(a) + k \in DOMAIN c /\ c[Len(a) + k] = b[k] BY <1>1 DEF Shift
    <3> QED BY <3>1, <3>2 DEF Names
  <2> QED BY <2>1, <2>2, <2>3
<1> QED BY <1>1, <1>3, <1>4, <1>5 DEF AddsUp

(* c is a with one more entry. *)
LongerBy(a, x, c, m) ==
  /\ DOMAIN c = DOMAIN a \cup {Len(a) + 1} /\ Len(a) + 1 \notin DOMAIN a
  /\ c[Len(a) + 1] = x /\ \A n \in DOMAIN a : c[n] = a[n]
  /\ Total(c, m, DOMAIN c) = Total(a, m, DOMAIN a) + Val(x, m)
  /\ \A cmd : PerCmd(c, m, cmd) = PerCmd(a, m, cmd) + Extra(x, m, cmd)

LEMMA OfAppend ==
  ASSUME NEW a \in Seq(CmsEntry), NEW x \in CmsEntry, NEW m, NEW c \in Seq(CmsEntry), c = Append(a, x)
  PROVE LongerBy(a, x, c, m)
<1>1. PICK k \in Nat : k = Len(a) + 1 OBVIOUS
<1>2. DOMAIN c = DOMAIN a \cup {k} /\ k \notin DOMAIN a /\ c[k] = x /\ \A n \in DOMAIN a : c[n] = a[n] /\ n # k
  BY <1>1
<1>3. \A S \in SUBSET DOMAIN a : Total(c, m, S) = Total(a, m, S) /\ Total(a, m, S) \in Nat
  <2> TAKE S \in SUBSET DOMAIN a
  <2>1. S \in SUBSET DOMAIN c /\ \A n \in S : c[n] = a[n] BY <1>2
  <2> QED BY <2>1, TotalSame, ListFacts
<1>4. \A S \in SUBSET DOMAIN a : Total(c, m, S \cup {k}) = Total(a, m, S) + Val(x, m)
  <2> TAKE S \in SUBSET DOMAIN a
  <2>1. S \cup {k} \in SUBSET DOMAIN c /\ k \in S \cup {k} /\ (S \cup {k}) \ {k} = S BY <1>2
  <2>2. PICK T \in SUBSET DOMAIN c : T = S \cup {k} BY <2>1
  <2>3. k \in T BY <2>2
  <2>4. Total(c, m, T) = Val(c[k], m) + Total(c, m, T \ {k}) /\ Val(c[k], m) \in Nat
    <3>1. SplitAt(c, m, T, k) BY <2>3, TotalRemove
    <3> QED BY <3>1 DEF SplitAt
  <2>5. T \ {k} = S BY <2>1, <2>2
  <2>6. Total(c, m, S) = Total(a, m, S) /\ Total(a, m, S) \in Nat BY <1>3
  <2>7. Total(c, m, T) = Val(x, m) + Total(a, m, S) /\ Val(x, m) \in Nat BY <1>2, <2>4, <2>5, <2>6
  <2> QED BY <2>2, <2>6, <2>7
<1>5. Total(c, m, DOMAIN c) = Total(a, m, DOMAIN a) + Val(x, m) BY <1>2, <1>4
<1>6. ASSUME NEW cmd PROVE PerCmd(c, m, cmd) = PerCmd(a, m, cmd) + Extra(x, m, cmd)
  <2>1. PICK S \in SUBSET DOMAIN a : S = Under(a, cmd) BY DEF Under
  <2>2. PerCmd(a, m, cmd) = Total(a, m, S) BY <2>1 DEF PerCmd
  <2>3. CASE x.cmd = cmd
    <3>1. Under(c, cmd) = S \cup {k} BY <1>2, <2>1, <2>3 DEF Under
    <3> QED BY <1>4, <2>2, <2>3, <3>1 DEF PerCmd, Extra
  <2>4. CASE x.cmd # cmd
    <3>1. Under(c, cmd) = S BY <1>2, <2>1, <2>4 DEF Under
    <3>2. Total(c, m, S) = Total(a, m, S) /\ Total(a, m, S) \in Nat BY <1>3
    <3> QED BY <2>2, <2>4, <3>1, <3>2 DEF PerCmd, Extra
  <2> QED BY <2>3, <2>4
<1> QED BY <1>1, <1>2, <1>5, <1>6 DEF LongerBy

(***************************************************************************)
(* What save_record_data does to a table                                   *)
(***************************************************************************)
Named(list) == \A n \in DOMAIN list : list[n].cmd # Unnamed
Distinct(list) == \A i, j \in DOMAIN list : list[i].cmd = list[j].cmd => i = j

(* c is the table a with x in it. *)
Saved(a, x, c, m) ==
  /\ c \in Seq(CmsEntry)
  /\ Total(c, m, DOMAIN c) = Total(a, m, DOMAIN a) + Val(x, m)
  /\ x.cmd # Unnamed /\ Named(a) /\ Distinct(a) =>
       /\ Named(c) /\ Distinct(c) /\ Names(c) = Names(a) \cup {x.cmd}
       /\ \A cmd : PerCmd(c, m, cmd) = PerCmd(a, m, cmd) + Extra(x, m, cmd)

LEMMA SavedNew ==
  ASSUME NEW a \in Seq(CmsEntry), NEW x \in CmsEntry, NEW m, Slots(a, x.cmd) = {}
  PROVE Saved(a, x, SaveRecord(a, x), m)
<1>1. PICK c \in Seq(CmsEntry) : c = Append(a, x) BY AppendProperties
<1>2. c = SaveRecord(a, x) BY <1>1 DEF SaveRecord
<1>3. LongerBy(a, x, c, m) BY <1>1, OfAppend
<1>4. PICK k : k = Len(a) + 1 OBVIOUS
<1>5. /\ c \in Seq(CmsEntry) /\ DOMAIN c = DOMAIN a \cup {k} /\ k \notin DOMAIN a
      /\ c[k] = x /\ \A n \in DOMAIN a : c[n] = a[n]
  BY <1>3, <1>4 DEF LongerBy
<1>6. Total(c, m, DOMAIN c) = Total(a, m, DOMAIN a) + Val(x, m) BY <1>3 DEF LongerBy
<1>7. ASSUME NEW cmd PROVE PerCmd(c, m, cmd) = PerCmd(a, m, cmd) + Extra(x, m, cmd)
  BY <1>3 DEF LongerBy
<1>8. \A n \in DOMAIN a : a[n].cmd # x.cmd BY DEF Slots
<1>9. Names(c) = Names(a) \cup {x.cmd} BY <1>5 DEF Names
<1>10. x.cmd # Unnamed /\ Named(a) => Named(c) BY <1>5 DEF Named
<1>11. Distinct(a) => Distinct(c) BY <1>5, <1>8 DEF Distinct
<1> QED BY <1>2, <1>5, <1>6, <1>7, <1>9, <1>10, <1>11 DEF Saved

LEMMA SlotExists ==
  ASSUME NEW a \in Seq(CmsEntry), NEW cmd, Slots(a, cmd) # {}
  PROVE Min(Slots(a, cmd)) \in Slots(a, cmd)
<1>1. PICK T \in SUBSET Nat : T = Slots(a, cmd)
  <2>1. DOMAIN a = 1..Len(a) /\ Len(a) \in Nat OBVIOUS
  <2>2. Slots(a, cmd) \in SUBSET Nat BY <2>1 DEF Slots
  <2> QED BY <2>2
<1>2. \E x \in T : \A y \in T : x <= y BY <1>1, MinExists
<1> QED BY <1>1, <1>2 DEF Min

LEMMA AddVal ==
  ASSUME NEW e \in CmsEntry, NEW x \in CmsEntry, NEW m
  PROVE /\ AddCms([e EXCEPT !.cmd = x.cmd], x) \in CmsEntry
        /\ AddCms([e EXCEPT !.cmd = x.cmd], x).cmd = x.cmd
        /\ Val(AddCms([e EXCEPT !.cmd = x.cmd], x), m) = Val(e, m) + Val(x, m)
<1>1. PICK y : y = AddCms([e EXCEPT !.cmd = x.cmd], x) OBVIOUS
<1>2. /\ e.prime \in Nat /\ e.nonprime \in Nat /\ e.cpu \in Nat /\ x.cmd \in Command
      /\ x.prime \in Nat /\ x.nonprime \in Nat /\ x.cpu \in Nat
  BY DEF CmsEntry
<1>3. PICK z \in CmsEntry : z = [e EXCEPT !.cmd = x.cmd] BY <1>2 DEF CmsEntry
<1>4. z.cmd = x.cmd /\ z.prime = e.prime /\ z.nonprime = e.nonprime /\ z.cpu = e.cpu BY <1>3 DEF CmsEntry
<1>5. y = [z EXCEPT !.prime = z.prime + x.prime, !.nonprime = z.nonprime + x.nonprime, !.cpu = z.cpu + x.cpu]
  BY <1>1, <1>3 DEF AddCms
<1>6. /\ y \in CmsEntry /\ y.cmd = z.cmd /\ y.prime = z.prime + x.prime
      /\ y.nonprime = z.nonprime + x.nonprime /\ y.cpu = z.cpu + x.cpu
  <2>1. /\ z.prime + x.prime \in Nat /\ z.nonprime + x.nonprime \in Nat /\ z.cpu + x.cpu \in Nat BY <1>2, <1>4
  <2> QED BY <1>5, <2>1 DEF CmsEntry
<1>7. Val(y, m) = Val(e, m) + Val(x, m) BY <1>2, <1>4, <1>6 DEF Val
<1> QED BY <1>1, <1>4, <1>6, <1>7

LEMMA SavedOld ==
  ASSUME NEW a \in Seq(CmsEntry), NEW x \in CmsEntry, NEW m, Slots(a, x.cmd) # {}
  PROVE Saved(a, x, SaveRecord(a, x), m)
<1>1. PICK c : c = SaveRecord(a, x) OBVIOUS
<1>2. PICK n \in Slots(a, x.cmd) : n = Min(Slots(a, x.cmd)) BY SlotExists
<1>3. n \in DOMAIN a /\ a[n].cmd \in {x.cmd, Unnamed} /\ a[n] \in CmsEntry BY DEF Slots
<1>4. PICK y : y = AddCms([a[n] EXCEPT !.cmd = x.cmd], x) OBVIOUS
<1>5. y \in CmsEntry /\ y.cmd = x.cmd /\ Val(y, m) = Val(a[n], m) + Val(x, m)
  <2>1. PICK e \in CmsEntry : e = a[n] BY <1>3
  <2> QED BY <1>4, <2>1, AddVal
<1>6. c = [a EXCEPT ![n] = y] BY <1>1, <1>2, <1>3, <1>4 DEF SaveRecord
<1>7. /\ c \in Seq(CmsEntry) /\ DOMAIN c = DOMAIN a /\ c[n] = y
      /\ \A k \in DOMAIN a \ {n} : c[k] = a[k]
  BY <1>3, <1>5, <1>6
<1>8. \A S \in SUBSET DOMAIN a : n \in S => Total(c, m, S) = Total(a, m, S) + Val(x, m)
  <2> TAKE S \in SUBSET DOMAIN a
  <2> SUFFICES ASSUME n \in S PROVE Total(c, m, S) = Total(a, m, S) + Val(x, m) OBVIOUS
  <2>1. SplitAt(a, m, S, n) BY TotalRemove
  <2>2. SplitAt(c, m, S, n)
    <3>1. S \in SUBSET DOMAIN c BY <1>7
    <3> QED BY <1>7, <3>1, TotalRemove
  <2>3. PICK R \in SUBSET DOMAIN a : R = S \ {n} OBVIOUS
  <2>4. Total(c, m, R) = Total(a, m, R)
    <3>1. R \in SUBSET DOMAIN c /\ \A k \in R : c[k] = a[k] BY <1>7, <2>3
    <3> QED BY <1>7, <3>1, TotalSame
  <2>5. /\ Total(a, m, S) = Val(a[n], m) + Total(a, m, R) /\ Val(a[n], m) \in Nat /\ Total(a, m, R) \in Nat
        /\ Total(c, m, S) = Val(y, m) + Total(c, m, R)
    BY <1>7, <2>1, <2>2, <2>3 DEF SplitAt
  <2>6. Val(x, m) \in Nat BY DEF Val, CmsEntry
  <2> QED BY <1>5, <2>4, <2>5, <2>6
<1>9. Total(c, m, DOMAIN c) = Total(a, m, DOMAIN a) + Val(x, m)
  <2>1. DOMAIN a \in SUBSET DOMAIN a OBVIOUS
  <2> QED BY <1>3, <1>7, <1>8, <2>1
<1>10. ASSUME x.cmd # Unnamed, Named(a), Distinct(a)
       PROVE /\ Named(c) /\ Distinct(c) /\ Names(c) = Names(a) \cup {x.cmd}
             /\ \A cmd : PerCmd(c, m, cmd) = PerCmd(a, m, cmd) + Extra(x, m, cmd)
  <2>1. a[n].cmd = x.cmd BY <1>3, <1>10 DEF Named
  <2>2. \A k \in DOMAIN a : c[k].cmd = a[k].cmd BY <1>5, <1>7, <2>1
  <2>3. Named(c) /\ Distinct(c) BY <1>7, <1>10, <2>2 DEF Named, Distinct
  <2>4. Names(c) = Names(a) BY <1>7, <2>2 DEF Names
  <2>5. x.cmd \in Names(a) BY <1>3, <2>1 DEF Names
  <2>6. ASSUME NEW cmd PROVE PerCmd(c, m, cmd) = PerCmd(a, m, cmd) + Extra(x, m, cmd)
    <3>1. PICK S \in SUBSET DOMAIN a : S = Under(a, cmd) BY DEF Under
    <3>2. Under(c, cmd) = S BY <1>7, <2>2, <3>1 DEF Under
    <3>3. PerCmd(c, m, cmd) = Total(c, m, S) /\ PerCmd(a, m, cmd) = Total(a, m, S) /\ Total(a, m, S) \in Nat
      BY <3>1, <3>2, ListFacts DEF PerCmd
    <3>4. CASE x.cmd = cmd
      <4>1. n \in S BY <1>3, <2>1, <3>1, <3>4 DEF Under
      <4> QED BY <1>8, <3>3, <3>4, <4>1 DEF Extra
    <3>5. CASE x.cmd # cmd
      <4>1. n \notin S BY <2>1, <3>1, <3>5 DEF Under
      <4>2. S \in SUBSET DOMAIN c /\ \A k \in S : c[k] = a[k] BY <1>7, <4>1
      <4>3. Total(c, m, S) = Total(a, m, S) BY <1>7, <4>2, TotalSame
      <4> QED BY <3>3, <3>5, <4>3 DEF Extra
    <3> QED BY <3>4, <3>5
  <2> QED BY <2>3, <2>4, <2>5, <2>6
<1> QED BY <1>1, <1>7, <1>9, <1>10 DEF Saved

LEMMA SavedOne ==
  ASSUME NEW a \in Seq(CmsEntry), NEW x \in CmsEntry, NEW m
  PROVE Saved(a, x, SaveRecord(a, x), m)
BY SavedNew, SavedOld

LEMMA TableOfSome ==
  ASSUME NEW recs \in Seq(CmsEntry), NEW k \in 1..Len(recs), NEW m
  PROVE /\ Total(recs, m, 1..k) = Total(recs, m, 1..(k - 1)) + Val(recs[k], m)
        /\ \A cmd : Total(recs, m, Under(recs, cmd) \cap (1..k)) =
                      Total(recs, m, Under(recs, cmd) \cap (1..(k - 1))) + Extra(recs[k], m, cmd)
<1>1. /\ DOMAIN recs = 1..Len(recs) /\ Len(recs) \in Nat /\ k \in DOMAIN recs
      /\ 1..k \subseteq DOMAIN recs /\ 1..(k - 1) \subseteq DOMAIN recs
  OBVIOUS
<1>2. (1..k) \ {k} = 1..(k - 1) /\ k \in 1..k OBVIOUS
<1>3. Total(recs, m, 1..k) = Total(recs, m, 1..(k - 1)) + Val(recs[k], m)
  <2>1. PICK S \in SUBSET DOMAIN recs : S = 1..k BY <1>1
  <2>2. SplitAt(recs, m, S, k)
    <3>1. k \in S BY <1>2, <2>1
    <3> QED BY <3>1, TotalRemove
  <2>3. PICK R \in SUBSET DOMAIN recs : R = S \ {k} /\ R = 1..(k - 1) BY <1>2, <2>1
  <2>4. k \in S BY <1>2, <2>1
  <2>5. Total(recs, m, S) = Val(recs[k], m) + Total(recs, m, R) /\ Val(recs[k], m) \in Nat
        /\ Total(recs, m, R) \in Nat
    BY <2>2, <2>3 DEF SplitAt
  <2>6. Total(recs, m, S) = Total(recs, m, R) + Val(recs[k], m) BY <2>5
  <2> QED BY <2>1, <2>3, <2>6, Zenon
<1>4. ASSUME NEW cmd
      PROVE Total(recs, m, Under(recs, cmd) \cap (1..k)) =
              Total(recs, m, Under(recs, cmd) \cap (1..(k - 1))) + Extra(recs[k], m, cmd)
  <2>1. PICK S \in SUBSET DOMAIN recs : S = Under(recs, cmd) \cap (1..k) BY <1>1
  <2>2. PICK R \in SUBSET DOMAIN recs : R = Under(recs, cmd) \cap (1..(k - 1)) BY <1>1
  <2>3. CASE recs[k].cmd = cmd
    <3>1. k \in S BY <1>1, <1>2, <2>1, <2>3 DEF Under
    <3>2. SplitAt(recs, m, S, k) BY <3>1, TotalRemove
    <3>3. S \ {k} = R BY <1>2, <2>1, <2>2
    <3>4. Total(recs, m, S) = Val(recs[k], m) + Total(recs, m, R) /\ Val(recs[k], m) \in Nat
          /\ Total(recs, m, R) \in Nat
      BY <3>2, <3>3 DEF SplitAt
    <3>5. Extra(recs[k], m, cmd) = Val(recs[k], m) BY <2>3 DEF Extra
    <3>6. Total(recs, m, S) = Total(recs, m, R) + Extra(recs[k], m, cmd) BY <3>4, <3>5
    <3> QED BY <2>1, <2>2, <3>6
  <2>4. CASE recs[k].cmd # cmd
    <3>1. k \notin S BY <2>1, <2>4 DEF Under
    <3>2. S = R BY <1>2, <2>1, <2>2, <3>1
    <3>3. Total(recs, m, R) \in Nat BY ListFacts
    <3>4. Extra(recs[k], m, cmd) = 0 BY <2>4 DEF Extra
    <3>5. Total(recs, m, S) = Total(recs, m, R) + Extra(recs[k], m, cmd) BY <3>2, <3>3, <3>4
    <3> QED BY <2>1, <2>2, <3>5
  <2> QED BY <2>3, <2>4
<1> QED BY <1>3, <1>4

(* The table of the first k records. *)
TableUpTo(recs, t, k, m) ==
  /\ t \in Seq(CmsEntry)
  /\ Total(t, m, DOMAIN t) = Total(recs, m, 1..k)
  /\ Named(recs) =>
       /\ Named(t) /\ Distinct(t) /\ Names(t) = {recs[n].cmd : n \in 1..k}
       /\ \A cmd : PerCmd(t, m, cmd) = Total(recs, m, Under(recs, cmd) \cap (1..k))

LEMMA TableStep ==
  ASSUME NEW recs \in Seq(CmsEntry), NEW k \in 1..Len(recs), NEW m, NEW t, NEW u,
         TableUpTo(recs, t, k - 1, m), Saved(t, recs[k], u, m)
  PROVE TableUpTo(recs, u, k, m)
<1>0. t \in Seq(CmsEntry) /\ u \in Seq(CmsEntry) BY DEF TableUpTo, Saved
<1>1. k \in DOMAIN recs /\ recs[k] \in CmsEntry OBVIOUS
<1>2. Total(u, m, DOMAIN u) = Total(recs, m, 1..k)
  <2>1. Total(u, m, DOMAIN u) = Total(t, m, DOMAIN t) + Val(recs[k], m) BY DEF Saved
  <2>2. Total(t, m, DOMAIN t) = Total(recs, m, 1..(k - 1)) BY DEF TableUpTo
  <2>3. Total(recs, m, 1..k) = Total(recs, m, 1..(k - 1)) + Val(recs[k], m) BY TableOfSome
  <2> QED BY <2>1, <2>2, <2>3
<1>3. ASSUME Named(recs)
      PROVE /\ Named(u) /\ Distinct(u) /\ Names(u) = {recs[n].cmd : n \in 1..k}
            /\ \A cmd : PerCmd(u, m, cmd) = Total(recs, m, Under(recs, cmd) \cap (1..k))
  <2>1. recs[k].cmd # Unnamed BY <1>1, <1>3 DEF Named
  <2>2. /\ Named(t) /\ Distinct(t) /\ Names(t) = {recs[n].cmd : n \in 1..(k - 1)}
        /\ \A cmd : PerCmd(t, m, cmd) = Total(recs, m, Under(recs, cmd) \cap (1..(k - 1)))
    BY <1>3 DEF TableUpTo
  <2>3. /\ Named(u) /\ Distinct(u) /\ Names(u) = Names(t) \cup {recs[k].cmd}
        /\ \A cmd : PerCmd(u, m, cmd) = PerCmd(t, m, cmd) + Extra(recs[k], m, cmd)
    BY <2>1, <2>2 DEF Saved
  <2>4. 1..k = (1..(k - 1)) \cup {k} OBVIOUS
  <2>5. Names(u) = {recs[n].cmd : n \in 1..k} BY <2>2, <2>3, <2>4
  <2>6. ASSUME NEW cmd PROVE PerCmd(u, m, cmd) = Total(recs, m, Under(recs, cmd) \cap (1..k))
    <3>1. PerCmd(u, m, cmd) = PerCmd(t, m, cmd) + Extra(recs[k], m, cmd) BY <2>3
    <3>2. PerCmd(t, m, cmd) = Total(recs, m, Under(recs, cmd) \cap (1..(k - 1))) BY <2>2
    <3>3. Total(recs, m, Under(recs, cmd) \cap (1..k)) =
            Total(recs, m, Under(recs, cmd) \cap (1..(k - 1))) + Extra(recs[k], m, cmd)
      BY TableOfSome
    <3> QED BY <3>1, <3>2, <3>3
  <2> QED BY <2>3, <2>5, <2>6
<1> QED BY <1>0, <1>2, <1>3 DEF TableUpTo

(* t is the table of the records. *)
TableOf(recs, t, m) ==
  /\ t \in Seq(CmsEntry)
  /\ Total(t, m, DOMAIN t) = Total(recs, m, DOMAIN recs)
  /\ Named(recs) => /\ Named(t) /\ Distinct(t) /\ Names(t) = Names(recs)
                    /\ \A cmd : PerCmd(t, m, cmd) = PerCmd(recs, m, cmd)

LEMMA SaveAllTable ==
  ASSUME NEW recs \in Seq(CmsEntry), NEW m
  PROVE TableOf(recs, SaveAll(<<>>, recs), m)
<1>1. PICK h : /\ h[0] = <<>> /\ SaveAll(<<>>, recs) = h[Len(recs)]
               /\ \A k \in 1..Len(recs) : h[k] = SaveRecord(h[k - 1], recs[k])
  BY SaveAllSteps
<1> DEFINE G == {k \in 0..Len(recs) : TableUpTo(recs, h[k], k, m)}
<1>2. 0 \in G
  <2>1. PICK e \in Seq(CmsEntry) : e = <<>> BY EmptySeq
  <2>2. DOMAIN e = {} /\ 1..0 = {} BY <2>1
  <2>3. Named(e) /\ Distinct(e) /\ Names(e) = {} BY <2>2 DEF Named, Distinct, Names
  <2>4. Total(e, m, {}) = 0 /\ Total(recs, m, {}) = 0 BY SumEmpty DEF Total
  <2>5. \A cmd : Under(e, cmd) = {} /\ Under(recs, cmd) \cap {} = {} BY <2>2 DEF Under
  <2>6. {recs[n].cmd : n \in {}} = {} OBVIOUS
  <2>7. TableUpTo(recs, e, 0, m) BY <2>2, <2>3, <2>4, <2>5, <2>6 DEF TableUpTo, PerCmd
  <2> QED BY <1>1, <2>1, <2>7
<1>3. ASSUME NEW k \in 1..Len(recs), k - 1 \in G PROVE k \in G
  <2>1. TableUpTo(recs, h[k - 1], k - 1, m) BY <1>3
  <2>2. PICK a \in Seq(CmsEntry) : a = h[k - 1] BY <2>1 DEF TableUpTo
  <2>3. recs[k] \in CmsEntry /\ k \in 0..Len(recs) OBVIOUS
  <2>4. Saved(a, recs[k], SaveRecord(a, recs[k]), m) BY <2>3, SavedOne
  <2>5. h[k] = SaveRecord(a, recs[k]) BY <1>1, <2>2
  <2>6. TableUpTo(recs, h[k], k, m) BY <2>1, <2>2, <2>4, <2>5, TableStep
  <2> QED BY <2>3, <2>6
<1>4. Len(recs) \in G
  <2>1. Len(recs) \in Nat /\ Len(recs) \in 0..Len(recs) OBVIOUS
  <2> HIDE DEF G
  <2> QED BY <1>2, <1>3, <2>1, UpTo
<1>5. PICK t : t = SaveAll(<<>>, recs) /\ TableUpTo(recs, t, Len(recs), m) BY <1>1, <1>4
<1>6. DOMAIN recs = 1..Len(recs) OBVIOUS
<1>7. Names(recs) = {recs[n].cmd : n \in 1..Len(recs)} BY <1>6 DEF Names
<1>8. \A cmd : Under(recs, cmd) \cap (1..Len(recs)) = Under(recs, cmd) BY <1>6 DEF Under
<1>9. TableOf(recs, t, m)
  <2>1. Named(recs) => \A cmd : PerCmd(t, m, cmd) = Total(recs, m, Under(recs, cmd) \cap (1..Len(recs)))
    BY <1>5 DEF TableUpTo
  <2>2. Named(recs) => \A cmd : PerCmd(t, m, cmd) = PerCmd(recs, m, cmd) BY <1>8, <2>1 DEF PerCmd
  <2>3. /\ t \in Seq(CmsEntry) /\ Total(t, m, DOMAIN t) = Total(recs, m, DOMAIN recs)
        /\ Named(recs) => Named(t) /\ Distinct(t) /\ Names(t) = Names(recs)
    BY <1>5, <1>6, <1>7 DEF TableUpTo
  <2> QED BY <2>2, <2>3 DEF TableOf
<1> QED BY <1>5, <1>9

(***************************************************************************)
(* compress_hash: the summary of a table                                   *)
(***************************************************************************)
RunsOf(cms) == [e \in cms |-> e.prime + e.nonprime]

(* The entries of a summary, and what they count. *)
Summary(cms, t) ==
  /\ IsFiniteSet(cms) /\ cms \in SUBSET CmsEntry /\ \A e \in cms : e.cmd # Unnamed
  /\ Counts(cms) \in Nat /\ Counts(cms) <= Total(t, "runs", DOMAIN t)
  /\ Named(t) /\ Distinct(t) =>
       /\ Counts(cms) = Total(t, "runs", DOMAIN t)
       /\ \A i, j \in cms : i.cmd = j.cmd => i = j
       /\ {e.cmd : e \in cms} = Names(t)
       /\ \A e \in cms : \A m : Val(e, m) = PerCmd(t, m, e.cmd)

(* The entries with a name. *)
Entered(cms, t, S) ==
  /\ IsFiniteSet(cms) /\ cms = Image(t, S) /\ Counts(cms) \in Nat /\ Counts(cms) <= Total(t, "runs", S)
  /\ (\A x, y \in S : t[x] = t[y] => x = y) => Counts(cms) = Total(t, "runs", S)

LEMMA CompressSome ==
  ASSUME NEW t \in Seq(CmsEntry), NEW S \in SUBSET DOMAIN t, S = {n \in DOMAIN t : t[n].cmd # Unnamed}
  PROVE Entered(Compress(t), t, S)
<1>1. PICK cms : cms = Compress(t) OBVIOUS
<1>2. cms = Image(t, S) BY <1>1 DEF Compress, Image
<1>3. IsFiniteSet(S) BY ListFacts
<1>4. \A n \in S : t[n] \in cms /\ t[n] \in CmsEntry BY <1>2 DEF Image
<1>5. \A e \in cms : \E n \in S : e = t[n] BY <1>2 DEF Image
<1>6. PICK g, h : g = RunsOf(cms) /\ h = Vals(t, "runs") OBVIOUS
<1>7. \A n \in S : h[n] = g[t[n]] /\ h[n] \in Nat
  <2> TAKE n \in S
  <2>1. h[n] = Val(t[n], "runs") /\ h[n] \in Nat BY <1>6, ListFacts
  <2>2. g[t[n]] = t[n].prime + t[n].nonprime BY <1>4, <1>6 DEF RunsOf
  <2> QED BY <2>1, <2>2 DEF Val
<1>8. /\ IsFiniteSet(cms) /\ SumFunctionOnSet(g, cms) <= SumFunctionOnSet(h, S)
      /\ (\A x, y \in S : t[x] = t[y] => x = y) => SumFunctionOnSet(g, cms) = SumFunctionOnSet(h, S)
  BY <1>2, <1>3, <1>7, SumImage
<1>9. Counts(cms) = SumFunctionOnSet(g, cms)
  <2>1. DOMAIN g = cms BY <1>6 DEF RunsOf
  <2>2. Counts(cms) = SumFunction(g) BY <1>6 DEF Counts, RunsOf
  <2> QED BY <2>1, <2>2 DEF SumFunction
<1>10. SumFunctionOnSet(h, S) = Total(t, "runs", S) BY <1>6 DEF Total
<1>11. Counts(cms) \in Nat
  <2>1. \A e \in cms : g[e] \in Nat BY <1>5, <1>7
  <2> QED BY <1>8, <1>9, <2>1, SumType
<1> QED BY <1>1, <1>2, <1>8, <1>9, <1>10, <1>11 DEF Entered

LEMMA CompressTable ==
  ASSUME NEW t \in Seq(CmsEntry)
  PROVE Summary(Compress(t), t)
<1>1. PICK cms : cms = Compress(t) OBVIOUS
<1>2. PICK S \in SUBSET DOMAIN t : S = {n \in DOMAIN t : t[n].cmd # Unnamed} OBVIOUS
<1>3. Entered(cms, t, S) BY <1>1, <1>2, CompressSome
<1>4. cms = Image(t, S) /\ IsFiniteSet(cms) BY <1>3 DEF Entered
<1>5. \A n \in S : t[n] \in cms /\ t[n] \in CmsEntry BY <1>4 DEF Image
<1>6. \A e \in cms : \E n \in S : e = t[n] BY <1>4 DEF Image
<1>7. cms \in SUBSET CmsEntry /\ \A e \in cms : e.cmd # Unnamed BY <1>2, <1>5, <1>6
<1>8. Counts(cms) \in Nat /\ Counts(cms) <= Total(t, "runs", S) BY <1>3 DEF Entered
<1>9. Total(t, "runs", S) <= Total(t, "runs", DOMAIN t)
  <2>1. PICK h : h = Vals(t, "runs") OBVIOUS
  <2>2. \A n \in DOMAIN t : h[n] \in Nat
    <3> TAKE n \in DOMAIN t
    <3> QED BY <2>1, ListFacts
  <2>3. IsFiniteSet(DOMAIN t) BY ListFacts
  <2>4. SumFunctionOnSet(h, S) <= SumFunctionOnSet(h, DOMAIN t) BY <2>2, <2>3, SumLess
  <2> QED BY <2>1, <2>4 DEF Total
<1>10. Total(t, "runs", S) \in Nat /\ Total(t, "runs", DOMAIN t) \in Nat
  <2>1. DOMAIN t \in SUBSET DOMAIN t OBVIOUS
  <2> QED BY <2>1, ListFacts
<1>11. Counts(cms) <= Total(t, "runs", DOMAIN t) BY <1>8, <1>9, <1>10
<1>12. ASSUME Named(t), Distinct(t)
       PROVE /\ Counts(cms) = Total(t, "runs", DOMAIN t)
             /\ \A i, j \in cms : i.cmd = j.cmd => i = j
             /\ {e.cmd : e \in cms} = Names(t)
             /\ \A e \in cms : \A m : Val(e, m) = PerCmd(t, m, e.cmd)
  <2>1. S = DOMAIN t BY <1>2, <1>12 DEF Named
  <2>2. \A x, y \in S : t[x] = t[y] => x = y BY <1>12 DEF Distinct
  <2>3. Counts(cms) = Total(t, "runs", DOMAIN t) BY <1>3, <2>1, <2>2 DEF Entered
  <2>4. \A i, j \in cms : i.cmd = j.cmd => i = j
    <3> TAKE i, j \in cms
    <3>1. PICK n \in S : i = t[n] BY <1>6
    <3>2. PICK k \in S : j = t[k] BY <1>6
    <3> QED BY <1>12, <3>1, <3>2 DEF Distinct
  <2>5. {e.cmd : e \in cms} = Names(t) BY <1>5, <1>6, <2>1 DEF Names
  <2>6. ASSUME NEW e \in cms, NEW m PROVE Val(e, m) = PerCmd(t, m, e.cmd)
    <3>1. PICK n \in DOMAIN t : e = t[n] BY <1>6
    <3>2. PICK T \in SUBSET DOMAIN t : T = Under(t, e.cmd) BY DEF Under
    <3>3. n \in T /\ \A k \in T : k = n BY <1>12, <3>1, <3>2 DEF Under, Distinct
    <3>4. SplitAt(t, m, T, n) BY <3>3, TotalRemove
    <3>5. PICK R : R = T \ {n} /\ R = {} BY <3>3
    <3>6. Total(t, m, T) = Val(t[n], m) + Total(t, m, R) /\ Val(t[n], m) \in Nat BY <3>4, <3>5 DEF SplitAt
    <3>7. Total(t, m, {}) = 0 BY SumEmpty DEF Total
    <3> QED BY <3>1, <3>2, <3>5, <3>6, <3>7 DEF PerCmd
  <2> QED BY <2>3, <2>4, <2>5, <2>6
<1> QED BY <1>1, <1>4, <1>7, <1>8, <1>11, <1>12 DEF Summary

(***************************************************************************)
(* The processes of the jobs, as records of csacms                         *)
(***************************************************************************)
CmsOf(procs) == [n \in DOMAIN procs |-> Cms(procs[n])]
CmsList(jobs) == CmsOf(Processes(jobs))
Eops(jobs) == [n \in DOMAIN jobs |-> jobs[n].eop]

LEMMA CmsFacts ==
  ASSUME NEW rec \in Process
  PROVE /\ Cms(rec) \in CmsEntry /\ Cms(rec).cmd = rec.cmd
        /\ Val(Cms(rec), "runs") = 1 /\ Val(Cms(rec), "cpu") = rec.cpu
<1>1. rec.cmd \in Command /\ rec.cpu \in Nat
  <2>1. PICK job \in JobRecord : rec \in ToSet(job.eop) BY DEF Process
  <2> QED BY <2>1, ReportsAssumption DEF Command
<1>2. PICK p, q : p \in Nat /\ q \in Nat /\ p + q = 1 /\ Cms(rec) = [cmd |-> rec.cmd, prime |-> p, nonprime |-> q, cpu |-> rec.cpu]
  <2> DEFINE pop == PopCalc(rec.time, IF rec.dur = 0 THEN 1 ELSE rec.dur)
  <2>1. Cms(rec) = [cmd |-> rec.cmd, prime |-> IF pop.prime > pop.nonprime THEN 1 ELSE 0,
                    nonprime |-> IF pop.prime > pop.nonprime THEN 0 ELSE 1, cpu |-> rec.cpu]
    BY DEF Cms
  <2> HIDE DEF pop
  <2>2. CASE pop.prime > pop.nonprime
    <3>1. Cms(rec) = [cmd |-> rec.cmd, prime |-> 1, nonprime |-> 0, cpu |-> rec.cpu] BY <2>1, <2>2
    <3>2. 1 \in Nat /\ 0 \in Nat /\ 1 + 0 = 1 OBVIOUS
    <3> QED BY <3>1, <3>2, Zenon
  <2>3. CASE ~(pop.prime > pop.nonprime)
    <3>1. Cms(rec) = [cmd |-> rec.cmd, prime |-> 0, nonprime |-> 1, cpu |-> rec.cpu] BY <2>1, <2>3
    <3>2. 0 \in Nat /\ 1 \in Nat /\ 0 + 1 = 1 OBVIOUS
    <3> QED BY <3>1, <3>2, Zenon
  <2> QED BY <2>2, <2>3
<1> QED BY <1>1, <1>2 DEF Val, CmsEntry

LEMMA EopsType ==
  ASSUME NEW jobs \in Seq(JobRecord)
  PROVE /\ Eops(jobs) \in Seq(Seq(Process)) /\ Len(Eops(jobs)) = Len(jobs)
        /\ \A n \in 1..Len(jobs) : Eops(jobs)[n] = jobs[n].eop /\ jobs[n].eop \in Seq(Process)
<1>1. Len(jobs) \in Nat /\ DOMAIN jobs = 1..Len(jobs) OBVIOUS
<1>2. \A n \in DOMAIN jobs : jobs[n].eop \in Seq(Process)
  <2> TAKE n \in DOMAIN jobs
  <2>1. PICK job \in JobRecord : job = jobs[n] OBVIOUS
  <2>2. job.eop \in Seq(ToSet(job.eop)) BY ReportsAssumption
  <2>3. ToSet(job.eop) \subseteq Process BY DEF Process
  <2>4. job.eop \in Seq(Process) BY <2>2, <2>3, SeqMonotonic
  <2> QED BY <2>1, <2>4
<1>3. Eops(jobs) \in [1..Len(jobs) -> Seq(Process)] BY <1>1, <1>2 DEF Eops
<1>4. Eops(jobs) \in Seq(Seq(Process)) /\ Len(Eops(jobs)) = Len(jobs)
  <2>1. PICK e : e = Eops(jobs) OBVIOUS
  <2>2. e \in [1..Len(jobs) -> Seq(Process)] BY <1>3, <2>1
  <2>3. e \in Seq(Seq(Process)) /\ Len(e) = Len(jobs) BY <1>1, <2>2, SeqDef, LenProperties
  <2> QED BY <2>1, <2>3
<1> QED BY <1>1, <1>2, <1>4 DEF Eops

LEMMA ProcessesType ==
  ASSUME NEW jobs \in Seq(JobRecord)
  PROVE Processes(jobs) \in Seq(Process)
<1>1. PICK ss \in Seq(Seq(Process)) : ss = Eops(jobs) BY EopsType
<1>2. PICK h : /\ h[0] = <<>> /\ FlattenSeq(ss) = h[Len(ss)] /\ Builds(h, ss, Len(ss))
               /\ \A k \in 0..Len(ss) : h[k] \in Seq(Process)
  BY FlattenSteps
<1>3. Len(ss) \in 0..Len(ss) OBVIOUS
<1>4. FlattenSeq(ss) \in Seq(Process) BY <1>2, <1>3
<1> QED BY <1>1, <1>4 DEF Processes, Eops

LEMMA ProcessesCat ==
  ASSUME NEW a \in Seq(JobRecord), NEW b \in Seq(JobRecord)
  PROVE Cat(a, b) \in Seq(JobRecord) /\ Processes(Cat(a, b)) = Cat(Processes(a), Processes(b))
<1>1. PICK c \in Seq(JobRecord) : c = a \o b BY ConcatProperties
<1>2. PICK ss \in Seq(Seq(Process)) : ss = Eops(a) BY EopsType
<1>3. PICK tt \in Seq(Seq(Process)) : tt = Eops(b) BY EopsType
<1>4. PICK uu \in Seq(Seq(Process)) : uu = Eops(c) BY EopsType
<1>5. /\ Len(c) = Len(a) + Len(b) /\ Len(a) \in Nat /\ Len(b) \in Nat
      /\ Len(ss) = Len(a) /\ Len(tt) = Len(b) /\ Len(uu) = Len(c)
  <2>1. Len(ss) = Len(a) BY <1>2, EopsType
  <2>2. Len(tt) = Len(b) BY <1>3, EopsType
  <2>3. Len(uu) = Len(c) BY <1>4, EopsType
  <2>4. Len(c) = Len(a) + Len(b) /\ Len(a) \in Nat /\ Len(b) \in Nat BY <1>1
  <2> QED BY <2>1, <2>2, <2>3, <2>4
<1>6. PICK vv \in Seq(Seq(Process)) : vv = ss \o tt BY ConcatProperties
<1>7. Len(vv) = Len(uu)
  <2>1. Len(vv) = Len(ss) + Len(tt) BY <1>6
  <2> QED BY <1>5, <2>1
<1>8. ASSUME NEW n \in 1..Len(c) PROVE uu[n] = vv[n]
  <2>1. uu[n] = c[n].eop BY <1>4, EopsType
  <2>2. CASE n <= Len(a)
    <3>1. n \in 1..Len(a) BY <1>5, <2>2
    <3>2. c[n] = a[n] BY <1>1, <1>5, <3>1, ConcatProperties
    <3>3. vv[n] = ss[n] BY <1>5, <1>6, <3>1, ConcatProperties
    <3>4. ss[n] = a[n].eop BY <1>2, <3>1, EopsType
    <3> QED BY <2>1, <3>2, <3>3, <3>4
  <2>3. CASE ~(n <= Len(a))
    <3>1. PICK k \in 1..Len(b) : n - Len(a) = k /\ n \in 1..(Len(a) + Len(b))
      <4>1. n \in 1..(Len(a) + Len(b)) BY <1>5
      <4>2. n - Len(a) \in 1..Len(b) BY <1>5, <2>3, <4>1
      <4> QED BY <4>1, <4>2
    <3>2. c[n] = b[k] BY <1>1, <1>5, <2>3, <3>1, ConcatProperties
    <3>3. vv[n] = tt[k]
      <4>1. n \in 1..(Len(ss) + Len(tt)) /\ ~(n <= Len(ss)) /\ n - Len(ss) = k BY <1>5, <2>3, <3>1
      <4> QED BY <1>6, <4>1, ConcatProperties
    <3>4. tt[k] = b[k].eop BY <1>3, EopsType
    <3> QED BY <2>1, <3>2, <3>3, <3>4
  <2> QED BY <2>2, <2>3
<1>9. uu = vv BY <1>5, <1>7, <1>8, SeqEqual
<1>10. FlattenSeq(vv) = FlattenSeq(ss) \o FlattenSeq(tt) BY <1>6, FlattenConcat
<1>11. Processes(c) = FlattenSeq(uu) /\ Processes(a) = FlattenSeq(ss) /\ Processes(b) = FlattenSeq(tt)
  BY <1>2, <1>3, <1>4 DEF Processes, Eops
<1>12. Processes(c) = Cat(Processes(a), Processes(b)) BY <1>9, <1>10, <1>11 DEF Cat
<1>13. c = Cat(a, b) BY <1>1 DEF Cat
<1> QED BY <1>12, <1>13

LEMMA CmsOfType ==
  ASSUME NEW procs \in Seq(Process)
  PROVE /\ CmsOf(procs) \in Seq(CmsEntry) /\ Len(CmsOf(procs)) = Len(procs) /\ DOMAIN CmsOf(procs) = DOMAIN procs
        /\ \A n \in DOMAIN procs : CmsOf(procs)[n] = Cms(procs[n]) /\ procs[n] \in Process
<1>1. Len(procs) \in Nat /\ DOMAIN procs = 1..Len(procs) /\ \A n \in DOMAIN procs : procs[n] \in Process OBVIOUS
<1>2. PICK L : L = CmsOf(procs) OBVIOUS
<1>3. DOMAIN L = DOMAIN procs /\ \A n \in DOMAIN procs : L[n] = Cms(procs[n]) BY <1>2 DEF CmsOf
<1>4. \A n \in DOMAIN procs : Cms(procs[n]) \in CmsEntry BY <1>1, CmsFacts
<1>5. L \in [1..Len(procs) -> CmsEntry]
  <2>1. \A n \in 1..Len(procs) : L[n] \in CmsEntry BY <1>1, <1>3, <1>4
  <2>2. L = [n \in 1..Len(procs) |-> Cms(procs[n])] BY <1>1, <1>2 DEF CmsOf
  <2> QED BY <2>1, <2>2
<1>6. L \in Seq(CmsEntry) /\ Len(L) = Len(procs) BY <1>1, <1>5, SeqDef, LenProperties
<1> QED BY <1>1, <1>2, <1>3, <1>6

LEMMA CmsOfCat ==
  ASSUME NEW p \in Seq(Process), NEW q \in Seq(Process)
  PROVE CmsOf(Cat(p, q)) = Cat(CmsOf(p), CmsOf(q))
<1>1. PICK r \in Seq(Process) : r = p \o q BY ConcatProperties
<1>2. PICK a \in Seq(CmsEntry) : a = CmsOf(p) BY CmsOfType
<1>3. PICK b \in Seq(CmsEntry) : b = CmsOf(q) BY CmsOfType
<1>4. PICK c \in Seq(CmsEntry) : c = CmsOf(r) BY CmsOfType
<1>5. PICK d \in Seq(CmsEntry) : d = a \o b BY ConcatProperties
<1>6. Len(a) = Len(p) /\ Len(b) = Len(q) /\ Len(c) = Len(r) BY <1>2, <1>3, <1>4, CmsOfType
<1>7. Len(r) = Len(p) + Len(q) /\ Len(p) \in Nat /\ Len(q) \in Nat BY <1>1
<1>8. Len(d) = Len(a) + Len(b) BY <1>5
<1>9. DOMAIN p = 1..Len(p) /\ DOMAIN q = 1..Len(q) /\ DOMAIN r = 1..Len(r) OBVIOUS
<1>10. ASSUME NEW n \in 1..Len(c) PROVE c[n] = d[n]
  <2>1. n \in 1..(Len(p) + Len(q)) /\ n \in DOMAIN r BY <1>6, <1>7, <1>9
  <2>2. c[n] = Cms(r[n]) BY <1>4, <2>1, CmsOfType
  <2>3. CASE n <= Len(p)
    <3>1. r[n] = p[n] BY <1>1, <1>7, <2>1, <2>3, ConcatProperties
    <3>2. d[n] = a[n] BY <1>5, <1>6, <1>7, <2>1, <2>3, ConcatProperties
    <3>3. n \in DOMAIN p BY <1>7, <1>9, <2>1, <2>3
    <3>4. a[n] = Cms(p[n]) BY <1>2, <3>3, CmsOfType
    <3> QED BY <2>2, <3>1, <3>2, <3>4
  <2>4. CASE ~(n <= Len(p))
    <3>1. n - Len(p) \in 1..Len(q) BY <1>7, <2>1, <2>4
    <3>2. PICK k \in DOMAIN q : k = n - Len(p) BY <1>9, <3>1
    <3>3. r[n] = q[k] BY <1>1, <1>7, <2>1, <2>4, <3>2, ConcatProperties
    <3>4. d[n] = b[k]
      <4>1. n \in 1..(Len(a) + Len(b)) /\ ~(n <= Len(a)) /\ n - Len(a) = k BY <1>6, <2>1, <2>4, <3>2
      <4> QED BY <1>5, <4>1, ConcatProperties
    <3>5. b[k] = Cms(q[k]) BY <1>3, CmsOfType
    <3> QED BY <2>2, <3>3, <3>4, <3>5
  <2> QED BY <2>3, <2>4
<1>11. Len(c) = Len(d) BY <1>6, <1>7, <1>8
<1>12. c = d BY <1>10, <1>11, SeqEqual
<1> QED BY <1>1, <1>2, <1>3, <1>4, <1>5, <1>12 DEF Cat

(* The processes of a command. *)
RunsAs(procs, cmd) == {n \in DOMAIN procs : procs[n].cmd = cmd}
CpuTimes(procs) == [n \in DOMAIN procs |-> procs[n].cpu]

LEMMA CmsCounts ==
  ASSUME NEW procs \in Seq(Process), NEW L, L = CmsOf(procs)
  PROVE /\ Total(L, "runs", DOMAIN L) = Len(procs)
        /\ \A cmd : PerCmd(L, "runs", cmd) = Cardinality(RunsAs(procs, cmd))
        /\ \A cmd : PerCmd(L, "cpu", cmd) = SumFunctionOnSet(CpuTimes(procs), RunsAs(procs, cmd))
        /\ Named(L) <=> RunsAs(procs, Unnamed) = {}
        /\ Names(L) = {procs[n].cmd : n \in DOMAIN procs}
<1>1. PICK D : D = DOMAIN procs OBVIOUS
<1>2. DOMAIN L = D /\ \A n \in D : L[n] = Cms(procs[n]) /\ procs[n] \in Process BY <1>1, CmsOfType
<1>3. \A n \in D : L[n].cmd = procs[n].cmd /\ Val(L[n], "runs") = 1 /\ Val(L[n], "cpu") = procs[n].cpu
  <2> TAKE n \in D
  <2>1. PICK rec \in Process : rec = procs[n] BY <1>2
  <2>2. L[n] = Cms(rec) BY <1>2, <2>1
  <2> QED BY <2>1, <2>2, CmsFacts
<1>4. IsFiniteSet(D) /\ Cardinality(D) = Len(procs)
  <2>1. D = 1..Len(procs) /\ Len(procs) \in Nat BY <1>1
  <2>2. IsFiniteSet(1..Len(procs)) /\ Cardinality(1..Len(procs)) = Len(procs) BY <2>1, FS_Interval
  <2> QED BY <2>1, <2>2
<1>5. PICK g : g = Vals(L, "runs") OBVIOUS
<1>6. \A n \in D : g[n] = 1 BY <1>2, <1>3, <1>5 DEF Vals
<1>7. \A S \in SUBSET D : IsFiniteSet(S) /\ Total(L, "runs", S) = Cardinality(S)
  <2> TAKE S \in SUBSET D
  <2>1. IsFiniteSet(S) BY <1>4, FS_Subset
  <2>2. \A n \in S : g[n] = 1 BY <1>6
  <2>3. SumFunctionOnSet(g, S) = Cardinality(S) BY <2>1, <2>2, SumOnes
  <2> QED BY <1>5, <2>1, <2>3 DEF Total
<1>8. Total(L, "runs", DOMAIN L) = Len(procs)
  <2>1. D \in SUBSET D OBVIOUS
  <2> QED BY <1>2, <1>4, <1>7, <2>1
<1>9. ASSUME NEW cmd
      PROVE /\ Under(L, cmd) = RunsAs(procs, cmd)
            /\ PerCmd(L, "runs", cmd) = Cardinality(RunsAs(procs, cmd))
            /\ PerCmd(L, "cpu", cmd) = SumFunctionOnSet(CpuTimes(procs), RunsAs(procs, cmd))
  <2>1. PICK S \in SUBSET D : S = RunsAs(procs, cmd) BY <1>1 DEF RunsAs
  <2>2. Under(L, cmd) = S BY <1>1, <1>2, <1>3, <2>1 DEF Under, RunsAs
  <2>3. PICK f, h : f = Vals(L, "cpu") /\ h = CpuTimes(procs) OBVIOUS
  <2>4. \A n \in S : f[n] = h[n] BY <1>1, <1>2, <1>3, <2>3 DEF Vals, CpuTimes
  <2>5. SumFunctionOnSet(f, S) = SumFunctionOnSet(h, S) BY <1>7, <2>4, SumSame
  <2>6. Total(L, "cpu", S) = SumFunctionOnSet(h, S) BY <2>3, <2>5 DEF Total
  <2>7. Total(L, "runs", S) = Cardinality(S) BY <1>7
  <2> QED BY <2>1, <2>2, <2>3, <2>6, <2>7 DEF PerCmd
<1>10. Named(L) <=> RunsAs(procs, Unnamed) = {} BY <1>1, <1>2, <1>3 DEF Named, RunsAs
<1>11. Names(L) = {procs[n].cmd : n \in DOMAIN procs} BY <1>1, <1>2, <1>3 DEF Names
<1> QED BY <1>8, <1>9, <1>10, <1>11

(***************************************************************************)
(* Records that count for the processes of jobs                            *)
(***************************************************************************)
Measures == {"runs", "cpu"}

(* The records count no process twice, and each once if all have names. *)
CountsFor(recs, jobs) ==
  /\ recs \in Seq(CmsEntry) /\ jobs \in Seq(JobRecord)
  /\ Total(recs, "runs", DOMAIN recs) <= Total(CmsList(jobs), "runs", DOMAIN CmsList(jobs))
  /\ Named(CmsList(jobs)) =>
       /\ Named(recs) /\ Names(recs) = Names(CmsList(jobs))
       /\ Total(recs, "runs", DOMAIN recs) = Total(CmsList(jobs), "runs", DOMAIN CmsList(jobs))
       /\ \A m \in Measures : \A cmd : PerCmd(recs, m, cmd) = PerCmd(CmsList(jobs), m, cmd)

LEMMA CmsListType ==
  ASSUME NEW jobs \in Seq(JobRecord)
  PROVE CmsList(jobs) \in Seq(CmsEntry)
<1>1. PICK p \in Seq(Process) : p = Processes(jobs) BY ProcessesType
<1> QED BY <1>1, CmsOfType DEF CmsList

LEMMA CountsForSelf ==
  ASSUME NEW jobs \in Seq(JobRecord)
  PROVE CountsFor(CmsList(jobs), jobs)
<1>1. PICK L \in Seq(CmsEntry) : L = CmsList(jobs) BY CmsListType
<1>2. Total(L, "runs", DOMAIN L) \in Nat
  <2>1. DOMAIN L \in SUBSET DOMAIN L OBVIOUS
  <2> QED BY <2>1, ListFacts
<1> QED BY <1>1, <1>2 DEF CountsFor

(* The summary of the records is right for the jobs. *)
LEMMA CountsForEach ==
  ASSUME NEW jobs, NEW recs, CountsFor(recs, jobs)
  PROVE CountsEach(Compress(SaveAll(<<>>, recs)), jobs)
<1>1. recs \in Seq(CmsEntry) /\ jobs \in Seq(JobRecord) BY DEF CountsFor
<1>2. PICK procs \in Seq(Process) : procs = Processes(jobs) BY <1>1, ProcessesType
<1>3. PICK L \in Seq(CmsEntry) : L = CmsList(jobs) BY <1>1, CmsListType
<1>4. L = CmsOf(procs) BY <1>2, <1>3 DEF CmsList
<1>5. /\ Total(L, "runs", DOMAIN L) = Len(procs)
      /\ \A cmd : PerCmd(L, "runs", cmd) = Cardinality(RunsAs(procs, cmd))
      /\ \A cmd : PerCmd(L, "cpu", cmd) = SumFunctionOnSet(CpuTimes(procs), RunsAs(procs, cmd))
      /\ Named(L) <=> RunsAs(procs, Unnamed) = {}
      /\ Names(L) = {procs[n].cmd : n \in DOMAIN procs}
  BY <1>4, CmsCounts
<1>6. PICK t : t = SaveAll(<<>>, recs) OBVIOUS
<1>7. TableOf(recs, t, "runs") /\ TableOf(recs, t, "cpu") BY <1>1, <1>6, SaveAllTable
<1>8. t \in Seq(CmsEntry) BY <1>7 DEF TableOf
<1>9. PICK cms : cms = Compress(t) /\ Summary(cms, t) BY <1>8, CompressTable
<1>10. CASE RunsAs(procs, Unnamed) # {}
  <2>1. Counts(cms) <= Total(t, "runs", DOMAIN t) /\ Counts(cms) \in Nat BY <1>9 DEF Summary
  <2>2. Total(t, "runs", DOMAIN t) = Total(recs, "runs", DOMAIN recs) BY <1>7 DEF TableOf
  <2>3. Total(recs, "runs", DOMAIN recs) <= Total(L, "runs", DOMAIN L) BY <1>3 DEF CountsFor
  <2>4. Total(recs, "runs", DOMAIN recs) \in Nat /\ Total(L, "runs", DOMAIN L) \in Nat
    <3>1. DOMAIN recs \in SUBSET DOMAIN recs /\ DOMAIN L \in SUBSET DOMAIN L OBVIOUS
    <3> QED BY <1>1, <3>1, ListFacts
  <2>5. Counts(cms) <= Len(procs) BY <1>5, <2>1, <2>2, <2>3, <2>4
  <2> QED BY <1>2, <1>6, <1>9, <1>10, <2>5 DEF CountsEach, RunsAs
<1>11. CASE RunsAs(procs, Unnamed) = {}
  <2>1. /\ Named(recs) /\ Names(recs) = Names(L)
        /\ \A m \in Measures : \A cmd : PerCmd(recs, m, cmd) = PerCmd(L, m, cmd)
    BY <1>3, <1>5, <1>11 DEF CountsFor
  <2>2. /\ Named(t) /\ Distinct(t) /\ Names(t) = Names(recs)
        /\ \A cmd : PerCmd(t, "runs", cmd) = PerCmd(recs, "runs", cmd)
        /\ \A cmd : PerCmd(t, "cpu", cmd) = PerCmd(recs, "cpu", cmd)
    BY <1>7, <2>1 DEF TableOf
  <2>3. /\ {e.cmd : e \in cms} = Names(t) /\ \A e \in cms : \A m : Val(e, m) = PerCmd(t, m, e.cmd)
    BY <1>9, <2>2 DEF Summary
  <2>4. {e.cmd : e \in cms} = {procs[n].cmd : n \in DOMAIN procs} BY <1>5, <2>1, <2>2, <2>3
  <2>5. ASSUME NEW e \in cms
        PROVE /\ e.prime + e.nonprime = Cardinality(RunsAs(procs, e.cmd))
              /\ e.cpu = SumFunctionOnSet(CpuTimes(procs), RunsAs(procs, e.cmd))
    <3>1. Val(e, "runs") = PerCmd(t, "runs", e.cmd) /\ Val(e, "cpu") = PerCmd(t, "cpu", e.cmd) BY <2>3
    <3>2. PerCmd(t, "runs", e.cmd) = PerCmd(L, "runs", e.cmd) /\ PerCmd(t, "cpu", e.cmd) = PerCmd(L, "cpu", e.cmd)
      BY <2>1, <2>2 DEF Measures
    <3>3. Val(e, "runs") = Cardinality(RunsAs(procs, e.cmd))
      BY <1>5, <3>1, <3>2
    <3>4. Val(e, "cpu") = SumFunctionOnSet(CpuTimes(procs), RunsAs(procs, e.cmd)) BY <1>5, <3>1, <3>2
    <3> QED BY <3>3, <3>4 DEF Val
  <2>6. CountsEach(cms, jobs)
    <3>1. {n \in DOMAIN procs : procs[n].cmd = Unnamed} = {} BY <1>11 DEF RunsAs
    <3>2. \A e \in cms :
            /\ e.prime + e.nonprime = Cardinality({n \in DOMAIN procs : procs[n].cmd = e.cmd})
            /\ e.cpu = SumFunctionOnSet([n \in DOMAIN procs |-> procs[n].cpu], {n \in DOMAIN procs : procs[n].cmd = e.cmd})
      BY <2>5 DEF RunsAs, CpuTimes
    <3> QED BY <1>2, <2>4, <3>1, <3>2 DEF CountsEach
  <2> QED BY <1>6, <1>9, <2>6
<1> QED BY <1>10, <1>11

LEMMA CsacmsCounts ==
  ASSUME NEW jobs \in Seq(JobRecord)
  PROVE CountsEach(Csacms(jobs), jobs)
<1>1. CountsEach(Compress(SaveAll(<<>>, CmsList(jobs))), jobs) BY CountsForSelf, CountsForEach
<1> QED BY <1>1 DEF Csacms, CmsTable, CmsList, CmsOf

(* The records that a night leaves. *)
LEMMA CountsForNight ==
  ASSUME NEW jobs \in Seq(JobRecord)
  PROVE CountsFor(SetToSeq(Csacms(jobs)), jobs)
<1>1. PICK L \in Seq(CmsEntry) : L = CmsList(jobs) BY CmsListType
<1>2. PICK t : t = SaveAll(<<>>, L) OBVIOUS
<1>3. TableOf(L, t, "runs") /\ TableOf(L, t, "cpu") BY <1>2, SaveAllTable
<1>4. t \in Seq(CmsEntry) BY <1>3 DEF TableOf
<1>5. PICK cms : cms = Compress(t) /\ Summary(cms, t) BY <1>4, CompressTable
<1>6. cms = Csacms(jobs) BY <1>1, <1>2, <1>5 DEF Csacms, CmsTable, CmsList, CmsOf
<1>7. IsFiniteSet(cms) /\ cms \in SUBSET CmsEntry BY <1>5 DEF Summary
<1>8. PICK r : r = SetToSeq(cms) OBVIOUS
<1>9. /\ r \in Seq(cms) /\ \A i, j \in DOMAIN r : r[i] = r[j] => i = j
      /\ {r[i] : i \in DOMAIN r} = cms
  BY <1>7, <1>8, SetToSeqFacts
<1>10. r \in Seq(CmsEntry) BY <1>7, <1>9, SeqMonotonic
<1>11. PICK D : D = DOMAIN r OBVIOUS
<1>12. Image(r, D) = cms BY <1>9, <1>11 DEF Image
<1>13. Total(r, "runs", D) = Counts(cms)
  <2>1. PICK g, h : g = RunsOf(cms) /\ h = Vals(r, "runs") OBVIOUS
  <2>2. \A n \in D : h[n] = g[r[n]] /\ h[n] \in Nat
    <3> TAKE n \in D
    <3>1. r[n] \in cms BY <1>9, <1>11
    <3>2. h[n] = Val(r[n], "runs") /\ h[n] \in Nat BY <1>10, <1>11, <2>1, ListFacts
    <3>3. g[r[n]] = r[n].prime + r[n].nonprime BY <2>1, <3>1 DEF RunsOf
    <3> QED BY <3>2, <3>3 DEF Val
  <2>3. IsFiniteSet(D) BY <1>10, <1>11, ListFacts
  <2>4. \A x, y \in D : r[x] = r[y] => x = y BY <1>9, <1>11
  <2>5. SumFunctionOnSet(g, Image(r, D)) = SumFunctionOnSet(h, D) BY <2>2, <2>3, <2>4, SumImage
  <2>6. Counts(cms) = SumFunctionOnSet(g, cms)
    <3>1. DOMAIN g = cms BY <2>1 DEF RunsOf
    <3>2. Counts(cms) = SumFunction(g) BY <2>1 DEF Counts, RunsOf
    <3> QED BY <3>1, <3>2 DEF SumFunction
  <2> QED BY <1>12, <2>1, <2>5, <2>6 DEF Total
<1>14. Total(t, "runs", DOMAIN t) = Total(L, "runs", DOMAIN L) BY <1>3 DEF TableOf
<1>15. Total(r, "runs", D) <= Total(L, "runs", DOMAIN L) BY <1>5, <1>13, <1>14 DEF Summary
<1>16. ASSUME Named(L)
       PROVE /\ Named(r) /\ Names(r) = Names(L) /\ Total(r, "runs", D) = Total(L, "runs", DOMAIN L)
             /\ \A m \in Measures : \A cmd : PerCmd(r, m, cmd) = PerCmd(L, m, cmd)
  <2>1. Named(t) /\ Distinct(t) /\ Names(t) = Names(L)
        /\ \A m \in Measures : \A cmd : PerCmd(t, m, cmd) = PerCmd(L, m, cmd)
    BY <1>3, <1>16 DEF TableOf, Measures
  <2>2. /\ Counts(cms) = Total(t, "runs", DOMAIN t)
        /\ \A i, j \in cms : i.cmd = j.cmd => i = j
        /\ {e.cmd : e \in cms} = Names(t)
        /\ \A e \in cms : e.cmd # Unnamed
        /\ \A e \in cms : \A m : Val(e, m) = PerCmd(t, m, e.cmd)
    BY <1>5, <2>1 DEF Summary
  <2>3. Total(r, "runs", D) = Total(L, "runs", DOMAIN L) BY <1>13, <1>14, <2>2
  <2>4. \A i \in D : r[i] \in cms BY <1>9, <1>11
  <2>5. Named(r) BY <1>11, <2>2, <2>4 DEF Named
  <2>6. Names(r) = Names(L)
    <3>1. Names(r) = {e.cmd : e \in cms} BY <1>9 DEF Names
    <3> QED BY <2>1, <2>2, <3>1
  <2>7. ASSUME NEW m \in Measures, NEW cmd PROVE PerCmd(r, m, cmd) = PerCmd(L, m, cmd)
    <3>1. CASE Under(r, cmd) = {}
      <4>1. cmd \notin Names(L) BY <2>6, <3>1 DEF Names, Under
      <4>2. Under(L, cmd) = {} BY <4>1 DEF Names, Under
      <4>3. Total(r, m, {}) = 0 /\ Total(L, m, {}) = 0 BY SumEmpty DEF Total
      <4> QED BY <3>1, <4>2, <4>3 DEF PerCmd
    <3>2. CASE Under(r, cmd) # {}
      <4>1. PICK S \in SUBSET DOMAIN r : S = Under(r, cmd) BY DEF Under
      <4>2. PICK n \in S : TRUE BY <3>2, <4>1
      <4>3. r[n] \in cms /\ r[n].cmd = cmd BY <1>11, <2>4, <4>1 DEF Under
      <4>4. \A k \in S : k = n
        <5> TAKE k \in S
        <5>1. r[k] \in cms /\ r[k].cmd = cmd BY <1>11, <2>4, <4>1 DEF Under
        <5>2. r[k] = r[n] BY <2>2, <4>3, <5>1
        <5> QED BY <1>9, <5>2
      <4>5. SplitAt(r, m, S, n) BY <1>10, TotalRemove
      <4>6. PICK R : R = S \ {n} /\ R = {} BY <4>4
      <4>7. Total(r, m, S) = Val(r[n], m) + Total(r, m, R) /\ Val(r[n], m) \in Nat BY <4>5, <4>6 DEF SplitAt
      <4>8. Total(r, m, {}) = 0 BY SumEmpty DEF Total
      <4>9. PerCmd(r, m, cmd) = Val(r[n], m) BY <4>1, <4>6, <4>7, <4>8 DEF PerCmd
      <4>10. Val(r[n], m) = PerCmd(t, m, cmd) BY <2>2, <4>3
      <4> QED BY <2>1, <4>9, <4>10
    <3> QED BY <3>1, <3>2
  <2> QED BY <2>3, <2>5, <2>6, <2>7
<1>17. CountsFor(r, jobs) BY <1>1, <1>10, <1>11, <1>15, <1>16 DEF CountsFor
<1> QED BY <1>6, <1>8, <1>17

LEMMA CatAddsUp ==
  ASSUME NEW a \in Seq(CmsEntry), NEW b \in Seq(CmsEntry), NEW m
  PROVE Cat(a, b) \in Seq(CmsEntry) /\ AddsUp(a, b, Cat(a, b), m)
<1>1. PICK c : c = Cat(a, b) /\ Follows(a, b, c) BY CatEntries
<1>2. c \in Seq(CmsEntry) /\ AddsUp(a, b, c, m) BY <1>1, OfCat
<1> QED BY <1>1, <1>2

LEMMA CountsForCat ==
  ASSUME NEW r, NEW s, NEW a, NEW b, CountsFor(r, a), CountsFor(s, b)
  PROVE CountsFor(Cat(r, s), Cat(a, b))
<1>1. /\ r \in Seq(CmsEntry) /\ s \in Seq(CmsEntry) /\ a \in Seq(JobRecord) /\ b \in Seq(JobRecord) BY DEF CountsFor
<1>2. PICK K \in Seq(CmsEntry) : K = CmsList(a) BY <1>1, CmsListType
<1>3. PICK L \in Seq(CmsEntry) : L = CmsList(b) BY <1>1, CmsListType
<1>4. PICK c \in Seq(JobRecord) : c = Cat(a, b) BY <1>1, ProcessesCat
<1>5. CmsList(c) = Cat(K, L)
  <2>1. PICK p \in Seq(Process) : p = Processes(a) BY <1>1, ProcessesType
  <2>2. PICK q \in Seq(Process) : q = Processes(b) BY <1>1, ProcessesType
  <2>3. Processes(c) = Cat(p, q) BY <1>1, <1>4, <2>1, <2>2, ProcessesCat
  <2>4. CmsOf(Cat(p, q)) = Cat(CmsOf(p), CmsOf(q)) BY CmsOfCat
  <2> QED BY <1>2, <1>3, <2>1, <2>2, <2>3, <2>4 DEF CmsList
<1>6. PICK M \in Seq(CmsEntry) : M = Cat(K, L) /\ \A m \in Measures : AddsUp(K, L, M, m) BY CatAddsUp
<1>7. PICK t \in Seq(CmsEntry) : t = Cat(r, s) /\ \A m \in Measures : AddsUp(r, s, t, m) BY <1>1, CatAddsUp
<1>8. \A l \in Seq(CmsEntry) : Total(l, "runs", DOMAIN l) \in Nat
  <2> TAKE l \in Seq(CmsEntry)
  <2>1. DOMAIN l \in SUBSET DOMAIN l OBVIOUS
  <2> QED BY <2>1, ListFacts
<1>9. "runs" \in Measures BY DEF Measures
<1>10. /\ Total(M, "runs", DOMAIN M) = Total(K, "runs", DOMAIN K) + Total(L, "runs", DOMAIN L)
       /\ Total(t, "runs", DOMAIN t) = Total(r, "runs", DOMAIN r) + Total(s, "runs", DOMAIN s)
  BY <1>6, <1>7, <1>9 DEF AddsUp
<1>11. /\ Total(r, "runs", DOMAIN r) <= Total(K, "runs", DOMAIN K)
       /\ Total(s, "runs", DOMAIN s) <= Total(L, "runs", DOMAIN L)
  BY <1>2, <1>3 DEF CountsFor
<1>12. Total(t, "runs", DOMAIN t) <= Total(M, "runs", DOMAIN M)
  <2>1. /\ Total(r, "runs", DOMAIN r) \in Nat /\ Total(s, "runs", DOMAIN s) \in Nat
        /\ Total(K, "runs", DOMAIN K) \in Nat /\ Total(L, "runs", DOMAIN L) \in Nat
    BY <1>1, <1>8
  <2> QED BY <1>10, <1>11, <2>1
<1>13. Names(M) = Names(K) \cup Names(L) /\ Names(t) = Names(r) \cup Names(s) BY <1>6, <1>7, <1>9 DEF AddsUp
<1>14. \A l : Named(l) <=> Unnamed \notin Names(l) BY DEF Named, Names
<1>15. ASSUME Named(M)
       PROVE /\ Named(t) /\ Names(t) = Names(M)
             /\ Total(t, "runs", DOMAIN t) = Total(M, "runs", DOMAIN M)
             /\ \A m \in Measures : \A cmd : PerCmd(t, m, cmd) = PerCmd(M, m, cmd)
  <2>1. Named(K) /\ Named(L) BY <1>13, <1>14, <1>15
  <2>2. /\ Named(r) /\ Names(r) = Names(K) /\ Total(r, "runs", DOMAIN r) = Total(K, "runs", DOMAIN K)
        /\ \A m \in Measures : \A cmd : PerCmd(r, m, cmd) = PerCmd(K, m, cmd)
    BY <1>2, <2>1 DEF CountsFor
  <2>3. /\ Named(s) /\ Names(s) = Names(L) /\ Total(s, "runs", DOMAIN s) = Total(L, "runs", DOMAIN L)
        /\ \A m \in Measures : \A cmd : PerCmd(s, m, cmd) = PerCmd(L, m, cmd)
    BY <1>3, <2>1 DEF CountsFor
  <2>4. Names(t) = Names(M) BY <1>13, <2>2, <2>3
  <2>5. Named(t) BY <1>13, <1>14, <2>2, <2>3
  <2>6. ASSUME NEW m \in Measures, NEW cmd PROVE PerCmd(t, m, cmd) = PerCmd(M, m, cmd)
    <3>1. PerCmd(t, m, cmd) = PerCmd(r, m, cmd) + PerCmd(s, m, cmd) BY <1>7 DEF AddsUp
    <3>2. PerCmd(M, m, cmd) = PerCmd(K, m, cmd) + PerCmd(L, m, cmd) BY <1>6 DEF AddsUp
    <3> QED BY <2>2, <2>3, <3>1, <3>2
  <2> QED BY <1>10, <2>2, <2>3, <2>4, <2>5, <2>6
<1>16. CountsFor(t, c) BY <1>4, <1>5, <1>6, <1>7, <1>12, <1>15 DEF CountsFor
<1> QED BY <1>4, <1>7, <1>16

(***************************************************************************)
(* csacms -s: the summaries of the nights                                  *)
(***************************************************************************)
NightFile == {[jobs |-> jobs, cms |-> Csacms(jobs), drep |-> Csadrep(jobs)] : jobs \in Seq(JobRecord)}

LEMMA MergeCounts ==
  ASSUME NEW ns \in Seq(NightFile)
  PROVE CountsEach(CsacmsMerge([n \in DOMAIN ns |-> ns[n].cms]), JobsOf(ns))
<1>1. PICK N \in Nat : N = Len(ns) /\ DOMAIN ns = 1..N OBVIOUS
<1>2. \A n \in 1..N : ns[n].jobs \in Seq(JobRecord) /\ ns[n].cms = Csacms(ns[n].jobs)
  <2> TAKE n \in 1..N
  <2>1. ns[n] \in NightFile BY <1>1
  <2>2. PICK jobs \in Seq(JobRecord) : ns[n] = [jobs |-> jobs, cms |-> Csacms(jobs), drep |-> Csadrep(jobs)]
    BY <2>1 DEF NightFile
  <2> QED BY <2>2
<1>3. PICK jj : jj = [n \in 1..N |-> ns[n].jobs] OBVIOUS
<1>4. PICK rr : rr = [n \in 1..N |-> SetToSeq(ns[n].cms)] OBVIOUS
<1>5. \A n \in 1..N : CountsFor(rr[n], jj[n])
  <2> TAKE n \in 1..N
  <2>1. PICK jobs \in Seq(JobRecord) : jobs = jj[n] /\ ns[n].cms = Csacms(jobs) BY <1>2, <1>3
  <2>2. CountsFor(SetToSeq(Csacms(jobs)), jobs) BY CountsForNight
  <2> QED BY <1>4, <2>1, <2>2
<1>6. \A n \in 1..N : jj[n] \in Seq(JobRecord) /\ rr[n] \in Seq(CmsEntry) BY <1>5 DEF CountsFor
<1>7. jj \in Seq(Seq(JobRecord)) /\ Len(jj) = N
  <2>1. jj \in [1..N -> Seq(JobRecord)] BY <1>3, <1>6
  <2> QED BY <2>1, SeqDef, LenProperties
<1>8. rr \in Seq(Seq(CmsEntry)) /\ Len(rr) = N
  <2>1. rr \in [1..N -> Seq(CmsEntry)] BY <1>4, <1>6
  <2> QED BY <2>1, SeqDef, LenProperties
<1>9. PICK a : /\ a[0] = <<>> /\ FlattenSeq(jj) = a[N] /\ Builds(a, jj, N)
               /\ \A k \in 0..N : a[k] \in Seq(JobRecord)
  BY <1>7, FlattenSteps
<1>10. PICK b : /\ b[0] = <<>> /\ FlattenSeq(rr) = b[N] /\ Builds(b, rr, N)
                /\ \A k \in 0..N : b[k] \in Seq(CmsEntry)
  BY <1>8, FlattenSteps
<1> DEFINE G == {k \in 0..N : CountsFor(b[k], a[k])}
<1>11. 0 \in G
  <2>1. PICK e \in Seq(JobRecord) : e = <<>> BY EmptySeq
  <2>2. CountsFor(CmsList(e), e) BY CountsForSelf
  <2>3. CmsList(e) = <<>>
    <3>1. PICK ss \in Seq(Seq(Process)) : ss = Eops(e) /\ Len(ss) = 0 BY <2>1, EopsType
    <3>2. PICK h : h[0] = <<>> /\ FlattenSeq(ss) = h[Len(ss)] BY FlattenSteps
    <3>3. Processes(e) = <<>> BY <3>1, <3>2 DEF Processes, Eops
    <3>4. PICK p \in Seq(Process) : p = <<>> /\ p = Processes(e) BY <3>3, EmptySeq
    <3>5. PICK L \in Seq(CmsEntry) : L = CmsOf(p) /\ Len(L) = Len(p) BY CmsOfType
    <3>6. Len(p) = 0 BY <3>4
    <3>7. L = <<>> BY <3>5, <3>6, EmptySeq
    <3> QED BY <3>4, <3>5, <3>7 DEF CmsList
  <2> QED BY <1>9, <1>10, <2>1, <2>2, <2>3
<1>12. ASSUME NEW k \in 1..N, k - 1 \in G PROVE k \in G
  <2>1. CountsFor(b[k - 1], a[k - 1]) BY <1>12
  <2>2. a[k] = Cat(a[k - 1], jj[k]) /\ b[k] = Cat(b[k - 1], rr[k]) BY <1>9, <1>10 DEF Builds
  <2>3. CountsFor(rr[k], jj[k]) BY <1>5
  <2>4. CountsFor(b[k], a[k]) BY <2>1, <2>2, <2>3, CountsForCat
  <2> QED BY <2>4
<1>13. N \in G
  <2>1. N \in 0..N OBVIOUS
  <2> HIDE DEF G
  <2> QED BY <1>11, <1>12, <2>1, UpTo
<1>14. CountsFor(FlattenSeq(rr), FlattenSeq(jj)) BY <1>9, <1>10, <1>13
<1>15. JobsOf(ns) = FlattenSeq(jj) BY <1>1, <1>3 DEF JobsOf
<1>16. CsacmsMerge([n \in DOMAIN ns |-> ns[n].cms]) = Compress(SaveAll(<<>>, FlattenSeq(rr)))
  <2>1. PICK files : files = [n \in 1..N |-> ns[n].cms] OBVIOUS
  <2>2. [n \in DOMAIN files |-> SetToSeq(files[n])] = rr BY <1>4, <2>1
  <2> QED BY <1>1, <2>1, <2>2 DEF CsacmsMerge
<1> QED BY <1>14, <1>15, <1>16, CountsForEach

(***************************************************************************)
(* csacms -j: the commands that ran once                                   *)
(***************************************************************************)
LEMMA SumPlus ==
  ASSUME NEW k, NEW g, NEW h, NEW S, IsFiniteSet(S),
         \A x \in S : k[x] = g[x] + h[x] /\ k[x] \in Nat /\ g[x] \in Nat /\ h[x] \in Nat
  PROVE SumFunctionOnSet(k, S) = SumFunctionOnSet(g, S) + SumFunctionOnSet(h, S)
<1> DEFINE G == {s \in SUBSET S : SumFunctionOnSet(k, s) = SumFunctionOnSet(g, s) + SumFunctionOnSet(h, s)}
<1>1. ASSUME NEW s \in SUBSET S, \A x \in s : s \ {x} \in G PROVE s \in G
  <2>1. CASE s = {} BY <2>1, SumEmpty
  <2>2. CASE s # {}
    <3>1. IsFiniteSet(s) BY FS_Subset
    <3>2. PICK p \in s : p = Pick(s) BY <2>2, PickIn
    <3>3. PICK r \in SUBSET S : r = s \ {p} OBVIOUS
    <3>4. /\ SumFunctionOnSet(k, s) = k[p] + SumFunctionOnSet(k, r)
          /\ SumFunctionOnSet(g, s) = g[p] + SumFunctionOnSet(g, r)
          /\ SumFunctionOnSet(h, s) = h[p] + SumFunctionOnSet(h, r)
      BY <2>2, <3>1, <3>2, <3>3, SumPick
    <3>5. SumFunctionOnSet(k, r) = SumFunctionOnSet(g, r) + SumFunctionOnSet(h, r) BY <1>1, <3>3
    <3>6. IsFiniteSet(r) BY FS_Subset
    <3>7. SumFunctionOnSet(g, r) \in Nat /\ SumFunctionOnSet(h, r) \in Nat BY <3>6, SumType
    <3>8. k[p] = g[p] + h[p] /\ g[p] \in Nat /\ h[p] \in Nat OBVIOUS
    <3>9. SumFunctionOnSet(k, s) = SumFunctionOnSet(g, s) + SumFunctionOnSet(h, s)
      <4> HIDE DEF G
      <4> QED BY <3>4, <3>5, <3>7, <3>8
    <3> QED BY <3>9
  <2> QED BY <2>1, <2>2
<1>2. \A s \in SUBSET S : s \in G
  <2> HIDE DEF G
  <2> QED BY <1>1, SubsetInduction
<1> QED BY <1>2

LEMMA JoinedRuns ==
  ASSUME NEW t \in Seq(CmsEntry), NEW S \in SUBSET DOMAIN t, NEW y,
         y = [cmd |-> Other, prime |-> SumFunctionOnSet([n \in DOMAIN t |-> t[n].prime], S),
              nonprime |-> SumFunctionOnSet([n \in DOMAIN t |-> t[n].nonprime], S),
              cpu |-> SumFunctionOnSet([n \in DOMAIN t |-> t[n].cpu], S)]
  PROVE y \in CmsEntry /\ Val(y, "runs") = Total(t, "runs", S)
<1>1. PICK g, h, c, k : /\ g = [n \in DOMAIN t |-> t[n].prime] /\ h = [n \in DOMAIN t |-> t[n].nonprime]
                        /\ c = [n \in DOMAIN t |-> t[n].cpu] /\ k = Vals(t, "runs")
  OBVIOUS
<1>2. \A n \in S : k[n] = g[n] + h[n] /\ k[n] \in Nat /\ g[n] \in Nat /\ h[n] \in Nat /\ c[n] \in Nat
  <2> TAKE n \in S
  <2>1. PICK e \in CmsEntry : e = t[n] OBVIOUS
  <2>2. e.prime \in Nat /\ e.nonprime \in Nat /\ e.cpu \in Nat BY DEF CmsEntry
  <2>3. g[n] = e.prime /\ h[n] = e.nonprime /\ c[n] = e.cpu BY <1>1, <2>1
  <2>4. k[n] = e.prime + e.nonprime BY <1>1, <2>1 DEF Vals, Val
  <2> QED BY <2>2, <2>3, <2>4
<1>3. IsFiniteSet(S) BY ListFacts
<1>4. SumFunctionOnSet(k, S) = SumFunctionOnSet(g, S) + SumFunctionOnSet(h, S) BY <1>2, <1>3, SumPlus
<1>5. SumFunctionOnSet(g, S) \in Nat /\ SumFunctionOnSet(h, S) \in Nat /\ SumFunctionOnSet(c, S) \in Nat
  BY <1>2, <1>3, SumType
<1>6. Total(t, "runs", S) = SumFunctionOnSet(k, S) BY <1>1 DEF Total
<1>7. PICK p, q, r : p = SumFunctionOnSet(g, S) /\ q = SumFunctionOnSet(h, S) /\ r = SumFunctionOnSet(c, S) OBVIOUS
<1>8. y = [cmd |-> Other, prime |-> p, nonprime |-> q, cpu |-> r] BY <1>1, <1>7
<1>9. p \in Nat /\ q \in Nat /\ r \in Nat /\ Other \in Command BY <1>5, <1>7 DEF Command
<1>10. y \in CmsEntry BY <1>8, <1>9 DEF CmsEntry
<1>11. Val(y, "runs") = p + q BY <1>8 DEF Val
<1> QED BY <1>4, <1>6, <1>7, <1>10, <1>11

(* The entry of the joined commands takes their counts along. *)
LEMMA JoinCounts ==
  ASSUME NEW table \in Seq(CmsEntry), Named(table), Distinct(table)
  PROVE Counts(Compress(JoinSingle(table))) = Total(table, "runs", DOMAIN table)
<1>1. PICK x : x = [cmd |-> Other, prime |-> 0, nonprime |-> 0, cpu |-> 0] OBVIOUS
<1>2. x \in CmsEntry /\ x.cmd = Other /\ Val(x, "runs") = 0 /\ Other # Unnamed
  <2>1. Other \in Command /\ Other # Unnamed BY DEF Command, Other, Unnamed
  <2> QED BY <1>1, <2>1 DEF CmsEntry, Val
<1>3. PICK t : t = SaveRecord(table, x) /\ Saved(table, x, t, "runs") BY <1>2, SavedOne
<1>4. /\ t \in Seq(CmsEntry) /\ Named(t) /\ Distinct(t) /\ Other \in Names(t)
      /\ Total(t, "runs", DOMAIN t) = Total(table, "runs", DOMAIN table) + Val(x, "runs")
  BY <1>2, <1>3 DEF Saved
<1>5. PICK D : D = DOMAIN t /\ D = 1..Len(t) /\ Len(t) \in Nat BY <1>4
<1>6. PICK T \in SUBSET Nat : T = {n \in DOMAIN t : t[n].cmd = Other}
  <2>1. {n \in DOMAIN t : t[n].cmd = Other} \in SUBSET Nat BY <1>5
  <2> QED BY <2>1
<1>7. PICK j \in T : j = Min(T)
  <2>1. T # {} BY <1>4, <1>6 DEF Names
  <2>2. \E n \in T : \A y \in T : n <= y BY <2>1, MinExists
  <2> QED BY <2>2 DEF Min
<1>8. j \in D /\ t[j].cmd = Other /\ t[j] \in CmsEntry BY <1>4, <1>5, <1>6
<1>9. PICK single \in SUBSET DOMAIN t : single = {n \in DOMAIN t \ {j} : t[n].cmd # Unnamed /\ Once(t[n])} OBVIOUS
<1>10. PICK y : y = [cmd |-> Other, prime |-> SumFunctionOnSet([n \in DOMAIN t |-> t[n].prime], single),
                     nonprime |-> SumFunctionOnSet([n \in DOMAIN t |-> t[n].nonprime], single),
                     cpu |-> SumFunctionOnSet([n \in DOMAIN t |-> t[n].cpu], single)]
  OBVIOUS
<1>11. y \in CmsEntry /\ Val(y, "runs") = Total(t, "runs", single) BY <1>4, <1>10, JoinedRuns
<1>12. PICK u : u = [n \in DOMAIN t |-> IF n = j THEN AddCms(t[j], y)
                                        ELSE IF n \in single THEN [t[n] EXCEPT !.cmd = Unnamed] ELSE t[n]]
  OBVIOUS
<1>13. u = JoinSingle(table) BY <1>1, <1>3, <1>6, <1>7, <1>9, <1>10, <1>12 DEF JoinSingle
<1>14. j \notin single BY <1>9
<1>15. u[j] \in CmsEntry /\ u[j].cmd = Other /\ Val(u[j], "runs") = Val(t[j], "runs") + Val(y, "runs")
  <2>1. PICK e \in CmsEntry : e = t[j] BY <1>8
  <2>2. PICK z : z = AddCms(e, y) OBVIOUS
  <2>3. u[j] = z BY <1>5, <1>8, <1>12, <2>1, <2>2
  <2>4. /\ e.prime \in Nat /\ e.nonprime \in Nat /\ e.cpu \in Nat
        /\ y.prime \in Nat /\ y.nonprime \in Nat /\ y.cpu \in Nat
    BY <1>11 DEF CmsEntry
  <2>5. z = [e EXCEPT !.prime = e.prime + y.prime, !.nonprime = e.nonprime + y.nonprime, !.cpu = e.cpu + y.cpu]
    BY <2>2 DEF AddCms
  <2>6. z \in CmsEntry /\ z.cmd = e.cmd /\ z.prime = e.prime + y.prime /\ z.nonprime = e.nonprime + y.nonprime
    <3>1. e.prime + y.prime \in Nat /\ e.nonprime + y.nonprime \in Nat /\ e.cpu + y.cpu \in Nat BY <2>4
    <3> QED BY <2>5, <3>1 DEF CmsEntry
  <2> QED BY <1>8, <2>1, <2>3, <2>4, <2>6 DEF Val
<1>16. \A n \in single : u[n] \in CmsEntry /\ u[n].cmd = Unnamed
  <2> TAKE n \in single
  <2>1. n \in D /\ n # j BY <1>5, <1>14
  <2>2. PICK e \in CmsEntry : e = t[n] BY <1>4, <1>5, <2>1
  <2>3. u[n] = [e EXCEPT !.cmd = Unnamed] BY <1>5, <1>12, <2>1, <2>2
  <2>4. Unnamed \in Command BY DEF Command
  <2> QED BY <2>3, <2>4 DEF CmsEntry
<1>17. \A n \in D \ single : n # j => u[n] = t[n] BY <1>5, <1>12
<1>18. \A n \in D \ single : u[n].cmd = t[n].cmd BY <1>8, <1>15, <1>17
<1>19. u \in Seq(CmsEntry) /\ DOMAIN u = D
  <2>1. \A n \in D : u[n] \in CmsEntry
    <3> TAKE n \in D
    <3>1. t[n] \in CmsEntry BY <1>4, <1>5
    <3> QED BY <1>15, <1>16, <1>17, <3>1
  <2>2. DOMAIN u = D /\ u = [n \in 1..Len(t) |-> u[n]] BY <1>5, <1>12
  <2>3. u \in [1..Len(t) -> CmsEntry] BY <1>5, <2>1, <2>2
  <2> QED BY <1>5, <2>2, <2>3, SeqDef
<1>20. PICK S \in SUBSET DOMAIN u : S = {n \in DOMAIN u : u[n].cmd # Unnamed} OBVIOUS
<1>21. S = D \ single
  <2>1. \A n \in D \ single : u[n].cmd # Unnamed BY <1>4, <1>5, <1>18 DEF Named
  <2> QED BY <1>16, <1>19, <1>20, <2>1
<1>22. Counts(Compress(u)) = Total(u, "runs", S)
  <2>1. Entered(Compress(u), u, S) BY <1>19, <1>20, CompressSome
  <2>2. \A m, n \in S : u[m] = u[n] => m = n
    <3> TAKE m, n \in S
    <3>1. u[m].cmd = t[m].cmd /\ u[n].cmd = t[n].cmd /\ m \in DOMAIN t /\ n \in DOMAIN t BY <1>5, <1>18, <1>21
    <3> QED BY <1>4, <3>1 DEF Distinct
  <2> QED BY <2>1, <2>2 DEF Entered
<1>23. PICK R \in SUBSET DOMAIN t : R = S \ {j} BY <1>5, <1>21
<1>24. j \in S /\ S \in SUBSET DOMAIN t /\ R \in SUBSET DOMAIN u BY <1>5, <1>8, <1>14, <1>19, <1>21, <1>23
<1>25. Total(u, "runs", S) = Val(u[j], "runs") + Total(u, "runs", R)
  <2>1. SplitAt(u, "runs", S, j) BY <1>19, <1>24, TotalRemove
  <2> QED BY <1>23, <2>1 DEF SplitAt
<1>26. Total(t, "runs", S) = Val(t[j], "runs") + Total(t, "runs", R) /\ Val(t[j], "runs") \in Nat /\ Total(t, "runs", R) \in Nat
  <2>1. SplitAt(t, "runs", S, j) BY <1>4, <1>24, TotalRemove
  <2> QED BY <1>23, <2>1 DEF SplitAt
<1>27. Total(u, "runs", R) = Total(t, "runs", R)
  <2>1. \A n \in R : u[n] = t[n] BY <1>17, <1>21, <1>23
  <2> QED BY <1>4, <1>19, <1>24, <2>1, TotalSame
<1>28. Total(t, "runs", D) = Total(t, "runs", S) + Total(t, "runs", single) /\ Total(t, "runs", single) \in Nat
  <2>1. S \cup single = D /\ S \cap single = {} BY <1>5, <1>21
  <2>2. PICK A \in SUBSET DOMAIN t : A = S BY <1>24
  <2>3. A \cap single = {} BY <2>1, <2>2
  <2>4. Total(t, "runs", A \cup single) = Total(t, "runs", A) + Total(t, "runs", single)
        /\ Total(t, "runs", single) \in Nat
    <3>1. t \in Seq(CmsEntry) BY <1>4
    <3>2. PICK B \in SUBSET DOMAIN t : B = single OBVIOUS
    <3>3. A \cap B = {} BY <2>3, <3>2
    <3>4. /\ Total(t, "runs", A \cup B) = Total(t, "runs", A) + Total(t, "runs", B)
          /\ Total(t, "runs", B) \in Nat
      BY <3>1, <3>3, TotalUnion
    <3> QED BY <3>2, <3>4
  <2> QED BY <2>1, <2>2, <2>4
<1>29. Total(table, "runs", DOMAIN table) \in Nat
  <2>1. DOMAIN table \in SUBSET DOMAIN table OBVIOUS
  <2> QED BY <2>1, ListFacts
<1>30. Total(t, "runs", D) = Total(table, "runs", DOMAIN table) BY <1>2, <1>4, <1>5, <1>29
<1> QED BY <1>11, <1>13, <1>15, <1>22, <1>25, <1>26, <1>27, <1>28, <1>30

LEMMA CsacmsJoinedCounts ==
  ASSUME NEW jobs \in Seq(JobRecord), \A n \in DOMAIN Processes(jobs) : Processes(jobs)[n].cmd # Unnamed
  PROVE Counts(CsacmsJoined(jobs)) = Len(Processes(jobs))
<1>1. PICK procs \in Seq(Process) : procs = Processes(jobs) BY ProcessesType
<1>2. PICK L \in Seq(CmsEntry) : L = CmsList(jobs) BY CmsListType
<1>3. L = CmsOf(procs) BY <1>1, <1>2 DEF CmsList
<1>4. Total(L, "runs", DOMAIN L) = Len(procs) /\ (Named(L) <=> RunsAs(procs, Unnamed) = {}) BY <1>3, CmsCounts
<1>5. Named(L) BY <1>1, <1>4 DEF RunsAs
<1>6. PICK t : t = SaveAll(<<>>, L) /\ TableOf(L, t, "runs") BY SaveAllTable
<1>7. t \in Seq(CmsEntry) /\ Named(t) /\ Distinct(t) /\ Total(t, "runs", DOMAIN t) = Total(L, "runs", DOMAIN L)
  BY <1>5, <1>6 DEF TableOf
<1>8. Counts(Compress(JoinSingle(t))) = Total(t, "runs", DOMAIN t) BY <1>7, JoinCounts
<1>9. t = CmsTable(jobs) BY <1>2, <1>6 DEF CmsTable, CmsList, CmsOf
<1> QED BY <1>1, <1>4, <1>7, <1>8, <1>9 DEF CsacmsJoined

(***************************************************************************)
(* The nights                                                              *)
(***************************************************************************)
LEMMA SomeJobs ==
  ASSUME NEW jobs \in Seq(JobRecord), NEW f, DOMAIN f = DOMAIN jobs,
         \A n \in DOMAIN jobs : f[n] = <<jobs[n]>> \/ f[n] = <<>>, f = [n \in DOMAIN jobs |-> f[n]]
  PROVE FlattenSeq(f) \in Seq(JobRecord)
<1>1. PICK N \in Nat : N = Len(jobs) /\ DOMAIN jobs = 1..N OBVIOUS
<1>2. \A n \in 1..N : f[n] \in Seq(JobRecord)
  <2> TAKE n \in 1..N
  <2>1. PICK job \in JobRecord : job = jobs[n] BY <1>1
  <2>2. <<job>> \in Seq(JobRecord) /\ <<>> \in Seq(JobRecord) OBVIOUS
  <2> QED BY <1>1, <2>1, <2>2
<1>3. PICK ss \in Seq(Seq(JobRecord)) : ss = f
  <2>1. f \in [1..N -> Seq(JobRecord)] BY <1>1, <1>2
  <2> QED BY <2>1, SeqDef
<1>4. PICK h : /\ h[0] = <<>> /\ FlattenSeq(ss) = h[Len(ss)] /\ Builds(h, ss, Len(ss))
               /\ \A k \in 0..Len(ss) : h[k] \in Seq(JobRecord)
  BY FlattenSteps
<1>5. Len(ss) \in 0..Len(ss) OBVIOUS
<1> QED BY <1>3, <1>4, <1>5

LEMMA NightJobs ==
  ASSUME NEW jobs \in Seq(JobRecord), NEW these
  PROVE Those(jobs, these) \in Seq(JobRecord)
<1>1. PICK f : f = [n \in DOMAIN jobs |-> IF jobs[n] \in these THEN <<jobs[n]>> ELSE <<>>] OBVIOUS
<1>2. Those(jobs, these) = FlattenSeq(f) BY <1>1 DEF Those
<1>3. DOMAIN f = DOMAIN jobs /\ f = [n \in DOMAIN jobs |-> f[n]] BY <1>1
<1>4. \A n \in DOMAIN jobs : f[n] = <<jobs[n]>> \/ f[n] = <<>> BY <1>1
<1> QED BY <1>2, <1>3, <1>4, SomeJobs

(* The jobs and the files of the nights, and the files of the period. *)
CmsInv ==
  /\ tonight \in Seq(JobRecord)
  /\ nights \in Seq(NightFile)
  /\ CountsEach(period.cms, period.jobs)

LEMMA CmsInit == Init => CmsInv
<1> SUFFICES ASSUME Init PROVE CmsInv OBVIOUS
<1>1. tonight \in Seq(JobRecord) /\ nights \in Seq(NightFile) BY EmptySeq DEF Init
<1>2. CountsEach({}, <<>>)
  <2>1. PICK e \in Seq(JobRecord) : e = <<>> BY EmptySeq
  <2>2. PICK ss \in Seq(Seq(Process)) : ss = Eops(e) /\ Len(ss) = 0 BY <2>1, EopsType
  <2>3. PICK h : h[0] = <<>> /\ FlattenSeq(ss) = h[Len(ss)] BY FlattenSteps
  <2>4. Processes(e) = <<>> BY <2>2, <2>3 DEF Processes, Eops
  <2>5. PICK p : p = Processes(e) /\ DOMAIN p = {} BY <2>4
  <2>6. {n \in DOMAIN p : p[n].cmd = Unnamed} = {} /\ {p[n].cmd : n \in DOMAIN p} = {} BY <2>5
  <2>7. {x.cmd : x \in {}} = {} OBVIOUS
  <2> QED BY <2>1, <2>5, <2>6, <2>7 DEF CountsEach
<1>3. CountsEach(period.cms, period.jobs)
  <2>1. period.cms = {} /\ period.jobs = <<>> BY DEF Init, NoPeriod
  <2> QED BY <1>2, <2>1
<1> QED BY <1>1, <1>3 DEF CmsInv

LEMMA CmsNext == CmsInv /\ [Next]_vars => CmsInv'
<1> SUFFICES ASSUME CmsInv, [Next]_vars PROVE CmsInv' OBVIOUS
<1> USE DEF CmsInv
<1>1. CASE UNCHANGED vars BY <1>1 DEF vars
<1>2. ASSUME NEW job \in JobRecord, JobWritten(job) PROVE CmsInv'
  <2>1. tonight' \in Seq(JobRecord) BY <1>2, AppendProperties DEF JobWritten
  <2> QED BY <1>2, <2>1 DEF JobWritten
<1>3. ASSUME NEW sel \in Selection, Show(sel) PROVE CmsInv' BY <1>3 DEF Show
<1>4. CASE Night
  <2>1. PICK jobs \in Seq(JobRecord) : jobs = Those(tonight, {job \in JobRecord : Wanted(job, FALSE)}) BY NightJobs
  <2>2. CASE Csadrep(jobs).ok
    <3>1. PICK file : file = [jobs |-> jobs, cms |-> Csacms(jobs), drep |-> Csadrep(jobs)] OBVIOUS
    <3>2. file \in NightFile BY <3>1 DEF NightFile
    <3>3. nights' = Append(nights, file) /\ tonight' = Those(tonight, {job \in JobRecord : Recycled(job)}) /\ period' = period
      BY <1>4, <2>1, <2>2, <3>1 DEF Night
    <3>4. nights' \in Seq(NightFile) BY <3>2, <3>3, AppendProperties
    <3>5. tonight' \in Seq(JobRecord) BY <3>3, NightJobs
    <3> QED BY <3>3, <3>4, <3>5
  <2>3. CASE ~Csadrep(jobs).ok
    <3>1. UNCHANGED <<tonight, nights, period>> BY <1>4, <2>1, <2>3 DEF Night
    <3> QED BY <3>1
  <2> QED BY <2>2, <2>3
<1>5. CASE Period
  <2>1. PICK ns \in Seq(NightFile) : ns = nights OBVIOUS
  <2>2. CountsEach(CsacmsMerge([n \in DOMAIN ns |-> ns[n].cms]), JobsOf(ns)) BY MergeCounts
  <2>3. period'.cms = CsacmsMerge([n \in DOMAIN ns |-> ns[n].cms]) /\ period'.jobs = JobsOf(ns) BY <1>5, <2>1 DEF Period
  <2>4. CountsEach(period'.cms, period'.jobs) BY <2>2, <2>3
  <2>5. nights' = <<>> /\ tonight' = tonight BY <1>5 DEF Period
  <2>6. nights' \in Seq(NightFile) BY <2>5, EmptySeq
  <2> QED BY <2>4, <2>5, <2>6
<1> QED BY <1>1, <1>2, <1>3, <1>4, <1>5 DEF Next

LEMMA CmsInvAddsUp == CmsInv => CmsAddUp
<1> SUFFICES ASSUME CmsInv PROVE CmsAddUp OBVIOUS
<1>1. CountsEach(period.cms, period.jobs) BY DEF CmsInv
<1>2. \A n \in DOMAIN nights : CountsEach(nights[n].cms, nights[n].jobs)
  <2> TAKE n \in DOMAIN nights
  <2>1. nights[n] \in NightFile BY DEF CmsInv
  <2>2. PICK jobs \in Seq(JobRecord) : nights[n] = [jobs |-> jobs, cms |-> Csacms(jobs), drep |-> Csadrep(jobs)]
    BY <2>1 DEF NightFile
  <2>3. CountsEach(Csacms(jobs), jobs) BY CsacmsCounts
  <2> QED BY <2>2, <2>3
<1>3. (\A n \in DOMAIN Processes(tonight) : Processes(tonight)[n].cmd # Unnamed) =>
        Counts(CsacmsJoined(tonight)) = Len(Processes(tonight))
  <2>1. PICK jobs \in Seq(JobRecord) : jobs = tonight BY DEF CmsInv
  <2>2. (\A n \in DOMAIN Processes(jobs) : Processes(jobs)[n].cmd # Unnamed) =>
          Counts(CsacmsJoined(jobs)) = Len(Processes(jobs))
    BY CsacmsJoinedCounts
  <2> QED BY <2>1, <2>2
<1> QED BY <1>1, <1>2, <1>3 DEF CmsAddUp

(* Whatever jobs csabuild writes and however many nights a period merges:  *)
(* the command summaries count every process once, under its command, with *)
(* its CPU time, and never twice (csacms.c, csaperiod).                    *)
THEOREM CmsAlwaysAddUp == Spec => []CmsAddUp
<1>1. Init => CmsInv BY CmsInit
<1>2. CmsInv /\ [Next]_vars => CmsInv' BY CmsNext
<1>3. CmsInv => CmsAddUp BY CmsInvAddsUp
<1> QED BY <1>1, <1>2, <1>3, PTL DEF Spec
=============================================================================
