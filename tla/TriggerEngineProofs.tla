------------------------ MODULE TriggerEngineProofs -------------------------
(***************************************************************************)
(* Proofs about TriggerEngine, for every set of definitions, days and      *)
(* values, every basis point scale, i128 range and challenge window.       *)
(***************************************************************************)
EXTENDS TriggerEngine, TotalsProofs

-----------------------------------------------------------------------------
(***************************************************************************)
(* The rain total.  A fold takes the positions in an unspecified order;    *)
(* that it is the total of the values follows because the subtotals solve  *)
(* its recursive equation and no other function does.                      *)
(***************************************************************************)

Rain(s) == [n \in DOMAIN s |-> s[n].value]

Subtotal(s, T) == Total([n \in T |-> s[n].value])

(* The recursive equation of the fold, on the sets of positions D.         *)
Folds(g, s, D) ==
  g = [T \in SUBSET D |-> IF T = {} THEN 0
                          ELSE s[CHOOSE n \in T : TRUE].value
                               + g[T \ {CHOOSE n \in T : TRUE}]]

(* A subtotal is one value and the subtotal of the others.                 *)
LEMMA SubtotalStep ==
  ASSUME NEW s, IsFiniteSet(DOMAIN s), \A n \in DOMAIN s : s[n].value \in Nat,
         NEW T \in SUBSET (DOMAIN s), NEW n \in T
  PROVE  Subtotal(s, T) = s[n].value + Subtotal(s, T \ {n}) /\ Subtotal(s, T) \in Nat
  <1> DEFINE f == [m \in T |-> s[m].value]
             g == [m \in T \ {n} |-> f[m]]
  <1>1. f \in [T -> Nat]  OBVIOUS
  <1>2. IsFiniteSet(T)  BY FS_Subset
  <1> f[n] = s[n].value /\ s[n].value \in Nat  OBVIOUS
  <1>5. g = [m \in T \ {n} |-> s[m].value]  OBVIOUS
  <1> HIDE DEF f
  <1>3. IsFiniteSet(Units(f)) /\ Total(f) \in Nat  BY <1>1, <1>2, FiniteLedger
  <1>4. Total(g) \in Nat /\ Total(f) = Total(g) + f[n]
    BY <1>1, <1>3, TotalWithout
  <1> HIDE DEF g
  <1> QED  BY <1>3, <1>4, <1>5 DEF Subtotal, f

(* The subtotals solve the equation of the fold.                           *)
LEMMA SubtotalFolds ==
  ASSUME NEW s, IsFiniteSet(DOMAIN s), \A n \in DOMAIN s : s[n].value \in Nat
  PROVE  Folds([T \in SUBSET (DOMAIN s) |-> Subtotal(s, T)], s, DOMAIN s)
  <1> DEFINE g == [T \in SUBSET (DOMAIN s) |-> Subtotal(s, T)]
  <1>1. Subtotal(s, {}) = 0
    <2>1. [n \in {} |-> s[n].value] = [n \in {} |-> 0]  OBVIOUS
    <2> QED  BY <2>1, TotalEmpty DEF Subtotal
  <1>2. ASSUME NEW T \in SUBSET (DOMAIN s), T # {}
        PROVE  g[T] = s[CHOOSE n \in T : TRUE].value + g[T \ {CHOOSE n \in T : TRUE}]
    <2> DEFINE n == CHOOSE m \in T : TRUE
    <2>1. n \in T  BY <1>2
    <2> HIDE DEF n
    <2>2. g[T] = Subtotal(s, T) /\ g[T \ {n}] = Subtotal(s, T \ {n})  OBVIOUS
    <2>3. g[T] = s[n].value + g[T \ {n}]  BY <2>1, <2>2, SubtotalStep
    <2> QED  BY <2>3 DEF n
  <1>3. g[{}] = 0  BY <1>1
  <1> QED  BY <1>2, <1>3 DEF Folds

(* Nothing else solves it: on a smallest set of positions where a solution *)
(* differed, the two would agree on the rest of the set.                   *)
LEMMA FoldsUnique ==
  ASSUME NEW s, IsFiniteSet(DOMAIN s), \A n \in DOMAIN s : s[n].value \in Nat,
         NEW g, Folds(g, s, DOMAIN s)
  PROVE  g[DOMAIN s] = Subtotal(s, DOMAIN s)
  <1> DEFINE D == DOMAIN s
             Bad == {T \in SUBSET D : g[T] # Subtotal(s, T)}
  <1>1. ASSUME Bad # {} PROVE FALSE
    <2>1. IsWellFoundedOn(StrictSubsetOrdering(D), FiniteSubsetsOf(D))
      BY FS_StrictSubsetOrderingWellFounded
    <2>2. FiniteSubsetsOf(D) = SUBSET D  BY FS_FiniteSubsetsOfFinite
    <2>3. Bad \subseteq FiniteSubsetsOf(D)  BY <2>2
    <2>4. PICK T \in Bad : \A U \in Bad : <<U, T>> \notin StrictSubsetOrdering(D)
      <3> HIDE DEF Bad
      <3> QED  BY <1>1, <2>1, <2>3, WFMin
    <2>5. CASE T = {}
      <3>1. g[{}] = 0  BY DEF Folds
      <3>2. [n \in {} |-> s[n].value] = [n \in {} |-> 0]  OBVIOUS
      <3>3. Subtotal(s, {}) = 0  BY <3>2, TotalEmpty DEF Subtotal
      <3> QED  BY <2>4, <2>5, <3>1, <3>3
    <2>6. CASE T # {}
      <3> DEFINE n == CHOOSE m \in T : TRUE
      <3>1. n \in T /\ T \in SUBSET D  BY <2>6
      <3>2. g[T] = s[n].value + g[T \ {n}]  BY <2>6, <3>1 DEF Folds
      <3> HIDE DEF n
      <3>3. <<T \ {n}, T>> \in StrictSubsetOrdering(D)
        BY <3>1 DEF StrictSubsetOrdering
      <3>4. g[T \ {n}] = Subtotal(s, T \ {n})  BY <2>4, <3>1, <3>3
      <3>5. g[T] = Subtotal(s, T)  BY <3>1, <3>2, <3>4, SubtotalStep
      <3> QED  BY <2>4, <3>5
    <2> QED  BY <2>5, <2>6
  <1> QED  BY <1>1

(* RainTotal is the total of the readings.                                 *)
LEMMA RainIsTotal ==
  ASSUME NEW s, IsFiniteSet(DOMAIN s), \A n \in DOMAIN s : s[n].value \in Nat
  PROVE  RainTotal(s) = Total(Rain(s)) /\ RainTotal(s) \in Nat
  <1> DEFINE h == CHOOSE g : Folds(g, s, DOMAIN s)
  <1>1. RainTotal(s) = h[DOMAIN s]
    BY DEF RainTotal, MapThenSumSet, MapThenFoldSet, Folds
  <1>2. Folds(h, s, DOMAIN s)  BY SubtotalFolds
  <1> HIDE DEF h
  <1>3. RainTotal(s) = Total(Rain(s))  BY <1>1, <1>2, FoldsUnique DEF Subtotal, Rain
  <1>4. Rain(s) \in [DOMAIN s -> Nat]  BY DEF Rain
  <1> QED  BY <1>3, <1>4, FiniteLedger

(* A series of readings: days, and values that are never negative.         *)
Reading == [day : Nat, value : Nat]

(* Appending a day adds its value to the rain total.                       *)
LEMMA RainAppend ==
  ASSUME NEW s \in Seq(Reading), NEW r \in Reading
  PROVE  /\ RainTotal(s) \in Nat
         /\ RainTotal(Append(s, r)) = RainTotal(s) + r.value
  <1> DEFINE t == Append(s, r)
             last == Len(s) + 1
             f == Rain(t)
             g == [n \in (DOMAIN t) \ {last} |-> f[n]]
  <1>1. /\ DOMAIN s = 1 .. Len(s) /\ Len(s) \in Nat
        /\ DOMAIN t = 1 .. last
        /\ t[last] = r
        /\ \A n \in 1 .. Len(s) : t[n] = s[n]
    OBVIOUS
  <1>2. IsFiniteSet(DOMAIN s) /\ IsFiniteSet(DOMAIN t)  BY <1>1, FS_Interval
  <1>3. /\ \A n \in DOMAIN s : s[n].value \in Nat
        /\ \A n \in DOMAIN t : t[n].value \in Nat
    <2>1. \A n \in DOMAIN s : s[n] \in Reading  BY <1>1
    <2>2. \A n \in DOMAIN t : n = last \/ n \in DOMAIN s  BY <1>1
    <2>3. \A n \in DOMAIN t : t[n] \in Reading  BY <1>1, <2>1, <2>2
    <2> HIDE DEF t
    <2> QED  BY <2>1, <2>3 DEF Reading
  <1>4. /\ RainTotal(s) = Total(Rain(s)) /\ RainTotal(s) \in Nat
        /\ RainTotal(t) = Total(f)
    <2> HIDE DEF t
    <2> QED  BY <1>2, <1>3, RainIsTotal
  <1>5. f \in [DOMAIN t -> Nat]  BY <1>3 DEF Rain
  <1>6. last \in DOMAIN t  BY <1>1
  <1>7. f[last] = r.value  BY <1>1, <1>6 DEF Rain
  <1>8. g = Rain(s)
    <2>1. (DOMAIN t) \ {last} = DOMAIN s  BY <1>1
    <2>2. \A n \in DOMAIN s : f[n] = s[n].value  BY <1>1 DEF Rain
    <2> HIDE DEF f, last, t
    <2> QED  BY <2>1, <2>2 DEF Rain
  <1> HIDE DEF f, t
  <1>9. Total(f) = Total(g) + f[last]
    <2>1. IsFiniteSet(Units(f))  BY <1>2, <1>5, FiniteLedger
    <2> HIDE DEF last
    <2> QED  BY <1>5, <1>6, <2>1, TotalWithout
  <1> QED  BY <1>4, <1>7, <1>8, <1>9 DEF t

-----------------------------------------------------------------------------
(***************************************************************************)
(* The longest dry run.                                                    *)
(***************************************************************************)

(* m is the length of the longest of the intervals, zero if there is none. *)
IsLongest(m, intervals) ==
  /\ m = 0 \/ \E p \in intervals : p[2] - p[1] + 1 = m
  /\ m >= 0
  /\ \A p \in intervals : p[2] - p[1] + 1 <= m

(* Longest is what its name says.                                          *)
LEMMA LongestIs ==
  ASSUME NEW m \in Nat, NEW intervals,
         \A p \in intervals : p[1] \in Int /\ p[2] \in Int,
         IsLongest(m, intervals)
  PROVE  Longest(intervals) = m
  <1> DEFINE S == {0} \cup {p[2] - p[1] + 1 : p \in intervals}
  <1>1. m \in S /\ \A y \in S : y \in Int /\ m >= y  BY DEF IsLongest
  <1> HIDE DEF S
  <1>2. Max(S) \in S /\ \A y \in S : Max(S) >= y  BY <1>1 DEF Max
  <1>3. Max(S) \in Int /\ Max(S) >= m /\ m >= Max(S) /\ m \in Int
    <2>1. m \in Int  OBVIOUS
    <2>2. Max(S) >= m  BY <1>1, <1>2
    <2> QED  BY <1>1, <1>2, <2>1, <2>2
  <1>4. Max(S) = m  BY <1>3
  <1> QED  BY <1>4 DEF Longest, S

(* The dry runs that end with the last day.                                *)
AtEnd(s, floor) == {p \in DryIntervals(s, floor) : p[2] = Len(s)}

(* What a day adds to the dry runs: nothing if it is wet, itself and every *)
(* run that ended the day before if it is dry.                             *)
LEMMA DryAppend ==
  ASSUME NEW s \in Seq(Reading), NEW r \in Reading, NEW floor \in Int
  PROVE  LET t == Append(s, r)
             last == Len(s) + 1
         IN  /\ DryIntervals(t, floor) = DryIntervals(s, floor) \cup AtEnd(t, floor)
             /\ r.value > floor => AtEnd(t, floor) = {}
             /\ r.value <= floor =>
                  AtEnd(t, floor) = {<<last, last>>} \cup
                                    {<<p[1], last>> : p \in AtEnd(s, floor)}
  <1> DEFINE t == Append(s, r)
             last == Len(s) + 1
  <1>1. /\ DOMAIN s = 1 .. Len(s) /\ Len(s) \in Nat
        /\ DOMAIN t = 1 .. last /\ Len(t) = last
        /\ t[last] = r /\ r.value \in Nat
        /\ \A n \in 1 .. Len(s) : t[n] = s[n]
        /\ \A n \in 1 .. Len(s) : s[n].value \in Nat
    <2>1. \A n \in 1 .. Len(s) : s[n] \in Reading  OBVIOUS
    <2>2. \A n \in 1 .. Len(s) : s[n].value \in Nat  BY <2>1 DEF Reading
    <2>3. r.value \in Nat  BY DEF Reading
    <2>4. /\ DOMAIN s = 1 .. Len(s) /\ Len(s) \in Nat
          /\ DOMAIN t = 1 .. last /\ Len(t) = last
          /\ t[last] = r
          /\ \A n \in 1 .. Len(s) : t[n] = s[n]
      OBVIOUS
    <2> QED  BY <2>2, <2>3, <2>4
  <1> HIDE DEF t
  <1>2. ASSUME NEW i, NEW j
        PROVE  <<i, j>> \in DryIntervals(s, floor) <=>
                 <<i, j>> \in DryIntervals(t, floor) /\ j # last
    <2>1. CASE i \in 1 .. Len(s) /\ j \in 1 .. Len(s)
      <3>1. \A n \in i .. j : t[n] = s[n]  BY <1>1, <2>1
      <3> QED  BY <1>1, <2>1, <3>1 DEF DryIntervals
    <2>2. CASE j \notin 1 .. Len(s) \/ i \notin 1 .. Len(s)
      BY <1>1, <2>2 DEF DryIntervals
    <2> QED  BY <2>1, <2>2
  <1>3. ASSUME NEW p PROVE p \in DryIntervals(s, floor) => p = <<p[1], p[2]>>
    BY DEF DryIntervals
  <1>4. ASSUME NEW p PROVE p \in DryIntervals(t, floor) => p = <<p[1], p[2]>>
    BY DEF DryIntervals
  <1>5. DryIntervals(t, floor) = DryIntervals(s, floor) \cup AtEnd(t, floor)
    <2>1. ASSUME NEW p \in DryIntervals(t, floor)
          PROVE  p \in DryIntervals(s, floor) \cup AtEnd(t, floor)
      BY <1>1, <1>2, <1>4, <2>1 DEF AtEnd
    <2>2. ASSUME NEW p \in DryIntervals(s, floor) PROVE p \in DryIntervals(t, floor)
      BY <1>2, <1>3, <2>2
    <2> QED  BY <2>1, <2>2 DEF AtEnd
  <1>6. ASSUME r.value > floor PROVE AtEnd(t, floor) = {}
    <2> SUFFICES ASSUME NEW p \in AtEnd(t, floor) PROVE FALSE  OBVIOUS
    <2>1. /\ p[1] \in 1 .. last /\ p[2] = last /\ p[1] <= p[2]
          /\ \A n \in p[1] .. p[2] : t[n].value <= floor
      BY <1>1 DEF AtEnd, DryIntervals
    <2>2. r.value <= floor  BY <1>1, <2>1
    <2> QED  BY <1>1, <1>6, <2>2
  <1>7. ASSUME r.value <= floor
        PROVE  AtEnd(t, floor) = {<<last, last>>} \cup
                                 {<<p[1], last>> : p \in AtEnd(s, floor)}
    <2>1. ASSUME NEW i
          PROVE  <<i, last>> \in AtEnd(t, floor) <=>
                   i = last \/ <<i, Len(s)>> \in AtEnd(s, floor)
      <3>1. CASE i = last  BY <1>1, <1>7, <3>1 DEF AtEnd, DryIntervals
      <3>2. CASE i # last /\ i \in 1 .. Len(s)
        <4>1. (\A n \in i .. last : t[n].value <= floor) <=>
              (\A n \in i .. Len(s) : s[n].value <= floor)
          BY <1>1, <1>7, <3>2
        <4> QED  BY <1>1, <3>2, <4>1 DEF AtEnd, DryIntervals
      <3>3. CASE i \notin 1 .. last  BY <1>1, <3>3 DEF AtEnd, DryIntervals
      <3> QED  BY <1>1, <3>1, <3>2, <3>3
    <2>2. ASSUME NEW p \in AtEnd(t, floor) PROVE p = <<p[1], last>>
      BY <1>1, <1>4 DEF AtEnd
    <2>3. ASSUME NEW p \in AtEnd(s, floor) PROVE p = <<p[1], Len(s)>>
      BY <1>3 DEF AtEnd
    <2> QED  BY <2>1, <2>2, <2>3
  <1> QED  BY <1>5, <1>6, <1>7 DEF t

(* The longest of two sets of intervals is the longer of their longest.    *)
LEMMA LongestUnion ==
  ASSUME NEW A, NEW B, NEW m \in Nat, NEW k \in Nat, IsLongest(m, A), IsLongest(k, B),
         \A p \in A \cup B : p[1] \in Int /\ p[2] \in Int
  PROVE  IsLongest(Greatest(k, m), A \cup B)
  <1> DEFINE g == Greatest(k, m)
  <1>1. g \in Nat /\ g >= m /\ g >= k /\ (g = m \/ g = k)  BY DEF Greatest
  <1> HIDE DEF g
  <1>2. ASSUME NEW p \in A \cup B PROVE p[2] - p[1] + 1 <= g
    <2>1. p[2] - p[1] + 1 \in Int  OBVIOUS
    <2>2. p[2] - p[1] + 1 <= m \/ p[2] - p[1] + 1 <= k  BY DEF IsLongest
    <2> QED  BY <1>1, <2>1, <2>2
  <1>3. g = 0 \/ \E p \in A \cup B : p[2] - p[1] + 1 = g
    BY <1>1 DEF IsLongest
  <1> QED  BY <1>1, <1>2, <1>3 DEF IsLongest, g

(* The positions of a dry run are days of the series.                      *)
LEMMA DryType ==
  ASSUME NEW s \in Seq(Reading), NEW floor, NEW p \in DryIntervals(s, floor)
  PROVE  p = <<p[1], p[2]>> /\ p[1] \in Int /\ p[2] \in Int /\ p[1] <= p[2]
  <1>1. DOMAIN s = 1 .. Len(s) /\ Len(s) \in Nat  OBVIOUS
  <1> QED  BY <1>1 DEF DryIntervals

(* The run at the end of the series: one longer after a dry day, none      *)
(* after a wet one.                                                        *)
LEMMA RunAppend ==
  ASSUME NEW s \in Seq(Reading), NEW r \in Reading, NEW floor \in Int,
         NEW run \in Nat, IsLongest(run, AtEnd(s, floor))
  PROVE  IsLongest(IF r.value <= floor THEN run + 1 ELSE 0, AtEnd(Append(s, r), floor))
  <1> DEFINE last == Len(s) + 1
             E == AtEnd(s, floor)
             F == AtEnd(Append(s, r), floor)
  <1>1. Len(s) \in Nat /\ r.value \in Int  BY DEF Reading
  <1>2. CASE r.value > floor
    <2>1. F = {} /\ ~(r.value <= floor)  BY <1>1, <1>2, DryAppend
    <2> QED  BY <2>1 DEF IsLongest
  <1>3. CASE r.value <= floor
    <2>1. F = {<<last, last>>} \cup {<<p[1], last>> : p \in E}  BY <1>3, DryAppend
    <2>2. ASSUME NEW p \in E PROVE p[2] = Len(s) /\ p[1] \in Int  BY DryType DEF AtEnd
    <2> HIDE DEF F, E
    <2>3. ASSUME NEW p \in F PROVE p[2] - p[1] + 1 <= run + 1
      <3>1. CASE p = <<last, last>>  BY <1>1, <3>1
      <3>2. CASE p # <<last, last>>
        <4>1. PICK q \in E : p = <<q[1], last>>  BY <2>1, <3>2
        <4>2. q[2] - q[1] + 1 <= run  BY DEF IsLongest, E
        <4> QED  BY <1>1, <2>2, <4>1, <4>2
      <3> QED  BY <3>1, <3>2
    <2>4. \E p \in F : p[2] - p[1] + 1 = run + 1
      <3>1. CASE run = 0
        <4>1. <<last, last>> \in F  BY <2>1
        <4> QED  BY <1>1, <3>1, <4>1
      <3>2. CASE run # 0
        <4>1. PICK q \in E : q[2] - q[1] + 1 = run  BY <3>2 DEF IsLongest, E
        <4>2. <<q[1], last>> \in F  BY <2>1
        <4>3. last - q[1] + 1 = run + 1  BY <1>1, <2>2, <4>1
        <4> HIDE DEF last
        <4> QED  BY <4>2, <4>3
      <3> QED  BY <3>1, <3>2
    <2> QED  BY <1>3, <2>3, <2>4 DEF IsLongest, F
  <1> QED  BY <1>1, <1>2, <1>3

-----------------------------------------------------------------------------
(***************************************************************************)
(* The severity curves.                                                    *)
(***************************************************************************)

(* The ramp is the rounded-down share of the span, within the scale.       *)
LEMMA RampBounds ==
  ASSUME NEW done \in Nat, NEW span \in Nat \ {0}, done <= span
  PROVE  /\ ramp(done, span) \in 0 .. BPS_DENOMINATOR
         /\ Floor(ramp(done, span), done * BPS_DENOMINATOR, span)
  <1> DEFINE B == BPS_DENOMINATOR
             n == done * B
             q == n \div span
  <1>1. B \in Nat \ {0}  BY BpsAssumption
  <1>2. n \in Nat /\ span * B \in Nat  BY <1>1, ProductNat
  <1>3. n <= span * B  BY <1>1, ProductMonotone
  <1> HIDE DEF n, B
  <1>4. q \in Nat /\ span * q <= n /\ n < span * q + span  BY <1>2, DivBounds
  <1>5. q <= B
    <2>1. span * q <= span * B  BY <1>1, <1>2, <1>3, <1>4
    <2> QED  BY <1>1, <1>4, <2>1, Cancel
  <1>6. q * span = span * q /\ (q + 1) * span = span * q + span
    <2> HIDE DEF q
    <2> QED  BY <1>4, SMT
  <1>7. Floor(q, n, span)  BY <1>4, <1>6 DEF Floor
  <1> QED  BY <1>1, <1>4, <1>5, <1>7 DEF ramp, n, B

(* Further along the way to exhaustion is no less severe.                  *)
LEMMA RampMonotone ==
  ASSUME NEW done \in Nat, NEW further \in Nat, done <= further, NEW span \in Nat \ {0}
  PROVE  ramp(done, span) <= ramp(further, span)
  <1>1. BPS_DENOMINATOR \in Nat  BY BpsAssumption
  <1>2. /\ done * BPS_DENOMINATOR \in Nat
        /\ further * BPS_DENOMINATOR \in Nat
        /\ done * BPS_DENOMINATOR <= further * BPS_DENOMINATOR
    BY <1>1, ProductNat, ProductMonotone
  <1> QED  BY <1>2, DivMonotone DEF ramp

(* The rain ratio of a valid definition: the greatest whose share of the   *)
(* baseline the rain reaches, and less rain gives no greater ratio.        *)
LEMMA RatioBounds ==
  ASSUME NEW params \in IndexParams, validate_params(params),
         params.kind = "RainfallShortfall",
         NEW a \in WindowAccumulator
  PROVE  /\ params.baseline \in Nat \ {0}
         /\ rainfall_ratio(params, a) \in Nat
         /\ Floor(rainfall_ratio(params, a), a.rain_sum * BPS_DENOMINATOR, params.baseline)
         /\ \A b \in WindowAccumulator :
              b.rain_sum <= a.rain_sum => rainfall_ratio(params, b) <= rainfall_ratio(params, a)
  <1> DEFINE d == params.baseline
             n == a.rain_sum * BPS_DENOMINATOR
             q == n \div d
  <1>1. d \in Nat \ {0}  BY DEF IndexParams, validate_params
  <1>2. BPS_DENOMINATOR \in Nat  BY BpsAssumption
  <1>3. n \in Nat  BY <1>2, ProductNat DEF WindowAccumulator
  <1> HIDE DEF n, d
  <1>4. q \in Nat /\ d * q <= n /\ n < d * q + d  BY <1>1, <1>3, DivBounds
  <1>5. q * d = d * q /\ (q + 1) * d = d * q + d
    <2> HIDE DEF q
    <2> QED  BY <1>1, <1>4, SMT
  <1>6. Floor(q, n, d)  BY <1>4, <1>5 DEF Floor
  <1>7. ASSUME NEW b \in WindowAccumulator, b.rain_sum <= a.rain_sum
        PROVE  rainfall_ratio(params, b) <= rainfall_ratio(params, a)
    <2>1. b.rain_sum \in Nat /\ a.rain_sum \in Nat  BY DEF WindowAccumulator
    <2>2. b.rain_sum * BPS_DENOMINATOR \in Nat  BY <1>2, <2>1, ProductNat
    <2>3. b.rain_sum * BPS_DENOMINATOR <= n  BY <1>2, <1>7, <2>1, ProductMonotone DEF n
    <2> QED  BY <1>1, <1>3, <2>2, <2>3, DivMonotone DEF rainfall_ratio, n, d
  <1>8. q = rainfall_ratio(params, a)  BY DEF rainfall_ratio, n, d
  <1> QED  BY <1>1, <1>4, <1>6, <1>7, <1>8 DEF n, d

(* A valid definition gives every accumulator a severity on the scale, and *)
(* a triggered one the severity the reference definition asks for.         *)
LEMMA SeverityBounds ==
  ASSUME NEW params \in IndexParams, validate_params(params), NEW a \in WindowAccumulator
  PROVE  /\ severity_of(params, a) \in 0 .. BPS_DENOMINATOR
         /\ triggered(params, a) =>
              SeverityFits(params, a.rain_sum, a.max_run, severity_of(params, a))
  <1>1. BPS_DENOMINATOR \in Nat \ {0}  BY BpsAssumption
  <1>2. CASE params.kind = "RainfallShortfall"
    <2> DEFINE r == rainfall_ratio(params, a)
               t == params.trigger_ratio_bps
               e == params.exhaustion_ratio_bps
    <2>1. r \in Nat /\ Floor(r, a.rain_sum * BPS_DENOMINATOR, params.baseline)
      BY <1>2, RatioBounds
    <2>2. t \in Nat /\ e \in Nat /\ e < t
      BY <1>2 DEF IndexParams, validate_params
    <2>3. severity_of(params, a) = rainfall_severity(params, a)
      BY <1>2 DEF severity_of
    <2> HIDE DEF r, t, e
    <2>4. CASE r >= t
      <3>1. rainfall_severity(params, a) = 0
        BY <2>1, <2>2, <2>4 DEF rainfall_severity, r, t, e
      <3>2. ~triggered(params, a)
        BY <1>2, <2>1, <2>2, <2>4 DEF triggered, rainfall_triggered, r, t
      <3> QED  BY <1>1, <2>3, <3>1, <3>2
    <2>5. CASE r <= e
      <3>1. rainfall_severity(params, a) = BPS_DENOMINATOR
        BY <2>1, <2>2, <2>5 DEF rainfall_severity, r, t, e
      <3>2. OnRamp(BPS_DENOMINATOR, t - r, t - e)
        BY <2>1, <2>2, <2>5 DEF OnRamp
      <3>3. r \in 0 .. t - 1  BY <2>1, <2>2, <2>5
      <3>4. SeverityFits(params, a.rain_sum, a.max_run, BPS_DENOMINATOR)
        BY <1>2, <2>1, <3>2, <3>3 DEF SeverityFits, t, e
      <3> QED  BY <1>1, <2>3, <3>1, <3>4
    <2>6. CASE r < t /\ r > e
      <3>1. rainfall_severity(params, a) = ramp(t - r, t - e)
        BY <2>1, <2>2, <2>6 DEF rainfall_severity, r, t, e
      <3>2. t - r \in Nat /\ t - e \in Nat \ {0} /\ t - r <= t - e /\ ~(t - r >= t - e)
        BY <2>1, <2>2, <2>6
      <3>3. /\ ramp(t - r, t - e) \in 0 .. BPS_DENOMINATOR
            /\ Floor(ramp(t - r, t - e), (t - r) * BPS_DENOMINATOR, t - e)
        BY <3>2, RampBounds
      <3>4. OnRamp(ramp(t - r, t - e), t - r, t - e)  BY <3>2, <3>3 DEF OnRamp
      <3>5. r \in 0 .. t - 1  BY <2>1, <2>2, <2>6
      <3>6. SeverityFits(params, a.rain_sum, a.max_run, ramp(t - r, t - e))
        BY <1>2, <2>1, <3>4, <3>5 DEF SeverityFits, t, e
      <3> QED  BY <2>3, <3>1, <3>3, <3>6
    <2> QED  BY <2>1, <2>2, <2>4, <2>5, <2>6
  <1>3. CASE params.kind # "RainfallShortfall"
    <2> DEFINE m == a.max_run
               t == params.trigger_days
               e == params.exhaustion_days
    <2>0. params.kind = "ConsecutiveDryDays"  BY <1>3 DEF IndexParams, Kinds
    <2>1. m \in Nat  BY DEF WindowAccumulator
    <2>2. t \in Nat /\ e \in Nat /\ t < e
      BY <2>0 DEF IndexParams, validate_params
    <2>3. severity_of(params, a) = dry_days_severity(params, a)
      BY <1>3 DEF severity_of
    <2> HIDE DEF m, t, e
    <2>4. CASE m < t
      <3>1. dry_days_severity(params, a) = 0
        BY <2>1, <2>2, <2>4 DEF dry_days_severity, m, t, e
      <3>2. ~triggered(params, a)
        BY <1>3, <2>1, <2>2, <2>4 DEF triggered, dry_days_triggered, m, t
      <3> QED  BY <1>1, <2>3, <3>1, <3>2
    <2>5. CASE m >= e
      <3>1. dry_days_severity(params, a) = BPS_DENOMINATOR
        BY <2>1, <2>2, <2>5 DEF dry_days_severity, m, t, e
      <3>2. OnRamp(BPS_DENOMINATOR, m - t, e - t)
        BY <2>1, <2>2, <2>5 DEF OnRamp
      <3>3. m >= t  BY <2>1, <2>2, <2>5
      <3>4. SeverityFits(params, a.rain_sum, m, BPS_DENOMINATOR)
        BY <1>3, <3>2, <3>3 DEF SeverityFits, t, e
      <3> QED  BY <1>1, <2>3, <3>1, <3>4 DEF m
    <2>6. CASE m >= t /\ m < e
      <3>1. dry_days_severity(params, a) = ramp(m - t, e - t)
        BY <2>1, <2>2, <2>6 DEF dry_days_severity, m, t, e
      <3>2. m - t \in Nat /\ e - t \in Nat \ {0} /\ m - t <= e - t /\ ~(m - t >= e - t)
        BY <2>1, <2>2, <2>6
      <3>3. /\ ramp(m - t, e - t) \in 0 .. BPS_DENOMINATOR
            /\ Floor(ramp(m - t, e - t), (m - t) * BPS_DENOMINATOR, e - t)
        BY <3>2, RampBounds
      <3>4. OnRamp(ramp(m - t, e - t), m - t, e - t)  BY <3>2, <3>3 DEF OnRamp
      <3>5. SeverityFits(params, a.rain_sum, m, ramp(m - t, e - t))
        BY <1>3, <2>6, <3>4 DEF SeverityFits, t, e
      <3> QED  BY <2>3, <3>1, <3>3, <3>5 DEF m
    <2> QED  BY <2>1, <2>2, <2>4, <2>5, <2>6
  <1> QED  BY <1>2, <1>3

(* Less rain and a longer dry run never make a window less severe.         *)
LEMMA SeverityMonotone ==
  ASSUME NEW params \in IndexParams, validate_params(params),
         NEW a \in WindowAccumulator, NEW b \in WindowAccumulator,
         b.rain_sum <= a.rain_sum, a.max_run <= b.max_run
  PROVE  severity_of(params, a) <= severity_of(params, b)
  <1>1. BPS_DENOMINATOR \in Nat \ {0}  BY BpsAssumption
  <1>2. severity_of(params, a) \in 0 .. BPS_DENOMINATOR
        /\ severity_of(params, b) \in 0 .. BPS_DENOMINATOR
    BY SeverityBounds
  <1>3. CASE params.kind = "RainfallShortfall"
    <2> DEFINE r == rainfall_ratio(params, a)
               w == rainfall_ratio(params, b)
               t == params.trigger_ratio_bps
               e == params.exhaustion_ratio_bps
    <2>1. r \in Nat /\ w \in Nat /\ w <= r  BY <1>3, RatioBounds
    <2>2. t \in Nat /\ e \in Nat /\ e < t
      BY <1>3 DEF IndexParams, validate_params
    <2>3. /\ severity_of(params, a) = rainfall_severity(params, a)
          /\ severity_of(params, b) = rainfall_severity(params, b)
      BY <1>3 DEF severity_of
    <2> HIDE DEF r, t, e, w
    <2>4. CASE r >= t
      <3>1. rainfall_severity(params, a) = 0
        BY <2>1, <2>2, <2>4 DEF rainfall_severity, r, t, e
      <3> QED  BY <1>1, <1>2, <2>3, <3>1
    <2>5. CASE w <= e
      <3>1. rainfall_severity(params, b) = BPS_DENOMINATOR
        BY <2>1, <2>2, <2>5 DEF rainfall_severity, w, t, e
      <3> QED  BY <1>1, <1>2, <2>3, <3>1
    <2>6. CASE r < t /\ w > e
      <3>1. /\ rainfall_severity(params, a) = ramp(t - r, t - e)
            /\ rainfall_severity(params, b) = ramp(t - w, t - e)
        BY <2>1, <2>2, <2>6 DEF rainfall_severity, r, w, t, e
      <3>2. /\ t - r \in Nat /\ t - w \in Nat /\ t - r <= t - w
            /\ t - e \in Nat \ {0}
        BY <2>1, <2>2, <2>6
      <3> QED  BY <2>3, <3>1, <3>2, RampMonotone
    <2> QED  BY <2>1, <2>2, <2>4, <2>5, <2>6
  <1>4. CASE params.kind # "RainfallShortfall"
    <2> DEFINE m == a.max_run
               w == b.max_run
               t == params.trigger_days
               e == params.exhaustion_days
    <2>0. params.kind = "ConsecutiveDryDays"  BY <1>4 DEF IndexParams, Kinds
    <2>1. m \in Nat /\ w \in Nat /\ m <= w  BY DEF WindowAccumulator
    <2>2. t \in Nat /\ e \in Nat /\ t < e
      BY <2>0 DEF IndexParams, validate_params
    <2>3. /\ severity_of(params, a) = dry_days_severity(params, a)
          /\ severity_of(params, b) = dry_days_severity(params, b)
      BY <1>4 DEF severity_of
    <2> HIDE DEF m, t, e, w
    <2>4. CASE m < t
      <3>1. dry_days_severity(params, a) = 0
        BY <2>1, <2>2, <2>4 DEF dry_days_severity, m, t, e
      <3> QED  BY <1>1, <1>2, <2>3, <3>1
    <2>5. CASE w >= e
      <3>1. dry_days_severity(params, b) = BPS_DENOMINATOR
        BY <2>1, <2>2, <2>5 DEF dry_days_severity, w, t, e
      <3> QED  BY <1>1, <1>2, <2>3, <3>1
    <2>6. CASE m >= t /\ w < e
      <3>1. /\ dry_days_severity(params, a) = ramp(m - t, e - t)
            /\ dry_days_severity(params, b) = ramp(w - t, e - t)
        BY <2>1, <2>2, <2>6 DEF dry_days_severity, m, w, t, e
      <3>2. /\ m - t \in Nat /\ w - t \in Nat /\ m - t <= w - t
            /\ e - t \in Nat \ {0}
        BY <2>1, <2>2, <2>6
      <3> QED  BY <2>3, <3>1, <3>2, RampMonotone
    <2> QED  BY <2>1, <2>2, <2>4, <2>5, <2>6
  <1> QED  BY <1>3, <1>4

-----------------------------------------------------------------------------
(***************************************************************************)
(* The inductive invariant.  The accumulator is related to the log day by  *)
(* day, so that an empty log needs no case of its own; a window that left  *)
(* Healthy keeps what its trigger rests on.                                *)
(***************************************************************************)

Floor_of(key) == index_def[key[1]].dry_floor

(* What the window's accumulator and cursor say of its log.                *)
Recorded(key) ==
  LET s == series[key]
  IN  /\ s \in Seq(Reading)
      /\ acc[key].days_recorded = Len(s)
      /\ acc[key].rain_sum = RainTotal(s)
      /\ IsLongest(acc[key].max_run, DryIntervals(s, Floor_of(key)))
      /\ IsLongest(acc[key].current_run, AtEnd(s, Floor_of(key)))
      /\ s = <<>> => cursor[key] = NoDay
      /\ s # <<>> =>
           /\ key[1] \in DOMAIN index_def
           /\ Len(s) <= index_def[key[1]].window_len
           /\ cursor[key] = s[Len(s)].day

(* A window that left Healthy is complete and breached, and the challenge  *)
(* window of its trigger starts no earlier than its last day.              *)
Decided(key) ==
  LET params == index_def[key[1]]
  IN  state[key].status # "Healthy" =>
        /\ key[1] \in DOMAIN index_def
        /\ acc[key].days_recorded = params.window_len
        /\ triggered(params, acc[key])
        /\ state[key].status = "Triggered" => state[key].at >= folded_at[key]
        /\ state[key].status = "Finalized" =>
             /\ state[key].at >= folded_at[key] + CHALLENGE_WINDOW_SECS
             /\ state[key].severity = severity_of(params, acc[key])

IInv ==
  /\ TypeOK
  /\ DOMAIN series = Keys
  /\ \A key \in Keys : folded_at[key] <= now /\ Recorded(key) /\ Decided(key)

(* An empty log has no rain and no dry run, whatever the floor.            *)
LEMMA EmptyLog ==
  ASSUME NEW floor
  PROVE  /\ RainTotal(<<>>) = 0
         /\ DryIntervals(<<>>, floor) = {}
         /\ AtEnd(<<>>, floor) = {}
  <1>1. DOMAIN <<>> = {}  OBVIOUS
  <1>2. IsFiniteSet(DOMAIN <<>>)  BY <1>1, FS_EmptySet
  <1>3. RainTotal(<<>>) = Total(Rain(<<>>))  BY <1>1, <1>2, RainIsTotal
  <1>4. Rain(<<>>) = [n \in {} |-> 0]  BY <1>1 DEF Rain
  <1>5. Total(Rain(<<>>)) = 0
    <2>1. Total([n \in {} |-> 0]) = 0  BY TotalEmpty
    <2> QED  BY <1>4, <2>1
  <1>6. DryIntervals(<<>>, floor) = {}  BY <1>1 DEF DryIntervals
  <1> QED  BY <1>3, <1>5, <1>6 DEF AtEnd

(* The contract starts in the invariant.                                   *)
LEMMA InitIInv == Init => IInv
  <1> SUFFICES ASSUME Init PROVE IInv  OBVIOUS
  <1>1. TypeOK
    <2>1. /\ [days_recorded |-> 0, rain_sum |-> 0, current_run |-> 0, max_run |-> 0]
               \in WindowAccumulator
          /\ Healthy \in TriggerStatus
      BY DEF WindowAccumulator, TriggerStatus, Healthy
    <2>2. /\ acc \in [Keys -> WindowAccumulator]
          /\ state \in [Keys -> TriggerStatus]
          /\ cursor \in [Keys -> Days \cup {NoDay}]
          /\ folded_at \in [Keys -> 0 .. MaxTime]
      BY <2>1, ClockAssumption, MaxTimeAssumption DEF Init
    <2>3. DOMAIN index_def = {} /\ index_count = 0  BY DEF Init, Empty
    <2>4. DOMAIN index_def = 0 .. index_count - 1  BY <2>3
    <2>5. index_count \in 0 .. MaxIndexes /\ now \in 0 .. MaxTime
      BY ClockAssumption, MaxTimeAssumption DEF Init
    <2>6. oracle_set \in BOOLEAN  BY Zenon DEF Init
    <2> QED  BY <2>2, <2>3, <2>4, <2>5, <2>6 DEF TypeOK
  <1>2. ASSUME NEW key \in Keys PROVE Recorded(key)
    <2>1. /\ series[key] = <<>> /\ cursor[key] = NoDay
          /\ acc[key].days_recorded = 0 /\ acc[key].rain_sum = 0
          /\ acc[key].current_run = 0 /\ acc[key].max_run = 0
      BY DEF Init
    <2>2. IsLongest(0, {})  BY DEF IsLongest
    <2>3. <<>> \in Seq(Reading) /\ Len(<<>>) = 0  OBVIOUS
    <2>4. /\ RainTotal(<<>>) = 0
          /\ DryIntervals(<<>>, Floor_of(key)) = {}
          /\ AtEnd(<<>>, Floor_of(key)) = {}
      BY EmptyLog
    <2> QED  BY <2>1, <2>2, <2>3, <2>4 DEF Recorded
  <1>3. ASSUME NEW key \in Keys PROVE folded_at[key] <= now /\ Decided(key)
    BY DEF Init, Decided, Healthy
  <1>4. DOMAIN series = Keys  BY DEF Init
  <1> QED  BY <1>1, <1>2, <1>3, <1>4 DEF IInv

(* A stored definition is valid and keeps its type.                        *)
LEMMA StoredDefinition ==
  ASSUME TypeOK, NEW i \in DOMAIN index_def
  PROVE  index_def[i] \in IndexParams /\ validate_params(index_def[i])
  BY ParamsAssumption DEF TypeOK

(* Time only moves the clock.                                              *)
LEMMA TickIInv == IInv /\ Tick => IInv'
  <1> SUFFICES ASSUME IInv, Tick PROVE IInv'  OBVIOUS
  <1>1. /\ now' = now + 1 /\ now \in 0 .. MaxTime /\ now' \in 0 .. MaxTime
        /\ folded_at \in [Keys -> 0 .. MaxTime]
    BY ClockAssumption, MaxTimeAssumption DEF Tick, later, IInv, TypeOK
  <1>2. TypeOK'  BY <1>1 DEF IInv, TypeOK, Tick, window
  <1>3. ASSUME NEW key \in Keys PROVE folded_at'[key] <= now'
    <2>1. folded_at[key] <= now /\ folded_at[key] \in Int  BY <1>1 DEF IInv
    <2> QED  BY <1>1, <2>1 DEF Tick, window
  <1>4. ASSUME NEW key \in Keys PROVE Recorded(key)' /\ Decided(key)'
    BY DEF IInv, Tick, window, Recorded, Decided, Floor_of
  <1>5. (DOMAIN series = Keys)'  BY DEF IInv, Tick, window
  <1> QED  BY <1>2, <1>3, <1>4, <1>5 DEF IInv

(* set_oracle touches no window.                                           *)
LEMMA SetOracleIInv == IInv /\ set_oracle => IInv'
  <1> SUFFICES ASSUME IInv, set_oracle PROVE IInv'  OBVIOUS
  <1>1. TypeOK'  BY DEF IInv, TypeOK, set_oracle, window
  <1>2. ASSUME NEW key \in Keys
        PROVE  (folded_at[key] <= now)' /\ Recorded(key)' /\ Decided(key)'
    BY DEF IInv, set_oracle, window, Recorded, Decided, Floor_of
  <1>3. (DOMAIN series = Keys)'  BY DEF IInv, set_oracle, window
  <1> QED  BY <1>1, <1>2, <1>3 DEF IInv

(* A new definition is valid, and only windows without a day refer to it.  *)
LEMMA CreateIInv ==
  ASSUME IInv, NEW params \in Params, create_index(params)
  PROVE  IInv'
  <1>1. /\ index_count \in 0 .. MaxIndexes /\ DOMAIN index_def = 0 .. index_count - 1
        /\ index_count < MaxIndexes /\ index_count' = index_count + 1
    BY DEF IInv, TypeOK, create_index
  <1>2. /\ DOMAIN index_def' = DOMAIN index_def \cup {index_count}
        /\ index_def'[index_count] = params
        /\ \A i \in DOMAIN index_def : index_def'[i] = index_def[i]
    BY <1>1 DEF create_index, Put
  <1>3. UNCHANGED <<oracle_set, acc, cursor, series, folded_at, state, now>>
    BY DEF create_index, window
  <1>4. TypeOK'
    <2>1. index_count' \in 0 .. MaxIndexes /\ DOMAIN index_def' = 0 .. index_count' - 1
      BY <1>1, <1>2, ClockAssumption, MaxTimeAssumption
    <2>2. \A i \in DOMAIN index_def' : index_def'[i] \in Params /\ validate_params(index_def'[i])
      BY <1>2 DEF IInv, TypeOK, create_index
    <2> QED  BY <1>3, <2>1, <2>2 DEF IInv, TypeOK
  <1>5. ASSUME NEW key \in Keys PROVE Recorded(key)'
    <2>1. Recorded(key)  BY DEF IInv
    <2>2. CASE series[key] = <<>>
      <3>1. /\ AtEnd(series[key], Floor_of(key)) = AtEnd(series[key], Floor_of(key)')
            /\ DryIntervals(series[key], Floor_of(key)) = DryIntervals(series[key], Floor_of(key)')
        BY <2>2, EmptyLog
      <3> QED  BY <1>3, <2>1, <2>2, <3>1 DEF Recorded
    <2>3. CASE series[key] # <<>>
      <3>1. key[1] \in DOMAIN index_def /\ key[1] \in DOMAIN index_def'
            /\ index_def'[key[1]] = index_def[key[1]]
        BY <1>2, <2>1, <2>3 DEF Recorded
      <3> QED  BY <1>3, <2>1, <2>3, <3>1 DEF Recorded, Floor_of
    <2> QED  BY <2>2, <2>3
  <1>6. ASSUME NEW key \in Keys PROVE (folded_at[key] <= now)' /\ Decided(key)'
    BY <1>2, <1>3 DEF IInv, Decided
  <1>7. (DOMAIN series = Keys)'  BY <1>3 DEF IInv
  <1> QED  BY <1>4, <1>5, <1>6, <1>7 DEF IInv

(* A day folded into the accumulator is what it adds to the log: its value *)
(* to the rain total, itself to the dry runs.  The window has room, so it  *)
(* was not decided.                                                        *)
LEMMA FoldIInv ==
  ASSUME IInv, NEW key \in Keys, NEW day \in Days, NEW value \in Int,
         Has(index_def, key[1]), fold_day(key, day, value)
  PROVE  IInv'
  <1> DEFINE params == index_def[key[1]]
             floor == Floor_of(key)
             s == series[key]
             r == [day |-> day, value |-> value]
             t == Append(s, r)
             a == acc[key]
             b == folded(a, value, floor)
             run == run_after(a.current_run, value, floor)
  <1>1. /\ params \in IndexParams /\ floor \in Int /\ key[1] \in DOMAIN index_def
    BY StoredDefinition DEF IInv, Has, Floor_of, IndexParams
  <1>2. /\ acc \in [Keys -> WindowAccumulator] /\ cursor \in [Keys -> Days \cup {NoDay}]
        /\ folded_at \in [Keys -> 0 .. MaxTime] /\ state \in [Keys -> TriggerStatus]
        /\ DOMAIN series = Keys
    BY DEF IInv, TypeOK
  <1>3. /\ day \in Nat /\ value \in Nat /\ r \in Reading
    BY InputAssumption DEF fold_day, foldable, Reading
  <1>4. a \in WindowAccumulator  BY <1>2
  <1>5. /\ a.days_recorded \in Nat /\ a.rain_sum \in Nat
        /\ a.current_run \in Nat /\ a.max_run \in Nat
    BY <1>4 DEF WindowAccumulator
  <1>6. Recorded(key) /\ Decided(key)  BY DEF IInv
  <1>7. /\ s \in Seq(Reading) /\ a.days_recorded = Len(s) /\ a.rain_sum = RainTotal(s)
        /\ IsLongest(a.max_run, DryIntervals(s, floor))
        /\ IsLongest(a.current_run, AtEnd(s, floor))
    BY <1>6 DEF Recorded
  <1>8. run = (IF r.value <= floor THEN a.current_run + 1 ELSE 0) /\ run \in Nat
    BY <1>1, <1>3, <1>5 DEF run_after, Reading
  <1>9. /\ b.days_recorded = a.days_recorded + 1
        /\ b.rain_sum = a.rain_sum + value
        /\ b.current_run = run
        /\ b.max_run = Greatest(run, a.max_run)
        /\ b \in WindowAccumulator
    <2> HIDE DEF run
    <2>1. Greatest(run, a.max_run) \in Nat  BY <1>5, <1>8 DEF Greatest
    <2>2. folded(a, value, floor) =
            [days_recorded |-> a.days_recorded + 1, rain_sum |-> a.rain_sum + value,
             current_run |-> run, max_run |-> Greatest(run, a.max_run)]
      BY DEF folded, run
    <2>3. a.days_recorded + 1 \in Nat /\ a.rain_sum + value \in Nat  BY <1>3, <1>5
    <2> HIDE DEF a, floor
    <2> QED  BY <1>8, <2>1, <2>2, <2>3 DEF WindowAccumulator
  <1>10. /\ acc' = [acc EXCEPT ![key] = b]
         /\ cursor' = [cursor EXCEPT ![key] = day]
         /\ series' = [series EXCEPT ![key] = t]
         /\ folded_at' = [folded_at EXCEPT ![key] = now]
         /\ UNCHANGED <<index_count, index_def, oracle_set, state, now>>
    BY DEF fold_day, Floor_of
  <1>11. state[key].status = "Healthy" /\ a.days_recorded < params.window_len
    <2>1. a.days_recorded < params.window_len  BY DEF fold_day, room
    <2>2. params.window_len \in Nat  BY <1>1 DEF IndexParams
    <2> QED  BY <1>5, <1>6, <2>1, <2>2 DEF Decided
  <1> HIDE DEF b, t, run
  <1>12. TypeOK'
    <2>1. now \in 0 .. MaxTime  BY DEF IInv, TypeOK
    <2>2. /\ acc' \in [Keys -> WindowAccumulator]
          /\ cursor' \in [Keys -> Days \cup {NoDay}]
          /\ folded_at' \in [Keys -> 0 .. MaxTime]
      BY <1>2, <1>9, <1>10, <2>1
    <2> QED  BY <1>10, <2>2 DEF IInv, TypeOK
  <1>13. /\ t \in Seq(Reading) /\ Len(t) = Len(s) + 1 /\ t # <<>> /\ t[Len(t)] = r
         /\ Len(s) \in Nat
    BY <1>3, <1>7 DEF t
  <1>14. Recorded(key)'
    <2>1. RainTotal(t) = RainTotal(s) + r.value  BY <1>3, <1>7, RainAppend DEF t
    <2>2. IsLongest(run, AtEnd(t, floor))
      BY <1>1, <1>3, <1>5, <1>7, <1>8, RunAppend DEF t
    <2>3. IsLongest(b.max_run, DryIntervals(t, floor))
      <3>1. DryIntervals(t, floor) = DryIntervals(s, floor) \cup AtEnd(t, floor)
        BY <1>1, <1>3, <1>7, DryAppend DEF t
      <3>2. \A p \in DryIntervals(t, floor) : p[1] \in Int /\ p[2] \in Int
        BY <1>13, DryType
      <3> QED  BY <1>5, <1>7, <1>8, <1>9, <2>2, <3>1, <3>2, LongestUnion
    <2>4. /\ acc'[key] = b /\ series'[key] = t /\ cursor'[key] = day
          /\ Floor_of(key)' = floor
      BY <1>2, <1>10 DEF Floor_of
    <2>5. /\ b.days_recorded = Len(t) /\ b.rain_sum = RainTotal(t)
          /\ Len(t) <= params.window_len
      <3>1. params.window_len \in Nat  BY <1>1 DEF IndexParams
      <3> QED  BY <1>5, <1>7, <1>9, <1>11, <1>13, <2>1, <3>1
    <2>6. /\ key[1] \in DOMAIN index_def' /\ index_def' = index_def
          /\ cursor'[key] = t[Len(t)].day
      BY <1>1, <1>10, <1>13, <2>4
    <2> HIDE DEF floor
    <2> QED  BY <1>9, <1>13, <2>2, <2>3, <2>4, <2>5, <2>6 DEF Recorded
  <1>15. ASSUME NEW k \in Keys, k # key PROVE Recorded(k)'
    <2>1. Recorded(k)  BY DEF IInv
    <2>2. acc'[k] = acc[k] /\ series'[k] = series[k] /\ cursor'[k] = cursor[k]
      BY <1>2, <1>10, <1>15
    <2> QED  BY <1>10, <2>1, <2>2 DEF Recorded, Floor_of
  <1>16. ASSUME NEW k \in Keys PROVE Decided(k)'
    <2>1. CASE k = key  BY <1>10, <1>11, <2>1 DEF Decided
    <2>2. CASE k # key
      <3>1. acc'[k] = acc[k] /\ folded_at'[k] = folded_at[k]  BY <1>2, <1>10, <2>2
      <3> QED  BY <1>10, <3>1 DEF IInv, Decided
    <2> QED  BY <2>1, <2>2
  <1>17. ASSUME NEW k \in Keys PROVE (folded_at[k] <= now)'
    <2>1. now \in Int  BY DEF IInv, TypeOK
    <2>2. folded_at'[k] = now \/ folded_at'[k] = folded_at[k]  BY <1>2, <1>10
    <2> QED  BY <1>10, <2>1, <2>2 DEF IInv
  <1>18. (DOMAIN series = Keys)'  BY <1>2, <1>10
  <1> QED  BY <1>12, <1>14, <1>15, <1>16, <1>17, <1>18 DEF IInv

(* evaluate triggers a complete, breached window no earlier than its last  *)
(* day.                                                                    *)
LEMMA EvaluateIInv ==
  ASSUME IInv, NEW key \in Keys, evaluate(key)
  PROVE  IInv'
  <1> DEFINE params == index_def[key[1]]
  <1>1. /\ state' = [state EXCEPT ![key] = Triggered(now)]
        /\ UNCHANGED <<index_count, index_def, oracle_set, acc, cursor, series, folded_at, now>>
        /\ key[1] \in DOMAIN index_def
        /\ acc[key].days_recorded >= params.window_len
        /\ triggered(params, acc[key])
    BY DEF evaluate, window, complete, Has
  <1>2. state \in [Keys -> TriggerStatus] /\ now \in Nat
    BY DEF IInv, TypeOK
  <1>3. Triggered(now) \in TriggerStatus  BY <1>2 DEF Triggered, TriggerStatus
  <1>4. TypeOK'  BY <1>1, <1>2, <1>3 DEF IInv, TypeOK
  <1>5. ASSUME NEW k \in Keys PROVE (folded_at[k] <= now)' /\ Recorded(k)'
    BY <1>1 DEF IInv, Recorded, Floor_of
  <1>6. Decided(key)'
    <2>1. acc[key].days_recorded = params.window_len
      <3>1. params \in IndexParams /\ validate_params(params)
        BY <1>1, StoredDefinition DEF IInv
      <3>2. params.window_len \in Nat /\ params.window_len # 0
        BY <3>1 DEF IndexParams, validate_params
      <3>3. Recorded(key)  BY DEF IInv
      <3>4. acc[key].days_recorded = Len(series[key]) /\ Len(series[key]) \in Nat
        BY <3>3 DEF Recorded
      <3>5. series[key] # <<>>  BY <1>1, <3>2, <3>4
      <3>6. Len(series[key]) <= params.window_len  BY <3>3, <3>5 DEF Recorded
      <3> QED  BY <1>1, <3>2, <3>4, <3>6
    <2>2. state'[key] = Triggered(now)  BY <1>1, <1>2
    <2>3. state'[key].status = "Triggered" /\ state'[key].at = now  BY <2>2 DEF Triggered
    <2>4. folded_at[key] <= now /\ now \in Nat /\ folded_at[key] \in Int
      BY DEF IInv, TypeOK
    <2>5. now >= folded_at[key]  BY <2>4
    <2> QED  BY <1>1, <2>1, <2>3, <2>5 DEF Decided
  <1>7. ASSUME NEW k \in Keys, k # key PROVE Decided(k)'
    <2>1. state'[k] = state[k]  BY <1>1, <1>2, <1>7
    <2> QED  BY <1>1, <2>1 DEF IInv, Decided
  <1>8. (DOMAIN series = Keys)'  BY <1>1 DEF IInv
  <1> QED  BY <1>4, <1>5, <1>6, <1>7, <1>8 DEF IInv

(* finalize settles with the severity of the accumulator the trigger was   *)
(* seen on, after the challenge window.                                    *)
LEMMA FinalizeIInv ==
  ASSUME IInv, NEW key \in Keys, finalize(key)
  PROVE  IInv'
  <1> DEFINE params == index_def[key[1]]
             severity == severity_of(params, acc[key])
  <1>1. /\ state' = [state EXCEPT ![key] = Finalized(now, severity)]
        /\ UNCHANGED <<index_count, index_def, oracle_set, acc, cursor, series, folded_at, now>>
        /\ key[1] \in DOMAIN index_def
        /\ state[key].status = "Triggered"
        /\ now >= state[key].at + CHALLENGE_WINDOW_SECS
    BY DEF finalize, window, challenge_over, Has
  <1>2. /\ state \in [Keys -> TriggerStatus] /\ now \in Nat
        /\ acc[key] \in WindowAccumulator /\ folded_at[key] \in Int
    BY DEF IInv, TypeOK
  <1>3. severity \in Nat
    BY <1>1, <1>2, StoredDefinition, SeverityBounds, BpsAssumption DEF IInv
  <1> HIDE DEF severity
  <1>4. Finalized(now, severity) \in TriggerStatus
    BY <1>2, <1>3 DEF Finalized, TriggerStatus
  <1>5. TypeOK'  BY <1>1, <1>2, <1>4 DEF IInv, TypeOK
  <1>6. ASSUME NEW k \in Keys PROVE (folded_at[k] <= now)' /\ Recorded(k)'
    BY <1>1 DEF IInv, Recorded, Floor_of
  <1>7. Decided(key)'
    <2>1. Decided(key)  BY DEF IInv
    <2>2. /\ acc[key].days_recorded = params.window_len
          /\ triggered(params, acc[key])
          /\ state[key].at >= folded_at[key]
      BY <1>1, <2>1 DEF Decided
    <2>3. state'[key] = Finalized(now, severity)  BY <1>1, <1>2
    <2>4. /\ state'[key].status = "Finalized" /\ state'[key].at = now
          /\ state'[key].severity = severity
      BY <2>3 DEF Finalized
    <2>5. state[key].at \in Nat  BY <1>2 DEF TriggerStatus
    <2>6. now >= folded_at[key] + CHALLENGE_WINDOW_SECS
      BY <1>1, <1>2, <2>2, <2>5, ClockAssumption, MaxTimeAssumption
    <2> QED  BY <1>1, <2>2, <2>4, <2>6 DEF Decided, severity
  <1>8. ASSUME NEW k \in Keys, k # key PROVE Decided(k)'
    <2>1. state'[k] = state[k]  BY <1>1, <1>2, <1>8
    <2> QED  BY <1>1, <2>1 DEF IInv, Decided
  <1>9. (DOMAIN series = Keys)'  BY <1>1 DEF IInv
  <1> QED  BY <1>5, <1>6, <1>7, <1>8, <1>9 DEF IInv

(* Every step keeps the invariant.                                         *)
LEMMA NextIInv == IInv /\ [Next]_vars => IInv'
  <1> SUFFICES ASSUME IInv, [Next]_vars PROVE IInv'  OBVIOUS
  <1>1. CASE Tick  BY <1>1, TickIInv
  <1>2. ASSUME NEW params \in Params, create_index(params) PROVE IInv'
    BY <1>2, CreateIInv
  <1>3. CASE set_oracle  BY <1>3, SetOracleIInv
  <1>4. ASSUME NEW key \in Keys, NEW day \in Days, NEW value \in Values,
               record_day(key, day, value)
        PROVE IInv'
    <2>1. value \in Int  BY InputAssumption
    <2> QED  BY <1>4, <2>1, FoldIInv DEF record_day
  <1>5. ASSUME NEW key \in Keys, NEW day \in Days, NEW value \in Medians,
               record_day_from_oracle(key, day, value)
        PROVE IInv'
    <2>1. value \in Int  BY InputAssumption
    <2> QED  BY <1>5, <2>1, FoldIInv DEF record_day_from_oracle
  <1>6. ASSUME NEW key \in Keys, evaluate(key) PROVE IInv'  BY <1>6, EvaluateIInv
  <1>7. ASSUME NEW key \in Keys, finalize(key) PROVE IInv'  BY <1>7, FinalizeIInv
  <1>8. CASE UNCHANGED vars
    BY <1>8 DEF vars, window, IInv, TypeOK, Recorded, Decided, Floor_of
  <1> QED  BY <1>1, <1>2, <1>3, <1>4, <1>5, <1>6, <1>7, <1>8 DEF Next

(* The invariant holds throughout.                                         *)
LEMMA Invariance == Spec => []IInv
  <1>1. IInv /\ [Next]_vars => IInv'  BY NextIInv
  <1> QED  BY InitIInv, <1>1, PTL DEF Spec

-----------------------------------------------------------------------------
(***************************************************************************)
(* The theorems.                                                           *)
(***************************************************************************)

(* Type correctness: no reduction goes negative, and every stored          *)
(* definition stays valid.                                                 *)
THEOREM TypeCorrect == Spec => []TypeOK
  <1>1. IInv => TypeOK  BY DEF IInv
  <1> QED  BY <1>1, Invariance, PTL

(* fold_day, one day at a time, reduces the window to what its whole log   *)
(* says, though no day is stored.                                          *)
THEOREM ReductionHolds == Spec => []AccumulatorIsReduction
  <1>1. ASSUME IInv PROVE AccumulatorIsReduction
    <2> SUFFICES ASSUME NEW key \in Keys
                 PROVE  LET s == series[key]
                            dry == DryIntervals(s, Floor_of(key))
                        IN  /\ acc[key].days_recorded = Len(s)
                            /\ acc[key].rain_sum = RainTotal(s)
                            /\ acc[key].max_run = Longest(dry)
                            /\ acc[key].current_run = Longest({p \in dry : p[2] = Len(s)})
      BY DEF AccumulatorIsReduction, Floor_of
    <2> DEFINE s == series[key]
               dry == DryIntervals(s, Floor_of(key))
               end == {p \in dry : p[2] = Len(s)}
    <2>1. Recorded(key)  BY <1>1 DEF IInv
    <2>2. acc[key] \in WindowAccumulator  BY <1>1 DEF IInv, TypeOK
    <2>3. acc[key].max_run \in Nat /\ acc[key].current_run \in Nat
      BY <2>2 DEF WindowAccumulator
    <2>4. \A p \in dry : p[1] \in Int /\ p[2] \in Int
      BY <2>1, DryType DEF Recorded
    <2>5. acc[key].max_run = Longest(dry)
      BY <2>1, <2>3, <2>4, LongestIs DEF Recorded
    <2>6. IsLongest(acc[key].current_run, end)  BY <2>1 DEF Recorded, AtEnd
    <2>7. acc[key].current_run = Longest(end)
      BY <2>3, <2>4, <2>6, LongestIs
    <2> QED  BY <2>1, <2>5, <2>7 DEF Recorded
  <1>2. IInv => AccumulatorIsReduction  BY <1>1
  <1> QED  BY <1>2, Invariance, PTL

(* No window is triggered or finalized on partial data, and the severity   *)
(* it is finalized with is the one its days deserve.                       *)
THEOREM SettledHolds == Spec => []SettledOnCompleteData
  <1>1. ASSUME IInv PROVE SettledOnCompleteData
    <2> SUFFICES ASSUME NEW key \in Keys, state[key].status # "Healthy"
                 PROVE  /\ Has(index_def, key[1])
                        /\ acc[key].days_recorded = index_def[key[1]].window_len
                        /\ state[key].status = "Finalized" =>
                             SeverityFits(index_def[key[1]], acc[key].rain_sum,
                                          acc[key].max_run, state[key].severity)
      BY DEF SettledOnCompleteData
    <2>1. Decided(key) /\ acc[key] \in WindowAccumulator
      BY <1>1 DEF IInv, TypeOK
    <2>2. key[1] \in DOMAIN index_def /\ triggered(index_def[key[1]], acc[key])
      BY <2>1 DEF Decided
    <2>3. index_def[key[1]] \in IndexParams /\ validate_params(index_def[key[1]])
      BY <1>1, <2>2, StoredDefinition DEF IInv
    <2>4. SeverityFits(index_def[key[1]], acc[key].rain_sum, acc[key].max_run,
                       severity_of(index_def[key[1]], acc[key]))
      BY <2>1, <2>2, <2>3, SeverityBounds
    <2> QED  BY <2>1, <2>2, <2>4 DEF Decided, Has
  <1>2. IInv => SettledOnCompleteData  BY <1>1
  <1> QED  BY <1>2, Invariance, PTL

(* finalize comes no earlier than the challenge window after the last day  *)
(* that was folded.                                                        *)
THEOREM ChallengeWindowHolds == Spec => []ChallengeWindowKept
  <1>1. IInv => ChallengeWindowKept  BY DEF IInv, Decided, ChallengeWindowKept
  <1> QED  BY <1>1, Invariance, PTL

(* Less rain or a longer dry run never pays less, on any coverage, and no  *)
(* payout exceeds the coverage.                                            *)
THEOREM WorsePaysNoLess == Spec => []WorseNeverPaysLess
  <1>1. ASSUME IInv PROVE WorseNeverPaysLess
    <2> SUFFICES ASSUME NEW key \in Keys, state[key].status = "Finalized",
                        NEW rain \in 0 .. acc[key].rain_sum,
                        NEW run \in acc[key].max_run .. acc[key].days_recorded,
                        NEW coverage \in 0 .. BPS_DENOMINATOR
                 PROVE  LET worse == severity_of(index_def[key[1]],
                                       [acc[key] EXCEPT !.rain_sum = rain, !.max_run = run])
                        IN  /\ payout_for(key, coverage)
                                  <= Least(apply_bps(coverage, worse), coverage)
                            /\ apply_bps(coverage, worse) <= coverage
      BY DEF WorseNeverPaysLess
    <2> DEFINE params == index_def[key[1]]
               a == acc[key]
               b == [acc[key] EXCEPT !.rain_sum = rain, !.max_run = run]
               x == severity_of(params, a)
               y == severity_of(params, b)
    <2>1. a \in WindowAccumulator /\ Decided(key)  BY <1>1 DEF IInv, TypeOK
    <2>2. a.rain_sum \in Nat /\ a.max_run \in Nat /\ a.days_recorded \in Nat
      BY <2>1 DEF WindowAccumulator
    <2>3. /\ b \in WindowAccumulator /\ b.rain_sum = rain /\ b.max_run = run
          /\ rain <= a.rain_sum /\ a.max_run <= run
      <3>1. rain \in Nat /\ run \in Nat /\ rain <= a.rain_sum /\ a.max_run <= run
        BY <2>2
      <3> HIDE DEF a
      <3>2. b = [a EXCEPT !.rain_sum = rain, !.max_run = run]  BY DEF a
      <3> HIDE DEF b
      <3> QED  BY <2>1, <3>1, <3>2 DEF WindowAccumulator
    <2>4. params \in IndexParams /\ validate_params(params)
      BY <1>1, <2>1, StoredDefinition DEF IInv, Decided
    <2> HIDE DEF a, b
    <2>5. x \in 0 .. BPS_DENOMINATOR /\ y \in 0 .. BPS_DENOMINATOR /\ x <= y
      BY <2>1, <2>3, <2>4, SeverityBounds, SeverityMonotone
    <2>6. state[key].severity = x  BY <2>1 DEF Decided, a
    <2> HIDE DEF x, y
    <2>7. BPS_DENOMINATOR \in Nat \ {0}  BY BpsAssumption
    <2>8. /\ coverage * x \in Nat /\ coverage * y \in Nat
          /\ coverage * BPS_DENOMINATOR \in Nat
      BY <2>5, <2>7, ProductNat
    <2>9. coverage * x <= coverage * y /\ coverage * y <= coverage * BPS_DENOMINATOR
      <3>1. x * coverage <= y * coverage /\ y * coverage <= BPS_DENOMINATOR * coverage
        BY <2>5, <2>7, ProductMonotone
      <3>2. /\ x * coverage = coverage * x /\ y * coverage = coverage * y
            /\ BPS_DENOMINATOR * coverage = coverage * BPS_DENOMINATOR
        BY <2>5, <2>7, SMT
      <3> QED  BY <3>1, <3>2
    <2>10. apply_bps(coverage, x) <= apply_bps(coverage, y)
      BY <2>7, <2>8, <2>9, DivMonotone DEF apply_bps
    <2>11. apply_bps(coverage, y) <= coverage
      <3> DEFINE q == apply_bps(coverage, y)
      <3>1. q \in Nat /\ BPS_DENOMINATOR * q <= coverage * y
        BY <2>7, <2>8, DivBounds DEF apply_bps
      <3>2. coverage * BPS_DENOMINATOR = BPS_DENOMINATOR * coverage  BY <2>7, SMT
      <3> HIDE DEF q
      <3>3. BPS_DENOMINATOR * q <= BPS_DENOMINATOR * coverage
        BY <2>7, <2>8, <2>9, <3>1, <3>2
      <3>4. q <= coverage  BY <2>7, <3>1, <3>3, Cancel
      <3> QED  BY <3>4 DEF q
    <2>12. apply_bps(coverage, x) \in Nat /\ apply_bps(coverage, y) \in Nat
      BY <2>7, <2>8, DivBounds DEF apply_bps
    <2>13. payout_for(key, coverage) <= Least(apply_bps(coverage, y), coverage)
      BY <2>6, <2>10, <2>11, <2>12 DEF payout_for, Least
    <2> QED  BY <2>11, <2>13 DEF y, b
  <1>2. IInv => WorseNeverPaysLess  BY <1>1
  <1> QED  BY <1>2, Invariance, PTL

(* Definitions never change; a triggered window's accumulator never        *)
(* changes, and its state only once, to Finalized.                         *)
THEOREM FrozenHolds == Spec => FrozenOnceTriggered
  <1>1. ASSUME IInv, Next PROVE FrozenOnceTriggeredStep
    <2>1. \A i \in DOMAIN index_def : i \in DOMAIN index_def' /\ index_def'[i] = index_def[i]
      <3>1. ASSUME NEW params \in Params, create_index(params)
            PROVE  \A i \in DOMAIN index_def :
                     i \in DOMAIN index_def' /\ index_def'[i] = index_def[i]
        <4>1. index_count \notin DOMAIN index_def /\ index_count \in Int
          BY <1>1 DEF IInv, TypeOK
        <4> QED  BY <3>1, <4>1 DEF create_index, Put
      <3> QED
        BY <1>1, <3>1 DEF Next, Tick, set_oracle, record_day, record_day_from_oracle,
                          fold_day, evaluate, finalize
    <2>2. ASSUME NEW key \in Keys, state[key].status # "Healthy"
          PROVE  /\ acc'[key] = acc[key]
                 /\ state'[key] = state[key] \/ (state[key].status = "Triggered"
                                                  /\ state'[key].status = "Finalized")
      <3>0. acc \in [Keys -> WindowAccumulator] /\ state \in [Keys -> TriggerStatus]
        BY <1>1 DEF IInv, TypeOK
      <3>1. ASSUME NEW k \in Keys, NEW day, NEW value, Has(index_def, k[1]), fold_day(k, day, value)
            PROVE  acc'[key] = acc[key] /\ state'[key] = state[key]
        <4>1. k # key
          <5>1. acc[k].days_recorded < index_def[k[1]].window_len
            BY <3>1 DEF fold_day, room
          <5>2. Decided(key)  BY <1>1 DEF IInv
          <5>3. index_def[k[1]].window_len \in Nat
            BY <1>1, <3>1, StoredDefinition DEF IInv, Has, IndexParams
          <5> QED  BY <2>2, <5>1, <5>2, <5>3 DEF Decided
        <4> QED  BY <3>0, <3>1, <4>1 DEF fold_day
      <3>2. ASSUME NEW k \in Keys, evaluate(k)
            PROVE  acc'[key] = acc[key] /\ state'[key] = state[key]
        BY <2>2, <3>0, <3>2 DEF evaluate, window
      <3>3. ASSUME NEW k \in Keys, finalize(k)
            PROVE  /\ acc'[key] = acc[key]
                   /\ state'[key] = state[key] \/ (state[key].status = "Triggered"
                                                    /\ state'[key].status = "Finalized")
        BY <3>0, <3>3 DEF finalize, window, Finalized
      <3>4. ASSUME UNCHANGED <<acc, state>>
            PROVE  acc'[key] = acc[key] /\ state'[key] = state[key]
        BY <3>4
      <3> QED
        BY <1>1, <3>1, <3>2, <3>3, <3>4
        DEF Next, Tick, create_index, set_oracle, record_day, record_day_from_oracle, window
    <2> QED  BY <2>1, <2>2 DEF FrozenOnceTriggeredStep
  <1>2. IInv /\ [Next]_vars => [FrozenOnceTriggeredStep]_vars  BY <1>1
  <1> QED  BY <1>2, Invariance, PTL DEF Spec, FrozenOnceTriggered

-----------------------------------------------------------------------------
(***************************************************************************)
(* The refinement: every step of the engine is a step of the one-shot      *)
(* decision or leaves it as it is.                                         *)
(***************************************************************************)

outcome_of == [key \in Keys |-> IF state[key].status = "Finalized"
                               THEN state[key].severity ELSE -1]

(* create_index adds one sound definition.                                 *)
LEMMA CreateDefines ==
  ASSUME IInv, NEW params \in Params, create_index(params)
  PROVE  Decision!Define
  <1>1. index_count \notin DOMAIN index_def /\ index_count \in Int
    BY DEF IInv, TypeOK
  <1>2. /\ DOMAIN index_def' = DOMAIN index_def \cup {index_count}
        /\ index_def'[index_count] = params
        /\ index_def' = [k \in DOMAIN index_def \cup {index_count} |->
                           IF k = index_count THEN params ELSE index_def[k]]
    BY DEF create_index, Put
  <1>3. params \in IndexParams /\ validate_params(params)
    BY ParamsAssumption DEF create_index
  <1>4. Decision!Sound(params)
    BY <1>3 DEF Decision!Sound, validate_params, IndexParams
  <1>5. UNCHANGED <<series, state>>  BY DEF create_index, window
  <1> QED  BY <1>1, <1>2, <1>4, <1>5 DEF Decision!Define

(* A folded day is one more reading, of a later day, in an open log.       *)
LEMMA FoldRecords ==
  ASSUME IInv, NEW key \in Keys, NEW day \in Days, NEW value \in Int,
         Has(index_def, key[1]), fold_day(key, day, value)
  PROVE  Decision!Record(key)
  <1> DEFINE s == series[key]
             r == [day |-> day, value |-> value]
             params == index_def[key[1]]
  <1>1. Recorded(key) /\ Decided(key) /\ DOMAIN series = Keys  BY DEF IInv
  <1>2. s \in Seq(Reading) /\ Len(s) \in Nat /\ acc[key].days_recorded = Len(s)
    BY <1>1 DEF Recorded
  <1>3. day \in Nat /\ value \in Nat /\ r \in Reading
    BY InputAssumption DEF fold_day, foldable, Reading
  <1>4. /\ series' = [series EXCEPT ![key] = Append(s, r)]
        /\ series'[key] = Append(s, r)
        /\ UNCHANGED <<index_def, state>>
    BY <1>1 DEF fold_day
  <1>5. /\ Len(Append(s, r)) = Len(s) + 1
        /\ Append(s, r)[Len(s) + 1] = r
    BY <1>2, <1>3
  <1>6. Len(s) < params.window_len  BY <1>2 DEF fold_day, room
  <1>7. state[key].status = "Healthy"
    <2>1. params.window_len \in Nat
      BY StoredDefinition DEF IInv, Has, IndexParams
    <2> QED  BY <1>1, <1>2, <1>6, <2>1 DEF Decided
  <1>8. Len(s) > 0 => day > s[Len(s)].day
    <2> SUFFICES ASSUME Len(s) > 0 PROVE day > s[Len(s)].day  OBVIOUS
    <2>1. s # <<>>  BY <1>2
    <2>2. cursor[key] = s[Len(s)].day  BY <1>1, <2>1 DEF Recorded
    <2>3. s[Len(s)] \in Reading  BY <1>2
    <2>4. cursor[key] \in Nat  BY <2>2, <2>3 DEF Reading
    <2> QED  BY <2>2, <2>4 DEF fold_day, in_order, NoDay
  <1> HIDE DEF s, r
  <1>9. outcome_of[key] = -1 /\ outcome_of' = outcome_of
    BY <1>4, <1>7 DEF outcome_of
  <1>10. key[1] \in DOMAIN index_def  BY DEF Has
  <1>11. Append(s, r)[Len(s) + 1] = r /\ r.value >= 0 /\ r.day = day
    BY <1>3, <1>5 DEF r
  <1>12. series' = [series EXCEPT ![key] = Append(series[key], series'[key][Len(s) + 1])]
    BY <1>4, <1>11 DEF s
  <1> QED
    BY <1>4, <1>5, <1>6, <1>8, <1>9, <1>10, <1>11, <1>12
    DEF Decision!Record, Decision!Open, outcome_of, s

(* finalize settles an open window on its complete log with the severity   *)
(* that log has.                                                           *)
LEMMA FinalizeSettles ==
  ASSUME IInv, NEW key \in Keys, finalize(key)
  PROVE  Decision!Settle(key)
  <1> DEFINE params == index_def[key[1]]
             severity == severity_of(params, acc[key])
             s == series[key]
  <1>1. /\ state' = [state EXCEPT ![key] = Finalized(now, severity)]
        /\ key[1] \in DOMAIN index_def
        /\ state[key].status = "Triggered"
        /\ UNCHANGED <<index_def, series>>
    BY DEF finalize, window, Has
  <1>2. /\ state \in [Keys -> TriggerStatus] /\ acc[key] \in WindowAccumulator
        /\ Recorded(key) /\ Decided(key)
    BY DEF IInv, TypeOK
  <1>3. /\ acc[key].days_recorded = params.window_len
        /\ triggered(params, acc[key])
    BY <1>1, <1>2 DEF Decided
  <1>4. params \in IndexParams /\ validate_params(params)
    BY <1>1, StoredDefinition DEF IInv
  <1>5. /\ severity \in 0 .. BPS_DENOMINATOR
        /\ SeverityFits(params, acc[key].rain_sum, acc[key].max_run, severity)
    BY <1>2, <1>3, <1>4, SeverityBounds
  <1>6. /\ acc[key].rain_sum = RainTotal(s)
        /\ acc[key].max_run = Longest(DryIntervals(s, params.dry_floor))
        /\ Len(s) = params.window_len
    <2>1. \A p \in DryIntervals(s, Floor_of(key)) : p[1] \in Int /\ p[2] \in Int
      BY <1>2, DryType DEF Recorded
    <2>2. acc[key].max_run \in Nat  BY <1>2 DEF WindowAccumulator
    <2>3. acc[key].max_run = Longest(DryIntervals(s, Floor_of(key)))
      BY <1>2, <2>1, <2>2, LongestIs DEF Recorded
    <2> QED  BY <1>2, <1>3, <2>3 DEF Recorded, Floor_of
  <1> HIDE DEF severity, s
  <1>7. Decision!Breaches(params, s, severity)
    <2>1. Decision!RainTotal(s) = RainTotal(s)
      BY DEF Decision!RainTotal, RainTotal, Decision!MapThenSumSet, MapThenSumSet,
             Decision!MapThenFoldSet, MapThenFoldSet
    <2>2. Decision!DryIntervals(s, params.dry_floor) = DryIntervals(s, params.dry_floor)
      BY DEF Decision!DryIntervals, DryIntervals
    <2>3. ASSUME NEW intervals PROVE Decision!Longest(intervals) = Longest(intervals)
      BY DEF Decision!Longest, Longest, Decision!Max, Max
    <2>4. ASSUME NEW rain, NEW run
          PROVE  Decision!SeverityFits(params, rain, run, severity)
                   = SeverityFits(params, rain, run, severity)
      BY DEF Decision!SeverityFits, SeverityFits, Decision!OnRamp, OnRamp,
             Decision!Floor, Floor
    <2> QED  BY <1>5, <1>6, <2>1, <2>2, <2>3, <2>4 DEF Decision!Breaches
  <1>8. /\ outcome_of[key] = -1
        /\ outcome_of'[key] = severity
        /\ outcome_of' = [outcome_of EXCEPT ![key] = severity]
    <2>1. state'[key].status = "Finalized" /\ state'[key].severity = severity
      BY <1>1, <1>2 DEF Finalized
    <2>2. \A k \in Keys : k # key => state'[k] = state[k]  BY <1>1, <1>2
    <2>3. outcome_of[key] = -1  BY <1>1 DEF outcome_of
    <2>4. outcome_of'[key] = severity  BY <2>1 DEF outcome_of
    <2>5. \A k \in Keys : k # key => outcome_of'[k] = outcome_of[k]
      BY <2>2 DEF outcome_of
    <2>6. outcome_of \in [Keys -> {outcome_of[k] : k \in Keys}]
          /\ DOMAIN outcome_of' = Keys /\ outcome_of' = [k \in Keys |-> outcome_of'[k]]
      BY DEF outcome_of
    <2> QED  BY <2>3, <2>4, <2>5, <2>6
  <1> QED
    BY <1>1, <1>5, <1>7, <1>8 DEF Decision!Settle, Decision!Open, outcome_of, s

(* The engine implements the decision: folding day by day on two           *)
(* ingestion paths, triggering and finalizing later decide every window    *)
(* once, on its complete log, as the definition says of that log.          *)
THEOREM DecisionImplemented == Spec => ImplementsDecision
  <1>1. Init => Decision!Init
    BY DEF Init, Decision!Init, Empty, Healthy, Decision!Open
  <1>2. IInv /\ [Next]_vars => [Decision!Next]_Decision!decision_vars
    <2> SUFFICES ASSUME IInv, [Next]_vars
                 PROVE  Decision!Next \/ UNCHANGED <<index_def, series, outcome_of>>
      BY DEF Decision!decision_vars, outcome_of
    <2>1. ASSUME NEW params \in Params, create_index(params) PROVE Decision!Next
      BY <2>1, CreateDefines DEF Decision!Next
    <2>2. ASSUME NEW key \in Keys, NEW day \in Days, NEW value \in Int,
                 Has(index_def, key[1]), fold_day(key, day, value)
          PROVE Decision!Next
      BY <2>2, FoldRecords DEF Decision!Next
    <2>3. ASSUME NEW key \in Keys, NEW day \in Days, NEW value \in Values,
                 record_day(key, day, value)
          PROVE Decision!Next
      BY <2>2, <2>3, InputAssumption DEF record_day
    <2>4. ASSUME NEW key \in Keys, NEW day \in Days, NEW value \in Medians,
                 record_day_from_oracle(key, day, value)
          PROVE Decision!Next
      BY <2>2, <2>4, InputAssumption DEF record_day_from_oracle
    <2>5. ASSUME NEW key \in Keys, evaluate(key)
          PROVE UNCHANGED <<index_def, series, outcome_of>>
      <3>1. /\ UNCHANGED <<index_def, series>>
            /\ state[key].status = "Healthy"
            /\ state' = [state EXCEPT ![key] = Triggered(now)]
        BY <2>5 DEF evaluate, window
      <3>2. DOMAIN state = Keys  BY DEF IInv, TypeOK
      <3>3. \A k \in Keys : state'[k] = state[k] \/
                            (state[k].status = "Healthy" /\ state'[k].status = "Triggered")
        BY <3>1, <3>2 DEF Triggered
      <3> QED  BY <3>1, <3>3 DEF outcome_of
    <2>6. ASSUME NEW key \in Keys, finalize(key) PROVE Decision!Next
      BY <2>6, FinalizeSettles DEF Decision!Next
    <2>7. ASSUME UNCHANGED <<index_def, series, state>>
          PROVE UNCHANGED <<index_def, series, outcome_of>>
      BY <2>7 DEF outcome_of
    <2>8. Tick \/ set_oracle \/ UNCHANGED vars => UNCHANGED <<index_def, series, state>>
      BY DEF Tick, set_oracle, vars, window
    <2> QED  BY <2>1, <2>3, <2>4, <2>5, <2>6, <2>7, <2>8 DEF Next
  <1> QED  BY <1>1, <1>2, Invariance, PTL DEF Spec, ImplementsDecision, Decision!Spec
=============================================================================
