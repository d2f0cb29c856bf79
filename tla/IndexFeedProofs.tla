-------------------------- MODULE IndexFeedProofs ---------------------------
(***************************************************************************)
(* Proofs about IndexFeed: what the median bounds, through the             *)
(* accumulator to the severity a window settles with.                      *)
(***************************************************************************)
EXTENDS IndexFeed, OracleAdapterProofs, TriggerEngineProofs

-----------------------------------------------------------------------------
(***************************************************************************)
(* The severity of a series, and that it falls with the readings.          *)
(***************************************************************************)

(* Rounding down has one result.                                           *)
LEMMA FloorUnique ==
  ASSUME NEW q \in Int, NEW p \in Int, NEW n \in Int, NEW d \in Nat \ {0},
         Floor(q, n, d), Floor(p, n, d)
  PROVE  q = p
  <1>1. /\ q * d <= n /\ n < (q + 1) * d
        /\ p * d <= n /\ n < (p + 1) * d
    BY DEF Floor
  <1>2. ASSUME NEW x \in Int, NEW y \in Int, y * d <= n, n < (x + 1) * d, x + 1 <= y
        PROVE FALSE
    <2>1. (x + 1) * d = d * (x + 1) /\ y * d = d * y /\ d * (x + 1) \in Int /\ d * y \in Int
      BY SMT
    <2>2. d * (x + 1) <= d * y  BY <1>2, SMT
    <2> QED  BY <1>2, <2>1, <2>2
  <1>3. ~(q + 1 <= p)  BY <1>1, <1>2
  <1>4. ~(p + 1 <= q)  BY <1>1, <1>2
  <1> QED  BY <1>3, <1>4

(* The reference severity is the one the code computes, and only a         *)
(* triggered accumulator has one.                                          *)
LEMMA SeverityUnique ==
  ASSUME NEW params \in IndexParams, validate_params(params), NEW a \in WindowAccumulator,
         NEW x \in Int, SeverityFits(params, a.rain_sum, a.max_run, x)
  PROVE  triggered(params, a) /\ x = severity_of(params, a)
  <1>1. BPS_DENOMINATOR \in Nat \ {0}  BY BpsAssumption
  <1>2. ASSUME NEW y \in Int, NEW done \in Nat, NEW span \in Nat \ {0},
               OnRamp(x, done, span), OnRamp(y, done, span)
        PROVE  x = y
    <2>1. CASE done >= span  BY <1>2, <2>1 DEF OnRamp
    <2>2. CASE ~(done >= span)
      <3>1. Floor(x, done * BPS_DENOMINATOR, span) /\ Floor(y, done * BPS_DENOMINATOR, span)
        BY <1>2, <2>2 DEF OnRamp
      <3>2. done * BPS_DENOMINATOR \in Int  BY <1>1, ProductNat
      <3> QED  BY <3>1, <3>2, FloorUnique
    <2> QED  BY <2>1, <2>2
  <1>3. CASE params.kind = "RainfallShortfall"
    <2> DEFINE t == params.trigger_ratio_bps
               e == params.exhaustion_ratio_bps
               n == a.rain_sum * BPS_DENOMINATOR
    <2>1. t \in Nat /\ e \in Nat /\ e < t
      BY <1>3 DEF IndexParams, validate_params
    <2>2. n \in Nat  BY <1>1, ProductNat DEF WindowAccumulator
    <2>3. PICK ratio \in 0 .. t - 1 : /\ Floor(ratio, n, params.baseline)
                                      /\ OnRamp(x, t - ratio, t - e)
      BY <1>3 DEF SeverityFits
    <2>4. /\ params.baseline \in Nat \ {0} /\ rainfall_ratio(params, a) \in Nat
          /\ Floor(rainfall_ratio(params, a), n, params.baseline)
      BY <1>3, RatioBounds
    <2> HIDE DEF n, t, e
    <2>5. ratio \in Int  BY <2>1
    <2>6. ratio = rainfall_ratio(params, a)
      BY <2>2, <2>3, <2>4, <2>5, FloorUnique
    <2>7. triggered(params, a)
      BY <1>3, <2>1, <2>3, <2>6 DEF triggered, rainfall_triggered, t
    <2>8. /\ severity_of(params, a) \in 0 .. BPS_DENOMINATOR
          /\ SeverityFits(params, a.rain_sum, a.max_run, severity_of(params, a))
      BY <2>7, SeverityBounds
    <2>9. PICK other \in 0 .. t - 1 : /\ Floor(other, n, params.baseline)
                                      /\ OnRamp(severity_of(params, a), t - other, t - e)
      BY <1>3, <2>8 DEF SeverityFits, n, t, e
    <2>10. other \in Int  BY <2>1
    <2>11. other = ratio  BY <2>2, <2>3, <2>4, <2>5, <2>9, <2>10, FloorUnique
    <2>12. t - ratio \in Nat /\ t - e \in Nat \ {0}  BY <2>1, <2>3
    <2>13. severity_of(params, a) \in Int  BY <1>1, <2>8
    <2>14. x = severity_of(params, a)  BY <1>2, <2>3, <2>9, <2>11, <2>12, <2>13
    <2> QED  BY <2>7, <2>14
  <1>4. CASE params.kind # "RainfallShortfall"
    <2> DEFINE t == params.trigger_days
               e == params.exhaustion_days
               m == a.max_run
    <2>0. params.kind = "ConsecutiveDryDays"  BY <1>4 DEF IndexParams, Kinds
    <2>1. t \in Nat /\ e \in Nat /\ t < e /\ m \in Nat
      BY <2>0 DEF IndexParams, validate_params, WindowAccumulator
    <2>2. m >= t /\ OnRamp(x, m - t, e - t)  BY <1>4 DEF SeverityFits
    <2>3. triggered(params, a)  BY <1>4, <2>2 DEF triggered, dry_days_triggered
    <2>4. /\ severity_of(params, a) \in 0 .. BPS_DENOMINATOR
          /\ SeverityFits(params, a.rain_sum, a.max_run, severity_of(params, a))
      BY <2>3, SeverityBounds
    <2>5. OnRamp(severity_of(params, a), m - t, e - t)  BY <1>4, <2>4 DEF SeverityFits
    <2> HIDE DEF t, e, m
    <2>6. m - t \in Nat /\ e - t \in Nat \ {0}  BY <2>1, <2>2
    <2>7. severity_of(params, a) \in Int  BY <1>1, <2>4
    <2>8. x = severity_of(params, a)  BY <1>2, <2>2, <2>5, <2>6, <2>7
    <2> QED  BY <2>3, <2>8
  <1> QED  BY <1>3, <1>4

(* Less rain and a longer dry run keep a trigger.                          *)
LEMMA TriggeredMonotone ==
  ASSUME NEW params \in IndexParams, validate_params(params),
         NEW a \in WindowAccumulator, NEW b \in WindowAccumulator,
         b.rain_sum <= a.rain_sum, a.max_run <= b.max_run, triggered(params, a)
  PROVE  triggered(params, b)
  <1>1. CASE params.kind = "RainfallShortfall"
    <2>1. /\ rainfall_ratio(params, a) \in Nat /\ rainfall_ratio(params, b) \in Nat
          /\ rainfall_ratio(params, b) <= rainfall_ratio(params, a)
      BY <1>1, RatioBounds
    <2>2. params.trigger_ratio_bps \in Nat  BY DEF IndexParams
    <2> QED  BY <1>1, <2>1, <2>2 DEF triggered, rainfall_triggered
  <1>2. CASE params.kind # "RainfallShortfall"
    <2>1. a.max_run \in Nat /\ b.max_run \in Nat  BY DEF WindowAccumulator
    <2>2. params.trigger_days \in Nat  BY DEF IndexParams
    <2> QED  BY <1>2, <2>1, <2>2 DEF triggered, dry_days_triggered
  <1> QED  BY <1>1, <1>2

(* The dry runs of a series have a longest, as long as its length at most. *)
LEMMA LongestDry ==
  ASSUME NEW s \in Seq(Reading), NEW floor
  PROVE  /\ Longest(DryIntervals(s, floor)) \in Nat
         /\ \A p \in DryIntervals(s, floor) :
              p[2] - p[1] + 1 <= Longest(DryIntervals(s, floor))
         /\ IsLongest(Longest(DryIntervals(s, floor)), DryIntervals(s, floor))
  <1> DEFINE D == DryIntervals(s, floor)
             T == {p[2] - p[1] + 1 : p \in D}
             m == Longest(D)
  <1>1. DOMAIN s = 1 .. Len(s) /\ Len(s) \in Nat  OBVIOUS
  <1>2. \A p \in D : /\ p[1] \in 1 .. Len(s) /\ p[2] \in 1 .. Len(s) /\ p[1] <= p[2]
    BY <1>1 DEF DryIntervals
  <1> HIDE DEF D
  <1>3. T \in SUBSET (1 .. Len(s))
    <2> SUFFICES ASSUME NEW p \in D PROVE p[2] - p[1] + 1 \in 1 .. Len(s)  OBVIOUS
    <2> QED  BY <1>1, <1>2
  <1>4. m = Max({0} \cup T)  BY DEF Longest
  <1> HIDE DEF T, m
  <1>5. m \in {0} \cup T /\ \A y \in {0} \cup T : y <= m
    BY <1>1, <1>3, <1>4, GreatestMember
  <1>6. m \in Nat  BY <1>1, <1>3, <1>5
  <1>7. \A p \in D : p[2] - p[1] + 1 <= m  BY <1>5 DEF T
  <1>8. m = 0 \/ \E p \in D : p[2] - p[1] + 1 = m  BY <1>5 DEF T
  <1>9. IsLongest(m, D)  BY <1>6, <1>7, <1>8 DEF IsLongest
  <1> QED  BY <1>6, <1>7, <1>9 DEF m, D

(* t has no more rain than s on any day.                                   *)
NoWetter(t, s) ==
  /\ Len(t) = Len(s)
  /\ \A n \in 1 .. Len(s) : t[n].value <= s[n].value

(* Then it has no more rain in total, and no shorter dry run.              *)
LEMMA NoWetterReduces ==
  ASSUME NEW s \in Seq(Reading), NEW t \in Seq(Reading), NEW floor \in Int, NoWetter(t, s)
  PROVE  /\ RainTotal(s) \in Nat /\ RainTotal(t) \in Nat
         /\ RainTotal(t) <= RainTotal(s)
         /\ Longest(DryIntervals(s, floor)) <= Longest(DryIntervals(t, floor))
  <1>1. /\ DOMAIN s = 1 .. Len(s) /\ DOMAIN t = 1 .. Len(s) /\ Len(s) \in Nat
        /\ \A n \in 1 .. Len(s) : s[n] \in Reading /\ t[n] \in Reading
    BY DEF NoWetter
  <1>2. /\ \A n \in 1 .. Len(s) : s[n].value \in Nat /\ t[n].value \in Nat
        /\ \A n \in 1 .. Len(s) : t[n].value <= s[n].value
    BY <1>1 DEF Reading, NoWetter
  <1>3. IsFiniteSet(1 .. Len(s))  BY <1>1, FS_Interval
  <1>4. /\ RainTotal(s) = Total(Rain(s)) /\ RainTotal(s) \in Nat
        /\ RainTotal(t) = Total(Rain(t)) /\ RainTotal(t) \in Nat
    BY <1>1, <1>2, <1>3, RainIsTotal
  <1>5. RainTotal(t) <= RainTotal(s)
    <2> DEFINE f == Rain(t)
               g == Rain(s)
               D == 1 .. Len(s)
    <2>1. f \in [D -> Nat] /\ g \in [D -> Nat] /\ \A n \in D : f[n] <= g[n]
      BY <1>1, <1>2 DEF Rain
    <2> HIDE DEF f, g, D
    <2>2. IsFiniteSet(Units(g))  BY <1>3, <2>1, FiniteLedger DEF D
    <2>3. Total(f) <= Total(g)  BY <2>1, <2>2, TotalMonotone
    <2> QED  BY <1>4, <2>3 DEF f, g
  <1>6. DryIntervals(s, floor) \subseteq DryIntervals(t, floor)
    <2> SUFFICES ASSUME NEW p \in DryIntervals(s, floor) PROVE p \in DryIntervals(t, floor)
      OBVIOUS
    <2>1. /\ p \in (1 .. Len(s)) \X (1 .. Len(s)) /\ p[1] <= p[2]
          /\ \A n \in p[1] .. p[2] : s[n].value <= floor
      BY <1>1 DEF DryIntervals
    <2>2. \A n \in p[1] .. p[2] : n \in 1 .. Len(s)  BY <1>1, <2>1
    <2>3. \A n \in p[1] .. p[2] : t[n].value <= floor  BY <1>2, <2>1, <2>2
    <2> QED  BY <1>1, <2>1, <2>3 DEF DryIntervals
  <1>7. Longest(DryIntervals(s, floor)) <= Longest(DryIntervals(t, floor))
    <2> DEFINE D == DryIntervals(s, floor)
               E == DryIntervals(t, floor)
               m == Longest(D)
               k == Longest(E)
    <2>1. /\ m \in Nat /\ IsLongest(m, D)
          /\ k \in Nat /\ \A p \in E : p[2] - p[1] + 1 <= k
      BY LongestDry
    <2>2. D \subseteq E  BY <1>6
    <2> HIDE DEF m, k, D, E
    <2>3. m = 0 \/ \E p \in E : p[2] - p[1] + 1 = m  BY <2>1, <2>2 DEF IsLongest
    <2> QED  BY <2>1, <2>3 DEF m, k, D, E
  <1> QED  BY <1>4, <1>5, <1>7

(* The accumulator a whole series reduces to.                              *)
Reduced(s, floor) ==
  [days_recorded |-> Len(s), rain_sum |-> RainTotal(s), current_run |-> 0,
   max_run |-> Longest(DryIntervals(s, floor))]

(* A series that is no wetter than one that breaches the index breaches it *)
(* too, and no less severely.                                              *)
LEMMA NoWetterBreaches ==
  ASSUME NEW params \in IndexParams, validate_params(params),
         NEW s \in Seq(Reading), NEW t \in Seq(Reading), NoWetter(t, s),
         NEW x \in Int, Breaches(params, s, x)
  PROVE  LET worse == severity_of(params, Reduced(t, params.dry_floor))
         IN  /\ worse \in 0 .. BPS_DENOMINATOR
             /\ x <= worse
             /\ Breaches(params, t, worse)
  <1> DEFINE floor == params.dry_floor
             a == Reduced(s, floor)
             b == Reduced(t, floor)
  <1>1. floor \in Int  BY DEF IndexParams
  <1>2. /\ RainTotal(s) \in Nat /\ RainTotal(t) \in Nat
        /\ RainTotal(t) <= RainTotal(s)
        /\ Longest(DryIntervals(s, floor)) <= Longest(DryIntervals(t, floor))
    BY <1>1, NoWetterReduces
  <1>3. /\ Longest(DryIntervals(s, floor)) \in Nat
        /\ Longest(DryIntervals(t, floor)) \in Nat
        /\ Len(s) \in Nat /\ Len(t) \in Nat
    BY LongestDry
  <1>4. /\ a.rain_sum = RainTotal(s) /\ a.max_run = Longest(DryIntervals(s, floor))
        /\ b.rain_sum = RainTotal(t) /\ b.max_run = Longest(DryIntervals(t, floor))
        /\ a \in WindowAccumulator /\ b \in WindowAccumulator
    BY <1>2, <1>3 DEF Reduced, WindowAccumulator
  <1> HIDE DEF a, b
  <1>5. SeverityFits(params, a.rain_sum, a.max_run, x) /\ Len(s) = params.window_len
    BY <1>4 DEF Breaches
  <1>6. triggered(params, a) /\ x = severity_of(params, a)  BY <1>4, <1>5, SeverityUnique
  <1>7. b.rain_sum <= a.rain_sum /\ a.max_run <= b.max_run  BY <1>2, <1>4
  <1>8. triggered(params, b)  BY <1>4, <1>6, <1>7, TriggeredMonotone
  <1>9. severity_of(params, a) <= severity_of(params, b)
    BY <1>4, <1>7, SeverityMonotone
  <1>10. /\ severity_of(params, b) \in 0 .. BPS_DENOMINATOR
         /\ SeverityFits(params, b.rain_sum, b.max_run, severity_of(params, b))
    BY <1>4, <1>8, SeverityBounds
  <1>11. Len(t) = params.window_len  BY <1>5 DEF NoWetter
  <1>12. Breaches(params, t, severity_of(params, b))  BY <1>4, <1>10, <1>11 DEF Breaches
  <1> QED  BY <1>6, <1>9, <1>10, <1>12 DEF b

-----------------------------------------------------------------------------
(***************************************************************************)
(* What the median bounds.                                                 *)
(***************************************************************************)

(* The honest readings have a lowest and a highest.                        *)
LEMMA HonestRange ==
  /\ Min(Honest) \in Nat /\ Max(Honest) \in Nat
  /\ \A v \in Honest : v \in Nat /\ Min(Honest) <= v /\ v <= Max(Honest)
  <1> DEFINE Bounded(T) == /\ \E x \in T : \A y \in T : x <= y
                           /\ \E x \in T : \A y \in T : x >= y
             Bad == {T \in SUBSET Honest : T # {} /\ ~Bounded(T)}
  <1>1. Honest \subseteq Nat /\ Honest # {} /\ IsFiniteSet(Honest)  BY FeedAssumption
  <1>2. ASSUME Bad # {} PROVE FALSE
    <2>1. IsWellFoundedOn(StrictSubsetOrdering(Honest), FiniteSubsetsOf(Honest))
      BY FS_StrictSubsetOrderingWellFounded
    <2>2. FiniteSubsetsOf(Honest) = SUBSET Honest  BY <1>1, FS_FiniteSubsetsOfFinite
    <2>3. Bad \subseteq FiniteSubsetsOf(Honest)  BY <2>2
    <2>4. PICK T \in Bad : \A U \in Bad : <<U, T>> \notin StrictSubsetOrdering(Honest)
      <3> HIDE DEF Bad
      <3> QED  BY <1>2, <2>1, <2>3, WFMin
    <2>5. PICK e \in T : TRUE  OBVIOUS
    <2>6. <<T \ {e}, T>> \in StrictSubsetOrdering(Honest)  BY <2>5 DEF StrictSubsetOrdering
    <2>7. T \subseteq Nat  BY <1>1
    <2>8. CASE T = {e}
      <3>1. Bounded(T)  BY <2>5, <2>7, <2>8
      <3> QED  BY <3>1
    <2>9. CASE T # {e}
      <3>1. T \ {e} # {} /\ T \ {e} \in SUBSET Honest  BY <2>5, <2>9
      <3>2. Bounded(T \ {e})  BY <2>4, <2>6, <3>1
      <3>3. PICK lo \in T \ {e} : \A y \in T \ {e} : lo <= y  BY <3>2
      <3>4. PICK hi \in T \ {e} : \A y \in T \ {e} : hi >= y  BY <3>2
      <3>5. \E x \in T : \A y \in T : x <= y
        <4>1. CASE e <= lo
          <5>1. \A y \in T : e <= y  BY <2>5, <2>7, <3>3, <4>1
          <5> QED  BY <5>1
        <4>2. CASE lo <= e
          <5>1. \A y \in T : lo <= y  BY <2>5, <2>7, <3>3, <4>2
          <5> QED  BY <5>1
        <4> QED  BY <2>5, <2>7, <4>1, <4>2
      <3>6. \E x \in T : \A y \in T : x >= y
        <4>1. CASE e >= hi
          <5>1. \A y \in T : e >= y  BY <2>5, <2>7, <3>4, <4>1
          <5> QED  BY <5>1
        <4>2. CASE hi >= e
          <5>1. \A y \in T : hi >= y  BY <2>5, <2>7, <3>4, <4>2
          <5> QED  BY <5>1
        <4> QED  BY <2>5, <2>7, <4>1, <4>2
      <3> QED  BY <3>5, <3>6
    <2> QED  BY <2>8, <2>9
  <1>3. Bounded(Honest)  BY <1>1, <1>2
  <1>4. Min(Honest) \in Honest /\ \A y \in Honest : Min(Honest) <= y  BY <1>3 DEF Min
  <1>5. Max(Honest) \in Honest /\ \A y \in Honest : Max(Honest) >= y  BY <1>3 DEF Max
  <1>6. \A y \in Honest : y <= Max(Honest)  BY <1>1, <1>5
  <1> QED  BY <1>1, <1>4, <1>5, <1>6

(* What an honest publisher has in the ring is an honest reading.          *)
HonestSlots ==
  \A slot \in DOMAIN obs : obs[slot].publisher \notin Liars => obs[slot].value \in Honest

Sighting == [seq : Nat, publisher : Publishers]

(* If the liars are outvoted in E, v is within the honest readings.        *)
Backed(E, v) ==
  2 * Cardinality({o \in E : o.publisher \in Liars}) < Cardinality(E) =>
    Min(Honest) <= v /\ v <= Max(Honest)

Sighted(V) == {[seq |-> seq_in[slot], publisher |-> obs[slot].publisher] : slot \in V}

(* Every slot has a sequence number of its own, so that observations are   *)
(* as many as their slots.                                                 *)
LEMMA SightedCount ==
  ASSUME OracleIInv, NEW V \in SUBSET valid_slots, IsFiniteSet(V)
  PROVE  /\ IsFiniteSet(Sighted(V))
         /\ Cardinality(Sighted(V)) = Cardinality(V)
  <1> DEFINE m == [slot \in V |-> [seq |-> seq_in[slot], publisher |-> obs[slot].publisher]]
             E == Sighted(V)
  <1>1. \A slot \in V : slot \in DOMAIN obs
    BY DEF valid_slots, counts, Has
  <1>2. \A slot \in V : seq_in[slot] % RING_SIZE = slot
    BY <1>1 DEF OracleIInv, RingInPlace
  <1>3. m \in [V -> E] /\ \A e \in E : \E slot \in V : m[slot] = e  BY DEF Sighted
  <1>4. ASSUME NEW s1 \in V, NEW s2 \in V, m[s1] = m[s2] PROVE s1 = s2
    <2>1. m[s1].seq = seq_in[s1] /\ m[s2].seq = seq_in[s2]  OBVIOUS
    <2>2. seq_in[s1] = seq_in[s2]  BY <1>4, <2>1
    <2> QED  BY <1>2, <2>2
  <1> HIDE DEF m, E
  <1>5. m \in Surjection(V, E)  BY <1>3 DEF Surjection
  <1>6. m \in Injection(V, E)  BY <1>3, <1>4 DEF Injection, IsInjective
  <1>7. IsFiniteSet(E) /\ (Cardinality(E) = Cardinality(V) <=> m \in Injection(V, E))
    BY <1>5, FS_Surjection
  <1> QED  BY <1>6, <1>7 DEF E

(* A median in which the liars are outvoted lies within the honest         *)
(* readings.                                                               *)
LEMMA MedianBacked ==
  ASSUME OracleIInv, HonestSlots, median_defined
  PROVE  counted \in SUBSET Sighting /\ median \in Nat /\ Backed(counted, median)
  <1> DEFINE P == {slot \in valid_slots : obs[slot].publisher \in Liars}
  <1>1. /\ IsFiniteSet(valid_slots) /\ median \in Nat
        /\ 2 * Cardinality(Below) <= Cardinality(valid_slots)
        /\ 2 * Cardinality(Above) <= Cardinality(valid_slots)
    BY MedianSplits
  <1>2. counted = Sighted(valid_slots)  BY DEF counted, Sighted
  <1>3. {o \in counted : o.publisher \in Liars} = Sighted(P)
    BY <1>2 DEF Sighted
  <1>4. P \in SUBSET valid_slots  OBVIOUS
  <1>5. /\ Cardinality(Sighted(P)) = Cardinality(P)
        /\ Cardinality(counted) = Cardinality(valid_slots)
    <2> HIDE DEF P
    <2>1. IsFiniteSet(P)  BY <1>1, <1>4, FS_Subset
    <2> QED  BY <1>1, <1>2, <1>4, <2>1, SightedCount
  <1>6. \A slot \in valid_slots : slot \in DOMAIN obs /\ slot \in DOMAIN seq_in
    BY DEF valid_slots, counts, Has, OracleIInv, RingInPlace
  <1>7. counted \in SUBSET Sighting
    <2>1. \A slot \in valid_slots : obs[slot].publisher \in Publishers
      BY <1>6 DEF OracleIInv, OracleTypeOK, Observation
    <2>2. \A slot \in valid_slots : seq_in[slot] \in Nat
      BY <1>6 DEF OracleIInv, OracleTypeOK
    <2> QED  BY <2>1, <2>2 DEF counted, Sighting
  <1>8. ASSUME 2 * Cardinality(P) < Cardinality(valid_slots)
        PROVE  Min(Honest) <= median /\ median <= Max(Honest)
    <2>1. Below \in SUBSET valid_slots /\ Above \in SUBSET valid_slots
      BY DEF Below, Above
    <2>2. PICK lo \in valid_slots \ P : lo \notin Above
      <3> HIDE DEF P
      <3> QED  BY <1>1, <1>4, <1>8, <2>1, MajorityReaches
    <2>3. PICK hi \in valid_slots \ P : hi \notin Below
      <3> HIDE DEF P
      <3> QED  BY <1>1, <1>4, <1>8, <2>1, MajorityReaches
    <2>4. obs[lo].value \in Honest /\ obs[hi].value \in Honest
      BY <1>6 DEF HonestSlots
    <2>5. /\ obs[lo].value \in Nat /\ Min(Honest) <= obs[lo].value
          /\ obs[hi].value \in Nat /\ obs[hi].value <= Max(Honest)
          /\ Min(Honest) \in Nat /\ Max(Honest) \in Nat
      BY <2>4, HonestRange
    <2>6. ~(obs[lo].value > median) /\ ~(obs[hi].value < median)
      BY <2>2, <2>3 DEF Above, Below
    <2> QED  BY <1>1, <2>5, <2>6
  <1>9. Backed(counted, median)  BY <1>3, <1>5, <1>8 DEF Backed
  <1> QED  BY <1>1, <1>7, <1>9

-----------------------------------------------------------------------------
(***************************************************************************)
(* The inductive invariant: both contracts' invariants, what is in the     *)
(* ring, and what every recorded day rests on.                             *)
(***************************************************************************)

(* Every day of the window has the observations behind its reading.        *)
Evidenced(key) ==
  LET E == evidence[key]
      s == series[key]
  IN  /\ E \in Seq(SUBSET Sighting)
      /\ Len(E) = Len(s)
      /\ \A n \in 1 .. Len(s) : Backed(E[n], s[n].value)

FeedIInv ==
  /\ OracleIInv
  /\ IInv
  /\ HonestSlots
  /\ DOMAIN evidence = Keys
  /\ \A key \in Keys : Evidenced(key)

(* Both contracts start in the invariant.                                  *)
LEMMA InitFeedIInv == FeedInit => FeedIInv
  <1> SUFFICES ASSUME FeedInit PROVE FeedIInv  OBVIOUS
  <1>1. now = 0  BY DEF FeedInit, Init
  <1>2. OracleIInv
    <2> USE <1>1 DEF FeedInit, Empty
    <2>1. OracleTypeOK  BY RingAssumption, TimeAssumption, MaxTimeAssumption DEF OracleTypeOK
    <2>2. PendingMatchesRegistry /\ PendingAfterChange
      BY DEF PendingMatchesRegistry, PendingAfterChange
    <2>3. RingInPlace  BY RingAssumption DEF RingInPlace, Least
    <2>4. FlagsRecorded  BY DEF FlagsRecorded
    <2> QED  BY <2>1, <2>2, <2>3, <2>4 DEF OracleIInv
  <1>3. IInv  BY InitIInv DEF FeedInit
  <1>4. HonestSlots  BY DEF FeedInit, Empty, HonestSlots
  <1>5. DOMAIN evidence = Keys  BY DEF FeedInit
  <1>6. ASSUME NEW key \in Keys PROVE Evidenced(key)
    <2>1. evidence[key] = <<>> /\ series[key] = <<>>  BY DEF FeedInit, Init
    <2>2. <<>> \in Seq(SUBSET Sighting) /\ Len(<<>>) = 0  OBVIOUS
    <2> QED  BY <2>1, <2>2 DEF Evidenced
  <1> QED  BY <1>2, <1>3, <1>4, <1>5, <1>6 DEF FeedIInv

(* A call to the adapter leaves the engine alone, and an honest publisher  *)
(* submits an honest reading.                                              *)
LEMMA AdapterCallIInv ==
  ASSUME FeedIInv, adapter_call
  PROVE  FeedIInv'
  <1>1. /\ OracleIInv /\ HonestSlots
        /\ UNCHANGED <<index_count, index_def, oracle_set, window, state, evidence>>
    BY DEF FeedIInv, adapter_call, engine
  <1>2. OracleIInv' /\ HonestSlots' /\ now' = now
    <2>1. ASSUME NEW p \in Publishers, NEW timestamp \in 0 .. MaxTime,
                 NEW value \in IF p \in Liars THEN Readings ELSE Honest,
                 submit(timestamp, value, p)
          PROVE  OracleIInv' /\ HonestSlots' /\ now' = now
      <3>1. value \in Readings  BY FeedAssumption
      <3>2. OracleIInv'  BY <1>1, <2>1, <3>1, SubmitIInv
      <3>3. /\ now' = now
            /\ DOMAIN obs' = DOMAIN obs \cup {ring_slot}
            /\ \A slot \in DOMAIN obs' :
                 obs'[slot] = IF slot = ring_slot
                              THEN [value |-> value, timestamp |-> timestamp, publisher |-> p]
                              ELSE obs[slot]
        BY <2>1 DEF submit, Put
      <3>4. ASSUME NEW slot \in DOMAIN obs', obs'[slot].publisher \notin Liars
            PROVE  obs'[slot].value \in Honest
        <4>1. CASE slot = ring_slot
          <5>1. obs'[slot].publisher = p /\ obs'[slot].value = value  BY <3>3, <4>1
          <5> QED  BY <3>4, <5>1
        <4>2. CASE slot # ring_slot
          <5>1. obs'[slot] = obs[slot] /\ slot \in DOMAIN obs  BY <3>3, <4>2
          <5> QED  BY <1>1, <3>4, <5>1 DEF HonestSlots
        <4> QED  BY <4>1, <4>2
      <3>5. HonestSlots'  BY <3>4 DEF HonestSlots
      <3> QED  BY <3>2, <3>3, <3>5
    <2>2. ASSUME NEW slot \in Slots, challenge(slot) \/ unchallenge(slot)
          PROVE  OracleIInv' /\ HonestSlots' /\ now' = now
      <3>1. OracleIInv'  BY <1>1, <2>2, ChallengeIInv, UnchallengeIInv
      <3>2. obs' = obs /\ now' = now  BY <2>2 DEF challenge, unchallenge
      <3> QED  BY <1>1, <3>1, <3>2 DEF HonestSlots
    <2> QED  BY <2>1, <2>2 DEF adapter_call
  <1>3. IInv'
    BY <1>1, <1>2 DEF FeedIInv, window, IInv, TypeOK, Recorded, Decided, Floor_of
  <1>4. DOMAIN evidence' = Keys /\ \A key \in Keys : Evidenced(key)'
    BY <1>1 DEF FeedIInv, Evidenced, window
  <1> QED  BY <1>2, <1>3, <1>4 DEF FeedIInv

(* What leaves the ring, the registry and the clock alone keeps the        *)
(* oracle's part.                                                          *)
LEMMA OracleKept ==
  ASSUME OracleIInv, HonestSlots, UNCHANGED adapter, UNCHANGED now
  PROVE  OracleIInv' /\ HonestSlots'
  <1>1. UNCHANGED oracle_vars  BY DEF adapter, oracle_vars
  <1>2. OracleIInv'  BY <1>1, OracleNextIInv
  <1>3. HonestSlots'  BY DEF HonestSlots, adapter, ring
  <1> QED  BY <1>2, <1>3

(* A call to the engine that folds no day.                                 *)
LEMMA EngineCallIInv ==
  ASSUME FeedIInv, engine_call
  PROVE  FeedIInv'
  <1>1. UNCHANGED adapter /\ UNCHANGED evidence  BY DEF engine_call
  <1>2. UNCHANGED series /\ UNCHANGED now
    BY DEF engine_call, create_index, set_oracle, evaluate, finalize, window
  <1>3. IInv'
    <2>1. IInv  BY DEF FeedIInv
    <2> QED
      BY <2>1, CreateIInv, SetOracleIInv, EvaluateIInv, FinalizeIInv DEF engine_call
  <1>4. OracleIInv' /\ HonestSlots'  BY <1>1, <1>2, OracleKept DEF FeedIInv
  <1>5. DOMAIN evidence' = Keys /\ \A key \in Keys : Evidenced(key)'
    BY <1>1, <1>2 DEF FeedIInv, Evidenced
  <1> QED  BY <1>3, <1>4, <1>5 DEF FeedIInv

(* A block closes for both contracts.                                      *)
LEMMA FeedTickIInv ==
  ASSUME FeedIInv, FeedTick
  PROVE  FeedIInv'
  <1>1. Tick /\ UNCHANGED adapter /\ UNCHANGED evidence  BY DEF FeedTick
  <1>2. OracleTick  BY <1>1 DEF Tick, OracleTick, adapter
  <1>3. IInv'  BY <1>1, TickIInv DEF FeedIInv
  <1>4. OracleIInv'  BY <1>2, OracleTickIInv DEF FeedIInv
  <1>5. HonestSlots'  BY <1>1 DEF FeedIInv, HonestSlots, adapter, ring
  <1>6. DOMAIN evidence' = Keys /\ \A key \in Keys : Evidenced(key)'
    BY <1>1 DEF FeedIInv, Evidenced, Tick, window
  <1> QED  BY <1>3, <1>4, <1>5, <1>6 DEF FeedIInv

(* A folded day comes with the observations behind it.                     *)
LEMMA RecordFeedIInv ==
  ASSUME FeedIInv, NEW key \in Keys, NEW day \in Days, NEW value \in Int,
         Has(index_def, key[1]), fold_day(key, day, value),
         NEW E \in SUBSET Sighting, Backed(E, value),
         evidence' = [evidence EXCEPT ![key] = Append(@, E)], UNCHANGED adapter
  PROVE  FeedIInv'
  <1>1. IInv'  BY FoldIInv DEF FeedIInv
  <1>2. UNCHANGED now  BY DEF fold_day
  <1>3. OracleIInv' /\ HonestSlots'  BY <1>2, OracleKept DEF FeedIInv
  <1>4. /\ DOMAIN evidence = Keys /\ DOMAIN series = Keys
        /\ \A k \in Keys : Evidenced(k)
        /\ Recorded(key)
    BY DEF FeedIInv, IInv
  <1>5. DOMAIN evidence' = Keys  BY <1>4
  <1> DEFINE F == evidence[key]
             s == series[key]
             r == [day |-> day, value |-> value]
  <1>6. series' = [series EXCEPT ![key] = Append(s, r)]  BY DEF fold_day
  <1>7. /\ evidence'[key] = Append(F, E) /\ series'[key] = Append(s, r)
        /\ \A k \in Keys : k # key => evidence'[k] = evidence[k] /\ series'[k] = series[k]
    BY <1>4, <1>6
  <1>8. r.value = value /\ r \in Reading
    BY InputAssumption DEF fold_day, foldable, Reading
  <1>9. /\ F \in Seq(SUBSET Sighting) /\ s \in Seq(Reading)
        /\ Len(F) = Len(s) /\ Len(s) \in Nat
        /\ \A n \in 1 .. Len(s) : Backed(F[n], s[n].value)
    BY <1>4 DEF Evidenced, Recorded
  <1> HIDE DEF F, s, r
  <1>10. /\ Append(F, E) \in Seq(SUBSET Sighting)
         /\ Len(Append(F, E)) = Len(s) + 1 /\ Len(Append(s, r)) = Len(s) + 1
         /\ Append(F, E)[Len(s) + 1] = E /\ Append(s, r)[Len(s) + 1] = r
         /\ \A n \in 1 .. Len(s) : Append(F, E)[n] = F[n] /\ Append(s, r)[n] = s[n]
    BY <1>8, <1>9
  <1>11. ASSUME NEW n \in 1 .. Len(s) + 1
         PROVE  Backed(Append(F, E)[n], Append(s, r)[n].value)
    <2>1. CASE n = Len(s) + 1  BY <1>8, <1>10, <2>1
    <2>2. CASE n # Len(s) + 1
      <3>1. n \in 1 .. Len(s)  BY <1>9, <2>2
      <3> QED  BY <1>9, <1>10, <3>1
    <2> QED  BY <2>1, <2>2
  <1>12. Evidenced(key)'
    <2>1. Evidenced(key)' <=>
            /\ evidence'[key] \in Seq(SUBSET Sighting)
            /\ Len(evidence'[key]) = Len(series'[key])
            /\ \A n \in 1 .. Len(series'[key]) :
                 Backed(evidence'[key][n], series'[key][n].value)
      BY DEF Evidenced, Backed, Sighting
    <2> QED  BY <1>7, <1>10, <1>11, <2>1
  <1>13. ASSUME NEW k \in Keys, k # key PROVE Evidenced(k)'
    <2>1. evidence'[k] = evidence[k] /\ series'[k] = series[k]  BY <1>7, <1>13
    <2> QED  BY <1>4, <2>1 DEF Evidenced
  <1>14. \A k \in Keys : Evidenced(k)'  BY <1>12, <1>13
  <1> QED  BY <1>1, <1>3, <1>5, <1>14 DEF FeedIInv

(* Every step keeps the invariant.                                         *)
LEMMA NextFeedIInv == FeedIInv /\ [FeedNext]_feed_vars => FeedIInv'
  <1> SUFFICES ASSUME FeedIInv, [FeedNext]_feed_vars PROVE FeedIInv'  OBVIOUS
  <1>1. CASE adapter_call  BY <1>1, AdapterCallIInv
  <1>2. CASE engine_call  BY <1>2, EngineCallIInv
  <1>3. ASSUME NEW key \in Keys, NEW day \in Days, record_from_feed(key, day)
        PROVE FeedIInv'
    <2>1. /\ median_defined /\ Has(index_def, key[1]) /\ fold_day(key, day, median)
          /\ evidence' = [evidence EXCEPT ![key] = Append(@, counted)]
          /\ UNCHANGED adapter
      BY <1>3 DEF record_from_feed, record_day_from_oracle
    <2>2. counted \in SUBSET Sighting /\ median \in Nat /\ Backed(counted, median)
      BY <2>1, MedianBacked DEF FeedIInv
    <2>3. median \in Int  BY <2>2
    <2> QED  BY <2>1, <2>2, <2>3, RecordFeedIInv
  <1>4. ASSUME NEW key \in Keys, NEW day \in Days, NEW value \in Values,
               record_asserted(key, day, value)
        PROVE FeedIInv'
    <2>1. /\ Has(index_def, key[1]) /\ fold_day(key, day, value)
          /\ evidence' = [evidence EXCEPT ![key] = Append(@, {})]
          /\ UNCHANGED adapter
      BY <1>4 DEF record_asserted, record_day
    <2>2. Backed({}, value)
      <3>1. {o \in {} : o.publisher \in Liars} = {}  OBVIOUS
      <3>2. Cardinality({}) = 0  BY FS_EmptySet
      <3> QED  BY <3>1, <3>2 DEF Backed
    <2>3. value \in Int /\ {} \in SUBSET Sighting  BY InputAssumption
    <2> QED  BY <2>1, <2>2, <2>3, RecordFeedIInv
  <1>5. CASE FeedTick  BY <1>5, FeedTickIInv
  <1>6. CASE UNCHANGED feed_vars
    <2>1. /\ UNCHANGED adapter /\ UNCHANGED now /\ UNCHANGED evidence
          /\ UNCHANGED <<index_count, index_def, oracle_set, window, state, now>>
      BY <1>6 DEF feed_vars, engine
    <2>2. OracleIInv' /\ HonestSlots'  BY <2>1, OracleKept DEF FeedIInv
    <2>3. UNCHANGED vars  BY <2>1 DEF vars
    <2>4. IInv'  BY <2>3, NextIInv DEF FeedIInv
    <2>5. DOMAIN evidence' = Keys /\ \A key \in Keys : Evidenced(key)'
      BY <2>1 DEF FeedIInv, Evidenced, window
    <2> QED  BY <2>2, <2>4, <2>5 DEF FeedIInv
  <1> QED  BY <1>1, <1>2, <1>3, <1>4, <1>5, <1>6 DEF FeedNext

-----------------------------------------------------------------------------
(* record_day_from_oracle, evaluate and finalize: a window settled on      *)
(* medians in which the liars were outvoted is settled between what the    *)
(* highest and the lowest honest readings would settle it to.              *)
THEOREM LiarsOutvotedHolds == FeedSpec => []LiarsOutvoted
  <1>1. ASSUME FeedIInv, NEW key \in Keys, state[key].status = "Finalized", Outvoted(key)
        PROVE  LET params == index_def[key[1]]
               IN  /\ \E worst \in state[key].severity .. BPS_DENOMINATOR :
                        Breaches(params, Uniform(params, Min(Honest)), worst)
                   /\ \A mildest \in 0 .. BPS_DENOMINATOR :
                        Breaches(params, Uniform(params, Max(Honest)), mildest) =>
                          mildest <= state[key].severity
    <2> DEFINE params == index_def[key[1]]
               s == series[key]
               floor == params.dry_floor
               x == state[key].severity
               lo == Uniform(params, Min(Honest))
               hi == Uniform(params, Max(Honest))
               a == acc[key]
    <2>1. /\ Recorded(key) /\ Decided(key) /\ Evidenced(key) /\ a \in WindowAccumulator
      BY <1>1 DEF FeedIInv, IInv, TypeOK
    <2>2. /\ key[1] \in DOMAIN index_def
          /\ a.days_recorded = params.window_len
          /\ triggered(params, a)
          /\ x = severity_of(params, a)
      BY <1>1, <2>1 DEF Decided
    <2>3. params \in IndexParams /\ validate_params(params)
      BY <1>1, <2>2, StoredDefinition DEF FeedIInv, IInv
    <2>4. /\ s \in Seq(Reading) /\ Len(s) \in Nat /\ Len(s) = params.window_len
          /\ a.rain_sum = RainTotal(s)
          /\ IsLongest(a.max_run, DryIntervals(s, floor))
      <3>1. s \in Seq(Reading) /\ a.days_recorded = Len(s)  BY <2>1 DEF Recorded
      <3>2. a.rain_sum = RainTotal(s) /\ IsLongest(a.max_run, DryIntervals(s, floor))
        BY <2>1 DEF Recorded, Floor_of
      <3>3. Len(s) \in Nat  BY <3>1
      <3> QED  BY <2>2, <3>1, <3>2, <3>3
    <2>5. a.max_run = Longest(DryIntervals(s, floor))
      <3>1. \A p \in DryIntervals(s, floor) : p[1] \in Int /\ p[2] \in Int
        BY <2>4, DryType
      <3>2. a.max_run \in Nat  BY <2>1 DEF WindowAccumulator
      <3> HIDE DEF s, floor
      <3> QED  BY <2>4, <3>1, <3>2, LongestIs
    <2>6. \A n \in 1 .. Len(s) : /\ s[n].value \in Nat
                                 /\ Min(Honest) <= s[n].value
                                 /\ s[n].value <= Max(Honest)
      <3> SUFFICES ASSUME NEW n \in 1 .. Len(s)
                   PROVE  /\ s[n].value \in Nat
                          /\ Min(Honest) <= s[n].value /\ s[n].value <= Max(Honest)
        OBVIOUS
      <3>1. Backed(evidence[key][n], s[n].value) /\ n \in DOMAIN evidence[key]
        BY <2>1 DEF Evidenced
      <3>2. 2 * Cardinality({o \in evidence[key][n] : o.publisher \in Liars})
              < Cardinality(evidence[key][n])
        BY <1>1, <3>1 DEF Outvoted
      <3>3. s[n] \in Reading  BY <2>4
      <3> QED  BY <3>1, <3>2, <3>3 DEF Backed, Reading
    <2>7. Min(Honest) \in Nat /\ Max(Honest) \in Nat  BY HonestRange
    <2>8. ASSUME NEW v \in Nat
          PROVE  /\ Uniform(params, v) \in Seq(Reading)
                 /\ Len(Uniform(params, v)) = Len(s)
                 /\ \A n \in 1 .. Len(s) : Uniform(params, v)[n].value = v
      <3> DEFINE u == Uniform(params, v)
      <3>1. u = [n \in 1 .. Len(s) |-> [day |-> n, value |-> v]]  BY <2>4 DEF Uniform
      <3>2. \A n \in 1 .. Len(s) : u[n] \in Reading /\ u[n].value = v
        BY <2>4, <3>1 DEF Reading
      <3>3. u \in [1 .. Len(s) -> Reading]  BY <3>1, <3>2
      <3> HIDE DEF u, s
      <3>4. u \in Seq(Reading) /\ Len(u) = Len(s)  BY <2>4, <3>3
      <3> QED  BY <3>2, <3>4 DEF u
    <2>9. NoWetter(lo, s) /\ NoWetter(s, hi)
      <3>1. /\ Len(lo) = Len(s) /\ Len(hi) = Len(s)
            /\ \A n \in 1 .. Len(s) : lo[n].value = Min(Honest) /\ hi[n].value = Max(Honest)
        BY <2>7, <2>8
      <3> HIDE DEF lo, hi, s
      <3> QED  BY <2>6, <3>1 DEF NoWetter
    <2>10. lo \in Seq(Reading) /\ hi \in Seq(Reading)  BY <2>7, <2>8
    <2> HIDE DEF params, s, lo, hi, x, a
    <2>11. x \in 0 .. BPS_DENOMINATOR /\ SeverityFits(params, a.rain_sum, a.max_run, x)
      BY <2>1, <2>2, <2>3, SeverityBounds
    <2>12. x \in Int /\ BPS_DENOMINATOR \in Nat  BY <2>11, BpsAssumption
    <2>13. Breaches(params, s, x)  BY <2>4, <2>5, <2>11 DEF Breaches
    <2>14. \E worst \in x .. BPS_DENOMINATOR : Breaches(params, lo, worst)
      <3> DEFINE worse == severity_of(params, Reduced(lo, floor))
      <3>1. /\ worse \in 0 .. BPS_DENOMINATOR /\ x <= worse
            /\ Breaches(params, lo, worse)
        BY <2>3, <2>4, <2>9, <2>10, <2>12, <2>13, NoWetterBreaches
      <3> HIDE DEF worse
      <3>2. worse \in x .. BPS_DENOMINATOR  BY <2>12, <3>1
      <3> QED  BY <3>1, <3>2
    <2>15. ASSUME NEW mildest \in 0 .. BPS_DENOMINATOR, Breaches(params, hi, mildest)
           PROVE  mildest <= x
      <3> DEFINE b == Reduced(s, floor)
                 worse == severity_of(params, b)
      <3>1. mildest \in Int  BY <2>12
      <3>2. mildest <= worse /\ worse \in 0 .. BPS_DENOMINATOR /\ Breaches(params, s, worse)
        BY <2>3, <2>4, <2>9, <2>10, <2>15, <3>1, NoWetterBreaches
      <3> HIDE DEF b, worse
      <3>3. worse \in Int  BY <2>12, <3>2
      <3>4. SeverityFits(params, a.rain_sum, a.max_run, worse)
        BY <2>4, <2>5, <3>2 DEF Breaches
      <3>5. worse = x  BY <2>1, <2>2, <2>3, <3>3, <3>4, SeverityUnique
      <3> QED  BY <3>2, <3>5
    <2> QED  BY <2>14, <2>15 DEF x, lo, hi, params
  <1>2. FeedIInv => LiarsOutvoted  BY <1>1 DEF LiarsOutvoted
  <1>3. FeedIInv /\ [FeedNext]_feed_vars => FeedIInv'  BY NextFeedIInv
  <1> QED  BY InitFeedIInv, <1>2, <1>3, PTL DEF FeedSpec
=============================================================================
