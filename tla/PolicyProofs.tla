---------------------------- MODULE PolicyProofs ----------------------------
(***************************************************************************)
(* Theorems about the policy contract over the risk-pool, for any curve,   *)
(* any terms, any list of entries and any number of certificates.          *)
(*                                                                         *)
(* The pool's invariant IInv is extended by the certificates.  What makes  *)
(* PremiumBeforePolicy inductive is that the fees of a list of premiums,   *)
(* each clamped to the room the earlier ones left under the cap, and the   *)
(* nets recorded on the certificates split the list's sum exactly.         *)
(* RefundsFunded then follows from the pool's Backing: the nets of the     *)
(* seasons in flight, regrouped by season, are covered by premiums_in.     *)
(***************************************************************************)
EXTENDS Policy, RiskPoolProofs, SequenceTheorems

-----------------------------------------------------------------------------
(***************************************************************************)
(* The fees of a list of premiums.                                         *)
(***************************************************************************)

(* F is the running total of the fees of a list, from start.               *)
Running(F, bps, cap, start, premiums) ==
  F = [k \in 0 .. Len(premiums) |->
         IF k = 0 THEN start
         ELSE F[k - 1] + accrue_fee(premiums[k], bps, F[k - 1], cap)]

(* accrued is such a running total.                                        *)
LEMMA AccruedRuns ==
  ASSUME NEW bps, NEW cap, NEW start, NEW premiums, Len(premiums) \in Nat
  PROVE  Running(accrued(bps, cap, start, premiums), bps, cap, start, premiums)
  <1> DEFINE n == Len(premiums)
             next(k, x) == x + accrue_fee(premiums[k], bps, x, cap)
             Upto(m, f) == f = [k \in 0 .. m |-> IF k = 0 THEN start ELSE next(k, f[k - 1])]
             S == {m \in 0 .. n : \E f : Upto(m, f)}
  <1>1. 0 \in S
    <2> DEFINE f == [k \in 0 .. 0 |-> start]
    <2>1. Upto(0, f)  OBVIOUS
    <2> HIDE DEF f, Upto
    <2> QED  BY <2>1
  <1>2. ASSUME NEW m \in 0 .. n - 1, m \in S PROVE m + 1 \in S
    <2>1. PICK f : Upto(m, f)  BY <1>2
    <2> DEFINE g == [k \in 0 .. m + 1 |-> IF k = m + 1 THEN next(m + 1, f[m]) ELSE f[k]]
    <2> HIDE DEF next
    <2>2. ASSUME NEW k \in 0 .. m + 1
          PROVE  g[k] = IF k = 0 THEN start ELSE next(k, g[k - 1])
      <3>1. CASE k = m + 1
        <4>1. k # 0 /\ k - 1 = m /\ m \in 0 .. m + 1 /\ m # m + 1  BY <3>1
        <4> QED  BY <3>1, <4>1
      <3>2. CASE k # m + 1
        <4>1. k \in 0 .. m /\ g[k] = f[k]  BY <3>2
        <4>2. k # 0 => k - 1 \in 0 .. m /\ k - 1 # m + 1 /\ k - 1 \in 0 .. m + 1  BY <4>1
        <4>3. k # 0 => g[k - 1] = f[k - 1]  BY <4>2
        <4>4. f[k] = IF k = 0 THEN start ELSE next(k, f[k - 1])  BY <2>1, <4>1
        <4> QED  BY <4>1, <4>3, <4>4
      <3> QED  BY <3>1, <3>2
    <2>3. g = [k \in 0 .. m + 1 |-> g[k]]  OBVIOUS
    <2>4. Upto(m + 1, g)
      <3> HIDE DEF g
      <3> QED  BY <2>2, <2>3
    <2>5. m + 1 \in 0 .. n  OBVIOUS
    <2> QED  BY <2>4, <2>5
  <1>3. n \in S
    <2> HIDE DEF S
    <2>1. 0 .. n \subseteq S  BY <1>1, <1>2, Climb
    <2> QED  BY <2>1
  <1>4. PICK f : Upto(n, f)  BY <1>3
  <1>5. Running(f, bps, cap, start, premiums)  BY <1>4 DEF Running
  <1>6. accrued(bps, cap, start, premiums) =
          CHOOSE F : F = [k \in 0 .. Len(premiums) |->
                            IF k = 0 THEN start
                            ELSE F[k - 1] + accrue_fee(premiums[k], bps, F[k - 1], cap)]
    BY DEF accrued
  <1>7. (CHOOSE F : F = [k \in 0 .. Len(premiums) |->
                            IF k = 0 THEN start
                            ELSE F[k - 1] + accrue_fee(premiums[k], bps, F[k - 1], cap)])
          = CHOOSE F : Running(F, bps, cap, start, premiums)
    BY DEF Running
  <1> QED  BY <1>5, <1>6, <1>7

(* A running total of fees never falls, takes at most the rate's share of  *)
(* each premium, and stays under a cap it started under.                   *)
Accrues(F, bps, cap, start, n, premiums) ==
  /\ F \in [0 .. n -> Nat]
  /\ F[0] = start
  /\ \A k \in 1 .. n : /\ F[k - 1] <= F[k]
                       /\ F[k] - F[k - 1] <= apply_bps(premiums[k], bps)
  /\ cap > 0 /\ start <= cap => F[n] <= cap

(* accrued is one.                                                         *)
LEMMA FeesAccrue ==
  ASSUME NEW bps \in Nat, NEW cap \in Nat, NEW start \in Nat, NEW n \in Nat,
         NEW premiums \in [1 .. n -> Nat], Len(premiums) = n
  PROVE  Accrues(accrued(bps, cap, start, premiums), bps, cap, start, n, premiums)
  <1> DEFINE F == accrued(bps, cap, start, premiums)
             fee(k) == accrue_fee(premiums[k], bps, F[k - 1], cap)
             S == {k \in 0 .. n : F[k] \in Nat /\ (cap > 0 /\ start <= cap => F[k] <= cap)}
  <1>1. Running(F, bps, cap, start, premiums)  BY AccruedRuns
  <1> HIDE DEF F
  <1>2. F = [k \in 0 .. n |-> IF k = 0 THEN start ELSE F[k - 1] + fee(k)]
    BY <1>1 DEF Running
  <1>3. F[0] = start  BY <1>2
  <1>4. \A k \in 1 .. n : F[k] = F[k - 1] + fee(k)  BY <1>2
  <1>5. ASSUME NEW k \in 1 .. n, F[k - 1] \in Nat
        PROVE  /\ fee(k) \in Nat /\ fee(k) <= apply_bps(premiums[k], bps)
               /\ apply_bps(premiums[k], bps) \in Nat
               /\ cap > 0 /\ F[k - 1] <= cap => F[k - 1] + fee(k) <= cap
    <2>1. premiums[k] \in Nat /\ premiums[k] * bps \in Nat  BY ProductNat
    <2>2. apply_bps(premiums[k], bps) \in Nat
      BY <2>1, BpsAssumption, DivBounds DEF apply_bps
    <2> QED  BY <1>5, <2>1, <2>2, FeeBounds
  <1>6. 0 \in S  BY <1>3
  <1>7. ASSUME NEW m \in 0 .. n - 1, m \in S PROVE m + 1 \in S
    <2>1. m + 1 \in 1 .. n /\ m + 1 - 1 = m /\ m + 1 \in 0 .. n  OBVIOUS
    <2>2. F[m + 1] = F[m] + fee(m + 1)  BY <1>4, <2>1
    <2>3. F[m] \in Nat /\ (cap > 0 /\ start <= cap => F[m] <= cap)  BY <1>7
    <2>4. fee(m + 1) \in Nat /\ (cap > 0 /\ F[m] <= cap => F[m] + fee(m + 1) <= cap)
      BY <1>5, <2>1, <2>3
    <2> HIDE DEF fee
    <2>5. F[m + 1] \in Nat  BY <2>2, <2>3, <2>4
    <2>6. cap > 0 /\ start <= cap => F[m + 1] <= cap  BY <2>2, <2>3, <2>4
    <2> QED  BY <2>1, <2>5, <2>6
  <1>8. 0 .. n \subseteq S
    <2> HIDE DEF S
    <2> QED  BY <1>6, <1>7, Climb
  <1>9. \A k \in 0 .. n : F[k] \in Nat  BY <1>8
  <1>10. F \in [0 .. n -> Nat]  BY <1>2, <1>9
  <1>11. ASSUME NEW k \in 1 .. n
         PROVE  F[k - 1] <= F[k] /\ F[k] - F[k - 1] <= apply_bps(premiums[k], bps)
    <2>1. k - 1 \in 0 .. n  OBVIOUS
    <2>2. F[k - 1] \in Nat  BY <1>9, <2>1
    <2>3. /\ fee(k) \in Nat /\ fee(k) <= apply_bps(premiums[k], bps)
          /\ apply_bps(premiums[k], bps) \in Nat
      BY <1>5, <2>2
    <2>4. F[k] = F[k - 1] + fee(k)  BY <1>4
    <2> HIDE DEF fee
    <2> QED  BY <2>2, <2>3, <2>4
  <1>12. cap > 0 /\ start <= cap => F[n] <= cap
    <2>1. n \in S  BY <1>8
    <2> QED  BY <2>1
  <1> QED  BY <1>3, <1>10, <1>11, <1>12 DEF F, Accrues

(* The list of premiums splits exactly into the nets of the certificates   *)
(* and what the two fees grew by, and no net is negative.                  *)
LEMMA NetsSplit ==
  ASSUME TypeOK, FeeCaps, PoolExists, NEW n \in Nat,
         NEW premiums \in [1 .. n -> Nat], Len(premiums) = n
  PROVE  LET P == protocol_accrued(premiums)[n]
             Q == publisher_accrued(premiums)[n]
             net == nets(premiums)
         IN  /\ P \in Nat /\ protocol_fees <= P
             /\ Q \in Nat /\ publisher_fees <= Q
             /\ config.protocol_cap > 0 => P <= config.protocol_cap
             /\ config.publisher_cap > 0 => Q <= config.publisher_cap
             /\ net \in [1 .. n -> Nat]
             /\ \A k \in 1 .. n : net[k] <= premiums[k]
             /\ Total(net) \in Nat
             /\ Total(premiums) \in Nat
             /\ Total(net) = Total(premiums) - (P - protocol_fees) - (Q - publisher_fees)
  <1> DEFINE p == config.protocol_bps
             q == config.publisher_bps
             F == protocol_accrued(premiums)
             G == publisher_accrued(premiums)
             f == [k \in 1 .. n |-> F[k] - F[k - 1]]
             g == [k \in 1 .. n |-> G[k] - G[k - 1]]
             net == nets(premiums)
  <1>1. config \in Configs /\ valid_config(config)  BY DEF TypeOK, PoolExists
  <1>2. /\ p \in Nat /\ q \in Nat /\ p + q <= BPS_DENOMINATOR
        /\ config.protocol_cap \in Nat /\ config.publisher_cap \in Nat
    BY <1>1, ConfigAssumption DEF PoolConfig, valid_config
  <1>3. /\ protocol_fees \in Nat /\ publisher_fees \in Nat
        /\ config.protocol_cap > 0 => protocol_fees <= config.protocol_cap
        /\ config.publisher_cap > 0 => publisher_fees <= config.publisher_cap
    BY DEF TypeOK, FeeCaps
  <1>4. /\ F \in [0 .. n -> Nat] /\ F[0] = protocol_fees
        /\ \A k \in 1 .. n : /\ F[k - 1] <= F[k]
                             /\ F[k] - F[k - 1] <= apply_bps(premiums[k], p)
        /\ config.protocol_cap > 0 => F[n] <= config.protocol_cap
    <2>1. Accrues(F, p, config.protocol_cap, protocol_fees, n, premiums)
      BY <1>2, <1>3, FeesAccrue DEF protocol_accrued
    <2> HIDE DEF F, p
    <2> QED  BY <1>3, <2>1 DEF Accrues
  <1>5. /\ G \in [0 .. n -> Nat] /\ G[0] = publisher_fees
        /\ \A k \in 1 .. n : /\ G[k - 1] <= G[k]
                             /\ G[k] - G[k - 1] <= apply_bps(premiums[k], q)
        /\ config.publisher_cap > 0 => G[n] <= config.publisher_cap
    <2>1. Accrues(G, q, config.publisher_cap, publisher_fees, n, premiums)
      BY <1>2, <1>3, FeesAccrue DEF publisher_accrued
    <2> HIDE DEF G, q
    <2> QED  BY <1>3, <2>1 DEF Accrues
  <1>6. DOMAIN premiums = 1 .. n  OBVIOUS
  <1>7. net = [k \in 1 .. n |-> premiums[k] - (F[k] - F[k - 1]) - (G[k] - G[k - 1])]
    BY <1>6 DEF nets
  <1> HIDE DEF F, G, p, q
  <1>8. /\ f \in [1 .. n -> Nat] /\ IsFiniteSet(Units(f)) /\ Total(f) = F[n] - F[0]
        /\ g \in [1 .. n -> Nat] /\ IsFiniteSet(Units(g)) /\ Total(g) = G[n] - G[0]
    BY <1>4, <1>5, Telescope
  <1>9. ASSUME NEW k \in 1 .. n
        PROVE  /\ premiums[k] \in Nat /\ f[k] \in Nat /\ g[k] \in Nat
               /\ net[k] = premiums[k] - f[k] - g[k]
               /\ net[k] \in Nat /\ net[k] <= premiums[k]
    <2>1. premiums[k] \in Nat /\ f[k] \in Nat /\ g[k] \in Nat  BY <1>8
    <2>2. f[k] <= apply_bps(premiums[k], p) /\ g[k] <= apply_bps(premiums[k], q)
      BY <1>4, <1>5
    <2>3. /\ apply_bps(premiums[k], p) \in Nat /\ apply_bps(premiums[k], q) \in Nat
          /\ apply_bps(premiums[k], p) + apply_bps(premiums[k], q) <= premiums[k]
      BY <1>2, <2>1, TwoRates
    <2>4. net[k] = premiums[k] - f[k] - g[k]  BY <1>7
    <2> HIDE DEF f, g, net
    <2> QED  BY <2>1, <2>2, <2>3, <2>4
  <1>10. net \in [1 .. n -> Nat]  BY <1>7, <1>9
  <1> HIDE DEF f, g, net
  <1>11. IsFiniteSet(1 .. n)  BY FS_Interval
  <1>12. IsFiniteSet(Units(net)) /\ Total(net) \in Nat  BY <1>10, <1>11, FiniteLedger
  <1>13. Total(premiums) \in Nat  BY <1>11, FiniteLedger
  <1> DEFINE nf == [k \in 1 .. n |-> net[k] + f[k]]
             nfg == [k \in 1 .. n |-> nf[k] + g[k]]
  <1>14. IsFiniteSet(Units(nf)) /\ Total(nf) = Total(net) + Total(f)
    BY <1>8, <1>10, <1>12, TotalAdd
  <1>15. nf \in [1 .. n -> Nat]  BY <1>9
  <1>16. nfg = premiums
    <2>1. \A k \in 1 .. n : nfg[k] = premiums[k]  BY <1>9
    <2> QED  BY <2>1
  <1> HIDE DEF nf
  <1>17. Total(nfg) = Total(nf) + Total(g)  BY <1>8, <1>14, <1>15, TotalAdd
  <1>18. n \in 0 .. n  OBVIOUS
  <1>19. F[n] \in Nat /\ F[0] \in Nat /\ G[n] \in Nat /\ G[0] \in Nat
    BY <1>3, <1>4, <1>5, <1>18
  <1>20. Total(f) \in Nat /\ Total(g) \in Nat  BY <1>8, FS_CardinalityType DEF Total
  <1>21. F[0] <= F[n] /\ G[0] <= G[n]  BY <1>8, <1>19, <1>20
  <1> HIDE DEF nfg
  <1>22. Total(net) = Total(premiums) - (F[n] - F[0]) - (G[n] - G[0])
    BY <1>8, <1>12, <1>13, <1>14, <1>16, <1>17, <1>19
  <1>23. \A k \in 1 .. n : net[k] <= premiums[k]  BY <1>9
  <1> QED
    BY <1>4, <1>5, <1>10, <1>12, <1>13, <1>19, <1>21, <1>22, <1>23 DEF F, G, net

-----------------------------------------------------------------------------
(***************************************************************************)
(* The inductive invariant.                                                *)
(***************************************************************************)

PolicyIInv == IInv /\ PolicyTypeOK /\ PremiumBeforePolicy

(* The nets of the standing certificates of some seasons.                  *)
netsOf(S) == [id \in standing(S) |-> policy[id].net_reserved]

(* They are a finite ledger.                                               *)
LEMMA ReservedLedger ==
  ASSUME PolicyTypeOK, NEW S
  PROVE  /\ IsFiniteSet(DOMAIN policy)
         /\ IsFiniteSet(standing(S))
         /\ netsOf(S) \in [standing(S) -> Nat]
         /\ IsFiniteSet(Units(netsOf(S)))
         /\ reserved(S) = Total(netsOf(S))
         /\ reserved(S) \in Nat
  <1>1. DOMAIN policy = 1 .. policy_counter /\ policy_counter \in Nat
    BY PolicyBoundAssumption DEF PolicyTypeOK
  <1>2. IsFiniteSet(DOMAIN policy)  BY <1>1, FS_Interval
  <1>3. standing(S) \subseteq DOMAIN policy  BY DEF standing
  <1>4. IsFiniteSet(standing(S))  BY <1>2, <1>3, FS_Subset
  <1>5. netsOf(S) \in [standing(S) -> Nat]
    BY <1>3 DEF PolicyTypeOK, PolicyRecord, netsOf
  <1>6. IsFiniteSet(Units(netsOf(S))) /\ Total(netsOf(S)) \in Nat
    BY <1>4, <1>5, FiniteLedger
  <1>7. reserved(S) = Total(netsOf(S))  BY DEF reserved, netsOf
  <1> QED  BY <1>2, <1>4, <1>5, <1>6, <1>7

(* No certificate is sold, cancelled or changes its net or its season.     *)
SameReserve ==
  /\ DOMAIN policy' = DOMAIN policy
  /\ \A id \in DOMAIN policy :
       /\ policy'[id].season_id = policy[id].season_id
       /\ policy'[id].net_reserved = policy[id].net_reserved
       /\ policy'[id].state = "Cancelled" <=> policy[id].state = "Cancelled"

(* Then what is reserved stays the same.                                   *)
LEMMA ReservedFrame == ASSUME SameReserve, NEW S PROVE reserved(S)' = reserved(S)
  <1>1. standing(S)' = standing(S)  BY DEF standing, SameReserve
  <1>2. \A id \in standing(S) : policy'[id].net_reserved = policy[id].net_reserved
    BY DEF standing, SameReserve
  <1>3. [id \in standing(S)' |-> policy'[id].net_reserved] =
          [id \in standing(S) |-> policy[id].net_reserved]
    <2> HIDE DEF standing
    <2> QED  BY <1>1, <1>2
  <1> QED  BY <1>3 DEF reserved

(* A fresh policy contract sold nothing.                                   *)
LEMMA InitPolicyIInv == PolicyInit => PolicyIInv
  <1> SUFFICES ASSUME PolicyInit PROVE PolicyIInv  OBVIOUS
  <1>1. IInv  BY InitIInv DEF PolicyInit
  <1>2. /\ DOMAIN policy = {} /\ DOMAIN metadata = {}
        /\ policy_counter = 0 /\ now = 0
    BY DEF PolicyInit, Empty
  <1>3. transferable \in BOOLEAN  BY Zenon DEF PolicyInit
  <1>4. PolicyTypeOK
    <2>1. 1 .. 0 = {}  OBVIOUS
    <2> QED  BY <1>2, <1>3, <2>1, PolicyBoundAssumption DEF PolicyTypeOK
  <1>5. ASSUME NEW s \in SeasonId PROVE reserved({s}) <= premiums_in[s]
    <2>1. standing({s}) = {}  BY <1>2 DEF standing
    <2>2. [id \in standing({s}) |-> policy[id].net_reserved] = [id \in {} |-> 0]
      <3> HIDE DEF standing
      <3> QED  BY <2>1
    <2>3. reserved({s}) = 0  BY <2>2, TotalEmpty DEF reserved
    <2>4. premiums_in[s] \in Nat  BY <1>1 DEF IInv, TypeOK
    <2> QED  BY <2>3, <2>4
  <1> QED  BY <1>1, <1>4, <1>5 DEF PolicyIInv, PremiumBeforePolicy

(* The premium of a positive coverage is a natural number, its quotient    *)
(* rounded up.                                                             *)
LEMMA PremiumBounds ==
  ASSUME TypeOK, PoolExists, NEW c \in Nat
  PROVE  /\ rate_bps(c) \in Nat
         /\ c * rate_bps(c) \in Nat
         /\ compute_premium(c) \in Nat
         /\ compute_premium(c) * BPS_DENOMINATOR <= c * rate_bps(c) + BPS_DENOMINATOR - 1
         /\ c * rate_bps(c) <= compute_premium(c) * BPS_DENOMINATOR
  <1> DEFINE B == BPS_DENOMINATOR
             x == c * rate_bps(c)
             p == compute_premium(c)
  <1>1. config \in Configs  BY DEF TypeOK, PoolExists
  <1>2. config.base_bps \in Nat /\ config.coverage_slope_bps \in Nat
    BY <1>1, ConfigAssumption DEF PoolConfig
  <1>3. c \div COVERAGE_UNIT \in Nat  BY UnitAssumption, DivBounds
  <1>4. config.coverage_slope_bps * (c \div COVERAGE_UNIT) \in Nat
    BY <1>2, <1>3, ProductNat
  <1>5. rate_bps(c) \in Nat  BY <1>2, <1>4 DEF rate_bps
  <1>6. x \in Nat  BY <1>5, ProductNat
  <1>7. B \in Nat \ {0}  BY BpsAssumption
  <1>8. p = (x + B - 1) \div B  BY DEF compute_premium
  <1> HIDE DEF x, p, B
  <1>9. x + B - 1 \in Nat  BY <1>6, <1>7
  <1>10. p \in Nat /\ B * p <= x + B - 1 /\ x + B - 1 < B * p + B
    BY <1>7, <1>8, <1>9, DivBounds
  <1>11. B * p \in Nat /\ B * p = p * B  BY <1>7, <1>10, ProductNat
  <1>12. p * B <= x + B - 1 /\ x <= p * B
    <2> DEFINE pb == p * B
    <2>1. pb \in Nat /\ pb <= x + B - 1 /\ x + B - 1 < pb + B  BY <1>10, <1>11
    <2> HIDE DEF pb
    <2>2. pb <= x + B - 1 /\ x <= pb  BY <1>6, <1>7, <2>1
    <2> QED  BY <2>2 DEF pb
  <1> QED  BY <1>5, <1>6, <1>10, <1>12 DEF x, p, B

(* More coverage never costs less, although the rate steps up with it.     *)
LEMMA PremiumMonotone ==
  ASSUME TypeOK, PoolExists, NEW c \in Nat \ {0}
  PROVE  compute_premium(c - 1) <= compute_premium(c)
  <1> DEFINE B == BPS_DENOMINATOR
             slope == config.coverage_slope_bps
             r == rate_bps(c - 1)
             t == rate_bps(c)
             x == (c - 1) * r
             y == c * t
  <1>1. config.base_bps \in Nat /\ slope \in Nat
    BY ConfigAssumption DEF TypeOK, PoolExists, PoolConfig
  <1>2. c - 1 \in Nat /\ c - 1 <= c  OBVIOUS
  <1>3. /\ (c - 1) \div COVERAGE_UNIT \in Nat /\ c \div COVERAGE_UNIT \in Nat
        /\ (c - 1) \div COVERAGE_UNIT <= c \div COVERAGE_UNIT
    BY <1>2, UnitAssumption, DivBounds, DivMonotone
  <1>4. r <= t
    <2> DEFINE a == (c - 1) \div COVERAGE_UNIT
               b == c \div COVERAGE_UNIT
    <2>1. r = config.base_bps + slope * a /\ t = config.base_bps + slope * b
      BY DEF rate_bps
    <2>2. a \in Nat /\ b \in Nat /\ a <= b  BY <1>3
    <2> HIDE DEF a, b, r, t, slope
    <2>3. a * slope <= b * slope  BY <1>1, <2>2, ProductMonotone
    <2>4. slope * a = a * slope /\ slope * b = b * slope  BY <1>1, <2>2
    <2>5. a * slope \in Nat /\ b * slope \in Nat  BY <1>1, <2>2, ProductNat
    <2> QED  BY <1>1, <2>1, <2>3, <2>4, <2>5
  <1>5. r \in Nat /\ x \in Nat /\ t \in Nat /\ y \in Nat  BY <1>2, PremiumBounds
  <1> HIDE DEF r, t
  <1>6. x <= y
    <2>1. (c - 1) * r <= c * r  BY <1>2, <1>5, ProductMonotone
    <2>2. r * c <= t * c  BY <1>4, <1>5, ProductMonotone
    <2>3. c * r = r * c /\ c * t = t * c  BY <1>5
    <2>4. c * r \in Nat  BY <1>5, ProductNat
    <2> DEFINE z == c * r
    <2>5. x <= z /\ z <= y /\ z \in Nat  BY <2>1, <2>2, <2>3, <2>4
    <2> HIDE DEF x, y, z
    <2> QED  BY <1>5, <2>5
  <1>7. B \in Nat \ {0}  BY BpsAssumption
  <1>8. /\ compute_premium(c - 1) = (x + B - 1) \div B
        /\ compute_premium(c) = (y + B - 1) \div B
    BY DEF compute_premium, r, t
  <1> HIDE DEF x, y, B
  <1>9. x + B - 1 \in Nat /\ y + B - 1 \in Nat /\ x + B - 1 <= y + B - 1
    BY <1>5, <1>6, <1>7
  <1>10. (x + B - 1) \div B <= (y + B - 1) \div B  BY <1>7, <1>9, DivMonotone
  <1> QED  BY <1>8, <1>10

-----------------------------------------------------------------------------
(***************************************************************************)
(* Selling: mint_all preserves the invariant.                              *)
(***************************************************************************)

(* What a sale writes: one certificate per entry, at its premium, with its *)
(* net, under the next ids, and nothing else.                              *)
Sold(s, entries, premiums, net) ==
  LET n == Len(entries)
  IN  /\ policy_counter' = policy_counter + n
      /\ DOMAIN policy' = DOMAIN policy \cup (policy_counter + 1 .. policy_counter + n)
      /\ DOMAIN metadata' = DOMAIN metadata \cup (policy_counter + 1 .. policy_counter + n)
      /\ \A id \in DOMAIN policy :
           id \notin policy_counter + 1 .. policy_counter + n => policy'[id] = policy[id]
      /\ \A id \in DOMAIN metadata :
           id \notin policy_counter + 1 .. policy_counter + n => metadata'[id] = metadata[id]
      /\ \A id \in policy_counter + 1 .. policy_counter + n :
           LET k == id - policy_counter
           IN  /\ policy'[id] = certificate(entries[k], s, premiums[k], net[k])
               /\ metadata'[id] = entries[k].metadata

(* The premiums of a list of entries.                                      *)
premiumsOf(entries) ==
  [k \in 1 .. Len(entries) |-> compute_premium(entries[k].terms.coverage)]

(* mint_all sells, and its premiums are a list of natural numbers.         *)
LEMMA MintSells ==
  ASSUME PolicyIInv, NEW s \in SeasonId, NEW payer \in Accounts,
         NEW entries \in Seq(BatchEntry), mint_all(s, payer, entries)
  PROVE  LET n == Len(entries)
             premiums == premiumsOf(entries)
         IN  /\ n \in Nat /\ premiums \in [1 .. n -> Nat] /\ Len(premiums) = n
             /\ PoolExists /\ s \in InFlight
             /\ \A k \in 1 .. n : /\ entries[k] \in BatchEntry
                                  /\ valid_terms(entries[k].terms)
             /\ policy_counter + n <= MaxPolicies
             /\ collect_premiums(s, payer, premiums)
             /\ Sold(s, entries, premiums, nets(premiums))
             /\ UNCHANGED <<transferable, now>>
  <1> DEFINE n == Len(entries)
             premiums == premiumsOf(entries)
  <1>1. n \in Nat /\ \A k \in 1 .. n : entries[k] \in BatchEntry  OBVIOUS
  <1>2. PoolExists /\ TypeOK  BY DEF mint_all, PolicyIInv, IInv
  <1>3. \A k \in 1 .. n : valid_terms(entries[k].terms)  BY DEF mint_all
  <1>4. ASSUME NEW k \in 1 .. n PROVE premiums[k] \in Nat
    <2>1. entries[k].terms.coverage \in Nat
      BY <1>1, <1>3 DEF BatchEntry, PolicyTerms, valid_terms
    <2>2. premiums[k] = compute_premium(entries[k].terms.coverage)  BY DEF premiumsOf
    <2> QED  BY <1>2, <2>1, <2>2, PremiumBounds
  <1>5. premiums \in [1 .. n -> Nat]  BY <1>4 DEF premiumsOf
  <1>6. Len(premiums) = n  BY <1>1, <1>5, LenProperties, SeqDef
  <1>7. collect_premiums(s, payer, premiums)  BY DEF mint_all, premiumsOf
  <1>8. s \in InFlight  BY <1>7 DEF collect_premiums, InFlight
  <1>9. Sold(s, entries, premiums, nets(premiums))
    <2> DEFINE ids == policy_counter + 1 .. policy_counter + n
               net == nets(premiums)
               at(id) == id - policy_counter
    <2>1. /\ policy_counter' = policy_counter + n
          /\ policy' = [id \in DOMAIN policy \cup ids |->
                          IF id \in ids
                          THEN certificate(entries[at(id)], s, premiums[at(id)], net[at(id)])
                          ELSE policy[id]]
          /\ metadata' = [id \in DOMAIN metadata \cup ids |->
                            IF id \in ids THEN entries[at(id)].metadata ELSE metadata[id]]
      BY DEF mint_all, premiumsOf
    <2> HIDE DEF premiums, net, ids
    <2>2. /\ DOMAIN policy' = DOMAIN policy \cup ids
          /\ DOMAIN metadata' = DOMAIN metadata \cup ids
          /\ \A id \in DOMAIN policy : id \notin ids => policy'[id] = policy[id]
          /\ \A id \in DOMAIN metadata : id \notin ids => metadata'[id] = metadata[id]
          /\ \A id \in ids :
               /\ policy'[id] = certificate(entries[at(id)], s, premiums[at(id)], net[at(id)])
               /\ metadata'[id] = entries[at(id)].metadata
      BY <2>1
    <2> QED  BY <2>1, <2>2 DEF Sold, ids, net
  <1>10. policy_counter + n <= MaxPolicies /\ UNCHANGED <<transferable, now>>
    BY DEF mint_all
  <1> HIDE DEF premiums
  <1> QED  BY <1>1, <1>2, <1>3, <1>5, <1>6, <1>7, <1>8, <1>9, <1>10 DEF premiums

(* The pool stays in its invariant: the list is collected as one premium   *)
(* whose net is the total of the nets.                                     *)
LEMMA MintPool ==
  ASSUME PolicyIInv, NEW s \in SeasonId, NEW payer \in Accounts,
         NEW entries \in Seq(BatchEntry), mint_all(s, payer, entries)
  PROVE  /\ IInv'
         /\ Total(nets(premiumsOf(entries))) \in Nat
         /\ premiums_in' = [premiums_in EXCEPT
                              ![s] = premiums_in[s] + Total(nets(premiumsOf(entries)))]
         /\ nets(premiumsOf(entries)) \in [1 .. Len(entries) -> Nat]
         /\ \A k \in 1 .. Len(entries) :
              nets(premiumsOf(entries))[k] <= premiumsOf(entries)[k]
  <1> DEFINE n == Len(entries)
             premiums == premiumsOf(entries)
             P == protocol_accrued(premiums)[n]
             Q == publisher_accrued(premiums)[n]
             net == nets(premiums)
             gross == Total(premiums)
             sum == Total(net)
  <1>1. /\ n \in Nat /\ premiums \in [1 .. n -> Nat] /\ Len(premiums) = n
        /\ PoolExists /\ s \in InFlight
        /\ collect_premiums(s, payer, premiums)
    BY MintSells
  <1>2. IInv /\ TypeOK /\ FeeCaps  BY DEF PolicyIInv, IInv
  <1> HIDE DEF premiums, n
  <1>3. /\ P \in Nat /\ protocol_fees <= P
        /\ Q \in Nat /\ publisher_fees <= Q
        /\ config.protocol_cap > 0 => P <= config.protocol_cap
        /\ config.publisher_cap > 0 => Q <= config.publisher_cap
        /\ net \in [1 .. n -> Nat]
        /\ \A k \in 1 .. n : net[k] <= premiums[k]
        /\ sum \in Nat
        /\ gross \in Nat
        /\ sum = gross - (P - protocol_fees) - (Q - publisher_fees)
    BY <1>1, <1>2, NetsSplit
  <1>4. /\ protocol_fees' = P
        /\ publisher_fees' = Q
        /\ premiums_in' = [premiums_in EXCEPT ![s] = premiums_in[s] + sum]
        /\ reserves' = reserves + sum
        /\ gross <= wallet[payer]
        /\ wallet' = [wallet EXCEPT ![payer] = wallet[payer] - gross]
        /\ held' = held + gross
    <2>1. /\ protocol_fees' = P
          /\ publisher_fees' = Q
          /\ premiums_in' = [premiums_in EXCEPT ![s] = premiums_in[s]
                               + (gross - (P - protocol_fees) - (Q - publisher_fees))]
          /\ reserves' = reserves + (gross - (P - protocol_fees) - (Q - publisher_fees))
          /\ gross <= wallet[payer]
          /\ wallet' = [wallet EXCEPT ![payer] = wallet[payer] - gross]
          /\ held' = held + gross
      BY <1>1 DEF collect_premiums, TransferIn
    <2> HIDE DEF P, Q, gross, sum
    <2> QED  BY <1>3, <2>1
  <1>5. UNCHANGED <<config, policy_set, vault_set, deposited, supply, receipt,
                    committed, season_count, season_state, payouts_paid, unabsorbed>>
    BY <1>1 DEF collect_premiums, wiring, tranches
  <1> DEFINE pf == P - protocol_fees
             qf == Q - publisher_fees
  <1>6. /\ pf \in Nat /\ qf \in Nat
        /\ P = protocol_fees + pf /\ Q = publisher_fees + qf
    <2>1. protocol_fees \in Nat /\ publisher_fees \in Nat  BY <1>2 DEF TypeOK
    <2> HIDE DEF P, Q
    <2> QED  BY <1>3, <2>1
  <1>7. sum = gross - pf - qf  BY <1>3
  <1> HIDE DEF P, Q, pf, qf, gross, sum
  <1>8. IInv'
    <2>1. /\ config.protocol_cap > 0 => protocol_fees + pf <= config.protocol_cap
          /\ config.publisher_cap > 0 => publisher_fees + qf <= config.publisher_cap
          /\ protocol_fees' = protocol_fees + pf
          /\ publisher_fees' = publisher_fees + qf
      BY <1>3, <1>4, <1>6
    <2> QED  BY <1>1, <1>2, <1>3, <1>4, <1>5, <1>6, <1>7, <2>1, PremiumBooked
  <1> QED  BY <1>3, <1>4, <1>8 DEF sum, premiums, n

(* Every certificate sold is well formed.                                  *)
LEMMA MintTypes ==
  ASSUME PolicyIInv, NEW s \in SeasonId, NEW payer \in Accounts,
         NEW entries \in Seq(BatchEntry), mint_all(s, payer, entries)
  PROVE  PolicyTypeOK'
  <1> DEFINE n == Len(entries)
             premiums == premiumsOf(entries)
             net == nets(premiums)
             c == policy_counter
             ids == c + 1 .. c + n
  <1>1. /\ n \in Nat /\ premiums \in [1 .. n -> Nat]
        /\ \A k \in 1 .. n : /\ entries[k] \in BatchEntry
                             /\ valid_terms(entries[k].terms)
        /\ c + n <= MaxPolicies
        /\ Sold(s, entries, premiums, net)
        /\ UNCHANGED <<transferable, now>>
    BY MintSells
  <1>2. net \in [1 .. n -> Nat] /\ \A k \in 1 .. n : net[k] <= premiums[k]
    BY MintPool
  <1>3. PolicyTypeOK /\ c \in Nat /\ DOMAIN policy = 1 .. c /\ DOMAIN metadata = 1 .. c
    BY PolicyBoundAssumption DEF PolicyIInv, PolicyTypeOK
  <1> HIDE DEF premiums, net, n
  <1>4. /\ policy_counter' = c + n
        /\ DOMAIN policy' = 1 .. c \cup ids
        /\ DOMAIN metadata' = 1 .. c \cup ids
        /\ \A id \in 1 .. c : id \notin ids => /\ policy'[id] = policy[id]
                                               /\ metadata'[id] = metadata[id]
        /\ \A id \in ids :
             /\ policy'[id] = certificate(entries[id - c], s, premiums[id - c], net[id - c])
             /\ metadata'[id] = entries[id - c].metadata
    BY <1>1, <1>3 DEF Sold, n
  <1>5. 1 .. c \cup ids = 1 .. c + n /\ \A id \in 1 .. c : id \notin ids  BY <1>1, <1>3
  <1>6. c + n \in 0 .. MaxPolicies  BY <1>1, <1>3, PolicyBoundAssumption
  <1>7. ASSUME NEW id \in 1 .. c + n
        PROVE  /\ policy'[id] \in PolicyRecord
               /\ policy'[id].terms.coverage > 0
               /\ policy'[id].terms.window_start < policy'[id].terms.window_end
               /\ policy'[id].net_reserved <= policy'[id].premium_paid
               /\ metadata'[id] \in Pointers
    <2>1. CASE id \in 1 .. c
      <3>1. policy'[id] = policy[id] /\ metadata'[id] = metadata[id]  BY <1>4, <1>5, <2>1
      <3>2. id \in DOMAIN policy  BY <1>3, <2>1
      <3> QED  BY <1>3, <3>1, <3>2 DEF PolicyTypeOK
    <2>2. CASE id \notin 1 .. c
      <3> DEFINE k == id - c
      <3>1. id \in ids /\ k \in 1 .. n  BY <1>1, <1>3, <2>2
      <3>2. /\ policy'[id] = certificate(entries[k], s, premiums[k], net[k])
            /\ metadata'[id] = entries[k].metadata
        BY <1>4, <3>1
      <3> HIDE DEF k
      <3>3. /\ entries[k] \in BatchEntry /\ valid_terms(entries[k].terms)
            /\ premiums[k] \in Nat /\ net[k] \in Nat /\ net[k] <= premiums[k]
        BY <1>1, <1>2, <3>1
      <3>4. /\ entries[k].owner \in Accounts /\ entries[k].terms \in PolicyTerms
            /\ entries[k].metadata \in Pointers
        BY <3>3 DEF BatchEntry
      <3>5. /\ entries[k].terms.window_start \in Nat /\ entries[k].terms.window_end \in Nat
            /\ entries[k].terms.coverage > 0
            /\ entries[k].terms.window_start < entries[k].terms.window_end
        BY <3>3, <3>4 DEF PolicyTerms, valid_terms
      <3>6. policy'[id] \in PolicyRecord
        BY <3>2, <3>3, <3>4 DEF certificate, PolicyRecord, PolicyState
      <3> QED  BY <3>2, <3>3, <3>4, <3>5, <3>6 DEF certificate
    <2> QED  BY <2>1, <2>2
  <1>8. transferable' \in BOOLEAN /\ now' \in 0 .. MaxTime
    BY <1>1, <1>3, Zenon DEF PolicyTypeOK
  <1> QED  BY <1>4, <1>5, <1>6, <1>7, <1>8 DEF PolicyTypeOK

(* The season of the sale gets the nets of exactly the certificates sold   *)
(* for it.                                                                 *)
LEMMA MintReserves ==
  ASSUME PolicyIInv, NEW s \in SeasonId, NEW payer \in Accounts,
         NEW entries \in Seq(BatchEntry), mint_all(s, payer, entries)
  PROVE  PremiumBeforePolicy'
  <1> DEFINE n == Len(entries)
             premiums == premiumsOf(entries)
             net == nets(premiums)
             c == policy_counter
             ids == c + 1 .. c + n
             sum == Total(net)
  <1>1. n \in Nat /\ Sold(s, entries, premiums, net)  BY MintSells
  <1>2. /\ net \in [1 .. n -> Nat] /\ sum \in Nat
        /\ premiums_in' = [premiums_in EXCEPT ![s] = premiums_in[s] + sum]
    BY MintPool
  <1>3. PolicyTypeOK /\ c \in Nat /\ DOMAIN policy = 1 .. c
    BY PolicyBoundAssumption DEF PolicyIInv, PolicyTypeOK
  <1>4. TypeOK /\ premiums_in \in [SeasonId -> Nat]  BY DEF PolicyIInv, IInv, TypeOK
  <1>5. PolicyTypeOK'  BY MintTypes
  <1> HIDE DEF premiums, net, n, sum
  <1>6. /\ DOMAIN policy' = 1 .. c \cup ids
        /\ \A id \in 1 .. c : id \notin ids /\ policy'[id] = policy[id]
        /\ \A id \in ids :
             policy'[id] = certificate(entries[id - c], s, premiums[id - c], net[id - c])
    <2>1. \A id \in 1 .. c : id \notin ids  BY <1>1, <1>3
    <2> QED  BY <1>1, <1>3, <2>1 DEF Sold, n
  <1>7. \A id \in ids : /\ policy'[id].season_id = s
                        /\ policy'[id].state = "Active"
                        /\ policy'[id].net_reserved = net[id - c]
    <2> SUFFICES ASSUME NEW id \in ids
                 PROVE  /\ policy'[id].season_id = s
                        /\ policy'[id].state = "Active"
                        /\ policy'[id].net_reserved = net[id - c]
      OBVIOUS
    <2> DEFINE k == id - c
    <2>1. policy'[id] = certificate(entries[k], s, premiums[k], net[k])  BY <1>6
    <2> HIDE DEF k, ids
    <2>2. /\ policy'[id].season_id = s
          /\ policy'[id].state = "Active"
          /\ policy'[id].net_reserved = net[k]
      BY <2>1 DEF certificate
    <2> QED  BY <2>2 DEF k
  <1> HIDE DEF ids
  <1>8. ASSUME NEW t \in SeasonId
        PROVE  standing({t})' = standing({t}) \cup (IF t = s THEN ids ELSE {})
    BY <1>3, <1>6, <1>7 DEF standing
  <1>9. ASSUME NEW t \in SeasonId, t # s PROVE reserved({t})' = reserved({t})
    <2>1. standing({t})' = standing({t})  BY <1>8, <1>9
    <2>2. \A id \in standing({t}) : policy'[id].net_reserved = policy[id].net_reserved
      BY <1>3, <1>6 DEF standing
    <2>3. [id \in standing({t})' |-> policy'[id].net_reserved] =
            [id \in standing({t}) |-> policy[id].net_reserved]
      <3> HIDE DEF standing
      <3> QED  BY <2>1, <2>2
    <2> QED  BY <2>3 DEF reserved
  <1>10. reserved({s})' = reserved({s}) + sum
    <2> DEFINE f == netsOf({s})
               g == [id \in ids |-> net[id - c]]
               h == netsOf({s})'
               name == [k \in 1 .. n |-> c + k]
    <2>1. /\ f \in [standing({s}) -> Nat] /\ IsFiniteSet(Units(f))
          /\ reserved({s}) = Total(f)
      BY <1>3, ReservedLedger
    <2>2. reserved({s})' = Total(h)  BY DEF reserved, netsOf
    <2>3. g \in [ids -> Nat]
      <3> SUFFICES ASSUME NEW id \in ids PROVE net[id - c] \in Nat  OBVIOUS
      <3>1. id - c \in 1 .. n  BY <1>1, <1>3 DEF ids
      <3> QED  BY <1>2, <3>1
    <2>4. name \in Bijection(1 .. n, ids)
      <3>1. name \in [1 .. n -> ids]  BY <1>1, <1>3 DEF ids
      <3>2. \A j, k \in 1 .. n : name[j] = name[k] => j = k  BY <1>3
      <3>3. \A id \in ids : \E k \in 1 .. n : name[k] = id
        <4> SUFFICES ASSUME NEW id \in ids PROVE \E k \in 1 .. n : name[k] = id  OBVIOUS
        <4>1. id - c \in 1 .. n /\ c + (id - c) = id  BY <1>1, <1>3 DEF ids
        <4> QED  BY <4>1
      <3> HIDE DEF name
      <3> QED  BY <3>1, <3>2, <3>3 DEF Bijection, Injection, Surjection, IsInjective
    <2>5. \A k \in 1 .. n : g[name[k]] = net[k]
      <3> SUFFICES ASSUME NEW k \in 1 .. n PROVE g[name[k]] = net[k]  OBVIOUS
      <3> DEFINE id == c + k
      <3>1. id \in ids /\ id - c = k  BY <1>1, <1>3 DEF ids
      <3>2. name[k] = id  OBVIOUS
      <3> HIDE DEF id, name
      <3> QED  BY <3>1, <3>2
    <2>6. IsFiniteSet(Units(net))
      <3>1. IsFiniteSet(1 .. n)  BY <1>1, FS_Interval
      <3> QED  BY <1>2, <3>1, FiniteLedger
    <2>7. IsFiniteSet(Units(g)) /\ Total(g) = sum
      <3> DEFINE D == 1 .. n
      <3> HIDE DEF g, name, D
      <3>1. /\ net \in [D -> Nat] /\ g \in [ids -> Nat] /\ name \in Bijection(D, ids)
            /\ \A k \in D : g[name[k]] = net[k]
        BY <1>2, <2>3, <2>4, <2>5 DEF D
      <3>2. IsFiniteSet(Units(g)) /\ Total(g) = Total(net)
        BY <2>6, <3>1, TotalRenamed
      <3> QED  BY <3>2 DEF sum
    <2>8. Parts(h, f, g)
      <3>1. DOMAIN h = standing({s}) \cup ids  BY <1>8 DEF netsOf
      <3>2. DOMAIN f = standing({s}) /\ DOMAIN g = ids  BY DEF netsOf
      <3>3. \A id \in standing({s}) :
              id \notin ids /\ id \in 1 .. c /\ policy'[id] = policy[id]
        BY <1>3, <1>6 DEF standing
      <3>4. \A id \in standing({s}) : f[id] = policy[id].net_reserved  BY DEF netsOf
      <3>5. \A id \in standing({s}) \cup ids : h[id] = policy'[id].net_reserved
        BY <1>8 DEF netsOf
      <3>6. \A id \in ids : g[id] = net[id - c]  OBVIOUS
      <3> HIDE DEF f, g, h
      <3>7. \A id \in standing({s}) : f[id] \in Nat  BY <2>1
      <3>8. \A id \in ids : g[id] \in Nat  BY <2>3
      <3>9. \A id \in standing({s}) : id \notin ids /\ h[id] = f[id]
        BY <3>3, <3>4, <3>5
      <3>10. \A id \in ids : h[id] = g[id]  BY <1>7, <3>5, <3>6
      <3> QED  BY <3>1, <3>2, <3>7, <3>8, <3>9, <3>10 DEF Parts
    <2> HIDE DEF f, g, h
    <2>9. Total(h) = Total(f) + Total(g)  BY <2>1, <2>7, <2>8, TotalJoin
    <2> QED  BY <2>1, <2>2, <2>7, <2>9
  <1>11. ASSUME NEW t \in SeasonId PROVE reserved({t})' <= premiums_in'[t]
    <2>1. reserved({t}) <= premiums_in[t]  BY DEF PolicyIInv, PremiumBeforePolicy
    <2>2. reserved({t}) \in Nat /\ premiums_in[t] \in Nat  BY <1>3, <1>4, ReservedLedger
    <2>3. CASE t = s
      <3>1. premiums_in'[t] = premiums_in[t] + sum  BY <1>2, <1>4, <2>3
      <3>2. reserved({t})' = reserved({t}) + sum  BY <1>10, <2>3
      <3> QED  BY <1>2, <2>1, <2>2, <3>1, <3>2
    <2>4. CASE t # s
      <3>1. premiums_in'[t] = premiums_in[t]  BY <1>2, <1>4, <2>4
      <3> QED  BY <1>9, <2>1, <2>4, <3>1
    <2> QED  BY <2>3, <2>4
  <1> QED  BY <1>11 DEF PremiumBeforePolicy

-----------------------------------------------------------------------------
(***************************************************************************)
(* Every other step preserves the invariant.                               *)
(***************************************************************************)

(* Certificates that are left alone stay backed while the pool keeps its   *)
(* invariant and no season loses premiums.                                 *)
LEMMA CertificatesFrame ==
  ASSUME PolicyIInv, IInv', UNCHANGED certificates, now' \in 0 .. MaxTime,
         \A s \in SeasonId : premiums_in'[s] >= premiums_in[s]
  PROVE  PolicyIInv'
  <1>1. /\ policy' = policy /\ policy_counter' = policy_counter
        /\ metadata' = metadata /\ transferable' = transferable
    BY DEF certificates
  <1>2. PolicyTypeOK  BY DEF PolicyIInv
  <1>3. PolicyTypeOK'  BY <1>1, <1>2 DEF PolicyTypeOK
  <1>4. SameReserve  BY <1>1 DEF SameReserve
  <1>5. ASSUME NEW s \in SeasonId PROVE reserved({s})' <= premiums_in'[s]
    <2>1. reserved({s})' = reserved({s}) /\ reserved({s}) \in Nat
      BY <1>2, <1>4, ReservedFrame, ReservedLedger
    <2>2. reserved({s}) <= premiums_in[s]  BY DEF PolicyIInv, PremiumBeforePolicy
    <2>3. premiums_in[s] \in Nat /\ premiums_in'[s] \in Nat
      BY DEF PolicyIInv, IInv, TypeOK
    <2> QED  BY <2>1, <2>2, <2>3
  <1> QED  BY <1>3, <1>5 DEF PolicyIInv, PremiumBeforePolicy

(* So do certificates of which only the owner or the state changes, unless *)
(* one is cancelled.                                                       *)
LEMMA LifecycleIInv ==
  ASSUME PolicyIInv, UNCHANGED <<vars, policy_counter, metadata, transferable, now>>,
         NEW id \in DOMAIN policy, NEW o \in Accounts, NEW to \in PolicyState,
         policy[id].state # "Cancelled", to # "Cancelled",
         policy' = [policy EXCEPT ![id] = [policy[id] EXCEPT !.owner = o, !.state = to]]
  PROVE  PolicyIInv'
  <1>1. PolicyTypeOK /\ IInv  BY DEF PolicyIInv
  <1>2. IInv'  BY <1>1, WiringIInv
  <1>3. DOMAIN policy' = DOMAIN policy  OBVIOUS
  <1>4. /\ policy[id] \in PolicyRecord
        /\ \A p \in DOMAIN policy : p # id => policy'[p] = policy[p]
        /\ policy'[id] = [policy[id] EXCEPT !.owner = o, !.state = to]
    BY <1>1 DEF PolicyTypeOK
  <1>5. /\ policy'[id] \in PolicyRecord
        /\ policy'[id].season_id = policy[id].season_id
        /\ policy'[id].terms = policy[id].terms
        /\ policy'[id].premium_paid = policy[id].premium_paid
        /\ policy'[id].net_reserved = policy[id].net_reserved
        /\ policy'[id].state = to
    BY <1>4 DEF PolicyRecord
  <1>6. PolicyTypeOK'
    <2>1. ASSUME NEW p \in DOMAIN policy
          PROVE  /\ policy'[p] \in PolicyRecord
                 /\ policy'[p].terms.coverage > 0
                 /\ policy'[p].terms.window_start < policy'[p].terms.window_end
                 /\ policy'[p].net_reserved <= policy'[p].premium_paid
                 /\ metadata[p] \in Pointers
      <3>1. CASE p = id  BY <1>1, <1>5, <3>1 DEF PolicyTypeOK
      <3>2. CASE p # id  BY <1>1, <1>4, <3>2 DEF PolicyTypeOK
      <3> QED  BY <3>1, <3>2
    <2> QED  BY <1>1, <1>3, <2>1 DEF PolicyTypeOK
  <1>7. SameReserve
    <2>1. ASSUME NEW p \in DOMAIN policy
          PROVE  /\ policy'[p].season_id = policy[p].season_id
                 /\ policy'[p].net_reserved = policy[p].net_reserved
                 /\ policy'[p].state = "Cancelled" <=> policy[p].state = "Cancelled"
      <3>1. CASE p = id  BY <1>5, <3>1
      <3>2. CASE p # id  BY <1>4, <3>2
      <3> QED  BY <3>1, <3>2
    <2> QED  BY <1>3, <2>1 DEF SameReserve
  <1>8. premiums_in' = premiums_in  BY DEF vars, seasons
  <1>9. PremiumBeforePolicy'
    <2>1. \A s \in SeasonId : reserved({s})' = reserved({s})  BY <1>7, ReservedFrame
    <2> QED  BY <1>8, <2>1 DEF PolicyIInv, PremiumBeforePolicy
  <1> QED  BY <1>2, <1>6, <1>9 DEF PolicyIInv

(* A cancellation takes the net of one standing certificate out of its     *)
(* season, and the season still has it.                                    *)
LEMMA CancelIInv ==
  ASSUME PolicyIInv, NEW id, cancel(id)
  PROVE  PolicyIInv'
  <1> DEFINE s == policy[id].season_id
             net == policy[id].net_reserved
  <1>1. PolicyTypeOK /\ IInv /\ id \in DOMAIN policy  BY DEF PolicyIInv, cancel, Has
  <1>2. /\ policy[id] \in PolicyRecord /\ policy[id].state = "Active"
        /\ refund_premium(s, policy[id].owner, net)
        /\ policy' = [policy EXCEPT ![id].state = "Cancelled"]
        /\ UNCHANGED <<policy_counter, metadata, transferable, now>>
    BY <1>1 DEF cancel, may_cancel, refund_due, PolicyTypeOK
  <1>3. s \in SeasonId /\ policy[id].owner \in Accounts /\ net \in Nat
    BY <1>2 DEF PolicyRecord
  <1>4. IInv'
    <2> DEFINE o == policy[id].owner
    <2>1. o \in Accounts /\ net \in Int /\ refund_premium(s, o, net)  BY <1>2, <1>3
    <2> HIDE DEF s, o, net
    <2> QED  BY <1>1, <1>3, <2>1, RefundPremiumIInv
  <1>5. premiums_in' = [premiums_in EXCEPT ![s] = premiums_in[s] - net]
    BY <1>2 DEF refund_premium
  <1>6. /\ DOMAIN policy' = DOMAIN policy
        /\ \A p \in DOMAIN policy : p # id => policy'[p] = policy[p]
        /\ policy'[id] = [policy[id] EXCEPT !.state = "Cancelled"]
    BY <1>1, <1>2
  <1>7. /\ policy'[id] \in PolicyRecord
        /\ policy'[id].season_id = s
        /\ policy'[id].terms = policy[id].terms
        /\ policy'[id].premium_paid = policy[id].premium_paid
        /\ policy'[id].net_reserved = net
        /\ policy'[id].state = "Cancelled"
    BY <1>2, <1>6 DEF PolicyRecord, PolicyState
  <1>8. PolicyTypeOK'
    <2>1. ASSUME NEW p \in DOMAIN policy
          PROVE  /\ policy'[p] \in PolicyRecord
                 /\ policy'[p].terms.coverage > 0
                 /\ policy'[p].terms.window_start < policy'[p].terms.window_end
                 /\ policy'[p].net_reserved <= policy'[p].premium_paid
                 /\ metadata[p] \in Pointers
      <3>1. CASE p = id  BY <1>1, <1>7, <3>1 DEF PolicyTypeOK
      <3>2. CASE p # id  BY <1>1, <1>6, <3>2 DEF PolicyTypeOK
      <3> QED  BY <3>1, <3>2
    <2> QED  BY <1>1, <1>2, <1>6, <2>1 DEF PolicyTypeOK
  <1>9. \A p \in DOMAIN policy : policy'[p].season_id = policy[p].season_id
    BY <1>6, <1>7
  <1>10. ASSUME NEW t \in SeasonId
         PROVE  standing({t})' = standing({t}) \ {id}
    BY <1>6, <1>7, <1>9 DEF standing
  <1>11. id \in standing({s}) /\ \A t \in SeasonId : t # s => id \notin standing({t})
    BY <1>1, <1>2 DEF standing
  <1>12. ASSUME NEW t \in SeasonId
         PROVE  reserved({t})' = Total([p \in standing({t}) \ {id} |-> netsOf({t})[p]])
    <2>1. \A p \in standing({t}) \ {id} : policy'[p].net_reserved = netsOf({t})[p]
      BY <1>6 DEF standing, netsOf
    <2>2. [p \in standing({t})' |-> policy'[p].net_reserved] =
            [p \in standing({t}) \ {id} |-> netsOf({t})[p]]
      <3> HIDE DEF standing, netsOf
      <3> QED  BY <1>10, <2>1
    <2> QED  BY <2>2 DEF reserved
  <1>13. ASSUME NEW t \in SeasonId PROVE reserved({t})' <= premiums_in'[t]
    <2>1. /\ reserved({t}) <= premiums_in[t]
          /\ premiums_in \in [SeasonId -> Nat]
      BY DEF PolicyIInv, PremiumBeforePolicy, IInv, TypeOK
    <2> DEFINE f == netsOf({t})
    <2>2. /\ f \in [standing({t}) -> Nat] /\ IsFiniteSet(Units(f))
          /\ reserved({t}) = Total(f) /\ reserved({t}) \in Nat
      BY <1>1, ReservedLedger
    <2>3. CASE t = s
      <3>1. f[id] = net /\ id \in standing({t})  BY <1>11, <2>3 DEF netsOf
      <3> DEFINE rest == [p \in standing({t}) \ {id} |-> f[p]]
      <3>2. Total(rest) \in Nat /\ Total(f) = Total(rest) + f[id]
        <4> HIDE DEF f
        <4> QED  BY <2>2, <3>1, TotalWithout
      <3>3. reserved({t})' = Total(rest)  BY <1>12
      <3>4. premiums_in'[t] = premiums_in[t] - net  BY <1>5, <2>1, <2>3
      <3> HIDE DEF f, rest, net
      <3> QED  BY <1>3, <2>1, <2>2, <3>1, <3>2, <3>3, <3>4
    <2>4. CASE t # s
      <3>1. standing({t}) \ {id} = standing({t})  BY <1>11, <2>4
      <3>2. [p \in standing({t}) \ {id} |-> f[p]] = f  BY <2>2, <3>1
      <3>3. reserved({t})' = Total(f)  BY <1>12, <3>2
      <3>4. premiums_in'[t] = premiums_in[t]  BY <1>5, <2>1, <2>4
      <3> QED  BY <2>1, <2>2, <3>3, <3>4
    <2> QED  BY <2>3, <2>4
  <1> QED  BY <1>4, <1>8, <1>13 DEF PolicyIInv, PremiumBeforePolicy

(* A state transition of a certificate.                                    *)
LEMMA TransitionPolicyIInv ==
  ASSUME PolicyIInv, NEW id, NEW from \in PolicyState, NEW to \in PolicyState,
         from # "Cancelled", to # "Cancelled", transition(id, from, to)
  PROVE  PolicyIInv'
  <1> DEFINE o == policy[id].owner
  <1>1. id \in DOMAIN policy /\ policy[id] \in PolicyRecord
    BY DEF transition, Has, PolicyIInv, PolicyTypeOK
  <1>2. o \in Accounts /\ [policy[id] EXCEPT !.owner = o] = policy[id]
    BY <1>1 DEF PolicyRecord
  <1>3. policy' = [policy EXCEPT ![id] = [policy[id] EXCEPT !.owner = o, !.state = to]]
    BY <1>2 DEF transition
  <1>4. /\ UNCHANGED <<vars, policy_counter, metadata, transferable, now>>
        /\ policy[id].state # "Cancelled"
    BY DEF transition
  <1> HIDE DEF o
  <1> QED  BY <1>1, <1>2, <1>3, <1>4, LifecycleIInv

(* Every call of the policy contract preserves the invariant.              *)
LEMMA PolicyCallIInv ==
  ASSUME PolicyIInv, PolicyCall
  PROVE  PolicyIInv'
  <1>1. ASSUME NEW s \in SeasonId, NEW payer \in Accounts,
               NEW entries \in Seq(BatchEntry), mint_all(s, payer, entries)
        PROVE  PolicyIInv'
    BY <1>1, MintPool, MintTypes, MintReserves DEF PolicyIInv
  <1>2. ASSUME NEW s \in SeasonId, NEW a \in Accounts, NEW terms \in Terms,
               NEW max_premium \in MaxPremiums, NEW pointer \in Pointers,
               mint(a, s, terms, max_premium, pointer)
        PROVE  PolicyIInv'
    <2> DEFINE e == [owner |-> a, terms |-> terms,
                     max_premium |-> max_premium, metadata |-> pointer]
    <2>1. terms \in PolicyTerms /\ max_premium \in Int  BY TermsAssumption
    <2>2. e \in BatchEntry  BY <2>1 DEF BatchEntry
    <2>3. mint_all(s, a, <<e>>)  BY <1>2 DEF mint
    <2> HIDE DEF e
    <2>4. <<e>> \in Seq(BatchEntry)  BY <2>2
    <2> QED  BY <1>1, <2>3, <2>4
  <1>3. ASSUME NEW s \in SeasonId, NEW a \in Accounts, NEW entries \in MintLists,
               mint_batch(a, s, entries)
        PROVE  PolicyIInv'
    BY <1>1, <1>3, TermsAssumption DEF mint_batch
  <1>4. ASSUME NEW id \in 1 .. MaxPolicies,
               mark_triggered(id) \/ mark_paid(id) \/ expire(id)
        PROVE  PolicyIInv'
    <2>1. {"Active", "Triggered", "Paid", "Expired"} \subseteq PolicyState
      BY DEF PolicyState
    <2>2. CASE transition(id, "Active", "Triggered")
      BY <2>1, <2>2, TransitionPolicyIInv
    <2>3. CASE transition(id, "Triggered", "Paid")
      BY <2>1, <2>3, TransitionPolicyIInv
    <2>4. CASE transition(id, "Active", "Expired")
      BY <2>1, <2>4, TransitionPolicyIInv
    <2> QED  BY <1>4, <2>2, <2>3, <2>4 DEF mark_triggered, mark_paid, expire
  <1>5. ASSUME NEW id \in 1 .. MaxPolicies, cancel(id) PROVE PolicyIInv'
    BY <1>5, CancelIInv
  <1>6. ASSUME UNCHANGED <<vars, policy, policy_counter, now>>,
               transferable' \in BOOLEAN, DOMAIN metadata' = DOMAIN metadata,
               \A id \in DOMAIN metadata : metadata'[id] \in Pointers
        PROVE  PolicyIInv'
    <2>1. PolicyTypeOK /\ IInv /\ IInv'  BY <1>6, WiringIInv DEF PolicyIInv
    <2>2. PolicyTypeOK'  BY <1>6, <2>1 DEF PolicyTypeOK
    <2>3. SameReserve  BY <1>6 DEF SameReserve
    <2>4. \A s \in SeasonId : reserved({s})' = reserved({s})  BY <2>3, ReservedFrame
    <2>5. premiums_in' = premiums_in  BY <1>6 DEF vars, seasons
    <2> QED  BY <2>1, <2>2, <2>4, <2>5 DEF PolicyIInv, PremiumBeforePolicy
  <1>7. \A id \in DOMAIN metadata : metadata[id] \in Pointers
    BY DEF PolicyIInv, PolicyTypeOK
  <1>8. ASSUME NEW id \in 1 .. MaxPolicies, NEW pointer \in Pointers,
               set_metadata(id, pointer)
        PROVE  PolicyIInv'
    <2>1. id \in DOMAIN metadata  BY <1>8 DEF set_metadata, Has, PolicyIInv, PolicyTypeOK
    <2>2. /\ metadata' = [k \in DOMAIN metadata \cup {id} |->
                            IF k = id THEN pointer ELSE metadata[k]]
          /\ UNCHANGED <<vars, policy, policy_counter, transferable, now>>
      BY <1>8 DEF set_metadata, Put
    <2>3. transferable \in BOOLEAN  BY DEF PolicyIInv, PolicyTypeOK
    <2>4. DOMAIN metadata' = DOMAIN metadata  BY <2>1, <2>2
    <2>5. \A k \in DOMAIN metadata : metadata'[k] \in Pointers  BY <1>7, <2>2
    <2>6. transferable' \in BOOLEAN  BY <2>2, <2>3, Zenon
    <2> QED  BY <1>6, <2>2, <2>4, <2>5, <2>6
  <1>9. ASSUME NEW id \in 1 .. MaxPolicies, NEW a \in Accounts, transfer(id, a)
        PROVE  PolicyIInv'
    <2> DEFINE st == policy[id].state
    <2>1. id \in DOMAIN policy /\ policy[id] \in PolicyRecord
      BY <1>9 DEF transfer, Has, PolicyIInv, PolicyTypeOK
    <2>2. st \in PolicyState /\ [policy[id] EXCEPT !.owner = a, !.state = st]
                                  = [policy[id] EXCEPT !.owner = a]
      BY <2>1 DEF PolicyRecord
    <2>3. policy' = [policy EXCEPT ![id] = [policy[id] EXCEPT !.owner = a, !.state = st]]
      BY <1>9, <2>2 DEF transfer
    <2>4. /\ UNCHANGED <<vars, policy_counter, metadata, transferable, now>>
          /\ policy[id].state # "Cancelled" /\ st # "Cancelled"
      BY <1>9 DEF transfer
    <2> HIDE DEF st
    <2> QED  BY <2>1, <2>2, <2>3, <2>4, LifecycleIInv
  <1>10. ASSUME NEW allowed \in BOOLEAN, set_transferable(allowed) PROVE PolicyIInv'
    <2>1. UNCHANGED <<vars, policy, policy_counter, metadata, now>> /\ transferable' \in BOOLEAN
      BY <1>10, Zenon DEF set_transferable
    <2>2. metadata' = metadata  BY <2>1
    <2> QED  BY <1>6, <1>7, <2>1, <2>2
  <1>11. CASE PolicyTick
    <2>1. UNCHANGED vars /\ UNCHANGED certificates /\ now' \in 0 .. MaxTime
      BY <1>11, PolicyBoundAssumption DEF PolicyTick, PolicyIInv, PolicyTypeOK
    <2>2. IInv'  BY <2>1, WiringIInv DEF PolicyIInv
    <2>3. \A s \in SeasonId : premiums_in'[s] >= premiums_in[s]
      BY <2>1 DEF vars, seasons, PolicyIInv, IInv, TypeOK
    <2> QED  BY <2>1, <2>2, <2>3, CertificatesFrame
  <1> QED  BY <1>2, <1>3, <1>4, <1>5, <1>8, <1>9, <1>10, <1>11 DEF PolicyCall

(* Every step preserves the invariant.                                     *)
LEMMA PolicyIInvStep == PolicyIInv /\ [PolicyNext]_policy_vars => PolicyIInv'
  <1> SUFFICES ASSUME PolicyIInv, [PolicyNext]_policy_vars PROVE PolicyIInv'  OBVIOUS
  <1>1. CASE PolicyCall  BY <1>1, PolicyCallIInv
  <1>2. CASE pool_without_refunds
    <2>1. IInv'  BY <1>2, IInvStep DEF pool_without_refunds, PolicyIInv
    <2>2. now' \in 0 .. MaxTime
      BY <1>2 DEF pool_without_refunds, PolicyIInv, PolicyTypeOK
    <2> QED  BY <1>2, <2>1, <2>2, CertificatesFrame DEF pool_without_refunds
  <1>3. CASE UNCHANGED policy_vars
    <2>1. UNCHANGED vars /\ UNCHANGED certificates /\ now' \in 0 .. MaxTime
      BY <1>3 DEF policy_vars, PolicyIInv, PolicyTypeOK
    <2>2. IInv'  BY <2>1, WiringIInv DEF PolicyIInv
    <2>3. \A s \in SeasonId : premiums_in'[s] >= premiums_in[s]
      BY <2>1 DEF vars, seasons, PolicyIInv, IInv, TypeOK
    <2> QED  BY <2>1, <2>2, <2>3, CertificatesFrame
  <1> QED  BY <1>1, <1>2, <1>3 DEF PolicyNext

(* The invariant holds in every reachable state.                           *)
LEMMA PolicyInvariance == PolicySpec => []PolicyIInv
  BY InitPolicyIInv, PolicyIInvStep, PTL DEF PolicySpec

(* Certificates are well formed: ids without a gap, terms that passed the  *)
(* checks, a net within the premium (mint_one, mint_batch, transition).    *)
THEOREM PolicyTypeCorrect == PolicySpec => []PolicyTypeOK
  <1>1. PolicyIInv => PolicyTypeOK  BY DEF PolicyIInv
  <1> QED  BY <1>1, PolicyInvariance, PTL

(* What the certificates of a season say is reserved for them is accounted *)
(* in the season, over fees clamped within a batch and cancellations in    *)
(* any order (mint_one, collect_premium, cancel, refund_premium).          *)
THEOREM PremiumBeforePolicyHolds == PolicySpec => []PremiumBeforePolicy
  <1>1. PolicyIInv => PremiumBeforePolicy  BY DEF PolicyIInv
  <1> QED  BY <1>1, PolicyInvariance, PTL

-----------------------------------------------------------------------------
(***************************************************************************)
(* Refunds are funded.                                                     *)
(***************************************************************************)

(* The nets reserved in the seasons in flight are what is reserved in each.*)
LEMMA ReservedBySeason ==
  ASSUME PolicyIInv
  PROVE  LET share == [s \in SeasonId |-> IF s \in InFlight THEN reserved({s}) ELSE 0]
         IN  /\ share \in [SeasonId -> Nat]
             /\ Total(share) = reserved(InFlight)
  <1> DEFINE D == standing(InFlight)
             v == netsOf(InFlight)
             own == [id \in D |-> policy[id].season_id]
             row(s) == [id \in D |-> IF own[id] = s THEN v[id] ELSE 0]
             sums == [s \in SeasonId |-> Total(row(s))]
             share == [s \in SeasonId |-> IF s \in InFlight THEN reserved({s}) ELSE 0]
  <1>1. PolicyTypeOK  BY DEF PolicyIInv
  <1>2. /\ IsFiniteSet(D) /\ v \in [D -> Nat] /\ reserved(InFlight) = Total(v)
    BY <1>1, ReservedLedger
  <1>3. own \in [D -> SeasonId]
    BY <1>1 DEF standing, PolicyTypeOK, PolicyRecord
  <1>4. sums \in [SeasonId -> Nat] /\ Total(sums) = Total(v)
    <2> HIDE DEF D, v, own
    <2> QED  BY <1>2, <1>3, TotalByOwner
  <1>5. ASSUME NEW s \in SeasonId PROVE Total(row(s)) = share[s]
    <2> DEFINE r == row(s)
    <2>1. r \in [D -> Nat]  BY <1>2
    <2>2. CASE s \in InFlight
      <3>1. standing({s}) \subseteq D  BY <2>2 DEF standing
      <3>2. \A id \in D : id \notin standing({s}) => r[id] = 0  BY DEF standing
      <3>3. \A id \in standing({s}) : r[id] = netsOf({s})[id]
        <4> SUFFICES ASSUME NEW id \in standing({s}) PROVE r[id] = netsOf({s})[id]
          OBVIOUS
        <4>1. id \in D /\ own[id] = s  BY <3>1 DEF standing
        <4>2. r[id] = v[id]  BY <4>1
        <4>3. v[id] = policy[id].net_reserved  BY <4>1 DEF netsOf
        <4>4. netsOf({s})[id] = policy[id].net_reserved  BY DEF netsOf
        <4> QED  BY <4>2, <4>3, <4>4
      <3>4. netsOf({s}) \in [standing({s}) -> Nat] /\ reserved({s}) = Total(netsOf({s}))
        BY <1>1, ReservedLedger
      <3> HIDE DEF r
      <3>5. netsOf({s}) = [id \in standing({s}) |-> r[id]]  BY <3>3, <3>4
      <3>6. Total([id \in standing({s}) |-> r[id]]) = Total(r)
        <4> DEFINE E == standing({s})
        <4> HIDE DEF D, E
        <4>1. E \subseteq D /\ \A id \in D : id \notin E => r[id] = 0
          BY <3>1, <3>2 DEF E
        <4>2. Total([id \in E |-> r[id]]) = Total(r)  BY <2>1, <4>1, TotalRestricted
        <4> QED  BY <4>2 DEF E
      <3> QED  BY <2>2, <3>4, <3>5, <3>6 DEF r
    <2>3. CASE s \notin InFlight
      <3>1. \A id \in D : own[id] # s  BY <2>3 DEF standing
      <3>2. r = [id \in D |-> 0]  BY <3>1
      <3>3. Total(r) = 0  BY <3>2, TotalEmpty
      <3> QED  BY <2>3, <3>3
    <2> QED  BY <2>2, <2>3
  <1>6. share = sums  BY <1>5
  <1> HIDE DEF sums
  <1> QED  BY <1>2, <1>4, <1>6

(* Apart from what payouts took, the pool holds the net of every standing  *)
(* certificate of every season not settled yet, whatever was deposited,    *)
(* withdrawn or settled in between (cancel, refund_premium).               *)
THEOREM RefundsFundedHolds == PolicySpec => []RefundsFunded
  <1>1. ASSUME PolicyIInv PROVE RefundsFunded
    <2> DEFINE share == [s \in SeasonId |-> IF s \in InFlight THEN reserved({s}) ELSE 0]
               p == unsettled(premiums_in)
               q == Total(unsettled(payouts_paid))
    <2>1. IInv /\ TypeOK /\ Books  BY <1>1 DEF PolicyIInv, IInv
    <2>2. share \in [SeasonId -> Nat] /\ Total(share) = reserved(InFlight)
      BY <1>1, ReservedBySeason
    <2>3. p \in [SeasonId -> Nat] /\ IsFiniteSet(Units(p)) /\ Total(p) \in Nat /\ q \in Nat
      BY <2>1, TotalsAreNat DEF TypeOK, unsettled, Books
    <2>4. \A s \in SeasonId : share[s] <= p[s]
      BY <1>1 DEF PolicyIInv, PremiumBeforePolicy, unsettled
    <2> HIDE DEF share, p
    <2>5. Total(share) <= Total(p)  BY <2>2, <2>3, <2>4, TotalMonotone
    <2>6. reserves + unabsorbed + q = deposited["Junior"] + deposited["Senior"] + Total(p)
      BY <2>1 DEF Books, Backing, p
    <2>7. /\ reserves \in Nat /\ unabsorbed \in Nat
          /\ deposited["Junior"] \in Nat /\ deposited["Senior"] \in Nat
      BY <2>1 DEF TypeOK, Tier
    <2>8. reserved(InFlight) \in Nat  BY <1>1, ReservedLedger DEF PolicyIInv
    <2> HIDE DEF q
    <2>9. reserved(InFlight) <= reserves + unabsorbed + q
      BY <2>2, <2>3, <2>5, <2>6, <2>7, <2>8
    <2> QED  BY <2>9 DEF RefundsFunded, q
  <1> QED  BY <1>1, PolicyInvariance, PTL

-----------------------------------------------------------------------------
(***************************************************************************)
(* The premium curve, and the life of a certificate.                       *)
(***************************************************************************)

(* The premium is the least whole amount that covers the rate, and more    *)
(* coverage never costs less (compute_premium).                            *)
THEOREM PremiumIsLeastHolds == PolicySpec => []PremiumIsLeast
  <1>1. ASSUME PolicyIInv, PoolExists, NEW c \in 1 .. 3 * COVERAGE_UNIT
        PROVE  LET p == compute_premium(c)
               IN  /\ p * BPS_DENOMINATOR >= c * rate_bps(c)
                   /\ (p - 1) * BPS_DENOMINATOR < c * rate_bps(c)
                   /\ compute_premium(c - 1) <= p
    <2> DEFINE p == compute_premium(c)
               B == BPS_DENOMINATOR
               x == c * rate_bps(c)
    <2>1. TypeOK /\ c \in Nat \ {0}  BY <1>1, UnitAssumption DEF PolicyIInv, IInv
    <2>2. x \in Nat /\ p \in Nat /\ p * B <= x + B - 1 /\ x <= p * B
      BY <1>1, <2>1, PremiumBounds
    <2>3. compute_premium(c - 1) <= p  BY <1>1, <2>1, PremiumMonotone
    <2>4. B \in Nat \ {0}  BY BpsAssumption
    <2> HIDE DEF p, B, x
    <2>5. (p - 1) * B = p * B - B /\ p * B \in Nat  BY <2>2, <2>4, ProductNat
    <2>6. p * B >= x /\ (p - 1) * B < x
      <3> DEFINE y == p * B
      <3>1. y \in Nat /\ y <= x + B - 1 /\ x <= y  BY <2>2, <2>5
      <3> HIDE DEF y
      <3>2. y >= x /\ y - B < x  BY <2>2, <2>4, <3>1
      <3> QED  BY <2>5, <3>2 DEF y
    <2> QED  BY <2>3, <2>6 DEF p, B, x
  <1>2. PolicyIInv => PremiumIsLeast  BY <1>1 DEF PremiumIsLeast
  <1> QED  BY <1>2, PolicyInvariance, PTL

(* Only a transition writes the state of a certificate, only a transfer    *)
(* its owner, and nothing writes the rest (transition, cancel, transfer);  *)
(* a cancellation comes before the window of the certificate.              *)
LEMMA CertificateMoves ==
  ASSUME PolicyIInv, [PolicyNext]_policy_vars
  PROVE  \/ \A id \in DOMAIN policy : id \in DOMAIN policy' /\ policy'[id] = policy[id]
         \/ \E id \in DOMAIN policy, from \in PolicyState, to \in PolicyState :
              /\ <<from, to>> \in Lifecycle
              /\ policy[id].state = from
              /\ to = "Cancelled" => now < policy[id].terms.window_start
              /\ policy' = [policy EXCEPT ![id] = [policy[id] EXCEPT !.state = to]]
         \/ \E id \in DOMAIN policy, a \in Accounts :
              /\ policy[id].state = "Active"
              /\ policy' = [policy EXCEPT ![id] = [policy[id] EXCEPT !.owner = a]]
  <1> DEFINE Same == \A id \in DOMAIN policy : id \in DOMAIN policy' /\ policy'[id] = policy[id]
             Moved == \E id \in DOMAIN policy, from \in PolicyState, to \in PolicyState :
                        /\ <<from, to>> \in Lifecycle
                        /\ policy[id].state = from
                        /\ to = "Cancelled" => now < policy[id].terms.window_start
                        /\ policy' = [policy EXCEPT ![id] = [policy[id] EXCEPT !.state = to]]
             Handed == \E id \in DOMAIN policy, a \in Accounts :
                         /\ policy[id].state = "Active"
                         /\ policy' = [policy EXCEPT ![id] = [policy[id] EXCEPT !.owner = a]]
  <1>1. ASSUME policy' = policy PROVE Same  BY <1>1
  <1>2. ASSUME NEW s \in SeasonId, NEW payer \in Accounts,
               NEW entries \in Seq(BatchEntry), mint_all(s, payer, entries)
        PROVE  Same
    <2>1. Len(entries) \in Nat /\ Sold(s, entries, premiumsOf(entries), nets(premiumsOf(entries)))
      BY <1>2, MintSells
    <2>2. DOMAIN policy = 1 .. policy_counter /\ policy_counter \in Nat
      BY PolicyBoundAssumption DEF PolicyIInv, PolicyTypeOK
    <2>3. \A id \in DOMAIN policy :
            id \notin policy_counter + 1 .. policy_counter + Len(entries)
      BY <2>1, <2>2
    <2> QED  BY <2>1, <2>3 DEF Sold
  <1>3. ASSUME NEW s \in SeasonId, NEW a \in Accounts, NEW terms \in Terms,
               NEW max_premium \in MaxPremiums, NEW pointer \in Pointers,
               mint(a, s, terms, max_premium, pointer)
        PROVE  Same
    <2> DEFINE e == [owner |-> a, terms |-> terms,
                     max_premium |-> max_premium, metadata |-> pointer]
    <2>1. terms \in PolicyTerms /\ max_premium \in Int  BY TermsAssumption
    <2>2. e \in BatchEntry  BY <2>1 DEF BatchEntry
    <2>3. mint_all(s, a, <<e>>)  BY <1>3 DEF mint
    <2> HIDE DEF e, Same
    <2>4. <<e>> \in Seq(BatchEntry)  BY <2>2
    <2> QED  BY <1>2, <2>3, <2>4
  <1>4. ASSUME NEW s \in SeasonId, NEW a \in Accounts, NEW entries \in MintLists,
               mint_batch(a, s, entries)
        PROVE  Same
    BY <1>2, <1>4, TermsAssumption DEF mint_batch
  <1>5. ASSUME NEW id, NEW from \in PolicyState, NEW to \in PolicyState,
               <<from, to>> \in Lifecycle, to # "Cancelled", transition(id, from, to)
        PROVE  Moved
    BY <1>5 DEF transition, Has
  <1>6. ASSUME NEW id, mark_triggered(id) \/ mark_paid(id) \/ expire(id) PROVE Moved
    <2>1. {"Active", "Triggered", "Paid", "Expired"} \subseteq PolicyState
      BY DEF PolicyState
    <2>2. /\ <<"Active", "Triggered">> \in Lifecycle
          /\ <<"Triggered", "Paid">> \in Lifecycle
          /\ <<"Active", "Expired">> \in Lifecycle
      BY DEF Lifecycle
    <2> HIDE DEF Moved
    <2>3. CASE transition(id, "Active", "Triggered")  BY <1>5, <2>1, <2>2, <2>3
    <2>4. CASE transition(id, "Triggered", "Paid")  BY <1>5, <2>1, <2>2, <2>4
    <2>5. CASE transition(id, "Active", "Expired")  BY <1>5, <2>1, <2>2, <2>5
    <2> QED  BY <1>6, <2>3, <2>4, <2>5 DEF mark_triggered, mark_paid, expire
  <1>7. ASSUME NEW id, cancel(id) PROVE Moved
    <2>1. /\ id \in DOMAIN policy /\ policy[id].state = "Active"
          /\ now < policy[id].terms.window_start
          /\ policy' = [policy EXCEPT ![id] = [policy[id] EXCEPT !.state = "Cancelled"]]
      BY <1>7 DEF cancel, Has, may_cancel
    <2>2. <<"Active", "Cancelled">> \in Lifecycle  BY DEF Lifecycle
    <2>3. "Active" \in PolicyState /\ "Cancelled" \in PolicyState  BY DEF PolicyState
    <2> QED  BY <2>1, <2>2, <2>3
  <1>8. ASSUME NEW id, NEW a \in Accounts, transfer(id, a) PROVE Handed
    <2>1. /\ id \in DOMAIN policy /\ policy[id].state = "Active"
          /\ policy' = [policy EXCEPT ![id] = [policy[id] EXCEPT !.owner = a]]
      BY <1>8 DEF transfer, Has
    <2> QED  BY <2>1
  <1>9. ASSUME \/ pool_without_refunds
               \/ UNCHANGED policy_vars
               \/ \E id \in 1 .. MaxPolicies, pointer \in Pointers : set_metadata(id, pointer)
               \/ \E allowed \in BOOLEAN : set_transferable(allowed)
               \/ PolicyTick
        PROVE  Same
    <2>1. policy' = policy
      BY <1>9 DEF pool_without_refunds, policy_vars, certificates, set_metadata,
         set_transferable, PolicyTick
    <2> QED  BY <1>1, <2>1
  <1> HIDE DEF Same, Moved, Handed
  <1>10. Same \/ Moved \/ Handed
    BY <1>3, <1>4, <1>6, <1>7, <1>8, <1>9 DEF PolicyNext, PolicyCall
  <1> QED  BY <1>10 DEF Same, Moved, Handed

(* One step of the policy contract leaves a certificate frozen.            *)
LEMMA FrozenStep ==
  ASSUME PolicyIInv, [PolicyNext]_policy_vars
  PROVE  CertificateFrozenStep
  <1>1. \A id \in DOMAIN policy : policy[id] \in PolicyRecord
    BY DEF PolicyIInv, PolicyTypeOK
  <1>2. CASE \A id \in DOMAIN policy : id \in DOMAIN policy' /\ policy'[id] = policy[id]
    <2> SUFFICES ASSUME NEW id \in DOMAIN policy
                 PROVE  policy[id] = [policy[id] EXCEPT !.state = policy[id].state,
                                                        !.owner = policy[id].owner]
      BY <1>2 DEF CertificateFrozenStep
    <2> QED  BY <1>1 DEF PolicyRecord
  <1>3. CASE \E id \in DOMAIN policy, from \in PolicyState, to \in PolicyState :
               /\ <<from, to>> \in Lifecycle
               /\ policy[id].state = from
               /\ to = "Cancelled" => now < policy[id].terms.window_start
               /\ policy' = [policy EXCEPT ![id] = [policy[id] EXCEPT !.state = to]]
    <2>1. PICK p \in DOMAIN policy, from \in PolicyState, to \in PolicyState :
            /\ <<from, to>> \in Lifecycle
            /\ policy[p].state = from
            /\ policy' = [policy EXCEPT ![p] = [policy[p] EXCEPT !.state = to]]
      BY <1>3
    <2> SUFFICES ASSUME NEW id \in DOMAIN policy
                 PROVE  /\ id \in DOMAIN policy'
                        /\ policy'[id] = [policy[id] EXCEPT !.state = policy'[id].state,
                                                            !.owner = policy'[id].owner]
                        /\ policy'[id].state # policy[id].state =>
                             <<policy[id].state, policy'[id].state>> \in Lifecycle
                        /\ policy'[id].owner = policy[id].owner
      BY DEF CertificateFrozenStep
    <2>2. policy[id] \in PolicyRecord  BY <1>1
    <2>3. id \in DOMAIN policy'  BY <2>1
    <2>4. CASE id = p
      <3>1. policy'[id] = [policy[id] EXCEPT !.state = to]  BY <2>1, <2>4
      <3>2. policy'[id].state = to /\ policy'[id].owner = policy[id].owner
        BY <2>2, <3>1 DEF PolicyRecord
      <3>3. policy'[id] = [policy[id] EXCEPT !.state = to, !.owner = policy[id].owner]
        BY <2>2, <3>1 DEF PolicyRecord
      <3> QED  BY <2>1, <2>3, <2>4, <3>2, <3>3
    <2>5. CASE id # p
      <3>1. policy'[id] = policy[id]  BY <2>1, <2>5
      <3>2. policy[id] = [policy[id] EXCEPT !.state = policy[id].state,
                                            !.owner = policy[id].owner]
        BY <2>2 DEF PolicyRecord
      <3> QED  BY <2>3, <3>1, <3>2
    <2> QED  BY <2>4, <2>5
  <1>4. CASE \E id \in DOMAIN policy, a \in Accounts :
               /\ policy[id].state = "Active"
               /\ policy' = [policy EXCEPT ![id] = [policy[id] EXCEPT !.owner = a]]
    <2>1. PICK p \in DOMAIN policy, a \in Accounts :
            /\ policy[p].state = "Active"
            /\ policy' = [policy EXCEPT ![p] = [policy[p] EXCEPT !.owner = a]]
      BY <1>4
    <2> SUFFICES ASSUME NEW id \in DOMAIN policy
                 PROVE  /\ id \in DOMAIN policy'
                        /\ policy'[id] = [policy[id] EXCEPT !.state = policy'[id].state,
                                                            !.owner = policy'[id].owner]
                        /\ policy'[id].state = policy[id].state
                        /\ policy'[id].owner # policy[id].owner => policy[id].state = "Active"
      BY DEF CertificateFrozenStep
    <2>2. policy[id] \in PolicyRecord  BY <1>1
    <2>3. id \in DOMAIN policy'  BY <2>1
    <2>4. CASE id = p
      <3>1. policy'[id] = [policy[id] EXCEPT !.owner = a]  BY <2>1, <2>4
      <3>2. policy'[id].state = policy[id].state /\ policy'[id].owner = a
        BY <2>2, <3>1 DEF PolicyRecord
      <3>3. policy'[id] = [policy[id] EXCEPT !.state = policy[id].state, !.owner = a]
        BY <2>2, <3>1 DEF PolicyRecord
      <3> QED  BY <2>1, <2>3, <2>4, <3>2, <3>3
    <2>5. CASE id # p
      <3>1. policy'[id] = policy[id]  BY <2>1, <2>5
      <3>2. policy[id] = [policy[id] EXCEPT !.state = policy[id].state,
                                            !.owner = policy[id].owner]
        BY <2>2 DEF PolicyRecord
      <3> QED  BY <2>3, <3>1, <3>2
    <2> QED  BY <2>4, <2>5
  <1> QED  BY <1>2, <1>3, <1>4, CertificateMoves

(* No id is reused, what a certificate insures and what was paid for it    *)
(* never change, the end states are final, and it changes hands only while *)
(* it is Active (mint_one, transition, cancel, transfer).                  *)
THEOREM CertificateFrozenHolds == PolicySpec => CertificateFrozen
  <1>1. PolicyIInv /\ [PolicyNext]_policy_vars => [CertificateFrozenStep]_policy_vars
    BY FrozenStep
  <1> QED  BY <1>1, PolicyInvariance, PTL DEF PolicySpec, CertificateFrozen
=============================================================================
