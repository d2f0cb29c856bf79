---------------------------- MODULE TotalsProofs ----------------------------
(***************************************************************************)
(* The arithmetic the proofs of several components rest on: the rounding   *)
(* division, and how Total behaves.  Total is zero for the empty ledger,   *)
(* an update of one entry moves it by the change of that entry, and no     *)
(* entry exceeds it.  Units(f) is finite for every ledger reached by       *)
(* updates from the empty one, also over an infinite domain.  Ledgers may  *)
(* be added entry by entry, joined, renamed, rid of zero balances and      *)
(* regrouped by owner, and the increments of a running sum total what it   *)
(* grew by.                                                                *)
(***************************************************************************)
EXTENDS Totals, FiniteSetTheorems, WellFoundedInduction, TLAPS

-----------------------------------------------------------------------------
(***************************************************************************)
(* Arithmetic of the rounding divisions.                                   *)
(***************************************************************************)

(* Division of naturals rounds down by less than one.                      *)
LEMMA DivBounds ==
  ASSUME NEW a \in Nat, NEW b \in Nat \ {0}
  PROVE  /\ a \div b \in Nat
         /\ b * (a \div b) <= a
         /\ a < b * (a \div b) + b
  BY SMT

(* The product of naturals is a natural and is monotone in a factor.       *)
LEMMA ProductNat ==
  ASSUME NEW a \in Nat, NEW b \in Nat PROVE a * b \in Nat
  BY SMT

(* A product of naturals grows with either factor.                         *)
LEMMA ProductMonotone ==
  ASSUME NEW a \in Nat, NEW b \in Nat, NEW c \in Nat, a <= b PROVE a * c <= b * c
  BY SMT

(* A positive factor cancels from an inequality.                           *)
LEMMA Cancel ==
  ASSUME NEW a \in Int, NEW b \in Int, NEW c \in Nat \ {0}, c * a <= c * b
  PROVE  a <= b
  BY SMT

(* A smaller numerator never gives the greater quotient.                   *)
LEMMA DivMonotone ==
  ASSUME NEW a \in Nat, NEW b \in Nat, a <= b, NEW d \in Nat \ {0}
  PROVE  a \div d <= b \div d
  <1> DEFINE x == a \div d
             y == b \div d
  <1>1. /\ x \in Nat /\ d * x <= a
        /\ y \in Nat /\ b < d * y + d
    BY DivBounds
  <1> HIDE DEF x, y
  <1>2. ASSUME x > y PROVE FALSE
    <2>1. d * x >= d * (y + 1)  BY <1>1, <1>2, SMT
    <2>2. d * (y + 1) = d * y + d  BY <1>1, SMT
    <2>3. d * x \in Int /\ d * y \in Int  BY <1>1
    <2> QED  BY <1>1, <2>1, <2>2, <2>3
  <1> QED  BY <1>1, <1>2 DEF x, y

-----------------------------------------------------------------------------
(***************************************************************************)
(* Totals.                                                                 *)
(***************************************************************************)

(* The units of one balance are as many as the balance says.               *)
LEMMA RowCardinality ==
  ASSUME NEW d, NEW n \in Nat
  PROVE  /\ IsFiniteSet({d} \X (1 .. n))
         /\ Cardinality({d} \X (1 .. n)) = n
  <1> DEFINE b == [i \in 1 .. n |-> <<d, i>>]
  <1>1. IsFiniteSet(1 .. n) /\ Cardinality(1 .. n) = n  BY FS_Interval
  <1>2. b \in Bijection(1 .. n, {d} \X (1 .. n))
    <2>1. b \in [1 .. n -> {d} \X (1 .. n)]  OBVIOUS
    <2>2. ASSUME NEW i \in 1 .. n, NEW j \in 1 .. n, b[i] = b[j] PROVE i = j
      BY <2>2
    <2>3. ASSUME NEW u \in {d} \X (1 .. n) PROVE \E i \in 1 .. n : b[i] = u
      <3>1. u[2] \in 1 .. n /\ u = <<d, u[2]>>  OBVIOUS
      <3>2. b[u[2]] = u  BY <3>1
      <3> QED  BY <3>1, <3>2
    <2>4. IsInjective(b)  BY <2>1, <2>2 DEF IsInjective
    <2> HIDE DEF b
    <2> QED  BY <2>1, <2>3, <2>4 DEF Bijection, Injection, Surjection
  <1>3. ExistsBijection(1 .. n, {d} \X (1 .. n))  BY <1>2 DEF ExistsBijection
  <1> QED  BY <1>1, <1>3, FS_Bijection

(* The ledger in which nobody owns anything.                               *)
LEMMA TotalEmpty ==
  ASSUME NEW D
  PROVE  /\ IsFiniteSet(Units([d \in D |-> 0]))
         /\ Total([d \in D |-> 0]) = 0
  <1>1. Units([d \in D |-> 0]) = {}  BY DEF Units
  <1> QED  BY <1>1, FS_EmptySet DEF Total

(* A ledger is one balance and the rest, and the rest does not depend on   *)
(* that balance.                                                           *)
LEMMA TotalSplit ==
  ASSUME NEW D, NEW f \in [D -> Nat], IsFiniteSet(Units(f)), NEW a \in D
  PROVE  LET rest == Units(f) \ ({a} \X (1 .. f[a]))
         IN  /\ IsFiniteSet(rest)
             /\ Cardinality(rest) \in Nat
             /\ Total(f) = Cardinality(rest) + f[a]
  <1> DEFINE row == {a} \X (1 .. f[a])
             rest == Units(f) \ row
  <1>1. f[a] \in Nat  OBVIOUS
  <1>2. row \subseteq Units(f)  BY DEF Units
  <1>3. IsFiniteSet(row) /\ Cardinality(row) = f[a]  BY <1>1, RowCardinality
  <1>4. IsFiniteSet(rest)  BY FS_Subset
  <1>5. Units(f) = rest \cup row /\ rest \cap row = {}  BY <1>2
  <1>6. Cardinality(Units(f)) = Cardinality(rest) + f[a] - Cardinality({})
    <2> HIDE DEF rest, row
    <2> QED  BY <1>3, <1>4, <1>5, FS_Union
  <1>7. Cardinality({}) = 0  BY FS_EmptySet
  <1>8. Cardinality(rest) \in Nat  BY <1>4, FS_CardinalityType
  <1> HIDE DEF rest
  <1>9. Cardinality(rest) + f[a] - 0 = Cardinality(rest) + f[a]  BY <1>1, <1>8
  <1> QED  BY <1>4, <1>6, <1>7, <1>8, <1>9 DEF Total, rest

(* One entry of the ledger is overwritten.                                 *)
LEMMA TotalUpdate ==
  ASSUME NEW D, NEW f \in [D -> Nat], IsFiniteSet(Units(f)),
         NEW a \in D, NEW v \in Nat
  PROVE  /\ IsFiniteSet(Units([f EXCEPT ![a] = v]))
         /\ Total([f EXCEPT ![a] = v]) = Total(f) + v - f[a]
  <1> DEFINE g == [f EXCEPT ![a] = v]
             rest == Units(f) \ ({a} \X (1 .. f[a]))
             row == {a} \X (1 .. v)
  <1>1. /\ IsFiniteSet(rest)
        /\ Cardinality(rest) \in Nat
        /\ Total(f) = Cardinality(rest) + f[a]
    BY TotalSplit
  <1>2. IsFiniteSet(row) /\ Cardinality(row) = v  BY RowCardinality
  <1>3. Units(g) = rest \cup row
    <2>1. ASSUME NEW u \in Units(g) PROVE u \in rest \cup row
      <3>1. PICK d \in D : u \in {d} \X (1 .. g[d])  BY <2>1 DEF Units
      <3>2. CASE d = a  BY <3>1, <3>2
      <3>3. CASE d # a  BY <3>1, <3>3 DEF Units
      <3> QED  BY <3>2, <3>3
    <2>2. ASSUME NEW u \in rest PROVE u \in Units(g)
      <3>1. PICK d \in D : u \in {d} \X (1 .. f[d])  BY <2>2 DEF Units
      <3>2. d # a  BY <2>2, <3>1
      <3> QED  BY <3>1, <3>2 DEF Units
    <2>3. ASSUME NEW u \in row PROVE u \in Units(g)
      BY <2>3 DEF Units
    <2> QED  BY <2>1, <2>2, <2>3
  <1>4. rest \cap row = {}
    <2> SUFFICES ASSUME NEW u \in rest, u \in row PROVE FALSE  OBVIOUS
    <2>1. PICK d \in D : u \in {d} \X (1 .. f[d])  BY DEF Units
    <2> QED  BY <2>1
  <1>5. IsFiniteSet(Units(g)) /\ Cardinality(Units(g)) = Cardinality(rest) + v - Cardinality({})
    <2> HIDE DEF rest, row, g
    <2>1. /\ IsFiniteSet(rest \cup row)
          /\ Cardinality(rest \cup row) =
               Cardinality(rest) + Cardinality(row) - Cardinality(rest \cap row)
      BY <1>1, <1>2, FS_Union
    <2> QED  BY <1>2, <1>3, <1>4, <2>1
  <1>6. Cardinality({}) = 0  BY FS_EmptySet
  <1>7. f[a] \in Nat  OBVIOUS
  <1> HIDE DEF rest, row, g
  <1>8. Cardinality(Units(g)) = Total(f) + v - f[a]
    BY <1>1, <1>5, <1>6, <1>7
  <1> QED  BY <1>5, <1>8 DEF Total, g

(* No balance exceeds the total.                                           *)
LEMMA EntryBelowTotal ==
  ASSUME NEW D, NEW f \in [D -> Nat], IsFiniteSet(Units(f)), NEW a \in D
  PROVE  f[a] <= Total(f) /\ Total(f) \in Nat
  <1> DEFINE rest == Units(f) \ ({a} \X (1 .. f[a]))
  <1>1. /\ Cardinality(rest) \in Nat
        /\ Total(f) = Cardinality(rest) + f[a]
    BY TotalSplit
  <1>2. f[a] \in Nat  OBVIOUS
  <1> HIDE DEF rest
  <1> QED  BY <1>1, <1>2

(* A ledger that is smaller everywhere has the smaller total.              *)
LEMMA TotalMonotone ==
  ASSUME NEW D, NEW f \in [D -> Nat], NEW g \in [D -> Nat],
         IsFiniteSet(Units(g)), \A d \in D : f[d] <= g[d]
  PROVE  Total(f) <= Total(g)
  <1>1. Units(f) \subseteq Units(g)
    <2> SUFFICES ASSUME NEW u \in Units(f) PROVE u \in Units(g)  OBVIOUS
    <2>1. PICK d \in D : u \in {d} \X (1 .. f[d])  BY DEF Units
    <2>2. u \in {d} \X (1 .. g[d])  BY <2>1
    <2> QED  BY <2>2 DEF Units
  <1> QED  BY <1>1, FS_Subset DEF Total

(* A ledger over a finite domain is finite.                                *)
LEMMA FiniteLedger ==
  ASSUME NEW D, IsFiniteSet(D), NEW f \in [D -> Nat]
  PROVE  IsFiniteSet(Units(f)) /\ Total(f) \in Nat
  <1> DEFINE Rows == {{d} \X (1 .. f[d]) : d \in D}
             row == [d \in D |-> {d} \X (1 .. f[d])]
  <1>1. row \in Surjection(D, Rows)  BY DEF Surjection
  <1>2. IsFiniteSet(Rows)
    <2> HIDE DEF Rows, row
    <2> QED  BY <1>1, FS_Surjection
  <1>3. ASSUME NEW R \in Rows PROVE IsFiniteSet(R)
    <2>1. PICK d \in D : R = {d} \X (1 .. f[d])  OBVIOUS
    <2>2. f[d] \in Nat  OBVIOUS
    <2> QED  BY <2>1, <2>2, RowCardinality
  <1>4. IsFiniteSet(UNION Rows)
    <2> HIDE DEF Rows
    <2> QED  BY <1>2, <1>3, FS_UNION
  <1>5. Units(f) = UNION Rows  BY DEF Units
  <1> QED  BY <1>4, <1>5, FS_CardinalityType DEF Total

(* One entry is taken out of the ledger.                                   *)
LEMMA TotalWithout ==
  ASSUME NEW D, NEW f \in [D -> Nat], IsFiniteSet(Units(f)), NEW a \in D
  PROVE  LET g == [d \in D \ {a} |-> f[d]]
         IN  /\ IsFiniteSet(Units(g))
             /\ Total(g) \in Nat
             /\ Total(f) = Total(g) + f[a]
  <1> DEFINE g == [d \in D \ {a} |-> f[d]]
  <1>1. Units(g) = Units(f) \ ({a} \X (1 .. f[a]))
    <2>1. ASSUME NEW u \in Units(g) PROVE u \in Units(f) \ ({a} \X (1 .. f[a]))
      <3>1. PICK d \in D \ {a} : u \in {d} \X (1 .. f[d])  BY <2>1 DEF Units
      <3> QED  BY <3>1 DEF Units
    <2>2. ASSUME NEW u \in Units(f) \ ({a} \X (1 .. f[a])) PROVE u \in Units(g)
      <3>1. PICK d \in D : u \in {d} \X (1 .. f[d])  BY <2>2 DEF Units
      <3>2. d # a  BY <2>2, <3>1
      <3> QED  BY <3>1, <3>2 DEF Units
    <2> QED  BY <2>1, <2>2
  <1> HIDE DEF g
  <1>2. /\ IsFiniteSet(Units(g))
        /\ Cardinality(Units(g)) \in Nat
        /\ Total(f) = Cardinality(Units(g)) + f[a]
    BY <1>1, TotalSplit
  <1> QED  BY <1>2 DEF Total, g

(* A unit names its balance and is one of as many as the balance says.     *)
LEMMA UnitOf ==
  ASSUME NEW f, NEW u \in Units(f)
  PROVE  u[1] \in DOMAIN f /\ u[2] \in 1 .. f[u[1]] /\ u = <<u[1], u[2]>>
  <1>1. PICK d \in DOMAIN f : u \in {d} \X (1 .. f[d])  BY DEF Units
  <1> QED  BY <1>1

(* Two ledgers over the same balances are added entry by entry.            *)
LEMMA TotalAdd ==
  ASSUME NEW D, NEW f \in [D -> Nat], NEW g \in [D -> Nat],
         IsFiniteSet(Units(f)), IsFiniteSet(Units(g))
  PROVE  LET h == [d \in D |-> f[d] + g[d]]
         IN  /\ IsFiniteSet(Units(h))
             /\ Total(h) = Total(f) + Total(g)
  <1> DEFINE h == [d \in D |-> f[d] + g[d]]
             lifted == UNION {{d} \X (f[d] + 1 .. f[d] + g[d]) : d \in D}
             lift == [u \in Units(g) |-> <<u[1], f[u[1]] + u[2]>>]
  <1>1. lift \in Bijection(Units(g), lifted)
    <2>1. ASSUME NEW u \in Units(g)
          PROVE  u[1] \in D /\ u[2] \in 1 .. g[u[1]] /\ u = <<u[1], u[2]>>
      BY <2>1, UnitOf
    <2>2. ASSUME NEW u \in Units(g) PROVE lift[u] \in lifted
      <3> DEFINE d == u[1]
                 k == u[2]
      <3>1. d \in D /\ k \in 1 .. g[d]  BY <2>1
      <3>2. lift[u] = <<d, f[d] + k>>  BY <2>2
      <3> HIDE DEF d, k, lift
      <3>3. f[d] \in Nat /\ g[d] \in Nat  BY <3>1
      <3>4. f[d] + k \in f[d] + 1 .. f[d] + g[d]  BY <3>1, <3>3
      <3> QED  BY <3>1, <3>2, <3>4
    <2>3. ASSUME NEW u \in Units(g), NEW v \in Units(g), lift[u] = lift[v] PROVE u = v
      <3>1. u[1] \in D /\ u[2] \in 1 .. g[u[1]] /\ u = <<u[1], u[2]>>  BY <2>1
      <3>2. v[1] \in D /\ v[2] \in 1 .. g[v[1]] /\ v = <<v[1], v[2]>>  BY <2>1
      <3>3. u[1] = v[1] /\ f[u[1]] + u[2] = f[v[1]] + v[2]  BY <2>3
      <3>4. f[u[1]] \in Nat /\ u[2] \in Int /\ v[2] \in Int  BY <3>1, <3>2
      <3>5. u[2] = v[2]  BY <3>3, <3>4
      <3> QED  BY <3>1, <3>2, <3>3, <3>5
    <2>4. ASSUME NEW v \in lifted PROVE \E u \in Units(g) : lift[u] = v
      <3>1. PICK d \in D : v \in {d} \X (f[d] + 1 .. f[d] + g[d])  OBVIOUS
      <3>2. f[d] \in Nat /\ g[d] \in Nat  OBVIOUS
      <3>3. PICK j \in f[d] + 1 .. f[d] + g[d] : v = <<d, j>>  BY <3>1
      <3>4. j - f[d] \in 1 .. g[d] /\ f[d] + (j - f[d]) = j  BY <3>2
      <3>5. <<d, j - f[d]>> \in Units(g)  BY <3>4 DEF Units
      <3>6. lift[<<d, j - f[d]>>] = v  BY <3>3, <3>4, <3>5
      <3> QED  BY <3>5, <3>6
    <2>5. lift \in [Units(g) -> lifted]  BY <2>2
    <2> HIDE DEF lift, lifted
    <2> QED  BY <2>3, <2>4, <2>5 DEF Bijection, Injection, Surjection, IsInjective
  <1>2. IsFiniteSet(lifted) /\ Cardinality(lifted) = Total(g)
    <2>1. ExistsBijection(Units(g), lifted)  BY <1>1 DEF ExistsBijection
    <2> HIDE DEF lifted, lift
    <2> QED  BY <2>1, FS_Bijection DEF Total
  <1>3. Units(h) = Units(f) \cup lifted
    <2>1. ASSUME NEW u \in Units(h) PROVE u \in Units(f) \cup lifted
      <3>1. PICK d \in D : u \in {d} \X (1 .. f[d] + g[d])  BY <2>1 DEF Units
      <3>2. f[d] \in Nat /\ g[d] \in Nat  OBVIOUS
      <3>3. u \in {d} \X (1 .. f[d]) \/ u \in {d} \X (f[d] + 1 .. f[d] + g[d])
        BY <3>1, <3>2
      <3> QED  BY <3>3 DEF Units
    <2>2. ASSUME NEW u \in Units(f) PROVE u \in Units(h)
      <3>1. PICK d \in D : u \in {d} \X (1 .. f[d])  BY <2>2 DEF Units
      <3>2. f[d] \in Nat /\ g[d] \in Nat  OBVIOUS
      <3>3. u \in {d} \X (1 .. f[d] + g[d])  BY <3>1, <3>2
      <3> QED  BY <3>3 DEF Units
    <2>3. ASSUME NEW u \in lifted PROVE u \in Units(h)
      <3>1. PICK d \in D : u \in {d} \X (f[d] + 1 .. f[d] + g[d])  BY <2>3
      <3>2. f[d] \in Nat /\ g[d] \in Nat  OBVIOUS
      <3>3. u \in {d} \X (1 .. f[d] + g[d])  BY <3>1, <3>2
      <3> QED  BY <3>3 DEF Units
    <2> QED  BY <2>1, <2>2, <2>3
  <1>4. Units(f) \cap lifted = {}
    <2> SUFFICES ASSUME NEW u \in Units(f), u \in lifted PROVE FALSE  OBVIOUS
    <2>1. PICK d \in D : u \in {d} \X (1 .. f[d])  BY DEF Units
    <2>2. PICK e \in D : u \in {e} \X (f[e] + 1 .. f[e] + g[e])  OBVIOUS
    <2>3. f[d] \in Nat  OBVIOUS
    <2> QED  BY <2>1, <2>2, <2>3
  <1> HIDE DEF h, lifted, lift
  <1>5. IsFiniteSet(Units(h)) /\ Cardinality(Units(h)) = Total(f) + Total(g) - 0
    BY <1>2, <1>3, <1>4, FS_Union, FS_EmptySet DEF Total
  <1>6. Total(f) \in Nat /\ Total(g) \in Nat  BY FS_CardinalityType DEF Total
  <1>7. Total(f) + Total(g) - 0 = Total(f) + Total(g)  BY <1>6
  <1> QED  BY <1>5, <1>7 DEF Total, h

(* The ledger h falls into the parts f and g.                              *)
Parts(h, f, g) ==
  /\ DOMAIN h = DOMAIN f \cup DOMAIN g
  /\ \A d \in DOMAIN f : d \notin DOMAIN g /\ f[d] \in Nat /\ h[d] = f[d]
  /\ \A d \in DOMAIN g : g[d] \in Nat /\ h[d] = g[d]

(* What a ledger is worth is what its parts are worth.                     *)
LEMMA TotalJoin ==
  ASSUME NEW f, NEW g, NEW h, Parts(h, f, g),
         IsFiniteSet(Units(f)), IsFiniteSet(Units(g))
  PROVE  IsFiniteSet(Units(h)) /\ Total(h) = Total(f) + Total(g)
  <1>1. Units(h) = Units(f) \cup Units(g)
    <2> USE DEF Parts
    <2>1. ASSUME NEW u \in Units(h) PROVE u \in Units(f) \cup Units(g)
      <3>1. PICK d \in DOMAIN h : u \in {d} \X (1 .. h[d])  BY <2>1 DEF Units
      <3> QED  BY <3>1 DEF Units
    <2>2. Units(f) \subseteq Units(h) /\ Units(g) \subseteq Units(h)  BY DEF Units
    <2> QED  BY <2>1, <2>2
  <1>2. Units(f) \cap Units(g) = {}
    <2> USE DEF Parts
    <2> SUFFICES ASSUME NEW u \in Units(f), u \in Units(g) PROVE FALSE  OBVIOUS
    <2>1. PICK d \in DOMAIN f : u \in {d} \X (1 .. f[d])  BY DEF Units
    <2>2. PICK e \in DOMAIN g : u \in {e} \X (1 .. g[e])  BY DEF Units
    <2> QED  BY <2>1, <2>2
  <1>3. IsFiniteSet(Units(h)) /\ Cardinality(Units(h)) = Total(f) + Total(g) - 0
    BY <1>1, <1>2, FS_Union, FS_EmptySet DEF Total
  <1>4. Total(f) \in Nat /\ Total(g) \in Nat  BY FS_CardinalityType DEF Total
  <1>5. Total(f) + Total(g) - 0 = Total(f) + Total(g)  BY <1>4
  <1> QED  BY <1>3, <1>5 DEF Total

(* Balances of zero may be left out.                                       *)
LEMMA TotalRestricted ==
  ASSUME NEW D, NEW f \in [D -> Nat], NEW E, E \subseteq D, \A d \in D : d \notin E => f[d] = 0
  PROVE  LET g == [d \in E |-> f[d]]
         IN  Units(g) = Units(f) /\ Total(g) = Total(f)
  <1> DEFINE g == [d \in E |-> f[d]]
  <1>1. ASSUME NEW u \in Units(f) PROVE u \in Units(g)
    <2>1. PICK d \in D : u \in {d} \X (1 .. f[d])  BY DEF Units
    <2>2. d \in E  BY <2>1
    <2>3. d \in DOMAIN g /\ u \in {d} \X (1 .. g[d])  BY <2>1, <2>2
    <2> HIDE DEF g
    <2> QED  BY <2>3 DEF Units
  <1>2. ASSUME NEW u \in Units(g) PROVE u \in Units(f)
    <2>1. PICK d \in E : u \in {d} \X (1 .. g[d])  BY DEF Units
    <2>2. d \in D /\ g[d] = f[d] /\ DOMAIN f = D  BY <2>1
    <2> QED  BY <2>1, <2>2 DEF Units
  <1>3. Units(g) = Units(f)  BY <1>1, <1>2
  <1> QED  BY <1>3 DEF Total

(* The balances may be renamed.                                            *)
LEMMA TotalRenamed ==
  ASSUME NEW D, NEW E, NEW f \in [D -> Nat], NEW g \in [E -> Nat],
         NEW m \in Bijection(D, E), \A d \in D : g[m[d]] = f[d],
         IsFiniteSet(Units(f))
  PROVE  IsFiniteSet(Units(g)) /\ Total(g) = Total(f)
  <1> DEFINE move == [u \in Units(f) |-> <<m[u[1]], u[2]>>]
  <1>0. /\ m \in [D -> E]
        /\ \A d, e \in D : m[d] = m[e] => d = e
        /\ \A e \in E : \E d \in D : m[d] = e
    BY DEF Bijection, Injection, Surjection, IsInjective
  <1>1. move \in Bijection(Units(f), Units(g))
    <2>1. ASSUME NEW u \in Units(f)
          PROVE  u[1] \in D /\ u[2] \in 1 .. f[u[1]] /\ u = <<u[1], u[2]>>
      BY <2>1, UnitOf
    <2>2. ASSUME NEW u \in Units(f) PROVE move[u] \in Units(g)
      <3>1. u[1] \in D /\ u[2] \in 1 .. f[u[1]]  BY <2>1
      <3>2. m[u[1]] \in E /\ g[m[u[1]]] = f[u[1]]  BY <1>0, <3>1
      <3>3. move[u] = <<m[u[1]], u[2]>>  BY <2>2
      <3>4. move[u] \in {m[u[1]]} \X (1 .. g[m[u[1]]])  BY <3>1, <3>2, <3>3
      <3> HIDE DEF move
      <3> QED  BY <3>2, <3>4 DEF Units
    <2>3. ASSUME NEW u \in Units(f), NEW v \in Units(f), move[u] = move[v] PROVE u = v
      <3>1. u[1] \in D /\ u = <<u[1], u[2]>>  BY <2>1
      <3>2. v[1] \in D /\ v = <<v[1], v[2]>>  BY <2>1
      <3>3. m[u[1]] = m[v[1]] /\ u[2] = v[2]  BY <2>3
      <3>4. u[1] = v[1]  BY <1>0, <3>1, <3>2, <3>3
      <3> QED  BY <3>1, <3>2, <3>3, <3>4
    <2>4. ASSUME NEW v \in Units(g) PROVE \E u \in Units(f) : move[u] = v
      <3>1. v[1] \in E /\ v[2] \in 1 .. g[v[1]] /\ v = <<v[1], v[2]>>  BY UnitOf
      <3>2. PICK d \in D : m[d] = v[1]  BY <1>0, <3>1
      <3>3. v[2] \in 1 .. f[d]  BY <3>1, <3>2
      <3>4. <<d, v[2]>> \in Units(f)  BY <3>3 DEF Units
      <3>5. move[<<d, v[2]>>] = v  BY <3>1, <3>2, <3>4
      <3> QED  BY <3>4, <3>5
    <2>5. move \in [Units(f) -> Units(g)]  BY <2>2
    <2> HIDE DEF move
    <2> QED  BY <2>3, <2>4, <2>5 DEF Bijection, Injection, Surjection, IsInjective
  <1>2. ExistsBijection(Units(f), Units(g))  BY <1>1 DEF ExistsBijection
  <1> HIDE DEF move
  <1> QED  BY <1>2, FS_Bijection DEF Total

(* A ledger may be counted by the owners of its balances: what the owners  *)
(* have, each in his own balances, is what there is.                       *)
LEMMA TotalByOwner ==
  ASSUME NEW D, IsFiniteSet(D), NEW v \in [D -> Nat], NEW O, NEW own \in [D -> O]
  PROVE  LET share == [o \in O |-> Total([d \in D |-> IF own[d] = o THEN v[d] ELSE 0])]
         IN  /\ share \in [O -> Nat]
             /\ IsFiniteSet(Units(share))
             /\ Total(share) = Total(v)
  <1> DEFINE row(T, o) == [d \in T |-> IF own[d] = o THEN v[d] ELSE 0]
             share(T) == [o \in O |-> Total(row(T, o))]
             whole(T) == [d \in T |-> v[d]]
             Good(T) == /\ share(T) \in [O -> Nat]
                        /\ IsFiniteSet(Units(share(T)))
                        /\ Total(share(T)) = Total(whole(T))
             Bad == {T \in SUBSET D : ~ Good(T)}
  <1>1. Good({})
    <2>1. \A o \in O : row({}, o) = [d \in {} |-> 0]  OBVIOUS
    <2>2. share({}) = [o \in O |-> 0]  BY <2>1, TotalEmpty
    <2>3. whole({}) = [d \in {} |-> 0]  OBVIOUS
    <2>4. [o \in O |-> 0] \in [O -> Nat]  OBVIOUS
    <2> HIDE DEF row, share, whole
    <2> QED  BY <2>2, <2>3, <2>4, TotalEmpty
  <1>2. ASSUME NEW T \in SUBSET D, NEW n \in T, Good(T \ {n}) PROVE Good(T)
    <2> DEFINE U == T \ {n}
    <2>1. IsFiniteSet(T)  BY FS_Subset
    <2>2. v[n] \in Nat /\ own[n] \in O  OBVIOUS
    <2>3. \A o \in O : Total(row(T, o)) = Total(row(U, o)) + (IF own[n] = o THEN v[n] ELSE 0)
      <3> SUFFICES ASSUME NEW o \in O
                   PROVE  Total(row(T, o)) =
                            Total(row(U, o)) + (IF own[n] = o THEN v[n] ELSE 0)
        OBVIOUS
      <3>1. row(T, o) \in [T -> Nat]  OBVIOUS
      <3>2. row(U, o) = [d \in T \ {n} |-> row(T, o)[d]]  OBVIOUS
      <3>3. row(T, o)[n] = IF own[n] = o THEN v[n] ELSE 0  OBVIOUS
      <3>4. IsFiniteSet(Units(row(T, o)))  BY <2>1, <3>1, FiniteLedger
      <3> HIDE DEF row, U
      <3> QED  BY <3>1, <3>2, <3>3, <3>4, TotalWithout
    <2>4. /\ share(U) \in [O -> Nat]
          /\ IsFiniteSet(Units(share(U)))
          /\ Total(share(U)) = Total(whole(U))
      BY <1>2
    <2>5. share(T) = [share(U) EXCEPT ![own[n]] = share(U)[own[n]] + v[n]]
      <3>1. \A o \in O : share(T)[o] = share(U)[o] + (IF own[n] = o THEN v[n] ELSE 0)
        BY <2>3
      <3>2. DOMAIN share(T) = O /\ DOMAIN share(U) = O  OBVIOUS
      <3>3. share(T) = [o \in O |-> share(T)[o]]  OBVIOUS
      <3> DEFINE f == share(T)
                 g == share(U)
      <3>4. /\ f = [o \in O |-> f[o]] /\ g \in [O -> Nat]
            /\ \A o \in O : f[o] = g[o] + (IF own[n] = o THEN v[n] ELSE 0)
        BY <2>4, <3>1, <3>3
      <3> HIDE DEF f, g
      <3>5. ASSUME NEW o \in O
            PROVE  f[o] = [g EXCEPT ![own[n]] = g[own[n]] + v[n]][o]
        <4>1. g[o] \in Nat /\ f[o] = g[o] + (IF own[n] = o THEN v[n] ELSE 0)
          BY <3>4
        <4>2. CASE own[n] = o  BY <2>2, <3>4, <4>1, <4>2
        <4>3. CASE own[n] # o  BY <2>2, <3>4, <4>1, <4>3
        <4> QED  BY <4>2, <4>3
      <3>6. f = [g EXCEPT ![own[n]] = g[own[n]] + v[n]]
        <4>1. [g EXCEPT ![own[n]] = g[own[n]] + v[n]]
                = [o \in O |-> [g EXCEPT ![own[n]] = g[own[n]] + v[n]][o]]
          BY <3>4
        <4> QED  BY <3>4, <3>5, <4>1, Zenon
      <3> QED  BY <3>6 DEF f, g
    <2>6. /\ whole(T) \in [T -> Nat]
          /\ whole(U) = [d \in T \ {n} |-> whole(T)[d]]
          /\ whole(T)[n] = v[n]
      OBVIOUS
    <2> HIDE DEF share, whole, U, Bad
    <2>7. IsFiniteSet(Units(whole(T)))  BY <2>1, <2>6, FiniteLedger
    <2>8. Total(whole(U)) \in Nat /\ Total(whole(T)) = Total(whole(U)) + v[n]
      BY <2>6, <2>7, TotalWithout
    <2>9. share(U)[own[n]] \in Nat  BY <2>2, <2>4
    <2>10. share(U)[own[n]] + v[n] \in Nat  BY <2>2, <2>9
    <2>11. share(T) \in [O -> Nat]  BY <2>4, <2>5, <2>10
    <2>12. /\ IsFiniteSet(Units(share(T)))
           /\ Total(share(T)) =
                Total(share(U)) + (share(U)[own[n]] + v[n]) - share(U)[own[n]]
      <3> DEFINE g == share(U)
      <3>1. /\ g \in [O -> Nat] /\ IsFiniteSet(Units(g))
            /\ own[n] \in O /\ g[own[n]] + v[n] \in Nat
        BY <2>2, <2>4, <2>10
      <3> HIDE DEF g
      <3>2. /\ IsFiniteSet(Units([g EXCEPT ![own[n]] = g[own[n]] + v[n]]))
            /\ Total([g EXCEPT ![own[n]] = g[own[n]] + v[n]]) =
                 Total(g) + (g[own[n]] + v[n]) - g[own[n]]
        BY <3>1, TotalUpdate
      <3> QED  BY <2>5, <3>2 DEF g
    <2>13. Total(share(T)) = Total(whole(T))
      BY <2>2, <2>4, <2>8, <2>9, <2>12
    <2> QED  BY <2>11, <2>12, <2>13
  <1> HIDE DEF Good
  <1>3. ASSUME Bad # {} PROVE FALSE
    <2>1. IsWellFoundedOn(StrictSubsetOrdering(D), FiniteSubsetsOf(D))
      BY FS_StrictSubsetOrderingWellFounded
    <2>2. FiniteSubsetsOf(D) = SUBSET D  BY FS_FiniteSubsetsOfFinite
    <2>3. Bad \subseteq FiniteSubsetsOf(D)  BY <2>2
    <2>4. PICK T \in Bad : \A U \in Bad : <<U, T>> \notin StrictSubsetOrdering(D)
      <3> HIDE DEF Bad
      <3> QED  BY <1>3, <2>1, <2>3, WFMin
    <2>5. T # {}  BY <1>1, <2>4
    <2>6. PICK n \in T : TRUE  BY <2>5
    <2>7. <<T \ {n}, T>> \in StrictSubsetOrdering(D)  BY <2>6 DEF StrictSubsetOrdering
    <2>8. Good(T \ {n})  BY <2>4, <2>7
    <2> QED  BY <1>2, <2>4, <2>6, <2>8
  <1>4. Good(D)  BY <1>3
  <1>5. whole(D) = v  OBVIOUS
  <1> QED  BY <1>4, <1>5 DEF Good

-----------------------------------------------------------------------------
(***************************************************************************)
(* Running sums.                                                           *)
(***************************************************************************)

(* Induction up to a bound, over a set rather than a predicate.            *)
LEMMA Climb ==
  ASSUME NEW n \in Nat, NEW S, 0 \in S, \A k \in 0 .. n - 1 : k \in S => k + 1 \in S
  PROVE  0 .. n \subseteq S
  <1> DEFINE R == OpToRel(<, Nat)
             Bad == (0 .. n) \ S
  <1>1. IsWellFoundedOn(R, Nat)  BY NatLessThanWellFounded, Zenon
  <1>2. \A i, j \in Nat : i < j => <<i, j>> \in R  BY DEF OpToRel
  <1> HIDE DEF R
  <1>3. SUFFICES ASSUME Bad # {} PROVE FALSE  OBVIOUS
  <1>4. Bad \subseteq Nat  OBVIOUS
  <1> HIDE DEF Bad
  <1>5. PICK k \in Bad : \A j \in Bad : <<j, k>> \notin R  BY <1>1, <1>3, <1>4, WFMin
  <1>6. k \in 0 .. n /\ k # 0 /\ k \notin S  BY DEF Bad
  <1>7. k - 1 \in 0 .. n - 1 /\ k - 1 < k /\ k - 1 + 1 = k  BY <1>6
  <1>8. k - 1 \notin S  BY <1>6, <1>7
  <1>9. k - 1 \in Bad  BY <1>7, <1>8 DEF Bad
  <1> QED  BY <1>2, <1>4, <1>5, <1>7, <1>9

(* The increments of a running sum total what it grew by.                  *)
LEMMA Telescope ==
  ASSUME NEW n \in Nat, NEW F \in [0 .. n -> Nat], \A k \in 1 .. n : F[k - 1] <= F[k]
  PROVE  LET d == [k \in 1 .. n |-> F[k] - F[k - 1]]
         IN  /\ d \in [1 .. n -> Nat]
             /\ IsFiniteSet(Units(d))
             /\ Total(d) = F[n] - F[0]
  <1> DEFINE d(m) == [k \in 1 .. m |-> F[k] - F[k - 1]]
             S == {m \in 0 .. n : Total(d(m)) = F[m] - F[0]}
  <1>1. \A k \in 1 .. n : F[k] - F[k - 1] \in Nat
    <2> SUFFICES ASSUME NEW k \in 1 .. n PROVE F[k] - F[k - 1] \in Nat  OBVIOUS
    <2>1. F[k] \in Nat /\ F[k - 1] \in Nat /\ F[k - 1] <= F[k]  OBVIOUS
    <2> QED  BY <2>1
  <1>2. \A m \in 0 .. n : d(m) \in [1 .. m -> Nat]  BY <1>1
  <1>3. 0 \in S
    <2>1. d(0) = [k \in {} |-> 0]  OBVIOUS
    <2>2. Total(d(0)) = 0  BY <2>1, TotalEmpty
    <2>3. F[0] - F[0] = 0  OBVIOUS
    <2> HIDE DEF d
    <2> QED  BY <2>2, <2>3
  <1>4. ASSUME NEW m \in 0 .. n - 1, m \in S PROVE m + 1 \in S
    <2> DEFINE h == d(m + 1)
               D == 1 .. m + 1
    <2>1. m + 1 \in 0 .. n /\ m + 1 \in D /\ D \ {m + 1} = 1 .. m  OBVIOUS
    <2>2. h \in [D -> Nat]  BY <1>2, <2>1
    <2>3. IsFiniteSet(D)  BY FS_Interval
    <2>4. d(m) = [k \in D \ {m + 1} |-> h[k]]  BY <2>1
    <2>5. h[m + 1] = F[m + 1] - F[m]  BY <2>1
    <2> HIDE DEF h, D, d
    <2>6. IsFiniteSet(Units(h))  BY <2>2, <2>3, FiniteLedger
    <2>7. Total(h) = Total(d(m)) + h[m + 1]
      <3> DEFINE a == m + 1
                 rest == [k \in D \ {a} |-> h[k]]
      <3>1. a \in D /\ d(m) = rest  BY <2>1, <2>4
      <3> HIDE DEF a
      <3>2. Total(h) = Total(rest) + h[a]  BY <2>2, <2>6, <3>1, TotalWithout
      <3> QED  BY <3>1, <3>2 DEF a
    <2>8. Total(d(m)) = F[m] - F[0]  BY <1>4
    <2>9. F[0] \in Nat /\ F[m] \in Nat /\ F[m + 1] \in Nat  BY <2>1
    <2>10. Total(h) = F[m + 1] - F[0]  BY <2>5, <2>7, <2>8, <2>9
    <2> QED  BY <2>1, <2>10 DEF h
  <1>5. n \in S
    <2> HIDE DEF S
    <2>1. 0 .. n \subseteq S  BY <1>3, <1>4, Climb
    <2> QED  BY <2>1
  <1>6. IsFiniteSet(1 .. n)  BY FS_Interval
  <1>7. d(n) \in [1 .. n -> Nat]  BY <1>2
  <1>8. Total(d(n)) = F[n] - F[0]  BY <1>5
  <1>9. IsFiniteSet(Units(d(n)))
    <2> HIDE DEF d
    <2> QED  BY <1>6, <1>7, FiniteLedger
  <1> QED  BY <1>7, <1>8, <1>9
=============================================================================
