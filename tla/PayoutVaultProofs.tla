------------------------- MODULE PayoutVaultProofs --------------------------
(***************************************************************************)
(* Proofs about PayoutVault, for every set of accounts, policies and       *)
(* windows and every set of lists the guardian may submit.                 *)
(***************************************************************************)
EXTENDS PayoutVault, RiskPoolProofs

-----------------------------------------------------------------------------
(***************************************************************************)
(* A batch.                                                                *)
(***************************************************************************)

(* payout_for rounds the share down and never exceeds the coverage.        *)
LEMMA ShareBounds ==
  ASSUME NEW w, NEW c \in Nat, decision[w] \in Nat
  PROVE  /\ payout_for(w, c) \in Nat
         /\ payout_for(w, c) <= c
         /\ payout_for(w, c) * BPS_DENOMINATOR <= c * decision[w]
  <1> DEFINE B == BPS_DENOMINATOR
             q == apply_bps(c, decision[w])
             p == payout_for(w, c)
  <1>1. B \in Nat \ {0}  BY BpsAssumption
  <1>2. c * decision[w] \in Nat  BY ProductNat
  <1>3. q \in Nat /\ B * q <= c * decision[w]  BY <1>1, <1>2, DivBounds DEF apply_bps
  <1>4. p = Least(q, c)  BY DEF payout_for
  <1> HIDE DEF p, q, B
  <1>5. p \in Nat /\ p <= c /\ p <= q  BY <1>3, <1>4 DEF Least
  <1>6. p * B <= q * B  BY <1>1, <1>3, <1>5, ProductMonotone
  <1>7. p * B \in Int /\ q * B = B * q /\ B * q \in Int  BY <1>1, <1>3, <1>5
  <1>8. p * B <= c * decision[w]  BY <1>2, <1>3, <1>6, <1>7
  <1> QED  BY <1>5, <1>8 DEF p, B

(* The entries a batch pays: each is an entry of its list that passed the  *)
(* checks, with a positive share, for a policy without a record, and no    *)
(* two of them name the same policy.                                       *)
LEMMA PayingFacts ==
  ASSUME VaultTypeOK, NEW w \in Windows, NEW entries \in Seq(PayoutEntry),
         \A i \in processed(w, entries) : Payable(w, entries[i])
  PROVE  /\ IsFiniteSet(paying(w, entries))
         /\ decision[w] = Undecided => paying(w, entries) = {}
         /\ \A i \in paying(w, entries) :
              /\ entries[i].policy_id \in PolicyIds
              /\ entries[i].policy_id \notin DOMAIN payout
              /\ entries[i].owner \in Accounts
              /\ entries[i].coverage \in Nat
              /\ payout_for(w, entries[i].coverage) \in Nat \ {0}
              /\ payout_for(w, entries[i].coverage) <= entries[i].coverage
              /\ payout_for(w, entries[i].coverage) * BPS_DENOMINATOR
                   <= entries[i].coverage * decision[w]
         /\ \A i, j \in paying(w, entries) :
              entries[i].policy_id = entries[j].policy_id => i = j
  <1> DEFINE paid == paying(w, entries)
  <1>1. entries \in Seq(PayoutEntry)  OBVIOUS
  <1>2. DOMAIN entries = 1 .. Len(entries) /\ Len(entries) \in Nat  BY <1>1
  <1>3. paid \subseteq 1 .. Len(entries) /\ paid \subseteq processed(w, entries)
    BY <1>2 DEF paying, processed
  <1>4. IsFiniteSet(paid)
    <2>1. IsFiniteSet(1 .. Len(entries))  BY <1>2, FS_Interval
    <2> HIDE DEF paid
    <2> QED  BY <1>3, <2>1, FS_Subset
  <1>5. ASSUME NEW i \in paid
        PROVE  /\ entries[i].policy_id \in PolicyIds
               /\ entries[i].policy_id \notin DOMAIN payout
               /\ entries[i].owner \in Accounts
               /\ entries[i].coverage \in Nat
               /\ decision[w] \in Nat
               /\ payout_for(w, entries[i].coverage) > 0
    <2>1. entries[i] \in PayoutEntry
      <3> HIDE DEF paid
      <3> QED  BY <1>1, <1>2, <1>3
    <2>2. /\ entries[i].policy_id \in PolicyIds
          /\ entries[i].owner \in Accounts
          /\ entries[i].coverage \in Int
      BY <2>1 DEF PayoutEntry
    <2>3. entries[i].coverage > 0 /\ decision[w] # Undecided
      BY <1>3 DEF Payable
    <2>4. decision[w] \in Nat
      <3>1. decision[w] \in 0 .. BPS_DENOMINATOR \cup {Undecided}  BY DEF VaultTypeOK
      <3>2. BPS_DENOMINATOR \in Nat  BY BpsAssumption
      <3> QED  BY <2>3, <3>1, <3>2
    <2>5. entries[i].policy_id \notin DOMAIN payout  BY DEF paying, processed, Has
    <2>6. payout_for(w, entries[i].coverage) > 0  BY DEF paying
    <2> QED  BY <2>2, <2>3, <2>4, <2>5, <2>6
  <1>6. ASSUME NEW i \in paid
        PROVE  /\ payout_for(w, entries[i].coverage) \in Nat \ {0}
               /\ payout_for(w, entries[i].coverage) <= entries[i].coverage
               /\ payout_for(w, entries[i].coverage) * BPS_DENOMINATOR
                    <= entries[i].coverage * decision[w]
    <2> DEFINE c == entries[i].coverage
    <2>1. c \in Nat /\ decision[w] \in Nat /\ payout_for(w, c) > 0  BY <1>5
    <2> HIDE DEF c, paid
    <2>2. /\ payout_for(w, c) \in Nat
          /\ payout_for(w, c) <= c
          /\ payout_for(w, c) * BPS_DENOMINATOR <= c * decision[w]
      BY <2>1, ShareBounds
    <2>3. payout_for(w, c) \in Nat \ {0}  BY <2>1, <2>2
    <2> QED  BY <2>2, <2>3 DEF c
  <1>7. ASSUME NEW i \in paid, NEW j \in paid, i < j,
               entries[i].policy_id = entries[j].policy_id
        PROVE  FALSE
    <2>1. i \in 1 .. j - 1  BY <1>2, <1>3, <1>7
    <2>2. payout_for(w, entries[i].coverage) <= 0
      BY <1>3, <1>7, <2>1 DEF processed
    <2>3. payout_for(w, entries[i].coverage) \in Nat \ {0}  BY <1>6
    <2> QED  BY <2>2, <2>3
  <1>8. ASSUME NEW i \in paid, NEW j \in paid,
               entries[i].policy_id = entries[j].policy_id
        PROVE  i = j
    <2>1. i \in Int /\ j \in Int  BY <1>2, <1>3
    <2>2. ~(i < j) /\ ~(j < i)  BY <1>7, <1>8
    <2> HIDE DEF paid
    <2> QED  BY <2>1, <2>2
  <1>9. decision[w] = Undecided => paid = {}  BY <1>3 DEF Payable
  <1> QED  BY <1>4, <1>5, <1>6, <1>8, <1>9

(* The policies a batch pays, and their shares in the order of the list.   *)
named(entries, S) == {entries[i].policy_id : i \in S}
newly(w, entries) == named(entries, paying(w, entries))
shares(w, entries) == [i \in paying(w, entries) |-> payout_for(w, entries[i].coverage)]

(* Amounts handed to their owners are all handed out (credit of pay_batch).*)
by_owner(v, own) ==
  [o \in Accounts |-> Total([i \in DOMAIN v |-> IF own[i] = o THEN v[i] ELSE 0])]

LEMMA AllHandedOut ==
  ASSUME NEW D, IsFiniteSet(D), NEW v \in [D -> Nat], NEW own \in [D -> Accounts]
  PROVE  /\ by_owner(v, own) \in [Accounts -> Nat]
         /\ IsFiniteSet(Units(by_owner(v, own)))
         /\ Total(by_owner(v, own)) = Total(v)
  <1>1. DOMAIN v = D  OBVIOUS
  <1>2. by_owner(v, own) =
          [o \in Accounts |-> Total([i \in D |-> IF own[i] = o THEN v[i] ELSE 0])]
    BY <1>1 DEF by_owner
  <1> QED  BY <1>2, TotalByOwner

(* What a batch credits to the owners is what it pulls from the pool.      *)
LEMMA CreditsAddUp ==
  ASSUME VaultTypeOK, NEW w \in Windows, NEW entries \in Seq(PayoutEntry),
         \A i \in processed(w, entries) : Payable(w, entries[i])
  PROVE  LET credits == [o \in Accounts |-> credit(w, entries, o)]
         IN  /\ shares(w, entries) \in [paying(w, entries) -> Nat]
             /\ disbursed(w, entries) = Total(shares(w, entries))
             /\ disbursed(w, entries) \in Nat
             /\ paying(w, entries) = {} => disbursed(w, entries) = 0
             /\ credits \in [Accounts -> Nat]
             /\ IsFiniteSet(Units(credits))
             /\ Total(credits) = disbursed(w, entries)
  <1> DEFINE paid == paying(w, entries)
             v == shares(w, entries)
             own == [i \in paid |-> entries[i].owner]
  <1>1. IsFiniteSet(paid)  BY PayingFacts
  <1>2. v = [i \in paid |-> payout_for(w, entries[i].coverage)]  BY DEF shares
  <1>3. \A i \in paid : payout_for(w, entries[i].coverage) \in Nat /\ entries[i].owner \in Accounts
    BY PayingFacts
  <1> HIDE DEF paid
  <1>4. v \in [paid -> Nat]  BY <1>2, <1>3
  <1>5. own \in [paid -> Accounts]  BY <1>3
  <1>6. disbursed(w, entries) = Total(v)  BY <1>2 DEF disbursed, paid
  <1>7. ASSUME NEW o \in Accounts
        PROVE  credit(w, entries, o) = Total([i \in paid |-> IF own[i] = o THEN v[i] ELSE 0])
    <2>1. [i \in paid |-> IF own[i] = o THEN v[i] ELSE 0] =
            [i \in paid |->
               IF entries[i].owner = o THEN payout_for(w, entries[i].coverage) ELSE 0]
      BY <1>2
    <2> QED  BY <2>1 DEF credit, paid
  <1>8. [o \in Accounts |-> credit(w, entries, o)] =
          [o \in Accounts |-> Total([i \in paid |-> IF own[i] = o THEN v[i] ELSE 0])]
    BY <1>7
  <1>9. paid = {} => disbursed(w, entries) = 0
    <2> SUFFICES ASSUME paid = {} PROVE disbursed(w, entries) = 0  OBVIOUS
    <2>1. v = [i \in {} |-> 0]  BY <1>2
    <2> QED  BY <1>6, <2>1, TotalEmpty
  <1> HIDE DEF v, own
  <1>10. Total(v) \in Nat  BY <1>1, <1>4, FiniteLedger
  <1> DEFINE credits == by_owner(v, own)
  <1>11. /\ credits \in [Accounts -> Nat]
         /\ IsFiniteSet(Units(credits))
         /\ Total(credits) = Total(v)
    BY <1>1, <1>4, <1>5, AllHandedOut
  <1>12. [o \in Accounts |-> credit(w, entries, o)] = credits
    <2>1. DOMAIN v = paid  BY <1>4
    <2> QED  BY <1>8, <2>1 DEF by_owner
  <1> HIDE DEF credits
  <1> QED  BY <1>4, <1>6, <1>9, <1>10, <1>11, <1>12 DEF paid, v

(* New values are fresh for a map: one per policy, and for no policy of it.*)
Fresh(map, entries, new) ==
  /\ \A i \in DOMAIN new : entries[i].policy_id \notin DOMAIN map
  /\ \A i, j \in DOMAIN new : entries[i].policy_id = entries[j].policy_id => i = j

(* A map extended by the new values keeps what was there.                  *)
Extended(map, entries, new, r) ==
  /\ DOMAIN r = DOMAIN map \cup named(entries, DOMAIN new)
  /\ r = [p \in DOMAIN r |-> r[p]]
  /\ \A p \in DOMAIN map : r[p] = map[p]
  /\ \A i \in DOMAIN new : r[entries[i].policy_id] = new[i]

(* recorded extends a map by one value per paying entry.                   *)
LEMMA RecordedExtends ==
  ASSUME NEW map, NEW entries, NEW new, Fresh(map, entries, new)
  PROVE  Extended(map, entries, new, recorded(map, entries, new))
  <1> DEFINE r == recorded(map, entries, new)
             N == named(entries, DOMAIN new)
             at(p) == CHOOSE i \in DOMAIN new : entries[i].policy_id = p
  <1>1. r = [p \in DOMAIN map \cup N |-> IF p \in DOMAIN map THEN map[p] ELSE new[at(p)]]
    BY DEF recorded, named
  <1>2. ASSUME NEW i \in DOMAIN new PROVE at(entries[i].policy_id) = i
    <2> DEFINE p == entries[i].policy_id
    <2>1. at(p) \in DOMAIN new /\ entries[at(p)].policy_id = p  OBVIOUS
    <2> HIDE DEF at
    <2> QED  BY <2>1 DEF Fresh
  <1>3. \A i \in DOMAIN new : entries[i].policy_id \in N  BY DEF named
  <1> HIDE DEF at, r, N
  <1>4. DOMAIN r = DOMAIN map \cup N  BY <1>1
  <1>5. r = [p \in DOMAIN r |-> r[p]]  BY <1>1, <1>4
  <1>6. \A p \in DOMAIN map : r[p] = map[p]  BY <1>1
  <1>7. \A i \in DOMAIN new : r[entries[i].policy_id] = new[i]
    BY <1>1, <1>2, <1>3 DEF Fresh
  <1> QED  BY <1>4, <1>5, <1>6, <1>7 DEF Extended, r, N

-----------------------------------------------------------------------------
(***************************************************************************)
(* The inductive invariant.  That the vault holds what it owes rests on    *)
(* the payouts crediting the owners with exactly what they pull from the   *)
(* pool; that the books agree, on no policy being recorded twice.          *)
(***************************************************************************)

(* The records of the vault are finitely many, each paid on a window.      *)
Records ==
  /\ payout = [p \in DOMAIN payout |-> payout[p]]
  /\ IsFiniteSet(DOMAIN payout)
  /\ \A p \in DOMAIN payout : basis[p].window \in Windows /\ basis[p].coverage \in Nat

(* What the vault owes is a finite total, and the vault holds it.          *)
Backed == IsFiniteSet(Units(claimable)) /\ ClaimsBacked

VaultIInv ==
  /\ IInv
  /\ VaultTypeOK
  /\ Records
  /\ Backed
  /\ PaidOnFinalized
  /\ BooksAgree

(* The ledger counts totals as the vault does.                             *)
LEMMA LedgerTotal == ASSUME NEW f PROVE Ledger!Total(f) = Total(f)
  <1>1. Ledger!Units(f) = Units(f)  BY DEF Ledger!Units, Units
  <1>2. Ledger!Cardinality(Units(f)) = Cardinality(Units(f))
    BY DEF Ledger!Cardinality, Cardinality
  <1> QED  BY <1>1, <1>2 DEF Ledger!Total, Total

(* What records are worth to an owner is the total of the owner's amounts. *)
LEMMA LedgerWorth ==
  ASSUME NEW r, NEW N, NEW o
  PROVE  Ledger!Worth(r, N, o) = Total([p \in N |-> IF r[p].owner = o THEN r[p].amount ELSE 0])
  BY LedgerTotal DEF Ledger!Worth

(* A batch credits every owner with what its new records are worth.        *)
Credited(w, entries) ==
  \A o \in Accounts : Ledger!Worth(payout', newly(w, entries), o) = credit(w, entries, o)

(* What a batch writes into the records: one new record per policy it      *)
(* pays, worth its share, and nothing else.                                *)
LEMMA BatchRecords ==
  ASSUME VaultTypeOK, NEW w \in Windows, NEW s \in SeasonId, NEW entries \in Seq(PayoutEntry),
         pay_batch(w, s, entries)
  PROVE  LET N == newly(w, entries)
         IN  /\ N \subseteq PolicyIds /\ DOMAIN payout \cap N = {}
             /\ IsFiniteSet(N) /\ Cardinality(N) = Cardinality(paying(w, entries))
             /\ N = {} <=> paying(w, entries) = {}
             /\ DOMAIN payout' = DOMAIN payout \cup N
             /\ DOMAIN basis' = DOMAIN payout \cup N
             /\ payout' = [p \in DOMAIN payout' |-> payout'[p]]
             /\ \A p \in DOMAIN payout : payout'[p] = payout[p] /\ basis'[p] = basis[p]
             /\ \A p \in N : /\ payout'[p] \in PayoutRecord
                            /\ payout'[p].amount > 0
                            /\ basis'[p].window = w
                            /\ basis'[p].coverage \in Nat
                            /\ decision[w] # Undecided
                            /\ payout'[p].amount <= basis'[p].coverage
                            /\ payout'[p].amount * BPS_DENOMINATOR
                                 <= basis'[p].coverage * decision[w]
             /\ IsFiniteSet(Units([p \in N |-> payout'[p].amount]))
             /\ Total([p \in N |-> payout'[p].amount]) = disbursed(w, entries)
             /\ Credited(w, entries)
  <1> DEFINE paid == paying(w, entries)
             amount(i) == payout_for(w, entries[i].coverage)
             id(i) == entries[i].policy_id
             N == newly(w, entries)
             newp == [i \in paid |-> [owner |-> entries[i].owner, amount |-> amount(i)]]
             newb == [i \in paid |->
                        [window |-> w, season |-> s, coverage |-> entries[i].coverage]]
             name == [i \in paid |-> id(i)]
  <1>1. \A i \in processed(w, entries) : Payable(w, entries[i])  BY DEF pay_batch
  <1>2. /\ IsFiniteSet(paid)
        /\ decision[w] = Undecided => paid = {}
        /\ \A i \in paid :
             /\ id(i) \in PolicyIds
             /\ id(i) \notin DOMAIN payout
             /\ entries[i].owner \in Accounts
             /\ entries[i].coverage \in Nat
             /\ amount(i) \in Nat \ {0}
             /\ amount(i) <= entries[i].coverage
             /\ amount(i) * BPS_DENOMINATOR <= entries[i].coverage * decision[w]
        /\ \A i, j \in paid : id(i) = id(j) => i = j
    BY <1>1, PayingFacts
  <1>3. payout' = recorded(payout, entries, newp) /\ basis' = recorded(basis, entries, newb)
    BY DEF pay_batch
  <1>4. DOMAIN basis = DOMAIN payout  BY DEF VaultTypeOK
  <1>5. shares(w, entries) = [i \in paid |-> amount(i)]  BY DEF shares
  <1>6. /\ shares(w, entries) \in [paid -> Nat]
        /\ disbursed(w, entries) = Total(shares(w, entries))
    BY <1>1, CreditsAddUp
  <1>7. \A o \in Accounts :
          credit(w, entries, o) = Total([i \in paid |-> IF entries[i].owner = o THEN amount(i) ELSE 0])
    BY DEF credit
  <1>8. N = {id(i) : i \in paid} /\ N = named(entries, paid)  BY DEF newly, named
  <1>9. DOMAIN newp = paid /\ DOMAIN newb = paid  OBVIOUS
  <1>10. /\ \A i \in paid : newp[i].owner = entries[i].owner /\ newp[i].amount = amount(i)
         /\ \A i \in paid : newb[i].window = w /\ newb[i].coverage = entries[i].coverage
    OBVIOUS
  <1>11. \A i \in paid : newp[i] \in PayoutRecord  BY <1>2 DEF PayoutRecord
  <1> HIDE DEF paid, amount, newp, newb, N
  <1>12. /\ DOMAIN payout' = DOMAIN payout \cup N
         /\ payout' = [p \in DOMAIN payout' |-> payout'[p]]
         /\ \A p \in DOMAIN payout : payout'[p] = payout[p]
         /\ \A i \in paid : payout'[id(i)] = newp[i]
    <2>1. Fresh(payout, entries, newp)  BY <1>2, <1>9 DEF Fresh
    <2>2. Extended(payout, entries, newp, payout')
      <3> HIDE DEF id
      <3> QED  BY <1>3, <2>1, RecordedExtends
    <2> QED  BY <1>8, <1>9, <2>2 DEF Extended
  <1>13. /\ DOMAIN basis' = DOMAIN payout \cup N
         /\ \A p \in DOMAIN payout : basis'[p] = basis[p]
         /\ \A i \in paid : basis'[id(i)] = newb[i]
    <2>1. Fresh(basis, entries, newb)  BY <1>2, <1>4, <1>9 DEF Fresh
    <2>2. Extended(basis, entries, newb, basis')
      <3> HIDE DEF id
      <3> QED  BY <1>3, <2>1, RecordedExtends
    <2> QED  BY <1>8, <1>9, <1>4, <2>2 DEF Extended
  <1>14. name \in Bijection(paid, N)
    <2>1. name \in [paid -> N]  BY <1>8
    <2>2. \A i, j \in paid : name[i] = name[j] => i = j  BY <1>2
    <2>3. \A p \in N : \E i \in paid : name[i] = p  BY <1>8
    <2> HIDE DEF name
    <2> QED  BY <2>1, <2>2, <2>3 DEF Bijection, Injection, Surjection, IsInjective
  <1>15. IsFiniteSet(N) /\ Cardinality(N) = Cardinality(paid)
    <2>1. ExistsBijection(paid, N)  BY <1>14 DEF ExistsBijection
    <2> QED  BY <1>2, <2>1, FS_Bijection
  <1>16. N \subseteq PolicyIds /\ DOMAIN payout \cap N = {} /\ (N = {} <=> paid = {})
    BY <1>2, <1>8
  <1>17. ASSUME NEW p \in N
         PROVE  /\ payout'[p] \in PayoutRecord
                /\ payout'[p].amount > 0
                /\ basis'[p].window = w
                /\ basis'[p].coverage \in Nat
                /\ decision[w] # Undecided
                /\ payout'[p].amount <= basis'[p].coverage
                /\ payout'[p].amount * BPS_DENOMINATOR <= basis'[p].coverage * decision[w]
    <2>1. PICK i \in paid : p = id(i)  BY <1>8
    <2>2. payout'[p] = newp[i] /\ basis'[p] = newb[i]  BY <1>12, <1>13, <2>1
    <2>3. decision[w] # Undecided  BY <1>2
    <2>4. amount(i) > 0  BY <1>2
    <2> HIDE DEF id
    <2> QED  BY <1>2, <1>10, <1>11, <2>2, <2>3, <2>4
  <1> DEFINE worth == [p \in N |-> payout'[p].amount]
  <1>18. IsFiniteSet(Units(worth)) /\ Total(worth) = disbursed(w, entries)
    <2>1. worth \in [N -> Nat]  BY <1>17 DEF PayoutRecord
    <2>2. \A i \in paid : worth[name[i]] = shares(w, entries)[i]
      BY <1>5, <1>8, <1>10, <1>12
    <2>3. IsFiniteSet(Units(shares(w, entries)))  BY <1>2, <1>6, FiniteLedger
    <2> HIDE DEF worth, name
    <2> QED  BY <1>6, <1>14, <2>1, <2>2, <2>3, TotalRenamed
  <1>19. ASSUME NEW o \in Accounts
         PROVE  Ledger!Worth(payout', N, o) = credit(w, entries, o)
    <2> DEFINE f == [i \in paid |-> IF entries[i].owner = o THEN amount(i) ELSE 0]
               g == [p \in N |-> IF payout'[p].owner = o THEN payout'[p].amount ELSE 0]
    <2>1. f \in [paid -> Nat]  BY <1>2
    <2>2. g \in [N -> Nat]  BY <1>17 DEF PayoutRecord
    <2>3. \A i \in paid : g[name[i]] = f[i]  BY <1>8, <1>10, <1>12
    <2>4. credit(w, entries, o) = Total(f)  BY <1>7
    <2> HIDE DEF f, g, name
    <2>5. IsFiniteSet(Units(f))  BY <1>2, <2>1, FiniteLedger
    <2>6. Total(g) = Total(f)  BY <1>14, <2>1, <2>2, <2>3, <2>5, TotalRenamed
    <2>7. Ledger!Worth(payout', N, o) = Total(g)  BY LedgerWorth DEF g
    <2> QED  BY <2>4, <2>6, <2>7
  <1>20. Credited(w, entries)  BY <1>19 DEF Credited, N
  <1> QED  BY <1>12, <1>13, <1>15, <1>16, <1>17, <1>18, <1>20 DEF N, paid

-----------------------------------------------------------------------------
(***************************************************************************)
(* Every action preserves the invariant.                                   *)
(***************************************************************************)

(* A fresh vault has nothing, owes nothing and recorded nothing.           *)
LEMMA InitVaultIInv == VaultInit => VaultIInv
  <1> SUFFICES ASSUME VaultInit PROVE VaultIInv  OBVIOUS
  <1>1. IInv  BY InitIInv DEF VaultInit
  <1>2. DOMAIN payout = {} /\ DOMAIN basis = {} /\ payout = [p \in {} |-> 0]
    BY DEF VaultInit, Empty
  <1>3. /\ claimable = [o \in Accounts |-> 0] /\ collected = [o \in Accounts |-> 0]
        /\ decision = [w \in Windows |-> Undecided]
        /\ paused = FALSE
        /\ batch = [w \in Windows |->
                      [policies_paid |-> 0, total_disbursed |-> 0, state |-> "Open"]]
    BY DEF VaultInit
  <1>4. VaultTypeOK
    <2>1. decision \in [Windows -> 0 .. BPS_DENOMINATOR \cup {Undecided}]  BY <1>3
    <2>2. paused \in BOOLEAN  BY <1>3, Zenon
    <2>3. batch \in [Windows -> BatchProgress]  BY <1>3 DEF BatchProgress, BatchState
    <2>4. claimable \in [Accounts -> Nat] /\ collected \in [Accounts -> Nat]  BY <1>3
    <2> QED  BY <1>2, <2>1, <2>2, <2>3, <2>4 DEF VaultTypeOK
  <1>5. Records  BY <1>2, FS_EmptySet DEF Records
  <1>6. Backed
    <2>1. wallet[Vault] = 0  BY DEF VaultInit, Init
    <2> QED  BY <1>3, <2>1, TotalEmpty DEF Backed, ClaimsBacked
  <1>7. PaidOnFinalized  BY <1>2 DEF PaidOnFinalized
  <1>8. BooksAgree
    <2>1. Amounts_recorded = [p \in {} |-> 0]  BY <1>2 DEF Amounts_recorded
    <2>2. payouts_paid = [s \in SeasonId |-> 0]  BY DEF VaultInit, Init
    <2>3. Total(Amounts_recorded) = Total(payouts_paid)  BY <2>1, <2>2, TotalEmpty
    <2>4. ASSUME NEW w \in Windows
          PROVE  LET here == {p \in DOMAIN basis : basis[p].window = w}
                 IN  /\ batch[w].policies_paid = Cardinality(here)
                     /\ batch[w].total_disbursed = Total([p \in here |-> payout[p].amount])
      <3>1. {p \in DOMAIN basis : basis[p].window = w} = {}  BY <1>2
      <3>2. [p \in {} |-> payout[p].amount] = [p \in {} |-> 0]  OBVIOUS
      <3>3. batch[w].policies_paid = 0 /\ batch[w].total_disbursed = 0  BY <1>3
      <3> QED  BY <3>1, <3>2, <3>3, FS_EmptySet, TotalEmpty
    <2> QED  BY <2>3, <2>4 DEF BooksAgree
  <1> QED  BY <1>1, <1>4, <1>5, <1>6, <1>7, <1>8 DEF VaultIInv

(* The books of the vault stay right while its ledger, the payouts of the  *)
(* seasons and the vault's tokens do not move, and the reason for every    *)
(* payout while no decision does.                                          *)
LEMMA LedgerFrame ==
  ASSUME UNCHANGED <<ledger, payouts_paid>>, wallet'[Vault] = wallet[Vault]
  PROVE  /\ Records => Records'
         /\ Backed => Backed'
         /\ BooksAgree => BooksAgree'
         /\ PaidOnFinalized /\ UNCHANGED decision => PaidOnFinalized'
  <1>1. UNCHANGED <<payout, batch, claimable, basis>>  BY DEF ledger
  <1>2. Records => Records'  BY <1>1 DEF Records
  <1>3. Backed => Backed'  BY <1>1 DEF Backed, ClaimsBacked
  <1>4. PaidOnFinalized /\ UNCHANGED decision => PaidOnFinalized'  BY <1>1 DEF PaidOnFinalized
  <1>5. BooksAgree => BooksAgree'  BY <1>1 DEF BooksAgree, Amounts_recorded
  <1> QED  BY <1>2, <1>3, <1>4, <1>5

(* Only the vault itself is paid from the vault's tokens: no call of the   *)
(* pool but pay_out names the vault.                                       *)
LEMMA PoolLeavesVault ==
  ASSUME IInv, Next, payouts_paid' = payouts_paid
  PROVE  wallet'[Vault] = wallet[Vault]
  <1>1. /\ wallet \in [Accounts \cup {Vault} -> Nat]
        /\ payouts_paid \in [SeasonId -> Nat]
    BY DEF IInv, TypeOK
  <1>2. ASSUME NEW a \in Accounts, NEW n, wallet' = [wallet EXCEPT ![a] = n]
        PROVE  wallet'[Vault] = wallet[Vault]
    BY <1>1, <1>2, VaultAssumption
  <1>3. ASSUME NEW s \in SeasonId, NEW amount \in Amounts, pay_out(s, amount) PROVE FALSE
    <2>1. amount \in Nat \ {0}  BY <1>3, AmountAssumption DEF pay_out
    <2>2. payouts_paid' = [payouts_paid EXCEPT ![s] = payouts_paid[s] + amount]
      BY <1>3 DEF pay_out
    <2> QED  BY <1>1, <2>1, <2>2
  <1>4. ASSUME NEW tier \in Tier, NEW a \in Accounts, NEW n \in Amounts,
               deposit(tier, a, n) \/ withdraw(tier, a, n)
        PROVE  wallet'[Vault] = wallet[Vault]
    BY <1>2, <1>4 DEF deposit, withdraw, TransferIn, TransferOut
  <1>5. ASSUME NEW s \in SeasonId, NEW a \in Accounts, NEW n \in Amounts,
               collect_premium(s, a, n) \/ refund_premium(s, a, n)
        PROVE  wallet'[Vault] = wallet[Vault]
    BY <1>2, <1>5 DEF collect_premium, refund_premium, TransferIn, TransferOut
  <1>6. ASSUME \/ set_policy_contract
               \/ set_payout_vault
               \/ open_season
               \/ \E c \in Configs : create_pool(c)
               \/ \E s \in SeasonId :
                    activate_season(s) \/ close_season(s) \/ settle_season(s)
        PROVE  wallet' = wallet
    BY <1>6 DEF set_policy_contract, set_payout_vault, open_season, create_pool,
         activate_season, close_season, transition_season, settle_season, tokens
  <1> QED  BY <1>3, <1>4, <1>5, <1>6 DEF Next

(* The vault's own records stay right while the pool keeps its invariant,  *)
(* books no payout and leaves the vault's tokens alone.                    *)
LEMMA VaultFrame ==
  ASSUME VaultIInv, IInv', wallet'[Vault] = wallet[Vault],
         UNCHANGED <<decision, vault, payouts_paid>>
  PROVE  VaultIInv'
  <1>1. UNCHANGED <<decision, ledger, payouts_paid, paused>>  BY DEF vault
  <1>2. Records' /\ Backed' /\ PaidOnFinalized' /\ BooksAgree'
    BY <1>1, LedgerFrame DEF VaultIInv
  <1>3. VaultTypeOK'  BY <1>1 DEF VaultIInv, VaultTypeOK, ledger
  <1> QED  BY <1>2, <1>3 DEF VaultIInv

(* A call of the pool preserves the invariant.                             *)
LEMMA PoolCallVaultIInv == VaultIInv /\ pool_call => VaultIInv'
  <1> SUFFICES ASSUME VaultIInv, pool_call PROVE VaultIInv'  OBVIOUS
  <1>1. IInv'  BY IInvStep DEF VaultIInv, pool_call
  <1>2. wallet'[Vault] = wallet[Vault]  BY PoolLeavesVault DEF VaultIInv, pool_call
  <1>3. UNCHANGED <<decision, vault, payouts_paid>>  BY DEF pool_call
  <1> QED  BY <1>1, <1>2, <1>3, VaultFrame

(* A severity is fixed for a window without one: no record rests on it yet.*)
LEMMA FinalizeVaultIInv ==
  ASSUME VaultIInv, NEW w \in Windows, NEW severity \in 0 .. BPS_DENOMINATOR,
         finalize_window(w, severity)
  PROVE  VaultIInv'
  <1> USE DEF VaultIInv
  <1>1. UNCHANGED vars /\ UNCHANGED <<paused, ledger>>  BY DEF finalize_window, vault
  <1>2. IInv'  BY <1>1, IInvStep
  <1>3. UNCHANGED <<payout, batch, claimable, collected, basis>>  BY <1>1 DEF ledger
  <1>4. UNCHANGED <<wallet, payouts_paid>>  BY <1>1 DEF vars, tokens, seasons
  <1>5. decision[w] = Undecided /\ decision' = [decision EXCEPT ![w] = severity]
    BY DEF finalize_window
  <1>6. VaultTypeOK'  BY <1>1, <1>3, <1>5 DEF VaultTypeOK
  <1>7. Records' /\ Backed' /\ BooksAgree'
    BY <1>1, <1>4, LedgerFrame
  <1>8. PaidOnFinalized'
    <2> SUFFICES ASSUME NEW p \in DOMAIN payout
                 PROVE  /\ decision'[basis[p].window] # Undecided
                        /\ payout[p].amount <= basis[p].coverage
                        /\ payout[p].amount * BPS_DENOMINATOR
                             <= basis[p].coverage * decision'[basis[p].window]
      BY <1>3 DEF PaidOnFinalized
    <2>1. decision[basis[p].window] # Undecided  BY DEF PaidOnFinalized
    <2>2. decision'[basis[p].window] = decision[basis[p].window]
      BY <1>5, <2>1 DEF VaultTypeOK, Records
    <2> QED  BY <2>2 DEF PaidOnFinalized
  <1> QED  BY <1>2, <1>6, <1>7, <1>8

(* The pause touches nothing but itself.                                   *)
LEMMA PauseVaultIInv ==
  ASSUME VaultIInv, NEW flag \in BOOLEAN, set_paused(flag)
  PROVE  VaultIInv'
  <1>1. UNCHANGED vars /\ UNCHANGED <<decision, ledger>> /\ paused' = flag
    BY DEF set_paused
  <1>2. IInv'  BY <1>1, IInvStep DEF VaultIInv
  <1>3. UNCHANGED <<wallet, payouts_paid>>  BY <1>1 DEF vars, tokens, seasons
  <1>4. Records' /\ Backed' /\ PaidOnFinalized' /\ BooksAgree'
    BY <1>1, <1>3, LedgerFrame DEF VaultIInv
  <1>5. VaultTypeOK'
    <2>1. paused' \in BOOLEAN  BY <1>1
    <2> QED  BY <1>1, <2>1 DEF VaultIInv, VaultTypeOK, ledger
  <1> QED  BY <1>2, <1>4, <1>5 DEF VaultIInv

(* Closing a batch changes its state, not what was paid.                   *)
LEMMA CloseVaultIInv ==
  ASSUME VaultIInv, NEW w \in Windows, close_batch(w)
  PROVE  VaultIInv'
  <1> USE DEF VaultIInv
  <1>1. UNCHANGED vars /\ UNCHANGED <<decision, paused, payout, claimable, collected, basis>>
    BY DEF close_batch
  <1>2. IInv'  BY <1>1, IInvStep
  <1>3. UNCHANGED <<wallet, payouts_paid>>  BY <1>1 DEF vars, tokens, seasons
  <1>4. /\ batch \in [Windows -> BatchProgress]
        /\ batch' = [batch EXCEPT ![w].state = "Complete"]
    BY DEF close_batch, VaultTypeOK
  <1>5. batch' \in [Windows -> BatchProgress]  BY <1>4 DEF BatchProgress, BatchState
  <1>6. VaultTypeOK'  BY <1>1, <1>5 DEF VaultTypeOK
  <1>7. \A x \in Windows : /\ batch'[x].policies_paid = batch[x].policies_paid
                          /\ batch'[x].total_disbursed = batch[x].total_disbursed
    BY <1>4 DEF BatchProgress
  <1>8. Records' /\ Backed' /\ PaidOnFinalized'
    BY <1>1, <1>3 DEF Records, Backed, ClaimsBacked, PaidOnFinalized
  <1>9. BooksAgree'  BY <1>1, <1>3, <1>7 DEF BooksAgree, Amounts_recorded
  <1> QED  BY <1>2, <1>6, <1>8, <1>9

(* A claim moves what is due to an owner out of the vault, whole.          *)
LEMMA ClaimVaultIInv ==
  ASSUME VaultIInv, NEW o \in Accounts, claim(o)
  PROVE  VaultIInv'
  <1> DEFINE n == claimable[o]
  <1>1. IInv /\ VaultTypeOK /\ Records /\ Backed /\ PaidOnFinalized /\ BooksAgree
    BY DEF VaultIInv
  <1>2. /\ claimable' = [claimable EXCEPT ![o] = 0]
        /\ n > 0 /\ n <= wallet[Vault]
        /\ wallet' = [wallet EXCEPT ![Vault] = wallet[Vault] - n, ![o] = wallet[o] + n]
        /\ collected' = [collected EXCEPT ![o] = collected[o] + n]
    BY VaultAssumption DEF claim, may_claim, claim_left
  <1>3. /\ UNCHANGED <<config, wiring, tranches, reserves, committed, treasury, seasons,
                       held, unabsorbed>>
        /\ UNCHANGED <<decision, paused, payout, batch, basis>>
    BY DEF claim
  <1>4. /\ UNCHANGED <<policy_set, vault_set, deposited, supply, receipt, protocol_fees,
                       publisher_fees, season_count, season_state, premiums_in,
                       payouts_paid>>
    BY <1>3 DEF wiring, tranches, treasury, seasons
  <1>5. /\ wallet \in [Accounts \cup {Vault} -> Nat]
        /\ claimable \in [Accounts -> Nat] /\ collected \in [Accounts -> Nat]
        /\ n \in Nat
    BY <1>1 DEF IInv, TypeOK, VaultTypeOK
  <1> HIDE DEF n
  <1>6. wallet' \in [Accounts \cup {Vault} -> Nat] /\ wallet'[Vault] = wallet[Vault] - n
    BY <1>2, <1>5, VaultAssumption
  <1>7. IInv'
    <2>1. TypeOK'  BY <1>1, <1>3, <1>4, <1>6 DEF IInv, TypeOK, valid_config
    <2>2. Custody' /\ FeeCaps' /\ NoPoolNoFees'
      BY <1>1, <1>3, <1>4 DEF IInv, Custody, FeeCaps, NoPoolNoFees, PoolExists
    <2>3. Shares' /\ NoOrphanSeniorCapital' /\ Unopened'
      BY <1>1, <1>3, <1>4 DEF IInv, Shares, NoOrphanSeniorCapital, Unopened
    <2>4. /\ unsettled(premiums_in)' = unsettled(premiums_in)
          /\ unsettled(payouts_paid)' = unsettled(payouts_paid)
      BY <1>4 DEF unsettled, InFlight
    <2>5. Books'  BY <1>1, <1>3, <1>4, <2>4 DEF IInv, Books, Backing
    <2> QED  BY <2>1, <2>2, <2>3, <2>5 DEF IInv
  <1>8. VaultTypeOK'
    <2>1. claimable' \in [Accounts -> Nat] /\ collected' \in [Accounts -> Nat]
      BY <1>2, <1>5
    <2> QED  BY <1>1, <1>3, <2>1 DEF VaultTypeOK
  <1>9. Backed'
    <2>1. /\ IsFiniteSet(Units(claimable'))
          /\ Total(claimable') = Total(claimable) + 0 - claimable[o]
      BY <1>1, <1>2, <1>5, TotalUpdate DEF Backed
    <2>2. Total(claimable) = wallet[Vault] /\ wallet[Vault] \in Nat
      BY <1>1, <1>5 DEF Backed, ClaimsBacked
    <2>3. wallet'[Vault] = Total(claimable')
      BY <1>5, <1>6, <2>1, <2>2 DEF n
    <2> QED  BY <2>1, <2>3 DEF Backed, ClaimsBacked
  <1>10. Records' /\ PaidOnFinalized' /\ BooksAgree'
    <2>1. Records'  BY <1>1, <1>3 DEF Records
    <2>2. PaidOnFinalized'  BY <1>1, <1>3 DEF PaidOnFinalized
    <2>3. BooksAgree'  BY <1>1, <1>3, <1>4 DEF BooksAgree, Amounts_recorded
    <2> QED  BY <2>1, <2>2, <2>3
  <1> QED  BY <1>7, <1>8, <1>9, <1>10 DEF VaultIInv

(* A batch pulls from the pool what it disburses, and nothing else.        *)
LEMMA BatchPulls ==
  ASSUME VaultIInv, NEW w \in Windows, NEW s \in SeasonId, NEW entries \in Seq(PayoutEntry),
         pay_batch(w, s, entries)
  PROVE  /\ IInv'
         /\ disbursed(w, entries) \in Nat
         /\ wallet'[Vault] = wallet[Vault] + disbursed(w, entries)
         /\ Total(payouts_paid') = Total(payouts_paid) + disbursed(w, entries)
  <1> DEFINE n == disbursed(w, entries)
  <1>1. IInv /\ VaultTypeOK  BY DEF VaultIInv
  <1>2. n \in Nat /\ (paying(w, entries) = {} => n = 0)
    BY <1>1, CreditsAddUp DEF pay_batch
  <1>3. /\ wallet \in [Accounts \cup {Vault} -> Nat]
        /\ payouts_paid \in [SeasonId -> Nat]
    BY <1>1 DEF IInv, TypeOK
  <1>4. IsFiniteSet(Units(payouts_paid)) /\ Total(payouts_paid) \in Nat
    <2>1. IsFiniteSet(SeasonId)  BY SeasonAssumption, FS_Interval DEF SeasonId
    <2> QED  BY <1>3, <2>1, FiniteLedger
  <1>5. \/ paying(w, entries) = {} /\ UNCHANGED vars
        \/ pay_out(s, n)
    BY DEF pay_batch
  <1> HIDE DEF n
  <1>6. CASE paying(w, entries) = {} /\ UNCHANGED vars
    <2>1. UNCHANGED <<wallet, payouts_paid>>  BY <1>6 DEF vars, tokens, seasons
    <2>2. IInv'  BY <1>1, <1>6, IInvStep
    <2> QED  BY <1>2, <1>3, <1>4, <1>6, <2>1, <2>2 DEF n
  <1>7. CASE pay_out(s, n)
    <2>1. IInv'  BY <1>1, <1>2, <1>7, PayOutIInv
    <2>2. /\ payouts_paid' = [payouts_paid EXCEPT ![s] = payouts_paid[s] + n]
          /\ wallet' = [wallet EXCEPT ![Vault] = wallet[Vault] + n]
      BY <1>7 DEF pay_out, TransferOut
    <2>3. payouts_paid[s] \in Nat /\ payouts_paid[s] + n \in Nat  BY <1>2, <1>3
    <2>4. Total(payouts_paid') = Total(payouts_paid) + (payouts_paid[s] + n) - payouts_paid[s]
      BY <1>3, <1>4, <2>2, <2>3, TotalUpdate
    <2>5. wallet'[Vault] = wallet[Vault] + n  BY <1>3, <2>2
    <2> QED  BY <1>2, <1>4, <2>1, <2>3, <2>4, <2>5 DEF n
  <1> QED  BY <1>5, <1>6, <1>7

(* The records of one window after a batch: its policies and their worth.  *)
LEMMA BatchWindow ==
  ASSUME VaultTypeOK, Records, NEW w \in Windows, NEW s \in SeasonId,
         NEW entries \in Seq(PayoutEntry), pay_batch(w, s, entries), NEW x \in Windows
  PROVE  LET here == {p \in DOMAIN basis : basis[p].window = x}
             then == {p \in DOMAIN basis' : basis'[p].window = x}
         IN  /\ x # w => /\ Cardinality(then) = Cardinality(here)
                         /\ Total([p \in then |-> payout'[p].amount])
                              = Total([p \in here |-> payout[p].amount])
             /\ x = w => /\ Cardinality(then) = Cardinality(here) + Cardinality(paying(w, entries))
                         /\ Total([p \in then |-> payout'[p].amount])
                              = Total([p \in here |-> payout[p].amount]) + disbursed(w, entries)
  <1> DEFINE D == DOMAIN payout
             N == newly(w, entries)
             here == {p \in DOMAIN basis : basis[p].window = x}
             then == {p \in DOMAIN basis' : basis'[p].window = x}
             before == [p \in here |-> payout[p].amount]
             after == [p \in then |-> payout'[p].amount]
             added == [p \in N |-> payout'[p].amount]
  <1>1. /\ D \cap N = {} /\ IsFiniteSet(N)
        /\ Cardinality(N) = Cardinality(paying(w, entries))
        /\ DOMAIN basis' = D \cup N
        /\ \A p \in D : payout'[p] = payout[p] /\ basis'[p] = basis[p]
        /\ \A p \in N : payout'[p] \in PayoutRecord /\ basis'[p].window = w
        /\ IsFiniteSet(Units(added))
        /\ Total(added) = disbursed(w, entries)
    BY BatchRecords
  <1>2. DOMAIN basis = D /\ IsFiniteSet(D)  BY DEF VaultTypeOK, Records
  <1>3. here \subseteq D /\ IsFiniteSet(here)
    <2>1. here \subseteq D  BY <1>2
    <2> HIDE DEF here
    <2> QED  BY <1>2, <2>1, FS_Subset
  <1>4. \A p \in D : payout[p].amount \in Nat  BY DEF VaultTypeOK, PayoutRecord
  <1>5. before \in [here -> Nat] /\ IsFiniteSet(Units(before)) /\ Total(before) \in Nat
    <2>1. before \in [here -> Nat]  BY <1>3, <1>4
    <2> HIDE DEF here, before
    <2> QED  BY <1>3, <2>1, FiniteLedger
  <1>6. ASSUME x # w
        PROVE  Cardinality(then) = Cardinality(here) /\ Total(after) = Total(before)
    <2>1. then = here  BY <1>1, <1>2, <1>6
    <2>2. after = before  BY <1>1, <1>3, <2>1
    <2> QED  BY <2>1, <2>2
  <1>7. ASSUME x = w
        PROVE  /\ Cardinality(then) = Cardinality(here) + Cardinality(paying(w, entries))
               /\ Total(after) = Total(before) + disbursed(w, entries)
    <2>1. then = here \cup N /\ here \cap N = {}  BY <1>1, <1>2, <1>3, <1>7
    <2>2. Parts(after, before, added)
      <3>1. \A p \in here : payout'[p].amount = payout[p].amount  BY <1>1, <1>3
      <3>2. \A p \in N : payout'[p].amount \in Nat  BY <1>1 DEF PayoutRecord
      <3>3. \A p \in here : payout'[p].amount \in Nat  BY <1>3, <1>4, <3>1
      <3> HIDE DEF here, then, N
      <3> QED  BY <2>1, <3>1, <3>2, <3>3 DEF Parts
    <2> HIDE DEF here, then, N, before, after, added
    <2>3. Total(after) = Total(before) + Total(added)
      BY <1>1, <1>5, <2>2, TotalJoin
    <2>4. Cardinality(then) = Cardinality(here) + Cardinality(N) - Cardinality({})
      BY <1>1, <1>3, <2>1, FS_Union
    <2>5. Cardinality(here) \in Nat /\ Cardinality(N) \in Nat /\ Cardinality({}) = 0
      BY <1>1, <1>3, FS_CardinalityType, FS_EmptySet
    <2> QED  BY <1>1, <2>3, <2>4, <2>5
  <1> QED  BY <1>6, <1>7

(* A batch preserves the invariant.                                        *)
LEMMA BatchVaultIInv ==
  ASSUME VaultIInv, NEW w \in Windows, NEW s \in SeasonId, NEW entries \in Seq(PayoutEntry),
         pay_batch(w, s, entries)
  PROVE  VaultIInv'
  <1> DEFINE D == DOMAIN payout
             N == newly(w, entries)
             n == disbursed(w, entries)
             credits == [o \in Accounts |-> credit(w, entries, o)]
  <1>1. IInv /\ VaultTypeOK /\ Records /\ Backed /\ PaidOnFinalized /\ BooksAgree
    BY DEF VaultIInv
  <1>2. /\ N \subseteq PolicyIds /\ D \cap N = {} /\ IsFiniteSet(N)
        /\ DOMAIN payout' = D \cup N
        /\ DOMAIN basis' = D \cup N
        /\ payout' = [p \in DOMAIN payout' |-> payout'[p]]
        /\ \A p \in D : payout'[p] = payout[p] /\ basis'[p] = basis[p]
        /\ \A p \in N : /\ payout'[p] \in PayoutRecord
                       /\ payout'[p].amount > 0
                       /\ basis'[p].window = w
                       /\ basis'[p].coverage \in Nat
                       /\ decision[w] # Undecided
                       /\ payout'[p].amount <= basis'[p].coverage
                       /\ payout'[p].amount * BPS_DENOMINATOR
                            <= basis'[p].coverage * decision[w]
        /\ IsFiniteSet(Units([p \in N |-> payout'[p].amount]))
        /\ Total([p \in N |-> payout'[p].amount]) = n
    BY <1>1, BatchRecords
  <1>3. /\ IInv'
        /\ n \in Nat
        /\ wallet'[Vault] = wallet[Vault] + n
        /\ Total(payouts_paid') = Total(payouts_paid) + n
    BY BatchPulls
  <1>4. credits \in [Accounts -> Nat] /\ IsFiniteSet(Units(credits)) /\ Total(credits) = n
    BY <1>1, CreditsAddUp DEF pay_batch
  <1>5. /\ UNCHANGED <<decision, paused, collected>>
        /\ claimable' = [o \in Accounts |-> claimable[o] + credit(w, entries, o)]
        /\ batch' = [batch EXCEPT ![w] = progressed(w, entries)]
    BY DEF pay_batch
  <1>6. claimable' = [o \in Accounts |-> claimable[o] + credits[o]]  BY <1>5
  <1>7. claimable \in [Accounts -> Nat] /\ batch \in [Windows -> BatchProgress]
    BY <1>1 DEF VaultTypeOK
  <1>8. Cardinality(paying(w, entries)) \in Nat
    BY <1>1, PayingFacts, FS_CardinalityType DEF pay_batch
  <1>9. DOMAIN basis = D /\ IsFiniteSet(D)  BY <1>1 DEF VaultTypeOK, Records
  <1> HIDE DEF N, n, credits
  <1>10. VaultTypeOK'
    <2>1. claimable' \in [Accounts -> Nat]  BY <1>4, <1>6, <1>7
    <2>2. progressed(w, entries) \in BatchProgress
      BY <1>3, <1>7, <1>8 DEF progressed, BatchProgress, BatchState, n
    <2>3. batch' \in [Windows -> BatchProgress]  BY <1>5, <1>7, <2>2
    <2>4. D \subseteq PolicyIds /\ \A p \in D : payout[p] \in PayoutRecord /\ payout[p].amount > 0
      BY <1>1 DEF VaultTypeOK
    <2>5. /\ DOMAIN payout' \subseteq PolicyIds
          /\ \A p \in DOMAIN payout' : payout'[p] \in PayoutRecord /\ payout'[p].amount > 0
      BY <1>2, <2>4
    <2> QED  BY <1>1, <1>2, <1>5, <2>1, <2>3, <2>5 DEF VaultTypeOK
  <1>11. Records'
    <2>1. IsFiniteSet(D \cup N)  BY <1>2, <1>9, FS_Union
    <2>2. \A p \in DOMAIN payout' : basis'[p].window \in Windows /\ basis'[p].coverage \in Nat
      BY <1>1, <1>2 DEF Records
    <2> QED  BY <1>2, <2>1, <2>2 DEF Records
  <1>12. Backed'
    <2>1. IsFiniteSet(Units(claimable)) /\ wallet[Vault] = Total(claimable)
      BY <1>1 DEF Backed, ClaimsBacked
    <2>2. IsFiniteSet(Units(claimable')) /\ Total(claimable') = Total(claimable) + Total(credits)
      BY <1>4, <1>6, <1>7, <2>1, TotalAdd
    <2> QED  BY <1>3, <1>4, <2>1, <2>2 DEF Backed, ClaimsBacked
  <1>13. PaidOnFinalized'
    <2> SUFFICES ASSUME NEW p \in DOMAIN payout'
                 PROVE  /\ decision[basis'[p].window] # Undecided
                        /\ payout'[p].amount <= basis'[p].coverage
                        /\ payout'[p].amount * BPS_DENOMINATOR
                             <= basis'[p].coverage * decision[basis'[p].window]
      BY <1>5 DEF PaidOnFinalized
    <2>1. CASE p \in D  BY <1>1, <1>2, <2>1 DEF PaidOnFinalized
    <2>2. CASE p \in N  BY <1>2, <2>2
    <2> QED  BY <1>2, <2>1, <2>2
  <1>14. BooksAgree'
    <2>1. Total(Amounts_recorded') = Total(payouts_paid')
      <3> DEFINE before == [p \in D |-> payout[p].amount]
                 after == [p \in D \cup N |-> payout'[p].amount]
                 added == [p \in N |-> payout'[p].amount]
      <3>1. Amounts_recorded = before /\ Amounts_recorded' = after
        BY <1>2 DEF Amounts_recorded
      <3>2. before \in [D -> Nat]  BY <1>1 DEF VaultTypeOK, PayoutRecord
      <3>3. Parts(after, before, added)
        BY <1>2, <3>2 DEF PayoutRecord, Parts
      <3>4. IsFiniteSet(Units(before))
        <4> HIDE DEF before
        <4> QED  BY <1>9, <3>2, FiniteLedger
      <3> HIDE DEF before, after, added
      <3>5. IsFiniteSet(Units(added)) /\ Total(added) = n  BY <1>2 DEF added
      <3>6. Total(after) = Total(before) + Total(added)
        BY <3>3, <3>4, <3>5, TotalJoin
      <3>7. Total(before) = Total(payouts_paid)  BY <1>1, <3>1 DEF BooksAgree
      <3> QED  BY <1>3, <3>1, <3>5, <3>6, <3>7
    <2>2. ASSUME NEW x \in Windows
          PROVE  LET then == {p \in DOMAIN basis' : basis'[p].window = x}
                 IN  /\ batch'[x].policies_paid = Cardinality(then)
                     /\ batch'[x].total_disbursed = Total([p \in then |-> payout'[p].amount])
      <3> DEFINE here == {p \in DOMAIN basis : basis[p].window = x}
                 then == {p \in DOMAIN basis' : basis'[p].window = x}
                 c == Cardinality(here)
                 t == Total([p \in here |-> payout[p].amount])
                 c2 == Cardinality(then)
                 t2 == Total([p \in then |-> payout'[p].amount])
      <3>1. batch[x].policies_paid = c /\ batch[x].total_disbursed = t
        BY <1>1 DEF BooksAgree
      <3>2. /\ x # w => c2 = c /\ t2 = t
            /\ x = w => c2 = c + Cardinality(paying(w, entries)) /\ t2 = t + n
        BY <1>1, BatchWindow DEF n
      <3>3. /\ progressed(w, entries).policies_paid =
                 batch[w].policies_paid + Cardinality(paying(w, entries))
            /\ progressed(w, entries).total_disbursed = batch[w].total_disbursed + n
        BY DEF progressed, n
      <3> HIDE DEF c, t, c2, t2
      <3>4. batch'[x].policies_paid = c2 /\ batch'[x].total_disbursed = t2
        BY <1>5, <1>7, <3>1, <3>2, <3>3
      <3> QED  BY <3>4 DEF c2, t2
    <2> QED  BY <2>1, <2>2 DEF BooksAgree
  <1> QED  BY <1>3, <1>10, <1>11, <1>12, <1>13, <1>14 DEF VaultIInv

(* Every step of the vault preserves the invariant.                        *)
LEMMA VaultIInvStep == VaultIInv /\ [VaultNext]_vault_vars => VaultIInv'
  <1> SUFFICES ASSUME VaultIInv, [VaultNext]_vault_vars PROVE VaultIInv'  OBVIOUS
  <1>1. CASE UNCHANGED vault_vars
    <2>1. UNCHANGED vars /\ UNCHANGED <<decision, paused, ledger>>
      BY <1>1 DEF vault_vars, vault
    <2>2. set_paused(paused)  BY <2>1 DEF set_paused
    <2>3. paused \in BOOLEAN  BY DEF VaultIInv, VaultTypeOK
    <2> QED  BY <2>2, <2>3, PauseVaultIInv
  <1>2. CASE pool_call  BY <1>2, PoolCallVaultIInv
  <1>3. ASSUME NEW w \in Windows, NEW severity \in 0 .. BPS_DENOMINATOR,
               finalize_window(w, severity)
        PROVE  VaultIInv'
    BY <1>3, FinalizeVaultIInv
  <1>4. CASE pause \/ unpause
    <2>1. \E flag \in BOOLEAN : set_paused(flag)  BY <1>4, Zenon DEF pause, unpause
    <2> QED  BY <2>1, PauseVaultIInv
  <1>5. ASSUME NEW w \in Windows, NEW s \in SeasonId, NEW entries \in EntryLists,
               pay_batch(w, s, entries)
        PROVE  VaultIInv'
    BY <1>5, EntryAssumption, BatchVaultIInv
  <1>6. ASSUME NEW w \in Windows, close_batch(w) PROVE VaultIInv'
    BY <1>6, CloseVaultIInv
  <1>7. ASSUME NEW o \in Accounts, claim(o) PROVE VaultIInv'
    BY <1>7, ClaimVaultIInv
  <1> QED  BY <1>1, <1>2, <1>3, <1>4, <1>5, <1>6, <1>7 DEF VaultNext

(* The invariant holds in every reachable state of the vault.              *)
LEMMA VaultInvariance == VaultSpec => []VaultIInv
  BY InitVaultIInv, VaultIInvStep, PTL DEF VaultSpec

(* The records of the vault are well typed: every recorded payout is of a  *)
(* positive amount to an owner, and progress and claims never go below     *)
(* zero (pay_batch, close_batch, claim).                                   *)
THEOREM VaultTypeCorrect == VaultSpec => []VaultTypeOK
  <1>1. VaultIInv => VaultTypeOK  BY DEF VaultIInv
  <1> QED  BY <1>1, VaultInvariance, PTL

(* The vault holds exactly the claims it has not pushed: no claim traps    *)
(* for want of tokens, after any batches and retries (pay_batch, claim).   *)
THEOREM ClaimsBackedHolds == VaultSpec => []ClaimsBacked
  <1>1. VaultIInv => ClaimsBacked  BY DEF VaultIInv, Backed
  <1> QED  BY <1>1, VaultInvariance, PTL

(* Every record rests on a finalized window and pays at most the share of  *)
(* the coverage its severity gives (payout_for, pay_batch).                *)
THEOREM PaidOnFinalizedHolds == VaultSpec => []PaidOnFinalized
  <1>1. VaultIInv => PaidOnFinalized  BY DEF VaultIInv
  <1> QED  BY <1>1, VaultInvariance, PTL

(* The vault's records, its progress per window and the pool's seasons     *)
(* account for the same payouts (pay_batch, pay_out).                      *)
THEOREM BooksAgreeHolds == VaultSpec => []BooksAgree
  <1>1. VaultIInv => BooksAgree  BY DEF VaultIInv
  <1> QED  BY <1>1, VaultInvariance, PTL

-----------------------------------------------------------------------------
(***************************************************************************)
(* The vault implements the ledger of one-time settlements.                *)
(***************************************************************************)

(* A batch that pays somebody settles the policies it pays, for those who  *)
(* own them; a batch that pays nobody changes nothing on the ledger.       *)
LEMMA BatchSettles ==
  ASSUME VaultIInv, NEW w \in Windows, NEW s \in SeasonId, NEW entries \in Seq(PayoutEntry),
         pay_batch(w, s, entries)
  PROVE  Ledger!Settle \/ UNCHANGED <<payout, claimable, collected>>
  <1> DEFINE D == DOMAIN payout
             N == newly(w, entries)
  <1>1. VaultTypeOK /\ Records  BY DEF VaultIInv
  <1>2. /\ N \subseteq PolicyIds /\ D \cap N = {}
        /\ N = {} <=> paying(w, entries) = {}
        /\ DOMAIN payout' = D \cup N
        /\ payout' = [p \in DOMAIN payout' |-> payout'[p]]
        /\ \A p \in D : payout'[p] = payout[p]
        /\ \A p \in N : payout'[p] \in PayoutRecord /\ payout'[p].amount > 0
        /\ Credited(w, entries)
    BY <1>1, BatchRecords
  <1>3. \A o \in Accounts : Ledger!Worth(payout', N, o) = credit(w, entries, o)
    BY <1>2 DEF Credited
  <1>4. /\ collected' = collected
        /\ claimable' = [o \in Accounts |-> claimable[o] + credit(w, entries, o)]
    BY DEF pay_batch
  <1>5. claimable \in [Accounts -> Nat] /\ payout = [p \in D |-> payout[p]]
    BY <1>1 DEF VaultTypeOK, Records
  <1> HIDE DEF N
  <1>6. CASE N = {}
    <2>1. payout' = payout  BY <1>2, <1>5, <1>6
    <2>2. ASSUME NEW o \in Accounts PROVE credit(w, entries, o) = 0
      <3>1. [p \in {} |-> IF payout'[p].owner = o THEN payout'[p].amount ELSE 0] = [p \in {} |-> 0]
        OBVIOUS
      <3>2. Ledger!Worth(payout', {}, o) = Total([p \in {} |-> 0])  BY <3>1, LedgerWorth
      <3> QED  BY <1>6, <1>3, <3>2, TotalEmpty
    <2>3. claimable' = claimable  BY <1>4, <1>5, <2>2
    <2> QED  BY <1>4, <2>1, <2>3
  <1>7. CASE N # {}
    <2> DEFINE fresh == DOMAIN payout' \ DOMAIN payout
    <2>1. fresh = N  BY <1>2
    <2>2. \A o \in Accounts : Ledger!Worth(payout', fresh, o) = credit(w, entries, o)
      BY <1>3, <2>1
    <2>3. claimable' = [o \in Accounts |-> claimable[o] + Ledger!Worth(payout', fresh, o)]
      BY <1>4, <2>2
    <2>4. \A p \in D : p \in DOMAIN payout' /\ payout'[p] = payout[p]  BY <1>2
    <2>5. \A p \in fresh : payout'[p].owner \in Accounts /\ payout'[p].amount > 0
      BY <1>2, <2>1 DEF PayoutRecord
    <2>6. fresh # {} /\ fresh \subseteq PolicyIds  BY <1>2, <1>7, <2>1
    <2> HIDE DEF fresh
    <2>7. Ledger!Settle  BY <1>4, <2>3, <2>4, <2>5, <2>6 DEF Ledger!Settle, fresh
    <2> QED  BY <2>7
  <1> QED  BY <1>6, <1>7

(* The vault settles every policy once, for one owner and one amount, in   *)
(* whatever batch, retry or window it is named again, and a claim is       *)
(* collected whole or not at all (pay_batch, claim).                       *)
THEOREM LedgerImplemented == VaultSpec => ImplementsLedger
  <1>1. VaultInit => Ledger!Init  BY DEF VaultInit, Empty, Ledger!Init
  <1>2. ASSUME VaultIInv, [VaultNext]_vault_vars
        PROVE  [Ledger!Next]_Ledger!ledger_vars
    <2> SUFFICES ASSUME ~ UNCHANGED <<payout, claimable, collected>> PROVE Ledger!Next
      BY DEF Ledger!ledger_vars
    <2>1. ASSUME UNCHANGED ledger PROVE FALSE  BY <2>1 DEF ledger
    <2>2. ASSUME NEW w \in Windows, close_batch(w) PROVE FALSE
      BY <2>2 DEF close_batch
    <2>3. ASSUME NEW w \in Windows, NEW s \in SeasonId, NEW entries \in EntryLists,
                 pay_batch(w, s, entries)
          PROVE  Ledger!Next
      BY <1>2, <2>3, EntryAssumption, BatchSettles DEF Ledger!Next
    <2>4. ASSUME NEW o \in Accounts, claim(o) PROVE Ledger!Next
      <3>1. Ledger!Collect(o)
        BY <2>4 DEF claim, may_claim, claim_left, Ledger!Collect
      <3> QED  BY <3>1 DEF Ledger!Next
    <2>5. \/ UNCHANGED ledger
          \/ \E w \in Windows : close_batch(w)
          \/ \E w \in Windows, s \in SeasonId, entries \in EntryLists :
               pay_batch(w, s, entries)
          \/ \E o \in Accounts : claim(o)
      BY <1>2 DEF VaultNext, vault_vars, vault, pool_call, finalize_window, set_paused,
         pause, unpause
    <2> QED  BY <2>1, <2>2, <2>3, <2>4, <2>5
  <1> QED  BY <1>1, <1>2, VaultInvariance, PTL DEF VaultSpec, ImplementsLedger, Ledger!Spec
=============================================================================
