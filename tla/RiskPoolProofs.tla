--------------------------- MODULE RiskPoolProofs ---------------------------
(***************************************************************************)
(* Proofs about RiskPool, for every set of accounts, every set of          *)
(* configurations, every funding and every number of seasons.              *)
(***************************************************************************)
EXTENDS RiskPool, TotalsProofs

-----------------------------------------------------------------------------
(***************************************************************************)
(* The fees.                                                               *)
(***************************************************************************)

(* apply_bps of two rates that together are at most the whole takes at     *)
(* most the whole amount.                                                  *)
LEMMA TwoRates ==
  ASSUME NEW n \in Nat, NEW p \in Nat, NEW q \in Nat, p + q <= BPS_DENOMINATOR
  PROVE  /\ apply_bps(n, p) \in Nat
         /\ apply_bps(n, q) \in Nat
         /\ apply_bps(n, p) + apply_bps(n, q) <= n
  <1> DEFINE B == BPS_DENOMINATOR
             x == apply_bps(n, p)
             y == apply_bps(n, q)
  <1>1. B \in Nat \ {0}  BY BpsAssumption
  <1>2. n * p \in Nat /\ n * q \in Nat  BY ProductNat
  <1>3. x \in Nat /\ B * x <= n * p  BY <1>1, <1>2, DivBounds DEF apply_bps
  <1>4. y \in Nat /\ B * y <= n * q  BY <1>1, <1>2, DivBounds DEF apply_bps
  <1>5. n * p + n * q = (p + q) * n  OBVIOUS
  <1>6. (p + q) * n <= B * n  BY <1>1, ProductMonotone
  <1>7. B * (x + y) = B * x + B * y  BY <1>1, <1>3, <1>4
  <1> HIDE DEF x, y, B
  <1>8. B * (x + y) <= B * n
    <2>1. B * x \in Int /\ B * y \in Int /\ B * n \in Int /\ (p + q) * n \in Int
      BY <1>1, <1>3, <1>4
    <2> QED  BY <1>2, <1>3, <1>4, <1>5, <1>6, <1>7, <2>1
  <1>9. x + y <= n  BY <1>1, <1>3, <1>4, <1>8, Cancel
  <1> QED  BY <1>3, <1>4, <1>9 DEF x, y

(* accrue_fee takes at most the rate's share, and never passes the cap.    *)
LEMMA FeeBounds ==
  ASSUME NEW n \in Nat, NEW bps \in Nat, NEW accrued \in Nat, NEW cap \in Nat,
         apply_bps(n, bps) \in Nat
  PROVE  /\ accrue_fee(n, bps, accrued, cap) \in Nat
         /\ accrue_fee(n, bps, accrued, cap) <= apply_bps(n, bps)
         /\ cap > 0 /\ accrued <= cap =>
              accrued + accrue_fee(n, bps, accrued, cap) <= cap
  <1> DEFINE d == apply_bps(n, bps)
  <1> d \in Nat  OBVIOUS
  <1> HIDE DEF d
  <1> QED  BY DEF accrue_fee, Least, Greatest, d

(* The premium split under a valid configuration: both fees and the net    *)
(* premium are non-negative, and the fees respect the caps.                *)
LEMMA PremiumSplit ==
  ASSUME TypeOK, FeeCaps, PoolExists, NEW n \in Nat
  PROVE  /\ protocol_fee(n) \in Nat
         /\ publisher_fee(n) \in Nat
         /\ net_premium(n) \in Nat
         /\ config.protocol_cap > 0 =>
              protocol_fees + protocol_fee(n) <= config.protocol_cap
         /\ config.publisher_cap > 0 =>
              publisher_fees + publisher_fee(n) <= config.publisher_cap
  <1> DEFINE p == config.protocol_bps
             q == config.publisher_bps
  <1>1. config \in Configs /\ valid_config(config)  BY DEF TypeOK, PoolExists
  <1>2. /\ p \in Nat /\ q \in Nat /\ p + q <= BPS_DENOMINATOR
        /\ config.protocol_cap \in Nat /\ config.publisher_cap \in Nat
    BY <1>1, ConfigAssumption DEF PoolConfig, valid_config
  <1>3. protocol_fees \in Nat /\ publisher_fees \in Nat  BY DEF TypeOK
  <1>4. /\ apply_bps(n, p) \in Nat
        /\ apply_bps(n, q) \in Nat
        /\ apply_bps(n, p) + apply_bps(n, q) <= n
    BY <1>2, TwoRates
  <1>5. /\ protocol_fee(n) \in Nat
        /\ protocol_fee(n) <= apply_bps(n, p)
        /\ config.protocol_cap > 0 =>
             protocol_fees + protocol_fee(n) <= config.protocol_cap
    BY <1>2, <1>3, <1>4, FeeBounds DEF protocol_fee, FeeCaps
  <1>6. /\ publisher_fee(n) \in Nat
        /\ publisher_fee(n) <= apply_bps(n, q)
        /\ config.publisher_cap > 0 =>
             publisher_fees + publisher_fee(n) <= config.publisher_cap
    BY <1>2, <1>3, <1>4, FeeBounds DEF publisher_fee, FeeCaps
  <1>7. net_premium(n) \in Nat  BY <1>4, <1>5, <1>6 DEF net_premium
  <1> QED  BY <1>5, <1>6, <1>7

-----------------------------------------------------------------------------
(***************************************************************************)
(* The inductive invariant.  TypeOK alone is not inductive: that a         *)
(* withdrawal leaves deposited and supply non-negative rests on no holder  *)
(* having more receipts than the supply, hence on the receipts adding up   *)
(* to it; that the net premium is non-negative rests on the configuration  *)
(* having been validated.                                                  *)
(***************************************************************************)

(* The receipts of a tranche add up to its supply.                         *)
Shares ==
  \A tier \in Tier : /\ IsFiniteSet(Units(receipt[tier]))
                     /\ supply[tier] = Total(receipt[tier])

(* A season not opened yet has no money in it.                             *)
Unopened ==
  \A s \in SeasonId :
    /\ s > season_count => season_state[s] = "None"
    /\ season_state[s] = "None" => premiums_in[s] = 0 /\ payouts_paid[s] = 0

(* The pool's books balance.                                               *)
Books ==
  /\ IsFiniteSet(Units(unsettled(premiums_in)))
  /\ IsFiniteSet(Units(unsettled(payouts_paid)))
  /\ Backing

(* No fee accrues before the pool exists.                                  *)
NoPoolNoFees == ~PoolExists => protocol_fees = 0 /\ publisher_fees = 0

IInv == /\ TypeOK /\ Custody /\ FeeCaps /\ NoPoolNoFees
        /\ Shares /\ NoOrphanSeniorCapital /\ Unopened /\ Books

USE DEF Tier

(* The books of a fresh contract.                                          *)
LEMMA InitIInv == Init => IInv
  <1> SUFFICES ASSUME Init PROVE IInv  OBVIOUS
  <1>1. TypeOK
    <2>1. config \in Configs \cup {NoConfig} /\ config \notin Configs
      BY ConfigAssumption DEF Init
    <2>2. policy_set \in BOOLEAN /\ vault_set \in BOOLEAN  BY Zenon DEF Init
    <2>3. /\ receipt \in [Tier -> [Accounts -> Nat]]
          /\ wallet \in [Accounts \cup {Vault} -> Nat]
      BY FundsAssumption DEF Init
    <2>4. /\ season_count \in 0 .. MaxSeasons
          /\ season_state \in [SeasonId -> SeasonState \cup {"None"}]
      BY SeasonAssumption DEF Init
    <2>5. /\ deposited \in [Tier -> Nat] /\ supply \in [Tier -> Nat]
          /\ premiums_in \in [SeasonId -> Nat] /\ payouts_paid \in [SeasonId -> Nat]
      BY DEF Init
    <2>6. /\ reserves \in Nat /\ committed \in Nat /\ held \in Nat
          /\ protocol_fees \in Nat /\ publisher_fees \in Nat /\ unabsorbed \in Nat
      BY DEF Init
    <2> QED  BY <2>1, <2>2, <2>3, <2>4, <2>5, <2>6 DEF TypeOK
  <1>2. Custody /\ NoOrphanSeniorCapital  BY DEF Init, Custody, NoOrphanSeniorCapital
  <1>3. FeeCaps /\ NoPoolNoFees  BY DEF Init, FeeCaps, NoPoolNoFees, PoolExists
  <1>4. Shares
    <2>1. \A tier \in Tier : receipt[tier] = [a \in Accounts |-> 0]  BY DEF Init
    <2> QED  BY <2>1, TotalEmpty DEF Init, Shares
  <1>5. Unopened  BY DEF Init, Unopened
  <1>6. Books
    <2>1. /\ unsettled(premiums_in) = [s \in SeasonId |-> 0]
          /\ unsettled(payouts_paid) = [s \in SeasonId |-> 0]
      BY DEF Init, unsettled
    <2>2. deposited["Junior"] = 0 /\ deposited["Senior"] = 0  BY DEF Init
    <2> QED  BY <2>1, <2>2, TotalEmpty DEF Init, Books, Backing
  <1> QED  BY <1>1, <1>2, <1>3, <1>4, <1>5, <1>6 DEF IInv

-----------------------------------------------------------------------------
(***************************************************************************)
(* The rounding of shares.                                                 *)
(***************************************************************************)

(* A deposit mints at most its pro rata share.                             *)
LEMMA MintedBounds ==
  ASSUME TypeOK, NEW tier \in Tier, NEW n \in Nat,
         supply[tier] # 0 => deposited[tier] # 0
  PROVE  /\ minted(tier, n) \in Nat
         /\ supply[tier] > 0 =>
              deposited[tier] * minted(tier, n) <= n * supply[tier]
  <1>1. deposited[tier] \in Nat /\ supply[tier] \in Nat  BY DEF TypeOK
  <1>2. CASE supply[tier] = 0  BY <1>1, <1>2 DEF minted
  <1>3. CASE supply[tier] # 0
    <2>1. n * supply[tier] \in Nat  BY <1>1, ProductNat
    <2>2. minted(tier, n) = (n * supply[tier]) \div deposited[tier]
      BY <1>3 DEF minted, mul_div
    <2> QED  BY <1>1, <1>3, <2>1, <2>2, DivBounds
  <1> QED  BY <1>2, <1>3

(* A withdrawal releases at most its pro rata share, and the last one      *)
(* releases everything.                                                    *)
LEMMA UnderlyingBounds ==
  ASSUME TypeOK, NEW tier \in Tier, NEW r \in Nat, supply[tier] > 0
  PROVE  /\ underlying(tier, r) \in Nat
         /\ supply[tier] * underlying(tier, r) <= r * deposited[tier]
         /\ r <= supply[tier] => underlying(tier, r) <= deposited[tier]
         /\ r = supply[tier] => underlying(tier, r) = deposited[tier]
  <1> DEFINE d == deposited[tier]
             s == supply[tier]
             u == underlying(tier, r)
  <1>1. d \in Nat /\ s \in Nat \ {0}  BY DEF TypeOK
  <1>2. r * d \in Nat  BY <1>1, ProductNat
  <1>3. u \in Nat /\ s * u <= r * d /\ r * d < s * u + s
    BY <1>1, <1>2, DivBounds DEF underlying, mul_div
  <1> HIDE DEF d, s, u
  <1>4. ASSUME r <= s PROVE u <= d
    <2>1. r * d <= s * d  BY <1>1, <1>4, ProductMonotone
    <2>2. s * u <= s * d
      <3>1. s * u \in Int /\ s * d \in Int  BY <1>1, <1>3
      <3> QED  BY <1>2, <1>3, <2>1, <3>1
    <2> QED  BY <1>1, <1>3, <2>2, Cancel
  <1>5. ASSUME r = s PROVE d <= u
    <2>1. s * d < s * u + s  BY <1>3, <1>5
    <2>2. s * (u + 1) = s * u + s  BY <1>1, <1>3
    <2>3. ASSUME u + 1 <= d PROVE FALSE
      <3>1. (u + 1) * s <= d * s  BY <1>1, <1>3, <2>3, ProductMonotone
      <3>2. (u + 1) * s = s * (u + 1) /\ d * s = s * d  BY <1>1, <1>3
      <3>3. s * d \in Int /\ s * u + s \in Int  BY <1>1, <1>3
      <3> QED  BY <2>1, <2>2, <3>1, <3>2, <3>3
    <2> QED  BY <1>1, <1>3, <2>3
  <1>6. r = s => u = d  BY <1>1, <1>3, <1>4, <1>5
  <1> QED  BY <1>3, <1>4, <1>6 DEF d, s, u

(* A release that the reserves admit is covered by the tokens held: the    *)
(* token transfer after a passed reserves check does not trap.             *)
LEMMA ReleaseIsCovered ==
  ASSUME TypeOK, Custody, NEW n \in Nat, CanRelease(n)
  PROVE  n <= held
  BY DEF TypeOK, Custody, CanRelease

-----------------------------------------------------------------------------
(***************************************************************************)
(* Frames: steps that leave a part of the books alone.                     *)
(***************************************************************************)

(* The season records keep their shape when no season moves.               *)
LEMMA SeasonsFrame ==
  ASSUME Unopened, UNCHANGED seasons
  PROVE  /\ Unopened'
         /\ unsettled(premiums_in)' = unsettled(premiums_in)
         /\ unsettled(payouts_paid)' = unsettled(payouts_paid)
  BY DEF Unopened, seasons, unsettled, InFlight

(* The receipts stay right while holders and supply do not move.           *)
LEMMA SharesFrame ==
  ASSUME Shares, UNCHANGED <<receipt, supply>>
  PROVE  Shares'
  BY DEF Shares

(* The sums over the ledgers are natural numbers.                          *)
LEMMA TotalsAreNat ==
  ASSUME TypeOK, Books
  PROVE  /\ Total(unsettled(premiums_in)) \in Nat
         /\ Total(unsettled(payouts_paid)) \in Nat
  BY FS_CardinalityType DEF Books, Total

(* Nothing but the tranches and the reserves moves, by the same amount.    *)
LEMMA BooksFrame ==
  ASSUME TypeOK, Unopened, Books, UNCHANGED seasons,
         NEW x \in Int, unabsorbed' = unabsorbed, reserves' = reserves + x,
         deposited'["Junior"] + deposited'["Senior"] =
           deposited["Junior"] + deposited["Senior"] + x,
         deposited'["Junior"] \in Int, deposited'["Senior"] \in Int
  PROVE  Books'
  <1> DEFINE p == Total(unsettled(premiums_in))
             q == Total(unsettled(payouts_paid))
  <1>1. p \in Nat /\ q \in Nat  BY TotalsAreNat
  <1>2. /\ unsettled(premiums_in)' = unsettled(premiums_in)
        /\ unsettled(payouts_paid)' = unsettled(payouts_paid)
    BY SeasonsFrame
  <1>3. /\ Total(unsettled(premiums_in)') = p
        /\ Total(unsettled(payouts_paid)') = q
    BY <1>2
  <1>4. /\ reserves \in Int /\ unabsorbed \in Int
        /\ deposited["Junior"] \in Int /\ deposited["Senior"] \in Int
    BY DEF TypeOK
  <1>5. reserves + unabsorbed + q = deposited["Junior"] + deposited["Senior"] + p
    BY DEF Books, Backing
  <1> HIDE DEF p, q
  <1>6. reserves' + unabsorbed' + q = deposited'["Junior"] + deposited'["Senior"] + p
    BY <1>1, <1>4, <1>5
  <1>7. Backing'  BY <1>3, <1>6 DEF Backing
  <1> QED  BY <1>2, <1>7 DEF Books

-----------------------------------------------------------------------------
(***************************************************************************)
(* Every action preserves the invariant.                                   *)
(***************************************************************************)

(* deposit preserves the inductive invariant.                              *)
LEMMA DepositIInv ==
  ASSUME IInv, NEW tier \in Tier, NEW from \in Accounts, NEW amount \in Amounts,
         deposit(tier, from, amount)
  PROVE  IInv'
  <1> DEFINE m == minted(tier, amount)
  <1> USE DEF IInv
  <1>0. amount \in Nat \ {0}  BY AmountAssumption DEF deposit
  <1>1. m \in Nat \ {0}
    <2>1. supply[tier] # 0 => deposited[tier] # 0  BY DEF deposit, MulDivs
    <2>2. m \in Nat  BY <1>0, <2>1, MintedBounds
    <2> QED  BY <2>2 DEF deposit
  <1>2. /\ deposited' = [deposited EXCEPT ![tier] = deposited[tier] + amount]
        /\ supply' = [supply EXCEPT ![tier] = supply[tier] + m]
        /\ receipt' = [receipt EXCEPT ![tier] =
              [receipt[tier] EXCEPT ![from] = receipt[tier][from] + m]]
        /\ reserves' = reserves + amount
        /\ amount <= wallet[from]
        /\ wallet' = [wallet EXCEPT ![from] = wallet[from] - amount]
        /\ held' = held + amount
    BY DEF deposit, MintReceipts, TransferIn
  <1>3. UNCHANGED <<config, policy_set, vault_set, committed, protocol_fees,
                    publisher_fees, seasons, season_count, season_state,
                    premiums_in, payouts_paid, unabsorbed>>
    BY DEF deposit, wiring, treasury, seasons
  <1> HIDE DEF m
  <1>4. TypeOK'
    <2>1. deposited' \in [Tier -> Nat] /\ supply' \in [Tier -> Nat]
      BY <1>0, <1>1, <1>2 DEF TypeOK
    <2>2. receipt' \in [Tier -> [Accounts -> Nat]]  BY <1>1, <1>2 DEF TypeOK
    <2>3. wallet' \in [Accounts \cup {Vault} -> Nat] /\ held' \in Nat /\ reserves' \in Nat
      BY <1>0, <1>2 DEF TypeOK
    <2> QED  BY <1>3, <2>1, <2>2, <2>3 DEF TypeOK, valid_config
  <1>5. Custody'  BY <1>0, <1>2, <1>3 DEF Custody, TypeOK
  <1>6. FeeCaps' /\ NoPoolNoFees'
    BY <1>3 DEF FeeCaps, NoPoolNoFees, PoolExists
  <1>7. Shares'
    <2>1. receipt[tier] \in [Accounts -> Nat]  BY DEF TypeOK
    <2>2. receipt[tier][from] + m \in Nat  BY <1>1, <2>1
    <2>3. /\ IsFiniteSet(Units(receipt'[tier]))
          /\ Total(receipt'[tier]) = Total(receipt[tier]) + (receipt[tier][from] + m) - receipt[tier][from]
      BY <1>2, <2>1, <2>2, TotalUpdate DEF Shares, TypeOK
    <2>4. supply'[tier] = Total(receipt'[tier])
      BY <1>1, <1>2, <2>1, <2>3 DEF Shares, TypeOK
    <2>5. \A t \in Tier : t # tier => receipt'[t] = receipt[t] /\ supply'[t] = supply[t]
      BY <1>2 DEF TypeOK
    <2> QED  BY <2>3, <2>4, <2>5 DEF Shares
  <1>8. NoOrphanSeniorCapital'
    BY <1>1, <1>2 DEF NoOrphanSeniorCapital, TypeOK
  <1>9. Unopened'  BY <1>3, SeasonsFrame
  <1>10. Books'
    <2>1. /\ deposited'["Junior"] + deposited'["Senior"] =
               deposited["Junior"] + deposited["Senior"] + amount
          /\ deposited'["Junior"] \in Int /\ deposited'["Senior"] \in Int
      BY <1>0, <1>2 DEF TypeOK
    <2> QED  BY <1>0, <1>2, <1>3, <2>1, BooksFrame
  <1> QED  BY <1>4, <1>5, <1>6, <1>7, <1>8, <1>9, <1>10

(* withdraw preserves the inductive invariant.                             *)
LEMMA WithdrawIInv ==
  ASSUME IInv, NEW tier \in Tier, NEW holder \in Accounts, NEW r \in Amounts,
         withdraw(tier, holder, r)
  PROVE  IInv'
  <1> DEFINE u == underlying(tier, r)
  <1> USE DEF IInv
  <1>0. r \in Nat \ {0} /\ supply[tier] > 0  BY AmountAssumption DEF withdraw
  <1>1. r <= supply[tier]
    <2>1. r <= receipt[tier][holder]  BY DEF withdraw
    <2>2. receipt[tier] \in [Accounts -> Nat]  BY DEF TypeOK
    <2>3. receipt[tier][holder] <= supply[tier]
      BY <2>2, EntryBelowTotal DEF Shares
    <2> QED  BY <1>0, <2>1, <2>2, <2>3 DEF TypeOK
  <1>2. u \in Nat \ {0} /\ u <= deposited[tier] /\ (r = supply[tier] => u = deposited[tier])
    <2>1. u > 0  BY DEF withdraw
    <2> QED  BY <1>0, <1>1, <2>1, UnderlyingBounds
  <1>3. /\ deposited' = [deposited EXCEPT ![tier] = deposited[tier] - u]
        /\ supply' = [supply EXCEPT ![tier] = supply[tier] - r]
        /\ r <= receipt[tier][holder]
        /\ receipt' = [receipt EXCEPT ![tier] =
              [receipt[tier] EXCEPT ![holder] = receipt[tier][holder] - r]]
        /\ u <= reserves
        /\ reserves' = reserves - u
        /\ u <= held
        /\ wallet' = [wallet EXCEPT ![holder] = wallet[holder] + u]
        /\ held' = held - u
    BY DEF withdraw, BurnReceipts, TransferOut, CanRelease
  <1>4. UNCHANGED <<config, policy_set, vault_set, committed, protocol_fees,
                    publisher_fees, seasons, season_count, season_state,
                    premiums_in, payouts_paid, unabsorbed>>
    BY DEF withdraw, wiring, treasury, seasons
  <1> HIDE DEF u
  <1>5. TypeOK'
    <2>1. deposited' \in [Tier -> Nat] /\ supply' \in [Tier -> Nat]
      BY <1>0, <1>1, <1>2, <1>3 DEF TypeOK
    <2>2. receipt' \in [Tier -> [Accounts -> Nat]]  BY <1>0, <1>3 DEF TypeOK
    <2>3. wallet' \in [Accounts \cup {Vault} -> Nat] /\ held' \in Nat /\ reserves' \in Nat
      BY <1>2, <1>3 DEF TypeOK
    <2> QED  BY <1>4, <2>1, <2>2, <2>3 DEF TypeOK, valid_config
  <1>6. Custody'  BY <1>2, <1>3, <1>4 DEF Custody, TypeOK
  <1>7. FeeCaps' /\ NoPoolNoFees'
    BY <1>4 DEF FeeCaps, NoPoolNoFees, PoolExists
  <1>8. Shares'
    <2>1. receipt[tier] \in [Accounts -> Nat]  BY DEF TypeOK
    <2>2. receipt[tier][holder] - r \in Nat  BY <1>0, <1>3, <2>1
    <2>3. /\ IsFiniteSet(Units(receipt'[tier]))
          /\ Total(receipt'[tier]) = Total(receipt[tier]) + (receipt[tier][holder] - r) - receipt[tier][holder]
      BY <1>3, <2>1, <2>2, TotalUpdate DEF Shares, TypeOK
    <2>4. supply'[tier] = Total(receipt'[tier])
      BY <1>0, <1>3, <2>1, <2>3 DEF Shares, TypeOK
    <2>5. \A t \in Tier : t # tier => receipt'[t] = receipt[t] /\ supply'[t] = supply[t]
      BY <1>3 DEF TypeOK
    <2> QED  BY <2>3, <2>4, <2>5 DEF Shares
  <1>9. NoOrphanSeniorCapital'
    BY <1>0, <1>1, <1>2, <1>3 DEF NoOrphanSeniorCapital, TypeOK
  <1>10. Unopened'  BY <1>4, SeasonsFrame
  <1>11. Books'
    <2>1. /\ deposited'["Junior"] + deposited'["Senior"] =
               deposited["Junior"] + deposited["Senior"] + (-u)
          /\ deposited'["Junior"] \in Int /\ deposited'["Senior"] \in Int
          /\ reserves' = reserves + (-u) /\ -u \in Int
      BY <1>2, <1>3 DEF TypeOK
    <2> QED  BY <1>4, <2>1, BooksFrame
  <1> QED  BY <1>5, <1>6, <1>7, <1>8, <1>9, <1>10, <1>11

(* An entry of a season in flight is overwritten.                          *)
LEMMA PremiumsUpdate ==
  ASSUME TypeOK, Books, NEW s \in InFlight, NEW v \in Nat,
         UNCHANGED season_state, premiums_in' = [premiums_in EXCEPT ![s] = v]
  PROVE  /\ IsFiniteSet(Units(unsettled(premiums_in)'))
         /\ Total(unsettled(premiums_in)') =
              Total(unsettled(premiums_in)) + v - premiums_in[s]
  <1> DEFINE f == unsettled(premiums_in)
  <1>1. f \in [SeasonId -> Nat] /\ f[s] = premiums_in[s] /\ s \in SeasonId
    BY DEF TypeOK, unsettled, InFlight
  <1>2. unsettled(premiums_in)' = [f EXCEPT ![s] = v]
    BY DEF TypeOK, unsettled, InFlight
  <1>3. IsFiniteSet(Units(f))  BY DEF Books
  <1> HIDE DEF f
  <1>4. /\ IsFiniteSet(Units([f EXCEPT ![s] = v]))
        /\ Total([f EXCEPT ![s] = v]) = Total(f) + v - f[s]
    BY <1>1, <1>3, TotalUpdate
  <1> QED  BY <1>1, <1>2, <1>4 DEF f

(* The same for the payouts of a season.                                   *)
LEMMA PayoutsUpdate ==
  ASSUME TypeOK, Books, NEW s \in InFlight, NEW v \in Nat,
         UNCHANGED season_state, payouts_paid' = [payouts_paid EXCEPT ![s] = v]
  PROVE  /\ IsFiniteSet(Units(unsettled(payouts_paid)'))
         /\ Total(unsettled(payouts_paid)') =
              Total(unsettled(payouts_paid)) + v - payouts_paid[s]
  <1> DEFINE f == unsettled(payouts_paid)
  <1>1. f \in [SeasonId -> Nat] /\ f[s] = payouts_paid[s] /\ s \in SeasonId
    BY DEF TypeOK, unsettled, InFlight
  <1>2. unsettled(payouts_paid)' = [f EXCEPT ![s] = v]
    BY DEF TypeOK, unsettled, InFlight
  <1>3. IsFiniteSet(Units(f))  BY DEF Books
  <1> HIDE DEF f
  <1>4. /\ IsFiniteSet(Units([f EXCEPT ![s] = v]))
        /\ Total([f EXCEPT ![s] = v]) = Total(f) + v - f[s]
    BY <1>1, <1>3, TotalUpdate
  <1> QED  BY <1>1, <1>2, <1>4 DEF f

(* A season leaves the books when it is settled.                           *)
LEMMA SettledUpdate ==
  ASSUME TypeOK, Books, NEW s \in InFlight, UNCHANGED <<premiums_in, payouts_paid>>,
         season_state' = [season_state EXCEPT ![s] = "Settled"]
  PROVE  /\ IsFiniteSet(Units(unsettled(premiums_in)'))
         /\ IsFiniteSet(Units(unsettled(payouts_paid)'))
         /\ Total(unsettled(premiums_in)') = Total(unsettled(premiums_in)) - premiums_in[s]
         /\ Total(unsettled(payouts_paid)') = Total(unsettled(payouts_paid)) - payouts_paid[s]
  <1> DEFINE f == unsettled(premiums_in)
             g == unsettled(payouts_paid)
  <1>1. /\ f \in [SeasonId -> Nat] /\ f[s] = premiums_in[s] /\ s \in SeasonId
        /\ g \in [SeasonId -> Nat] /\ g[s] = payouts_paid[s]
    BY DEF TypeOK, unsettled, InFlight
  <1>2. InFlight' = InFlight \ {s}  BY DEF TypeOK, InFlight
  <1>3. unsettled(premiums_in)' = [f EXCEPT ![s] = 0]
    BY <1>2 DEF TypeOK, unsettled
  <1>4. unsettled(payouts_paid)' = [g EXCEPT ![s] = 0]
    BY <1>2 DEF TypeOK, unsettled
  <1>5. IsFiniteSet(Units(f)) /\ IsFiniteSet(Units(g))  BY DEF Books
  <1>6. Total(f) \in Nat /\ Total(g) \in Nat  BY TotalsAreNat
  <1> HIDE DEF f, g
  <1>7. /\ IsFiniteSet(Units([f EXCEPT ![s] = 0]))
        /\ Total([f EXCEPT ![s] = 0]) = Total(f) + 0 - f[s]
    BY <1>1, <1>5, TotalUpdate
  <1>8. /\ IsFiniteSet(Units([g EXCEPT ![s] = 0]))
        /\ Total([g EXCEPT ![s] = 0]) = Total(g) + 0 - g[s]
    BY <1>1, <1>5, TotalUpdate
  <1>9. Total(f) + 0 - f[s] = Total(f) - f[s] /\ Total(g) + 0 - g[s] = Total(g) - g[s]
    BY <1>1, <1>6
  <1> QED  BY <1>1, <1>3, <1>4, <1>7, <1>8, <1>9 DEF f, g

(* Money that is split into two fees and a net premium of a season that is *)
(* not settled keeps the books balanced (collect_premium, mint_batch).     *)
LEMMA PremiumBooked ==
  ASSUME IInv, PoolExists, NEW s \in InFlight, NEW from \in Accounts,
         NEW amount \in Nat, NEW pf \in Nat, NEW qf \in Nat, NEW net \in Nat,
         net = amount - pf - qf,
         config.protocol_cap > 0 => protocol_fees + pf <= config.protocol_cap,
         config.publisher_cap > 0 => publisher_fees + qf <= config.publisher_cap,
         protocol_fees' = protocol_fees + pf,
         publisher_fees' = publisher_fees + qf,
         premiums_in' = [premiums_in EXCEPT ![s] = premiums_in[s] + net],
         reserves' = reserves + net,
         amount <= wallet[from],
         wallet' = [wallet EXCEPT ![from] = wallet[from] - amount],
         held' = held + amount,
         UNCHANGED <<config, policy_set, vault_set, deposited, supply, receipt,
                     committed, season_count, season_state, payouts_paid, unabsorbed>>
  PROVE  IInv'
  <1> USE DEF IInv
  <1>1. s \in SeasonId  BY DEF InFlight
  <1>2. TypeOK'
    <2>1. premiums_in' \in [SeasonId -> Nat]  BY <1>1 DEF TypeOK
    <2>2. wallet' \in [Accounts \cup {Vault} -> Nat]  BY DEF TypeOK
    <2>3. /\ held' \in Nat /\ reserves' \in Nat
          /\ protocol_fees' \in Nat /\ publisher_fees' \in Nat
      BY <1>1 DEF TypeOK
    <2> QED  BY <2>1, <2>2, <2>3 DEF TypeOK, valid_config
  <1>3. Custody'  BY <1>1 DEF Custody, TypeOK
  <1>4. FeeCaps' /\ NoPoolNoFees'
    BY <1>1 DEF FeeCaps, NoPoolNoFees, PoolExists
  <1>5. Shares' /\ NoOrphanSeniorCapital'
    BY SharesFrame DEF NoOrphanSeniorCapital
  <1>6. Unopened'
    BY DEF Unopened, TypeOK, InFlight
  <1>7. Books'
    <2> DEFINE p == Total(unsettled(premiums_in))
               q == Total(unsettled(payouts_paid))
    <2>1. p \in Nat /\ q \in Nat  BY TotalsAreNat
    <2>2. premiums_in[s] \in Nat /\ premiums_in[s] + net \in Nat  BY <1>1 DEF TypeOK
    <2>3. /\ IsFiniteSet(Units(unsettled(premiums_in)'))
          /\ Total(unsettled(premiums_in)') = p + (premiums_in[s] + net) - premiums_in[s]
      BY <2>2, PremiumsUpdate
    <2>4. unsettled(payouts_paid)' = unsettled(payouts_paid)
      BY DEF unsettled, InFlight
    <2>5. reserves + unabsorbed + q = deposited["Junior"] + deposited["Senior"] + p
      BY DEF Books, Backing
    <2>6. /\ reserves \in Int /\ unabsorbed \in Int
          /\ deposited["Junior"] \in Int /\ deposited["Senior"] \in Int
      BY DEF TypeOK
    <2> HIDE DEF p, q, IInv
    <2>7. reserves' + unabsorbed' + q =
            deposited'["Junior"] + deposited'["Senior"] + (p + (premiums_in[s] + net) - premiums_in[s])
      BY <1>1, <2>1, <2>2, <2>5, <2>6
    <2>8. Backing'  BY <2>3, <2>4, <2>7 DEF Backing, q
    <2> QED  BY <2>3, <2>4, <2>8 DEF Books, IInv
  <1> QED  BY <1>2, <1>3, <1>4, <1>5, <1>6, <1>7

(* collect_premium preserves the inductive invariant.                      *)
LEMMA CollectPremiumIInv ==
  ASSUME IInv, NEW s \in SeasonId, NEW from \in Accounts, NEW amount \in Amounts,
         collect_premium(s, from, amount)
  PROVE  IInv'
  <1> DEFINE net == net_premium(amount)
             pf == protocol_fee(amount)
             qf == publisher_fee(amount)
  <1>1. amount \in Nat /\ PoolExists  BY AmountAssumption DEF collect_premium
  <1>2. /\ pf \in Nat /\ qf \in Nat /\ net \in Nat
        /\ config.protocol_cap > 0 => protocol_fees + pf <= config.protocol_cap
        /\ config.publisher_cap > 0 => publisher_fees + qf <= config.publisher_cap
    BY <1>1, PremiumSplit DEF IInv
  <1>3. net = amount - pf - qf  BY DEF net_premium
  <1>4. /\ protocol_fees' = protocol_fees + pf
        /\ publisher_fees' = publisher_fees + qf
        /\ premiums_in' = [premiums_in EXCEPT ![s] = premiums_in[s] + net]
        /\ reserves' = reserves + net
        /\ amount <= wallet[from]
        /\ wallet' = [wallet EXCEPT ![from] = wallet[from] - amount]
        /\ held' = held + amount
    BY DEF collect_premium, TransferIn
  <1>5. UNCHANGED <<config, policy_set, vault_set, deposited, supply, receipt,
                    committed, season_count, season_state, payouts_paid, unabsorbed>>
    BY DEF collect_premium, wiring, tranches
  <1>6. s \in InFlight  BY DEF collect_premium, InFlight
  <1> HIDE DEF net, pf, qf
  <1> QED  BY <1>1, <1>2, <1>3, <1>4, <1>5, <1>6, PremiumBooked

(* refund_premium preserves the inductive invariant.                       *)
LEMMA RefundPremiumIInv ==
  ASSUME IInv, NEW s \in SeasonId, NEW to \in Accounts, NEW net \in Int,
         refund_premium(s, to, net)
  PROVE  IInv'
  <1> USE DEF IInv
  <1>0. net \in Nat  BY DEF refund_premium
  <1>1. /\ net <= premiums_in[s]
        /\ premiums_in' = [premiums_in EXCEPT ![s] = premiums_in[s] - net]
        /\ net <= reserves
        /\ reserves' = reserves - net
        /\ net <= held
        /\ wallet' = [wallet EXCEPT ![to] = wallet[to] + net]
        /\ held' = held - net
    BY DEF refund_premium, TransferOut, CanRelease
  <1>2. UNCHANGED <<config, policy_set, vault_set, deposited, supply, receipt,
                    committed, protocol_fees, publisher_fees, season_count,
                    season_state, payouts_paid, unabsorbed>>
    BY DEF refund_premium, wiring, tranches, treasury
  <1>3. s \in InFlight  BY DEF refund_premium, InFlight
  <1>4. TypeOK'
    <2>1. premiums_in' \in [SeasonId -> Nat]  BY <1>0, <1>1 DEF TypeOK
    <2>2. wallet' \in [Accounts \cup {Vault} -> Nat]  BY <1>0, <1>1 DEF TypeOK
    <2>3. held' \in Nat /\ reserves' \in Nat  BY <1>0, <1>1 DEF TypeOK
    <2> QED  BY <1>2, <2>1, <2>2, <2>3 DEF TypeOK, valid_config
  <1>5. Custody'  BY <1>0, <1>1, <1>2 DEF Custody, TypeOK
  <1>6. FeeCaps' /\ NoPoolNoFees'
    BY <1>2 DEF FeeCaps, NoPoolNoFees, PoolExists
  <1>7. Shares' /\ NoOrphanSeniorCapital'
    BY <1>2, SharesFrame DEF NoOrphanSeniorCapital
  <1>8. Unopened'  BY <1>1, <1>2, <1>3 DEF Unopened, TypeOK, InFlight
  <1>9. Books'
    <2> DEFINE p == Total(unsettled(premiums_in))
               q == Total(unsettled(payouts_paid))
    <2>1. p \in Nat /\ q \in Nat  BY TotalsAreNat
    <2>2. premiums_in[s] \in Nat /\ premiums_in[s] - net \in Nat  BY <1>0, <1>1 DEF TypeOK
    <2>3. /\ IsFiniteSet(Units(unsettled(premiums_in)'))
          /\ Total(unsettled(premiums_in)') = p + (premiums_in[s] - net) - premiums_in[s]
      BY <1>1, <1>2, <1>3, <2>2, PremiumsUpdate
    <2>4. unsettled(payouts_paid)' = unsettled(payouts_paid)
      BY <1>2 DEF unsettled, InFlight
    <2>5. reserves + unabsorbed + q = deposited["Junior"] + deposited["Senior"] + p
      BY DEF Books, Backing
    <2>6. /\ reserves \in Int /\ unabsorbed \in Int
          /\ deposited["Junior"] \in Int /\ deposited["Senior"] \in Int
      BY DEF TypeOK
    <2> HIDE DEF p, q, IInv
    <2> DEFINE m == premiums_in[s]
    <2>7. /\ reserves' = reserves - net /\ UNCHANGED <<unabsorbed, deposited>>
          /\ m \in Int
      BY <1>1, <1>2, <2>2
    <2> HIDE DEF m
    <2>8. reserves' + unabsorbed' + q =
            deposited'["Junior"] + deposited'["Senior"] + (p + (m - net) - m)
      BY <1>0, <2>1, <2>5, <2>6, <2>7
    <2>9. Backing'  BY <2>3, <2>4, <2>8 DEF Backing, q, m
    <2> QED  BY <2>3, <2>4, <2>9 DEF Books, IInv
  <1> QED  BY <1>4, <1>5, <1>6, <1>7, <1>8, <1>9

(* pay_out preserves the inductive invariant.                              *)
LEMMA PayOutIInv ==
  ASSUME IInv, NEW s \in SeasonId, NEW amount \in Int, pay_out(s, amount)
  PROVE  IInv'
  <1> USE DEF IInv
  <1>0. amount \in Nat  BY DEF pay_out
  <1>1. /\ payouts_paid' = [payouts_paid EXCEPT ![s] = payouts_paid[s] + amount]
        /\ amount <= reserves
        /\ reserves' = reserves - amount
        /\ amount <= held
        /\ wallet' = [wallet EXCEPT ![Vault] = wallet[Vault] + amount]
        /\ held' = held - amount
    BY DEF pay_out, TransferOut, CanRelease
  <1>2. UNCHANGED <<config, policy_set, vault_set, deposited, supply, receipt,
                    committed, protocol_fees, publisher_fees, season_count,
                    season_state, premiums_in, unabsorbed>>
    BY DEF pay_out, wiring, tranches, treasury
  <1>3. s \in InFlight  BY DEF pay_out, InFlight, PayableStates
  <1>4. TypeOK'
    <2>1. payouts_paid' \in [SeasonId -> Nat]  BY <1>0, <1>1 DEF TypeOK
    <2>2. wallet' \in [Accounts \cup {Vault} -> Nat]  BY <1>0, <1>1 DEF TypeOK
    <2>3. held' \in Nat /\ reserves' \in Nat  BY <1>0, <1>1 DEF TypeOK
    <2> QED  BY <1>2, <2>1, <2>2, <2>3 DEF TypeOK, valid_config
  <1>5. Custody'  BY <1>0, <1>1, <1>2 DEF Custody, TypeOK
  <1>6. FeeCaps' /\ NoPoolNoFees'
    BY <1>2 DEF FeeCaps, NoPoolNoFees, PoolExists
  <1>7. Shares' /\ NoOrphanSeniorCapital'
    BY <1>2, SharesFrame DEF NoOrphanSeniorCapital
  <1>8. Unopened'  BY <1>1, <1>2, <1>3 DEF Unopened, TypeOK, InFlight
  <1>9. Books'
    <2> DEFINE p == Total(unsettled(premiums_in))
               q == Total(unsettled(payouts_paid))
    <2>1. p \in Nat /\ q \in Nat  BY TotalsAreNat
    <2>2. payouts_paid[s] \in Nat /\ payouts_paid[s] + amount \in Nat
      BY <1>0 DEF TypeOK
    <2>3. /\ IsFiniteSet(Units(unsettled(payouts_paid)'))
          /\ Total(unsettled(payouts_paid)') = q + (payouts_paid[s] + amount) - payouts_paid[s]
      BY <1>1, <1>2, <1>3, <2>2, PayoutsUpdate
    <2>4. unsettled(premiums_in)' = unsettled(premiums_in)
      BY <1>2 DEF unsettled, InFlight
    <2>5. reserves + unabsorbed + q = deposited["Junior"] + deposited["Senior"] + p
      BY DEF Books, Backing
    <2>6. /\ reserves \in Int /\ unabsorbed \in Int
          /\ deposited["Junior"] \in Int /\ deposited["Senior"] \in Int
      BY DEF TypeOK
    <2> HIDE DEF p, q, IInv
    <2>7. reserves' + unabsorbed' + (q + (payouts_paid[s] + amount) - payouts_paid[s]) =
            deposited'["Junior"] + deposited'["Senior"] + p
      BY <1>0, <1>1, <1>2, <2>1, <2>2, <2>5, <2>6
    <2>8. Backing'  BY <2>3, <2>4, <2>7 DEF Backing, p
    <2> QED  BY <2>3, <2>4, <2>8 DEF Books, IInv
  <1> QED  BY <1>4, <1>5, <1>6, <1>7, <1>8, <1>9

(* open_season preserves the inductive invariant.                          *)
LEMMA OpenSeasonIInv ==
  ASSUME IInv, open_season
  PROVE  IInv'
  <1> DEFINE s == season_count + 1
  <1> USE DEF IInv
  <1>1. /\ s \in SeasonId
        /\ season_count' = s
        /\ season_state' = [season_state EXCEPT ![s] = "Open"]
    BY SeasonAssumption DEF open_season, TypeOK, SeasonId
  <1>2. UNCHANGED <<config, policy_set, vault_set, deposited, supply, receipt,
                    reserves, committed, protocol_fees, publisher_fees,
                    premiums_in, payouts_paid, held, wallet, unabsorbed>>
    BY DEF open_season, wiring, tranches, treasury, tokens
  <1>3. season_state[s] = "None" /\ premiums_in[s] = 0 /\ payouts_paid[s] = 0
    BY <1>1 DEF Unopened, TypeOK
  <1>4. TypeOK'
    <2>1. season_count' \in 0 .. MaxSeasons
      BY SeasonAssumption DEF open_season, TypeOK
    <2>2. season_state' \in [SeasonId -> SeasonState \cup {"None"}]
      BY <1>1 DEF TypeOK, SeasonState
    <2> QED  BY <1>2, <2>1, <2>2 DEF TypeOK, valid_config
  <1>5. Custody' /\ FeeCaps' /\ NoPoolNoFees'
    BY <1>2 DEF Custody, FeeCaps, NoPoolNoFees, PoolExists
  <1>6. Shares' /\ NoOrphanSeniorCapital'
    BY <1>2, SharesFrame DEF NoOrphanSeniorCapital
  <1>7. Unopened'  BY <1>1, <1>2 DEF Unopened, TypeOK, SeasonId
  <1>8. Books'
    <2>1. \A t \in SeasonId : t # s => (t \in InFlight' <=> t \in InFlight)
      BY <1>1 DEF InFlight, TypeOK
    <2>2. s \notin InFlight  BY <1>3 DEF InFlight
    <2>3. /\ unsettled(premiums_in)' = unsettled(premiums_in)
          /\ unsettled(payouts_paid)' = unsettled(payouts_paid)
      BY <1>2, <1>3, <2>1, <2>2 DEF unsettled
    <2> QED  BY <1>2, <2>3 DEF Books, Backing
  <1> QED  BY <1>4, <1>5, <1>6, <1>7, <1>8

(* activate_season and close_season preserve the inductive invariant.      *)
LEMMA TransitionIInv ==
  ASSUME IInv, NEW s \in SeasonId,
         \/ transition_season(s, "Open", "Active")
         \/ transition_season(s, "Active", "Closed")
  PROVE  IInv'
  <1> USE DEF IInv
  <1>1. PICK to \in {"Active", "Closed"} :
          /\ season_state[s] \in {"Open", "Active"}
          /\ season_state' = [season_state EXCEPT ![s] = to]
    BY DEF transition_season
  <1>2. UNCHANGED <<config, policy_set, vault_set, deposited, supply, receipt,
                    reserves, committed, protocol_fees, publisher_fees,
                    season_count, premiums_in, payouts_paid, held, wallet, unabsorbed>>
    BY DEF transition_season, wiring, tranches, treasury, tokens
  <1>3. TypeOK'
    <2>1. season_state' \in [SeasonId -> SeasonState \cup {"None"}]
      BY <1>1 DEF TypeOK, SeasonState
    <2> QED  BY <1>2, <2>1 DEF TypeOK, valid_config
  <1>4. Custody' /\ FeeCaps' /\ NoPoolNoFees'
    BY <1>2 DEF Custody, FeeCaps, NoPoolNoFees, PoolExists
  <1>5. Shares' /\ NoOrphanSeniorCapital'
    BY <1>2, SharesFrame DEF NoOrphanSeniorCapital
  <1>6. Unopened'  BY <1>1, <1>2 DEF Unopened, TypeOK
  <1>7. Books'
    <2>1. InFlight' = InFlight  BY <1>1 DEF InFlight, TypeOK
    <2>2. /\ unsettled(premiums_in)' = unsettled(premiums_in)
          /\ unsettled(payouts_paid)' = unsettled(payouts_paid)
      BY <1>2, <2>1 DEF unsettled
    <2> QED  BY <1>2, <2>2 DEF Books, Backing
  <1> QED  BY <1>3, <1>4, <1>5, <1>6, <1>7

(* What the waterfall does to the tranches: they and the unabsorbed loss   *)
(* move by the season's result, and nothing becomes negative.              *)
LEMMA Waterfall ==
  ASSUME TypeOK, NEW s \in SeasonId, settle_season(s)
  PROVE  /\ deposited' \in [Tier -> Nat]
         /\ unabsorbed' \in Nat
         /\ deposited'["Junior"] + deposited'["Senior"] - unabsorbed' =
              deposited["Junior"] + deposited["Senior"] - unabsorbed + season_net(s)
         /\ deposited["Senior"] = 0 => deposited'["Senior"] = 0
         /\ deposited'["Senior"] < deposited["Senior"] => deposited'["Junior"] = 0
         /\ unabsorbed' > unabsorbed =>
              deposited["Junior"] + deposited["Senior"] + season_net(s) < 0
  <1> DEFINE n == season_net(s)
             dj == deposited["Junior"]
             ds == deposited["Senior"]
  <1>1. n \in Int  BY DEF TypeOK, season_net
  <1>2. dj \in Nat /\ ds \in Nat /\ unabsorbed \in Nat /\ deposited \in [Tier -> Nat]
    BY DEF TypeOK
  <1>3. CASE n > 0 /\ credit_junior_surplus(n)
    BY <1>1, <1>2, <1>3 DEF credit_junior_surplus
  <1>4. CASE n < 0 /\ absorb_loss(-n)
    <2> DEFINE j == from_junior(-n)
               k == from_senior(-n)
    <2>1. /\ j \in Nat /\ j <= dj /\ j <= -n
          /\ k \in Nat /\ k <= ds /\ k <= -n - j
          /\ k > 0 => j = dj
          /\ j + k < -n => j = dj /\ k = ds
      BY <1>1, <1>2, <1>4 DEF from_junior, from_senior, Least
    <2>2. /\ deposited' = [deposited EXCEPT !["Junior"] = dj - j, !["Senior"] = ds - k]
          /\ unabsorbed' = unabsorbed + (-n - j - k)
      BY <1>4 DEF absorb_loss
    <2> HIDE DEF n, j, k
    <2>3. deposited'["Junior"] = dj - j /\ deposited'["Senior"] = ds - k
      BY <1>2, <2>2
    <2>4. deposited' \in [Tier -> Nat]  BY <1>2, <2>1, <2>2
    <2> QED  BY <1>1, <1>2, <2>1, <2>2, <2>3, <2>4 DEF n
  <1>5. CASE n = 0 /\ UNCHANGED <<deposited, unabsorbed>>
    BY <1>1, <1>2, <1>5
  <1> QED  BY <1>3, <1>4, <1>5 DEF settle_season

(* settle_season preserves the inductive invariant.                        *)
LEMMA SettleSeasonIInv ==
  ASSUME IInv, NEW s \in SeasonId, settle_season(s)
  PROVE  IInv'
  <1> USE DEF IInv
  <1>1. /\ season_state[s] = "Closed"
        /\ season_state' = [season_state EXCEPT ![s] = "Settled"]
        /\ s \in InFlight
    BY DEF settle_season, InFlight
  <1>2. UNCHANGED <<config, policy_set, vault_set, supply, receipt, reserves,
                    committed, protocol_fees, publisher_fees, season_count,
                    premiums_in, payouts_paid, held, wallet>>
    BY DEF settle_season, wiring, treasury, tokens
  <1>3. /\ deposited' \in [Tier -> Nat]
        /\ unabsorbed' \in Nat
        /\ deposited'["Junior"] + deposited'["Senior"] - unabsorbed' =
             deposited["Junior"] + deposited["Senior"] - unabsorbed + season_net(s)
        /\ deposited["Senior"] = 0 => deposited'["Senior"] = 0
    BY Waterfall
  <1>4. TypeOK'
    <2>1. season_state' \in [SeasonId -> SeasonState \cup {"None"}]
      BY <1>1 DEF TypeOK, SeasonState
    <2> QED  BY <1>2, <1>3, <2>1 DEF TypeOK, valid_config
  <1>5. Custody' /\ FeeCaps' /\ NoPoolNoFees'
    BY <1>2 DEF Custody, FeeCaps, NoPoolNoFees, PoolExists
  <1>6. Shares' /\ NoOrphanSeniorCapital'
    BY <1>2, <1>3, SharesFrame DEF NoOrphanSeniorCapital
  <1>7. Unopened'  BY <1>1, <1>2 DEF Unopened, TypeOK
  <1>8. Books'
    <2> DEFINE p == Total(unsettled(premiums_in))
               q == Total(unsettled(payouts_paid))
    <2>1. p \in Nat /\ q \in Nat  BY TotalsAreNat
    <2>2. premiums_in[s] \in Nat /\ payouts_paid[s] \in Nat /\ reserves \in Nat
      BY DEF TypeOK
    <2>3. /\ IsFiniteSet(Units(unsettled(premiums_in)'))
          /\ IsFiniteSet(Units(unsettled(payouts_paid)'))
          /\ Total(unsettled(premiums_in)') = p - premiums_in[s]
          /\ Total(unsettled(payouts_paid)') = q - payouts_paid[s]
      BY <1>1, <1>2, SettledUpdate
    <2>4. reserves + unabsorbed + q = deposited["Junior"] + deposited["Senior"] + p
      BY DEF Books, Backing
    <2>5. /\ unabsorbed \in Int /\ unabsorbed' \in Int
          /\ deposited["Junior"] \in Int /\ deposited["Senior"] \in Int
          /\ deposited'["Junior"] \in Int /\ deposited'["Senior"] \in Int
      BY <1>3 DEF TypeOK
    <2> HIDE DEF p, q, IInv
    <2>6. reserves' + unabsorbed' + (q - payouts_paid[s]) =
            deposited'["Junior"] + deposited'["Senior"] + (p - premiums_in[s])
      BY <1>2, <1>3, <2>1, <2>2, <2>4, <2>5 DEF season_net
    <2> QED  BY <2>3, <2>6 DEF Books, Backing
  <1> QED  BY <1>4, <1>5, <1>6, <1>7, <1>8

(* The remaining actions change no number.                                 *)
LEMMA WiringIInv ==
  ASSUME IInv,
         \/ set_policy_contract
         \/ set_payout_vault
         \/ \E c \in Configs : create_pool(c)
         \/ UNCHANGED vars
  PROVE  IInv'
  <1> USE DEF IInv
  <1>1. UNCHANGED <<deposited, supply, receipt, reserves, committed,
                    protocol_fees, publisher_fees, seasons, season_count,
                    season_state, premiums_in, payouts_paid, held, wallet, unabsorbed>>
    BY DEF set_policy_contract, set_payout_vault, create_pool, vars,
           wiring, tranches, treasury, seasons, tokens
  <1>2. policy_set' \in BOOLEAN /\ vault_set' \in BOOLEAN
    <2>1. CASE set_policy_contract  BY <2>1, Zenon DEF set_policy_contract, TypeOK
    <2>2. CASE set_payout_vault  BY <2>2, Zenon DEF set_payout_vault, TypeOK
    <2>3. CASE \E c \in Configs : create_pool(c)
      BY <2>3 DEF create_pool, wiring, TypeOK
    <2>4. CASE UNCHANGED vars  BY <2>4 DEF vars, wiring, TypeOK
    <2> QED  BY <2>1, <2>2, <2>3, <2>4
  <1>3. /\ config' \in Configs \cup {NoConfig}
        /\ config' \in Configs => valid_config(config')
        /\ config' = config \/ (config = NoConfig /\ config' \in Configs)
    BY DEF set_policy_contract, set_payout_vault, create_pool, vars, TypeOK, valid_config
  <1>4. TypeOK'  BY <1>1, <1>2, <1>3 DEF TypeOK, valid_config
  <1>5. Custody'  BY <1>1 DEF Custody
  <1>6. FeeCaps' /\ NoPoolNoFees'
    <2>1. CASE config' = config  BY <1>1, <2>1 DEF FeeCaps, NoPoolNoFees, PoolExists
    <2>2. CASE config = NoConfig /\ config' \in Configs
      <3>1. protocol_fees' = 0 /\ publisher_fees' = 0
        BY <1>1, <2>2 DEF NoPoolNoFees, PoolExists
      <3>2. config'.protocol_cap \in Int /\ config'.publisher_cap \in Int
        BY <2>2, ConfigAssumption DEF PoolConfig
      <3> QED  BY <3>1, <3>2 DEF FeeCaps, NoPoolNoFees, PoolExists
    <2> QED  BY <1>3, <2>1, <2>2
  <1>7. Shares' /\ NoOrphanSeniorCapital'
    BY <1>1, SharesFrame DEF NoOrphanSeniorCapital
  <1>8. Unopened'  BY <1>1, SeasonsFrame
  <1>9. Books'
    <2>1. /\ unsettled(premiums_in)' = unsettled(premiums_in)
          /\ unsettled(payouts_paid)' = unsettled(payouts_paid)
      BY <1>1, SeasonsFrame
    <2> QED  BY <1>1, <2>1 DEF Books, Backing
  <1> QED  BY <1>4, <1>5, <1>6, <1>7, <1>8, <1>9

-----------------------------------------------------------------------------
(***************************************************************************)
(* The theorems.                                                           *)
(***************************************************************************)

(* Every step of the contract preserves the inductive invariant.           *)
LEMMA IInvStep == IInv /\ [Next]_vars => IInv'
  <1> SUFFICES ASSUME IInv, [Next]_vars PROVE IInv'  OBVIOUS
  <1>1. CASE \/ set_policy_contract
             \/ set_payout_vault
             \/ \E c \in Configs : create_pool(c)
             \/ UNCHANGED vars
    BY <1>1, WiringIInv
  <1>2. ASSUME NEW tier \in Tier, NEW a \in Accounts, NEW amount \in Amounts,
               deposit(tier, a, amount)
        PROVE  IInv'
    BY <1>2, DepositIInv
  <1>3. ASSUME NEW tier \in Tier, NEW a \in Accounts, NEW amount \in Amounts,
               withdraw(tier, a, amount)
        PROVE  IInv'
    BY <1>3, WithdrawIInv
  <1>4. CASE open_season  BY <1>4, OpenSeasonIInv
  <1>5. ASSUME NEW s \in SeasonId, activate_season(s) \/ close_season(s)
        PROVE  IInv'
    BY <1>5, TransitionIInv DEF activate_season, close_season
  <1>6. ASSUME NEW s \in SeasonId, settle_season(s) PROVE IInv'
    BY <1>6, SettleSeasonIInv
  <1>7. ASSUME NEW s \in SeasonId, NEW a \in Accounts, NEW amount \in Amounts,
               collect_premium(s, a, amount)
        PROVE  IInv'
    BY <1>7, CollectPremiumIInv
  <1>8. ASSUME NEW s \in SeasonId, NEW a \in Accounts, NEW amount \in Amounts,
               refund_premium(s, a, amount)
        PROVE  IInv'
    BY <1>8, AmountAssumption, RefundPremiumIInv
  <1>9. ASSUME NEW s \in SeasonId, NEW amount \in Amounts, pay_out(s, amount)
        PROVE  IInv'
    BY <1>9, AmountAssumption, PayOutIInv
  <1> QED
    BY <1>1, <1>2, <1>3, <1>4, <1>5, <1>6, <1>7, <1>8, <1>9 DEF Next

(* The invariant holds in every reachable state.                           *)
LEMMA Invariance == Spec => []IInv
  BY InitIInv, IInvStep, PTL DEF Spec

(* The pool's records are well typed and no amount ever becomes negative,  *)
(* although withdraw and settle_season subtract without checking the sign. *)
THEOREM TypeCorrect == Spec => []TypeOK
  <1>1. IInv => TypeOK  BY DEF IInv
  <1> QED  BY <1>1, Invariance, PTL

(* The contract holds exactly the reserves and the treasury of the pool.   *)
THEOREM CustodyHolds == Spec => []Custody
  <1>1. IInv => Custody  BY DEF IInv
  <1> QED  BY <1>1, Invariance, PTL

(* Accrued fees stay within the caps of the configuration.                 *)
THEOREM FeeCapsHold == Spec => []FeeCaps
  <1>1. IInv => FeeCaps  BY DEF IInv
  <1> QED  BY <1>1, Invariance, PTL

(* Reserves are tranche capital plus the running results of the seasons in *)
(* flight, less what settlement could book on nobody.                      *)
THEOREM BackingHolds == Spec => []Backing
  <1>1. IInv => Backing  BY DEF IInv, Books
  <1> QED  BY <1>1, Invariance, PTL

(* The receipts of the holders add up to the supply of the tranche.        *)
THEOREM ReceiptsHold == Spec => []ReceiptsMatchSupply
  <1>1. IInv => ReceiptsMatchSupply  BY DEF IInv, Shares, ReceiptsMatchSupply
  <1> QED  BY <1>1, Invariance, PTL

(* A senior tranche without receipts has no capital.                       *)
THEOREM NoOrphanHolds == Spec => []NoOrphanSeniorCapital
  <1>1. IInv => NoOrphanSeniorCapital  BY DEF IInv
  <1> QED  BY <1>1, Invariance, PTL

(* Only three functions write the tranches or leave a loss unabsorbed.     *)
LEMMA TrancheMoves ==
  ASSUME [Next]_vars
  PROVE  \/ UNCHANGED <<deposited, supply, unabsorbed>>
         \/ \E tier \in Tier, a \in Accounts, amount \in Amounts :
              deposit(tier, a, amount)
         \/ \E tier \in Tier, a \in Accounts, amount \in Amounts :
              withdraw(tier, a, amount)
         \/ \E s \in SeasonId : settle_season(s)
  BY DEF Next, vars, tranches, set_policy_contract, set_payout_vault, create_pool,
         open_season, activate_season, close_season, transition_season,
         collect_premium, refund_premium, pay_out

(* A deposit moves one tranche up, by an amount and at most its pro rata   *)
(* share in receipts.                                                      *)
LEMMA DepositMoves ==
  ASSUME IInv, NEW tier \in Tier, NEW a \in Accounts, NEW amount \in Amounts,
         deposit(tier, a, amount)
  PROVE  \E m \in Nat \ {0} :
           /\ amount \in Nat \ {0}
           /\ supply[tier] > 0 =>
                /\ deposited[tier] # 0
                /\ deposited[tier] * m <= amount * supply[tier]
           /\ deposited' = [deposited EXCEPT ![tier] = deposited[tier] + amount]
           /\ supply' = [supply EXCEPT ![tier] = supply[tier] + m]
           /\ unabsorbed' = unabsorbed
  <1> DEFINE m == minted(tier, amount)
  <1>1. amount \in Nat \ {0}  BY AmountAssumption DEF deposit
  <1>2. supply[tier] # 0 => deposited[tier] # 0  BY DEF deposit, MulDivs
  <1>3. m \in Nat /\ (supply[tier] > 0 => deposited[tier] * m <= amount * supply[tier])
    BY <1>1, <1>2, MintedBounds DEF IInv
  <1>4. m # 0  BY <1>3 DEF deposit
  <1>5. supply[tier] \in Nat  BY DEF IInv, TypeOK
  <1>6. /\ deposited' = [deposited EXCEPT ![tier] = deposited[tier] + amount]
        /\ supply' = [supply EXCEPT ![tier] = supply[tier] + m]
        /\ unabsorbed' = unabsorbed
    BY DEF deposit, MintReceipts
  <1>7. supply[tier] > 0 =>
          /\ deposited[tier] # 0
          /\ deposited[tier] * m <= amount * supply[tier]
    BY <1>2, <1>3, <1>5
  <1> HIDE DEF m
  <1>8. m \in Nat \ {0}  BY <1>3, <1>4
  <1> WITNESS m \in Nat \ {0}
  <1> QED  BY <1>1, <1>6, <1>7

(* A withdrawal moves one tranche down, by at most its pro rata share.     *)
LEMMA WithdrawMoves ==
  ASSUME IInv, NEW tier \in Tier, NEW a \in Accounts, NEW r \in Amounts,
         withdraw(tier, a, r)
  PROVE  \E u \in Nat \ {0} :
           /\ r \in Nat \ {0}
           /\ r <= supply[tier]
           /\ u <= deposited[tier]
           /\ supply[tier] * u <= r * deposited[tier]
           /\ deposited' = [deposited EXCEPT ![tier] = deposited[tier] - u]
           /\ supply' = [supply EXCEPT ![tier] = supply[tier] - r]
           /\ unabsorbed' = unabsorbed
  <1> DEFINE u == underlying(tier, r)
  <1>1. r \in Nat \ {0} /\ supply[tier] > 0  BY AmountAssumption DEF withdraw
  <1>2. r <= supply[tier]
    <2>1. r <= receipt[tier][a]  BY DEF withdraw
    <2>2. receipt[tier] \in [Accounts -> Nat] /\ supply[tier] \in Nat
      BY DEF IInv, TypeOK
    <2>3. receipt[tier][a] <= supply[tier]
      BY <2>2, EntryBelowTotal DEF IInv, Shares
    <2> QED  BY <1>1, <2>1, <2>2, <2>3
  <1>3. u \in Nat /\ supply[tier] * u <= r * deposited[tier] /\ u <= deposited[tier]
    BY <1>1, <1>2, UnderlyingBounds DEF IInv
  <1>4. u # 0  BY <1>3 DEF withdraw
  <1>5. /\ deposited' = [deposited EXCEPT ![tier] = deposited[tier] - u]
        /\ supply' = [supply EXCEPT ![tier] = supply[tier] - r]
        /\ unabsorbed' = unabsorbed
    BY DEF withdraw, BurnReceipts
  <1> HIDE DEF u
  <1> QED  BY <1>1, <1>2, <1>3, <1>4, <1>5

(* Neither a deposit nor a withdrawal dilutes the other holders.           *)
THEOREM NoDilutionHolds == Spec => NoDilution
  <1>1. ASSUME IInv, [Next]_vars PROVE NoDilutionStep
    <2> SUFFICES ASSUME NEW t \in Tier, supply[t] > 0, supply'[t] # supply[t]
                 PROVE  deposited'[t] * supply[t] >= deposited[t] * supply'[t]
      BY DEF NoDilutionStep
    <2>1. deposited \in [Tier -> Nat] /\ supply \in [Tier -> Nat]
      BY <1>1 DEF IInv, TypeOK
    <2> DEFINE d == deposited[t]
               n == supply[t]
    <2>2. d \in Nat /\ n \in Nat  BY <2>1
    <2>3. ASSUME NEW tier \in Tier, NEW a \in Accounts, NEW amount \in Amounts,
                 deposit(tier, a, amount)
          PROVE  deposited'[t] * supply[t] >= deposited[t] * supply'[t]
      <3>1. PICK m \in Nat \ {0} :
              /\ amount \in Nat \ {0}
              /\ supply[tier] > 0 => deposited[tier] * m <= amount * supply[tier]
              /\ deposited' = [deposited EXCEPT ![tier] = deposited[tier] + amount]
              /\ supply' = [supply EXCEPT ![tier] = supply[tier] + m]
        BY <1>1, <2>3, DepositMoves
      <3>2. t = tier  BY <2>1, <3>1
      <3>3. deposited'[t] = d + amount /\ supply'[t] = n + m /\ d * m <= amount * n
        BY <2>1, <3>1, <3>2
      <3>4. (d + amount) * n = d * n + amount * n /\ d * (n + m) = d * n + d * m
        BY <2>2, <3>1
      <3>5. d * n \in Int /\ amount * n \in Int /\ d * m \in Int  BY <2>2, <3>1
      <3> HIDE DEF d, n
      <3>6. (d + amount) * n >= d * (n + m)  BY <3>3, <3>4, <3>5
      <3> QED  BY <3>3, <3>6 DEF d, n
    <2>4. ASSUME NEW tier \in Tier, NEW a \in Accounts, NEW r \in Amounts,
                 withdraw(tier, a, r)
          PROVE  deposited'[t] * supply[t] >= deposited[t] * supply'[t]
      <3>1. PICK u \in Nat \ {0} :
              /\ r \in Nat \ {0}
              /\ supply[tier] * u <= r * deposited[tier]
              /\ deposited' = [deposited EXCEPT ![tier] = deposited[tier] - u]
              /\ supply' = [supply EXCEPT ![tier] = supply[tier] - r]
        BY <1>1, <2>4, WithdrawMoves
      <3>2. t = tier  BY <2>1, <3>1
      <3>3. deposited'[t] = d - u /\ supply'[t] = n - r /\ n * u <= r * d
        BY <2>1, <3>1, <3>2
      <3>4. (d - u) * n = d * n - n * u /\ d * (n - r) = d * n - r * d
        BY <2>2, <3>1
      <3>5. d * n \in Int /\ n * u \in Int /\ r * d \in Int  BY <2>2, <3>1
      <3> HIDE DEF d, n
      <3>6. (d - u) * n >= d * (n - r)  BY <3>3, <3>4, <3>5
      <3> QED  BY <3>3, <3>6 DEF d, n
    <2>5. ASSUME NEW s \in SeasonId, settle_season(s) PROVE FALSE
      BY <2>5 DEF settle_season
    <2> QED  BY <1>1, <2>3, <2>4, <2>5, TrancheMoves
  <1> QED  BY <1>1, Invariance, PTL DEF Spec, NoDilution

(* Settlement takes senior capital only after all junior capital.          *)
THEOREM JuniorFirstHolds == Spec => JuniorFirst
  <1>1. ASSUME IInv, [Next]_vars PROVE JuniorFirstStep
    <2> SUFFICES ASSUME deposited'["Senior"] < deposited["Senior"], supply' = supply
                 PROVE  deposited'["Junior"] = 0
      BY DEF JuniorFirstStep
    <2>1. deposited \in [Tier -> Nat] /\ supply \in [Tier -> Nat]
      BY <1>1 DEF IInv, TypeOK
    <2>2. ASSUME NEW tier \in Tier, NEW a \in Accounts, NEW amount \in Amounts,
                 deposit(tier, a, amount)
          PROVE  FALSE
      <3>1. PICK m \in Nat \ {0} : supply' = [supply EXCEPT ![tier] = supply[tier] + m]
        BY <1>1, <2>2, DepositMoves
      <3> QED  BY <2>1, <3>1
    <2>3. ASSUME NEW tier \in Tier, NEW a \in Accounts, NEW r \in Amounts,
                 withdraw(tier, a, r)
          PROVE  FALSE
      <3>1. r \in Nat \ {0} /\ supply' = [supply EXCEPT ![tier] = supply[tier] - r]
        BY <1>1, <2>3, WithdrawMoves
      <3> QED  BY <2>1, <3>1
    <2>4. ASSUME NEW s \in SeasonId, settle_season(s) PROVE deposited'["Junior"] = 0
      BY <1>1, <2>4, Waterfall DEF IInv
    <2>5. CASE UNCHANGED <<deposited, supply, unabsorbed>>  BY <2>1, <2>5
    <2> QED  BY <1>1, <2>2, <2>3, <2>4, <2>5, TrancheMoves
  <1> QED  BY <1>1, Invariance, PTL DEF Spec, JuniorFirst

(* A senior tranche wiped out by a loss can neither be refilled nor        *)
(* emptied.                                                                *)
THEOREM WipedSeniorHolds == Spec => WipedSeniorStays
  <1>1. ASSUME IInv, [Next]_vars PROVE WipedSeniorStaysStep
    <2> SUFFICES ASSUME supply["Senior"] > 0, deposited["Senior"] = 0
                 PROVE  supply'["Senior"] = supply["Senior"] /\ deposited'["Senior"] = 0
      BY DEF WipedSeniorStaysStep
    <2>1. deposited \in [Tier -> Nat] /\ supply \in [Tier -> Nat]
      BY <1>1 DEF IInv, TypeOK
    <2>2. ASSUME NEW tier \in Tier, NEW a \in Accounts, NEW amount \in Amounts,
                 deposit(tier, a, amount)
          PROVE  supply'["Senior"] = supply["Senior"] /\ deposited'["Senior"] = 0
      <3>1. PICK m \in Nat \ {0} :
              /\ supply[tier] > 0 => deposited[tier] # 0
              /\ deposited' = [deposited EXCEPT ![tier] = deposited[tier] + amount]
              /\ supply' = [supply EXCEPT ![tier] = supply[tier] + m]
        BY <1>1, <2>2, DepositMoves
      <3> QED  BY <2>1, <3>1
    <2>3. ASSUME NEW tier \in Tier, NEW a \in Accounts, NEW r \in Amounts,
                 withdraw(tier, a, r)
          PROVE  supply'["Senior"] = supply["Senior"] /\ deposited'["Senior"] = 0
      <3>1. PICK u \in Nat \ {0} :
              /\ u <= deposited[tier]
              /\ deposited' = [deposited EXCEPT ![tier] = deposited[tier] - u]
              /\ supply' = [supply EXCEPT ![tier] = supply[tier] - r]
        BY <1>1, <2>3, WithdrawMoves
      <3> QED  BY <2>1, <3>1
    <2>4. ASSUME NEW s \in SeasonId, settle_season(s)
          PROVE  supply'["Senior"] = supply["Senior"] /\ deposited'["Senior"] = 0
      BY <1>1, <2>4, Waterfall DEF IInv, settle_season
    <2>5. CASE UNCHANGED <<deposited, supply, unabsorbed>>  BY <2>5
    <2> QED  BY <1>1, <2>2, <2>3, <2>4, <2>5, TrancheMoves
  <1> QED  BY <1>1, Invariance, PTL DEF Spec, WipedSeniorStays

(* Settlement leaves a loss on nobody only if another season in flight has *)
(* premiums left: if every other one is at a loss too, the reserves, which *)
(* are not negative, show that the tranches cover this one.                *)
THEOREM ResidualHolds == Spec => ResidualOnlyFromOverlap
  <1>1. ASSUME IInv, [Next]_vars PROVE ResidualOnlyFromOverlapStep
    <2> SUFFICES ASSUME unabsorbed' > unabsorbed, ~(unabsorbed > 0)
                 PROVE  \E s, t \in InFlight :
                          s # t /\ season_net(s) < 0 /\ season_net(t) > 0
      BY DEF ResidualOnlyFromOverlapStep
    <2>1. unabsorbed = 0  BY <1>1 DEF IInv, TypeOK
    <2>2. PICK s \in SeasonId : settle_season(s)
      <3>1. ASSUME NEW tier \in Tier, NEW a \in Accounts, NEW amount \in Amounts,
                   deposit(tier, a, amount) \/ withdraw(tier, a, amount)
            PROVE  unabsorbed' = unabsorbed
        BY <3>1 DEF deposit, withdraw
      <3> QED  BY <1>1, <2>1, <3>1, TrancheMoves
    <2> DEFINE dep == deposited["Junior"] + deposited["Senior"]
               f == unsettled(premiums_in)
               g == unsettled(payouts_paid)
    <2>3. dep + season_net(s) < 0  BY <1>1, <2>2, Waterfall DEF IInv
    <2>4. s \in InFlight  BY <2>2 DEF settle_season, InFlight
    <2>5. /\ f \in [SeasonId -> Nat] /\ f[s] = premiums_in[s]
          /\ g \in [SeasonId -> Nat] /\ g[s] = payouts_paid[s]
      BY <1>1, <2>4 DEF IInv, TypeOK, unsettled
    <2>6. dep \in Nat /\ reserves \in Nat  BY <1>1 DEF IInv, TypeOK
    <2>7. season_net(s) = f[s] - g[s] /\ season_net(s) < 0
      BY <2>3, <2>5, <2>6 DEF season_net
    <2>8. SUFFICES ASSUME \A t \in InFlight : t # s => ~(season_net(t) > 0)
                   PROVE  FALSE
      BY <2>4, <2>7
    <2> DEFINE f0 == [f EXCEPT ![s] = 0]
               g0 == [g EXCEPT ![s] = 0]
    <2>9. \A t \in SeasonId : f0[t] <= g0[t]
      <3> SUFFICES ASSUME NEW t \in SeasonId PROVE f0[t] <= g0[t]  OBVIOUS
      <3>1. CASE t = s  BY <2>5, <3>1
      <3>2. CASE t # s /\ t \in InFlight
        BY <1>1, <2>5, <2>8, <3>2 DEF IInv, TypeOK, season_net, unsettled
      <3>3. CASE t # s /\ t \notin InFlight  BY <2>5, <3>3 DEF unsettled
      <3> QED  BY <3>1, <3>2, <3>3
    <2>10. IsFiniteSet(Units(f)) /\ IsFiniteSet(Units(g))  BY <1>1 DEF IInv, Books
    <2>11. Total(f) \in Nat /\ Total(g) \in Nat  BY <1>1, TotalsAreNat DEF IInv
    <2>12. reserves + 0 + Total(g) = dep + Total(f)
      BY <1>1, <2>1 DEF IInv, Books, Backing
    <2> HIDE DEF f, g, dep
    <2>13. f0 \in [SeasonId -> Nat] /\ g0 \in [SeasonId -> Nat]  BY <2>5
    <2>14. /\ Total(f0) = Total(f) + 0 - f[s]
           /\ Total(g0) = Total(g) + 0 - g[s] /\ IsFiniteSet(Units(g0))
      BY <2>5, <2>10, TotalUpdate
    <2>15. Total(f0) <= Total(g0)  BY <2>9, <2>13, <2>14, TotalMonotone
    <2> HIDE DEF f0, g0
    <2>16. f[s] \in Nat /\ g[s] \in Nat  BY <2>5
    <2> QED  BY <2>3, <2>6, <2>7, <2>11, <2>12, <2>14, <2>15, <2>16
  <1> QED  BY <1>1, Invariance, PTL DEF Spec, ResidualOnlyFromOverlap
=============================================================================
