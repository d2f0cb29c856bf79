------------------------------ MODULE RiskPool ------------------------------
(***************************************************************************)
(* The risk-pool contract: custody of one pool's tokens.  Liquidity        *)
(* providers deposit into a junior or a senior tranche against receipts,   *)
(* premiums enter through a season, cancelled policies are refunded,       *)
(* payouts leave through the payout vault, and settling a closed season    *)
(* books its surplus or its loss on the tranches.                          *)
(*                                                                         *)
(* Every public function is one action: a Soroban call is atomic and an    *)
(* Err, a trap or a failed token transfer reverts it, so a failing call is *)
(* a disabled action.  All storage keys but the wiring carry the pool id   *)
(* and no function touches two pools, so the module models one pool; held  *)
(* is the part of the contract's token balance that this pool's transfers  *)
(* account for.  Time (opened_at, closes_at) is written and never read by  *)
(* the contract and is left out, as is payouts_committed, which is written *)
(* once with zero and never read.                                          *)
(***************************************************************************)
EXTENDS Common, Totals

CONSTANTS
  Accounts,    \* liquidity providers, premium payers, refund recipients
  Vault,       \* the address of the payout vault
  Configs,     \* the configurations create_pool may be called with
  NoConfig,    \* there is no pool yet
  Funds,       \* what each account owns of the pool token at the start
  Amounts,     \* the amounts a call may name
  MaxSeasons   \* bound: seasons opened for the pool

Tier == {"Junior", "Senior"}
SeasonId == 1 .. MaxSeasons
SeasonState == {"Open", "Active", "Closed", "Settled"}

PoolConfig ==
  [regions : Nat, season_length : Nat,          \* regions: how many are named
   base_bps : Nat, coverage_slope_bps : Nat,
   tranche_cap : [Tier -> Int],
   protocol_bps : Nat, publisher_bps : Nat,
   protocol_cap : Int, publisher_cap : Int]

ASSUME VaultAssumption  == Vault \notin Accounts
ASSUME ConfigAssumption == Configs \subseteq PoolConfig /\ NoConfig \notin Configs
ASSUME FundsAssumption  == Funds \in [Accounts -> Nat]
ASSUME AmountAssumption == Amounts \subseteq Int
ASSUME SeasonAssumption == MaxSeasons \in Nat
(* The token exists in a finite amount.                                    *)
ASSUME SupplyAssumption == IsFiniteSet(Units(Funds))

VARIABLES
  config,          \* PoolConfig(id), or NoConfig before create_pool
  policy_set,      \* PolicyContract is configured
  vault_set,       \* PayoutVault is configured
  deposited,       \* TrancheState.deposited per tier
  supply,          \* TrancheState.supply per tier
  receipt,         \* Receipt(tier, holder)
  reserves,        \* SolvencyState.reserves
  committed,       \* SolvencyState.committed
  protocol_fees,   \* TreasuryState.protocol_fees
  publisher_fees,  \* TreasuryState.publisher_fees
  season_count,    \* SeasonCount
  season_state,    \* Season.state per season id, "None" before it is opened
  premiums_in,     \* Season.premiums_in
  payouts_paid,    \* Season.payouts_paid
  held,            \* pool tokens the contract holds (token contract)
  wallet,          \* pool tokens of everybody else (token contract)
  unabsorbed       \* history: settlement losses no tranche could absorb

wiring   == <<policy_set, vault_set>>
tranches == <<deposited, supply, receipt>>
treasury == <<protocol_fees, publisher_fees>>
seasons  == <<season_count, season_state, premiums_in, payouts_paid>>
tokens   == <<held, wallet>>
vars == <<config, wiring, tranches, reserves, committed, treasury, seasons,
          tokens, unabsorbed>>

-----------------------------------------------------------------------------
(***************************************************************************)
(* Helpers.                                                                *)
(***************************************************************************)

(* The token contract moves an amount or traps: into the pool's custody    *)
(* from an account that owns it, or out of it.                             *)
TransferIn(from, amount) ==
  /\ amount <= wallet[from]
  /\ wallet' = [wallet EXCEPT ![from] = @ - amount]
  /\ held' = held + amount

TransferOut(to, amount) ==
  /\ amount <= held
  /\ wallet' = [wallet EXCEPT ![to] = @ + amount]
  /\ held' = held - amount

PoolExists == config # NoConfig

(* mul_div is None on overflow and on a zero denominator.                  *)
mul_div(a, b, denom) == (a * b) \div denom
MulDivs(a, b, denom) == Fits(a * b) /\ denom # 0

(* Mutated form of accrue_fee: the cap is applied per premium, not to the  *)
(* running total.                                                          *)
accrue_fee_per_premium(amount, bps, accrued, cap) ==
  IF cap = 0 THEN apply_bps(amount, bps) ELSE Least(apply_bps(amount, bps), cap)

(* accrue_fee: the rate's share of the amount, clamped to the room left    *)
(* under the cap; a cap of zero is no cap.                                 *)
accrue_fee(amount, bps, accrued, cap) ==
  IF cap = 0 THEN apply_bps(amount, bps)
  ELSE Least(apply_bps(amount, bps), Greatest(cap - accrued, 0))

protocol_fee(amount) ==
  accrue_fee(amount, config.protocol_bps, protocol_fees, config.protocol_cap)
publisher_fee(amount) ==
  accrue_fee(amount, config.publisher_bps, publisher_fees, config.publisher_cap)

(* Mutated form of net_premium: the publisher's fee is not taken out.      *)
net_premium_gross_of_publisher(amount) == amount - protocol_fee(amount)
net_premium(amount) == amount - protocol_fee(amount) - publisher_fee(amount)

(* Mutated form of minted: the pro rata share is rounded up.               *)
minted_rounded_up(tier, amount) ==
  IF supply[tier] = 0 THEN amount
  ELSE mul_div(amount, supply[tier], deposited[tier]) + 1

(* The receipts a deposit mints: one to one into a tranche without         *)
(* receipts, pro rata afterwards.                                          *)
minted(tier, amount) ==
  IF supply[tier] = 0 THEN amount
  ELSE mul_div(amount, supply[tier], deposited[tier])

(* Mutated form of underlying: one receipt too many in the denominator.    *)
underlying_off_by_one(tier, receipt_amount) ==
  mul_div(receipt_amount, deposited[tier], supply[tier] + 1)

(* What receipts redeem: their share of the tranche's capital, rounded     *)
(* down.                                                                   *)
underlying(tier, receipt_amount) ==
  mul_div(receipt_amount, deposited[tier], supply[tier])

(* Reserves may be spent down to what is committed, and not below zero.    *)
CanRelease(amount) == amount <= reserves /\ reserves - amount >= committed

(* Mutated form of valid_config: each rate is bounded, their sum is not.   *)
valid_config_no_sum(c) ==
  /\ c.regions # 0
  /\ c.season_length # 0
  /\ c.protocol_bps <= BPS_DENOMINATOR
  /\ c.publisher_bps <= BPS_DENOMINATOR

(* create_pool's validation of the configuration.                          *)
valid_config(c) ==
  /\ c.regions # 0
  /\ c.season_length # 0
  /\ c.base_bps <= BPS_DENOMINATOR
  /\ c.coverage_slope_bps <= BPS_DENOMINATOR
  /\ \A tier \in Tier : c.tranche_cap[tier] >= 0
  /\ c.protocol_cap >= 0
  /\ c.publisher_cap >= 0
  /\ c.protocol_bps <= BPS_DENOMINATOR
  /\ c.publisher_bps <= BPS_DENOMINATOR
  /\ c.protocol_bps + c.publisher_bps <= BPS_DENOMINATOR

-----------------------------------------------------------------------------
Init ==
  /\ config = NoConfig
  /\ policy_set = FALSE
  /\ vault_set = FALSE
  /\ deposited = [tier \in Tier |-> 0]
  /\ supply = [tier \in Tier |-> 0]
  /\ receipt = [tier \in Tier |-> [a \in Accounts |-> 0]]
  /\ reserves = 0
  /\ committed = 0
  /\ protocol_fees = 0
  /\ publisher_fees = 0
  /\ season_count = 0
  /\ season_state = [s \in SeasonId |-> "None"]
  /\ premiums_in = [s \in SeasonId |-> 0]
  /\ payouts_paid = [s \in SeasonId |-> 0]
  /\ held = 0
  /\ wallet = [a \in Accounts \cup {Vault} |-> IF a = Vault THEN 0 ELSE Funds[a]]
  /\ unabsorbed = 0

(* set_policy_contract and set_payout_vault: the guardian wires the two    *)
(* contracts that may call refund_premium and pay_out.  Repeating a call   *)
(* only changes which address that is.                                     *)
set_policy_contract ==
  /\ policy_set' = TRUE
  /\ UNCHANGED <<config, vault_set, tranches, reserves, committed, treasury,
                 seasons, tokens, unabsorbed>>

set_payout_vault ==
  /\ vault_set' = TRUE
  /\ UNCHANGED <<config, policy_set, tranches, reserves, committed, treasury,
                 seasons, tokens, unabsorbed>>

(* create_pool: a valid configuration is stored and the pool's records     *)
(* start at zero, as Init has them.                                        *)
create_pool(c) ==
  /\ config = NoConfig
  /\ valid_config(c)
  /\ config' = c
  /\ UNCHANGED <<wiring, tranches, reserves, committed, treasury, seasons,
                 tokens, unabsorbed>>

(* Receipts are minted against capital, or burnt for capital.              *)
MintReceipts(tier, holder, amount, shares) ==
  /\ deposited' = [deposited EXCEPT ![tier] = @ + amount]
  /\ supply' = [supply EXCEPT ![tier] = @ + shares]
  /\ receipt' = [receipt EXCEPT ![tier][holder] = @ + shares]

(* Mutated form of BurnReceipts: the supply falls by the capital released. *)
BurnReceipts_by_underlying(tier, holder, amount, shares) ==
  /\ deposited' = [deposited EXCEPT ![tier] = @ - amount]
  /\ supply' = [supply EXCEPT ![tier] = @ - amount]
  /\ receipt' = [receipt EXCEPT ![tier][holder] = @ - shares]

BurnReceipts(tier, holder, amount, shares) ==
  /\ deposited' = [deposited EXCEPT ![tier] = @ - amount]
  /\ supply' = [supply EXCEPT ![tier] = @ - shares]
  /\ receipt' = [receipt EXCEPT ![tier][holder] = @ - shares]

deposit(tier, from, amount) ==
  /\ amount > 0
  /\ PoolExists
  /\ Fits(deposited[tier] + amount)
  /\ config.tranche_cap[tier] > 0 =>
        deposited[tier] + amount <= config.tranche_cap[tier]
  /\ supply[tier] # 0 => MulDivs(amount, supply[tier], deposited[tier])
  /\ minted(tier, amount) > 0
  /\ TransferIn(from, amount)
  /\ Fits(supply[tier] + minted(tier, amount))
  /\ Fits(receipt[tier][from] + minted(tier, amount))
  /\ Fits(reserves + amount)
  /\ MintReceipts(tier, from, amount, minted(tier, amount))
  /\ reserves' = reserves + amount
  /\ UNCHANGED <<config, wiring, committed, treasury, seasons, unabsorbed>>

withdraw(tier, holder, receipt_amount) ==
  /\ receipt_amount > 0
  /\ PoolExists
  /\ receipt_amount <= receipt[tier][holder]
  /\ supply[tier] > 0
  /\ MulDivs(receipt_amount, deposited[tier], supply[tier])
  /\ underlying(tier, receipt_amount) > 0
  /\ ~(tier = "Senior" /\ committed > 0)
  /\ CanRelease(underlying(tier, receipt_amount))
  /\ BurnReceipts(tier, holder, underlying(tier, receipt_amount), receipt_amount)
  /\ reserves' = reserves - underlying(tier, receipt_amount)
  /\ TransferOut(holder, underlying(tier, receipt_amount))
  /\ UNCHANGED <<config, wiring, committed, treasury, seasons, unabsorbed>>

open_season ==
  /\ PoolExists
  /\ season_count < MaxSeasons
  /\ season_count' = season_count + 1
  /\ season_state' = [season_state EXCEPT ![season_count + 1] = "Open"]
  /\ UNCHANGED <<config, wiring, tranches, reserves, committed, treasury,
                 premiums_in, payouts_paid, tokens, unabsorbed>>

transition_season(s, from, to) ==
  /\ season_state[s] = from
  /\ season_state' = [season_state EXCEPT ![s] = to]
  /\ UNCHANGED <<config, wiring, tranches, reserves, committed, treasury,
                 season_count, premiums_in, payouts_paid, tokens, unabsorbed>>

activate_season(s) == transition_season(s, "Open", "Active")
close_season(s) == transition_season(s, "Active", "Closed")

collect_premium(s, from, amount) ==
  /\ amount > 0
  /\ PoolExists
  /\ season_state[s] \in {"Open", "Active"}
  /\ AppliesBps(amount, config.protocol_bps)
  /\ AppliesBps(amount, config.publisher_bps)
  /\ TransferIn(from, amount)
  /\ Fits(protocol_fees + protocol_fee(amount))
  /\ Fits(publisher_fees + publisher_fee(amount))
  /\ Fits(premiums_in[s] + net_premium(amount))
  /\ Fits(reserves + net_premium(amount))
  /\ protocol_fees' = protocol_fees + protocol_fee(amount)
  /\ publisher_fees' = publisher_fees + publisher_fee(amount)
  /\ premiums_in' = [premiums_in EXCEPT ![s] = @ + net_premium(amount)]
  /\ reserves' = reserves + net_premium(amount)
  /\ UNCHANGED <<config, wiring, tranches, committed, season_count,
                 season_state, payouts_paid, unabsorbed>>

refund_premium(s, to, net) ==
  /\ policy_set
  /\ net > 0
  /\ PoolExists
  /\ season_state[s] \in {"Open", "Active"}
  /\ net <= premiums_in[s]
  /\ CanRelease(net)
  /\ premiums_in' = [premiums_in EXCEPT ![s] = @ - net]
  /\ reserves' = reserves - net
  /\ TransferOut(to, net)
  /\ UNCHANGED <<config, wiring, tranches, committed, treasury, season_count,
                 season_state, payouts_paid, unabsorbed>>

(* Mutated form of PayableStates: a settled season still pays.             *)
PayableStates_after_settlement == {"Active", "Closed", "Settled"}
PayableStates == {"Active", "Closed"}

(* pay_out: called by the configured vault, which names itself as the      *)
(* recipient (payout-vault pay_batch).                                     *)
pay_out(s, amount) ==
  /\ vault_set
  /\ amount > 0
  /\ PoolExists
  /\ season_state[s] \in PayableStates
  /\ CanRelease(amount)
  /\ Fits(payouts_paid[s] + amount)
  /\ payouts_paid' = [payouts_paid EXCEPT ![s] = @ + amount]
  /\ reserves' = reserves - amount
  /\ TransferOut(Vault, amount)
  /\ UNCHANGED <<config, wiring, tranches, committed, treasury, season_count,
                 season_state, premiums_in, unabsorbed>>

(* Mutated form of credit_junior_surplus: the surplus goes to senior.      *)
credit_senior_surplus(surplus) ==
  /\ Fits(deposited["Senior"] + surplus)
  /\ deposited' = [deposited EXCEPT !["Senior"] = @ + surplus]
  /\ UNCHANGED unabsorbed

(* The settlement waterfall: a surplus is junior yield, a loss is taken    *)
(* from junior capital, then from senior; what neither covers is left.     *)
credit_junior_surplus(surplus) ==
  /\ Fits(deposited["Junior"] + surplus)
  /\ deposited' = [deposited EXCEPT !["Junior"] = @ + surplus]
  /\ UNCHANGED unabsorbed

(* Mutated form of from_junior: senior capital is taken first.             *)
from_junior_last(loss) ==
  Least(Greatest(loss - deposited["Senior"], 0), deposited["Junior"])
from_junior(loss) == Least(loss, deposited["Junior"])

(* Mutated form of from_senior: the remainder is not passed on.            *)
from_senior_never(loss) == 0
from_senior(loss) == Least(loss - from_junior(loss), deposited["Senior"])

absorb_loss(loss) ==
  /\ deposited' = [deposited EXCEPT !["Junior"] = @ - from_junior(loss),
                                    !["Senior"] = @ - from_senior(loss)]
  /\ unabsorbed' = unabsorbed + (loss - from_junior(loss) - from_senior(loss))

season_net(s) == premiums_in[s] - payouts_paid[s]

settle_season(s) ==
  /\ season_state[s] = "Closed"
  /\ \/ season_net(s) > 0 /\ credit_junior_surplus(season_net(s))
     \/ season_net(s) < 0 /\ absorb_loss(-season_net(s))
     \/ season_net(s) = 0 /\ UNCHANGED <<deposited, unabsorbed>>
  /\ season_state' = [season_state EXCEPT ![s] = "Settled"]
  /\ UNCHANGED <<config, wiring, supply, receipt, reserves, committed,
                 treasury, season_count, premiums_in, payouts_paid, tokens>>

Next ==
  \/ set_policy_contract
  \/ set_payout_vault
  \/ \E c \in Configs : create_pool(c)
  \/ \E tier \in Tier, a \in Accounts, amount \in Amounts :
        \/ deposit(tier, a, amount)
        \/ withdraw(tier, a, amount)
  \/ open_season
  \/ \E s \in SeasonId :
        \/ activate_season(s)
        \/ close_season(s)
        \/ settle_season(s)
  \/ \E s \in SeasonId, a \in Accounts, amount \in Amounts :
        \/ collect_premium(s, a, amount)
        \/ refund_premium(s, a, amount)
  \/ \E s \in SeasonId, amount \in Amounts : pay_out(s, amount)

Spec == Init /\ [][Next]_vars

-----------------------------------------------------------------------------
(***************************************************************************)
(* Properties.                                                             *)
(***************************************************************************)

(* Type invariant.  The amounts are i128 in the code and never negative:   *)
(* the checks before every subtraction keep them so.                       *)
TypeOK ==
  /\ config \in Configs \cup {NoConfig}
  /\ config \in Configs => valid_config(config)
  /\ policy_set \in BOOLEAN
  /\ vault_set \in BOOLEAN
  /\ deposited \in [Tier -> Nat]
  /\ supply \in [Tier -> Nat]
  /\ receipt \in [Tier -> [Accounts -> Nat]]
  /\ reserves \in Nat
  /\ committed \in Nat
  /\ protocol_fees \in Nat
  /\ publisher_fees \in Nat
  /\ season_count \in 0 .. MaxSeasons
  /\ season_state \in [SeasonId -> SeasonState \cup {"None"}]
  /\ premiums_in \in [SeasonId -> Nat]
  /\ payouts_paid \in [SeasonId -> Nat]
  /\ held \in Nat
  /\ wallet \in [Accounts \cup {Vault} -> Nat]
  /\ unabsorbed \in Nat

(* Custody: the tokens the contract holds for the pool are exactly its     *)
(* reserves and its treasury.  Six functions move both sides, each with    *)
(* its own split; a mismatch would make a later transfer trap although the *)
(* reserves check passed, or strand tokens nobody can withdraw.            *)
Custody == held = reserves + protocol_fees + publisher_fees

(* Fee caps: a capped fee stays within its cap over any number of premiums *)
(* and refunds (accrue_fee clamps, refund_premium gives no fee back).      *)
FeeCaps ==
  PoolExists =>
    /\ config.protocol_cap > 0 => protocol_fees <= config.protocol_cap
    /\ config.publisher_cap > 0 => publisher_fees <= config.publisher_cap

(* The seasons opened and not yet settled, and their share of a ledger.    *)
InFlight == {s \in SeasonId : season_state[s] \in {"Open", "Active", "Closed"}}
unsettled(ledger) == [s \in SeasonId |-> IF s \in InFlight THEN ledger[s] ELSE 0]

(* Backing: what the reserves hold is the capital booked on the tranches   *)
(* and the running result of the seasons not yet settled, less the losses  *)
(* settlement could book on nobody.  Settlement moves no token, payouts    *)
(* move no tranche: only together do they keep the books balanced.         *)
Backing ==
  reserves + unabsorbed + Total(unsettled(payouts_paid)) =
    deposited["Junior"] + deposited["Senior"] + Total(unsettled(premiums_in))

(* Receipts: the receipts outstanding are the tranche's supply, so the pro *)
(* rata shares of deposit and withdraw add up to one.                      *)
ReceiptsMatchSupply == \A tier \in Tier : supply[tier] = Total(receipt[tier])

NoDilutionStep ==
  \A tier \in Tier :
     supply[tier] > 0 /\ supply'[tier] # supply[tier] =>
       deposited'[tier] * supply[tier] >= deposited[tier] * supply'[tier]

(* No dilution: a deposit or a withdrawal never lowers the value of the    *)
(* receipts of the others: the rounding of minted and underlying is always *)
(* to the tranche's advantage (compared by cross multiplication).          *)
NoDilution == [][NoDilutionStep]_vars

JuniorFirstStep ==
  deposited'["Senior"] < deposited["Senior"] /\ supply' = supply
     => deposited'["Junior"] = 0

(* Junior first: senior capital falls without a senior withdrawal only in  *)
(* a settlement that leaves the junior tranche without capital.            *)
JuniorFirst == [][JuniorFirstStep]_vars

ResidualOnlyFromOverlapStep ==
  unabsorbed' > unabsorbed =>
     \/ unabsorbed > 0
     \/ \E s, t \in InFlight :
          s # t /\ season_net(s) < 0 /\ season_net(t) > 0

(* A loss beyond the tranches: settling leaves a loss on nobody only when  *)
(* the payouts were funded by the premiums of another season in flight (or *)
(* an earlier such loss is still in the books).  With one season at a time *)
(* the tranches always cover the loss.                                     *)
ResidualOnlyFromOverlap == [][ResidualOnlyFromOverlapStep]_vars

(* Senior capital is never ownerless: with no senior receipts there is no  *)
(* senior capital, so the one to one mint of the next deposit hands nobody *)
(* the capital of others.  (The junior tranche is different: a surplus may *)
(* be credited to it while it has no receipts.)                            *)
NoOrphanSeniorCapital == supply["Senior"] = 0 => deposited["Senior"] = 0

WipedSeniorStaysStep ==
  supply["Senior"] > 0 /\ deposited["Senior"] = 0 =>
     supply'["Senior"] = supply["Senior"] /\ deposited'["Senior"] = 0

(* A wiped senior tranche stays wiped: once a loss took all of its capital *)
(* while receipts are outstanding, deposit fails (division by zero),       *)
(* withdraw fails (nothing underlying) and no settlement credits it.       *)
WipedSeniorStays == [][WipedSeniorStaysStep]_vars
=============================================================================
