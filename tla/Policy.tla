------------------------------- MODULE Policy -------------------------------
(***************************************************************************)
(* The policy contract over the risk-pool: certificates are sold against   *)
(* the pool's premium curve, singly or in cooperative batches, cancelled   *)
(* against a refund before their window opens, and otherwise end expired   *)
(* or triggered and paid.                                                  *)
(*                                                                         *)
(* The pool is RiskPool itself; a failing sub-call traps the enclosing     *)
(* call, so it disables the action.  Who may call is not a guard: owners,  *)
(* payers and the guardian may call at any time.  The region and the       *)
(* severity curve of a certificate are copied from the buyer's terms and   *)
(* read by nothing, and are left out.                                      *)
(***************************************************************************)
EXTENDS RiskPool, Storage, Sequences

CONSTANTS
  COVERAGE_UNIT,     \* 10_000_000_000 in the code
  MAX_BATCH_MINTED,  \* MAX_BATCH of the policy contract, 20 in the code
  Terms,             \* the terms a buyer may ask for
  MaxPremiums,       \* the highest premium a buyer may agree to
  MintLists,         \* the lists of entries mint_batch may be called with
  Pointers,          \* opaque metadata pointers
  MaxPolicies,       \* bound: policies minted
  MaxTime            \* bound: ledger time

PolicyTerms == [coverage : Int, index_ref : Nat, window_start : Nat, window_end : Nat]
BatchEntry ==
  [owner : Accounts, terms : PolicyTerms, max_premium : Int, metadata : Pointers]

ASSUME UnitAssumption == COVERAGE_UNIT \in Nat \ {0}
ASSUME TermsAssumption ==
  /\ Terms \subseteq PolicyTerms
  /\ MaxPremiums \subseteq Int
  /\ MintLists \subseteq Seq(BatchEntry)
ASSUME PolicyBoundAssumption ==
  MAX_BATCH_MINTED \in Nat /\ MaxPolicies \in Nat /\ MaxTime \in Nat

VARIABLES
  policy,          \* Policy: policy id -> record
  policy_counter,  \* PolicyCounter
  metadata,        \* MetaPointer: policy id -> pointer
  transferable,    \* Transferable of the pool
  now              \* ledger time

certificates == <<policy, policy_counter, metadata, transferable>>
policy_vars == <<vars, certificates, now>>

PolicyInit ==
  /\ Init
  /\ policy = Empty
  /\ policy_counter = 0
  /\ metadata = Empty
  /\ transferable = FALSE
  /\ now = 0

PolicyState == {"Active", "Triggered", "Paid", "Expired", "Cancelled"}

-----------------------------------------------------------------------------
(* The premium curve of the pool, and the i128 range of its steps.         *)
rate_bps(coverage) ==
  config.base_bps + config.coverage_slope_bps * (coverage \div COVERAGE_UNIT)

Quotes(coverage) ==
  /\ coverage > 0
  /\ Fits(config.coverage_slope_bps * (coverage \div COVERAGE_UNIT))
  /\ Fits(rate_bps(coverage))
  /\ Fits(coverage * rate_bps(coverage) + BPS_DENOMINATOR - 1)

(* Mutated form of compute_premium: the premium is rounded down.           *)
compute_premium_rounded_down(coverage) ==
  (coverage * rate_bps(coverage)) \div BPS_DENOMINATOR

(* The coverage at its rate, rounded up so that no risk is undercharged.   *)
compute_premium(coverage) ==
  (coverage * rate_bps(coverage) + BPS_DENOMINATOR - 1) \div BPS_DENOMINATOR

(* Mutated form of accrued: every premium sees the fees there were before  *)
(* the batch.                                                              *)
accrued_at_once(bps, cap, start, premiums) ==
  LET fees[k \in 0 .. Len(premiums)] ==
        IF k = 0 THEN start
        ELSE fees[k - 1] + accrue_fee(premiums[k], bps, start, cap)
  IN  fees

(* The fees accrued after each premium of a list, collected in turn.       *)
accrued(bps, cap, start, premiums) ==
  LET fees[k \in 0 .. Len(premiums)] ==
        IF k = 0 THEN start
        ELSE fees[k - 1] + accrue_fee(premiums[k], bps, fees[k - 1], cap)
  IN  fees

protocol_accrued(premiums) ==
  accrued(config.protocol_bps, config.protocol_cap, protocol_fees, premiums)
publisher_accrued(premiums) ==
  accrued(config.publisher_bps, config.publisher_cap, publisher_fees, premiums)

(* Mutated form of nets: the certificate records the premium before fees.  *)
nets_gross(premiums) == premiums

(* What the pool keeps of each premium for the season, which is what the   *)
(* certificate records and a cancellation refunds.                         *)
nets(premiums) ==
  LET protocol == protocol_accrued(premiums)
      publisher == publisher_accrued(premiums)
  IN  [k \in DOMAIN premiums |->
         premiums[k] - (protocol[k] - protocol[k - 1]) - (publisher[k] - publisher[k - 1])]

(* The premiums of a list are collected from one payer one after another:  *)
(* the sum of RiskPool's collect_premium over the list.  Every amount is   *)
(* positive and every check monotone, so the sums pass them exactly when   *)
(* each premium in turn does.                                              *)
collect_premiums(s, payer, premiums) ==
  LET protocol == protocol_accrued(premiums)[Len(premiums)]
      publisher == publisher_accrued(premiums)[Len(premiums)]
      gross == Total(premiums)
      net == gross - (protocol - protocol_fees) - (publisher - publisher_fees)
  IN  /\ PoolExists
      /\ season_state[s] \in {"Open", "Active"}
      /\ \A k \in DOMAIN premiums :
           /\ premiums[k] > 0
           /\ AppliesBps(premiums[k], config.protocol_bps)
           /\ AppliesBps(premiums[k], config.publisher_bps)
      /\ TransferIn(payer, gross)
      /\ Fits(protocol)
      /\ Fits(publisher)
      /\ Fits(premiums_in[s] + net)
      /\ Fits(reserves + net)
      /\ protocol_fees' = protocol
      /\ publisher_fees' = publisher
      /\ premiums_in' = [premiums_in EXCEPT ![s] = @ + net]
      /\ reserves' = reserves + net
      /\ UNCHANGED <<config, wiring, tranches, committed, season_count,
                     season_state, payouts_paid, unabsorbed>>

(* Mutated form of valid_terms: a window that ends as it starts is sold.   *)
valid_terms_empty_window(terms) ==
  terms.coverage > 0 /\ terms.window_end >= terms.window_start
valid_terms(terms) == terms.coverage > 0 /\ terms.window_end > terms.window_start

certificate(entry, s, premium, net) ==
  [owner |-> entry.owner, season_id |-> s, terms |-> entry.terms,
   premium_paid |-> premium, net_reserved |-> net, state |-> "Active"]

(* mint_one for every entry of a list, paid by one payer.  All or nothing: *)
(* an entry that fails reverts the call.                                   *)
mint_all(s, payer, entries) ==
  LET n == Len(entries)
      premiums == [k \in 1 .. n |-> compute_premium(entries[k].terms.coverage)]
      net == nets(premiums)
      minted_ids == policy_counter + 1 .. policy_counter + n
      at(id) == id - policy_counter
  IN  /\ PoolExists
      /\ \A k \in 1 .. n : /\ valid_terms(entries[k].terms)
                           /\ Quotes(entries[k].terms.coverage)
                           /\ premiums[k] <= entries[k].max_premium
      /\ policy_counter + n <= MaxPolicies
      /\ collect_premiums(s, payer, premiums)
      /\ policy_counter' = policy_counter + n
      /\ policy' = [id \in DOMAIN policy \cup minted_ids |->
                      IF id \in minted_ids
                      THEN certificate(entries[at(id)], s, premiums[at(id)], net[at(id)])
                      ELSE policy[id]]
      /\ metadata' = [id \in DOMAIN metadata \cup minted_ids |->
                        IF id \in minted_ids THEN entries[at(id)].metadata ELSE metadata[id]]
      /\ UNCHANGED <<transferable, now>>

mint(buyer, s, terms, max_premium, pointer) ==
  mint_all(s, buyer, <<[owner |-> buyer, terms |-> terms,
                        max_premium |-> max_premium, metadata |-> pointer]>>)

mint_batch(payer, s, entries) ==
  /\ Len(entries) \in 1 .. MAX_BATCH_MINTED
  /\ mint_all(s, payer, entries)

-----------------------------------------------------------------------------
(* Mutated form of transition: the state it starts from is not looked at.  *)
transition_any(id, from, to) ==
  /\ Has(policy, id)
  /\ policy' = [policy EXCEPT ![id].state = to]
  /\ UNCHANGED <<vars, policy_counter, metadata, transferable, now>>

transition(id, from, to) ==
  /\ Has(policy, id)
  /\ policy[id].state = from
  /\ policy' = [policy EXCEPT ![id].state = to]
  /\ UNCHANGED <<vars, policy_counter, metadata, transferable, now>>

mark_triggered(id) == transition(id, "Active", "Triggered")
mark_paid(id) == transition(id, "Triggered", "Paid")

(* Open to everybody once the window ended.                                *)
expire(id) ==
  /\ Has(policy, id)
  /\ now >= policy[id].terms.window_end
  /\ transition(id, "Active", "Expired")

(* Mutated form of may_cancel: a cancellation is open until the window     *)
(* ends, not only until it starts.                                         *)
may_cancel_in_window(id) ==
  policy[id].state = "Active" /\ now < policy[id].terms.window_end
may_cancel(id) ==
  policy[id].state = "Active" /\ now < policy[id].terms.window_start

(* Mutated form of refund_due: the premium is refunded with its fees.      *)
refund_due_gross(id) == policy[id].premium_paid
refund_due(id) == policy[id].net_reserved

cancel(id) ==
  /\ Has(policy, id)
  /\ may_cancel(id)
  /\ refund_premium(policy[id].season_id, policy[id].owner, refund_due(id))
  /\ policy' = [policy EXCEPT ![id].state = "Cancelled"]
  /\ UNCHANGED <<policy_counter, metadata, transferable, now>>

set_metadata(id, pointer) ==
  /\ Has(policy, id)
  /\ metadata' = Put(metadata, id, pointer)
  /\ UNCHANGED <<vars, policy, policy_counter, transferable, now>>

set_transferable(allowed) ==
  /\ transferable' = allowed
  /\ UNCHANGED <<vars, policy, policy_counter, metadata, now>>

transfer(id, to) ==
  /\ Has(policy, id)
  /\ transferable
  /\ policy[id].state = "Active"
  /\ policy' = [policy EXCEPT ![id].owner = to]
  /\ UNCHANGED <<vars, policy_counter, metadata, transferable, now>>

(* Ledger time passes.                                                     *)
PolicyTick ==
  /\ now < MaxTime
  /\ now' = now + 1
  /\ UNCHANGED <<vars, certificates>>

(* The pool on its own: everything but a refund, which only the policy     *)
(* contract may ask for.  A premium may also be paid without a policy.     *)
pool_without_refunds ==
  /\ Next
  /\ \A s \in SeasonId : premiums_in'[s] >= premiums_in[s]
  /\ UNCHANGED <<certificates, now>>

PolicyCall ==
  \/ \E s \in SeasonId, a \in Accounts, terms \in Terms, max_premium \in MaxPremiums,
        pointer \in Pointers : mint(a, s, terms, max_premium, pointer)
  \/ \E s \in SeasonId, a \in Accounts, entries \in MintLists : mint_batch(a, s, entries)
  \/ \E id \in 1 .. MaxPolicies :
        \/ mark_triggered(id)
        \/ mark_paid(id)
        \/ expire(id)
        \/ cancel(id)
        \/ \E pointer \in Pointers : set_metadata(id, pointer)
        \/ \E a \in Accounts : transfer(id, a)
  \/ \E allowed \in BOOLEAN : set_transferable(allowed)
  \/ PolicyTick

PolicyNext == pool_without_refunds \/ PolicyCall

PolicySpec == PolicyInit /\ [][PolicyNext]_policy_vars

-----------------------------------------------------------------------------
(***************************************************************************)
(* Properties.                                                             *)
(***************************************************************************)

PolicyRecord ==
  [owner : Accounts, season_id : SeasonId, terms : PolicyTerms,
   premium_paid : Nat, net_reserved : Nat, state : PolicyState]

(* Type invariant.  Ids are given in sequence, every certificate has terms *)
(* that passed the checks, and its net is part of its premium.             *)
PolicyTypeOK ==
  /\ policy_counter \in 0 .. MaxPolicies
  /\ DOMAIN policy = 1 .. policy_counter
  /\ DOMAIN metadata = 1 .. policy_counter
  /\ \A id \in DOMAIN policy :
       /\ policy[id] \in PolicyRecord
       /\ policy[id].terms.coverage > 0
       /\ policy[id].terms.window_start < policy[id].terms.window_end
       /\ policy[id].net_reserved <= policy[id].premium_paid
       /\ metadata[id] \in Pointers
  /\ transferable \in BOOLEAN
  /\ now \in 0 .. MaxTime

(* The nets of the certificates of some seasons that were not cancelled.   *)
standing(S) ==
  {id \in DOMAIN policy : policy[id].season_id \in S /\ policy[id].state # "Cancelled"}
reserved(S) == Total([id \in standing(S) |-> policy[id].net_reserved])

(* Premium before policy (ARCHITECTURE section 9, invariant 6): what the   *)
(* certificates of a season say is reserved for them is accounted in that  *)
(* season, each for itself and all together: fees that are clamped within  *)
(* a batch, and cancellations in any order, leave no certificate without   *)
(* its premium.                                                            *)
PremiumBeforePolicy == \A s \in SeasonId : reserved({s}) <= premiums_in[s]

(* Refunds are funded: apart from what payouts took, the pool holds the    *)
(* net of every standing certificate of every season not settled yet.      *)
(* Deposits, withdrawals and settlements of the tranches never reach it,   *)
(* so as long as nothing was paid everybody who may cancel can.            *)
RefundsFunded ==
  reserved(InFlight) <= reserves + unabsorbed + Total(unsettled(payouts_paid))

Lifecycle ==
  {<<"Active", "Triggered">>, <<"Triggered", "Paid">>, <<"Active", "Expired">>,
   <<"Active", "Cancelled">>}

CertificateFrozenStep ==
  \A id \in DOMAIN policy :
    /\ id \in DOMAIN policy'
    /\ policy'[id] = [policy[id] EXCEPT !.state = policy'[id].state,
                                        !.owner = policy'[id].owner]
    /\ policy'[id].state # policy[id].state =>
         /\ <<policy[id].state, policy'[id].state>> \in Lifecycle
         /\ policy'[id].owner = policy[id].owner
    /\ policy'[id].owner # policy[id].owner => policy[id].state = "Active"

(* A certificate is frozen but for its lifecycle: no id is reused, what it *)
(* insures and what was paid for it never change, the end states are       *)
(* final, and it changes hands only while it is Active.                    *)
CertificateFrozen == [][CertificateFrozenStep]_policy_vars

(* The premium is the least whole amount that covers the rate, and more    *)
(* coverage never costs less although the rate steps up: the reference for *)
(* compute_premium, for coverages of up to three units.                    *)
PremiumIsLeast ==
  PoolExists =>
    \A c \in 1 .. 3 * COVERAGE_UNIT :
      Quotes(c) =>
        LET p == compute_premium(c)
        IN  /\ p * BPS_DENOMINATOR >= c * rate_bps(c)
            /\ (p - 1) * BPS_DENOMINATOR < c * rate_bps(c)
            /\ compute_premium(c - 1) <= p
=============================================================================
