---------------------------- MODULE PayoutVault -----------------------------
(***************************************************************************)
(* The payout-vault contract over the risk-pool: the guardian pays the     *)
(* policies of a finalized index window in batches, each payment is pulled *)
(* from the pool and credited to the holder's claim, and claims are pushed *)
(* to the holders.                                                         *)
(*                                                                         *)
(* The pool is RiskPool itself.  Of the trigger-engine the vault sees what *)
(* payout_for reports: whether a window is finalized, and its severity     *)
(* (IndexDecision is the promise behind it).  The entries of a batch are   *)
(* asserted by the guardian; nothing relates them to a policy record.      *)
(* Every public function is an action, a failing call is a disabled one.   *)
(* paid_at, which nothing reads, and the wiring, which is set once by the  *)
(* constructor, are left out.                                              *)
(***************************************************************************)
EXTENDS RiskPool, Storage, Sequences

CONSTANTS
  PolicyIds,   \* policy ids the guardian may name
  Windows,     \* index windows, pairs of an index and a window id
  EntryLists,  \* the lists of entries pay_batch may be called with
  MAX_BATCH    \* 20 in the code

PayoutEntry == [policy_id : PolicyIds, owner : Accounts, coverage : Int]
PayoutRecord == [owner : Accounts, amount : Nat]
BatchState == {"Open", "InProgress", "Complete"}
BatchProgress == [policies_paid : Nat, total_disbursed : Nat, state : BatchState]

ASSUME EntryAssumption == EntryLists \subseteq Seq(PayoutEntry) /\ MAX_BATCH \in Nat

VARIABLES
  decision,   \* trigger-engine: the severity of a finalized window, or Undecided
  paused,     \* Paused
  payout,     \* Payout: policy id -> record, where there is one
  batch,      \* Batch: window -> progress
  claimable,  \* Claim: owner -> accrued amount
  collected,  \* history: what was pushed to an owner
  basis       \* history: policy id -> window, season and coverage it was paid on

ledger == <<payout, batch, claimable, collected, basis>>
vault == <<paused, ledger>>
vault_vars == <<vars, decision, vault>>

Undecided == -1

VaultInit ==
  /\ Init
  /\ decision = [w \in Windows |-> Undecided]
  /\ paused = FALSE
  /\ payout = Empty
  /\ batch = [w \in Windows |->
                [policies_paid |-> 0, total_disbursed |-> 0, state |-> "Open"]]
  /\ claimable = [o \in Accounts |-> 0]
  /\ collected = [o \in Accounts |-> 0]
  /\ basis = Empty

-----------------------------------------------------------------------------
(* The pool on its own: everything but a payout, which is the vault's.     *)
pool_call ==
  /\ Next
  /\ payouts_paid' = payouts_paid
  /\ UNCHANGED <<decision, vault>>

(* Mutated form of finalize_window: a window is finalized over again.      *)
finalize_window_again(w, severity) ==
  /\ decision' = [decision EXCEPT ![w] = severity]
  /\ UNCHANGED <<vars, vault>>

(* trigger-engine finalize: a severity is fixed once.                      *)
finalize_window(w, severity) ==
  /\ decision[w] = Undecided
  /\ decision' = [decision EXCEPT ![w] = severity]
  /\ UNCHANGED <<vars, vault>>

set_paused(flag) ==
  /\ paused' = flag
  /\ UNCHANGED <<vars, decision, ledger>>

pause == set_paused(TRUE)
unpause == set_paused(FALSE)

(* trigger-engine payout_for: a trap (see Payable) unless finalized, the   *)
(* share of the coverage rounded down otherwise.                           *)
payout_for(w, coverage) == Least(apply_bps(coverage, decision[w]), coverage)

(* Mutated form of processed: only the records of earlier calls count, so  *)
(* that a policy named twice in one batch is paid twice.                   *)
processed_per_call(w, entries) ==
  {i \in DOMAIN entries : ~Has(payout, entries[i].policy_id)}

(* The entries that are not skipped: their policy has no record from an    *)
(* earlier call, and got none from an earlier entry of this one.           *)
processed(w, entries) ==
  {i \in DOMAIN entries :
     /\ ~Has(payout, entries[i].policy_id)
     /\ \A j \in 1 .. i - 1 :
          entries[j].policy_id = entries[i].policy_id =>
            payout_for(w, entries[j].coverage) <= 0}

(* What must hold for an entry that is not skipped, or the call reverts.   *)
Payable(w, entry) ==
  /\ entry.coverage > 0
  /\ decision[w] # Undecided
  /\ AppliesBps(entry.coverage, decision[w])

(* Mutated form of paying: a share of nothing is recorded as well.         *)
paying_nothing(w, entries) == processed(w, entries)

(* An entry whose share rounds down to nothing is skipped as well.         *)
paying(w, entries) ==
  {i \in processed(w, entries) : payout_for(w, entries[i].coverage) > 0}

(* What a batch adds to an owner's claim, and what it pulls from the pool. *)
credit(w, entries, o) ==
  Total([i \in paying(w, entries) |->
           IF entries[i].owner = o THEN payout_for(w, entries[i].coverage) ELSE 0])
disbursed(w, entries) ==
  Total([i \in paying(w, entries) |-> payout_for(w, entries[i].coverage)])

(* A map with an entry for every policy paid now: new has one value per    *)
(* paying entry, and no two of them name the same policy.                  *)
recorded(map, entries, new) ==
  [p \in DOMAIN map \cup {entries[i].policy_id : i \in DOMAIN new} |->
     IF p \in DOMAIN map THEN map[p]
     ELSE new[CHOOSE i \in DOMAIN new : entries[i].policy_id = p]]

(* Mutated form of progressed: the checkpoint is overwritten, not added to.*)
progressed_from_zero(w, entries) ==
  [policies_paid |-> Cardinality(paying(w, entries)),
   total_disbursed |-> disbursed(w, entries),
   state |-> IF paying(w, entries) = {} THEN batch[w].state ELSE "InProgress"]

progressed(w, entries) ==
  [policies_paid |-> batch[w].policies_paid + Cardinality(paying(w, entries)),
   total_disbursed |-> batch[w].total_disbursed + disbursed(w, entries),
   state |-> IF paying(w, entries) = {} THEN batch[w].state ELSE "InProgress"]

(* The guardian pays a batch for window w out of season s.  The pool       *)
(* releases the amounts one by one; all are positive and its checks are    *)
(* monotone, so they succeed together exactly when one release of the sum  *)
(* does.                                                                   *)
pay_batch(w, s, entries) ==
  LET paid == paying(w, entries)
  IN  /\ ~paused
      /\ Len(entries) \in 1 .. MAX_BATCH
      /\ batch[w].state # "Complete"
      /\ \A i \in processed(w, entries) : Payable(w, entries[i])
      /\ \/ paid = {} /\ UNCHANGED vars
         \/ paid # {} /\ pay_out(s, disbursed(w, entries))
      /\ \A o \in Accounts : Fits(claimable[o] + credit(w, entries, o))
      /\ Fits(batch[w].total_disbursed + disbursed(w, entries))
      /\ claimable' = [o \in Accounts |-> claimable[o] + credit(w, entries, o)]
      /\ payout' = recorded(payout, entries, [i \in paid |->
            [owner |-> entries[i].owner, amount |-> payout_for(w, entries[i].coverage)]])
      /\ basis' = recorded(basis, entries, [i \in paid |->
            [window |-> w, season |-> s, coverage |-> entries[i].coverage]])
      /\ batch' = [batch EXCEPT ![w] = progressed(w, entries)]
      /\ UNCHANGED <<decision, paused, collected>>

(* Nothing is looked at: a window may be closed before it is paid.         *)
close_batch(w) ==
  /\ batch' = [batch EXCEPT ![w].state = "Complete"]
  /\ UNCHANGED <<vars, decision, paused, payout, claimable, collected, basis>>

(* Mutated form of may_claim: the pause stops claims as well.              *)
may_claim_unpaused(o) == claimable[o] > 0 /\ ~paused
may_claim(o) == claimable[o] > 0

(* Mutated form of claim_left: the claim is not zeroed before the push.    *)
claim_left_kept(o) == claimable[o]
claim_left(o) == 0

(* Anybody may push an owner's claim to the owner, paused or not.          *)
claim(o) ==
  /\ may_claim(o)
  /\ claimable' = [claimable EXCEPT ![o] = claim_left(o)]
  /\ claimable[o] <= wallet[Vault]
  /\ wallet' = [wallet EXCEPT ![Vault] = @ - claimable[o], ![o] = @ + claimable[o]]
  /\ collected' = [collected EXCEPT ![o] = @ + claimable[o]]
  /\ UNCHANGED <<config, wiring, tranches, reserves, committed, treasury, seasons,
                 held, unabsorbed, decision, paused, payout, batch, basis>>

VaultNext ==
  \/ pool_call
  \/ \E w \in Windows, severity \in 0 .. BPS_DENOMINATOR : finalize_window(w, severity)
  \/ pause
  \/ unpause
  \/ \E w \in Windows, s \in SeasonId, entries \in EntryLists : pay_batch(w, s, entries)
  \/ \E w \in Windows : close_batch(w)
  \/ \E o \in Accounts : claim(o)

VaultSpec == VaultInit /\ [][VaultNext]_vault_vars

(* Somebody keeps pushing the claims: claim is open to everybody and needs *)
(* no signature of the owner.                                              *)
ClaimantsPersist == \A o \in Accounts : WF_vault_vars(claim(o))

VaultFairSpec == VaultSpec /\ ClaimantsPersist

-----------------------------------------------------------------------------
(***************************************************************************)
(* Properties.                                                             *)
(***************************************************************************)

(* Type invariant of the vault.                                            *)
VaultTypeOK ==
  /\ decision \in [Windows -> 0 .. BPS_DENOMINATOR \cup {Undecided}]
  /\ paused \in BOOLEAN
  /\ DOMAIN payout \subseteq PolicyIds
  /\ \A p \in DOMAIN payout : payout[p] \in PayoutRecord /\ payout[p].amount > 0
  /\ batch \in [Windows -> BatchProgress]
  /\ claimable \in [Accounts -> Nat]
  /\ collected \in [Accounts -> Nat]
  /\ DOMAIN basis = DOMAIN payout

(* Claims are backed: the tokens in the vault are exactly the claims not   *)
(* pushed yet, so that a claim never traps for want of tokens, whatever    *)
(* batches, retries and claims came in between (pay_batch, claim).         *)
ClaimsBacked == wallet[Vault] = Total(claimable)

(* The promise of the vault as a ledger of one-time settlements.           *)
Ledger == INSTANCE ClaimLedger
  WITH settled <- payout, due <- claimable, Policies <- PolicyIds, Holders <- Accounts

(* The vault implements the ledger: a policy is settled once, for one      *)
(* owner and one amount, in whatever batch, retry or window it is named    *)
(* again, and a claim is collected whole or not at all.                    *)
ImplementsLedger == Ledger!Spec

Amounts_recorded == [p \in DOMAIN payout |-> payout[p].amount]

(* The three sets of books agree: the records of the vault, its progress   *)
(* per window, and the payouts the pool booked on its seasons              *)
(* (ARCHITECTURE 5.5: settle_season still reconciles).                     *)
BooksAgree ==
  /\ Total(Amounts_recorded) = Total(payouts_paid)
  /\ \A w \in Windows :
       LET here == {p \in DOMAIN basis : basis[p].window = w}
       IN  /\ batch[w].policies_paid = Cardinality(here)
           /\ batch[w].total_disbursed = Total([p \in here |-> payout[p].amount])

(* No payout without finalization (ARCHITECTURE section 9, invariant 4):   *)
(* every record rests on a finalized window and pays the share of the      *)
(* coverage its severity gives, never more than the coverage.              *)
PaidOnFinalized ==
  \A p \in DOMAIN payout :
    LET on == basis[p]
    IN  /\ decision[on.window] # Undecided
        /\ payout[p].amount <= on.coverage
        /\ payout[p].amount * BPS_DENOMINATOR <= on.coverage * decision[on.window]

(* A recorded payout can always be collected (the doc of pause): under     *)
(* persistent claimants every claim arrives, through pauses, further       *)
(* batches and whatever happens to the pool.                               *)
ClaimsArrive ==
  \A o \in Accounts, n \in 1 .. Total(Funds) :
    Total([p \in {q \in DOMAIN payout : payout[q].owner = o} |-> payout[p].amount]) = n
      ~> collected[o] >= n
=============================================================================
