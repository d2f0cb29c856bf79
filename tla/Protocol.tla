------------------------------ MODULE Protocol ------------------------------
(***************************************************************************)
(* The contracts together: policies sold against the pool, windows that    *)
(* are finalized, and the guardian who reads the policy records, assembles *)
(* a batch of payout entries off chain and submits it to the vault later.  *)
(* Between the reading and the submission anything may happen, and a list  *)
(* may be submitted again.                                                 *)
(*                                                                         *)
(* The contracts are tied together by the calls they make (RiskPool's      *)
(* refund_premium only through cancel, pay_out only through pay_batch) and *)
(* by the guardian.  They do not compare what they know: a buyer may name  *)
(* any index and any window_start (mint_one), finalize looks at no policy, *)
(* and the vault never reads one.  That a policy is paid on a window of    *)
(* its index, for its own coverage and not before its coverage starts is   *)
(* the guardian's doing alone, here a guard of the guardian's action.      *)
(***************************************************************************)
EXTENDS Policy, PayoutVault

CONSTANTS
  NoList  \* the guardian has assembled nothing

(* A window is a pair of the id of its index and an id among the windows   *)
(* of that index, and the guardian may name any policy there is.           *)
ASSUME WindowAssumption ==
  /\ Windows \subseteq Nat \X Nat
  /\ 1 .. MaxPolicies \subseteq PolicyIds

VARIABLE worklist  \* the guardian's batch: window, season and entries, or NoList

protocol_vars == <<vars, certificates, now, decision, vault, worklist>>

ProtocolInit ==
  /\ PolicyInit
  /\ VaultInit
  /\ worklist = NoList

-----------------------------------------------------------------------------
(* The pool on its own.                                                    *)
pool_alone ==
  /\ pool_without_refunds
  /\ payouts_paid' = payouts_paid
  /\ UNCHANGED <<decision, vault, worklist>>

policy_call ==
  /\ PolicyCall
  /\ UNCHANGED <<decision, vault, worklist>>

(* A window may be finalized at any time, whatever its index's policies    *)
(* cover.                                                                  *)
finalize(w, severity) ==
  /\ finalize_window(w, severity)
  /\ UNCHANGED <<certificates, now, worklist>>

index_of(w) == w[1]

(* The policies of a season that the guardian still has to pay for window  *)
(* w: those on its index that stand and whose coverage has started when    *)
(* the guardian looks.  No contract checks any of this.                    *)
due(w, s) ==
  {id \in DOMAIN policy \ DOMAIN payout :
     /\ policy[id].terms.index_ref = index_of(w)
     /\ policy[id].season_id = s
     /\ policy[id].state \in {"Active", "Triggered"}
     /\ policy[id].terms.window_start <= now}

entry_of(id) ==
  [policy_id |-> id, owner |-> policy[id].owner, coverage |-> policy[id].terms.coverage]

(* Once a window is finalized the guardian lists some of its policies,     *)
(* with the owner and the coverage of the policy records, in any order.    *)
assemble(w, s) ==
  /\ decision[w] # Undecided
  /\ \E n \in 1 .. MAX_BATCH : \E order \in [1 .. n -> due(w, s)] :
       /\ \A j, k \in 1 .. n : order[j] = order[k] => j = k
       /\ worklist' = [window |-> w, season |-> s,
                       entries |-> [k \in 1 .. n |-> entry_of(order[k])]]
  /\ UNCHANGED <<vars, certificates, now, decision, vault>>

submit ==
  /\ worklist # NoList
  /\ pay_batch(worklist.window, worklist.season, worklist.entries)
  /\ UNCHANGED <<certificates, now, worklist>>

vault_call ==
  /\ \/ pause
     \/ unpause
     \/ \E w \in Windows : close_batch(w)
     \/ \E o \in Accounts : claim(o)
  /\ UNCHANGED <<certificates, now, worklist>>

ProtocolNext ==
  \/ pool_alone
  \/ policy_call
  \/ \E w \in Windows, severity \in 0 .. BPS_DENOMINATOR : finalize(w, severity)
  \/ \E w \in Windows, s \in SeasonId : assemble(w, s)
  \/ submit
  \/ vault_call

ProtocolSpec == ProtocolInit /\ [][ProtocolNext]_protocol_vars

-----------------------------------------------------------------------------
(***************************************************************************)
(* Properties.                                                             *)
(***************************************************************************)

(* Refund or payout: a policy whose premium was refunded is never paid,    *)
(* although the vault does not look at policies and the list it is given   *)
(* may be old: for a guardian who lists only policies whose coverage has   *)
(* started (due), cancel's own look at the clock is enough, for whatever   *)
(* windows the buyers ask.                                                 *)
RefundOrPayout ==
  \A id \in DOMAIN payout : id \in DOMAIN policy /\ policy[id].state # "Cancelled"

(* Every token has one owner on the books: what the accounts brought is in *)
(* their wallets, claimable from the vault, reserved in the pool or a fee  *)
(* of the treasury, through every call of every contract.                  *)
EveryTokenBooked ==
  Total(Funds) = Total([a \in Accounts |-> wallet[a]]) + Total(claimable)
                   + reserves + protocol_fees + publisher_fees

(* What a window owes, once finalized, to the policies not paid yet.       *)
owed(w) ==
  Total([id \in UNION {due(w, s) : s \in SeasonId} |->
           payout_for(w, policy[id].terms.coverage)])

WithdrawalsLeaveWhatIsOwedStep ==
  (\E tier \in Tier : supply'[tier] < supply[tier]) =>
    \A w \in Windows : decision[w] # Undecided => reserves' >= owed(w)

(* A withdrawal leaves what is owed (THREAT-MODEL T-1, ARCHITECTURE        *)
(* section 9, invariant 1): no depositor withdraws what the payouts of a   *)
(* finalized window still need.                                            *)
WithdrawalsLeaveWhatIsOwed == [][WithdrawalsLeaveWhatIsOwedStep]_protocol_vars
=============================================================================
