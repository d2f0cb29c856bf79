---------------------------- MODULE ClaimLedger -----------------------------
(***************************************************************************)
(* What payout-vault promises its holders, without pools, windows, batches *)
(* or pauses: a policy is settled at most once, for one holder and one     *)
(* positive amount; a settlement is added to what is due to the holder,    *)
(* and what is due is collected whole.                                     *)
(***************************************************************************)
EXTENDS Totals

CONSTANTS
  Policies,  \* policies that may be settled
  Holders    \* holders of policies

VARIABLES
  settled,   \* policy -> [owner, amount], for the policies settled
  due,       \* holder -> what is due
  collected  \* holder -> what was collected

ledger_vars == <<settled, due, collected>>

(* What the settlements of a set of policies are worth to a holder.        *)
Worth(settlements, policies, h) ==
  Total([p \in policies |->
           IF settlements[p].owner = h THEN settlements[p].amount ELSE 0])

Init ==
  /\ DOMAIN settled = {}
  /\ due = [h \in Holders |-> 0]
  /\ collected = [h \in Holders |-> 0]

(* Some policies not settled yet are settled; the others stay as they are. *)
Settle ==
  LET fresh == DOMAIN settled' \ DOMAIN settled
  IN  /\ fresh # {}
      /\ fresh \subseteq Policies
      /\ \A p \in DOMAIN settled : p \in DOMAIN settled' /\ settled'[p] = settled[p]
      /\ \A p \in fresh : settled'[p].owner \in Holders /\ settled'[p].amount > 0
      /\ due' = [h \in Holders |-> due[h] + Worth(settled', fresh, h)]
      /\ UNCHANGED collected

Collect(h) ==
  /\ due[h] > 0
  /\ due' = [due EXCEPT ![h] = 0]
  /\ collected' = [collected EXCEPT ![h] = @ + due[h]]
  /\ UNCHANGED settled

Next == Settle \/ \E h \in Holders : Collect(h)

Spec == Init /\ [][Next]_ledger_vars
=============================================================================
