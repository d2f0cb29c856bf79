--------------------------- MODULE ProtocolProofs ---------------------------
(***************************************************************************)
(* Proofs about the contracts together: no token is created or lost by any *)
(* call of any contract (EveryTokenBooked), and a policy that was refunded *)
(* is never paid (RefundOrPayout) by a guardian who lists only policies    *)
(* whose coverage has started, although the vault pays the lists assembled *)
(* earlier and never looks at a policy.                                    *)
(*                                                                         *)
(* The invariants of the policy contract and of the vault are used as they *)
(* are: a step of the composition is a step of one of them, and leaves the *)
(* records of the other alone.                                             *)
(***************************************************************************)
EXTENDS Protocol, PolicyProofs, PayoutVaultProofs

Holders == Accounts \cup {Vault}

(* The tokens of all wallets and those the pool holds are what the         *)
(* accounts brought.                                                       *)
Conserved == IsFiniteSet(Units(wallet)) /\ Total(wallet) + held = Total(Funds)

-----------------------------------------------------------------------------
(***************************************************************************)
(* No call creates or loses a token.                                       *)
(***************************************************************************)

(* A step that moves tokens, if any, between one holder and the pool.      *)
Shifted ==
  \/ UNCHANGED tokens
  \/ \E a \in Holders, n \in Int :
       /\ n <= wallet[a]
       /\ wallet' = [wallet EXCEPT ![a] = wallet[a] - n]
       /\ held' = held + n

(* Such a step conserves the tokens.                                       *)
LEMMA ShiftConserves ==
  ASSUME TypeOK, Conserved, Shifted
  PROVE  Conserved'
  <1>1. wallet \in [Holders -> Nat] /\ held \in Nat  BY DEF TypeOK, Holders
  <1>2. CASE UNCHANGED tokens  BY <1>2 DEF Conserved, tokens
  <1>3. ASSUME NEW a \in Holders, NEW n \in Int, n <= wallet[a],
               wallet' = [wallet EXCEPT ![a] = wallet[a] - n], held' = held + n
        PROVE  Conserved'
    <2> DEFINE v == wallet[a] - n
    <2>1. wallet[a] \in Nat /\ v \in Nat  BY <1>1, <1>3
    <2>2. wallet' = [wallet EXCEPT ![a] = v]  BY <1>3
    <2>3. v = wallet[a] - n  OBVIOUS
    <2> HIDE DEF v
    <2>4. IsFiniteSet(Units(wallet')) /\ Total(wallet') = Total(wallet) + v - wallet[a]
      BY <1>1, <2>1, <2>2, TotalUpdate DEF Conserved
    <2>5. Total(wallet) \in Nat  BY <1>1, EntryBelowTotal DEF Conserved
    <2>6. Total(wallet') + held' = Total(wallet) + held
      BY <1>1, <1>3, <2>1, <2>3, <2>4, <2>5
    <2> QED  BY <2>4, <2>6 DEF Conserved
  <1> QED  BY <1>2, <1>3 DEF Shifted

(* The transfers of the token contract, for amounts that are not negative. *)
LEMMA TransfersShift ==
  ASSUME TypeOK, NEW n \in Nat
  PROVE  /\ \A a \in Accounts : TransferIn(a, n) \/ TransferOut(a, n) => Shifted
         /\ TransferOut(Vault, n) => Shifted
  <1>1. wallet \in [Holders -> Nat] /\ held \in Nat  BY DEF TypeOK, Holders
  <1>2. ASSUME NEW a \in Holders, TransferIn(a, n) PROVE Shifted
    <2>1. /\ n \in Int /\ n <= wallet[a]
          /\ wallet' = [wallet EXCEPT ![a] = wallet[a] - n]
          /\ held' = held + n
      BY <1>2 DEF TransferIn
    <2> QED  BY <2>1 DEF Shifted
  <1>3. ASSUME NEW a \in Holders, TransferOut(a, n) PROVE Shifted
    <2>1. -n \in Int /\ wallet[a] \in Nat  BY <1>1
    <2>2. /\ -n <= wallet[a]
          /\ wallet[a] - (-n) = wallet[a] + n /\ held + (-n) = held - n
      BY <1>1, <2>1
    <2>3. /\ wallet' = [wallet EXCEPT ![a] = wallet[a] - (-n)]
          /\ held' = held + (-n)
      BY <1>3, <2>2 DEF TransferOut
    <2> QED  BY <2>1, <2>2, <2>3 DEF Shifted
  <1> QED  BY <1>2, <1>3 DEF Holders

(* Every call of the pool moves tokens between one holder and the pool.    *)
LEMMA PoolShifts ==
  ASSUME IInv, [Next]_vars
  PROVE  Shifted
  <1> USE DEF IInv
  <1>1. ASSUME NEW tier \in Tier, NEW a \in Accounts, NEW n \in Amounts,
               deposit(tier, a, n) \/ withdraw(tier, a, n)
        PROVE  Shifted
    <2>1. CASE deposit(tier, a, n)
      <3>1. n \in Nat /\ TransferIn(a, n)  BY <2>1, AmountAssumption DEF deposit
      <3> QED  BY <3>1, TransfersShift
    <2>2. CASE withdraw(tier, a, n)
      <3>1. supply[tier] > 0 /\ n \in Nat /\ TransferOut(a, underlying(tier, n))
        BY <2>2, AmountAssumption DEF withdraw
      <3>2. underlying(tier, n) \in Nat  BY <3>1, UnderlyingBounds
      <3> QED  BY <3>1, <3>2, TransfersShift
    <2> QED  BY <1>1, <2>1, <2>2
  <1>2. ASSUME NEW s \in SeasonId, NEW a \in Accounts, NEW n \in Amounts,
               collect_premium(s, a, n) \/ refund_premium(s, a, n)
        PROVE  Shifted
    <2>1. n \in Nat /\ (TransferIn(a, n) \/ TransferOut(a, n))
      BY <1>2, AmountAssumption DEF collect_premium, refund_premium
    <2> QED  BY <2>1, TransfersShift
  <1>3. ASSUME NEW s \in SeasonId, NEW n \in Amounts, pay_out(s, n) PROVE Shifted
    <2>1. n \in Nat /\ TransferOut(Vault, n)  BY <1>3, AmountAssumption DEF pay_out
    <2> QED  BY <2>1, TransfersShift
  <1>4. ASSUME \/ set_policy_contract
               \/ set_payout_vault
               \/ open_season
               \/ \E c \in Configs : create_pool(c)
               \/ \E s \in SeasonId :
                    activate_season(s) \/ close_season(s) \/ settle_season(s)
               \/ UNCHANGED vars
        PROVE  Shifted
    BY <1>4 DEF set_policy_contract, set_payout_vault, open_season, create_pool,
         activate_season, close_season, transition_season, settle_season, vars, Shifted
  <1> QED  BY <1>1, <1>2, <1>3, <1>4 DEF Next

(* A step that leaves the vault's tokens and the payouts booked alone.     *)
Aside == Shifted /\ wallet'[Vault] = wallet[Vault] /\ payouts_paid' = payouts_paid

LEMMA TransfersAside ==
  ASSUME TypeOK, NEW n \in Nat, NEW a \in Accounts, TransferIn(a, n) \/ TransferOut(a, n),
         payouts_paid' = payouts_paid
  PROVE  Aside
  <1>1. Shifted  BY TransfersShift
  <1>2. wallet'[Vault] = wallet[Vault]
    BY VaultAssumption DEF TransferIn, TransferOut, TypeOK
  <1> QED  BY <1>1, <1>2 DEF Aside

(* A call of the policy contract takes a premium from an account, refunds  *)
(* one to an account, or moves no token.                                   *)
LEMMA PolicyAside ==
  ASSUME PolicyIInv, PolicyCall
  PROVE  Aside
  <1>1. IInv /\ PolicyTypeOK /\ TypeOK  BY DEF PolicyIInv, IInv
  <1>2. ASSUME NEW s \in SeasonId, NEW payer \in Accounts,
               NEW entries \in Seq(BatchEntry), mint_all(s, payer, entries)
        PROVE  Aside
    <2> DEFINE premiums == premiumsOf(entries)
               n == Len(entries)
    <2>1. n \in Nat /\ premiums \in [1 .. n -> Nat] /\ collect_premiums(s, payer, premiums)
      BY <1>2, MintSells
    <2> HIDE DEF premiums, n
    <2>2. Total(premiums) \in Nat  BY <2>1, FS_Interval, FiniteLedger
    <2>3. TransferIn(payer, Total(premiums)) /\ payouts_paid' = payouts_paid
      BY <2>1 DEF collect_premiums
    <2> QED  BY <1>1, <2>2, <2>3, TransfersAside
  <1>3. ASSUME NEW s \in SeasonId, NEW a \in Accounts, NEW terms \in Terms,
               NEW max_premium \in MaxPremiums, NEW pointer \in Pointers,
               mint(a, s, terms, max_premium, pointer)
        PROVE  Aside
    <2> DEFINE e == [owner |-> a, terms |-> terms,
                     max_premium |-> max_premium, metadata |-> pointer]
    <2>1. e \in BatchEntry  BY TermsAssumption DEF BatchEntry
    <2>2. mint_all(s, a, <<e>>)  BY <1>3 DEF mint
    <2> HIDE DEF e
    <2>3. <<e>> \in Seq(BatchEntry)  BY <2>1
    <2> QED  BY <1>2, <2>2, <2>3
  <1>4. ASSUME NEW s \in SeasonId, NEW a \in Accounts, NEW entries \in MintLists,
               mint_batch(a, s, entries)
        PROVE  Aside
    BY <1>2, <1>4, TermsAssumption DEF mint_batch
  <1>5. ASSUME NEW id \in 1 .. MaxPolicies, cancel(id) PROVE Aside
    <2>1. policy[id] \in PolicyRecord  BY <1>1, <1>5 DEF cancel, Has, PolicyTypeOK
    <2>2. /\ policy[id].net_reserved \in Nat /\ policy[id].owner \in Accounts
          /\ TransferOut(policy[id].owner, policy[id].net_reserved)
          /\ payouts_paid' = payouts_paid
      BY <1>5, <2>1 DEF PolicyRecord, cancel, refund_due, refund_premium
    <2> QED  BY <1>1, <2>2, TransfersAside
  <1>6. ASSUME UNCHANGED vars PROVE Aside
    BY <1>6 DEF vars, tokens, seasons, Aside, Shifted
  <1> QED
    BY <1>3, <1>4, <1>5, <1>6 DEF PolicyCall, mark_triggered, mark_paid, expire, transition,
       set_metadata, transfer, set_transferable, PolicyTick

(* A batch pulls what it disburses from the pool, or moves no token.       *)
LEMMA BatchShifts ==
  ASSUME VaultIInv, NEW w \in Windows, NEW s \in SeasonId, NEW entries \in Seq(PayoutEntry),
         pay_batch(w, s, entries)
  PROVE  Shifted
  <1>1. disbursed(w, entries) \in Nat  BY BatchPulls
  <1>2. UNCHANGED vars \/ TransferOut(Vault, disbursed(w, entries))
    BY DEF pay_batch, pay_out
  <1>3. UNCHANGED vars => Shifted  BY DEF vars, Shifted
  <1> QED  BY <1>1, <1>2, <1>3, TransfersShift DEF VaultIInv, IInv

(* A claim moves tokens from the vault to an owner.                        *)
LEMMA ClaimConserves ==
  ASSUME VaultIInv, Conserved, NEW o \in Accounts, claim(o)
  PROVE  Conserved'
  <1> DEFINE n == claimable[o]
             x == wallet[Vault] - n
             y == wallet[o] + n
             mid == [wallet EXCEPT ![Vault] = x]
  <1>1. /\ wallet \in [Holders -> Nat] /\ n \in Nat
        /\ Vault \in Holders /\ o \in Holders /\ o # Vault
    BY VaultAssumption DEF VaultIInv, IInv, TypeOK, VaultTypeOK, Holders
  <1>2. /\ n <= wallet[Vault]
        /\ wallet' = [wallet EXCEPT ![Vault] = x, ![o] = y]
        /\ held' = held
    BY <1>1 DEF claim
  <1>3. x \in Nat /\ y \in Nat /\ wallet[Vault] \in Nat /\ wallet[o] \in Nat
    BY <1>1, <1>2
  <1>4. x = wallet[Vault] - n /\ y = wallet[o] + n  OBVIOUS
  <1> HIDE DEF n, x, y
  <1>5. mid \in [Holders -> Nat] /\ mid[o] = wallet[o] /\ wallet' = [mid EXCEPT ![o] = y]
    BY <1>1, <1>2, <1>3
  <1>6. IsFiniteSet(Units(mid)) /\ Total(mid) = Total(wallet) + x - wallet[Vault]
    BY <1>1, <1>3, TotalUpdate DEF Conserved
  <1> HIDE DEF mid
  <1>7. IsFiniteSet(Units(wallet')) /\ Total(wallet') = Total(mid) + y - mid[o]
    BY <1>1, <1>3, <1>5, <1>6, TotalUpdate
  <1>8. Total(wallet) \in Nat  BY <1>1, EntryBelowTotal DEF Conserved
  <1>9. Total(wallet') = Total(wallet)
    BY <1>1, <1>3, <1>4, <1>5, <1>6, <1>7, <1>8
  <1> QED  BY <1>2, <1>7, <1>9 DEF Conserved


-----------------------------------------------------------------------------
(***************************************************************************)
(* Started policies.  A policy is cancelled only before its coverage       *)
(* starts, and the guardian lists it only after that: a listed policy is   *)
(* past cancelling, however long the list is kept.  When windows are       *)
(* finalized plays no part in it.                                          *)
(***************************************************************************)

(* A policy that stands when its window has started.                       *)
Started(id) ==
  /\ id \in DOMAIN policy
  /\ policy[id].state # "Cancelled"
  /\ policy[id].terms.window_start <= now

(* The guardian's list names started policies, however long ago it was     *)
(* assembled.                                                              *)
ListStarted ==
  worklist # NoList =>
    /\ worklist.window \in Windows
    /\ worklist.season \in SeasonId
    /\ worklist.entries \in Seq(PayoutEntry)
    /\ \A k \in DOMAIN worklist.entries : Started(worklist.entries[k].policy_id)

PaidStarted == \A id \in DOMAIN payout : Started(id)

(* Time does not run backwards.                                            *)
LEMMA TimePasses ==
  ASSUME PolicyIInv, [PolicyNext]_policy_vars
  PROVE  now \in Nat /\ now' \in Nat /\ now <= now'
  <1>1. now \in Nat  BY DEF PolicyIInv, PolicyTypeOK
  <1>2. now' = now \/ now' = now + 1
    <2>1. CASE UNCHANGED policy_vars \/ pool_without_refunds
      BY <2>1 DEF pool_without_refunds, policy_vars
    <2>2. ASSUME NEW s, NEW payer, NEW entries, mint_all(s, payer, entries)
          PROVE  now' = now
      BY <2>2 DEF mint_all
    <2>3. CASE PolicyTick  BY <2>3 DEF PolicyTick
    <2>4. CASE PolicyCall /\ ~PolicyTick
      BY <2>2, <2>4 DEF PolicyCall, mint, mint_batch, mark_triggered, mark_paid, expire,
         transition, cancel, set_metadata, transfer, set_transferable
    <2> QED  BY <2>1, <2>3, <2>4 DEF PolicyNext
  <1> QED  BY <1>1, <1>2

(* A started policy stays: it can no longer be cancelled.                  *)
LEMMA StartedStays ==
  ASSUME PolicyIInv, [PolicyNext]_policy_vars, NEW p, Started(p)
  PROVE  Started(p)'
  <1> DEFINE start == policy[p].terms.window_start
  <1>1. /\ p \in DOMAIN policy /\ policy[p].state # "Cancelled" /\ start <= now
        /\ policy[p] \in PolicyRecord
    BY DEF Started, PolicyIInv, PolicyTypeOK
  <1>2. start \in Nat  BY <1>1 DEF PolicyRecord, PolicyTerms
  <1>3. now \in Nat /\ now' \in Nat /\ now <= now'  BY TimePasses
  <1>4. start <= now'  BY <1>1, <1>2, <1>3
  <1>5. ASSUME p \in DOMAIN policy', policy'[p].state # "Cancelled",
               policy'[p].terms = policy[p].terms
        PROVE  Started(p)'
    BY <1>4, <1>5 DEF Started
  <1>6. CASE \A id \in DOMAIN policy : id \in DOMAIN policy' /\ policy'[id] = policy[id]
    BY <1>1, <1>5, <1>6
  <1>7. ASSUME NEW id \in DOMAIN policy, NEW from \in PolicyState, NEW to \in PolicyState,
               to = "Cancelled" => now < policy[id].terms.window_start,
               policy' = [policy EXCEPT ![id] = [policy[id] EXCEPT !.state = to]]
        PROVE  Started(p)'
    <2>1. DOMAIN policy' = DOMAIN policy  BY <1>7
    <2>2. CASE id # p  BY <1>1, <1>5, <1>7, <2>1, <2>2
    <2>3. CASE id = p
      <3>1. to # "Cancelled"  BY <1>1, <1>2, <1>3, <1>7, <2>3
      <3>2. policy'[p] = [policy[p] EXCEPT !.state = to]  BY <1>7, <2>3
      <3>3. policy'[p].state = to /\ policy'[p].terms = policy[p].terms
        BY <1>1, <3>2 DEF PolicyRecord
      <3> QED  BY <1>1, <1>5, <2>1, <3>1, <3>3
    <2> QED  BY <2>2, <2>3
  <1>8. ASSUME NEW id \in DOMAIN policy, NEW a \in Accounts,
               policy' = [policy EXCEPT ![id] = [policy[id] EXCEPT !.owner = a]]
        PROVE  Started(p)'
    <2>1. DOMAIN policy' = DOMAIN policy  BY <1>8
    <2>2. CASE id # p  BY <1>1, <1>5, <1>8, <2>1, <2>2
    <2>3. CASE id = p
      <3>1. policy'[p] = [policy[p] EXCEPT !.owner = a]  BY <1>8, <2>3
      <3>2. policy'[p].state = policy[p].state /\ policy'[p].terms = policy[p].terms
        BY <1>1, <3>1 DEF PolicyRecord
      <3> QED  BY <1>1, <1>5, <2>1, <3>2
    <2> QED  BY <2>2, <2>3
  <1> QED  BY <1>6, <1>7, <1>8, CertificateMoves

-----------------------------------------------------------------------------
(***************************************************************************)
(* The inductive invariant of the composition: the policy contract's, the  *)
(* vault's, and what relates the two.                                      *)
(***************************************************************************)

ProtocolIInv ==
  /\ PolicyIInv
  /\ VaultIInv
  /\ Conserved
  /\ ListStarted
  /\ PaidStarted

LEMMA InitProtocolIInv == ProtocolInit => ProtocolIInv
  <1> SUFFICES ASSUME ProtocolInit PROVE ProtocolIInv  OBVIOUS
  <1>1. PolicyIInv /\ VaultIInv  BY InitPolicyIInv, InitVaultIInv DEF ProtocolInit
  <1>2. Conserved
    <2> DEFINE purse == [a \in Accounts |-> wallet[a]]
    <2>1. /\ wallet = [a \in Holders |-> IF a = Vault THEN 0 ELSE Funds[a]] /\ held = 0
          /\ wallet \in [Holders -> Nat]
      BY <1>1 DEF ProtocolInit, PolicyInit, Init, Holders, PolicyIInv, IInv, TypeOK
    <2>2. purse = Funds  BY <2>1, VaultAssumption, FundsAssumption DEF Holders
    <2>3. Accounts \subseteq Holders /\ \A a \in Holders : a \notin Accounts => wallet[a] = 0
      BY <2>1 DEF Holders
    <2>4. Units(purse) = Units(wallet) /\ Total(purse) = Total(wallet)
      BY <2>1, <2>3, TotalRestricted
    <2>5. Total(Funds) \in Nat
      BY FundsAssumption, SupplyAssumption, FS_CardinalityType DEF Total
    <2> HIDE DEF purse
    <2> QED  BY <2>1, <2>2, <2>4, <2>5, SupplyAssumption DEF Conserved
  <1>3. DOMAIN policy = {} /\ DOMAIN payout = {}
    BY DEF ProtocolInit, PolicyInit, VaultInit, Empty
  <1>4. worklist = NoList  BY DEF ProtocolInit
  <1> QED
    BY <1>1, <1>2, <1>3, <1>4 DEF ProtocolIInv, ListStarted, PaidStarted

(* A step of the policy contract that takes nothing from the vault: every  *)
(* part of the invariant follows from the parts it moves.                  *)
LEMMA PolicySideIInv ==
  ASSUME ProtocolIInv, [PolicyNext]_policy_vars, PolicyIInv', VaultIInv', Shifted,
         UNCHANGED <<decision, vault, worklist>>
  PROVE  ProtocolIInv'
  <1> USE DEF ProtocolIInv
  <1>1. Conserved'  BY ShiftConserves DEF PolicyIInv, IInv
  <1>2. \A p : Started(p) => Started(p)'  BY StartedStays
  <1>3. ListStarted'  BY <1>2 DEF ListStarted
  <1>4. payout' = payout  BY DEF vault, ledger
  <1>5. PaidStarted'  BY <1>2, <1>4 DEF PaidStarted
  <1> QED  BY <1>1, <1>3, <1>5

(* A call of the pool.                                                     *)
LEMMA PoolAloneIInv == ProtocolIInv /\ pool_alone => ProtocolIInv'
  <1> SUFFICES ASSUME ProtocolIInv, pool_alone PROVE ProtocolIInv'  OBVIOUS
  <1>1. PolicyIInv /\ VaultIInv /\ IInv  BY DEF ProtocolIInv, PolicyIInv
  <1>2. [PolicyNext]_policy_vars  BY DEF pool_alone, PolicyNext
  <1>3. PolicyIInv'  BY <1>1, <1>2, PolicyIInvStep
  <1>4. VaultIInv'
    <2>1. pool_call  BY DEF pool_alone, pool_without_refunds, pool_call
    <2> QED  BY <1>1, <2>1, PoolCallVaultIInv
  <1>5. Shifted  BY <1>1, PoolShifts DEF pool_alone, pool_without_refunds
  <1>6. UNCHANGED <<decision, vault, worklist>>  BY DEF pool_alone
  <1> QED  BY <1>2, <1>3, <1>4, <1>5, <1>6, PolicySideIInv

(* A call of the policy contract, and time.                                *)
LEMMA PolicySideCallIInv == ProtocolIInv /\ policy_call => ProtocolIInv'
  <1> SUFFICES ASSUME ProtocolIInv, policy_call PROVE ProtocolIInv'  OBVIOUS
  <1>1. PolicyIInv /\ VaultIInv  BY DEF ProtocolIInv
  <1>2. PolicyCall /\ UNCHANGED <<decision, vault, worklist>>  BY DEF policy_call
  <1>3. PolicyIInv' /\ [PolicyNext]_policy_vars  BY <1>1, <1>2, PolicyCallIInv DEF PolicyNext
  <1>4. Aside  BY <1>1, <1>2, PolicyAside
  <1>5. VaultIInv'
    <2>1. UNCHANGED <<decision, vault, payouts_paid>> /\ wallet'[Vault] = wallet[Vault]
      BY <1>2, <1>4 DEF Aside
    <2> QED  BY <1>1, <1>3, <2>1, VaultFrame DEF PolicyIInv
  <1> QED  BY <1>2, <1>3, <1>4, <1>5, PolicySideIInv DEF Aside

(* A step that sells, moves and cancels no policy keeps what is about      *)
(* policies and their seasons.                                             *)
LEMMA VaultSideIInv ==
  ASSUME ProtocolIInv, IInv', UNCHANGED <<certificates, now>>, premiums_in' = premiums_in
  PROVE  /\ PolicyIInv'
         /\ \A p : Started(p)' <=> Started(p)
  <1>1. PolicyIInv'
    <2>1. now' \in 0 .. MaxTime  BY DEF ProtocolIInv, PolicyIInv, PolicyTypeOK
    <2>2. \A s \in SeasonId : premiums_in'[s] >= premiums_in[s]
      BY DEF ProtocolIInv, PolicyIInv, IInv, TypeOK
    <2> QED  BY <2>1, <2>2, CertificatesFrame DEF ProtocolIInv
  <1>2. policy' = policy  BY DEF certificates
  <1> QED  BY <1>1, <1>2 DEF Started

(* A window may be decided at any time.                                    *)
LEMMA FinalizeIInv ==
  ASSUME ProtocolIInv, NEW w \in Windows, NEW severity \in 0 .. BPS_DENOMINATOR,
         finalize(w, severity)
  PROVE  ProtocolIInv'
  <1> USE DEF ProtocolIInv
  <1>1. UNCHANGED vars /\ UNCHANGED <<vault, certificates, now, worklist>>
    BY DEF finalize, finalize_window
  <1>2. VaultIInv'  BY FinalizeVaultIInv DEF finalize
  <1>3. premiums_in' = premiums_in /\ UNCHANGED tokens  BY <1>1 DEF vars, seasons
  <1>4. PolicyIInv' /\ \A p : Started(p)' <=> Started(p)
    BY <1>1, <1>2, <1>3, VaultSideIInv DEF VaultIInv
  <1>5. Conserved'  BY <1>3 DEF Conserved, tokens
  <1>6. ListStarted'  BY <1>1, <1>4 DEF ListStarted
  <1>7. payout' = payout  BY <1>1 DEF vault, ledger
  <1>8. PaidStarted'  BY <1>4, <1>7 DEF PaidStarted
  <1> QED  BY <1>2, <1>4, <1>5, <1>6, <1>8

(* The guardian lists policies only that stand and have started.           *)
LEMMA AssembleIInv ==
  ASSUME ProtocolIInv, NEW w \in Windows, NEW s \in SeasonId, assemble(w, s)
  PROVE  ProtocolIInv'
  <1> USE DEF ProtocolIInv
  <1>1. UNCHANGED <<vars, certificates, now, decision, vault>>
    BY DEF assemble
  <1>2. PICK n \in 1 .. MAX_BATCH : \E order \in [1 .. n -> due(w, s)] :
          worklist' = [window |-> w, season |-> s,
                       entries |-> [k \in 1 .. n |-> entry_of(order[k])]]
    BY DEF assemble
  <1>3. PICK order \in [1 .. n -> due(w, s)] :
          worklist' = [window |-> w, season |-> s,
                       entries |-> [k \in 1 .. n |-> entry_of(order[k])]]
    BY <1>2
  <1>4. ASSUME NEW id \in due(w, s)
        PROVE  entry_of(id) \in PayoutEntry /\ entry_of(id).policy_id = id /\ Started(id)
    <2>1. /\ id \in DOMAIN policy /\ policy[id] \in PolicyRecord
          /\ id \in 1 .. MaxPolicies
      BY PolicyBoundAssumption DEF due, PolicyIInv, PolicyTypeOK
    <2>2. entry_of(id) \in PayoutEntry /\ entry_of(id).policy_id = id
      BY <2>1, WindowAssumption DEF entry_of, PayoutEntry, PolicyRecord, PolicyTerms
    <2>3. Started(id)  BY DEF due, Started
    <2> QED  BY <2>2, <2>3
  <1> DEFINE l == [k \in 1 .. n |-> entry_of(order[k])]
  <1>5. n \in Nat /\ \A k \in 1 .. n : order[k] \in due(w, s)
    BY <1>3, EntryAssumption
  <1>6. \A k \in 1 .. n : l[k] \in PayoutEntry /\ Started(l[k].policy_id)  BY <1>4, <1>5
  <1>7. DOMAIN l = 1 .. n /\ l = [k \in 1 .. n |-> l[k]]  OBVIOUS
  <1>8. worklist'.window = w /\ worklist'.season = s /\ worklist'.entries = l  BY <1>3
  <1> HIDE DEF l
  <1>9. l \in [1 .. n -> PayoutEntry]  BY <1>6, <1>7
  <1>10. l \in Seq(PayoutEntry)  BY <1>5, <1>9, SeqDef
  <1>11. IInv' /\ VaultIInv'
    <2>1. pool_call \/ UNCHANGED vault_vars  BY <1>1 DEF vault_vars
    <2>2. VaultIInv'  BY <1>1, <2>1, VaultIInvStep DEF vault_vars
    <2> QED  BY <2>2 DEF VaultIInv
  <1>12. premiums_in' = premiums_in /\ UNCHANGED tokens  BY <1>1 DEF vars, seasons
  <1>13. PolicyIInv' /\ \A p : Started(p)' <=> Started(p)
    BY <1>1, <1>11, <1>12, VaultSideIInv
  <1>14. ListStarted'  BY <1>6, <1>7, <1>8, <1>10, <1>13 DEF ListStarted
  <1>15. Conserved'  BY <1>1, <1>12 DEF Conserved, tokens
  <1>16. payout' = payout  BY <1>1 DEF vault, ledger
  <1>17. PaidStarted'  BY <1>13, <1>16 DEF PaidStarted
  <1> QED  BY <1>11, <1>13, <1>14, <1>15, <1>17

(* A batch pays policies of the list only, and all of them started.        *)
LEMMA SubmitIInv == ProtocolIInv /\ submit => ProtocolIInv'
  <1> SUFFICES ASSUME ProtocolIInv, submit PROVE ProtocolIInv'  OBVIOUS
  <1> USE DEF ProtocolIInv
  <1> DEFINE w == worklist.window
             s == worklist.season
             l == worklist.entries
  <1>1. /\ w \in Windows /\ s \in SeasonId /\ l \in Seq(PayoutEntry)
        /\ \A k \in DOMAIN l : Started(l[k].policy_id)
    BY DEF submit, ListStarted
  <1>2. pay_batch(w, s, l) /\ UNCHANGED <<certificates, now, worklist>>  BY DEF submit
  <1>3. worklist' = worklist  BY <1>2
  <1> HIDE DEF w, s, l
  <1>4. VaultIInv' /\ IInv'  BY <1>1, <1>2, BatchVaultIInv DEF VaultIInv
  <1>5. premiums_in' = premiums_in
    BY <1>2 DEF pay_batch, pay_out, vars, seasons
  <1>6. PolicyIInv' /\ \A p : Started(p)' <=> Started(p)
    BY <1>2, <1>4, <1>5, VaultSideIInv
  <1>7. Conserved'
    <2>1. Shifted  BY <1>1, <1>2, BatchShifts
    <2> QED  BY <2>1, ShiftConserves DEF PolicyIInv, IInv
  <1>8. ListStarted'  BY <1>3, <1>6 DEF ListStarted
  <1>9. PaidStarted'
    <2>1. DOMAIN payout' = DOMAIN payout \cup newly(w, l)
      BY <1>1, <1>2, BatchRecords DEF VaultIInv
    <2>2. \A p \in newly(w, l) : Started(p)
      BY <1>1 DEF newly, named, paying, processed
    <2> QED  BY <1>6, <2>1, <2>2 DEF PaidStarted
  <1> QED  BY <1>4, <1>6, <1>7, <1>8, <1>9

(* The other calls of the vault record no payout.                          *)
LEMMA VaultCallIInv == ProtocolIInv /\ vault_call => ProtocolIInv'
  <1> SUFFICES ASSUME ProtocolIInv, vault_call PROVE ProtocolIInv'  OBVIOUS
  <1> USE DEF ProtocolIInv
  <1>1. UNCHANGED <<certificates, now, worklist>>  BY DEF vault_call
  <1>2. VaultIInv' /\ IInv'
    <2>1. VaultNext  BY DEF vault_call, VaultNext
    <2> QED  BY <2>1, VaultIInvStep DEF VaultIInv
  <1>3. /\ premiums_in' = premiums_in /\ payout' = payout
        /\ UNCHANGED tokens \/ \E o \in Accounts : claim(o)
    BY DEF vault_call, pause, unpause, set_paused, close_batch, claim, vars, seasons, ledger
  <1>4. PolicyIInv' /\ \A p : Started(p)' <=> Started(p)
    BY <1>1, <1>2, <1>3, VaultSideIInv
  <1>5. Conserved'
    <2>1. CASE UNCHANGED tokens  BY <2>1 DEF Conserved, tokens
    <2>2. CASE \E o \in Accounts : claim(o)  BY <2>2, ClaimConserves
    <2> QED  BY <1>3, <2>1, <2>2
  <1>6. ListStarted' /\ PaidStarted'  BY <1>1, <1>3, <1>4 DEF ListStarted, PaidStarted
  <1> QED  BY <1>2, <1>4, <1>5, <1>6

(* Every step preserves the invariant.                                     *)
LEMMA ProtocolIInvStep == ProtocolIInv /\ [ProtocolNext]_protocol_vars => ProtocolIInv'
  <1> SUFFICES ASSUME ProtocolIInv, [ProtocolNext]_protocol_vars PROVE ProtocolIInv'
    OBVIOUS
  <1>1. CASE UNCHANGED protocol_vars
    <2>1. /\ UNCHANGED policy_vars /\ UNCHANGED vault_vars
          /\ UNCHANGED vars /\ UNCHANGED <<decision, vault, worklist>>
      BY <1>1 DEF protocol_vars, policy_vars, vault_vars
    <2>2. PolicyIInv' /\ VaultIInv'
      BY <2>1, PolicyIInvStep, VaultIInvStep DEF ProtocolIInv
    <2>3. Shifted  BY <2>1 DEF vars, Shifted
    <2> QED  BY <2>1, <2>2, <2>3, PolicySideIInv
  <1> QED
    BY <1>1, PoolAloneIInv, PolicySideCallIInv, FinalizeIInv, AssembleIInv, SubmitIInv,
       VaultCallIInv DEF ProtocolNext

(* The invariant holds in every reachable state.                           *)
LEMMA ProtocolInvariance == ProtocolSpec => []ProtocolIInv
  BY InitProtocolIInv, ProtocolIInvStep, PTL DEF ProtocolSpec

-----------------------------------------------------------------------------
(* Refund or payout: no policy is both cancelled against a refund (cancel) *)
(* and paid (pay_batch), whatever happens between the guardian's reading   *)
(* of the policies and the submission of the list, whatever terms they     *)
(* were sold on and whenever windows are finalized.  It rests on the       *)
(* guardian listing only policies whose coverage has started (due): the    *)
(* contracts alone do not promise it.                                      *)
THEOREM RefundOrPayoutHolds == ProtocolSpec => []RefundOrPayout
  <1>1. ProtocolIInv => RefundOrPayout
    BY DEF ProtocolIInv, PaidStarted, Started, RefundOrPayout
  <1> QED  BY <1>1, ProtocolInvariance, PTL

(* Every token has one owner on the books, through every transfer of every *)
(* contract (deposit, withdraw, collect_premium, refund_premium, pay_out,  *)
(* claim): what left the wallets is claimable, reserved or a fee.          *)
THEOREM EveryTokenBookedHolds == ProtocolSpec => []EveryTokenBooked
  <1>1. ASSUME ProtocolIInv PROVE EveryTokenBooked
    <2> DEFINE purse == [a \in Accounts |-> wallet[a]]
    <2>1. /\ wallet \in [Holders -> Nat] /\ Conserved /\ ClaimsBacked
          /\ held = reserves + protocol_fees + publisher_fees
          /\ reserves \in Nat /\ protocol_fees \in Nat /\ publisher_fees \in Nat
      BY <1>1 DEF ProtocolIInv, VaultIInv, Backed, IInv, TypeOK, Custody, Holders
    <2>2. Holders \ {Vault} = Accounts /\ Vault \in Holders  BY VaultAssumption DEF Holders
    <2>3. Total(purse) \in Nat /\ Total(wallet) = Total(purse) + wallet[Vault]
      BY <2>1, <2>2, TotalWithout DEF Conserved
    <2> HIDE DEF purse
    <2>4. wallet[Vault] = Total(claimable) /\ wallet[Vault] \in Nat
      BY <2>1, <2>2 DEF ClaimsBacked
    <2>5. Total(Funds) = Total(purse) + Total(claimable)
                           + reserves + protocol_fees + publisher_fees
      BY <2>1, <2>3, <2>4 DEF Conserved
    <2> QED  BY <2>5 DEF EveryTokenBooked, purse
  <1> QED  BY <1>1, ProtocolInvariance, PTL

=============================================================================
