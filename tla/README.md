# Mvua contracts: TLA+ models, model checking and proofs

Mvua sells parametric weather insurance on Soroban. Liquidity providers fund a
pool, farmers buy policies for a season, publishers sign weather observations,
an index over the median of those observations decides whether a window pays and
how much, and a vault pays the policies out of the pool. This directory holds the
TLA+ models of the contracts, the TLC configurations that check them on small
instances, and the TLAPS proofs of the results that matter most.

## 1. The system

Every contract keeps its own storage. A public function is one transaction step:
the host runs it alone, an `Err`, a trap or a failed call into another contract
reverts everything it did. Concurrency is the order in which transactions of
different actors (guardian, providers, farmers, publishers, anybody) reach the
ledger, and time that passes between them.

| Component | State | Operations that change it | What makes it correct |
|---|---|---|---|
| `risk-pool` | configuration, tranche capital and supply, receipts, reserves and committed, treasury, seasons, tokens held | wiring, `create_pool`, `deposit`, `withdraw`, season lifecycle, `collect_premium`, `refund_premium`, `pay_out`, `settle_season` | tokens = reserves + treasury; reserves = capital + open results; shares exact, never diluted; junior loses before senior; fee caps |
| `oracle-adapter` | publishers, pending changes, ring of observations, cursor, challenge flags | propose / execute / cancel a publisher, `submit`, `challenge`, `unchallenge` (reads: `median`) | the registry changes only behind the timelock; the median is one of exactly the latest, fresh, unflagged observations |
| `trigger-engine` | index definitions, accumulator, cursor and trigger state per window | `create_index`, `set_oracle`, `record_day`, `record_day_from_oracle`, `evaluate`, `finalize` (reads: `payout_for`) | the accumulator is the reduction of the series; triggers rest on complete data, are irreversible and wait for the challenge window; severity is monotone |
| `payout-vault` | pause flag, payout records, claim ledger, batch progress | `pause`, `unpause`, `pay_batch`, `close_batch`, `claim` | every policy paid at most once, claims backed by tokens, retries idempotent |
| `policy` | policy records, counter, transferability | `mint`, `mint_batch`, `mark_triggered`, `mark_paid`, `expire`, `cancel`, `set_metadata`, `set_transferable`, `transfer` | premium before policy, one refund per cancellation, lifecycle |
| `common` | none | `apply_bps`, TTL helpers | checked arithmetic |

Interactions: `policy` calls `risk-pool` (`premium_for`, `collect_premium`,
`refund_premium`); `payout-vault` calls `trigger-engine.payout_for` and
`risk-pool.pay_out`; `trigger-engine` calls `oracle-adapter.median`. `risk-pool`
accepts refunds only from the configured policy contract and payouts only from
the configured vault. The trigger state, the policy state and the payout records
are tied together only by the guardian, who reads one contract, decides off chain
and calls another one later.

What is hard here: overlapping seasons that pay each other's claims before they
are settled; rounding in share prices after gains and losses; a ring that wraps
under challenge flags keyed by slot; registry changes that sit in a queue for a
week; a series that is never stored, only folded; two reads of the same data a
challenge window apart; retries of partly done payout batches; fees that reach
their cap in the middle of a batch of sales; a guardian's list that is older than a
cancellation; payouts that arrive only when somebody pushes them. `PROJECT.json`
lists these hazards at their lines with the properties that cover them.

## 2. Modules

| Module | Models | Kind |
|---|---|---|
| `Common` | basis points and checked i128 arithmetic | constants, operators |
| `Storage` | persistent storage as a map with absent keys (external) | operators |
| `Clock` | ledger time, which composed contracts share (external) | state, one step |
| `Totals`, `TotalsProofs` | the sum of a ledger, and lemmas about it | operators, lemmas |
| `RiskPool` | `risk-pool`, one pool | state machine |
| `OracleAdapter` | `oracle-adapter`, one feed and the registry | state machine |
| `IndexSeries` | what an index says of a whole series of readings | reference operators |
| `IndexDecision` | a window decided once, on its complete log | abstract specification |
| `TriggerEngine` | `trigger-engine`; implements `IndexDecision` | state machine |
| `IndexFeed` | `OracleAdapter` and `TriggerEngine` with one clock | composition |
| `ClaimLedger` | one-time settlements, collected whole | abstract specification |
| `PayoutVault` | `payout-vault` over `RiskPool`; implements `ClaimLedger` | state machine |
| `Policy` | `policy` over `RiskPool`, with the premium quote | state machine |
| `Protocol` | `Policy` and `PayoutVault` over one `RiskPool`, and the guardian | composition |
| `RiskPoolProofs`, `OracleAdapterProofs`, `TriggerEngineProofs`, `PayoutVaultProofs`, `PolicyProofs`, `ProtocolProofs`, `IndexFeedProofs` | the theorems of each of these | proofs |
| `MCRiskPool`, `MCOracleAdapter`, `MCTriggerEngine`, `MCIndexFeed`, `MCPayoutVault`, `MCPolicy`, `MCProtocol` | instances of the above | TLC |

Conventions. One action per public function, named as in the source; a call that
returns an error is a disabled action, because it reverts. Checked arithmetic is a
guard `Fits(...)`. A definition called `x_something` and commented "Mutated form
of x" is a plausible bug in `x`; no action uses it, and `PROJECT.json` names the
property that finds it. Variables marked *history* are not in the code; they
record what the properties relate the state to and guard nothing.

**RiskPool.** One pool: no function touches two, and only the wiring is shared.
`held` and `wallet` are the token contract's balances; a transfer moves an amount
or disables the action. `unabsorbed` is a history of losses that `absorb_loss`
drops when both tranches are empty. Authorization is not modelled as a guard:
every actor who may call a function may call it at any time. `opened_at`,
`closes_at` and `payouts_committed` are written and never read and are left out.
`committed` is kept and tested as in the code although no function writes it.

**OracleAdapter.** One feed (region, metric) and the shared registry. Signatures
are external: whoever has a signed observation can send it, any number of times.
`median` is an operator (`median_defined` says when the call returns a value): the
values of the valid slots, sorted by insertion (`InsertSorted` shifts what is greater
up a place), and the middle one or the mean of the two middle ones.

**TriggerEngine.** Windows are pairs of an index and a window id. The oracle's
answer is an input (`Medians`), or the call traps and nothing happens. `series` is
a history of the days folded; `IndexSeries` computes from it, without accumulator
and without division, what the formulas of the engine must give.

**IndexFeed.** Extends adapter and engine, which read one clock:
`record_from_feed` is the engine's `record_day_from_oracle` with the adapter's
median of that moment. The registry is fixed here; its changes are in
`OracleAdapter`. `evidence` is a history of the observations behind each reading.

**PayoutVault.** Extends `RiskPool`: the pool is a whole state machine and
`pay_batch` calls its `pay_out`. The entries of a batch are any the guardian may
assert. `processed`, `paying`, `credit` and `disbursed` say what the loop over the
entries does: which entries it skips for a record of an earlier call or of an
earlier entry, which it skips because their share rounds down to nothing, and what
it pulls and credits for the rest; one invalid entry reverts the call. The loop's
releases are one release of their sum, which succeeds exactly when they do. Of the
trigger-engine the vault sees the severity of finalized windows (`decision`).

**Policy.** Extends `RiskPool`: `mint` and `mint_batch` are one operator,
`mint_all`, over a list of one or many entries, with the premium of each entry
collected in turn, so that fee caps fill up within the list (`accrued`, `nets`).
`cancel` calls the pool's `refund_premium`, and nobody else does.

**Protocol.** `Policy` and `PayoutVault` over the same pool. The guardian
assembles a list from the policy records of a finalized window (`assemble`) and
submits it at any later moment, or again (`submit`); in between everything else may
happen. The link between a policy and a window is only the guardian's: buyers name
any index and any `window_start` (`mint_one` checks neither), an index has many
windows, `finalize` may come at any time, and the vault pays whatever list it is
given. So it is a filter of the guardian's action (`due`): a policy is listed if it
is on the window's index, stands, and its coverage has started at the moment of
listing. The repository states no such rule; `RefundOrPayout` shows what it buys.

## 3. Runs

| Run | Instance | Checks |
|---|---|---|
| `pool_seasons` | two accounts with 2 units each, two seasons, amounts -1..3, six configurations, scale 4, i128 range 9 | `TypeOK`, `Custody`, `FeeCaps`, `Backing`, `ReceiptsMatchSupply`, `NoOrphanSeniorCapital`, `JuniorFirst`, `ResidualOnlyFromOverlap`, `WipedSeniorStays`, `NoDilution` |
| `oracle_feed` | two publishers, ring of 3 and four submissions so that it wraps, values -1, 0, 2, time 0..2, staleness and timelock 1, i128 range 3 | `OracleTypeOK`, `PendingMatchesRegistry`, `RingHoldsLatest`, `FlagFollowsObservation`, `MinorityIsBounded`, `MedianIsCentral`, `FlipsAreSpaced` |
| `trigger_series` | one window of 2 to 4 days out of days 0..4, values -1..2, seven definitions, with fairness | `TypeOK`, `AccumulatorIsReduction`, `SettledOnCompleteData`, `WorseNeverPaysLess`, `BreachIsSettled` |
| `trigger_lifecycle` | two definitions with a window each, time 0..2, challenge window 1, four invalid parameter sets among seven | `ChallengeWindowKept`, `FrozenOnceTriggered`, `ImplementsDecision` |
| `feed_minority` | two honest publishers and a liar, ring of 3, a window of two days, time 0..1 | `LiarsOutvoted` |
| `vault_batches` | two policies, two windows, two owners, batches of one or two entries, severities nothing, half and all, with fairness | `VaultTypeOK`, `ClaimsBacked`, `PaidOnFinalized`, `BooksAgree`, `ImplementsLedger`, `ClaimsArrive` |
| `policy_certificates` | two farmers, two certificates, sold singly or in batches, time 0..2, fees that clamp and fees that take all | `PolicyTypeOK`, `FeeCaps`, `PremiumBeforePolicy`, `RefundsFunded`, `PremiumIsLeast`, `CertificateFrozen` |
| `protocol_season` | a provider and a farmer, one season, two policies that start at time 1 or 2, one window, time 0..1 | `RefundOrPayout`, `EveryTokenBooked` |
| `oracle_replay`, `oracle_alone` | two publishers, ring of 3, values 0..2 | `NoDuplicates`, `NotSetAlone`, violated |
| `trigger_gaps` | as `trigger_series` | `DryRunIsConsecutive`, violated |
| `protocol_withdraw` | as `protocol_season`, with premiums of half the coverage | `WithdrawalsLeaveWhatIsOwed`, violated |

What the runs say, one question each: do the pool's books survive any order of
deposits, seasons, payouts and settlements; is the median one of exactly the right
observations while the registry changes; does folding day by day with a late
decision amount to one decision on the whole log (`ImplementsDecision`) with the
right severity; can a minority of publishers move a payout through a ring read at
an arbitrary moment; does a vault with batches, retries and pauses amount to a
ledger of one-time settlements (`ImplementsLedger`); is every certificate backed by
its premium; and do the contracts stay consistent when the guardian acts on old
readings, listing only policies whose coverage has started.

Why the bounds are enough. Two seasons are needed and suffice for one to spend
the other's premium; one surplus and one loss give fractional share prices, and
two holders show dilution of one by the other. Amounts include a negative one and
zero, so the early returns are exercised. The i128 range is chosen small enough
that checked operations fail in some states. The ring wraps, an overwritten slot
carries a flag, and both even and odd numbers of observations have a median; the
sum of two middle values overflows in some states, and observations become stale.
Dry runs are broken and start again within a window, and the sums lie before, on
and after both ends of the ramp. In the feed the liar may hold none, one or two of
the observations that count, and its lowest value alone would exhaust the index.
Two policies and two windows are needed and suffice for a retry that pays one and
skips the other, for a policy named twice in a batch or in two windows, for the
same owner or another, and for a share that rounds down to nothing. Two
certificates suffice for a fee cap that is reached by the first and clamps the
second, and for one being refunded while the other stands. In the composed model
the window may be finalized before any policy of its index has started, one policy
starts within the instance's time and may be cancelled until then or listed, paid,
retried or transferred from then on, and one that starts beyond it may be cancelled
all along. In these two instances a cap keeps deposits in
the junior tranche; the split between the tranches is `pool_seasons`' subject.
Accounts and publishers are interchangeable where nothing tells them apart, and
symmetry is used there, except in the runs that check liveness.

Deadlock is checked in every run but `pool_seasons`, where with all funds spent and
the seasons settled nothing is left to do.

Fairness. Nothing in the contracts schedules a call, so most properties assume
none. Two liveness properties rest on the callers the system is built around.
`BreachIsSettled` (`FairSpec`): time passes, and somebody keeps calling `evaluate`,
which is permissionless, and the guardian `finalize`, as
`scripts/testnet/season.sh` does in turn; then a complete breached window is
finalized, unless its challenge window ends beyond the instance's time. Weak fairness is enough, because a window that can be evaluated stays so
until it is. `ClaimsArrive` (`VaultFairSpec`): `claim` needs no signature of the
owner and no permission, and somebody keeps calling it for each owner; then every
recorded payout is collected, through pauses and whatever happens to the pool.

Refinements. `TriggerEngine` implements `IndexDecision` with the series as the log
and the severity of a Finalized window as its outcome: days arrive once, in order
and only before the decision, and the one decision is what the whole log deserves.
`PayoutVault` implements `ClaimLedger` with the payout records as settlements and
the claims as what is due: a record is never changed or repeated, credits are the
new records' amounts and a claim is collected whole.

### Where the code and its documents differ

With a run:

* `oracle_replay`: THREAT-MODEL T-9 promises de-duplication on (publisher,
  timestamp); `submit` has none, and an observation sent twice counts twice.
* `oracle_alone`: the comment on `MIN_PUBLISHERS` says one publisher can never set
  the index alone; with two of three observations it does. `MinorityIsBounded`
  and `LiarsOutvoted` are what holds: a publisher with less than half of the valid
  observations moves neither the median out of the range of the others nor the
  severity.
* `trigger_gaps`: INDEX-SPEC section 5 speaks of consecutive dry days; `fold_day`
  accepts any later day, so a run may span days that were never recorded.
* `protocol_withdraw`: THREAT-MODEL T-1 and ARCHITECTURE section 9, invariant 1,
  say withdrawals are blocked when they would underfund payouts that are due;
  `committed` is never raised, and a provider withdraws what a finalized window
  still owes.

Met while modelling, and readable off one guard, so without a run of their own:

* `pay_out` accepts a closed season (`risk-pool/src/lib.rs:841`); the comment on
  `SeasonState::Closed` (line 111) says no new payouts.
* Nothing looks at an observation's flag after its day was folded
  (`trigger-engine/src/lib.rs:374`); the comment on the challenge window (lines
  26-27) and THREAT-MODEL T-7 say a bad evaluation can be disputed in it.
* `record_day_from_oracle` folds the median of now into the day it is told
  (`trigger-engine/src/lib.rs:286`); INDEX-SPEC section 3 (line 30) asks for an
  observation near the day.
* `pay_batch` is rejected while paused (`payout-vault/src/lib.rs:212`);
  THREAT-MODEL T-14 says a finalized trigger always pays. Claims do go through.
* `close_batch` looks at nothing (`payout-vault/src/lib.rs:291`); ARCHITECTURE
  section 9, invariant 2, says complete means paid.
* A refund needs an Open or Active season (`risk-pool/src/lib.rs:778`), and the
  season may be closed before the window opens; the README of the repository (line
  107) lets the owner cancel until then.
* Nothing on chain keeps a policy from being both paid and refunded: the vault pays
  by the guardian's list without reading the policy (`payout-vault/src/lib.rs:233`),
  `finalize` compares with the challenge window only (`trigger-engine/src/lib.rs:365`),
  and a cancellation only needs the policy Active before its own `window_start`
  (`policy/src/lib.rs:357-362`), which the buyer chose. If the guardian lists a policy
  by its index alone, a buyer with a far `window_start` is paid, cancels while the
  guardian has not yet marked the policy, and has both; or cancels between the listing
  and the submission. No document of the repository speaks of it. Dropping the last
  conjunct of `due` makes TLC report `RefundOrPayout` violated in `protocol_season` by
  the first of these behaviours; with it the property is a theorem.
* `transfer` and `expire` look at the certificate only
  (`policy/src/lib.rs:436` and `346`), so a policy that was paid and not yet marked
  can change hands or expire; the comment on `transfer` (lines 428-429) and the
  lifecycle in the README (line 106) exclude it.
* `create_index` has no timelock (comment on the constructor), `closes_at` is not
  enforced, and a window whose dry run equals the trigger fires with severity zero.

## 4. Proofs

Every safety invariant and action property of the passing runs is a theorem, and
so are the two refinements, for every value of the constants that the named assumptions of the
modules allow: any accounts, publishers, windows and seasons, any amounts, scales
and ranges, lists of any length, rings of any size.

| Module | Theorem | Says |
|---|---|---|
| `RiskPoolProofs` | `TypeCorrect` | no amount ever becomes negative |
| | `CustodyHolds` | tokens held = reserves + treasury |
| | `FeeCapsHold` | fees never pass their caps |
| | `BackingHolds` | the books balance |
| | `ReceiptsHold` | receipts add up to the supply |
| | `NoOrphanHolds` | senior capital has owners |
| | `NoDilutionHolds` | deposits and withdrawals do not take from other holders |
| | `JuniorFirstHolds`, `WipedSeniorHolds`, `ResidualHolds` | the loss waterfall |
| `OracleAdapterProofs` | `OracleTypeCorrect` | nothing leaves its range, no negative value is stored |
| | `PendingMatches`, `FlipsSpaced` | a queued change changes something; changes lie a timelock apart |
| | `RingHolds`, `FlagFollows` | the ring holds the latest submissions, and a flag its own |
| | `MedianCentral` | sort and middle give a median of the right observations |
| | `MinorityBounded` | a minority cannot move the median out of the others' range |
| `TriggerEngineProofs` | `TypeCorrect` | definitions stay valid |
| | `ReductionHolds` | the accumulator is the reduction of the whole log |
| | `SettledHolds` | severities are what complete logs deserve |
| | `ChallengeWindowHolds`, `FrozenHolds` | the wait before finality, and what may not move in it |
| | `WorsePaysNoLess` | payouts are monotone and at most the coverage |
| | `DecisionImplemented` | the engine implements `IndexDecision` |
| `IndexFeedProofs` | `LiarsOutvotedHolds` | outvoted liars move no severity past the honest readings |
| `PayoutVaultProofs` | `VaultTypeCorrect` | records are positive |
| | `ClaimsBackedHolds` | the vault holds what it owes |
| | `PaidOnFinalizedHolds`, `BooksAgreeHolds` | records rest on decisions and agree with batches and seasons |
| | `LedgerImplemented` | the vault implements `ClaimLedger` |
| `PolicyProofs` | `PolicyTypeCorrect` | certificates are well formed |
| | `PremiumBeforePolicyHolds`, `RefundsFundedHolds` | a season collected what its certificates reserve, and the pool has it |
| | `PremiumIsLeastHolds` | the premium is exact and monotone |
| | `CertificateFrozenHolds` | the life of a certificate |
| `ProtocolProofs` | `RefundOrPayoutHolds` | nobody is refunded and paid, if the guardian lists only policies whose coverage has started |
| | `EveryTokenBookedHolds` | every token has one owner on the books |

### The arguments

*Sums.* Totals over accounts, seasons and certificates are cardinalities of sets of
units (`Totals`). How they change is then a matter of finite sets:
`TotalsProofs` has a lemma for overwriting, adding, joining, restricting and
renaming entries, for grouping them by owner, and for the increments of a running
sum (`Telescope`). The module ends in `Climb`, induction over `0 .. n` for a given
set, from the well-foundedness of `<`; with it the recursive functions are proved to
exist and to compute what they should. `SupplyAssumption` of `RiskPool` says that
the token supply is finite, which an i128 balance per account of a finite ledger is;
the conservation theorem of `Protocol` needs it.

*RiskPool.* None of the properties is inductive alone: that a subtraction in
`settle_season` or `withdraw` stays non-negative follows from the books, the
books from the shape of the seasons, the fee caps from the validated rates. The
inductive invariant is

    IInv == TypeOK /\ Custody /\ FeeCaps /\ NoPoolNoFees /\ Shares
            /\ NoOrphanSeniorCapital /\ Unopened /\ Books

where `Shares` and `Books` say that the ledgers are finite and add up. Each action
has a lemma; the action properties follow from `IInv` and from what each
function does to the tranches (`TrancheMoves`, `DepositMoves`, `WithdrawMoves`).

*OracleAdapter.* `OracleIInv` adds when a key was last changed against when its pending
change may take effect (`PendingAfterChange`), that the observation with number n is
in slot n modulo the ring size (`RingInPlace`), and a record for every flag. Two
numbers in one slot lie a ring apart (`SameSlot`), so an overwritten observation is
never among the last. The median is a matter of one state: each step of the sort
keeps the list ascending (`InsertKeepsOrder`) and a listing of the same values
(`InsertKeepsValues`), so the sorted values are those of the valid slots, each once
(`SortedValues`); at most half of them lie on either side of the middle
(`MiddleSplits`), and whoever has less than half leaves somebody else's value on
both sides (`MajorityReaches`).

*TriggerEngine.* `IInv` relates the accumulator to the log day by day (`Recorded`)
and says what a window that left Healthy rests on (`Decided`). The rain total of
`IndexSeries` is a fold whose order is unspecified; it is a total (`RainIsTotal`), because the subtotals solve the recursive equation of the fold and nothing
else does. A dry run is an interval of the log, and the running and longest run are
its longest intervals at the end and anywhere. The rounded ramps are bounded by the
exact fractions they round, from which monotonicity follows. For `IndexDecision` each
fold maps to a day of the log, the finalizing call to the decision, everything else
to a stutter.

*IndexFeed.* `FeedIInv` is both contracts' invariants, that an honest publisher's
observation in the ring is an honest reading (`HonestSlots`), and, for every day of
every window, that its reading lies within the honest range if the liars were
outvoted among the observations behind it (`Evidenced`). Slots have sequence numbers
of their own, so observations are as many as their slots (`SightedCount`); the
median's halves and a majority then give honest values on both of its sides
(`MedianBacked`). The rest is about logs: a log that is no wetter than another on any
day has no more rain and no shorter dry run (`NoWetterReduces`), and if the other one
breaches, it breaches too and no less severely (`NoWetterBreaches`), where the
reference severity is unique (`SeverityUnique`). Applied to the window's log between
the two uniform ones it is the theorem. TLC checked `FeedIInv` on the instance of
`feed_minority` before it was proved. `FeedAssumption` asks for a finite, non-empty
set of honest values, none negative, as `submit` accepts no other.

*PayoutVault.* `VaultIInv` is the pool's invariant, the type invariant, finite
records, `ClaimsBacked`, `PaidOnFinalized` and `BooksAgree`. A batch is a list of any length:
the entries it pays name each policy once and no recorded one, so its new records are
those entries renamed, what it credits the owners is the total of those entries
grouped by owner, and that is what it pulls from the pool. In `ClaimLedger` a batch
is a settlement of the new records and a claim a collection.

*Policy.* `PolicyIInv` is the pool's invariant, the type invariant and
`PremiumBeforePolicy`. The fees of a batch are a running sum under a cap, a recursive
function over the list (`FeesAccrue`); its increments add up to what the treasury
gains, and the nets to what the reserves and the season gain (`NetsSplit`).
`RefundsFunded` then follows from the pool's books: the reserves are tranche capital,
which is never negative, plus premiums less payouts of the seasons in flight, and the
premiums of each season cover its certificates.

*Protocol.* `ProtocolIInv` joins `PolicyIInv` and `VaultIInv`. For the tokens it adds
that all wallets and the pool hold the initial supply (`Conserved`): every step moves an
amount between two of them. For refund or payout it adds that whatever is on the
guardian's list or was paid is a policy that was not cancelled and whose coverage has
started by now (`ListStarted`, `PaidStarted`). It holds of a new list by the guardian's
filter (`due`), which is a guard of `assemble` and not something the contracts check;
it stays because the clock does not run back and a started policy cannot be cancelled
(`StartedStays`), however old the list is. When windows are finalized, and what terms
buyers ask for, is left open. TLC checked `ProtocolIInv` on the instance of
`protocol_season` before it was proved.

### Only model-checked

* `BreachIsSettled` and `ClaimsArrive`: liveness under fairness is out of the prover's
  reach.
* The four properties that are violated.

## 5. Not modelled

Events, TTL extension and error codes; signatures and token internals (external);
authorization (who may call); more than one pool, feed or payment token, which no
function relates; the full trigger-engine inside `Protocol`, where a window is its
severity (`IndexDecision` is why that is enough); registry changes inside `IndexFeed`;
upgrade and governance, which the repository describes and does not implement;
scripts and tests.

## 6. Plan

Done: every contract, its runs, the two compositions, the abstract specifications of
the engine and the vault, liveness, and the theorems of section 4. Left: an abstract
feed that reports the median of a bounded log, refined by `OracleAdapter`.
