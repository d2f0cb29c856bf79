--------------------------- MODULE OracleAdapter ----------------------------
(***************************************************************************)
(* The oracle-adapter contract: a registry of publishers changed behind a  *)
(* timelock, a ring of the last RING_SIZE signed observations, guardian    *)
(* challenges on ring slots, and the trusted median.                       *)
(*                                                                         *)
(* The module models one feed (one region and metric): observations, ring  *)
(* cursor and challenges are keyed by it and no function touches two       *)
(* feeds.  The registry is shared by all feeds.  Signatures are external:  *)
(* a submission under a publisher's key is a submission it signed, but     *)
(* anyone can send it, and send it again.  Stored observations are always  *)
(* accepted, so that flag is left out; so are added_at and the reason code *)
(* of a challenge, which nothing reads.                                    *)
(***************************************************************************)
EXTENDS Common, Storage, Clock, FiniteSets, SequencesExt

CONSTANTS
  Publishers,              \* publisher keys that may ever be proposed
  Readings,                  \* values a submission may carry
  RING_SIZE,               \* 16 in the code
  MIN_PUBLISHERS,          \* 2 in the code
  STALENESS,               \* staleness bound, 48 hours in the code
  REGISTRY_TIMELOCK_SECS,  \* 7 days in the code
  U32_MAX                  \* where the checked next_seq overflows

Slots == 0 .. RING_SIZE - 1

ASSUME RingAssumption ==
  /\ RING_SIZE \in Nat \ {0}
  /\ MIN_PUBLISHERS \in Nat
  /\ U32_MAX \in Nat
ASSUME TimeAssumption ==
  /\ STALENESS \in Nat
  /\ REGISTRY_TIMELOCK_SECS \in Nat
ASSUME ValueAssumption == Readings \subseteq Int

VARIABLES
  publisher,    \* Publisher: key -> whether it is active, where there is a record
  pending,      \* PendingPublisher: publisher -> [add, eta], where there is one
  obs,          \* Obs: slot -> observation, where there is one
  next_seq,     \* ObsHead.next_seq
  count,        \* ObsHead.count
  challenged,   \* the slots with a Challenge flag
  changed_at,   \* history: when a publisher was last added or removed
  seq_in,       \* history: the sequence number of the observation in a slot
  flagged_obs   \* history: the observation the guardian flagged in a slot

registry == <<publisher, pending, changed_at>>
ring == <<obs, next_seq, count, challenged, seq_in, flagged_obs>>
oracle_vars == <<registry, ring, now>>

(* Removal clears the active flag and keeps the record.                    *)
active == {p \in DOMAIN publisher : publisher[p]}

Observation == [value : Nat, timestamp : Nat, publisher : Publishers]

-----------------------------------------------------------------------------
(***************************************************************************)
(* The median (a read: it changes nothing).                                *)
(***************************************************************************)

(* An observation counts while it is fresh and its slot is not flagged.    *)
(* now never lies before a timestamp, so the saturating subtraction is     *)
(* exact.                                                                  *)
counts(slot) ==
  /\ Has(obs, slot)
  /\ now - obs[slot].timestamp <= STALENESS
  /\ slot \notin challenged

(* Mutated form of valid_slots: flagged observations are not left out.     *)
valid_slots_flagged ==
  {slot \in 0 .. count - 1 : Has(obs, slot) /\ now - obs[slot].timestamp <= STALENESS}
valid_slots == {slot \in 0 .. count - 1 : counts(slot)}

(* The values of the valid slots.  They are sorted next, so the order they *)
(* are collected in is left open.                                          *)
collected_of(value) ==
  LET slots == SetToSeq(valid_slots)
  IN  [i \in DOMAIN slots |-> value[slots[i]]]

collected == collected_of([slot \in valid_slots |-> obs[slot].value])

(* Insertion sort: each value in turn goes behind the last one that is not *)
(* greater, and the ones after it move up a place.                         *)
place_of(sorted, key) == Max({0} \cup {i \in DOMAIN sorted : sorted[i] <= key}) + 1

InsertSorted(sorted, key) ==
  LET place == place_of(sorted, key)
  IN  [i \in 1 .. Len(sorted) + 1 |->
         IF i < place THEN sorted[i] ELSE IF i = place THEN key ELSE sorted[i - 1]]

sort_ascending(values) ==
  LET sorted[n \in 0 .. Len(values)] ==
        IF n = 0 THEN <<>> ELSE InsertSorted(sorted[n - 1], values[n])
  IN  sorted[Len(values)]

publishers_seen == {obs[slot].publisher : slot \in valid_slots}

(* Mutated form of middle: the middle is taken one place too low.          *)
middle_below(values) ==
  LET mid == Len(values) \div 2
  IN  values[Greatest(mid, 1)]

(* values[len / 2], or the mean of the two middle values rounded down; the *)
(* code counts from zero.                                                  *)
middle(values) ==
  LET mid == Len(values) \div 2
  IN  IF Len(values) % 2 = 1 THEN values[mid + 1]
      ELSE (values[mid] + values[mid + 1]) \div 2

sorted_values == sort_ascending(collected)

(* The sum of the two middle values is checked.                            *)
SumFits ==
  LET mid == Len(sorted_values) \div 2
  IN  Len(sorted_values) % 2 = 0 => Fits(sorted_values[mid] + sorted_values[mid + 1])

median_defined ==
  /\ count # 0
  /\ valid_slots # {}
  /\ Cardinality(publishers_seen) >= MIN_PUBLISHERS
  /\ SumFits

median == middle(sorted_values)

-----------------------------------------------------------------------------
OracleInit ==
  /\ publisher = Empty
  /\ pending = Empty
  /\ obs = Empty
  /\ next_seq = 0
  /\ count = 0
  /\ challenged = {}
  /\ now = 0
  /\ changed_at = Empty
  /\ seq_in = Empty
  /\ flagged_obs = Empty

OracleTick ==
  /\ later
  /\ UNCHANGED <<registry, ring>>

(* Mutated form of may_propose: a change may be queued for any key.        *)
may_propose_any(p, add) == ~Has(pending, p)

(* One change at a time per key, and none that changes nothing.            *)
may_propose(p, add) ==
  /\ ~Has(pending, p)
  /\ add <=> p \notin active

propose_publisher(p, add) ==
  /\ may_propose(p, add)
  /\ pending' = Put(pending, p, [add |-> add, eta |-> now + REGISTRY_TIMELOCK_SECS])
  /\ UNCHANGED <<publisher, changed_at, ring, now>>

(* Mutated form of timelock_over: the wait is forgotten for removals.      *)
timelock_over_for_removal(p) == now >= pending[p].eta \/ ~pending[p].add
timelock_over(p) == now >= pending[p].eta

execute_publisher(p) ==
  /\ Has(pending, p)
  /\ timelock_over(p)
  /\ pending[p].add \/ Has(publisher, p)
  /\ publisher' = Put(publisher, p, pending[p].add)
  /\ pending' = Erase(pending, p)
  /\ changed_at' = Put(changed_at, p, now)
  /\ UNCHANGED <<ring, now>>

cancel_publisher(p) ==
  /\ Has(pending, p)
  /\ pending' = Erase(pending, p)
  /\ UNCHANGED <<publisher, changed_at, ring, now>>

(* Mutated form of ring_slot: a full ring keeps overwriting its end.       *)
ring_slot_last == IF count < RING_SIZE THEN count ELSE RING_SIZE - 1
ring_slot == next_seq % RING_SIZE

(* Mutated form of flags_after_submit: the flag stays on the reused slot.  *)
flags_after_submit_kept == challenged
flags_after_submit == challenged \ {ring_slot}

(* Mutated form of valid_observation: the sign of the value is not looked  *)
(* at.                                                                     *)
valid_observation_signed(timestamp, value) == timestamp <= now
valid_observation(timestamp, value) == value >= 0 /\ timestamp <= now

(* The observation is stored before the cursor is advanced; a failing      *)
(* checked_add reverts it.                                                 *)
submit(timestamp, value, p) ==
  /\ p \in active
  /\ valid_observation(timestamp, value)
  /\ next_seq + 1 <= U32_MAX
  /\ obs' = Put(obs, ring_slot, [value |-> value, timestamp |-> timestamp, publisher |-> p])
  /\ challenged' = flags_after_submit
  /\ next_seq' = next_seq + 1
  /\ count' = IF count < RING_SIZE THEN count + 1 ELSE count
  /\ seq_in' = Put(seq_in, ring_slot, next_seq)
  /\ UNCHANGED <<registry, flagged_obs, now>>

challenge(slot) ==
  /\ Has(obs, slot)
  /\ slot \notin challenged
  /\ challenged' = challenged \cup {slot}
  /\ flagged_obs' = Put(flagged_obs, slot, seq_in[slot])
  /\ UNCHANGED <<registry, obs, next_seq, count, seq_in, now>>

(* Clearing a flag that is not set is accepted and changes nothing.        *)
unchallenge(slot) ==
  /\ challenged' = challenged \ {slot}
  /\ flagged_obs' = Erase(flagged_obs, slot)
  /\ UNCHANGED <<registry, obs, next_seq, count, seq_in, now>>

OracleNext ==
  \/ OracleTick
  \/ \E p \in Publishers :
        \/ \E add \in BOOLEAN : propose_publisher(p, add)
        \/ execute_publisher(p)
        \/ cancel_publisher(p)
        \/ \E timestamp \in 0 .. MaxTime, value \in Readings : submit(timestamp, value, p)
  \/ \E slot \in Slots : challenge(slot) \/ unchallenge(slot)

OracleSpec == OracleInit /\ [][OracleNext]_oracle_vars

-----------------------------------------------------------------------------
(***************************************************************************)
(* Properties.                                                             *)
(***************************************************************************)

(* Type invariant.                                                         *)
OracleTypeOK ==
  /\ DOMAIN publisher \subseteq Publishers
  /\ \A p \in DOMAIN publisher : publisher[p] \in BOOLEAN
  /\ DOMAIN pending \subseteq Publishers
  /\ \A p \in DOMAIN pending : pending[p] \in [add : BOOLEAN, eta : Nat]
  /\ DOMAIN obs \subseteq Slots
  /\ \A slot \in DOMAIN obs : obs[slot] \in Observation
  /\ next_seq \in 0 .. U32_MAX
  /\ count \in 0 .. RING_SIZE
  /\ challenged \subseteq Slots
  /\ now \in 0 .. MaxTime
  /\ DOMAIN changed_at \subseteq Publishers
  /\ \A p \in DOMAIN changed_at : changed_at[p] \in Nat
  /\ DOMAIN seq_in \subseteq Slots
  /\ \A slot \in DOMAIN seq_in : seq_in[slot] \in Nat

(* A pending change always changes something: an addition is pending only  *)
(* for a key that is not active and a removal only for one that is, in     *)
(* every interleaving of propose, execute and cancel.  execute_publisher   *)
(* does not check this again when the timelock is over.                    *)
PendingMatchesRegistry ==
  \A p \in DOMAIN pending : pending[p].add <=> p \notin active

FlipsAreSpacedStep ==
  \A p \in DOMAIN changed_at :
    (p \in active) # (p \in active)' => now - changed_at[p] >= REGISTRY_TIMELOCK_SECS

(* Two changes of the same key lie at least a timelock apart: the next     *)
(* proposal cannot be queued before the last change executed.              *)
FlipsAreSpaced == [][FlipsAreSpacedStep]_oracle_vars

(* The ring holds exactly the latest submissions, also after it wrapped:   *)
(* the slots below count are the ones filled and carry the last count      *)
(* sequence numbers, so the median never reads an overwritten or an        *)
(* unwritten slot.                                                         *)
RingHoldsLatest ==
  /\ DOMAIN obs = 0 .. count - 1
  /\ {seq_in[slot] : slot \in DOMAIN obs} = next_seq - count .. next_seq - 1

(* A challenge flag belongs to the observation it was set on: reusing a    *)
(* slot never excludes the new observation because of the old one.         *)
FlagFollowsObservation ==
  \A slot \in challenged : Has(obs, slot) /\ flagged_obs[slot] = seq_in[slot]

(* The median is a median: at most half of the observations that are       *)
(* fresh and not flagged lie below it and at most half above it.           *)
MedianIsCentral ==
  median_defined =>
    LET fresh == {slot \in DOMAIN obs :
                    now - obs[slot].timestamp <= STALENESS /\ slot \notin challenged}
    IN  /\ 2 * Cardinality({slot \in fresh : obs[slot].value < median}) <= Cardinality(fresh)
        /\ 2 * Cardinality({slot \in fresh : obs[slot].value > median}) <= Cardinality(fresh)

OfPublisher(p) == {slot \in valid_slots : obs[slot].publisher = p}

(* A minority cannot move the median out of the others' range: whoever has *)
(* fewer than half of the valid observations, whatever they say, the       *)
(* median stays between two values of the other publishers.                *)
MinorityIsBounded ==
  median_defined =>
    \A p \in Publishers :
      2 * Cardinality(OfPublisher(p)) < Cardinality(valid_slots) =>
        \E lo, hi \in valid_slots \ OfPublisher(p) :
          obs[lo].value <= median /\ median <= obs[hi].value

(* No observation counts twice: two valid slots never hold an observation  *)
(* of the same publisher for the same time (THREAT-MODEL T-9).             *)
NoDuplicates ==
  \A s1, s2 \in valid_slots :
    /\ obs[s1].publisher = obs[s2].publisher
    /\ obs[s1].timestamp = obs[s2].timestamp
    => s1 = s2

(* Whether the median is the same whatever the others submitted instead.   *)
SetAloneBy(p) ==
  LET others == valid_slots \ OfPublisher(p)
  IN  \A alternative \in [others -> {v \in Readings : v >= 0}] :
        middle(sort_ascending(collected_of(
          [slot \in valid_slots |->
             IF slot \in others THEN alternative[slot] ELSE obs[slot].value]))) = median

(* No publisher sets the index alone: the median depends on what the       *)
(* others submitted (the comment on MIN_PUBLISHERS).                       *)
NotSetAlone == median_defined => \A p \in Publishers : ~SetAloneBy(p)
=============================================================================
