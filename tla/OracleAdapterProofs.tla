------------------------ MODULE OracleAdapterProofs -------------------------
(***************************************************************************)
(* Proofs about OracleAdapter, for every set of publishers and values,     *)
(* every ring size, timelock and bound on the sequence numbers.            *)
(***************************************************************************)
EXTENDS OracleAdapter, TotalsProofs, FiniteSetTheorems, FunctionTheorems, TLAPS

-----------------------------------------------------------------------------
(***************************************************************************)
(* Arithmetic of the ring cursor.                                          *)
(***************************************************************************)

(* A number is a multiple of the ring size and its slot.                   *)
LEMMA SlotOf ==
  ASSUME NEW n \in Nat, NEW r \in Nat \ {0}
  PROVE  /\ n % r \in 0 .. r - 1
         /\ n \div r \in Nat
         /\ n = r * (n \div r) + (n % r)
  BY SMT

(* Two different numbers with the same slot lie at least a ring apart: the *)
(* observation a submission overwrites is a whole ring older.              *)
LEMMA SameSlot ==
  ASSUME NEW a \in Nat, NEW b \in Nat, NEW r \in Nat \ {0}, a % r = b % r, a < b
  PROVE  b - a >= r
  <1> DEFINE x == a \div r
             y == b \div r
             m == a % r
  <1>1. x \in Nat /\ y \in Nat /\ m \in 0 .. r - 1  BY SlotOf
  <1>2. a = r * x + m /\ b = r * y + m  BY SlotOf
  <1> HIDE DEF x, y, m
  <1>3. y >= x + 1
    <2> SUFFICES ASSUME y <= x PROVE FALSE  BY <1>1
    <2>1. r * y <= r * x  BY <1>1, SMT
    <2> QED  BY <1>1, <1>2, <2>1, SMT
  <1>4. r * y >= r * (x + 1)  BY <1>1, <1>3, SMT
  <1>5. r * (x + 1) = r * x + r  BY <1>1, SMT
  <1>6. r * x \in Int /\ r * y \in Int  BY <1>1
  <1> QED  BY <1>1, <1>2, <1>4, <1>5, <1>6, SMT

(* A whole ring later the cursor is at the same slot.                      *)
LEMMA ShiftSlot ==
  ASSUME NEW n \in Nat, NEW r \in Nat \ {0}
  PROVE  (n + r) % r = n % r
  <1> DEFINE x == n \div r
             y == (n + r) \div r
             m == n % r
             k == (n + r) % r
  <1>1. /\ x \in Nat /\ m \in 0 .. r - 1 /\ n = r * x + m
        /\ y \in Nat /\ k \in 0 .. r - 1 /\ n + r = r * y + k
    BY SlotOf, n + r \in Nat
  <1> HIDE DEF x, y, m, k
  <1>2. r * (x + 1) = r * x + r  BY <1>1, SMT
  <1>3. r * (x + 1) - r * y = k - m  BY <1>1, <1>2, SMT
  <1>4. y = x + 1
    <2>1. ASSUME y < x + 1 PROVE FALSE
      <3>1. r * (x + 1) >= r * (y + 1)  BY <1>1, <2>1, SMT
      <3>2. r * (y + 1) = r * y + r  BY <1>1, SMT
      <3> QED  BY <1>1, <1>3, <3>1, <3>2, SMT
    <2>2. ASSUME y > x + 1 PROVE FALSE
      <3>1. r * y >= r * (x + 2)  BY <1>1, <2>2, SMT
      <3>2. r * (x + 2) = r * (x + 1) + r  BY <1>1, SMT
      <3> QED  BY <1>1, <1>3, <3>1, <3>2, SMT
    <2> QED  BY <1>1, <2>1, <2>2
  <1>5. k = m  BY <1>1, <1>3, <1>4, SMT
  <1> QED  BY <1>5 DEF k, m

(* Before the ring is full the cursor is the slot itself.                  *)
LEMMA SmallSlot ==
  ASSUME NEW n \in Nat, NEW r \in Nat \ {0}, n < r
  PROVE  n % r = n
  BY SMT

-----------------------------------------------------------------------------
(***************************************************************************)
(* The inductive invariant.  What is missing in the checked invariants is  *)
(* when a key was last changed against when its pending change may take    *)
(* effect, and which sequence number is in which slot.                     *)
(***************************************************************************)

(* A change waits a full timelock from the last change of its key.         *)
PendingAfterChange ==
  /\ DOMAIN publisher = DOMAIN changed_at
  /\ \A p \in DOMAIN changed_at : changed_at[p] <= now
  /\ \A p \in DOMAIN pending : p \in DOMAIN changed_at =>
       pending[p].eta >= changed_at[p] + REGISTRY_TIMELOCK_SECS

(* The observation with sequence number n is in slot n modulo the ring     *)
(* size, and the last count of them are there.                             *)
RingInPlace ==
  /\ count = Least(next_seq, RING_SIZE)
  /\ DOMAIN obs = 0 .. count - 1
  /\ DOMAIN seq_in = DOMAIN obs
  /\ \A slot \in DOMAIN seq_in :
       /\ seq_in[slot] \in next_seq - count .. next_seq - 1
       /\ seq_in[slot] % RING_SIZE = slot

(* Every flag has a record of what was flagged.                            *)
FlagsRecorded ==
  \A slot \in challenged :
    /\ slot \in DOMAIN obs
    /\ slot \in DOMAIN flagged_obs
    /\ flagged_obs[slot] = seq_in[slot]

OracleIInv ==
  /\ OracleTypeOK
  /\ PendingMatchesRegistry
  /\ PendingAfterChange
  /\ RingInPlace
  /\ FlagsRecorded

(* The contract starts in the invariant.                                   *)
LEMMA OracleInitIInv == OracleInit => OracleIInv
  <1> SUFFICES ASSUME OracleInit PROVE OracleIInv  OBVIOUS
  <1> USE DEF OracleInit, Empty
  <1>1. OracleTypeOK  BY RingAssumption, TimeAssumption, MaxTimeAssumption DEF OracleTypeOK
  <1>2. PendingMatchesRegistry /\ PendingAfterChange
    BY DEF PendingMatchesRegistry, PendingAfterChange
  <1>3. RingInPlace  BY RingAssumption DEF RingInPlace, Least
  <1>4. FlagsRecorded  BY DEF FlagsRecorded
  <1> QED  BY <1>1, <1>2, <1>3, <1>4 DEF OracleIInv

(* Time only moves the clock.                                              *)
LEMMA OracleTickIInv == OracleIInv /\ OracleTick => OracleIInv'
  <1> SUFFICES ASSUME OracleIInv, OracleTick PROVE OracleIInv'  OBVIOUS
  <1> USE DEF OracleTick, later, registry, ring
  <1>1. OracleTypeOK'  BY TimeAssumption, MaxTimeAssumption DEF OracleIInv, OracleTypeOK
  <1>2. PendingMatchesRegistry'  BY DEF OracleIInv, PendingMatchesRegistry, active
  <1>3. PendingAfterChange'  BY DEF OracleIInv, OracleTypeOK, PendingAfterChange
  <1>4. RingInPlace'  BY DEF OracleIInv, RingInPlace
  <1>5. FlagsRecorded'  BY DEF OracleIInv, FlagsRecorded
  <1> QED  BY <1>1, <1>2, <1>3, <1>4, <1>5 DEF OracleIInv

(* A proposal waits a timelock from now, hence from the last change.       *)
LEMMA ProposeIInv ==
  ASSUME OracleIInv, NEW p \in Publishers, NEW add \in BOOLEAN, propose_publisher(p, add)
  PROVE  OracleIInv'
  <1> USE DEF propose_publisher, may_propose, Has, Put
  <1>1. OracleTypeOK'
    BY TimeAssumption, MaxTimeAssumption DEF OracleIInv, OracleTypeOK, registry, ring
  <1>2. PendingMatchesRegistry'
    BY DEF OracleIInv, PendingMatchesRegistry, active
  <1>3. PendingAfterChange'
    BY TimeAssumption, MaxTimeAssumption DEF OracleIInv, OracleTypeOK, PendingAfterChange
  <1>4. RingInPlace'  BY DEF OracleIInv, RingInPlace, ring
  <1>5. FlagsRecorded'  BY DEF OracleIInv, FlagsRecorded, ring
  <1> QED  BY <1>1, <1>2, <1>3, <1>4, <1>5 DEF OracleIInv

(* An executed change flips the key, and the next one waits from now.      *)
LEMMA ExecuteIInv ==
  ASSUME OracleIInv, NEW p \in Publishers, execute_publisher(p)
  PROVE  OracleIInv'
  <1> USE DEF execute_publisher, timelock_over, Has, Put, Erase
  <1>0. DOMAIN publisher' = DOMAIN publisher \cup {p}
        /\ DOMAIN pending' = DOMAIN pending \ {p}
        /\ DOMAIN changed_at' = DOMAIN changed_at \cup {p}
    OBVIOUS
  <1>1. OracleTypeOK'
    BY <1>0, TimeAssumption, MaxTimeAssumption DEF OracleIInv, OracleTypeOK, ring
  <1>2. PendingMatchesRegistry'
    BY <1>0 DEF OracleIInv, PendingMatchesRegistry, active
  <1>3. PendingAfterChange'
    BY <1>0, TimeAssumption, MaxTimeAssumption DEF OracleIInv, OracleTypeOK, PendingAfterChange
  <1>4. RingInPlace'  BY DEF OracleIInv, RingInPlace, ring
  <1>5. FlagsRecorded'  BY DEF OracleIInv, FlagsRecorded, ring
  <1> QED  BY <1>1, <1>2, <1>3, <1>4, <1>5 DEF OracleIInv

(* A cancelled change leaves the key as it is.                             *)
LEMMA CancelIInv ==
  ASSUME OracleIInv, NEW p \in Publishers, cancel_publisher(p)
  PROVE  OracleIInv'
  <1> USE DEF cancel_publisher, Has, Erase
  <1>1. OracleTypeOK'  BY DEF OracleIInv, OracleTypeOK, ring
  <1>2. PendingMatchesRegistry'  BY DEF OracleIInv, PendingMatchesRegistry, active
  <1>3. PendingAfterChange'  BY DEF OracleIInv, OracleTypeOK, PendingAfterChange
  <1>4. RingInPlace'  BY DEF OracleIInv, RingInPlace, ring
  <1>5. FlagsRecorded'  BY DEF OracleIInv, FlagsRecorded, ring
  <1> QED  BY <1>1, <1>2, <1>3, <1>4, <1>5 DEF OracleIInv

(* A submission fills the next slot while the ring has room, and replaces  *)
(* the oldest observation and its flag when it is full.                    *)
LEMMA SubmitIInv ==
  ASSUME OracleIInv, NEW p \in Publishers, NEW timestamp \in 0 .. MaxTime,
         NEW value \in Readings, submit(timestamp, value, p)
  PROVE  OracleIInv'
  <1> DEFINE k == ring_slot
  <1>1. /\ next_seq \in Nat /\ count \in Nat /\ count <= RING_SIZE
        /\ RING_SIZE \in Nat \ {0}
    BY RingAssumption DEF OracleIInv, OracleTypeOK
  <1>2. k \in Slots  BY <1>1, SlotOf DEF ring_slot, Slots
  <1>3. count < RING_SIZE => k = next_seq /\ count = next_seq
    BY <1>1, SmallSlot DEF ring_slot, OracleIInv, RingInPlace, Least
  <1>4. /\ next_seq' = next_seq + 1
        /\ count' = IF count < RING_SIZE THEN count + 1 ELSE count
        /\ DOMAIN obs' = DOMAIN obs \cup {k}
        /\ DOMAIN seq_in' = DOMAIN seq_in \cup {k}
        /\ \A slot \in DOMAIN seq_in' :
             seq_in'[slot] = IF slot = k THEN next_seq ELSE seq_in[slot]
        /\ \A slot \in DOMAIN obs' :
             obs'[slot] = IF slot = k
                          THEN [value |-> value, timestamp |-> timestamp, publisher |-> p]
                          ELSE obs[slot]
        /\ challenged' = challenged \ {k}
        /\ flagged_obs' = flagged_obs
    BY DEF submit, Put, flags_after_submit
  <1> HIDE DEF k
  <1>5. OracleTypeOK'
    <2>1. [value |-> value, timestamp |-> timestamp, publisher |-> p] \in Observation
      BY TimeAssumption, MaxTimeAssumption, ValueAssumption DEF submit, valid_observation, Observation
    <2>2. next_seq' \in 0 .. U32_MAX  BY <1>1, <1>4, RingAssumption DEF submit
    <2>3. count' \in 0 .. RING_SIZE  BY <1>1, <1>4
    <2> QED  BY <1>1, <1>2, <1>4, <2>1, <2>2, <2>3 DEF OracleIInv, OracleTypeOK, submit, registry
  <1>6. PendingMatchesRegistry'
    BY DEF OracleIInv, PendingMatchesRegistry, active, submit, registry
  <1>7. PendingAfterChange'
    BY DEF OracleIInv, PendingAfterChange, submit, registry
  <1>8. RingInPlace'
    <2>1. count' = Least(next_seq', RING_SIZE)
      BY <1>1, <1>4 DEF OracleIInv, RingInPlace, Least
    <2>2. DOMAIN obs' = 0 .. count' - 1
      BY <1>1, <1>2, <1>3, <1>4 DEF OracleIInv, RingInPlace, Slots
    <2>3. DOMAIN seq_in' = DOMAIN obs'  BY <1>4 DEF OracleIInv, RingInPlace
    <2>4. ASSUME NEW slot \in DOMAIN seq_in'
          PROVE  /\ seq_in'[slot] \in next_seq' - count' .. next_seq' - 1
                 /\ seq_in'[slot] % RING_SIZE = slot
      <3>1. CASE slot = k
        <4>1. seq_in'[slot] = next_seq  BY <1>4, <3>1
        <4>2. next_seq % RING_SIZE = k  BY DEF k, ring_slot
        <4>3. count' >= 1 /\ count' \in Nat  BY <1>1, <1>4
        <4> QED  BY <1>1, <1>4, <3>1, <4>1, <4>2, <4>3
      <3>2. CASE slot # k
        <4> DEFINE n == seq_in[slot]
        <4>1. slot \in DOMAIN seq_in /\ seq_in'[slot] = n  BY <1>4, <3>2
        <4>2. n \in next_seq - count .. next_seq - 1 /\ n % RING_SIZE = slot
          BY <4>1 DEF OracleIInv, RingInPlace
        <4>3. count <= next_seq  BY <1>1 DEF OracleIInv, RingInPlace, Least
        <4>4. n \in Nat /\ n < next_seq  BY <1>1, <4>2, <4>3
        <4> HIDE DEF n
        <4>5. ASSUME count = RING_SIZE PROVE n # next_seq - count
          <5>1. ASSUME n = next_seq - count PROVE FALSE
            <6>1. next_seq = n + RING_SIZE  BY <1>1, <4>4, <4>5, <5>1
            <6>2. next_seq % RING_SIZE = n % RING_SIZE
              BY <1>1, <4>4, <6>1, ShiftSlot
            <6> QED  BY <3>2, <4>2, <6>2 DEF k, ring_slot
          <5> QED  BY <5>1
        <4>6. n \in next_seq' - count' .. next_seq' - 1
          BY <1>1, <1>4, <4>2, <4>4, <4>5
        <4> QED  BY <4>1, <4>2, <4>6
      <3> QED  BY <3>1, <3>2
    <2> QED  BY <2>1, <2>2, <2>3, <2>4 DEF RingInPlace
  <1>9. FlagsRecorded'
    BY <1>4 DEF OracleIInv, FlagsRecorded, RingInPlace
  <1> QED  BY <1>5, <1>6, <1>7, <1>8, <1>9 DEF OracleIInv

(* The guardian flags the observation that is in the slot now.             *)
LEMMA ChallengeIInv ==
  ASSUME OracleIInv, NEW s \in Slots, challenge(s)
  PROVE  OracleIInv'
  <1> USE DEF challenge, Has, Put
  <1>1. OracleTypeOK'  BY DEF OracleIInv, OracleTypeOK, registry
  <1>2. PendingMatchesRegistry'
    BY DEF OracleIInv, PendingMatchesRegistry, active, registry
  <1>3. PendingAfterChange'  BY DEF OracleIInv, PendingAfterChange, registry
  <1>4. RingInPlace'  BY DEF OracleIInv, RingInPlace
  <1>5. FlagsRecorded'  BY DEF OracleIInv, FlagsRecorded, RingInPlace
  <1> QED  BY <1>1, <1>2, <1>3, <1>4, <1>5 DEF OracleIInv

(* A cleared flag takes its record with it.                                *)
LEMMA UnchallengeIInv ==
  ASSUME OracleIInv, NEW s \in Slots, unchallenge(s)
  PROVE  OracleIInv'
  <1> USE DEF unchallenge, Has, Erase
  <1>1. OracleTypeOK'  BY DEF OracleIInv, OracleTypeOK, registry
  <1>2. PendingMatchesRegistry'
    BY DEF OracleIInv, PendingMatchesRegistry, active, registry
  <1>3. PendingAfterChange'  BY DEF OracleIInv, PendingAfterChange, registry
  <1>4. RingInPlace'  BY DEF OracleIInv, RingInPlace
  <1>5. FlagsRecorded'  BY DEF OracleIInv, FlagsRecorded
  <1> QED  BY <1>1, <1>2, <1>3, <1>4, <1>5 DEF OracleIInv

(* Every step keeps the invariant.                                         *)
LEMMA OracleNextIInv == OracleIInv /\ [OracleNext]_oracle_vars => OracleIInv'
  <1> SUFFICES ASSUME OracleIInv, [OracleNext]_oracle_vars PROVE OracleIInv'  OBVIOUS
  <1>1. CASE OracleTick  BY <1>1, OracleTickIInv
  <1>2. ASSUME NEW p \in Publishers, NEW add \in BOOLEAN, propose_publisher(p, add)
        PROVE OracleIInv'
    BY <1>2, ProposeIInv
  <1>3. ASSUME NEW p \in Publishers, execute_publisher(p) PROVE OracleIInv'
    BY <1>3, ExecuteIInv
  <1>4. ASSUME NEW p \in Publishers, cancel_publisher(p) PROVE OracleIInv'
    BY <1>4, CancelIInv
  <1>5. ASSUME NEW p \in Publishers, NEW timestamp \in 0 .. MaxTime,
               NEW value \in Readings, submit(timestamp, value, p)
        PROVE OracleIInv'
    BY <1>5, SubmitIInv
  <1>6. ASSUME NEW s \in Slots, challenge(s) PROVE OracleIInv'
    BY <1>6, ChallengeIInv
  <1>7. ASSUME NEW s \in Slots, unchallenge(s) PROVE OracleIInv'
    BY <1>7, UnchallengeIInv
  <1>8. CASE UNCHANGED oracle_vars
    BY <1>8 DEF oracle_vars, registry, ring, OracleIInv, OracleTypeOK, PendingMatchesRegistry,
                active, PendingAfterChange, RingInPlace, FlagsRecorded
  <1> QED  BY <1>1, <1>2, <1>3, <1>4, <1>5, <1>6, <1>7, <1>8 DEF OracleNext

(* The invariant holds throughout.                                         *)
LEMMA OracleInvariance == OracleSpec => []OracleIInv
  <1>1. OracleIInv /\ [OracleNext]_oracle_vars => OracleIInv'  BY OracleNextIInv
  <1> QED  BY OracleInitIInv, <1>1, PTL DEF OracleSpec

-----------------------------------------------------------------------------
(***************************************************************************)
(* The median.                                                             *)
(***************************************************************************)

(* A set of numbers up to n, and zero, has a greatest member.              *)
LEMMA GreatestMember ==
  ASSUME NEW n \in Nat, NEW T \in SUBSET (1 .. n)
  PROVE  /\ Max({0} \cup T) \in {0} \cup T
         /\ \A y \in {0} \cup T : y <= Max({0} \cup T)
  <1> DEFINE A(m) == {0} \cup (T \cap (1 .. m))
             S == {m \in 0 .. n : \E x \in A(m) : \A y \in A(m) : x >= y}
  <1>1. 0 \in S
    <2>1. A(0) = {0}  OBVIOUS
    <2> QED  BY <2>1
  <1>2. ASSUME NEW m \in 0 .. n - 1, m \in S PROVE m + 1 \in S
    <2>1. PICK x \in A(m) : \A y \in A(m) : x >= y  BY <1>2
    <2>2. m + 1 \in 0 .. n /\ \A y \in A(m) : y \in Int /\ y <= m  OBVIOUS
    <2>3. CASE m + 1 \in T
      <3>1. m + 1 \in A(m + 1)  BY <2>3
      <3>2. \A y \in A(m + 1) : m + 1 >= y  OBVIOUS
      <3> QED  BY <2>2, <3>1, <3>2
    <2>4. CASE m + 1 \notin T
      <3>1. A(m + 1) = A(m)  BY <2>4
      <3> QED  BY <2>1, <2>2, <3>1
    <2> QED  BY <2>3, <2>4
  <1>3. n \in S
    <2> HIDE DEF S
    <2>1. 0 .. n \subseteq S  BY <1>1, <1>2, Climb
    <2> QED  BY <2>1
  <1>4. A(n) = {0} \cup T  OBVIOUS
  <1> DEFINE B == {0} \cup T
  <1>5. \E x \in B : \A y \in B : x >= y  BY <1>3, <1>4
  <1>6. B \subseteq Int  OBVIOUS
  <1> HIDE DEF B
  <1>7. Max(B) \in B /\ \A y \in B : Max(B) >= y  BY <1>5 DEF Max
  <1>8. \A y \in B : y <= Max(B)  BY <1>6, <1>7
  <1> QED  BY <1>7, <1>8 DEF B

(* The n values of s do not fall.                                          *)
Ascending(s, n) == \A i, j \in 1 .. n : i <= j => s[i] <= s[j]

(* s lists the values of v at the members of T, each once.                 *)
Arranges(s, n, T, v) ==
  \E m \in [1 .. n -> T] :
    /\ \A i, j \in 1 .. n : m[i] = m[j] => i = j
    /\ \A x \in T : \E i \in 1 .. n : m[i] = x
    /\ \A i \in 1 .. n : s[i] = v[m[i]]

(* One step of the sort: a value is put in its place.                      *)
LEMMA InsertKeepsOrder ==
  ASSUME NEW n \in Nat, NEW s \in [1 .. n -> Nat], Len(s) = n, NEW key \in Nat,
         Ascending(s, n)
  PROVE  LET t == InsertSorted(s, key)
         IN  /\ place_of(s, key) \in 1 .. n + 1
             /\ t \in [1 .. n + 1 -> Nat]
             /\ Ascending(t, n + 1)
  <1> DEFINE T == {i \in DOMAIN s : s[i] <= key}
             p == place_of(s, key)
             t == InsertSorted(s, key)
  <1>1. T \in SUBSET (1 .. n)  OBVIOUS
  <1>2. p = Max({0} \cup T) + 1  BY DEF place_of
  <1> DEFINE q == Max({0} \cup T)
  <1>3. q \in {0} \cup T /\ \A y \in {0} \cup T : y <= q
    <2> HIDE DEF T
    <2> QED  BY <1>1, GreatestMember
  <1>4. q \in 0 .. n /\ p = q + 1  BY <1>1, <1>2, <1>3
  <1>5. \A i \in 1 .. n : i <= q => s[i] <= key
    <2> SUFFICES ASSUME NEW i \in 1 .. n, i <= q PROVE s[i] <= key  OBVIOUS
    <2>1. q \in T /\ q \in 1 .. n  BY <1>3, <1>4
    <2>2. s[q] <= key /\ s[q] \in Nat /\ s[i] \in Nat  BY <2>1
    <2>3. s[i] <= s[q]  BY <2>1 DEF Ascending
    <2> QED  BY <2>2, <2>3
  <1>6. \A i \in 1 .. n : i > q => s[i] > key
    <2> SUFFICES ASSUME NEW i \in 1 .. n, i > q PROVE s[i] > key  OBVIOUS
    <2>1. i \notin T  BY <1>3, <1>4
    <2>2. s[i] \in Nat  OBVIOUS
    <2> QED  BY <2>1, <2>2
  <1>7. t = [i \in 1 .. n + 1 |->
               IF i < p THEN s[i] ELSE IF i = p THEN key ELSE s[i - 1]]
    BY DEF InsertSorted
  <1> HIDE DEF T, q, p, t
  <1>8. p \in 1 .. n + 1  BY <1>4
  <1>9. ASSUME NEW i \in 1 .. n + 1
        PROVE  /\ i < p => i \in 1 .. n /\ t[i] = s[i] /\ s[i] <= key
               /\ i = p => t[i] = key
               /\ i > p => i - 1 \in 1 .. n /\ t[i] = s[i - 1] /\ s[i - 1] > key
               /\ t[i] \in Nat
    <2>1. i < p => i \in 1 .. n /\ t[i] = s[i] /\ s[i] <= key
      BY <1>4, <1>5, <1>7
    <2>2. i = p => t[i] = key  BY <1>7
    <2>3. i > p => i - 1 \in 1 .. n /\ t[i] = s[i - 1] /\ s[i - 1] > key
      BY <1>4, <1>6, <1>7
    <2>4. t[i] \in Nat  BY <1>8, <2>1, <2>2, <2>3
    <2> QED  BY <2>1, <2>2, <2>3, <2>4
  <1>10. t \in [1 .. n + 1 -> Nat]  BY <1>7, <1>9
  <1>11. ASSUME NEW i \in 1 .. n + 1, NEW j \in 1 .. n + 1, i <= j PROVE t[i] <= t[j]
    <2>1. CASE j < p
      <3>1. i < p  BY <1>8, <1>11, <2>1
      <3> QED  BY <1>9, <1>11, <2>1, <3>1 DEF Ascending
    <2>2. CASE j = p
      <3>1. i < p \/ i = p  BY <1>8, <1>11, <2>2
      <3> QED  BY <1>9, <2>2, <3>1
    <2>3. CASE j > p
      <3>1. j - 1 \in 1 .. n /\ t[j] = s[j - 1] /\ s[j - 1] > key /\ s[j - 1] \in Nat
        BY <1>9, <2>3
      <3>2. CASE i < p
        <4>1. t[i] = s[i] /\ s[i] <= key /\ s[i] \in Nat  BY <1>9, <3>2
        <4> QED  BY <3>1, <4>1
      <3>3. CASE i = p  BY <1>9, <3>1, <3>3
      <3>4. CASE i > p
        <4>1. i - 1 \in 1 .. n /\ t[i] = s[i - 1]  BY <1>9, <3>4
        <4>2. i - 1 <= j - 1  BY <1>11
        <4>3. s[i - 1] <= s[j - 1]  BY <3>1, <4>1, <4>2 DEF Ascending
        <4> QED  BY <3>1, <4>1, <4>3
      <3> QED  BY <1>8, <3>2, <3>3, <3>4
    <2> QED  BY <1>8, <2>1, <2>2, <2>3
  <1>12. Ascending(t, n + 1)  BY <1>11 DEF Ascending
  <1> QED  BY <1>8, <1>10, <1>12 DEF p, t

(* What is inserted joins what was listed.                                 *)
LEMMA InsertKeepsValues ==
  ASSUME NEW n \in Nat, NEW s, Len(s) = n, NEW T, NEW v, NEW x, x \notin T,
         Arranges(s, n, T, v), place_of(s, v[x]) \in 1 .. n + 1
  PROVE  Arranges(InsertSorted(s, v[x]), n + 1, T \cup {x}, v)
  <1> DEFINE p == place_of(s, v[x])
             t == InsertSorted(s, v[x])
  <1>1. PICK m \in [1 .. n -> T] :
               /\ \A i, j \in 1 .. n : m[i] = m[j] => i = j
               /\ \A y \in T : \E i \in 1 .. n : m[i] = y
               /\ \A i \in 1 .. n : s[i] = v[m[i]]
    BY DEF Arranges
  <1>2. t = [i \in 1 .. n + 1 |->
               IF i < p THEN s[i] ELSE IF i = p THEN v[x] ELSE s[i - 1]]
    BY DEF InsertSorted
  <1>3. p \in 1 .. n + 1  OBVIOUS
  <1> HIDE DEF p, t
  <1> DEFINE k == [i \in 1 .. n + 1 |-> IF i < p THEN m[i] ELSE IF i = p THEN x ELSE m[i - 1]]
  <1>4. ASSUME NEW i \in 1 .. n + 1
        PROVE  /\ i < p => i \in 1 .. n /\ k[i] = m[i] /\ m[i] \in T /\ t[i] = s[i]
               /\ i = p => k[i] = x /\ t[i] = v[x]
               /\ i > p => /\ i - 1 \in 1 .. n /\ k[i] = m[i - 1]
                           /\ m[i - 1] \in T /\ t[i] = s[i - 1]
    <2>1. i < p => i \in 1 .. n  BY <1>3
    <2>2. i > p => i - 1 \in 1 .. n  BY <1>3
    <2> QED  BY <1>2, <1>3, <2>1, <2>2
  <1>5. k \in [1 .. n + 1 -> T \cup {x}]
    <2>1. \A i \in 1 .. n + 1 : k[i] \in T \cup {x}  BY <1>3, <1>4
    <2> QED  BY <2>1
  <1> HIDE DEF k
  <1>6. ASSUME NEW i \in 1 .. n + 1, NEW j \in 1 .. n + 1, k[i] = k[j] PROVE i = j
    <2>1. CASE i < p
      <3>1. k[i] = m[i] /\ k[i] # x /\ i \in 1 .. n  BY <1>4, <2>1
      <3>2. CASE j < p
        <4>1. j \in 1 .. n /\ m[j] = m[i]  BY <1>4, <1>6, <3>1, <3>2
        <4> QED  BY <1>1, <3>1, <4>1
      <3>3. CASE j = p  BY <1>4, <1>6, <3>1, <3>3
      <3>4. CASE j > p
        <4>1. j - 1 \in 1 .. n /\ m[j - 1] = m[i]  BY <1>4, <1>6, <3>1, <3>4
        <4>2. j - 1 = i  BY <1>1, <3>1, <4>1
        <4> QED  BY <1>3, <2>1, <3>4, <4>2
      <3> QED  BY <1>3, <3>2, <3>3, <3>4
    <2>2. CASE i = p
      <3>1. j < p \/ j = p \/ j > p  BY <1>3
      <3> QED  BY <1>4, <1>6, <2>2, <3>1
    <2>3. CASE i > p
      <3>1. k[i] = m[i - 1] /\ k[i] # x /\ i - 1 \in 1 .. n  BY <1>4, <2>3
      <3>2. CASE j < p
        <4>1. j \in 1 .. n /\ m[j] = m[i - 1]  BY <1>4, <1>6, <3>1, <3>2
        <4>2. j = i - 1  BY <1>1, <3>1, <4>1
        <4> QED  BY <1>3, <2>3, <3>2, <4>2
      <3>3. CASE j = p  BY <1>4, <1>6, <3>1, <3>3
      <3>4. CASE j > p
        <4>1. j - 1 \in 1 .. n /\ m[j - 1] = m[i - 1]  BY <1>4, <1>6, <3>1, <3>4
        <4>2. j - 1 = i - 1  BY <1>1, <3>1, <4>1
        <4> QED  BY <4>2
      <3> QED  BY <1>3, <3>2, <3>3, <3>4
    <2> QED  BY <1>3, <2>1, <2>2, <2>3
  <1>7. ASSUME NEW y \in T \cup {x} PROVE \E i \in 1 .. n + 1 : k[i] = y
    <2>1. CASE y = x  BY <1>3, <1>4, <2>1
    <2>2. CASE y \in T
      <3>1. PICK i \in 1 .. n : m[i] = y  BY <1>1, <2>2
      <3>2. CASE i < p
        <4>1. i \in 1 .. n + 1 /\ k[i] = y  BY <1>4, <3>1, <3>2
        <4> QED  BY <4>1
      <3>3. CASE i >= p
        <4>1. i + 1 \in 1 .. n + 1 /\ i + 1 > p /\ i + 1 - 1 = i  BY <1>3, <3>3
        <4>2. k[i + 1] = y  BY <1>4, <3>1, <4>1
        <4> QED  BY <4>1, <4>2
      <3> QED  BY <1>3, <3>2, <3>3
    <2> QED  BY <2>1, <2>2
  <1>8. ASSUME NEW i \in 1 .. n + 1 PROVE t[i] = v[k[i]]
    <2>1. i < p \/ i = p \/ i > p  BY <1>3
    <2> QED  BY <1>1, <1>4, <2>1
  <1>9. Arranges(t, n + 1, T \cup {x}, v)  BY <1>5, <1>6, <1>7, <1>8 DEF Arranges
  <1> QED  BY <1>9 DEF t

(* F holds the list after each step of the sort.                           *)
Sorting(F, values) ==
  F = [k \in 0 .. Len(values) |->
         IF k = 0 THEN <<>> ELSE InsertSorted(F[k - 1], values[k])]

(* sort_ascending takes these steps.                                       *)
LEMMA SortSteps ==
  ASSUME NEW values, Len(values) \in Nat
  PROVE  \E F : Sorting(F, values) /\ sort_ascending(values) = F[Len(values)]
  <1> DEFINE n == Len(values)
             next(k, x) == InsertSorted(x, values[k])
             Upto(m, f) == f = [k \in 0 .. m |-> IF k = 0 THEN <<>> ELSE next(k, f[k - 1])]
             S == {m \in 0 .. n : \E f : Upto(m, f)}
  <1>1. 0 \in S
    <2> DEFINE f == [k \in 0 .. 0 |-> <<>>]
    <2>1. Upto(0, f)  OBVIOUS
    <2> HIDE DEF f, Upto
    <2> QED  BY <2>1
  <1>2. ASSUME NEW m \in 0 .. n - 1, m \in S PROVE m + 1 \in S
    <2>1. PICK f : Upto(m, f)  BY <1>2
    <2> DEFINE g == [k \in 0 .. m + 1 |-> IF k = m + 1 THEN next(m + 1, f[m]) ELSE f[k]]
    <2> HIDE DEF next
    <2>2. ASSUME NEW k \in 0 .. m + 1
          PROVE  g[k] = IF k = 0 THEN <<>> ELSE next(k, g[k - 1])
      <3>1. CASE k = m + 1
        <4>1. k # 0 /\ k - 1 = m /\ m \in 0 .. m + 1 /\ m # m + 1  BY <3>1
        <4> QED  BY <3>1, <4>1
      <3>2. CASE k # m + 1
        <4>1. k \in 0 .. m /\ g[k] = f[k]  BY <3>2
        <4>2. k # 0 => k - 1 \in 0 .. m /\ k - 1 # m + 1 /\ k - 1 \in 0 .. m + 1  BY <4>1
        <4>3. k # 0 => g[k - 1] = f[k - 1]  BY <4>2
        <4>4. f[k] = IF k = 0 THEN <<>> ELSE next(k, f[k - 1])  BY <2>1, <4>1
        <4> QED  BY <4>1, <4>3, <4>4
      <3> QED  BY <3>1, <3>2
    <2>3. g = [k \in 0 .. m + 1 |-> g[k]]  OBVIOUS
    <2>4. Upto(m + 1, g)
      <3> HIDE DEF g
      <3> QED  BY <2>2, <2>3
    <2>5. m + 1 \in 0 .. n  OBVIOUS
    <2> QED  BY <2>4, <2>5
  <1>3. n \in S
    <2> HIDE DEF S
    <2>1. 0 .. n \subseteq S  BY <1>1, <1>2, Climb
    <2> QED  BY <2>1
  <1>4. PICK f : Upto(n, f)  BY <1>3
  <1>5. Sorting(f, values)  BY <1>4 DEF Sorting
  <1>6. sort_ascending(values) =
          (CHOOSE F : F = [k \in 0 .. Len(values) |->
                             IF k = 0 THEN <<>> ELSE InsertSorted(F[k - 1], values[k])])[Len(values)]
    BY DEF sort_ascending
  <1>7. (CHOOSE F : F = [k \in 0 .. Len(values) |->
                             IF k = 0 THEN <<>> ELSE InsertSorted(F[k - 1], values[k])])
          = CHOOSE F : Sorting(F, values)
    BY DEF Sorting
  <1>8. Sorting(CHOOSE F : Sorting(F, values), values)  BY <1>5
  <1> QED  BY <1>6, <1>7, <1>8

(* s holds the n values of v, in ascending order.                          *)
SortOf(s, n, v) ==
  /\ s \in [1 .. n -> Nat]
  /\ Len(s) = n
  /\ Ascending(s, n)
  /\ Arranges(s, n, 1 .. n, v)

(* The sort sorts: its result ascends and holds the values it was given.   *)
LEMMA SortSorts ==
  ASSUME NEW n \in Nat, NEW values \in [1 .. n -> Nat], Len(values) = n
  PROVE  SortOf(sort_ascending(values), n, values)
  <1>1. PICK F : Sorting(F, values) /\ sort_ascending(values) = F[n]  BY SortSteps
  <1>2. F = [k \in 0 .. n |-> IF k = 0 THEN <<>> ELSE InsertSorted(F[k - 1], values[k])]
    BY <1>1 DEF Sorting
  <1>3. F[0] = <<>>  BY <1>2
  <1>4. \A k \in 1 .. n : F[k] = InsertSorted(F[k - 1], values[k])  BY <1>2
  <1> DEFINE S == {k \in 0 .. n : SortOf(F[k], k, values)}
  <1>5. 0 \in S
    <2>1. F[0] \in [1 .. 0 -> Nat] /\ Len(F[0]) = 0  BY <1>3
    <2>2. Ascending(F[0], 0)  BY DEF Ascending
    <2>3. Arranges(F[0], 0, 1 .. 0, values)
      <3> DEFINE e == [i \in 1 .. 0 |-> i]
      <3>1. e \in [1 .. 0 -> 1 .. 0]  OBVIOUS
      <3>2. 1 .. 0 = {}  OBVIOUS
      <3> HIDE DEF e
      <3> QED  BY <3>1, <3>2 DEF Arranges
    <2> QED  BY <2>1, <2>2, <2>3 DEF SortOf
  <1>6. ASSUME NEW m \in 0 .. n - 1, m \in S PROVE m + 1 \in S
    <2> DEFINE s == F[m]
               key == values[m + 1]
               t == InsertSorted(s, key)
               T == 1 .. m
    <2>1. m \in Nat /\ m + 1 \in 1 .. n /\ m + 1 - 1 = m /\ m + 1 \in 0 .. n  OBVIOUS
    <2>2. F[m + 1] = t  BY <1>4, <2>1
    <2>3. key \in Nat  BY <2>1
    <2>4. /\ s \in [1 .. m -> Nat] /\ Len(s) = m
          /\ Ascending(s, m) /\ Arranges(s, m, T, values)
      BY <1>6 DEF SortOf
    <2>5. m + 1 \notin T /\ T \cup {m + 1} = 1 .. m + 1  BY <2>1
    <2> HIDE DEF s, key, T
    <2>6. /\ place_of(s, key) \in 1 .. m + 1
          /\ t \in [1 .. m + 1 -> Nat]
          /\ Ascending(t, m + 1)
      BY <2>1, <2>3, <2>4, InsertKeepsOrder
    <2>7. Arranges(t, m + 1, T \cup {m + 1}, values)
      BY <2>1, <2>4, <2>5, <2>6, InsertKeepsValues DEF key
    <2>8. Len(t) = m + 1  BY <2>1, <2>4 DEF InsertSorted
    <2> HIDE DEF t
    <2>9. SortOf(t, m + 1, values)  BY <2>5, <2>6, <2>7, <2>8 DEF SortOf
    <2> QED  BY <2>1, <2>2, <2>9
  <1>7. n \in S
    <2> HIDE DEF S
    <2>1. 0 .. n \subseteq S  BY <1>5, <1>6, Climb
    <2> QED  BY <2>1
  <1> QED  BY <1>1, <1>7

(* The sorted values are the values of the valid slots.                    *)
LEMMA SortedValues ==
  ASSUME OracleIInv
  PROVE  LET n == Cardinality(valid_slots)
             v == [slot \in valid_slots |-> obs[slot].value]
         IN  /\ n \in Nat
             /\ sorted_values \in [1 .. n -> Nat]
             /\ Len(sorted_values) = n
             /\ Ascending(sorted_values, n)
             /\ Arranges(sorted_values, n, valid_slots, v)
  <1> DEFINE n == Cardinality(valid_slots)
             v == [slot \in valid_slots |-> obs[slot].value]
             f == SetToSeq(valid_slots)
             c == collected
             s == sorted_values
  <1>1. count \in Nat /\ IsFiniteSet(0 .. count - 1)
    <2>1. count \in Nat  BY RingAssumption DEF OracleIInv, OracleTypeOK
    <2>2. 0 \in Int /\ count - 1 \in Int  BY <2>1
    <2> QED  BY <2>1, <2>2, FS_Interval
  <1>2. valid_slots \in SUBSET (0 .. count - 1)  BY DEF valid_slots
  <1>3. IsFiniteSet(valid_slots)  BY <1>1, <1>2, FS_Subset
  <1>4. n \in Nat /\ ExistsBijection(1 .. n, valid_slots)
    BY <1>3, FS_CardinalityType
  <1>5. \A slot \in valid_slots : v[slot] \in Nat
    BY DEF valid_slots, counts, Has, OracleIInv, OracleTypeOK, Observation
  <1>6. \E g \in [1 .. n -> valid_slots] : IsInjective(g)
    BY <1>4 DEF ExistsBijection, Bijection, Injection
  <1>7. f \in [1 .. n -> valid_slots] /\ IsInjective(f)
    BY <1>6 DEF SetToSeq
  <1>8. \A i, j \in 1 .. n : f[i] = f[j] => i = j
    BY <1>7 DEF IsInjective
  <1>9. \A x \in valid_slots : \E i \in 1 .. n : f[i] = x
    <2>1. f \in Injection(1 .. n, valid_slots)  BY <1>7 DEF Injection
    <2>2. IsFiniteSet(1 .. n) /\ Cardinality(1 .. n) = n  BY <1>4, FS_Interval
    <2> HIDE DEF f
    <2>3. f \in Surjection(1 .. n, valid_slots)
      BY <1>3, <2>1, <2>2, FS_Injection
    <2> QED  BY <2>3 DEF Surjection
  <1>10. c = [i \in 1 .. n |-> v[f[i]]]  BY <1>7 DEF collected, collected_of
  <1>11. c \in [1 .. n -> Nat]  BY <1>5, <1>7, <1>10
  <1> HIDE DEF f, n
  <1>12. Len(c) = n  BY <1>4, <1>10
  <1> HIDE DEF v, c
  <1>13. SortOf(s, n, c)  BY <1>4, <1>11, <1>12, SortSorts DEF sorted_values, c
  <1>14. PICK m \in [1 .. n -> 1 .. n] :
                /\ \A i, j \in 1 .. n : m[i] = m[j] => i = j
                /\ \A x \in 1 .. n : \E i \in 1 .. n : m[i] = x
                /\ \A i \in 1 .. n : s[i] = c[m[i]]
    BY <1>13 DEF SortOf, Arranges
  <1> DEFINE k == [i \in 1 .. n |-> f[m[i]]]
  <1>15. \A i \in 1 .. n : m[i] \in 1 .. n /\ k[i] = f[m[i]]  OBVIOUS
  <1>16. k \in [1 .. n -> valid_slots]  BY <1>7, <1>15
  <1> HIDE DEF k
  <1>17. \A i, j \in 1 .. n : k[i] = k[j] => i = j
    <2> SUFFICES ASSUME NEW i \in 1 .. n, NEW j \in 1 .. n, k[i] = k[j] PROVE i = j
      OBVIOUS
    <2>1. f[m[i]] = f[m[j]] /\ m[i] \in 1 .. n /\ m[j] \in 1 .. n  BY <1>15
    <2>2. m[i] = m[j]  BY <1>8, <2>1
    <2> QED  BY <1>14, <2>2
  <1>18. \A x \in valid_slots : \E i \in 1 .. n : k[i] = x
    <2> SUFFICES ASSUME NEW x \in valid_slots PROVE \E i \in 1 .. n : k[i] = x  OBVIOUS
    <2>1. PICK j \in 1 .. n : f[j] = x  BY <1>9
    <2>2. PICK i \in 1 .. n : m[i] = j  BY <1>14
    <2> QED  BY <1>15, <2>1, <2>2
  <1>19. \A i \in 1 .. n : s[i] = v[k[i]]  BY <1>10, <1>14, <1>15
  <1>20. Arranges(s, n, valid_slots, v)  BY <1>16, <1>17, <1>18, <1>19 DEF Arranges
  <1> QED  BY <1>4, <1>13, <1>20 DEF SortOf, n, v

(* Every member of Low is listed at one of the positions a to b.           *)
ListedIn(Low, m, a, b) == \A x \in Low : \E i \in a .. b : m[i] = x

(* Positions a to b of a list of slots hold at most that many slots.       *)
LEMMA FewSlots ==
  ASSUME NEW n \in Nat, NEW T, NEW m \in [1 .. n -> T], NEW h \in Nat,
         NEW a \in 1 .. n + 1, NEW b \in 0 .. n, b - a + 1 <= h,
         NEW Low, ListedIn(Low, m, a, b)
  PROVE  IsFiniteSet(Low) /\ Cardinality(Low) <= h
  <1> DEFINE D == a .. b
             g == [i \in D |-> m[i]]
             G == {m[i] : i \in D}
  <1>1. /\ IsFiniteSet(D)
        /\ Cardinality(D) = IF a > b THEN 0 ELSE b - a + 1
    <2>1. a \in Int /\ b \in Int  OBVIOUS
    <2> QED  BY <2>1, FS_Interval
  <1>2. Cardinality(D) <= h /\ Cardinality(D) \in Nat  BY <1>1
  <1>3. g \in Surjection(D, G)  BY DEF Surjection
  <1>4. Low \subseteq G  BY DEF ListedIn
  <1> HIDE DEF D, g, G
  <1>5. IsFiniteSet(G) /\ Cardinality(G) <= Cardinality(D)
    BY <1>1, <1>3, FS_Surjection
  <1>6. IsFiniteSet(Low) /\ Cardinality(Low) <= Cardinality(G)
    BY <1>4, <1>5, FS_Subset
  <1>7. Cardinality(G) \in Nat /\ Cardinality(Low) \in Nat
    BY <1>5, <1>6, FS_CardinalityType
  <1> QED  BY <1>2, <1>5, <1>6, <1>7

(* The middle lies between the two middle values: what is below it sits in *)
(* the lower half, what is above it in the upper half.                     *)
LEMMA MiddleSplits ==
  ASSUME NEW n \in Nat, n > 0, NEW s \in [1 .. n -> Nat], Len(s) = n, Ascending(s, n)
  PROVE  LET h == n \div 2
             x == middle(s)
         IN  /\ h \in Nat /\ 2 * h <= n /\ n <= 2 * h + 1
             /\ x \in Nat
             /\ \A i \in 1 .. n : s[i] < x => i <= h
             /\ \A i \in 1 .. n : s[i] > x => i >= n - h + 1
  <1> DEFINE h == n \div 2
             x == middle(s)
  <1>1. h \in Nat /\ (n % 2 = 1 \/ n % 2 = 0) /\ n = 2 * h + (n % 2)  BY SMT
  <1>2. x = IF n % 2 = 1 THEN s[h + 1] ELSE (s[h] + s[h + 1]) \div 2  BY DEF middle
  <1> HIDE DEF h, x
  <1>3. CASE n % 2 = 1
    <2>1. n = 2 * h + 1 /\ h + 1 \in 1 .. n  BY <1>1, <1>3
    <2>2. x = s[h + 1] /\ x \in Nat  BY <1>2, <1>3, <2>1
    <2>3. \A i \in 1 .. n : s[i] < x => i <= h
      <3> SUFFICES ASSUME NEW i \in 1 .. n, s[i] < x, i > h PROVE FALSE  BY <1>1
      <3>1. h + 1 <= i  BY <1>1
      <3>2. s[h + 1] <= s[i]  BY <2>1, <3>1 DEF Ascending
      <3>3. s[i] \in Nat  OBVIOUS
      <3> QED  BY <2>2, <3>2, <3>3
    <2>4. \A i \in 1 .. n : s[i] > x => i >= n - h + 1
      <3> SUFFICES ASSUME NEW i \in 1 .. n, s[i] > x, i <= h + 1 PROVE FALSE
        BY <1>1, <2>1
      <3>1. s[i] <= s[h + 1]  BY <2>1 DEF Ascending
      <3>2. s[i] \in Nat  OBVIOUS
      <3> QED  BY <2>2, <3>1, <3>2
    <2> QED  BY <1>1, <2>1, <2>2, <2>3, <2>4 DEF h, x
  <1>4. CASE n % 2 = 0
    <2>1. n = 2 * h /\ h \in 1 .. n /\ h + 1 \in 1 .. n  BY <1>1, <1>4
    <2> DEFINE u == s[h]
               w == s[h + 1]
    <2>2. u \in Nat /\ w \in Nat  BY <2>1
    <2>3. u <= w  BY <2>1 DEF Ascending
    <2>4. x = (u + w) \div 2  BY <1>2, <1>4
    <2> HIDE DEF u, w
    <2>5. x \in Nat /\ u <= x /\ x <= w  BY <2>2, <2>3, <2>4, SMT
    <2>6. \A i \in 1 .. n : s[i] < x => i <= h
      <3> SUFFICES ASSUME NEW i \in 1 .. n, s[i] < x, i > h PROVE FALSE  BY <1>1
      <3>1. h + 1 <= i  BY <1>1
      <3>2. w <= s[i]  BY <2>1, <3>1 DEF Ascending, w
      <3>3. s[i] \in Nat  OBVIOUS
      <3> QED  BY <2>2, <2>5, <3>2, <3>3
    <2>7. \A i \in 1 .. n : s[i] > x => i >= n - h + 1
      <3> SUFFICES ASSUME NEW i \in 1 .. n, s[i] > x, i <= h PROVE FALSE
        BY <1>1, <2>1
      <3>1. s[i] <= u  BY <2>1 DEF Ascending, u
      <3>2. s[i] \in Nat  OBVIOUS
      <3> QED  BY <2>2, <2>5, <3>1, <3>2
    <2> QED  BY <1>1, <2>1, <2>5, <2>6, <2>7 DEF h, x
  <1> QED  BY <1>1, <1>3, <1>4

(* The slots whose value is below and above the median.                    *)
Below == {slot \in valid_slots : obs[slot].value < median}
Above == {slot \in valid_slots : obs[slot].value > median}

(* Each is at most half of the valid slots.                                *)
LEMMA MedianSplits ==
  ASSUME OracleIInv, median_defined
  PROVE  /\ IsFiniteSet(valid_slots)
         /\ median \in Nat
         /\ IsFiniteSet(Below) /\ IsFiniteSet(Above)
         /\ 2 * Cardinality(Below) <= Cardinality(valid_slots)
         /\ 2 * Cardinality(Above) <= Cardinality(valid_slots)
  <1> DEFINE n == Cardinality(valid_slots)
             v == [slot \in valid_slots |-> obs[slot].value]
             s == sorted_values
             h == n \div 2
             x == median
  <1>1. /\ n \in Nat /\ s \in [1 .. n -> Nat] /\ Len(s) = n /\ Ascending(s, n)
        /\ Arranges(s, n, valid_slots, v)
    BY SortedValues
  <1>2. PICK m \in [1 .. n -> valid_slots] :
               /\ \A slot \in valid_slots : \E i \in 1 .. n : m[i] = slot
               /\ \A i \in 1 .. n : s[i] = v[m[i]]
    BY <1>1 DEF Arranges
  <1>3. valid_slots # {}  BY DEF median_defined
  <1>4. n > 0  BY <1>1, <1>2, <1>3
  <1>5. x = middle(s)  BY DEF median
  <1> HIDE DEF n, s, x
  <1>6. /\ h \in Nat /\ 2 * h <= n /\ n <= 2 * h + 1
        /\ x \in Nat
        /\ \A i \in 1 .. n : s[i] < x => i <= h
        /\ \A i \in 1 .. n : s[i] > x => i >= n - h + 1
    BY <1>1, <1>4, <1>5, MiddleSplits
  <1> HIDE DEF h
  <1>7. \A i \in 1 .. n : m[i] \in valid_slots /\ s[i] = obs[m[i]].value  BY <1>2
  <1> DEFINE L == Below
             U == Above
  <1>8. ListedIn(L, m, 1, h)
    <2> SUFFICES ASSUME NEW slot \in L PROVE \E i \in 1 .. h : m[i] = slot
      BY DEF ListedIn
    <2>1. slot \in valid_slots /\ obs[slot].value < x  BY DEF Below, x
    <2>2. PICK i \in 1 .. n : m[i] = slot  BY <1>2, <2>1
    <2>3. s[i] < x  BY <1>7, <2>1, <2>2
    <2>4. i \in 1 .. h  BY <1>1, <1>6, <2>3
    <2> QED  BY <2>2, <2>4
  <1>9. ListedIn(U, m, n - h + 1, n)
    <2> SUFFICES ASSUME NEW slot \in U PROVE \E i \in n - h + 1 .. n : m[i] = slot
      BY DEF ListedIn
    <2>1. slot \in valid_slots /\ obs[slot].value > x  BY DEF Above, x
    <2>2. PICK i \in 1 .. n : m[i] = slot  BY <1>2, <2>1
    <2>3. s[i] > x  BY <1>7, <2>1, <2>2
    <2>4. i \in n - h + 1 .. n  BY <1>1, <1>6, <2>3
    <2> QED  BY <2>2, <2>4
  <1> HIDE DEF L, U
  <1>10. IsFiniteSet(L) /\ Cardinality(L) <= h
    <2>1. 1 \in 1 .. n + 1 /\ h \in 0 .. n /\ h - 1 + 1 <= h  BY <1>1, <1>6
    <2> QED  BY <1>1, <1>6, <1>8, <2>1, FewSlots
  <1>11. IsFiniteSet(U) /\ Cardinality(U) <= h
    <2>1. n - h + 1 \in 1 .. n + 1 /\ n \in 0 .. n /\ n - (n - h + 1) + 1 <= h
      BY <1>1, <1>6
    <2> QED  BY <1>1, <1>6, <1>9, <2>1, FewSlots
  <1>12. Cardinality(L) \in Nat /\ Cardinality(U) \in Nat
    BY <1>10, <1>11, FS_CardinalityType
  <1>13. 2 * Cardinality(L) <= n /\ 2 * Cardinality(U) <= n
    BY <1>1, <1>6, <1>10, <1>11, <1>12
  <1>14. IsFiniteSet(valid_slots)
    <2>1. ListedIn(valid_slots, m, 1, n)  BY <1>2 DEF ListedIn
    <2>2. 1 \in 1 .. n + 1 /\ n \in 0 .. n /\ n - 1 + 1 <= n  BY <1>1
    <2> QED  BY <1>1, <2>1, <2>2, FewSlots
  <1> QED  BY <1>6, <1>10, <1>11, <1>13, <1>14 DEF L, U, n, x

-----------------------------------------------------------------------------
(***************************************************************************)
(* The theorems.                                                           *)
(***************************************************************************)

(* Type correctness: no stored timestamp, sequence number or counter       *)
(* leaves its range, and no negative value is ever stored.                 *)
THEOREM OracleTypeCorrect == OracleSpec => []OracleTypeOK
  <1>1. OracleIInv => OracleTypeOK  BY DEF OracleIInv
  <1> QED  BY <1>1, OracleInvariance, PTL

(* execute_publisher never executes a change that changes nothing, though  *)
(* it does not look at the registry again when the timelock is over.       *)
THEOREM PendingMatches == OracleSpec => []PendingMatchesRegistry
  <1>1. OracleIInv => PendingMatchesRegistry  BY DEF OracleIInv
  <1> QED  BY <1>1, OracleInvariance, PTL

(* Two changes of a key are a timelock apart, whatever is proposed and     *)
(* cancelled in between.                                                   *)
THEOREM FlipsSpaced == OracleSpec => FlipsAreSpaced
  <1>1. ASSUME OracleIInv, [OracleNext]_oracle_vars PROVE [FlipsAreSpacedStep]_oracle_vars
    <2>1. ASSUME NEW p \in Publishers, execute_publisher(p) PROVE FlipsAreSpacedStep
      <3> SUFFICES ASSUME NEW q \in DOMAIN changed_at, (q \in active) # (q \in active)'
                   PROVE  now - changed_at[q] >= REGISTRY_TIMELOCK_SECS
        BY DEF FlipsAreSpacedStep
      <3>1. q = p
        <4>1. ASSUME q # p PROVE FALSE
          <5>1. q \in DOMAIN publisher' <=> q \in DOMAIN publisher
            BY <2>1, <4>1 DEF execute_publisher, Put
          <5>2. q \in DOMAIN publisher => publisher'[q] = publisher[q]
            BY <2>1, <4>1 DEF execute_publisher, Put
          <5> QED  BY <5>1, <5>2 DEF active
        <4> QED  BY <4>1
      <3>2. /\ p \in DOMAIN pending
            /\ now >= pending[p].eta
            /\ pending[p].eta >= changed_at[p] + REGISTRY_TIMELOCK_SECS
        BY <1>1, <2>1, <3>1 DEF execute_publisher, timelock_over, Has, OracleIInv, PendingAfterChange
      <3>3. pending[p].eta \in Nat /\ changed_at[p] \in Nat /\ now \in Nat
        BY <1>1, <3>1, <3>2 DEF OracleIInv, OracleTypeOK
      <3> QED  BY <3>1, <3>2, <3>3, TimeAssumption, MaxTimeAssumption
    <2>2. ASSUME UNCHANGED publisher PROVE FlipsAreSpacedStep
      BY <2>2 DEF FlipsAreSpacedStep, active
    <2>3. OracleNext => UNCHANGED publisher \/ \E p \in Publishers : execute_publisher(p)
      BY DEF OracleNext, OracleTick, later, propose_publisher, cancel_publisher, submit, challenge,
             unchallenge, registry
    <2> QED  BY <1>1, <2>1, <2>2, <2>3 DEF oracle_vars, registry
  <1>2. OracleIInv /\ [OracleNext]_oracle_vars => [FlipsAreSpacedStep]_oracle_vars  BY <1>1
  <1> QED  BY <1>2, OracleInvariance, PTL DEF OracleSpec, FlipsAreSpaced

(* The ring holds the last count submissions and nothing else.             *)
THEOREM RingHolds == OracleSpec => []RingHoldsLatest
  <1>1. ASSUME OracleIInv PROVE RingHoldsLatest
    <2>1. /\ next_seq \in Nat /\ count \in Nat /\ count <= RING_SIZE
          /\ RING_SIZE \in Nat \ {0} /\ count <= next_seq
      BY <1>1, RingAssumption DEF OracleIInv, OracleTypeOK, RingInPlace, Least
    <2>2. ASSUME NEW n \in next_seq - count .. next_seq - 1
          PROVE  n % RING_SIZE \in DOMAIN obs /\ seq_in[n % RING_SIZE] = n
      <3> DEFINE s == n % RING_SIZE
      <3>1. n \in Nat  BY <2>1
      <3>2. s \in 0 .. RING_SIZE - 1  BY <2>1, <3>1, SlotOf
      <3>3. s \in 0 .. count - 1
        <4>1. CASE count = RING_SIZE  BY <3>2, <4>1
        <4>2. CASE count # RING_SIZE
          <5>1. count = next_seq /\ n < RING_SIZE
            BY <1>1, <2>1, <4>2 DEF OracleIInv, RingInPlace, Least
          <5>2. s = n  BY <2>1, <3>1, <5>1, SmallSlot
          <5> QED  BY <2>1, <5>1, <5>2
        <4> QED  BY <4>1, <4>2
      <3>4. s \in DOMAIN obs /\ s \in DOMAIN seq_in
        BY <1>1, <3>3 DEF OracleIInv, RingInPlace
      <3>5. seq_in[s] \in next_seq - count .. next_seq - 1 /\ seq_in[s] % RING_SIZE = s
        BY <1>1, <3>4 DEF OracleIInv, RingInPlace
      <3> DEFINE m == seq_in[s]
      <3>6. m \in Nat /\ m % RING_SIZE = n % RING_SIZE  BY <2>1, <3>5
      <3>7. m - n < RING_SIZE /\ n - m < RING_SIZE  BY <2>1, <3>5
      <3> HIDE DEF m
      <3>8. ~(m < n)
        <4>1. ASSUME m < n PROVE n - m >= RING_SIZE
          BY <2>1, <3>1, <3>6, <4>1, SameSlot
        <4> QED  BY <2>1, <3>1, <3>6, <3>7, <4>1
      <3>9. ~(n < m)
        <4>1. ASSUME n < m PROVE m - n >= RING_SIZE
          BY <2>1, <3>1, <3>6, <4>1, SameSlot
        <4> QED  BY <2>1, <3>1, <3>6, <3>7, <4>1
      <3>10. m = n  BY <3>1, <3>6, <3>8, <3>9
      <3> QED  BY <3>4, <3>10 DEF m
    <2>3. \A slot \in DOMAIN obs : seq_in[slot] \in next_seq - count .. next_seq - 1
      BY <1>1 DEF OracleIInv, RingInPlace
    <2>4. DOMAIN obs = 0 .. count - 1  BY <1>1 DEF OracleIInv, RingInPlace
    <2> QED  BY <2>2, <2>3, <2>4 DEF RingHoldsLatest
  <1>2. OracleIInv => RingHoldsLatest  BY <1>1
  <1> QED  BY <1>2, OracleInvariance, PTL

(* A flag always excludes the observation it was set on.                   *)
THEOREM FlagFollows == OracleSpec => []FlagFollowsObservation
  <1>1. OracleIInv => FlagFollowsObservation
    BY DEF OracleIInv, FlagsRecorded, FlagFollowsObservation, Has
  <1> QED  BY <1>1, OracleInvariance, PTL

(* The insertion sort and the choice of the middle yield a median: of the  *)
(* fresh, not flagged observations at most half lie below it and at most   *)
(* half above, for every ring size and every content of the ring (median,  *)
(* sort_ascending).                                                        *)
THEOREM MedianCentral == OracleSpec => []MedianIsCentral
  <1>1. ASSUME OracleIInv, median_defined
        PROVE  LET fresh == {slot \in DOMAIN obs :
                               now - obs[slot].timestamp <= STALENESS /\ slot \notin challenged}
               IN  /\ 2 * Cardinality({slot \in fresh : obs[slot].value < median})
                        <= Cardinality(fresh)
                   /\ 2 * Cardinality({slot \in fresh : obs[slot].value > median})
                        <= Cardinality(fresh)
    <2> DEFINE fresh == {slot \in DOMAIN obs :
                           now - obs[slot].timestamp <= STALENESS /\ slot \notin challenged}
    <2>1. DOMAIN obs = 0 .. count - 1  BY <1>1 DEF OracleIInv, RingInPlace
    <2>2. fresh = valid_slots  BY <2>1 DEF valid_slots, counts, Has
    <2>3. /\ {slot \in fresh : obs[slot].value < median} = Below
          /\ {slot \in fresh : obs[slot].value > median} = Above
      BY <2>2 DEF Below, Above
    <2>4. /\ 2 * Cardinality(Below) <= Cardinality(valid_slots)
          /\ 2 * Cardinality(Above) <= Cardinality(valid_slots)
      BY <1>1, MedianSplits
    <2> HIDE DEF fresh
    <2>5. /\ 2 * Cardinality({slot \in fresh : obs[slot].value < median}) <= Cardinality(fresh)
          /\ 2 * Cardinality({slot \in fresh : obs[slot].value > median}) <= Cardinality(fresh)
      BY <2>2, <2>3, <2>4
    <2> QED  BY <2>5 DEF fresh
  <1>2. OracleIInv => MedianIsCentral  BY <1>1 DEF MedianIsCentral
  <1> QED  BY <1>2, OracleInvariance, PTL

(* A set that leaves out a minority of the valid slots is not contained in *)
(* half of them.                                                           *)
LEMMA MajorityReaches ==
  ASSUME NEW V, IsFiniteSet(V), NEW P \in SUBSET V, NEW H \in SUBSET V,
         2 * Cardinality(P) < Cardinality(V), 2 * Cardinality(H) <= Cardinality(V)
  PROVE  \E slot \in V \ P : slot \notin H
  <1>1. IsFiniteSet(P) /\ IsFiniteSet(H)  BY FS_Subset
  <1>2. /\ Cardinality(V) \in Nat /\ Cardinality(P) \in Nat /\ Cardinality(H) \in Nat
    BY <1>1, FS_CardinalityType
  <1>3. SUFFICES ASSUME V \ P \subseteq H PROVE FALSE  OBVIOUS
  <1>4. V = P \cup H  BY <1>3
  <1>5. IsFiniteSet(P \cap H)  BY <1>1, FS_Subset
  <1>6. Cardinality(P \cap H) \in Nat  BY <1>5, FS_CardinalityType
  <1>7. Cardinality(P \cup H) = Cardinality(P) + Cardinality(H) - Cardinality(P \cap H)
    BY <1>1, FS_Union
  <1>8. Cardinality(V) = Cardinality(P) + Cardinality(H) - Cardinality(P \cap H)
    BY <1>4, <1>7
  <1> QED  BY <1>2, <1>6, <1>8

(* Whoever has fewer than half of the valid observations leaves the median *)
(* between two values of the others, whatever they sign (median).          *)
THEOREM MinorityBounded == OracleSpec => []MinorityIsBounded
  <1>1. ASSUME OracleIInv, median_defined, NEW p \in Publishers,
               2 * Cardinality(OfPublisher(p)) < Cardinality(valid_slots)
        PROVE  \E lo, hi \in valid_slots \ OfPublisher(p) :
                 obs[lo].value <= median /\ median <= obs[hi].value
    <2>1. /\ IsFiniteSet(valid_slots) /\ median \in Nat
          /\ 2 * Cardinality(Below) <= Cardinality(valid_slots)
          /\ 2 * Cardinality(Above) <= Cardinality(valid_slots)
      BY <1>1, MedianSplits
    <2>2. /\ OfPublisher(p) \in SUBSET valid_slots
          /\ Below \in SUBSET valid_slots /\ Above \in SUBSET valid_slots
      BY DEF OfPublisher, Below, Above
    <2>3. PICK lo \in valid_slots \ OfPublisher(p) : lo \notin Above
      BY <1>1, <2>1, <2>2, MajorityReaches
    <2>4. PICK hi \in valid_slots \ OfPublisher(p) : hi \notin Below
      BY <1>1, <2>1, <2>2, MajorityReaches
    <2>5. \A slot \in valid_slots : obs[slot].value \in Nat
      BY <1>1 DEF valid_slots, counts, Has, OracleIInv, OracleTypeOK, Observation
    <2>6. obs[lo].value <= median  BY <2>1, <2>3, <2>5 DEF Above
    <2>7. median <= obs[hi].value  BY <2>1, <2>4, <2>5 DEF Below
    <2> QED  BY <2>6, <2>7
  <1>2. OracleIInv => MinorityIsBounded  BY <1>1 DEF MinorityIsBounded
  <1> QED  BY <1>2, OracleInvariance, PTL
=============================================================================
