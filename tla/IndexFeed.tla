------------------------------ MODULE IndexFeed ------------------------------
(***************************************************************************)
(* The trigger-engine over the oracle-adapter: publishers submit, the      *)
(* guardian challenges, and record_day_from_oracle folds whatever the      *)
(* median is at the moment of the call into the day the guardian names.    *)
(*                                                                         *)
(* Both contracts are extended whole and read one clock; the oracle's      *)
(* answer, an input of TriggerEngine (Medians, which plays no part here),  *)
(* is OracleAdapter's median.  The registry is fixed: every publisher was  *)
(* added before.  Some publishers are honest and report a value of Honest; *)
(* the others sign anything.                                               *)
(***************************************************************************)
EXTENDS OracleAdapter, TriggerEngine

CONSTANTS
  Liars,     \* the publishers that are not honest
  Honest     \* the values of honest observations

ASSUME FeedAssumption ==
  /\ Liars \subseteq Publishers
  /\ Honest \subseteq Readings \cap Nat
  /\ Honest # {} /\ IsFiniteSet(Honest)

VARIABLE evidence  \* history: window -> per day, the observations behind its reading

adapter == <<registry, ring>>
engine == <<index_count, index_def, oracle_set, window, state>>
feed_vars == <<adapter, engine, now, evidence>>

FeedInit ==
  /\ publisher = [p \in Publishers |-> TRUE]
  /\ changed_at = [p \in Publishers |-> 0]
  /\ pending = Empty
  /\ obs = Empty
  /\ next_seq = 0
  /\ count = 0
  /\ challenged = {}
  /\ seq_in = Empty
  /\ flagged_obs = Empty
  /\ Init
  /\ evidence = [key \in Keys |-> <<>>]

(* The observations the median rests on.                                   *)
counted ==
  {[seq |-> seq_in[slot], publisher |-> obs[slot].publisher] : slot \in valid_slots}

(* A day read from the oracle: a median that is not defined traps.         *)
record_from_feed(key, day) ==
  /\ median_defined
  /\ record_day_from_oracle(key, day, median)
  /\ evidence' = [evidence EXCEPT ![key] = Append(@, counted)]
  /\ UNCHANGED adapter

(* A day asserted by the guardian rests on no observation.                 *)
record_asserted(key, day, value) ==
  /\ record_day(key, day, value)
  /\ evidence' = [evidence EXCEPT ![key] = Append(@, {})]
  /\ UNCHANGED adapter

adapter_call ==
  /\ \/ \E p \in Publishers, timestamp \in 0 .. MaxTime :
          \E value \in IF p \in Liars THEN Readings ELSE Honest :
            submit(timestamp, value, p)
     \/ \E slot \in Slots : challenge(slot) \/ unchallenge(slot)
  /\ UNCHANGED <<engine, evidence>>

engine_call ==
  /\ \/ \E params \in Params : create_index(params)
     \/ set_oracle
     \/ \E key \in Keys : evaluate(key) \/ finalize(key)
  /\ UNCHANGED <<adapter, evidence>>

FeedTick ==
  /\ Tick
  /\ UNCHANGED <<adapter, evidence>>

FeedNext ==
  \/ adapter_call
  \/ engine_call
  \/ \E key \in Keys, day \in Days :
        \/ record_from_feed(key, day)
        \/ \E value \in Values : record_asserted(key, day, value)
  \/ FeedTick

FeedSpec == FeedInit /\ [][FeedNext]_feed_vars

-----------------------------------------------------------------------------
(***************************************************************************)
(* Properties.                                                             *)
(***************************************************************************)

(* Every day of the window was read from the oracle while the liars had    *)
(* fewer than half of the observations that counted.                       *)
Outvoted(key) ==
  \A n \in DOMAIN evidence[key] :
    2 * Cardinality({o \in evidence[key][n] : o.publisher \in Liars})
      < Cardinality(evidence[key][n])

(* A complete series with one value on every day.                          *)
Uniform(params, value) == [n \in 1 .. params.window_len |-> [day |-> n, value |-> value]]

(* Liars in the minority do not move a payout: a window that settles on    *)
(* medians in which they were outvoted breaches, and settles between what  *)
(* the highest and the lowest honest readings would settle it to, whatever *)
(* the liars signed, the guardian flagged and the clock did in between     *)
(* (THREAT-MODEL T-6, through to the severity).                            *)
LiarsOutvoted ==
  \A key \in Keys :
    (state[key].status = "Finalized" /\ Outvoted(key)) =>
      LET params == index_def[key[1]]
      IN  /\ \E worst \in state[key].severity .. BPS_DENOMINATOR :
               Breaches(params, Uniform(params, Min(Honest)), worst)
          /\ \A mildest \in 0 .. BPS_DENOMINATOR :
               Breaches(params, Uniform(params, Max(Honest)), mildest) =>
                 mildest <= state[key].severity
=============================================================================
