--------------------------- MODULE TriggerEngine ----------------------------
(***************************************************************************)
(* The trigger-engine contract: immutable index definitions, one           *)
(* accumulator per window that reduces the daily medians, and the trigger  *)
(* lifecycle Healthy -> Triggered -> Finalized of each window.             *)
(*                                                                         *)
(* A window is a pair <<index id, window id>>.  Region, metric and the     *)
(* data source reference of a definition only route the oracle read and    *)
(* are left out; the median itself is any value of Medians, or a trap,     *)
(* which reverts the call.  An entry that is absent from storage is read   *)
(* as its default, so accumulators and states are total functions; a       *)
(* cursor that is absent is NoDay.  A call that returns an error, or that  *)
(* only returns what is stored, is a stuttering step.                      *)
(***************************************************************************)
EXTENDS IndexSeries, Storage, Clock

CONSTANTS
  Params,                 \* the IndexParams create_index may be called with
  WindowIds,              \* window ids in use
  Days,                   \* day numbers the guardian may assert
  Values,                 \* values the guardian may assert
  Medians,                \* medians the oracle may report: never negative
  CHALLENGE_WINDOW_SECS,  \* 24 hours in the code
  MaxIndexes              \* bound: definitions created

Kinds == {"RainfallShortfall", "ConsecutiveDryDays"}

IndexParams ==
  [kind : Kinds, window_len : Nat, baseline : Int,
   trigger_ratio_bps : Nat, exhaustion_ratio_bps : Nat,
   trigger_days : Nat, exhaustion_days : Nat, dry_floor : Int]

ASSUME ParamsAssumption == Params \subseteq IndexParams
ASSUME InputAssumption ==
  /\ Days \subseteq Nat
  /\ Values \subseteq Int
  /\ Medians \subseteq Nat
ASSUME ClockAssumption ==
  /\ CHALLENGE_WINDOW_SECS \in Nat
  /\ MaxIndexes \in Nat

VARIABLES
  index_count,  \* IndexCount
  index_def,    \* IndexDef: index id -> parameters, where there is one
  oracle_set,   \* whether OracleRef is configured
  acc,          \* Accumulator
  cursor,       \* EvalCursor
  state,        \* TriggerState
  series,       \* history: the days folded into a window, in order
  folded_at     \* history: when the last day was folded into a window

window == <<acc, cursor, series, folded_at>>
vars == <<index_count, index_def, oracle_set, window, state, now>>

IndexIds == 0 .. MaxIndexes - 1
Keys == IndexIds \X WindowIds
NoDay == -1

WindowAccumulator ==
  [days_recorded : Nat, rain_sum : Nat, current_run : Nat, max_run : Nat]
TriggerStatus ==
  [status : {"Healthy", "Triggered", "Finalized"}, at : Nat, severity : Nat]

Healthy == [status |-> "Healthy", at |-> 0, severity |-> 0]
Triggered(at) == [status |-> "Triggered", at |-> at, severity |-> 0]
Finalized(at, severity) == [status |-> "Finalized", at |-> at, severity |-> severity]

-----------------------------------------------------------------------------
(***************************************************************************)
(* The index formulas: pure functions of the parameters and the            *)
(* accumulator.                                                            *)
(***************************************************************************)

rainfall_ratio(params, a) == (a.rain_sum * BPS_DENOMINATOR) \div params.baseline

(* Where a value lies on the way from trigger to exhaustion, in basis      *)
(* points rounded down.                                                    *)
ramp(done, span) == (done * BPS_DENOMINATOR) \div span

rainfall_triggered(params, a) == rainfall_ratio(params, a) < params.trigger_ratio_bps

(* Mutated form of rainfall_severity: the ramp is measured from the        *)
(* exhaustion end.                                                         *)
rainfall_severity_inverted(params, a) ==
  LET ratio == rainfall_ratio(params, a)
  IN  CASE ratio >= params.trigger_ratio_bps -> 0
        [] ratio <= params.exhaustion_ratio_bps -> BPS_DENOMINATOR
        [] OTHER -> ramp(ratio - params.exhaustion_ratio_bps,
                         params.trigger_ratio_bps - params.exhaustion_ratio_bps)

rainfall_severity(params, a) ==
  LET ratio == rainfall_ratio(params, a)
      trigger == params.trigger_ratio_bps
      exhaustion == params.exhaustion_ratio_bps
  IN  CASE ratio >= trigger -> 0
        [] ratio <= exhaustion -> BPS_DENOMINATOR
        [] OTHER -> ramp(trigger - ratio, trigger - exhaustion)

dry_days_triggered(params, a) == a.max_run >= params.trigger_days

dry_days_severity(params, a) ==
  CASE a.max_run < params.trigger_days -> 0
    [] a.max_run >= params.exhaustion_days -> BPS_DENOMINATOR
    [] OTHER -> ramp(a.max_run - params.trigger_days,
                     params.exhaustion_days - params.trigger_days)

(* The checked products: the rain sum in basis points.  The ramps multiply *)
(* by at most BPS_DENOMINATOR (a ratio gap) or a u32 (a run of days), far  *)
(* inside i128.                                                            *)
Evaluates(params, a) ==
  params.kind = "RainfallShortfall" => Fits(a.rain_sum * BPS_DENOMINATOR)

triggered(params, a) ==
  IF params.kind = "RainfallShortfall" THEN rainfall_triggered(params, a)
  ELSE dry_days_triggered(params, a)

severity_of(params, a) ==
  IF params.kind = "RainfallShortfall" THEN rainfall_severity(params, a)
  ELSE dry_days_severity(params, a)

(* Payout of a finalized window, a read: the smaller of the coverage and   *)
(* its scaled part, rounded down.                                          *)
payout_for(key, coverage) == Least(apply_bps(coverage, state[key].severity), coverage)

-----------------------------------------------------------------------------
validate_params(params) ==
  /\ params.window_len # 0
  /\ params.kind = "RainfallShortfall" =>
       /\ params.baseline > 0
       /\ params.trigger_ratio_bps <= BPS_DENOMINATOR
       /\ params.exhaustion_ratio_bps < params.trigger_ratio_bps
  /\ params.kind = "ConsecutiveDryDays" =>
       /\ params.trigger_days # 0
       /\ params.trigger_days <= params.window_len
       /\ params.exhaustion_days > params.trigger_days

Init ==
  /\ index_count = 0
  /\ index_def = Empty
  /\ oracle_set = FALSE
  /\ acc = [key \in Keys |->
              [days_recorded |-> 0, rain_sum |-> 0, current_run |-> 0, max_run |-> 0]]
  /\ cursor = [key \in Keys |-> NoDay]
  /\ state = [key \in Keys |-> Healthy]
  /\ now = 0
  /\ series = [key \in Keys |-> <<>>]
  /\ folded_at = [key \in Keys |-> 0]

Tick ==
  /\ later
  /\ UNCHANGED <<index_count, index_def, oracle_set, window, state>>

create_index(params) ==
  /\ validate_params(params)
  /\ index_count < MaxIndexes
  /\ index_def' = Put(index_def, index_count, params)
  /\ index_count' = index_count + 1
  /\ UNCHANGED <<oracle_set, window, state, now>>

set_oracle ==
  /\ oracle_set' = TRUE
  /\ UNCHANGED <<index_count, index_def, window, state, now>>

-----------------------------------------------------------------------------
(* Mutated form of in_order: the same day is accepted again.               *)
in_order_replayed(key, day) == cursor[key] # NoDay => day >= cursor[key]
in_order(key, day) == cursor[key] # NoDay => day > cursor[key]

(* Mutated form of room: the window takes one day too many.                *)
room_for_one_more(key) == acc[key].days_recorded <= index_def[key[1]].window_len
room(key) == acc[key].days_recorded < index_def[key[1]].window_len

(* Mutated form of run_after: a wet day does not end the run.              *)
run_after_kept(run, value, dry_floor) == IF value <= dry_floor THEN run + 1 ELSE run
run_after(run, value, dry_floor) == IF value <= dry_floor THEN run + 1 ELSE 0

folded(a, value, dry_floor) ==
  LET run == run_after(a.current_run, value, dry_floor)
  IN  [days_recorded |-> a.days_recorded + 1,
       rain_sum |-> a.rain_sum + value,
       current_run |-> run,
       max_run |-> Greatest(run, a.max_run)]

(* Mutated form of foldable: a negative reading is let through.            *)
foldable_any(a, value) == Fits(a.rain_sum + value)
foldable(a, value) == value >= 0 /\ Fits(a.rain_sum + value)

fold_day(key, day, value) ==
  /\ foldable(acc[key], value)
  /\ in_order(key, day)
  /\ room(key)
  /\ acc' = [acc EXCEPT ![key] = folded(@, value, index_def[key[1]].dry_floor)]
  /\ cursor' = [cursor EXCEPT ![key] = day]
  /\ series' = [series EXCEPT ![key] = Append(@, [day |-> day, value |-> value])]
  /\ folded_at' = [folded_at EXCEPT ![key] = now]
  /\ UNCHANGED <<index_count, index_def, oracle_set, state, now>>

record_day(key, day, value) ==
  /\ Has(index_def, key[1])
  /\ fold_day(key, day, value)

record_day_from_oracle(key, day, value) ==
  /\ Has(index_def, key[1])
  /\ oracle_set
  /\ fold_day(key, day, value)

(* Mutated form of complete: the window is one day short.                  *)
complete_one_short(key) == acc[key].days_recorded + 1 >= index_def[key[1]].window_len
complete(key) == acc[key].days_recorded >= index_def[key[1]].window_len

(* Only the call that observes the breach writes; the others return the    *)
(* state as it is.                                                         *)
evaluate(key) ==
  /\ Has(index_def, key[1])
  /\ complete(key)
  /\ state[key].status = "Healthy"
  /\ Evaluates(index_def[key[1]], acc[key])
  /\ triggered(index_def[key[1]], acc[key])
  /\ state' = [state EXCEPT ![key] = Triggered(now)]
  /\ UNCHANGED <<index_count, index_def, oracle_set, window, now>>

(* Mutated form of challenge_over: counted from the last recorded day on,  *)
(* without the challenge window.                                           *)
challenge_over_at_once(key) == now >= folded_at[key]
challenge_over(key) == now >= state[key].at + CHALLENGE_WINDOW_SECS

finalize(key) ==
  /\ state[key].status = "Triggered"
  /\ challenge_over(key)
  /\ Has(index_def, key[1])
  /\ Evaluates(index_def[key[1]], acc[key])
  /\ state' = [state EXCEPT ![key] =
                 Finalized(now, severity_of(index_def[key[1]], acc[key]))]
  /\ UNCHANGED <<index_count, index_def, oracle_set, window, now>>

Next ==
  \/ Tick
  \/ \E params \in Params : create_index(params)
  \/ set_oracle
  \/ \E key \in Keys :
        \/ \E day \in Days :
              \/ \E value \in Values : record_day(key, day, value)
              \/ \E value \in Medians : record_day_from_oracle(key, day, value)
        \/ evaluate(key)
        \/ finalize(key)

Spec == Init /\ [][Next]_vars

(* Time passes, and somebody keeps calling evaluate (permissionless) and   *)
(* the guardian finalize on every window (scripts/testnet/season.sh does   *)
(* the two in turn).                                                       *)
Operated ==
  /\ WF_vars(Tick)
  /\ \A key \in Keys : WF_vars(evaluate(key)) /\ WF_vars(finalize(key))

FairSpec == Spec /\ Operated

-----------------------------------------------------------------------------
(***************************************************************************)
(* Properties.                                                             *)
(***************************************************************************)

(* Type invariant.  Every stored definition passed validate_params, and no *)
(* cursor, counter or time leaves its range.                               *)
TypeOK ==
  /\ index_count \in 0 .. MaxIndexes
  /\ DOMAIN index_def = 0 .. index_count - 1
  /\ \A i \in DOMAIN index_def : index_def[i] \in Params /\ validate_params(index_def[i])
  /\ oracle_set \in BOOLEAN
  /\ acc \in [Keys -> WindowAccumulator]
  /\ cursor \in [Keys -> Days \cup {NoDay}]
  /\ state \in [Keys -> TriggerStatus]
  /\ now \in 0 .. MaxTime
  /\ folded_at \in [Keys -> 0 .. MaxTime]

(* The accumulator is the exact reduction of the days recorded, although   *)
(* no day is stored: count, sum, longest dry run, and the dry run at the   *)
(* end that the next day may extend.                                       *)
AccumulatorIsReduction ==
  \A key \in Keys :
    LET s == series[key]
        dry == DryIntervals(s, index_def[key[1]].dry_floor)
    IN  /\ acc[key].days_recorded = Len(s)
        /\ s # <<>> =>
             /\ acc[key].rain_sum = RainTotal(s)
             /\ acc[key].max_run = Longest(dry)
             /\ acc[key].current_run = Longest({p \in dry : p[2] = Len(s)})

(* No payout on partial data: a window that left Healthy has all its days, *)
(* and once Finalized carries the severity those days deserve, however     *)
(* late evaluate and finalize were called.                                 *)
SettledOnCompleteData ==
  \A key \in Keys :
    state[key].status # "Healthy" =>
      /\ Has(index_def, key[1])
      /\ acc[key].days_recorded = index_def[key[1]].window_len
      /\ state[key].status = "Finalized" =>
           SeverityFits(index_def[key[1]], acc[key].rain_sum, acc[key].max_run,
                        state[key].severity)

(* The challenge window is never cut short: a window is finalized no       *)
(* earlier than the challenge window after its last day was recorded.      *)
ChallengeWindowKept ==
  \A key \in Keys :
    state[key].status = "Finalized" =>
      state[key].at >= folded_at[key] + CHALLENGE_WINDOW_SECS

FrozenOnceTriggeredStep ==
  /\ \A i \in DOMAIN index_def : i \in DOMAIN index_def' /\ index_def'[i] = index_def[i]
  /\ \A key \in Keys :
       state[key].status # "Healthy" =>
         /\ acc'[key] = acc[key]
         /\ state'[key] = state[key] \/ (state[key].status = "Triggered"
                                          /\ state'[key].status = "Finalized")

(* What a trigger rests on never changes: definitions are immutable, and   *)
(* once a window is Triggered its accumulator is frozen; it can only be    *)
(* finalized, once, and Finalized never changes (T-11, invariant 3).       *)
FrozenOnceTriggered == [][FrozenOnceTriggeredStep]_vars

(* A worse index never yields a smaller payout (INDEX-SPEC section 6): had *)
(* a finalized window had no more rain and no shorter dry run, it would    *)
(* pay at least as much on any coverage, and never more than the coverage. *)
WorseNeverPaysLess ==
  \A key \in Keys :
    state[key].status = "Finalized" =>
      \A rain \in 0 .. acc[key].rain_sum,
         run \in acc[key].max_run .. acc[key].days_recorded,
         coverage \in 0 .. BPS_DENOMINATOR :
        LET worse == severity_of(index_def[key[1]],
                                 [acc[key] EXCEPT !.rain_sum = rain, !.max_run = run])
        IN  /\ payout_for(key, coverage) <= Least(apply_bps(coverage, worse), coverage)
            /\ apply_bps(coverage, worse) <= coverage

(* The one-shot decision of a window, on the log of its readings.          *)
Decision == INSTANCE IndexDecision
  WITH Windows <- Keys, Definitions <- Params, definition <- index_def, log <- series,
       outcome <- [key \in Keys |-> IF state[key].status = "Finalized"
                                    THEN state[key].severity ELSE -1]

(* The engine implements the decision: folding the days one by one on two  *)
(* ingestion paths, triggering on one reading of the accumulator and       *)
(* settling on a later one decide a window once, as its whole log does.    *)
ImplementsDecision == Decision!Spec

Breached(key) ==
  /\ Has(index_def, key[1])
  /\ Evaluates(index_def[key[1]], acc[key])
  /\ \E severity \in 0 .. BPS_DENOMINATOR :
       Breaches(index_def[key[1]], series[key], severity)

(* A complete, breached window pays: with the engine operated it is        *)
(* finalized, unless its challenge window ends beyond the time bound.      *)
BreachIsSettled ==
  \A key \in Keys :
    Breached(key) ~>
      \/ state[key].status = "Finalized"
      \/ state[key].status = "Triggered" /\ state[key].at + CHALLENGE_WINDOW_SECS > MaxTime

(* A dry-day trigger rests on consecutive days: trigger_days days in a     *)
(* row, each recorded and each dry (INDEX-SPEC section 5).                 *)
DryRunIsConsecutive ==
  \A key \in Keys :
    (/\ state[key].status # "Healthy"
     /\ index_def[key[1]].kind = "ConsecutiveDryDays")
    => \E first \in Days :
         \A day \in first .. first + index_def[key[1]].trigger_days - 1 :
           \E n \in DOMAIN series[key] :
             /\ series[key][n].day = day
             /\ series[key][n].value <= index_def[key[1]].dry_floor
=============================================================================
