---------------------------- MODULE IndexSeries -----------------------------
(***************************************************************************)
(* What an index says of a series of daily readings, as INDEX-SPEC defines *)
(* it: from the whole series, without an accumulator, and without          *)
(* division.  The reference the trigger-engine is compared with.           *)
(*                                                                         *)
(* A series is a sequence of records [day, value]; params is an index      *)
(* definition (IndexParams of the trigger-engine).                         *)
(***************************************************************************)
EXTENDS Common, Sequences, FiniteSetsExt

RainTotal(s) == MapThenSumSet(LAMBDA n : s[n].value, DOMAIN s)

(* The dry runs are the intervals of positions whose values are all dry.   *)
DryIntervals(s, floor) ==
  {p \in (DOMAIN s) \X (DOMAIN s) :
     p[1] <= p[2] /\ \A n \in p[1] .. p[2] : s[n].value <= floor}
Longest(intervals) == Max({0} \cup {p[2] - p[1] + 1 : p \in intervals})

(* q is n / d rounded down.                                                *)
Floor(q, n, d) == q * d <= n /\ n < (q + 1) * d

(* The severity is the greatest in 0 .. BPS_DENOMINATOR on or below the    *)
(* line from trigger to exhaustion.                                        *)
OnRamp(severity, done, span) ==
  IF done >= span THEN severity = BPS_DENOMINATOR
  ELSE Floor(severity, done * BPS_DENOMINATOR, span)

(* The index is breached by this much rain and this long a dry run, with   *)
(* this severity; the rain ratio is the greatest whose share of the        *)
(* baseline the rain reaches.                                              *)
SeverityFits(params, rain, run, severity) ==
  IF params.kind = "RainfallShortfall"
  THEN \E ratio \in 0 .. params.trigger_ratio_bps - 1 :
         /\ Floor(ratio, rain * BPS_DENOMINATOR, params.baseline)
         /\ OnRamp(severity, params.trigger_ratio_bps - ratio,
                   params.trigger_ratio_bps - params.exhaustion_ratio_bps)
  ELSE /\ run >= params.trigger_days
       /\ OnRamp(severity, run - params.trigger_days,
                 params.exhaustion_days - params.trigger_days)

(* A complete series breaches the index with this severity.                *)
Breaches(params, s, severity) ==
  /\ Len(s) = params.window_len
  /\ SeverityFits(params, RainTotal(s), Longest(DryIntervals(s, params.dry_floor)), severity)
=============================================================================
