-------------------------- MODULE MCTriggerEngine ---------------------------
(***************************************************************************)
(* Instances of TriggerEngine for TLC.                                     *)
(***************************************************************************)
EXTENDS TriggerEngine

Rainfall(len, baseline, trigger, exhaustion) ==
  [kind |-> "RainfallShortfall", window_len |-> len, baseline |-> baseline,
   trigger_ratio_bps |-> trigger, exhaustion_ratio_bps |-> exhaustion,
   trigger_days |-> 0, exhaustion_days |-> 0, dry_floor |-> 0]

DryDays(len, trigger, exhaustion, dry_floor) ==
  [kind |-> "ConsecutiveDryDays", window_len |-> len, baseline |-> 0,
   trigger_ratio_bps |-> 0, exhaustion_ratio_bps |-> 0,
   trigger_days |-> trigger, exhaustion_days |-> exhaustion, dry_floor |-> dry_floor]

(* One window, long enough for a dry run that is broken and starts again.  *)
(* The ramps of the curves are wide, one step wide and end at zero rain.   *)
SeriesParams ==
  {Rainfall(3, 5, 4, 1), Rainfall(3, 5, 3, 1), Rainfall(2, 3, 2, 1), Rainfall(2, 3, 3, 0),
   DryDays(3, 1, 3, 0), DryDays(2, 1, 2, 0), DryDays(4, 2, 4, 1)}
SeriesDays == 0 .. 4
SeriesValues == -1 .. 2
SeriesMedians == {1}

(* Two definitions with a window each; four of the parameters are invalid. *)
LifecycleParams == {Rainfall(2, 5, 4, 1), DryDays(2, 1, 3, 0), DryDays(1, 1, 2, 0),
                    Rainfall(1, 0, 3, 1), Rainfall(1, 3, 1, 2), Rainfall(1, 3, 5, 1),
                    DryDays(1, 2, 3, 0)}
LifecycleDays == 0 .. 1
LifecycleValues == {0, 2}
LifecycleMedians == {1}
=============================================================================
