---------------------------- MODULE MCIndexFeed -----------------------------
(***************************************************************************)
(* Instances of IndexFeed for TLC: one window of two days, two honest      *)
(* publishers and a liar.  The liar's lowest value exhausts the rainfall   *)
(* index, the honest readings leave it partly breached.                    *)
(***************************************************************************)
EXTENDS IndexFeed, TLC

CONSTANTS Liar

MCParams ==
  {[kind |-> "RainfallShortfall", window_len |-> 2, baseline |-> 4,
    trigger_ratio_bps |-> 4, exhaustion_ratio_bps |-> 1,
    trigger_days |-> 0, exhaustion_days |-> 0, dry_floor |-> 0]}
MCLiars == {Liar}
MCValues == 0 .. 2
MCHonest == {1}
MCDays == 0 .. 1
MCSymmetry == Permutations(Publishers \ Liars)
=============================================================================
