----------------------------- MODULE MCProtocol -----------------------------
(***************************************************************************)
(* Instances of Protocol for TLC: one season, one window of the index that *)
(* all policies name, policies that start after the window may have been   *)
(* finalized or beyond the end of time (and so can be cancelled all        *)
(* along), premiums of 1 that cost a whole coverage or half of one, no     *)
(* fees, and a senior tranche whose cap keeps every deposit in the junior  *)
(* one.                                                                    *)
(***************************************************************************)
EXTENDS Protocol, TLC

CONSTANTS Provider, NoPointer

MCFunds == [a \in Accounts |-> IF a = Provider THEN 2 ELSE 1]
MCAmounts == {2}
MCWindows == {<<1, 1>>}
MCPolicyIds == 1 .. MaxPolicies

MCConfigs ==
  {[regions |-> 1, season_length |-> 1, base_bps |-> 1, coverage_slope_bps |-> 0,
    tranche_cap |-> [tier \in Tier |-> IF tier = "Senior" THEN 1 ELSE 0],
    protocol_bps |-> 0, publisher_bps |-> 0, protocol_cap |-> 0, publisher_cap |-> 0]}

MCTerms ==
  {[coverage |-> BPS_DENOMINATOR, index_ref |-> 1,
    window_start |-> start, window_end |-> start + 1] : start \in 1 .. MaxTime + 1}
MCMaxPremiums == {1}
MCPointers == {NoPointer}
MCMintLists == {}
MCEntryLists == {}
=============================================================================
