----------------------------- MODULE MCRiskPool -----------------------------
(***************************************************************************)
(* Instances of RiskPool for TLC.  Rates are fractions of                  *)
(* BPS_DENOMINATOR = 4.  The accounts start with the same funds and are    *)
(* interchangeable, so they form a symmetry set.                           *)
(***************************************************************************)
EXTENDS RiskPool, TLC

CONSTANT FundsEach

MCFunds == [a \in Accounts |-> FundsEach]
MCAmounts == -1 .. 3
MCSymmetry == Permutations(Accounts)

BaseConfig ==
  [regions |-> 1, season_length |-> 1, base_bps |-> 1, coverage_slope_bps |-> 0,
   tranche_cap |-> [tier \in Tier |-> IF tier = "Junior" THEN 3 ELSE 0],
   protocol_bps |-> 1, publisher_bps |-> 2, protocol_cap |-> 1, publisher_cap |-> 1]

(* A pool with capped fees, a pool whose fees take the whole premium, a    *)
(* pool for the share price only, without fees and caps, and three         *)
(* configurations that create_pool must reject.                            *)
MCConfigs ==
  {BaseConfig,
   [BaseConfig EXCEPT !.publisher_bps = 3, !.protocol_cap = 0, !.publisher_cap = 0],
   [BaseConfig EXCEPT !.tranche_cap = [tier \in Tier |-> 0],
                      !.protocol_bps = 0, !.publisher_bps = 0],
   [BaseConfig EXCEPT !.protocol_bps = 2, !.publisher_bps = 4,
                      !.protocol_cap = 0, !.publisher_cap = 0],
   [BaseConfig EXCEPT !.protocol_cap = -1],
   [BaseConfig EXCEPT !.regions = 0]}
=============================================================================
