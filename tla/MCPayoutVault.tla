--------------------------- MODULE MCPayoutVault ----------------------------
(***************************************************************************)
(* Instances of PayoutVault for TLC: a pool without fees and caps, two     *)
(* windows that may name the same policies, and all funds with one         *)
(* provider, so that whatever the other account holds was paid to it.      *)
(* BPS_DENOMINATOR is 2: a severity is nothing, a half or all of the       *)
(* coverage.                                                               *)
(***************************************************************************)
EXTENDS PayoutVault

CONSTANTS Provider, ProviderFunds, p1, p2

MCFunds == [a \in Accounts |-> IF a = Provider THEN ProviderFunds ELSE 0]
MCAmounts == {2}

MCConfigs ==
  {[regions |-> 1, season_length |-> 1, base_bps |-> 1, coverage_slope_bps |-> 0,
    tranche_cap |-> [tier \in Tier |-> 0],
    protocol_bps |-> 0, publisher_bps |-> 0, protocol_cap |-> 0, publisher_cap |-> 0]}

Entry(p, o, c) == [policy_id |-> p, owner |-> o, coverage |-> c]

(* Whole coverages for both policies and any owner, and for one policy a   *)
(* coverage that is invalid and one whose half rounds down to nothing.     *)
MCEntries ==
  {Entry(p, o, 2) : p \in PolicyIds, o \in Accounts}
    \cup {Entry(p1, o, c) : o \in Accounts, c \in 0 .. 1}

(* Singles, retries in another batch or window, a policy named twice in a  *)
(* batch, for the same owner or for another, and two policies in a batch,  *)
(* of which one may be invalid or worth nothing.                           *)
MCLists ==
  {<<e>> : e \in MCEntries}
    \cup {<<Entry(p1, o, 2), Entry(p, o2, 2)>> : p \in PolicyIds, o, o2 \in Accounts}
    \cup {<<Entry(p1, o, c), Entry(p2, o, 2)>> : o \in Accounts, c \in 0 .. 1}
=============================================================================
