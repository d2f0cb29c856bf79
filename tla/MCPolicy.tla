------------------------------ MODULE MCPolicy ------------------------------
(***************************************************************************)
(* Instances of Policy for TLC: premiums are half of the coverage and more *)
(* from COVERAGE_UNIT = 4 on, rounded up; a cap on the senior tranche      *)
(* keeps every deposit in the junior one.                                  *)
(***************************************************************************)
EXTENDS Policy, TLC

CONSTANTS FundsEach, NoPointer, Pointer

MCFunds == [a \in Accounts |-> FundsEach]
MCAmounts == {4}
MCSymmetry == Permutations(Accounts)

Rates(protocol_bps, protocol_cap, publisher_bps, slope) ==
  [regions |-> 1, season_length |-> 1, base_bps |-> 1, coverage_slope_bps |-> slope,
   tranche_cap |-> [tier \in Tier |-> IF tier = "Senior" THEN 1 ELSE 0],
   protocol_bps |-> protocol_bps, publisher_bps |-> publisher_bps,
   protocol_cap |-> protocol_cap, publisher_cap |-> 0]

(* A fee of a half that is capped at one unit, so that a second premium of *)
(* a batch is clamped; and fees that leave nothing of a premium of two.    *)
MCConfigs == {Rates(1, 1, 0, 1), Rates(1, 0, 1, 0)}

Term(coverage, start, end) ==
  [coverage |-> coverage, index_ref |-> 1, window_start |-> start, window_end |-> end]

MCTerms == {Term(3, 1, 2), Term(3, 1, 1)}
MCMaxPremiums == {2}
MCPointers == {NoPointer, Pointer}

Ask(owner, coverage, max_premium) ==
  [owner |-> owner, terms |-> Term(coverage, 1, 2), max_premium |-> max_premium,
   metadata |-> NoPointer]

(* Batches for two farmers or one, with equal and with different premiums, *)
(* one whose second quote is too high, an empty one and one that is too    *)
(* long.                                                                   *)
MCMintLists ==
  {<<Ask(a, 3, 2), Ask(b, 3, m)>> : a, b \in Accounts, m \in 1 .. 2}
    \cup {<<Ask(a, 2, 1), Ask(a, 3, 2)>> : a \in Accounts}
    \cup {<<>>} \cup {<<Ask(a, 2, 2), Ask(a, 2, 2), Ask(a, 2, 2)>> : a \in Accounts}
=============================================================================
