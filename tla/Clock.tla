-------------------------------- MODULE Clock --------------------------------
(***************************************************************************)
(* Ledger time (external): the contracts that compose read one clock.      *)
(***************************************************************************)
EXTENDS Naturals

CONSTANT MaxTime  \* bound: ledger time, in the units of the contracts' periods

ASSUME MaxTimeAssumption == MaxTime \in Nat

VARIABLE now

(* A block closes; what follows runs later.                                *)
later ==
  /\ now < MaxTime
  /\ now' = now + 1
=============================================================================
