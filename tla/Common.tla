------------------------------- MODULE Common -------------------------------
(***************************************************************************)
(* The shared library of the Mvua contracts (contracts/common): the basis  *)
(* point scale and the checked i128 arithmetic every contract computes     *)
(* money with.  A computation that leaves the i128 range returns an error, *)
(* and an error reverts the whole transaction, so an overflow shows up as  *)
(* a guard Fits(...) of the action.  The amounts of the contracts are      *)
(* non-negative, where Rust's division (toward zero) and \div agree.       *)
(***************************************************************************)
EXTENDS Integers

CONSTANTS
  BPS_DENOMINATOR,  \* 10_000 in the code; small in the instances
  I128_MAX          \* 2^127 - 1 in the code; small in the instances

ASSUME BpsAssumption  == BPS_DENOMINATOR \in Nat \ {0}
ASSUME I128Assumption == I128_MAX \in Nat

(***************************************************************************)
(* The result of a checked i128 operation is kept only inside the range.   *)
(***************************************************************************)
Fits(n) == -I128_MAX - 1 <= n /\ n <= I128_MAX

(***************************************************************************)
(* Rust's min and max on two numbers.                                      *)
(***************************************************************************)
Least(a, b) == IF a <= b THEN a ELSE b
Greatest(a, b) == IF a <= b THEN b ELSE a

(***************************************************************************)
(* apply_bps: multiply, then divide by the scale, rounding down.  The      *)
(* product is checked: AppliesBps is the guard for it.                     *)
(***************************************************************************)
apply_bps(amount, bps) == (amount * bps) \div BPS_DENOMINATOR
AppliesBps(amount, bps) == Fits(amount * bps)
=============================================================================
