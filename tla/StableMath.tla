----------------------------- MODULE StableMath -----------------------------
(***************************************************************************)
(* The fixed-point arithmetic of contracts/libraries/StableMath.sol.       *)
(* SafeMath reverts on overflow, so a product never wraps: a call that     *)
(* would overflow has no effect, and the models leave it out.              *)
(***************************************************************************)
EXTENDS Integers

CONSTANT FULL_SCALE    \* 10^18 in the code; the fixed-point unit

ASSUME ScaleAssumption == FULL_SCALE \in Nat \ {0}

(* x * y in fixed point, rounded down.                                      *)
mulTruncate(x, y) == (x * y) \div FULL_SCALE

(* x * y in fixed point, rounded up.                                        *)
mulTruncateCeil(x, y) == (x * y + (FULL_SCALE - 1)) \div FULL_SCALE

(* x / y in fixed point, rounded down; the caller guards against y = 0,     *)
(* where SafeMath reverts.                                                  *)
divPrecisely(x, y) == (x * FULL_SCALE) \div y
=============================================================================
