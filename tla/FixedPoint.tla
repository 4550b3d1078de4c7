----------------------------- MODULE FixedPoint -----------------------------
(***************************************************************************)
(* The fixed-point arithmetic every contract of the system computes with:  *)
(* the soroban_fixed_point_math trait on i128 (an external crate, used     *)
(* from pool/src and backstop/src).  Each operation is ONE multiplication  *)
(* and ONE division, so only the direction of the rounding is lost.        *)
(*                                                                         *)
(* A zero divisor traps in the host; callers guard it.  The intermediate   *)
(* product is 256 bits wide in the crate, hence no overflow is modelled.   *)
(***************************************************************************)
EXTENDS Integers

\* x / y rounded towards minus and plus infinity, for y of either sign.
FloorDiv(x, y) == IF y > 0 THEN x \div y ELSE (-x) \div (-y)
CeilDiv(x, y)  == -FloorDiv(-x, y)

\* x.fixed_mul_floor(y, d), x.fixed_mul_ceil(y, d):  x * y / d
MulFloor(x, y, d) == FloorDiv(x * y, d)
MulCeil(x, y, d)  == CeilDiv(x * y, d)

\* x.fixed_div_floor(y, s), x.fixed_div_ceil(y, s):  x * s / y
DivFloor(x, y, s) == FloorDiv(x * s, y)
DivCeil(x, y, s)  == CeilDiv(x * s, y)
=============================================================================
