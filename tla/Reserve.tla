------------------------------- MODULE Reserve -------------------------------
(***************************************************************************)
(* One reserve of the lending pool: pool/src/pool/reserve.rs and           *)
(* pool/src/pool/interest.rs, as pure operators on the record              *)
(*                                                                         *)
(*   [b_rate, d_rate, ir_mod, b_supply, d_supply, backstop_credit,         *)
(*    last_time]                                            (ReserveData)  *)
(*                                                                         *)
(* b tokens are shares of what was supplied, d tokens shares of what was   *)
(* borrowed; b_rate and d_rate convert them to underlying tokens.          *)
(*                                                                         *)
(* The scalars are parameters: 10^7, 10^12 and 31536000 in the contracts,  *)
(* small numbers when TLC runs, any positive numbers in the proofs.        *)
(***************************************************************************)
EXTENDS FixedPoint

CONSTANTS
    Scalar7,         \* SCALAR_7: factors, utilization and interest rates
    Scalar12,        \* SCALAR_12: b_rate and d_rate
    SecondsPerYear   \* SECONDS_PER_YEAR

ASSUME ScalarAssumption ==
    /\ Scalar7 \in Nat /\ Scalar7 >= 100
    /\ Scalar12 \in Nat \ {0}
    /\ SecondsPerYear \in Nat \ {0}

\* A percentage written in the source with 7 decimals, e.g. 0_9500000.
Percent7(n) == (n * Scalar7) \div 100

ReserveData ==
    [b_rate : Nat, d_rate : Nat, ir_mod : Nat, b_supply : Nat,
     d_supply : Nat, backstop_credit : Int, last_time : Nat]

ReserveConfig ==
    [c_factor : Nat, l_factor : Nat, util : Nat, max_util : Nat,
     r_base : Nat, r_one : Nat, r_two : Nat, r_three : Nat,
     reactivity : Nat, supply_cap : Nat, scalar : Nat, enabled : BOOLEAN]

\* What pool/src/pool/config.rs lets an admin install (require_valid_reserve_
\* metadata).  Its bounds on r_base from below (0.01%), on reactivity (0.01%) and
\* on the decimals (18) are finer than the small scalars can express.
ValidReserveConfig(cfg) ==
    /\ cfg \in ReserveConfig
    /\ cfg.scalar > 0
    /\ cfg.c_factor <= Scalar7 /\ cfg.l_factor <= Scalar7
    /\ cfg.util <= Percent7(90)
    /\ cfg.max_util <= Scalar7 /\ cfg.util < cfg.max_util
    /\ cfg.r_base < Scalar7
    /\ cfg.r_one <= cfg.r_two /\ cfg.r_two <= cfg.r_three

\* Mutant of ValidChange: the liability factor may be set to zero again.
AnyLiabilityFactor(cur, cfg) == cfg.scalar = cur.scalar

\* require_valid_reserve_metadata_changes: of a reserve that exists.
ValidChange(cur, cfg) ==
    /\ cfg.scalar = cur.scalar
    /\ cur.l_factor # 0 => cfg.l_factor # 0

CurveChanged(cur, cfg) ==
    \/ cur.r_base # cfg.r_base \/ cur.r_one # cfg.r_one \/ cur.r_two # cfg.r_two
    \/ cur.r_three # cfg.r_three \/ cur.util # cfg.util

NewReserve(time) ==
    [b_rate |-> Scalar12, d_rate |-> Scalar12, ir_mod |-> Scalar7,
     b_supply |-> 0, d_supply |-> 0, backstop_credit |-> 0,
     last_time |-> time]

-----------------------------------------------------------------------------
(* Conversions between shares and underlying.  The divisions by b_rate are *)
(* guarded by the callers: a defaulted reserve may have b_rate = 0.        *)

ToAssetFromD(r, d) == MulCeil(d, r.d_rate, Scalar12)
ToAssetFromB(r, b) == MulFloor(b, r.b_rate, Scalar12)

ToDTokenUp(r, amount)   == DivCeil(amount, r.d_rate, Scalar12)
ToDTokenDown(r, amount) == DivFloor(amount, r.d_rate, Scalar12)
ToBTokenUp(r, amount)   == DivCeil(amount, r.b_rate, Scalar12)
\* Mutant of ToBTokenDown: deposits round in favour of the user.
ToBTokenRoundedUp(r, amount) == DivCeil(amount, r.b_rate, Scalar12)

ToBTokenDown(r, amount) == DivFloor(amount, r.b_rate, Scalar12)

ToEffectiveFromD(r, cfg, d) == DivCeil(ToAssetFromD(r, d), cfg.l_factor, Scalar7)
ToEffectiveFromB(r, cfg, b) == MulFloor(ToAssetFromB(r, b), cfg.c_factor, Scalar7)

TotalLiabilities(r) == ToAssetFromD(r, r.d_supply)
TotalSupply(r)      == ToAssetFromB(r, r.b_supply)

UtilizationOf(liabilities, supply) ==
    IF liabilities = 0 THEN 0
    ELSE IF liabilities >= supply THEN Scalar7
    ELSE DivCeil(liabilities, supply, Scalar7)

Utilization(r) == UtilizationOf(TotalLiabilities(r), TotalSupply(r))

-----------------------------------------------------------------------------
(* Interest: calc_accrual.  A three-slope curve in the utilization, scaled *)
(* by a modifier that drifts while utilization is off its target.          *)

CurrentRate(cfg, cur_util, ir_mod) ==
    LET kink == Percent7(95)
        upToKink == cfg.r_two + cfg.r_one + cfg.r_base
    IN IF cur_util <= cfg.util
       THEN LET scalar == DivCeil(cur_util, cfg.util, Scalar7)
                base == MulCeil(scalar, cfg.r_one, Scalar7) + cfg.r_base
            IN  MulCeil(base, ir_mod, Scalar7)
       ELSE IF cur_util <= kink
       THEN LET scalar == DivCeil(cur_util - cfg.util, kink - cfg.util, Scalar7)
                base == MulCeil(scalar, cfg.r_two, Scalar7) + cfg.r_one + cfg.r_base
            IN  MulCeil(base, ir_mod, Scalar7)
       ELSE LET scalar == DivCeil(cur_util - kink, Percent7(5), Scalar7)
            IN  MulCeil(scalar, cfg.r_three, Scalar7) + MulCeil(ir_mod, upToKink, Scalar7)

NextRateModifier(cfg, cur_util, ir_mod, delta) ==
    LET dif == cur_util - cfg.util
        most == 10 * Scalar7
        least == Scalar7 \div 10
        up == ir_mod + MulFloor(delta * dif, cfg.reactivity, Scalar7)
        down == ir_mod + MulCeil(delta * dif, cfg.reactivity, Scalar7)
    IN IF dif >= 0 THEN (IF up > most THEN most ELSE up)
                   ELSE (IF down < least THEN least ELSE down)

LoanAccrual(cfg, cur_util, ir_mod, delta) ==
    LET time_weight == (delta * Scalar12) \div SecondsPerYear
    IN  Scalar12 + MulCeil(time_weight, CurrentRate(cfg, cur_util, ir_mod), Scalar7)

\* Reserve::accrue: the interest is split between the backstop and the suppliers.
BackstopShare(accrued, bstop_rate) == MulFloor(accrued, bstop_rate, Scalar7)

Accrue(r, accrued, credit) ==
    IF accrued > 0
    THEN [r EXCEPT !.backstop_credit = @ + credit,
                   !.b_rate = DivFloor(TotalSupply(r) + accrued - credit, r.b_supply, Scalar12)]
    ELSE r

\* Debt grows by the accrual of `delta' at utilization `util' ...
GrowDebt(r, cfg, util, delta) ==
    [r EXCEPT !.ir_mod = NextRateModifier(cfg, util, @, delta),
              !.d_rate = MulCeil(LoanAccrual(cfg, util, r.ir_mod, delta), @, Scalar12)]

\* ... and what it grew by is accrued to the supply.
AccrueGrowth(r, grown, bstop_rate) ==
    LET accrued == TotalLiabilities(grown) - TotalLiabilities(r)
    IN  Accrue(grown, accrued, BackstopShare(accrued, bstop_rate))

\* Reserve::load: the reserve brought up to the ledger time `time'.
Load(r, cfg, bstop_rate, time) ==
    IF time = r.last_time THEN r
    ELSE IF r.b_supply = 0 \/ Utilization(r) = 0 THEN [r EXCEPT !.last_time = time]
    ELSE [AccrueGrowth(r, GrowDebt(r, cfg, Utilization(r), time - r.last_time), bstop_rate)
            EXCEPT !.last_time = time]

\* User::default_liabilities on the reserve, after its d tokens were burnt:
\* suppliers lose what was forgiven, but b_rate never goes below zero.
CanWriteOff(r) == r.b_supply # 0

WriteOff(r, d) ==
    LET loss == DivCeil(ToAssetFromD(r, d), r.b_supply, Scalar12)
    IN [r EXCEPT !.b_rate = IF @ < loss THEN 0 ELSE @ - loss]
=============================================================================
