------------------------------ MODULE PoolProofs ------------------------------
(***************************************************************************)
(* The pool is type correct, and its shares are accounted for, for any     *)
(* assets, users, configurations and inputs.                               *)
(*                                                                         *)
(* First, of one reserve: Reserve::load, for every configuration the admin *)
(* can install, traps nowhere, keeps the reserve well formed, and makes    *)
(* neither a deposit share nor a debt share worth less.                    *)
(*                                                                         *)
(* Then, of a ledger: the operations the entry points are built from keep  *)
(* it well formed: every amount in its range, every reserve's totals equal *)
(* to the sum of the positions.                                            *)
(*                                                                         *)
(* Last, of the pool.  TypeOK alone is not inductive: a removal of shares  *)
(* stays a natural number only because a reserve's total is the sum of the *)
(* positions, and a conversion to shares only because d_rate is positive;  *)
(* interest adds up only with a valid curve and a reserve not ahead of the *)
(* ledger.  PoolInv adds exactly that, of the committed ledger and of the  *)
(* working copy of the invocation under way.                               *)
(***************************************************************************)
EXTENDS PoolProperties, ArithmeticProofs

-----------------------------------------------------------------------------
(* Reserves.                                                               *)

LEMMA ScalarsPositive ==
    /\ Scalar7 \in Nat /\ Scalar7 \in Int /\ Scalar7 > 0
    /\ Scalar12 \in Nat /\ Scalar12 \in Int /\ Scalar12 > 0
    /\ SecondsPerYear \in Nat /\ SecondsPerYear \in Int /\ SecondsPerYear > 0
  BY ScalarAssumption

LEMMA PercentNat ==
    ASSUME NEW n \in Nat
    PROVE  Percent7(n) \in Nat
<1>1. n * Scalar7 \in Nat
  BY ProductNat, ScalarsPositive
<1> QED
  BY <1>1, DivBounds, SMT DEF Percent7

\* The kink of the curve lies above every target, and 5% is not nothing.
LEMMA Kink ==
    /\ Percent7(90) < Percent7(95)
    /\ Percent7(5) > 0
  BY ScalarAssumption DEF Percent7

-----------------------------------------------------------------------------
(* Totals and utilization.                                                 *)

LEMMA TotalsNat ==
    ASSUME NEW r \in ReserveData
    PROVE  TotalLiabilities(r) \in Nat /\ TotalSupply(r) \in Nat
  BY MulNat, ScalarsPositive
     DEF ReserveData, TotalLiabilities, TotalSupply, ToAssetFromD, ToAssetFromB

LEMMA UtilizationNat ==
    ASSUME NEW r \in ReserveData
    PROVE  Utilization(r) \in Nat
<1> DEFINE liab == TotalLiabilities(r)
           supp == TotalSupply(r)
<1>1. liab \in Nat /\ supp \in Nat
  BY TotalsNat
<1>2. ASSUME liab # 0, ~(liab >= supp)
      PROVE  DivCeil(liab, supp, Scalar7) \in Nat
  <2>1. supp \in Int /\ supp > 0
    BY <1>1, <1>2
  <2> QED
    BY <1>1, <2>1, DivNat, ScalarsPositive
<1> QED
  BY <1>1, <1>2, ScalarsPositive DEF Utilization, UtilizationOf

-----------------------------------------------------------------------------
(* Interest.                                                               *)

LEMMA CurrentRateNat ==
    ASSUME NEW cfg, ValidReserveConfig(cfg),
           NEW cur_util \in Nat, cur_util # 0, NEW ir_mod \in Nat
    PROVE  CurrentRate(cfg, cur_util, ir_mod) \in Nat
<1> DEFINE kink == Percent7(95)
           upToKink == cfg.r_two + cfg.r_one + cfg.r_base
<1>1. /\ cfg.util \in Nat /\ cfg.util <= Percent7(90)
      /\ cfg.r_base \in Nat /\ cfg.r_one \in Nat /\ cfg.r_two \in Nat
      /\ cfg.r_three \in Nat
  BY DEF ValidReserveConfig, ReserveConfig
<1>2. kink \in Nat /\ cfg.util < kink
  <2>1. Percent7(90) \in Nat /\ kink \in Nat
    BY PercentNat
  <2> QED
    BY <2>1, <1>1, Kink
<1>3. CASE cur_util <= cfg.util
  <2> DEFINE scalar == DivCeil(cur_util, cfg.util, Scalar7)
             base == MulCeil(scalar, cfg.r_one, Scalar7) + cfg.r_base
  <2>1. cfg.util \in Int /\ cfg.util > 0
    BY <1>1, <1>3
  <2>2. scalar \in Nat
    BY <2>1, DivNat, ScalarsPositive
  <2>3. MulCeil(scalar, cfg.r_one, Scalar7) \in Nat
    BY <2>2, <1>1, MulNat, ScalarsPositive
  <2>4. base \in Nat
    BY <2>3, <1>1
  <2>5. MulCeil(base, ir_mod, Scalar7) \in Nat
    BY <2>4, MulNat, ScalarsPositive
  <2> QED
    BY <2>5, <1>3 DEF CurrentRate
<1>4. CASE ~(cur_util <= cfg.util) /\ cur_util <= kink
  <2> DEFINE scalar == DivCeil(cur_util - cfg.util, kink - cfg.util, Scalar7)
             base == MulCeil(scalar, cfg.r_two, Scalar7) + cfg.r_one + cfg.r_base
  <2>1. /\ cur_util - cfg.util \in Nat
        /\ kink - cfg.util \in Int /\ kink - cfg.util > 0
    BY <1>1, <1>2, <1>4
  <2>2. scalar \in Nat
    BY <2>1, DivNat, ScalarsPositive
  <2>3. MulCeil(scalar, cfg.r_two, Scalar7) \in Nat
    BY <2>2, <1>1, MulNat, ScalarsPositive
  <2>4. base \in Nat
    BY <2>3, <1>1
  <2>5. MulCeil(base, ir_mod, Scalar7) \in Nat
    BY <2>4, MulNat, ScalarsPositive
  <2> QED
    BY <2>5, <1>4 DEF CurrentRate
<1>5. CASE ~(cur_util <= cfg.util) /\ ~(cur_util <= kink)
  <2> DEFINE scalar == DivCeil(cur_util - kink, Percent7(5), Scalar7)
  <2>1. /\ cur_util - kink \in Nat
        /\ Percent7(5) \in Int /\ Percent7(5) > 0
    BY <1>2, <1>5, PercentNat, Kink
  <2>2. scalar \in Nat
    BY <2>1, DivNat, ScalarsPositive
  <2>3. MulCeil(scalar, cfg.r_three, Scalar7) \in Nat
    BY <2>2, <1>1, MulNat, ScalarsPositive
  <2>4. upToKink \in Nat
    BY <1>1
  <2>5. MulCeil(ir_mod, upToKink, Scalar7) \in Nat
    BY <2>4, MulNat, ScalarsPositive
  <2> QED
    BY <2>3, <2>5, <1>5 DEF CurrentRate
<1> QED
  BY <1>3, <1>4, <1>5

LEMMA NextRateModifierNat ==
    ASSUME NEW cfg, ValidReserveConfig(cfg),
           NEW cur_util \in Nat, NEW ir_mod \in Nat, NEW delta \in Nat
    PROVE  NextRateModifier(cfg, cur_util, ir_mod, delta) \in Nat
<1> DEFINE dif == cur_util - cfg.util
           up == ir_mod + MulFloor(delta * dif, cfg.reactivity, Scalar7)
           down == ir_mod + MulCeil(delta * dif, cfg.reactivity, Scalar7)
           least == Scalar7 \div 10
<1>1. cfg.util \in Nat /\ cfg.reactivity \in Nat
  BY DEF ValidReserveConfig, ReserveConfig
<1>2. dif \in Int /\ delta * dif \in Int
  BY <1>1, ProductInt
<1>3. up \in Int /\ down \in Int
  <2>1. /\ MulFloor(delta * dif, cfg.reactivity, Scalar7) \in Int
        /\ MulCeil(delta * dif, cfg.reactivity, Scalar7) \in Int
    <3> HIDE DEF dif
    <3>1. cfg.reactivity \in Int
      BY <1>1
    <3> QED
      BY <3>1, <1>2, MulInt, ScalarsPositive
  <2> QED
    BY <2>1
<1>4. least \in Nat
  BY ScalarsPositive
<1>5. CASE dif >= 0
  <2>1. dif \in Nat
    BY <1>2, <1>5
  <2>2. delta * dif \in Nat
    BY <2>1, ProductNat
  <2>3. MulFloor(delta * dif, cfg.reactivity, Scalar7) \in Nat
    BY <2>2, <1>1, MulNat, ScalarsPositive
  <2> QED
    BY <2>3, <1>5, ScalarsPositive DEF NextRateModifier
<1>6. CASE ~(dif >= 0)
  BY <1>3, <1>4, <1>6 DEF NextRateModifier
<1> QED
  BY <1>5, <1>6

LEMMA LoanAccrualAtLeastOne ==
    ASSUME NEW cfg, ValidReserveConfig(cfg),
           NEW cur_util \in Nat, cur_util # 0, NEW ir_mod \in Nat, NEW delta \in Nat
    PROVE  /\ LoanAccrual(cfg, cur_util, ir_mod, delta) \in Nat
           /\ LoanAccrual(cfg, cur_util, ir_mod, delta) >= Scalar12
<1> DEFINE time_weight == (delta * Scalar12) \div SecondsPerYear
           rate == CurrentRate(cfg, cur_util, ir_mod)
<1>1. delta * Scalar12 \in Nat
  BY ProductNat, ScalarsPositive
<1>2. time_weight \in Nat
  <2>1. FloorDiv(delta * Scalar12, SecondsPerYear) \in Nat
    BY <1>1, FloorDivNat, ScalarsPositive
  <2> QED
    BY <2>1, ScalarsPositive DEF FloorDiv
<1>3. rate \in Nat
  BY CurrentRateNat
<1>4. MulCeil(time_weight, rate, Scalar7) \in Nat
  BY <1>2, <1>3, MulNat, ScalarsPositive
<1> QED
  BY <1>4, ScalarsPositive DEF LoanAccrual

-----------------------------------------------------------------------------
(* Splitting what a loan grew by.                                          *)

\* The backstop never gets all of it: its rate is below 1.
LEMMA BackstopShareLess ==
    ASSUME NEW accrued \in Nat, accrued > 0, NEW rate \in Nat, rate < Scalar7
    PROVE  /\ BackstopShare(accrued, rate) \in Nat
           /\ BackstopShare(accrued, rate) <= accrued - 1
<1>1. BackstopShare(accrued, rate) \in Nat
  BY MulNat, ScalarsPositive DEF BackstopShare
<1>2. accrued * rate \in Int /\ Scalar7 * (accrued - 1) \in Int
  BY ProductInt, ScalarsPositive
<1>3. accrued * rate < Scalar7 * (accrued - 1) + Scalar7
  <2>1. accrued * (rate + 1) <= accrued * Scalar7
    BY ProductMonotone, ScalarsPositive
  <2>2. accrued * (rate + 1) = accrued * rate + accrued
    BY SMT
  <2>3. Scalar7 * (accrued - 1) + Scalar7 = accrued * Scalar7
    BY ScalarsPositive, SMT
  <2>4. accrued * Scalar7 \in Int
    BY ProductInt, ScalarsPositive
  <2> QED
    BY <1>2, <2>1, <2>2, <2>3, <2>4
<1>4. FloorDiv(accrued * rate, Scalar7) <= accrued - 1
  BY <1>2, <1>3, FloorDivUpper, ScalarsPositive
<1> QED
  BY <1>1, <1>4 DEF BackstopShare, MulFloor

\* Whatever is added to the supply, its shares do not lose value to rounding.
LEMMA ShareValueGrows ==
    ASSUME NEW b_supply \in Nat, b_supply > 0, NEW b_rate \in Nat,
           NEW more \in Nat, more > 0
    PROVE  LET total == MulFloor(b_supply, b_rate, Scalar12) + more
           IN  /\ DivFloor(total, b_supply, Scalar12) \in Nat
               /\ DivFloor(total, b_supply, Scalar12) >= b_rate
<1> DEFINE floor == FloorDiv(b_supply * b_rate, Scalar12)
           total == floor + more
<1>1. b_supply * b_rate \in Nat /\ b_supply * b_rate \in Int
  BY ProductNat
<1>2. floor \in Nat /\ total \in Nat
  BY <1>1, FloorDivNat, ScalarsPositive
<1>3. b_supply * b_rate < Scalar12 * floor + Scalar12
  BY <1>1, FloorDivBounds, ScalarsPositive
<1>4. Scalar12 * floor + Scalar12 = Scalar12 * (floor + 1)
  BY <1>2, ScalarsPositive, SMT
<1>5. Scalar12 * (floor + 1) <= Scalar12 * total
  <2>1. floor + 1 \in Int /\ total \in Int /\ floor + 1 <= total
    BY <1>2
  <2> QED
    BY <2>1, ProductMonotone, ScalarsPositive
<1>6. Scalar12 * total = total * Scalar12 /\ total * Scalar12 \in Int
  BY <1>2, ProductInt, ScalarsPositive, SMT
<1>7. Scalar12 * floor \in Int /\ Scalar12 * (floor + 1) \in Int
  BY <1>2, ProductInt, ScalarsPositive
<1>8. b_supply * b_rate <= total * Scalar12
  BY <1>1, <1>3, <1>4, <1>5, <1>6, <1>7
<1>9. b_rate <= FloorDiv(total * Scalar12, b_supply)
  BY <1>6, <1>8, FloorDivLower
<1>10. DivFloor(total, b_supply, Scalar12) \in Nat
  <2> HIDE DEF total
  <2>1. b_supply \in Int
    OBVIOUS
  <2> QED
    BY <2>1, <1>2, DivNat, ScalarsPositive
<1> QED
  BY <1>2, <1>9, <1>10 DEF MulFloor, DivFloor

-----------------------------------------------------------------------------
(* Reserve::load.                                                          *)

\* What an update to `time' leaves of a reserve.
Refreshes(r, l, time) ==
    /\ l \in ReserveData
    /\ l.d_rate >= r.d_rate
    /\ l.b_rate >= r.b_rate
    /\ l.b_supply = r.b_supply
    /\ l.d_supply = r.d_supply
    /\ l.backstop_credit >= r.backstop_credit
    /\ l.last_time = time

LEMMA AccrueRefreshes ==
    ASSUME NEW r \in ReserveData, r.b_supply > 0,
           NEW accrued \in Int, NEW credit \in Nat,
           accrued > 0 => credit <= accrued - 1
    PROVE  Refreshes(r, Accrue(r, accrued, credit), r.last_time)
<1> DEFINE rate == DivFloor(TotalSupply(r) + accrued - credit, r.b_supply, Scalar12)
           l == [r EXCEPT !.backstop_credit = @ + credit, !.b_rate = rate]
<1>1. CASE accrued > 0
  <2>1. /\ r.b_supply \in Nat /\ r.b_rate \in Nat /\ r.backstop_credit \in Int
        /\ accrued - credit \in Nat /\ accrued - credit > 0
    BY <1>1 DEF ReserveData
  <2>2. TotalSupply(r) \in Nat
    BY TotalsNat
  <2>3. TotalSupply(r) + accrued - credit = TotalSupply(r) + (accrued - credit)
    BY <2>2
  <2>4. rate \in Nat /\ rate >= r.b_rate
    BY <2>1, <2>3, ShareValueGrows DEF TotalSupply, ToAssetFromB
  <2> HIDE DEF rate
  <2>5. l \in ReserveData
    <3> DEFINE credited == [r EXCEPT !.backstop_credit = @ + credit]
    <3>1. credited \in ReserveData
      BY <2>1 DEF ReserveData
    <3>2. l = [credited EXCEPT !.b_rate = rate]
      OBVIOUS
    <3> HIDE DEF credited, l
    <3> QED
      BY <2>4, <3>1, <3>2 DEF ReserveData
  <2>6. l.backstop_credit = r.backstop_credit + credit
    BY DEF ReserveData
  <2>7. l.b_rate = rate
    BY DEF ReserveData
  <2>8. /\ l.d_rate = r.d_rate
        /\ l.b_supply = r.b_supply /\ l.d_supply = r.d_supply
        /\ l.last_time = r.last_time
    BY DEF ReserveData
  <2>9. Refreshes(r, l, r.last_time)
    <3>1. r.d_rate \in Nat
      BY DEF ReserveData
    <3> HIDE DEF l
    <3>2. l.backstop_credit >= r.backstop_credit
      BY <2>1, <2>6
    <3>3. l.d_rate >= r.d_rate
      BY <2>8, <3>1
    <3>4. l.b_rate >= r.b_rate
      BY <2>4, <2>7
    <3> QED
      BY <2>5, <2>8, <3>2, <3>3, <3>4 DEF Refreshes
  <2> QED
    BY <2>9, <1>1 DEF Accrue, rate
<1>2. CASE ~(accrued > 0)
  BY <1>2 DEF Accrue, Refreshes, ReserveData
<1> QED
  BY <1>1, <1>2

\* What growing debt leaves alone.
OnlyDebtRateMoved(r, grown) ==
    /\ grown \in ReserveData
    /\ grown.d_rate >= r.d_rate
    /\ grown.b_supply = r.b_supply /\ grown.d_supply = r.d_supply
    /\ grown.b_rate = r.b_rate /\ grown.backstop_credit = r.backstop_credit
    /\ grown.last_time = r.last_time

LEMMA GrowDebtType ==
    ASSUME NEW r \in ReserveData, NEW cfg, ValidReserveConfig(cfg),
           NEW util \in Nat, util # 0, NEW delta \in Nat
    PROVE  OnlyDebtRateMoved(r, GrowDebt(r, cfg, util, delta))
<1> DEFINE mod == NextRateModifier(cfg, util, r.ir_mod, delta)
           growth == LoanAccrual(cfg, util, r.ir_mod, delta)
           rate == MulCeil(growth, r.d_rate, Scalar12)
<1>1. r.ir_mod \in Nat /\ r.d_rate \in Nat
  BY DEF ReserveData
<1>2. mod \in Nat
  BY <1>1, NextRateModifierNat
<1>3. growth \in Nat /\ growth \in Int /\ growth >= Scalar12
  BY <1>1, LoanAccrualAtLeastOne
<1>4. rate \in Nat /\ rate >= r.d_rate
  <2> HIDE DEF growth
  <2> QED
    BY <1>1, <1>3, MulNat, MulCeilAtLeast, ScalarsPositive
<1> DEFINE turned == [r EXCEPT !.ir_mod = mod]
           grown == [turned EXCEPT !.d_rate = rate]
<1>5. GrowDebt(r, cfg, util, delta) = grown
  BY DEF GrowDebt
<1> HIDE DEF mod, rate
<1>6. /\ turned \in ReserveData
      /\ turned.b_supply = r.b_supply /\ turned.d_supply = r.d_supply
      /\ turned.b_rate = r.b_rate /\ turned.backstop_credit = r.backstop_credit
      /\ turned.last_time = r.last_time
  BY <1>2 DEF ReserveData
<1> HIDE DEF turned
<1>7. /\ grown \in ReserveData /\ grown.d_rate = rate
      /\ grown.b_supply = r.b_supply /\ grown.d_supply = r.d_supply
      /\ grown.b_rate = r.b_rate /\ grown.backstop_credit = r.backstop_credit
      /\ grown.last_time = r.last_time
  BY <1>4, <1>6 DEF ReserveData
<1> HIDE DEF grown
<1> QED
  BY <1>4, <1>5, <1>7 DEF OnlyDebtRateMoved

LEMMA AccrueGrowthRefreshes ==
    ASSUME NEW r \in ReserveData, NEW grown \in ReserveData, r.b_supply > 0,
           OnlyDebtRateMoved(r, grown),
           NEW rate \in Nat, rate < Scalar7
    PROVE  Refreshes(r, AccrueGrowth(r, grown, rate), r.last_time)
<1> DEFINE accrued == TotalLiabilities(grown) - TotalLiabilities(r)
           credit == BackstopShare(accrued, rate)
<1>1. accrued \in Int
  BY TotalsNat
<1>2. /\ grown.b_supply = r.b_supply /\ grown.d_supply = r.d_supply
      /\ grown.b_rate = r.b_rate /\ grown.backstop_credit = r.backstop_credit
      /\ grown.last_time = r.last_time /\ grown.d_rate >= r.d_rate
      /\ r.d_rate \in Nat /\ grown.d_rate \in Nat
  BY DEF ReserveData, OnlyDebtRateMoved
<1>3. CASE accrued > 0
  <2>1. credit \in Nat /\ credit <= accrued - 1
    BY <1>1, <1>3, BackstopShareLess
  <2>2. Refreshes(grown, Accrue(grown, accrued, credit), grown.last_time)
    <3> HIDE DEF accrued, credit
    <3> QED
      BY <1>1, <1>2, <2>1, AccrueRefreshes
  <2>3. AccrueGrowth(r, grown, rate) = Accrue(grown, accrued, credit)
    BY DEF AccrueGrowth
  <2> HIDE DEF accrued, credit
  <2> QED
    BY <1>2, <2>2, <2>3 DEF Refreshes, ReserveData
<1>4. CASE ~(accrued > 0)
  <2>1. AccrueGrowth(r, grown, rate) = grown
    BY <1>4 DEF AccrueGrowth, Accrue
  <2> QED
    BY <1>2, <2>1 DEF Refreshes, ReserveData
<1> QED
  BY <1>3, <1>4

\* Reserve::load keeps a reserve well formed, touches neither total of shares,
\* and makes no share worth less.
THEOREM LoadRefreshes ==
    ASSUME NEW r \in ReserveData, NEW cfg, ValidReserveConfig(cfg),
           NEW rate \in Nat, rate < Scalar7,
           NEW time \in Nat, r.last_time <= time
    PROVE  Refreshes(r, Load(r, cfg, rate, time), time)
<1> DEFINE util == Utilization(r)
           delta == time - r.last_time
           grown == GrowDebt(r, cfg, util, delta)
           accrued == AccrueGrowth(r, grown, rate)
<1>1. CASE time = r.last_time
  BY <1>1 DEF Load, Refreshes, ReserveData
<1>2. CASE time # r.last_time /\ (r.b_supply = 0 \/ util = 0)
  <2>1. Load(r, cfg, rate, time) = [r EXCEPT !.last_time = time]
    BY <1>2 DEF Load
  <2> QED
    BY <2>1 DEF Refreshes, ReserveData
<1>3. CASE time # r.last_time /\ ~(r.b_supply = 0 \/ util = 0)
  <2>1. /\ util \in Nat /\ util # 0 /\ delta \in Nat
        /\ r.b_supply \in Nat /\ r.b_supply > 0
    BY <1>3, UtilizationNat DEF ReserveData
  <2>2. OnlyDebtRateMoved(r, grown)
    <3> HIDE DEF util, delta
    <3> QED
      BY <2>1, GrowDebtType
  <2>3. Refreshes(r, accrued, r.last_time)
    <3> HIDE DEF grown
    <3> QED
      BY <2>1, <2>2, AccrueGrowthRefreshes DEF OnlyDebtRateMoved
  <2>4. Load(r, cfg, rate, time) = [accrued EXCEPT !.last_time = time]
    BY <1>3 DEF Load
  <2> HIDE DEF accrued
  <2> QED
    BY <2>3, <2>4 DEF Refreshes, ReserveData
<1> QED
  BY <1>1, <1>2, <1>3

-----------------------------------------------------------------------------
(* A later load accrues no less to the backstop.                           *)

LEMMA MulMonotoneLeft ==
    ASSUME NEW c \in Nat, NEW x \in Nat, NEW y \in Nat, x <= y, NEW d \in Int, d > 0
    PROVE  /\ MulFloor(x, c, d) <= MulFloor(y, c, d)
           /\ MulCeil(x, c, d) <= MulCeil(y, c, d)
<1>1. x * c = c * x /\ y * c = c * y
  BY SMT
<1>2. /\ MulFloor(x, c, d) = MulFloor(c, x, d) /\ MulFloor(y, c, d) = MulFloor(c, y, d)
      /\ MulCeil(x, c, d) = MulCeil(c, x, d) /\ MulCeil(y, c, d) = MulCeil(c, y, d)
  BY <1>1 DEF MulFloor, MulCeil
<1> QED
  BY <1>2, MulMonotone

LEMMA LoanAccrualMonotone ==
    ASSUME NEW cfg, ValidReserveConfig(cfg), NEW util \in Nat, util # 0, NEW ir_mod \in Nat,
           NEW d1 \in Nat, NEW d2 \in Nat, d1 <= d2
    PROVE  LoanAccrual(cfg, util, ir_mod, d1) <= LoanAccrual(cfg, util, ir_mod, d2)
<1> DEFINE rate == CurrentRate(cfg, util, ir_mod)
           t1 == FloorDiv(d1 * Scalar12, SecondsPerYear)
           t2 == FloorDiv(d2 * Scalar12, SecondsPerYear)
           g1 == MulCeil(t1, rate, Scalar7)
           g2 == MulCeil(t2, rate, Scalar7)
<1>1. rate \in Nat
  BY CurrentRateNat
<1>2. /\ LoanAccrual(cfg, util, ir_mod, d1) = Scalar12 + g1
      /\ LoanAccrual(cfg, util, ir_mod, d2) = Scalar12 + g2
  BY ScalarsPositive DEF LoanAccrual, FloorDiv
<1> HIDE DEF rate
<1>3. t1 \in Nat /\ t2 \in Nat
  <2>1. d1 * Scalar12 \in Nat /\ d2 * Scalar12 \in Nat
    BY ProductNat, ScalarsPositive
  <2> QED
    BY <2>1, FloorDivNat, ScalarsPositive
<1>4. t1 <= t2
  <2>1. t1 = MulFloor(d1, Scalar12, SecondsPerYear) /\ t2 = MulFloor(d2, Scalar12, SecondsPerYear)
    BY DEF MulFloor
  <2> QED
    BY <2>1, MulMonotoneLeft, ScalarsPositive
<1> HIDE DEF t1, t2
<1>5. g1 \in Nat /\ g2 \in Nat /\ g1 <= g2
  BY <1>1, <1>3, <1>4, MulNat, MulMonotoneLeft, ScalarsPositive
<1> HIDE DEF g1, g2
<1> QED
  BY <1>2, <1>5, ScalarsPositive

\* The credit a load leaves, when it accrues at all.
LEMMA LoadedCreditIs ==
    ASSUME NEW r \in ReserveData, NEW cfg, ValidReserveConfig(cfg),
           NEW rate \in Nat, rate < Scalar7, NEW time \in Nat, r.last_time < time,
           ~(r.b_supply = 0 \/ Utilization(r) = 0),
           NEW growth, growth = LoanAccrual(cfg, Utilization(r), r.ir_mod, time - r.last_time),
           NEW accrued,
           accrued = MulCeil(r.d_supply, MulCeil(growth, r.d_rate, Scalar12), Scalar12)
                       - TotalLiabilities(r)
    PROVE  Load(r, cfg, rate, time).backstop_credit =
             r.backstop_credit + (IF accrued > 0 THEN BackstopShare(accrued, rate) ELSE 0)
<1> DEFINE util == Utilization(r)
           delta == time - r.last_time
           grown == GrowDebt(r, cfg, util, delta)
           credit == BackstopShare(accrued, rate)
           l == AccrueGrowth(r, grown, rate)
<1>1. util \in Nat /\ util # 0 /\ delta \in Nat /\ time # r.last_time
  BY UtilizationNat DEF ReserveData
<1>2. Load(r, cfg, rate, time) = [l EXCEPT !.last_time = time]
  BY <1>1 DEF Load
<1>3. grown.d_rate = MulCeil(growth, r.d_rate, Scalar12)
  <2> DEFINE mod == NextRateModifier(cfg, util, r.ir_mod, delta)
             new == MulCeil(growth, r.d_rate, Scalar12)
  <2>1. grown = [r EXCEPT !.ir_mod = mod, !.d_rate = new]
    BY DEF GrowDebt
  <2> HIDE DEF mod, new
  <2> QED
    BY <2>1 DEF ReserveData, new
<1>4. OnlyDebtRateMoved(r, grown)
  <2> HIDE DEF util, delta
  <2> QED
    BY <1>1, GrowDebtType
<1> HIDE DEF util, delta, grown
<1>5. /\ grown \in ReserveData /\ grown.d_supply = r.d_supply
      /\ grown.backstop_credit = r.backstop_credit
  BY <1>4 DEF OnlyDebtRateMoved
<1>6. TotalLiabilities(grown) - TotalLiabilities(r) = accrued
  BY <1>3, <1>5 DEF TotalLiabilities, ToAssetFromD
<1>7. l = Accrue(grown, accrued, credit)
  BY <1>6 DEF AccrueGrowth
<1> HIDE DEF credit
<1>8. l.backstop_credit = r.backstop_credit + (IF accrued > 0 THEN credit ELSE 0)
  <2>1. CASE accrued > 0
    <3> DEFINE bump == grown.backstop_credit + credit
               new == DivFloor(TotalSupply(grown) + accrued - credit, grown.b_supply, Scalar12)
    <3>1. l = [grown EXCEPT !.backstop_credit = bump, !.b_rate = new]
      BY <1>7, <2>1 DEF Accrue
    <3> HIDE DEF bump, new, l
    <3>2. l.backstop_credit = bump
      BY <1>5, <3>1 DEF ReserveData
    <3> QED
      BY <1>5, <2>1, <3>2 DEF bump
  <2>2. CASE ~(accrued > 0)
    <3>1. l = grown
      BY <1>7, <2>2 DEF Accrue
    <3> QED
      BY <1>5, <2>2, <3>1 DEF ReserveData
  <2> QED
    BY <2>1, <2>2
<1>9. Load(r, cfg, rate, time).backstop_credit = l.backstop_credit
  <2>1. l \in ReserveData
    <3>1. r.b_supply > 0 /\ r.b_supply \in Nat
      BY DEF ReserveData
    <3> QED
      BY <1>4, <1>5, <3>1, AccrueGrowthRefreshes DEF Refreshes
  <2> HIDE DEF l
  <2> QED
    BY <1>2, <2>1 DEF ReserveData
<1> QED
  BY <1>8, <1>9 DEF credit

\* Interest earned for the backstop only grows with time: the later a reserve is
\* loaded, the more is credited (calc_accrual and Reserve::load).
THEOREM CreditGrowsWithTime ==
    ASSUME NEW r \in ReserveData, NEW cfg, ValidReserveConfig(cfg),
           NEW rate \in Nat, rate < Scalar7,
           NEW t1 \in Nat, NEW t2 \in Nat, r.last_time <= t1, t1 <= t2
    PROVE  Load(r, cfg, rate, t1).backstop_credit <= Load(r, cfg, rate, t2).backstop_credit
<1> DEFINE l1 == Load(r, cfg, rate, t1)
           l2 == Load(r, cfg, rate, t2)
<1>1. r.last_time \in Nat /\ r.backstop_credit \in Int /\ r.last_time <= t2
  BY DEF ReserveData
<1>2. /\ l1.backstop_credit >= r.backstop_credit /\ l2.backstop_credit >= r.backstop_credit
      /\ l1.backstop_credit \in Int /\ l2.backstop_credit \in Int
  BY <1>1, LoadRefreshes DEF Refreshes, ReserveData
<1>3. CASE t1 = r.last_time
  <2>1. l1 = r
    BY <1>3 DEF Load
  <2> HIDE DEF l1, l2
  <2>2. l1.backstop_credit = r.backstop_credit
    BY <2>1
  <2> QED
    BY <1>1, <1>2, <2>2 DEF l1, l2
<1>4. CASE t1 # r.last_time /\ (r.b_supply = 0 \/ Utilization(r) = 0)
  <2>1. l1 = [r EXCEPT !.last_time = t1]
    BY <1>4 DEF Load
  <2> HIDE DEF l1, l2
  <2>2. l1.backstop_credit = r.backstop_credit
    BY <2>1 DEF ReserveData
  <2> QED
    BY <1>1, <1>2, <2>2 DEF l1, l2
<1>5. CASE t1 # r.last_time /\ ~(r.b_supply = 0 \/ Utilization(r) = 0)
  <2> DEFINE util == Utilization(r)
             d1 == t1 - r.last_time
             d2 == t2 - r.last_time
             g1 == LoanAccrual(cfg, util, r.ir_mod, d1)
             g2 == LoanAccrual(cfg, util, r.ir_mod, d2)
             m1 == MulCeil(g1, r.d_rate, Scalar12)
             m2 == MulCeil(g2, r.d_rate, Scalar12)
             n1 == MulCeil(r.d_supply, m1, Scalar12)
             n2 == MulCeil(r.d_supply, m2, Scalar12)
             a1 == n1 - TotalLiabilities(r)
             a2 == n2 - TotalLiabilities(r)
  <2>1. /\ d1 \in Nat /\ d2 \in Nat /\ d1 <= d2 /\ r.last_time < t1 /\ r.last_time < t2
        /\ util \in Nat /\ util # 0
        /\ r.ir_mod \in Nat /\ r.d_rate \in Nat /\ r.d_supply \in Nat
    BY <1>1, <1>5, UtilizationNat DEF ReserveData
  <2>2. l1.backstop_credit = r.backstop_credit + (IF a1 > 0 THEN BackstopShare(a1, rate) ELSE 0)
    BY <1>5, <2>1, LoadedCreditIs
  <2>3. l2.backstop_credit = r.backstop_credit + (IF a2 > 0 THEN BackstopShare(a2, rate) ELSE 0)
    BY <1>5, <2>1, LoadedCreditIs
  <2> HIDE DEF l1, l2, util, d1, d2
  <2>4. g1 \in Nat /\ g2 \in Nat /\ g1 <= g2
    BY <2>1, LoanAccrualAtLeastOne, LoanAccrualMonotone
  <2> HIDE DEF g1, g2
  <2>5. m1 \in Nat /\ m2 \in Nat /\ m1 <= m2
    BY <2>1, <2>4, MulNat, MulMonotoneLeft, ScalarsPositive
  <2> HIDE DEF m1, m2
  <2>6. n1 \in Nat /\ n2 \in Nat /\ n1 <= n2
    BY <2>1, <2>5, MulNat, MulMonotone, ScalarsPositive
  <2> HIDE DEF n1, n2
  <2>7. a1 \in Int /\ a2 \in Int /\ a1 <= a2
    BY <2>6, TotalsNat
  <2> HIDE DEF a1, a2
  <2>8. CASE a1 > 0
    <3>1. a1 \in Nat /\ a2 \in Nat /\ a2 > 0
      BY <2>7, <2>8
    <3>2. BackstopShare(a1, rate) <= BackstopShare(a2, rate)
      BY <2>7, <3>1, MulMonotoneLeft, ScalarsPositive DEF BackstopShare
    <3>3. BackstopShare(a1, rate) \in Nat /\ BackstopShare(a2, rate) \in Nat
      BY <2>8, <3>1, BackstopShareLess
    <3> QED
      BY <1>1, <2>2, <2>3, <2>8, <3>1, <3>2, <3>3 DEF l1, l2
  <2>9. CASE ~(a1 > 0)
    <3>1. l1.backstop_credit = r.backstop_credit
      BY <1>1, <2>2, <2>9
    <3> QED
      BY <1>1, <1>2, <3>1 DEF l1, l2
  <2> QED
    BY <2>8, <2>9
<1> QED
  BY <1>3, <1>4, <1>5

-----------------------------------------------------------------------------
(* Ledgers.                                                                *)

\* What the operations rely on, and keep.
WellFormed(l) ==
    /\ l \in Ledger
    /\ \A a \in Assets : l.reserves[a].d_rate > 0 /\ l.reserves[a].last_time <= now
    /\ SharesMatch(l)

GoodSettings ==
    /\ now \in Nat
    /\ price \in [Assets -> Nat]
    /\ config \in Config
    /\ config.bstop_rate < Scalar7
    /\ \A a \in Assets :
        /\ ValidReserveConfig(config.reserves[a])
        /\ config.queued[a] # NoQueue => ValidReserveConfig(config.queued[a].new_config)

LEMMA AccountsFinite == IsFiniteSet(Accounts) /\ Backstop \in Accounts /\ Users \subseteq Accounts
<1>1. IsFiniteSet({Backstop})
  BY FS_Singleton
<1> QED
  BY <1>1, StateAssumption, FS_Union DEF Accounts

\* What an account's positions add to the totals of a reserve.
BShares(p, a) == p.collateral[a] + p.supply[a]
DShares(p, a) == p.liabilities[a]

LEMMA SharesMatchIs ==
    ASSUME NEW l
    PROVE  SharesMatch(l) <=>
             \A a \in Assets :
                /\ l.reserves[a].b_supply = SumFunction([u \in Accounts |-> BShares(l.positions[u], a)])
                /\ l.reserves[a].d_supply = SumFunction([u \in Accounts |-> DShares(l.positions[u], a)])
  BY DEF SharesMatch, BShares, DShares

LEMMA PositionNat ==
    ASSUME NEW p \in Positions, NEW a \in Assets
    PROVE  /\ p.collateral[a] \in Nat /\ p.supply[a] \in Nat /\ p.liabilities[a] \in Nat
           /\ BShares(p, a) \in Nat /\ DShares(p, a) \in Nat
  BY DEF Positions, BShares, DShares

LEMMA LedgerFields ==
    ASSUME NEW l \in Ledger
    PROVE  /\ l.reserves \in [Assets -> ReserveData]
           /\ l.positions \in [Accounts -> Positions]
           /\ l.liquidation \in [Users -> Auction \cup {NoAuction}]
           /\ l.bad_debt \in Auction \cup {NoAuction}
           /\ l.interest \in Auction \cup {NoAuction}
           /\ l.balance \in [Assets -> Int]
           /\ l.backstop_tokens \in Nat
  BY DEF Ledger

\* No account holds more than the reserve's total.
LEMMA PartOfTotal ==
    ASSUME NEW l, WellFormed(l), NEW u \in Accounts, NEW a \in Assets
    PROVE  /\ BShares(l.positions[u], a) <= l.reserves[a].b_supply
           /\ DShares(l.positions[u], a) <= l.reserves[a].d_supply
<1> DEFINE b == [v \in Accounts |-> BShares(l.positions[v], a)]
           d == [v \in Accounts |-> DShares(l.positions[v], a)]
<1>1. l.positions \in [Accounts -> Positions]
  BY LedgerFields DEF WellFormed
<1>2. b \in [Accounts -> Nat] /\ d \in [Accounts -> Nat]
  BY <1>1, PositionNat
<1>3. b[u] = BShares(l.positions[u], a) /\ d[u] = DShares(l.positions[u], a)
  OBVIOUS
<1>4. l.reserves[a].b_supply = SumFunction(b) /\ l.reserves[a].d_supply = SumFunction(d)
  BY SharesMatchIs DEF WellFormed
<1> HIDE DEF b, d
<1>5. b[u] <= SumFunction(b) /\ d[u] <= SumFunction(d)
  BY <1>2, AccountsFinite, SumFunctionBound
<1> QED
  BY <1>3, <1>4, <1>5

-----------------------------------------------------------------------------
(* One account's positions in one reserve change, the totals with them.    *)

WithShares(w, u, p, a, r) == [w EXCEPT !.positions[u] = p, !.reserves[a] = r]

LEMMA WithSharesFields ==
    ASSUME NEW w \in Ledger, NEW u \in Accounts, NEW a \in Assets,
           NEW p \in Positions, NEW r \in ReserveData
    PROVE  /\ WithShares(w, u, p, a, r) \in Ledger
           /\ WithShares(w, u, p, a, r).positions = [w.positions EXCEPT ![u] = p]
           /\ WithShares(w, u, p, a, r).reserves = [w.reserves EXCEPT ![a] = r]
  BY DEF WithShares, Ledger

LEMMA WithSharesWellFormed ==
    ASSUME NEW w, WellFormed(w), NEW u \in Accounts, NEW a \in Assets,
           NEW p \in Positions, NEW r \in ReserveData,
           r.d_rate > 0, r.last_time <= now,
           \A c \in Assets \ {a} :
              /\ BShares(p, c) = BShares(w.positions[u], c)
              /\ DShares(p, c) = DShares(w.positions[u], c),
           r.b_supply = w.reserves[a].b_supply + BShares(p, a) - BShares(w.positions[u], a),
           r.d_supply = w.reserves[a].d_supply + DShares(p, a) - DShares(w.positions[u], a)
    PROVE  WellFormed(WithShares(w, u, p, a, r))
<1> DEFINE v == WithShares(w, u, p, a, r)
<1>1. /\ w \in Ledger
      /\ w.positions \in [Accounts -> Positions]
      /\ w.reserves \in [Assets -> ReserveData]
  BY LedgerFields DEF WellFormed
<1>2. /\ v \in Ledger
      /\ v.positions = [w.positions EXCEPT ![u] = p]
      /\ v.reserves = [w.reserves EXCEPT ![a] = r]
  BY <1>1, WithSharesFields
<1> HIDE DEF v
<1>3. \A c \in Assets : v.reserves[c].d_rate > 0 /\ v.reserves[c].last_time <= now
  BY <1>1, <1>2 DEF WellFormed
<1>4. ASSUME NEW c \in Assets
      PROVE  /\ v.reserves[c].b_supply = SumFunction([x \in Accounts |-> BShares(v.positions[x], c)])
             /\ v.reserves[c].d_supply = SumFunction([x \in Accounts |-> DShares(v.positions[x], c)])
  <2> DEFINE b == [x \in Accounts |-> BShares(w.positions[x], c)]
             d == [x \in Accounts |-> DShares(w.positions[x], c)]
             bb == [x \in Accounts |-> BShares(v.positions[x], c)]
             dd == [x \in Accounts |-> DShares(v.positions[x], c)]
  <2>1. v.positions \in [Accounts -> Positions]
    BY <1>2, LedgerFields
  <2>2. /\ b \in [Accounts -> Int] /\ d \in [Accounts -> Int]
        /\ bb \in [Accounts -> Int] /\ dd \in [Accounts -> Int]
    BY <1>1, <2>1, PositionNat
  <2>3. \A x \in Accounts \ {u} : bb[x] = b[x] /\ dd[x] = d[x]
    BY <1>1, <1>2
  <2>4. /\ bb[u] = BShares(p, c) /\ dd[u] = DShares(p, c)
        /\ b[u] = BShares(w.positions[u], c) /\ d[u] = DShares(w.positions[u], c)
    BY <1>1, <1>2
  <2>5. /\ w.reserves[c].b_supply = SumFunction(b)
        /\ w.reserves[c].d_supply = SumFunction(d)
    BY SharesMatchIs DEF WellFormed
  <2>6. w.reserves[c].b_supply \in Int /\ w.reserves[c].d_supply \in Int
    BY <1>1 DEF ReserveData
  <2> HIDE DEF b, d, bb, dd
  <2>7. /\ SumFunction(bb) = SumFunction(b) + bb[u] - b[u]
        /\ SumFunction(dd) = SumFunction(d) + dd[u] - d[u]
    BY <2>2, <2>3, AccountsFinite, SumFunctionUpdate
  <2>8. b[u] \in Int /\ d[u] \in Int
    BY <2>2
  <2>9. v.reserves[c] = IF c = a THEN r ELSE w.reserves[c]
    BY <1>1, <1>2
  <2>10. v.reserves[c].b_supply = SumFunction(bb) /\ v.reserves[c].d_supply = SumFunction(dd)
    <3>1. CASE c = a
      BY <2>4, <2>5, <2>7, <2>9, <3>1
    <3>2. CASE c # a
      <4>1. bb[u] = b[u] /\ dd[u] = d[u]
        BY <2>4, <3>2
      <4> QED
        BY <2>5, <2>6, <2>7, <2>8, <2>9, <3>2, <4>1
    <3> QED
      BY <3>1, <3>2
  <2> QED
    BY <2>10 DEF bb, dd
<1>5. SharesMatch(v)
  BY <1>4, SharesMatchIs
<1> QED
  BY <1>2, <1>3, <1>5 DEF WellFormed, v

-----------------------------------------------------------------------------
(* User::add_* and User::remove_*.                                         *)

LEMMA AddLiabilitiesWellFormed ==
    ASSUME NEW w, WellFormed(w), NEW u \in Accounts, NEW a \in Assets,
           NEW n \in Nat
    PROVE  WellFormed(AddLiabilities(w, u, a, n))
<1> DEFINE p == [w.positions[u] EXCEPT !.liabilities[a] = @ + n]
           r == [w.reserves[a] EXCEPT !.d_supply = @ + n]
<1>1. AddLiabilities(w, u, a, n) = WithShares(w, u, p, a, r)
  BY DEF AddLiabilities, WithShares
<1>2. w.positions[u] \in Positions /\ w.reserves[a] \in ReserveData
  BY LedgerFields DEF WellFormed
<1>3. /\ BShares(w.positions[u], a) <= w.reserves[a].b_supply
      /\ DShares(w.positions[u], a) <= w.reserves[a].d_supply
  BY PartOfTotal
<1>4. p \in Positions
  BY <1>2 DEF Positions
<1>5. /\ BShares(p, a) - BShares(w.positions[u], a) = 0
      /\ DShares(p, a) - DShares(w.positions[u], a) = n
      /\ \A c \in Assets \ {a} : /\ BShares(p, c) = BShares(w.positions[u], c)
                                 /\ DShares(p, c) = DShares(w.positions[u], c)
  BY <1>2 DEF Positions, BShares, DShares
<1>6. r \in ReserveData
  <2>1. w.reserves[a].d_supply + n \in Nat
    BY <1>2, <1>3, PositionNat DEF ReserveData, BShares, DShares
  <2> QED
    BY <1>2, <2>1 DEF ReserveData
<1>7. /\ r.d_rate = w.reserves[a].d_rate /\ r.last_time = w.reserves[a].last_time
      /\ r.d_supply = w.reserves[a].d_supply + n
      /\ r.b_supply = w.reserves[a].b_supply
  BY <1>2 DEF ReserveData
<1>8. /\ BShares(p, a) \in Nat /\ DShares(p, a) \in Nat
      /\ BShares(w.positions[u], a) \in Nat /\ DShares(w.positions[u], a) \in Nat
      /\ w.reserves[a].b_supply \in Nat /\ w.reserves[a].d_supply \in Nat
  BY <1>2, <1>4, PositionNat DEF ReserveData
<1>9. r.d_rate > 0 /\ r.last_time <= now
  BY <1>7 DEF WellFormed
<1> HIDE DEF p, r
<1>10. /\ r.b_supply = w.reserves[a].b_supply + BShares(p, a) - BShares(w.positions[u], a)
       /\ r.d_supply = w.reserves[a].d_supply + DShares(p, a) - DShares(w.positions[u], a)
  BY <1>5, <1>7, <1>8
<1> QED
  BY <1>1, <1>4, <1>5, <1>6, <1>9, <1>10, WithSharesWellFormed

LEMMA AddCollateralWellFormed ==
    ASSUME NEW w, WellFormed(w), NEW u \in Accounts, NEW a \in Assets,
           NEW n \in Nat
    PROVE  WellFormed(AddCollateral(w, u, a, n))
<1> DEFINE p == [w.positions[u] EXCEPT !.collateral[a] = @ + n]
           r == [w.reserves[a] EXCEPT !.b_supply = @ + n]
<1>1. AddCollateral(w, u, a, n) = WithShares(w, u, p, a, r)
  BY DEF AddCollateral, WithShares
<1>2. w.positions[u] \in Positions /\ w.reserves[a] \in ReserveData
  BY LedgerFields DEF WellFormed
<1>3. /\ BShares(w.positions[u], a) <= w.reserves[a].b_supply
      /\ DShares(w.positions[u], a) <= w.reserves[a].d_supply
  BY PartOfTotal
<1>4. p \in Positions
  BY <1>2 DEF Positions
<1>5. /\ BShares(p, a) - BShares(w.positions[u], a) = n
      /\ DShares(p, a) - DShares(w.positions[u], a) = 0
      /\ \A c \in Assets \ {a} : /\ BShares(p, c) = BShares(w.positions[u], c)
                                 /\ DShares(p, c) = DShares(w.positions[u], c)
  BY <1>2 DEF Positions, BShares, DShares
<1>6. r \in ReserveData
  <2>1. w.reserves[a].b_supply + n \in Nat
    BY <1>2, <1>3, PositionNat DEF ReserveData, BShares, DShares
  <2> QED
    BY <1>2, <2>1 DEF ReserveData
<1>7. /\ r.d_rate = w.reserves[a].d_rate /\ r.last_time = w.reserves[a].last_time
      /\ r.b_supply = w.reserves[a].b_supply + n
      /\ r.d_supply = w.reserves[a].d_supply
  BY <1>2 DEF ReserveData
<1>8. /\ BShares(p, a) \in Nat /\ DShares(p, a) \in Nat
      /\ BShares(w.positions[u], a) \in Nat /\ DShares(w.positions[u], a) \in Nat
      /\ w.reserves[a].b_supply \in Nat /\ w.reserves[a].d_supply \in Nat
  BY <1>2, <1>4, PositionNat DEF ReserveData
<1>9. r.d_rate > 0 /\ r.last_time <= now
  BY <1>7 DEF WellFormed
<1> HIDE DEF p, r
<1>10. /\ r.b_supply = w.reserves[a].b_supply + BShares(p, a) - BShares(w.positions[u], a)
       /\ r.d_supply = w.reserves[a].d_supply + DShares(p, a) - DShares(w.positions[u], a)
  BY <1>5, <1>7, <1>8
<1> QED
  BY <1>1, <1>4, <1>5, <1>6, <1>9, <1>10, WithSharesWellFormed

LEMMA AddSupplyWellFormed ==
    ASSUME NEW w, WellFormed(w), NEW u \in Accounts, NEW a \in Assets,
           NEW n \in Nat
    PROVE  WellFormed(AddSupply(w, u, a, n))
<1> DEFINE p == [w.positions[u] EXCEPT !.supply[a] = @ + n]
           r == [w.reserves[a] EXCEPT !.b_supply = @ + n]
<1>1. AddSupply(w, u, a, n) = WithShares(w, u, p, a, r)
  BY DEF AddSupply, WithShares
<1>2. w.positions[u] \in Positions /\ w.reserves[a] \in ReserveData
  BY LedgerFields DEF WellFormed
<1>3. /\ BShares(w.positions[u], a) <= w.reserves[a].b_supply
      /\ DShares(w.positions[u], a) <= w.reserves[a].d_supply
  BY PartOfTotal
<1>4. p \in Positions
  BY <1>2 DEF Positions
<1>5. /\ BShares(p, a) - BShares(w.positions[u], a) = n
      /\ DShares(p, a) - DShares(w.positions[u], a) = 0
      /\ \A c \in Assets \ {a} : /\ BShares(p, c) = BShares(w.positions[u], c)
                                 /\ DShares(p, c) = DShares(w.positions[u], c)
  BY <1>2 DEF Positions, BShares, DShares
<1>6. r \in ReserveData
  <2>1. w.reserves[a].b_supply + n \in Nat
    BY <1>2, <1>3, PositionNat DEF ReserveData, BShares, DShares
  <2> QED
    BY <1>2, <2>1 DEF ReserveData
<1>7. /\ r.d_rate = w.reserves[a].d_rate /\ r.last_time = w.reserves[a].last_time
      /\ r.b_supply = w.reserves[a].b_supply + n
      /\ r.d_supply = w.reserves[a].d_supply
  BY <1>2 DEF ReserveData
<1>8. /\ BShares(p, a) \in Nat /\ DShares(p, a) \in Nat
      /\ BShares(w.positions[u], a) \in Nat /\ DShares(w.positions[u], a) \in Nat
      /\ w.reserves[a].b_supply \in Nat /\ w.reserves[a].d_supply \in Nat
  BY <1>2, <1>4, PositionNat DEF ReserveData
<1>9. r.d_rate > 0 /\ r.last_time <= now
  BY <1>7 DEF WellFormed
<1> HIDE DEF p, r
<1>10. /\ r.b_supply = w.reserves[a].b_supply + BShares(p, a) - BShares(w.positions[u], a)
       /\ r.d_supply = w.reserves[a].d_supply + DShares(p, a) - DShares(w.positions[u], a)
  BY <1>5, <1>7, <1>8
<1> QED
  BY <1>1, <1>4, <1>5, <1>6, <1>9, <1>10, WithSharesWellFormed

LEMMA RemoveLiabilitiesWellFormed ==
    ASSUME NEW w, WellFormed(w), NEW u \in Accounts, NEW a \in Assets,
           NEW n \in Nat, n <= w.positions[u].liabilities[a]
    PROVE  WellFormed(RemoveLiabilities(w, u, a, n))
<1> DEFINE p == [w.positions[u] EXCEPT !.liabilities[a] = @ - n]
           r == [w.reserves[a] EXCEPT !.d_supply = @ - n]
<1>1. RemoveLiabilities(w, u, a, n) = WithShares(w, u, p, a, r)
  BY DEF RemoveLiabilities, WithShares
<1>2. w.positions[u] \in Positions /\ w.reserves[a] \in ReserveData
  BY LedgerFields DEF WellFormed
<1>3. /\ BShares(w.positions[u], a) <= w.reserves[a].b_supply
      /\ DShares(w.positions[u], a) <= w.reserves[a].d_supply
  BY PartOfTotal
<1>4. p \in Positions
  BY <1>2 DEF Positions
<1>5. /\ BShares(p, a) - BShares(w.positions[u], a) = 0
      /\ DShares(p, a) - DShares(w.positions[u], a) = -n
      /\ \A c \in Assets \ {a} : /\ BShares(p, c) = BShares(w.positions[u], c)
                                 /\ DShares(p, c) = DShares(w.positions[u], c)
  BY <1>2 DEF Positions, BShares, DShares
<1>6. r \in ReserveData
  <2>1. w.reserves[a].d_supply - n \in Nat
    BY <1>2, <1>3, PositionNat DEF ReserveData, BShares, DShares
  <2> QED
    BY <1>2, <2>1 DEF ReserveData
<1>7. /\ r.d_rate = w.reserves[a].d_rate /\ r.last_time = w.reserves[a].last_time
      /\ r.d_supply = w.reserves[a].d_supply - n
      /\ r.b_supply = w.reserves[a].b_supply
  BY <1>2 DEF ReserveData
<1>8. /\ BShares(p, a) \in Nat /\ DShares(p, a) \in Nat
      /\ BShares(w.positions[u], a) \in Nat /\ DShares(w.positions[u], a) \in Nat
      /\ w.reserves[a].b_supply \in Nat /\ w.reserves[a].d_supply \in Nat
  BY <1>2, <1>4, PositionNat DEF ReserveData
<1>9. r.d_rate > 0 /\ r.last_time <= now
  BY <1>7 DEF WellFormed
<1> HIDE DEF p, r
<1>10. /\ r.b_supply = w.reserves[a].b_supply + BShares(p, a) - BShares(w.positions[u], a)
       /\ r.d_supply = w.reserves[a].d_supply + DShares(p, a) - DShares(w.positions[u], a)
  BY <1>5, <1>7, <1>8
<1> QED
  BY <1>1, <1>4, <1>5, <1>6, <1>9, <1>10, WithSharesWellFormed

LEMMA RemoveCollateralWellFormed ==
    ASSUME NEW w, WellFormed(w), NEW u \in Accounts, NEW a \in Assets,
           NEW n \in Nat, n <= w.positions[u].collateral[a]
    PROVE  WellFormed(RemoveCollateral(w, u, a, n))
<1> DEFINE p == [w.positions[u] EXCEPT !.collateral[a] = @ - n]
           r == [w.reserves[a] EXCEPT !.b_supply = @ - n]
<1>1. RemoveCollateral(w, u, a, n) = WithShares(w, u, p, a, r)
  BY DEF RemoveCollateral, WithShares
<1>2. w.positions[u] \in Positions /\ w.reserves[a] \in ReserveData
  BY LedgerFields DEF WellFormed
<1>3. /\ BShares(w.positions[u], a) <= w.reserves[a].b_supply
      /\ DShares(w.positions[u], a) <= w.reserves[a].d_supply
  BY PartOfTotal
<1>4. p \in Positions
  BY <1>2 DEF Positions
<1>5. /\ BShares(p, a) - BShares(w.positions[u], a) = -n
      /\ DShares(p, a) - DShares(w.positions[u], a) = 0
      /\ \A c \in Assets \ {a} : /\ BShares(p, c) = BShares(w.positions[u], c)
                                 /\ DShares(p, c) = DShares(w.positions[u], c)
  BY <1>2 DEF Positions, BShares, DShares
<1>6. r \in ReserveData
  <2>1. w.reserves[a].b_supply - n \in Nat
    BY <1>2, <1>3, PositionNat DEF ReserveData, BShares, DShares
  <2> QED
    BY <1>2, <2>1 DEF ReserveData
<1>7. /\ r.d_rate = w.reserves[a].d_rate /\ r.last_time = w.reserves[a].last_time
      /\ r.b_supply = w.reserves[a].b_supply - n
      /\ r.d_supply = w.reserves[a].d_supply
  BY <1>2 DEF ReserveData
<1>8. /\ BShares(p, a) \in Nat /\ DShares(p, a) \in Nat
      /\ BShares(w.positions[u], a) \in Nat /\ DShares(w.positions[u], a) \in Nat
      /\ w.reserves[a].b_supply \in Nat /\ w.reserves[a].d_supply \in Nat
  BY <1>2, <1>4, PositionNat DEF ReserveData
<1>9. r.d_rate > 0 /\ r.last_time <= now
  BY <1>7 DEF WellFormed
<1> HIDE DEF p, r
<1>10. /\ r.b_supply = w.reserves[a].b_supply + BShares(p, a) - BShares(w.positions[u], a)
       /\ r.d_supply = w.reserves[a].d_supply + DShares(p, a) - DShares(w.positions[u], a)
  BY <1>5, <1>7, <1>8
<1> QED
  BY <1>1, <1>4, <1>5, <1>6, <1>9, <1>10, WithSharesWellFormed

LEMMA RemoveSupplyWellFormed ==
    ASSUME NEW w, WellFormed(w), NEW u \in Accounts, NEW a \in Assets,
           NEW n \in Nat, n <= w.positions[u].supply[a]
    PROVE  WellFormed(RemoveSupply(w, u, a, n))
<1> DEFINE p == [w.positions[u] EXCEPT !.supply[a] = @ - n]
           r == [w.reserves[a] EXCEPT !.b_supply = @ - n]
<1>1. RemoveSupply(w, u, a, n) = WithShares(w, u, p, a, r)
  BY DEF RemoveSupply, WithShares
<1>2. w.positions[u] \in Positions /\ w.reserves[a] \in ReserveData
  BY LedgerFields DEF WellFormed
<1>3. /\ BShares(w.positions[u], a) <= w.reserves[a].b_supply
      /\ DShares(w.positions[u], a) <= w.reserves[a].d_supply
  BY PartOfTotal
<1>4. p \in Positions
  BY <1>2 DEF Positions
<1>5. /\ BShares(p, a) - BShares(w.positions[u], a) = -n
      /\ DShares(p, a) - DShares(w.positions[u], a) = 0
      /\ \A c \in Assets \ {a} : /\ BShares(p, c) = BShares(w.positions[u], c)
                                 /\ DShares(p, c) = DShares(w.positions[u], c)
  BY <1>2 DEF Positions, BShares, DShares
<1>6. r \in ReserveData
  <2>1. w.reserves[a].b_supply - n \in Nat
    BY <1>2, <1>3, PositionNat DEF ReserveData, BShares, DShares
  <2> QED
    BY <1>2, <2>1 DEF ReserveData
<1>7. /\ r.d_rate = w.reserves[a].d_rate /\ r.last_time = w.reserves[a].last_time
      /\ r.b_supply = w.reserves[a].b_supply - n
      /\ r.d_supply = w.reserves[a].d_supply
  BY <1>2 DEF ReserveData
<1>8. /\ BShares(p, a) \in Nat /\ DShares(p, a) \in Nat
      /\ BShares(w.positions[u], a) \in Nat /\ DShares(w.positions[u], a) \in Nat
      /\ w.reserves[a].b_supply \in Nat /\ w.reserves[a].d_supply \in Nat
  BY <1>2, <1>4, PositionNat DEF ReserveData
<1>9. r.d_rate > 0 /\ r.last_time <= now
  BY <1>7 DEF WellFormed
<1> HIDE DEF p, r
<1>10. /\ r.b_supply = w.reserves[a].b_supply + BShares(p, a) - BShares(w.positions[u], a)
       /\ r.d_supply = w.reserves[a].d_supply + DShares(p, a) - DShares(w.positions[u], a)
  BY <1>5, <1>7, <1>8
<1> QED
  BY <1>1, <1>4, <1>5, <1>6, <1>9, <1>10, WithSharesWellFormed

-----------------------------------------------------------------------------
(* Pool::load_reserve.                                                     *)

LEMMA LoadedReserveRefreshes ==
    ASSUME GoodSettings, NEW w, WellFormed(w), NEW a \in Assets
    PROVE  Refreshes(w.reserves[a], LoadedReserve(w, a), now)
<1>1. w.reserves[a] \in ReserveData /\ w.reserves[a].last_time <= now
  BY LedgerFields DEF WellFormed
<1>2. now \in Nat /\ config.bstop_rate \in Nat /\ config.bstop_rate < Scalar7
  BY DEF GoodSettings, Config
<1>3. ValidReserveConfig(config.reserves[a])
  BY DEF GoodSettings
<1> QED
  BY <1>1, <1>2, <1>3, LoadRefreshes DEF LoadedReserve

LEMMA LoadReservesFields ==
    ASSUME NEW w \in Ledger, NEW S
    PROVE  /\ LoadReserves(w, S).reserves =
                [a \in Assets |-> IF a \in S THEN LoadedReserve(w, a) ELSE w.reserves[a]]
           /\ LoadReserves(w, S).positions = w.positions
           /\ LoadReserves(w, S).liquidation = w.liquidation
           /\ LoadReserves(w, S).bad_debt = w.bad_debt
           /\ LoadReserves(w, S).interest = w.interest
           /\ LoadReserves(w, S).balance = w.balance
           /\ LoadReserves(w, S).backstop_tokens = w.backstop_tokens
  BY DEF LoadReserves, Ledger

\* What an update of some reserves keeps of one.
Kept(r, l) ==
    /\ l \in ReserveData
    /\ l.d_rate >= r.d_rate
    /\ l.b_rate >= r.b_rate
    /\ l.b_supply = r.b_supply
    /\ l.d_supply = r.d_supply
    /\ l.last_time <= now

LEMMA LoadReservesKeeps ==
    ASSUME GoodSettings, NEW w, WellFormed(w), NEW S, NEW a \in Assets
    PROVE  Kept(w.reserves[a], LoadReserves(w, S).reserves[a])
<1>1. w \in Ledger /\ w.reserves[a] \in ReserveData /\ w.reserves[a].last_time <= now
  BY LedgerFields DEF WellFormed
<1>2. CASE a \in S
  <2>1. LoadReserves(w, S).reserves[a] = LoadedReserve(w, a)
    BY <1>1, <1>2, LoadReservesFields
  <2>2. now \in Nat
    BY DEF GoodSettings
  <2>3. Refreshes(w.reserves[a], LoadedReserve(w, a), now)
    BY LoadedReserveRefreshes
  <2> QED
    BY <2>1, <2>2, <2>3 DEF Refreshes, Kept
<1>3. CASE a \notin S
  <2>1. LoadReserves(w, S).reserves[a] = w.reserves[a]
    <3>1. LoadReserves(w, S).reserves =
            [c \in Assets |-> IF c \in S THEN LoadedReserve(w, c) ELSE w.reserves[c]]
      BY <1>1, LoadReservesFields
    <3> QED
      BY <1>3, <3>1
  <2> QED
    BY <1>1, <2>1 DEF Kept, ReserveData
<1> QED
  BY <1>2, <1>3

LEMMA LoadReservesWellFormed ==
    ASSUME GoodSettings, NEW w, WellFormed(w), NEW S
    PROVE  WellFormed(LoadReserves(w, S))
<1> DEFINE v == LoadReserves(w, S)
           rs == v.reserves
<1>1. w \in Ledger /\ w.reserves \in [Assets -> ReserveData]
  BY LedgerFields DEF WellFormed
<1>2. v.positions = w.positions
  BY <1>1, LoadReservesFields
<1>3. \A a \in Assets : Kept(w.reserves[a], rs[a])
  BY LoadReservesKeeps
<1>4. rs = [a \in Assets |-> rs[a]]
  <2>1. rs = [a \in Assets |-> IF a \in S THEN LoadedReserve(w, a) ELSE w.reserves[a]]
    BY <1>1, LoadReservesFields
  <2> HIDE DEF rs
  <2> QED
    BY <2>1
<1>5. v = [w EXCEPT !.reserves = rs]
  BY <1>1 DEF LoadReserves, Ledger
<1> HIDE DEF v
<1>6. rs \in [Assets -> ReserveData]
  BY <1>3, <1>4 DEF Kept
<1>7. v \in Ledger
  <2> HIDE DEF rs
  <2> QED
    BY <1>1, <1>5, <1>6 DEF Ledger
<1>8. \A a \in Assets : v.reserves[a].d_rate > 0 /\ v.reserves[a].last_time <= now
  <2> TAKE a \in Assets
  <2>1. w.reserves[a].d_rate \in Nat /\ w.reserves[a].d_rate > 0
    BY <1>1 DEF WellFormed, ReserveData
  <2>2. rs[a].d_rate \in Nat /\ rs[a].d_rate >= w.reserves[a].d_rate /\ rs[a].last_time <= now
    BY <1>3 DEF Kept, ReserveData
  <2> QED
    BY <2>1, <2>2
<1>9. SharesMatch(v)
  <2>1. \A a \in Assets : /\ rs[a].b_supply = w.reserves[a].b_supply
                          /\ rs[a].d_supply = w.reserves[a].d_supply
    BY <1>3 DEF Kept
  <2>2. SharesMatch(w)
    BY DEF WellFormed
  <2> QED
    BY <1>2, <2>1, <2>2, SharesMatchIs
<1> QED
  BY <1>7, <1>8, <1>9 DEF WellFormed, v

-----------------------------------------------------------------------------
(* Positions that change hands.                                            *)

WithPositions(w, ps) == [w EXCEPT !.positions = ps]

LEMMA WithPositionsFields ==
    ASSUME NEW w \in Ledger, NEW ps \in [Accounts -> Positions]
    PROVE  /\ WithPositions(w, ps) \in Ledger
           /\ WithPositions(w, ps).positions = ps
           /\ WithPositions(w, ps).reserves = w.reserves
           /\ WithPositions(w, ps).backstop_tokens = w.backstop_tokens
           /\ WithPositions(w, ps).liquidation = w.liquidation
           /\ WithPositions(w, ps).bad_debt = w.bad_debt
           /\ WithPositions(w, ps).interest = w.interest
           /\ WithPositions(w, ps).balance = w.balance
  BY DEF WithPositions, Ledger

LEMMA RmAddPositions ==
    ASSUME NEW p \in Positions, NEW coll \in [Assets -> Nat], NEW liab \in [Assets -> Nat],
           \A a \in Assets : coll[a] <= p.collateral[a] /\ liab[a] <= p.liabilities[a],
           NEW q \in Positions
    PROVE  /\ RmPositions(p, coll, liab) \in Positions
           /\ AddPositions(q, coll, liab) \in Positions
           /\ \A a \in Assets :
                /\ BShares(RmPositions(p, coll, liab), a) = BShares(p, a) - coll[a]
                /\ DShares(RmPositions(p, coll, liab), a) = DShares(p, a) - liab[a]
                /\ BShares(AddPositions(q, coll, liab), a) = BShares(q, a) + coll[a]
                /\ DShares(AddPositions(q, coll, liab), a) = DShares(q, a) + liab[a]
<1> DEFINE c == Sub(p.collateral, coll)
           d == Sub(p.liabilities, liab)
           cc == Add(q.collateral, coll)
           dd == Add(q.liabilities, liab)
<1>1. /\ p.collateral \in [Assets -> Nat] /\ p.liabilities \in [Assets -> Nat] /\ p.supply \in [Assets -> Nat]
      /\ q.collateral \in [Assets -> Nat] /\ q.liabilities \in [Assets -> Nat] /\ q.supply \in [Assets -> Nat]
  BY DEF Positions
<1>2. /\ c \in [Assets -> Nat] /\ d \in [Assets -> Nat]
      /\ \A a \in Assets : c[a] = p.collateral[a] - coll[a] /\ d[a] = p.liabilities[a] - liab[a]
  BY <1>1 DEF Sub
<1>3. /\ cc \in [Assets -> Nat] /\ dd \in [Assets -> Nat]
      /\ \A a \in Assets : cc[a] = q.collateral[a] + coll[a] /\ dd[a] = q.liabilities[a] + liab[a]
  BY <1>1 DEF Add
<1>4. /\ RmPositions(p, coll, liab) = [p EXCEPT !.collateral = c, !.liabilities = d]
      /\ AddPositions(q, coll, liab) = [q EXCEPT !.collateral = cc, !.liabilities = dd]
  BY DEF RmPositions, AddPositions
<1> HIDE DEF c, d, cc, dd
<1>5. /\ RmPositions(p, coll, liab) \in Positions
      /\ RmPositions(p, coll, liab).collateral = c /\ RmPositions(p, coll, liab).liabilities = d
      /\ RmPositions(p, coll, liab).supply = p.supply
  BY <1>1, <1>2, <1>4 DEF Positions
<1>6. /\ AddPositions(q, coll, liab) \in Positions
      /\ AddPositions(q, coll, liab).collateral = cc /\ AddPositions(q, coll, liab).liabilities = dd
      /\ AddPositions(q, coll, liab).supply = q.supply
  BY <1>1, <1>3, <1>4 DEF Positions
<1> QED
  BY <1>1, <1>2, <1>3, <1>5, <1>6 DEF BShares, DShares

LEMMA MovePositionsIs ==
    ASSUME NEW w \in Ledger, NEW from \in Accounts, NEW to \in Accounts, from # to,
           NEW coll, NEW liab
    PROVE  LET l == LoadReserves(w, Held(coll) \cup Held(liab))
           IN  MovePositions(w, from, to, coll, liab) =
                 WithPositions(l, [l.positions EXCEPT
                                     ![from] = RmPositions(l.positions[from], coll, liab),
                                     ![to] = AddPositions(l.positions[to], coll, liab)])
<1> DEFINE l == LoadReserves(w, Held(coll) \cup Held(liab))
<1>1. l.positions = w.positions
  BY LoadReservesFields
<1>2. w.positions \in [Accounts -> Positions]
  BY LedgerFields
<1>3. MovePositions(w, from, to, coll, liab) =
        [l EXCEPT !.positions[from] = RmPositions(@, coll, liab),
                  !.positions[to] = AddPositions(@, coll, liab)]
  BY DEF MovePositions
<1> HIDE DEF l
<1> QED
  BY <1>1, <1>2, <1>3 DEF WithPositions, l

LEMMA MovePositionsWellFormed ==
    ASSUME GoodSettings, NEW w, WellFormed(w),
           NEW from \in Accounts, NEW to \in Accounts, from # to,
           NEW coll \in [Assets -> Nat], NEW liab \in [Assets -> Nat],
           CanRemovePositions(w, from, coll, liab)
    PROVE  /\ WellFormed(MovePositions(w, from, to, coll, liab))
           /\ MovePositions(w, from, to, coll, liab).positions =
                [w.positions EXCEPT ![from] = RmPositions(w.positions[from], coll, liab),
                                    ![to] = AddPositions(w.positions[to], coll, liab)]
<1> DEFINE l == LoadReserves(w, Held(coll) \cup Held(liab))
           ps == [w.positions EXCEPT ![from] = RmPositions(w.positions[from], coll, liab),
                                     ![to] = AddPositions(w.positions[to], coll, liab)]
           v == WithPositions(l, ps)
<1>1. w \in Ledger /\ w.positions \in [Accounts -> Positions]
  BY LedgerFields DEF WellFormed
<1>2. l.positions = w.positions
  BY <1>1, LoadReservesFields
<1>3. WellFormed(l) /\ l \in Ledger
  BY LoadReservesWellFormed DEF WellFormed
<1>4. MovePositions(w, from, to, coll, liab) = v
  BY <1>1, <1>2, MovePositionsIs
<1>5. /\ RmPositions(w.positions[from], coll, liab) \in Positions
      /\ AddPositions(w.positions[to], coll, liab) \in Positions
      /\ \A a \in Assets :
           /\ BShares(RmPositions(w.positions[from], coll, liab), a) = BShares(w.positions[from], a) - coll[a]
           /\ DShares(RmPositions(w.positions[from], coll, liab), a) = DShares(w.positions[from], a) - liab[a]
           /\ BShares(AddPositions(w.positions[to], coll, liab), a) = BShares(w.positions[to], a) + coll[a]
           /\ DShares(AddPositions(w.positions[to], coll, liab), a) = DShares(w.positions[to], a) + liab[a]
  BY <1>1, RmAddPositions DEF CanRemovePositions
<1>6. /\ ps \in [Accounts -> Positions]
      /\ ps[from] = RmPositions(w.positions[from], coll, liab)
      /\ ps[to] = AddPositions(w.positions[to], coll, liab)
      /\ \A x \in Accounts \ {from, to} : ps[x] = w.positions[x]
  BY <1>1, <1>5
<1> HIDE DEF ps, l
<1>7. v \in Ledger /\ v.positions = ps /\ v.reserves = l.reserves
  BY <1>3, <1>6, WithPositionsFields
<1> HIDE DEF v
<1>8. ASSUME NEW a \in Assets
      PROVE  /\ v.reserves[a].b_supply = SumFunction([x \in Accounts |-> BShares(v.positions[x], a)])
             /\ v.reserves[a].d_supply = SumFunction([x \in Accounts |-> DShares(v.positions[x], a)])
  <2> DEFINE b == [x \in Accounts |-> BShares(l.positions[x], a)]
             d == [x \in Accounts |-> DShares(l.positions[x], a)]
             bb == [x \in Accounts |-> BShares(ps[x], a)]
             dd == [x \in Accounts |-> DShares(ps[x], a)]
  <2>1. /\ b \in [Accounts -> Int] /\ d \in [Accounts -> Int]
        /\ bb \in [Accounts -> Int] /\ dd \in [Accounts -> Int]
    BY <1>1, <1>2, <1>6, PositionNat
  <2>2. \A x \in Accounts \ {from, to} : bb[x] = b[x] /\ dd[x] = d[x]
    BY <1>2, <1>6
  <2>3. /\ bb[from] = b[from] - coll[a] /\ bb[to] = b[to] + coll[a]
        /\ dd[from] = d[from] - liab[a] /\ dd[to] = d[to] + liab[a]
    BY <1>2, <1>5, <1>6
  <2>4. coll[a] \in Nat /\ liab[a] \in Nat
    OBVIOUS
  <2>5. l.reserves[a].b_supply = SumFunction(b) /\ l.reserves[a].d_supply = SumFunction(d)
    BY <1>3, SharesMatchIs DEF WellFormed
  <2> HIDE DEF b, d, bb, dd
  <2>6. bb[from] + bb[to] = b[from] + b[to] /\ dd[from] + dd[to] = d[from] + d[to]
    <3>1. b[from] \in Int /\ b[to] \in Int /\ d[from] \in Int /\ d[to] \in Int
      BY <2>1
    <3> QED
      BY <2>3, <2>4, <3>1
  <2>7. SumFunction(bb) = SumFunction(b) /\ SumFunction(dd) = SumFunction(d)
    BY <2>1, <2>2, <2>6, AccountsFinite, SumFunctionMove
  <2> QED
    BY <1>7, <2>5, <2>7 DEF bb, dd
<1>9. SharesMatch(v)
  BY <1>8, SharesMatchIs
<1>10. \A a \in Assets : v.reserves[a].d_rate > 0 /\ v.reserves[a].last_time <= now
  BY <1>3, <1>7 DEF WellFormed
<1>11. WellFormed(v)
  BY <1>7, <1>9, <1>10 DEF WellFormed
<1> QED
  BY <1>4, <1>7, <1>11 DEF ps

\* A user's whole debt handed to the backstop.
LEMMA HandleUserBadDebtWellFormed ==
    ASSUME GoodSettings, NEW w, WellFormed(w), NEW u \in Users
    PROVE  WellFormed(HandleUserBadDebt(w, u))
<1>1. u \in Accounts /\ Backstop \in Accounts /\ u # Backstop
  BY AccountsFinite, StateAssumption
<1>2. w.positions[u] \in Positions
  BY <1>1, LedgerFields DEF WellFormed
<1>3. w.positions[u].liabilities \in [Assets -> Nat] /\ w.positions[u].collateral \in [Assets -> Nat]
  BY <1>2 DEF Positions
<1>4. NoShares \in [Assets -> Nat]
  BY DEF NoShares
<1>5. CanRemovePositions(w, u, NoShares, w.positions[u].liabilities)
  BY <1>3 DEF CanRemovePositions, NoShares
<1> QED
  BY <1>1, <1>3, <1>4, <1>5, MovePositionsWellFormed DEF HandleUserBadDebt

-----------------------------------------------------------------------------
(* Debt that is forgiven.                                                  *)

LEMMA ForgiveType ==
    ASSUME NEW r \in ReserveData, r.d_rate > 0, r.b_supply # 0,
           NEW d \in Nat, d <= r.d_supply
    PROVE  /\ Forgive(r, d) \in ReserveData
           /\ Forgive(r, d).d_rate = r.d_rate
           /\ Forgive(r, d).last_time = r.last_time
           /\ Forgive(r, d).b_supply = r.b_supply
           /\ Forgive(r, d).d_supply = r.d_supply - d
<1> DEFINE s == [r EXCEPT !.d_supply = @ - d]
           loss == DivCeil(ToAssetFromD(s, d), s.b_supply, Scalar12)
           rate == IF s.b_rate < loss THEN 0 ELSE s.b_rate - loss
<1>1. /\ s \in ReserveData
      /\ s.d_rate = r.d_rate /\ s.last_time = r.last_time
      /\ s.b_supply = r.b_supply /\ s.d_supply = r.d_supply - d
  <2>1. r.d_supply \in Nat /\ r.d_supply - d \in Nat
    BY DEF ReserveData
  <2> QED
    BY <2>1 DEF ReserveData
<1> HIDE DEF s
<1>2. s.d_rate \in Nat /\ s.b_supply \in Nat /\ s.b_supply > 0 /\ s.b_rate \in Nat /\ s.b_supply \in Int
  BY <1>1 DEF ReserveData
<1>3. ToAssetFromD(s, d) \in Nat
  BY <1>2, MulNat, ScalarsPositive DEF ToAssetFromD
<1>4. loss \in Nat
  BY <1>2, <1>3, DivNat, ScalarsPositive
<1> HIDE DEF loss
<1>5. rate \in Nat
  BY <1>2, <1>4
<1>6. Forgive(r, d) = [s EXCEPT !.b_rate = rate]
  BY DEF Forgive, WriteOff, s, loss
<1> HIDE DEF rate
<1> QED
  BY <1>1, <1>5, <1>6 DEF ReserveData

LEMMA DefaultBackstopDebtWellFormed ==
    ASSUME GoodSettings, NEW w, WellFormed(w), CanDefault(w)
    PROVE  WellFormed(DefaultBackstopDebt(w))
<1> DEFINE debt == w.positions[Backstop].liabilities
           l == LoadReserves(w, Held(debt))
           rs == [a \in Assets |-> IF debt[a] > 0 THEN Forgive(l.reserves[a], debt[a]) ELSE l.reserves[a]]
           p == [l.positions[Backstop] EXCEPT !.liabilities = NoShares]
           ps == [l.positions EXCEPT ![Backstop] = p]
           v == DefaultBackstopDebt(w)
<1>1. Backstop \in Accounts /\ IsFiniteSet(Accounts)
  BY AccountsFinite
<1>2. /\ w \in Ledger /\ w.positions \in [Accounts -> Positions]
      /\ w.positions[Backstop] \in Positions
      /\ debt \in [Assets -> Nat]
  BY <1>1, LedgerFields DEF WellFormed, Positions
<1>3. l.positions = w.positions
  BY <1>2, LoadReservesFields
<1>4. /\ WellFormed(l) /\ l \in Ledger
      /\ l.reserves \in [Assets -> ReserveData] /\ l.positions \in [Accounts -> Positions]
  BY LoadReservesWellFormed, LedgerFields DEF WellFormed
<1>5. \A a \in Assets : Kept(w.reserves[a], l.reserves[a])
  BY LoadReservesKeeps
<1>6. v = [l EXCEPT !.reserves = rs, !.positions = ps]
  <2> HIDE DEF debt
  <2>1. v = [l EXCEPT !.reserves = rs, !.positions[Backstop].liabilities = NoShares]
    BY DEF DefaultBackstopDebt, debt
  <2> HIDE DEF l, rs, v
  <2> QED
    BY <1>1, <1>4, <2>1 DEF Ledger
<1> HIDE DEF l
<1>7. ASSUME NEW a \in Assets
      PROVE  /\ rs[a] \in ReserveData /\ rs[a].d_rate > 0 /\ rs[a].last_time <= now
             /\ rs[a].b_supply = l.reserves[a].b_supply
             /\ rs[a].d_supply = l.reserves[a].d_supply - debt[a]
  <2>1. l.reserves[a] \in ReserveData /\ l.reserves[a].d_rate > 0 /\ l.reserves[a].last_time <= now
    BY <1>4 DEF WellFormed
  <2>2. debt[a] \in Nat
    BY <1>2
  <2>3. CASE debt[a] > 0
    <3>1. l.reserves[a].b_supply # 0
      BY <1>5, <2>2, <2>3 DEF CanDefault, CanWriteOff, Held, Kept
    <3>2. debt[a] <= l.reserves[a].d_supply
      BY <1>1, <1>3, <1>4, PartOfTotal DEF DShares
    <3>3. rs[a] = Forgive(l.reserves[a], debt[a])
      BY <2>3
    <3> HIDE DEF rs, debt
    <3>4. /\ rs[a] \in ReserveData
          /\ rs[a].d_rate = l.reserves[a].d_rate
          /\ rs[a].last_time = l.reserves[a].last_time
          /\ rs[a].b_supply = l.reserves[a].b_supply
          /\ rs[a].d_supply = l.reserves[a].d_supply - debt[a]
      BY <2>1, <2>2, <3>1, <3>2, <3>3, ForgiveType
    <3> QED
      BY <2>1, <3>4
  <2>4. CASE ~(debt[a] > 0)
    <3>1. rs[a] = l.reserves[a] /\ debt[a] = 0
      BY <2>2, <2>4
    <3>2. l.reserves[a].d_supply \in Nat
      BY <2>1 DEF ReserveData
    <3> QED
      BY <2>1, <3>1, <3>2
  <2> QED
    BY <2>3, <2>4
<1>8. rs \in [Assets -> ReserveData]
  <2>1. rs = [a \in Assets |-> rs[a]]
    OBVIOUS
  <2> HIDE DEF rs
  <2> QED
    BY <1>7, <2>1
<1>9. /\ p \in Positions
      /\ \A a \in Assets : /\ BShares(p, a) = BShares(w.positions[Backstop], a)
                           /\ DShares(p, a) = 0
                           /\ DShares(w.positions[Backstop], a) = debt[a]
  BY <1>2, <1>3 DEF Positions, NoShares, BShares, DShares
<1> HIDE DEF p, debt, rs
<1>10. /\ ps \in [Accounts -> Positions] /\ ps[Backstop] = p
       /\ \A x \in Accounts \ {Backstop} : ps[x] = l.positions[x]
  BY <1>1, <1>4, <1>9
<1> HIDE DEF ps, v
<1>11. v \in Ledger /\ v.reserves = rs /\ v.positions = ps
  BY <1>4, <1>6, <1>8, <1>10 DEF Ledger
<1>12. ASSUME NEW a \in Assets
       PROVE  /\ v.reserves[a].b_supply = SumFunction([x \in Accounts |-> BShares(v.positions[x], a)])
              /\ v.reserves[a].d_supply = SumFunction([x \in Accounts |-> DShares(v.positions[x], a)])
  <2> DEFINE b == [x \in Accounts |-> BShares(l.positions[x], a)]
             d == [x \in Accounts |-> DShares(l.positions[x], a)]
             bb == [x \in Accounts |-> BShares(ps[x], a)]
             dd == [x \in Accounts |-> DShares(ps[x], a)]
  <2>1. /\ b \in [Accounts -> Int] /\ d \in [Accounts -> Int]
        /\ bb \in [Accounts -> Int] /\ dd \in [Accounts -> Int]
    BY <1>4, <1>10, PositionNat
  <2>2. \A x \in Accounts \ {Backstop} : bb[x] = b[x] /\ dd[x] = d[x]
    BY <1>10
  <2>3. bb[Backstop] = b[Backstop] /\ dd[Backstop] = 0 /\ d[Backstop] = debt[a]
    BY <1>1, <1>3, <1>9, <1>10
  <2>4. l.reserves[a].b_supply = SumFunction(b) /\ l.reserves[a].d_supply = SumFunction(d)
    BY <1>4, SharesMatchIs DEF WellFormed
  <2>5. l.reserves[a].b_supply \in Int /\ l.reserves[a].d_supply \in Int
    BY <1>4 DEF ReserveData
  <2> HIDE DEF b, d, bb, dd
  <2>6. /\ SumFunction(bb) = SumFunction(b) + bb[Backstop] - b[Backstop]
        /\ SumFunction(dd) = SumFunction(d) + dd[Backstop] - d[Backstop]
    BY <1>1, <2>1, <2>2, SumFunctionUpdate
  <2>7. b[Backstop] \in Int /\ d[Backstop] \in Int
    BY <1>1, <2>1
  <2>8. SumFunction(bb) = l.reserves[a].b_supply /\ SumFunction(dd) = l.reserves[a].d_supply - debt[a]
    BY <2>3, <2>4, <2>5, <2>6, <2>7
  <2> QED
    BY <1>7, <1>11, <2>8 DEF bb, dd
<1>13. SharesMatch(v)
  BY <1>12, SharesMatchIs
<1>14. \A a \in Assets : v.reserves[a].d_rate > 0 /\ v.reserves[a].last_time <= now
  BY <1>7, <1>11
<1> QED
  BY <1>11, <1>13, <1>14 DEF WellFormed, v

-----------------------------------------------------------------------------
(* What the auctions, the balances and the backstop's tokens are is no     *)
(* matter to the shares.                                                   *)

LEMMA SameShares ==
    ASSUME NEW w, WellFormed(w), NEW v \in Ledger,
           v.reserves = w.reserves, v.positions = w.positions
    PROVE  WellFormed(v)
  BY DEF WellFormed, SharesMatch

LEMMA SetLiquidationWellFormed ==
    ASSUME NEW w, WellFormed(w), NEW u \in Users, NEW au \in Auction \cup {NoAuction}
    PROVE  WellFormed([w EXCEPT !.liquidation[u] = au])
<1>1. w \in Ledger
  BY DEF WellFormed
<1> DEFINE v == [w EXCEPT !.liquidation[u] = au]
<1>2. v \in Ledger /\ v.reserves = w.reserves /\ v.positions = w.positions
  BY <1>1 DEF Ledger
<1> HIDE DEF v
<1>3. WellFormed(v)
  BY <1>2, SameShares
<1> QED
  BY <1>3 DEF v

LEMMA SetBadDebtWellFormed ==
    ASSUME NEW w, WellFormed(w), NEW au \in Auction \cup {NoAuction}
    PROVE  WellFormed([w EXCEPT !.bad_debt = au])
<1>1. w \in Ledger
  BY DEF WellFormed
<1> DEFINE v == [w EXCEPT !.bad_debt = au]
<1>2. v \in Ledger /\ v.reserves = w.reserves /\ v.positions = w.positions
  BY <1>1 DEF Ledger
<1> HIDE DEF v
<1>3. WellFormed(v)
  BY <1>2, SameShares
<1> QED
  BY <1>3 DEF v

LEMMA SetInterestWellFormed ==
    ASSUME NEW w, WellFormed(w), NEW au \in Auction \cup {NoAuction}
    PROVE  WellFormed([w EXCEPT !.interest = au])
<1>1. w \in Ledger
  BY DEF WellFormed
<1> DEFINE v == [w EXCEPT !.interest = au]
<1>2. v \in Ledger /\ v.reserves = w.reserves /\ v.positions = w.positions
  BY <1>1 DEF Ledger
<1> HIDE DEF v
<1>3. WellFormed(v)
  BY <1>2, SameShares
<1> QED
  BY <1>3 DEF v

LEMMA SetBalanceWellFormed ==
    ASSUME NEW w, WellFormed(w), NEW b \in [Assets -> Int]
    PROVE  WellFormed([w EXCEPT !.balance = b])
<1>1. w \in Ledger
  BY DEF WellFormed
<1> DEFINE v == [w EXCEPT !.balance = b]
<1>2. v \in Ledger /\ v.reserves = w.reserves /\ v.positions = w.positions
  BY <1>1 DEF Ledger
<1> HIDE DEF v
<1>3. WellFormed(v)
  BY <1>2, SameShares
<1> QED
  BY <1>3 DEF v

LEMMA SetBackstopTokensWellFormed ==
    ASSUME NEW w, WellFormed(w), NEW n \in Nat
    PROVE  WellFormed([w EXCEPT !.backstop_tokens = n])
<1>1. w \in Ledger
  BY DEF WellFormed
<1> DEFINE v == [w EXCEPT !.backstop_tokens = n]
<1>2. v \in Ledger /\ v.reserves = w.reserves /\ v.positions = w.positions
  BY <1>1 DEF Ledger
<1> HIDE DEF v
<1>3. WellFormed(v)
  BY <1>2, SameShares
<1> QED
  BY <1>3 DEF v

\* A reserve whose backstop credit, rate modifier or b_rate alone changes.
LEMMA SetReserveWellFormed ==
    ASSUME NEW w, WellFormed(w), NEW rs \in [Assets -> ReserveData],
           \A a \in Assets : /\ rs[a].b_supply = w.reserves[a].b_supply
                             /\ rs[a].d_supply = w.reserves[a].d_supply
                             /\ rs[a].d_rate = w.reserves[a].d_rate
                             /\ rs[a].last_time = w.reserves[a].last_time
    PROVE  WellFormed([w EXCEPT !.reserves = rs])
<1>1. w \in Ledger
  BY DEF WellFormed
<1> DEFINE v == [w EXCEPT !.reserves = rs]
<1>2. v \in Ledger /\ v.reserves = rs /\ v.positions = w.positions
  BY <1>1 DEF Ledger
<1> HIDE DEF v
<1>3. SharesMatch(v)
  BY <1>2 DEF WellFormed, SharesMatch
<1>4. \A a \in Assets : v.reserves[a].d_rate > 0 /\ v.reserves[a].last_time <= now
  BY <1>2 DEF WellFormed
<1>5. WellFormed(v)
  BY <1>2, <1>3, <1>4 DEF WellFormed
<1> QED
  BY <1>5 DEF v

-----------------------------------------------------------------------------
(* Auctions: what is filled and what remains.                              *)

LEMMA PercentOfScalar ==
    ASSUME NEW pct \in 1..100
    PROVE  Percent7(pct) \in Nat /\ Percent7(pct) <= Scalar7
<1>1. pct * Scalar7 <= 100 * Scalar7
  BY ProductMonotone, ScalarsPositive
<1>2. pct * Scalar7 \in Int
  BY ProductInt, ScalarsPositive
<1>3. pct * Scalar7 < 100 * Scalar7 + 100
  BY <1>1, <1>2, ScalarsPositive
<1>4. FloorDiv(pct * Scalar7, 100) <= Scalar7
  BY <1>2, <1>3, FloorDivUpper, ScalarsPositive
<1> QED
  BY <1>4, PercentNat DEF FloorDiv, Percent7

LEMMA ModifiersNat ==
    ASSUME NEW blocks \in Nat
    PROVE  BidModifier(blocks) \in Nat /\ LotModifier(blocks) \in Nat
<1> DEFINE perBlock == Scalar7 \div RampBlocks
<1>1. RampBlocks \in Nat /\ RampBlocks \in Int /\ RampBlocks > 0
  BY AuctionAssumption
<1>2. perBlock \in Int /\ RampBlocks * perBlock <= Scalar7 /\ perBlock >= 0
  <2>1. FloorDiv(Scalar7, RampBlocks) \in Nat
    BY <1>1, FloorDivNat, ScalarsPositive
  <2> QED
    BY <1>1, <2>1, FloorDivBounds, ScalarsPositive DEF FloorDiv
<1> HIDE DEF perBlock
<1>3. blocks * perBlock \in Nat
  BY <1>2, ProductNat
<1>4. CASE blocks > RampBlocks /\ blocks < 2 * RampBlocks
  <2>1. blocks - RampBlocks \in Nat /\ blocks - RampBlocks <= RampBlocks
    BY <1>1, <1>4
  <2>2. (blocks - RampBlocks) * perBlock <= RampBlocks * perBlock
    BY <1>1, <1>2, <2>1, ProductMonotone
  <2>3. (blocks - RampBlocks) * perBlock \in Int /\ RampBlocks * perBlock \in Int
    BY <1>1, <1>2, <2>1, ProductInt
  <2>4. Scalar7 - (blocks - RampBlocks) * perBlock \in Nat
    BY <1>2, <2>2, <2>3, ScalarsPositive
  <2> QED
    BY <1>1, <1>4, <2>4, ScalarsPositive DEF BidModifier, LotModifier, perBlock
<1>5. CASE ~(blocks > RampBlocks /\ blocks < 2 * RampBlocks)
  BY <1>1, <1>3, <1>5, ScalarsPositive DEF BidModifier, LotModifier, perBlock
<1> QED
  BY <1>4, <1>5

LEMMA FilledBaseType ==
    ASSUME NEW au \in Auction, NEW pct \in 1..100
    PROVE  /\ FilledBase(au, pct).bid \in [Tokens -> Nat]
           /\ FilledBase(au, pct).lot \in [Tokens -> Nat]
           /\ \A t \in Tokens : /\ FilledBase(au, pct).bid[t] <= au.bid[t]
                                /\ FilledBase(au, pct).lot[t] <= au.lot[t]
<1>1. Percent7(pct) \in Nat /\ Percent7(pct) <= Scalar7
  BY PercentOfScalar
<1>2. au.bid \in [Tokens -> Nat] /\ au.lot \in [Tokens -> Nat]
  BY DEF Auction
<1>3. \A t \in Tokens :
        /\ MulCeil(au.bid[t], Percent7(pct), Scalar7) \in Nat
        /\ MulFloor(au.lot[t], Percent7(pct), Scalar7) \in Nat
        /\ MulCeil(au.bid[t], Percent7(pct), Scalar7) <= au.bid[t]
        /\ MulFloor(au.lot[t], Percent7(pct), Scalar7) <= au.lot[t]
  BY <1>1, <1>2, MulNat, MulAtMost, ScalarsPositive
<1> QED
  BY <1>3 DEF FilledBase

LEMMA ToFillType ==
    ASSUME now \in Nat, NEW au, au \in Auction \cup {NoAuction}, NEW pct, CanScale(au, pct)
    PROVE  /\ au \in Auction /\ pct \in 1..100
           /\ ToFill(au, pct).bid \in [Tokens -> Nat]
           /\ ToFill(au, pct).lot \in [Tokens -> Nat]
<1> DEFINE base == FilledBase(au, pct)
           blocks == now - au.block
<1>1. au \in Auction /\ pct \in 1..100 /\ au.block \in Nat /\ now >= au.block
  BY DEF CanScale, Auction
<1>2. base.bid \in [Tokens -> Nat] /\ base.lot \in [Tokens -> Nat]
  BY <1>1, FilledBaseType
<1>3. blocks \in Nat
  BY <1>1
<1>4. BidModifier(blocks) \in Nat /\ LotModifier(blocks) \in Nat
  BY <1>3, ModifiersNat
<1> HIDE DEF base, blocks
<1>5. \A t \in Tokens : /\ MulCeil(base.bid[t], BidModifier(blocks), Scalar7) \in Nat
                        /\ MulFloor(base.lot[t], LotModifier(blocks), Scalar7) \in Nat
  BY <1>2, <1>4, MulNat, ScalarsPositive
<1> QED
  BY <1>1, <1>5 DEF ToFill, base, blocks

LEMMA RemainingType ==
    ASSUME NEW au \in Auction, NEW pct \in 1..100
    PROVE  Remaining(au, pct) \in Auction \cup {NoAuction}
<1> DEFINE base == FilledBase(au, pct)
           bid == [t \in Tokens |-> au.bid[t] - base.bid[t]]
           lot == [t \in Tokens |-> au.lot[t] - base.lot[t]]
<1>1. /\ au.bid \in [Tokens -> Nat] /\ au.lot \in [Tokens -> Nat] /\ au.block \in Nat
      /\ base.bid \in [Tokens -> Nat] /\ base.lot \in [Tokens -> Nat]
      /\ \A t \in Tokens : base.bid[t] <= au.bid[t] /\ base.lot[t] <= au.lot[t]
  BY FilledBaseType DEF Auction
<1> HIDE DEF base
<1>2. bid \in [Tokens -> Nat] /\ lot \in [Tokens -> Nat]
  BY <1>1
<1> HIDE DEF bid, lot
<1>3. [bid |-> bid, lot |-> lot, block |-> au.block] \in Auction
  BY <1>1, <1>2 DEF Auction
<1> QED
  BY <1>3 DEF Remaining, base, bid, lot

LEMMA OnlyAssetsType ==
    ASSUME NEW f \in [Tokens -> Nat]
    PROVE  OnlyAssets(f) \in [Assets -> Nat]
  BY DEF OnlyAssets, Tokens

LEMMA OverTokensType ==
    ASSUME NEW S, NEW f \in [S -> Nat]
    PROVE  OverTokens(f) \in [Tokens -> Nat]
  BY DEF OverTokens

-----------------------------------------------------------------------------
(* Fills.                                                                  *)

LEMMA FillUserLiquidationWellFormed ==
    ASSUME GoodSettings, NEW w, WellFormed(w), NEW u \in Users, NEW filler \in Users,
           NEW pct, CanFillUserLiquidation(w, u, filler, pct)
    PROVE  WellFormed(FillUserLiquidation(w, u, filler, pct))
<1> DEFINE au == w.liquidation[u]
           f == ToFill(au, pct)
           rest == Remaining(au, pct)
           moved == MovePositions(w, u, filler, OnlyAssets(f.lot), OnlyAssets(f.bid))
           settled == IF rest = NoAuction /\ HasBadDebt(moved.positions[u])
                      THEN HandleUserBadDebt(moved, u) ELSE moved
<1>1. u \in Accounts /\ filler \in Accounts /\ u # filler
  BY AccountsFinite DEF CanFillUserLiquidation
<1>2. au \in Auction \cup {NoAuction}
  BY LedgerFields DEF WellFormed
<1>3. now \in Nat /\ CanScale(au, pct)
  BY DEF GoodSettings, CanFillUserLiquidation
<1>4. /\ au \in Auction /\ pct \in 1..100
      /\ f.bid \in [Tokens -> Nat] /\ f.lot \in [Tokens -> Nat]
  BY <1>2, <1>3, ToFillType
<1>5. rest \in Auction \cup {NoAuction}
  BY <1>4, RemainingType
<1>6. OnlyAssets(f.lot) \in [Assets -> Nat] /\ OnlyAssets(f.bid) \in [Assets -> Nat]
  BY <1>4, OnlyAssetsType
<1>7. CanRemovePositions(w, u, OnlyAssets(f.lot), OnlyAssets(f.bid))
  BY DEF CanFillUserLiquidation
<1> HIDE DEF f, rest
<1>8. WellFormed(moved)
  BY <1>1, <1>6, <1>7, MovePositionsWellFormed
<1> HIDE DEF moved
<1>9. WellFormed(settled)
  BY <1>8, HandleUserBadDebtWellFormed
<1>10. FillUserLiquidation(w, u, filler, pct) = [settled EXCEPT !.liquidation[u] = rest]
  BY DEF FillUserLiquidation, moved, rest, f
<1> HIDE DEF settled
<1> QED
  BY <1>5, <1>9, <1>10, SetLiquidationWellFormed

LEMMA AfterBadDebtBidWellFormed ==
    ASSUME GoodSettings, NEW w, WellFormed(w), NEW filler \in Users,
           NEW pct, CanFillBadDebt(w, filler, pct)
    PROVE  WellFormed(AfterBadDebtBid(w, filler, pct))
<1> DEFINE f == ToFill(w.bad_debt, pct)
           moved == MovePositions(w, Backstop, filler, NoShares, OnlyAssets(f.bid))
<1>1. Backstop \in Accounts /\ filler \in Accounts /\ Backstop # filler
  BY AccountsFinite DEF CanFillBadDebt
<1>2. w \in Ledger /\ w.bad_debt \in Auction \cup {NoAuction} /\ w.backstop_tokens \in Nat
  BY LedgerFields DEF WellFormed
<1>3. now \in Nat /\ CanScale(w.bad_debt, pct)
  BY DEF GoodSettings, CanFillBadDebt
<1>4. f.bid \in [Tokens -> Nat] /\ f.lot \in [Tokens -> Nat]
  BY <1>2, <1>3, ToFillType
<1>5. OnlyAssets(f.bid) \in [Assets -> Nat] /\ NoShares \in [Assets -> Nat]
  BY <1>4, OnlyAssetsType DEF NoShares
<1>6. /\ CanRemovePositions(w, Backstop, NoShares, OnlyAssets(f.bid))
      /\ f.lot[BackstopToken] <= w.backstop_tokens
  BY DEF CanFillBadDebt
<1>7. BackstopToken \in Tokens
  BY DEF Tokens
<1>8. f.lot[BackstopToken] \in Nat
  BY <1>4, <1>7
<1> HIDE DEF f
<1>9. WellFormed(moved)
  BY <1>1, <1>5, <1>6, MovePositionsWellFormed
<1>10. moved.backstop_tokens = w.backstop_tokens
  <2> DEFINE l == LoadReserves(w, Held(NoShares) \cup Held(OnlyAssets(f.bid)))
             ps == [l.positions EXCEPT ![Backstop] = RmPositions(l.positions[Backstop], NoShares, OnlyAssets(f.bid)),
                                       ![filler] = AddPositions(l.positions[filler], NoShares, OnlyAssets(f.bid))]
  <2>1. moved = WithPositions(l, ps)
    BY <1>1, <1>2, MovePositionsIs
  <2>2. l \in Ledger /\ l.backstop_tokens = w.backstop_tokens
    BY <1>2, LoadReservesFields, LoadReservesWellFormed DEF WellFormed
  <2> HIDE DEF ps, l
  <2> QED
    BY <2>1, <2>2 DEF WithPositions, Ledger
<1>11. moved.backstop_tokens - f.lot[BackstopToken] \in Nat
  BY <1>2, <1>6, <1>8, <1>10
<1>12. AfterBadDebtBid(w, filler, pct) =
         [moved EXCEPT !.backstop_tokens = moved.backstop_tokens - f.lot[BackstopToken]]
  BY DEF AfterBadDebtBid, f
<1> HIDE DEF moved
<1> QED
  BY <1>9, <1>11, <1>12, SetBackstopTokensWellFormed

LEMMA FillBadDebtWellFormed ==
    ASSUME GoodSettings, NEW w, WellFormed(w), NEW filler \in Users,
           NEW pct, CanFillBadDebt(w, filler, pct)
    PROVE  WellFormed(FillBadDebt(w, filler, pct))
<1> DEFINE bid == AfterBadDebtBid(w, filler, pct)
           rest == Remaining(w.bad_debt, pct)
           settled == IF rest = NoAuction /\ MustDefault(bid)
                      THEN DefaultBackstopDebt(bid) ELSE bid
<1>1. WellFormed(bid)
  BY AfterBadDebtBidWellFormed
<1>2. w.bad_debt \in Auction \cup {NoAuction}
  BY LedgerFields DEF WellFormed
<1>3. now \in Nat /\ CanScale(w.bad_debt, pct)
  BY DEF GoodSettings, CanFillBadDebt
<1>4. w.bad_debt \in Auction /\ pct \in 1..100
  BY <1>2, <1>3, ToFillType
<1>5. rest \in Auction \cup {NoAuction}
  BY <1>4, RemainingType
<1>6. rest = NoAuction /\ MustDefault(bid) => CanDefault(bid)
  BY DEF CanFillBadDebt
<1>7. FillBadDebt(w, filler, pct) = [settled EXCEPT !.bad_debt = rest]
  BY DEF FillBadDebt
<1> HIDE DEF bid, rest
<1>8. WellFormed(settled)
  BY <1>1, <1>6, DefaultBackstopDebtWellFormed
<1> HIDE DEF settled
<1> QED
  BY <1>5, <1>7, <1>8, SetBadDebtWellFormed

LEMMA FillInterestWellFormed ==
    ASSUME GoodSettings, NEW w, WellFormed(w), NEW filler,
           NEW pct, CanFillInterest(w, filler, pct)
    PROVE  WellFormed(FillInterest(w, pct))
<1> DEFINE f == ToFill(w.interest, pct)
           lot == OnlyAssets(f.lot)
           l == LoadReserves(w, Held(lot))
           rs == [a \in Assets |-> [l.reserves[a] EXCEPT !.backstop_credit = @ - lot[a]]]
           tokens == l.backstop_tokens + f.bid[BackstopToken]
           balance == Sub(l.balance, lot)
           rest == Remaining(w.interest, pct)
<1>1. w \in Ledger /\ w.interest \in Auction \cup {NoAuction}
  BY LedgerFields DEF WellFormed
<1>2. now \in Nat /\ CanScale(w.interest, pct)
  BY DEF GoodSettings, CanFillInterest
<1>3. /\ w.interest \in Auction /\ pct \in 1..100
      /\ f.bid \in [Tokens -> Nat] /\ f.lot \in [Tokens -> Nat]
  BY <1>1, <1>2, ToFillType
<1>4. lot \in [Assets -> Nat] /\ f.bid[BackstopToken] \in Nat
  BY <1>3, OnlyAssetsType DEF Tokens
<1>5. rest \in Auction \cup {NoAuction}
  BY <1>3, RemainingType
<1>6. WellFormed(l) /\ l \in Ledger
  BY LoadReservesWellFormed DEF WellFormed
<1>7. FillInterest(w, pct) =
        [l EXCEPT !.backstop_tokens = tokens, !.reserves = rs,
                  !.balance = balance, !.interest = rest]
  <2> HIDE DEF lot, f, rest
  <2>1. FillInterest(w, pct) =
          [l EXCEPT !.backstop_tokens = @ + f.bid[BackstopToken],
                    !.reserves = rs,
                    !.balance = Sub(@, lot),
                    !.interest = rest]
    BY DEF FillInterest, lot, f, rest
  <2> HIDE DEF l, rs
  <2> QED
    BY <1>6, <2>1 DEF Ledger
<1> HIDE DEF l, lot, f, rest
<1>8. /\ l.reserves \in [Assets -> ReserveData] /\ l.balance \in [Assets -> Int]
      /\ l.backstop_tokens \in Nat
  BY <1>6, LedgerFields
<1>9. tokens \in Nat /\ balance \in [Assets -> Int]
  BY <1>4, <1>8 DEF Sub
<1>10. ASSUME NEW a \in Assets
       PROVE  /\ rs[a] \in ReserveData
              /\ rs[a].b_supply = l.reserves[a].b_supply
              /\ rs[a].d_supply = l.reserves[a].d_supply
              /\ rs[a].d_rate = l.reserves[a].d_rate
              /\ rs[a].last_time = l.reserves[a].last_time
  <2> DEFINE r == l.reserves[a]
  <2>1. r \in ReserveData /\ lot[a] \in Nat
    BY <1>4, <1>8
  <2>2. rs[a] = [r EXCEPT !.backstop_credit = @ - lot[a]]
    OBVIOUS
  <2> HIDE DEF r, rs
  <2>3. r.backstop_credit - lot[a] \in Int
    BY <2>1 DEF ReserveData
  <2>4. rs[a] \in ReserveData
    BY <2>1, <2>2, <2>3 DEF ReserveData
  <2>5. /\ rs[a].b_supply = r.b_supply /\ rs[a].d_supply = r.d_supply
        /\ rs[a].d_rate = r.d_rate /\ rs[a].last_time = r.last_time
    BY <2>1, <2>2 DEF ReserveData
  <2> QED
    BY <2>4, <2>5 DEF r
<1>11. rs \in [Assets -> ReserveData]
  <2>1. rs = [a \in Assets |-> rs[a]]
    OBVIOUS
  <2> HIDE DEF rs
  <2> QED
    BY <1>10, <2>1
<1> HIDE DEF rs, tokens, balance
<1>12. WellFormed([l EXCEPT !.reserves = rs])
  BY <1>6, <1>10, <1>11, SetReserveWellFormed
<1>13. WellFormed([[l EXCEPT !.reserves = rs] EXCEPT !.backstop_tokens = tokens])
  BY <1>9, <1>12, SetBackstopTokensWellFormed
<1>14. WellFormed([[[l EXCEPT !.reserves = rs] EXCEPT !.backstop_tokens = tokens] EXCEPT !.balance = balance])
  BY <1>9, <1>13, SetBalanceWellFormed
<1>15. WellFormed([[[[l EXCEPT !.reserves = rs] EXCEPT !.backstop_tokens = tokens]
                      EXCEPT !.balance = balance] EXCEPT !.interest = rest])
  BY <1>5, <1>14, SetInterestWellFormed
<1>16. [[[[l EXCEPT !.reserves = rs] EXCEPT !.backstop_tokens = tokens]
           EXCEPT !.balance = balance] EXCEPT !.interest = rest] = FillInterest(w, pct)
  BY <1>6, <1>7 DEF Ledger
<1> QED
  BY <1>15, <1>16

-----------------------------------------------------------------------------
(* Auctions that are created are well formed: the amounts put up are       *)
(* natural numbers, whatever the prices, the rates and the factors are.    *)

-----------------------------------------------------------------------------
(* Values in the oracle's currency.                                        *)

LEMMA ValueNat ==
    ASSUME GoodSettings, NEW S, S \subseteq Assets, NEW f \in [S -> Nat]
    PROVE  FloorValue(f) \in Nat /\ CeilValue(f) \in Nat
<1> DEFINE lo == [a \in S |-> MulFloor(price[a], f[a], config.reserves[a].scalar)]
           hi == [a \in S |-> MulCeil(price[a], f[a], config.reserves[a].scalar)]
<1>1. IsFiniteSet(S)
  BY FS_Subset, StateAssumption
<1>2. \A a \in S : /\ price[a] \in Nat /\ f[a] \in Nat
                   /\ config.reserves[a].scalar \in Int /\ config.reserves[a].scalar > 0
  BY DEF GoodSettings, ValidReserveConfig, ReserveConfig
<1>3. \A a \in S : /\ MulFloor(price[a], f[a], config.reserves[a].scalar) \in Nat
                   /\ MulCeil(price[a], f[a], config.reserves[a].scalar) \in Nat
  BY <1>2, MulNat
<1>4. lo \in [S -> Nat] /\ hi \in [S -> Nat]
  BY <1>3
<1>5. FloorValue(f) = SumFunction(lo) /\ CeilValue(f) = SumFunction(hi)
  BY DEF FloorValue, CeilValue
<1> HIDE DEF lo, hi
<1> QED
  BY <1>1, <1>4, <1>5, SumFunctionNat

LEMMA ValueMonotone ==
    ASSUME GoodSettings, NEW S, S \subseteq Assets, NEW f \in [S -> Nat], NEW g \in [S -> Nat],
           \A a \in S : f[a] <= g[a]
    PROVE  FloorValue(f) <= FloorValue(g) /\ CeilValue(f) <= CeilValue(g)
<1> DEFINE flo == [a \in S |-> MulFloor(price[a], f[a], config.reserves[a].scalar)]
           fhi == [a \in S |-> MulCeil(price[a], f[a], config.reserves[a].scalar)]
           glo == [a \in S |-> MulFloor(price[a], g[a], config.reserves[a].scalar)]
           ghi == [a \in S |-> MulCeil(price[a], g[a], config.reserves[a].scalar)]
<1>1. IsFiniteSet(S)
  BY FS_Subset, StateAssumption
<1>2. \A a \in S : /\ price[a] \in Nat /\ f[a] \in Nat /\ g[a] \in Nat /\ f[a] <= g[a]
                   /\ config.reserves[a].scalar \in Int /\ config.reserves[a].scalar > 0
  BY DEF GoodSettings, ValidReserveConfig, ReserveConfig
<1>3. \A a \in S : /\ flo[a] \in Int /\ fhi[a] \in Int /\ glo[a] \in Int /\ ghi[a] \in Int
  <2> TAKE a \in S
  <2>1. /\ MulFloor(price[a], f[a], config.reserves[a].scalar) \in Nat
        /\ MulCeil(price[a], f[a], config.reserves[a].scalar) \in Nat
    BY <1>2, MulNat
  <2>2. /\ MulFloor(price[a], g[a], config.reserves[a].scalar) \in Nat
        /\ MulCeil(price[a], g[a], config.reserves[a].scalar) \in Nat
    BY <1>2, MulNat
  <2> QED
    BY <2>1, <2>2
<1>4. ASSUME NEW a \in S
      PROVE  flo[a] <= glo[a] /\ fhi[a] <= ghi[a]
  <2>1. /\ MulFloor(price[a], f[a], config.reserves[a].scalar)
             <= MulFloor(price[a], g[a], config.reserves[a].scalar)
        /\ MulCeil(price[a], f[a], config.reserves[a].scalar)
             <= MulCeil(price[a], g[a], config.reserves[a].scalar)
    BY <1>2, MulMonotone
  <2> QED
    BY <2>1
<1>5. /\ flo \in [S -> Int] /\ fhi \in [S -> Int]
      /\ glo \in [S -> Int] /\ ghi \in [S -> Int]
  BY <1>3
<1>6. /\ FloorValue(f) = SumFunction(flo) /\ CeilValue(f) = SumFunction(fhi)
      /\ FloorValue(g) = SumFunction(glo) /\ CeilValue(g) = SumFunction(ghi)
  BY DEF FloorValue, CeilValue
<1> HIDE DEF flo, fhi, glo, ghi
<1> QED
  BY <1>1, <1>4, <1>5, <1>6, SumFunctionAtMost

LEMMA LoadedReserveType ==
    ASSUME GoodSettings, NEW w, WellFormed(w), NEW a \in Assets
    PROVE  LoadedReserve(w, a) \in ReserveData
  BY LoadedReserveRefreshes DEF Refreshes

-----------------------------------------------------------------------------
(* The bad debt auction and the interest auction.                          *)

LEMMA PremiumNat ==
    ASSUME NEW value \in Nat
    PROVE  Premium(value) \in Nat
<1>1. Percent7(120) \in Nat /\ OracleScalar \in Int /\ OracleScalar > 0
  BY PercentNat, StateAssumption
<1>2. MulFloor(value, Percent7(120), OracleScalar) \in Nat
  BY <1>1, MulNat
<1>3. SpotPrice \in Int /\ SpotPrice > 0
  BY AuctionAssumption
<1> QED
  BY <1>2, <1>3, DivNat, ScalarsPositive DEF Premium

LEMMA NewAuctionType ==
    ASSUME now \in Nat, NEW S, NEW T, NEW bid \in [S -> Nat], NEW lot \in [T -> Nat]
    PROVE  [bid |-> OverTokens(bid), lot |-> OverTokens(lot), block |-> now + 1] \in Auction
  BY OverTokensType DEF Auction

LEMMA CreateBadDebtWellFormed ==
    ASSUME GoodSettings, NEW w, WellFormed(w), NEW bid, CanCreateBadDebt(w, bid)
    PROVE  WellFormed(CreateBadDebt(w, bid))
<1> DEFINE p == w.positions[Backstop]
           owed == [a \in bid |-> ToAssetFromD(LoadedReserve(w, a), p.liabilities[a])]
           wanted == Premium(DebtValue(w, bid))
           lot == IF wanted > w.backstop_tokens THEN w.backstop_tokens ELSE wanted
           shares == [a \in bid |-> p.liabilities[a]]
           sold == [t \in {BackstopToken} |-> lot]
           au == [bid |-> OverTokens(shares), lot |-> OverTokens(sold), block |-> now + 1]
<1>1. w.positions \in [Accounts -> Positions] /\ w.backstop_tokens \in Nat
  BY LedgerFields DEF WellFormed
<1>2. p \in Positions /\ bid \subseteq Assets
  BY <1>1, AccountsFinite DEF CanCreateBadDebt, Held
<1> HIDE DEF p
<1>3. \A a \in bid : p.liabilities[a] \in Nat
  BY <1>2, PositionNat
<1>4. owed \in [bid -> Nat]
  <2>1. ASSUME NEW a \in bid
        PROVE  ToAssetFromD(LoadedReserve(w, a), p.liabilities[a]) \in Nat
    <3>1. LoadedReserve(w, a).d_rate \in Nat
      BY <1>2, LoadedReserveType DEF ReserveData
    <3> QED
      BY <1>3, <3>1, MulNat, ScalarsPositive DEF ToAssetFromD
  <2> QED
    BY <2>1
<1>5. DebtValue(w, bid) = FloorValue(owed)
  BY DEF DebtValue, p
<1> HIDE DEF owed
<1>6. DebtValue(w, bid) \in Nat
  BY <1>2, <1>4, <1>5, ValueNat
<1>7. wanted \in Nat
  BY <1>6, PremiumNat
<1> HIDE DEF wanted
<1>8. lot \in Nat
  BY <1>1, <1>7
<1> HIDE DEF lot
<1>9. shares \in [bid -> Nat] /\ sold \in [{BackstopToken} -> Nat]
  BY <1>3, <1>8
<1>10. now \in Nat
  BY DEF GoodSettings
<1>11. CreateBadDebt(w, bid) = [w EXCEPT !.bad_debt = au]
  BY DEF CreateBadDebt, lot, wanted, p
<1> HIDE DEF shares, sold
<1>12. au \in Auction
  BY <1>9, <1>10, NewAuctionType
<1> HIDE DEF au
<1> QED
  BY <1>11, <1>12, SetBadDebtWellFormed

LEMMA CreateInterestWellFormed ==
    ASSUME GoodSettings, NEW w, WellFormed(w), NEW lot, lot \subseteq Assets
    PROVE  WellFormed(CreateInterest(w, lot))
<1> DEFINE S == WithCredit(w, lot)
           credit == [a \in S |-> CreditOf(w, a)]
           wanted == Premium(InterestValue(w, lot))
           asked == [t \in {BackstopToken} |-> wanted]
           au == [bid |-> OverTokens(asked), lot |-> OverTokens(credit), block |-> now + 1]
<1>1. S \subseteq Assets
  BY DEF WithCredit
<1>2. credit \in [S -> Nat]
  <2>1. ASSUME NEW a \in S
        PROVE  CreditOf(w, a) \in Nat
    <3>1. LoadedReserve(w, a).backstop_credit \in Int
      BY <1>1, LoadedReserveType DEF ReserveData
    <3>2. LoadedReserve(w, a).backstop_credit > 0
      BY DEF WithCredit, CreditOf
    <3> QED
      BY <3>1, <3>2 DEF CreditOf
  <2> QED
    BY <2>1
<1>3. InterestValue(w, lot) = FloorValue(credit)
  BY DEF InterestValue
<1>4. CreateInterest(w, lot) = [w EXCEPT !.interest = au]
  BY DEF CreateInterest
<1> HIDE DEF credit, S
<1>5. InterestValue(w, lot) \in Nat
  BY <1>1, <1>2, <1>3, ValueNat
<1>6. wanted \in Nat
  BY <1>5, PremiumNat
<1> HIDE DEF wanted
<1>7. asked \in [{BackstopToken} -> Nat]
  BY <1>6
<1>8. now \in Nat
  BY DEF GoodSettings
<1> HIDE DEF asked
<1>9. au \in Auction
  BY <1>2, <1>7, <1>8, NewAuctionType
<1> HIDE DEF au
<1> QED
  BY <1>4, <1>9, SetInterestWellFormed

-----------------------------------------------------------------------------
(* The user liquidation.                                                   *)

\* Factors only make collateral worth less and debt worth more.
LEMMA PositionDataBounds ==
    ASSUME GoodSettings, NEW w, WellFormed(w), NEW p \in Positions,
           \A a \in Held(p.liabilities) : config.reserves[a].l_factor > 0
    PROVE  LET data == CalculateFromPositions(w, p)
           IN /\ data.collateral_base \in Nat /\ data.collateral_raw \in Nat
              /\ data.liability_base \in Nat /\ data.liability_raw \in Nat
              /\ data.collateral_base <= data.collateral_raw
              /\ data.liability_base >= data.liability_raw
<1> DEFINE C == Held(p.collateral)
           L == Held(p.liabilities)
           r == [a \in Assets |-> LoadedReserve(w, a)]
           cfg == config.reserves
           cb == [a \in C |-> ToEffectiveFromB(r[a], cfg[a], p.collateral[a])]
           cr == [a \in C |-> ToAssetFromB(r[a], p.collateral[a])]
           lb == [a \in L |-> ToEffectiveFromD(r[a], cfg[a], p.liabilities[a])]
           lr == [a \in L |-> ToAssetFromD(r[a], p.liabilities[a])]
           data == CalculateFromPositions(w, p)
<1>1. C \subseteq Assets /\ L \subseteq Assets
  BY DEF Held
<1>2. \A a \in Assets :
        /\ r[a] \in ReserveData
        /\ cfg[a].c_factor \in Nat /\ cfg[a].c_factor <= Scalar7
        /\ cfg[a].l_factor \in Nat /\ cfg[a].l_factor <= Scalar7
        /\ p.collateral[a] \in Nat /\ p.liabilities[a] \in Nat
  BY LoadedReserveType, PositionNat DEF GoodSettings, ValidReserveConfig, ReserveConfig
<1>3. \A a \in L : cfg[a].l_factor > 0
  OBVIOUS
<1>4. /\ data.collateral_base = FloorValue(cb) /\ data.collateral_raw = FloorValue(cr)
      /\ data.liability_base = CeilValue(lb) /\ data.liability_raw = CeilValue(lr)
  BY DEF CalculateFromPositions, PositionData
<1> HIDE DEF C, L, r, cfg
<1>5. ASSUME NEW a \in C
      PROVE  /\ ToAssetFromB(r[a], p.collateral[a]) \in Nat
             /\ ToEffectiveFromB(r[a], cfg[a], p.collateral[a]) \in Nat
             /\ ToEffectiveFromB(r[a], cfg[a], p.collateral[a]) <= ToAssetFromB(r[a], p.collateral[a])
  <2> DEFINE raw == ToAssetFromB(r[a], p.collateral[a])
  <2>1. r[a].b_rate \in Nat /\ p.collateral[a] \in Nat
        /\ cfg[a].c_factor \in Nat /\ cfg[a].c_factor <= Scalar7
    BY <1>1, <1>2 DEF ReserveData
  <2>2. raw \in Nat
    BY <2>1, MulNat, ScalarsPositive DEF ToAssetFromB
  <2>3. ToEffectiveFromB(r[a], cfg[a], p.collateral[a]) = MulFloor(raw, cfg[a].c_factor, Scalar7)
    BY DEF ToEffectiveFromB
  <2> HIDE DEF raw
  <2>4. MulFloor(raw, cfg[a].c_factor, Scalar7) \in Nat
    BY <2>1, <2>2, MulNat, ScalarsPositive
  <2>5. MulFloor(raw, cfg[a].c_factor, Scalar7) <= raw
    BY <2>1, <2>2, MulAtMost, ScalarsPositive
  <2> QED
    BY <2>2, <2>3, <2>4, <2>5 DEF raw
<1>6. ASSUME NEW a \in L
      PROVE  /\ ToAssetFromD(r[a], p.liabilities[a]) \in Nat
             /\ ToEffectiveFromD(r[a], cfg[a], p.liabilities[a]) \in Nat
             /\ ToAssetFromD(r[a], p.liabilities[a]) <= ToEffectiveFromD(r[a], cfg[a], p.liabilities[a])
  <2> DEFINE raw == ToAssetFromD(r[a], p.liabilities[a])
  <2>1. r[a].d_rate \in Nat /\ p.liabilities[a] \in Nat
        /\ cfg[a].l_factor \in Nat /\ cfg[a].l_factor <= Scalar7 /\ cfg[a].l_factor > 0
    BY <1>1, <1>2, <1>3 DEF ReserveData
  <2>2. raw \in Nat
    BY <2>1, MulNat, ScalarsPositive DEF ToAssetFromD
  <2>3. ToEffectiveFromD(r[a], cfg[a], p.liabilities[a]) = DivCeil(raw, cfg[a].l_factor, Scalar7)
    BY DEF ToEffectiveFromD
  <2> HIDE DEF raw
  <2>4. DivCeil(raw, cfg[a].l_factor, Scalar7) \in Nat
    <3> DEFINE factor == cfg[a].l_factor
    <3>1. factor \in Int /\ factor > 0
      BY <2>1
    <3> HIDE DEF factor
    <3>2. DivCeil(raw, factor, Scalar7) \in Nat
      BY <2>2, <3>1, DivNat, ScalarsPositive
    <3> QED
      BY <3>2 DEF factor
  <2>5. raw <= DivCeil(raw, cfg[a].l_factor, Scalar7)
    BY <2>1, <2>2, DivCeilAtLeast, ScalarsPositive
  <2> QED
    BY <2>2, <2>3, <2>4, <2>5 DEF raw
<1>7. /\ cb \in [C -> Nat] /\ cr \in [C -> Nat] /\ \A a \in C : cb[a] <= cr[a]
      /\ lb \in [L -> Nat] /\ lr \in [L -> Nat] /\ \A a \in L : lr[a] <= lb[a]
  BY <1>5, <1>6
<1> HIDE DEF cb, cr, lb, lr, data
<1>8. /\ FloorValue(cb) \in Nat /\ FloorValue(cr) \in Nat
      /\ CeilValue(lb) \in Nat /\ CeilValue(lr) \in Nat
  BY <1>1, <1>7, ValueNat
<1>9. FloorValue(cb) <= FloorValue(cr)
  BY <1>1, <1>7, ValueMonotone
<1>10. CeilValue(lr) <= CeilValue(lb)
  BY <1>1, <1>7, ValueMonotone
<1> QED
  BY <1>4, <1>8, <1>9, <1>10 DEF data

\* What PositionDataBounds says of the part that is liquidated.
Bounded(inc) ==
    /\ inc.collateral_base \in Nat /\ inc.collateral_raw \in Nat
    /\ inc.liability_base \in Nat /\ inc.liability_raw \in Nat
    /\ inc.collateral_base <= inc.collateral_raw
    /\ inc.liability_base >= inc.liability_raw
    /\ HasValue(inc)

\* A liquidator is never asked to take less collateral than the debt is worth.
LEMMA IncentiveAtLeastOne ==
    ASSUME NEW inc, Bounded(inc)
    PROVE  /\ EstimatedIncentive(inc) \in Nat
           /\ EstimatedIncentive(inc) >= OracleScalar
<1> DEFINE S == OracleScalar
           cf == DivFloor(inc.collateral_base, inc.collateral_raw, S)
           lf == DivFloor(inc.liability_base, inc.liability_raw, S)
           ratio == DivCeil(cf, lf, S)
           margin == DivCeil(S - ratio, 2 * S, S)
<1>1. S \in Nat /\ S \in Int /\ S > 0
  BY StateAssumption
<1>2. /\ inc.collateral_base \in Nat /\ inc.collateral_raw \in Nat /\ inc.collateral_raw > 0
      /\ inc.liability_base \in Nat /\ inc.liability_raw \in Nat /\ inc.liability_raw > 0
      /\ inc.collateral_base <= inc.collateral_raw
      /\ inc.liability_base >= inc.liability_raw
      /\ inc.collateral_raw \in Int /\ inc.liability_raw \in Int /\ inc.liability_base \in Int
  BY DEF Bounded, HasValue
<1>3. EstimatedIncentive(inc) = S + margin
  BY DEF EstimatedIncentive
<1> HIDE DEF S
<1>4. cf \in Nat /\ cf <= S
  <2>1. cf \in Nat
    BY <1>1, <1>2, DivNat
  <2>2. cf <= S
    BY <1>1, <1>2, RatioAtMost
  <2> QED
    BY <2>1, <2>2
<1>5. lf \in Nat /\ lf >= S
  <2>1. lf \in Nat
    BY <1>1, <1>2, DivNat
  <2>2. lf >= S
    BY <1>1, <1>2, RatioAtLeast
  <2> QED
    BY <2>1, <2>2
<1> HIDE DEF cf, lf
<1>6. ratio \in Nat /\ ratio <= S
  <2>1. lf > 0 /\ cf <= lf /\ lf \in Int
    BY <1>1, <1>4, <1>5
  <2> QED
    BY <1>1, <1>4, <2>1, DivNat, RatioAtMost
<1> HIDE DEF ratio
<1>7. S - ratio \in Nat /\ 2 * S \in Int /\ 2 * S > 0
  BY <1>1, <1>6
<1>8. margin \in Nat
  BY <1>1, <1>7, DivNat
<1> HIDE DEF margin
<1>9. S + margin \in Nat /\ S + margin >= S
  BY <1>1, <1>8
<1> QED
  BY <1>3, <1>9 DEF S

LEMMA AuctionedType ==
    ASSUME NEW p \in Positions, NEW bid, NEW lot
    PROVE  /\ Auctioned(p, bid, lot) \in Positions
           /\ Held(Auctioned(p, bid, lot).liabilities) \subseteq Held(p.liabilities)
<1>1. p.liabilities \in [Assets -> Nat] /\ p.collateral \in [Assets -> Nat]
  BY DEF Positions
<1>2. Auctioned(p, bid, lot).liabilities = [a \in Assets |-> IF a \in bid THEN p.liabilities[a] ELSE 0]
  BY DEF Auctioned
<1>3. Held(Auctioned(p, bid, lot).liabilities) \subseteq Held(p.liabilities)
  BY <1>1, <1>2 DEF Held
<1>4. Auctioned(p, bid, lot) \in Positions
  BY <1>1 DEF Auctioned, Positions, NoShares
<1> QED
  BY <1>3, <1>4

LEMMA ScaledType ==
    ASSUME NEW shares \in [Assets -> Nat], NEW pct \in Nat
    PROVE  Scaled(shares, pct) \in [Assets -> Nat]
<1>1. OracleScalar \in Int /\ OracleScalar > 0
  BY StateAssumption
<1>2. \A a \in Assets : MulCeil(shares[a], pct, OracleScalar) \in Nat
  BY <1>1, MulNat
<1> QED
  BY <1>2 DEF Scaled

LEMMA QuoteType ==
    ASSUME NEW part \in Positions, NEW all, NEW inc, Bounded(inc), NEW percent \in 1..100
    PROVE  /\ QuoteFor(part, all, inc, percent).collateral \in [Assets -> Nat]
           /\ QuoteFor(part, all, inc, percent).liabilities \in [Assets -> Nat]
<1> DEFINE full == IsFull(all, inc, percent)
           pct == ScaledPercent(full, percent)
           half == MulFloor(inc.liability_raw, pct, OracleScalar)
           withdrawn == WithdrawnCollateral(inc, pct)
           lotPct == DivCeil(withdrawn, inc.collateral_raw, OracleScalar)
           capped == IF lotPct > OracleScalar THEN OracleScalar ELSE lotPct
<1>1. /\ inc.collateral_raw \in Nat /\ inc.collateral_raw \in Int /\ inc.collateral_raw > 0
      /\ inc.liability_raw \in Nat
  BY DEF Bounded, HasValue
<1>2. OracleScalar \in Nat /\ OracleScalar \in Int /\ OracleScalar > 0
  BY StateAssumption
<1>3. pct \in Nat
  <2> DEFINE n == (IF full THEN 95 ELSE percent) * OracleScalar
  <2>1. n \in Nat
    <3>1. (IF full THEN 95 ELSE percent) \in Nat
      OBVIOUS
    <3> QED
      BY <1>2, <3>1, ProductNat
  <2>2. pct = FloorDiv(n, 100)
    BY DEF ScaledPercent, FloorDiv
  <2> HIDE DEF n
  <2> QED
    BY <2>1, <2>2, FloorDivNat
<1>4. withdrawn = MulFloor(half, EstimatedIncentive(inc), OracleScalar)
  BY DEF WithdrawnCollateral
<1>5. /\ QuoteFor(part, all, inc, percent).collateral = Scaled(part.collateral, capped)
      /\ QuoteFor(part, all, inc, percent).liabilities = Scaled(part.liabilities, pct)
  BY DEF QuoteFor, Quote
<1> HIDE DEF pct
<1>6. half \in Nat
  BY <1>1, <1>2, <1>3, MulNat
<1> HIDE DEF half
<1>7. withdrawn \in Nat
  BY <1>2, <1>4, <1>6, IncentiveAtLeastOne, MulNat
<1> HIDE DEF withdrawn
<1>8. lotPct \in Nat
  BY <1>1, <1>2, <1>7, DivNat
<1> HIDE DEF lotPct
<1>9. capped \in Nat
  BY <1>2, <1>8
<1> HIDE DEF capped
<1>10. part.collateral \in [Assets -> Nat] /\ part.liabilities \in [Assets -> Nat]
  BY DEF Positions
<1> QED
  BY <1>3, <1>5, <1>9, <1>10, ScaledType

LEMMA CreateUserLiquidationWellFormed ==
    ASSUME GoodSettings, NEW w, WellFormed(w), NEW u \in Users, NEW bid, NEW lot, NEW percent,
           CanLiquidate(w, u, bid, lot, percent)
    PROVE  WellFormed(CreateUserLiquidation(w, u, bid, lot, percent))
<1> DEFINE p == w.positions[u]
           part == Auctioned(p, bid, lot)
           inc == CalculateFromPositions(w, part)
           q == LiquidationQuote(w, u, bid, lot, percent)
           sold == Sold(part, q)
           au == NewLiquidation(sold)
<1>1. p \in Positions
  BY AccountsFinite, LedgerFields DEF WellFormed
<1>2. /\ percent \in 1..100 /\ HasValue(inc)
      /\ \A a \in Held(p.liabilities) : config.reserves[a].l_factor > 0
  BY DEF CanLiquidate, Priceable
<1>3. q = QuoteFor(part, CalculateFromPositions(w, p), inc, percent)
  BY DEF LiquidationQuote
<1>4. CreateUserLiquidation(w, u, bid, lot, percent) = [w EXCEPT !.liquidation[u] = au]
  BY DEF CreateUserLiquidation
<1> HIDE DEF p
<1>5. /\ part \in Positions
      /\ \A a \in Held(part.liabilities) : config.reserves[a].l_factor > 0
  BY <1>1, <1>2, AuctionedType
<1> HIDE DEF part
<1>6. Bounded(inc)
  BY <1>2, <1>5, PositionDataBounds DEF Bounded
<1> HIDE DEF inc, q
<1>7. q.collateral \in [Assets -> Nat] /\ q.liabilities \in [Assets -> Nat]
  BY <1>2, <1>3, <1>5, <1>6, QuoteType
<1>8. part.collateral \in [Assets -> Nat] /\ part.liabilities \in [Assets -> Nat]
  BY <1>5 DEF Positions
<1>9. sold.collateral \in [Assets -> Nat] /\ sold.liabilities \in [Assets -> Nat]
  BY <1>7, <1>8 DEF Sold
<1> HIDE DEF sold
<1>10. now \in Nat
  BY DEF GoodSettings
<1>11. au \in Auction
  BY <1>9, <1>10, NewAuctionType DEF NewLiquidation
<1> HIDE DEF au
<1> QED
  BY <1>4, <1>11, SetLiquidationWellFormed

-----------------------------------------------------------------------------
(* The inductive invariant of the pool.                                    *)

PoolInv ==
    /\ TypeOK
    /\ GoodSettings
    /\ WellFormed(ledger)
    /\ call # NoCall => WellFormed(call.ledger)

-----------------------------------------------------------------------------
(* From one state to the next.                                             *)

LEMMA LedgerLater ==
    ASSUME now \in Nat, now' \in Nat, now <= now',
           NEW w, WellFormed(w), ledger' = w
    PROVE  WellFormed(ledger)'
<1>1. w \in Ledger /\ w.reserves \in [Assets -> ReserveData]
  BY LedgerFields DEF WellFormed
<1>2. \A a \in Assets : w.reserves[a].last_time \in Nat
  BY <1>1 DEF ReserveData
<1>3. \A a \in Assets : w.reserves[a].d_rate > 0 /\ w.reserves[a].last_time <= now'
  BY <1>2 DEF WellFormed
<1>4. SharesMatch(w)
  BY DEF WellFormed
<1> QED
  BY <1>1, <1>3, <1>4 DEF WellFormed, SharesMatch

LEMMA CallLater ==
    ASSUME now \in Nat, now' \in Nat, now <= now',
           NEW w, WellFormed(w), call'.ledger = w
    PROVE  WellFormed(call.ledger)'
<1>1. w \in Ledger /\ w.reserves \in [Assets -> ReserveData]
  BY LedgerFields DEF WellFormed
<1>2. \A a \in Assets : w.reserves[a].last_time \in Nat
  BY <1>1 DEF ReserveData
<1>3. \A a \in Assets : w.reserves[a].d_rate > 0 /\ w.reserves[a].last_time <= now'
  BY <1>2 DEF WellFormed
<1>4. SharesMatch(w)
  BY DEF WellFormed
<1> QED
  BY <1>1, <1>3, <1>4 DEF WellFormed, SharesMatch

LEMMA SameSettings ==
    ASSUME GoodSettings, UNCHANGED <<now, price, config>>
    PROVE  GoodSettings'
  BY DEF GoodSettings

LEMMA WritesNat ==
    ASSUME writes \in Nat, CountWrite
    PROVE  writes' \in Nat
  BY DEF CountWrite

LEMMA ShareCountNat ==
    ASSUME NEW p \in Positions
    PROVE  EffectiveCount(p) \in Nat
<1>1. Held(p.liabilities) \subseteq Assets /\ Held(p.collateral) \subseteq Assets
  BY DEF Held
<1>2. IsFiniteSet(Held(p.liabilities)) /\ IsFiniteSet(Held(p.collateral))
  BY <1>1, FS_Subset, StateAssumption
<1> QED
  BY <1>2, FS_CardinalityType DEF EffectiveCount

\* Every entry point that only writes the ledger.
LEMMA WritesKeepsInv ==
    ASSUME PoolInv, NEW w, WellFormed(w), Writes(w)
    PROVE  PoolInv'
<1>1. /\ call = NoCall /\ call' = NoCall
      /\ ledger' = w /\ CountWrite
      /\ UNCHANGED <<now, price, config, q4w_pct>>
  BY DEF Writes
<1>2. GoodSettings'
  BY <1>1, SameSettings DEF PoolInv
<1>3. now \in Nat /\ now' = now
  BY <1>1 DEF PoolInv, TypeOK
<1>4. WellFormed(ledger)'
  BY <1>1, <1>3, LedgerLater
<1>5. ledger' \in Ledger
  BY <1>1 DEF WellFormed
<1>6. TypeOK'
  BY <1>1, <1>5, WritesNat DEF PoolInv, TypeOK
<1> QED
  BY <1>1, <1>2, <1>4, <1>6 DEF PoolInv

\* Every one that only sets the configuration.
LEMMA SetsConfigKeepsInv ==
    ASSUME PoolInv, NEW c \in Config, SetsConfig(c),
           c.bstop_rate < Scalar7,
           \A a \in Assets :
              /\ ValidReserveConfig(c.reserves[a])
              /\ c.queued[a] # NoQueue => ValidReserveConfig(c.queued[a].new_config)
    PROVE  PoolInv'
<1>1. /\ call = NoCall /\ call' = NoCall /\ config' = c
      /\ UNCHANGED <<now, price, q4w_pct, ledger, writes>>
  BY DEF SetsConfig
<1>2. GoodSettings'
  BY <1>1 DEF PoolInv, GoodSettings
<1>3. now \in Nat /\ now' = now /\ WellFormed(ledger)
  BY <1>1 DEF PoolInv, TypeOK
<1>4. WellFormed(ledger)'
  BY <1>1, <1>3, LedgerLater
<1>5. TypeOK'
  BY <1>1 DEF PoolInv, TypeOK
<1> QED
  BY <1>1, <1>2, <1>4, <1>5 DEF PoolInv

\* Every step within an invocation.
LEMMA CallKeepsInv ==
    ASSUME PoolInv, NEW w, WellFormed(w), call' \in Call, call'.ledger = w,
           UNCHANGED <<now, price, config, q4w_pct, ledger, writes>>
    PROVE  PoolInv'
<1>1. GoodSettings'
  BY SameSettings DEF PoolInv
<1>2. now \in Nat /\ now' = now /\ WellFormed(ledger)
  BY DEF PoolInv, TypeOK
<1>3. WellFormed(ledger)'
  BY <1>2, LedgerLater
<1>4. WellFormed(call.ledger)'
  BY <1>2, CallLater
<1>5. TypeOK'
  BY DEF PoolInv, TypeOK
<1> QED
  BY <1>1, <1>3, <1>4, <1>5 DEF PoolInv

-----------------------------------------------------------------------------
(* Starting an invocation.                                                 *)

LEMMA NewCallType ==
    ASSUME PoolInv, NEW u \in Users, NEW w \in Ledger
    PROVE  NewCall(u, w) \in Call /\ NewCall(u, w).ledger = w
<1>1. ledger.positions[u] \in Positions
  BY AccountsFinite, LedgerFields DEF PoolInv, TypeOK
<1>2. EffectiveCount(ledger.positions[u]) \in Nat
  BY <1>1, ShareCountNat
<1>3. NoShares \in [Assets -> Nat]
  BY DEF NoShares
<1> QED
  BY <1>2, <1>3 DEF NewCall, Call

LEMMA BeginSubmitKeepsInv ==
    ASSUME PoolInv, NEW u \in Users, BeginSubmit(u)
    PROVE  PoolInv'
<1>1. WellFormed(ledger) /\ ledger \in Ledger
  BY DEF PoolInv, WellFormed
<1>2. call' = NewCall(u, ledger) /\ UNCHANGED <<now, price, config, q4w_pct, ledger, writes>>
  BY DEF BeginSubmit
<1>3. call' \in Call /\ call'.ledger = ledger
  BY <1>1, <1>2, NewCallType
<1> QED
  BY <1>1, <1>2, <1>3, CallKeepsInv

\* d tokens can be minted of any reserve that is well formed.
LEMMA MintDebtNat ==
    ASSUME NEW w, WellFormed(w), NEW a \in Assets, NEW amount \in Nat
    PROVE  /\ ToDTokenUp(w.reserves[a], amount) \in Nat
           /\ ToDTokenDown(w.reserves[a], amount) \in Nat
<1> DEFINE rate == w.reserves[a].d_rate
<1>1. w.reserves[a] \in ReserveData
  BY LedgerFields DEF WellFormed
<1>2. rate \in Int /\ rate > 0
  BY <1>1 DEF WellFormed, ReserveData
<1>3. /\ ToDTokenUp(w.reserves[a], amount) = DivCeil(amount, rate, Scalar12)
      /\ ToDTokenDown(w.reserves[a], amount) = DivFloor(amount, rate, Scalar12)
  BY DEF ToDTokenUp, ToDTokenDown
<1> HIDE DEF rate
<1> QED
  BY <1>2, <1>3, DivNat, ScalarsPositive

LEMMA BeginFlashLoanKeepsInv ==
    ASSUME PoolInv, NEW u \in Users, NEW a \in Assets, NEW amount \in FlashLoans,
           BeginFlashLoan(u, a, amount)
    PROVE  PoolInv'
<1> DEFINE l == LoadReserves(ledger, {a})
           minted == ToDTokenUp(l.reserves[a], amount)
           w == AddLiabilities(l, u, a, minted)
           c == NewCall(u, w)
<1>1. amount \in Nat /\ u \in Accounts
  BY PoolAssumption, AccountsFinite
<1>2. GoodSettings /\ WellFormed(ledger)
  BY DEF PoolInv
<1>3. /\ call' = [c EXCEPT !.flash[a] = amount, !.check_health = TRUE, !.check_max_util = {a}]
      /\ UNCHANGED <<now, price, config, q4w_pct, ledger, writes>>
  BY DEF BeginFlashLoan
<1>4. WellFormed(l)
  BY <1>2, LoadReservesWellFormed
<1> HIDE DEF l
<1>5. minted \in Nat
  BY <1>1, <1>4, MintDebtNat
<1> HIDE DEF minted
<1>6. WellFormed(w)
  BY <1>1, <1>4, <1>5, AddLiabilitiesWellFormed
<1> HIDE DEF w
<1>7. c \in Call /\ c.ledger = w
  BY <1>6, NewCallType DEF WellFormed
<1> HIDE DEF c
<1>8. call' \in Call /\ call'.ledger = w
  BY <1>1, <1>3, <1>7 DEF Call
<1> QED
  BY <1>3, <1>6, <1>8, CallKeepsInv

-----------------------------------------------------------------------------
(* Requests on a reserve.                                                  *)

\* What a request finds: an invocation, a well formed working copy with the
\* reserve loaded, and a request within its type.
LEMMA RequestContext ==
    ASSUME PoolInv, NEW req, NEW type, RequestingOn(req, type)
    PROVE  /\ call \in Call /\ call.from \in Users /\ call.from \in Accounts
           /\ req.address \in Assets /\ req.amount \in Nat
           /\ WellFormed(Working(req.address))
           /\ Working(req.address).reserves[req.address] \in ReserveData
           /\ Position \in Positions
           /\ Working(req.address).positions[call.from] = Position
<1>1. /\ call # NoCall /\ req \in Requests[call.from] /\ req.address \in Assets
  BY DEF RequestingOn, Requesting
<1>2. call \in Call /\ call.from \in Users
  BY <1>1 DEF PoolInv, TypeOK, Call
<1>3. call.from \in Accounts
  BY <1>2, AccountsFinite
<1>4. req.amount \in Nat
  BY <1>1, <1>2, PoolAssumption DEF Request
<1>5. GoodSettings /\ WellFormed(call.ledger) /\ call.ledger \in Ledger
  BY <1>1 DEF PoolInv, WellFormed
<1>6. WellFormed(Working(req.address))
  BY <1>5, LoadReservesWellFormed DEF Working
<1>7. Working(req.address).reserves[req.address] \in ReserveData
  BY <1>1, <1>6, LedgerFields DEF WellFormed
<1>8. Position \in Positions
  BY <1>3, <1>5, LedgerFields DEF Position
<1>9. Working(req.address).positions = call.ledger.positions
  BY <1>5, LoadReservesFields DEF Working
<1> QED
  BY <1>1, <1>2, <1>3, <1>4, <1>6, <1>7, <1>8, <1>9 DEF Position

LEMMA ProceedKeepsInv ==
    ASSUME PoolInv, call \in Call, NEW w, WellFormed(w), NEW a \in Assets,
           NEW in \in Nat, NEW out \in Nat, Proceed(w, a, in, out)
    PROVE  PoolInv'
<1> DEFINE from == [call.spender_transfer EXCEPT ![a] = @ + in]
           to == [call.pool_transfer EXCEPT ![a] = @ + out]
           n == call.requests + 1
<1>1. /\ call.spender_transfer \in [Assets -> Nat] /\ call.pool_transfer \in [Assets -> Nat]
      /\ call.requests \in Nat
  BY DEF Call
<1>2. from \in [Assets -> Nat] /\ to \in [Assets -> Nat] /\ n \in Nat
  BY <1>1
<1>3. /\ call' = [call EXCEPT !.ledger = w, !.requests = n,
                              !.spender_transfer = from, !.pool_transfer = to]
      /\ UNCHANGED <<now, price, config, q4w_pct, ledger, writes>>
  BY DEF Proceed
<1> HIDE DEF from, to, n
<1>4. w \in Ledger
  BY DEF WellFormed
<1>5. call' \in Call /\ call'.ledger = w
  BY <1>1, <1>2, <1>3, <1>4 DEF Call
<1> QED
  BY <1>3, <1>5, CallKeepsInv

LEMMA ProceedCheckedKeepsInv ==
    ASSUME PoolInv, call \in Call, NEW w, WellFormed(w), NEW a \in Assets,
           NEW out \in Nat, NEW maxUtil \in SUBSET Assets, ProceedChecked(w, a, out, maxUtil)
    PROVE  PoolInv'
<1> DEFINE to == [call.pool_transfer EXCEPT ![a] = @ + out]
           checked == call.check_max_util \cup maxUtil
           n == call.requests + 1
<1>1. /\ call.pool_transfer \in [Assets -> Nat] /\ call.check_max_util \in SUBSET Assets
      /\ call.requests \in Nat
  BY DEF Call
<1>2. to \in [Assets -> Nat] /\ checked \in SUBSET Assets /\ n \in Nat
  BY <1>1
<1>3. /\ call' = [call EXCEPT !.ledger = w, !.requests = n, !.pool_transfer = to,
                              !.check_health = TRUE, !.check_max_util = checked]
      /\ UNCHANGED <<now, price, config, q4w_pct, ledger, writes>>
  BY DEF ProceedChecked
<1> HIDE DEF to, checked, n
<1>4. w \in Ledger
  BY DEF WellFormed
<1>5. call' \in Call /\ call'.ledger = w
  BY <1>1, <1>2, <1>3, <1>4 DEF Call
<1> QED
  BY <1>3, <1>5, CallKeepsInv

LEMMA ProceedWithKeepsInv ==
    ASSUME PoolInv, call \in Call, NEW w, WellFormed(w), NEW checkHealth \in BOOLEAN,
           ProceedWith(w, checkHealth)
    PROVE  PoolInv'
<1> DEFINE n == call.requests + 1
           check == call.check_health \/ checkHealth
<1>1. call.requests \in Nat
  BY DEF Call
<1>2. n \in Nat /\ check \in BOOLEAN
  BY <1>1
<1>3. /\ call' = [call EXCEPT !.ledger = w, !.requests = n, !.check_health = check]
      /\ UNCHANGED <<now, price, config, q4w_pct, ledger, writes>>
  BY DEF ProceedWith
<1> HIDE DEF n, check
<1>4. w \in Ledger
  BY DEF WellFormed
<1>5. call' \in Call /\ call'.ledger = w
  BY <1>2, <1>3, <1>4 DEF Call
<1> QED
  BY <1>3, <1>5, CallKeepsInv

LEMMA MintSharesNat ==
    ASSUME NEW r \in ReserveData, r.b_rate > 0, NEW amount \in Nat
    PROVE  ToBTokenDown(r, amount) \in Nat /\ ToBTokenUp(r, amount) \in Nat
<1> DEFINE rate == r.b_rate
<1>1. rate \in Int /\ rate > 0
  BY DEF ReserveData
<1>2. /\ ToBTokenDown(r, amount) = DivFloor(amount, rate, Scalar12)
      /\ ToBTokenUp(r, amount) = DivCeil(amount, rate, Scalar12)
  BY DEF ToBTokenDown, ToBTokenUp
<1> HIDE DEF rate
<1> QED
  BY <1>1, <1>2, DivNat, ScalarsPositive

\* A withdrawal never burns more than is held.
LEMMA BurnForWithin ==
    ASSUME NEW r \in ReserveData, r.b_rate > 0, NEW amount \in Nat, NEW held \in Nat
    PROVE  /\ BurnFor(r, amount, held).shares \in Nat
           /\ BurnFor(r, amount, held).shares <= held
           /\ BurnFor(r, amount, held).tokens \in Nat
<1>1. ToBTokenUp(r, amount) \in Nat
  BY MintSharesNat
<1>2. ToAssetFromB(r, held) \in Nat
  BY MulNat, ScalarsPositive DEF ToAssetFromB, ReserveData
<1> QED
  BY <1>1, <1>2 DEF BurnFor

LEMMA SupplyKeepsInv ==
    ASSUME PoolInv, NEW req, Supply(req)
    PROVE  PoolInv'
<1> DEFINE a == req.address
           l == Working(a)
           r == l.reserves[a]
           minted == ToBTokenDown(r, req.amount)
           w == AddSupply(l, call.from, a, minted)
<1>1. /\ RequestingOn(req, "Supply") /\ r.b_rate > 0
      /\ Proceed(w, a, req.amount, 0)
  BY DEF Supply
<1>2. /\ call \in Call /\ call.from \in Accounts /\ a \in Assets /\ req.amount \in Nat
      /\ WellFormed(l) /\ r \in ReserveData
  BY <1>1, RequestContext
<1> HIDE DEF l, a
<1>3. minted \in Nat
  BY <1>1, <1>2, MintSharesNat
<1> HIDE DEF minted
<1>4. WellFormed(w)
  BY <1>2, <1>3, AddSupplyWellFormed
<1> HIDE DEF w
<1> QED
  BY <1>1, <1>2, <1>4, ProceedKeepsInv

LEMMA SupplyCollateralKeepsInv ==
    ASSUME PoolInv, NEW req, SupplyCollateral(req)
    PROVE  PoolInv'
<1> DEFINE a == req.address
           l == Working(a)
           r == l.reserves[a]
           minted == ToBTokenDown(r, req.amount)
           w == AddCollateral(l, call.from, a, minted)
<1>1. /\ RequestingOn(req, "SupplyCollateral") /\ r.b_rate > 0
      /\ Proceed(w, a, req.amount, 0)
  BY DEF SupplyCollateral
<1>2. /\ call \in Call /\ call.from \in Accounts /\ a \in Assets /\ req.amount \in Nat
      /\ WellFormed(l) /\ r \in ReserveData
  BY <1>1, RequestContext
<1> HIDE DEF l, a
<1>3. minted \in Nat
  BY <1>1, <1>2, MintSharesNat
<1> HIDE DEF minted
<1>4. WellFormed(w)
  BY <1>2, <1>3, AddCollateralWellFormed
<1> HIDE DEF w
<1> QED
  BY <1>1, <1>2, <1>4, ProceedKeepsInv

LEMMA WithdrawKeepsInv ==
    ASSUME PoolInv, NEW req, Withdraw(req)
    PROVE  PoolInv'
<1> DEFINE a == req.address
           l == Working(a)
           r == l.reserves[a]
           held == Position.supply[a]
           burn == BurnFor(r, req.amount, held)
           w == RemoveSupply(l, call.from, a, burn.shares)
<1>1. /\ RequestingOn(req, "Withdraw") /\ r.b_rate > 0
      /\ Proceed(w, a, 0, burn.tokens)
  BY DEF Withdraw
<1>2. /\ call \in Call /\ call.from \in Accounts /\ a \in Assets /\ req.amount \in Nat
      /\ WellFormed(l) /\ r \in ReserveData
      /\ Position \in Positions /\ l.positions[call.from] = Position
  BY <1>1, RequestContext
<1> HIDE DEF l, a
<1>3. held \in Nat /\ held = l.positions[call.from].supply[a]
  BY <1>2, PositionNat
<1> HIDE DEF held
<1>4. burn.shares \in Nat /\ burn.shares <= held /\ burn.tokens \in Nat
  BY <1>1, <1>2, <1>3, BurnForWithin
<1> HIDE DEF burn
<1>5. WellFormed(w)
  BY <1>2, <1>3, <1>4, RemoveSupplyWellFormed
<1> HIDE DEF w
<1> QED
  BY <1>1, <1>2, <1>4, <1>5, ProceedKeepsInv

LEMMA WithdrawCollateralKeepsInv ==
    ASSUME PoolInv, NEW req, WithdrawCollateral(req)
    PROVE  PoolInv'
<1> DEFINE a == req.address
           l == Working(a)
           r == l.reserves[a]
           held == Position.collateral[a]
           burn == BurnFor(r, req.amount, held)
           w == RemoveCollateral(l, call.from, a, burn.shares)
<1>1. /\ RequestingOn(req, "WithdrawCollateral") /\ r.b_rate > 0
      /\ ProceedChecked(w, a, burn.tokens, {})
  BY DEF WithdrawCollateral
<1>2. /\ call \in Call /\ call.from \in Accounts /\ a \in Assets /\ req.amount \in Nat
      /\ WellFormed(l) /\ r \in ReserveData
      /\ Position \in Positions /\ l.positions[call.from] = Position
  BY <1>1, RequestContext
<1> HIDE DEF l, a
<1>3. held \in Nat /\ held = l.positions[call.from].collateral[a]
  BY <1>2, PositionNat
<1> HIDE DEF held
<1>4. burn.shares \in Nat /\ burn.shares <= held /\ burn.tokens \in Nat
  BY <1>1, <1>2, <1>3, BurnForWithin
<1> HIDE DEF burn
<1>5. WellFormed(w)
  BY <1>2, <1>3, <1>4, RemoveCollateralWellFormed
<1> HIDE DEF w
<1> QED
  BY <1>1, <1>2, <1>4, <1>5, ProceedCheckedKeepsInv

LEMMA BorrowKeepsInv ==
    ASSUME PoolInv, NEW req, Borrow(req)
    PROVE  PoolInv'
<1> DEFINE a == req.address
           l == Working(a)
           minted == ToDTokenUp(l.reserves[a], req.amount)
           w == AddLiabilities(l, call.from, a, minted)
<1>1. /\ RequestingOn(req, "Borrow")
      /\ ProceedChecked(w, a, req.amount, {a})
  BY DEF Borrow
<1>2. /\ call \in Call /\ call.from \in Accounts /\ a \in Assets /\ req.amount \in Nat
      /\ WellFormed(l)
  BY <1>1, RequestContext
<1> HIDE DEF l, a
<1>3. minted \in Nat
  BY <1>2, MintDebtNat
<1> HIDE DEF minted
<1>4. WellFormed(w)
  BY <1>2, <1>3, AddLiabilitiesWellFormed
<1> HIDE DEF w
<1> QED
  BY <1>1, <1>2, <1>4, ProceedCheckedKeepsInv

LEMMA RepayKeepsInv ==
    ASSUME PoolInv, NEW req, Repay(req)
    PROVE  PoolInv'
<1> DEFINE a == req.address
           l == Working(a)
           r == l.reserves[a]
           owed == Position.liabilities[a]
           shares == ToDTokenDown(r, req.amount)
           over == shares > owed
           burnt == IF over THEN owed ELSE shares
           refund == IF over THEN req.amount - ToAssetFromD(r, owed) ELSE 0
           w == RemoveLiabilities(l, call.from, a, burnt)
<1>1. /\ RequestingOn(req, "Repay") /\ refund >= 0
      /\ Proceed(w, a, req.amount, refund)
  BY DEF Repay
<1>2. /\ call \in Call /\ call.from \in Accounts /\ a \in Assets /\ req.amount \in Nat
      /\ WellFormed(l) /\ r \in ReserveData
      /\ Position \in Positions /\ l.positions[call.from] = Position
  BY <1>1, RequestContext
<1> HIDE DEF l, a
<1>3. owed \in Nat /\ owed = l.positions[call.from].liabilities[a]
  BY <1>2, PositionNat
<1>4. shares \in Nat
  BY <1>2, MintDebtNat
<1>5. ToAssetFromD(r, owed) \in Nat
  <2>1. r.d_rate \in Nat
    BY <1>2 DEF ReserveData
  <2> QED
    BY <1>3, <2>1, MulNat, ScalarsPositive DEF ToAssetFromD
<1> HIDE DEF owed, shares
<1>6. burnt \in Nat /\ burnt <= l.positions[call.from].liabilities[a]
  BY <1>3, <1>4
<1>7. refund \in Nat
  <2>1. req.amount - ToAssetFromD(r, owed) \in Int
    BY <1>2, <1>5
  <2> QED
    BY <1>1, <2>1
<1> HIDE DEF burnt, refund
<1>8. WellFormed(w)
  BY <1>2, <1>6, RemoveLiabilitiesWellFormed
<1> HIDE DEF w
<1> QED
  BY <1>1, <1>2, <1>7, <1>8, ProceedKeepsInv

-----------------------------------------------------------------------------
(* Requests on auctions.                                                   *)

LEMMA AuctionContext ==
    ASSUME PoolInv, NEW req, NEW type, Requesting(req, type)
    PROVE  /\ call \in Call /\ call.from \in Users
           /\ GoodSettings /\ WellFormed(call.ledger) /\ call.ledger \in Ledger
<1>1. call # NoCall
  BY DEF Requesting
<1> QED
  BY <1>1 DEF PoolInv, TypeOK, Call, WellFormed

LEMMA FillUserLiquidationAuctionKeepsInv ==
    ASSUME PoolInv, NEW req, FillUserLiquidationAuction(req)
    PROVE  PoolInv'
<1> DEFINE w == FillUserLiquidation(call.ledger, req.address, call.from, req.amount)
<1>1. /\ Requesting(req, "FillUserLiquidationAuction") /\ req.address \in Users
      /\ CanFillUserLiquidation(call.ledger, req.address, call.from, req.amount)
      /\ ProceedWith(w, TRUE)
  BY DEF FillUserLiquidationAuction
<1>2. call \in Call /\ call.from \in Users /\ GoodSettings /\ WellFormed(call.ledger)
  BY <1>1, AuctionContext
<1>3. WellFormed(w)
  BY <1>1, <1>2, FillUserLiquidationWellFormed
<1> HIDE DEF w
<1> QED
  BY <1>1, <1>2, <1>3, ProceedWithKeepsInv

LEMMA FillBadDebtAuctionKeepsInv ==
    ASSUME PoolInv, NEW req, FillBadDebtAuction(req)
    PROVE  PoolInv'
<1> DEFINE w == FillBadDebt(call.ledger, call.from, req.amount)
<1>1. /\ Requesting(req, "FillBadDebtAuction")
      /\ CanFillBadDebt(call.ledger, call.from, req.amount)
      /\ ProceedWith(w, TRUE)
  BY DEF FillBadDebtAuction
<1>2. call \in Call /\ call.from \in Users /\ GoodSettings /\ WellFormed(call.ledger)
  BY <1>1, AuctionContext
<1>3. WellFormed(w)
  BY <1>1, <1>2, FillBadDebtWellFormed
<1> HIDE DEF w
<1> QED
  BY <1>1, <1>2, <1>3, ProceedWithKeepsInv

LEMMA FillInterestAuctionKeepsInv ==
    ASSUME PoolInv, NEW req, FillInterestAuction(req)
    PROVE  PoolInv'
<1> DEFINE w == FillInterest(call.ledger, req.amount)
<1>1. /\ Requesting(req, "FillInterestAuction")
      /\ CanFillInterest(call.ledger, call.from, req.amount)
      /\ ProceedWith(w, FALSE)
  BY DEF FillInterestAuction
<1>2. call \in Call /\ call.from \in Users /\ GoodSettings /\ WellFormed(call.ledger)
  BY <1>1, AuctionContext
<1>3. WellFormed(w)
  BY <1>1, <1>2, FillInterestWellFormed
<1> HIDE DEF w
<1> QED
  BY <1>1, <1>2, <1>3, ProceedWithKeepsInv

LEMMA DeleteLiquidationAuctionKeepsInv ==
    ASSUME PoolInv, NEW req, DeleteLiquidationAuction(req)
    PROVE  PoolInv'
<1> DEFINE w == [call.ledger EXCEPT !.liquidation[call.from] = NoAuction]
<1>1. Requesting(req, "DeleteLiquidationAuction") /\ ProceedWith(w, TRUE)
  BY DEF DeleteLiquidationAuction
<1>2. call \in Call /\ call.from \in Users /\ GoodSettings /\ WellFormed(call.ledger)
  BY <1>1, AuctionContext
<1>3. WellFormed(w)
  BY <1>2, SetLiquidationWellFormed
<1> HIDE DEF w
<1> QED
  BY <1>1, <1>2, <1>3, ProceedWithKeepsInv

-----------------------------------------------------------------------------
(* Ending an invocation.                                                   *)

LEMMA CommitKeepsInv ==
    ASSUME PoolInv, Commit
    PROVE  PoolInv'
<1> DEFINE b == BalancesAfter
           w == [call.ledger EXCEPT !.balance = b]
<1>1. /\ call # NoCall /\ ledger' = w /\ call' = NoCall /\ CountWrite
      /\ UNCHANGED <<now, price, config, q4w_pct>>
  BY DEF Commit
<1>2. call \in Call /\ WellFormed(call.ledger) /\ call.ledger \in Ledger
  BY <1>1 DEF PoolInv, TypeOK, WellFormed
<1>3. /\ call.flash \in [Assets -> Nat] /\ call.spender_transfer \in [Assets -> Nat]
      /\ call.pool_transfer \in [Assets -> Nat]
      /\ call.ledger.balance \in [Assets -> Int]
  BY <1>2, LedgerFields DEF Call
<1>4. b \in [Assets -> Int]
  BY <1>3 DEF BalancesAfter
<1> HIDE DEF b
<1>5. WellFormed(w)
  BY <1>2, <1>4, SetBalanceWellFormed
<1> HIDE DEF w
<1>6. GoodSettings'
  BY <1>1, SameSettings DEF PoolInv
<1>7. now \in Nat /\ now' = now
  BY <1>1 DEF PoolInv, TypeOK
<1>8. WellFormed(ledger)'
  BY <1>1, <1>5, <1>7, LedgerLater
<1>9. ledger' \in Ledger
  BY <1>1, <1>5 DEF WellFormed
<1>10. TypeOK'
  BY <1>1, <1>9, WritesNat DEF PoolInv, TypeOK
<1> QED
  BY <1>1, <1>6, <1>8, <1>10 DEF PoolInv

LEMMA AbortKeepsInv ==
    ASSUME PoolInv, Abort
    PROVE  PoolInv'
<1>1. call' = NoCall /\ UNCHANGED <<now, price, config, q4w_pct, ledger, writes>>
  BY DEF Abort
<1>2. GoodSettings'
  BY <1>1, SameSettings DEF PoolInv
<1>3. now \in Nat /\ now' = now /\ WellFormed(ledger)
  BY <1>1 DEF PoolInv, TypeOK
<1>4. WellFormed(ledger)'
  BY <1>1, <1>3, LedgerLater
<1>5. TypeOK'
  BY <1>1 DEF PoolInv, TypeOK
<1> QED
  BY <1>1, <1>2, <1>4, <1>5 DEF PoolInv

-----------------------------------------------------------------------------
(* Entry points that only write the ledger.                                *)

LEMMA AuctionStepKeepsInv ==
    ASSUME PoolInv, AuctionStep
    PROVE  PoolInv'
<1>1. GoodSettings /\ WellFormed(ledger) /\ ledger \in Ledger
  BY DEF PoolInv, WellFormed
<1>2. ASSUME NEW u \in Users, NEW bid, NEW lot, NEW percent, NewUserLiquidation(u, bid, lot, percent)
      PROVE  PoolInv'
  <2> DEFINE w == CreateUserLiquidation(ledger, u, bid, lot, percent)
  <2>1. CanLiquidate(ledger, u, bid, lot, percent) /\ Writes(w)
    BY <1>2 DEF NewUserLiquidation
  <2>2. WellFormed(w)
    BY <1>1, <2>1, CreateUserLiquidationWellFormed
  <2> HIDE DEF w
  <2> QED
    BY <2>1, <2>2, WritesKeepsInv
<1>3. ASSUME NEW bid, NewBadDebtAuction(bid)
      PROVE  PoolInv'
  <2> DEFINE w == CreateBadDebt(ledger, bid)
  <2>1. CanCreateBadDebt(ledger, bid) /\ Writes(w)
    BY <1>3 DEF NewBadDebtAuction
  <2>2. WellFormed(w)
    BY <1>1, <2>1, CreateBadDebtWellFormed
  <2> HIDE DEF w
  <2> QED
    BY <2>1, <2>2, WritesKeepsInv
<1>4. ASSUME NEW lot \in SUBSET Assets, NewInterestAuction(lot)
      PROVE  PoolInv'
  <2> DEFINE w == CreateInterest(ledger, lot)
  <2>1. Writes(w)
    BY <1>4 DEF NewInterestAuction
  <2>2. WellFormed(w)
    BY <1>1, CreateInterestWellFormed
  <2> HIDE DEF w
  <2> QED
    BY <2>1, <2>2, WritesKeepsInv
<1>5. ASSUME NEW u \in Users, DeleteStaleLiquidation(u)
      PROVE  PoolInv'
  <2> DEFINE w == [ledger EXCEPT !.liquidation[u] = NoAuction]
  <2>1. Writes(w)
    BY <1>5 DEF DeleteStaleLiquidation
  <2>2. WellFormed(w)
    BY <1>1, SetLiquidationWellFormed
  <2> HIDE DEF w
  <2> QED
    BY <2>1, <2>2, WritesKeepsInv
<1>6. ASSUME DeleteStaleBadDebt
      PROVE  PoolInv'
  <2> DEFINE w == [ledger EXCEPT !.bad_debt = NoAuction]
  <2>1. Writes(w)
    BY <1>6 DEF DeleteStaleBadDebt
  <2>2. WellFormed(w)
    BY <1>1, SetBadDebtWellFormed
  <2> HIDE DEF w
  <2> QED
    BY <2>1, <2>2, WritesKeepsInv
<1>7. ASSUME DeleteStaleInterest
      PROVE  PoolInv'
  <2> DEFINE w == [ledger EXCEPT !.interest = NoAuction]
  <2>1. Writes(w)
    BY <1>7 DEF DeleteStaleInterest
  <2>2. WellFormed(w)
    BY <1>1, SetInterestWellFormed
  <2> HIDE DEF w
  <2> QED
    BY <2>1, <2>2, WritesKeepsInv
<1> QED
  BY <1>2, <1>3, <1>4, <1>5, <1>6, <1>7 DEF AuctionStep, LiquidationStep, OtherAuctionStep

LEMMA BadDebtKeepsInv ==
    ASSUME PoolInv, NEW u \in Accounts, BadDebt(u)
    PROVE  PoolInv'
<1>1. GoodSettings /\ WellFormed(ledger)
  BY DEF PoolInv
<1>2. CASE u = Backstop
  <2> DEFINE w == DefaultBackstopDebt(ledger)
  <2>1. CanDefault(ledger) /\ Writes(w)
    BY <1>2 DEF BadDebt
  <2>2. WellFormed(w)
    BY <1>1, <2>1, DefaultBackstopDebtWellFormed
  <2> HIDE DEF w
  <2> QED
    BY <2>1, <2>2, WritesKeepsInv
<1>3. CASE u # Backstop
  <2> DEFINE w == HandleUserBadDebt(ledger, u)
  <2>1. u \in Users /\ Writes(w)
    BY <1>3 DEF BadDebt, Accounts
  <2>2. WellFormed(w)
    BY <1>1, <2>1, HandleUserBadDebtWellFormed
  <2> HIDE DEF w
  <2> QED
    BY <2>1, <2>2, WritesKeepsInv
<1> QED
  BY <1>2, <1>3

LEMMA GulpKeepsInv ==
    ASSUME PoolInv, NEW a \in Assets, Gulp(a)
    PROVE  PoolInv'
<1> DEFINE l == LoadReserves(ledger, {a})
           r == l.reserves[a]
           credit == r.backstop_credit + Excess(l, a)
           s == [r EXCEPT !.backstop_credit = credit]
           rs == [l.reserves EXCEPT ![a] = s]
           w == [l EXCEPT !.reserves = rs]
<1>1. GoodSettings /\ WellFormed(ledger)
  BY DEF PoolInv
<1>2. Writes(w)
  <2>1. Writes([l EXCEPT !.reserves[a].backstop_credit = @ + Excess(l, a)])
    BY DEF Gulp
  <2> HIDE DEF l
  <2> QED
    BY <2>1
<1>3. WellFormed(l) /\ l \in Ledger
  BY <1>1, LoadReservesWellFormed DEF WellFormed
<1> HIDE DEF l
<1>4. /\ l.reserves \in [Assets -> ReserveData] /\ r \in ReserveData
      /\ l.balance \in [Assets -> Int]
  BY <1>3, LedgerFields
<1>5. r.backstop_credit \in Int /\ TotalSupply(r) \in Nat /\ TotalLiabilities(r) \in Nat
  BY <1>4, TotalsNat DEF ReserveData
<1>6. Excess(l, a) \in Int
  BY <1>4, <1>5 DEF Excess
<1>7. credit \in Int
  BY <1>5, <1>6
<1> HIDE DEF credit
<1>8. /\ s \in ReserveData
      /\ s.b_supply = r.b_supply /\ s.d_supply = r.d_supply
      /\ s.d_rate = r.d_rate /\ s.last_time = r.last_time
  BY <1>4, <1>7 DEF ReserveData
<1> HIDE DEF s
<1>9. /\ rs \in [Assets -> ReserveData]
      /\ \A c \in Assets : /\ rs[c].b_supply = l.reserves[c].b_supply
                           /\ rs[c].d_supply = l.reserves[c].d_supply
                           /\ rs[c].d_rate = l.reserves[c].d_rate
                           /\ rs[c].last_time = l.reserves[c].last_time
  BY <1>4, <1>8
<1> HIDE DEF rs
<1>10. WellFormed(w)
  BY <1>3, <1>9, SetReserveWellFormed
<1> HIDE DEF w
<1> QED
  BY <1>2, <1>10, WritesKeepsInv

-----------------------------------------------------------------------------
(* Configuration.                                                          *)

LEMMA QueueSetReserveKeepsInv ==
    ASSUME PoolInv, NEW a \in Assets, NEW cfg \in NewConfigs[a], QueueSetReserve(a, cfg)
    PROVE  PoolInv'
<1> DEFINE unlock == IF config.status = 6 THEN now ELSE now + QueueDelay
           item == [new_config |-> cfg, unlock_time |-> unlock]
           q == [config.queued EXCEPT ![a] = item]
           c == [config EXCEPT !.queued = q]
<1>1. ValidReserveConfig(cfg) /\ SetsConfig(c)
  BY DEF QueueSetReserve
<1>2. config \in Config /\ now \in Nat /\ GoodSettings
  BY DEF PoolInv, TypeOK
<1>3. unlock \in Nat
  BY <1>2, PoolAssumption
<1> HIDE DEF unlock
<1>4. item \in Queued /\ item.new_config = cfg
  BY <1>1, <1>3 DEF Queued, ValidReserveConfig
<1> HIDE DEF item
<1>5. /\ q \in [Assets -> Queued \cup {NoQueue}]
      /\ \A d \in Assets : q[d] # NoQueue => ValidReserveConfig(q[d].new_config)
  BY <1>1, <1>2, <1>4 DEF Config, GoodSettings
<1> HIDE DEF q
<1>6. /\ c \in Config /\ c.queued = q /\ c.reserves = config.reserves
      /\ c.bstop_rate = config.bstop_rate
  BY <1>2, <1>5 DEF Config
<1> HIDE DEF c
<1> QED
  BY <1>1, <1>2, <1>5, <1>6, SetsConfigKeepsInv DEF GoodSettings

LEMMA CancelSetReserveKeepsInv ==
    ASSUME PoolInv, NEW a \in Assets, CancelSetReserve(a)
    PROVE  PoolInv'
<1> DEFINE q == [config.queued EXCEPT ![a] = NoQueue]
           c == [config EXCEPT !.queued = q]
<1>1. SetsConfig(c)
  BY DEF CancelSetReserve
<1>2. config \in Config /\ GoodSettings
  BY DEF PoolInv, TypeOK
<1>3. /\ q \in [Assets -> Queued \cup {NoQueue}]
      /\ \A d \in Assets : q[d] # NoQueue => ValidReserveConfig(q[d].new_config)
  BY <1>2 DEF Config, GoodSettings
<1> HIDE DEF q
<1>4. /\ c \in Config /\ c.queued = q /\ c.reserves = config.reserves
      /\ c.bstop_rate = config.bstop_rate
  BY <1>2, <1>3 DEF Config
<1> HIDE DEF c
<1> QED
  BY <1>1, <1>2, <1>3, <1>4, SetsConfigKeepsInv DEF GoodSettings

LEMMA SetsStatusKeepsInv ==
    ASSUME PoolInv, NEW s \in Status, SetsStatus(s)
    PROVE  PoolInv'
<1> DEFINE c == [config EXCEPT !.status = s]
<1>1. SetsConfig(c)
  BY DEF SetsStatus
<1>2. config \in Config /\ GoodSettings
  BY DEF PoolInv, TypeOK
<1>3. /\ c \in Config /\ c.queued = config.queued /\ c.reserves = config.reserves
      /\ c.bstop_rate = config.bstop_rate
  BY <1>2 DEF Config
<1> HIDE DEF c
<1> QED
  BY <1>1, <1>2, <1>3, SetsConfigKeepsInv DEF GoodSettings

LEMMA StatusStepsKeepInv ==
    ASSUME PoolInv, UpdateStatus \/ \E s \in AdminStatuses : SetStatus(s)
    PROVE  PoolInv'
<1>1. CASE UpdateStatus
  <2>1. StatusAfterUpdate \in Status
    BY DEF StatusAfterUpdate, Status
  <2> QED
    BY <1>1, <2>1, SetsStatusKeepsInv DEF UpdateStatus
<1>2. ASSUME NEW s \in AdminStatuses, SetStatus(s)
      PROVE  PoolInv'
  <2>1. s \in Status
    BY PoolAssumption DEF Status
  <2> QED
    BY <1>2, <2>1, SetsStatusKeepsInv DEF SetStatus
<1> QED
  BY <1>1, <1>2

\* A change of configuration that also stores reserves.
LEMMA ReconfigureKeepsInv ==
    ASSUME PoolInv, NEW c \in Config, NEW w, WellFormed(w),
           c.bstop_rate < Scalar7,
           \A a \in Assets :
              /\ ValidReserveConfig(c.reserves[a])
              /\ c.queued[a] # NoQueue => ValidReserveConfig(c.queued[a].new_config),
           call = NoCall, config' = c, ledger' = w, CountWrite,
           UNCHANGED <<now, price, q4w_pct, call>>
    PROVE  PoolInv'
<1>1. GoodSettings'
  BY DEF PoolInv, GoodSettings
<1>2. now \in Nat /\ now' = now
  BY DEF PoolInv, TypeOK
<1>3. WellFormed(ledger)'
  BY <1>2, LedgerLater
<1>4. ledger' \in Ledger
  BY DEF WellFormed
<1>5. TypeOK'
  BY <1>4, WritesNat DEF PoolInv, TypeOK
<1> QED
  BY <1>1, <1>3, <1>5 DEF PoolInv

LEMMA UpdatePoolKeepsInv ==
    ASSUME PoolInv, NEW limits \in PoolConfigs, UpdatePool(limits)
    PROVE  PoolInv'
<1> DEFINE c == [config EXCEPT !.bstop_rate = limits.bstop_rate,
                               !.max_positions = limits.max_positions,
                               !.min_collateral = limits.min_collateral]
           w == IF limits.bstop_rate = config.bstop_rate THEN ledger
                ELSE LoadReserves(ledger, Assets)
<1>1. /\ call = NoCall /\ ValidPoolConfig(limits)
      /\ ledger' = w /\ config' = c /\ CountWrite
      /\ UNCHANGED <<now, price, q4w_pct, call>>
  BY DEF UpdatePool
<1>2. config \in Config /\ GoodSettings /\ WellFormed(ledger)
  BY DEF PoolInv, TypeOK
<1>3. WellFormed(w)
  BY <1>2, LoadReservesWellFormed
<1> HIDE DEF w
<1>4. /\ limits.bstop_rate \in Nat /\ limits.bstop_rate < Scalar7
      /\ limits.max_positions \in Nat /\ limits.min_collateral \in Nat
  BY <1>1 DEF ValidPoolConfig, PoolLimits
<1>5. /\ c \in Config /\ c.queued = config.queued /\ c.reserves = config.reserves
      /\ c.bstop_rate = limits.bstop_rate
  BY <1>2, <1>4 DEF Config
<1> HIDE DEF c
<1>6. \A a \in Assets :
        /\ ValidReserveConfig(c.reserves[a])
        /\ c.queued[a] # NoQueue => ValidReserveConfig(c.queued[a].new_config)
  BY <1>2, <1>5 DEF GoodSettings
<1> QED
  BY <1>1, <1>3, <1>4, <1>5, <1>6, ReconfigureKeepsInv

LEMMA SetReserveKeepsInv ==
    ASSUME PoolInv, NEW a \in Assets, SetReserve(a)
    PROVE  PoolInv'
<1> DEFINE cfg == config.queued[a].new_config
           l == LoadReserves(ledger, {a})
           r == l.reserves[a]
           s == [r EXCEPT !.ir_mod = Scalar7]
           rs == [l.reserves EXCEPT ![a] = s]
           w == IF CurveChanged(config.reserves[a], cfg) THEN [l EXCEPT !.reserves = rs] ELSE l
           q == [config.queued EXCEPT ![a] = NoQueue]
           cs == [config.reserves EXCEPT ![a] = cfg]
           c == [config EXCEPT !.queued = q, !.reserves = cs]
<1>1. config \in Config /\ GoodSettings /\ WellFormed(ledger)
  BY DEF PoolInv, TypeOK
<1>2. WellFormed(l) /\ l \in Ledger
  BY <1>1, LoadReservesWellFormed DEF WellFormed
<1>3. /\ call = NoCall /\ config.queued[a] # NoQueue
      /\ CountWrite /\ UNCHANGED <<now, price, q4w_pct, call>>
  BY DEF SetReserve
<1>4. ledger' = w
  <2>1. ledger' = IF CurveChanged(config.reserves[a], cfg)
                  THEN [l EXCEPT !.reserves[a].ir_mod = Scalar7] ELSE l
    BY DEF SetReserve
  <2> HIDE DEF l, cfg
  <2> QED
    BY <2>1
<1>5. config' = c
  BY DEF SetReserve
<1> HIDE DEF l
<1>6. l.reserves \in [Assets -> ReserveData] /\ r \in ReserveData
  BY <1>2, LedgerFields
<1>7. /\ s \in ReserveData
      /\ s.b_supply = r.b_supply /\ s.d_supply = r.d_supply
      /\ s.d_rate = r.d_rate /\ s.last_time = r.last_time
  BY <1>6, ScalarsPositive DEF ReserveData
<1> HIDE DEF s
<1>8. /\ rs \in [Assets -> ReserveData]
      /\ \A d \in Assets : /\ rs[d].b_supply = l.reserves[d].b_supply
                           /\ rs[d].d_supply = l.reserves[d].d_supply
                           /\ rs[d].d_rate = l.reserves[d].d_rate
                           /\ rs[d].last_time = l.reserves[d].last_time
  BY <1>6, <1>7
<1> HIDE DEF rs
<1>9. WellFormed(w)
  BY <1>2, <1>8, SetReserveWellFormed
<1>10. ValidReserveConfig(cfg) /\ cfg \in ReserveConfig
  BY <1>1, <1>3 DEF GoodSettings, ValidReserveConfig
<1> HIDE DEF w, cfg
<1>11. /\ q \in [Assets -> Queued \cup {NoQueue}] /\ cs \in [Assets -> ReserveConfig]
       /\ \A d \in Assets :
            /\ ValidReserveConfig(cs[d])
            /\ q[d] # NoQueue => ValidReserveConfig(q[d].new_config)
  BY <1>1, <1>10 DEF Config, GoodSettings
<1> HIDE DEF q, cs
<1>12. /\ c \in Config /\ c.queued = q /\ c.reserves = cs
       /\ c.bstop_rate = config.bstop_rate /\ config.bstop_rate < Scalar7
  BY <1>1, <1>11 DEF Config, GoodSettings
<1> HIDE DEF c
<1> QED
  BY <1>3, <1>4, <1>5, <1>9, <1>11, <1>12, ReconfigureKeepsInv

LEMMA MaintenanceStepKeepsInv ==
    ASSUME PoolInv, MaintenanceStep
    PROVE  PoolInv'
  BY BadDebtKeepsInv, GulpKeepsInv, UpdatePoolKeepsInv, QueueSetReserveKeepsInv,
     CancelSetReserveKeepsInv, SetReserveKeepsInv, StatusStepsKeepInv
     DEF MaintenanceStep

-----------------------------------------------------------------------------
(* The environment.                                                        *)

LEMMA TickKeepsInv ==
    ASSUME PoolInv, NEW delta \in Ticks, Tick(delta)
    PROVE  PoolInv'
<1>1. /\ call = NoCall /\ now' = now + delta
      /\ UNCHANGED <<price, config, q4w_pct, ledger, call, writes>>
  BY DEF Tick
<1>2. now \in Nat /\ now' \in Nat /\ now <= now' /\ WellFormed(ledger)
  BY <1>1, PoolAssumption DEF PoolInv, TypeOK
<1>3. WellFormed(ledger)'
  BY <1>1, <1>2, LedgerLater
<1>4. GoodSettings'
  BY <1>1, <1>2 DEF PoolInv, GoodSettings
<1>5. TypeOK'
  BY <1>1, <1>2 DEF PoolInv, TypeOK
<1> QED
  BY <1>1, <1>3, <1>4, <1>5 DEF PoolInv

LEMMA NewPriceKeepsInv ==
    ASSUME PoolInv, NEW a \in Assets, NEW p \in Prices[a], NewPrice(a, p)
    PROVE  PoolInv'
<1>1. /\ call = NoCall /\ price' = [price EXCEPT ![a] = p]
      /\ UNCHANGED <<now, config, q4w_pct, ledger, call, writes>>
  BY DEF NewPrice
<1>2. p \in Nat /\ price \in [Assets -> Nat]
  BY PoolAssumption DEF PoolInv, TypeOK
<1>3. price' \in [Assets -> Nat]
  BY <1>1, <1>2
<1>4. now \in Nat /\ now' = now /\ WellFormed(ledger)
  BY <1>1 DEF PoolInv, TypeOK
<1>5. WellFormed(ledger)'
  BY <1>1, <1>4, LedgerLater
<1>6. GoodSettings'
  BY <1>1, <1>3 DEF PoolInv, GoodSettings
<1>7. TypeOK'
  BY <1>1, <1>3 DEF PoolInv, TypeOK
<1> QED
  BY <1>1, <1>5, <1>6, <1>7 DEF PoolInv

LEMMA QueueChangeKeepsInv ==
    ASSUME PoolInv, NEW level \in QueueLevels, QueueChange(level)
    PROVE  PoolInv'
<1>1. /\ call = NoCall /\ q4w_pct' = level
      /\ UNCHANGED <<now, price, config, ledger, call, writes>>
  BY DEF QueueChange
<1>2. q4w_pct' \in Nat
  BY <1>1, PoolAssumption
<1>3. now \in Nat /\ now' = now /\ WellFormed(ledger)
  BY <1>1 DEF PoolInv, TypeOK
<1>4. WellFormed(ledger)'
  BY <1>1, <1>3, LedgerLater
<1>5. GoodSettings'
  BY <1>1, SameSettings DEF PoolInv
<1>6. TypeOK'
  BY <1>1, <1>2 DEF PoolInv, TypeOK
<1> QED
  BY <1>1, <1>4, <1>5, <1>6 DEF PoolInv

LEMMA GiftKeepsInv ==
    ASSUME PoolInv, NEW a \in Assets, NEW amount \in Gifts, Gift(a, amount)
    PROVE  PoolInv'
<1> DEFINE b == [ledger.balance EXCEPT ![a] = @ + amount]
           w == [ledger EXCEPT !.balance = b]
<1>1. Writes(w)
  BY DEF Gift
<1>2. WellFormed(ledger) /\ ledger.balance \in [Assets -> Int] /\ amount \in Nat
  BY PoolAssumption, LedgerFields DEF PoolInv, TypeOK
<1>3. b \in [Assets -> Int]
  BY <1>2
<1> HIDE DEF b
<1>4. WellFormed(w)
  BY <1>2, <1>3, SetBalanceWellFormed
<1> HIDE DEF w
<1> QED
  BY <1>1, <1>4, WritesKeepsInv

LEMMA LevelRange ==
    ASSUME PoolInv, NEW level \in QueueLevels \cup {q4w_pct}
    PROVE  level \in Nat
  BY PoolAssumption DEF PoolInv, TypeOK

LEMMA BackstopMovesKeepsInv ==
    ASSUME PoolInv, NEW tokens \in Nat, NEW level \in Nat, BackstopMoves(tokens, level)
    PROVE  PoolInv'
<1> DEFINE w == [ledger EXCEPT !.backstop_tokens = tokens]
<1>1. /\ call = NoCall /\ call' = NoCall /\ q4w_pct' = level
      /\ ledger' = w /\ CountWrite
      /\ UNCHANGED <<now, price, config>>
  BY DEF BackstopMoves
<1>2. GoodSettings'
  BY <1>1, SameSettings DEF PoolInv
<1>3. now \in Nat /\ now' = now
  BY <1>1 DEF PoolInv, TypeOK
<1>4. WellFormed(w)
  BY SetBackstopTokensWellFormed DEF PoolInv
<1> HIDE DEF w
<1>5. WellFormed(ledger)'
  BY <1>1, <1>3, <1>4, LedgerLater
<1>6. ledger' \in Ledger
  BY <1>1, <1>4 DEF WellFormed
<1>7. TypeOK'
  BY <1>1, <1>6, WritesNat DEF PoolInv, TypeOK
<1> QED
  BY <1>1, <1>2, <1>5, <1>7 DEF PoolInv

LEMMA BackstopChangeKeepsInv ==
    ASSUME PoolInv, NEW amount \in BackstopAmounts, NEW level \in QueueLevels \cup {q4w_pct},
           BackstopDeposit(amount, level) \/ BackstopWithdraw(amount, level)
    PROVE  PoolInv'
<1>1. ledger.backstop_tokens \in Nat /\ amount \in Nat /\ level \in Nat
  BY PoolAssumption, LedgerFields, LevelRange DEF PoolInv, TypeOK
<1>2. CASE BackstopDeposit(amount, level)
  <2>1. BackstopMoves(ledger.backstop_tokens + amount, level)
    BY <1>2 DEF BackstopDeposit
  <2>2. ledger.backstop_tokens + amount \in Nat
    BY <1>1
  <2> QED
    BY <1>1, <2>1, <2>2, BackstopMovesKeepsInv
<1>3. CASE BackstopWithdraw(amount, level)
  <2>1. BackstopMoves(ledger.backstop_tokens - amount, level)
    BY <1>3 DEF BackstopWithdraw
  <2>2. ledger.backstop_tokens - amount \in Nat
    BY <1>1, <1>3 DEF BackstopWithdraw
  <2> QED
    BY <1>1, <2>1, <2>2, BackstopMovesKeepsInv
<1> QED
  BY <1>2, <1>3

LEMMA EnvironmentStepKeepsInv ==
    ASSUME PoolInv, EnvironmentStep
    PROVE  PoolInv'
<1>1. CASE OutsideStep
  BY <1>1, TickKeepsInv, NewPriceKeepsInv, GiftKeepsInv DEF OutsideStep
<1>2. CASE BackstopStep
  BY <1>2, QueueChangeKeepsInv, BackstopChangeKeepsInv DEF BackstopStep
<1> QED
  BY <1>1, <1>2 DEF EnvironmentStep

-----------------------------------------------------------------------------
(* The first state.                                                        *)

LEMMA NewReserveType ==
    /\ NewReserve(0) \in ReserveData
    /\ NewReserve(0).d_rate > 0 /\ NewReserve(0).last_time = 0
    /\ NewReserve(0).b_supply = 0 /\ NewReserve(0).d_supply = 0
  BY ScalarsPositive DEF NewReserve, ReserveData

LEMMA InitialLedgerWellFormed ==
    ASSUME now = 0
    PROVE  WellFormed(InitialLedger)
<1> DEFINE l == InitialLedger
<1>1. NoShares \in [Assets -> Nat] /\ \A a \in Assets : NoShares[a] = 0
  BY DEF NoShares
<1>2. /\ NoPositions \in Positions
      /\ \A a \in Assets : BShares(NoPositions, a) = 0 /\ DShares(NoPositions, a) = 0
  BY <1>1 DEF NoPositions, Positions, BShares, DShares
<1>3. l \in Ledger
  <2>1. [a \in Assets |-> NewReserve(0)] \in [Assets -> ReserveData]
    BY NewReserveType
  <2>2. [u \in Accounts |-> NoPositions] \in [Accounts -> Positions]
    BY <1>2
  <2>3. NoShares \in [Assets -> Int] /\ InitialTokens \in Nat
    BY <1>1, PoolAssumption
  <2> QED
    BY <2>1, <2>2, <2>3 DEF InitialLedger, Ledger
<1>4. \A a \in Assets : l.reserves[a] = NewReserve(0)
  BY DEF InitialLedger
<1>5. \A u \in Accounts : l.positions[u] = NoPositions
  BY DEF InitialLedger
<1> HIDE DEF l
<1>6. \A a \in Assets : l.reserves[a].d_rate > 0 /\ l.reserves[a].last_time <= now
  BY <1>4, NewReserveType
<1>7. ASSUME NEW a \in Assets
      PROVE  /\ l.reserves[a].b_supply = SumFunction([x \in Accounts |-> BShares(l.positions[x], a)])
             /\ l.reserves[a].d_supply = SumFunction([x \in Accounts |-> DShares(l.positions[x], a)])
  <2> DEFINE b == [x \in Accounts |-> BShares(l.positions[x], a)]
             d == [x \in Accounts |-> DShares(l.positions[x], a)]
  <2>1. \A x \in Accounts : b[x] = 0 /\ d[x] = 0
    BY <1>2, <1>5
  <2>2. b \in [Accounts -> Nat] /\ d \in [Accounts -> Nat]
    BY <1>2, <1>5
  <2> HIDE DEF b, d
  <2>3. SumFunction(b) = 0 /\ SumFunction(d) = 0
    BY <2>1, <2>2, AccountsFinite, SumFunctionZero
  <2> QED
    BY <1>4, <2>3, NewReserveType DEF b, d
<1>8. SharesMatch(l)
  BY <1>7, SharesMatchIs
<1>9. WellFormed(l)
  BY <1>3, <1>6, <1>8 DEF WellFormed
<1> QED
  BY <1>9 DEF l

LEMMA InitialConfigType ==
    /\ InitialConfig(6) \in Config
    /\ InitialConfig(6).bstop_rate < Scalar7
    /\ \A a \in Assets : /\ ValidReserveConfig(InitialConfig(6).reserves[a])
                         /\ InitialConfig(6).queued[a] = NoQueue
<1>1. /\ InitialPoolConfig.bstop_rate \in Nat /\ InitialPoolConfig.bstop_rate < Scalar7
      /\ InitialPoolConfig.max_positions \in Nat /\ InitialPoolConfig.min_collateral \in Nat
  BY PoolAssumption DEF ValidPoolConfig, PoolLimits
<1>2. Configs \in [Assets -> ReserveConfig] /\ \A a \in Assets : ValidReserveConfig(Configs[a])
  BY PoolAssumption
<1>3. 6 \in Status
  BY DEF Status
<1> QED
  BY <1>1, <1>2, <1>3 DEF InitialConfig, Config

LEMMA InitEstablishesInv == Init => PoolInv
<1> SUFFICES ASSUME Init
             PROVE  PoolInv
  OBVIOUS
<1>1. WellFormed(ledger) /\ ledger \in Ledger /\ call = NoCall
  BY InitialLedgerWellFormed DEF Init, WellFormed
<1>2. price \in [Assets -> Nat]
  <2>1. Prices \in [Assets -> SUBSET Nat]
    BY PoolAssumption
  <2>2. DOMAIN price = Assets /\ price = [a \in Assets |-> price[a]]
    BY DEF Init
  <2>3. \A a \in Assets : price[a] \in Nat
    BY <2>1 DEF Init
  <2> QED
    BY <2>2, <2>3
<1>3. GoodSettings
  <2>1. now \in Nat /\ config = InitialConfig(6)
    BY DEF Init
  <2> QED
    BY <1>2, <2>1, InitialConfigType DEF GoodSettings
<1>4. TypeOK
  BY <1>1, <1>2, <1>3 DEF Init, TypeOK, GoodSettings
<1> QED
  BY <1>1, <1>3, <1>4 DEF PoolInv

-----------------------------------------------------------------------------
(* Every step.                                                             *)

LEMMA BeginKeepsInv ==
    ASSUME PoolInv, Begin
    PROVE  PoolInv'
  BY BeginSubmitKeepsInv, BeginFlashLoanKeepsInv DEF Begin

LEMMA RequestStepKeepsInv ==
    ASSUME PoolInv, RequestStep
    PROVE  PoolInv'
  BY SupplyKeepsInv, WithdrawKeepsInv, SupplyCollateralKeepsInv,
     WithdrawCollateralKeepsInv, BorrowKeepsInv, RepayKeepsInv,
     FillUserLiquidationAuctionKeepsInv, FillBadDebtAuctionKeepsInv,
     FillInterestAuctionKeepsInv, DeleteLiquidationAuctionKeepsInv
     DEF RequestStep

LEMMA StutterKeepsInv ==
    ASSUME PoolInv, UNCHANGED poolVars
    PROVE  PoolInv'
<1>1. UNCHANGED <<now, price, config, q4w_pct, ledger, call, writes>>
  BY DEF poolVars, vars
<1>2. GoodSettings'
  BY <1>1, SameSettings DEF PoolInv
<1>3. now \in Nat /\ now' = now /\ WellFormed(ledger)
  BY <1>1 DEF PoolInv, TypeOK
<1>4. WellFormed(ledger)'
  BY <1>1, <1>3, LedgerLater
<1>5. call' # NoCall => WellFormed(call.ledger)'
  BY <1>1, <1>3, CallLater DEF PoolInv
<1>6. TypeOK'
  BY <1>1 DEF PoolInv, TypeOK
<1> QED
  BY <1>2, <1>4, <1>5, <1>6 DEF PoolInv

LEMMA NextKeepsInv == PoolInv /\ [Next]_poolVars => PoolInv'
<1> SUFFICES ASSUME PoolInv, [Next]_poolVars
             PROVE  PoolInv'
  OBVIOUS
<1>1. CASE Begin
  BY <1>1, BeginKeepsInv
<1>2. CASE RequestStep
  BY <1>2, RequestStepKeepsInv
<1>3. CASE Commit
  BY <1>3, CommitKeepsInv
<1>4. CASE Abort
  BY <1>4, AbortKeepsInv
<1>5. CASE AuctionStep
  BY <1>5, AuctionStepKeepsInv
<1>6. CASE MaintenanceStep
  BY <1>6, MaintenanceStepKeepsInv
<1>7. CASE EnvironmentStep
  BY <1>7, EnvironmentStepKeepsInv
<1>8. CASE UNCHANGED poolVars
  BY <1>8, StutterKeepsInv
<1> QED
  BY <1>1, <1>2, <1>3, <1>4, <1>5, <1>6, <1>7, <1>8 DEF Next

\* PoolInv is an invariant of the pool.
THEOREM PoolInvariant == Spec => []PoolInv
  BY InitEstablishesInv, NextKeepsInv, PTL DEF Spec

\* Every piece of state keeps its type: no share, total, rate or auctioned
\* amount ever becomes negative, whatever is requested in whatever order.
THEOREM TypeCorrect == Spec => []TypeOK
<1>1. PoolInv => TypeOK
  BY DEF PoolInv
<1> QED
  BY <1>1, PoolInvariant, PTL

\* The b and d tokens of a reserve are exactly those its accounts hold, between
\* and within invocations: through user.rs, the fills, bad debt and defaults.
THEOREM SharesAreAccounted == Spec => []SharesAccounted
<1>1. PoolInv => SharesAccounted
  BY DEF PoolInv, WellFormed, SharesAccounted, View
<1> QED
  BY <1>1, PoolInvariant, PTL
=============================================================================
