---------------------------- MODULE SolvencyProofs ----------------------------
(***************************************************************************)
(* The pool never owes more than it has because of what it did: all        *)
(* roundings of share conversions, interest, fills and defaults favour it, *)
(* and what the backstop earned stays in the pool.                         *)
(*                                                                         *)
(* An invocation moves tokens only when it is over, so nothing can be said *)
(* of the working copy alone: AssetSince relates it, and the transfers     *)
(* noted so far, to the committed ledger.                                  *)
(***************************************************************************)
EXTENDS PoolSafetyProofs

-----------------------------------------------------------------------------
(* Rounded quotients whose dividends differ by a multiple of the divisor.  *)

LEMMA FloorShift ==
    ASSUME NEW x \in Int, NEW z \in Int, NEW y \in Int, y > 0, NEW k \in Int, z <= x + y * k
    PROVE  FloorDiv(z, y) <= FloorDiv(x, y) + k
<1> DEFINE q == FloorDiv(x, y)
<1>1. q \in Int /\ x < y * q + y
  BY FloorDivBounds
<1>2. y * q \in Int /\ y * k \in Int /\ y * (q + k) \in Int
  BY <1>1, ProductInt
<1> HIDE DEF q
<1>3. y * (q + k) = y * q + y * k
  BY <1>1, SMT
<1>4. z < y * (q + k) + y
  BY <1>1, <1>2, <1>3
<1> QED
  BY <1>1, <1>4, FloorDivUpper DEF q

LEMMA CeilShift ==
    ASSUME NEW x \in Int, NEW z \in Int, NEW y \in Int, y > 0, NEW k \in Int, z <= x + y * k
    PROVE  CeilDiv(z, y) <= CeilDiv(x, y) + k
<1> DEFINE q == CeilDiv(x, y)
<1>1. q \in Int /\ x <= y * q
  BY CeilDivBounds
<1>2. y * q \in Int /\ y * k \in Int /\ y * (q + k) \in Int
  BY <1>1, ProductInt
<1> HIDE DEF q
<1>3. y * (q + k) = y * q + y * k
  BY <1>1, SMT
<1>4. z <= y * (q + k)
  BY <1>1, <1>2, <1>3
<1> QED
  BY <1>1, <1>4, CeilDivUpper DEF q

\* A quotient multiplied back.
LEMMA DivFloorBack ==
    ASSUME NEW x \in Nat, NEW y \in Nat, y > 0
    PROVE  DivFloor(x, y, Scalar12) * y <= Scalar12 * x
<1> DEFINE q == FloorDiv(x * Scalar12, y)
<1>1. x * Scalar12 \in Int /\ Scalar12 * x = x * Scalar12
  BY ProductInt, ScalarsPositive, SMT
<1>2. q \in Int /\ y * q <= x * Scalar12
  BY <1>1, FloorDivBounds
<1>3. q * y = y * q
  BY <1>2, SMT
<1> QED
  BY <1>1, <1>2, <1>3 DEF DivFloor

LEMMA DivCeilBack ==
    ASSUME NEW x \in Nat, NEW y \in Nat, y > 0
    PROVE  Scalar12 * x <= DivCeil(x, y, Scalar12) * y
<1> DEFINE q == CeilDiv(x * Scalar12, y)
<1>1. x * Scalar12 \in Int /\ Scalar12 * x = x * Scalar12
  BY ProductInt, ScalarsPositive, SMT
<1>2. q \in Int /\ x * Scalar12 <= y * q
  BY <1>1, CeilDivBounds
<1>3. q * y = y * q
  BY <1>2, SMT
<1> QED
  BY <1>1, <1>2, <1>3 DEF DivCeil

LEMMA MulBack ==
    ASSUME NEW x \in Nat, NEW y \in Nat
    PROVE  /\ Scalar12 * MulFloor(x, y, Scalar12) <= x * y
           /\ x * y <= Scalar12 * MulCeil(x, y, Scalar12)
<1>1. x * y \in Int
  BY ProductInt
<1> QED
  BY <1>1, FloorDivBounds, CeilDivBounds, ScalarsPositive DEF MulFloor, MulCeil

LEMMA MulCommutes ==
    ASSUME NEW x \in Int, NEW y \in Int, NEW d
    PROVE  MulFloor(x, y, d) = MulFloor(y, x, d) /\ MulCeil(x, y, d) = MulCeil(y, x, d)
<1>1. x * y = y * x
  BY SMT
<1> QED
  BY <1>1 DEF MulFloor, MulCeil

-----------------------------------------------------------------------------
(* What a reserve owes beyond what it is owed.                             *)

Net(r) == TotalSupply(r) + r.backstop_credit - TotalLiabilities(r)

\* Deposits are worth nothing any more.
Dead(r) == r.b_rate = 0 /\ r.last_time = now

\* The reserve r becomes s while k tokens come in: at the expense of nobody
\* but, in a dead reserve, its suppliers.
Favours(r, s, k) ==
    /\ Dead(r) => Dead(s)
    /\ Dead(s) \/ Net(s) <= Net(r) + k

LEMMA NetInt ==
    ASSUME NEW r \in ReserveData
    PROVE  Net(r) \in Int
<1>1. TotalSupply(r) \in Nat /\ TotalLiabilities(r) \in Nat /\ r.backstop_credit \in Int
  BY TotalsNat DEF ReserveData
<1> QED
  BY <1>1 DEF Net

LEMMA FavoursAgain ==
    ASSUME NEW r \in ReserveData, NEW s \in ReserveData, NEW t \in ReserveData,
           NEW j \in Int, NEW k \in Int, Favours(r, s, j), Favours(s, t, k)
    PROVE  Favours(r, t, j + k)
  BY NetInt DEF Favours

\* Deposits: shares worth at most what comes in are minted, or shares worth at
\* least what goes out are burnt.
LEMMA DepositsMove ==
    ASSUME NEW r \in ReserveData, NEW s \in ReserveData, SameValue(r, s),
           s.d_supply = r.d_supply, NEW k \in Int,
           (s.b_supply - r.b_supply) * r.b_rate <= Scalar12 * k
    PROVE  /\ TotalSupply(s) <= TotalSupply(r) + k
           /\ Favours(r, s, k)
<1> DEFINE n == s.b_supply
           m == r.b_supply
           rate == r.b_rate
<1>1. n \in Nat /\ m \in Nat /\ rate \in Nat /\ r.backstop_credit \in Int
  BY DEF ReserveData
<1>2. TotalSupply(s) = FloorDiv(n * rate, Scalar12) /\ TotalSupply(r) = FloorDiv(m * rate, Scalar12)
  BY DEF TotalSupply, ToAssetFromB, MulFloor, SameValue
<1>3. TotalLiabilities(s) = TotalLiabilities(r)
  BY DEF TotalLiabilities, ToAssetFromD, SameValue
<1>4. (n - m) * rate <= Scalar12 * k
  OBVIOUS
<1> HIDE DEF n, m, rate
<1>5. n * rate \in Int /\ m * rate \in Int /\ Scalar12 * k \in Int
  BY <1>1, ProductInt, ScalarsPositive
<1>6. (n - m) * rate = n * rate - m * rate
  BY <1>1, SMT
<1>7. n * rate <= m * rate + Scalar12 * k
  BY <1>4, <1>5, <1>6
<1>8. TotalSupply(s) <= TotalSupply(r) + k
  BY <1>2, <1>5, <1>7, FloorShift, ScalarsPositive
<1>9. TotalSupply(s) \in Nat /\ TotalSupply(r) \in Nat /\ TotalLiabilities(r) \in Nat
  BY TotalsNat
<1>10. Net(s) <= Net(r) + k
  BY <1>1, <1>3, <1>8, <1>9 DEF Net, SameValue
<1> QED
  BY <1>8, <1>10 DEF Favours, Dead, SameValue

\* Debts: shares worth at least what goes out are minted, or shares worth at
\* most what comes in are burnt.
LEMMA DebtsMove ==
    ASSUME NEW r \in ReserveData, NEW s \in ReserveData, SameValue(r, s),
           s.b_supply = r.b_supply, NEW k \in Int,
           (r.d_supply - s.d_supply) * r.d_rate <= Scalar12 * k
    PROVE  /\ TotalLiabilities(r) <= TotalLiabilities(s) + k
           /\ Favours(r, s, k)
<1> DEFINE n == s.d_supply
           m == r.d_supply
           rate == r.d_rate
<1>1. n \in Nat /\ m \in Nat /\ rate \in Nat /\ r.backstop_credit \in Int
  BY DEF ReserveData
<1>2. /\ TotalLiabilities(s) = CeilDiv(n * rate, Scalar12)
      /\ TotalLiabilities(r) = CeilDiv(m * rate, Scalar12)
  BY DEF TotalLiabilities, ToAssetFromD, MulCeil, SameValue
<1>3. TotalSupply(s) = TotalSupply(r)
  BY DEF TotalSupply, ToAssetFromB, SameValue
<1>4. (m - n) * rate <= Scalar12 * k
  OBVIOUS
<1> HIDE DEF n, m, rate
<1>5. n * rate \in Int /\ m * rate \in Int /\ Scalar12 * k \in Int
  BY <1>1, ProductInt, ScalarsPositive
<1>6. (m - n) * rate = m * rate - n * rate
  BY <1>1, SMT
<1>7. m * rate <= n * rate + Scalar12 * k
  BY <1>4, <1>5, <1>6
<1>8. TotalLiabilities(r) <= TotalLiabilities(s) + k
  BY <1>2, <1>5, <1>7, CeilShift, ScalarsPositive
<1>9. TotalLiabilities(s) \in Nat /\ TotalLiabilities(r) \in Nat /\ TotalSupply(r) \in Nat
  BY TotalsNat
<1>10. Net(s) <= Net(r) + k
  BY <1>1, <1>3, <1>8, <1>9 DEF Net, SameValue
<1> QED
  BY <1>8, <1>10 DEF Favours, Dead, SameValue

-----------------------------------------------------------------------------
(* Reserve::load: interest is owed to depositors and the backstop only as  *)
(* far as borrowers owe it.                                                *)

LEMMA AccrueNet ==
    ASSUME NEW r \in ReserveData, r.b_supply > 0,
           NEW accrued \in Int, accrued > 0, NEW credit \in Nat, credit <= accrued - 1
    PROVE  Net(Accrue(r, accrued, credit)) <= Net(r) + accrued
<1> DEFINE total == TotalSupply(r) + accrued - credit
           rate == DivFloor(total, r.b_supply, Scalar12)
           earned == r.backstop_credit + credit
           l == [r EXCEPT !.backstop_credit = earned, !.b_rate = rate]
<1>1. l = Accrue(r, accrued, credit)
  BY DEF Accrue
<1>2. TotalSupply(r) \in Nat /\ TotalLiabilities(r) \in Nat
      /\ r.b_supply \in Nat /\ r.backstop_credit \in Int /\ r.d_supply \in Nat /\ r.d_rate \in Nat
  BY TotalsNat DEF ReserveData
<1>3. total \in Nat /\ earned \in Int
  BY <1>2
<1>4. r.b_supply \in Int
  BY <1>2
<1> HIDE DEF total
<1>5. rate \in Nat
  BY <1>2, <1>3, <1>4, DivNat, ScalarsPositive
<1>6. rate * r.b_supply <= Scalar12 * total
  BY <1>2, <1>3, DivFloorBack
<1> HIDE DEF rate, earned
<1>7. /\ l.backstop_credit = earned /\ l.b_rate = rate
      /\ l.b_supply = r.b_supply /\ l.d_supply = r.d_supply /\ l.d_rate = r.d_rate
  BY DEF ReserveData
<1> HIDE DEF l
<1>8. TotalLiabilities(l) = TotalLiabilities(r)
  BY <1>7 DEF TotalLiabilities, ToAssetFromD
<1>9. TotalSupply(l) \in Int /\ TotalSupply(l) <= total
  <2>1. r.b_supply * rate \in Int /\ r.b_supply * rate = rate * r.b_supply
    BY <1>2, <1>5, ProductInt, SMT
  <2>2. r.b_supply * rate < Scalar12 * total + Scalar12
    <3>1. Scalar12 * total \in Int
      BY <1>3, ProductInt, ScalarsPositive
    <3> QED
      BY <1>6, <2>1, <3>1, ScalarsPositive
  <2>3. FloorDiv(r.b_supply * rate, Scalar12) <= total
    BY <1>3, <2>1, <2>2, FloorDivUpper, ScalarsPositive
  <2>4. FloorDiv(r.b_supply * rate, Scalar12) \in Int
    BY <2>1, FloorDivBounds, ScalarsPositive
  <2> QED
    BY <1>7, <2>3, <2>4 DEF TotalSupply, ToAssetFromB, MulFloor
<1>10. TotalSupply(l) + l.backstop_credit <= TotalSupply(r) + r.backstop_credit + accrued
  BY <1>2, <1>3, <1>7, <1>9 DEF total, earned
<1> QED
  BY <1>1, <1>2, <1>3, <1>7, <1>8, <1>9, <1>10 DEF Net

LEMMA AccrueGrowthNet ==
    ASSUME NEW r \in ReserveData, NEW grown \in ReserveData, r.b_supply > 0,
           OnlyDebtRateMoved(r, grown), NEW rate \in Nat, rate < Scalar7
    PROVE  Net(AccrueGrowth(r, grown, rate)) <= Net(r)
<1> DEFINE accrued == TotalLiabilities(grown) - TotalLiabilities(r)
           credit == BackstopShare(accrued, rate)
<1>1. /\ grown.b_supply = r.b_supply /\ grown.d_supply = r.d_supply
      /\ grown.b_rate = r.b_rate /\ grown.backstop_credit = r.backstop_credit
      /\ grown.d_rate >= r.d_rate
      /\ r.d_rate \in Nat /\ grown.d_rate \in Nat /\ r.d_supply \in Nat
      /\ r.backstop_credit \in Int
  BY DEF ReserveData, OnlyDebtRateMoved
<1>2. TotalLiabilities(r) \in Nat /\ TotalLiabilities(grown) \in Nat /\ TotalSupply(r) \in Nat
  BY TotalsNat
<1>3. TotalSupply(grown) = TotalSupply(r)
  BY <1>1 DEF TotalSupply, ToAssetFromB
<1>4. TotalLiabilities(r) <= TotalLiabilities(grown)
  BY <1>1, MulMonotone, ScalarsPositive DEF TotalLiabilities, ToAssetFromD
<1>5. accrued \in Nat /\ Net(grown) + accrued = Net(r)
  BY <1>1, <1>2, <1>3, <1>4 DEF Net
<1>6. AccrueGrowth(r, grown, rate) = Accrue(grown, accrued, credit)
  BY DEF AccrueGrowth
<1>7. Net(r) \in Int /\ Net(grown) \in Int
  BY NetInt
<1> HIDE DEF accrued
<1>8. CASE accrued > 0
  <2>1. credit \in Nat /\ credit <= accrued - 1
    BY <1>5, <1>8, BackstopShareLess
  <2> HIDE DEF credit
  <2>2. Net(Accrue(grown, accrued, credit)) <= Net(grown) + accrued
    BY <1>1, <1>5, <1>8, <2>1, AccrueNet
  <2> QED
    BY <1>5, <1>6, <2>2
<1>9. CASE accrued = 0
  <2>1. AccrueGrowth(r, grown, rate) = grown
    BY <1>6, <1>9 DEF Accrue
  <2> QED
    BY <1>5, <1>7, <1>9, <2>1
<1> QED
  BY <1>5, <1>8, <1>9

LEMMA SameNet ==
    ASSUME NEW r \in ReserveData, NEW time \in Nat
    PROVE  Net([r EXCEPT !.last_time = time]) = Net(r)
<1> DEFINE s == [r EXCEPT !.last_time = time]
<1>1. /\ s.b_supply = r.b_supply /\ s.d_supply = r.d_supply
      /\ s.b_rate = r.b_rate /\ s.d_rate = r.d_rate
      /\ s.backstop_credit = r.backstop_credit
  BY DEF ReserveData
<1> HIDE DEF s
<1>2. Net(s) = Net(r)
  BY <1>1 DEF Net, TotalSupply, TotalLiabilities, ToAssetFromB, ToAssetFromD
<1> QED
  BY <1>2 DEF s

LEMMA LoadNet ==
    ASSUME NEW r \in ReserveData, NEW cfg, ValidReserveConfig(cfg),
           NEW rate \in Nat, rate < Scalar7,
           NEW time \in Nat, r.last_time <= time
    PROVE  Net(Load(r, cfg, rate, time)) <= Net(r)
<1> DEFINE util == Utilization(r)
           delta == time - r.last_time
           grown == GrowDebt(r, cfg, util, delta)
           accrued == AccrueGrowth(r, grown, rate)
<1>0. Net(r) \in Int
  BY NetInt
<1>1. CASE time = r.last_time
  BY <1>0, <1>1 DEF Load
<1>2. CASE time # r.last_time /\ (r.b_supply = 0 \/ util = 0)
  <2>1. Load(r, cfg, rate, time) = [r EXCEPT !.last_time = time]
    BY <1>2 DEF Load
  <2> QED
    BY <1>0, <2>1, SameNet
<1>3. CASE time # r.last_time /\ ~(r.b_supply = 0 \/ util = 0)
  <2>1. /\ util \in Nat /\ util # 0 /\ delta \in Nat
        /\ r.b_supply \in Nat /\ r.b_supply > 0
    BY <1>3, UtilizationNat DEF ReserveData
  <2>2. OnlyDebtRateMoved(r, grown)
    <3> HIDE DEF util, delta
    <3> QED
      BY <2>1, GrowDebtType
  <2>3. Load(r, cfg, rate, time) = [accrued EXCEPT !.last_time = time]
    BY <1>3 DEF Load
  <2> HIDE DEF grown
  <2>4. Refreshes(r, accrued, r.last_time) /\ Net(accrued) <= Net(r)
    BY <2>1, <2>2, AccrueGrowthRefreshes, AccrueGrowthNet DEF OnlyDebtRateMoved
  <2> HIDE DEF accrued
  <2>5. accrued \in ReserveData
    BY <2>4 DEF Refreshes
  <2> QED
    BY <2>3, <2>4, <2>5, SameNet
<1> QED
  BY <1>1, <1>2, <1>3

LEMMA LoadedFavours ==
    ASSUME GoodSettings, NEW w, WellFormed(w), NEW a \in Assets
    PROVE  Favours(w.reserves[a], LoadedReserve(w, a), 0)
<1>1. w.reserves[a] \in ReserveData /\ w.reserves[a].last_time <= now
  BY LedgerFields DEF WellFormed
<1>2. now \in Nat /\ config.bstop_rate \in Nat /\ config.bstop_rate < Scalar7
  BY DEF GoodSettings, Config
<1>3. ValidReserveConfig(config.reserves[a])
  BY DEF GoodSettings
<1>4. Net(LoadedReserve(w, a)) <= Net(w.reserves[a])
  BY <1>1, <1>2, <1>3, LoadNet DEF LoadedReserve
<1>5. Dead(w.reserves[a]) => Dead(LoadedReserve(w, a))
  BY UpToDateIsLoaded DEF Dead
<1>6. LoadedReserve(w, a) \in ReserveData
  BY LoadedIsUpToDate
<1> QED
  BY <1>1, <1>4, <1>5, <1>6, NetInt DEF Favours

-----------------------------------------------------------------------------
(* A default: the suppliers lose at least what is forgiven, as far as they *)
(* have it.                                                                *)

LEMMA ForgiveFavours ==
    ASSUME NEW r \in ReserveData, r.d_rate > 0, r.b_supply # 0, r.last_time = now,
           NEW d \in Nat, d > 0, d <= r.d_supply
    PROVE  /\ Favours(r, Forgive(r, d), 0)
           /\ Forgive(r, d).b_rate < r.b_rate \/ (r.b_rate = 0 /\ Forgive(r, d).b_rate = 0)
<1> DEFINE left == r.d_supply - d
           t == [r EXCEPT !.d_supply = left]
           value == MulCeil(d, r.d_rate, Scalar12)
           loss == DivCeil(value, r.b_supply, Scalar12)
           rate == IF r.b_rate < loss THEN 0 ELSE r.b_rate - loss
           s == Forgive(r, d)
<1>1. /\ r.d_rate \in Nat /\ r.b_rate \in Nat /\ r.d_supply \in Nat /\ left \in Nat
      /\ r.b_supply \in Nat /\ r.b_supply > 0 /\ r.b_supply \in Int /\ r.backstop_credit \in Int
  BY DEF ReserveData
<1>2. /\ s \in ReserveData /\ s.d_rate = r.d_rate /\ s.last_time = r.last_time
      /\ s.b_supply = r.b_supply /\ s.d_supply = left /\ s.backstop_credit = r.backstop_credit
  BY ForgiveType, ForgiveKeepsCredit
<1>3. s.b_rate = rate
  <2>1. /\ t.d_rate = r.d_rate /\ t.b_supply = r.b_supply /\ t.b_rate = r.b_rate
    BY DEF ReserveData
  <2>2. s = WriteOff(t, d)
    BY DEF Forgive
  <2>3. t \in ReserveData
    BY <1>1 DEF ReserveData
  <2> HIDE DEF t, s
  <2>4. DivCeil(ToAssetFromD(t, d), t.b_supply, Scalar12) = loss
    BY <2>1 DEF ToAssetFromD
  <2>5. s = [t EXCEPT !.b_rate = IF @ < loss THEN 0 ELSE @ - loss]
    BY <2>2, <2>4 DEF WriteOff
  <2> HIDE DEF loss
  <2> QED
    BY <2>1, <2>3, <2>5 DEF ReserveData
<1>4. value \in Nat /\ value > 0
  BY <1>1, MulNat, PositiveCeil, ScalarsPositive
<1> HIDE DEF value
<1>5. loss \in Nat /\ loss > 0 /\ Scalar12 * value <= loss * r.b_supply
  BY <1>1, <1>4, DivNat, DivCeilBack, PositiveCeil, ScalarsPositive DEF DivCeil, MulCeil
<1> HIDE DEF loss, s
<1>6. s.b_rate < r.b_rate \/ (r.b_rate = 0 /\ s.b_rate = 0)
  BY <1>1, <1>3, <1>5
<1>7. Dead(s) \/ Net(s) <= Net(r)
  <2>1. CASE r.b_rate < loss
    BY <1>2, <1>3, <2>1 DEF Dead
  <2>2. CASE ~(r.b_rate < loss)
    <3> DEFINE k == r.b_rate
               m == r.b_supply
    <3>1. s.b_rate = k - loss /\ k - loss \in Nat /\ k \in Nat /\ m \in Nat
      BY <1>1, <1>3, <1>5, <2>2
    <3>2. TotalSupply(s) = FloorDiv(m * (k - loss), Scalar12) /\ TotalSupply(r) = FloorDiv(m * k, Scalar12)
      BY <1>2, <3>1 DEF TotalSupply, ToAssetFromB, MulFloor
    <3>3. Scalar12 * value <= loss * m
      BY <1>5
    <3> HIDE DEF k, m
    <3>4. m * (k - loss) = m * k - loss * m
      BY <1>5, <3>1, SMT
    <3>5. Scalar12 * (-value) = -(Scalar12 * value)
      BY <1>4, ScalarsPositive, SMT
    <3>6. /\ m * (k - loss) \in Int /\ m * k \in Int /\ loss * m \in Int
          /\ Scalar12 * value \in Int /\ Scalar12 * (-value) \in Int /\ -value \in Int
      BY <1>4, <1>5, <3>1, ProductInt, ScalarsPositive
    <3>7. m * (k - loss) <= m * k + Scalar12 * (-value)
      BY <3>3, <3>4, <3>5, <3>6
    <3>8. TotalSupply(s) <= TotalSupply(r) + (-value)
      BY <3>2, <3>6, <3>7, FloorShift, ScalarsPositive
    <3>9. TotalLiabilities(r) <= TotalLiabilities(s) + value
      <4> DEFINE dr == r.d_rate
                 n == r.d_supply
      <4>1. dr \in Nat /\ n \in Nat /\ left = n - d
        BY <1>1
      <4>2. /\ TotalLiabilities(s) = CeilDiv(left * dr, Scalar12)
            /\ TotalLiabilities(r) = CeilDiv(n * dr, Scalar12)
        BY <1>2 DEF TotalLiabilities, ToAssetFromD, MulCeil
      <4>3. d * dr <= Scalar12 * value
        BY <1>1, MulBack DEF value
      <4> HIDE DEF dr, n
      <4>4. n * dr = left * dr + d * dr
        BY <4>1, SMT
      <4>5. left * dr \in Int /\ d * dr \in Int /\ n * dr \in Int
        BY <1>1, <4>1, ProductInt
      <4>6. n * dr <= left * dr + Scalar12 * value
        BY <3>6, <4>3, <4>4, <4>5
      <4> QED
        BY <1>4, <4>2, <4>5, <4>6, CeilShift, ScalarsPositive
    <3>10. /\ TotalSupply(s) \in Nat /\ TotalSupply(r) \in Nat
           /\ TotalLiabilities(s) \in Nat /\ TotalLiabilities(r) \in Nat
      BY <1>2, TotalsNat
    <3> QED
      BY <1>1, <1>2, <1>4, <3>8, <3>9, <3>10 DEF Net
  <2> QED
    BY <2>1, <2>2
<1>8. Dead(r) => Dead(s)
  BY <1>1, <1>2, <1>6 DEF Dead, ReserveData
<1>9. Net(s) \in Int /\ Net(r) \in Int
  BY <1>2, NetInt
<1> QED
  BY <1>6, <1>7, <1>8, <1>9 DEF Favours, s

-----------------------------------------------------------------------------
(* A reserve and the pool's tokens of it, over an invocation.              *)

\* Deposits are whole and lent out in part.
Whole(r) == r.last_time = now /\ r.b_rate > 0 /\ TotalLiabilities(r) <= TotalSupply(r)

\* The loaded reserve r becomes s; d tokens arrive at once, j are noted for the
\* transfers.  Only from a reserve left whole are more noted out than in.
Accepts(r, s, d, j) ==
    /\ s \in ReserveData
    /\ s.last_time = now
    /\ s.b_rate <= r.b_rate
    /\ s.backstop_credit = r.backstop_credit + d
    /\ Favours(r, s, j + d)
    /\ \/ Whole(s)
       \/ /\ j >= 0
          /\ s.b_rate < r.b_rate \/ (s.b_rate = r.b_rate /\ (Whole(r) => Whole(s)))

\* What an invocation that noted k tokens in (net of those noted out) has made
\* of the asset a since the ledger l.
AssetSince(l, w, a, k) ==
    /\ Favours(l.reserves[a], w.reserves[a], k + (w.balance[a] - l.balance[a]))
    /\ \/ /\ w.reserves[a] = l.reserves[a]
          /\ w.balance[a] = l.balance[a]
          /\ k = 0
       \/ LET r == w.reserves[a]
              loaded == LoadedReserve(l, a)
          IN /\ r.last_time = now
             /\ r.b_rate <= loaded.b_rate
             /\ w.balance[a] - r.backstop_credit = l.balance[a] - loaded.backstop_credit
             /\ k >= 0 \/ r.b_rate < loaded.b_rate \/ Whole(r)

AssetStep(w, v, a, j) ==
    \/ /\ v.reserves[a] = w.reserves[a]
       /\ v.balance[a] = w.balance[a]
       /\ j = 0
    \/ Accepts(LoadedReserve(w, a), v.reserves[a], v.balance[a] - w.balance[a], j)

LEMMA AssetFields ==
    ASSUME NEW w \in Ledger, NEW a \in Assets
    PROVE  /\ w.reserves[a] \in ReserveData /\ w.balance[a] \in Int
           /\ w.reserves[a].b_rate \in Nat /\ w.reserves[a].d_rate \in Nat
           /\ w.reserves[a].b_supply \in Nat /\ w.reserves[a].d_supply \in Nat
           /\ w.reserves[a].backstop_credit \in Int /\ w.reserves[a].last_time \in Nat
  BY LedgerFields DEF ReserveData

LEMMA NothingMoved ==
    ASSUME NEW w, WellFormed(w), NEW a \in Assets
    PROVE  AssetSince(w, w, a, 0)
<1>1. w.reserves[a] \in ReserveData /\ w.balance[a] \in Int
  BY AssetFields DEF WellFormed
<1>2. Net(w.reserves[a]) \in Int
  BY <1>1, NetInt
<1> QED
  BY <1>1, <1>2 DEF AssetSince, Favours

LEMMA AssetStepSince ==
    ASSUME GoodSettings, NEW l, WellFormed(l), NEW w, WellFormed(w), NEW v \in Ledger,
           NEW a \in Assets, NEW k \in Int, AssetSince(l, w, a, k),
           NEW j \in Int, AssetStep(w, v, a, j)
    PROVE  AssetSince(l, v, a, k + j)
<1> DEFINE r == LoadedReserve(w, a)
           loaded == LoadedReserve(l, a)
           s == v.reserves[a]
           d == v.balance[a] - w.balance[a]
<1>1. /\ l.reserves[a] \in ReserveData /\ w.reserves[a] \in ReserveData /\ s \in ReserveData
      /\ l.balance[a] \in Int /\ w.balance[a] \in Int /\ v.balance[a] \in Int
  BY AssetFields DEF WellFormed
<1>2. CASE s = w.reserves[a] /\ v.balance[a] = w.balance[a] /\ j = 0
  <2>1. k + j = k
    BY <1>2
  <2> QED
    BY <1>2, <2>1 DEF AssetSince
<1>3. CASE Accepts(r, s, d, j)
  <2>1. /\ r \in ReserveData /\ loaded \in ReserveData
        /\ r.last_time = now /\ loaded.last_time = now
    BY LoadedIsUpToDate
  <2>2. /\ r.b_rate \in Nat /\ r.backstop_credit \in Int
        /\ loaded.b_rate \in Nat /\ loaded.backstop_credit \in Int
        /\ s.b_rate \in Nat /\ s.backstop_credit \in Int
    BY <1>1, <2>1 DEF ReserveData
  <2>3. /\ r.b_rate <= loaded.b_rate
        /\ w.balance[a] - r.backstop_credit = l.balance[a] - loaded.backstop_credit
        /\ k >= 0 \/ r.b_rate < loaded.b_rate \/ Whole(r)
    <3>1. CASE w.reserves[a] = l.reserves[a] /\ w.balance[a] = l.balance[a] /\ k = 0
      <4>1. r = loaded
        BY <3>1 DEF LoadedReserve
      <4> HIDE DEF r, loaded
      <4> QED
        BY <2>2, <3>1, <4>1
    <3>2. CASE /\ w.reserves[a].last_time = now
               /\ w.reserves[a].b_rate <= loaded.b_rate
               /\ w.balance[a] - w.reserves[a].backstop_credit
                    = l.balance[a] - loaded.backstop_credit
               /\ k >= 0 \/ w.reserves[a].b_rate < loaded.b_rate \/ Whole(w.reserves[a])
      <4>1. r = w.reserves[a]
        BY <3>2, UpToDateIsLoaded
      <4> HIDE DEF r, loaded
      <4> QED
        BY <3>2, <4>1
    <3> QED
      BY <3>1, <3>2 DEF AssetSince
  <2>4. Favours(w.reserves[a], r, 0)
    BY LoadedFavours
  <2> HIDE DEF r, loaded
  <2>5. d \in Int /\ j + d \in Int /\ k + (w.balance[a] - l.balance[a]) \in Int
    BY <1>1
  <2>6. Favours(w.reserves[a], s, 0 + (j + d))
    BY <1>1, <1>3, <2>1, <2>4, <2>5, FavoursAgain DEF Accepts
  <2>7. Favours(l.reserves[a], s, (k + (w.balance[a] - l.balance[a])) + (0 + (j + d)))
    BY <1>1, <2>5, <2>6, FavoursAgain DEF AssetSince
  <2>8. (k + (w.balance[a] - l.balance[a])) + (0 + (j + d)) = (k + j) + (v.balance[a] - l.balance[a])
    BY <1>1
  <2>9. /\ s.last_time = now /\ s.b_rate <= r.b_rate
        /\ s.backstop_credit = r.backstop_credit + d
        /\ Whole(s) \/ (j >= 0 /\ (s.b_rate < r.b_rate
                                   \/ (s.b_rate = r.b_rate /\ (Whole(r) => Whole(s)))))
    BY <1>3 DEF Accepts
  <2>10. v.balance[a] - s.backstop_credit = l.balance[a] - loaded.backstop_credit
    BY <1>1, <2>2, <2>3, <2>9
  <2>11. k + j >= 0 \/ s.b_rate < loaded.b_rate \/ Whole(s)
    BY <2>2, <2>3, <2>9
  <2>12. s.b_rate <= loaded.b_rate
    BY <2>2, <2>3, <2>9
  <2> QED
    BY <2>7, <2>8, <2>9, <2>10, <2>11, <2>12 DEF AssetSince, loaded
<1> QED
  BY <1>2, <1>3 DEF AssetStep

-----------------------------------------------------------------------------
(* What operations make of an asset.                                       *)

LEMMA SameShareValue ==
    ASSUME NEW r \in ReserveData, NEW s \in ReserveData, SameValue(r, s),
           s.b_supply = r.b_supply, s.d_supply = r.d_supply
    PROVE  /\ Favours(r, s, 0)
           /\ Whole(r) => Whole(s)
<1>1. TotalSupply(s) = TotalSupply(r) /\ TotalLiabilities(s) = TotalLiabilities(r)
  BY DEF TotalSupply, TotalLiabilities, ToAssetFromB, ToAssetFromD, SameValue
<1>2. Net(s) = Net(r) /\ Net(r) \in Int
  BY <1>1, NetInt DEF Net, SameValue
<1> QED
  BY <1>1, <1>2 DEF Favours, Dead, Whole, SameValue

\* Shares that change hands.
LEMMA SameTotalsStep ==
    ASSUME GoodSettings, NEW w, WellFormed(w), NEW v, SameTotals(w, v),
           NEW a \in Assets
    PROVE  AssetStep(w, v, a, 0)
<1> DEFINE r == LoadedReserve(w, a)
           s == v.reserves[a]
<1>1. CASE s = w.reserves[a]
  BY <1>1 DEF SameTotals, AssetStep
<1>2. CASE SameValue(r, s)
  <2>1. /\ r \in ReserveData /\ r.last_time = now
        /\ r.b_supply = w.reserves[a].b_supply /\ r.d_supply = w.reserves[a].d_supply
    BY LoadedIsUpToDate
  <2>2. s \in ReserveData /\ v.balance[a] \in Int /\ v.balance[a] = w.balance[a]
    BY AssetFields DEF SameTotals
  <2>3. s.b_supply = r.b_supply /\ s.d_supply = r.d_supply
    BY <2>1 DEF SameTotals
  <2> HIDE DEF r
  <2>4. Favours(r, s, 0) /\ (Whole(r) => Whole(s))
    BY <1>2, <2>1, <2>2, <2>3, SameShareValue
  <2>5. /\ s.b_rate = r.b_rate /\ s.backstop_credit = r.backstop_credit
        /\ s.last_time = r.last_time /\ r.b_rate \in Nat /\ r.backstop_credit \in Int
    BY <1>2, <2>1 DEF SameValue, ReserveData
  <2>6. Accepts(r, s, 0, 0)
    BY <2>1, <2>2, <2>4, <2>5 DEF Accepts
  <2>7. v.balance[a] - w.balance[a] = 0
    BY <2>2
  <2> QED
    BY <2>6, <2>7 DEF AssetStep, r
<1> QED
  BY <1>1, <1>2 DEF SameTotals, Accrued

\* A step of the asset a by j, and of no other asset.
StepOn(w, v, a, j) == \A c \in Assets : AssetStep(w, v, c, IF c = a THEN j ELSE 0)

\* A request on the asset a: the reserve is loaded, then only its totals move.
LEMMA RequestSteps ==
    ASSUME GoodSettings, NEW w, WellFormed(w), NEW v, NEW a \in Assets, NEW s, NEW j \in Int,
           v.reserves = [LoadReserves(w, {a}).reserves EXCEPT ![a] = s],
           v.balance = w.balance,
           Accepts(LoadedReserve(w, a), s, 0, j)
    PROVE  StepOn(w, v, a, j)
<1> SUFFICES ASSUME NEW c \in Assets
             PROVE  AssetStep(w, v, c, IF c = a THEN j ELSE 0)
  BY DEF StepOn
<1>1. w \in Ledger /\ w.balance[c] \in Int
  BY AssetFields DEF WellFormed
<1>2. LoadReserves(w, {a}).reserves =
        [x \in Assets |-> IF x \in {a} THEN LoadedReserve(w, x) ELSE w.reserves[x]]
  BY <1>1, LoadReservesFields
<1>3. CASE c = a
  <2>1. v.reserves[c] = s
    BY <1>2, <1>3
  <2>2. v.balance[c] - w.balance[c] = 0
    BY <1>1
  <2> QED
    BY <1>3, <2>1, <2>2 DEF AssetStep
<1>4. CASE c # a
  <2>1. v.reserves[c] = w.reserves[c]
    BY <1>2, <1>4
  <2> QED
    BY <1>4, <2>1 DEF AssetStep
<1> QED
  BY <1>3, <1>4

\* require_utilization_below_100 leaves a reserve whole.
LEMMA BelowFullIsWhole ==
    ASSUME NEW r \in ReserveData, BelowFull(r), r.last_time = now,
           r.b_rate > 0 \/ TotalLiabilities(r) > 0
    PROVE  Whole(r)
<1>1. TotalLiabilities(r) \in Nat /\ TotalSupply(r) \in Nat /\ r.b_rate \in Nat /\ r.b_supply \in Nat
  BY TotalsNat DEF ReserveData
<1>2. TotalLiabilities(r) = 0 \/ TotalLiabilities(r) < TotalSupply(r)
  BY <1>1, ScalarsPositive DEF BelowFull, Utilization, UtilizationOf
<1>3. ASSUME r.b_rate = 0
      PROVE  TotalSupply(r) = 0
  <2>1. r.b_supply * 0 = 0
    BY <1>1, SMT
  <2>2. FloorDiv(0, Scalar12) = 0
    BY ScalarsPositive, SMT DEF FloorDiv
  <2> QED
    BY <1>3, <2>1, <2>2 DEF TotalSupply, ToAssetFromB, MulFloor
<1> QED
  BY <1>1, <1>2, <1>3 DEF Whole

-----------------------------------------------------------------------------
(* The conversions of a request.                                           *)

LEMMA SupplyAccepts ==
    ASSUME NEW r \in ReserveData, r.last_time = now, r.b_rate > 0, NEW x \in Nat,
           NEW n, n = ToBTokenDown(r, x), NEW s, s = [r EXCEPT !.b_supply = @ + n]
    PROVE  n \in Nat /\ Accepts(r, s, 0, x)
<1> DEFINE total == r.b_supply + n
<1>1. /\ r.b_supply \in Nat /\ r.b_rate \in Nat /\ r.d_supply \in Nat
      /\ r.backstop_credit \in Int /\ r.b_rate \in Int
  BY DEF ReserveData
<1>2. n \in Nat
  BY <1>1, DivNat, ScalarsPositive DEF ToBTokenDown
<1>3. n * r.b_rate <= Scalar12 * x
  BY <1>1, DivFloorBack DEF ToBTokenDown
<1>4. total \in Nat /\ total - r.b_supply = n
  BY <1>1, <1>2
<1>5. s = [r EXCEPT !.b_supply = total]
  OBVIOUS
<1> HIDE DEF total
<1>6. /\ s \in ReserveData /\ SameValue(r, s) /\ s.b_supply = total /\ s.d_supply = r.d_supply
  BY <1>4, <1>5 DEF ReserveData, SameValue
<1>7. Favours(r, s, x)
  <2>1. (s.b_supply - r.b_supply) * r.b_rate <= Scalar12 * x
    BY <1>3, <1>4, <1>6
  <2>2. x \in Int
    OBVIOUS
  <2> QED
    BY <1>6, <2>1, <2>2, DepositsMove
<1>8. TotalSupply(r) <= TotalSupply(s)
  <2>1. TotalSupply(r) = MulFloor(r.b_rate, r.b_supply, Scalar12)
    BY <1>1, MulCommutes DEF TotalSupply, ToAssetFromB
  <2>2. TotalSupply(s) = MulFloor(r.b_rate, total, Scalar12)
    BY <1>1, <1>4, <1>6, MulCommutes DEF TotalSupply, ToAssetFromB, SameValue
  <2>3. r.b_supply <= total
    BY <1>1, <1>2, <1>4
  <2> QED
    BY <1>1, <1>4, <2>1, <2>2, <2>3, MulMonotone, ScalarsPositive
<1>9. TotalLiabilities(s) = TotalLiabilities(r)
  BY <1>6 DEF TotalLiabilities, ToAssetFromD, SameValue
<1>10. TotalSupply(r) \in Nat /\ TotalSupply(s) \in Nat /\ TotalLiabilities(r) \in Nat
  BY <1>6, TotalsNat
<1>11. Whole(r) => Whole(s)
  BY <1>6, <1>8, <1>9, <1>10 DEF Whole, SameValue
<1> QED
  BY <1>1, <1>2, <1>6, <1>7, <1>11 DEF Accepts, SameValue

LEMMA WithdrawAccepts ==
    ASSUME NEW r \in ReserveData, r.last_time = now, r.b_rate > 0,
           NEW x \in Nat, NEW held \in Nat, held <= r.b_supply,
           NEW burn, burn = BurnFor(r, x, held),
           NEW s, s = [r EXCEPT !.b_supply = @ - burn.shares], BelowFull(s)
    PROVE  /\ burn.tokens \in Nat /\ burn.shares \in Nat
           /\ Accepts(r, s, 0, -burn.tokens)
<1> DEFINE n == burn.shares
           out == burn.tokens
           total == r.b_supply - n
           up == ToBTokenUp(r, x)
           most == ToAssetFromB(r, held)
<1>1. /\ r.b_supply \in Nat /\ r.b_rate \in Nat /\ r.d_supply \in Nat
      /\ r.backstop_credit \in Int /\ r.b_rate \in Int
  BY DEF ReserveData
<1>2. up \in Nat /\ Scalar12 * x <= up * r.b_rate
  BY <1>1, DivNat, DivCeilBack, ScalarsPositive DEF ToBTokenUp
<1>3. most \in Nat /\ Scalar12 * most <= held * r.b_rate
  BY <1>1, MulNat, MulBack, ScalarsPositive DEF ToAssetFromB
<1>4. burn = IF up > held THEN [shares |-> held, tokens |-> most] ELSE [shares |-> up, tokens |-> x]
  BY DEF BurnFor
<1> HIDE DEF up, most
<1>5. n \in Nat /\ n <= held /\ out \in Nat /\ Scalar12 * out <= n * r.b_rate
  BY <1>2, <1>3, <1>4
<1>6. total \in Nat /\ total - r.b_supply = -n
  BY <1>1, <1>5
<1>7. s = [r EXCEPT !.b_supply = total]
  OBVIOUS
<1> HIDE DEF n, out, total
<1>8. /\ s \in ReserveData /\ SameValue(r, s) /\ s.b_supply = total /\ s.d_supply = r.d_supply
  BY <1>6, <1>7 DEF ReserveData, SameValue
<1>9. Favours(r, s, -out)
  <2>1. (s.b_supply - r.b_supply) * r.b_rate = -(n * r.b_rate)
    <3>1. (-n) * r.b_rate = -(n * r.b_rate)
      BY <1>1, <1>5, SMT
    <3> QED
      BY <1>6, <1>8, <3>1
  <2>2. Scalar12 * (-out) = -(Scalar12 * out)
    BY <1>5, ScalarsPositive, SMT
  <2>3. n * r.b_rate \in Int /\ Scalar12 * out \in Int /\ -out \in Int
    BY <1>1, <1>5, ProductInt, ScalarsPositive
  <2>4. (s.b_supply - r.b_supply) * r.b_rate <= Scalar12 * (-out)
    BY <1>5, <2>1, <2>2, <2>3
  <2> QED
    BY <1>8, <2>3, <2>4, DepositsMove
<1>10. Whole(s)
  BY <1>8, BelowFullIsWhole DEF SameValue
<1>11. Accepts(r, s, 0, -out)
  BY <1>1, <1>5, <1>8, <1>9, <1>10 DEF Accepts, SameValue
<1> QED
  BY <1>5, <1>11 DEF n, out

LEMMA BorrowAccepts ==
    ASSUME NEW r \in ReserveData, r.last_time = now, r.d_rate > 0, NEW x \in Nat,
           NEW n, n = ToDTokenUp(r, x), n > 0,
           NEW s, s = [r EXCEPT !.d_supply = @ + n], BelowFull(s)
    PROVE  n \in Nat /\ Accepts(r, s, 0, -x)
<1> DEFINE total == r.d_supply + n
<1>1. /\ r.b_supply \in Nat /\ r.b_rate \in Nat /\ r.d_supply \in Nat /\ r.d_rate \in Nat
      /\ r.backstop_credit \in Int /\ r.d_rate \in Int
  BY DEF ReserveData
<1>2. n \in Nat /\ Scalar12 * x <= n * r.d_rate
  BY <1>1, DivNat, DivCeilBack, ScalarsPositive DEF ToDTokenUp
<1>3. total \in Nat /\ r.d_supply - total = -n /\ total > 0
  BY <1>1, <1>2
<1>4. s = [r EXCEPT !.d_supply = total]
  OBVIOUS
<1> HIDE DEF total
<1>5. /\ s \in ReserveData /\ SameValue(r, s) /\ s.d_supply = total /\ s.b_supply = r.b_supply
  BY <1>3, <1>4 DEF ReserveData, SameValue
<1>6. Favours(r, s, -x)
  <2>1. (r.d_supply - s.d_supply) * r.d_rate = -(n * r.d_rate)
    <3>1. (-n) * r.d_rate = -(n * r.d_rate)
      BY <1>1, <1>2, SMT
    <3> QED
      BY <1>3, <1>5, <3>1
  <2>2. Scalar12 * (-x) = -(Scalar12 * x)
    BY ScalarsPositive, SMT
  <2>3. n * r.d_rate \in Int /\ Scalar12 * x \in Int /\ -x \in Int
    BY <1>1, <1>2, ProductInt, ScalarsPositive
  <2>4. (r.d_supply - s.d_supply) * r.d_rate <= Scalar12 * (-x)
    BY <1>2, <2>1, <2>2, <2>3
  <2> QED
    BY <1>5, <2>3, <2>4, DebtsMove
<1>7. TotalLiabilities(s) > 0
  BY <1>1, <1>3, <1>5, PositiveCeil, ScalarsPositive DEF TotalLiabilities, ToAssetFromD, SameValue
<1>8. Whole(s)
  BY <1>5, <1>7, BelowFullIsWhole DEF SameValue
<1> QED
  BY <1>1, <1>2, <1>5, <1>6, <1>8 DEF Accepts, SameValue

\* A repayment: `paid' comes in, net of the refund of what is not owed.
LEMMA RepayAccepts ==
    ASSUME NEW r \in ReserveData, r.last_time = now, r.d_rate > 0,
           NEW n \in Nat, n <= r.d_supply, NEW paid \in Nat,
           n * r.d_rate <= Scalar12 * paid,
           NEW s, s = [r EXCEPT !.d_supply = @ - n]
    PROVE  Accepts(r, s, 0, paid)
<1> DEFINE total == r.d_supply - n
<1>1. /\ r.b_supply \in Nat /\ r.b_rate \in Nat /\ r.d_supply \in Nat /\ r.d_rate \in Nat
      /\ r.backstop_credit \in Int /\ r.d_rate \in Int
  BY DEF ReserveData
<1>2. total \in Nat /\ r.d_supply - total = n /\ total <= r.d_supply
  BY <1>1
<1>3. s = [r EXCEPT !.d_supply = total]
  OBVIOUS
<1> HIDE DEF total
<1>4. /\ s \in ReserveData /\ SameValue(r, s) /\ s.d_supply = total /\ s.b_supply = r.b_supply
  BY <1>2, <1>3 DEF ReserveData, SameValue
<1>5. Favours(r, s, paid)
  <2>1. (r.d_supply - s.d_supply) * r.d_rate <= Scalar12 * paid
    BY <1>2, <1>4
  <2>2. paid \in Int
    OBVIOUS
  <2> QED
    BY <1>4, <2>1, <2>2, DebtsMove
<1>6. TotalLiabilities(s) <= TotalLiabilities(r)
  <2>1. TotalLiabilities(r) = MulCeil(r.d_rate, r.d_supply, Scalar12)
    BY <1>1, MulCommutes DEF TotalLiabilities, ToAssetFromD
  <2>2. TotalLiabilities(s) = MulCeil(r.d_rate, total, Scalar12)
    BY <1>1, <1>2, <1>4, MulCommutes DEF TotalLiabilities, ToAssetFromD, SameValue
  <2> QED
    BY <1>1, <1>2, <2>1, <2>2, MulMonotone, ScalarsPositive
<1>7. TotalSupply(s) = TotalSupply(r)
  BY <1>4 DEF TotalSupply, ToAssetFromB, SameValue
<1>8. TotalLiabilities(r) \in Nat /\ TotalLiabilities(s) \in Nat /\ TotalSupply(r) \in Nat
  BY <1>4, TotalsNat
<1>9. Whole(r) => Whole(s)
  BY <1>4, <1>6, <1>7, <1>8 DEF Whole, SameValue
<1> QED
  BY <1>1, <1>4, <1>5, <1>9 DEF Accepts, SameValue

\* The lot of an interest auction: the credit that is sold leaves the pool.
LEMMA CreditSoldAccepts ==
    ASSUME NEW r \in ReserveData, r.last_time = now, NEW lot \in Nat,
           NEW s, s = [r EXCEPT !.backstop_credit = @ - lot]
    PROVE  Accepts(r, s, -lot, 0)
<1> DEFINE credit == r.backstop_credit - lot
<1>1. r.backstop_credit \in Int /\ r.b_rate \in Nat
  BY DEF ReserveData
<1>2. credit \in Int /\ credit = r.backstop_credit + (-lot)
  BY <1>1
<1>3. s = [r EXCEPT !.backstop_credit = credit]
  OBVIOUS
<1> HIDE DEF credit
<1>4. /\ s \in ReserveData /\ s.backstop_credit = credit
      /\ s.b_supply = r.b_supply /\ s.d_supply = r.d_supply
      /\ s.b_rate = r.b_rate /\ s.d_rate = r.d_rate /\ s.last_time = r.last_time
  BY <1>2, <1>3 DEF ReserveData
<1>5. TotalSupply(s) = TotalSupply(r) /\ TotalLiabilities(s) = TotalLiabilities(r)
  BY <1>4 DEF TotalSupply, TotalLiabilities, ToAssetFromB, ToAssetFromD
<1>6. TotalSupply(r) \in Nat /\ TotalLiabilities(r) \in Nat
  BY TotalsNat
<1>7. Net(s) = Net(r) + (0 + (-lot)) /\ Net(s) \in Int
  BY <1>1, <1>2, <1>4, <1>5, <1>6 DEF Net
<1>8. Favours(r, s, 0 + (-lot))
  BY <1>4, <1>7 DEF Favours, Dead
<1>9. Whole(r) => Whole(s)
  BY <1>4, <1>5 DEF Whole
<1> QED
  BY <1>1, <1>2, <1>4, <1>8, <1>9 DEF Accepts

LEMMA ForgiveAccepts ==
    ASSUME NEW r \in ReserveData, r.d_rate > 0, r.b_supply # 0, r.last_time = now,
           NEW d \in Nat, d > 0, d <= r.d_supply
    PROVE  Accepts(r, Forgive(r, d), 0, 0)
<1> DEFINE s == Forgive(r, d)
<1>1. /\ s \in ReserveData /\ s.last_time = r.last_time /\ s.backstop_credit = r.backstop_credit
  BY ForgiveType, ForgiveKeepsCredit
<1>2. Favours(r, s, 0) /\ (s.b_rate < r.b_rate \/ (r.b_rate = 0 /\ s.b_rate = 0))
  BY ForgiveFavours
<1> HIDE DEF s
<1>3. r.b_rate \in Nat /\ s.b_rate \in Nat /\ r.backstop_credit \in Int
  BY <1>1 DEF ReserveData
<1>4. r.b_rate = 0 => ~Whole(r)
  BY <1>3 DEF Whole
<1>5. Accepts(r, s, 0, 0)
  BY <1>1, <1>2, <1>3, <1>4 DEF Accepts
<1> QED
  BY <1>5 DEF s

\* A reserve that is only loaded.
LEMMA LoadedAccepts ==
    ASSUME NEW r \in ReserveData, r.last_time = now
    PROVE  Accepts(r, r, 0, 0)
<1>1. Net(r) \in Int /\ r.b_rate \in Nat /\ r.backstop_credit \in Int
  BY NetInt DEF ReserveData
<1> QED
  BY <1>1 DEF Accepts, Favours

-----------------------------------------------------------------------------
(* The invariant of an invocation.                                         *)

\* Tokens of the asset a noted to come in, net of those noted to go out.
Flow(c, a) == c.spender_transfer[a] - c.pool_transfer[a] - c.flash[a]

Solvent(l, c) == \A a \in Assets : AssetSince(l, c.ledger, a, Flow(c, a))

SolvencyInv == SafeInv /\ (call # NoCall => Solvent(ledger, call))

LEMMA FlowInt ==
    ASSUME NEW c \in Call, NEW a \in Assets
    PROVE  /\ Flow(c, a) \in Int
           /\ c.spender_transfer[a] \in Nat /\ c.pool_transfer[a] \in Nat /\ c.flash[a] \in Nat
<1>1. c.spender_transfer[a] \in Nat /\ c.pool_transfer[a] \in Nat /\ c.flash[a] \in Nat
  BY DEF Call
<1> QED
  BY <1>1 DEF Flow

LEMMA SolventLater ==
    ASSUME NEW c, Solvent(ledger, c), call' = c, UNCHANGED <<now, config, ledger>>
    PROVE  Solvent(ledger, call)'
<1> SUFFICES ASSUME NEW a \in Assets
             PROVE  AssetSince(ledger, call.ledger, a, Flow(call, a))'
  BY DEF Solvent
<1>1. AssetSince(ledger, c.ledger, a, Flow(c, a))
  BY DEF Solvent
<1>2. LoadedReserve(ledger, a)' = LoadedReserve(ledger, a)
  BY DEF LoadedReserve
<1>3. Flow(call, a)' = Flow(c, a)
  BY DEF Flow
<1> QED
  BY <1>1, <1>2, <1>3 DEF AssetSince, Favours, Dead, Whole

\* A request: the working copy becomes w, and k is noted.
LEMMA CallMoves ==
    ASSUME SafeInv, call # NoCall, Solvent(ledger, call), NEW w \in Ledger,
           NEW k \in [Assets -> Int],
           \A a \in Assets : AssetStep(call.ledger, w, a, k[a]),
           UNCHANGED <<now, config, ledger>>, call'.ledger = w,
           \A a \in Assets : Flow(call', a) = Flow(call, a) + k[a]
    PROVE  Solvent(ledger, call)'
<1>1. GoodSettings /\ WellFormed(ledger) /\ WellFormed(call.ledger) /\ call \in Call
  BY DEF SafeInv, PoolInv, TypeOK
<1>2. ASSUME NEW a \in Assets
      PROVE  AssetSince(ledger, w, a, Flow(call', a))
  <2>1. Flow(call, a) \in Int /\ k[a] \in Int
    BY <1>1, FlowInt
  <2>2. AssetSince(ledger, call.ledger, a, Flow(call, a))
    BY DEF Solvent
  <2>3. AssetStep(call.ledger, w, a, k[a])
    OBVIOUS
  <2>4. AssetSince(ledger, w, a, Flow(call, a) + k[a])
    BY <1>1, <2>1, <2>2, <2>3, AssetStepSince
  <2> QED
    BY <2>4
<1>3. Solvent(ledger, call')
  BY <1>2 DEF Solvent
<1> QED
  BY <1>3, SolventLater

LEMMA ProceedSolvent ==
    ASSUME SafeInv, call # NoCall, Solvent(ledger, call), NEW w \in Ledger, NEW a \in Assets,
           NEW in \in Nat, NEW out \in Nat, Proceed(w, a, in, out),
           StepOn(call.ledger, w, a, in - out)
    PROVE  Solvent(ledger, call)'
<1> DEFINE k == [c \in Assets |-> IF c = a THEN in - out ELSE 0]
           from == [call.spender_transfer EXCEPT ![a] = @ + in]
           to == [call.pool_transfer EXCEPT ![a] = @ + out]
           n == call.requests + 1
<1>1. call \in Call
  BY DEF SafeInv, PoolInv, TypeOK
<1>2. call.spender_transfer \in [Assets -> Nat] /\ call.pool_transfer \in [Assets -> Nat]
  BY <1>1 DEF Call
<1>3. ASSUME NEW c \in Assets
      PROVE  /\ from[c] = call.spender_transfer[c] + (IF c = a THEN in ELSE 0)
             /\ to[c] = call.pool_transfer[c] + (IF c = a THEN out ELSE 0)
  BY <1>2
<1>4. /\ call' = [call EXCEPT !.ledger = w, !.requests = n,
                              !.spender_transfer = from, !.pool_transfer = to]
      /\ UNCHANGED <<now, config, ledger>>
  BY DEF Proceed
<1> HIDE DEF from, to, n
<1>5. /\ call'.ledger = w /\ call'.spender_transfer = from /\ call'.pool_transfer = to
      /\ call'.flash = call.flash
  BY <1>1, <1>4 DEF Call
<1>6. ASSUME NEW c \in Assets
      PROVE  Flow(call', c) = Flow(call, c) + k[c]
  <2>1. /\ call.spender_transfer[c] \in Nat /\ call.pool_transfer[c] \in Nat
        /\ call.flash[c] \in Nat
    BY <1>1, FlowInt
  <2>2. CASE c = a
    BY <1>3, <1>5, <2>1, <2>2 DEF Flow
  <2>3. CASE c # a
    BY <1>3, <1>5, <2>1, <2>3 DEF Flow
  <2> QED
    BY <2>2, <2>3
<1>7. k \in [Assets -> Int] /\ \A c \in Assets : AssetStep(call.ledger, w, c, k[c])
  BY DEF StepOn
<1> HIDE DEF k
<1> QED
  BY <1>4, <1>5, <1>6, <1>7, CallMoves

LEMMA ProceedCheckedSolvent ==
    ASSUME SafeInv, call # NoCall, Solvent(ledger, call), NEW w \in Ledger, NEW a \in Assets,
           NEW out \in Nat, NEW maxUtil, ProceedChecked(w, a, out, maxUtil),
           StepOn(call.ledger, w, a, -out)
    PROVE  Solvent(ledger, call)'
<1> DEFINE k == [c \in Assets |-> IF c = a THEN -out ELSE 0]
           to == [call.pool_transfer EXCEPT ![a] = @ + out]
           checked == call.check_max_util \cup maxUtil
           n == call.requests + 1
<1>1. call \in Call
  BY DEF SafeInv, PoolInv, TypeOK
<1>2. call.pool_transfer \in [Assets -> Nat]
  BY <1>1 DEF Call
<1>3. ASSUME NEW c \in Assets
      PROVE  to[c] = call.pool_transfer[c] + (IF c = a THEN out ELSE 0)
  BY <1>2
<1>4. /\ call' = [call EXCEPT !.ledger = w, !.requests = n, !.pool_transfer = to,
                              !.check_health = TRUE, !.check_max_util = checked]
      /\ UNCHANGED <<now, config, ledger>>
  BY DEF ProceedChecked
<1> HIDE DEF to, n, checked
<1>5. /\ call'.ledger = w /\ call'.spender_transfer = call.spender_transfer
      /\ call'.pool_transfer = to /\ call'.flash = call.flash
  BY <1>1, <1>4 DEF Call
<1>6. ASSUME NEW c \in Assets
      PROVE  Flow(call', c) = Flow(call, c) + k[c]
  <2>1. /\ call.spender_transfer[c] \in Nat /\ call.pool_transfer[c] \in Nat
        /\ call.flash[c] \in Nat
    BY <1>1, FlowInt
  <2>2. CASE c = a
    BY <1>3, <1>5, <2>1, <2>2 DEF Flow
  <2>3. CASE c # a
    BY <1>3, <1>5, <2>1, <2>3 DEF Flow
  <2> QED
    BY <2>2, <2>3
<1>7. k \in [Assets -> Int] /\ \A c \in Assets : AssetStep(call.ledger, w, c, k[c])
  BY DEF StepOn
<1> HIDE DEF k
<1> QED
  BY <1>4, <1>5, <1>6, <1>7, CallMoves

LEMMA ProceedWithSolvent ==
    ASSUME SafeInv, call # NoCall, Solvent(ledger, call), NEW w \in Ledger,
           NEW checked, ProceedWith(w, checked),
           \A a \in Assets : AssetStep(call.ledger, w, a, 0)
    PROVE  Solvent(ledger, call)'
<1> DEFINE k == [a \in Assets |-> 0]
           n == call.requests + 1
           check == call.check_health \/ checked
<1>1. call \in Call
  BY DEF SafeInv, PoolInv, TypeOK
<1>2. /\ call' = [call EXCEPT !.ledger = w, !.requests = n, !.check_health = check]
      /\ UNCHANGED <<now, config, ledger>>
  BY DEF ProceedWith
<1> HIDE DEF n, check
<1>3. /\ call'.ledger = w /\ call'.spender_transfer = call.spender_transfer
      /\ call'.pool_transfer = call.pool_transfer /\ call'.flash = call.flash
  BY <1>1, <1>2 DEF Call
<1>4. ASSUME NEW c \in Assets
      PROVE  Flow(call', c) = Flow(call, c) + k[c]
  <2>1. Flow(call, c) \in Int
    BY <1>1, FlowInt
  <2>2. Flow(call', c) = Flow(call, c)
    BY <1>3 DEF Flow
  <2> QED
    BY <2>1, <2>2
<1>5. k \in [Assets -> Int] /\ \A a \in Assets : AssetStep(call.ledger, w, a, k[a])
  OBVIOUS
<1> HIDE DEF k
<1> QED
  BY <1>2, <1>3, <1>4, <1>5, CallMoves

-----------------------------------------------------------------------------
(* Requests on a reserve.                                                  *)

LEMMA WorkingReserve ==
    ASSUME GoodSettings, NEW w, WellFormed(w), NEW a \in Assets,
           NEW l, l = LoadReserves(w, {a})
    PROVE  /\ l \in Ledger /\ WellFormed(l) /\ l.balance = w.balance /\ l.positions = w.positions
           /\ l.reserves[a] = LoadedReserve(w, a) /\ l.reserves[a] \in ReserveData
           /\ l.reserves[a].last_time = now /\ l.reserves[a].d_rate > 0
<1>1. w \in Ledger /\ WellFormed(l)
  BY LoadReservesWellFormed DEF WellFormed
<1>2. /\ l.reserves = [x \in Assets |-> IF x \in {a} THEN LoadedReserve(w, x) ELSE w.reserves[x]]
      /\ l.balance = w.balance /\ l.positions = w.positions
  BY <1>1, LoadReservesFields
<1>3. l.reserves[a] = LoadedReserve(w, a)
  BY <1>2
<1>4. l.reserves[a] \in ReserveData /\ l.reserves[a].last_time = now
  BY <1>3, LoadedIsUpToDate
<1> QED
  BY <1>1, <1>2, <1>3, <1>4 DEF WellFormed

\* One request: the working copy becomes v, its reserve s.
LEMMA RequestMade ==
    ASSUME GoodSettings, NEW w, WellFormed(w), NEW a \in Assets,
           NEW l, l = LoadReserves(w, {a}), NEW s, NEW j \in Int,
           Accepts(l.reserves[a], s, 0, j),
           NEW v, v.balance = l.balance, v.reserves = [l.reserves EXCEPT ![a] = s]
    PROVE  StepOn(w, v, a, j)
<1>1. l.balance = w.balance /\ l.reserves[a] = LoadedReserve(w, a)
  BY WorkingReserve
<1> QED
  BY <1>1, RequestSteps

LEMMA SupplySteps ==
    ASSUME GoodSettings, NEW w, WellFormed(w), NEW u \in Accounts, NEW a \in Assets,
           NEW l, l = LoadReserves(w, {a}), NEW x \in Nat,
           NEW n, n = ToBTokenDown(l.reserves[a], x), l.reserves[a].b_rate > 0,
           NEW v, v = AddSupply(l, u, a, n) \/ v = AddCollateral(l, u, a, n)
    PROVE  /\ v \in Ledger
           /\ StepOn(w, v, a, x)
<1> DEFINE r == l.reserves[a]
           s == [r EXCEPT !.b_supply = @ + n]
<1>1. l \in Ledger /\ r \in ReserveData /\ r.last_time = now
  BY WorkingReserve
<1>2. s = [l.reserves[a] EXCEPT !.b_supply = @ + n]
  OBVIOUS
<1> HIDE DEF s
<1>3. n \in Nat /\ Accepts(r, s, 0, x)
  BY <1>1, <1>2, SupplyAccepts
<1>4. v.balance = l.balance /\ v.reserves = [l.reserves EXCEPT ![a] = s]
  <2>0. ASSUME NEW ps, NEW rs, v = [l EXCEPT !.positions = ps, !.reserves = rs]
        PROVE  v.balance = l.balance /\ v.reserves = rs
    BY <1>1, <2>0 DEF Ledger
  <2>1. CASE v = AddSupply(l, u, a, n)
    <3> DEFINE ps == [l.positions EXCEPT ![u].supply[a] = @ + n]
               rs == [l.reserves EXCEPT ![a] = s]
    <3>1. v = [l EXCEPT !.positions = ps, !.reserves = rs]
      BY <1>2, <2>1 DEF AddSupply
    <3> HIDE DEF ps, rs
    <3>2. v.balance = l.balance /\ v.reserves = rs
      BY <2>0, <3>1
    <3> QED
      BY <3>2 DEF rs
  <2>2. CASE v = AddCollateral(l, u, a, n)
    <3> DEFINE ps == [l.positions EXCEPT ![u].collateral[a] = @ + n]
               rs == [l.reserves EXCEPT ![a] = s]
    <3>1. v = [l EXCEPT !.positions = ps, !.reserves = rs]
      BY <1>2, <2>2 DEF AddCollateral
    <3> HIDE DEF ps, rs
    <3>2. v.balance = l.balance /\ v.reserves = rs
      BY <2>0, <3>1
    <3> QED
      BY <3>2 DEF rs
  <2> QED
    BY <2>1, <2>2
<1>5. v \in Ledger
  BY <1>3, AddSupplyOwn, AddCollateralOwn DEF Own
<1>6. x \in Int
  OBVIOUS
<1> QED
  BY <1>3, <1>4, <1>5, <1>6, RequestMade

LEMMA WithdrawSteps ==
    ASSUME GoodSettings, NEW w, WellFormed(w), NEW u \in Accounts, NEW a \in Assets,
           NEW l, l = LoadReserves(w, {a}), NEW x \in Nat, l.reserves[a].b_rate > 0,
           NEW held, NEW burn, burn = BurnFor(l.reserves[a], x, held), NEW v,
           \/ held = l.positions[u].supply[a] /\ v = RemoveSupply(l, u, a, burn.shares)
           \/ held = l.positions[u].collateral[a] /\ v = RemoveCollateral(l, u, a, burn.shares),
           BelowFull(v.reserves[a])
    PROVE  /\ v \in Ledger /\ burn.tokens \in Nat
           /\ StepOn(w, v, a, -burn.tokens)
<1> DEFINE r == l.reserves[a]
           n == burn.shares
           out == burn.tokens
           s == [r EXCEPT !.b_supply = @ - n]
<1>1. l \in Ledger /\ WellFormed(l) /\ r \in ReserveData /\ r.last_time = now
  BY WorkingReserve
<1>2. s = [l.reserves[a] EXCEPT !.b_supply = @ - n]
  OBVIOUS
<1> HIDE DEF s
<1>3. l.positions[u] \in Positions
  BY <1>1, LedgerFields
<1>4. held \in Nat /\ held <= r.b_supply
  <2>1. /\ l.positions[u].supply[a] \in Nat /\ l.positions[u].collateral[a] \in Nat
        /\ BShares(l.positions[u], a) <= r.b_supply
    BY <1>1, <1>3, PositionNat, PartOfTotal
  <2>2. r.b_supply \in Nat
    BY <1>1 DEF ReserveData
  <2> QED
    BY <2>1, <2>2 DEF BShares
<1>5. n \in Nat /\ n <= held
  BY <1>1, <1>4, BurnForWithin
<1> HIDE DEF n
<1>6. v = RemoveSupply(l, u, a, n) \/ v = RemoveCollateral(l, u, a, n)
  BY DEF n
<1>7. v.balance = l.balance /\ v.reserves = [l.reserves EXCEPT ![a] = s]
  <2>0. ASSUME NEW ps, NEW rs, v = [l EXCEPT !.positions = ps, !.reserves = rs]
        PROVE  v.balance = l.balance /\ v.reserves = rs
    BY <1>1, <2>0 DEF Ledger
  <2>1. CASE v = RemoveSupply(l, u, a, n)
    <3> DEFINE ps == [l.positions EXCEPT ![u].supply[a] = @ - n]
               rs == [l.reserves EXCEPT ![a] = s]
    <3>1. v = [l EXCEPT !.positions = ps, !.reserves = rs]
      BY <1>2, <2>1 DEF RemoveSupply
    <3> HIDE DEF ps, rs
    <3>2. v.balance = l.balance /\ v.reserves = rs
      BY <2>0, <3>1
    <3> QED
      BY <3>2 DEF rs
  <2>2. CASE v = RemoveCollateral(l, u, a, n)
    <3> DEFINE ps == [l.positions EXCEPT ![u].collateral[a] = @ - n]
               rs == [l.reserves EXCEPT ![a] = s]
    <3>1. v = [l EXCEPT !.positions = ps, !.reserves = rs]
      BY <1>2, <2>2 DEF RemoveCollateral
    <3> HIDE DEF ps, rs
    <3>2. v.balance = l.balance /\ v.reserves = rs
      BY <2>0, <3>1
    <3> QED
      BY <3>2 DEF rs
  <2> QED
    BY <1>6, <2>1, <2>2
<1>8. v.reserves[a] = s
  <2>1. l.reserves \in [Assets -> ReserveData]
    BY <1>1, LedgerFields
  <2> QED
    BY <1>7, <2>1
<1>9. v \in Ledger
  <2>1. CASE held = l.positions[u].supply[a] /\ v = RemoveSupply(l, u, a, burn.shares)
    BY <1>5, <2>1, RemoveSupplyOwn DEF Own, n
  <2>2. CASE held = l.positions[u].collateral[a] /\ v = RemoveCollateral(l, u, a, burn.shares)
    BY <1>5, <2>2, RemoveCollateralOwn DEF Own, n
  <2> QED
    BY <2>1, <2>2
<1>10. out \in Nat /\ Accepts(r, s, 0, -out)
  BY <1>1, <1>2, <1>4, <1>8, WithdrawAccepts DEF n
<1> HIDE DEF out
<1>11. -out \in Int
  BY <1>10
<1>12. StepOn(w, v, a, -out)
  BY <1>7, <1>10, <1>11, RequestMade
<1> QED
  BY <1>9, <1>10, <1>12 DEF out

LEMMA BorrowSteps ==
    ASSUME GoodSettings, NEW w, WellFormed(w), NEW u \in Accounts, NEW a \in Assets,
           NEW l, l = LoadReserves(w, {a}), NEW x \in Nat,
           NEW n, n = ToDTokenUp(l.reserves[a], x), n > 0,
           NEW v, v = AddLiabilities(l, u, a, n), BelowFull(v.reserves[a])
    PROVE  /\ v \in Ledger
           /\ StepOn(w, v, a, -x)
<1> DEFINE r == l.reserves[a]
           s == [r EXCEPT !.d_supply = @ + n]
<1>1. /\ l \in Ledger /\ WellFormed(l)
      /\ r \in ReserveData /\ r.last_time = now /\ r.d_rate > 0
  BY WorkingReserve
<1>2. s = [l.reserves[a] EXCEPT !.d_supply = @ + n]
  OBVIOUS
<1> HIDE DEF s
<1>3. v.balance = l.balance /\ v.reserves = [l.reserves EXCEPT ![a] = s]
  <2> DEFINE ps == [l.positions EXCEPT ![u].liabilities[a] = @ + n]
             rs == [l.reserves EXCEPT ![a] = s]
  <2>1. v = [l EXCEPT !.positions = ps, !.reserves = rs]
    BY <1>2 DEF AddLiabilities
  <2> HIDE DEF ps, rs
  <2>2. v.balance = l.balance /\ v.reserves = rs
    BY <1>1, <2>1 DEF Ledger
  <2> QED
    BY <2>2 DEF rs
<1>4. v.reserves[a] = s
  <2>1. l.reserves \in [Assets -> ReserveData]
    BY <1>1, LedgerFields
  <2> QED
    BY <1>3, <2>1
<1>5. n \in Nat /\ Accepts(r, s, 0, -x)
  BY <1>1, <1>2, <1>4, BorrowAccepts
<1>6. v \in Ledger
  BY <1>5, AddLiabilitiesOwn DEF Own
<1>7. -x \in Int
  OBVIOUS
<1> QED
  BY <1>3, <1>5, <1>6, <1>7, RequestMade

LEMMA RepaySteps ==
    ASSUME GoodSettings, NEW w, WellFormed(w), NEW u \in Accounts, NEW a \in Assets,
           NEW l, l = LoadReserves(w, {a}), NEW x \in Nat,
           NEW n \in Nat, n <= l.positions[u].liabilities[a],
           n * l.reserves[a].d_rate <= Scalar12 * x,
           NEW v, v = RemoveLiabilities(l, u, a, n)
    PROVE  /\ v \in Ledger
           /\ StepOn(w, v, a, x)
<1> DEFINE r == l.reserves[a]
           s == [r EXCEPT !.d_supply = @ - n]
<1>1. /\ l \in Ledger /\ WellFormed(l)
      /\ r \in ReserveData /\ r.last_time = now /\ r.d_rate > 0
  BY WorkingReserve
<1>2. s = [l.reserves[a] EXCEPT !.d_supply = @ - n]
  OBVIOUS
<1> HIDE DEF s
<1>3. v.balance = l.balance /\ v.reserves = [l.reserves EXCEPT ![a] = s]
  <2> DEFINE ps == [l.positions EXCEPT ![u].liabilities[a] = @ - n]
             rs == [l.reserves EXCEPT ![a] = s]
  <2>1. v = [l EXCEPT !.positions = ps, !.reserves = rs]
    BY <1>2 DEF RemoveLiabilities
  <2> HIDE DEF ps, rs
  <2>2. v.balance = l.balance /\ v.reserves = rs
    BY <1>1, <2>1 DEF Ledger
  <2> QED
    BY <2>2 DEF rs
<1>4. n <= r.d_supply
  <2>1. l.positions[u] \in Positions
    BY <1>1, LedgerFields
  <2>2. DShares(l.positions[u], a) <= r.d_supply /\ DShares(l.positions[u], a) \in Nat
    BY <1>1, <2>1, PartOfTotal, PositionNat
  <2>3. r.d_supply \in Nat
    BY <1>1 DEF ReserveData
  <2> QED
    BY <2>2, <2>3 DEF DShares
<1>5. Accepts(r, s, 0, x)
  BY <1>1, <1>2, <1>4, RepayAccepts
<1>6. v \in Ledger
  BY RemoveLiabilitiesOwn DEF Own
<1>7. x \in Int
  OBVIOUS
<1>8. StepOn(w, v, a, x)
  BY <1>3, <1>5, <1>7, RequestMade
<1> QED
  BY <1>6, <1>8

\* What a request finds.
LEMMA SolventRequest ==
    ASSUME SolvencyInv, NEW req, NEW type, RequestingOn(req, type), NEW a, a = req.address
    PROVE  /\ SafeInv /\ call # NoCall /\ Solvent(ledger, call)
           /\ call.from \in Accounts /\ a \in Assets /\ req.amount \in Nat
           /\ GoodSettings /\ WellFormed(call.ledger)
           /\ Working(a) = LoadReserves(call.ledger, {a})
           /\ Working(a).positions[call.from] = Position
<1>1. SafeInv
  BY DEF SolvencyInv
<1>2. /\ call # NoCall /\ call.from \in Accounts /\ a \in Assets /\ req.amount \in Nat
      /\ GoodSettings /\ WellFormed(call.ledger)
      /\ Working(a) = LoadReserves(call.ledger, {a})
      /\ Working(a).positions[call.from] = Position
  BY <1>1, RequestFinds
<1> QED
  BY <1>1, <1>2 DEF SolvencyInv

LEMMA SuppliesSolvent ==
    ASSUME SolvencyInv, NEW req, Supply(req) \/ SupplyCollateral(req)
    PROVE  Solvent(ledger, call)'
<1>1. ASSUME NEW type, RequestingOn(req, type),
             NEW a, a = req.address, NEW l, l = Working(a), NEW in, in = req.amount,
             NEW n, n = ToBTokenDown(l.reserves[a], in), l.reserves[a].b_rate > 0,
             NEW w, w = AddSupply(l, call.from, a, n) \/ w = AddCollateral(l, call.from, a, n),
             Proceed(w, a, in, 0)
      PROVE  Solvent(ledger, call)'
  <2>1. /\ SafeInv /\ call # NoCall /\ Solvent(ledger, call)
        /\ call.from \in Accounts /\ a \in Assets /\ in \in Nat
        /\ GoodSettings /\ WellFormed(call.ledger) /\ l = LoadReserves(call.ledger, {a})
    BY <1>1, SolventRequest
  <2>2. /\ w \in Ledger
        /\ StepOn(call.ledger, w, a, in)
    <3> DEFINE base == call.ledger
               u == call.from
    <3>1. /\ GoodSettings /\ WellFormed(base) /\ u \in Accounts /\ a \in Assets /\ in \in Nat
          /\ l = LoadReserves(base, {a}) /\ n = ToBTokenDown(l.reserves[a], in)
          /\ l.reserves[a].b_rate > 0
      BY <1>1, <2>1
    <3>2. w = AddSupply(l, u, a, n) \/ w = AddCollateral(l, u, a, n)
      BY <1>1
    <3> HIDE DEF base, u
    <3>3. w \in Ledger /\ StepOn(base, w, a, in)
      BY <3>1, <3>2, SupplySteps
    <3> QED
      BY <3>3 DEF base
  <2>3. in - 0 = in
    BY <2>1
  <2>4. StepOn(call.ledger, w, a, in - 0)
    BY <2>2, <2>3
  <2> QED
    BY <1>1, <2>1, <2>2, <2>4, ProceedSolvent
<1>2. CASE Supply(req)
  BY <1>1, <1>2 DEF Supply
<1>3. CASE SupplyCollateral(req)
  BY <1>1, <1>3 DEF SupplyCollateral
<1> QED
  BY <1>2, <1>3

LEMMA WithdrawSolvent ==
    ASSUME SolvencyInv, NEW req, Withdraw(req)
    PROVE  Solvent(ledger, call)'
<1> DEFINE a == req.address
           l == Working(a)
           burn == BurnFor(l.reserves[a], req.amount, Position.supply[a])
           w == RemoveSupply(l, call.from, a, burn.shares)
           out == burn.tokens
<1>1. /\ RequestingOn(req, "Withdraw") /\ l.reserves[a].b_rate > 0
      /\ BelowFull(w.reserves[a]) /\ Proceed(w, a, 0, out)
  BY DEF Withdraw
<1>2. /\ SafeInv /\ call # NoCall /\ Solvent(ledger, call)
      /\ call.from \in Accounts /\ a \in Assets /\ req.amount \in Nat
      /\ GoodSettings /\ WellFormed(call.ledger) /\ l = LoadReserves(call.ledger, {a})
      /\ l.positions[call.from] = Position
  BY <1>1, SolventRequest
<1> HIDE DEF l, a
<1>3. burn = BurnFor(l.reserves[a], req.amount, l.positions[call.from].supply[a])
  BY <1>2
<1>4. w = RemoveSupply(l, call.from, a, burn.shares)
  OBVIOUS
<1> HIDE DEF burn, w
<1>5. /\ w \in Ledger /\ out \in Nat
      /\ StepOn(call.ledger, w, a, -out)
  <2> DEFINE base == call.ledger
             u == call.from
             x == req.amount
             held == l.positions[u].supply[a]
  <2>1. /\ GoodSettings /\ WellFormed(base) /\ u \in Accounts /\ a \in Assets /\ x \in Nat
        /\ l = LoadReserves(base, {a}) /\ l.reserves[a].b_rate > 0 /\ BelowFull(w.reserves[a])
    BY <1>1, <1>2
  <2>2. burn = BurnFor(l.reserves[a], x, held) /\ w = RemoveSupply(l, u, a, burn.shares)
    BY <1>3, <1>4
  <2>3. held = l.positions[u].supply[a]
    OBVIOUS
  <2> HIDE DEF base, u, x, held
  <2>4. /\ w \in Ledger /\ out \in Nat
        /\ StepOn(base, w, a, -out)
    BY <2>1, <2>2, <2>3, WithdrawSteps
  <2> QED
    BY <2>4 DEF base
<1> HIDE DEF out
<1>6. 0 - out = -out
  BY <1>5
<1>7. StepOn(call.ledger, w, a, 0 - out)
  BY <1>5, <1>6
<1> QED
  BY <1>1, <1>2, <1>5, <1>7, ProceedSolvent

LEMMA WithdrawCollateralSolvent ==
    ASSUME SolvencyInv, NEW req, WithdrawCollateral(req)
    PROVE  Solvent(ledger, call)'
<1> DEFINE a == req.address
           l == Working(a)
           burn == BurnFor(l.reserves[a], req.amount, Position.collateral[a])
           w == RemoveCollateral(l, call.from, a, burn.shares)
           out == burn.tokens
<1>1. /\ RequestingOn(req, "WithdrawCollateral") /\ l.reserves[a].b_rate > 0
      /\ BelowFull(w.reserves[a]) /\ ProceedChecked(w, a, out, {})
  BY DEF WithdrawCollateral
<1>2. /\ SafeInv /\ call # NoCall /\ Solvent(ledger, call)
      /\ call.from \in Accounts /\ a \in Assets /\ req.amount \in Nat
      /\ GoodSettings /\ WellFormed(call.ledger) /\ l = LoadReserves(call.ledger, {a})
      /\ l.positions[call.from] = Position
  BY <1>1, SolventRequest
<1> HIDE DEF l, a
<1>3. burn = BurnFor(l.reserves[a], req.amount, l.positions[call.from].collateral[a])
  BY <1>2
<1>4. w = RemoveCollateral(l, call.from, a, burn.shares)
  OBVIOUS
<1> HIDE DEF burn, w
<1>5. /\ w \in Ledger /\ out \in Nat
      /\ StepOn(call.ledger, w, a, -out)
  <2> DEFINE base == call.ledger
             u == call.from
             x == req.amount
             held == l.positions[u].collateral[a]
  <2>1. /\ GoodSettings /\ WellFormed(base) /\ u \in Accounts /\ a \in Assets /\ x \in Nat
        /\ l = LoadReserves(base, {a}) /\ l.reserves[a].b_rate > 0 /\ BelowFull(w.reserves[a])
    BY <1>1, <1>2
  <2>2. burn = BurnFor(l.reserves[a], x, held) /\ w = RemoveCollateral(l, u, a, burn.shares)
    BY <1>3, <1>4
  <2>3. held = l.positions[u].collateral[a]
    OBVIOUS
  <2> HIDE DEF base, u, x, held
  <2>4. /\ w \in Ledger /\ out \in Nat
        /\ StepOn(base, w, a, -out)
    BY <2>1, <2>2, <2>3, WithdrawSteps
  <2> QED
    BY <2>4 DEF base
<1> HIDE DEF out
<1> QED
  BY <1>1, <1>2, <1>5, ProceedCheckedSolvent

LEMMA BorrowSolvent ==
    ASSUME SolvencyInv, NEW req, Borrow(req)
    PROVE  Solvent(ledger, call)'
<1> DEFINE a == req.address
           l == Working(a)
           out == req.amount
           n == ToDTokenUp(l.reserves[a], out)
           w == AddLiabilities(l, call.from, a, n)
<1>1. /\ RequestingOn(req, "Borrow") /\ n > 0
      /\ BelowFull(w.reserves[a]) /\ ProceedChecked(w, a, out, {a})
  BY DEF Borrow
<1>2. /\ SafeInv /\ call # NoCall /\ Solvent(ledger, call)
      /\ call.from \in Accounts /\ a \in Assets /\ out \in Nat
      /\ GoodSettings /\ WellFormed(call.ledger) /\ l = LoadReserves(call.ledger, {a})
  BY <1>1, SolventRequest
<1> HIDE DEF l, a, out
<1>3. /\ w \in Ledger
      /\ StepOn(call.ledger, w, a, -out)
  BY <1>1, <1>2, BorrowSteps
<1> HIDE DEF w
<1> QED
  BY <1>1, <1>2, <1>3, ProceedCheckedSolvent

LEMMA RepaySolvent ==
    ASSUME SolvencyInv, NEW req, Repay(req)
    PROVE  Solvent(ledger, call)'
<1> DEFINE a == req.address
           in == req.amount
           l == Working(a)
           r == l.reserves[a]
           owed == Position.liabilities[a]
           shares == ToDTokenDown(r, in)
           over == shares > owed
           n == IF over THEN owed ELSE shares
           worth == ToAssetFromD(r, owed)
           refund == IF over THEN in - worth ELSE 0
           w == RemoveLiabilities(l, call.from, a, n)
<1>1. /\ RequestingOn(req, "Repay") /\ refund >= 0
      /\ Proceed(w, a, in, refund)
  BY DEF Repay
<1>2. /\ SafeInv /\ call # NoCall /\ Solvent(ledger, call)
      /\ call.from \in Accounts /\ a \in Assets /\ in \in Nat
      /\ GoodSettings /\ WellFormed(call.ledger) /\ l = LoadReserves(call.ledger, {a})
      /\ l.positions[call.from] = Position
  BY <1>1, SolventRequest
<1> HIDE DEF l, a, in
<1>3. WellFormed(l) /\ r \in ReserveData /\ r.d_rate > 0 /\ l.positions[call.from] \in Positions
  BY <1>2, WorkingReserve, LedgerFields
<1>4. owed \in Nat /\ owed = l.positions[call.from].liabilities[a]
  BY <1>2, <1>3, PositionNat
<1>5. r.d_rate \in Nat
  BY <1>3 DEF ReserveData
<1>6. shares \in Nat /\ shares * r.d_rate <= Scalar12 * in
  BY <1>2, <1>3, <1>5, MintDebtNat, DivFloorBack DEF ToDTokenDown
<1>7. worth \in Nat /\ owed * r.d_rate <= Scalar12 * worth
  BY <1>4, <1>5, MulNat, MulBack, ScalarsPositive DEF ToAssetFromD
<1> HIDE DEF owed, shares, worth
<1>8. /\ n \in Nat /\ n <= l.positions[call.from].liabilities[a]
      /\ refund \in Nat /\ in - refund \in Nat
      /\ n * r.d_rate <= Scalar12 * (in - refund)
  <2>1. CASE over
    <3>1. n = owed /\ refund = in - worth /\ in - refund = worth
      BY <1>2, <1>7, <2>1
    <3> HIDE DEF n, refund
    <3> QED
      BY <1>1, <1>2, <1>4, <1>7, <3>1
  <2>2. CASE ~over
    <3>1. n = shares /\ refund = 0 /\ in - refund = in
      BY <1>2, <2>2
    <3>2. shares <= owed
      BY <1>4, <1>6, <2>2
    <3> HIDE DEF n, refund
    <3> QED
      BY <1>2, <1>4, <1>6, <3>1, <3>2
  <2> QED
    BY <2>1, <2>2
<1> HIDE DEF n, refund
<1>9. /\ w \in Ledger
      /\ StepOn(call.ledger, w, a, in - refund)
  BY <1>2, <1>8, RepaySteps
<1> HIDE DEF w
<1> QED
  BY <1>1, <1>2, <1>8, <1>9, ProceedSolvent

-----------------------------------------------------------------------------
(* Requests on an auction.                                                 *)

\* Shares change hands, the rest of the ledger is set: no reserve is disturbed.
LEMMA SharesChangeHands ==
    ASSUME GoodSettings, NEW w, WellFormed(w), NEW m, SameTotals(w, m), NEW v,
           v.reserves = m.reserves, v.balance = m.balance
    PROVE  \A a \in Assets : AssetStep(w, v, a, 0)
<1> TAKE a \in Assets
<1>1. AssetStep(w, m, a, 0)
  BY SameTotalsStep
<1> QED
  BY <1>1 DEF AssetStep

LEMMA FillUserLiquidationSteps ==
    ASSUME GoodSettings, NEW w, WellFormed(w), NEW u \in Users, NEW filler \in Users,
           NEW pct, CanFillUserLiquidation(w, u, filler, pct),
           NEW v, v = FillUserLiquidation(w, u, filler, pct)
    PROVE  \A a \in Assets : AssetStep(w, v, a, 0)
<1> DEFINE f == ToFill(w.liquidation[u], pct)
           rest == Remaining(w.liquidation[u], pct)
           coll == OnlyAssets(f.lot)
           liab == OnlyAssets(f.bid)
           moved == MovePositions(w, u, filler, coll, liab)
           settled == IF rest = NoAuction /\ HasBadDebt(moved.positions[u])
                      THEN HandleUserBadDebt(moved, u) ELSE moved
           auctions == [settled.liquidation EXCEPT ![u] = rest]
<1>1. u \in Accounts /\ filler \in Accounts /\ u # filler
  BY AccountsFinite DEF CanFillUserLiquidation
<1>2. /\ w \in Ledger /\ w.liquidation[u] \in Auction \cup {NoAuction}
      /\ now \in Nat /\ CanScale(w.liquidation[u], pct)
      /\ CanRemovePositions(w, u, coll, liab)
  BY LedgerFields DEF WellFormed, GoodSettings, CanFillUserLiquidation
<1>3. f.bid \in [Tokens -> Nat] /\ f.lot \in [Tokens -> Nat]
  BY <1>2, ToFillType
<1>4. coll \in [Assets -> Nat] /\ liab \in [Assets -> Nat]
  BY <1>3, OnlyAssetsType
<1>5. v = [settled EXCEPT !.liquidation = auctions]
  BY DEF FillUserLiquidation
<1> HIDE DEF coll, liab, f, rest, auctions
<1>6. WellFormed(moved) /\ SameTotals(w, moved)
  <2>1. Moved(w, u, filler, coll, liab, moved)
    BY <1>1, <1>2, <1>4, MovedPositions
  <2> QED
    BY <2>1 DEF Moved
<1> HIDE DEF moved
<1>7. SameTotals(w, settled)
  <2>1. CASE settled = moved
    BY <1>6, <2>1
  <2>2. CASE settled = HandleUserBadDebt(moved, u)
    <3> DEFINE x == HandleUserBadDebt(moved, u)
    <3>1. SameTotals(moved, x)
      BY <1>6, HandedOver
    <3> HIDE DEF x
    <3>2. SameTotals(w, x)
      BY <1>6, <3>1, SameTotalsAgain
    <3> QED
      BY <2>2, <3>2 DEF x
  <2> QED
    BY <2>1, <2>2
<1> HIDE DEF settled
<1>8. v.reserves = settled.reserves /\ v.balance = settled.balance
  BY <1>5, <1>7 DEF SameTotals, Ledger
<1> QED
  BY <1>7, <1>8, SharesChangeHands

LEMMA AfterBadDebtBidSteps ==
    ASSUME GoodSettings, NEW w, WellFormed(w), NEW filler \in Users,
           NEW pct, CanFillBadDebt(w, filler, pct),
           NEW bid, bid = AfterBadDebtBid(w, filler, pct)
    PROVE  \A a \in Assets : AssetStep(w, bid, a, 0)
<1> DEFINE f == ToFill(w.bad_debt, pct)
           liab == OnlyAssets(f.bid)
           moved == MovePositions(w, Backstop, filler, NoShares, liab)
           tokens == moved.backstop_tokens - f.lot[BackstopToken]
<1>1. /\ now \in Nat /\ Backstop \in Accounts /\ filler \in Accounts /\ filler # Backstop
      /\ w \in Ledger
  BY AccountsFinite, StateAssumption DEF GoodSettings, WellFormed
<1>2. CanScale(w.bad_debt, pct) /\ w.bad_debt \in Auction \cup {NoAuction}
  BY <1>1, LedgerFields DEF CanFillBadDebt
<1>3. f.bid \in [Tokens -> Nat]
  BY <1>1, <1>2, ToFillType
<1>4. CanRemovePositions(w, Backstop, NoShares, liab)
  BY DEF CanFillBadDebt
<1>5. liab \in [Assets -> Nat] /\ NoShares \in [Assets -> Nat]
  BY <1>3, OnlyAssetsType DEF NoShares
<1>6. bid = [moved EXCEPT !.backstop_tokens = tokens]
  BY DEF AfterBadDebtBid
<1> HIDE DEF f, liab, tokens
<1>7. SameTotals(w, moved)
  <2>1. Moved(w, Backstop, filler, NoShares, liab, moved)
    BY <1>1, <1>4, <1>5, MovedPositions
  <2> QED
    BY <2>1 DEF Moved
<1> HIDE DEF moved
<1>8. bid.reserves = moved.reserves /\ bid.balance = moved.balance
  BY <1>6, <1>7 DEF SameTotals, Ledger
<1> QED
  BY <1>7, <1>8, SharesChangeHands

\* check_and_handle_backstop_bad_debt: the value of the deposits falls.
LEMMA DefaultSteps ==
    ASSUME GoodSettings, NEW w, WellFormed(w), CanDefault(w), NEW v, v = DefaultBackstopDebt(w)
    PROVE  v \in Ledger /\ \A a \in Assets : AssetStep(w, v, a, 0)
<1> DEFINE debt == w.positions[Backstop].liabilities
           l == LoadReserves(w, Held(debt))
           rs == [a \in Assets |-> IF debt[a] > 0 THEN Forgive(l.reserves[a], debt[a]) ELSE l.reserves[a]]
           ps == [l.positions EXCEPT ![Backstop].liabilities = NoShares]
<1>1. Backstop \in Accounts /\ w \in Ledger
  BY AccountsFinite DEF WellFormed
<1>2. debt \in [Assets -> Nat]
  BY <1>1, LedgerFields DEF Positions
<1>3. l \in Ledger /\ l.reserves \in [Assets -> ReserveData] /\ WellFormed(l)
  BY LoadReservesWellFormed, LedgerFields DEF WellFormed
<1>4. /\ l.positions = w.positions /\ l.balance = w.balance
      /\ l.reserves = [a \in Assets |-> IF a \in Held(debt) THEN LoadedReserve(w, a) ELSE w.reserves[a]]
  BY <1>1, LoadReservesFields
<1>5. v \in Ledger
  BY DefaultBackstopDebtWellFormed DEF WellFormed
<1>6. v = [l EXCEPT !.reserves = rs, !.positions = ps]
  <2> HIDE DEF debt
  <2>1. v = [l EXCEPT !.reserves = rs, !.positions[Backstop].liabilities = NoShares]
    BY DEF DefaultBackstopDebt, debt
  <2> HIDE DEF l, rs
  <2> QED
    BY <1>1, <1>3, <2>1 DEF Ledger
<1>7. ASSUME NEW a \in Assets
      PROVE  rs[a] = w.reserves[a] \/ Accepts(LoadedReserve(w, a), rs[a], 0, 0)
  <2>1. debt[a] \in Nat
    BY <1>2
  <2>2. CASE debt[a] > 0
    <3>1. rs[a] = Forgive(l.reserves[a], debt[a]) /\ l.reserves[a] = LoadedReserve(w, a)
      BY <1>4, <2>2 DEF Held
    <3>2. l.reserves[a] \in ReserveData
      BY <1>3
    <3>3. debt[a] <= l.reserves[a].d_supply
      BY <1>1, <1>3, <1>4, PartOfTotal DEF DShares
    <3> HIDE DEF debt, rs, l
    <3>4. /\ l.reserves[a].last_time = now /\ l.reserves[a].b_supply = w.reserves[a].b_supply
      BY <3>1, LoadedIsUpToDate
    <3>5. l.reserves[a].b_supply # 0
      BY <2>2, <3>4 DEF CanDefault, CanWriteOff, Held, debt
    <3>6. l.reserves[a].d_rate > 0
      BY <1>3 DEF WellFormed
    <3> DEFINE r == l.reserves[a]
               d == debt[a]
    <3> HIDE DEF r, d
    <3>7. Accepts(r, Forgive(r, d), 0, 0)
      BY <2>1, <2>2, <3>2, <3>3, <3>4, <3>5, <3>6, ForgiveAccepts DEF r, d
    <3> QED
      BY <3>1, <3>7 DEF r, d
  <2>3. CASE ~(debt[a] > 0)
    BY <1>4, <2>1, <2>3 DEF Held
  <2> QED
    BY <2>2, <2>3
<1> HIDE DEF rs, ps, l
<1>8. v.reserves = rs /\ v.balance = l.balance
  BY <1>3, <1>6 DEF Ledger
<1>9. ASSUME NEW a \in Assets PROVE AssetStep(w, v, a, 0)
  <2>1. v.balance[a] - w.balance[a] = 0
    BY <1>1, <1>4, <1>8, AssetFields
  <2> QED
    BY <1>4, <1>7, <1>8, <2>1 DEF AssetStep
<1> QED
  BY <1>5, <1>9

\* fill of the auction of interest: the credit and the tokens leave together.
LEMMA FillInterestSteps ==
    ASSUME GoodSettings, NEW w, WellFormed(w), NEW filler,
           NEW pct, CanFillInterest(w, filler, pct),
           NEW v, v = FillInterest(w, pct)
    PROVE  \A a \in Assets : AssetStep(w, v, a, 0)
<1> DEFINE f == ToFill(w.interest, pct)
           lot == OnlyAssets(f.lot)
           l == LoadReserves(w, Held(lot))
           rs == [a \in Assets |-> [l.reserves[a] EXCEPT !.backstop_credit = @ - lot[a]]]
           tokens == l.backstop_tokens + f.bid[BackstopToken]
           balance == Sub(l.balance, lot)
           rest == Remaining(w.interest, pct)
<1>1. w \in Ledger /\ now \in Nat
  BY DEF WellFormed, GoodSettings
<1>2. CanScale(w.interest, pct) /\ w.interest \in Auction \cup {NoAuction}
  BY <1>1, LedgerFields DEF CanFillInterest
<1>3. f.lot \in [Tokens -> Nat]
  BY <1>1, <1>2, ToFillType
<1>4. lot \in [Assets -> Nat]
  BY <1>3, OnlyAssetsType
<1>5. v = [l EXCEPT !.backstop_tokens = tokens, !.reserves = rs, !.balance = balance,
                    !.interest = rest]
  BY DEF FillInterest
<1> HIDE DEF f, lot, rest
<1>6. /\ l \in Ledger /\ l.balance = w.balance
      /\ l.reserves = [a \in Assets |-> IF a \in Held(lot) THEN LoadedReserve(w, a) ELSE w.reserves[a]]
  BY <1>1, LoadReservesWellFormed, LoadReservesFields DEF WellFormed
<1> HIDE DEF l
<1>7. ASSUME NEW a \in Assets
      PROVE  /\ balance[a] = w.balance[a] - lot[a] /\ lot[a] \in Nat
             /\ \/ rs[a] = w.reserves[a] /\ lot[a] = 0
                \/ Accepts(LoadedReserve(w, a), rs[a], -lot[a], 0)
  <2>1. /\ w.reserves[a] \in ReserveData /\ l.reserves[a] \in ReserveData /\ lot[a] \in Nat
        /\ rs[a] = [l.reserves[a] EXCEPT !.backstop_credit = @ - lot[a]]
    BY <1>1, <1>4, <1>6, LedgerFields
  <2>2. balance[a] = w.balance[a] - lot[a]
    BY <1>6 DEF Sub
  <2> HIDE DEF rs, balance
  <2>3. CASE lot[a] > 0
    <3> DEFINE r == LoadedReserve(w, a)
               n == lot[a]
    <3>1. l.reserves[a] = r
      BY <1>6, <2>3 DEF Held
    <3>2. r \in ReserveData /\ r.last_time = now
      BY LoadedIsUpToDate
    <3>3. rs[a] = [r EXCEPT !.backstop_credit = @ - n]
      BY <2>1, <3>1
    <3>4. n \in Nat
      BY <2>1
    <3> HIDE DEF r, n
    <3>5. Accepts(r, rs[a], -n, 0)
      BY <3>2, <3>3, <3>4, CreditSoldAccepts
    <3> QED
      BY <2>1, <2>2, <3>5 DEF r, n
  <2>4. CASE ~(lot[a] > 0)
    <3>1. lot[a] = 0 /\ l.reserves[a] = w.reserves[a]
      BY <1>6, <2>1, <2>4 DEF Held
    <3>2. rs[a] = w.reserves[a]
      BY <2>1, <3>1 DEF ReserveData
    <3> QED
      BY <2>1, <2>2, <3>1, <3>2
  <2> QED
    BY <2>3, <2>4
<1> HIDE DEF rs, tokens, balance
<1>8. v.reserves = rs /\ v.balance = balance
  BY <1>5, <1>6 DEF Ledger
<1>9. ASSUME NEW a \in Assets PROVE AssetStep(w, v, a, 0)
  <2>1. w.balance[a] \in Int
    BY <1>1, AssetFields
  <2>2. /\ v.balance[a] - w.balance[a] = -lot[a]
        /\ lot[a] = 0 => v.balance[a] = w.balance[a]
    BY <1>7, <1>8, <2>1
  <2> QED
    BY <1>7, <1>8, <2>2 DEF AssetStep
<1> QED
  BY <1>9

\* The working copy becomes w and nothing is noted.
LEMMA ProceedWithSince ==
    ASSUME SafeInv, call # NoCall, NEW w, NEW checked, ProceedWith(w, checked),
           \A a \in Assets : AssetSince(ledger, w, a, Flow(call, a))
    PROVE  Solvent(ledger, call)'
<1> DEFINE n == call.requests + 1
           check == call.check_health \/ checked
<1>1. call \in Call
  BY DEF SafeInv, PoolInv, TypeOK
<1>2. /\ call' = [call EXCEPT !.ledger = w, !.requests = n, !.check_health = check]
      /\ UNCHANGED <<now, config, ledger>>
  BY DEF ProceedWith
<1> HIDE DEF n, check
<1>3. /\ call'.ledger = w /\ call'.spender_transfer = call.spender_transfer
      /\ call'.pool_transfer = call.pool_transfer /\ call'.flash = call.flash
  BY <1>1, <1>2 DEF Call
<1>4. \A a \in Assets : Flow(call', a) = Flow(call, a)
  BY <1>3 DEF Flow
<1>5. Solvent(ledger, call')
  BY <1>3, <1>4 DEF Solvent
<1> QED
  BY <1>2, <1>5, SolventLater

LEMMA FillBadDebtSince ==
    ASSUME GoodSettings, NEW l, WellFormed(l), NEW w, WellFormed(w), NEW filler \in Users,
           NEW pct, CanFillBadDebt(w, filler, pct),
           NEW v, v = FillBadDebt(w, filler, pct),
           NEW a \in Assets, NEW k \in Int, AssetSince(l, w, a, k)
    PROVE  AssetSince(l, v, a, k)
<1> DEFINE bid == AfterBadDebtBid(w, filler, pct)
           rest == Remaining(w.bad_debt, pct)
           defaulting == rest = NoAuction /\ MustDefault(bid)
           settled == IF defaulting THEN DefaultBackstopDebt(bid) ELSE bid
<1>1. v = [settled EXCEPT !.bad_debt = rest]
  BY DEF FillBadDebt
<1>2. defaulting => CanDefault(bid)
  BY DEF CanFillBadDebt
<1>3. WellFormed(bid) /\ bid \in Ledger /\ AssetStep(w, bid, a, 0)
  BY AfterBadDebtBidIs, AfterBadDebtBidSteps
<1> HIDE DEF bid, rest, defaulting
<1>4. k + 0 = k
  OBVIOUS
<1>5. AssetSince(l, bid, a, k)
  <2>1. AssetSince(l, bid, a, k + 0)
    BY <1>3, AssetStepSince
  <2> QED
    BY <1>4, <2>1
<1>6. settled \in Ledger /\ AssetSince(l, settled, a, k)
  <2>1. CASE defaulting
    <3> DEFINE d == DefaultBackstopDebt(bid)
    <3>1. d \in Ledger /\ AssetStep(bid, d, a, 0)
      BY <1>2, <1>3, <2>1, DefaultSteps
    <3> HIDE DEF d
    <3>2. AssetSince(l, d, a, k + 0)
      BY <1>3, <1>5, <3>1, AssetStepSince
    <3> QED
      BY <1>4, <2>1, <3>1, <3>2 DEF d
  <2>2. CASE ~defaulting
    BY <1>3, <1>5, <2>2
  <2> QED
    BY <2>1, <2>2
<1> HIDE DEF settled
<1>7. v.reserves = settled.reserves /\ v.balance = settled.balance
  BY <1>1, <1>6 DEF Ledger
<1> QED
  BY <1>6, <1>7 DEF AssetSince

LEMMA AuctionRequestsSolvent ==
    ASSUME SolvencyInv, NEW req,
           \/ FillUserLiquidationAuction(req) \/ FillBadDebtAuction(req)
           \/ FillInterestAuction(req) \/ DeleteLiquidationAuction(req)
    PROVE  Solvent(ledger, call)'
<1> DEFINE w == call.ledger
           f == call.from
<1>0. SafeInv /\ (call # NoCall => Solvent(ledger, call))
  BY DEF SolvencyInv
<1>1. ASSUME FillUserLiquidationAuction(req) PROVE Solvent(ledger, call)'
  <2> DEFINE v == FillUserLiquidation(w, req.address, f, req.amount)
  <2>1. /\ Requesting(req, "FillUserLiquidationAuction") /\ req.address \in Users
        /\ CanFillUserLiquidation(w, req.address, f, req.amount)
        /\ ProceedWith(v, TRUE)
    BY <1>1 DEF FillUserLiquidationAuction
  <2>2. call # NoCall /\ f \in Users /\ GoodSettings /\ WellFormed(w)
    BY <1>0, <2>1, AuctionRequestFinds
  <2>3. v \in Ledger /\ \A a \in Assets : AssetStep(w, v, a, 0)
    BY <2>1, <2>2, FillUserLiquidationWellFormed, FillUserLiquidationSteps DEF WellFormed
  <2> HIDE DEF v
  <2> QED
    BY <1>0, <2>1, <2>2, <2>3, ProceedWithSolvent
<1>2. ASSUME FillBadDebtAuction(req) PROVE Solvent(ledger, call)'
  <2> DEFINE v == FillBadDebt(w, f, req.amount)
  <2>1. /\ Requesting(req, "FillBadDebtAuction")
        /\ CanFillBadDebt(w, f, req.amount)
        /\ ProceedWith(v, TRUE)
    BY <1>2 DEF FillBadDebtAuction
  <2>2. call # NoCall /\ f \in Users /\ GoodSettings /\ WellFormed(w)
    BY <1>0, <2>1, AuctionRequestFinds
  <2>3. call \in Call /\ WellFormed(ledger)
    BY <1>0, <2>2 DEF SafeInv, PoolInv, TypeOK
  <2>4. ASSUME NEW a \in Assets PROVE AssetSince(ledger, v, a, Flow(call, a))
    <3>1. Flow(call, a) \in Int /\ AssetSince(ledger, w, a, Flow(call, a))
      BY <1>0, <2>2, <2>3, FlowInt DEF Solvent
    <3> DEFINE k == Flow(call, a)
    <3> HIDE DEF k
    <3>2. AssetSince(ledger, v, a, k)
      BY <2>1, <2>2, <2>3, <3>1, FillBadDebtSince DEF k
    <3> QED
      BY <3>2 DEF k
  <2> HIDE DEF v
  <2> QED
    BY <1>0, <2>1, <2>2, <2>4, ProceedWithSince
<1>3. ASSUME FillInterestAuction(req) PROVE Solvent(ledger, call)'
  <2> DEFINE v == FillInterest(w, req.amount)
  <2>1. /\ Requesting(req, "FillInterestAuction")
        /\ CanFillInterest(w, f, req.amount)
        /\ ProceedWith(v, FALSE)
    BY <1>3 DEF FillInterestAuction
  <2>2. call # NoCall /\ f \in Users /\ GoodSettings /\ WellFormed(w)
    BY <1>0, <2>1, AuctionRequestFinds
  <2>3. v \in Ledger /\ \A a \in Assets : AssetStep(w, v, a, 0)
    BY <2>1, <2>2, FillInterestWellFormed, FillInterestSteps DEF WellFormed
  <2> HIDE DEF v
  <2> QED
    BY <1>0, <2>1, <2>2, <2>3, ProceedWithSolvent
<1>4. ASSUME DeleteLiquidationAuction(req) PROVE Solvent(ledger, call)'
  <2> DEFINE auctions == [w.liquidation EXCEPT ![f] = NoAuction]
             v == [w EXCEPT !.liquidation[f] = NoAuction]
  <2>1. Requesting(req, "DeleteLiquidationAuction") /\ ProceedWith(v, TRUE)
    BY <1>4 DEF DeleteLiquidationAuction
  <2>2. call # NoCall /\ f \in Users /\ GoodSettings /\ WellFormed(w)
    BY <1>0, <2>1, AuctionRequestFinds
  <2>3. v = [w EXCEPT !.liquidation = auctions]
    OBVIOUS
  <2> HIDE DEF v, auctions
  <2>4. v.reserves = w.reserves /\ v.balance = w.balance
    BY <2>2, <2>3 DEF WellFormed, Ledger
  <2>5. \A a \in Assets : AssetSince(ledger, v, a, Flow(call, a))
    BY <1>0, <2>2, <2>4 DEF Solvent, AssetSince
  <2> QED
    BY <1>0, <2>1, <2>2, <2>5, ProceedWithSince
<1> QED
  BY <1>1, <1>2, <1>3, <1>4

LEMMA RequestStepSolvent ==
    ASSUME SolvencyInv, RequestStep
    PROVE  Solvent(ledger, call)'
  BY SuppliesSolvent, WithdrawSolvent, WithdrawCollateralSolvent, BorrowSolvent,
     RepaySolvent, AuctionRequestsSolvent DEF RequestStep

-----------------------------------------------------------------------------
(* Beginning an invocation.                                                *)

LEMMA BeginSolvent ==
    ASSUME SolvencyInv, Begin
    PROVE  Solvent(ledger, call)'
<1>1. PoolInv /\ GoodSettings /\ WellFormed(ledger) /\ ledger \in Ledger
  BY DEF SolvencyInv, SafeInv, PoolInv, WellFormed
<1>2. \A a \in Assets : NoShares[a] = 0
  BY DEF NoShares
<1>3. ASSUME NEW u \in Users, BeginSubmit(u)
      PROVE  Solvent(ledger, call)'
  <2> DEFINE n == NewCall(u, ledger)
  <2>1. call' = n /\ UNCHANGED <<now, config, ledger>>
    BY <1>3 DEF BeginSubmit
  <2>2. /\ n.ledger = ledger /\ n.spender_transfer = NoShares
        /\ n.pool_transfer = NoShares /\ n.flash = NoShares
    BY DEF NewCall
  <2> HIDE DEF n
  <2>3. \A a \in Assets : Flow(n, a) = 0
    BY <1>2, <2>2 DEF Flow
  <2>4. Solvent(ledger, n)
    BY <1>1, <2>2, <2>3, NothingMoved DEF Solvent
  <2> QED
    BY <2>1, <2>4, SolventLater
<1>4. ASSUME NEW u \in Users, NEW a \in Assets, NEW amount \in FlashLoans,
             BeginFlashLoan(u, a, amount)
      PROVE  Solvent(ledger, call)'
  <2> DEFINE l == LoadReserves(ledger, {a})
             minted == ToDTokenUp(l.reserves[a], amount)
             w == AddLiabilities(l, u, a, minted)
             n == NewCall(u, w)
             loan == [NoShares EXCEPT ![a] = amount]
             begun == [n EXCEPT !.flash = loan, !.check_health = TRUE, !.check_max_util = {a}]
  <2>1. amount \in Nat /\ u \in Accounts
    BY PoolAssumption, AccountsFinite
  <2>2. /\ call' = [n EXCEPT !.flash[a] = amount, !.check_health = TRUE, !.check_max_util = {a}]
        /\ UNCHANGED <<now, config, ledger>>
        /\ minted > 0 /\ BelowFull(w.reserves[a])
    BY <1>4 DEF BeginFlashLoan
  <2>3. l = LoadReserves(ledger, {a}) /\ minted = ToDTokenUp(l.reserves[a], amount)
    OBVIOUS
  <2> HIDE DEF l, minted
  <2>4. w = AddLiabilities(l, u, a, minted)
    OBVIOUS
  <2> HIDE DEF w
  <2>5. /\ w \in Ledger
        /\ StepOn(ledger, w, a, -amount)
    BY <1>1, <2>1, <2>2, <2>3, <2>4, BorrowSteps
  <2>6. n \in Call /\ n.ledger = w
    BY <1>1, <2>5, NewCallType
  <2>7. n.spender_transfer = NoShares /\ n.pool_transfer = NoShares /\ n.flash = NoShares
    BY DEF NewCall
  <2> HIDE DEF n
  <2>8. call' = begun
    BY <2>2, <2>7
  <2> HIDE DEF loan
  <2>9. /\ begun.ledger = w /\ begun.spender_transfer = NoShares
        /\ begun.pool_transfer = NoShares /\ begun.flash = loan
    BY <2>6, <2>7 DEF Call
  <2> HIDE DEF begun
  <2>10. ASSUME NEW c \in Assets
         PROVE  AssetSince(ledger, w, c, Flow(begun, c))
    <3> DEFINE j == IF c = a THEN -amount ELSE 0
    <3>1. loan[c] = IF c = a THEN amount ELSE 0
      BY <1>2 DEF loan, NoShares
    <3>2. j \in Int /\ 0 + j = j /\ Flow(begun, c) = j
      BY <1>2, <2>1, <2>9, <3>1 DEF Flow
    <3>3. AssetStep(ledger, w, c, j)
      BY <2>5 DEF StepOn
    <3> HIDE DEF j
    <3>4. AssetSince(ledger, ledger, c, 0)
      BY <1>1, NothingMoved
    <3>5. AssetSince(ledger, w, c, 0 + j)
      BY <1>1, <2>5, <3>2, <3>3, <3>4, AssetStepSince
    <3> QED
      BY <3>2, <3>5
  <2>11. Solvent(ledger, begun)
    BY <2>9, <2>10 DEF Solvent
  <2> QED
    BY <2>2, <2>8, <2>11, SolventLater
<1> QED
  BY <1>3, <1>4 DEF Begin

-----------------------------------------------------------------------------
(* What a step makes of the stored ledger l: x.                            *)

GrowsNot(l, x, a) ==
    \/ Deficit(x, a) <= 0
    \/ Deficit(x, a) <= Deficit(l, a)
    \/ x.reserves[a].b_rate = 0

Reserved(l, x, a) ==
    LET loaded == LoadedReserve(l, a)
        r == x.reserves[a]
    IN (/\ Deficit(l, a) <= 0
        /\ r.b_rate >= loaded.b_rate
        /\ x.balance[a] < l.balance[a]
        /\ x.balance[a] - r.backstop_credit < l.balance[a] - loaded.backstop_credit)
       => x.balance[a] >= r.backstop_credit

Ends(l, x) == \A a \in Assets : GrowsNot(l, x, a) /\ Reserved(l, x, a)

LEMMA DeficitIs ==
    ASSUME NEW l \in Ledger, NEW a \in Assets
    PROVE  /\ Deficit(l, a) = Net(l.reserves[a]) - l.balance[a]
           /\ Net(l.reserves[a]) \in Int /\ l.balance[a] \in Int /\ Deficit(l, a) \in Int
<1>1. /\ TotalSupply(l.reserves[a]) \in Nat /\ TotalLiabilities(l.reserves[a]) \in Nat
      /\ l.reserves[a].backstop_credit \in Int /\ l.balance[a] \in Int
  BY AssetFields, TotalsNat
<1> QED
  BY <1>1 DEF Deficit, Net

LEMMA SinceEnds ==
    ASSUME GoodSettings, NEW l, WellFormed(l), NEW w \in Ledger, NEW x \in Ledger,
           NEW a \in Assets, NEW k \in Int, AssetSince(l, w, a, k),
           x.reserves[a] = w.reserves[a], x.balance[a] = w.balance[a] + k
    PROVE  GrowsNot(l, x, a) /\ Reserved(l, x, a)
<1> DEFINE r == x.reserves[a]
           loaded == LoadedReserve(l, a)
<1>1. l \in Ledger /\ w.balance[a] \in Int
  BY AssetFields DEF WellFormed
<1>2. /\ Deficit(l, a) = Net(l.reserves[a]) - l.balance[a]
      /\ Net(l.reserves[a]) \in Int /\ l.balance[a] \in Int
  BY <1>1, DeficitIs
<1>3. Deficit(x, a) = Net(r) - x.balance[a] /\ Net(r) \in Int /\ x.balance[a] \in Int
  BY DeficitIs
<1>4. r \in ReserveData /\ loaded \in ReserveData
  BY AssetFields, LoadedIsUpToDate
<1>5. /\ r.b_rate \in Nat /\ r.backstop_credit \in Int
      /\ loaded.b_rate \in Nat /\ loaded.backstop_credit \in Int
      /\ TotalSupply(r) \in Nat /\ TotalLiabilities(r) \in Nat
  BY <1>4, TotalsNat DEF ReserveData
<1>6. Favours(l.reserves[a], r, x.balance[a] - l.balance[a])
  <2>1. k + (w.balance[a] - l.balance[a]) = x.balance[a] - l.balance[a]
    BY <1>1, <1>2
  <2> QED
    BY <2>1 DEF AssetSince
<1>7. Dead(r) \/ Deficit(x, a) <= Deficit(l, a)
  BY <1>2, <1>3, <1>6 DEF Favours
<1>8. GrowsNot(l, x, a)
  BY <1>7 DEF GrowsNot, Dead
<1>9. ASSUME Deficit(l, a) <= 0, r.b_rate >= loaded.b_rate,
             x.balance[a] - r.backstop_credit < l.balance[a] - loaded.backstop_credit,
             x.balance[a] < l.balance[a]
      PROVE  x.balance[a] >= r.backstop_credit
  <2>1. ~(w.balance[a] = l.balance[a] /\ k = 0)
    BY <1>1, <1>2, <1>9
  <2>2. /\ w.balance[a] - r.backstop_credit = l.balance[a] - loaded.backstop_credit
        /\ k >= 0 \/ r.b_rate < loaded.b_rate \/ Whole(r)
    BY <2>1 DEF AssetSince
  <2>3. k < 0
    BY <1>1, <1>2, <1>5, <1>9, <2>2
  <2>4. Whole(r)
    BY <1>5, <1>9, <2>2, <2>3
  <2>5. Net(r) >= r.backstop_credit /\ ~Dead(r)
    BY <1>5, <2>4 DEF Net, Whole, Dead
  <2> QED
    BY <1>2, <1>3, <1>5, <1>7, <1>9, <2>5
<1>10. Reserved(l, x, a)
  BY <1>9 DEF Reserved
<1> QED
  BY <1>8, <1>10

LEMMA SameEnds ==
    ASSUME NEW l \in Ledger, NEW x, x.reserves = l.reserves, x.balance = l.balance
    PROVE  Ends(l, x)
<1> SUFFICES ASSUME NEW a \in Assets
             PROVE  GrowsNot(l, x, a) /\ Reserved(l, x, a)
  BY DEF Ends
<1>1. Deficit(l, a) \in Int /\ l.balance[a] \in Int
  BY DeficitIs
<1>2. Deficit(x, a) = Deficit(l, a)
  BY DEF Deficit
<1> QED
  BY <1>1, <1>2 DEF GrowsNot, Reserved

\* An entry point that moves no tokens, and each reserve in one step at most.
LEMMA StepEnds ==
    ASSUME GoodSettings, NEW l, WellFormed(l), NEW x \in Ledger,
           \A a \in Assets : AssetStep(l, x, a, 0)
    PROVE  Ends(l, x)
<1> SUFFICES ASSUME NEW a \in Assets
             PROVE  GrowsNot(l, x, a) /\ Reserved(l, x, a)
  BY DEF Ends
<1>1. AssetSince(l, x, a, 0 + 0)
  BY NothingMoved, AssetStepSince
<1>2. AssetSince(l, x, a, 0)
  BY <1>1
<1>3. x.balance[a] = x.balance[a] + 0
  BY AssetFields
<1> QED
  BY <1>2, <1>3, SinceEnds

LEMMA TotalsEnd ==
    ASSUME GoodSettings, NEW l, WellFormed(l), NEW x, SameTotals(l, x)
    PROVE  Ends(l, x)
<1>1. x \in Ledger /\ \A a \in Assets : AssetStep(l, x, a, 0)
  BY SameTotalsStep DEF SameTotals
<1> QED
  BY <1>1, StepEnds

-----------------------------------------------------------------------------
(* Ending an invocation, and the entry points.                             *)

LEMMA CommitEnds ==
    ASSUME SolvencyInv, PoolInv', Commit
    PROVE  Ends(ledger, ledger')
<1> DEFINE w == call.ledger
           b == BalancesAfter
<1>1. /\ call # NoCall /\ Solvent(ledger, call)
      /\ ledger' = [w EXCEPT !.balance = b]
  BY DEF Commit, SolvencyInv
<1>2. /\ GoodSettings /\ WellFormed(ledger) /\ w \in Ledger /\ call \in Call
  BY <1>1 DEF SolvencyInv, SafeInv, PoolInv, TypeOK, WellFormed
<1>3. ledger' \in Ledger
  BY DEF PoolInv, TypeOK
<1>4. ASSUME NEW a \in Assets
      PROVE  b[a] = w.balance[a] + Flow(call, a) /\ Flow(call, a) \in Int
  <2>1. w.balance[a] \in Int
    BY <1>2, AssetFields
  <2>2. /\ call.spender_transfer[a] \in Nat /\ call.pool_transfer[a] \in Nat
        /\ call.flash[a] \in Nat /\ Flow(call, a) \in Int
    BY <1>2, FlowInt
  <2>3. b[a] = w.balance[a] - call.flash[a] + call.spender_transfer[a] - call.pool_transfer[a]
    BY DEF BalancesAfter
  <2> HIDE DEF b
  <2> QED
    BY <2>1, <2>2, <2>3 DEF Flow
<1> HIDE DEF b
<1>5. ASSUME NEW x, ledger' = x
      PROVE  Ends(ledger, x)
  <2>1. x \in Ledger /\ x.reserves = w.reserves /\ x.balance = b
    BY <1>1, <1>2, <1>3, <1>5 DEF Ledger
  <2> SUFFICES ASSUME NEW a \in Assets
               PROVE  GrowsNot(ledger, x, a) /\ Reserved(ledger, x, a)
    BY DEF Ends
  <2> DEFINE k == Flow(call, a)
  <2>2. k \in Int /\ AssetSince(ledger, w, a, k) /\ x.balance[a] = w.balance[a] + k
    BY <1>1, <1>4, <2>1 DEF Solvent
  <2> HIDE DEF k, w
  <2>3. x.reserves[a] = w.reserves[a]
    BY <2>1
  <2> QED
    BY <1>2, <2>1, <2>2, <2>3, SinceEnds
<1> QED
  BY <1>5

\* del_auction and the creation of auctions store no reserve and move no tokens.
LEMMA AuctionStepEnds ==
    ASSUME SafeInv, AuctionStep
    PROVE  Ends(ledger, ledger')
<1> DEFINE l == ledger
<1>1. l \in Ledger
  BY DEF SafeInv, PoolInv, WellFormed
<1>2. ASSUME NEW x, ledger' = x,
             \/ \E au : x = [l EXCEPT !.liquidation = au]
             \/ \E au : x = [l EXCEPT !.bad_debt = au]
             \/ \E au : x = [l EXCEPT !.interest = au]
      PROVE  Ends(ledger, ledger')
  <2> HIDE DEF l
  <2>1. x.reserves = l.reserves /\ x.balance = l.balance
    BY <1>1, <1>2 DEF Ledger
  <2> QED
    BY <1>1, <1>2, <2>1, SameEnds DEF l
<1>3. ASSUME NEW u, NEW n, Writes([l EXCEPT !.liquidation[u] = n])
      PROVE  Ends(ledger, ledger')
  <2> DEFINE au == [l.liquidation EXCEPT ![u] = n]
             x == [l EXCEPT !.liquidation = au]
  <2>1. ledger' = x
    BY <1>3 DEF Writes
  <2>2. \E y : x = [l EXCEPT !.liquidation = y]
    OBVIOUS
  <2> HIDE DEF x
  <2> QED
    BY <1>2, <2>1, <2>2
<1>4. ASSUME NEW n, Writes([l EXCEPT !.bad_debt = n])
      PROVE  Ends(ledger, ledger')
  <2> DEFINE x == [l EXCEPT !.bad_debt = n]
  <2>1. ledger' = x
    BY <1>4 DEF Writes
  <2>2. \E y : x = [l EXCEPT !.bad_debt = y]
    OBVIOUS
  <2> HIDE DEF x
  <2> QED
    BY <1>2, <2>1, <2>2
<1>5. ASSUME NEW n, Writes([l EXCEPT !.interest = n])
      PROVE  Ends(ledger, ledger')
  <2> DEFINE x == [l EXCEPT !.interest = n]
  <2>1. ledger' = x
    BY <1>5 DEF Writes
  <2>2. \E y : x = [l EXCEPT !.interest = y]
    OBVIOUS
  <2> HIDE DEF x
  <2> QED
    BY <1>2, <2>1, <2>2
<1>6. ASSUME NEW u, NEW bid, NEW lot, NEW percent, NewUserLiquidation(u, bid, lot, percent)
      PROVE  Ends(ledger, ledger')
  BY <1>3, <1>6 DEF NewUserLiquidation, CreateUserLiquidation
<1>7. ASSUME NEW bid, NewBadDebtAuction(bid)
      PROVE  Ends(ledger, ledger')
  BY <1>4, <1>7 DEF NewBadDebtAuction, CreateBadDebt
<1>8. ASSUME NEW lot, NewInterestAuction(lot)
      PROVE  Ends(ledger, ledger')
  BY <1>5, <1>8 DEF NewInterestAuction, CreateInterest
<1>9. ASSUME NEW u, DeleteStaleLiquidation(u)
      PROVE  Ends(ledger, ledger')
  BY <1>3, <1>9 DEF DeleteStaleLiquidation
<1>10. ASSUME DeleteStaleBadDebt
       PROVE  Ends(ledger, ledger')
  BY <1>4, <1>10 DEF DeleteStaleBadDebt
<1>11. ASSUME DeleteStaleInterest
       PROVE  Ends(ledger, ledger')
  BY <1>5, <1>11 DEF DeleteStaleInterest
<1> QED
  BY <1>6, <1>7, <1>8, <1>9, <1>10, <1>11 DEF AuctionStep, LiquidationStep, OtherAuctionStep

LEMMA BadDebtEnds ==
    ASSUME SafeInv, NEW u \in Accounts, BadDebt(u)
    PROVE  Ends(ledger, ledger')
<1>1. GoodSettings /\ WellFormed(ledger)
  BY DEF SafeInv, PoolInv
<1>2. CASE u = Backstop
  <2> DEFINE v == DefaultBackstopDebt(ledger)
  <2>1. CanDefault(ledger) /\ ledger' = v
    BY <1>2 DEF BadDebt, Writes
  <2>2. v \in Ledger /\ \A a \in Assets : AssetStep(ledger, v, a, 0)
    BY <1>1, <2>1, DefaultSteps
  <2> HIDE DEF v
  <2> QED
    BY <1>1, <2>1, <2>2, StepEnds
<1>3. CASE u # Backstop
  <2> DEFINE v == HandleUserBadDebt(ledger, u)
  <2>1. u \in Users /\ ledger' = v
    BY <1>3 DEF BadDebt, Writes, Accounts
  <2>2. SameTotals(ledger, v)
    BY <1>1, <2>1, HandedOver
  <2> HIDE DEF v
  <2> QED
    BY <1>1, <2>1, <2>2, TotalsEnd
<1> QED
  BY <1>2, <1>3

\* gulp credits the backstop with what nobody claims, and no more.
LEMMA GulpEnds ==
    ASSUME SafeInv, NEW a \in Assets, Gulp(a)
    PROVE  Ends(ledger, ledger')
<1> DEFINE l == LoadReserves(ledger, {a})
           r == l.reserves[a]
           credit == r.backstop_credit + Excess(l, a)
           s == [r EXCEPT !.backstop_credit = credit]
           rs == [l.reserves EXCEPT ![a] = s]
           w == [l EXCEPT !.reserves = rs]
<1>1. GoodSettings /\ WellFormed(ledger) /\ ledger \in Ledger
  BY DEF SafeInv, PoolInv, WellFormed
<1>2. ledger' = w
  <2>1. ledger' = [l EXCEPT !.reserves[a].backstop_credit = @ + Excess(l, a)]
    BY DEF Gulp, Writes
  <2> HIDE DEF l
  <2> QED
    BY <2>1
<1>3. l \in Ledger /\ l.balance = ledger.balance /\ SameTotals(ledger, l)
  BY <1>1, LoadReservesWellFormed, LoadReservesFields, LoadReservesSameTotals DEF WellFormed
<1>4. \A c \in Assets \ {a} : l.reserves[c] = ledger.reserves[c]
  <2>1. l.reserves = [c \in Assets |-> IF c \in {a} THEN LoadedReserve(ledger, c) ELSE ledger.reserves[c]]
    BY <1>1, LoadReservesFields
  <2> HIDE DEF l
  <2> QED
    BY <2>1
<1> HIDE DEF l
<1>5. /\ l.reserves \in [Assets -> ReserveData] /\ r \in ReserveData
      /\ l.balance[a] \in Int
  BY <1>3, LedgerFields, AssetFields
<1>6. r.backstop_credit \in Int /\ TotalSupply(r) \in Nat /\ TotalLiabilities(r) \in Nat
  BY <1>5, TotalsNat DEF ReserveData
<1>7. credit \in Int /\ TotalSupply(r) + credit - TotalLiabilities(r) = l.balance[a]
  BY <1>5, <1>6 DEF Excess
<1> HIDE DEF credit
<1>8. /\ s.b_supply = r.b_supply /\ s.d_supply = r.d_supply
      /\ s.b_rate = r.b_rate /\ s.d_rate = r.d_rate /\ s.backstop_credit = credit
  BY <1>5 DEF ReserveData
<1> HIDE DEF s
<1>9. TotalSupply(s) = TotalSupply(r) /\ TotalLiabilities(s) = TotalLiabilities(r)
  BY <1>8 DEF TotalSupply, TotalLiabilities, ToAssetFromB, ToAssetFromD
<1>10. rs[a] = s /\ \A c \in Assets \ {a} : rs[c] = ledger.reserves[c]
  BY <1>4, <1>5
<1> HIDE DEF rs
<1>11. w.reserves = rs /\ w.balance = ledger.balance
  BY <1>3 DEF Ledger
<1> HIDE DEF w
<1>12. ASSUME NEW c \in Assets
       PROVE  GrowsNot(ledger, w, c) /\ Reserved(ledger, w, c)
  <2>1. ledger.balance[c] \in Int /\ Deficit(ledger, c) \in Int
    BY <1>1, DeficitIs
  <2>2. w.balance[c] = ledger.balance[c]
    BY <1>11
  <2>3. Reserved(ledger, w, c)
    BY <2>1, <2>2 DEF Reserved
  <2>4. CASE c = a
    <3>1. w.reserves[a] = s /\ w.balance[a] = l.balance[a]
      BY <1>3, <1>10, <1>11
    <3>2. Deficit(w, a) = 0
      BY <1>5, <1>6, <1>7, <1>8, <1>9, <3>1 DEF Deficit
    <3> QED
      BY <2>3, <2>4, <3>2 DEF GrowsNot
  <2>5. CASE c # a
    <3>1. w.reserves[c] = ledger.reserves[c]
      BY <1>10, <1>11, <2>5
    <3>2. Deficit(w, c) = Deficit(ledger, c)
      BY <2>2, <3>1 DEF Deficit
    <3> QED
      BY <2>1, <2>3, <3>2 DEF GrowsNot
  <2> QED
    BY <2>4, <2>5
<1> QED
  BY <1>2, <1>12 DEF Ends

LEMMA UpdatePoolEnds ==
    ASSUME SafeInv, NEW limits \in PoolConfigs, UpdatePool(limits)
    PROVE  Ends(ledger, ledger')
<1>1. GoodSettings /\ WellFormed(ledger) /\ ledger \in Ledger
  BY DEF SafeInv, PoolInv, WellFormed
<1>2. CASE ledger' = ledger
  BY <1>1, <1>2, SameEnds
<1>3. CASE ledger' = LoadReserves(ledger, Assets)
  <2> DEFINE v == LoadReserves(ledger, Assets)
  <2>1. SameTotals(ledger, v)
    BY <1>1, LoadReservesSameTotals
  <2> HIDE DEF v
  <2>2. Ends(ledger, v)
    BY <1>1, <2>1, TotalsEnd
  <2> QED
    BY <1>3, <2>2 DEF v
<1> QED
  BY <1>2, <1>3 DEF UpdatePool

LEMMA SetReserveEnds ==
    ASSUME SafeInv, NEW a \in Assets, SetReserve(a)
    PROVE  Ends(ledger, ledger')
<1> DEFINE l == LoadReserves(ledger, {a})
           r == l.reserves[a]
           s == [r EXCEPT !.ir_mod = Scalar7]
           rs == [l.reserves EXCEPT ![a] = s]
           w == [l EXCEPT !.reserves = rs]
<1>1. GoodSettings /\ WellFormed(ledger) /\ ledger \in Ledger
  BY DEF SafeInv, PoolInv, WellFormed
<1>2. l \in Ledger /\ SameTotals(ledger, l)
  BY <1>1, LoadReservesSameTotals, LoadReservesWellFormed DEF WellFormed
<1>3. ledger' = w \/ ledger' = l
  <2>1. \/ ledger' = [l EXCEPT !.reserves[a].ir_mod = Scalar7]
        \/ ledger' = l
    BY DEF SetReserve
  <2> HIDE DEF l
  <2> QED
    BY <2>1
<1>4. r = LoadedReserve(ledger, a)
  <2>1. l.reserves = [c \in Assets |-> IF c \in {a} THEN LoadedReserve(ledger, c) ELSE ledger.reserves[c]]
    BY <1>1, LoadReservesFields
  <2> HIDE DEF l
  <2> QED
    BY <2>1
<1> HIDE DEF l
<1>5. /\ l.reserves \in [Assets -> ReserveData] /\ r \in ReserveData
  BY <1>2, LedgerFields
<1>6. /\ s \in ReserveData /\ SameValue(r, s)
      /\ s.b_supply = r.b_supply /\ s.d_supply = r.d_supply
  BY <1>5, ScalarsPositive DEF ReserveData, SameValue
<1> HIDE DEF s
<1>7. /\ rs \in [Assets -> ReserveData] /\ rs[a] = s
      /\ \A c \in Assets \ {a} : rs[c] = l.reserves[c]
  BY <1>5, <1>6
<1> HIDE DEF rs
<1>8. /\ w \in Ledger /\ w.reserves = rs
      /\ w.liquidation = l.liquidation /\ w.bad_debt = l.bad_debt
      /\ w.interest = l.interest /\ w.backstop_tokens = l.backstop_tokens
      /\ w.balance = l.balance
  BY <1>2, <1>7 DEF Ledger
<1> HIDE DEF w
<1>9. SameTotals(ledger, w)
  <2>1. ASSUME NEW c \in Assets
        PROVE  /\ w.reserves[c] = ledger.reserves[c]
                    \/ SameValue(LoadedReserve(ledger, c), w.reserves[c])
               /\ w.reserves[c].d_supply = ledger.reserves[c].d_supply
               /\ w.reserves[c].b_supply = ledger.reserves[c].b_supply
    <3>1. CASE c = a
      BY <1>2, <1>4, <1>6, <1>7, <1>8, <3>1 DEF SameTotals
    <3>2. CASE c # a
      BY <1>2, <1>7, <1>8, <3>2 DEF SameTotals, Accrued
    <3> QED
      BY <3>1, <3>2
  <2>2. Accrued(ledger, w)
    BY <2>1 DEF Accrued
  <2> QED
    BY <1>2, <1>8, <2>1, <2>2 DEF SameTotals
<1>10. Ends(ledger, w) /\ Ends(ledger, l)
  BY <1>1, <1>2, <1>9, TotalsEnd
<1> QED
  BY <1>3, <1>10

\* Tokens that nobody asked for only make the pool richer.
LEMMA GiftEnds ==
    ASSUME SafeInv, NEW a \in Assets, NEW amount \in Gifts, Gift(a, amount)
    PROVE  Ends(ledger, ledger')
<1> DEFINE held == ledger.balance[a] + amount
           b == [ledger.balance EXCEPT ![a] = held]
           w == [ledger EXCEPT !.balance = b]
<1>1. ledger \in Ledger /\ amount \in Nat
  BY PoolAssumption DEF SafeInv, PoolInv, WellFormed
<1>2. ledger' = w
  BY DEF Gift, Writes
<1>3. ledger.balance \in [Assets -> Int]
  BY <1>1, LedgerFields
<1>4. ASSUME NEW c \in Assets PROVE b[c] \in Int /\ b[c] >= ledger.balance[c]
  BY <1>1, <1>3
<1> HIDE DEF b
<1>5. w.reserves = ledger.reserves /\ w.balance = b
  BY <1>1 DEF Ledger
<1> HIDE DEF w
<1>6. ASSUME NEW c \in Assets
      PROVE  GrowsNot(ledger, w, c) /\ Reserved(ledger, w, c)
  <2>1. /\ Deficit(ledger, c) = Net(ledger.reserves[c]) - ledger.balance[c]
        /\ Net(ledger.reserves[c]) \in Int /\ ledger.balance[c] \in Int
    BY <1>1, DeficitIs
  <2>2. Deficit(w, c) = Net(ledger.reserves[c]) - b[c]
    BY <1>4, <1>5, <2>1, AssetFields, TotalsNat, <1>1 DEF Deficit, Net
  <2> QED
    BY <1>4, <1>5, <2>1, <2>2 DEF GrowsNot, Reserved
<1> QED
  BY <1>2, <1>6 DEF Ends

LEMMA MaintenanceStepEnds ==
    ASSUME SafeInv, MaintenanceStep
    PROVE  Ends(ledger, ledger')
<1>1. ledger \in Ledger
  BY DEF SafeInv, PoolInv, WellFormed
<1>2. ASSUME ledger' = ledger
      PROVE  Ends(ledger, ledger')
  BY <1>1, <1>2, SameEnds
<1>3. ASSUME NEW a, NEW cfg, QueueSetReserve(a, cfg) \/ CancelSetReserve(a)
      PROVE  Ends(ledger, ledger')
  BY <1>2, <1>3 DEF QueueSetReserve, CancelSetReserve, SetsConfig
<1>4. ASSUME NEW s, UpdateStatus \/ SetStatus(s)
      PROVE  Ends(ledger, ledger')
  BY <1>2, <1>4 DEF UpdateStatus, SetStatus, SetsStatus, SetsConfig
<1> QED
  BY <1>3, <1>4, BadDebtEnds, GulpEnds, UpdatePoolEnds, SetReserveEnds DEF MaintenanceStep

LEMMA EnvironmentStepEnds ==
    ASSUME SafeInv, EnvironmentStep
    PROVE  Ends(ledger, ledger')
<1>1. ledger \in Ledger
  BY DEF SafeInv, PoolInv, WellFormed
<1>2. ASSUME ledger' = ledger
      PROVE  Ends(ledger, ledger')
  BY <1>1, <1>2, SameEnds
<1>3. ASSUME NEW delta, Tick(delta)
      PROVE  Ends(ledger, ledger')
  BY <1>2, <1>3 DEF Tick
<1>4. ASSUME NEW a, NEW p, NewPrice(a, p)
      PROVE  Ends(ledger, ledger')
  BY <1>2, <1>4 DEF NewPrice
<1>5. ASSUME NEW level, QueueChange(level)
      PROVE  Ends(ledger, ledger')
  BY <1>2, <1>5 DEF QueueChange
<1>6. ASSUME NEW tokens, NEW level, BackstopMoves(tokens, level)
      PROVE  Ends(ledger, ledger')
  <2> DEFINE x == [ledger EXCEPT !.backstop_tokens = tokens]
  <2>1. ledger' = x
    BY <1>6 DEF BackstopMoves
  <2>2. x.reserves = ledger.reserves /\ x.balance = ledger.balance
    BY <1>1 DEF Ledger
  <2> HIDE DEF x
  <2> QED
    BY <1>1, <2>1, <2>2, SameEnds
<1>7. ASSUME NEW amount, NEW level, BackstopDeposit(amount, level) \/ BackstopWithdraw(amount, level)
      PROVE  Ends(ledger, ledger')
  BY <1>6, <1>7 DEF BackstopDeposit, BackstopWithdraw
<1> QED
  BY <1>3, <1>4, <1>5, <1>7, GiftEnds DEF EnvironmentStep, OutsideStep, BackstopStep

LEMMA NextIsSolvent ==
    ASSUME SolvencyInv, Next
    PROVE  SolvencyInv' /\ Ends(ledger, ledger')
<1>1. SafeInv /\ SafeInv'
  BY NextIsSafe DEF SolvencyInv
<1>2. ledger \in Ledger /\ PoolInv'
  BY <1>1 DEF SafeInv, PoolInv, WellFormed
<1>3. CASE Begin
  <2>1. ledger' = ledger
    BY <1>3 DEF Begin, BeginSubmit, BeginFlashLoan
  <2> QED
    BY <1>1, <1>2, <1>3, <2>1, BeginSolvent, SameEnds DEF SolvencyInv
<1>4. CASE RequestStep
  <2>1. ledger' = ledger
    BY <1>4 DEF RequestStep, Supply, Withdraw, SupplyCollateral, WithdrawCollateral, Borrow,
       Repay, FillUserLiquidationAuction, FillBadDebtAuction, FillInterestAuction,
       DeleteLiquidationAuction, Proceed, ProceedChecked, ProceedWith
  <2> QED
    BY <1>1, <1>2, <1>4, <2>1, RequestStepSolvent, SameEnds DEF SolvencyInv
<1>5. CASE Commit
  <2>1. call' = NoCall
    BY <1>5 DEF Commit
  <2> QED
    BY <1>1, <1>2, <1>5, <2>1, CommitEnds DEF SolvencyInv
<1>6. CASE Abort
  <2>1. call' = NoCall /\ ledger' = ledger
    BY <1>6 DEF Abort
  <2> QED
    BY <1>1, <1>2, <2>1, SameEnds DEF SolvencyInv
<1>7. CASE AuctionStep
  <2>1. call' = NoCall
    BY <1>7 DEF AuctionStep, LiquidationStep, OtherAuctionStep, NewUserLiquidation, NewBadDebtAuction, NewInterestAuction,
       DeleteStaleLiquidation, DeleteStaleBadDebt, DeleteStaleInterest, Writes
  <2> QED
    BY <1>1, <1>7, <2>1, AuctionStepEnds DEF SolvencyInv
<1>8. CASE MaintenanceStep
  <2>1. call' = NoCall
    BY <1>8 DEF MaintenanceStep, BadDebt, Gulp, UpdatePool, QueueSetReserve, CancelSetReserve,
       SetReserve, UpdateStatus, SetStatus, SetsStatus, SetsConfig, Writes
  <2> QED
    BY <1>1, <1>8, <2>1, MaintenanceStepEnds DEF SolvencyInv
<1>9. CASE EnvironmentStep
  <2>1. call' = NoCall
    BY <1>9 DEF EnvironmentStep, OutsideStep, BackstopStep, Tick, NewPrice, Gift, BackstopDeposit,
       BackstopWithdraw, BackstopMoves, QueueChange, Writes
  <2> QED
    BY <1>1, <1>9, <2>1, EnvironmentStepEnds DEF SolvencyInv
<1> QED
  BY <1>3, <1>4, <1>5, <1>6, <1>7, <1>8, <1>9 DEF Next

LEMMA StutterIsSolvent ==
    ASSUME SolvencyInv, UNCHANGED poolVars
    PROVE  SolvencyInv'
<1>1. SafeInv'
  BY StutterIsSafe DEF SolvencyInv
<1>2. UNCHANGED <<now, config, ledger, call>>
  BY DEF poolVars, vars
<1>3. ASSUME call # NoCall
      PROVE  Solvent(ledger, call)'
  BY <1>2, <1>3, SolventLater DEF SolvencyInv
<1> QED
  BY <1>1, <1>2, <1>3 DEF SolvencyInv

\* At every moment of an invocation, what the working copy says of an asset is
\* covered by the tokens noted in and out so far (Pool::submit, build_actions).
THEOREM SolvencyInvariant == Spec => []SolvencyInv
<1>1. Init => SolvencyInv
  BY InitIsSafe DEF Init, SolvencyInv
<1>2. SolvencyInv /\ [Next]_poolVars => SolvencyInv'
  BY NextIsSolvent, StutterIsSolvent
<1> QED
  BY <1>1, <1>2, PTL DEF Spec

\* No invocation makes the pool owe more than it has, whatever it rounds: the
\* shares of a request, interest and its split (Reserve::accrue), the fill of an
\* auction or the debt that is forgiven (default_liabilities).
THEOREM DeficitGrowsNever == Spec => DeficitNeverGrows
<1> DEFINE Held1 ==
      \A a \in Assets :
         \/ Deficit(ledger', a) <= 0
         \/ Deficit(ledger', a) <= Deficit(ledger, a)
         \/ ledger'.reserves[a].b_rate = 0
<1>1. ASSUME SolvencyInv, Next PROVE Held1
  <2>1. Ends(ledger, ledger')
    BY <1>1, NextIsSolvent
  <2> QED
    BY <2>1 DEF Ends, GrowsNot
<1>2. SolvencyInv /\ [Next]_poolVars => [Held1]_poolVars
  BY <1>1
<1> QED
  BY <1>2, SolvencyInvariant, PTL DEF Spec, DeficitNeverGrows

\* Nothing that is lent or withdrawn is taken from the credit of the backstop
\* (require_utilization_below_100), unless deposits lose value as well.
THEOREM CreditIsReserved == Spec => BackstopCreditReserved
<1> DEFINE Held1 ==
      \A a \in Assets :
         LET loaded == LoadedReserve(ledger, a)
             r == ledger'.reserves[a]
         IN (/\ Deficit(ledger, a) <= 0
             /\ r.b_rate >= loaded.b_rate
             /\ ledger'.balance[a] < ledger.balance[a]
             /\ ledger'.balance[a] - r.backstop_credit < ledger.balance[a] - loaded.backstop_credit)
            => ledger'.balance[a] >= r.backstop_credit
<1>1. ASSUME SolvencyInv, Next PROVE Held1
  <2>1. Ends(ledger, ledger')
    BY <1>1, NextIsSolvent
  <2> QED
    BY <2>1 DEF Ends, Reserved
<1>2. SolvencyInv /\ [Next]_poolVars => [Held1]_poolVars
  BY <1>1
<1> QED
  BY <1>2, SolvencyInvariant, PTL DEF Spec, BackstopCreditReserved
=============================================================================
