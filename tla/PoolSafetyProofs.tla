--------------------------- MODULE PoolSafetyProofs ---------------------------
(***************************************************************************)
(* The pool's debts, auctions and rates are safe, for any assets, users,   *)
(* configurations, prices and requests.                                    *)
(*                                                                         *)
(* None of it is inductive by itself, because an invocation breaks and     *)
(* restores it: a borrower may be in any state until its requests are over *)
(* and only validate_submit looks again.  SafeInv says of the committed    *)
(* ledger that it is safe; of the working copy that it is safe but for the *)
(* caller; and how the working copy may differ from the ledger (Since):    *)
(* others change only by fills of their auctions, and the caller got worse *)
(* only with a health check asked for.                                     *)
(***************************************************************************)
EXTENDS PoolProofs

-----------------------------------------------------------------------------
(* The inductive invariant.                                                *)

DebtPriced(w, u) ==
    \A a \in Assets : w.positions[u].liabilities[a] > 0 => config.reserves[a].l_factor > 0

SoundUser(w, u) == LiquidationCovered(w, u) /\ ~HasBadDebt(w.positions[u])

Safe(w, except) ==
    /\ \A u \in Users \ except : SoundUser(w, u)
    /\ \A u \in Accounts \ except : DebtPriced(w, u)
    /\ BadDebtCovered(w)

CreditSafe(w) ==
    /\ \A a \in Assets : w.reserves[a].backstop_credit >= 0
    /\ InterestCovered(w)

\* What is left of an auction.
Within(au, old) ==
    /\ au.block = old.block
    /\ \A t \in Tokens : au.bid[t] <= old.bid[t] /\ au.lot[t] <= old.lot[t]

Shrunk(p, q) ==
    /\ q.supply = p.supply
    /\ \A a \in Assets : q.collateral[a] <= p.collateral[a] /\ q.liabilities[a] <= p.liabilities[a]

NotWorse(p, q) ==
    \A a \in Assets : q.liabilities[a] <= p.liabilities[a] /\ q.collateral[a] >= p.collateral[a]

\* What an invocation of somebody else may do to a user: sell what is auctioned.
OtherSince(l, w, u) ==
    /\ w.liquidation[u] # NoAuction =>
         /\ l.liquidation[u] # NoAuction
         /\ Within(w.liquidation[u], l.liquidation[u])
    /\ Shrunk(l.positions[u], w.positions[u])
    /\ w.liquidation[u] = l.liquidation[u] => w.positions[u] = l.positions[u]

\* What an invocation of f has made of the ledger l so far, `checked' when it
\* will be asked for its health.
Since(l, w, f, checked) ==
    /\ \A u \in Users \ {f} : OtherSince(l, w, u)
    /\ ~checked => NotWorse(l.positions[f], w.positions[f])
    /\ \/ w.liquidation[f] = l.liquidation[f]
       \/ checked /\ w.liquidation[f] = NoAuction /\ config.status <= 1
    /\ l.bad_debt = NoAuction =>
         w.bad_debt = NoAuction /\ w.backstop_tokens >= l.backstop_tokens
    /\ config.status > 1 =>
         \A a \in Assets : w.reserves[a].d_supply <= l.reserves[a].d_supply
    /\ config.status > 3 =>
         \A a \in Assets : w.reserves[a].b_supply <= l.reserves[a].b_supply

SafeInv ==
    /\ PoolInv
    /\ Safe(ledger, {}) /\ CreditSafe(ledger)
    /\ call # NoCall =>
         /\ Safe(call.ledger, {call.from}) /\ CreditSafe(call.ledger)
         /\ Since(ledger, call.ledger, call.from, call.check_health)

-----------------------------------------------------------------------------
(* Reserves that are brought up to date, and what that is worth.           *)

SameValue(r, s) ==
    /\ s.d_rate = r.d_rate /\ s.b_rate = r.b_rate
    /\ s.backstop_credit = r.backstop_credit /\ s.last_time = r.last_time

\* Of w, some reserves were loaded, and only their totals changed since.
Accrued(w, v) ==
    \A a \in Assets : v.reserves[a] = w.reserves[a]
                      \/ SameValue(LoadedReserve(w, a), v.reserves[a])

\* The loaded reserve itself.
LEMMA LoadedIsUpToDate ==
    ASSUME GoodSettings, NEW w, WellFormed(w), NEW a \in Assets
    PROVE  /\ LoadedReserve(w, a) \in ReserveData
           /\ LoadedReserve(w, a).last_time = now
           /\ LoadedReserve(w, a).d_rate >= w.reserves[a].d_rate
           /\ LoadedReserve(w, a).b_rate >= w.reserves[a].b_rate
           /\ LoadedReserve(w, a).backstop_credit >= w.reserves[a].backstop_credit
           /\ LoadedReserve(w, a).b_supply = w.reserves[a].b_supply
           /\ LoadedReserve(w, a).d_supply = w.reserves[a].d_supply
  BY LoadedReserveRefreshes DEF Refreshes

LEMMA UpToDateIsLoaded ==
    ASSUME NEW w, NEW a, w.reserves[a].last_time = now
    PROVE  LoadedReserve(w, a) = w.reserves[a]
  BY DEF LoadedReserve, Load

LEMMA AccruedKeeps ==
    ASSUME GoodSettings, NEW w, WellFormed(w), NEW v, Accrued(w, v), NEW a \in Assets
    PROVE  /\ v.reserves[a].d_rate >= w.reserves[a].d_rate
           /\ v.reserves[a].b_rate >= w.reserves[a].b_rate
           /\ v.reserves[a].backstop_credit >= w.reserves[a].backstop_credit
           /\ LoadedReserve(v, a).backstop_credit = LoadedReserve(w, a).backstop_credit
<1>1. w.reserves[a] \in ReserveData
  BY LedgerFields DEF WellFormed
<1>2. /\ LoadedReserve(w, a).last_time = now
      /\ LoadedReserve(w, a).d_rate >= w.reserves[a].d_rate
      /\ LoadedReserve(w, a).b_rate >= w.reserves[a].b_rate
      /\ LoadedReserve(w, a).backstop_credit >= w.reserves[a].backstop_credit
  BY LoadedIsUpToDate
<1>3. CASE v.reserves[a] = w.reserves[a]
  <2>1. LoadedReserve(v, a) = LoadedReserve(w, a)
    BY <1>3 DEF LoadedReserve
  <2> QED
    BY <1>1, <1>3, <2>1 DEF ReserveData
<1>4. CASE SameValue(LoadedReserve(w, a), v.reserves[a])
  <2>1. LoadedReserve(v, a) = v.reserves[a]
    BY <1>2, <1>4, UpToDateIsLoaded DEF SameValue
  <2> QED
    BY <1>2, <1>4, <2>1 DEF SameValue
<1> QED
  BY <1>3, <1>4 DEF Accrued

LEMMA AccruedAgain ==
    ASSUME GoodSettings, NEW w, WellFormed(w), NEW v, NEW x, Accrued(w, v), Accrued(v, x)
    PROVE  Accrued(w, x)
<1> SUFFICES ASSUME NEW a \in Assets
             PROVE  x.reserves[a] = w.reserves[a] \/ SameValue(LoadedReserve(w, a), x.reserves[a])
  BY DEF Accrued
<1>1. LoadedReserve(w, a).last_time = now
  BY LoadedIsUpToDate
<1>2. CASE v.reserves[a] = w.reserves[a]
  <2>1. LoadedReserve(v, a) = LoadedReserve(w, a)
    BY <1>2 DEF LoadedReserve
  <2> QED
    BY <1>2, <2>1 DEF Accrued
<1>3. CASE SameValue(LoadedReserve(w, a), v.reserves[a])
  <2>1. LoadedReserve(v, a) = v.reserves[a]
    BY <1>1, <1>3, UpToDateIsLoaded DEF SameValue
  <2> QED
    BY <1>3, <2>1 DEF Accrued, SameValue
<1> QED
  BY <1>2, <1>3 DEF Accrued

LEMMA LoadReservesAccrued ==
    ASSUME NEW w \in Ledger, NEW S
    PROVE  Accrued(w, LoadReserves(w, S))
<1>1. LoadReserves(w, S).reserves =
        [a \in Assets |-> IF a \in S THEN LoadedReserve(w, a) ELSE w.reserves[a]]
  BY LoadReservesFields
<1> QED
  BY <1>1 DEF Accrued, SameValue

\* The auction of interest stays covered while reserves are only loaded.
LEMMA AccruedCreditSafe ==
    ASSUME GoodSettings, NEW w, WellFormed(w), CreditSafe(w),
           NEW v \in Ledger, Accrued(w, v), v.interest = w.interest
    PROVE  CreditSafe(v)
<1>1. ASSUME NEW a \in Assets
      PROVE  /\ v.reserves[a].backstop_credit >= 0
             /\ LoadedReserve(v, a).backstop_credit = LoadedReserve(w, a).backstop_credit
  <2>1. w.reserves[a] \in ReserveData /\ v.reserves[a] \in ReserveData
    BY LedgerFields DEF WellFormed
  <2>2. v.reserves[a].backstop_credit >= w.reserves[a].backstop_credit
    BY AccruedKeeps
  <2>3. LoadedReserve(v, a).backstop_credit = LoadedReserve(w, a).backstop_credit
    BY AccruedKeeps
  <2>4. w.reserves[a].backstop_credit >= 0
    BY DEF CreditSafe
  <2> QED
    BY <2>1, <2>2, <2>3, <2>4 DEF ReserveData
<1> QED
  BY <1>1 DEF CreditSafe, InterestCovered

-----------------------------------------------------------------------------
(* Requests on a reserve: only the caller's positions and the totals of    *)
(* that reserve change, once it is loaded.                                 *)

Own(w, v, f) ==
    /\ v \in Ledger
    /\ \A u \in Accounts \ {f} : v.positions[u] = w.positions[u]
    /\ v.liquidation = w.liquidation /\ v.bad_debt = w.bad_debt
    /\ v.interest = w.interest /\ v.backstop_tokens = w.backstop_tokens
    /\ Accrued(w, v)

LessDebt(w, v) == \A a \in Assets : v.reserves[a].d_supply <= w.reserves[a].d_supply
LessDeposits(w, v) == \A a \in Assets : v.reserves[a].b_supply <= w.reserves[a].b_supply

LEMMA WithSharesOwn ==
    ASSUME GoodSettings, NEW w, WellFormed(w), NEW f \in Accounts, NEW a \in Assets,
           NEW l, l = LoadReserves(w, {a}), NEW p \in Positions, NEW r \in ReserveData,
           SameValue(l.reserves[a], r)
    PROVE  /\ Own(w, WithShares(l, f, p, a, r), f)
           /\ WithShares(l, f, p, a, r).positions[f] = p
           /\ r.d_supply <= l.reserves[a].d_supply => LessDebt(w, WithShares(l, f, p, a, r))
           /\ r.b_supply <= l.reserves[a].b_supply => LessDeposits(w, WithShares(l, f, p, a, r))
<1> DEFINE v == WithShares(l, f, p, a, r)
<1>1. w \in Ledger /\ w.reserves \in [Assets -> ReserveData]
  BY LedgerFields DEF WellFormed
<1>2. l \in Ledger /\ l.reserves \in [Assets -> ReserveData] /\ l.positions \in [Accounts -> Positions]
  BY LoadReservesWellFormed, LedgerFields DEF WellFormed
<1>3. /\ l.positions = w.positions /\ l.liquidation = w.liquidation
      /\ l.bad_debt = w.bad_debt /\ l.interest = w.interest
      /\ l.backstop_tokens = w.backstop_tokens
      /\ l.reserves = [c \in Assets |-> IF c \in {a} THEN LoadedReserve(w, c) ELSE w.reserves[c]]
  BY <1>1, LoadReservesFields
<1>4. /\ v \in Ledger
      /\ v.positions = [l.positions EXCEPT ![f] = p]
      /\ v.reserves = [l.reserves EXCEPT ![a] = r]
  <2>1. l \in Ledger
    BY <1>2
  <2> QED
    BY <2>1, WithSharesFields
<1>5. /\ v.liquidation = l.liquidation /\ v.bad_debt = l.bad_debt
      /\ v.interest = l.interest /\ v.backstop_tokens = l.backstop_tokens
  BY <1>2 DEF WithShares, Ledger
<1> HIDE DEF v
<1>6. Accrued(w, v)
  <2> SUFFICES ASSUME NEW c \in Assets
               PROVE  v.reserves[c] = w.reserves[c] \/ SameValue(LoadedReserve(w, c), v.reserves[c])
    BY DEF Accrued
  <2>1. CASE c = a
    BY <1>2, <1>3, <1>4, <2>1
  <2>2. CASE c # a
    BY <1>2, <1>3, <1>4, <2>2
  <2> QED
    BY <2>1, <2>2
<1>7. Own(w, v, f)
  BY <1>2, <1>3, <1>4, <1>5, <1>6 DEF Own
<1>8. v.positions[f] = p
  BY <1>2, <1>4
<1>9. ASSUME NEW c \in Assets
      PROVE  /\ r.d_supply <= l.reserves[a].d_supply => v.reserves[c].d_supply <= w.reserves[c].d_supply
             /\ r.b_supply <= l.reserves[a].b_supply => v.reserves[c].b_supply <= w.reserves[c].b_supply
  <2>1. /\ l.reserves[c].d_supply = w.reserves[c].d_supply
        /\ l.reserves[c].b_supply = w.reserves[c].b_supply
    BY LoadReservesKeeps DEF Kept
  <2>2. w.reserves[c].d_supply \in Nat /\ w.reserves[c].b_supply \in Nat
    BY <1>1 DEF ReserveData
  <2>3. v.reserves[c] = IF c = a THEN r ELSE l.reserves[c]
    BY <1>2, <1>4
  <2> QED
    BY <2>1, <2>2, <2>3
<1> QED
  BY <1>7, <1>8, <1>9 DEF LessDebt, LessDeposits, v

LEMMA MorePositions ==
    ASSUME NEW p \in Positions, NEW a \in Assets, NEW n \in Nat
    PROVE  /\ [p EXCEPT !.liabilities[a] = @ + n] \in Positions
           /\ [p EXCEPT !.collateral[a] = @ + n] \in Positions
           /\ [p EXCEPT !.supply[a] = @ + n] \in Positions
           /\ NotWorse(p, [p EXCEPT !.collateral[a] = @ + n])
           /\ NotWorse(p, [p EXCEPT !.supply[a] = @ + n])
<1>1. [p EXCEPT !.liabilities[a] = @ + n] \in Positions
  BY DEF Positions
<1>2. /\ [p EXCEPT !.collateral[a] = @ + n] \in Positions
      /\ NotWorse(p, [p EXCEPT !.collateral[a] = @ + n])
  BY DEF Positions, NotWorse
<1>3. /\ [p EXCEPT !.supply[a] = @ + n] \in Positions
      /\ NotWorse(p, [p EXCEPT !.supply[a] = @ + n])
  BY DEF Positions, NotWorse
<1> QED
  BY <1>1, <1>2, <1>3

LEMMA LessPositions ==
    ASSUME NEW p \in Positions, NEW a \in Assets, NEW n \in Nat
    PROVE  /\ n <= p.liabilities[a] =>
                /\ [p EXCEPT !.liabilities[a] = @ - n] \in Positions
                /\ NotWorse(p, [p EXCEPT !.liabilities[a] = @ - n])
           /\ n <= p.collateral[a] => [p EXCEPT !.collateral[a] = @ - n] \in Positions
           /\ n <= p.supply[a] =>
                /\ [p EXCEPT !.supply[a] = @ - n] \in Positions
                /\ NotWorse(p, [p EXCEPT !.supply[a] = @ - n])
<1>1. ASSUME n <= p.liabilities[a]
      PROVE  /\ [p EXCEPT !.liabilities[a] = @ - n] \in Positions
             /\ NotWorse(p, [p EXCEPT !.liabilities[a] = @ - n])
  BY <1>1 DEF Positions, NotWorse
<1>2. ASSUME n <= p.collateral[a]
      PROVE  [p EXCEPT !.collateral[a] = @ - n] \in Positions
  BY <1>2 DEF Positions
<1>3. ASSUME n <= p.supply[a]
      PROVE  /\ [p EXCEPT !.supply[a] = @ - n] \in Positions
             /\ NotWorse(p, [p EXCEPT !.supply[a] = @ - n])
  BY <1>3 DEF Positions, NotWorse
<1> QED
  BY <1>1, <1>2, <1>3

LEMMA OtherTotals ==
    ASSUME NEW r \in ReserveData, NEW n \in Nat
    PROVE  /\ [r EXCEPT !.b_supply = n] \in ReserveData
           /\ SameValue(r, [r EXCEPT !.b_supply = n])
           /\ [r EXCEPT !.b_supply = n].b_supply = n
           /\ [r EXCEPT !.b_supply = n].d_supply <= r.d_supply
           /\ [r EXCEPT !.d_supply = n] \in ReserveData
           /\ SameValue(r, [r EXCEPT !.d_supply = n])
           /\ [r EXCEPT !.d_supply = n].d_supply = n
           /\ [r EXCEPT !.d_supply = n].b_supply <= r.b_supply
  BY DEF ReserveData, SameValue

\* A ledger whose reserve was brought up to date, taken apart.
LEMMA LoadedParts ==
    ASSUME GoodSettings, NEW w, WellFormed(w), NEW f \in Accounts, NEW a \in Assets,
           NEW l, l = LoadReserves(w, {a})
    PROVE  /\ WellFormed(l)
           /\ l.positions[f] \in Positions /\ l.positions[f] = w.positions[f]
           /\ l.reserves[a] \in ReserveData
<1>1. WellFormed(l)
  BY LoadReservesWellFormed
<1>2. w \in Ledger /\ l \in Ledger
  BY <1>1 DEF WellFormed
<1>3. l.positions = w.positions
  <2>1. PICK S : S = {a}
    OBVIOUS
  <2>2. LoadReserves(w, S).positions = w.positions
    BY <1>2, LoadReservesFields
  <2> QED
    BY <2>1, <2>2
<1>4. l.positions \in [Accounts -> Positions] /\ l.reserves \in [Assets -> ReserveData]
  BY <1>2, LedgerFields
<1> QED
  BY <1>1, <1>3, <1>4

LEMMA AddLiabilitiesOwn ==
    ASSUME GoodSettings, NEW w, WellFormed(w), NEW f \in Accounts, NEW a \in Assets,
           NEW l, l = LoadReserves(w, {a}),
           NEW n \in Nat
    PROVE  /\ Own(w, AddLiabilities(l, f, a, n), f)
           /\ LessDeposits(w, AddLiabilities(l, f, a, n))
<1> DEFINE q == l.positions[f]
           s == l.reserves[a]
           total == s.d_supply + n
           p == [q EXCEPT !.liabilities[a] = @ + n]
           r == [s EXCEPT !.d_supply = total]
<1>1. AddLiabilities(l, f, a, n) = WithShares(l, f, p, a, r)
  BY DEF AddLiabilities, WithShares
<1>2. WellFormed(l) /\ q \in Positions /\ s \in ReserveData /\ q = w.positions[f]
  BY LoadedParts
<1>3. total \in Nat
  BY <1>2 DEF ReserveData
<1>4. n \in Nat
  OBVIOUS
<1> HIDE DEF q, s, total
<1>5. p \in Positions
  BY <1>2, <1>4, MorePositions
<1>6. /\ r \in ReserveData /\ SameValue(s, r) /\ r.d_supply = total
      /\ r.b_supply <= s.b_supply
  BY <1>2, <1>3, OtherTotals
<1> HIDE DEF p, r
<1> QED
  BY <1>1, <1>2, <1>3, <1>5, <1>6, WithSharesOwn DEF q, s

LEMMA AddCollateralOwn ==
    ASSUME GoodSettings, NEW w, WellFormed(w), NEW f \in Accounts, NEW a \in Assets,
           NEW l, l = LoadReserves(w, {a}),
           NEW n \in Nat
    PROVE  /\ Own(w, AddCollateral(l, f, a, n), f)
           /\ LessDebt(w, AddCollateral(l, f, a, n))
           /\ NotWorse(w.positions[f], AddCollateral(l, f, a, n).positions[f])
<1> DEFINE q == l.positions[f]
           s == l.reserves[a]
           total == s.b_supply + n
           p == [q EXCEPT !.collateral[a] = @ + n]
           r == [s EXCEPT !.b_supply = total]
<1>1. AddCollateral(l, f, a, n) = WithShares(l, f, p, a, r)
  BY DEF AddCollateral, WithShares
<1>2. WellFormed(l) /\ q \in Positions /\ s \in ReserveData /\ q = w.positions[f]
  BY LoadedParts
<1>3. total \in Nat
  BY <1>2 DEF ReserveData
<1>4. n \in Nat
  OBVIOUS
<1> HIDE DEF q, s, total
<1>5. p \in Positions /\ NotWorse(q, p)
  BY <1>2, <1>4, MorePositions
<1>6. /\ r \in ReserveData /\ SameValue(s, r) /\ r.b_supply = total
      /\ r.d_supply <= s.d_supply
  BY <1>2, <1>3, OtherTotals
<1> HIDE DEF p, r
<1> QED
  BY <1>1, <1>2, <1>3, <1>5, <1>6, WithSharesOwn DEF q, s

LEMMA AddSupplyOwn ==
    ASSUME GoodSettings, NEW w, WellFormed(w), NEW f \in Accounts, NEW a \in Assets,
           NEW l, l = LoadReserves(w, {a}),
           NEW n \in Nat
    PROVE  /\ Own(w, AddSupply(l, f, a, n), f)
           /\ LessDebt(w, AddSupply(l, f, a, n))
           /\ NotWorse(w.positions[f], AddSupply(l, f, a, n).positions[f])
<1> DEFINE q == l.positions[f]
           s == l.reserves[a]
           total == s.b_supply + n
           p == [q EXCEPT !.supply[a] = @ + n]
           r == [s EXCEPT !.b_supply = total]
<1>1. AddSupply(l, f, a, n) = WithShares(l, f, p, a, r)
  BY DEF AddSupply, WithShares
<1>2. WellFormed(l) /\ q \in Positions /\ s \in ReserveData /\ q = w.positions[f]
  BY LoadedParts
<1>3. total \in Nat
  BY <1>2 DEF ReserveData
<1>4. n \in Nat
  OBVIOUS
<1> HIDE DEF q, s, total
<1>5. p \in Positions /\ NotWorse(q, p)
  BY <1>2, <1>4, MorePositions
<1>6. /\ r \in ReserveData /\ SameValue(s, r) /\ r.b_supply = total
      /\ r.d_supply <= s.d_supply
  BY <1>2, <1>3, OtherTotals
<1> HIDE DEF p, r
<1> QED
  BY <1>1, <1>2, <1>3, <1>5, <1>6, WithSharesOwn DEF q, s

LEMMA RemoveLiabilitiesOwn ==
    ASSUME GoodSettings, NEW w, WellFormed(w), NEW f \in Accounts, NEW a \in Assets,
           NEW l, l = LoadReserves(w, {a}),
           NEW n \in Nat, n <= l.positions[f].liabilities[a]
    PROVE  /\ Own(w, RemoveLiabilities(l, f, a, n), f)
           /\ LessDebt(w, RemoveLiabilities(l, f, a, n))
           /\ LessDeposits(w, RemoveLiabilities(l, f, a, n))
           /\ NotWorse(w.positions[f], RemoveLiabilities(l, f, a, n).positions[f])
<1> DEFINE q == l.positions[f]
           s == l.reserves[a]
           total == s.d_supply - n
           p == [q EXCEPT !.liabilities[a] = @ - n]
           r == [s EXCEPT !.d_supply = total]
<1>1. RemoveLiabilities(l, f, a, n) = WithShares(l, f, p, a, r)
  BY DEF RemoveLiabilities, WithShares
<1>2. WellFormed(l) /\ q \in Positions /\ s \in ReserveData /\ q = w.positions[f]
  BY LoadedParts
<1>3. total \in Nat /\ total <= s.d_supply
  <2>1. q.liabilities[a] <= s.d_supply
    BY <1>2, PartOfTotal DEF DShares
  <2>2. q.liabilities[a] \in Nat /\ s.d_supply \in Nat
    BY <1>2, PositionNat DEF ReserveData
  <2> QED
    BY <2>1, <2>2
<1>4. n <= q.liabilities[a]
  OBVIOUS
<1> HIDE DEF q, s, total
<1>5. p \in Positions /\ NotWorse(q, p)
  BY <1>2, <1>4, LessPositions
<1>6. /\ r \in ReserveData /\ SameValue(s, r) /\ r.d_supply = total
      /\ r.b_supply <= s.b_supply
  BY <1>2, <1>3, OtherTotals
<1> HIDE DEF p, r
<1> QED
  BY <1>1, <1>2, <1>3, <1>5, <1>6, WithSharesOwn DEF q, s

LEMMA RemoveCollateralOwn ==
    ASSUME GoodSettings, NEW w, WellFormed(w), NEW f \in Accounts, NEW a \in Assets,
           NEW l, l = LoadReserves(w, {a}),
           NEW n \in Nat, n <= l.positions[f].collateral[a]
    PROVE  /\ Own(w, RemoveCollateral(l, f, a, n), f)
           /\ LessDebt(w, RemoveCollateral(l, f, a, n))
           /\ LessDeposits(w, RemoveCollateral(l, f, a, n))
<1> DEFINE q == l.positions[f]
           s == l.reserves[a]
           total == s.b_supply - n
           p == [q EXCEPT !.collateral[a] = @ - n]
           r == [s EXCEPT !.b_supply = total]
<1>1. RemoveCollateral(l, f, a, n) = WithShares(l, f, p, a, r)
  BY DEF RemoveCollateral, WithShares
<1>2. WellFormed(l) /\ q \in Positions /\ s \in ReserveData /\ q = w.positions[f]
  BY LoadedParts
<1>3. total \in Nat /\ total <= s.b_supply
  <2>1. q.collateral[a] + q.supply[a] <= s.b_supply
    BY <1>2, PartOfTotal DEF BShares
  <2>2. q.collateral[a] \in Nat /\ q.supply[a] \in Nat /\ s.b_supply \in Nat
    BY <1>2, PositionNat DEF ReserveData
  <2> QED
    BY <2>1, <2>2
<1>4. n <= q.collateral[a]
  OBVIOUS
<1> HIDE DEF q, s, total
<1>5. p \in Positions
  BY <1>2, <1>4, LessPositions
<1>6. /\ r \in ReserveData /\ SameValue(s, r) /\ r.b_supply = total
      /\ r.d_supply <= s.d_supply
  BY <1>2, <1>3, OtherTotals
<1> HIDE DEF p, r
<1> QED
  BY <1>1, <1>2, <1>3, <1>5, <1>6, WithSharesOwn DEF q, s

LEMMA RemoveSupplyOwn ==
    ASSUME GoodSettings, NEW w, WellFormed(w), NEW f \in Accounts, NEW a \in Assets,
           NEW l, l = LoadReserves(w, {a}),
           NEW n \in Nat, n <= l.positions[f].supply[a]
    PROVE  /\ Own(w, RemoveSupply(l, f, a, n), f)
           /\ LessDebt(w, RemoveSupply(l, f, a, n))
           /\ LessDeposits(w, RemoveSupply(l, f, a, n))
           /\ NotWorse(w.positions[f], RemoveSupply(l, f, a, n).positions[f])
<1> DEFINE q == l.positions[f]
           s == l.reserves[a]
           total == s.b_supply - n
           p == [q EXCEPT !.supply[a] = @ - n]
           r == [s EXCEPT !.b_supply = total]
<1>1. RemoveSupply(l, f, a, n) = WithShares(l, f, p, a, r)
  BY DEF RemoveSupply, WithShares
<1>2. WellFormed(l) /\ q \in Positions /\ s \in ReserveData /\ q = w.positions[f]
  BY LoadedParts
<1>3. total \in Nat /\ total <= s.b_supply
  <2>1. q.collateral[a] + q.supply[a] <= s.b_supply
    BY <1>2, PartOfTotal DEF BShares
  <2>2. q.collateral[a] \in Nat /\ q.supply[a] \in Nat /\ s.b_supply \in Nat
    BY <1>2, PositionNat DEF ReserveData
  <2> QED
    BY <2>1, <2>2
<1>4. n <= q.supply[a]
  OBVIOUS
<1> HIDE DEF q, s, total
<1>5. p \in Positions /\ NotWorse(q, p)
  BY <1>2, <1>4, LessPositions
<1>6. /\ r \in ReserveData /\ SameValue(s, r) /\ r.b_supply = total
      /\ r.d_supply <= s.d_supply
  BY <1>2, <1>3, OtherTotals
<1> HIDE DEF p, r
<1> QED
  BY <1>1, <1>2, <1>3, <1>5, <1>6, WithSharesOwn DEF q, s

-----------------------------------------------------------------------------
(* What a request does, in one formula.                                    *)

RatesKept(w, v) ==
    \A a \in Assets :
        /\ v.reserves[a].d_rate >= w.reserves[a].d_rate
        /\ v.reserves[a].b_rate < w.reserves[a].b_rate =>
             /\ v.backstop_tokens < DefaultTokens
             /\ v.positions[Backstop].liabilities = NoShares
             /\ v.reserves[a].d_supply < w.reserves[a].d_supply

PassedOn(w, v) ==
    (\E a \in Assets : v.positions[Backstop].liabilities[a]
                         > w.positions[Backstop].liabilities[a])
      => \E u \in Users :
           /\ HasLiabilities(w.positions[u])
           /\ ~HasLiabilities(v.positions[u]) /\ ~HasCollateral(v.positions[u])

SafeStep(w, v, f, checked) ==
    /\ Since(w, v, f, checked)
    /\ Safe(w, {f}) => Safe(v, {f})
    /\ CreditSafe(w) => CreditSafe(v)
    /\ RatesKept(w, v)
    /\ PassedOn(w, v)

LEMMA RatesKeptIfAccrued ==
    ASSUME GoodSettings, NEW w, WellFormed(w), NEW v \in Ledger, Accrued(w, v)
    PROVE  RatesKept(w, v)
<1> SUFFICES ASSUME NEW a \in Assets
             PROVE  /\ v.reserves[a].d_rate >= w.reserves[a].d_rate
                    /\ ~(v.reserves[a].b_rate < w.reserves[a].b_rate)
  BY DEF RatesKept
<1>1. /\ v.reserves[a].d_rate >= w.reserves[a].d_rate
      /\ v.reserves[a].b_rate >= w.reserves[a].b_rate
  BY AccruedKeeps
<1>2. v.reserves[a].b_rate \in Nat /\ w.reserves[a].b_rate \in Nat
  BY LedgerFields DEF WellFormed, ReserveData
<1> QED
  BY <1>1, <1>2

\* Positions that did not change are as sound as they were.
LEMMA SameUserSound ==
    ASSUME NEW w, NEW v, NEW u, v.positions[u] = w.positions[u],
           v.liquidation[u] = w.liquidation[u], SoundUser(w, u)
    PROVE  SoundUser(v, u)
  BY DEF SoundUser, LiquidationCovered

LEMMA ShrunkSame ==
    ASSUME NEW p \in Positions
    PROVE  Shrunk(p, p) /\ NotWorse(p, p)
  BY DEF Shrunk, NotWorse, Positions

LEMMA OtherSame ==
    ASSUME NEW w \in Ledger, NEW v \in Ledger, NEW u \in Users,
           v.positions[u] = w.positions[u], v.liquidation[u] = w.liquidation[u]
    PROVE  OtherSince(w, v, u)
<1>1. w.positions[u] \in Positions
  BY LedgerFields, AccountsFinite
<1>2. Shrunk(w.positions[u], v.positions[u])
  BY <1>1, ShrunkSame
<1>3. w.liquidation[u] # NoAuction => Within(w.liquidation[u], w.liquidation[u])
  <2>1. w.liquidation[u] \in Auction \cup {NoAuction}
    BY LedgerFields
  <2> QED
    BY <2>1 DEF Within, Auction
<1> QED
  BY <1>2, <1>3 DEF OtherSince

LEMMA OwnIsSafe ==
    ASSUME GoodSettings, NEW w, WellFormed(w), NEW f \in Users, NEW v, Own(w, v, f),
           NEW checked \in BOOLEAN,
           ~checked => NotWorse(w.positions[f], v.positions[f]),
           config.status > 1 => LessDebt(w, v),
           config.status > 3 => LessDeposits(w, v)
    PROVE  SafeStep(w, v, f, checked)
<1>1. w \in Ledger /\ v \in Ledger /\ Backstop \in Accounts \ {f}
  BY AccountsFinite, StateAssumption DEF WellFormed, Own
<1>2. /\ \A u \in Accounts \ {f} : v.positions[u] = w.positions[u]
      /\ v.liquidation = w.liquidation /\ v.bad_debt = w.bad_debt
      /\ v.interest = w.interest /\ v.backstop_tokens = w.backstop_tokens
      /\ Accrued(w, v)
  BY DEF Own
<1>3. Since(w, v, f, checked)
  <2>1. \A u \in Users \ {f} : OtherSince(w, v, u)
    BY <1>1, <1>2, OtherSame, AccountsFinite
  <2>2. w.backstop_tokens \in Nat
    BY <1>1, LedgerFields
  <2> QED
    BY <1>2, <2>1, <2>2 DEF Since, LessDebt, LessDeposits
<1>4. ASSUME Safe(w, {f}) PROVE Safe(v, {f})
  <2>1. \A u \in Users \ {f} : SoundUser(v, u)
    BY <1>2, <1>4, SameUserSound, AccountsFinite DEF Safe
  <2>2. \A u \in Accounts \ {f} : DebtPriced(v, u)
    BY <1>2, <1>4 DEF Safe, DebtPriced
  <2>3. BadDebtCovered(v)
    BY <1>1, <1>2, <1>4 DEF Safe, BadDebtCovered
  <2> QED
    BY <2>1, <2>2, <2>3 DEF Safe
<1>5. CreditSafe(w) => CreditSafe(v)
  BY <1>1, <1>2, AccruedCreditSafe
<1>6. RatesKept(w, v)
  BY <1>1, <1>2, RatesKeptIfAccrued
<1>7. PassedOn(w, v)
  <2>1. v.positions[Backstop] = w.positions[Backstop] /\ w.positions[Backstop] \in Positions
    BY <1>1, <1>2, LedgerFields
  <2>2. \A a \in Assets : ~(v.positions[Backstop].liabilities[a] > w.positions[Backstop].liabilities[a])
    BY <2>1 DEF Positions
  <2> QED
    BY <2>2 DEF PassedOn
<1> QED
  BY <1>3, <1>4, <1>5, <1>6, <1>7 DEF SafeStep

-----------------------------------------------------------------------------
(* Shares that change hands.                                               *)

\* Neither auctions, tokens nor totals of w changed, and reserves were loaded.
SameTotals(w, v) ==
    /\ v \in Ledger
    /\ v.liquidation = w.liquidation /\ v.bad_debt = w.bad_debt
    /\ v.interest = w.interest /\ v.backstop_tokens = w.backstop_tokens
    /\ v.balance = w.balance
    /\ Accrued(w, v)
    /\ \A a \in Assets : /\ v.reserves[a].d_supply = w.reserves[a].d_supply
                         /\ v.reserves[a].b_supply = w.reserves[a].b_supply

LEMMA LoadReservesSameTotals ==
    ASSUME GoodSettings, NEW w, WellFormed(w), NEW S
    PROVE  SameTotals(w, LoadReserves(w, S))
<1>1. w \in Ledger /\ LoadReserves(w, S) \in Ledger
  BY LoadReservesWellFormed DEF WellFormed
<1>2. \A a \in Assets : Kept(w.reserves[a], LoadReserves(w, S).reserves[a])
  BY LoadReservesKeeps
<1>3. Accrued(w, LoadReserves(w, S))
  BY <1>1, LoadReservesAccrued
<1> QED
  BY <1>1, <1>2, <1>3, LoadReservesFields DEF SameTotals, Kept

LEMMA MovePositionsSameTotals ==
    ASSUME GoodSettings, NEW w, WellFormed(w),
           NEW from \in Accounts, NEW to \in Accounts, from # to,
           NEW coll \in [Assets -> Nat], NEW liab \in [Assets -> Nat],
           CanRemovePositions(w, from, coll, liab)
    PROVE  SameTotals(w, MovePositions(w, from, to, coll, liab))
<1> DEFINE S == Held(coll) \cup Held(liab)
           l == LoadReserves(w, S)
           ps == [l.positions EXCEPT ![from] = RmPositions(l.positions[from], coll, liab),
                                     ![to] = AddPositions(l.positions[to], coll, liab)]
           v == MovePositions(w, from, to, coll, liab)
<1>1. w \in Ledger /\ SameTotals(w, l) /\ l \in Ledger
  BY LoadReservesSameTotals DEF WellFormed, SameTotals
<1>2. v \in Ledger
  BY MovePositionsWellFormed DEF WellFormed
<1>3. v = WithPositions(l, ps)
  BY <1>1, MovePositionsIs
<1> HIDE DEF l, ps, v
<1>4. /\ v.reserves = l.reserves /\ v.liquidation = l.liquidation
      /\ v.bad_debt = l.bad_debt /\ v.interest = l.interest
      /\ v.backstop_tokens = l.backstop_tokens /\ v.balance = l.balance
  BY <1>1, <1>3 DEF WithPositions, Ledger
<1> QED
  BY <1>1, <1>2, <1>4 DEF SameTotals, Accrued, v

LEMMA SameTotalsAgain ==
    ASSUME GoodSettings, NEW w, WellFormed(w), NEW v, NEW x, SameTotals(w, v), SameTotals(v, x)
    PROVE  SameTotals(w, x)
<1>1. Accrued(w, x)
  BY AccruedAgain DEF SameTotals
<1> QED
  BY <1>1 DEF SameTotals

\* The shares coll and liab of one account, moved to another.
Moved(w, from, to, coll, liab, v) ==
    /\ WellFormed(v) /\ SameTotals(w, v)
    /\ \A x \in Accounts \ {from, to} : v.positions[x] = w.positions[x]
    /\ v.positions[from].supply = w.positions[from].supply
    /\ \A a \in Assets :
         /\ v.positions[from].collateral[a] = w.positions[from].collateral[a] - coll[a]
         /\ v.positions[from].liabilities[a] = w.positions[from].liabilities[a] - liab[a]
         /\ v.positions[to].collateral[a] = w.positions[to].collateral[a] + coll[a]
         /\ v.positions[to].liabilities[a] = w.positions[to].liabilities[a] + liab[a]

LEMMA MovedPositions ==
    ASSUME GoodSettings, NEW w, WellFormed(w),
           NEW from \in Accounts, NEW to \in Accounts, from # to,
           NEW coll \in [Assets -> Nat], NEW liab \in [Assets -> Nat],
           CanRemovePositions(w, from, coll, liab),
           NEW v, v = MovePositions(w, from, to, coll, liab)
    PROVE  Moved(w, from, to, coll, liab, v)
<1> DEFINE p == w.positions[from]
           q == w.positions[to]
           pp == RmPositions(p, coll, liab)
           qq == AddPositions(q, coll, liab)
<1>1. w.positions \in [Accounts -> Positions] /\ p \in Positions /\ q \in Positions
  BY LedgerFields DEF WellFormed
<1>2. WellFormed(v) /\ v.positions = [w.positions EXCEPT ![from] = pp, ![to] = qq]
  BY MovePositionsWellFormed
<1>3. SameTotals(w, v)
  BY MovePositionsSameTotals
<1>4. /\ pp.supply = p.supply
      /\ pp.collateral = Sub(p.collateral, coll) /\ pp.liabilities = Sub(p.liabilities, liab)
  BY <1>1 DEF RmPositions, Positions
<1>5. qq.collateral = Add(q.collateral, coll) /\ qq.liabilities = Add(q.liabilities, liab)
  BY <1>1 DEF AddPositions, Positions
<1> HIDE DEF pp, qq
<1>6. /\ v.positions[from] = pp /\ v.positions[to] = qq
      /\ \A x \in Accounts \ {from, to} : v.positions[x] = w.positions[x]
  BY <1>1, <1>2
<1>7. \A a \in Assets :
        /\ pp.collateral[a] = p.collateral[a] - coll[a]
        /\ pp.liabilities[a] = p.liabilities[a] - liab[a]
        /\ qq.collateral[a] = q.collateral[a] + coll[a]
        /\ qq.liabilities[a] = q.liabilities[a] + liab[a]
  BY <1>4, <1>5 DEF Sub, Add
<1> QED
  BY <1>2, <1>3, <1>4, <1>6, <1>7 DEF Moved

\* The debt nothing backs, handed over whole.
LEMMA HandedOver ==
    ASSUME GoodSettings, NEW w, WellFormed(w), NEW u \in Users,
           NEW v, v = HandleUserBadDebt(w, u)
    PROVE  /\ WellFormed(v) /\ SameTotals(w, v)
           /\ \A x \in Accounts \ {u, Backstop} : v.positions[x] = w.positions[x]
           /\ v.positions[u].supply = w.positions[u].supply
           /\ \A a \in Assets :
                /\ v.positions[u].collateral[a] = w.positions[u].collateral[a]
                /\ v.positions[u].liabilities[a] = 0
                /\ v.positions[Backstop].liabilities[a] =
                     w.positions[Backstop].liabilities[a] + w.positions[u].liabilities[a]
<1> DEFINE liab == w.positions[u].liabilities
<1>1. u \in Accounts /\ Backstop \in Accounts /\ u # Backstop
  BY AccountsFinite, StateAssumption
<1>2. w.positions[u] \in Positions
  BY <1>1, LedgerFields DEF WellFormed
<1>3. liab \in [Assets -> Nat] /\ w.positions[u].collateral \in [Assets -> Nat]
  BY <1>2 DEF Positions
<1>4. NoShares \in [Assets -> Nat] /\ \A a \in Assets : NoShares[a] = 0
  BY DEF NoShares
<1>5. CanRemovePositions(w, u, NoShares, liab)
  BY <1>3, <1>4 DEF CanRemovePositions
<1>6. v = MovePositions(w, u, Backstop, NoShares, liab)
  BY DEF HandleUserBadDebt
<1>7. ASSUME NEW a \in Assets
      PROVE  /\ w.positions[u].collateral[a] - NoShares[a] = w.positions[u].collateral[a]
             /\ w.positions[u].liabilities[a] - liab[a] = 0
  <2>1. liab[a] \in Nat /\ w.positions[u].collateral[a] \in Nat
    BY <1>3
  <2> QED
    BY <1>4, <2>1
<1>8. Moved(w, u, Backstop, NoShares, liab, v)
  <2> HIDE DEF liab
  <2> QED
    BY <1>1, <1>3, <1>4, <1>5, <1>6, MovedPositions
<1> QED
  <2>1. /\ WellFormed(v) /\ SameTotals(w, v)
        /\ \A x \in Accounts \ {u, Backstop} : v.positions[x] = w.positions[x]
        /\ v.positions[u].supply = w.positions[u].supply
        /\ \A a \in Assets :
             /\ v.positions[u].collateral[a] = w.positions[u].collateral[a] - NoShares[a]
             /\ v.positions[u].liabilities[a] = w.positions[u].liabilities[a] - liab[a]
             /\ v.positions[Backstop].liabilities[a] =
                  w.positions[Backstop].liabilities[a] + liab[a]
    BY <1>8 DEF Moved
  <2> QED
    BY <1>7, <2>1

-----------------------------------------------------------------------------
(* Fills of auctions.                                                      *)

LEMMA ModifiersAtMostOne ==
    ASSUME NEW blocks \in Nat
    PROVE  BidModifier(blocks) <= Scalar7 /\ LotModifier(blocks) <= Scalar7
<1> DEFINE perBlock == Scalar7 \div RampBlocks
<1>1. RampBlocks \in Nat /\ RampBlocks \in Int /\ RampBlocks > 0
  BY AuctionAssumption
<1>2. perBlock \in Int /\ RampBlocks * perBlock <= Scalar7 /\ perBlock >= 0
  <2>1. FloorDiv(Scalar7, RampBlocks) \in Nat
    BY <1>1, FloorDivNat, ScalarsPositive
  <2> QED
    BY <1>1, <2>1, FloorDivBounds, ScalarsPositive DEF FloorDiv
<1> HIDE DEF perBlock
<1>3. BidModifier(blocks) <= Scalar7
  <2>1. CASE blocks > RampBlocks /\ blocks < 2 * RampBlocks
    <3>1. blocks - RampBlocks \in Nat
      BY <1>1, <2>1
    <3>2. (blocks - RampBlocks) * perBlock \in Nat
      BY <1>2, <3>1, ProductNat
    <3>3. BidModifier(blocks) = Scalar7 - (blocks - RampBlocks) * perBlock
      BY <1>1, <2>1 DEF BidModifier, perBlock
    <3> QED
      BY <3>2, <3>3, ScalarsPositive
  <2>2. CASE ~(blocks > RampBlocks /\ blocks < 2 * RampBlocks)
    BY <1>1, <2>2, ScalarsPositive DEF BidModifier
  <2> QED
    BY <2>1, <2>2
<1>4. LotModifier(blocks) <= Scalar7
  <2>1. CASE blocks <= RampBlocks
    <3>1. blocks * perBlock <= RampBlocks * perBlock
      BY <1>1, <1>2, <2>1, ProductMonotone
    <3>2. blocks * perBlock \in Int /\ RampBlocks * perBlock \in Int
      BY <1>1, <1>2, ProductInt
    <3>3. LotModifier(blocks) = blocks * perBlock
      BY <1>1, <2>1 DEF LotModifier, perBlock
    <3> QED
      BY <1>2, <3>1, <3>2, <3>3, ScalarsPositive
  <2>2. CASE ~(blocks <= RampBlocks)
    BY <1>1, <2>2, ScalarsPositive DEF LotModifier
  <2> QED
    BY <2>1, <2>2
<1> QED
  BY <1>3, <1>4

\* A fill takes at most the share filled of either side, and what remains is
\* the auction without that share.
LEMMA FillWithinBase ==
    ASSUME now \in Nat, NEW au, au \in Auction \cup {NoAuction}, NEW pct, CanScale(au, pct),
           NEW t \in Tokens
    PROVE  /\ ToFill(au, pct).bid[t] <= FilledBase(au, pct).bid[t]
           /\ ToFill(au, pct).lot[t] <= FilledBase(au, pct).lot[t]
           /\ ToFill(au, pct).bid[t] \in Nat /\ ToFill(au, pct).lot[t] \in Nat
           /\ FilledBase(au, pct).bid[t] \in Nat /\ FilledBase(au, pct).lot[t] \in Nat
           /\ FilledBase(au, pct).bid[t] <= au.bid[t] /\ FilledBase(au, pct).lot[t] <= au.lot[t]
           /\ au.bid[t] \in Nat /\ au.lot[t] \in Nat
<1> DEFINE base == FilledBase(au, pct)
           blocks == now - au.block
<1>1. au \in Auction /\ pct \in 1..100 /\ au.block \in Nat /\ now >= au.block
  BY DEF CanScale, Auction
<1>2. /\ base.bid \in [Tokens -> Nat] /\ base.lot \in [Tokens -> Nat]
      /\ base.bid[t] <= au.bid[t] /\ base.lot[t] <= au.lot[t]
      /\ au.bid[t] \in Nat /\ au.lot[t] \in Nat
  BY <1>1, FilledBaseType DEF Auction
<1>3. blocks \in Nat
  BY <1>1
<1>4. /\ BidModifier(blocks) \in Nat /\ LotModifier(blocks) \in Nat
      /\ BidModifier(blocks) <= Scalar7 /\ LotModifier(blocks) <= Scalar7
  BY <1>3, ModifiersNat, ModifiersAtMostOne
<1>5. /\ ToFill(au, pct).bid[t] = MulCeil(base.bid[t], BidModifier(blocks), Scalar7)
      /\ ToFill(au, pct).lot[t] = MulFloor(base.lot[t], LotModifier(blocks), Scalar7)
  BY DEF ToFill
<1> HIDE DEF base, blocks
<1>6. base.bid[t] \in Nat /\ base.lot[t] \in Nat
  BY <1>2
<1>7. /\ MulCeil(base.bid[t], BidModifier(blocks), Scalar7) <= base.bid[t]
      /\ MulCeil(base.bid[t], BidModifier(blocks), Scalar7) \in Nat
  BY <1>4, <1>6, MulAtMost, MulNat, ScalarsPositive
<1>8. /\ MulFloor(base.lot[t], LotModifier(blocks), Scalar7) <= base.lot[t]
      /\ MulFloor(base.lot[t], LotModifier(blocks), Scalar7) \in Nat
  BY <1>4, <1>6, MulAtMost, MulNat, ScalarsPositive
<1> QED
  BY <1>2, <1>5, <1>6, <1>7, <1>8 DEF base

LEMMA RemainingIs ==
    ASSUME NEW au \in Auction, NEW pct \in 1..100
    PROVE  /\ (\A t \in Tokens : au.bid[t] - FilledBase(au, pct).bid[t] = 0
                                 /\ au.lot[t] - FilledBase(au, pct).lot[t] = 0)
                => Remaining(au, pct) = NoAuction
           /\ Remaining(au, pct) # NoAuction =>
                /\ Remaining(au, pct).block = au.block
                /\ \A t \in Tokens :
                     /\ Remaining(au, pct).bid[t] = au.bid[t] - FilledBase(au, pct).bid[t]
                     /\ Remaining(au, pct).lot[t] = au.lot[t] - FilledBase(au, pct).lot[t]
<1> DEFINE base == FilledBase(au, pct)
           rest == [bid |-> [t \in Tokens |-> au.bid[t] - base.bid[t]],
                    lot |-> [t \in Tokens |-> au.lot[t] - base.lot[t]],
                    block |-> au.block]
<1>1. Remaining(au, pct) = IF \A t \in Tokens : rest.bid[t] = 0 /\ rest.lot[t] = 0
                           THEN NoAuction ELSE rest
  BY DEF Remaining
<1>2. /\ rest.block = au.block
      /\ \A t \in Tokens : /\ rest.bid[t] = au.bid[t] - base.bid[t]
                           /\ rest.lot[t] = au.lot[t] - base.lot[t]
  OBVIOUS
<1> HIDE DEF rest, base
<1> QED
  BY <1>1, <1>2 DEF base

LEMMA RemainingWithin ==
    ASSUME now \in Nat, NEW au, au \in Auction \cup {NoAuction}, NEW pct, CanScale(au, pct),
           Remaining(au, pct) # NoAuction
    PROVE  Within(Remaining(au, pct), au)
<1>1. au \in Auction /\ pct \in 1..100
  BY ToFillType
<1>2. ASSUME NEW t \in Tokens
      PROVE  /\ Remaining(au, pct).bid[t] <= au.bid[t]
             /\ Remaining(au, pct).lot[t] <= au.lot[t]
  <2>1. /\ Remaining(au, pct).bid[t] = au.bid[t] - FilledBase(au, pct).bid[t]
        /\ Remaining(au, pct).lot[t] = au.lot[t] - FilledBase(au, pct).lot[t]
    BY <1>1, RemainingIs
  <2> QED
    BY <2>1, FillWithinBase
<1> QED
  BY <1>1, <1>2, RemainingIs DEF Within

\* Less than all of an amount is less than the amount, when rounded down.
LEMMA PartIsLess ==
    ASSUME NEW x \in Nat, x > 0, NEW y \in Nat, NEW d \in Int, d > 0, y < d
    PROVE  MulFloor(x, y, d) < x
<1> DEFINE m == x * y
           n == x * d
<1>1. m \in Int /\ n \in Int
  BY ProductInt
<1>2. m <= x * (d - 1)
  BY ProductMonotone
<1>3. x * (d - 1) = n - x
  BY SMT
<1>4. n - x < n
  BY <1>1
<1>5. m < n
  BY <1>1, <1>2, <1>3, <1>4
<1>6. d * (x - 1) + d = n
  BY SMT
<1>7. d * (x - 1) \in Int
  BY ProductInt
<1> HIDE DEF m, n
<1>8. FloorDiv(m, d) <= x - 1
  BY <1>1, <1>5, <1>6, <1>7, FloorDivUpper
<1>9. FloorDiv(m, d) \in Int
  BY <1>1, FloorDivBounds
<1> QED
  BY <1>8, <1>9 DEF MulFloor, m

LEMMA MulByOne ==
    ASSUME NEW x \in Nat, NEW d \in Int, d > 0
    PROVE  MulFloor(x, d, d) = x /\ MulCeil(x, d, d) = x
<1> DEFINE m == x * d
<1>1. m \in Int /\ m = d * x
  BY ProductInt
<1> HIDE DEF m
<1>2. FloorDiv(m, d) <= x /\ FloorDiv(m, d) >= x
  BY <1>1, FloorDivUpper, FloorDivLower
<1>3. CeilDiv(m, d) <= x /\ CeilDiv(m, d) >= x
  BY <1>1, CeilDivUpper, CeilDivLower
<1>4. FloorDiv(m, d) \in Int /\ CeilDiv(m, d) \in Int
  BY <1>1, FloorDivBounds, CeilDivBounds
<1> QED
  BY <1>2, <1>3, <1>4 DEF MulFloor, MulCeil, m

LEMMA WholePercent ==
    /\ Percent7(100) = Scalar7
    /\ \A pct \in 1..99 : Percent7(pct) < Scalar7
<1>1. Percent7(100) = Scalar7
  BY ScalarsPositive DEF Percent7
<1>2. ASSUME NEW pct \in 1..99
      PROVE  Percent7(pct) < Scalar7
  <2> DEFINE m == pct * Scalar7
  <2>1. m \in Int /\ m <= 99 * Scalar7
    BY ProductInt, ProductMonotone, ScalarsPositive
  <2> HIDE DEF m
  <2>2. m < 100 * (Scalar7 - 1) + 100
    BY <2>1, ScalarsPositive
  <2>3. FloorDiv(m, 100) <= Scalar7 - 1
    BY <2>1, <2>2, FloorDivUpper, ScalarsPositive
  <2>4. FloorDiv(m, 100) \in Int
    BY <2>1, FloorDivBounds
  <2> QED
    BY <2>3, <2>4, ScalarsPositive DEF FloorDiv, Percent7, m
<1> QED
  BY <1>1, <1>2

\* Whoever takes a whole lot of something has filled the whole auction.
LEMMA WholeLotIsAll ==
    ASSUME now \in Nat, NEW au, au \in Auction \cup {NoAuction}, NEW pct, CanScale(au, pct),
           NEW t \in Tokens, au.lot[t] > 0, ToFill(au, pct).lot[t] = au.lot[t]
    PROVE  Remaining(au, pct) = NoAuction
<1>1. au \in Auction /\ pct \in 1..100 /\ au.bid \in [Tokens -> Nat] /\ au.lot \in [Tokens -> Nat]
  BY ToFillType DEF Auction
<1>2. FilledBase(au, pct).lot[t] = au.lot[t]
  BY FillWithinBase
<1>3. pct = 100
  <2>1. ASSUME pct # 100 PROVE FALSE
    <3>1. pct \in 1..99
      BY <1>1, <2>1
    <3>2. Percent7(pct) \in Nat /\ Percent7(pct) < Scalar7
      BY <1>1, <3>1, WholePercent, PercentOfScalar
    <3>3. FilledBase(au, pct).lot[t] = MulFloor(au.lot[t], Percent7(pct), Scalar7)
      BY DEF FilledBase
    <3>4. au.lot[t] \in Nat
      BY <1>1
    <3>5. MulFloor(au.lot[t], Percent7(pct), Scalar7) < au.lot[t]
      BY <3>2, <3>4, PartIsLess, ScalarsPositive
    <3> QED
      BY <1>2, <3>3, <3>4, <3>5
  <2> QED
    BY <2>1
<1>4. ASSUME NEW s \in Tokens
      PROVE  /\ au.bid[s] - FilledBase(au, pct).bid[s] = 0
             /\ au.lot[s] - FilledBase(au, pct).lot[s] = 0
  <2>1. /\ FilledBase(au, pct).bid[s] = MulCeil(au.bid[s], Scalar7, Scalar7)
        /\ FilledBase(au, pct).lot[s] = MulFloor(au.lot[s], Scalar7, Scalar7)
    BY <1>3, WholePercent DEF FilledBase
  <2>2. au.bid[s] \in Nat /\ au.lot[s] \in Nat
    BY <1>1
  <2>3. MulCeil(au.bid[s], Scalar7, Scalar7) = au.bid[s]
    BY <2>2, MulByOne, ScalarsPositive
  <2>4. MulFloor(au.lot[s], Scalar7, Scalar7) = au.lot[s]
    BY <2>2, MulByOne, ScalarsPositive
  <2> QED
    BY <2>1, <2>2, <2>3, <2>4
<1> QED
  BY <1>1, <1>4, RemainingIs

-----------------------------------------------------------------------------
(* A fill of a liquidation: the user's positions are sold, and debt that   *)
(* is left with nothing behind it goes to the backstop.                    *)

\* What the user keeps of `left', unless it is handed to the backstop.
Settles(w, v, u, left, rest) ==
    \/ /\ \A a \in Assets : v.positions[u].liabilities[a] = left[a]
       /\ v.positions[Backstop] = w.positions[Backstop]
       /\ rest = NoAuction => ~HasBadDebt(v.positions[u])
    \/ /\ rest = NoAuction
       /\ ~HasCollateral(v.positions[u])
       /\ \E a \in Assets : left[a] > 0
       /\ \A a \in Assets :
            /\ v.positions[u].liabilities[a] = 0
            /\ v.positions[Backstop].liabilities[a] =
                 w.positions[Backstop].liabilities[a] + left[a]

LEMMA FillUserLiquidationIs ==
    ASSUME GoodSettings, NEW w, WellFormed(w), NEW u \in Users, NEW filler \in Users,
           NEW pct, CanFillUserLiquidation(w, u, filler, pct),
           NEW v, v = FillUserLiquidation(w, u, filler, pct)
    PROVE  LET au == w.liquidation[u]
               f == ToFill(au, pct)
               rest == Remaining(au, pct)
           IN /\ v \in Ledger /\ Accrued(w, v)
              /\ v.liquidation = [w.liquidation EXCEPT ![u] = rest]
              /\ v.bad_debt = w.bad_debt /\ v.interest = w.interest
              /\ v.backstop_tokens = w.backstop_tokens
              /\ LessDebt(w, v) /\ LessDeposits(w, v)
              /\ \A a \in Assets : v.reserves[a].b_supply = w.reserves[a].b_supply
              /\ \A x \in Accounts \ {u, filler, Backstop} : v.positions[x] = w.positions[x]
              /\ v.positions[u].supply = w.positions[u].supply
              /\ \A a \in Assets :
                   v.positions[u].collateral[a] = w.positions[u].collateral[a] - f.lot[a]
              /\ Settles(w, v, u, [a \in Assets |-> w.positions[u].liabilities[a] - f.bid[a]], rest)
<1> DEFINE au == w.liquidation[u]
           f == ToFill(au, pct)
           rest == Remaining(au, pct)
           coll == OnlyAssets(f.lot)
           liab == OnlyAssets(f.bid)
           moved == MovePositions(w, u, filler, coll, liab)
           settled == IF rest = NoAuction /\ HasBadDebt(moved.positions[u])
                      THEN HandleUserBadDebt(moved, u) ELSE moved
           left == [a \in Assets |-> w.positions[u].liabilities[a] - f.bid[a]]
<1>1. /\ u \in Accounts /\ filler \in Accounts /\ u # filler
      /\ Backstop \in Accounts /\ u # Backstop /\ filler # Backstop
  BY AccountsFinite, StateAssumption DEF CanFillUserLiquidation
<1>2. /\ w \in Ledger /\ au \in Auction \cup {NoAuction}
      /\ w.liquidation \in [Users -> Auction \cup {NoAuction}]
      /\ w.reserves \in [Assets -> ReserveData]
  BY LedgerFields DEF WellFormed
<1>3. now \in Nat /\ CanScale(au, pct) /\ CanRemovePositions(w, u, coll, liab)
  BY DEF GoodSettings, CanFillUserLiquidation
<1>4. /\ au \in Auction /\ pct \in 1..100
      /\ f.bid \in [Tokens -> Nat] /\ f.lot \in [Tokens -> Nat]
  BY <1>2, <1>3, ToFillType
<1>5. rest \in Auction \cup {NoAuction}
  BY <1>4, RemainingType
<1>6. coll \in [Assets -> Nat] /\ liab \in [Assets -> Nat]
  BY <1>4, OnlyAssetsType
<1>7. \A a \in Assets : coll[a] = f.lot[a] /\ liab[a] = f.bid[a]
  BY DEF OnlyAssets
<1>8. FillUserLiquidation(w, u, filler, pct) = [settled EXCEPT !.liquidation[u] = rest]
  BY DEF FillUserLiquidation
<1> HIDE DEF coll, liab, f, rest, au
<1>9. /\ WellFormed(moved) /\ SameTotals(w, moved)
      /\ \A x \in Accounts \ {u, filler} : moved.positions[x] = w.positions[x]
      /\ moved.positions[u].supply = w.positions[u].supply
      /\ \A a \in Assets :
           /\ moved.positions[u].collateral[a] = w.positions[u].collateral[a] - f.lot[a]
           /\ moved.positions[u].liabilities[a] = left[a]
  <2>1. Moved(w, u, filler, coll, liab, moved)
    BY <1>1, <1>3, <1>6, MovedPositions
  <2> HIDE DEF moved
  <2> QED
    BY <1>7, <2>1 DEF Moved
<1> HIDE DEF moved, left
<1>10. /\ WellFormed(settled) /\ SameTotals(w, settled)
       /\ \A x \in Accounts \ {u, filler, Backstop} : settled.positions[x] = w.positions[x]
       /\ settled.positions[u].supply = w.positions[u].supply
       /\ \A a \in Assets :
            settled.positions[u].collateral[a] = w.positions[u].collateral[a] - f.lot[a]
       /\ Settles(w, settled, u, left, rest)
  <2>1. CASE rest = NoAuction /\ HasBadDebt(moved.positions[u])
    <3> DEFINE x == HandleUserBadDebt(moved, u)
    <3>1. settled = x
      BY <2>1
    <3>2. /\ WellFormed(x) /\ SameTotals(moved, x)
          /\ \A y \in Accounts \ {u, Backstop} : x.positions[y] = moved.positions[y]
          /\ x.positions[u].supply = moved.positions[u].supply
          /\ \A a \in Assets :
                /\ x.positions[u].collateral[a] = moved.positions[u].collateral[a]
                /\ x.positions[u].liabilities[a] = 0
                /\ x.positions[Backstop].liabilities[a] =
                     moved.positions[Backstop].liabilities[a] + moved.positions[u].liabilities[a]
      BY <1>9, HandedOver
    <3> HIDE DEF x, settled
    <3>3. SameTotals(w, x)
      BY <1>9, <3>2, SameTotalsAgain
    <3>4. ~HasCollateral(x.positions[u])
      BY <2>1, <3>2 DEF HasBadDebt, HasCollateral, Held
    <3>5. \E a \in Assets : left[a] > 0
      BY <1>9, <2>1 DEF HasBadDebt, HasLiabilities, Held
    <3>6. moved.positions[Backstop] = w.positions[Backstop]
      BY <1>1, <1>9
    <3>7. Settles(w, x, u, left, rest)
      BY <1>9, <2>1, <3>2, <3>4, <3>5, <3>6 DEF Settles
    <3> QED
      BY <1>9, <3>1, <3>2, <3>3, <3>7
  <2>2. CASE ~(rest = NoAuction /\ HasBadDebt(moved.positions[u]))
    <3>1. settled = moved
      BY <2>2
    <3>2. moved.positions[Backstop] = w.positions[Backstop]
      BY <1>1, <1>9
    <3>3. Settles(w, moved, u, left, rest)
      BY <1>9, <2>2, <3>2 DEF Settles
    <3> QED
      BY <1>9, <3>1, <3>3
  <2> QED
    BY <2>1, <2>2
<1> HIDE DEF settled
<1>11. /\ v \in Ledger /\ v.reserves = settled.reserves /\ v.positions = settled.positions
       /\ v.liquidation = [settled.liquidation EXCEPT ![u] = rest]
       /\ v.bad_debt = settled.bad_debt /\ v.interest = settled.interest
       /\ v.backstop_tokens = settled.backstop_tokens
  <2>1. settled \in Ledger
    BY <1>10 DEF WellFormed
  <2> QED
    BY <1>5, <1>8, <2>1 DEF Ledger
<1>12. Accrued(w, v)
  BY <1>10, <1>11 DEF Accrued, SameTotals
<1>13. /\ LessDebt(w, v) /\ LessDeposits(w, v)
       /\ \A a \in Assets : v.reserves[a].b_supply = w.reserves[a].b_supply
  <2>1. \A a \in Assets : w.reserves[a].d_supply \in Nat /\ w.reserves[a].b_supply \in Nat
    BY <1>2 DEF ReserveData
  <2> QED
    BY <1>10, <1>11, <2>1 DEF SameTotals, LessDebt, LessDeposits
<1>14. Settles(w, v, u, left, rest)
  BY <1>10, <1>11 DEF Settles
<1>15. /\ v.liquidation = [w.liquidation EXCEPT ![u] = rest]
       /\ v.bad_debt = w.bad_debt /\ v.interest = w.interest
       /\ v.backstop_tokens = w.backstop_tokens
  BY <1>10, <1>11 DEF SameTotals
<1> QED
  BY <1>10, <1>11, <1>12, <1>13, <1>14, <1>15 DEF au, f, rest, left

LEMMA FillUserLiquidationSafe ==
    ASSUME GoodSettings, NEW w, WellFormed(w), NEW u \in Users, NEW filler \in Users,
           NEW pct, CanFillUserLiquidation(w, u, filler, pct),
           NEW v, v = FillUserLiquidation(w, u, filler, pct)
    PROVE  SafeStep(w, v, filler, TRUE)
<1> DEFINE au == w.liquidation[u]
           f == ToFill(au, pct)
           rest == Remaining(au, pct)
           left == [a \in Assets |-> w.positions[u].liabilities[a] - f.bid[a]]
           p == w.positions[u]
           q == v.positions[u]
<1>1. /\ u \in Accounts /\ filler \in Accounts /\ u # filler
      /\ Backstop \in Accounts /\ u # Backstop /\ filler # Backstop
      /\ Users \subseteq Accounts
  BY AccountsFinite, StateAssumption DEF CanFillUserLiquidation
<1>2. /\ w \in Ledger /\ v \in Ledger /\ au \in Auction \cup {NoAuction}
      /\ w.positions \in [Accounts -> Positions] /\ v.positions \in [Accounts -> Positions]
      /\ w.liquidation \in [Users -> Auction \cup {NoAuction}]
      /\ w.backstop_tokens \in Nat
  BY FillUserLiquidationIs, LedgerFields DEF WellFormed
<1>3. now \in Nat /\ CanScale(au, pct) /\ au # NoAuction
  BY DEF GoodSettings, CanFillUserLiquidation, CanScale
<1>4. /\ Accrued(w, v)
      /\ v.liquidation = [w.liquidation EXCEPT ![u] = rest]
      /\ v.bad_debt = w.bad_debt /\ v.interest = w.interest
      /\ v.backstop_tokens = w.backstop_tokens
      /\ LessDebt(w, v) /\ LessDeposits(w, v)
      /\ \A x \in Accounts \ {u, filler, Backstop} : v.positions[x] = w.positions[x]
      /\ q.supply = p.supply
      /\ \A a \in Assets : q.collateral[a] = p.collateral[a] - f.lot[a]
      /\ Settles(w, v, u, left, rest)
  BY FillUserLiquidationIs
<1>5. /\ au \in Auction /\ pct \in 1..100
      /\ v.liquidation[u] = rest
      /\ \A x \in Users \ {u} : v.liquidation[x] = w.liquidation[x]
  BY <1>2, <1>3, <1>4, ToFillType
<1>6. ASSUME NEW a \in Assets
      PROVE  /\ f.bid[a] \in Nat /\ f.lot[a] \in Nat
             /\ FilledBase(au, pct).bid[a] \in Nat /\ FilledBase(au, pct).lot[a] \in Nat
             /\ f.bid[a] <= FilledBase(au, pct).bid[a] /\ f.lot[a] <= FilledBase(au, pct).lot[a]
             /\ FilledBase(au, pct).bid[a] <= au.bid[a] /\ FilledBase(au, pct).lot[a] <= au.lot[a]
             /\ au.bid[a] \in Nat /\ au.lot[a] \in Nat
             /\ p.collateral[a] \in Nat /\ p.liabilities[a] \in Nat
             /\ q.collateral[a] \in Nat /\ q.liabilities[a] \in Nat
             /\ left[a] = p.liabilities[a] - f.bid[a] /\ left[a] \in Nat
  <2>1. a \in Tokens
    BY DEF Tokens
  <2>2. f.bid[a] <= p.liabilities[a]
    BY DEF CanFillUserLiquidation, CanRemovePositions, OnlyAssets
  <2>3. p.collateral[a] \in Nat /\ p.liabilities[a] \in Nat /\ q.collateral[a] \in Nat /\ q.liabilities[a] \in Nat
    BY <1>1, <1>2, PositionNat
  <2>4. left[a] = p.liabilities[a] - f.bid[a]
    OBVIOUS
  <2> HIDE DEF left
  <2>5. /\ f.bid[a] \in Nat /\ f.lot[a] \in Nat
        /\ FilledBase(au, pct).bid[a] \in Nat /\ FilledBase(au, pct).lot[a] \in Nat
        /\ f.bid[a] <= FilledBase(au, pct).bid[a] /\ f.lot[a] <= FilledBase(au, pct).lot[a]
        /\ FilledBase(au, pct).bid[a] <= au.bid[a] /\ FilledBase(au, pct).lot[a] <= au.lot[a]
        /\ au.bid[a] \in Nat /\ au.lot[a] \in Nat
    BY <1>2, <1>3, <2>1, FillWithinBase
  <2> QED
    BY <2>2, <2>3, <2>4, <2>5
<1> HIDE DEF f, rest, left
<1>7. Shrunk(p, q)
  BY <1>4, <1>6 DEF Shrunk, Settles
<1>8. rest # NoAuction =>
        /\ Within(rest, au)
        /\ \A a \in Assets : q.liabilities[a] = left[a]
        /\ v.positions[Backstop] = w.positions[Backstop]
  BY <1>2, <1>3, <1>4, RemainingWithin DEF Settles, rest
<1>9. ASSUME rest # NoAuction, NEW a \in Assets
      PROVE  /\ rest.bid[a] = au.bid[a] - FilledBase(au, pct).bid[a]
             /\ rest.lot[a] = au.lot[a] - FilledBase(au, pct).lot[a]
  BY <1>5, <1>9, RemainingIs DEF rest, Tokens
<1>10. rest = au => q = p
  <2> SUFFICES ASSUME rest = au PROVE q = p
    OBVIOUS
  <2>1. ASSUME NEW a \in Assets
        PROVE  q.liabilities[a] = p.liabilities[a] /\ q.collateral[a] = p.collateral[a]
    <3>1. f.bid[a] = 0 /\ f.lot[a] = 0
      BY <1>3, <1>6, <1>9
    <3> QED
      BY <1>3, <1>4, <1>6, <1>8, <3>1
  <2>2. p \in Positions /\ q \in Positions
    BY <1>1, <1>2
  <2>3. q.liabilities = p.liabilities /\ q.collateral = p.collateral
    BY <2>1, <2>2 DEF Positions
  <2> QED
    BY <1>4, <2>2, <2>3 DEF Positions
<1>11. Since(w, v, filler, TRUE)
  <2>1. ASSUME NEW x \in Users \ {filler} PROVE OtherSince(w, v, x)
    <3>1. CASE x = u
      BY <1>3, <1>5, <1>7, <1>8, <1>10, <3>1 DEF OtherSince
    <3>2. CASE x # u
      BY <1>1, <1>2, <1>4, <1>5, <3>2, OtherSame, StateAssumption
    <3> QED
      BY <3>1, <3>2
  <2>2. v.liquidation[filler] = w.liquidation[filler]
    BY <1>1, <1>5
  <2> QED
    BY <1>2, <1>4, <2>1, <2>2 DEF Since, LessDebt, LessDeposits
<1>12. ASSUME Safe(w, {filler}) PROVE Safe(v, {filler})
  <2>1. SoundUser(w, u)
    BY <1>1, <1>12 DEF Safe
  <2>2. \A a \in Assets : au.lot[a] <= p.collateral[a] /\ au.bid[a] <= p.liabilities[a]
    BY <1>3, <2>1 DEF SoundUser, LiquidationCovered
  <2>3. LiquidationCovered(v, u)
    <3> SUFFICES ASSUME rest # NoAuction, NEW a \in Assets
                 PROVE  rest.lot[a] <= q.collateral[a] /\ rest.bid[a] <= q.liabilities[a]
      BY <1>5 DEF LiquidationCovered
    <3> QED
      BY <1>4, <1>6, <1>8, <1>9, <2>2
  <2>4. ~HasBadDebt(q)
    <3>1. CASE rest = NoAuction
      BY <1>4, <3>1 DEF Settles, HasBadDebt, HasLiabilities, Held
    <3>2. CASE rest # NoAuction
      <4> SUFFICES ASSUME HasBadDebt(q) PROVE FALSE
        OBVIOUS
      <4>1. PICK a \in Assets : q.liabilities[a] > 0
        BY DEF HasBadDebt, HasLiabilities, Held
      <4>2. p.liabilities[a] > 0
        BY <1>6, <1>7, <4>1 DEF Shrunk
      <4>3. HasCollateral(p)
        BY <2>1, <4>2 DEF SoundUser, HasBadDebt, HasLiabilities, Held
      <4>4. PICK c \in Assets : p.collateral[c] > 0
        BY <4>3 DEF HasCollateral, Held
      <4>5. ~(q.collateral[c] > 0)
        BY DEF HasBadDebt, HasCollateral, Held
      <4>6. f.lot[c] = p.collateral[c]
        BY <1>4, <1>6, <4>5
      <4>7. f.lot[c] = au.lot[c] /\ au.lot[c] > 0
        <5>1. f.lot[c] <= FilledBase(au, pct).lot[c] /\ FilledBase(au, pct).lot[c] <= au.lot[c]
          BY <1>6
        <5>2. au.lot[c] <= p.collateral[c]
          BY <2>2
        <5>3. /\ f.lot[c] \in Nat /\ FilledBase(au, pct).lot[c] \in Nat
              /\ au.lot[c] \in Nat /\ p.collateral[c] \in Nat
          BY <1>6
        <5> QED
          BY <4>4, <4>6, <5>1, <5>2, <5>3
      <4>8. c \in Tokens
        BY DEF Tokens
      <4> QED
        BY <1>2, <1>3, <3>2, <4>7, <4>8, WholeLotIsAll DEF f, rest
    <3> QED
      BY <3>1, <3>2
  <2>5. ASSUME NEW x \in Users \ {filler} PROVE SoundUser(v, x)
    <3>1. CASE x = u
      BY <2>3, <2>4, <3>1 DEF SoundUser
    <3>2. CASE x # u
      <4>1. v.positions[x] = w.positions[x] /\ v.liquidation[x] = w.liquidation[x]
        BY <1>1, <1>4, <1>5, <3>2, StateAssumption
      <4> QED
        BY <1>12, <4>1, SameUserSound DEF Safe
    <3> QED
      BY <3>1, <3>2
  <2>6. ASSUME NEW x \in Accounts \ {filler} PROVE DebtPriced(v, x)
    <3> SUFFICES ASSUME NEW a \in Assets, v.positions[x].liabilities[a] > 0
                 PROVE  config.reserves[a].l_factor > 0
      BY DEF DebtPriced
    <3>1. \A y \in Accounts \ {filler} :
             w.positions[y].liabilities[a] > 0 => config.reserves[a].l_factor > 0
      BY <1>12 DEF Safe, DebtPriced
    <3>2. CASE x = u
      <4>1. p.liabilities[a] > 0
        BY <1>6, <1>7, <3>2 DEF Shrunk
      <4> QED
        BY <1>1, <3>1, <4>1
    <3>3. CASE x = Backstop
      <4>1. w.positions[Backstop].liabilities[a] \in Nat
        BY <1>1, <1>2, PositionNat
      <4>2. w.positions[Backstop].liabilities[a] > 0 \/ p.liabilities[a] > 0
        BY <1>4, <1>6, <3>3, <4>1 DEF Settles
      <4> QED
        BY <1>1, <3>1, <4>2
    <3>4. CASE x # u /\ x # Backstop
      BY <1>4, <3>1, <3>4
    <3> QED
      BY <3>2, <3>3, <3>4
  <2>7. BadDebtCovered(v)
    <3> SUFFICES ASSUME w.bad_debt # NoAuction, NEW a \in Assets
                 PROVE  w.bad_debt.bid[a] <= v.positions[Backstop].liabilities[a]
      BY <1>4 DEF BadDebtCovered
    <3>1. w.bad_debt.bid[a] <= w.positions[Backstop].liabilities[a]
      BY <1>12 DEF Safe, BadDebtCovered
    <3>2. w.bad_debt.bid[a] \in Nat
      <4>1. w.bad_debt \in Auction
        BY <1>2, LedgerFields
      <4> QED
        BY <4>1 DEF Auction, Tokens
    <3>3. w.positions[Backstop].liabilities[a] \in Nat
      BY <1>1, <1>2, PositionNat
    <3> QED
      BY <1>4, <1>6, <3>1, <3>2, <3>3 DEF Settles
  <2> QED
    BY <2>5, <2>6, <2>7 DEF Safe
<1>13. CreditSafe(w) => CreditSafe(v)
  BY <1>2, <1>4, AccruedCreditSafe
<1>14. RatesKept(w, v)
  BY <1>2, <1>4, RatesKeptIfAccrued
<1>15. PassedOn(w, v)
  <2>1. CASE v.positions[Backstop] = w.positions[Backstop]
    <3>1. \A a \in Assets : w.positions[Backstop].liabilities[a] \in Nat
      BY <1>1, <1>2, PositionNat
    <3> QED
      BY <2>1, <3>1 DEF PassedOn
  <2>2. CASE v.positions[Backstop] # w.positions[Backstop]
    <3>1. /\ ~HasCollateral(q) /\ \A a \in Assets : q.liabilities[a] = 0
          /\ \E a \in Assets : left[a] > 0
      BY <1>4, <2>2 DEF Settles
    <3>2. HasLiabilities(p)
      BY <1>6, <3>1 DEF HasLiabilities, Held
    <3>3. ~HasLiabilities(q)
      BY <3>1 DEF HasLiabilities, Held
    <3> QED
      BY <3>1, <3>2, <3>3 DEF PassedOn
  <2> QED
    BY <2>1, <2>2
<1> QED
  BY <1>11, <1>12, <1>13, <1>14, <1>15 DEF SafeStep

-----------------------------------------------------------------------------
(* The default on the backstop's debt: only here a deposit share loses     *)
(* value, and only in a reserve whose debt is forgiven.                    *)

LEMMA ForgiveKeepsCredit ==
    ASSUME NEW r \in ReserveData, NEW d
    PROVE  Forgive(r, d).backstop_credit = r.backstop_credit
<1> DEFINE s == [r EXCEPT !.d_supply = @ - d]
           loss == DivCeil(ToAssetFromD(s, d), s.b_supply, Scalar12)
           rate == IF s.b_rate < loss THEN 0 ELSE s.b_rate - loss
<1>1. Forgive(r, d) = [s EXCEPT !.b_rate = rate]
  BY DEF Forgive, WriteOff
<1> HIDE DEF loss, rate
<1>2. [s EXCEPT !.b_rate = rate].backstop_credit = s.backstop_credit
  BY DEF ReserveData
<1>3. s.backstop_credit = r.backstop_credit
  BY DEF ReserveData
<1> QED
  BY <1>1, <1>2, <1>3

LEMMA DefaultedDebt ==
    ASSUME GoodSettings, NEW w, WellFormed(w), CanDefault(w), NEW v, v = DefaultBackstopDebt(w)
    PROVE  /\ v \in Ledger
           /\ v.liquidation = w.liquidation /\ v.bad_debt = w.bad_debt
           /\ v.interest = w.interest /\ v.backstop_tokens = w.backstop_tokens
           /\ \A x \in Accounts \ {Backstop} : v.positions[x] = w.positions[x]
           /\ v.positions[Backstop].liabilities = NoShares
           /\ \A a \in Assets :
                /\ v.reserves[a].d_rate >= w.reserves[a].d_rate
                /\ v.reserves[a].b_rate < w.reserves[a].b_rate =>
                     w.positions[Backstop].liabilities[a] > 0
                /\ v.reserves[a].d_supply =
                     w.reserves[a].d_supply - w.positions[Backstop].liabilities[a]
                /\ v.reserves[a].b_supply = w.reserves[a].b_supply
                /\ v.reserves[a].backstop_credit >= w.reserves[a].backstop_credit
                /\ LoadedReserve(v, a).backstop_credit = LoadedReserve(w, a).backstop_credit
<1> DEFINE debt == w.positions[Backstop].liabilities
           l == LoadReserves(w, Held(debt))
           rs == [a \in Assets |-> IF debt[a] > 0 THEN Forgive(l.reserves[a], debt[a]) ELSE l.reserves[a]]
           ps == [l.positions EXCEPT ![Backstop].liabilities = NoShares]
<1>1. Backstop \in Accounts /\ w \in Ledger
  BY AccountsFinite DEF WellFormed
<1>2. w.positions \in [Accounts -> Positions] /\ debt \in [Assets -> Nat]
  BY <1>1, LedgerFields DEF Positions
<1>3. l \in Ledger /\ l.reserves \in [Assets -> ReserveData] /\ WellFormed(l)
  BY LoadReservesWellFormed, LedgerFields DEF WellFormed
<1>4. /\ l.positions = w.positions /\ l.liquidation = w.liquidation
      /\ l.bad_debt = w.bad_debt /\ l.interest = w.interest
      /\ l.backstop_tokens = w.backstop_tokens
      /\ l.reserves = [a \in Assets |-> IF a \in Held(debt) THEN LoadedReserve(w, a) ELSE w.reserves[a]]
  BY <1>1, LoadReservesFields
<1>5. v \in Ledger
  BY DefaultBackstopDebtWellFormed DEF WellFormed
<1>6. v = [l EXCEPT !.reserves = rs, !.positions = ps]
  <2> HIDE DEF debt
  <2>1. v = [l EXCEPT !.reserves = rs, !.positions[Backstop].liabilities = NoShares]
    BY DEF DefaultBackstopDebt, debt
  <2> HIDE DEF l, rs
  <2> QED
    BY <1>1, <1>3, <2>1 DEF Ledger
<1>7. ps[Backstop].liabilities = NoShares /\ \A x \in Accounts \ {Backstop} : ps[x] = w.positions[x]
  BY <1>1, <1>2, <1>4 DEF Positions
<1>8. ASSUME NEW a \in Assets
      PROVE  /\ rs[a].d_rate >= w.reserves[a].d_rate
             /\ rs[a].b_rate < w.reserves[a].b_rate => debt[a] > 0
             /\ rs[a].d_supply = w.reserves[a].d_supply - debt[a]
             /\ rs[a].b_supply = w.reserves[a].b_supply
             /\ rs[a].backstop_credit >= w.reserves[a].backstop_credit
             /\ \/ rs[a] = w.reserves[a]
                \/ rs[a].last_time = now /\ rs[a].backstop_credit = LoadedReserve(w, a).backstop_credit
  <2>1. w.reserves[a] \in ReserveData /\ debt[a] \in Nat /\ l.reserves[a] \in ReserveData
    BY <1>1, <1>2, <1>3, LedgerFields
  <2>2. CASE debt[a] > 0
    <3>1. rs[a] = Forgive(l.reserves[a], debt[a]) /\ l.reserves[a] = LoadedReserve(w, a)
      BY <1>4, <2>2 DEF Held
    <3> HIDE DEF debt, rs, l
    <3>2. /\ l.reserves[a].last_time = now
          /\ l.reserves[a].d_rate >= w.reserves[a].d_rate
          /\ l.reserves[a].backstop_credit >= w.reserves[a].backstop_credit
          /\ l.reserves[a].b_supply = w.reserves[a].b_supply
          /\ l.reserves[a].d_supply = w.reserves[a].d_supply
      BY <3>1, LoadedIsUpToDate
    <3>3. l.reserves[a].b_supply # 0
      BY <2>2, <3>2 DEF CanDefault, CanWriteOff, Held, debt
    <3>4. l.reserves[a].d_rate > 0
      BY <1>3 DEF WellFormed
    <3>5. debt[a] <= l.reserves[a].d_supply
      BY <1>1, <1>3, <1>4, PartOfTotal DEF DShares, debt
    <3>6. /\ rs[a].d_rate = l.reserves[a].d_rate
          /\ rs[a].last_time = l.reserves[a].last_time
          /\ rs[a].b_supply = l.reserves[a].b_supply
          /\ rs[a].d_supply = l.reserves[a].d_supply - debt[a]
      BY <2>1, <3>1, <3>3, <3>4, <3>5, ForgiveType
    <3>7. rs[a].backstop_credit = l.reserves[a].backstop_credit
      BY <2>1, <3>1, ForgiveKeepsCredit
    <3> QED
      BY <2>2, <3>1, <3>2, <3>6, <3>7
  <2>3. CASE ~(debt[a] > 0)
    <3> HIDE DEF debt, l
    <3>1. debt[a] = 0 /\ a \notin Held(debt)
      BY <2>1, <2>3 DEF Held
    <3>2. l.reserves[a] = w.reserves[a]
      BY <1>4, <3>1
    <3>3. rs[a] = w.reserves[a]
      BY <2>3, <3>2
    <3> HIDE DEF rs
    <3> QED
      BY <2>1, <3>1, <3>3 DEF ReserveData
  <2> QED
    BY <2>2, <2>3
<1> HIDE DEF rs, ps, l
<1>9. /\ v.reserves = rs /\ v.positions = ps
      /\ v.liquidation = l.liquidation /\ v.bad_debt = l.bad_debt
      /\ v.interest = l.interest /\ v.backstop_tokens = l.backstop_tokens
  BY <1>3, <1>6 DEF Ledger
<1>10. ASSUME NEW a \in Assets
       PROVE  LoadedReserve(v, a).backstop_credit = LoadedReserve(w, a).backstop_credit
  <2>1. CASE rs[a] = w.reserves[a]
    BY <1>9, <2>1 DEF LoadedReserve
  <2>2. CASE rs[a].last_time = now /\ rs[a].backstop_credit = LoadedReserve(w, a).backstop_credit
    BY <1>9, <2>2, UpToDateIsLoaded
  <2> QED
    BY <1>8, <2>1, <2>2
<1> QED
  BY <1>4, <1>5, <1>7, <1>8, <1>9, <1>10

\* The auction of interest stays covered when no credit is lost.
LEMMA KeptCreditSafe ==
    ASSUME NEW w \in Ledger, CreditSafe(w), NEW v \in Ledger, v.interest = w.interest,
           \A a \in Assets :
             /\ v.reserves[a].backstop_credit >= w.reserves[a].backstop_credit
             /\ LoadedReserve(v, a).backstop_credit = LoadedReserve(w, a).backstop_credit
    PROVE  CreditSafe(v)
<1>1. ASSUME NEW a \in Assets PROVE v.reserves[a].backstop_credit >= 0
  <2>1. w.reserves[a] \in ReserveData /\ v.reserves[a] \in ReserveData
    BY LedgerFields
  <2> QED
    BY <2>1 DEF CreditSafe, ReserveData
<1> QED
  BY <1>1 DEF CreditSafe, InterestCovered

-----------------------------------------------------------------------------
(* Filling the auction of bad debt.                                        *)

LEMMA AfterBadDebtBidIs ==
    ASSUME GoodSettings, NEW w, WellFormed(w), NEW filler \in Users,
           NEW pct, CanFillBadDebt(w, filler, pct),
           NEW bid, bid = AfterBadDebtBid(w, filler, pct)
    PROVE  /\ WellFormed(bid) /\ bid \in Ledger
           /\ bid.liquidation = w.liquidation /\ bid.interest = w.interest
           /\ bid.backstop_tokens <= w.backstop_tokens
           /\ bid.backstop_tokens = w.backstop_tokens - ToFill(w.bad_debt, pct).lot[BackstopToken]
           /\ \A x \in Accounts \ {filler, Backstop} : bid.positions[x] = w.positions[x]
           /\ \A a \in Assets :
                /\ bid.positions[Backstop].liabilities[a] =
                     w.positions[Backstop].liabilities[a] - ToFill(w.bad_debt, pct).bid[a]
                /\ bid.reserves[a].d_rate >= w.reserves[a].d_rate
                /\ bid.reserves[a].b_rate >= w.reserves[a].b_rate
                /\ bid.reserves[a].d_supply = w.reserves[a].d_supply
                /\ bid.reserves[a].b_supply = w.reserves[a].b_supply
                /\ bid.reserves[a].backstop_credit >= w.reserves[a].backstop_credit
                /\ LoadedReserve(bid, a).backstop_credit = LoadedReserve(w, a).backstop_credit
<1> DEFINE f == ToFill(w.bad_debt, pct)
           liab == OnlyAssets(f.bid)
           paid == f.lot[BackstopToken]
           moved == MovePositions(w, Backstop, filler, NoShares, liab)
           tokens == moved.backstop_tokens - paid
<1>1. /\ now \in Nat /\ Backstop \in Accounts /\ filler \in Accounts /\ filler # Backstop
      /\ w \in Ledger
  BY AccountsFinite, StateAssumption DEF GoodSettings, WellFormed
<1>2. CanScale(w.bad_debt, pct) /\ w.bad_debt \in Auction \cup {NoAuction}
  BY <1>1, LedgerFields DEF CanFillBadDebt
<1>3. f.bid \in [Tokens -> Nat] /\ f.lot \in [Tokens -> Nat]
  BY <1>1, <1>2, ToFillType
<1>4. /\ CanRemovePositions(w, Backstop, NoShares, liab)
      /\ paid <= w.backstop_tokens
      /\ paid \in Nat
  BY <1>3 DEF CanFillBadDebt, Tokens
<1>5. liab \in [Assets -> Nat] /\ NoShares \in [Assets -> Nat]
  BY <1>3, OnlyAssetsType DEF NoShares
<1>6. \A a \in Assets : liab[a] = f.bid[a]
  BY DEF OnlyAssets
<1>7. bid = [moved EXCEPT !.backstop_tokens = tokens]
  BY DEF AfterBadDebtBid
<1>8. WellFormed(bid) /\ bid \in Ledger
  BY AfterBadDebtBidWellFormed DEF WellFormed
<1> HIDE DEF f, liab, paid
<1>9. /\ WellFormed(moved) /\ SameTotals(w, moved)
      /\ \A x \in Accounts \ {Backstop, filler} : moved.positions[x] = w.positions[x]
      /\ \A a \in Assets : moved.positions[Backstop].liabilities[a] =
                             w.positions[Backstop].liabilities[a] - liab[a]
  <2>1. Moved(w, Backstop, filler, NoShares, liab, moved)
    BY <1>1, <1>4, <1>5, MovedPositions
  <2> HIDE DEF moved
  <2> QED
    BY <2>1 DEF Moved
<1> HIDE DEF moved
<1>10. /\ moved \in Ledger /\ Accrued(w, moved)
       /\ moved.liquidation = w.liquidation /\ moved.interest = w.interest
       /\ moved.backstop_tokens = w.backstop_tokens
       /\ \A a \in Assets : /\ moved.reserves[a].d_supply = w.reserves[a].d_supply
                            /\ moved.reserves[a].b_supply = w.reserves[a].b_supply
  BY <1>9 DEF SameTotals
<1>11. /\ w.backstop_tokens \in Nat /\ tokens <= w.backstop_tokens
       /\ tokens = w.backstop_tokens - paid
  BY <1>1, <1>4, <1>10, LedgerFields
<1> HIDE DEF tokens
<1>12. /\ bid.reserves = moved.reserves /\ bid.positions = moved.positions
       /\ bid.liquidation = moved.liquidation /\ bid.interest = moved.interest
       /\ bid.backstop_tokens = tokens
  BY <1>7, <1>10 DEF Ledger
<1>13. ASSUME NEW a \in Assets
       PROVE  /\ moved.reserves[a].d_rate >= w.reserves[a].d_rate
              /\ moved.reserves[a].b_rate >= w.reserves[a].b_rate
              /\ moved.reserves[a].backstop_credit >= w.reserves[a].backstop_credit
              /\ LoadedReserve(moved, a).backstop_credit = LoadedReserve(w, a).backstop_credit
  BY <1>10, AccruedKeeps
<1>14. \A a \in Assets : LoadedReserve(bid, a) = LoadedReserve(moved, a)
  BY <1>12 DEF LoadedReserve
<1> QED
  BY <1>6, <1>8, <1>9, <1>10, <1>11, <1>12, <1>13, <1>14 DEF f, paid

\* What the fill leaves, whether the rest of the debt was forgiven or not.
LEMMA FillBadDebtIs ==
    ASSUME GoodSettings, NEW w, WellFormed(w), NEW filler \in Users,
           NEW pct, CanFillBadDebt(w, filler, pct),
           NEW v, v = FillBadDebt(w, filler, pct)
    PROVE  /\ v \in Ledger
           /\ v.liquidation = w.liquidation /\ v.interest = w.interest
           /\ v.bad_debt = Remaining(w.bad_debt, pct)
           /\ v.backstop_tokens <= w.backstop_tokens
           /\ v.backstop_tokens = w.backstop_tokens - ToFill(w.bad_debt, pct).lot[BackstopToken]
           /\ \A a \in Assets : v.reserves[a].b_supply = w.reserves[a].b_supply
           /\ \A x \in Accounts \ {filler, Backstop} : v.positions[x] = w.positions[x]
           /\ RatesKept(w, v) /\ LessDebt(w, v) /\ LessDeposits(w, v)
           /\ \A a \in Assets :
                /\ v.reserves[a].backstop_credit >= w.reserves[a].backstop_credit
                /\ LoadedReserve(v, a).backstop_credit = LoadedReserve(w, a).backstop_credit
           /\ \A a \in Assets :
                \/ v.positions[Backstop].liabilities[a] =
                     w.positions[Backstop].liabilities[a] - ToFill(w.bad_debt, pct).bid[a]
                \/ /\ v.bad_debt = NoAuction
                   /\ v.positions[Backstop].liabilities[a] = 0
<1> DEFINE bid == AfterBadDebtBid(w, filler, pct)
           rest == Remaining(w.bad_debt, pct)
           settled == IF rest = NoAuction /\ MustDefault(bid) THEN DefaultBackstopDebt(bid) ELSE bid
<1>1. w \in Ledger /\ v \in Ledger /\ Backstop \in Accounts /\ now \in Nat
  BY FillBadDebtWellFormed, AccountsFinite DEF WellFormed, GoodSettings
<1>2. rest = NoAuction /\ MustDefault(bid) => CanDefault(bid)
  BY DEF CanFillBadDebt
<1>3. rest \in Auction \cup {NoAuction}
  BY <1>1, LedgerFields, ToFillType, RemainingType DEF CanFillBadDebt
<1>4. v = [settled EXCEPT !.bad_debt = rest]
  BY DEF FillBadDebt
<1> HIDE DEF rest, bid
<1>5. /\ WellFormed(bid) /\ bid \in Ledger
      /\ bid.liquidation = w.liquidation /\ bid.interest = w.interest
      /\ bid.backstop_tokens <= w.backstop_tokens
      /\ bid.backstop_tokens = w.backstop_tokens - ToFill(w.bad_debt, pct).lot[BackstopToken]
      /\ \A x \in Accounts \ {filler, Backstop} : bid.positions[x] = w.positions[x]
      /\ \A a \in Assets :
           /\ bid.positions[Backstop].liabilities[a] =
                w.positions[Backstop].liabilities[a] - ToFill(w.bad_debt, pct).bid[a]
           /\ bid.reserves[a].d_rate >= w.reserves[a].d_rate
           /\ bid.reserves[a].b_rate >= w.reserves[a].b_rate
           /\ bid.reserves[a].d_supply = w.reserves[a].d_supply
           /\ bid.reserves[a].b_supply = w.reserves[a].b_supply
           /\ bid.reserves[a].backstop_credit >= w.reserves[a].backstop_credit
           /\ LoadedReserve(bid, a).backstop_credit = LoadedReserve(w, a).backstop_credit
  BY AfterBadDebtBidIs DEF bid
<1>6. \A a \in Assets : w.reserves[a] \in ReserveData /\ bid.reserves[a] \in ReserveData
  BY <1>1, <1>5, LedgerFields
<1>7. CASE ~(rest = NoAuction /\ MustDefault(bid))
  <2>1. v = [bid EXCEPT !.bad_debt = rest]
    BY <1>4, <1>7
  <2>2. /\ v.reserves = bid.reserves /\ v.positions = bid.positions
        /\ v.liquidation = bid.liquidation /\ v.interest = bid.interest
        /\ v.backstop_tokens = bid.backstop_tokens /\ v.bad_debt = rest
    BY <1>5, <2>1 DEF Ledger
  <2>3. \A a \in Assets : LoadedReserve(v, a) = LoadedReserve(bid, a)
    BY <2>2 DEF LoadedReserve
  <2>4. RatesKept(w, v) /\ LessDebt(w, v) /\ LessDeposits(w, v)
    <3> SUFFICES ASSUME NEW a \in Assets
                 PROVE  /\ v.reserves[a].d_rate >= w.reserves[a].d_rate
                        /\ ~(v.reserves[a].b_rate < w.reserves[a].b_rate)
                        /\ v.reserves[a].d_supply <= w.reserves[a].d_supply
                        /\ v.reserves[a].b_supply <= w.reserves[a].b_supply
      BY DEF RatesKept, LessDebt, LessDeposits
    <3> QED
      BY <1>5, <1>6, <2>2 DEF ReserveData
  <2> QED
    BY <1>1, <1>5, <2>2, <2>3, <2>4 DEF rest
<1>8. CASE rest = NoAuction /\ MustDefault(bid)
  <2> DEFINE d == DefaultBackstopDebt(bid)
  <2>1. v = [d EXCEPT !.bad_debt = rest]
    BY <1>4, <1>8
  <2>2. /\ d \in Ledger
        /\ d.liquidation = bid.liquidation /\ d.interest = bid.interest
        /\ d.backstop_tokens = bid.backstop_tokens
        /\ \A x \in Accounts \ {Backstop} : d.positions[x] = bid.positions[x]
        /\ d.positions[Backstop].liabilities = NoShares
        /\ \A a \in Assets :
             /\ d.reserves[a].d_rate >= bid.reserves[a].d_rate
             /\ d.reserves[a].b_rate < bid.reserves[a].b_rate =>
                  bid.positions[Backstop].liabilities[a] > 0
             /\ d.reserves[a].d_supply =
                  bid.reserves[a].d_supply - bid.positions[Backstop].liabilities[a]
             /\ d.reserves[a].b_supply = bid.reserves[a].b_supply
             /\ d.reserves[a].backstop_credit >= bid.reserves[a].backstop_credit
             /\ LoadedReserve(d, a).backstop_credit = LoadedReserve(bid, a).backstop_credit
    BY <1>2, <1>5, <1>8, DefaultedDebt
  <2> HIDE DEF d
  <2>3. /\ v.reserves = d.reserves /\ v.positions = d.positions
        /\ v.liquidation = d.liquidation /\ v.interest = d.interest
        /\ v.backstop_tokens = d.backstop_tokens /\ v.bad_debt = rest
    BY <2>1, <2>2 DEF Ledger
  <2>4. \A a \in Assets : LoadedReserve(v, a) = LoadedReserve(d, a)
    BY <2>3 DEF LoadedReserve
  <2>5. \A a \in Assets : d.reserves[a] \in ReserveData
    BY <2>2, LedgerFields
  <2>6. \A a \in Assets : bid.positions[Backstop].liabilities[a] \in Nat
    BY <1>1, <1>5, LedgerFields, PositionNat
  <2>7. v.backstop_tokens < DefaultTokens
    BY <1>8, <2>2, <2>3 DEF MustDefault
  <2>8. RatesKept(w, v) /\ LessDebt(w, v) /\ LessDeposits(w, v)
    <3> SUFFICES ASSUME NEW a \in Assets
                 PROVE  /\ v.reserves[a].d_rate >= w.reserves[a].d_rate
                        /\ v.reserves[a].b_rate < w.reserves[a].b_rate =>
                             v.reserves[a].d_supply < w.reserves[a].d_supply
                        /\ v.reserves[a].d_supply <= w.reserves[a].d_supply
                        /\ v.reserves[a].b_supply <= w.reserves[a].b_supply
      BY <2>2, <2>3, <2>7 DEF RatesKept, LessDebt, LessDeposits
    <3>1. /\ d.reserves[a].d_rate \in Nat /\ bid.reserves[a].d_rate \in Nat /\ w.reserves[a].d_rate \in Nat
          /\ d.reserves[a].b_rate \in Nat /\ bid.reserves[a].b_rate \in Nat /\ w.reserves[a].b_rate \in Nat
          /\ d.reserves[a].d_supply \in Nat /\ bid.reserves[a].d_supply \in Nat
          /\ w.reserves[a].d_supply \in Nat
          /\ w.reserves[a].b_supply \in Nat
      BY <1>6, <2>5 DEF ReserveData
    <3>2. v.reserves[a] = d.reserves[a]
      BY <2>3
    <3>3. bid.positions[Backstop].liabilities[a] \in Nat
      BY <2>6
    <3> QED
      BY <1>5, <2>2, <3>1, <3>2, <3>3
  <2>9. ASSUME NEW a \in Assets
        PROVE  /\ v.reserves[a].backstop_credit >= w.reserves[a].backstop_credit
               /\ LoadedReserve(v, a).backstop_credit = LoadedReserve(w, a).backstop_credit
               /\ v.positions[Backstop].liabilities[a] = 0
    <3>1. /\ d.reserves[a].backstop_credit \in Int /\ bid.reserves[a].backstop_credit \in Int
          /\ w.reserves[a].backstop_credit \in Int
      BY <1>6, <2>5 DEF ReserveData
    <3> QED
      BY <1>5, <2>2, <2>3, <2>4, <3>1 DEF NoShares
  <2> QED
    BY <1>1, <1>5, <1>8, <2>2, <2>3, <2>8, <2>9 DEF rest
<1> QED
  BY <1>7, <1>8

LEMMA FillBadDebtSafe ==
    ASSUME GoodSettings, NEW w, WellFormed(w), NEW filler \in Users,
           NEW pct, CanFillBadDebt(w, filler, pct),
           NEW v, v = FillBadDebt(w, filler, pct)
    PROVE  SafeStep(w, v, filler, TRUE)
<1> DEFINE au == w.bad_debt
           f == ToFill(au, pct)
           rest == Remaining(au, pct)
<1>1. /\ w \in Ledger /\ v \in Ledger /\ now \in Nat
      /\ Backstop \in Accounts /\ Backstop # filler /\ Backstop \notin Users
      /\ Users \subseteq Accounts
  BY AccountsFinite, StateAssumption, FillBadDebtWellFormed DEF WellFormed, GoodSettings
<1>2. CanScale(au, pct) /\ au \in Auction \cup {NoAuction}
  BY <1>1, LedgerFields DEF CanFillBadDebt
<1>3. au \in Auction /\ pct \in 1..100 /\ au # NoAuction
  BY <1>1, <1>2, ToFillType DEF CanScale
<1>4. /\ v.liquidation = w.liquidation /\ v.interest = w.interest
      /\ v.bad_debt = rest
      /\ \A x \in Accounts \ {filler, Backstop} : v.positions[x] = w.positions[x]
      /\ RatesKept(w, v) /\ LessDebt(w, v) /\ LessDeposits(w, v)
      /\ \A a \in Assets :
           /\ v.reserves[a].backstop_credit >= w.reserves[a].backstop_credit
           /\ LoadedReserve(v, a).backstop_credit = LoadedReserve(w, a).backstop_credit
      /\ \A a \in Assets :
           \/ v.positions[Backstop].liabilities[a] = w.positions[Backstop].liabilities[a] - f.bid[a]
           \/ /\ rest = NoAuction
              /\ v.positions[Backstop].liabilities[a] = 0
  BY FillBadDebtIs
<1>5. ASSUME NEW a \in Assets
      PROVE  /\ f.bid[a] \in Nat /\ FilledBase(au, pct).bid[a] \in Nat /\ au.bid[a] \in Nat
             /\ f.bid[a] <= FilledBase(au, pct).bid[a]
             /\ w.positions[Backstop].liabilities[a] \in Nat
             /\ v.positions[Backstop].liabilities[a] \in Nat
  <2>1. a \in Tokens
    BY DEF Tokens
  <2>2. /\ f.bid[a] \in Nat /\ FilledBase(au, pct).bid[a] \in Nat /\ au.bid[a] \in Nat
        /\ f.bid[a] <= FilledBase(au, pct).bid[a]
    BY <1>1, <1>2, <2>1, FillWithinBase
  <2> QED
    BY <1>1, <2>2, LedgerFields, PositionNat
<1>6. ASSUME rest # NoAuction, NEW a \in Assets
      PROVE  rest.bid[a] = au.bid[a] - FilledBase(au, pct).bid[a]
  BY <1>3, <1>6, RemainingIs DEF Tokens
<1> HIDE DEF f, rest
<1>7. \A a \in Assets :
         v.positions[Backstop].liabilities[a] <= w.positions[Backstop].liabilities[a]
  BY <1>4, <1>5
<1>8. Since(w, v, filler, TRUE)
  <2>1. ASSUME NEW x \in Users \ {filler} PROVE OtherSince(w, v, x)
    BY <1>1, <1>4, OtherSame
  <2>2. v.liquidation[filler] = w.liquidation[filler]
    BY <1>4
  <2> QED
    BY <1>3, <1>4, <2>1, <2>2 DEF Since, LessDebt, LessDeposits
<1>9. ASSUME Safe(w, {filler}) PROVE Safe(v, {filler})
  <2>1. ASSUME NEW x \in Users \ {filler} PROVE SoundUser(v, x)
    <3>1. v.positions[x] = w.positions[x] /\ v.liquidation[x] = w.liquidation[x]
      BY <1>1, <1>4
    <3> QED
      BY <1>9, <3>1, SameUserSound DEF Safe
  <2>2. ASSUME NEW x \in Accounts \ {filler} PROVE DebtPriced(v, x)
    <3> SUFFICES ASSUME NEW a \in Assets, v.positions[x].liabilities[a] > 0
                 PROVE  config.reserves[a].l_factor > 0
      BY DEF DebtPriced
    <3>1. w.positions[x].liabilities[a] > 0
      <4>1. CASE x = Backstop
        BY <1>5, <1>7, <4>1
      <4>2. CASE x # Backstop
        BY <1>4, <4>2
      <4> QED
        BY <4>1, <4>2
    <3> QED
      BY <1>9, <3>1 DEF Safe, DebtPriced
  <2>3. BadDebtCovered(v)
    <3> SUFFICES ASSUME rest # NoAuction, NEW a \in Assets
                 PROVE  rest.bid[a] <= v.positions[Backstop].liabilities[a]
      BY <1>4 DEF BadDebtCovered
    <3>1. au.bid[a] <= w.positions[Backstop].liabilities[a]
      BY <1>3, <1>9 DEF Safe, BadDebtCovered
    <3>2. v.positions[Backstop].liabilities[a] = w.positions[Backstop].liabilities[a] - f.bid[a]
      BY <1>4
    <3>3. rest.bid[a] = au.bid[a] - FilledBase(au, pct).bid[a]
      BY <1>6
    <3> QED
      BY <1>5, <3>1, <3>2, <3>3
  <2> QED
    BY <2>1, <2>2, <2>3 DEF Safe
<1>10. CreditSafe(w) => CreditSafe(v)
  BY <1>1, <1>4, KeptCreditSafe
<1>11. PassedOn(w, v)
  BY <1>5, <1>7 DEF PassedOn
<1> QED
  BY <1>4, <1>8, <1>9, <1>10, <1>11 DEF SafeStep

-----------------------------------------------------------------------------
(* Filling the auction of interest: the lot is taken out of the credit.    *)

LEMMA FillInterestIs ==
    ASSUME GoodSettings, NEW w, WellFormed(w), NEW filler,
           NEW pct, CanFillInterest(w, filler, pct),
           NEW v, v = FillInterest(w, pct)
    PROVE  /\ v \in Ledger
           /\ v.positions = w.positions /\ v.liquidation = w.liquidation
           /\ v.bad_debt = w.bad_debt /\ v.interest = Remaining(w.interest, pct)
           /\ v.backstop_tokens >= w.backstop_tokens
           /\ \A a \in Assets :
                /\ v.reserves[a].d_rate >= w.reserves[a].d_rate
                /\ v.reserves[a].b_rate >= w.reserves[a].b_rate
                /\ v.reserves[a].d_supply = w.reserves[a].d_supply
                /\ v.reserves[a].b_supply = w.reserves[a].b_supply
                /\ LoadedReserve(v, a).backstop_credit =
                     LoadedReserve(w, a).backstop_credit - ToFill(w.interest, pct).lot[a]
                /\ \/ v.reserves[a].backstop_credit = w.reserves[a].backstop_credit
                   \/ v.reserves[a].backstop_credit = LoadedReserve(v, a).backstop_credit
<1> DEFINE f == ToFill(w.interest, pct)
           lot == OnlyAssets(f.lot)
           l == LoadReserves(w, Held(lot))
           rs == [a \in Assets |-> [l.reserves[a] EXCEPT !.backstop_credit = @ - lot[a]]]
           tokens == l.backstop_tokens + f.bid[BackstopToken]
           balance == Sub(l.balance, lot)
           rest == Remaining(w.interest, pct)
<1>1. w \in Ledger /\ v \in Ledger /\ now \in Nat
  BY FillInterestWellFormed DEF WellFormed, GoodSettings
<1>2. CanScale(w.interest, pct) /\ w.interest \in Auction \cup {NoAuction}
  BY <1>1, LedgerFields DEF CanFillInterest
<1>3. f.bid \in [Tokens -> Nat] /\ f.lot \in [Tokens -> Nat]
  BY <1>1, <1>2, ToFillType
<1>4. lot \in [Assets -> Nat] /\ f.bid[BackstopToken] \in Nat
  BY <1>3, OnlyAssetsType DEF Tokens
<1>5. \A a \in Assets : lot[a] = f.lot[a]
  BY DEF OnlyAssets
<1>6. v = [l EXCEPT !.backstop_tokens = tokens, !.reserves = rs, !.balance = balance,
                    !.interest = rest]
  BY DEF FillInterest
<1> HIDE DEF f, lot, rest
<1>7. /\ l \in Ledger /\ WellFormed(l)
      /\ l.positions = w.positions /\ l.liquidation = w.liquidation
      /\ l.bad_debt = w.bad_debt /\ l.backstop_tokens = w.backstop_tokens
      /\ l.reserves = [a \in Assets |-> IF a \in Held(lot) THEN LoadedReserve(w, a) ELSE w.reserves[a]]
  BY <1>1, LoadReservesWellFormed, LoadReservesFields DEF WellFormed
<1> HIDE DEF l
<1>8. w.backstop_tokens \in Nat /\ tokens >= w.backstop_tokens
  BY <1>1, <1>4, <1>7, LedgerFields
<1>9. ASSUME NEW a \in Assets
      PROVE  /\ rs[a].d_rate >= w.reserves[a].d_rate
             /\ rs[a].b_rate >= w.reserves[a].b_rate
             /\ rs[a].d_supply = w.reserves[a].d_supply
             /\ rs[a].b_supply = w.reserves[a].b_supply
             /\ \/ rs[a] = w.reserves[a] /\ lot[a] = 0
                \/ /\ rs[a].last_time = now
                   /\ rs[a].backstop_credit = LoadedReserve(w, a).backstop_credit - lot[a]
  <2>1. /\ w.reserves[a] \in ReserveData /\ l.reserves[a] \in ReserveData /\ lot[a] \in Nat
        /\ rs[a] = [l.reserves[a] EXCEPT !.backstop_credit = @ - lot[a]]
    BY <1>1, <1>4, <1>7, LedgerFields
  <2> HIDE DEF rs
  <2>2. /\ rs[a].d_rate = l.reserves[a].d_rate /\ rs[a].b_rate = l.reserves[a].b_rate
        /\ rs[a].d_supply = l.reserves[a].d_supply /\ rs[a].b_supply = l.reserves[a].b_supply
        /\ rs[a].last_time = l.reserves[a].last_time
        /\ rs[a].backstop_credit = l.reserves[a].backstop_credit - lot[a]
        /\ lot[a] = 0 => rs[a] = l.reserves[a]
    BY <2>1 DEF ReserveData
  <2>3. CASE lot[a] > 0
    <3>1. l.reserves[a] = LoadedReserve(w, a)
      BY <1>7, <2>3 DEF Held
    <3>2. /\ LoadedReserve(w, a).last_time = now
          /\ LoadedReserve(w, a).d_rate >= w.reserves[a].d_rate
          /\ LoadedReserve(w, a).b_rate >= w.reserves[a].b_rate
          /\ LoadedReserve(w, a).b_supply = w.reserves[a].b_supply
          /\ LoadedReserve(w, a).d_supply = w.reserves[a].d_supply
      BY LoadedIsUpToDate
    <3> QED
      BY <2>2, <3>1, <3>2
  <2>4. CASE ~(lot[a] > 0)
    <3>1. lot[a] = 0 /\ l.reserves[a] = w.reserves[a]
      BY <1>7, <2>1, <2>4 DEF Held
    <3> QED
      BY <2>1, <2>2, <3>1 DEF ReserveData
  <2> QED
    BY <2>3, <2>4
<1> HIDE DEF rs, tokens, balance
<1>10. /\ v.positions = l.positions /\ v.liquidation = l.liquidation
       /\ v.bad_debt = l.bad_debt /\ v.interest = rest
       /\ v.backstop_tokens = tokens /\ v.reserves = rs
  BY <1>6, <1>7 DEF Ledger
<1>11. ASSUME NEW a \in Assets
       PROVE  /\ LoadedReserve(v, a).backstop_credit = LoadedReserve(w, a).backstop_credit - lot[a]
              /\ \/ v.reserves[a].backstop_credit = w.reserves[a].backstop_credit
                 \/ v.reserves[a].backstop_credit = LoadedReserve(v, a).backstop_credit
  <2>1. CASE rs[a] = w.reserves[a] /\ lot[a] = 0
    <3>1. LoadedReserve(v, a) = LoadedReserve(w, a)
      BY <1>10, <2>1 DEF LoadedReserve
    <3>2. LoadedReserve(w, a).backstop_credit \in Int
      BY LoadedIsUpToDate DEF ReserveData
    <3> QED
      BY <1>10, <2>1, <3>1, <3>2
  <2>2. CASE rs[a].last_time = now
             /\ rs[a].backstop_credit = LoadedReserve(w, a).backstop_credit - lot[a]
    BY <1>10, <2>2, UpToDateIsLoaded
  <2> QED
    BY <1>9, <2>1, <2>2
<1> QED
  BY <1>1, <1>5, <1>7, <1>8, <1>9, <1>10, <1>11 DEF f, rest

LEMMA FillInterestSafe ==
    ASSUME GoodSettings, NEW w, WellFormed(w), NEW filler \in Users,
           NEW pct, CanFillInterest(w, filler, pct),
           NEW v, v = FillInterest(w, pct)
    PROVE  SafeStep(w, v, filler, FALSE)
<1> DEFINE au == w.interest
           f == ToFill(au, pct)
           rest == Remaining(au, pct)
<1>1. /\ w \in Ledger /\ v \in Ledger /\ now \in Nat
      /\ Backstop \in Accounts /\ Users \subseteq Accounts
  BY AccountsFinite, FillInterestWellFormed DEF WellFormed, GoodSettings
<1>2. CanScale(au, pct) /\ au \in Auction \cup {NoAuction}
  BY <1>1, LedgerFields DEF CanFillInterest
<1>3. au \in Auction /\ pct \in 1..100 /\ au # NoAuction
  BY <1>1, <1>2, ToFillType DEF CanScale
<1>4. /\ v.positions = w.positions /\ v.liquidation = w.liquidation
      /\ v.bad_debt = w.bad_debt /\ v.interest = rest
      /\ v.backstop_tokens >= w.backstop_tokens
      /\ \A a \in Assets :
           /\ v.reserves[a].d_rate >= w.reserves[a].d_rate
           /\ v.reserves[a].b_rate >= w.reserves[a].b_rate
           /\ v.reserves[a].d_supply = w.reserves[a].d_supply
           /\ v.reserves[a].b_supply = w.reserves[a].b_supply
           /\ LoadedReserve(v, a).backstop_credit = LoadedReserve(w, a).backstop_credit - f.lot[a]
           /\ \/ v.reserves[a].backstop_credit = w.reserves[a].backstop_credit
              \/ v.reserves[a].backstop_credit = LoadedReserve(v, a).backstop_credit
  BY FillInterestIs
<1>5. ASSUME NEW a \in Assets
      PROVE  /\ f.lot[a] \in Nat /\ FilledBase(au, pct).lot[a] \in Nat /\ au.lot[a] \in Nat
             /\ f.lot[a] <= FilledBase(au, pct).lot[a]
             /\ FilledBase(au, pct).lot[a] <= au.lot[a]
             /\ rest # NoAuction => rest.lot[a] = au.lot[a] - FilledBase(au, pct).lot[a]
  <2>1. a \in Tokens
    BY DEF Tokens
  <2>2. /\ f.lot[a] \in Nat /\ FilledBase(au, pct).lot[a] \in Nat /\ au.lot[a] \in Nat
        /\ f.lot[a] <= FilledBase(au, pct).lot[a]
        /\ FilledBase(au, pct).lot[a] <= au.lot[a]
    BY <1>1, <1>2, <2>1, FillWithinBase
  <2> QED
    BY <1>3, <2>1, <2>2, RemainingIs
<1> HIDE DEF f, rest
<1>6. \A a \in Assets : /\ w.reserves[a] \in ReserveData /\ v.reserves[a] \in ReserveData
                        /\ w.positions[Backstop].liabilities[a] \in Nat
  BY <1>1, LedgerFields, PositionNat
<1>7. Since(w, v, filler, FALSE)
  <2>1. ASSUME NEW x \in Users \ {filler} PROVE OtherSince(w, v, x)
    BY <1>1, <1>4, OtherSame
  <2>2. NotWorse(w.positions[filler], v.positions[filler])
    <3>1. w.positions[filler] \in Positions
      BY <1>1, LedgerFields
    <3> QED
      BY <1>4, <3>1, ShrunkSame
  <2>3. \A a \in Assets : /\ v.reserves[a].d_supply <= w.reserves[a].d_supply
                          /\ v.reserves[a].b_supply <= w.reserves[a].b_supply
    BY <1>4, <1>6 DEF ReserveData
  <2> QED
    BY <1>4, <2>1, <2>2, <2>3 DEF Since
<1>8. ASSUME Safe(w, {filler}) PROVE Safe(v, {filler})
  BY <1>4, <1>8 DEF Safe, SoundUser, LiquidationCovered, DebtPriced, BadDebtCovered
<1>9. ASSUME CreditSafe(w) PROVE CreditSafe(v)
  <2>1. ASSUME NEW a \in Assets
        PROVE  /\ LoadedReserve(v, a).backstop_credit >= 0
               /\ rest # NoAuction => rest.lot[a] <= LoadedReserve(v, a).backstop_credit
    <3>1. au.lot[a] <= LoadedReserve(w, a).backstop_credit
      BY <1>3, <1>9 DEF CreditSafe, InterestCovered
    <3>2. LoadedReserve(w, a).backstop_credit \in Int
      BY LoadedIsUpToDate DEF ReserveData
    <3>3. LoadedReserve(v, a).backstop_credit = LoadedReserve(w, a).backstop_credit - f.lot[a]
      BY <1>4
    <3> QED
      BY <1>5, <3>1, <3>2, <3>3
  <2>2. \A a \in Assets : v.reserves[a].backstop_credit >= 0
    BY <1>4, <1>9, <2>1 DEF CreditSafe
  <2> QED
    BY <1>4, <2>1, <2>2 DEF CreditSafe, InterestCovered
<1>10. RatesKept(w, v)
  <2> SUFFICES ASSUME NEW a \in Assets
               PROVE  /\ v.reserves[a].d_rate >= w.reserves[a].d_rate
                      /\ ~(v.reserves[a].b_rate < w.reserves[a].b_rate)
    BY DEF RatesKept
  <2> QED
    BY <1>4, <1>6 DEF ReserveData
<1>11. PassedOn(w, v)
  BY <1>4, <1>6 DEF PassedOn
<1> QED
  BY <1>7, <1>8, <1>9, <1>10, <1>11 DEF SafeStep

\* The caller cancels its own liquidation; the health check is then due.
LEMMA DeleteLiquidationSafe ==
    ASSUME GoodSettings, NEW w, WellFormed(w), NEW f \in Users, config.status <= 1,
           NEW v, v = [w EXCEPT !.liquidation[f] = NoAuction]
    PROVE  WellFormed(v) /\ SafeStep(w, v, f, TRUE)
<1>1. /\ w \in Ledger /\ WellFormed(v) /\ v \in Ledger
      /\ Backstop \in Accounts /\ Users \subseteq Accounts
  BY SetLiquidationWellFormed, AccountsFinite DEF WellFormed
<1>2. w.liquidation \in [Users -> Auction \cup {NoAuction}]
  BY <1>1, LedgerFields
<1>3. /\ v.reserves = w.reserves /\ v.positions = w.positions
      /\ v.bad_debt = w.bad_debt /\ v.interest = w.interest
      /\ v.backstop_tokens = w.backstop_tokens
      /\ v.liquidation = [w.liquidation EXCEPT ![f] = NoAuction]
  BY <1>1 DEF Ledger
<1>4. v.liquidation[f] = NoAuction /\ \A x \in Users \ {f} : v.liquidation[x] = w.liquidation[x]
  BY <1>2, <1>3
<1>5. w.backstop_tokens \in Nat /\ \A a \in Assets :
         /\ w.reserves[a] \in ReserveData
         /\ w.positions[Backstop].liabilities[a] \in Nat
  BY <1>1, LedgerFields, PositionNat
<1>6. Since(w, v, f, TRUE)
  <2>1. ASSUME NEW x \in Users \ {f} PROVE OtherSince(w, v, x)
    BY <1>1, <1>3, <1>4, OtherSame
  <2>2. \A a \in Assets : /\ v.reserves[a].d_supply <= w.reserves[a].d_supply
                          /\ v.reserves[a].b_supply <= w.reserves[a].b_supply
    BY <1>3, <1>5 DEF ReserveData
  <2>3. v.backstop_tokens >= w.backstop_tokens
    BY <1>3, <1>5
  <2> QED
    BY <1>3, <1>4, <2>1, <2>2, <2>3 DEF Since
<1>7. ASSUME Safe(w, {f}) PROVE Safe(v, {f})
  BY <1>3, <1>4, <1>7 DEF Safe, SoundUser, LiquidationCovered, DebtPriced, BadDebtCovered
<1>8. CreditSafe(w) => CreditSafe(v)
  BY <1>3 DEF CreditSafe, InterestCovered, LoadedReserve
<1>9. RatesKept(w, v) /\ PassedOn(w, v)
  BY <1>3, <1>5 DEF RatesKept, PassedOn, ReserveData
<1> QED
  BY <1>1, <1>6, <1>7, <1>8, <1>9 DEF SafeStep

-----------------------------------------------------------------------------
(* One step after another.                                                 *)

LEMMA WithinAgain ==
    ASSUME NEW au \in Auction, NEW old \in Auction, NEW oldest \in Auction,
           Within(au, old), Within(old, oldest)
    PROVE  Within(au, oldest) /\ (au = oldest => old = oldest)
<1>1. ASSUME NEW t \in Tokens
      PROVE  /\ au.bid[t] <= oldest.bid[t] /\ au.lot[t] <= oldest.lot[t]
             /\ au = oldest => old.bid[t] = oldest.bid[t] /\ old.lot[t] = oldest.lot[t]
  <2>1. /\ au.bid[t] \in Nat /\ old.bid[t] \in Nat /\ oldest.bid[t] \in Nat
        /\ au.lot[t] \in Nat /\ old.lot[t] \in Nat /\ oldest.lot[t] \in Nat
    BY DEF Auction
  <2>2. /\ au.bid[t] <= old.bid[t] /\ old.bid[t] <= oldest.bid[t]
        /\ au.lot[t] <= old.lot[t] /\ old.lot[t] <= oldest.lot[t]
    BY DEF Within
  <2>3. au = oldest => au.bid[t] = oldest.bid[t] /\ au.lot[t] = oldest.lot[t]
    OBVIOUS
  <2> QED
    BY <2>1, <2>2, <2>3
<1>2. Within(au, oldest)
  BY <1>1 DEF Within
<1>3. ASSUME au = oldest PROVE old = oldest
  <2>1. old.bid = oldest.bid /\ old.lot = oldest.lot
    BY <1>1, <1>3 DEF Auction
  <2>2. old.block = oldest.block
    BY DEF Within
  <2> QED
    BY <2>1, <2>2 DEF Auction
<1> QED
  BY <1>2, <1>3

LEMMA PositionsAgain ==
    ASSUME NEW p \in Positions, NEW q \in Positions, NEW r \in Positions
    PROVE  /\ Shrunk(p, q) /\ Shrunk(q, r) => Shrunk(p, r)
           /\ NotWorse(p, q) /\ NotWorse(q, r) => NotWorse(p, r)
<1>1. \A a \in Assets :
         /\ p.liabilities[a] \in Nat /\ q.liabilities[a] \in Nat /\ r.liabilities[a] \in Nat
         /\ p.collateral[a] \in Nat /\ q.collateral[a] \in Nat /\ r.collateral[a] \in Nat
  BY PositionNat
<1>2. Shrunk(p, q) /\ Shrunk(q, r) => Shrunk(p, r)
  BY <1>1 DEF Shrunk
<1>3. NotWorse(p, q) /\ NotWorse(q, r) => NotWorse(p, r)
  BY <1>1 DEF NotWorse
<1> QED
  BY <1>2, <1>3

LEMMA OtherSinceAgain ==
    ASSUME NEW l \in Ledger, NEW w \in Ledger, NEW v \in Ledger, NEW u \in Users,
           OtherSince(l, w, u), OtherSince(w, v, u)
    PROVE  OtherSince(l, v, u)
<1> DEFINE au == v.liquidation[u]
           old == w.liquidation[u]
           oldest == l.liquidation[u]
<1>1. /\ au \in Auction \cup {NoAuction} /\ old \in Auction \cup {NoAuction}
      /\ oldest \in Auction \cup {NoAuction}
      /\ l.positions[u] \in Positions /\ w.positions[u] \in Positions /\ v.positions[u] \in Positions
  BY LedgerFields, AccountsFinite
<1>2. /\ au # NoAuction => old # NoAuction /\ Within(au, old)
      /\ old # NoAuction => oldest # NoAuction /\ Within(old, oldest)
      /\ Shrunk(l.positions[u], w.positions[u]) /\ Shrunk(w.positions[u], v.positions[u])
      /\ old = oldest => w.positions[u] = l.positions[u]
      /\ au = old => v.positions[u] = w.positions[u]
  BY DEF OtherSince
<1> HIDE DEF au, old, oldest
<1>3. Shrunk(l.positions[u], v.positions[u])
  BY <1>1, <1>2, PositionsAgain
<1>4. au # NoAuction => oldest # NoAuction /\ Within(au, oldest)
  BY <1>1, <1>2, WithinAgain
<1>5. au = oldest => old = oldest
  BY <1>1, <1>2, WithinAgain
<1> QED
  BY <1>2, <1>3, <1>4, <1>5 DEF OtherSince, au, old, oldest

LEMMA SinceAgain ==
    ASSUME NEW l \in Ledger, NEW w \in Ledger, NEW v \in Ledger, NEW f \in Users,
           NEW c1 \in BOOLEAN, NEW c2 \in BOOLEAN,
           Since(l, w, f, c1), Since(w, v, f, c2)
    PROVE  Since(l, v, f, c1 \/ c2)
<1>1. /\ f \in Accounts
      /\ l.positions[f] \in Positions /\ w.positions[f] \in Positions /\ v.positions[f] \in Positions
      /\ l.backstop_tokens \in Nat /\ w.backstop_tokens \in Nat /\ v.backstop_tokens \in Nat
  BY LedgerFields, AccountsFinite
<1>2. \A a \in Assets :
         /\ l.reserves[a].d_supply \in Nat /\ w.reserves[a].d_supply \in Nat
         /\ v.reserves[a].d_supply \in Nat
         /\ l.reserves[a].b_supply \in Nat /\ w.reserves[a].b_supply \in Nat
         /\ v.reserves[a].b_supply \in Nat
  <2>1. \A a \in Assets : /\ l.reserves[a] \in ReserveData /\ w.reserves[a] \in ReserveData
                          /\ v.reserves[a] \in ReserveData
    BY LedgerFields
  <2> QED
    BY <2>1 DEF ReserveData
<1>3. \A u \in Users \ {f} : OtherSince(l, v, u)
  BY OtherSinceAgain DEF Since
<1>4. ~(c1 \/ c2) => NotWorse(l.positions[f], v.positions[f])
  BY <1>1, PositionsAgain DEF Since
<1>5. \/ v.liquidation[f] = l.liquidation[f]
      \/ (c1 \/ c2) /\ v.liquidation[f] = NoAuction /\ config.status <= 1
  BY DEF Since
<1>6. l.bad_debt = NoAuction => v.bad_debt = NoAuction /\ v.backstop_tokens >= l.backstop_tokens
  BY <1>1 DEF Since
<1>7. config.status > 1 => \A a \in Assets : v.reserves[a].d_supply <= l.reserves[a].d_supply
  BY <1>2 DEF Since
<1>8. config.status > 3 => \A a \in Assets : v.reserves[a].b_supply <= l.reserves[a].b_supply
  BY <1>2 DEF Since
<1> QED
  BY <1>3, <1>4, <1>5, <1>6, <1>7, <1>8 DEF Since

\* Nothing has happened yet.
LEMMA NothingSince ==
    ASSUME GoodSettings, NEW w, WellFormed(w), NEW f \in Users
    PROVE  SafeStep(w, w, f, FALSE)
<1>1. Own(w, w, f)
  BY DEF Own, Accrued, WellFormed
<1>2. NotWorse(w.positions[f], w.positions[f])
  BY ShrunkSame, LedgerFields, AccountsFinite DEF WellFormed
<1>3. LessDebt(w, w) /\ LessDeposits(w, w)
  BY LedgerFields DEF WellFormed, LessDebt, LessDeposits, ReserveData
<1> QED
  BY <1>1, <1>2, <1>3, OwnIsSafe

-----------------------------------------------------------------------------
(* Within an invocation: SafeInv holds of the next working copy, and a     *)
(* CallShape is all that its steps do.                                     *)

CallShape ==
    /\ ledger' = ledger
    /\ RatesKept(View, call'.ledger) /\ PassedOn(View, call'.ledger)

LEMMA SafeCallLater ==
    ASSUME SafeInv, PoolInv', NEW w, NEW f, NEW c,
           call'.ledger = w, call'.from = f, call'.check_health = c,
           UNCHANGED <<now, config, ledger>>,
           Safe(w, {f}), CreditSafe(w), Since(ledger, w, f, c)
    PROVE  SafeInv'
<1>1. Safe(ledger, {})'
  BY DEF SafeInv, Safe, SoundUser, LiquidationCovered, DebtPriced, BadDebtCovered
<1>2. CreditSafe(ledger)'
  BY DEF SafeInv, CreditSafe, InterestCovered, LoadedReserve
<1>3. Safe(call.ledger, {call.from})'
  BY DEF Safe, SoundUser, LiquidationCovered, DebtPriced, BadDebtCovered
<1>4. CreditSafe(call.ledger)'
  BY DEF CreditSafe, InterestCovered, LoadedReserve
<1>5. Since(ledger, call.ledger, call.from, call.check_health)'
  BY DEF Since
<1> QED
  BY <1>1, <1>2, <1>3, <1>4, <1>5 DEF SafeInv

LEMMA RequestSafe ==
    ASSUME SafeInv, PoolInv', call # NoCall, NEW v \in Ledger, NEW c \in BOOLEAN,
           SafeStep(call.ledger, v, call.from, c),
           call'.ledger = v, call'.from = call.from,
           call'.check_health = (call.check_health \/ c),
           UNCHANGED <<now, config, ledger>>
    PROVE  SafeInv' /\ CallShape
<1> DEFINE w == call.ledger
           f == call.from
           b == call.check_health
<1>1. /\ ledger \in Ledger /\ w \in Ledger /\ f \in Users /\ b \in BOOLEAN
  BY DEF SafeInv, PoolInv, TypeOK, Call
<1>2. Safe(w, {f}) /\ CreditSafe(w) /\ Since(ledger, w, f, b)
  BY DEF SafeInv
<1>3. /\ call'.from = f /\ call'.check_health = (b \/ c)
      /\ Safe(v, {f}) /\ CreditSafe(v) /\ Since(w, v, f, c)
      /\ RatesKept(w, v) /\ PassedOn(w, v)
  BY <1>2 DEF SafeStep
<1>4. View = w
  BY DEF View
<1> HIDE DEF w, f, b
<1>5. Since(ledger, v, f, b \/ c)
  BY <1>1, <1>2, <1>3, SinceAgain
<1>6. SafeInv'
  BY <1>3, <1>5, SafeCallLater
<1> QED
  BY <1>3, <1>4, <1>6 DEF CallShape

LEMMA BeginSafe ==
    ASSUME SafeInv, PoolInv', call = NoCall, NEW v \in Ledger, NEW f \in Users, NEW c \in BOOLEAN,
           SafeStep(ledger, v, f, c),
           call'.ledger = v, call'.from = f, call'.check_health = c,
           UNCHANGED <<now, config, ledger>>
    PROVE  SafeInv' /\ CallShape
<1>1. Safe(ledger, {f}) /\ CreditSafe(ledger)
  BY DEF SafeInv, Safe
<1>2. /\ Safe(v, {f}) /\ CreditSafe(v) /\ Since(ledger, v, f, c)
      /\ RatesKept(ledger, v) /\ PassedOn(ledger, v)
  BY <1>1 DEF SafeStep
<1>3. View = ledger
  BY DEF View
<1>4. SafeInv'
  BY <1>2, SafeCallLater
<1> QED
  BY <1>2, <1>3, <1>4 DEF CallShape

LEMMA StatusIs ==
    ASSUME SafeInv
    PROVE  config.status \in 0..6
  BY DEF SafeInv, PoolInv, TypeOK, Config, Status

LEMMA BeginIsSafe ==
    ASSUME SafeInv, PoolInv', Begin
    PROVE  SafeInv' /\ CallShape
<1>1. PoolInv /\ GoodSettings /\ WellFormed(ledger) /\ ledger \in Ledger
  BY DEF SafeInv, PoolInv, WellFormed
<1>2. ASSUME NEW u \in Users, BeginSubmit(u)
      PROVE  SafeInv' /\ CallShape
  <2>1. /\ call = NoCall /\ call' = NewCall(u, ledger) /\ UNCHANGED <<now, config, ledger>>
    BY <1>2 DEF BeginSubmit
  <2>2. /\ call'.ledger = ledger /\ call'.from = u /\ call'.check_health = FALSE
    BY <2>1 DEF NewCall
  <2>3. SafeStep(ledger, ledger, u, FALSE)
    BY <1>1, NothingSince
  <2> QED
    BY <1>1, <2>1, <2>2, <2>3, BeginSafe
<1>3. ASSUME NEW u \in Users, NEW a \in Assets, NEW amount \in FlashLoans,
             BeginFlashLoan(u, a, amount)
      PROVE  SafeInv' /\ CallShape
  <2> DEFINE l == LoadReserves(ledger, {a})
             minted == ToDTokenUp(l.reserves[a], amount)
             w == AddLiabilities(l, u, a, minted)
             n == NewCall(u, w)
  <2>1. amount \in Nat /\ u \in Accounts
    BY PoolAssumption, AccountsFinite
  <2>2. /\ call = NoCall /\ PoolAllows("Borrow")
        /\ call' = [n EXCEPT !.flash[a] = amount, !.check_health = TRUE, !.check_max_util = {a}]
        /\ UNCHANGED <<now, config, ledger>>
    BY <1>3 DEF BeginFlashLoan
  <2>3. WellFormed(l) /\ l = LoadReserves(ledger, {a})
    BY <1>1, LoadReservesWellFormed
  <2> HIDE DEF l
  <2>4. minted \in Nat
    BY <2>1, <2>3, MintDebtNat
  <2> HIDE DEF minted
  <2>5. Own(ledger, w, u) /\ LessDeposits(ledger, w)
    BY <1>1, <2>1, <2>3, <2>4, AddLiabilitiesOwn
  <2>6. w \in Ledger
    BY <2>5 DEF Own
  <2> HIDE DEF w
  <2>7. /\ call'.ledger = w /\ call'.from = u /\ call'.check_health = TRUE
    <3>1. n \in Call
      BY <1>1, <2>6, NewCallType
    <3>2. n.ledger = w /\ n.from = u
      BY DEF NewCall
    <3> HIDE DEF n
    <3> QED
      BY <2>2, <3>1, <3>2 DEF Call
  <2>8. ~(config.status > 1)
    BY <2>2 DEF PoolAllows
  <2>9. ~(config.status > 3)
    BY <2>8, StatusIs
  <2>10. SafeStep(ledger, w, u, TRUE)
    BY <1>1, <2>5, <2>8, <2>9, OwnIsSafe
  <2> QED
    BY <2>2, <2>6, <2>7, <2>10, BeginSafe
<1> QED
  BY <1>2, <1>3 DEF Begin

\* A request on a reserve that cannot hurt its caller, one that may, and one
\* on an auction.
LEMMA ProceedSafe ==
    ASSUME SafeInv, PoolInv', call # NoCall, NEW w, NEW a, NEW in, NEW out,
           Proceed(w, a, in, out),
           Own(call.ledger, w, call.from),
           NotWorse(call.ledger.positions[call.from], w.positions[call.from]),
           config.status > 1 => LessDebt(call.ledger, w),
           config.status > 3 => LessDeposits(call.ledger, w)
    PROVE  SafeInv' /\ CallShape
<1> DEFINE from == [call.spender_transfer EXCEPT ![a] = @ + in]
           to == [call.pool_transfer EXCEPT ![a] = @ + out]
           n == call.requests + 1
<1>1. /\ call' = [call EXCEPT !.ledger = w, !.requests = n,
                              !.spender_transfer = from, !.pool_transfer = to]
      /\ UNCHANGED <<now, config, ledger>>
  BY DEF Proceed
<1> HIDE DEF from, to, n
<1>2. /\ call \in Call /\ call.from \in Users /\ call.check_health \in BOOLEAN
      /\ GoodSettings /\ WellFormed(call.ledger) /\ w \in Ledger
  BY DEF SafeInv, PoolInv, TypeOK, Call, Own
<1>3. call'.ledger = w /\ call'.from = call.from /\ call'.check_health = call.check_health
  BY <1>1, <1>2 DEF Call
<1>4. call'.check_health = (call.check_health \/ FALSE)
  BY <1>2, <1>3
<1>5. SafeStep(call.ledger, w, call.from, FALSE)
  BY <1>2, OwnIsSafe
<1> QED
  BY <1>1, <1>2, <1>3, <1>4, <1>5, RequestSafe

LEMMA ProceedCheckedSafe ==
    ASSUME SafeInv, PoolInv', call # NoCall, NEW w, NEW a, NEW out, NEW maxUtil,
           ProceedChecked(w, a, out, maxUtil),
           Own(call.ledger, w, call.from),
           config.status > 1 => LessDebt(call.ledger, w),
           config.status > 3 => LessDeposits(call.ledger, w)
    PROVE  SafeInv' /\ CallShape
<1> DEFINE to == [call.pool_transfer EXCEPT ![a] = @ + out]
           checked == call.check_max_util \cup maxUtil
           n == call.requests + 1
<1>1. /\ call' = [call EXCEPT !.ledger = w, !.requests = n, !.pool_transfer = to,
                              !.check_health = TRUE, !.check_max_util = checked]
      /\ UNCHANGED <<now, config, ledger>>
  BY DEF ProceedChecked
<1> HIDE DEF to, checked, n
<1>2. /\ call \in Call /\ call.from \in Users /\ call.check_health \in BOOLEAN
      /\ GoodSettings /\ WellFormed(call.ledger) /\ w \in Ledger
  BY DEF SafeInv, PoolInv, TypeOK, Call, Own
<1>3. call'.ledger = w /\ call'.from = call.from /\ call'.check_health = TRUE
  BY <1>1, <1>2 DEF Call
<1>4. call'.check_health = (call.check_health \/ TRUE)
  BY <1>2, <1>3
<1>5. SafeStep(call.ledger, w, call.from, TRUE)
  BY <1>2, OwnIsSafe
<1> QED
  BY <1>1, <1>2, <1>3, <1>4, <1>5, RequestSafe

LEMMA ProceedWithSafe ==
    ASSUME SafeInv, PoolInv', call # NoCall, NEW w \in Ledger, NEW c \in BOOLEAN,
           ProceedWith(w, c), SafeStep(call.ledger, w, call.from, c)
    PROVE  SafeInv' /\ CallShape
<1> DEFINE n == call.requests + 1
           check == call.check_health \/ c
<1>1. /\ call' = [call EXCEPT !.ledger = w, !.requests = n, !.check_health = check]
      /\ UNCHANGED <<now, config, ledger>>
  BY DEF ProceedWith
<1> HIDE DEF n, check
<1>2. call \in Call
  BY DEF SafeInv, PoolInv, TypeOK
<1>3. call'.ledger = w /\ call'.from = call.from /\ call'.check_health = check
  BY <1>1, <1>2 DEF Call
<1> QED
  BY <1>1, <1>3, RequestSafe DEF check

\* What a request on a reserve finds.
LEMMA RequestFinds ==
    ASSUME SafeInv, NEW req, NEW type, RequestingOn(req, type)
    PROVE  /\ call # NoCall /\ PoolAllows(type)
           /\ call.from \in Accounts /\ req.address \in Assets /\ req.amount \in Nat
           /\ GoodSettings /\ WellFormed(call.ledger)
           /\ WellFormed(Working(req.address))
           /\ Working(req.address) = LoadReserves(call.ledger, {req.address})
           /\ Working(req.address).reserves[req.address] \in ReserveData
           /\ Position \in Positions
           /\ Working(req.address).positions[call.from] = Position
<1>1. call # NoCall /\ PoolAllows(type) /\ PoolInv
  BY DEF RequestingOn, Requesting, SafeInv
<1>2. GoodSettings /\ WellFormed(call.ledger)
  BY <1>1 DEF PoolInv
<1>3. Working(req.address) = LoadReserves(call.ledger, {req.address})
  BY DEF Working
<1> QED
  BY <1>1, <1>2, <1>3, RequestContext

LEMMA SupplySafe ==
    ASSUME SafeInv, PoolInv', NEW req, Supply(req)
    PROVE  SafeInv' /\ CallShape
<1> DEFINE a == req.address
           l == Working(a)
           r == l.reserves[a]
           minted == ToBTokenDown(r, req.amount)
           w == AddSupply(l, call.from, a, minted)
<1>1. /\ RequestingOn(req, "Supply") /\ r.b_rate > 0
      /\ Proceed(w, a, req.amount, 0)
  BY DEF Supply
<1>2. /\ call # NoCall /\ PoolAllows("Supply") /\ call.from \in Accounts
      /\ a \in Assets /\ req.amount \in Nat
      /\ GoodSettings /\ WellFormed(call.ledger)
      /\ r \in ReserveData /\ l = LoadReserves(call.ledger, {a})
  BY <1>1, RequestFinds
<1> HIDE DEF l, a
<1>3. minted \in Nat
  BY <1>1, <1>2, MintSharesNat
<1> HIDE DEF minted
<1>4. /\ Own(call.ledger, w, call.from) /\ LessDebt(call.ledger, w)
      /\ NotWorse(call.ledger.positions[call.from], w.positions[call.from])
  BY <1>2, <1>3, AddSupplyOwn
<1> HIDE DEF w
<1>5. ~(config.status > 3)
  BY <1>2 DEF PoolAllows
<1> QED
  BY <1>1, <1>2, <1>4, <1>5, ProceedSafe

LEMMA SupplyCollateralSafe ==
    ASSUME SafeInv, PoolInv', NEW req, SupplyCollateral(req)
    PROVE  SafeInv' /\ CallShape
<1> DEFINE a == req.address
           l == Working(a)
           r == l.reserves[a]
           minted == ToBTokenDown(r, req.amount)
           w == AddCollateral(l, call.from, a, minted)
<1>1. /\ RequestingOn(req, "SupplyCollateral") /\ r.b_rate > 0
      /\ Proceed(w, a, req.amount, 0)
  BY DEF SupplyCollateral
<1>2. /\ call # NoCall /\ PoolAllows("SupplyCollateral") /\ call.from \in Accounts
      /\ a \in Assets /\ req.amount \in Nat
      /\ GoodSettings /\ WellFormed(call.ledger)
      /\ r \in ReserveData /\ l = LoadReserves(call.ledger, {a})
  BY <1>1, RequestFinds
<1> HIDE DEF l, a
<1>3. minted \in Nat
  BY <1>1, <1>2, MintSharesNat
<1> HIDE DEF minted
<1>4. /\ Own(call.ledger, w, call.from) /\ LessDebt(call.ledger, w)
      /\ NotWorse(call.ledger.positions[call.from], w.positions[call.from])
  BY <1>2, <1>3, AddCollateralOwn
<1> HIDE DEF w
<1>5. ~(config.status > 3)
  BY <1>2 DEF PoolAllows
<1> QED
  BY <1>1, <1>2, <1>4, <1>5, ProceedSafe

LEMMA WithdrawSafe ==
    ASSUME SafeInv, PoolInv', NEW req, Withdraw(req)
    PROVE  SafeInv' /\ CallShape
<1> DEFINE a == req.address
           l == Working(a)
           r == l.reserves[a]
           held == Position.supply[a]
           burn == BurnFor(r, req.amount, held)
           w == RemoveSupply(l, call.from, a, burn.shares)
<1>1. /\ RequestingOn(req, "Withdraw") /\ r.b_rate > 0
      /\ Proceed(w, a, 0, burn.tokens)
  BY DEF Withdraw
<1>2. /\ call # NoCall /\ call.from \in Accounts /\ a \in Assets /\ req.amount \in Nat
      /\ GoodSettings /\ WellFormed(call.ledger)
      /\ r \in ReserveData /\ l = LoadReserves(call.ledger, {a})
      /\ Position \in Positions /\ l.positions[call.from] = Position
  BY <1>1, RequestFinds
<1> HIDE DEF l, a
<1>3. held \in Nat /\ held = l.positions[call.from].supply[a]
  BY <1>2, PositionNat
<1> HIDE DEF held
<1>4. burn.shares \in Nat /\ burn.shares <= held
  BY <1>1, <1>2, <1>3, BurnForWithin
<1> HIDE DEF burn
<1>5. /\ Own(call.ledger, w, call.from)
      /\ LessDebt(call.ledger, w) /\ LessDeposits(call.ledger, w)
      /\ NotWorse(call.ledger.positions[call.from], w.positions[call.from])
  BY <1>2, <1>3, <1>4, RemoveSupplyOwn
<1> HIDE DEF w
<1> QED
  BY <1>1, <1>2, <1>5, ProceedSafe

LEMMA WithdrawCollateralSafe ==
    ASSUME SafeInv, PoolInv', NEW req, WithdrawCollateral(req)
    PROVE  SafeInv' /\ CallShape
<1> DEFINE a == req.address
           l == Working(a)
           r == l.reserves[a]
           held == Position.collateral[a]
           burn == BurnFor(r, req.amount, held)
           w == RemoveCollateral(l, call.from, a, burn.shares)
<1>1. /\ RequestingOn(req, "WithdrawCollateral") /\ r.b_rate > 0
      /\ ProceedChecked(w, a, burn.tokens, {})
  BY DEF WithdrawCollateral
<1>2. /\ call # NoCall /\ call.from \in Accounts /\ a \in Assets /\ req.amount \in Nat
      /\ GoodSettings /\ WellFormed(call.ledger)
      /\ r \in ReserveData /\ l = LoadReserves(call.ledger, {a})
      /\ Position \in Positions /\ l.positions[call.from] = Position
  BY <1>1, RequestFinds
<1> HIDE DEF l, a
<1>3. held \in Nat /\ held = l.positions[call.from].collateral[a]
  BY <1>2, PositionNat
<1> HIDE DEF held
<1>4. burn.shares \in Nat /\ burn.shares <= held
  BY <1>1, <1>2, <1>3, BurnForWithin
<1> HIDE DEF burn
<1>5. /\ Own(call.ledger, w, call.from)
      /\ LessDebt(call.ledger, w) /\ LessDeposits(call.ledger, w)
  BY <1>2, <1>3, <1>4, RemoveCollateralOwn
<1> HIDE DEF w
<1> QED
  BY <1>1, <1>2, <1>5, ProceedCheckedSafe

LEMMA BorrowSafe ==
    ASSUME SafeInv, PoolInv', NEW req, Borrow(req)
    PROVE  SafeInv' /\ CallShape
<1> DEFINE a == req.address
           l == Working(a)
           minted == ToDTokenUp(l.reserves[a], req.amount)
           w == AddLiabilities(l, call.from, a, minted)
<1>1. RequestingOn(req, "Borrow") /\ ProceedChecked(w, a, req.amount, {a})
  BY DEF Borrow
<1>2. /\ call # NoCall /\ PoolAllows("Borrow") /\ call.from \in Accounts
      /\ a \in Assets /\ req.amount \in Nat
      /\ GoodSettings /\ WellFormed(call.ledger) /\ WellFormed(l)
      /\ l = LoadReserves(call.ledger, {a})
  BY <1>1, RequestFinds
<1> HIDE DEF l, a
<1>3. minted \in Nat
  BY <1>2, MintDebtNat
<1> HIDE DEF minted
<1>4. Own(call.ledger, w, call.from) /\ LessDeposits(call.ledger, w)
  BY <1>2, <1>3, AddLiabilitiesOwn
<1> HIDE DEF w
<1>5. ~(config.status > 1)
  BY <1>2 DEF PoolAllows
<1> QED
  BY <1>1, <1>2, <1>4, <1>5, ProceedCheckedSafe

LEMMA RepaySafe ==
    ASSUME SafeInv, PoolInv', NEW req, Repay(req)
    PROVE  SafeInv' /\ CallShape
<1> DEFINE a == req.address
           l == Working(a)
           r == l.reserves[a]
           owed == Position.liabilities[a]
           shares == ToDTokenDown(r, req.amount)
           over == shares > owed
           burnt == IF over THEN owed ELSE shares
           refund == IF over THEN req.amount - ToAssetFromD(r, owed) ELSE 0
           w == RemoveLiabilities(l, call.from, a, burnt)
<1>1. RequestingOn(req, "Repay") /\ Proceed(w, a, req.amount, refund)
  BY DEF Repay
<1>2. /\ call # NoCall /\ call.from \in Accounts /\ a \in Assets /\ req.amount \in Nat
      /\ GoodSettings /\ WellFormed(call.ledger) /\ WellFormed(l)
      /\ l = LoadReserves(call.ledger, {a})
      /\ Position \in Positions /\ l.positions[call.from] = Position
  BY <1>1, RequestFinds
<1> HIDE DEF l, a
<1>3. owed \in Nat /\ owed = l.positions[call.from].liabilities[a]
  BY <1>2, PositionNat
<1>4. shares \in Nat
  BY <1>2, MintDebtNat
<1> HIDE DEF owed, shares, refund
<1>5. burnt \in Nat /\ burnt <= l.positions[call.from].liabilities[a]
  BY <1>3, <1>4
<1> HIDE DEF burnt
<1>6. /\ Own(call.ledger, w, call.from)
      /\ LessDebt(call.ledger, w) /\ LessDeposits(call.ledger, w)
      /\ NotWorse(call.ledger.positions[call.from], w.positions[call.from])
  BY <1>2, <1>5, RemoveLiabilitiesOwn
<1> HIDE DEF w
<1> QED
  BY <1>1, <1>2, <1>6, ProceedSafe

LEMMA AuctionRequestFinds ==
    ASSUME SafeInv, NEW req, NEW type, Requesting(req, type)
    PROVE  /\ call # NoCall /\ PoolAllows(type) /\ call.from \in Users
           /\ GoodSettings /\ WellFormed(call.ledger)
  BY AuctionContext DEF Requesting, SafeInv

LEMMA AuctionRequestsSafe ==
    ASSUME SafeInv, PoolInv', NEW req,
           \/ FillUserLiquidationAuction(req) \/ FillBadDebtAuction(req)
           \/ FillInterestAuction(req) \/ DeleteLiquidationAuction(req)
    PROVE  SafeInv' /\ CallShape
<1> DEFINE w == call.ledger
           f == call.from
<1>1. ASSUME FillUserLiquidationAuction(req) PROVE SafeInv' /\ CallShape
  <2> DEFINE v == FillUserLiquidation(w, req.address, f, req.amount)
  <2>1. /\ Requesting(req, "FillUserLiquidationAuction") /\ req.address \in Users
        /\ CanFillUserLiquidation(w, req.address, f, req.amount)
        /\ ProceedWith(v, TRUE)
    BY <1>1 DEF FillUserLiquidationAuction
  <2>2. call # NoCall /\ f \in Users /\ GoodSettings /\ WellFormed(w)
    BY <2>1, AuctionRequestFinds
  <2>3. v \in Ledger /\ SafeStep(w, v, f, TRUE)
    BY <2>1, <2>2, FillUserLiquidationWellFormed, FillUserLiquidationSafe DEF WellFormed
  <2> QED
    BY <2>1, <2>2, <2>3, ProceedWithSafe
<1>2. ASSUME FillBadDebtAuction(req) PROVE SafeInv' /\ CallShape
  <2> DEFINE v == FillBadDebt(w, f, req.amount)
  <2>1. /\ Requesting(req, "FillBadDebtAuction")
        /\ CanFillBadDebt(w, f, req.amount)
        /\ ProceedWith(v, TRUE)
    BY <1>2 DEF FillBadDebtAuction
  <2>2. call # NoCall /\ f \in Users /\ GoodSettings /\ WellFormed(w)
    BY <2>1, AuctionRequestFinds
  <2>3. v \in Ledger /\ SafeStep(w, v, f, TRUE)
    BY <2>1, <2>2, FillBadDebtWellFormed, FillBadDebtSafe DEF WellFormed
  <2> QED
    BY <2>1, <2>2, <2>3, ProceedWithSafe
<1>3. ASSUME FillInterestAuction(req) PROVE SafeInv' /\ CallShape
  <2> DEFINE v == FillInterest(w, req.amount)
  <2>1. /\ Requesting(req, "FillInterestAuction")
        /\ CanFillInterest(w, f, req.amount)
        /\ ProceedWith(v, FALSE)
    BY <1>3 DEF FillInterestAuction
  <2>2. call # NoCall /\ f \in Users /\ GoodSettings /\ WellFormed(w)
    BY <2>1, AuctionRequestFinds
  <2>3. v \in Ledger /\ SafeStep(w, v, f, FALSE)
    BY <2>1, <2>2, FillInterestWellFormed, FillInterestSafe DEF WellFormed
  <2> QED
    BY <2>1, <2>2, <2>3, ProceedWithSafe
<1>4. ASSUME DeleteLiquidationAuction(req) PROVE SafeInv' /\ CallShape
  <2> DEFINE v == [w EXCEPT !.liquidation[f] = NoAuction]
  <2>1. Requesting(req, "DeleteLiquidationAuction") /\ ProceedWith(v, TRUE)
    BY <1>4 DEF DeleteLiquidationAuction
  <2>2. /\ call # NoCall /\ f \in Users /\ GoodSettings /\ WellFormed(w)
        /\ PoolAllows("DeleteLiquidationAuction")
    BY <2>1, AuctionRequestFinds
  <2>3. config.status <= 1
    BY <2>2, StatusIs DEF PoolAllows
  <2>4. v \in Ledger /\ SafeStep(w, v, f, TRUE)
    BY <2>2, <2>3, DeleteLiquidationSafe DEF WellFormed
  <2> QED
    BY <2>1, <2>2, <2>4, ProceedWithSafe
<1> QED
  BY <1>1, <1>2, <1>3, <1>4

LEMMA RequestStepIsSafe ==
    ASSUME SafeInv, PoolInv', RequestStep
    PROVE  SafeInv' /\ CallShape
  BY SupplySafe, SupplyCollateralSafe, WithdrawSafe, WithdrawCollateralSafe, BorrowSafe,
     RepaySafe, AuctionRequestsSafe DEF RequestStep

-----------------------------------------------------------------------------
(* What the health check is worth: a healthy user has no bad debt.         *)

LEMMA PositiveCeil ==
    ASSUME NEW x \in Nat, x > 0, NEW y \in Nat, y > 0, NEW d \in Int, d > 0
    PROVE  MulCeil(x, y, d) > 0
<1> DEFINE n == x * y
<1>1. n \in Int /\ n > 0
  <2>1. 1 * y <= x * y
    BY ProductMonotone
  <2>2. x * y \in Nat
    BY ProductNat
  <2> QED
    BY <2>1, <2>2
<1>2. MulCeil(x, y, d) = CeilDiv(n, d)
  BY DEF MulCeil
<1> HIDE DEF n
<1>3. d * 1 < n + d
  BY <1>1
<1>4. 1 <= CeilDiv(n, d)
  BY <1>1, <1>3, CeilDivLower
<1>5. CeilDiv(n, d) \in Int
  BY <1>1, CeilDivBounds
<1> QED
  BY <1>2, <1>4, <1>5

LEMMA DebtHasValue ==
    ASSUME GoodSettings, NEW w, WellFormed(w), NEW p \in Positions,
           Priceable(p), HasLiabilities(p)
    PROVE  CalculateFromPositions(w, p).liability_base > 0
<1> DEFINE L == Held(p.liabilities)
           r == [a \in Assets |-> LoadedReserve(w, a)]
           lb == [a \in L |-> ToEffectiveFromD(r[a], config.reserves[a], p.liabilities[a])]
           hi == [a \in L |-> MulCeil(price[a], lb[a], config.reserves[a].scalar)]
<1>1. L \subseteq Assets /\ IsFiniteSet(L)
  BY FS_Subset, StateAssumption DEF Held
<1>2. CalculateFromPositions(w, p).liability_base = SumFunction(hi)
  BY DEF CalculateFromPositions, PositionData, CeilValue
<1>3. ASSUME NEW a \in L
      PROVE  MulCeil(price[a], lb[a], config.reserves[a].scalar) \in Nat
             /\ MulCeil(price[a], lb[a], config.reserves[a].scalar) > 0
  <2> DEFINE d == p.liabilities[a]
             rate == LoadedReserve(w, a).d_rate
             factor == config.reserves[a].l_factor
             raw == MulCeil(d, rate, Scalar12)
             base == DivCeil(raw, factor, Scalar7)
  <2>1. a \in Assets /\ d \in Nat /\ d > 0
    BY PositionNat DEF Held
  <2>2. rate \in Nat /\ rate > 0
    <3>1. /\ LoadedReserve(w, a) \in ReserveData
          /\ LoadedReserve(w, a).d_rate >= w.reserves[a].d_rate
      BY <2>1, LoadedIsUpToDate
    <3>2. w.reserves[a].d_rate > 0 /\ w.reserves[a] \in ReserveData
      BY <2>1, LedgerFields DEF WellFormed
    <3> QED
      BY <3>1, <3>2 DEF ReserveData
  <2>3. factor \in Nat /\ factor \in Int /\ factor > 0 /\ price[a] \in Nat /\ price[a] > 0
    BY <2>1 DEF GoodSettings, ValidReserveConfig, ReserveConfig, Priceable
  <2>4. config.reserves[a].scalar \in Nat /\ config.reserves[a].scalar > 0
    BY <2>1 DEF GoodSettings, ValidReserveConfig, ReserveConfig
  <2>5. lb[a] = base
    BY <2>1 DEF ToEffectiveFromD, ToAssetFromD
  <2> HIDE DEF d, rate, lb
  <2>6. raw \in Nat /\ raw > 0
    BY <2>1, <2>2, MulNat, PositiveCeil, ScalarsPositive
  <2> HIDE DEF raw, factor
  <2>7. base \in Nat
    BY <2>3, <2>6, DivNat, ScalarsPositive
  <2>8. base = MulCeil(raw, Scalar7, factor)
    BY DEF DivCeil, MulCeil
  <2>9. base > 0
    BY <2>3, <2>6, <2>8, PositiveCeil, ScalarsPositive
  <2> HIDE DEF base
  <2> DEFINE value == price[a]
             unit == config.reserves[a].scalar
  <2>10. value \in Nat /\ value > 0 /\ unit \in Int /\ unit > 0
    BY <2>3, <2>4
  <2> HIDE DEF value, unit
  <2>11. MulCeil(value, base, unit) \in Nat /\ MulCeil(value, base, unit) > 0
    BY <2>7, <2>9, <2>10, MulNat, PositiveCeil
  <2> QED
    BY <2>5, <2>11 DEF value, unit
<1>4. hi \in [L -> Nat]
  BY <1>3
<1>5. PICK a \in L : TRUE
  BY DEF HasLiabilities
<1>6. hi[a] > 0 /\ hi[a] \in Nat
  BY <1>3
<1> HIDE DEF hi, L
<1>7. hi[a] <= SumFunction(hi)
  BY <1>1, <1>4, SumFunctionBound
<1>8. SumFunction(hi) \in Nat
  BY <1>1, <1>4, SumFunctionNat
<1> QED
  BY <1>2, <1>6, <1>7, <1>8

LEMMA NoCollateralNoValue ==
    ASSUME NEW w, NEW p, ~HasCollateral(p)
    PROVE  CalculateFromPositions(w, p).collateral_base = 0
<1> DEFINE C == Held(p.collateral)
           r == [a \in Assets |-> LoadedReserve(w, a)]
           cb == [a \in C |-> ToEffectiveFromB(r[a], config.reserves[a], p.collateral[a])]
           lo == [a \in C |-> MulFloor(price[a], cb[a], config.reserves[a].scalar)]
<1>1. C = {}
  BY DEF HasCollateral
<1>2. CalculateFromPositions(w, p).collateral_base = SumFunction(lo)
  BY DEF CalculateFromPositions, PositionData, FloorValue
<1>3. lo \in [C -> Nat] /\ \A x \in C : lo[x] = 0
  BY <1>1
<1> HIDE DEF lo, C
<1>4. IsFiniteSet(C)
  BY <1>1, FS_EmptySet
<1> QED
  BY <1>2, <1>3, <1>4, SumFunctionZero

LEMMA HealthFloor == MulFloor(OracleScalar, MinHealthFactor, Scalar7) > 0
<1> DEFINE n == OracleScalar * MinHealthFactor
<1>1. OracleScalar \in Nat /\ OracleScalar >= 1 /\ MinHealthFactor \in Nat /\ MinHealthFactor > Scalar7
  BY StateAssumption
<1>2. 1 * MinHealthFactor <= OracleScalar * MinHealthFactor
  BY <1>1, ProductMonotone
<1>3. n \in Int
  BY <1>1, ProductInt
<1>4. MulFloor(OracleScalar, MinHealthFactor, Scalar7) = FloorDiv(n, Scalar7)
  BY DEF MulFloor
<1>5. Scalar7 * 1 <= n
  BY <1>1, <1>2, <1>3, ScalarsPositive
<1> HIDE DEF n
<1>6. 1 <= FloorDiv(n, Scalar7) /\ FloorDiv(n, Scalar7) \in Int
  BY <1>3, <1>5, FloorDivLower, FloorDivBounds, ScalarsPositive
<1> QED
  BY <1>4, <1>6

LEMMA HealthyIsSound ==
    ASSUME GoodSettings, NEW w, WellFormed(w), NEW p \in Positions, Healthy(w, p)
    PROVE  /\ ~HasBadDebt(p)
           /\ \A a \in Assets : p.liabilities[a] > 0 => config.reserves[a].l_factor > 0
<1>1. ASSUME NEW a \in Assets, p.liabilities[a] > 0 PROVE config.reserves[a].l_factor > 0
  BY <1>1 DEF Healthy, HasLiabilities, Priceable, Held
<1>2. ASSUME HasBadDebt(p) PROVE FALSE
  <2> DEFINE data == CalculateFromPositions(w, p)
             debt == data.liability_base
  <2>1. /\ HasLiabilities(p) /\ ~HasCollateral(p)
        /\ Priceable(p) /\ ~IsHfUnder(data, MinHealthFactor)
    BY <1>2 DEF HasBadDebt, Healthy
  <2>2. debt > 0
    BY <2>1, DebtHasValue
  <2>3. debt \in Nat
    BY <2>1, PositionDataBounds DEF Priceable
  <2>4. data.collateral_base = 0
    BY <2>1, NoCollateralNoValue
  <2> HIDE DEF data
  <2>5. AsHealthFactor(data) = FloorDiv(0 * OracleScalar, debt)
    BY <2>4 DEF AsHealthFactor, DivFloor
  <2> HIDE DEF debt
  <2>6. 0 * OracleScalar = 0
    BY StateAssumption
  <2>7. FloorDiv(0, debt) <= 0 /\ FloorDiv(0, debt) \in Int
    <3>1. 0 < debt * 0 + debt
      BY <2>2, <2>3
    <3> QED
      BY <2>2, <2>3, <3>1, FloorDivUpper, FloorDivBounds
  <2>8. MulFloor(OracleScalar, MinHealthFactor, Scalar7) \in Int
    BY MulInt, ScalarsPositive, StateAssumption
  <2>9. AsHealthFactor(data) < MulFloor(OracleScalar, MinHealthFactor, Scalar7)
    BY <2>5, <2>6, <2>7, <2>8, HealthFloor
  <2> QED
    BY <2>1, <2>2, <2>3, <2>9 DEF IsHfUnder, debt
<1> QED
  BY <1>1, <1>2

\* Prices that Healthy relies on are prices the oracle stands by.
LEMMA HealthyIsPriced ==
    ASSUME GoodSettings, NEW w, NEW p \in Positions, Healthy(w, p), HasLiabilities(p)
    PROVE  AllPriced(p)
<1> SUFFICES ASSUME NEW a \in Assets, p.collateral[a] + p.liabilities[a] > 0
             PROVE  price[a] > 0
  BY DEF AllPriced
<1>1. p.collateral[a] \in Nat /\ p.liabilities[a] \in Nat
  BY PositionNat
<1>2. p.collateral[a] > 0 \/ p.liabilities[a] > 0
  BY <1>1
<1> QED
  BY <1>2 DEF Healthy, Priceable, Held

LEMMA NotWorseIsSound ==
    ASSUME NEW p \in Positions, NEW q \in Positions, NotWorse(p, q), ~HasBadDebt(p)
    PROVE  /\ ~HasBadDebt(q)
           /\ \A a \in Assets : q.liabilities[a] > 0 => p.liabilities[a] > 0
<1>1. \A a \in Assets :
         /\ p.liabilities[a] \in Nat /\ q.liabilities[a] \in Nat
         /\ p.collateral[a] \in Nat /\ q.collateral[a] \in Nat
         /\ q.liabilities[a] <= p.liabilities[a] /\ q.collateral[a] >= p.collateral[a]
  BY PositionNat DEF NotWorse
<1>2. \A a \in Assets : /\ q.liabilities[a] > 0 => p.liabilities[a] > 0
                        /\ p.collateral[a] > 0 => q.collateral[a] > 0
  BY <1>1
<1> QED
  BY <1>2 DEF HasBadDebt, HasLiabilities, HasCollateral, Held

-----------------------------------------------------------------------------
(* The end of an invocation: validate_submit makes the caller sound.       *)

CommitShape ==
    /\ call # NoCall /\ call' = NoCall
    /\ RatesKept(View, ledger') /\ PassedOn(View, ledger')
    /\ Since(ledger, ledger', call.from, call.check_health)
    /\ ledger'.liquidation[call.from] = NoAuction
    /\ call.check_health => Healthy(ledger', ledger'.positions[call.from])

AbortShape == call # NoCall /\ call' = NoCall /\ ledger' = ledger

\* The committed ledger of the next state, when nothing else of it changed.
LEMMA SafeLedgerLater ==
    ASSUME PoolInv', call' = NoCall, UNCHANGED <<now, config>>,
           NEW w, ledger' = w, Safe(w, {}), CreditSafe(w)
    PROVE  SafeInv'
<1>1. Safe(ledger, {})'
  BY DEF Safe, SoundUser, LiquidationCovered, DebtPriced, BadDebtCovered
<1>2. CreditSafe(ledger)'
  BY DEF CreditSafe, InterestCovered, LoadedReserve
<1> QED
  BY <1>1, <1>2 DEF SafeInv

LEMMA CommitIsSafe ==
    ASSUME SafeInv, PoolInv', Commit
    PROVE  SafeInv' /\ CommitShape
<1> DEFINE w == call.ledger
           f == call.from
           b == BalancesAfter
           v == [w EXCEPT !.balance = b]
           p == ledger.positions[f]
           q == w.positions[f]
<1>1. /\ call # NoCall /\ call' = NoCall /\ ledger' = v
      /\ UNCHANGED <<now, config>>
      /\ w.liquidation[f] = NoAuction
      /\ call.check_health => Healthy(w, q)
  BY DEF Commit, ValidateSubmit, Position
<1>2. /\ GoodSettings /\ WellFormed(w) /\ w \in Ledger /\ WellFormed(ledger) /\ ledger \in Ledger
      /\ f \in Users /\ call.check_health \in BOOLEAN
  BY <1>1 DEF SafeInv, PoolInv, TypeOK, Call, WellFormed
<1>3. /\ Safe(ledger, {}) /\ Safe(w, {f}) /\ CreditSafe(w)
      /\ Since(ledger, w, f, call.check_health)
  BY <1>1 DEF SafeInv
<1>4. p \in Positions /\ q \in Positions /\ f \in Accounts /\ Backstop \in Accounts
  BY <1>2, LedgerFields, AccountsFinite
<1>5. View = w
  BY <1>1 DEF View
<1> HIDE DEF w, f, b
<1>6. /\ v.reserves = w.reserves /\ v.positions = w.positions
      /\ v.liquidation = w.liquidation /\ v.bad_debt = w.bad_debt
      /\ v.interest = w.interest /\ v.backstop_tokens = w.backstop_tokens
  BY <1>2 DEF Ledger
<1> HIDE DEF v
<1>7. /\ ~HasBadDebt(q)
      /\ \A a \in Assets : q.liabilities[a] > 0 => config.reserves[a].l_factor > 0
  <2>1. CASE call.check_health
    BY <1>1, <1>2, <1>4, <2>1, HealthyIsSound
  <2>2. CASE ~call.check_health
    <3>1. NotWorse(p, q)
      BY <1>3, <2>2 DEF Since
    <3>2. ~HasBadDebt(p) /\ DebtPriced(ledger, f)
      BY <1>2, <1>3, <1>4 DEF Safe, SoundUser
    <3>3. ~HasBadDebt(q) /\ \A a \in Assets : q.liabilities[a] > 0 => p.liabilities[a] > 0
      BY <1>4, <3>1, <3>2, NotWorseIsSound
    <3> QED
      BY <3>2, <3>3 DEF DebtPriced
  <2> QED
    BY <2>1, <2>2
<1>8. Safe(v, {})
  <2>1. ASSUME NEW x \in Users PROVE SoundUser(v, x)
    <3>1. CASE x = f
      BY <1>1, <1>6, <1>7, <3>1 DEF SoundUser, LiquidationCovered
    <3>2. CASE x # f
      <4>1. SoundUser(w, x)
        BY <1>3, <3>2 DEF Safe
      <4> QED
        BY <1>6, <4>1, SameUserSound
    <3> QED
      BY <3>1, <3>2
  <2>2. ASSUME NEW x \in Accounts PROVE DebtPriced(v, x)
    BY <1>3, <1>6, <1>7 DEF Safe, DebtPriced
  <2>3. BadDebtCovered(v)
    BY <1>3, <1>6 DEF Safe, BadDebtCovered
  <2> QED
    BY <2>1, <2>2, <2>3 DEF Safe
<1>9. CreditSafe(v)
  BY <1>3, <1>6 DEF CreditSafe, InterestCovered, LoadedReserve
<1>10. SafeInv'
  BY <1>1, <1>8, <1>9, SafeLedgerLater
<1>11. Since(ledger, v, f, call.check_health)
  BY <1>3, <1>6 DEF Since, OtherSince
<1>12. call.check_health => Healthy(v, v.positions[f])
  BY <1>1, <1>6 DEF Healthy, CalculateFromPositions, LoadedReserve
<1>13. RatesKept(w, v) /\ PassedOn(w, v)
  <2>1. \A a \in Assets : w.reserves[a] \in ReserveData /\ w.positions[Backstop].liabilities[a] \in Nat
    BY <1>2, <1>4, LedgerFields, PositionNat
  <2> QED
    BY <1>6, <2>1 DEF RatesKept, PassedOn, ReserveData
<1> QED
  BY <1>1, <1>5, <1>6, <1>10, <1>11, <1>12, <1>13 DEF CommitShape, f

LEMMA AbortIsSafe ==
    ASSUME SafeInv, PoolInv', Abort
    PROVE  SafeInv' /\ AbortShape
<1>1. call # NoCall /\ call' = NoCall /\ ledger' = ledger /\ UNCHANGED <<now, config>>
  BY DEF Abort
<1>2. Safe(ledger, {}) /\ CreditSafe(ledger)
  BY DEF SafeInv
<1>3. SafeInv'
  BY <1>1, <1>2, SafeLedgerLater
<1> QED
  BY <1>1, <1>3 DEF AbortShape

-----------------------------------------------------------------------------
(* The entry points that are not requests.                                 *)

\* What an auction of bad debt offers is in the backstop's deposit.
LotThere(w) == w.bad_debt # NoAuction => w.bad_debt.lot[BackstopToken] <= w.backstop_tokens

\* What one of them may do to a ledger l.
EntryStep(l, w) ==
    /\ \A u \in Users :
         /\ w.positions[u] = l.positions[u]
         /\ \/ w.liquidation[u] = l.liquidation[u]
            \/ l.liquidation[u] = NoAuction
            \/ IsStale(l.liquidation[u]) /\ w.liquidation[u] = NoAuction
    /\ w.bad_debt = l.bad_debt \/ LotThere(w)
    /\ w.backstop_tokens < l.backstop_tokens => ~HasLiabilities(l.positions[Backstop])
    /\ \A a \in Assets : /\ w.reserves[a].d_supply <= l.reserves[a].d_supply
                         /\ w.reserves[a].b_supply = l.reserves[a].b_supply
    /\ RatesKept(l, w) /\ PassedOn(l, w)

EntryShape == call = NoCall /\ call' = NoCall /\ EntryStep(ledger, ledger')

LEMMA WritesSafe ==
    ASSUME SafeInv, PoolInv', NEW w, Writes(w), Safe(w, {}), CreditSafe(w), EntryStep(ledger, w)
    PROVE  SafeInv' /\ EntryShape
<1>1. call = NoCall /\ call' = NoCall /\ ledger' = w /\ UNCHANGED <<now, config>>
  BY DEF Writes
<1>2. SafeInv'
  BY <1>1, SafeLedgerLater
<1> QED
  BY <1>1, <1>2 DEF EntryShape

\* Steps that leave positions and totals alone.
LEMMA EntryKeeping ==
    ASSUME NEW l \in Ledger, NEW w \in Ledger, w.positions = l.positions, RatesKept(l, w),
           \A a \in Assets : /\ w.reserves[a].d_supply = l.reserves[a].d_supply
                             /\ w.reserves[a].b_supply = l.reserves[a].b_supply,
           w.bad_debt = l.bad_debt \/ LotThere(w),
           w.backstop_tokens < l.backstop_tokens => ~HasLiabilities(l.positions[Backstop]),
           \A u \in Users :
             \/ w.liquidation[u] = l.liquidation[u]
             \/ l.liquidation[u] = NoAuction
             \/ IsStale(l.liquidation[u]) /\ w.liquidation[u] = NoAuction
    PROVE  EntryStep(l, w)
<1>1. \A a \in Assets : l.reserves[a] \in ReserveData /\ l.positions[Backstop].liabilities[a] \in Nat
  BY LedgerFields, PositionNat, AccountsFinite
<1>2. PassedOn(l, w)
  BY <1>1 DEF PassedOn
<1> QED
  BY <1>1, <1>2 DEF EntryStep, ReserveData

LEMMA SameRatesKept ==
    ASSUME NEW l \in Ledger, NEW w, w.reserves = l.reserves
    PROVE  RatesKept(l, w)
<1>1. \A a \in Assets : l.reserves[a] \in ReserveData
  BY LedgerFields
<1> QED
  BY <1>1 DEF RatesKept, ReserveData

LEMMA EntrySame ==
    ASSUME NEW l \in Ledger, NEW w \in Ledger, w.positions = l.positions, w.reserves = l.reserves,
           w.bad_debt = l.bad_debt \/ LotThere(w),
           w.backstop_tokens < l.backstop_tokens => ~HasLiabilities(l.positions[Backstop]),
           \A u \in Users :
             \/ w.liquidation[u] = l.liquidation[u]
             \/ l.liquidation[u] = NoAuction
             \/ IsStale(l.liquidation[u]) /\ w.liquidation[u] = NoAuction
    PROVE  EntryStep(l, w)
  BY EntryKeeping, SameRatesKept

LEMMA SameCreditSafe ==
    ASSUME NEW l, NEW w, w.reserves = l.reserves, w.interest = l.interest, CreditSafe(l)
    PROVE  CreditSafe(w)
  BY DEF CreditSafe, InterestCovered, LoadedReserve

-----------------------------------------------------------------------------
(* Auctions that are created: they cover no more than there is.            *)

LEMMA ScaledAtMost ==
    ASSUME NEW shares \in [Assets -> Nat], NEW pct \in Nat, pct <= OracleScalar, NEW a \in Assets
    PROVE  Scaled(shares, pct)[a] <= shares[a]
<1>1. OracleScalar \in Int /\ OracleScalar > 0 /\ shares[a] \in Nat
  BY StateAssumption
<1>2. MulCeil(shares[a], pct, OracleScalar) <= shares[a]
  BY <1>1, MulAtMost
<1> QED
  BY <1>2 DEF Scaled

LEMMA ScaledPercentAtMost ==
    ASSUME NEW full \in BOOLEAN, NEW percent \in 1..100
    PROVE  ScaledPercent(full, percent) \in Nat /\ ScaledPercent(full, percent) <= OracleScalar
<1> DEFINE x == IF full THEN 95 ELSE percent
           n == x * OracleScalar
<1>1. OracleScalar \in Nat /\ x \in Nat /\ x \in Int /\ x <= 100
  BY StateAssumption
<1>2. ScaledPercent(full, percent) = FloorDiv(n, 100)
  BY DEF ScaledPercent, FloorDiv
<1> HIDE DEF x
<1>3. n \in Nat /\ n <= 100 * OracleScalar
  BY <1>1, ProductNat, ProductMonotone
<1> HIDE DEF n
<1>4. FloorDiv(n, 100) \in Nat
  BY <1>3, FloorDivNat
<1>5. n < 100 * OracleScalar + 100
  BY <1>1, <1>3
<1>6. FloorDiv(n, 100) <= OracleScalar
  BY <1>1, <1>3, <1>5, FloorDivUpper
<1> QED
  BY <1>2, <1>4, <1>6

LEMMA QuoteAtMost ==
    ASSUME NEW part \in Positions, NEW all, NEW inc, Bounded(inc), NEW percent \in 1..100,
           NEW a \in Assets
    PROVE  /\ QuoteFor(part, all, inc, percent).collateral[a] <= part.collateral[a]
           /\ QuoteFor(part, all, inc, percent).liabilities[a] <= part.liabilities[a]
<1> DEFINE full == IsFull(all, inc, percent)
           pct == ScaledPercent(full, percent)
           half == MulFloor(inc.liability_raw, pct, OracleScalar)
           withdrawn == WithdrawnCollateral(inc, pct)
           lotPct == DivCeil(withdrawn, inc.collateral_raw, OracleScalar)
           capped == IF lotPct > OracleScalar THEN OracleScalar ELSE lotPct
<1>1. /\ inc.collateral_raw \in Nat /\ inc.collateral_raw \in Int /\ inc.collateral_raw > 0
      /\ inc.liability_raw \in Nat
  BY DEF Bounded, HasValue
<1>2. OracleScalar \in Nat /\ OracleScalar \in Int /\ OracleScalar > 0
  BY StateAssumption
<1>3. full \in BOOLEAN
  BY DEF IsFull
<1>4. withdrawn = MulFloor(half, EstimatedIncentive(inc), OracleScalar)
  BY DEF WithdrawnCollateral
<1>5. /\ QuoteFor(part, all, inc, percent).collateral = Scaled(part.collateral, capped)
      /\ QuoteFor(part, all, inc, percent).liabilities = Scaled(part.liabilities, pct)
  BY DEF QuoteFor, Quote
<1> HIDE DEF full
<1>6. pct \in Nat /\ pct <= OracleScalar
  BY <1>3, ScaledPercentAtMost
<1> HIDE DEF pct
<1>7. half \in Nat
  BY <1>1, <1>2, <1>6, MulNat
<1> HIDE DEF half
<1>8. withdrawn \in Nat
  BY <1>2, <1>4, <1>7, IncentiveAtLeastOne, MulNat
<1> HIDE DEF withdrawn
<1>9. lotPct \in Nat
  BY <1>1, <1>2, <1>8, DivNat
<1> HIDE DEF lotPct
<1>10. capped \in Nat /\ capped <= OracleScalar
  BY <1>2, <1>9
<1> HIDE DEF capped
<1>11. part.collateral \in [Assets -> Nat] /\ part.liabilities \in [Assets -> Nat]
  BY DEF Positions
<1> QED
  BY <1>5, <1>6, <1>10, <1>11, ScaledAtMost

\* A liquidation offers, and asks for, no more than its user has.
LEMMA NewLiquidationWithin ==
    ASSUME GoodSettings, NEW w, WellFormed(w), NEW u \in Users, NEW bid, NEW lot, NEW percent,
           CanLiquidate(w, u, bid, lot, percent), NEW au,
           au = NewLiquidation(Sold(Auctioned(w.positions[u], bid, lot),
                                    LiquidationQuote(w, u, bid, lot, percent)))
    PROVE  /\ au \in Auction
           /\ \A a \in Assets : /\ au.lot[a] <= w.positions[u].collateral[a]
                                /\ au.bid[a] <= w.positions[u].liabilities[a]
<1> DEFINE p == w.positions[u]
           part == Auctioned(p, bid, lot)
           inc == CalculateFromPositions(w, part)
           q == LiquidationQuote(w, u, bid, lot, percent)
           sold == Sold(part, q)
<1>1. p \in Positions
  BY AccountsFinite, LedgerFields DEF WellFormed
<1>2. /\ percent \in 1..100 /\ HasValue(inc)
      /\ \A a \in Held(p.liabilities) : config.reserves[a].l_factor > 0
  BY DEF CanLiquidate, Priceable
<1>3. q = QuoteFor(part, CalculateFromPositions(w, p), inc, percent)
  BY DEF LiquidationQuote
<1>4. au = NewLiquidation(sold)
  OBVIOUS
<1> HIDE DEF p
<1>5. \A a \in Assets : /\ part.collateral[a] <= p.collateral[a]
                        /\ part.liabilities[a] <= p.liabilities[a]
  BY <1>1, PositionNat DEF Auctioned
<1>6. /\ part \in Positions
      /\ \A a \in Held(part.liabilities) : config.reserves[a].l_factor > 0
  BY <1>1, <1>2, AuctionedType
<1> HIDE DEF part
<1>7. Bounded(inc)
  BY <1>2, <1>6, PositionDataBounds DEF Bounded
<1> HIDE DEF inc, q
<1>8. q.collateral \in [Assets -> Nat] /\ q.liabilities \in [Assets -> Nat]
  BY <1>2, <1>3, <1>6, <1>7, QuoteType
<1>9. \A a \in Assets : /\ q.collateral[a] <= part.collateral[a]
                        /\ q.liabilities[a] <= part.liabilities[a]
  BY <1>2, <1>3, <1>6, <1>7, QuoteAtMost
<1>10. part.collateral \in [Assets -> Nat] /\ part.liabilities \in [Assets -> Nat]
  BY <1>6 DEF Positions
<1>11. sold.collateral \in [Assets -> Nat] /\ sold.liabilities \in [Assets -> Nat]
  BY <1>8, <1>10 DEF Sold
<1>12. ASSUME NEW a \in Assets
       PROVE  sold.collateral[a] <= p.collateral[a] /\ sold.liabilities[a] <= p.liabilities[a]
  <2>1. /\ p.collateral[a] \in Nat /\ p.liabilities[a] \in Nat
        /\ part.collateral[a] \in Nat /\ part.liabilities[a] \in Nat
        /\ q.collateral[a] \in Nat /\ q.liabilities[a] \in Nat
    BY <1>1, <1>8, <1>10, PositionNat
  <2>2. CASE q.full
    BY <1>5, <2>2 DEF Sold
  <2>3. CASE ~q.full
    BY <1>5, <1>9, <2>1, <2>3 DEF Sold
  <2> QED
    BY <2>2, <2>3
<1> HIDE DEF sold
<1>13. now \in Nat
  BY DEF GoodSettings
<1>14. au \in Auction
  BY <1>4, <1>11, <1>13, NewAuctionType DEF NewLiquidation
<1>15. \A a \in Assets : au.lot[a] = sold.collateral[a] /\ au.bid[a] = sold.liabilities[a]
  BY <1>4, <1>11 DEF NewLiquidation, OverTokens, Tokens
<1> QED
  BY <1>12, <1>14, <1>15 DEF p

\* A ledger of which only the auction of one user was replaced.
LEMMA SetLiquidationSafe ==
    ASSUME SafeInv, PoolInv', NEW u \in Users, NEW au \in Auction \cup {NoAuction},
           Writes([ledger EXCEPT !.liquidation[u] = au]),
           \/ ledger.liquidation[u] = NoAuction
           \/ IsStale(ledger.liquidation[u]) /\ au = NoAuction,
           au # NoAuction => \A a \in Assets :
              /\ au.lot[a] <= ledger.positions[u].collateral[a]
              /\ au.bid[a] <= ledger.positions[u].liabilities[a]
    PROVE  SafeInv' /\ EntryShape
<1> DEFINE l == ledger
           w == [l EXCEPT !.liquidation[u] = au]
<1>1. /\ l \in Ledger /\ Safe(l, {}) /\ CreditSafe(l)
      /\ \/ l.liquidation[u] = NoAuction
         \/ IsStale(l.liquidation[u]) /\ au = NoAuction
      /\ au # NoAuction => \A a \in Assets :
              /\ au.lot[a] <= l.positions[u].collateral[a]
              /\ au.bid[a] <= l.positions[u].liabilities[a]
  BY DEF SafeInv, PoolInv, WellFormed
<1>2. Writes(w)
  OBVIOUS
<1> HIDE DEF l
<1>3. l.liquidation \in [Users -> Auction \cup {NoAuction}]
  BY <1>1, LedgerFields
<1>4. /\ w \in Ledger
      /\ w.reserves = l.reserves /\ w.positions = l.positions
      /\ w.bad_debt = l.bad_debt /\ w.interest = l.interest
      /\ w.backstop_tokens = l.backstop_tokens
      /\ w.liquidation = [l.liquidation EXCEPT ![u] = au]
  BY <1>1, <1>3 DEF Ledger
<1> HIDE DEF w
<1>5. w.liquidation[u] = au /\ \A x \in Users \ {u} : w.liquidation[x] = l.liquidation[x]
  BY <1>3, <1>4
<1>6. Safe(w, {})
  <2>1. ASSUME NEW x \in Users PROVE SoundUser(w, x)
    <3>1. SoundUser(l, x)
      BY <1>1 DEF Safe
    <3>2. CASE x = u
      BY <1>1, <1>4, <1>5, <3>1, <3>2 DEF SoundUser, LiquidationCovered
    <3>3. CASE x # u
      BY <1>4, <1>5, <3>1, <3>3, SameUserSound
    <3> QED
      BY <3>2, <3>3
  <2> QED
    BY <1>1, <1>4, <2>1 DEF Safe, DebtPriced, BadDebtCovered
<1>7. CreditSafe(w)
  BY <1>1, <1>4, SameCreditSafe
<1>8. EntryStep(l, w)
  <2>1. ~(w.backstop_tokens < l.backstop_tokens)
    <3>1. l.backstop_tokens \in Nat
      BY <1>1, LedgerFields
    <3> QED
      BY <1>4, <3>1
  <2>2. ASSUME NEW x \in Users
        PROVE  \/ w.liquidation[x] = l.liquidation[x]
               \/ l.liquidation[x] = NoAuction
               \/ IsStale(l.liquidation[x]) /\ w.liquidation[x] = NoAuction
    BY <1>1, <1>5
  <2>3. /\ w.positions = l.positions /\ w.reserves = l.reserves /\ l \in Ledger /\ w \in Ledger
        /\ w.bad_debt = l.bad_debt
    BY <1>1, <1>4
  <2> QED
    BY <2>1, <2>2, <2>3, EntrySame
<1> QED
  BY <1>2, <1>6, <1>7, <1>8, WritesSafe DEF l

LEMMA UserAuctionsSafe ==
    ASSUME SafeInv, PoolInv', NEW u \in Users,
           \/ \E bid, lot, percent : NewUserLiquidation(u, bid, lot, percent)
           \/ DeleteStaleLiquidation(u)
    PROVE  SafeInv' /\ EntryShape
<1>1. GoodSettings /\ WellFormed(ledger)
  BY DEF SafeInv, PoolInv
<1>2. ASSUME NEW bid, NEW lot, NEW percent, NewUserLiquidation(u, bid, lot, percent)
      PROVE  SafeInv' /\ EntryShape
  <2> DEFINE au == NewLiquidation(Sold(Auctioned(ledger.positions[u], bid, lot),
                                       LiquidationQuote(ledger, u, bid, lot, percent)))
  <2>1. /\ CanLiquidate(ledger, u, bid, lot, percent)
        /\ ledger.liquidation[u] = NoAuction
        /\ Writes([ledger EXCEPT !.liquidation[u] = au])
    BY <1>2 DEF NewUserLiquidation, CreateUserLiquidation, CanLiquidate
  <2>2. /\ au \in Auction
        /\ \A a \in Assets : /\ au.lot[a] <= ledger.positions[u].collateral[a]
                             /\ au.bid[a] <= ledger.positions[u].liabilities[a]
    BY <1>1, <2>1, NewLiquidationWithin
  <2> HIDE DEF au
  <2> QED
    BY <2>1, <2>2, SetLiquidationSafe
<1>3. ASSUME DeleteStaleLiquidation(u)
      PROVE  SafeInv' /\ EntryShape
  BY <1>3, SetLiquidationSafe DEF DeleteStaleLiquidation
<1> QED
  BY <1>2, <1>3

\* A ledger of which only the auction of the bad debt was replaced.
LEMMA SetBadDebtSafe ==
    ASSUME SafeInv, PoolInv', NEW au \in Auction \cup {NoAuction},
           Writes([ledger EXCEPT !.bad_debt = au]),
           au # NoAuction => /\ \A a \in Assets : au.bid[a] <= ledger.positions[Backstop].liabilities[a]
                             /\ au.lot[BackstopToken] <= ledger.backstop_tokens
    PROVE  SafeInv' /\ EntryShape
<1> DEFINE l == ledger
           w == [l EXCEPT !.bad_debt = au]
<1>1. /\ l \in Ledger /\ Safe(l, {}) /\ CreditSafe(l) /\ l.backstop_tokens \in Nat
      /\ au # NoAuction => /\ \A a \in Assets : au.bid[a] <= l.positions[Backstop].liabilities[a]
                           /\ au.lot[BackstopToken] <= l.backstop_tokens
  BY LedgerFields DEF SafeInv, PoolInv, WellFormed
<1>2. Writes(w)
  OBVIOUS
<1> HIDE DEF l
<1>3. /\ w \in Ledger
      /\ w.reserves = l.reserves /\ w.positions = l.positions
      /\ w.liquidation = l.liquidation /\ w.interest = l.interest
      /\ w.backstop_tokens = l.backstop_tokens /\ w.bad_debt = au
  BY <1>1 DEF Ledger
<1> HIDE DEF w
<1>4. Safe(w, {})
  BY <1>1, <1>3, SameUserSound DEF Safe, DebtPriced, BadDebtCovered
<1>5. CreditSafe(w)
  BY <1>1, <1>3, SameCreditSafe
<1>6. EntryStep(l, w)
  <2>1. LotThere(w)
    BY <1>1, <1>3 DEF LotThere
  <2> QED
    BY <1>1, <1>3, <2>1, EntrySame
<1> QED
  BY <1>2, <1>4, <1>5, <1>6, WritesSafe DEF l

\* The price of a debt is a number.
LEMMA DebtValueNat ==
    ASSUME GoodSettings, NEW w, WellFormed(w), NEW bid \in SUBSET Assets
    PROVE  DebtValue(w, bid) \in Nat
<1> DEFINE p == w.positions[Backstop]
           owed == [a \in bid |-> ToAssetFromD(LoadedReserve(w, a), p.liabilities[a])]
<1>1. p \in Positions
  BY LedgerFields, AccountsFinite DEF WellFormed
<1> HIDE DEF p
<1>2. ASSUME NEW a \in bid
      PROVE  ToAssetFromD(LoadedReserve(w, a), p.liabilities[a]) \in Nat
  <2>1. LoadedReserve(w, a).d_rate \in Nat
    BY LoadedReserveType DEF ReserveData
  <2>2. p.liabilities[a] \in Nat
    BY <1>1, PositionNat
  <2> QED
    BY <2>1, <2>2, MulNat, ScalarsPositive DEF ToAssetFromD
<1>3. owed \in [bid -> Nat]
  BY <1>2
<1>4. DebtValue(w, bid) = FloorValue(owed)
  BY DEF DebtValue, p
<1> HIDE DEF owed
<1> QED
  BY <1>3, <1>4, ValueNat

LEMMA BadDebtAuctionsSafe ==
    ASSUME SafeInv, PoolInv', (\E bid : NewBadDebtAuction(bid)) \/ DeleteStaleBadDebt
    PROVE  SafeInv' /\ EntryShape
<1>1. GoodSettings /\ WellFormed(ledger) /\ ledger \in Ledger
  BY DEF SafeInv, PoolInv, WellFormed
<1>2. ASSUME NEW bid, NewBadDebtAuction(bid)
      PROVE  SafeInv' /\ EntryShape
  <2> DEFINE p == ledger.positions[Backstop]
             wanted == Premium(DebtValue(ledger, bid))
             lot == IF wanted > ledger.backstop_tokens THEN ledger.backstop_tokens ELSE wanted
             shares == [a \in bid |-> p.liabilities[a]]
             au == [bid |-> OverTokens(shares),
                    lot |-> OverTokens([t \in {BackstopToken} |-> lot]), block |-> now + 1]
             w == CreateBadDebt(ledger, bid)
  <2>1. CanCreateBadDebt(ledger, bid) /\ Writes(w)
    BY <1>2 DEF NewBadDebtAuction
  <2>2. w = [ledger EXCEPT !.bad_debt = au]
    BY DEF CreateBadDebt
  <2>3. w \in Ledger
    BY <1>1, <2>1, CreateBadDebtWellFormed DEF WellFormed
  <2>4. bid \subseteq Assets
    BY <2>1 DEF CanCreateBadDebt, Held
  <2>5. p \in Positions
    BY <1>1, LedgerFields, AccountsFinite
  <2> HIDE DEF p, lot, w
  <2>6. au.bid = OverTokens(shares)
    OBVIOUS
  <2>7. ASSUME NEW a \in Assets PROVE au.bid[a] <= p.liabilities[a]
    <3>1. p.liabilities[a] \in Nat
      BY <2>5, PositionNat
    <3>2. au.bid[a] = IF a \in bid THEN p.liabilities[a] ELSE 0
      BY <2>6 DEF OverTokens, Tokens
    <3> QED
      BY <3>1, <3>2
  <2>lot. au.lot[BackstopToken] <= ledger.backstop_tokens
    <3>1. au.lot[BackstopToken] = lot
      BY DEF OverTokens, Tokens
    <3>2. ledger.backstop_tokens \in Nat /\ wanted \in Nat
      <4>1. ledger.backstop_tokens \in Nat /\ DebtValue(ledger, bid) \in Nat
        BY <1>1, <2>4, DebtValueNat, LedgerFields
      <4> QED
        BY <4>1, PremiumNat
    <3>3. lot <= ledger.backstop_tokens
      <4> HIDE DEF wanted
      <4> QED
        BY <3>2 DEF lot
    <3> QED
      BY <3>1, <3>3
  <2> HIDE DEF au
  <2>8. w.bad_debt = au /\ w.bad_debt \in Auction \cup {NoAuction}
    BY <1>1, <2>2, <2>3 DEF Ledger
  <2> QED
    BY <2>1, <2>2, <2>7, <2>lot, <2>8, SetBadDebtSafe DEF p
<1>3. ASSUME DeleteStaleBadDebt
      PROVE  SafeInv' /\ EntryShape
  BY <1>3, SetBadDebtSafe DEF DeleteStaleBadDebt
<1> QED
  BY <1>2, <1>3

\* A ledger of which only the auction of the interest was replaced.
LEMMA SetInterestSafe ==
    ASSUME SafeInv, PoolInv', NEW au \in Auction \cup {NoAuction},
           Writes([ledger EXCEPT !.interest = au]),
           au # NoAuction => \A a \in Assets : au.lot[a] <= LoadedReserve(ledger, a).backstop_credit
    PROVE  SafeInv' /\ EntryShape
<1> DEFINE l == ledger
           w == [l EXCEPT !.interest = au]
<1>1. /\ l \in Ledger /\ Safe(l, {}) /\ CreditSafe(l) /\ l.backstop_tokens \in Nat
      /\ au # NoAuction => \A a \in Assets : au.lot[a] <= LoadedReserve(l, a).backstop_credit
  BY LedgerFields DEF SafeInv, PoolInv, WellFormed
<1>2. Writes(w)
  OBVIOUS
<1> HIDE DEF l
<1>3. /\ w \in Ledger
      /\ w.reserves = l.reserves /\ w.positions = l.positions
      /\ w.liquidation = l.liquidation /\ w.bad_debt = l.bad_debt
      /\ w.backstop_tokens = l.backstop_tokens /\ w.interest = au
  BY <1>1 DEF Ledger
<1> HIDE DEF w
<1>4. Safe(w, {})
  BY <1>1, <1>3, SameUserSound DEF Safe, DebtPriced, BadDebtCovered
<1>5. CreditSafe(w)
  BY <1>1, <1>3 DEF CreditSafe, InterestCovered, LoadedReserve
<1>6. EntryStep(l, w)
  BY <1>1, <1>3, EntrySame
<1> QED
  BY <1>2, <1>4, <1>5, <1>6, WritesSafe DEF l

LEMMA InterestAuctionsSafe ==
    ASSUME SafeInv, PoolInv', (\E lot \in SUBSET Assets : NewInterestAuction(lot)) \/ DeleteStaleInterest
    PROVE  SafeInv' /\ EntryShape
<1>1. GoodSettings /\ WellFormed(ledger) /\ ledger \in Ledger /\ CreditSafe(ledger)
  BY DEF SafeInv, PoolInv, WellFormed
<1>2. ASSUME NEW lot \in SUBSET Assets, NewInterestAuction(lot)
      PROVE  SafeInv' /\ EntryShape
  <2> DEFINE S == WithCredit(ledger, lot)
             credit == [a \in S |-> CreditOf(ledger, a)]
             asked == OverTokens([t \in {BackstopToken} |-> Premium(InterestValue(ledger, lot))])
             au == [bid |-> asked, lot |-> OverTokens(credit), block |-> now + 1]
             w == CreateInterest(ledger, lot)
  <2>1. Writes(w)
    BY <1>2 DEF NewInterestAuction
  <2>2. w = [ledger EXCEPT !.interest = au]
    BY DEF CreateInterest
  <2>3. w \in Ledger
    BY <1>1, CreateInterestWellFormed DEF WellFormed
  <2> HIDE DEF asked, S, w
  <2>4. ASSUME NEW a \in Assets PROVE au.lot[a] <= LoadedReserve(ledger, a).backstop_credit
    <3>1. LoadedReserve(ledger, a) \in ReserveData
      BY <1>1, LoadedReserveType
    <3>2. LoadedReserve(ledger, a).backstop_credit >= ledger.reserves[a].backstop_credit
      BY <1>1, LoadedIsUpToDate
    <3>3. ledger.reserves[a].backstop_credit >= 0 /\ ledger.reserves[a] \in ReserveData
      BY <1>1, LedgerFields DEF CreditSafe
    <3>4. au.lot[a] = IF a \in S THEN LoadedReserve(ledger, a).backstop_credit ELSE 0
      BY DEF OverTokens, Tokens, CreditOf
    <3> QED
      BY <3>1, <3>2, <3>3, <3>4 DEF ReserveData
  <2> HIDE DEF au
  <2>5. w.interest = au /\ w.interest \in Auction \cup {NoAuction}
    BY <1>1, <2>2, <2>3 DEF Ledger
  <2> QED
    BY <2>1, <2>2, <2>4, <2>5, SetInterestSafe
<1>3. ASSUME DeleteStaleInterest
      PROVE  SafeInv' /\ EntryShape
  BY <1>3, SetInterestSafe DEF DeleteStaleInterest
<1> QED
  BY <1>2, <1>3

LEMMA AuctionStepIsSafe ==
    ASSUME SafeInv, PoolInv', AuctionStep
    PROVE  SafeInv' /\ EntryShape
  BY UserAuctionsSafe, BadDebtAuctionsSafe, InterestAuctionsSafe DEF AuctionStep, LiquidationStep, OtherAuctionStep

-----------------------------------------------------------------------------
(* Bad debt, stray tokens, gifts and the backstop's deposit.               *)

LEMMA BadDebtIsSafe ==
    ASSUME SafeInv, PoolInv', NEW u \in Accounts, BadDebt(u)
    PROVE  SafeInv' /\ EntryShape
<1> DEFINE l == ledger
           v == DefaultBackstopDebt(l)
           debt == l.positions[Backstop].liabilities
<1>1. /\ GoodSettings /\ WellFormed(l) /\ l \in Ledger
      /\ Safe(l, {}) /\ CreditSafe(l)
      /\ Backstop \in Accounts /\ Backstop \notin Users
  BY AccountsFinite, StateAssumption DEF SafeInv, PoolInv, WellFormed
<1>2. u = Backstop
  <2>1. ASSUME u # Backstop PROVE FALSE
    <3>1. HasBadDebt(l.positions[u]) /\ u \in Users
      BY <2>1 DEF BadDebt, Accounts
    <3> QED
      BY <1>1, <3>1 DEF Safe, SoundUser
  <2> QED
    BY <2>1
<1>3. l.bad_debt = NoAuction /\ MustDefault(l) /\ CanDefault(l) /\ Writes(v)
  BY <1>2 DEF BadDebt
<1> HIDE DEF l, v
<1>4. /\ v \in Ledger
      /\ v.liquidation = l.liquidation /\ v.bad_debt = l.bad_debt
      /\ v.interest = l.interest /\ v.backstop_tokens = l.backstop_tokens
      /\ \A x \in Accounts \ {Backstop} : v.positions[x] = l.positions[x]
      /\ v.positions[Backstop].liabilities = NoShares
      /\ \A a \in Assets :
           /\ v.reserves[a].d_rate >= l.reserves[a].d_rate
           /\ v.reserves[a].b_rate < l.reserves[a].b_rate => debt[a] > 0
           /\ v.reserves[a].d_supply = l.reserves[a].d_supply - debt[a]
           /\ v.reserves[a].b_supply = l.reserves[a].b_supply
           /\ v.reserves[a].backstop_credit >= l.reserves[a].backstop_credit
           /\ LoadedReserve(v, a).backstop_credit = LoadedReserve(l, a).backstop_credit
  BY <1>1, <1>3, DefaultedDebt DEF v
<1>5. \A x \in Users : v.positions[x] = l.positions[x]
  BY <1>1, <1>4, AccountsFinite
<1>6. \A a \in Assets : /\ debt[a] \in Nat
                        /\ l.reserves[a].d_supply \in Nat /\ l.reserves[a].b_supply \in Nat
  <2>1. l.positions[Backstop] \in Positions /\ \A a \in Assets : l.reserves[a] \in ReserveData
    BY <1>1, LedgerFields
  <2> QED
    BY <2>1, PositionNat DEF ReserveData
<1> HIDE DEF debt
<1>7. Safe(v, {})
  <2>1. ASSUME NEW x \in Users PROVE SoundUser(v, x)
    BY <1>1, <1>4, <1>5, SameUserSound DEF Safe
  <2>2. ASSUME NEW x \in Accounts PROVE DebtPriced(v, x)
    <3>1. CASE x = Backstop
      BY <1>4, <3>1 DEF DebtPriced, NoShares
    <3>2. CASE x # Backstop
      BY <1>1, <1>4, <3>2 DEF Safe, DebtPriced
    <3> QED
      BY <3>1, <3>2
  <2>3. BadDebtCovered(v)
    BY <1>3, <1>4 DEF BadDebtCovered
  <2> QED
    BY <2>1, <2>2, <2>3 DEF Safe
<1>8. CreditSafe(v)
  BY <1>1, <1>4, KeptCreditSafe
<1>9. RatesKept(l, v)
  <2> SUFFICES ASSUME NEW a \in Assets
               PROVE  /\ v.reserves[a].d_rate >= l.reserves[a].d_rate
                      /\ v.reserves[a].b_rate < l.reserves[a].b_rate =>
                           v.reserves[a].d_supply < l.reserves[a].d_supply
    BY <1>3, <1>4 DEF RatesKept, MustDefault
  <2> QED
    BY <1>4, <1>6
<1>10. PassedOn(l, v)
  <2>1. ASSUME NEW a \in Assets,
               v.positions[Backstop].liabilities[a] > l.positions[Backstop].liabilities[a]
        PROVE  FALSE
    <3>1. v.positions[Backstop].liabilities[a] = 0 /\ l.positions[Backstop].liabilities[a] \in Nat
      BY <1>4, <1>6 DEF NoShares, debt
    <3> QED
      BY <2>1, <3>1
  <2> QED
    BY <2>1 DEF PassedOn
<1>11. EntryStep(l, v)
  <2>1. ~(v.backstop_tokens < l.backstop_tokens)
    <3>1. l.backstop_tokens \in Nat
      BY <1>1, LedgerFields
    <3> QED
      BY <1>4, <3>1
  <2>2. \A a \in Assets : /\ v.reserves[a].d_supply <= l.reserves[a].d_supply
                          /\ v.reserves[a].b_supply = l.reserves[a].b_supply
    BY <1>4, <1>6
  <2> QED
    BY <1>4, <1>5, <1>9, <1>10, <2>1, <2>2 DEF EntryStep
<1> QED
  BY <1>3, <1>7, <1>8, <1>11, WritesSafe DEF l

\* Reserves that are loaded and stored again, and nothing else.
LEMMA StoredAgainSafe ==
    ASSUME SafeInv, NEW w \in Ledger, Accrued(ledger, w),
           w.positions = ledger.positions, w.liquidation = ledger.liquidation,
           w.bad_debt = ledger.bad_debt, w.interest = ledger.interest,
           w.backstop_tokens = ledger.backstop_tokens,
           \A a \in Assets : /\ w.reserves[a].d_supply = ledger.reserves[a].d_supply
                             /\ w.reserves[a].b_supply = ledger.reserves[a].b_supply
    PROVE  Safe(w, {}) /\ CreditSafe(w) /\ EntryStep(ledger, w)
<1> DEFINE l == ledger
<1>1. /\ GoodSettings /\ WellFormed(l) /\ l \in Ledger
      /\ Safe(l, {}) /\ CreditSafe(l)
  BY DEF SafeInv, PoolInv, WellFormed
<1>2. /\ Accrued(l, w)
      /\ w.positions = l.positions /\ w.liquidation = l.liquidation
      /\ w.bad_debt = l.bad_debt /\ w.interest = l.interest
      /\ w.backstop_tokens = l.backstop_tokens
      /\ \A a \in Assets : /\ w.reserves[a].d_supply = l.reserves[a].d_supply
                           /\ w.reserves[a].b_supply = l.reserves[a].b_supply
  OBVIOUS
<1> HIDE DEF l
<1>3. Safe(w, {})
  BY <1>1, <1>2, SameUserSound DEF Safe, DebtPriced, BadDebtCovered
<1>4. CreditSafe(w)
  BY <1>1, <1>2, AccruedCreditSafe
<1>5. RatesKept(l, w)
  BY <1>1, <1>2, RatesKeptIfAccrued
<1>6. ~(w.backstop_tokens < l.backstop_tokens)
  <2>1. l.backstop_tokens \in Nat
    BY <1>1, LedgerFields
  <2> QED
    BY <1>2, <2>1
<1>7. EntryStep(l, w)
  BY <1>1, <1>2, <1>5, <1>6, EntryKeeping
<1> QED
  BY <1>3, <1>4, <1>7 DEF l

LEMMA GulpIsSafe ==
    ASSUME SafeInv, PoolInv', NEW a \in Assets, Gulp(a)
    PROVE  SafeInv' /\ EntryShape
<1> DEFINE l == LoadReserves(ledger, {a})
           r == l.reserves[a]
           credit == r.backstop_credit + Excess(l, a)
           s == [r EXCEPT !.backstop_credit = credit]
           rs == [l.reserves EXCEPT ![a] = s]
           w == [l EXCEPT !.reserves = rs]
<1>1. GoodSettings /\ WellFormed(ledger) /\ ledger \in Ledger
  BY DEF SafeInv, PoolInv, WellFormed
<1>2. Writes(w) /\ Excess(l, a) > 0
  <2>1. Writes([l EXCEPT !.reserves[a].backstop_credit = @ + Excess(l, a)]) /\ Excess(l, a) > 0
    BY DEF Gulp
  <2> HIDE DEF l
  <2> QED
    BY <2>1
<1>3. WellFormed(l) /\ l \in Ledger /\ l = LoadReserves(ledger, {a})
  BY <1>1, LoadReservesWellFormed DEF WellFormed
<1>4. SameTotals(ledger, l) /\ l.positions = ledger.positions
  BY <1>1, LoadReservesSameTotals, LoadReservesFields
<1>5. r = LoadedReserve(ledger, a)
  <2>1. l.reserves = [c \in Assets |-> IF c \in {a} THEN LoadedReserve(ledger, c) ELSE ledger.reserves[c]]
    BY <1>1, LoadReservesFields
  <2> HIDE DEF l
  <2> QED
    BY <2>1
<1>6. Safe(l, {}) /\ CreditSafe(l) /\ EntryStep(ledger, l)
  BY <1>3, <1>4, StoredAgainSafe DEF SameTotals
<1> HIDE DEF l
<1>7. /\ l.reserves \in [Assets -> ReserveData] /\ r \in ReserveData
      /\ l.balance \in [Assets -> Int]
  BY <1>3, LedgerFields
<1>8. r.backstop_credit \in Int /\ TotalSupply(r) \in Nat /\ TotalLiabilities(r) \in Nat
  BY <1>7, TotalsNat DEF ReserveData
<1>9. credit \in Int /\ credit >= r.backstop_credit
  <2>1. Excess(l, a) \in Int
    BY <1>7, <1>8 DEF Excess
  <2> QED
    BY <1>2, <1>8, <2>1
<1> HIDE DEF credit
<1>10. /\ s \in ReserveData /\ s.backstop_credit = credit
       /\ s.b_supply = r.b_supply /\ s.d_supply = r.d_supply
       /\ s.d_rate = r.d_rate /\ s.b_rate = r.b_rate /\ s.last_time = r.last_time
  BY <1>7, <1>9 DEF ReserveData
<1>11. r.last_time = now
  BY <1>1, <1>5, LoadedIsUpToDate
<1> HIDE DEF s
<1>12. /\ rs \in [Assets -> ReserveData] /\ rs[a] = s
       /\ \A c \in Assets \ {a} : rs[c] = l.reserves[c]
  BY <1>7, <1>10
<1> HIDE DEF rs
<1>13. /\ w \in Ledger /\ w.reserves = rs
       /\ w.positions = l.positions /\ w.liquidation = l.liquidation
       /\ w.bad_debt = l.bad_debt /\ w.interest = l.interest
       /\ w.backstop_tokens = l.backstop_tokens
  BY <1>3, <1>12 DEF Ledger
<1> HIDE DEF w
<1>14. Safe(w, {})
  BY <1>6, <1>13, SameUserSound DEF Safe, DebtPriced, BadDebtCovered
<1>15. ASSUME NEW c \in Assets
       PROVE  /\ w.reserves[c].backstop_credit >= l.reserves[c].backstop_credit
              /\ LoadedReserve(w, c).backstop_credit >= LoadedReserve(l, c).backstop_credit
              /\ LoadedReserve(w, c).backstop_credit \in Int
              /\ LoadedReserve(l, c).backstop_credit \in Int
  <2>1. LoadedReserve(l, c) \in ReserveData /\ l.reserves[c] \in ReserveData
    BY <1>3, <1>1, <1>7, LoadedReserveType
  <2>2. CASE c = a
    <3>1. LoadedReserve(w, a) = s
      BY <1>10, <1>11, <1>12, <1>13, UpToDateIsLoaded
    <3>2. LoadedReserve(l, a) = r
      BY <1>11, UpToDateIsLoaded
    <3> QED
      BY <1>8, <1>9, <1>10, <1>12, <1>13, <2>2, <3>1, <3>2
  <2>3. CASE c # a
    <3>1. w.reserves[c] = l.reserves[c]
      BY <1>12, <1>13, <2>3
    <3>2. LoadedReserve(w, c) = LoadedReserve(l, c)
      BY <3>1 DEF LoadedReserve
    <3> QED
      BY <2>1, <3>1, <3>2 DEF ReserveData
  <2> QED
    BY <2>2, <2>3
<1>16. CreditSafe(w)
  <2>1. ASSUME NEW c \in Assets PROVE w.reserves[c].backstop_credit >= 0
    <3>1. l.reserves[c] \in ReserveData /\ w.reserves[c] \in ReserveData
      BY <1>7, <1>12, <1>13
    <3> QED
      BY <1>6, <1>15, <3>1 DEF CreditSafe, ReserveData
  <2>2. InterestCovered(w)
    <3> SUFFICES ASSUME w.interest # NoAuction, NEW c \in Assets
                 PROVE  w.interest.lot[c] <= LoadedReserve(w, c).backstop_credit
      BY DEF InterestCovered
    <3>1. w.interest \in Auction /\ c \in Tokens
      BY <1>13, LedgerFields DEF Tokens
    <3>2. w.interest.lot[c] \in Nat
      BY <3>1 DEF Auction
    <3>3. w.interest.lot[c] <= LoadedReserve(l, c).backstop_credit
      BY <1>6, <1>13 DEF CreditSafe, InterestCovered
    <3> QED
      BY <1>15, <3>2, <3>3
  <2> QED
    BY <2>1, <2>2 DEF CreditSafe
<1>17. EntryStep(ledger, w)
  <2>1. ASSUME NEW c \in Assets
        PROVE  /\ w.reserves[c].d_supply = l.reserves[c].d_supply
               /\ w.reserves[c].b_supply = l.reserves[c].b_supply
               /\ w.reserves[c].d_rate = l.reserves[c].d_rate
               /\ w.reserves[c].b_rate = l.reserves[c].b_rate
    BY <1>10, <1>12, <1>13
  <2> QED
    BY <1>6, <1>13, <2>1 DEF EntryStep, LotThere, RatesKept, PassedOn
<1> QED
  BY <1>2, <1>14, <1>16, <1>17, WritesSafe

LEMMA GiftIsSafe ==
    ASSUME SafeInv, PoolInv', NEW a \in Assets, NEW amount \in Gifts, Gift(a, amount)
    PROVE  SafeInv' /\ EntryShape
<1> DEFINE l == ledger
           b == [l.balance EXCEPT ![a] = @ + amount]
           w == [l EXCEPT !.balance = b]
<1>1. Writes(w)
  BY DEF Gift
<1>2. l \in Ledger /\ l.balance \in [Assets -> Int] /\ amount \in Nat
  BY PoolAssumption, LedgerFields DEF SafeInv, PoolInv, WellFormed
<1>3. b \in [Assets -> Int]
  BY <1>2
<1> HIDE DEF b
<1>4. /\ w \in Ledger /\ w.reserves = l.reserves
      /\ w.positions = l.positions /\ w.liquidation = l.liquidation
      /\ w.bad_debt = l.bad_debt /\ w.interest = l.interest
      /\ w.backstop_tokens = l.backstop_tokens
  BY <1>2, <1>3 DEF Ledger
<1> HIDE DEF w
<1>5. Accrued(l, w)
  BY <1>4 DEF Accrued
<1>6. Safe(w, {}) /\ CreditSafe(w) /\ EntryStep(l, w)
  BY <1>4, <1>5, StoredAgainSafe
<1> QED
  BY <1>1, <1>6, WritesSafe

\* The backstop pays in, or pays out when it owes nothing.
LEMMA BackstopMovesSafe ==
    ASSUME SafeInv, PoolInv', NEW tokens \in Nat, NEW level, BackstopMoves(tokens, level),
           tokens < ledger.backstop_tokens => ~HasLiabilities(ledger.positions[Backstop])
    PROVE  SafeInv' /\ EntryShape
<1> DEFINE l == ledger
           w == [l EXCEPT !.backstop_tokens = tokens]
<1>1. call = NoCall /\ call' = NoCall /\ ledger' = w /\ UNCHANGED <<now, config>>
  BY DEF BackstopMoves
<1>2. /\ l \in Ledger /\ Safe(l, {}) /\ CreditSafe(l)
      /\ tokens < l.backstop_tokens => ~HasLiabilities(l.positions[Backstop])
  BY DEF SafeInv, PoolInv, WellFormed
<1> HIDE DEF l
<1>3. /\ w \in Ledger /\ w.reserves = l.reserves
      /\ w.positions = l.positions /\ w.liquidation = l.liquidation
      /\ w.bad_debt = l.bad_debt /\ w.interest = l.interest
      /\ w.backstop_tokens = tokens
  BY <1>2 DEF Ledger
<1> HIDE DEF w
<1>4. Safe(w, {})
  BY <1>2, <1>3, SameUserSound DEF Safe, DebtPriced, BadDebtCovered
<1>5. CreditSafe(w)
  BY <1>2, <1>3, SameCreditSafe
<1>6. EntryStep(l, w)
  BY <1>2, <1>3, EntrySame
<1>7. SafeInv'
  BY <1>1, <1>4, <1>5, SafeLedgerLater
<1> QED
  BY <1>1, <1>6, <1>7 DEF EntryShape, l

LEMMA BackstopChangeIsSafe ==
    ASSUME SafeInv, PoolInv', NEW amount \in BackstopAmounts, NEW level,
           BackstopDeposit(amount, level) \/ BackstopWithdraw(amount, level)
    PROVE  SafeInv' /\ EntryShape
<1> DEFINE held == ledger.backstop_tokens
<1>1. held \in Nat /\ amount \in Nat
  BY PoolAssumption, LedgerFields DEF SafeInv, PoolInv, WellFormed
<1>2. CASE BackstopDeposit(amount, level)
  <2>1. BackstopMoves(held + amount, level)
    BY <1>2 DEF BackstopDeposit
  <2>2. held + amount \in Nat /\ ~(held + amount < held)
    BY <1>1
  <2> QED
    BY <2>1, <2>2, BackstopMovesSafe
<1>3. CASE BackstopWithdraw(amount, level)
  <2>1. BackstopMoves(held - amount, level) /\ ~HasLiabilities(ledger.positions[Backstop])
    BY <1>3 DEF BackstopWithdraw
  <2>2. held - amount \in Nat
    BY <1>1, <1>3 DEF BackstopWithdraw
  <2> QED
    BY <2>1, <2>2, BackstopMovesSafe
<1> QED
  BY <1>2, <1>3

-----------------------------------------------------------------------------
(* Configuration: what was earned stays what it was.                       *)

\* Each reserve was brought up to date, or keeps the terms it accrues on.
LEMMA ReconfiguredSafe ==
    ASSUME SafeInv, PoolInv', call = NoCall, call' = NoCall, now' = now, NEW w, ledger' = w,
           Safe(w, {}), CreditSafe(w), EntryStep(ledger, w),
           \A a \in Assets : config.reserves[a].l_factor > 0 => config'.reserves[a].l_factor > 0,
           \A a \in Assets :
             \/ w.reserves[a].last_time = now
             \/ /\ config'.reserves[a] = config.reserves[a]
                /\ config'.bstop_rate = config.bstop_rate
    PROVE  SafeInv' /\ EntryShape
<1>1. Safe(ledger, {})'
  <2>1. \A u \in Users : SoundUser(ledger, u)'
    BY DEF Safe, SoundUser, LiquidationCovered
  <2>2. \A u \in Accounts : DebtPriced(ledger, u)'
    BY DEF Safe, DebtPriced
  <2>3. BadDebtCovered(ledger)'
    BY DEF Safe, BadDebtCovered
  <2> QED
    BY <2>1, <2>2, <2>3 DEF Safe
<1>2. \A a \in Assets : LoadedReserve(ledger, a)' = LoadedReserve(w, a)
  BY DEF LoadedReserve, Load
<1>3. CreditSafe(ledger)'
  BY <1>2 DEF CreditSafe, InterestCovered
<1>4. SafeInv'
  BY <1>1, <1>3 DEF SafeInv
<1> QED
  BY <1>4 DEF EntryShape

LEMMA NothingStored ==
    ASSUME SafeInv
    PROVE  /\ Safe(ledger, {}) /\ CreditSafe(ledger) /\ EntryStep(ledger, ledger)
           /\ config \in Config
<1>1. Accrued(ledger, ledger) /\ ledger \in Ledger /\ config \in Config
  BY DEF Accrued, SafeInv, PoolInv, WellFormed, TypeOK
<1> QED
  BY <1>1, StoredAgainSafe

LEMMA SameTermsSafe ==
    ASSUME SafeInv, PoolInv', call = NoCall, UNCHANGED <<now, ledger, call>>,
           config'.reserves = config.reserves, config'.bstop_rate = config.bstop_rate
    PROVE  SafeInv' /\ EntryShape
  BY NothingStored, ReconfiguredSafe

LEMMA SettingsSafe ==
    ASSUME SafeInv, PoolInv',
           \/ \E a \in Assets : \/ \E cfg \in NewConfigs[a] : QueueSetReserve(a, cfg)
                                \/ CancelSetReserve(a)
           \/ UpdateStatus
           \/ \E s \in AdminStatuses : SetStatus(s)
    PROVE  SafeInv' /\ EntryShape
<1>1. config \in Config
  BY NothingStored
<1>2. ASSUME NEW c, SetsConfig(c), c.reserves = config.reserves, c.bstop_rate = config.bstop_rate
      PROVE  SafeInv' /\ EntryShape
  BY <1>2, SameTermsSafe DEF SetsConfig
<1>3. ASSUME NEW q, SetsConfig([config EXCEPT !.queued = q])
      PROVE  SafeInv' /\ EntryShape
  <2> DEFINE c == [config EXCEPT !.queued = q]
  <2>1. c.reserves = config.reserves /\ c.bstop_rate = config.bstop_rate
    BY <1>1 DEF Config
  <2> HIDE DEF c
  <2> QED
    BY <1>2, <1>3, <2>1 DEF c
<1>4. ASSUME NEW s, SetsStatus(s)
      PROVE  SafeInv' /\ EntryShape
  <2> DEFINE c == [config EXCEPT !.status = s]
  <2>1. SetsConfig(c)
    BY <1>4 DEF SetsStatus
  <2>2. c.reserves = config.reserves /\ c.bstop_rate = config.bstop_rate
    BY <1>1 DEF Config
  <2> HIDE DEF c
  <2> QED
    BY <1>2, <2>1, <2>2
<1>5. ASSUME NEW a \in Assets, NEW cfg, QueueSetReserve(a, cfg)
      PROVE  SafeInv' /\ EntryShape
  <2> DEFINE unlock == IF config.status = 6 THEN now ELSE now + QueueDelay
             item == [new_config |-> cfg, unlock_time |-> unlock]
             q == [config.queued EXCEPT ![a] = item]
  <2>1. SetsConfig([config EXCEPT !.queued = q])
    BY <1>5 DEF QueueSetReserve
  <2> HIDE DEF q
  <2> QED
    BY <1>3, <2>1
<1>6. ASSUME NEW a \in Assets, CancelSetReserve(a)
      PROVE  SafeInv' /\ EntryShape
  <2> DEFINE q == [config.queued EXCEPT ![a] = NoQueue]
  <2>1. SetsConfig([config EXCEPT !.queued = q])
    BY <1>6 DEF CancelSetReserve
  <2> HIDE DEF q
  <2> QED
    BY <1>3, <2>1
<1>7. CASE UpdateStatus
  BY <1>4, <1>7 DEF UpdateStatus
<1>8. ASSUME NEW s \in AdminStatuses, SetStatus(s)
      PROVE  SafeInv' /\ EntryShape
  BY <1>4, <1>8 DEF SetStatus
<1> QED
  BY <1>5, <1>6, <1>7, <1>8

LEMMA UpdatePoolIsSafe ==
    ASSUME SafeInv, PoolInv', NEW limits \in PoolConfigs, UpdatePool(limits)
    PROVE  SafeInv' /\ EntryShape
<1> DEFINE w == IF limits.bstop_rate = config.bstop_rate THEN ledger
                ELSE LoadReserves(ledger, Assets)
           c == [config EXCEPT !.bstop_rate = limits.bstop_rate,
                               !.max_positions = limits.max_positions,
                               !.min_collateral = limits.min_collateral]
<1>1. /\ call = NoCall /\ call' = NoCall /\ now' = now
      /\ ledger' = w /\ config' = c
  BY DEF UpdatePool
<1>2. /\ GoodSettings /\ WellFormed(ledger) /\ ledger \in Ledger /\ config \in Config
  BY NothingStored DEF SafeInv, PoolInv, WellFormed
<1>3. c.reserves = config.reserves /\ c.bstop_rate = limits.bstop_rate
  BY <1>2 DEF Config
<1> HIDE DEF c
<1>4. CASE limits.bstop_rate = config.bstop_rate
  <2>1. w = ledger
    BY <1>4
  <2> QED
    BY <1>1, <1>3, <1>4, <2>1, SameTermsSafe
<1>5. CASE limits.bstop_rate # config.bstop_rate
  <2> DEFINE l == LoadReserves(ledger, Assets)
  <2>1. ledger' = l
    BY <1>1, <1>5
  <2>2. l \in Ledger /\ l.positions = ledger.positions /\ SameTotals(ledger, l)
    BY <1>2, LoadReservesSameTotals, LoadReservesFields, LoadReservesWellFormed DEF WellFormed
  <2>3. \A a \in Assets : l.reserves[a] = LoadedReserve(ledger, a)
    <3>1. l.reserves = [a \in Assets |-> IF a \in Assets THEN LoadedReserve(ledger, a) ELSE ledger.reserves[a]]
      BY <1>2, LoadReservesFields
    <3> HIDE DEF l
    <3> QED
      BY <3>1
  <2> HIDE DEF l
  <2>4. \A a \in Assets : l.reserves[a].last_time = now
    BY <1>2, <2>3, LoadedIsUpToDate
  <2>5. Safe(l, {}) /\ CreditSafe(l) /\ EntryStep(ledger, l)
    BY <2>2, StoredAgainSafe DEF SameTotals
  <2> QED
    BY <1>1, <1>3, <2>1, <2>4, <2>5, ReconfiguredSafe
<1> QED
  BY <1>4, <1>5

LEMMA SetReserveIsSafe ==
    ASSUME SafeInv, PoolInv', NEW a \in Assets, SetReserve(a)
    PROVE  SafeInv' /\ EntryShape
<1> DEFINE cfg == config.queued[a].new_config
           l == LoadReserves(ledger, {a})
           r == l.reserves[a]
           s == [r EXCEPT !.ir_mod = Scalar7]
           rs == [l.reserves EXCEPT ![a] = s]
           w == IF CurveChanged(config.reserves[a], cfg) THEN [l EXCEPT !.reserves = rs] ELSE l
           q == [config.queued EXCEPT ![a] = NoQueue]
           cs == [config.reserves EXCEPT ![a] = cfg]
           c == [config EXCEPT !.queued = q, !.reserves = cs]
<1>1. /\ config \in Config /\ config' \in Config /\ GoodSettings
      /\ WellFormed(ledger) /\ ledger \in Ledger
  BY DEF SafeInv, PoolInv, WellFormed, TypeOK
<1>2. /\ l \in Ledger /\ l = LoadReserves(ledger, {a})
      /\ SameTotals(ledger, l) /\ l.positions = ledger.positions
  BY <1>1, LoadReservesSameTotals, LoadReservesFields, LoadReservesWellFormed DEF WellFormed
<1>3. /\ call = NoCall /\ call' = NoCall /\ now' = now
      /\ ValidChange(config.reserves[a], cfg)
  BY DEF SetReserve
<1>4. ledger' = w
  <2>1. ledger' = IF CurveChanged(config.reserves[a], cfg)
                  THEN [l EXCEPT !.reserves[a].ir_mod = Scalar7] ELSE l
    BY DEF SetReserve
  <2> HIDE DEF l, cfg
  <2> QED
    BY <2>1
<1>5. config' = c
  BY DEF SetReserve
<1>6. l.reserves = [x \in Assets |-> IF x \in {a} THEN LoadedReserve(ledger, x) ELSE ledger.reserves[x]]
  BY <1>1, LoadReservesFields
<1> HIDE DEF l
<1>7. /\ l.reserves \in [Assets -> ReserveData] /\ r \in ReserveData
      /\ r = LoadedReserve(ledger, a)
      /\ \A x \in Assets \ {a} : l.reserves[x] = ledger.reserves[x]
  BY <1>2, <1>6, LedgerFields
<1>8. r.last_time = now
  BY <1>1, <1>7, LoadedIsUpToDate
<1>9. /\ s \in ReserveData /\ SameValue(r, s)
      /\ s.b_supply = r.b_supply /\ s.d_supply = r.d_supply
  BY <1>7, ScalarsPositive DEF ReserveData, SameValue
<1> HIDE DEF s
<1>10. /\ rs \in [Assets -> ReserveData] /\ rs[a] = s
       /\ \A x \in Assets \ {a} : rs[x] = l.reserves[x]
  BY <1>7, <1>9
<1> HIDE DEF rs, cfg
<1>11. /\ w \in Ledger /\ (w.reserves = rs \/ w.reserves = l.reserves)
       /\ w.positions = l.positions /\ w.liquidation = l.liquidation
       /\ w.bad_debt = l.bad_debt /\ w.interest = l.interest
       /\ w.backstop_tokens = l.backstop_tokens
  <2> DEFINE x == [l EXCEPT !.reserves = rs]
  <2>1. /\ x \in Ledger /\ x.reserves = rs
        /\ x.positions = l.positions /\ x.liquidation = l.liquidation
        /\ x.bad_debt = l.bad_debt /\ x.interest = l.interest
        /\ x.backstop_tokens = l.backstop_tokens
    BY <1>2, <1>10 DEF Ledger
  <2>2. w = x \/ w = l
    OBVIOUS
  <2> HIDE DEF x, w
  <2> QED
    BY <1>2, <2>1, <2>2
<1> HIDE DEF w
<1>12. ASSUME NEW x \in Assets
       PROVE  /\ w.reserves[x].d_supply = ledger.reserves[x].d_supply
              /\ w.reserves[x].b_supply = ledger.reserves[x].b_supply
              /\ w.reserves[x] = ledger.reserves[x] \/ SameValue(LoadedReserve(ledger, x), w.reserves[x])
              /\ x = a \/ w.reserves[x] = ledger.reserves[x]
              /\ x = a => w.reserves[x].last_time = now
  <2>1. /\ l.reserves[x].d_supply = ledger.reserves[x].d_supply
        /\ l.reserves[x].b_supply = ledger.reserves[x].b_supply
    BY <1>2 DEF SameTotals
  <2>2. CASE x = a
    BY <1>7, <1>8, <1>9, <1>10, <1>11, <2>1, <2>2 DEF SameValue
  <2>3. CASE x # a
    BY <1>7, <1>10, <1>11, <2>1, <2>3
  <2> QED
    BY <2>2, <2>3
<1>13. Safe(w, {}) /\ CreditSafe(w) /\ EntryStep(ledger, w)
  <2>1. Accrued(ledger, w)
    BY <1>12 DEF Accrued
  <2> QED
    BY <1>2, <1>11, <1>12, <2>1, StoredAgainSafe DEF SameTotals
<1>14. config'.reserves = cs /\ config'.bstop_rate = config.bstop_rate
  <2> HIDE DEF q, cs
  <2> QED
    BY <1>1, <1>5 DEF Config
<1>15. cs[a] = cfg /\ \A x \in Assets \ {a} : cs[x] = config.reserves[x]
  BY <1>1 DEF Config
<1> HIDE DEF cs
<1>16. ASSUME NEW x \in Assets, config.reserves[x].l_factor > 0
       PROVE  config'.reserves[x].l_factor > 0
  <2>1. CASE x = a
    <3>1. cfg.l_factor # 0
      BY <1>1, <1>3, <1>16, <2>1 DEF ValidChange, Config, ReserveConfig
    <3>2. config'.reserves[a] = cfg /\ config'.reserves[a] \in ReserveConfig
      BY <1>1, <1>14, <1>15 DEF Config
    <3> QED
      BY <2>1, <3>1, <3>2 DEF ReserveConfig
  <2>2. CASE x # a
    BY <1>14, <1>15, <1>16, <2>2
  <2> QED
    BY <2>1, <2>2
<1> QED
  BY <1>3, <1>4, <1>12, <1>13, <1>14, <1>15, <1>16, ReconfiguredSafe

LEMMA MaintenanceStepIsSafe ==
    ASSUME SafeInv, PoolInv', MaintenanceStep
    PROVE  SafeInv' /\ EntryShape
<1>1. ASSUME NEW a \in Assets, SetReserve(a) PROVE SafeInv' /\ EntryShape
  BY <1>1, SetReserveIsSafe
<1> QED
  BY <1>1, BadDebtIsSafe, GulpIsSafe, UpdatePoolIsSafe, SettingsSafe DEF MaintenanceStep

-----------------------------------------------------------------------------
(* The environment.                                                        *)

\* Time only adds interest to what an auction of interest may pay out.
LEMMA TickIsSafe ==
    ASSUME SafeInv, PoolInv', NEW delta \in Ticks, Tick(delta)
    PROVE  SafeInv' /\ EntryShape
<1>1. /\ call = NoCall /\ call' = NoCall /\ ledger' = ledger /\ config' = config
      /\ now' = now + delta /\ now \in Nat /\ delta \in Nat
  BY PoolAssumption DEF Tick, SafeInv, PoolInv, GoodSettings
<1>2. /\ Safe(ledger, {}) /\ CreditSafe(ledger) /\ EntryStep(ledger, ledger)
      /\ GoodSettings /\ WellFormed(ledger) /\ ledger \in Ledger
  BY NothingStored DEF SafeInv, PoolInv, WellFormed
<1>3. Safe(ledger, {})'
  BY <1>1, <1>2 DEF Safe, SoundUser, LiquidationCovered, DebtPriced, BadDebtCovered
<1>4. ASSUME NEW a \in Assets
      PROVE  /\ LoadedReserve(ledger, a).backstop_credit \in Int
             /\ LoadedReserve(ledger, a)'.backstop_credit \in Int
             /\ LoadedReserve(ledger, a).backstop_credit <= LoadedReserve(ledger, a)'.backstop_credit
  <2> DEFINE r == ledger.reserves[a]
             cfg == config.reserves[a]
             rate == config.bstop_rate
  <2>1. /\ r \in ReserveData /\ r.last_time <= now /\ r.last_time \in Nat
        /\ ValidReserveConfig(cfg) /\ rate \in Nat /\ rate < Scalar7
    BY <1>2, LedgerFields DEF WellFormed, GoodSettings, Config, ReserveData
  <2>2. /\ LoadedReserve(ledger, a) = Load(r, cfg, rate, now)
        /\ LoadedReserve(ledger, a)' = Load(r, cfg, rate, now')
    BY <1>1 DEF LoadedReserve
  <2>3. now' \in Nat /\ now <= now' /\ r.last_time <= now'
    BY <1>1, <2>1
  <2> HIDE DEF r, cfg, rate
  <2>4. Load(r, cfg, rate, now).backstop_credit <= Load(r, cfg, rate, now').backstop_credit
    BY <1>1, <2>1, <2>3, CreditGrowsWithTime
  <2>5. Refreshes(r, Load(r, cfg, rate, now), now)
    BY <1>1, <2>1, LoadRefreshes
  <2>6. Refreshes(r, Load(r, cfg, rate, now'), now')
    BY <2>1, <2>3, LoadRefreshes
  <2> QED
    BY <2>2, <2>4, <2>5, <2>6 DEF Refreshes, ReserveData
<1>5. CreditSafe(ledger)'
  <2>1. \A a \in Assets : ledger.reserves[a].backstop_credit >= 0
    BY <1>2 DEF CreditSafe
  <2>2. ASSUME ledger.interest # NoAuction, NEW a \in Assets
        PROVE  ledger.interest.lot[a] <= LoadedReserve(ledger, a)'.backstop_credit
    <3>1. ledger.interest \in Auction
      BY <1>2, <2>2 DEF Ledger
    <3>2. ledger.interest.lot[a] \in Nat
      BY <3>1 DEF Auction, Tokens
    <3>3. ledger.interest.lot[a] <= LoadedReserve(ledger, a).backstop_credit
      BY <1>2, <2>2 DEF CreditSafe, InterestCovered
    <3> QED
      BY <1>4, <3>2, <3>3
  <2> QED
    BY <1>1, <2>1, <2>2 DEF CreditSafe, InterestCovered
<1>6. SafeInv'
  BY <1>1, <1>3, <1>5 DEF SafeInv
<1> QED
  BY <1>1, <1>2, <1>6 DEF EntryShape

LEMMA EnvironmentStepIsSafe ==
    ASSUME SafeInv, PoolInv', EnvironmentStep
    PROVE  SafeInv' /\ EntryShape
<1>1. CASE \E a \in Assets : \E p \in Prices[a] : NewPrice(a, p)
  BY <1>1, SameTermsSafe DEF NewPrice
<1>2. CASE \E level \in QueueLevels : QueueChange(level)
  BY <1>2, SameTermsSafe DEF QueueChange
<1>3. ASSUME NEW a \in Assets, NEW amount \in Gifts, Gift(a, amount)
      PROVE  SafeInv' /\ EntryShape
  BY <1>3, GiftIsSafe
<1>4. ASSUME NEW delta \in Ticks, Tick(delta)
      PROVE  SafeInv' /\ EntryShape
  BY <1>4, TickIsSafe
<1>5. CASE OutsideStep
  BY <1>1, <1>3, <1>4, <1>5 DEF OutsideStep
<1>6. CASE BackstopStep
  BY <1>2, <1>6, BackstopChangeIsSafe DEF BackstopStep
<1> QED
  BY <1>5, <1>6 DEF EnvironmentStep

-----------------------------------------------------------------------------
(* The invariant.                                                          *)

LEMMA InitIsSafe == Init => SafeInv
<1> SUFFICES ASSUME Init
             PROVE  SafeInv
  OBVIOUS
<1>1. PoolInv /\ call = NoCall /\ ledger = InitialLedger
  BY InitEstablishesInv DEF Init
<1>2. /\ \A u \in Users : ledger.liquidation[u] = NoAuction
      /\ \A u \in Accounts : ledger.positions[u] = NoPositions
      /\ ledger.bad_debt = NoAuction /\ ledger.interest = NoAuction
      /\ \A a \in Assets : ledger.reserves[a] = NewReserve(0)
  BY <1>1 DEF InitialLedger
<1>3. \A a \in Assets : NoPositions.liabilities[a] = 0
  BY DEF NoPositions, NoShares
<1>4. \A u \in Users : SoundUser(ledger, u)
  <2>1. ~HasBadDebt(NoPositions)
    BY <1>3 DEF HasBadDebt, HasLiabilities, Held
  <2>2. Users \subseteq Accounts
    BY DEF Accounts
  <2> QED
    BY <1>2, <2>1, <2>2 DEF SoundUser, LiquidationCovered
<1>5. \A u \in Accounts : DebtPriced(ledger, u)
  <2> SUFFICES ASSUME NEW u \in Accounts, NEW a \in Assets
               PROVE  ledger.positions[u].liabilities[a] = 0
    BY DEF DebtPriced
  <2> QED
    BY <1>2, <1>3
<1>6. Safe(ledger, {})
  BY <1>2, <1>4, <1>5 DEF Safe, BadDebtCovered
<1>7. CreditSafe(ledger)
  BY <1>2 DEF CreditSafe, InterestCovered, NewReserve
<1> QED
  BY <1>1, <1>6, <1>7 DEF SafeInv

\* What any step may do to the ledger and to the working copy.
StepShape == EntryShape \/ CallShape \/ CommitShape \/ AbortShape

LEMMA NextIsSafe ==
    ASSUME SafeInv, Next
    PROVE  SafeInv' /\ StepShape
<1>1. PoolInv'
  BY NextKeepsInv DEF SafeInv
<1> QED
  BY <1>1, BeginIsSafe, RequestStepIsSafe, CommitIsSafe, AbortIsSafe,
     AuctionStepIsSafe, MaintenanceStepIsSafe, EnvironmentStepIsSafe DEF Next, StepShape

LEMMA StutterIsSafe ==
    ASSUME SafeInv, UNCHANGED poolVars
    PROVE  SafeInv'
<1>1. PoolInv'
  BY NextKeepsInv DEF SafeInv
<1>2. UNCHANGED <<now, price, config, q4w_pct, ledger, call, writes>>
  BY DEF poolVars, vars
<1>3. ASSUME call = NoCall
      PROVE  SafeInv'
  BY <1>1, <1>2, <1>3, SafeLedgerLater DEF SafeInv
<1>4. ASSUME call # NoCall
      PROVE  SafeInv'
  BY <1>1, <1>2, <1>4, SafeCallLater DEF SafeInv
<1> QED
  BY <1>3, <1>4

\* SafeInv is an invariant of the pool.
THEOREM SafeInvariant == Spec => []SafeInv
<1>1. SafeInv /\ [Next]_poolVars => SafeInv'
  BY NextIsSafe, StutterIsSafe
<1> QED
  BY <1>1, InitIsSafe, PTL DEF Spec

\* An auction can always be settled: what it sells or asks for is still there,
\* of the caller's own auction once the submit is over (require_no_auction of
\* Pool::submit, delete_liquidation, backstop_interest_auction.rs).
THEOREM AuctionsAreCovered == Spec => []AuctionsCovered
<1>1. ASSUME SafeInv, call = NoCall PROVE AuctionsCovered
  BY <1>1 DEF SafeInv, Safe, SoundUser, CreditSafe, AuctionsCovered, View
<1>2. ASSUME SafeInv, call # NoCall PROVE AuctionsCovered
  BY <1>2 DEF SafeInv, Safe, SoundUser, CreditSafe, AuctionsCovered, View
<1>3. SafeInv => AuctionsCovered
  BY <1>1, <1>2
<1> QED
  BY <1>3, SafeInvariant, PTL

\* Between invocations no user has debt and nothing behind it: whoever takes the
\* last collateral of a fill hands the rest of the debt on (check_and_handle_
\* user_bad_debt), and validate_submit stops everybody else.
THEOREM NoBadDebtLeft == Spec => []NoUserBadDebt
<1>1. SafeInv => NoUserBadDebt
  BY DEF SafeInv, Safe, SoundUser, NoUserBadDebt
<1> QED
  BY <1>1, SafeInvariant, PTL

\* Nobody owes an asset whose l_factor is zero, so no health check divides by
\* zero for the sake of a position somebody holds (execute_set_reserve and
\* require_valid_reserve_metadata against validate_submit).
THEOREM DebtIsPriceable == Spec => []DebtPriceable
<1>1. SafeInv => DebtPriceable
  BY DEF SafeInv, Safe, DebtPriced, DebtPriceable
<1> QED
  BY <1>1, SafeInvariant, PTL

-----------------------------------------------------------------------------
(* The action properties, one after the other from the shapes of a step.   *)

LEMMA StepFacts ==
    ASSUME SafeInv, Next
    PROVE  StepShape /\ GoodSettings /\ ledger \in Ledger /\ ledger' \in Ledger
<1>1. SafeInv' /\ StepShape
  BY NextIsSafe
<1>2. ledger' \in Ledger
  BY <1>1 DEF SafeInv, PoolInv, TypeOK
<1>3. GoodSettings /\ ledger \in Ledger
  BY DEF SafeInv, PoolInv, TypeOK
<1> QED
  BY <1>1, <1>2, <1>3

LEMMA LedgerNumbers ==
    ASSUME NEW l \in Ledger
    PROVE  /\ l.backstop_tokens \in Nat
           /\ \A a \in Assets : /\ l.reserves[a].d_rate \in Nat /\ l.reserves[a].b_rate \in Nat
                                /\ l.reserves[a].d_supply \in Nat /\ l.reserves[a].b_supply \in Nat
           /\ \A u \in Users \cup {Backstop}, a \in Assets :
                /\ l.positions[u].collateral[a] \in Nat
                /\ l.positions[u].liabilities[a] \in Nat
<1>1. ASSUME NEW a \in Assets
      PROVE  /\ l.reserves[a].d_rate \in Nat /\ l.reserves[a].b_rate \in Nat
             /\ l.reserves[a].d_supply \in Nat /\ l.reserves[a].b_supply \in Nat
  BY LedgerFields DEF ReserveData
<1>2. ASSUME NEW u \in Users \cup {Backstop}, NEW a \in Assets
      PROVE  l.positions[u].collateral[a] \in Nat /\ l.positions[u].liabilities[a] \in Nat
  <2>1. u \in Accounts
    BY DEF Accounts
  <2>2. l.positions[u] \in Positions
    BY <2>1, LedgerFields
  <2> QED
    BY <2>2, PositionNat
<1> QED
  BY <1>1, <1>2, LedgerFields

\* Interest only adds up (Reserve::accrue never lowers a rate), and depositors
\* lose only what default_liabilities forgives a drained backstop.
THEOREM RatesFallOnlyInDefault == Spec => RatesFallOnlyByDefault
<1> DEFINE Held1 ==
      ~Aborted =>
         \A a \in Assets :
            /\ View'.reserves[a].d_rate >= View.reserves[a].d_rate
            /\ View'.reserves[a].b_rate < View.reserves[a].b_rate =>
                 /\ View'.backstop_tokens < DefaultTokens
                 /\ View'.positions[Backstop].liabilities = NoShares
                 /\ View'.reserves[a].d_supply < View.reserves[a].d_supply
<1>1. ASSUME SafeInv, Next PROVE Held1
  <2> SUFFICES ASSUME ~Aborted
               PROVE  RatesKept(View, View')
    BY DEF RatesKept
  <2>1. StepShape /\ ledger \in Ledger
    BY <1>1, StepFacts
  <2>2. CASE EntryShape
    BY <2>2 DEF EntryShape, EntryStep, View
  <2>3. CASE CommitShape
    BY <2>3 DEF CommitShape, View
  <2>4. CASE CallShape
    <3>1. CASE call' # NoCall
      BY <2>4, <3>1 DEF CallShape, View
    <3>2. CASE call' = NoCall
      <4>1. View = ledger /\ View' = ledger
        BY <2>4, <3>2 DEF CallShape, Aborted, View
      <4>2. RatesKept(ledger, ledger)
        BY <2>1, LedgerNumbers DEF RatesKept
      <4> QED
        BY <4>1, <4>2
    <3> QED
      BY <3>1, <3>2
  <2>5. ~AbortShape
    BY DEF AbortShape, Aborted
  <2> QED
    BY <2>1, <2>2, <2>3, <2>4, <2>5 DEF StepShape
<1>2. SafeInv /\ [Next]_poolVars => [Held1]_poolVars
  BY <1>1
<1> QED
  BY <1>2, SafeInvariant, PTL DEF Spec, RatesFallOnlyByDefault

\* The backstop takes a debt over only from a user who has nothing left, and then
\* all of it (bad_debt.rs), within an invocation and at its end.
THEOREM DebtPassesWhole == Spec => DebtIsPassedOnWhole
<1> DEFINE Held1 ==
      (/\ ~Aborted
       /\ \E a \in Assets : View'.positions[Backstop].liabilities[a]
                              > View.positions[Backstop].liabilities[a])
         => \E u \in Users :
              /\ HasLiabilities(View.positions[u])
              /\ ~HasLiabilities(View'.positions[u])
              /\ ~HasCollateral(View'.positions[u])
<1>1. ASSUME SafeInv, Next PROVE Held1
  <2> SUFFICES ASSUME ~Aborted
               PROVE  PassedOn(View, View')
    BY DEF PassedOn
  <2>1. StepShape /\ ledger \in Ledger
    BY <1>1, StepFacts
  <2>2. CASE EntryShape
    BY <2>2 DEF EntryShape, EntryStep, View
  <2>3. CASE CommitShape
    BY <2>3 DEF CommitShape, View
  <2>4. CASE CallShape
    <3>1. CASE call' # NoCall
      BY <2>4, <3>1 DEF CallShape, View
    <3>2. CASE call' = NoCall
      <4>1. View = ledger /\ View' = ledger
        BY <2>4, <3>2 DEF CallShape, Aborted, View
      <4>2. PassedOn(ledger, ledger)
        BY <2>1, LedgerNumbers DEF PassedOn
      <4> QED
        BY <4>1, <4>2
    <3> QED
      BY <3>1, <3>2
  <2>5. ~AbortShape
    BY DEF AbortShape, Aborted
  <2> QED
    BY <2>1, <2>2, <2>3, <2>4, <2>5 DEF StepShape
<1>2. SafeInv /\ [Next]_poolVars => [Held1]_poolVars
  BY <1>1
<1> QED
  BY <1>2, SafeInvariant, PTL DEF Spec, DebtIsPassedOnWhole

\* While the backstop owes anything its deposit is not withdrawn, it only pays
\* bidders of the bad debt auction (execute_withdraw, fill_bad_debt_auction).
THEOREM BackstopStaysForBadDebt == Spec => BackstopHeldForBadDebt
<1> DEFINE Held1 ==
      (HasLiabilities(ledger.positions[Backstop])
          /\ ledger'.backstop_tokens < ledger.backstop_tokens)
         => call # NoCall /\ ledger.bad_debt # NoAuction
<1>1. ASSUME SafeInv, Next PROVE Held1
  <2> SUFFICES ASSUME HasLiabilities(ledger.positions[Backstop]),
                      ledger'.backstop_tokens < ledger.backstop_tokens
               PROVE  call # NoCall /\ ledger.bad_debt # NoAuction
    OBVIOUS
  <2>1. /\ StepShape
        /\ ledger.backstop_tokens \in Nat /\ ledger'.backstop_tokens \in Nat
    BY <1>1, StepFacts, LedgerNumbers
  <2>2. ~EntryShape
    BY DEF EntryShape, EntryStep
  <2>3. ledger' # ledger
    BY <2>1
  <2>4. CommitShape
    BY <2>1, <2>2, <2>3 DEF StepShape, CallShape, AbortShape
  <2>5. ledger.bad_debt = NoAuction => ledger'.backstop_tokens >= ledger.backstop_tokens
    BY <2>4 DEF CommitShape, Since
  <2> QED
    BY <2>1, <2>4, <2>5 DEF CommitShape
<1>2. SafeInv /\ [Next]_poolVars => [Held1]_poolVars
  BY <1>1
<1> QED
  BY <1>2, SafeInvariant, PTL DEF Spec, BackstopHeldForBadDebt

\* A pool on ice issues no new debt and a frozen one takes no deposit, summed up
\* over a whole submit, and neither lets a user out of a liquidation
\* (require_action_allowed in every place that mints).
THEOREM StatusIsRespected == Spec => StatusRestricts
<1> DEFINE Held1 ==
      /\ config.status > 1 =>
            /\ \A a \in Assets : ledger'.reserves[a].d_supply <= ledger.reserves[a].d_supply
            /\ \A u \in Users :
                 (/\ ledger.liquidation[u] # NoAuction /\ ~IsStale(ledger.liquidation[u])
                  /\ ledger'.liquidation[u] = NoAuction)
                 => call # NoCall /\ call.from # u
      /\ config.status > 3 =>
            \A a \in Assets : ledger'.reserves[a].b_supply <= ledger.reserves[a].b_supply
<1>1. ASSUME SafeInv, Next PROVE Held1
  <2>1. /\ StepShape /\ ledger \in Ledger
        /\ \A a \in Assets : /\ ledger.reserves[a].d_supply \in Nat
                             /\ ledger.reserves[a].b_supply \in Nat
    BY <1>1, StepFacts, LedgerNumbers
  <2>2. CASE EntryShape
    BY <2>1, <2>2 DEF EntryShape, EntryStep
  <2>3. CASE ledger' = ledger
    BY <2>1, <2>3
  <2>4. CASE CommitShape
    <3>1. Since(ledger, ledger', call.from, call.check_health) /\ call # NoCall
      BY <2>4 DEF CommitShape
    <3>2. /\ config.status > 1 =>
               \A a \in Assets : ledger'.reserves[a].d_supply <= ledger.reserves[a].d_supply
          /\ config.status > 3 =>
               \A a \in Assets : ledger'.reserves[a].b_supply <= ledger.reserves[a].b_supply
      BY <3>1 DEF Since
    <3>3. config.status \in Nat
      BY <1>1, StepFacts DEF GoodSettings, Config, Status
    <3>4. ASSUME config.status > 1, ledger'.liquidation[call.from] # ledger.liquidation[call.from]
          PROVE  FALSE
      BY <3>1, <3>3, <3>4 DEF Since
    <3> QED
      BY <3>1, <3>2, <3>4
  <2> QED
    BY <2>1, <2>2, <2>3, <2>4 DEF StepShape, CallShape, AbortShape
<1>2. SafeInv /\ [Next]_poolVars => [Held1]_poolVars
  BY <1>1
<1> QED
  BY <1>2, SafeInvariant, PTL DEF Spec, StatusRestricts

\* Nothing but a fill touches the positions of a user in liquidation
\* (require_no_auction, and the fill's from_user).
THEOREM LiquidatedAreFrozen == Spec => FrozenWhileAuctioned
<1> DEFINE Held1 ==
      \A u \in Users :
         (ledger.liquidation[u] # NoAuction /\ ledger'.liquidation[u] # NoAuction) =>
            LET p == ledger.positions[u]
                q == ledger'.positions[u]
            IN /\ q.supply = p.supply
               /\ \A a \in Assets : q.collateral[a] <= p.collateral[a]
                                    /\ q.liabilities[a] <= p.liabilities[a]
               /\ ledger'.liquidation[u] = ledger.liquidation[u] => q = p
<1>1. ASSUME SafeInv, Next PROVE Held1
  <2> SUFFICES ASSUME NEW u \in Users,
                      ledger.liquidation[u] # NoAuction, ledger'.liquidation[u] # NoAuction
               PROVE  /\ Shrunk(ledger.positions[u], ledger'.positions[u])
                      /\ ledger'.liquidation[u] = ledger.liquidation[u]
                           => ledger'.positions[u] = ledger.positions[u]
    BY DEF Shrunk
  <2>1. /\ StepShape
        /\ \A a \in Assets : /\ ledger.positions[u].collateral[a] \in Nat
                             /\ ledger.positions[u].liabilities[a] \in Nat
    BY <1>1, StepFacts, LedgerNumbers
  <2>2. CASE ledger'.positions[u] = ledger.positions[u]
    BY <2>1, <2>2 DEF Shrunk
  <2>3. CASE CommitShape
    <3>1. /\ Since(ledger, ledger', call.from, call.check_health)
          /\ ledger'.liquidation[call.from] = NoAuction
      BY <2>3 DEF CommitShape
    <3>2. OtherSince(ledger, ledger', u)
      BY <3>1 DEF Since
    <3> QED
      BY <3>2 DEF OtherSince
  <2>4. EntryShape => ledger'.positions[u] = ledger.positions[u]
    BY DEF EntryShape, EntryStep
  <2> QED
    BY <2>1, <2>2, <2>3, <2>4 DEF StepShape, CallShape, AbortShape
<1>2. SafeInv /\ [Next]_poolVars => [Held1]_poolVars
  BY <1>1
<1> QED
  BY <1>2, SafeInvariant, PTL DEF Spec, FrozenWhileAuctioned

\* A liquidation is over when it is filled, stale, or its user healthy
\* (delete_liquidation sets check_health, del_auction asks for a stale one).
THEOREM LiquidationsEndRightly == Spec => LiquidationEnds
<1> DEFINE Held1 ==
      \A u \in Users :
         (/\ ledger.liquidation[u] # NoAuction /\ ledger'.liquidation[u] = NoAuction
          /\ ~IsStale(ledger.liquidation[u]))
         => \/ Healthy(ledger', ledger'.positions[u])
            \/ call # NoCall /\ call.from # u
<1>1. ASSUME SafeInv, Next PROVE Held1
  <2> SUFFICES ASSUME NEW u \in Users, ledger.liquidation[u] # NoAuction,
                      ledger'.liquidation[u] = NoAuction, ~IsStale(ledger.liquidation[u])
               PROVE  \/ Healthy(ledger', ledger'.positions[u])
                      \/ call # NoCall /\ call.from # u
    OBVIOUS
  <2>1. StepShape
    BY <1>1, StepFacts
  <2>2. ~EntryShape
    BY DEF EntryShape, EntryStep
  <2>3. CommitShape
    BY <2>1, <2>2 DEF StepShape, CallShape, AbortShape
  <2>4. call.from = u => call.check_health
    BY <2>3 DEF CommitShape, Since
  <2> QED
    BY <2>3, <2>4 DEF CommitShape
<1>2. SafeInv /\ [Next]_poolVars => [Held1]_poolVars
  BY <1>1
<1> QED
  BY <1>2, SafeInvariant, PTL DEF Spec, LiquidationEnds

\* Whoever ends a submit with more debt or less collateral is healthy then, at
\* prices the oracle stands by (validate_submit, from_positions); others lose
\* positions only to a fill of their liquidation.
THEOREM WorseOnlyWhenHealthy == Spec => WorseOnlyIfHealthy
<1> DEFINE Held1 ==
      \A u \in Users :
         LET q == ledger'.positions[u]
         IN Worse(ledger.positions[u], q) =>
            \/ Healthy(ledger', q) /\ (HasLiabilities(q) => AllPriced(q))
            \/ ledger.liquidation[u] # NoAuction /\ call # NoCall /\ call.from # u
<1>1. ASSUME SafeInv, Next PROVE Held1
  <2> SUFFICES ASSUME NEW u \in Users, NEW p, p = ledger.positions[u],
                      NEW q, q = ledger'.positions[u], Worse(p, q)
               PROVE  \/ Healthy(ledger', q) /\ (HasLiabilities(q) => AllPriced(q))
                      \/ ledger.liquidation[u] # NoAuction /\ call # NoCall /\ call.from # u
    OBVIOUS
  <2>1. StepShape /\ GoodSettings /\ ledger \in Ledger /\ ledger' \in Ledger
    BY <1>1, StepFacts
  <2>2. u \in Accounts
    BY DEF Accounts
  <2>3. p \in Positions /\ q \in Positions
    BY <2>1, <2>2, LedgerFields
  <2>4. ~NotWorse(p, q) /\ q # p
    <3>1. \A a \in Assets : /\ p.liabilities[a] \in Nat /\ q.liabilities[a] \in Nat
                            /\ p.collateral[a] \in Nat /\ q.collateral[a] \in Nat
      BY <2>3, PositionNat
    <3> QED
      BY <3>1 DEF Worse, NotWorse
  <2>5. ~EntryShape
    BY <2>4 DEF EntryShape, EntryStep
  <2>6. CommitShape
    BY <2>1, <2>4, <2>5 DEF StepShape, CallShape, AbortShape
  <2>7. CASE call.from = u
    <3>1. call.check_health
      BY <2>4, <2>6, <2>7 DEF CommitShape, Since
    <3>2. Healthy(ledger', q)
      BY <2>6, <2>7, <3>1 DEF CommitShape
    <3> QED
      BY <2>1, <2>3, <3>2, HealthyIsPriced
  <2>8. CASE call.from # u
    <3>1. OtherSince(ledger, ledger', u)
      BY <2>6, <2>8 DEF CommitShape, Since
    <3>2. ledger.liquidation[u] # NoAuction
      BY <2>4, <3>1 DEF OtherSince
    <3> QED
      BY <2>6, <2>8, <3>2 DEF CommitShape
  <2> QED
    BY <2>7, <2>8
<1>2. SafeInv /\ [Next]_poolVars => [Held1]_poolVars
  BY <1>1
<1> QED
  BY <1>2, SafeInvariant, PTL DEF Spec, WorseOnlyIfHealthy
=============================================================================
