--------------------------- MODULE InsuranceProofs ---------------------------
(***************************************************************************)
(* A pool and its backstop do what each expects of the other: the lot of   *)
(* an auction of bad debt stays in the deposit, and debt handed to the     *)
(* backstop can always be auctioned or forgiven.                           *)
(*                                                                         *)
(* The pool alone keeps half of it (Insurable): while there is debt to bid *)
(* on, the lot is within the deposit, because a fill pays out no more of   *)
(* the lot than it takes off it and depositors are locked in; and what is  *)
(* owed was supplied, or the debt could never be written off.  The other   *)
(* half is that the deposit the pool counts with is the one the backstop   *)
(* keeps, each one's steps being steps of the other's environment.         *)
(***************************************************************************)
EXTENDS Insurance, SolvencyProofs, Sequences

-----------------------------------------------------------------------------
(* What the pool alone keeps.                                              *)

BidOn(l) == \E a \in Assets : l.bad_debt.bid[a] > 0

LotBacked(l) == l.bad_debt # NoAuction /\ BidOn(l) => l.bad_debt.lot[BackstopToken] <= l.backstop_tokens

DebtSupplied(l) == \A a \in Assets : l.reserves[a].d_supply > 0 => l.reserves[a].b_supply > 0

Insurable(l) == LotBacked(l) /\ DebtSupplied(l)

InsurableInv ==
    /\ Insurable(ledger)
    /\ call # NoCall => Insurable(call.ledger)
    /\ config.max_positions >= 2

\* A reserve that is not lent out entirely has suppliers.
LEMMA BelowFullIsSupplied ==
    ASSUME NEW r \in ReserveData, BelowFull(r), r.d_rate > 0, r.d_supply > 0
    PROVE  r.b_supply > 0
<1>1. /\ r.b_supply \in Nat /\ r.b_rate \in Nat /\ r.d_supply \in Nat /\ r.d_rate \in Nat
      /\ TotalSupply(r) \in Nat /\ TotalLiabilities(r) \in Nat
  BY TotalsNat DEF ReserveData
<1>2. TotalLiabilities(r) > 0
  BY <1>1, PositiveCeil, ScalarsPositive DEF TotalLiabilities, ToAssetFromD
<1>3. ASSUME r.b_supply = 0 PROVE FALSE
  <2>1. 0 * r.b_rate = 0
    BY <1>1, SMT
  <2>2. FloorDiv(0, Scalar12) = 0
    BY ScalarsPositive, SMT DEF FloorDiv
  <2>3. TotalSupply(r) = 0
    BY <1>3, <2>1, <2>2 DEF TotalSupply, ToAssetFromB, MulFloor
  <2>4. Utilization(r) = Scalar7
    BY <1>1, <1>2, <2>3 DEF Utilization, UtilizationOf
  <2> QED
    BY <2>4, ScalarsPositive DEF BelowFull
<1> QED
  BY <1>1, <1>3

\* The totals of one reserve move with a position, and nothing else does.
Moves(l, u, a, n, v, s) ==
    \/ /\ v = AddSupply(l, u, a, n) \/ v = AddCollateral(l, u, a, n)
       /\ s = [l.reserves[a] EXCEPT !.b_supply = @ + n]
    \/ /\ v = RemoveSupply(l, u, a, n) \/ v = RemoveCollateral(l, u, a, n)
       /\ s = [l.reserves[a] EXCEPT !.b_supply = @ - n]
    \/ /\ v = AddLiabilities(l, u, a, n)
       /\ s = [l.reserves[a] EXCEPT !.d_supply = @ + n]
    \/ /\ v = RemoveLiabilities(l, u, a, n)
       /\ s = [l.reserves[a] EXCEPT !.d_supply = @ - n]

OnlyReserve(l, v, a, s) ==
    /\ v.reserves = [l.reserves EXCEPT ![a] = s]
    /\ v.bad_debt = l.bad_debt /\ v.backstop_tokens = l.backstop_tokens

LEMMA OneReserve ==
    ASSUME NEW l \in Ledger, NEW u, NEW a, NEW n, NEW v, NEW s, Moves(l, u, a, n, v, s)
    PROVE  OnlyReserve(l, v, a, s)
<1>0. ASSUME NEW ps, NEW rs, v = [l EXCEPT !.positions = ps, !.reserves = rs]
      PROVE  v.reserves = rs /\ v.bad_debt = l.bad_debt /\ v.backstop_tokens = l.backstop_tokens
  BY <1>0 DEF Ledger
<1> DEFINE P(ps) == v = [l EXCEPT !.positions = ps, !.reserves = [l.reserves EXCEPT ![a] = s]]
<1>1. CASE v = AddSupply(l, u, a, n) /\ s = [l.reserves[a] EXCEPT !.b_supply = @ + n]
  <2>1. P([l.positions EXCEPT ![u].supply[a] = @ + n])
    BY <1>1 DEF AddSupply
  <2> QED
    BY <1>0, <2>1 DEF OnlyReserve
<1>2. CASE v = AddCollateral(l, u, a, n) /\ s = [l.reserves[a] EXCEPT !.b_supply = @ + n]
  <2>1. P([l.positions EXCEPT ![u].collateral[a] = @ + n])
    BY <1>2 DEF AddCollateral
  <2> QED
    BY <1>0, <2>1 DEF OnlyReserve
<1>3. CASE v = RemoveSupply(l, u, a, n) /\ s = [l.reserves[a] EXCEPT !.b_supply = @ - n]
  <2>1. P([l.positions EXCEPT ![u].supply[a] = @ - n])
    BY <1>3 DEF RemoveSupply
  <2> QED
    BY <1>0, <2>1 DEF OnlyReserve
<1>4. CASE v = RemoveCollateral(l, u, a, n) /\ s = [l.reserves[a] EXCEPT !.b_supply = @ - n]
  <2>1. P([l.positions EXCEPT ![u].collateral[a] = @ - n])
    BY <1>4 DEF RemoveCollateral
  <2> QED
    BY <1>0, <2>1 DEF OnlyReserve
<1>5. CASE v = AddLiabilities(l, u, a, n) /\ s = [l.reserves[a] EXCEPT !.d_supply = @ + n]
  <2>1. P([l.positions EXCEPT ![u].liabilities[a] = @ + n])
    BY <1>5 DEF AddLiabilities
  <2> QED
    BY <1>0, <2>1 DEF OnlyReserve
<1>6. CASE v = RemoveLiabilities(l, u, a, n) /\ s = [l.reserves[a] EXCEPT !.d_supply = @ - n]
  <2>1. P([l.positions EXCEPT ![u].liabilities[a] = @ - n])
    BY <1>6 DEF RemoveLiabilities
  <2> QED
    BY <1>0, <2>1 DEF OnlyReserve
<1> QED
  BY <1>1, <1>2, <1>3, <1>4, <1>5, <1>6 DEF Moves, OnlyReserve

LEMMA SupplyKept ==
    ASSUME GoodSettings, NEW w, WellFormed(w), NEW S, NEW a \in Assets
    PROVE  /\ LoadReserves(w, S).reserves[a].b_supply = w.reserves[a].b_supply
           /\ LoadReserves(w, S).reserves[a].d_supply = w.reserves[a].d_supply
  BY LoadReservesKeeps DEF Kept

LEMMA ReserveInsurable ==
    ASSUME GoodSettings, NEW w, WellFormed(w), Insurable(w), NEW a \in Assets,
           NEW l, l = LoadReserves(w, {a}),
           NEW s, s.d_supply > 0 => s.b_supply > 0,
           NEW v, OnlyReserve(l, v, a, s)
    PROVE  Insurable(v)
<1>1. l.bad_debt = w.bad_debt /\ l.backstop_tokens = w.backstop_tokens
  BY LoadReservesFields DEF WellFormed
<1>2. LotBacked(v)
  BY <1>1 DEF Insurable, LotBacked, BidOn, OnlyReserve
<1>3. l.reserves \in [Assets -> ReserveData]
  BY LoadReservesWellFormed, LedgerFields DEF WellFormed
<1>4. ASSUME NEW c \in Assets, v.reserves[c].d_supply > 0
      PROVE  v.reserves[c].b_supply > 0
  <2>1. CASE c = a
    BY <1>3, <1>4, <2>1 DEF OnlyReserve
  <2>2. CASE c # a
    <3>1. /\ v.reserves[c].b_supply = w.reserves[c].b_supply
          /\ v.reserves[c].d_supply = w.reserves[c].d_supply
      BY <1>3, <2>2, SupplyKept DEF OnlyReserve
    <3> QED
      BY <1>4, <3>1 DEF Insurable, DebtSupplied
  <2> QED
    BY <2>1, <2>2
<1> QED
  BY <1>2, <1>4 DEF Insurable, DebtSupplied

\* What requests on a reserve make of a ledger.
LEMMA MoreSupplyInsurable ==
    ASSUME GoodSettings, NEW w, WellFormed(w), Insurable(w), NEW a \in Assets,
           NEW l, l = LoadReserves(w, {a}), NEW u, NEW n \in Nat,
           NEW v, v = AddSupply(l, u, a, n) \/ v = AddCollateral(l, u, a, n)
    PROVE  Insurable(v)
<1> DEFINE s == [l.reserves[a] EXCEPT !.b_supply = @ + n]
<1>1. l \in Ledger /\ l.reserves[a] \in ReserveData
  BY WorkingReserve
<1>2. /\ l.reserves[a].b_supply = w.reserves[a].b_supply
      /\ l.reserves[a].d_supply = w.reserves[a].d_supply
  BY SupplyKept
<1>3. s.d_supply > 0 => s.b_supply > 0
  <2>1. s.d_supply = l.reserves[a].d_supply /\ s.b_supply = l.reserves[a].b_supply + n
        /\ l.reserves[a].b_supply \in Nat
    BY <1>1 DEF ReserveData
  <2> QED
    BY <1>2, <2>1 DEF Insurable, DebtSupplied
<1>4. Moves(l, u, a, n, v, s)
  BY DEF Moves
<1> HIDE DEF s
<1>5. OnlyReserve(l, v, a, s)
  BY <1>1, <1>4, OneReserve
<1> QED
  BY <1>3, <1>5, ReserveInsurable

LEMMA LessDebtInsurable ==
    ASSUME GoodSettings, NEW w, WellFormed(w), Insurable(w), NEW a \in Assets,
           NEW l, l = LoadReserves(w, {a}), NEW u, NEW n \in Nat,
           NEW v, v = RemoveLiabilities(l, u, a, n)
    PROVE  Insurable(v)
<1> DEFINE s == [l.reserves[a] EXCEPT !.d_supply = @ - n]
<1>1. l \in Ledger /\ l.reserves[a] \in ReserveData
  BY WorkingReserve
<1>2. /\ l.reserves[a].b_supply = w.reserves[a].b_supply
      /\ l.reserves[a].d_supply = w.reserves[a].d_supply
  BY SupplyKept
<1>3. s.d_supply > 0 => s.b_supply > 0
  <2>1. s.d_supply = l.reserves[a].d_supply - n /\ s.b_supply = l.reserves[a].b_supply
        /\ l.reserves[a].d_supply \in Nat
    BY <1>1 DEF ReserveData
  <2> QED
    BY <1>2, <2>1 DEF Insurable, DebtSupplied
<1>4. Moves(l, u, a, n, v, s)
  BY DEF Moves
<1> HIDE DEF s
<1>5. OnlyReserve(l, v, a, s)
  BY <1>1, <1>4, OneReserve
<1> QED
  BY <1>3, <1>5, ReserveInsurable

\* require_utilization_below_100 is what keeps suppliers behind the debt.
LEMMA BelowFullInsurable ==
    ASSUME GoodSettings, NEW w, WellFormed(w), Insurable(w), NEW a \in Assets,
           NEW l, l = LoadReserves(w, {a}), NEW u, NEW n \in Nat, NEW v \in Ledger,
           \/ v = AddLiabilities(l, u, a, n)
           \/ v = RemoveSupply(l, u, a, n) \/ v = RemoveCollateral(l, u, a, n),
           BelowFull(v.reserves[a])
    PROVE  Insurable(v)
<1> DEFINE r == l.reserves[a]
           s == IF v = AddLiabilities(l, u, a, n) THEN [r EXCEPT !.d_supply = @ + n]
                ELSE [r EXCEPT !.b_supply = @ - n]
<1>1. l \in Ledger /\ r \in ReserveData /\ r.d_rate > 0
  BY WorkingReserve
<1>2. l.reserves \in [Assets -> ReserveData]
  BY <1>1, LedgerFields
<1>3. s.d_rate = r.d_rate
  BY <1>1 DEF ReserveData
<1>4. Moves(l, u, a, n, v, s)
  BY DEF Moves
<1> HIDE DEF s
<1>5. OnlyReserve(l, v, a, s)
  BY <1>1, <1>4, OneReserve
<1>6. s = v.reserves[a] /\ s \in ReserveData
  <2>1. v.reserves[a] = s
    BY <1>2, <1>5 DEF OnlyReserve
  <2> QED
    BY <2>1, LedgerFields
<1>7. s.d_supply > 0 => s.b_supply > 0
  BY <1>1, <1>3, <1>6, BelowFullIsSupplied
<1> QED
  BY <1>5, <1>7, ReserveInsurable

\* Fills pass debt on or pay it back.
LEMMA FewerInsurable ==
    ASSUME NEW w \in Ledger, NEW v \in Ledger, Insurable(w),
           \A a \in Assets : /\ v.reserves[a].d_supply <= w.reserves[a].d_supply
                             /\ v.reserves[a].b_supply = w.reserves[a].b_supply
    PROVE  DebtSupplied(v)
<1> SUFFICES ASSUME NEW a \in Assets, v.reserves[a].d_supply > 0
             PROVE  v.reserves[a].b_supply > 0
  BY DEF DebtSupplied
<1>1. v.reserves[a] \in ReserveData /\ w.reserves[a] \in ReserveData
  BY LedgerFields
<1>2. w.reserves[a].d_supply > 0
  BY <1>1 DEF ReserveData
<1> QED
  BY <1>2 DEF Insurable, DebtSupplied

LEMMA SameLotInsurable ==
    ASSUME NEW w \in Ledger, NEW v \in Ledger, Insurable(w), v.bad_debt = w.bad_debt,
           v.backstop_tokens >= w.backstop_tokens,
           \A a \in Assets : /\ v.reserves[a].d_supply <= w.reserves[a].d_supply
                             /\ v.reserves[a].b_supply = w.reserves[a].b_supply
    PROVE  Insurable(v)
<1>1. LotBacked(v)
  <2> SUFFICES ASSUME v.bad_debt # NoAuction, BidOn(v)
               PROVE  v.bad_debt.lot[BackstopToken] <= v.backstop_tokens
    BY DEF LotBacked
  <2>1. w.bad_debt.lot[BackstopToken] <= w.backstop_tokens
    BY DEF Insurable, LotBacked, BidOn
  <2>2. /\ v.bad_debt.lot[BackstopToken] \in Nat
        /\ v.backstop_tokens \in Nat /\ w.backstop_tokens \in Nat
    BY LedgerFields DEF Auction, Tokens
  <2> QED
    BY <2>1, <2>2
<1> QED
  BY <1>1, FewerInsurable DEF Insurable

LEMMA FillUserLiquidationInsurable ==
    ASSUME GoodSettings, NEW w, WellFormed(w), Insurable(w), NEW u \in Users, NEW filler \in Users,
           NEW pct, CanFillUserLiquidation(w, u, filler, pct),
           NEW v, v = FillUserLiquidation(w, u, filler, pct)
    PROVE  Insurable(v)
<1> DEFINE au == w.liquidation[u]
           f == ToFill(au, pct)
           rest == Remaining(au, pct)
           left == [a \in Assets |-> w.positions[u].liabilities[a] - f.bid[a]]
           p == w.positions[u]
           q == v.positions[u]
<1>1. /\ v \in Ledger /\ Accrued(w, v)
      /\ v.liquidation = [w.liquidation EXCEPT ![u] = rest]
      /\ v.bad_debt = w.bad_debt /\ v.interest = w.interest
      /\ v.backstop_tokens = w.backstop_tokens
      /\ LessDebt(w, v) /\ LessDeposits(w, v)
      /\ \A a \in Assets : v.reserves[a].b_supply = w.reserves[a].b_supply
      /\ \A x \in Accounts \ {u, filler, Backstop} : v.positions[x] = w.positions[x]
      /\ q.supply = p.supply
      /\ \A a \in Assets : q.collateral[a] = p.collateral[a] - f.lot[a]
      /\ Settles(w, v, u, left, rest)
  BY FillUserLiquidationIs
<1>2. w \in Ledger /\ w.backstop_tokens \in Nat
  BY LedgerFields DEF WellFormed
<1> QED
  BY <1>1, <1>2, SameLotInsurable DEF LessDebt

LEMMA FillInterestInsurable ==
    ASSUME GoodSettings, NEW w, WellFormed(w), Insurable(w), NEW filler,
           NEW pct, CanFillInterest(w, filler, pct),
           NEW v, v = FillInterest(w, pct)
    PROVE  Insurable(v)
<1>1. /\ v \in Ledger /\ v.bad_debt = w.bad_debt
      /\ v.backstop_tokens >= w.backstop_tokens
      /\ \A a \in Assets : /\ v.reserves[a].d_supply = w.reserves[a].d_supply
                           /\ v.reserves[a].b_supply = w.reserves[a].b_supply
  BY FillInterestIs
<1>2. w \in Ledger /\ \A a \in Assets : w.reserves[a] \in ReserveData
  BY LedgerFields DEF WellFormed
<1> QED
  BY <1>1, <1>2, SameLotInsurable DEF ReserveData

\* A fill takes off the lot at least what it pays out of it.
LEMMA FillBadDebtInsurable ==
    ASSUME GoodSettings, NEW w, WellFormed(w), Insurable(w), NEW filler \in Users,
           NEW pct, CanFillBadDebt(w, filler, pct),
           NEW v, v = FillBadDebt(w, filler, pct)
    PROVE  Insurable(v)
<1> DEFINE au == w.bad_debt
           rest == Remaining(au, pct)
           t == BackstopToken
<1>1. w \in Ledger /\ now \in Nat /\ w.backstop_tokens \in Nat
  BY LedgerFields DEF WellFormed, GoodSettings
<1>2. /\ v \in Ledger /\ v.bad_debt = rest /\ LessDebt(w, v)
      /\ v.backstop_tokens = w.backstop_tokens - ToFill(au, pct).lot[t]
      /\ \A a \in Assets : v.reserves[a].b_supply = w.reserves[a].b_supply
  BY FillBadDebtIs
<1>3. CanScale(au, pct) /\ au \in Auction \cup {NoAuction}
  BY <1>1, LedgerFields DEF CanFillBadDebt
<1>4. au \in Auction /\ pct \in 1..100 /\ au # NoAuction
  BY <1>1, <1>3, ToFillType DEF CanScale
<1>5. t \in Tokens /\ Assets \subseteq Tokens
  BY DEF Tokens
<1>6. LotBacked(v)
  <2> SUFFICES ASSUME rest # NoAuction, NEW a \in Assets, rest.bid[a] > 0
               PROVE  rest.lot[t] <= v.backstop_tokens
    BY <1>2 DEF LotBacked, BidOn
  <2>0. au.bid[a] > 0 => au.lot[t] <= w.backstop_tokens
    BY <1>4 DEF Insurable, LotBacked, BidOn
  <2> HIDE DEF au, t, rest
  <2>1. /\ rest.lot[t] = au.lot[t] - FilledBase(au, pct).lot[t]
        /\ rest.bid[a] = au.bid[a] - FilledBase(au, pct).bid[a]
    BY <1>4, <1>5, RemainingIs DEF rest
  <2>2. /\ ToFill(au, pct).lot[t] <= FilledBase(au, pct).lot[t]
        /\ ToFill(au, pct).lot[t] \in Nat /\ FilledBase(au, pct).lot[t] \in Nat
        /\ FilledBase(au, pct).bid[a] \in Nat /\ au.bid[a] \in Nat /\ au.lot[t] \in Nat
    BY <1>1, <1>3, <1>5, FillWithinBase
  <2>3. au.bid[a] > 0
    BY <2>1, <2>2
  <2> QED
    BY <1>1, <1>2, <2>0, <2>1, <2>2, <2>3
<1> QED
  BY <1>1, <1>2, <1>6, FewerInsurable DEF Insurable, LessDebt

LEMMA ProceedsTo ==
    ASSUME call \in Call, NEW w,
           \/ \E a, in, out : Proceed(w, a, in, out)
           \/ \E a, out, maxUtil : ProceedChecked(w, a, out, maxUtil)
           \/ \E check : ProceedWith(w, check)
    PROVE  call'.ledger = w /\ UNCHANGED <<ledger, config, q4w_pct>>
<1>1. ASSUME NEW a, NEW in, NEW out, Proceed(w, a, in, out)
      PROVE  call'.ledger = w /\ UNCHANGED <<ledger, config, q4w_pct>>
  <2> DEFINE n == call.requests + 1
             x == [call.spender_transfer EXCEPT ![a] = @ + in]
             y == [call.pool_transfer EXCEPT ![a] = @ + out]
  <2>1. call' = [call EXCEPT !.ledger = w, !.requests = n, !.spender_transfer = x, !.pool_transfer = y]
    BY <1>1 DEF Proceed
  <2> HIDE DEF n, x, y
  <2> QED
    BY <1>1, <2>1 DEF Proceed, Call
<1>2. ASSUME NEW a, NEW out, NEW maxUtil, ProceedChecked(w, a, out, maxUtil)
      PROVE  call'.ledger = w /\ UNCHANGED <<ledger, config, q4w_pct>>
  <2> DEFINE n == call.requests + 1
             y == [call.pool_transfer EXCEPT ![a] = @ + out]
             m == call.check_max_util \cup maxUtil
  <2>1. call' = [call EXCEPT !.ledger = w, !.requests = n, !.pool_transfer = y,
                             !.check_health = TRUE, !.check_max_util = m]
    BY <1>2 DEF ProceedChecked
  <2> HIDE DEF n, y, m
  <2> QED
    BY <1>2, <2>1 DEF ProceedChecked, Call
<1>3. ASSUME NEW check, ProceedWith(w, check)
      PROVE  call'.ledger = w /\ UNCHANGED <<ledger, config, q4w_pct>>
  <2> DEFINE n == call.requests + 1
             c == call.check_health \/ check
  <2>1. call' = [call EXCEPT !.ledger = w, !.requests = n, !.check_health = c]
    BY <1>3 DEF ProceedWith
  <2> HIDE DEF n, c
  <2> QED
    BY <1>3, <2>1 DEF ProceedWith, Call
<1> QED
  BY <1>1, <1>2, <1>3

\* A step within an invocation.
WithinCall == Insurable(call'.ledger) /\ UNCHANGED <<ledger, config, q4w_pct>>

LEMMA SupplyInsurable ==
    ASSUME SafeInv, Insurable(call.ledger), NEW req, Supply(req) \/ SupplyCollateral(req)
    PROVE  WithinCall
<1> DEFINE a == req.address
           l == Working(a)
           minted == ToBTokenDown(l.reserves[a], req.amount)
<1>1. PICK type \in {"Supply", "SupplyCollateral"} : RequestingOn(req, type)
  BY DEF Supply, SupplyCollateral
<1>2. PICK w : /\ w = AddSupply(l, call.from, a, minted) \/ w = AddCollateral(l, call.from, a, minted)
               /\ l.reserves[a].b_rate > 0 /\ Proceed(w, a, req.amount, 0)
  BY DEF Supply, SupplyCollateral
<1>3. /\ call # NoCall /\ a \in Assets /\ req.amount \in Nat
      /\ GoodSettings /\ WellFormed(call.ledger)
      /\ l.reserves[a] \in ReserveData /\ l = LoadReserves(call.ledger, {a})
  BY <1>1, RequestFinds
<1>4. call \in Call
  BY <1>3 DEF SafeInv, PoolInv, TypeOK
<1> HIDE DEF l, a
<1>5. minted \in Nat
  BY <1>2, <1>3, MintSharesNat
<1> HIDE DEF minted
<1>6. Insurable(w)
  BY <1>2, <1>3, <1>5, MoreSupplyInsurable
<1>7. call'.ledger = w /\ UNCHANGED <<ledger, config, q4w_pct>>
  BY <1>2, <1>4, ProceedsTo
<1> QED
  BY <1>6, <1>7 DEF WithinCall

LEMMA WithdrawInsurable ==
    ASSUME SafeInv, PoolInv', Insurable(call.ledger), NEW req, Withdraw(req) \/ WithdrawCollateral(req)
    PROVE  WithinCall
<1> DEFINE a == req.address
           l == Working(a)
           r == l.reserves[a]
           shares == BurnFor(r, req.amount, Position.supply[a]).shares
           collateral == BurnFor(r, req.amount, Position.collateral[a]).shares
<1>1. PICK type \in {"Withdraw", "WithdrawCollateral"} : RequestingOn(req, type)
  BY DEF Withdraw, WithdrawCollateral
<1>2. PICK w :
         /\ \/ w = RemoveSupply(l, call.from, a, shares)
            \/ w = RemoveCollateral(l, call.from, a, collateral)
         /\ r.b_rate > 0 /\ BelowFull(w.reserves[a])
         /\ (\E out : Proceed(w, a, 0, out)) \/ (\E out : ProceedChecked(w, a, out, {}))
  BY DEF Withdraw, WithdrawCollateral
<1>3. /\ call # NoCall /\ a \in Assets /\ req.amount \in Nat /\ call.from \in Accounts
      /\ GoodSettings /\ WellFormed(call.ledger)
      /\ r \in ReserveData /\ l = LoadReserves(call.ledger, {a})
      /\ Position \in Positions /\ l.positions[call.from] = Position
  BY <1>1, RequestFinds
<1>4. call \in Call
  BY <1>3 DEF SafeInv, PoolInv, TypeOK
<1> HIDE DEF l, a, r
<1>5. /\ Position.supply[a] \in Nat /\ Position.collateral[a] \in Nat
      /\ Position.supply[a] = l.positions[call.from].supply[a]
      /\ Position.collateral[a] = l.positions[call.from].collateral[a]
  BY <1>3, PositionNat
<1>6. /\ shares \in Nat /\ shares <= Position.supply[a]
      /\ collateral \in Nat /\ collateral <= Position.collateral[a]
  BY <1>2, <1>3, <1>5, BurnForWithin
<1> HIDE DEF shares, collateral
<1>7. w \in Ledger
  BY <1>2, <1>3, <1>5, <1>6, RemoveSupplyOwn, RemoveCollateralOwn DEF Own, r
<1>8. Insurable(w)
  BY <1>2, <1>3, <1>6, <1>7, BelowFullInsurable
<1>9. call'.ledger = w /\ UNCHANGED <<ledger, config, q4w_pct>>
  BY <1>2, <1>4, ProceedsTo
<1> QED
  BY <1>8, <1>9 DEF WithinCall

LEMMA BorrowInsurable ==
    ASSUME SafeInv, Insurable(call.ledger), NEW req, Borrow(req)
    PROVE  WithinCall
<1> DEFINE a == req.address
           l == Working(a)
           minted == ToDTokenUp(l.reserves[a], req.amount)
           w == AddLiabilities(l, call.from, a, minted)
<1>1. /\ RequestingOn(req, "Borrow") /\ BelowFull(w.reserves[a])
      /\ ProceedChecked(w, a, req.amount, {a})
  BY DEF Borrow
<1>2. /\ call # NoCall /\ call.from \in Accounts /\ a \in Assets /\ req.amount \in Nat
      /\ GoodSettings /\ WellFormed(call.ledger) /\ WellFormed(l)
      /\ l = LoadReserves(call.ledger, {a})
  BY <1>1, RequestFinds
<1>3. call \in Call
  BY <1>2 DEF SafeInv, PoolInv, TypeOK
<1> HIDE DEF l, a
<1>4. minted \in Nat
  BY <1>2, MintDebtNat
<1> HIDE DEF minted
<1>5. w \in Ledger
  BY <1>2, <1>4, AddLiabilitiesOwn DEF Own
<1>6. w = AddLiabilities(l, call.from, a, minted)
  OBVIOUS
<1> HIDE DEF w
<1>7. Insurable(w)
  BY <1>1, <1>2, <1>4, <1>5, <1>6, BelowFullInsurable
<1>8. call'.ledger = w /\ UNCHANGED <<ledger, config, q4w_pct>>
  BY <1>1, <1>3, ProceedsTo
<1> QED
  BY <1>7, <1>8 DEF WithinCall

LEMMA RepayInsurable ==
    ASSUME SafeInv, Insurable(call.ledger), NEW req, Repay(req)
    PROVE  WithinCall
<1> DEFINE a == req.address
           l == Working(a)
           r == l.reserves[a]
           owed == Position.liabilities[a]
           shares == ToDTokenDown(r, req.amount)
           over == shares > owed
           burnt == IF over THEN owed ELSE shares
           refund == IF over THEN req.amount - ToAssetFromD(r, owed) ELSE 0
           w == RemoveLiabilities(l, call.from, a, burnt)
<1>1. RequestingOn(req, "Repay") /\ Proceed(w, a, req.amount, refund)
  BY DEF Repay
<1>2. /\ call # NoCall /\ a \in Assets /\ req.amount \in Nat
      /\ GoodSettings /\ WellFormed(call.ledger) /\ WellFormed(l)
      /\ l = LoadReserves(call.ledger, {a}) /\ Position \in Positions
  BY <1>1, RequestFinds
<1>3. call \in Call
  BY <1>2 DEF SafeInv, PoolInv, TypeOK
<1> HIDE DEF l, a
<1>4. owed \in Nat /\ shares \in Nat
  BY <1>2, PositionNat, MintDebtNat
<1> HIDE DEF owed, shares, refund
<1>5. burnt \in Nat
  BY <1>4
<1> HIDE DEF burnt
<1>6. w = RemoveLiabilities(l, call.from, a, burnt)
  OBVIOUS
<1> HIDE DEF w
<1>7. Insurable(w)
  BY <1>2, <1>5, <1>6, LessDebtInsurable
<1>8. call'.ledger = w /\ UNCHANGED <<ledger, config, q4w_pct>>
  BY <1>1, <1>3, ProceedsTo
<1> QED
  BY <1>7, <1>8 DEF WithinCall

LEMMA AuctionRequestsInsurable ==
    ASSUME SafeInv, Insurable(call.ledger), NEW req,
           \/ FillUserLiquidationAuction(req) \/ FillBadDebtAuction(req)
           \/ FillInterestAuction(req) \/ DeleteLiquidationAuction(req)
    PROVE  WithinCall
<1> DEFINE w == call.ledger
           f == call.from
<1>1. ASSUME NEW type, Requesting(req, type)
      PROVE  f \in Users /\ GoodSettings /\ WellFormed(w) /\ w \in Ledger /\ call \in Call
  <2>1. call # NoCall /\ f \in Users /\ GoodSettings /\ WellFormed(w)
    BY <1>1, AuctionRequestFinds
  <2> QED
    BY <2>1 DEF WellFormed, SafeInv, PoolInv, TypeOK
<1>2. ASSUME NEW v, NEW c, ProceedWith(v, c), Insurable(v), call \in Call
      PROVE  WithinCall
  <2>1. call'.ledger = v /\ UNCHANGED <<ledger, config, q4w_pct>>
    BY <1>2, ProceedsTo
  <2> QED
    BY <1>2, <2>1 DEF WithinCall
<1>3. ASSUME FillUserLiquidationAuction(req) PROVE WithinCall
  <2> DEFINE v == FillUserLiquidation(w, req.address, f, req.amount)
  <2>1. /\ Requesting(req, "FillUserLiquidationAuction") /\ req.address \in Users
        /\ CanFillUserLiquidation(w, req.address, f, req.amount)
        /\ ProceedWith(v, TRUE)
    BY <1>3 DEF FillUserLiquidationAuction
  <2>2. Insurable(v)
    BY <1>1, <2>1, FillUserLiquidationInsurable
  <2> QED
    BY <1>1, <1>2, <2>1, <2>2
<1>4. ASSUME FillBadDebtAuction(req) PROVE WithinCall
  <2> DEFINE v == FillBadDebt(w, f, req.amount)
  <2>1. /\ Requesting(req, "FillBadDebtAuction")
        /\ CanFillBadDebt(w, f, req.amount)
        /\ ProceedWith(v, TRUE)
    BY <1>4 DEF FillBadDebtAuction
  <2>2. Insurable(v)
    BY <1>1, <2>1, FillBadDebtInsurable
  <2> QED
    BY <1>1, <1>2, <2>1, <2>2
<1>5. ASSUME FillInterestAuction(req) PROVE WithinCall
  <2> DEFINE v == FillInterest(w, req.amount)
  <2>1. /\ Requesting(req, "FillInterestAuction")
        /\ CanFillInterest(w, f, req.amount)
        /\ ProceedWith(v, FALSE)
    BY <1>5 DEF FillInterestAuction
  <2>2. Insurable(v)
    BY <1>1, <2>1, FillInterestInsurable
  <2> QED
    BY <1>1, <1>2, <2>1, <2>2
<1>6. ASSUME DeleteLiquidationAuction(req) PROVE WithinCall
  <2> DEFINE v == [w EXCEPT !.liquidation[f] = NoAuction]
  <2>1. Requesting(req, "DeleteLiquidationAuction") /\ ProceedWith(v, TRUE)
    BY <1>6 DEF DeleteLiquidationAuction
  <2>2. v.bad_debt = w.bad_debt /\ v.backstop_tokens = w.backstop_tokens /\ v.reserves = w.reserves
    BY <1>1, <2>1 DEF Ledger
  <2>3. Insurable(v)
    BY <2>2 DEF Insurable, LotBacked, BidOn, DebtSupplied
  <2> QED
    BY <1>1, <1>2, <2>1, <2>3
<1> QED
  BY <1>3, <1>4, <1>5, <1>6

LEMMA RequestStepInsurable ==
    ASSUME SafeInv, PoolInv', Insurable(call.ledger), RequestStep
    PROVE  WithinCall
  BY SupplyInsurable, WithdrawInsurable, BorrowInsurable, RepayInsurable,
     AuctionRequestsInsurable DEF RequestStep

LEMMA BeginInsurable ==
    ASSUME SafeInv, Insurable(ledger), Begin
    PROVE  WithinCall
<1>1. PoolInv /\ GoodSettings /\ WellFormed(ledger) /\ ledger \in Ledger
  BY DEF SafeInv, PoolInv, WellFormed
<1>2. ASSUME NEW u \in Users, BeginSubmit(u)
      PROVE  WithinCall
  <2>1. call' = NewCall(u, ledger) /\ UNCHANGED <<ledger, config, q4w_pct>>
    BY <1>2 DEF BeginSubmit
  <2>2. call'.ledger = ledger
    BY <2>1 DEF NewCall
  <2> QED
    BY <2>1, <2>2 DEF WithinCall
<1>3. ASSUME NEW u \in Users, NEW a \in Assets, NEW amount \in FlashLoans,
             BeginFlashLoan(u, a, amount)
      PROVE  WithinCall
  <2> DEFINE l == LoadReserves(ledger, {a})
             minted == ToDTokenUp(l.reserves[a], amount)
             w == AddLiabilities(l, u, a, minted)
             n == NewCall(u, w)
  <2>1. amount \in Nat /\ u \in Accounts
    BY PoolAssumption, AccountsFinite
  <2>2. /\ BelowFull(w.reserves[a])
        /\ call' = [n EXCEPT !.flash[a] = amount, !.check_health = TRUE, !.check_max_util = {a}]
        /\ UNCHANGED <<ledger, config, q4w_pct>>
    BY <1>3 DEF BeginFlashLoan
  <2>3. WellFormed(l) /\ l = LoadReserves(ledger, {a})
    BY <1>1, LoadReservesWellFormed
  <2> HIDE DEF l
  <2>4. minted \in Nat
    BY <2>1, <2>3, MintDebtNat
  <2> HIDE DEF minted
  <2>5. w \in Ledger
    BY <1>1, <2>1, <2>3, <2>4, AddLiabilitiesOwn DEF Own
  <2>6. w = AddLiabilities(l, u, a, minted)
    OBVIOUS
  <2> HIDE DEF w
  <2>7. Insurable(w)
    BY <1>1, <2>2, <2>3, <2>4, <2>5, <2>6, BelowFullInsurable
  <2>8. call'.ledger = w
    <3>1. n \in Call
      BY <1>1, <2>5, NewCallType
    <3>2. n.ledger = w
      BY DEF NewCall
    <3> HIDE DEF n
    <3> QED
      BY <2>2, <3>1, <3>2 DEF Call
  <2> QED
    BY <2>2, <2>7, <2>8 DEF WithinCall
<1> QED
  BY <1>2, <1>3 DEF Begin

\* A committed invocation only adds its transfers.
LEMMA CommitInsurable ==
    ASSUME SafeInv, Insurable(call.ledger), Commit
    PROVE  Insurable(ledger') /\ call' = NoCall
<1> DEFINE w == call.ledger
           b == BalancesAfter
           v == [w EXCEPT !.balance = b]
<1>1. call # NoCall /\ call' = NoCall /\ ledger' = v
  BY DEF Commit
<1>2. w \in Ledger
  BY <1>1 DEF SafeInv, PoolInv, TypeOK, Call
<1> HIDE DEF b
<1>3. v.bad_debt = w.bad_debt /\ v.backstop_tokens = w.backstop_tokens /\ v.reserves = w.reserves
  BY <1>2 DEF Ledger
<1> HIDE DEF v
<1> QED
  BY <1>1, <1>3 DEF Insurable, LotBacked, BidOn, DebtSupplied

\* Every other step leaves the lot alone, or the deposit covers it: whoever
\* could take from the deposit is locked in while there is debt to bid on.
LEMMA EntryInsurable ==
    ASSUME SafeInv, Insurable(ledger), ledger' \in Ledger, EntryShape
    PROVE  Insurable(ledger')
<1> DEFINE w == ledger
           v == ledger'
           t == BackstopToken
<1>1. w \in Ledger /\ BadDebtCovered(w)
  BY DEF SafeInv, PoolInv, TypeOK, Safe
<1>2. EntryStep(w, v) /\ v \in Ledger
  BY DEF EntryShape
<1>3. DebtSupplied(v)
  BY <1>1, <1>2, FewerInsurable DEF EntryStep
<1>4. LotBacked(v)
  <2>1. CASE LotThere(v)
    BY <2>1 DEF LotThere, LotBacked
  <2>2. CASE v.bad_debt = w.bad_debt
    <3> SUFFICES ASSUME v.bad_debt # NoAuction, NEW a \in Assets, v.bad_debt.bid[a] > 0
                 PROVE  v.bad_debt.lot[t] <= v.backstop_tokens
      BY DEF LotBacked, BidOn
    <3>1. w.bad_debt.lot[t] <= w.backstop_tokens
      BY <2>2 DEF Insurable, LotBacked, BidOn
    <3>2. HasLiabilities(w.positions[Backstop])
      <4>1. w.bad_debt \in Auction /\ w.positions[Backstop] \in Positions
        BY <1>1, <2>2, LedgerFields, AccountsFinite
      <4>2. w.bad_debt.bid[a] \in Nat /\ w.positions[Backstop].liabilities[a] \in Nat
        BY <4>1, PositionNat DEF Auction, Tokens
      <4>3. w.bad_debt.bid[a] <= w.positions[Backstop].liabilities[a]
        BY <1>1, <2>2 DEF BadDebtCovered
      <4>4. w.positions[Backstop].liabilities[a] > 0
        BY <2>2, <4>2, <4>3
      <4> QED
        BY <4>4 DEF HasLiabilities, Held
    <3>3. ~(v.backstop_tokens < w.backstop_tokens)
      BY <1>2, <3>2 DEF EntryStep
    <3>4. v.bad_debt.lot[t] \in Nat /\ v.backstop_tokens \in Nat /\ w.backstop_tokens \in Nat
      BY <1>1, <1>2, LedgerFields DEF Auction, Tokens
    <3> QED
      BY <2>2, <3>1, <3>3, <3>4
  <2> QED
    BY <1>2, <2>1, <2>2 DEF EntryStep
<1> QED
  BY <1>3, <1>4 DEF Insurable

\* require_valid_pool_config, whenever the limit of positions is set.
LEMMA LimitKept ==
    ASSUME SafeInv, Next, config.max_positions >= 2
    PROVE  config'.max_positions >= 2
<1>1. config \in Config
  BY DEF SafeInv, PoolInv, TypeOK
<1>2. ASSUME config' = config PROVE config'.max_positions >= 2
  BY <1>2
<1>3. ASSUME NEW limits \in PoolConfigs, UpdatePool(limits)
      PROVE  config'.max_positions >= 2
  <2>1. config'.max_positions = limits.max_positions
    BY <1>1, <1>3 DEF UpdatePool, Config
  <2>2. limits.max_positions \in 2..(2 * MaxReserves)
    BY <1>3 DEF UpdatePool, ValidPoolConfig
  <2> QED
    BY <2>1, <2>2, PoolAssumption
<1>4. ASSUME NEW q, SetsConfig([config EXCEPT !.queued = q])
      PROVE  config'.max_positions >= 2
  BY <1>1, <1>4 DEF SetsConfig, Config
<1>5. ASSUME NEW a \in Assets, NEW cfg, QueueSetReserve(a, cfg)
      PROVE  config'.max_positions >= 2
  <2> DEFINE q == [config.queued EXCEPT ![a] = [new_config |-> cfg,
                     unlock_time |-> IF config.status = 6 THEN now ELSE now + QueueDelay]]
  <2>1. SetsConfig([config EXCEPT !.queued = q])
    BY <1>5 DEF QueueSetReserve
  <2> HIDE DEF q
  <2> QED
    BY <1>4, <2>1
<1>6. ASSUME NEW a \in Assets, CancelSetReserve(a)
      PROVE  config'.max_positions >= 2
  <2> DEFINE q == [config.queued EXCEPT ![a] = NoQueue]
  <2>1. SetsConfig([config EXCEPT !.queued = q])
    BY <1>6 DEF CancelSetReserve
  <2> HIDE DEF q
  <2> QED
    BY <1>4, <2>1
<1>7. ASSUME NEW a \in Assets, SetReserve(a)
      PROVE  config'.max_positions >= 2
  <2> DEFINE q == [config.queued EXCEPT ![a] = NoQueue]
             cs == [config.reserves EXCEPT ![a] = config.queued[a].new_config]
  <2>1. config' = [config EXCEPT !.queued = q, !.reserves = cs]
    BY <1>7 DEF SetReserve
  <2> HIDE DEF q, cs
  <2> QED
    BY <1>1, <2>1 DEF Config
<1>8. ASSUME NEW s, SetsStatus(s)
      PROVE  config'.max_positions >= 2
  BY <1>1, <1>8 DEF SetsStatus, SetsConfig, Config
<1>9. CASE MaintenanceStep
  <2>1. ASSUME NEW u, BadDebt(u) PROVE config' = config
    BY <2>1 DEF BadDebt, Writes
  <2>2. ASSUME NEW a, Gulp(a) PROVE config' = config
    BY <2>2 DEF Gulp, Writes
  <2> QED
    BY <1>2, <1>3, <1>5, <1>6, <1>7, <1>8, <1>9, <2>1, <2>2
    DEF MaintenanceStep, UpdateStatus, SetStatus
<1>10. CASE AuctionStep
  BY <1>2, <1>10 DEF AuctionStep, LiquidationStep, OtherAuctionStep, NewUserLiquidation, NewBadDebtAuction, NewInterestAuction,
     DeleteStaleLiquidation, DeleteStaleBadDebt, DeleteStaleInterest, Writes
<1>11. CASE EnvironmentStep
  BY <1>2, <1>11 DEF EnvironmentStep, OutsideStep, BackstopStep, Tick, NewPrice, Gift, Writes,
     BackstopDeposit, BackstopWithdraw, BackstopMoves, QueueChange
<1>12. CASE Begin
  BY <1>2, <1>12 DEF Begin, BeginSubmit, BeginFlashLoan
<1>13. CASE RequestStep
  <2>1. ASSUME NEW w, NEW a, NEW in, NEW out, Proceed(w, a, in, out) PROVE config' = config
    BY <2>1 DEF Proceed
  <2>2. ASSUME NEW w, NEW a, NEW out, NEW m, ProceedChecked(w, a, out, m) PROVE config' = config
    BY <2>2 DEF ProceedChecked
  <2>3. ASSUME NEW w, NEW c, ProceedWith(w, c) PROVE config' = config
    BY <2>3 DEF ProceedWith
  <2> QED
    BY <1>2, <1>13, <2>1, <2>2, <2>3 DEF RequestStep, Supply, Withdraw, SupplyCollateral,
       WithdrawCollateral, Borrow, Repay, FillUserLiquidationAuction, FillBadDebtAuction,
       FillInterestAuction, DeleteLiquidationAuction
<1>14. CASE Commit \/ Abort
  BY <1>2, <1>14 DEF Commit, Abort
<1> QED
  BY <1>9, <1>10, <1>11, <1>12, <1>13, <1>14 DEF Next

LEMMA InsurableKept ==
    ASSUME SafeInv, InsurableInv, Next
    PROVE  InsurableInv'
<1>1. SafeInv' /\ PoolInv' /\ ledger' \in Ledger
  BY NextIsSafe, StepFacts DEF SafeInv
<1>2. /\ Insurable(ledger) /\ (call # NoCall => Insurable(call.ledger))
      /\ config'.max_positions >= 2
  BY LimitKept DEF InsurableInv
<1>3. ASSUME WithinCall PROVE InsurableInv'
  BY <1>2, <1>3 DEF WithinCall, InsurableInv, Insurable, LotBacked, BidOn, DebtSupplied
<1>4. ASSUME Insurable(ledger'), call' = NoCall PROVE InsurableInv'
  BY <1>2, <1>4 DEF InsurableInv, Insurable, LotBacked, BidOn, DebtSupplied
<1>5. ASSUME EntryShape PROVE InsurableInv'
  <2>1. Insurable(ledger') /\ call' = NoCall
    BY <1>1, <1>2, <1>5, EntryInsurable DEF EntryShape
  <2> QED
    BY <1>4, <2>1
<1>6. CASE Begin
  BY <1>2, <1>3, <1>6, BeginInsurable
<1>7. CASE RequestStep
  <2>1. call # NoCall
    BY <1>7 DEF RequestStep, Supply, Withdraw, SupplyCollateral, WithdrawCollateral,
       Borrow, Repay, FillUserLiquidationAuction, FillBadDebtAuction, FillInterestAuction,
       DeleteLiquidationAuction, RequestingOn, Requesting
  <2> QED
    BY <1>1, <1>2, <1>3, <1>7, <2>1, RequestStepInsurable
<1>8. CASE Commit
  <2>1. Insurable(ledger') /\ call' = NoCall
    BY <1>2, <1>8, CommitInsurable DEF Commit
  <2> QED
    BY <1>4, <2>1
<1>9. CASE Abort
  <2>1. Insurable(ledger') /\ call' = NoCall
    BY <1>2, <1>9 DEF Abort
  <2> QED
    BY <1>4, <2>1
<1> QED
  BY <1>1, <1>5, <1>6, <1>7, <1>8, <1>9, AuctionStepIsSafe, MaintenanceStepIsSafe,
     EnvironmentStepIsSafe DEF Next

LEMMA InsurableStutter ==
    ASSUME InsurableInv, UNCHANGED poolVars
    PROVE  InsurableInv'
  BY DEF InsurableInv, Insurable, LotBacked, BidOn, DebtSupplied, poolVars, vars

LEMMA InsurableInit ==
    ASSUME Init
    PROVE  InsurableInv
<1>1. ledger = InitialLedger /\ call = NoCall /\ config = InitialConfig(6)
  BY DEF Init
<1>2. ledger.bad_debt = NoAuction /\ \A a \in Assets : ledger.reserves[a] = NewReserve(0)
  BY <1>1 DEF InitialLedger
<1>3. \A a \in Assets : ~(ledger.reserves[a].d_supply > 0)
  BY <1>2 DEF NewReserve
<1>4. config.max_positions >= 2
  BY <1>1, PoolAssumption DEF InitialConfig, ValidPoolConfig
<1> QED
  BY <1>1, <1>2, <1>3, <1>4 DEF InsurableInv, Insurable, LotBacked, DebtSupplied

\* Of any backstop the pool may have: the lot of an auction of bad debt is
\* within the deposit while there is debt to bid on, and what is owed was
\* supplied (create_bad_debt_auction_data, fill_bad_debt_auction,
\* require_utilization_below_100, and the backstop's execute_withdraw).
THEOREM PoolStaysInsurable == Spec => [](SafeInv /\ InsurableInv)
<1>1. Init => SafeInv /\ InsurableInv
  BY InitIsSafe, InsurableInit
<1>2. SafeInv /\ InsurableInv /\ [Next]_poolVars => (SafeInv /\ InsurableInv)'
  BY NextIsSafe, StutterIsSafe, InsurableKept, InsurableStutter
<1> QED
  BY <1>1, <1>2, PTL DEF Spec

-----------------------------------------------------------------------------
(* Bad debt of the backstop is forgiven or auctioned.                      *)

LEMMA DebtCanBeWrittenOff ==
    ASSUME SafeInv, Insurable(ledger)
    PROVE  CanDefault(ledger)
<1>1. WellFormed(ledger) /\ ledger \in Ledger /\ Backstop \in Accounts
  BY AccountsFinite DEF SafeInv, PoolInv, WellFormed
<1> SUFFICES ASSUME NEW a \in Held(ledger.positions[Backstop].liabilities)
             PROVE  CanWriteOff(ledger.reserves[a])
  BY DEF CanDefault
<1> DEFINE owed == ledger.positions[Backstop].liabilities[a]
           r == ledger.reserves[a]
<1>2. a \in Assets /\ owed > 0
  BY DEF Held
<1>3. owed \in Nat /\ r \in ReserveData
  BY <1>1, <1>2, LedgerFields, PositionNat
<1>4. owed <= r.d_supply
  BY <1>1, <1>2, PartOfTotal DEF DShares
<1>5. r.d_supply > 0
  <2>1. r.d_supply \in Nat
    BY <1>3 DEF ReserveData
  <2> QED
    BY <1>2, <1>3, <1>4, <2>1
<1> QED
  BY <1>2, <1>5 DEF Insurable, DebtSupplied, CanWriteOff

\* If what is owed has a value at all, one of the assets owed has.
LEMMA SomeDebtHasValue ==
    ASSUME SafeInv, NEW owed \in SUBSET Assets, DebtValue(ledger, owed) # 0
    PROVE  \E a \in owed : DebtValue(ledger, {a}) > 0
<1> DEFINE p == ledger.positions[Backstop]
           amounts == [a \in owed |-> ToAssetFromD(LoadedReserve(ledger, a), p.liabilities[a])]
           parts == [a \in owed |-> MulFloor(price[a], amounts[a], config.reserves[a].scalar)]
<1>1. GoodSettings /\ WellFormed(ledger) /\ IsFiniteSet(owed)
  BY StateAssumption, FS_Subset DEF SafeInv, PoolInv
<1>2. ASSUME NEW a \in owed
      PROVE  DebtValue(ledger, {a}) \in Nat /\ DebtValue(ledger, {a}) = parts[a]
  <2> DEFINE one == [x \in {a} |-> ToAssetFromD(LoadedReserve(ledger, x), p.liabilities[x])]
             f == [x \in {a} |-> MulFloor(price[x], one[x], config.reserves[x].scalar)]
  <2>1. DebtValue(ledger, {a}) \in Nat
    BY <1>1, DebtValueNat
  <2>2. DebtValue(ledger, {a}) = SumFunction(f)
    BY DEF DebtValue, FloorValue
  <2>3. f[a] = parts[a] /\ DOMAIN f = {a}
    OBVIOUS
  <2>4. parts[a] \in Int
    <3> DEFINE n == ToAssetFromD(LoadedReserve(ledger, a), p.liabilities[a])
               c == config.reserves[a].scalar
    <3>1. /\ p.liabilities[a] \in Nat /\ price[a] \in Nat
          /\ c \in Nat /\ c > 0 /\ LoadedReserve(ledger, a) \in ReserveData
      BY <1>1, LoadedIsUpToDate, LedgerFields, AccountsFinite, PositionNat
      DEF GoodSettings, ValidReserveConfig, ReserveConfig, WellFormed
    <3>2. n \in Nat
      BY <3>1, MulNat, ScalarsPositive DEF ToAssetFromD, ReserveData
    <3>3. parts[a] = MulFloor(price[a], n, c)
      OBVIOUS
    <3> HIDE DEF n, c
    <3>4. c \in Int /\ c > 0 /\ price[a] \in Nat
      BY <3>1
    <3>5. MulFloor(price[a], n, c) \in Nat
      BY <3>2, <3>4, MulNat
    <3> QED
      BY <3>3, <3>5
  <2> HIDE DEF f, parts
  <2>5. SumFunction(f) = Sum(f, {a})
    BY <2>3, SumFunctionIsSum
  <2>6. Sum(f, {a}) = f[a]
    BY <2>3, <2>4, SumOne
  <2> QED
    BY <2>1, <2>2, <2>3, <2>5, <2>6
<1>3. DebtValue(ledger, owed) = SumFunction(parts)
  BY DEF DebtValue, FloorValue
<1>4. DOMAIN parts = owed /\ parts = [a \in owed |-> parts[a]]
  OBVIOUS
<1> HIDE DEF parts
<1>5. ASSUME \A a \in owed : ~(DebtValue(ledger, {a}) > 0)
      PROVE  FALSE
  <2>1. ASSUME NEW a \in owed PROVE parts[a] = 0
    <3>1. DebtValue(ledger, {a}) \in Nat /\ ~(DebtValue(ledger, {a}) > 0)
      BY <1>2, <1>5
    <3> QED
      BY <1>2, <3>1
  <2>2. parts \in [owed -> Nat]
    BY <1>4, <2>1
  <2> QED
    BY <1>1, <1>3, <2>1, <2>2, SumFunctionZero
<1> QED
  BY <1>5

LEMMA DebtResolvable ==
    ASSUME SafeInv, InsurableInv
    PROVE  BadDebtResolvable
<1> DEFINE p == ledger.positions[Backstop]
           owed == Held(p.liabilities)
<1> SUFFICES ASSUME Indebted, ledger.bad_debt = NoAuction, \A a \in owed : price[a] > 0,
                    DebtValue(ledger, owed) # 0, ~(MustDefault(ledger) /\ CanDefault(ledger))
             PROVE  \E a \in owed : CanCreateBadDebt(ledger, {a})
  BY DEF BadDebtResolvable
<1>1. CanDefault(ledger) /\ config.max_positions >= 2
  BY DebtCanBeWrittenOff DEF InsurableInv
<1>2. ledger.backstop_tokens > 0
  <2>1. ledger.backstop_tokens \in Nat
    BY LedgerFields DEF SafeInv, PoolInv, WellFormed
  <2>2. ~(ledger.backstop_tokens < DefaultTokens)
    BY <1>1 DEF MustDefault, Indebted
  <2> QED
    BY <2>1, <2>2, StateAssumption, InsuranceAssumption
<1>3. owed \in SUBSET Assets
  BY DEF Held
<1>4. PICK a \in owed : DebtValue(ledger, {a}) > 0
  BY <1>3, SomeDebtHasValue
<1>5. Cardinality({a}) = 1 /\ config.max_positions \in Nat
  BY FS_Singleton DEF SafeInv, PoolInv, TypeOK, Config
<1>6. Cardinality({a}) < config.max_positions
  BY <1>1, <1>5
<1> HIDE DEF owed
<1>7. {a} # {} /\ {a} \subseteq owed /\ \A b \in {a} : price[b] > 0
  BY <1>4
<1> QED
  BY <1>2, <1>4, <1>6, <1>7 DEF CanCreateBadDebt, owed

\* Debt handed to the backstop never gets stuck there (bad_debt.rs and
\* create_bad_debt_auction_data): a deposit too small for an auction is one so
\* small that the debt is forgiven, every reserve that is owed has suppliers
\* to bear it, and one asset of a debt of some value can always be auctioned.
THEOREM BadDebtNeverStuck == Spec => []BadDebtResolvable
<1>1. SafeInv /\ InsurableInv => BadDebtResolvable
  BY DebtResolvable
<1> QED
  BY <1>1, PoolStaysInsurable, PTL

-----------------------------------------------------------------------------
(* The backstop's side: its own invariant, of the steps it makes here.     *)

BP == INSTANCE BackstopProofs WITH
    Pools <- {PoolAddress}, Deployable <- {PoolAddress}, DeployArgs <- {},
    deployed <- {PoolAddress}, Users <- Depositors,
    Scalar14 <- Scalar7 * Scalar7, EmissionPeriod <- 1,
    MaxRewardZone <- 0, MaxBackfill <- 0, DepositShare <- Scalar7, BorrowShare <- 0,
    MinDistribution <- 1, RecentDistribution <- 0, GulpInterval <- 0, StartTime <- 1,
    Draws <- 1..MaxBackstopTokens, Donations <- 1..MaxBackstopTokens,
    LpAmounts <- {}, HasEmitter <- FALSE, Indebted <- {PoolAddress},
    MaxTokens <- MaxBackstopTokens, MaxCalls <- MaxMoves, calls <- moves,
    bad_debt <- IF Indebted THEN {PoolAddress} ELSE {},
    emissions <- [p \in {PoolAddress} |-> NoData],
    user_emissions <- [p \in {PoolAddress} |-> [u \in Depositors |-> NoData]],
    rewards <- [zone |-> {}, accrued |-> [p \in {PoolAddress} |-> 0],
                gulped_at |-> [p \in {PoolAddress} |-> 0],
                last_distribution |-> 0, status |-> "Unset", backfill |-> 0],
    held <- [lp |-> Insured.tokens, blnd |-> 0, allowance |-> [p \in {PoolAddress} |-> 0]],
    emitter <- [last |-> NoData, dropped |-> FALSE]

\* B is the module of the actions, BP the one of the proofs about them.
LEMMA SameDeposit ==
    ASSUME NEW u, NEW n, B!Deposit(u, PoolAddress, n)
    PROVE  BP!Deposit(u, PoolAddress, n)
  BY Zenon DEF B!Deposit, BP!Deposit, B!CountCall, BP!CountCall, B!FromFactory, BP!FromFactory,
     B!Factory!IsPool, BP!Factory!IsPool, B!UpdateEmissions, BP!UpdateEmissions, B!Accrue,
     BP!Accrue, B!IndexGrowth, BP!IndexGrowth, B!UpdateUser, BP!UpdateUser, B!Owed, BP!Owed,
     B!FloorDiv, BP!FloorDiv, B!MulFloor, BP!MulFloor, B!DivFloor, BP!DivFloor,
     B!ConvertToShares, BP!ConvertToShares, B!DepositInto, BP!DepositInto, B!AddShares,
     BP!AddShares

LEMMA SameQueue ==
    ASSUME NEW u, NEW n, B!QueueWithdrawal(u, PoolAddress, n)
    PROVE  BP!QueueWithdrawal(u, PoolAddress, n)
  BY Zenon DEF B!QueueWithdrawal, BP!QueueWithdrawal, B!CountCall, BP!CountCall, B!UpdateEmissions,
     BP!UpdateEmissions, B!Accrue, BP!Accrue, B!IndexGrowth, BP!IndexGrowth, B!UpdateUser,
     BP!UpdateUser, B!Owed, BP!Owed, B!FloorDiv, BP!FloorDiv, B!MulFloor, BP!MulFloor,
     B!DivFloor, BP!DivFloor, B!CanQueueShares, BP!CanQueueShares, B!QueueShares, BP!QueueShares

LEMMA SameDequeue ==
    ASSUME NEW u, NEW n, B!DequeueWithdrawal(u, PoolAddress, n)
    PROVE  BP!DequeueWithdrawal(u, PoolAddress, n)
  BY Zenon DEF B!DequeueWithdrawal, BP!DequeueWithdrawal, B!CountCall, BP!CountCall, B!UpdateEmissions,
     BP!UpdateEmissions, B!Accrue, BP!Accrue, B!IndexGrowth, BP!IndexGrowth, B!UpdateUser,
     BP!UpdateUser, B!Owed, BP!Owed, B!FloorDiv, BP!FloorDiv, B!MulFloor, BP!MulFloor,
     B!DivFloor, BP!DivFloor, B!CanServe, BP!CanServe, B!Serve, BP!Serve, B!LastServed,
     BP!LastServed, B!Queued, BP!Queued, B!QueuedUpTo, BP!QueuedUpTo, B!Amounts, BP!Amounts,
     B!SumFunction, BP!SumFunction, B!SumFunctionOnSet, BP!SumFunctionOnSet, B!FoldFunctionOnSet,
     BP!FoldFunctionOnSet, B!MapThenFoldSet, BP!MapThenFoldSet, B!Backwards, BP!Backwards,
     B!DequeueShares, BP!DequeueShares, B!AddShares, BP!AddShares

LEMMA SameWithdraw ==
    ASSUME NEW u, NEW n, B!Withdraw(u, PoolAddress, n)
    PROVE  BP!Withdraw(u, PoolAddress, n)
  BY Zenon DEF B!Withdraw, BP!Withdraw, B!CountCall, BP!CountCall, B!emissionVars, BP!emissionVars,
     B!CanServe, BP!CanServe, B!Serve, BP!Serve, B!LastServed, BP!LastServed, B!Queued,
     BP!Queued, B!QueuedUpTo, BP!QueuedUpTo, B!Amounts, BP!Amounts, B!SumFunction,
     BP!SumFunction, B!SumFunctionOnSet, BP!SumFunctionOnSet, B!FoldFunctionOnSet,
     BP!FoldFunctionOnSet, B!MapThenFoldSet, BP!MapThenFoldSet, B!CanWithdrawShares,
     BP!CanWithdrawShares, B!CanWithdrawFrom, BP!CanWithdrawFrom, B!WithdrawShares,
     BP!WithdrawShares, B!WithdrawFrom, BP!WithdrawFrom, B!ConvertToTokens, BP!ConvertToTokens,
     B!MulFloor, BP!MulFloor, B!FloorDiv, BP!FloorDiv

LEMMA SameDraw ==
    ASSUME NEW n, B!Draw(PoolAddress, n)
    PROVE  BP!Draw(PoolAddress, n)
  BY Zenon DEF B!Draw, BP!Draw, B!CountCall, BP!CountCall, B!emissionVars, BP!emissionVars,
     B!CanWithdrawFrom, BP!CanWithdrawFrom, B!WithdrawFrom, BP!WithdrawFrom, B!BadDebtMayChange,
     BP!BadDebtMayChange

LEMMA SameDonate ==
    ASSUME NEW n, B!Donate(PoolAddress, n)
    PROVE  BP!Donate(PoolAddress, n)
  BY Zenon DEF B!Donate, BP!Donate, B!CountCall, BP!CountCall, B!emissionVars, BP!emissionVars,
     B!FromFactory, BP!FromFactory, B!Factory!IsPool, BP!Factory!IsPool, B!DepositInto,
     BP!DepositInto, B!BadDebtMayChange, BP!BadDebtMayChange

LEMMA SameOthers ==
    /\ \A dt : B!Tick(dt) => BP!Tick(dt)
    /\ B!BadDebtChanges(PoolAddress) => BP!BadDebtChanges(PoolAddress)
    /\ UNCHANGED B!backstopVars => UNCHANGED BP!backstopVars
<1>1. \A dt : B!Tick(dt) => BP!Tick(dt)
  BY Zenon DEF B!Tick, BP!Tick, B!balanceVars, BP!balanceVars, B!emissionVars, BP!emissionVars
<1>2. B!BadDebtChanges(PoolAddress) => BP!BadDebtChanges(PoolAddress)
  BY Zenon DEF B!BadDebtChanges, BP!BadDebtChanges, B!balanceVars, BP!balanceVars, B!emissionVars,
     BP!emissionVars
<1>3. UNCHANGED B!backstopVars => UNCHANGED BP!backstopVars
  BY Zenon DEF B!backstopVars, BP!backstopVars
<1> QED
  BY <1>1, <1>2, <1>3

LEMMA BackstopSettings ==
    /\ BP!BackstopAssumption /\ BP!BalanceAssumption
    /\ BP!EmissionAssumption /\ BP!NoDataAssumption
<1>1. BP!BackstopAssumption
  <2>1. BP!IsFiniteSet({PoolAddress}) /\ BP!IsFiniteSet(Depositors)
    <3>1. IsFiniteSet({PoolAddress}) /\ IsFiniteSet(Depositors)
      BY FS_Singleton, InsuranceAssumption
    <3> QED
      BY <3>1 DEF IsFiniteSet, BP!IsFiniteSet
  <2>2. /\ Scalar7 \in Nat /\ Scalar7 + 0 = Scalar7 /\ 1..MaxBackstopTokens \subseteq Nat
        /\ ThresholdTokens \in Nat
    BY ScalarAssumption, StateAssumption, PoolAssumption
  <2>3. /\ Deposits \subseteq Nat /\ Queues \subseteq Nat /\ Withdrawals \subseteq Nat
        /\ Ticks \subseteq Nat /\ MaxTime \in Nat /\ MaxBackstopTokens \in Nat /\ MaxMoves \in Nat
    BY InsuranceAssumption, PoolAssumption
  <2>4. 0 \in Nat /\ 1 \in Nat /\ 1 \in Nat \ {0} /\ 1 >= 0 /\ FALSE \in BOOLEAN
    OBVIOUS
  <2>5. /\ {} \subseteq [backstop_take_rate : Nat, max_positions : Nat, min_collateral : Int]
        /\ {} \subseteq Nat /\ {PoolAddress} \subseteq {PoolAddress}
    OBVIOUS
  <2> QED
    BY <2>1, <2>2, <2>3, <2>4, <2>5, Zenon DEF BP!BackstopAssumption
<1>2. BP!BalanceAssumption
  BY InsuranceAssumption DEF BP!BalanceAssumption
<1>3. BP!EmissionAssumption
  BY ScalarAssumption DEF BP!EmissionAssumption
<1>4. BP!NoDataAssumption
  BY InsuranceAssumption DEF BP!NoDataAssumption, B!EmissionData, BP!EmissionData,
     B!UserEmissionData, BP!UserEmissionData
<1> QED
  BY <1>1, <1>2, <1>3, <1>4

LEMMA DepositParts ==
    ASSUME BP!BackstopInv
    PROVE  /\ pool_balance \in [{PoolAddress} -> BP!PoolBalance]
           /\ Insured.shares \in Nat /\ Insured.tokens \in Nat /\ Insured.q4w \in Nat
           /\ Insured.q4w <= Insured.shares
<1>1. pool_balance[PoolAddress].q4w <= pool_balance[PoolAddress].shares
  BY BackstopSettings, BP!InvParts
<1>2. pool_balance \in [{PoolAddress} -> BP!PoolBalance]
  BY DEF BP!BackstopInv, BP!BackstopTypeOK
<1> QED
  BY <1>1, <1>2 DEF BP!PoolBalance, Insured

\* What a step of both contracts is to the backstop.
BackstopSide ==
    \/ \E u \in Depositors :
        \/ \E n \in Deposits : B!Deposit(u, PoolAddress, n)
        \/ \E n \in Queues : \/ B!QueueWithdrawal(u, PoolAddress, n)
                            \/ B!DequeueWithdrawal(u, PoolAddress, n)
        \/ \E n \in Withdrawals : B!Withdraw(u, PoolAddress, n)
    \/ \E n \in 1..MaxBackstopTokens : B!Draw(PoolAddress, n) \/ B!Donate(PoolAddress, n)
    \/ B!BadDebtChanges(PoolAddress)
    \/ \E dt \in Ticks : B!Tick(dt)
    \/ UNCHANGED B!backstopVars

LEMMA BackstopSideSteps ==
    ASSUME BackstopSide
    PROVE  [B!Next]_(B!backstopVars) /\ [BP!Next]_(BP!backstopVars)
<1> DEFINE P == PoolAddress
<1>1. CASE \E u \in Depositors :
              \/ \E n \in Deposits : B!Deposit(u, P, n)
              \/ \E n \in Queues : B!QueueWithdrawal(u, P, n) \/ B!DequeueWithdrawal(u, P, n)
              \/ \E n \in Withdrawals : B!Withdraw(u, P, n)
  <2>1. PICK u \in Depositors : B!UserCall(u, P) /\ BP!UserCall(u, P)
    BY <1>1, SameDeposit, SameQueue, SameDequeue, SameWithdraw DEF B!UserCall, BP!UserCall
  <2> QED
    BY <2>1 DEF B!Next, BP!Next
<1>2. CASE \E n \in 1..MaxBackstopTokens : B!Draw(P, n) \/ B!Donate(P, n)
  <2>1. B!PoolCall(P) /\ BP!PoolCall(P)
    BY <1>2, SameDraw, SameDonate DEF B!PoolCall, BP!PoolCall
  <2> QED
    BY <2>1 DEF B!Next, BP!Next
<1>3. CASE B!BadDebtChanges(P)
  BY <1>3, SameOthers DEF B!Next, BP!Next
<1>4. CASE \E dt \in Ticks : B!Tick(dt)
  BY <1>4, SameOthers DEF B!Next, BP!Next
<1>5. CASE UNCHANGED B!backstopVars
  BY <1>5, SameOthers
<1> QED
  BY <1>1, <1>2, <1>3, <1>4, <1>5 DEF BackstopSide

LEMMA BackstopSideKeeps ==
    ASSUME BP!BackstopInv, BackstopSide
    PROVE  BP!BackstopInv'
<1>1. [BP!Next]_(BP!backstopVars)
  BY BackstopSideSteps
<1> QED
  BY <1>1, BackstopSettings, BP!NextKeepsInv

-----------------------------------------------------------------------------
(* Both contracts together.                                                *)

Agree ==
    /\ ledger.backstop_tokens = Insured.tokens
    /\ q4w_pct = QueuedPct
    /\ Insured.tokens <= MaxBackstopTokens

InsuranceInv == SafeInv /\ InsurableInv /\ BP!BackstopInv /\ Agree

Pct(shares, q4w) ==
    IF shares = 0 THEN 0 ELSE (100 * DivCeil(q4w, shares, Scalar7)) \div Scalar7

LEMMA PctBounded ==
    ASSUME NEW s \in Nat, NEW q \in Nat, q <= s
    PROVE  Pct(s, q) \in 0..100
<1>1. Scalar7 \in Nat /\ Scalar7 > 0
  BY ScalarAssumption
<1>2. CASE s = 0
  BY <1>2 DEF Pct
<1>3. CASE s > 0
  <2> DEFINE n == q * Scalar7
             x == CeilDiv(n, s)
             y == FloorDiv(100 * x, Scalar7)
  <2>1. n \in Nat /\ q * Scalar7 <= s * Scalar7
    BY <1>1, ProductNat, ProductMonotone
  <2>2. n <= s * Scalar7
    BY <2>1
  <2> HIDE DEF n
  <2>3. x \in Nat /\ x <= Scalar7
    BY <1>1, <1>3, <2>1, <2>2, CeilDivNat, CeilDivUpper
  <2>4. Pct(s, q) = (100 * x) \div Scalar7
    BY <1>3 DEF Pct, DivCeil, n
  <2> HIDE DEF x
  <2>5. y = (100 * x) \div Scalar7
    BY <1>1 DEF FloorDiv
  <2>6. 100 * x \in Nat /\ 100 * x < Scalar7 * 100 + Scalar7
    BY <1>1, <2>3
  <2>7. y \in Nat /\ y <= 100
    BY <1>1, <2>6, FloorDivNat, FloorDivUpper
  <2> QED
    BY <2>4, <2>5, <2>7
<1> QED
  BY <1>2, <1>3

LEMMA QueuedPctBounded ==
    ASSUME BP!BackstopInv
    PROVE  QueuedPct \in 0..100
<1>1. QueuedPct = Pct(Insured.shares, Insured.q4w)
  BY DEF QueuedPct, Pct
<1> QED
  BY <1>1, DepositParts, PctBounded

\* Only the clock moves the clock, and only the backstop moves its queue.
LEMMA PoolSideKeeps ==
    ASSUME PoolSide
    PROVE  /\ Next /\ q4w_pct' = q4w_pct
           /\ now' = now \/ \E dt \in Ticks : Tick(dt)
<1> DEFINE QueueAlone == q4w_pct' = q4w_pct /\ now' = now
<1>1. ASSUME NEW w, Writes(w) PROVE QueueAlone
  BY <1>1 DEF Writes
<1>2. ASSUME NEW c, SetsConfig(c) PROVE QueueAlone
  BY <1>2 DEF SetsConfig
<1>3. ASSUME Begin PROVE QueueAlone
  <2>1. ASSUME NEW u, BeginSubmit(u) PROVE QueueAlone
    BY <2>1 DEF BeginSubmit
  <2>2. ASSUME NEW u, NEW a, NEW amount, BeginFlashLoan(u, a, amount) PROVE QueueAlone
    BY <2>2, Zenon DEF BeginFlashLoan
  <2> HIDE DEF QueueAlone
  <2> QED
    BY <1>3, <2>1, <2>2 DEF Begin
<1>4. ASSUME RequestStep PROVE QueueAlone
  <2>1. ASSUME NEW w, NEW a, NEW in, NEW out, Proceed(w, a, in, out) PROVE QueueAlone
    BY <2>1 DEF Proceed
  <2>2. ASSUME NEW w, NEW a, NEW out, NEW m, ProceedChecked(w, a, out, m) PROVE QueueAlone
    BY <2>2 DEF ProceedChecked
  <2>3. ASSUME NEW w, NEW c, ProceedWith(w, c) PROVE QueueAlone
    BY <2>3 DEF ProceedWith
  <2> HIDE DEF QueueAlone
  <2> QED
    BY <1>4, <2>1, <2>2, <2>3 DEF RequestStep, Supply, Withdraw, SupplyCollateral,
       WithdrawCollateral, Borrow, Repay, FillUserLiquidationAuction, FillBadDebtAuction,
       FillInterestAuction, DeleteLiquidationAuction
<1>5. ASSUME Commit \/ Abort PROVE QueueAlone
  BY <1>5 DEF Commit, Abort
<1>6. ASSUME AuctionStep PROVE QueueAlone
  BY <1>1, <1>6 DEF AuctionStep, LiquidationStep, OtherAuctionStep, NewUserLiquidation, NewBadDebtAuction, NewInterestAuction,
     DeleteStaleLiquidation, DeleteStaleBadDebt, DeleteStaleInterest
<1>7. ASSUME MaintenanceStep PROVE QueueAlone
  <2>1. ASSUME NEW u, BadDebt(u) PROVE QueueAlone
    BY <1>1, <2>1 DEF BadDebt
  <2>2. ASSUME NEW a, Gulp(a) PROVE QueueAlone
    BY <1>1, <2>2 DEF Gulp
  <2>3. ASSUME NEW c, UpdatePool(c) PROVE QueueAlone
    BY <2>3 DEF UpdatePool
  <2>4. ASSUME NEW a, SetReserve(a) PROVE QueueAlone
    BY <2>4 DEF SetReserve
  <2>5. ASSUME NEW a, NEW cfg, QueueSetReserve(a, cfg) PROVE QueueAlone
    BY <1>2, <2>5 DEF QueueSetReserve
  <2>6. ASSUME NEW a, CancelSetReserve(a) PROVE QueueAlone
    BY <1>2, <2>6 DEF CancelSetReserve
  <2>7. ASSUME NEW s, SetsStatus(s) PROVE QueueAlone
    BY <1>2, <2>7 DEF SetsStatus
  <2> HIDE DEF QueueAlone
  <2> QED
    BY <1>7, <2>1, <2>2, <2>3, <2>4, <2>5, <2>6, <2>7
    DEF MaintenanceStep, UpdateStatus, SetStatus
<1>8. ASSUME OutsideStep
     PROVE  q4w_pct' = q4w_pct /\ (now' = now \/ \E dt \in Ticks : Tick(dt))
  <2>1. ASSUME NEW a, NEW p, NewPrice(a, p) PROVE QueueAlone
    BY <2>1 DEF NewPrice
  <2>2. ASSUME NEW a, NEW n, Gift(a, n) PROVE QueueAlone
    BY <1>1, <2>2 DEF Gift
  <2>3. ASSUME NEW dt, Tick(dt) PROVE q4w_pct' = q4w_pct
    BY <2>3 DEF Tick
  <2> QED
    BY <1>8, <2>1, <2>2, <2>3 DEF OutsideStep
<1>9. Next
  BY DEF PoolSide, Next, EnvironmentStep
<1>10. QueueAlone \/ OutsideStep
  BY <1>3, <1>4, <1>5, <1>6, <1>7, Zenon DEF PoolSide
<1> QED
  BY <1>8, <1>9, <1>10

PctInRange == QueuedPct \in 0..100

LEMMA PctInRangeNow == BP!BackstopInv => PctInRange
  BY QueuedPctBounded DEF PctInRange

LEMMA PctInRangeLater == BP!BackstopInv' => PctInRange'
  BY PctInRangeNow, PTL

LEMMA QueuedPctWillBe == BP!BackstopInv' => QueuedPct' \in 0..100
  BY PctInRangeLater DEF PctInRange

LEMMA InsuredNow ==
    ASSUME InsuranceInv
    PROVE  /\ ledger \in Ledger /\ ledger.backstop_tokens = Insured.tokens
           /\ pool_balance \in [{PoolAddress} -> BP!PoolBalance]
           /\ Insured \in BP!PoolBalance /\ pool_balance[PoolAddress] = Insured
           /\ Insured.tokens \in Nat /\ Insured.tokens <= MaxBackstopTokens
           /\ Insured.shares \in Nat /\ Insured.q4w \in Nat /\ now \in Nat
  BY DepositParts DEF InsuranceInv, Agree, Insured, SafeInv, PoolInv, TypeOK

\* What a depositor's call writes is a deposit and a queue as Pool allows them.
LEMMA LeavingIs ==
    ASSUME InsuranceInv, NEW t, Leaving(t), BackstopSide, q4w_pct' = QueuedPct', now' = now
    PROVE  /\ ledger'.backstop_tokens = t
           /\ QueuedPct' \in QueueLevels
           /\ BackstopMoves(t, QueuedPct')
<1>1. ledger'.backstop_tokens = t
  BY InsuredNow DEF Leaving, Ledger
<1>2. QueuedPct' \in QueueLevels
  <2>1. BP!BackstopInv'
    BY BackstopSideKeeps DEF InsuranceInv
  <2> QED
    BY <2>1, QueuedPctWillBe, InsuranceAssumption
<1> QED
  BY <1>1, <1>2 DEF Leaving, BackstopMoves

\* The depositors' calls are what the pool leaves to its backstop.
LEMMA JoinsKeep ==
    ASSUME InsuranceInv, NEW u \in Depositors, NEW n \in Deposits, DepositorJoins(u, n)
    PROVE  BackstopSide /\ Next /\ Agree'
<1>1. B!Deposit(u, PoolAddress, n) /\ q4w_pct' = QueuedPct' /\ Leaving(Insured.tokens + n)
  BY DEF DepositorJoins
<1>2. BackstopSide
  BY <1>1 DEF BackstopSide
<1> DEFINE minted == B!ConvertToShares(Insured, n)
<1>3. /\ Insured.tokens + n <= MaxBackstopTokens /\ now' = now
      /\ pool_balance' = [pool_balance EXCEPT ![PoolAddress] =
                             B!DepositInto(pool_balance[PoolAddress], n, minted)]
  BY <1>1 DEF B!Deposit, Insured
<1> HIDE DEF minted
<1>4. Insured'.tokens = Insured.tokens + n
  <2>1. Insured' = B!DepositInto(Insured, n, minted)
    BY <1>3, InsuredNow DEF Insured
  <2> QED
    BY <2>1, InsuredNow DEF B!DepositInto, BP!PoolBalance
<1>5. n \in Nat /\ n \in BackstopAmounts
  BY <1>3, InsuredNow, InsuranceAssumption, PoolAssumption
<1>6. /\ ledger'.backstop_tokens = Insured.tokens + n
      /\ QueuedPct' \in QueueLevels /\ BackstopMoves(Insured.tokens + n, QueuedPct')
  BY <1>1, <1>2, <1>3, LeavingIs
<1>7. BackstopDeposit(n, QueuedPct')
  BY <1>3, <1>6, InsuredNow DEF BackstopDeposit
<1>8. Next
  BY <1>5, <1>6, <1>7 DEF Next, EnvironmentStep, BackstopStep
<1> QED
  BY <1>1, <1>2, <1>3, <1>4, <1>6, <1>8 DEF Agree

LEMMA QueuesKeep ==
    ASSUME InsuranceInv, NEW u \in Depositors, NEW n \in Queues, DepositorQueues(u, n)
    PROVE  BackstopSide /\ Next /\ Agree'
<1>1. /\ B!QueueWithdrawal(u, PoolAddress, n) \/ B!DequeueWithdrawal(u, PoolAddress, n)
      /\ q4w_pct' = QueuedPct' /\ Leaving(Insured.tokens)
  BY DEF DepositorQueues
<1>2. BackstopSide
  BY <1>1 DEF BackstopSide
<1>3. /\ now' = now
      /\ \E m : pool_balance' = [pool_balance EXCEPT ![PoolAddress].q4w = m]
  BY <1>1, Zenon DEF B!QueueWithdrawal, B!DequeueWithdrawal
<1>4. Insured'.tokens = Insured.tokens
  <2>1. PICK m : Insured' = [Insured EXCEPT !.q4w = m]
    BY <1>3, InsuredNow DEF Insured
  <2> QED
    BY <2>1, InsuredNow DEF BP!PoolBalance
<1>5. /\ ledger'.backstop_tokens = Insured.tokens
      /\ QueuedPct' \in QueueLevels /\ BackstopMoves(Insured.tokens, QueuedPct')
  BY <1>1, <1>2, <1>3, LeavingIs
<1>6. BackstopDeposit(0, QueuedPct') /\ 0 \in BackstopAmounts
  BY <1>5, InsuredNow, InsuranceAssumption, PoolAssumption DEF BackstopDeposit
<1>7. Next
  BY <1>5, <1>6 DEF Next, EnvironmentStep, BackstopStep
<1> QED
  BY <1>1, <1>2, <1>4, <1>5, <1>7, InsuredNow DEF Agree

LEMMA LeavesKeep ==
    ASSUME InsuranceInv, NEW u \in Depositors, NEW n \in Withdrawals, DepositorLeaves(u, n)
    PROVE  BackstopSide /\ Next /\ Agree'
<1> DEFINE paid == B!ConvertToTokens(Insured, n)
<1>1. B!Withdraw(u, PoolAddress, n) /\ q4w_pct' = QueuedPct' /\ Leaving(Insured.tokens - paid)
  BY DEF DepositorLeaves
<1>2. BackstopSide
  BY <1>1 DEF BackstopSide
<1>3. /\ paid <= Insured.tokens /\ now' = now /\ ~Indebted
      /\ pool_balance' = [pool_balance EXCEPT ![PoolAddress] =
                             B!WithdrawFrom(pool_balance[PoolAddress], paid, n)]
  BY <1>1 DEF B!Withdraw, B!CanWithdrawFrom, Insured
<1>4. paid \in Nat
  <2>1. n \in Nat
    BY InsuranceAssumption
  <2>2. paid = BP!ConvertToTokens(Insured, n)
    BY DEF B!ConvertToTokens, BP!ConvertToTokens, B!MulFloor, BP!MulFloor, B!FloorDiv, BP!FloorDiv
  <2> HIDE DEF paid
  <2>3. paid \in Nat
    BY <2>1, <2>2, InsuredNow, BackstopSettings, BP!ConvertNat
  <2> QED
    BY <2>3
<1> HIDE DEF paid
<1>5. Insured'.tokens = Insured.tokens - paid
  <2>1. Insured' = B!WithdrawFrom(Insured, paid, n)
    BY <1>3, InsuredNow DEF Insured
  <2> QED
    BY <2>1, InsuredNow DEF B!WithdrawFrom, BP!PoolBalance
<1>6. /\ ledger'.backstop_tokens = Insured.tokens - paid
      /\ QueuedPct' \in QueueLevels /\ BackstopMoves(Insured.tokens - paid, QueuedPct')
  BY <1>1, <1>2, <1>3, LeavingIs
<1>7. BackstopWithdraw(paid, QueuedPct') /\ paid \in BackstopAmounts
  <2>1. paid \in 0..MaxBackstopTokens
    BY <1>3, <1>4, InsuredNow, PoolAssumption
  <2> QED
    BY <2>1, <1>3, <1>6, InsuredNow, InsuranceAssumption DEF BackstopWithdraw, Indebted
<1>8. Next
  BY <1>6, <1>7 DEF Next, EnvironmentStep, BackstopStep
<1>9. Insured'.tokens <= MaxBackstopTokens
  BY <1>3, <1>4, <1>5, InsuredNow, PoolAssumption
<1> QED
  BY <1>1, <1>2, <1>5, <1>6, <1>8, <1>9 DEF Agree

\* A step that moves no tokens is nothing to the backstop, or time that passes,
\* or bad debt that comes or goes.
LEMMA StillBackstop ==
    ASSUME UNCHANGED <<pool_balance, user_balance, moves>>,
           now' = now \/ \E dt \in Ticks : Tick(dt)
    PROVE  BackstopSide
<1>1. UNCHANGED Insured
  BY DEF Insured
<1>2. CASE \E dt \in Ticks : Tick(dt)
  <2>1. PICK dt \in Ticks : Tick(dt)
    BY <1>2
  <2>2. UNCHANGED ledger /\ now' = now + dt /\ now + dt <= MaxTime
    BY <2>1 DEF Tick
  <2>3. UNCHANGED Indebted
    BY <2>2 DEF Indebted
  <2>4. B!Tick(dt)
    BY <1>1, <2>2, <2>3 DEF B!Tick, B!balanceVars, B!emissionVars
  <2> QED
    BY <2>4 DEF BackstopSide
<1>3. CASE now' = now /\ UNCHANGED Indebted
  <2>1. UNCHANGED B!backstopVars
    BY <1>1, <1>3 DEF B!backstopVars
  <2> QED
    BY <2>1 DEF BackstopSide
<1>4. CASE now' = now /\ Indebted' # Indebted
  <2> DEFINE flag(x) == IF x THEN {PoolAddress} ELSE {}
  <2>1. Indebted \in BOOLEAN /\ Indebted' \in BOOLEAN
    BY DEF Indebted, HasLiabilities
  <2>2. flag(Indebted') = IF PoolAddress \in flag(Indebted) THEN flag(Indebted) \ {PoolAddress}
                          ELSE flag(Indebted) \cup {PoolAddress}
    BY <1>4, <2>1
  <2>3. B!BadDebtChanges(PoolAddress)
    BY <1>1, <1>4, <2>2 DEF B!BadDebtChanges, B!balanceVars, B!emissionVars
  <2> QED
    BY <2>3 DEF BackstopSide
<1> QED
  BY <1>2, <1>3, <1>4

\* Draws and donations are the pool's calls, for the tokens its ledger counts.
LEMMA PoolMovesKeep ==
    ASSUME InsuranceInv, PoolMoves
    PROVE  BackstopSide /\ Next /\ Agree'
<1>1. /\ PoolSide /\ Next /\ q4w_pct' = q4w_pct
      /\ now' = now \/ \E dt \in Ticks : Tick(dt)
  BY PoolSideKeeps DEF PoolMoves
<1>2. ledger' \in Ledger
  BY <1>1, StepFacts DEF InsuranceInv
<1> DEFINE old == ledger.backstop_tokens
           new == ledger'.backstop_tokens
<1>3. new \in Nat /\ old \in Nat /\ old = Insured.tokens /\ Paid = old - new
      /\ MaxBackstopTokens \in Nat
  BY <1>2, InsuredNow, PoolAssumption DEF Ledger, Paid
<1> HIDE DEF old, new
<1>4. CASE Paid = 0 /\ UNCHANGED <<pool_balance, user_balance, moves>>
  <2>1. BackstopSide
    BY <1>1, <1>4, StillBackstop
  <2>2. UNCHANGED Insured /\ UNCHANGED QueuedPct /\ new = old
    BY <1>3, <1>4 DEF Insured, QueuedPct
  <2> QED
    BY <1>1, <1>3, <2>1, <2>2, InsuredNow DEF Agree, InsuranceInv, new
<1>5. ASSUME Insured'.shares = Insured.shares, Insured'.q4w = Insured.q4w
      PROVE  UNCHANGED QueuedPct
  BY <1>5 DEF QueuedPct
<1>6. CASE Paid > 0 /\ B!Draw(PoolAddress, Paid)
  <2>1. Paid \in 1..MaxBackstopTokens
    BY <1>3, <1>6, InsuredNow
  <2>2. BackstopSide
    BY <1>6, <2>1 DEF BackstopSide
  <2>3. pool_balance' = [pool_balance EXCEPT ![PoolAddress] =
                            B!WithdrawFrom(pool_balance[PoolAddress], Paid, 0)]
    BY <1>6 DEF B!Draw
  <2>4. Insured' = B!WithdrawFrom(Insured, Paid, 0)
    BY <2>3, InsuredNow DEF Insured
  <2>5. /\ Insured'.tokens = Insured.tokens - Paid
        /\ Insured'.shares = Insured.shares - 0 /\ Insured'.q4w = Insured.q4w - 0
    BY <2>4, InsuredNow DEF B!WithdrawFrom, BP!PoolBalance
  <2>6. Insured'.tokens = Insured.tokens - Paid /\ UNCHANGED QueuedPct
    BY <1>5, <2>5, InsuredNow
  <2> QED
    BY <1>1, <1>3, <1>6, <2>2, <2>6, InsuredNow DEF Agree, InsuranceInv, new
<1>7. CASE Paid < 0 /\ B!Donate(PoolAddress, -Paid)
  <2>1. /\ pool_balance[PoolAddress].tokens + (-Paid) <= MaxBackstopTokens
        /\ pool_balance' = [pool_balance EXCEPT ![PoolAddress] =
                            B!DepositInto(pool_balance[PoolAddress], -Paid, 0)]
    BY <1>7 DEF B!Donate
  <2>2. -Paid \in 1..MaxBackstopTokens
    BY <1>3, <1>7, <2>1, InsuredNow
  <2>3. BackstopSide
    BY <1>7, <2>2 DEF BackstopSide
  <2>4. Insured' = B!DepositInto(Insured, -Paid, 0)
    BY <2>1, InsuredNow DEF Insured
  <2>5. /\ Insured'.tokens = Insured.tokens + (-Paid)
        /\ Insured'.shares = Insured.shares + 0 /\ Insured'.q4w = Insured.q4w
    BY <2>4, InsuredNow DEF B!DepositInto, BP!PoolBalance
  <2>6. Insured'.tokens = Insured.tokens + (-Paid) /\ UNCHANGED QueuedPct
    BY <1>5, <2>5, InsuredNow
  <2> QED
    BY <1>1, <1>3, <1>7, <2>1, <2>3, <2>6, InsuredNow DEF Agree, InsuranceInv, new
<1> QED
  BY <1>4, <1>6, <1>7 DEF PoolMoves

LEMMA StepOfBoth ==
    ASSUME InsuranceInv, InsuranceNext
    PROVE  InsuranceInv' /\ Next /\ [B!Next]_(B!backstopVars)
<1>1. BackstopSide /\ Next /\ Agree'
  BY JoinsKeep, QueuesKeep, LeavesKeep, PoolMovesKeep DEF InsuranceNext
<1>2. [B!Next]_(B!backstopVars) /\ BP!BackstopInv'
  BY <1>1, BackstopSideSteps, BackstopSideKeeps DEF InsuranceInv
<1>3. SafeInv' /\ InsurableInv'
  BY <1>1, NextIsSafe, InsurableKept DEF InsuranceInv
<1> QED
  BY <1>1, <1>2, <1>3 DEF InsuranceInv

LEMMA StutterOfBoth ==
    ASSUME InsuranceInv, UNCHANGED insuranceVars
    PROVE  InsuranceInv' /\ UNCHANGED poolVars /\ UNCHANGED B!backstopVars
<1>1. UNCHANGED poolVars /\ UNCHANGED <<pool_balance, user_balance, moves>>
  BY DEF insuranceVars
<1>2. UNCHANGED ledger /\ UNCHANGED now /\ UNCHANGED q4w_pct
  BY <1>1 DEF poolVars, vars
<1>3. UNCHANGED Insured /\ UNCHANGED Indebted /\ UNCHANGED QueuedPct
  BY <1>1, <1>2 DEF Insured, Indebted, QueuedPct
<1>4. UNCHANGED B!backstopVars
  BY <1>1, <1>2, <1>3 DEF B!backstopVars
<1>5. BP!BackstopInv'
  BY <1>4, BackstopSideKeeps DEF BackstopSide, InsuranceInv
<1>6. SafeInv' /\ InsurableInv'
  BY <1>1, StutterIsSafe, InsurableStutter DEF InsuranceInv
<1>7. Agree'
  BY <1>2, <1>3 DEF InsuranceInv, Agree
<1> QED
  BY <1>1, <1>4, <1>5, <1>6, <1>7 DEF InsuranceInv

-----------------------------------------------------------------------------
(* The first deposit.                                                      *)

LEMMA FirstStakes ==
    ASSUME NEW first \in Depositors, NEW f, f = [u \in Depositors |-> IF u = first THEN InitialTokens ELSE 0]
    PROVE  BP!SumFunction(f) = InitialTokens
<1> DEFINE none == [u \in Depositors |-> 0]
<1>1. InitialTokens \in Nat /\ BP!IsFiniteSet(Depositors)
  BY BackstopSettings, PoolAssumption DEF BP!BackstopAssumption
<1>2. /\ none \in [Depositors -> Nat] /\ none \in [Depositors -> Int]
      /\ \A u \in Depositors : none[u] = 0
  OBVIOUS
<1>3. /\ f \in [Depositors -> Int] /\ f[first] = InitialTokens
      /\ \A u \in Depositors \ {first} : f[u] = none[u]
  BY <1>1
<1> HIDE DEF none
<1>4. BP!SumFunction(none) = 0
  BY <1>1, <1>2, BackstopSettings, BP!SumFunctionZero
<1>5. BP!SumFunction(f) = BP!SumFunction(none) + f[first] - none[first]
  BY <1>1, <1>2, <1>3, BackstopSettings, BP!SumFunctionUpdate
<1> QED
  BY <1>1, <1>2, <1>3, <1>4, <1>5

LEMMA NothingQueued == BP!Queued(<<>>) = 0
<1>1. <<>> \in BP!Queue /\ Len(<<>>) = 0
  BY DEF BP!Queue
<1> DEFINE q == <<>>
<1> HIDE DEF q
<1>2. q \in BP!Queue => BP!Queued(q) = BP!QueuedUpTo(q, Len(q)) /\ BP!QueuedUpTo(q, 0) = 0
  BY BackstopSettings, BP!QueuedSums
<1> QED
  BY <1>1, <1>2 DEF q

LEMMA DepositMade ==
    ASSUME Init, FirstDeposit
    PROVE  BP!BackstopInv
<1>0. /\ InitialTokens \in Nat /\ now \in Nat /\ 0 \in Nat
      /\ BP!IsFiniteSet(Depositors) /\ BP!IsFiniteSet({PoolAddress})
  BY BackstopSettings, PoolAssumption DEF BP!BackstopAssumption, Init
<1>1. PICK first \in Depositors :
        user_balance = [p \in {PoolAddress} |-> [u \in Depositors |->
           [shares |-> IF u = first THEN InitialTokens ELSE 0, q4w |-> <<>>]]]
  BY DEF FirstDeposit
<1>2. /\ pool_balance = [p \in {PoolAddress} |->
           [shares |-> InitialTokens, tokens |-> InitialTokens, q4w |-> 0]]
      /\ pool_balance[PoolAddress] = [shares |-> InitialTokens, tokens |-> InitialTokens, q4w |-> 0]
      /\ Insured.tokens = InitialTokens /\ moves = 0
  BY DEF FirstDeposit, Insured
<1>3. BP!BackstopTypeOK
  <2>1. /\ <<>> \in Seq(BP!Q4W)
        /\ pool_balance \in [{PoolAddress} -> BP!PoolBalance]
    BY <1>0, <1>2 DEF BP!PoolBalance
  <2>2. user_balance \in [{PoolAddress} -> [Depositors -> BP!UserBalance]]
    BY <1>0, <1>1, <2>1 DEF BP!UserBalance
  <2>3. [p \in {PoolAddress} |-> NoData] \in [{PoolAddress} -> BP!EmissionData \cup {NoData}]
    OBVIOUS
  <2>4. [p \in {PoolAddress} |-> [u \in Depositors |-> NoData]]
           \in [{PoolAddress} -> [Depositors -> BP!UserEmissionData \cup {NoData}]]
    OBVIOUS
  <2>5. [zone |-> {}, accrued |-> [p \in {PoolAddress} |-> 0],
         gulped_at |-> [p \in {PoolAddress} |-> 0],
         last_distribution |-> 0, status |-> "Unset", backfill |-> 0] \in BP!Rewards
    <3> DEFINE zeros == [p \in {PoolAddress} |-> 0]
    <3>1. zeros \in [{PoolAddress} -> Nat]
      OBVIOUS
    <3> HIDE DEF zeros
    <3>2. [zone |-> {}, accrued |-> zeros, gulped_at |-> zeros,
           last_distribution |-> 0, status |-> "Unset", backfill |-> 0] \in BP!Rewards
      BY <3>1 DEF BP!Rewards
    <3> QED
      BY <3>2 DEF zeros
  <2>6. [lp |-> Insured.tokens, blnd |-> 0, allowance |-> [p \in {PoolAddress} |-> 0]]
           \in [lp : Nat, blnd : Nat, allowance : [{PoolAddress} -> Nat]]
    BY <1>0, <1>2
  <2>7. [last |-> NoData, dropped |-> FALSE] \in [last : Nat \cup {NoData}, dropped : BOOLEAN]
    OBVIOUS
  <2>8. now \in Nat /\ moves \in Nat /\ {PoolAddress} \subseteq {PoolAddress}
        /\ (IF Indebted THEN {PoolAddress} ELSE {}) \subseteq {PoolAddress}
    BY <1>0, <1>2
  <2> QED
    BY <2>1, <2>2, <2>3, <2>4, <2>5, <2>6, <2>7, <2>8, Zenon DEF BP!BackstopTypeOK
<1>4. BP!BackstopSharesAddUp
  <2> DEFINE ub == user_balance[PoolAddress]
             stakes == [u \in Depositors |-> BP!UserStake(ub[u])]
             queues == [u \in Depositors |-> BP!Queued(ub[u].q4w)]
  <2>1. \A u \in Depositors : /\ ub[u].q4w = <<>>
                               /\ ub[u].shares = IF u = first THEN InitialTokens ELSE 0
    BY <1>1
  <2> HIDE DEF ub
  <2>2. \A u \in Depositors : /\ queues[u] = 0
                               /\ stakes[u] = IF u = first THEN InitialTokens ELSE 0
    BY <1>0, <2>1, NothingQueued DEF BP!UserStake
  <2>3. stakes = [u \in Depositors |-> IF u = first THEN InitialTokens ELSE 0]
    BY <2>2
  <2>4. queues \in [Depositors -> Nat]
    BY <2>2
  <2> HIDE DEF stakes, queues
  <2>5. BP!SumFunction(stakes) = InitialTokens /\ BP!SumFunction(queues) = 0
    BY <1>0, <2>2, <2>3, <2>4, FirstStakes, BackstopSettings, BP!SumFunctionZero
  <2>6. BP!Accounts(pool_balance[PoolAddress], ub)
    BY <1>2, <2>5 DEF BP!Accounts, stakes, queues
  <2> QED
    BY <2>6, BackstopSettings, BP!SharesAddUpIsAccounts DEF ub
<1>5. BP!DepositsBacked
  <2> DEFINE none == [p \in {PoolAddress} |-> 0]
             deposits == [p \in {PoolAddress} |-> pool_balance[p].tokens]
  <2>1. /\ none \in [{PoolAddress} -> Nat] /\ none \in [{PoolAddress} -> Int]
        /\ \A p \in {PoolAddress} : none[p] = 0
    OBVIOUS
  <2>2. deposits \in [{PoolAddress} -> Int] /\ deposits[PoolAddress] = InitialTokens
        /\ \A p \in {PoolAddress} \ {PoolAddress} : deposits[p] = none[p]
    BY <1>0, <1>2
  <2> HIDE DEF none, deposits
  <2>3. BP!SumFunction(none) = 0
    BY <1>0, <2>1, BackstopSettings, BP!SumFunctionZero
  <2>4. BP!SumFunction(deposits) = BP!SumFunction(none) + deposits[PoolAddress] - none[PoolAddress]
    BY <1>0, <2>1, <2>2, BackstopSettings, BP!SumFunctionUpdate
  <2>5. BP!SumFunction(deposits) = InitialTokens
    BY <1>0, <2>1, <2>2, <2>3, <2>4
  <2> QED
    BY <1>0, <1>2, <2>5 DEF BP!DepositsBacked, BP!OfPools, deposits
<1>6. BP!EmissionsInOrder /\ BP!OnlyFactoryPools
  BY DEF BP!EmissionsInOrder, BP!OnlyFactoryPools
<1> QED
  BY <1>3, <1>4, <1>5, <1>6 DEF BP!BackstopInv

LEMMA StartOfBoth ==
    ASSUME InsuranceInit
    PROVE  InsuranceInv
<1>1. Init /\ FirstDeposit
  BY DEF InsuranceInit
<1>2. SafeInv /\ InsurableInv /\ BP!BackstopInv
  BY <1>1, InitIsSafe, InsurableInit, DepositMade
<1>3. /\ pool_balance[PoolAddress] = [shares |-> InitialTokens, tokens |-> InitialTokens, q4w |-> 0]
      /\ q4w_pct = 0 /\ ledger.backstop_tokens = InitialTokens
  BY <1>1 DEF FirstDeposit, Init, InitialLedger
<1>4. InitialTokens \in Nat /\ InitialTokens <= MaxBackstopTokens /\ MaxBackstopTokens \in Nat
  BY PoolAssumption, InsuranceAssumption
<1>5. QueuedPct = 0
  <2>1. Insured.q4w = 0 /\ Insured.shares = InitialTokens
    BY <1>3 DEF Insured
  <2>2. Scalar7 \in Nat \ {0}
    BY ScalarAssumption
  <2>3. InitialTokens # 0 => DivCeil(0, InitialTokens, Scalar7) = 0
    <3>1. 0 * Scalar7 = 0
      BY <2>2
    <3>2. ASSUME NEW d \in Nat \ {0} PROVE CeilDiv(0, d) = 0
      <4>1. CeilDiv(0, d) \in Nat /\ 0 <= d * 0
        BY CeilDivNat
      <4>2. CeilDiv(0, d) <= 0
        BY <4>1, CeilDivUpper
      <4> QED
        BY <4>1, <4>2
    <3> QED
      BY <1>4, <3>1, <3>2 DEF DivCeil
  <2>4. (100 * 0) \div Scalar7 = 0
    BY <2>2
  <2> QED
    BY <2>1, <2>3, <2>4 DEF QueuedPct
<1>6. Agree
  BY <1>3, <1>4, <1>5 DEF Agree, Insured
<1> QED
  BY <1>2, <1>6 DEF InsuranceInv

-----------------------------------------------------------------------------
(* The theorems about the two of them.                                     *)

\* Under all that depositors, bidders, borrowers and the clock can do, what the
\* pool knows of its backstop is true, and both contracts keep their books.
THEOREM InsuranceInvariant == InsuranceSpec => []InsuranceInv
<1>1. InsuranceInit => InsuranceInv
  BY StartOfBoth
<1>2. InsuranceInv /\ [InsuranceNext]_insuranceVars => InsuranceInv'
  BY StepOfBoth, StutterOfBoth
<1> QED
  BY <1>1, <1>2, PTL DEF InsuranceSpec

\* The pool with the real backstop is a behaviour of the pool with one that may
\* do anything: what is proved of Spec holds of the two together.
THEOREM InsuranceImplementsPool == InsuranceSpec => Spec
<1>1. InsuranceInit => Init
  BY DEF InsuranceInit
<1>2. InsuranceInv /\ [InsuranceNext]_insuranceVars => [Next]_poolVars
  BY StepOfBoth, StutterOfBoth
<1> QED
  BY <1>1, <1>2, InsuranceInvariant, PTL DEF InsuranceSpec, Spec

\* What each contract takes for granted of the other is what the other does:
\* the pool's count of its backstop's tokens and queue is never stale, and every
\* draw, donation, withdrawal and change of bad debt is one the backstop allows.
THEOREM ContractsDoAgree == InsuranceSpec => ContractsAgree
<1>1. InsuranceInv /\ InsuranceInv' /\ [InsuranceNext]_insuranceVars
        => /\ [Next /\ ledger'.backstop_tokens = Insured'.tokens
                    /\ q4w_pct' = QueuedPct']_poolVars
           /\ [B!Next]_(B!backstopVars)
  BY StepOfBoth, StutterOfBoth DEF InsuranceInv, Agree
<1> QED
  BY <1>1, InsuranceInvariant, PTL DEF InsuranceSpec, ContractsAgree

\* Whoever fills a bad debt auction is paid: the lot is in the backstop, however
\* much of it was filled before and whoever of the depositors wants to leave.
THEOREM LotIsFunded == InsuranceSpec => []LotFunded
<1>1. InsuranceInv => LotFunded
  BY DEF InsuranceInv, InsurableInv, Insurable, LotBacked, BidOn, LotFunded, Agree
<1> QED
  BY <1>1, InsuranceInvariant, PTL

\* Bad debt never gets stuck in the backstop, and never locks depositors in, in
\* the two contracts together.
THEOREM DepositorsNotLockedIn == InsuranceSpec => []BadDebtResolvable
  BY InsuranceImplementsPool, BadDebtNeverStuck, PTL
=============================================================================
