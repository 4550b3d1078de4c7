------------------------------ MODULE PoolState ------------------------------
(***************************************************************************)
(* What a lending pool contract keeps, and the operations on positions and *)
(* reserves that every entry point is built from: pool/src/pool/pool.rs,   *)
(* user.rs, health_factor.rs and bad_debt.rs.                              *)
(*                                                                         *)
(* An invocation of a Soroban contract either commits all its writes or    *)
(* none, and no other invocation runs in between.  `ledger' holds what is  *)
(* committed; an invocation works on a copy of it, held in `call.ledger'   *)
(* while its requests are applied one by one, which a commit installs and  *)
(* an abort drops.  The operators below map such a copy to the next one.   *)
(*                                                                         *)
(* Every change of a balance also settles the emissions it earned, which   *)
(* touches nothing of this: that part of user.rs is in PoolEmissions.      *)
(***************************************************************************)
EXTENDS Reserve, FiniteSets, Functions

CONSTANTS
    Assets,            \* the pool's reserves
    Users,             \* accounts that call the pool
    Backstop,          \* the backstop's address: it may only hold bad debt
    BackstopToken,     \* the token the backstop is denominated in
    NoAuction,         \* absence of an auction
    NoCall,            \* no invocation under way
    OracleScalar,      \* 10^decimals of the price oracle
    MinHealthFactor,   \* 1_0000100 in validate_submit (7 decimals)
    ThresholdTokens,   \* backstop tokens worth 100% of the threshold
    DefaultTokens      \* fewer tokens than this are worth less than ~5% of it

Accounts == Users \cup {Backstop}
Tokens == Assets \cup {BackstopToken}

ASSUME StateAssumption ==
    /\ IsFiniteSet(Assets) /\ IsFiniteSet(Users)
    /\ Backstop \notin Users /\ BackstopToken \notin Assets
    /\ OracleScalar \in Nat \ {0}
    /\ MinHealthFactor \in Nat /\ MinHealthFactor > Scalar7
    /\ ThresholdTokens \in Nat /\ DefaultTokens \in Nat
    /\ DefaultTokens <= ThresholdTokens

VARIABLES
    now,      \* ledger sequence number and timestamp: one ledger per time unit
    price,    \* the oracle: a price per asset, 0 when load_price would panic
    config,   \* PoolConfig, the reserve configurations, and those queued
    q4w_pct,  \* share of the pool's backstop deposit queued for withdrawal
    ledger,   \* committed contract storage and token balances
    call      \* the submit invocation under way, or NoCall

vars == <<now, price, config, q4w_pct, ledger, call>>

NoShares == [a \in Assets |-> 0]

\* Positions: a map from reserve to shares.  The maps never hold a zero (a
\* balance that reaches zero is removed), so an absent key is written 0.
Positions ==
    [liabilities : [Assets -> Nat], collateral : [Assets -> Nat],
     supply : [Assets -> Nat]]

NoPositions == [liabilities |-> NoShares, collateral |-> NoShares, supply |-> NoShares]

Auction == [bid : [Tokens -> Nat], lot : [Tokens -> Nat], block : Nat]

Ledger ==
    [reserves : [Assets -> ReserveData],
     positions : [Accounts -> Positions],
     liquidation : [Users -> Auction \cup {NoAuction}],  \* UserLiquidation
     bad_debt : Auction \cup {NoAuction},                \* BadDebtAuction
     interest : Auction \cup {NoAuction},                \* InterestAuction
     balance : [Assets -> Int],                          \* tokens the pool holds
     backstop_tokens : Nat]                              \* tokens its backstop holds

Held(shares) == {a \in Assets : shares[a] > 0}
HasLiabilities(p) == Held(p.liabilities) # {}
HasCollateral(p)  == Held(p.collateral) # {}
EffectiveCount(p) == Cardinality(Held(p.liabilities)) + Cardinality(Held(p.collateral))

-----------------------------------------------------------------------------
(* Pool::load_reserve.  A reserve of the working copy is brought up to the *)
(* current time the first time it is needed; Load is idempotent, which is  *)
(* what the cache of the code is for.  Reserves loaded only to be read     *)
(* (store = false) are computed on the spot and leave no trace.            *)

LoadedReserve(w, a) == Load(w.reserves[a], config.reserves[a], config.bstop_rate, now)

LoadReserves(w, S) ==
    [w EXCEPT !.reserves = [a \in Assets |-> IF a \in S THEN LoadedReserve(w, a) ELSE @[a]]]

-----------------------------------------------------------------------------
(* User::add_* and User::remove_*: a position and the matching total of    *)
(* the reserve move together.                                              *)

AddLiabilities(w, u, a, n) ==
    [w EXCEPT !.positions[u].liabilities[a] = @ + n, !.reserves[a].d_supply = @ + n]
RemoveLiabilities(w, u, a, n) ==
    [w EXCEPT !.positions[u].liabilities[a] = @ - n, !.reserves[a].d_supply = @ - n]
AddCollateral(w, u, a, n) ==
    [w EXCEPT !.positions[u].collateral[a] = @ + n, !.reserves[a].b_supply = @ + n]
RemoveCollateral(w, u, a, n) ==
    [w EXCEPT !.positions[u].collateral[a] = @ - n, !.reserves[a].b_supply = @ - n]
AddSupply(w, u, a, n) ==
    [w EXCEPT !.positions[u].supply[a] = @ + n, !.reserves[a].b_supply = @ + n]
\* Mutant of RemoveSupply: the total of the reserve is forgotten.
RemoveSupplyOnly(w, u, a, n) == [w EXCEPT !.positions[u].supply[a] = @ - n]

RemoveSupply(w, u, a, n) ==
    [w EXCEPT !.positions[u].supply[a] = @ - n, !.reserves[a].b_supply = @ - n]

\* rm_positions from `from' followed by add_positions to `to': shares change
\* hands, the totals of the (loaded) reserves do not change.
CanRemovePositions(w, u, coll, liab) ==
    \A a \in Assets : /\ coll[a] <= w.positions[u].collateral[a]
                      /\ liab[a] <= w.positions[u].liabilities[a]

Sub(f, g) == [a \in Assets |-> f[a] - g[a]]
Add(f, g) == [a \in Assets |-> f[a] + g[a]]

RmPositions(p, coll, liab) ==
    [p EXCEPT !.collateral = Sub(@, coll), !.liabilities = Sub(@, liab)]

AddPositions(p, coll, liab) ==
    [p EXCEPT !.collateral = Add(@, coll), !.liabilities = Add(@, liab)]

MovePositions(w, from, to, coll, liab) ==
    [LoadReserves(w, Held(coll) \cup Held(liab)) EXCEPT
        !.positions[from] = RmPositions(@, coll, liab),
        !.positions[to] = AddPositions(@, coll, liab)]

-----------------------------------------------------------------------------
(* Health: PositionData.                                                   *)

\* Every price needed is fresh and positive, and no reserve with a zero
\* liability factor (a zero divisor) is borrowed.
Priceable(p) ==
    /\ \A a \in Held(p.collateral) \cup Held(p.liabilities) : price[a] > 0
    /\ \A a \in Held(p.liabilities) : config.reserves[a].l_factor > 0

\* Amounts of underlying in the oracle's decimals, rounded per asset.
FloorValue(amounts) ==
    SumFunction([a \in DOMAIN amounts |->
                   MulFloor(price[a], amounts[a], config.reserves[a].scalar)])
CeilValue(amounts) ==
    SumFunction([a \in DOMAIN amounts |->
                   MulCeil(price[a], amounts[a], config.reserves[a].scalar)])

PositionData(r, coll, liab) ==
    LET cfg == config.reserves
    IN [collateral_base |->
            FloorValue([a \in Held(coll) |-> ToEffectiveFromB(r[a], cfg[a], coll[a])]),
        collateral_raw  |->
            FloorValue([a \in Held(coll) |-> ToAssetFromB(r[a], coll[a])]),
        liability_base  |->
            CeilValue([a \in Held(liab) |-> ToEffectiveFromD(r[a], cfg[a], liab[a])]),
        liability_raw   |->
            CeilValue([a \in Held(liab) |-> ToAssetFromD(r[a], liab[a])])]

CalculateFromPositions(w, p) ==
    PositionData([a \in Assets |-> LoadedReserve(w, a)], p.collateral, p.liabilities)

AsHealthFactor(data) == DivFloor(data.collateral_base, data.liability_base, OracleScalar)

IsHfOver(data, max) ==
    data.liability_base = 0 \/ AsHealthFactor(data) > MulCeil(OracleScalar, max, Scalar7)
IsHfUnder(data, min) ==
    data.liability_base # 0 /\ AsHealthFactor(data) < MulFloor(OracleScalar, min, Scalar7)

-----------------------------------------------------------------------------
(* Bad debt.                                                               *)

\* Mutant of HasBadDebt: collateral that is left does not matter.
AnyDebtIsBad(p) == HasLiabilities(p)

\* check_and_handle_user_bad_debt: debt without collateral goes to the backstop.
HasBadDebt(p) == HasLiabilities(p) /\ ~HasCollateral(p)

HandleUserBadDebt(w, u) ==
    MovePositions(w, u, Backstop, NoShares, w.positions[u].liabilities)

\* Mutant of MustDefault: what is left in the backstop is not looked at.
DefaultAlways(w) == HasLiabilities(w.positions[Backstop])

\* check_and_handle_backstop_bad_debt: too little is left in the backstop to
\* auction, so its debt is forgiven at the suppliers' expense.
MustDefault(w) ==
    HasLiabilities(w.positions[Backstop]) /\ w.backstop_tokens < DefaultTokens

CanDefault(w) == \A a \in Held(w.positions[Backstop].liabilities) : CanWriteOff(w.reserves[a])

Forgive(r, d) == WriteOff([r EXCEPT !.d_supply = @ - d], d)

DefaultBackstopDebt(w) ==
    LET debt == w.positions[Backstop].liabilities
    IN [LoadReserves(w, Held(debt)) EXCEPT
          !.reserves = [a \in Assets |-> IF debt[a] > 0 THEN Forgive(@[a], debt[a]) ELSE @[a]],
          !.positions[Backstop].liabilities = NoShares]
=============================================================================
