--------------------------- MODULE PoolProperties ---------------------------
(***************************************************************************)
(* What the lending pool must never get wrong.                             *)
(*                                                                         *)
(* An invariant is stated for a ledger, and holds of the committed one and *)
(* (where said) of the working copy of an invocation.  An action property  *)
(* about `ledger' sees a whole submit as the one step that commits it.     *)
(***************************************************************************)
EXTENDS Pool

View == IF call = NoCall THEN ledger ELSE call.ledger

Aborted == call # NoCall /\ call' = NoCall /\ ledger' = ledger

-----------------------------------------------------------------------------
(* Accounting.                                                             *)

SharesMatch(l) ==
    \A a \in Assets :
        LET p == l.positions
        IN /\ l.reserves[a].b_supply =
                SumFunction([u \in Accounts |-> p[u].collateral[a] + p[u].supply[a]])
           /\ l.reserves[a].d_supply =
                SumFunction([u \in Accounts |-> p[u].liabilities[a]])

\* Every b and d token of a reserve belongs to an account, and no account has
\* more than was minted: across requests, fills of auctions, debt handed to the
\* backstop and defaults, the positions add up to the totals of the reserve.
SharesAccounted == SharesMatch(View)

\* What the pool owes (deposits and backstop credit) beyond what it has (its
\* balance and what borrowers owe it).
Deficit(l, a) ==
    LET r == l.reserves[a]
    IN TotalSupply(r) + r.backstop_credit - TotalLiabilities(r) - l.balance[a]

\* No invocation makes the pool owe more than it has: all roundings, of share
\* conversions, interest and its split, auction fills, and defaults, favour the
\* pool.  The exception is a default on more debt than there are deposits,
\* which leaves the reserve with b_rate = 0.
DeficitNeverGrows ==
    [][\A a \in Assets :
         \/ Deficit(ledger', a) <= 0
         \/ Deficit(ledger', a) <= Deficit(ledger, a)
         \/ ledger'.reserves[a].b_rate = 0]_poolVars

\* Interest only adds up: a debt share is never worth less than before, and a
\* deposit share loses value only when the debt of a drained backstop is
\* forgiven - all of it, at that step.
RatesFallOnlyByDefault ==
    [][~Aborted =>
         \A a \in Assets :
            /\ View'.reserves[a].d_rate >= View.reserves[a].d_rate
            /\ View'.reserves[a].b_rate < View.reserves[a].b_rate =>
                 /\ View'.backstop_tokens < DefaultTokens
                 /\ View'.positions[Backstop].liabilities = NoShares
                 /\ View'.reserves[a].d_supply < View.reserves[a].d_supply]_poolVars

\* Tokens leave the pool for a depositor or a borrower only when what stays
\* covers the credit set aside for the backstop (the comment on
\* require_utilization_below_100), in a reserve where no debt was forgiven at
\* the same time.
BackstopCreditReserved ==
    [][\A a \in Assets :
         LET loaded == LoadedReserve(ledger, a)
             r == ledger'.reserves[a]
         IN (/\ Deficit(ledger, a) <= 0
             /\ r.b_rate >= loaded.b_rate
             /\ ledger'.balance[a] < ledger.balance[a]
             /\ ledger'.balance[a] - r.backstop_credit < ledger.balance[a] - loaded.backstop_credit)
            => ledger'.balance[a] >= r.backstop_credit]_poolVars

-----------------------------------------------------------------------------
(* Liquidations and bad debt.                                              *)

LiquidationCovered(l, u) ==
    l.liquidation[u] # NoAuction =>
        \A a \in Assets :
            /\ l.liquidation[u].lot[a] <= l.positions[u].collateral[a]
            /\ l.liquidation[u].bid[a] <= l.positions[u].liabilities[a]

BadDebtCovered(l) ==
    l.bad_debt # NoAuction =>
        \A a \in Assets : l.bad_debt.bid[a] <= l.positions[Backstop].liabilities[a]

InterestCovered(l) ==
    l.interest # NoAuction =>
        \A a \in Assets : l.interest.lot[a] <= LoadedReserve(l, a).backstop_credit

\* An auction can always be settled: what it sells is still there.  The user's
\* positions cannot move while they are auctioned, the backstop's debt only
\* shrinks through its own auction, and interest that was auctioned without
\* being stored is accrued again, at the old take rate, before anything else
\* changes it.  (Of the caller's own auction only once the submit is over.)
AuctionsCovered ==
    /\ \A u \in Users :
        (call = NoCall \/ call.from # u) => LiquidationCovered(View, u)
    /\ BadDebtCovered(View)
    /\ InterestCovered(View)

\* While a user is being liquidated, nothing but a fill touches the user's
\* positions: they never grow, deposits that are not collateral stay, and debt
\* shrinks only together with the auction.
FrozenWhileAuctioned ==
    [][\A u \in Users :
         (ledger.liquidation[u] # NoAuction /\ ledger'.liquidation[u] # NoAuction) =>
            LET p == ledger.positions[u]
                q == ledger'.positions[u]
            IN /\ q.supply = p.supply
               /\ \A a \in Assets : q.collateral[a] <= p.collateral[a]
                                    /\ q.liabilities[a] <= p.liabilities[a]
               /\ ledger'.liquidation[u] = ledger.liquidation[u] => q = p]_poolVars

Worse(p, q) ==
    \E a \in Assets : q.liabilities[a] > p.liabilities[a] \/ q.collateral[a] < p.collateral[a]

AllPriced(p) ==
    \A a \in Assets : p.collateral[a] + p.liabilities[a] > 0 => price[a] > 0

\* Taking on debt or giving up collateral leaves a user healthy, at the accrued
\* rates of that moment and at prices the oracle stands by for all a user in debt
\* holds, unless it is the user being liquidated.
WorseOnlyIfHealthy ==
    [][\A u \in Users :
         LET q == ledger'.positions[u]
         IN Worse(ledger.positions[u], q) =>
            \/ Healthy(ledger', q) /\ (HasLiabilities(q) => AllPriced(q))
            \/ ledger.liquidation[u] # NoAuction /\ call # NoCall /\ call.from # u]_poolVars

\* A liquidation ends early only by being filled, or by its user becoming healthy.
LiquidationEnds ==
    [][\A u \in Users :
         (/\ ledger.liquidation[u] # NoAuction /\ ledger'.liquidation[u] = NoAuction
          /\ ~IsStale(ledger.liquidation[u]))
         => \/ Healthy(ledger', ledger'.positions[u])
            \/ call # NoCall /\ call.from # u]_poolVars

\* The backstop only takes over debt that nothing backs any more, all of it.
DebtIsPassedOnWhole ==
    [][(/\ ~Aborted
        /\ \E a \in Assets : View'.positions[Backstop].liabilities[a]
                               > View.positions[Backstop].liabilities[a])
         => \E u \in Users :
              /\ HasLiabilities(View.positions[u])
              /\ ~HasLiabilities(View'.positions[u])
              /\ ~HasCollateral(View'.positions[u])]_poolVars

\* Between invocations no user is left with debt and no collateral: the fill
\* that takes the last collateral hands the rest of the debt to the backstop, so
\* the bad_debt entry point never finds a user to clean up after.
NoUserBadDebt == call = NoCall => \A u \in Users : ~HasBadDebt(ledger.positions[u])

\* Debt can always be valued: no one owes an asset whose liability factor is
\* zero, a divisor of every health check (and so of every liquidation), however
\* configurations are queued, cancelled and installed around borrowing, fills
\* and hand-overs to the backstop.
DebtPriceable ==
    call = NoCall =>
        \A u \in Accounts, a \in Assets :
            ledger.positions[u].liabilities[a] > 0 => config.reserves[a].l_factor > 0

\* While the backstop owes anything, its deposit only leaves by paying bidders.
BackstopHeldForBadDebt ==
    [][(HasLiabilities(ledger.positions[Backstop])
          /\ ledger'.backstop_tokens < ledger.backstop_tokens)
         => call # NoCall /\ ledger.bad_debt # NoAuction]_poolVars

\* On ice (status above 1) a pool issues no new debt and lets no user cancel a
\* liquidation that is not stale; frozen (above 3) it takes no deposit either:
\* in whatever combination of requests, flash loans, fills and hand-overs.
StatusRestricts ==
    [][/\ config.status > 1 =>
            /\ \A a \in Assets : ledger'.reserves[a].d_supply <= ledger.reserves[a].d_supply
            /\ \A u \in Users :
                 (/\ ledger.liquidation[u] # NoAuction /\ ~IsStale(ledger.liquidation[u])
                  /\ ledger'.liquidation[u] = NoAuction)
                 => call # NoCall /\ call.from # u
       /\ config.status > 3 =>
            \A a \in Assets : ledger'.reserves[a].b_supply <= ledger.reserves[a].b_supply]_poolVars

-----------------------------------------------------------------------------
(* The SaccoChain rule, as the README and the contract's comments state it.*)

Deposit(l, u, a) ==
    ToAssetFromB(LoadedReserve(l, a), l.positions[u].collateral[a])
        + ToAssetFromB(LoadedReserve(l, a), l.positions[u].supply[a])
Debt(l, u, a) == ToAssetFromD(LoadedReserve(l, a), l.positions[u].liabilities[a])

\* A submit with a Borrow leaves its user owing at most twice the deposit in
\* the same asset.
BorrowWithinTwiceDeposit ==
    [][\A u \in Users, a \in Assets :
         (/\ call # NoCall /\ call.from = u
          /\ ledger'.positions[u].liabilities[a] > ledger.positions[u].liabilities[a])
         => Debt(ledger', u, a) <= 2 * Deposit(ledger', u, a)]_poolVars
=============================================================================
