------------------------------ MODULE Auctions ------------------------------
(***************************************************************************)
(* The pool's three Dutch auctions: pool/src/auctions.                     *)
(*                                                                         *)
(*   liquidation   bid d tokens of the user, lot b tokens of the user      *)
(*   bad_debt      bid d tokens of the backstop, lot backstop tokens       *)
(*   interest      bid backstop tokens, lot underlying owed to the backstop*)
(*                                                                         *)
(* A fill hands over the bid and the lot scaled by the share filled and by *)
(* the blocks that passed: the lot ramps up to 100%, then the bid down to  *)
(* 0%.  The maps of the code drop zero amounts; here an absent key is 0.   *)
(***************************************************************************)
EXTENDS PoolState

CONSTANTS
    RampBlocks,         \* 200: blocks each ramp takes (0.5% a block)
    StaleBlocks,        \* 500: age at which anyone may delete an auction
    MinInterestValue,   \* 200: least value of an interest auction, in units
    SpotPrice           \* backstop token price reported by the backstop

ASSUME AuctionAssumption ==
    /\ RampBlocks \in Nat \ {0} /\ StaleBlocks \in Nat
    /\ MinInterestValue \in Nat /\ SpotPrice \in Nat \ {0}

OnlyAssets(f) == [a \in Assets |-> f[a]]
OverTokens(f) == [t \in Tokens |-> IF t \in DOMAIN f THEN f[t] ELSE 0]

-----------------------------------------------------------------------------
(* scale_auction                                                           *)

BidModifier(blocks) ==
    IF blocks <= RampBlocks THEN Scalar7
    ELSE IF blocks < 2 * RampBlocks
         THEN Scalar7 - (blocks - RampBlocks) * (Scalar7 \div RampBlocks)
         ELSE 0

LotModifier(blocks) ==
    IF blocks > RampBlocks THEN Scalar7 ELSE blocks * (Scalar7 \div RampBlocks)

\* A started auction can be filled, by 1% to 100%; block_dif is unsigned, so
\* filling before the first block traps.
CanScale(au, pct) == au # NoAuction /\ pct \in 1..100 /\ now >= au.block

FilledBase(au, pct) ==
    [bid |-> [t \in Tokens |-> MulCeil(au.bid[t], Percent7(pct), Scalar7)],
     lot |-> [t \in Tokens |-> MulFloor(au.lot[t], Percent7(pct), Scalar7)]]

ToFill(au, pct) ==
    LET base == FilledBase(au, pct)
        blocks == now - au.block
    IN [bid |-> [t \in Tokens |-> MulCeil(base.bid[t], BidModifier(blocks), Scalar7)],
        lot |-> [t \in Tokens |-> MulFloor(base.lot[t], LotModifier(blocks), Scalar7)]]

\* Mutant of Remaining: a partial fill does not reduce the stored auction.
RemainingUnscaled(au, pct) == IF pct = 100 THEN NoAuction ELSE au

\* What is stored afterwards: NoAuction when nothing is left on either side.
Remaining(au, pct) ==
    LET base == FilledBase(au, pct)
        rest == [bid |-> [t \in Tokens |-> au.bid[t] - base.bid[t]],
                 lot |-> [t \in Tokens |-> au.lot[t] - base.lot[t]],
                 block |-> au.block]
    IN IF \A t \in Tokens : rest.bid[t] = 0 /\ rest.lot[t] = 0 THEN NoAuction ELSE rest

-----------------------------------------------------------------------------
(* Fills.  CanFill* are the conditions under which the code does not trap, *)
(* Fill* the working copy afterwards.                                      *)

CanFillUserLiquidation(w, u, filler, pct) ==
    /\ u # filler
    /\ CanScale(w.liquidation[u], pct)
    /\ LET f == ToFill(w.liquidation[u], pct)
       IN CanRemovePositions(w, u, OnlyAssets(f.lot), OnlyAssets(f.bid))

\* Mutant of FillUserLiquidation: bad debt is looked for before the positions moved.
FillKeepingBadDebt(w, u, filler, pct) ==
    LET f == ToFill(w.liquidation[u], pct)
        rest == Remaining(w.liquidation[u], pct)
        moved == MovePositions(w, u, filler, OnlyAssets(f.lot), OnlyAssets(f.bid))
        settled == IF rest = NoAuction /\ HasBadDebt(w.positions[u])
                   THEN HandleUserBadDebt(moved, u) ELSE moved
    IN [settled EXCEPT !.liquidation[u] = rest]

FillUserLiquidation(w, u, filler, pct) ==
    LET f == ToFill(w.liquidation[u], pct)
        rest == Remaining(w.liquidation[u], pct)
        moved == MovePositions(w, u, filler, OnlyAssets(f.lot), OnlyAssets(f.bid))
        settled == IF rest = NoAuction /\ HasBadDebt(moved.positions[u])
                   THEN HandleUserBadDebt(moved, u) ELSE moved
    IN [settled EXCEPT !.liquidation[u] = rest]

\* draw_from the backstop before the remaining debt may be forgiven.
AfterBadDebtBid(w, filler, pct) ==
    LET f == ToFill(w.bad_debt, pct)
    IN [MovePositions(w, Backstop, filler, NoShares, OnlyAssets(f.bid))
          EXCEPT !.backstop_tokens = @ - f.lot[BackstopToken]]

CanFillBadDebt(w, filler, pct) ==
    /\ Backstop # filler
    /\ CanScale(w.bad_debt, pct)
    /\ LET f == ToFill(w.bad_debt, pct)
           defaulting == Remaining(w.bad_debt, pct) = NoAuction
                         /\ MustDefault(AfterBadDebtBid(w, filler, pct))
       IN /\ CanRemovePositions(w, Backstop, NoShares, OnlyAssets(f.bid))
          /\ f.lot[BackstopToken] <= w.backstop_tokens
          /\ defaulting => CanDefault(AfterBadDebtBid(w, filler, pct))

FillBadDebt(w, filler, pct) ==
    LET bid == AfterBadDebtBid(w, filler, pct)
        rest == Remaining(w.bad_debt, pct)
        settled == IF rest = NoAuction /\ MustDefault(bid)
                   THEN DefaultBackstopDebt(bid) ELSE bid
    IN [settled EXCEPT !.bad_debt = rest]

CanFillInterest(w, filler, pct) ==
    /\ Backstop # filler
    /\ CanScale(w.interest, pct)
    /\ \A a \in Assets : ToFill(w.interest, pct).lot[a] <= w.balance[a]

\* The bid is donated to the backstop, the lot leaves the pool at once.
FillInterest(w, pct) ==
    LET f == ToFill(w.interest, pct)
        lot == OnlyAssets(f.lot)
        l == LoadReserves(w, Held(lot))
    IN [l EXCEPT
          !.backstop_tokens = @ + f.bid[BackstopToken],
          !.reserves = [a \in Assets |-> [l.reserves[a] EXCEPT !.backstop_credit = @ - lot[a]]],
          !.balance = Sub(@, lot),
          !.interest = Remaining(w.interest, pct)]

-----------------------------------------------------------------------------
(* create_user_liq_auction_data.  `bid' and `lot' are sets of assets; each *)
(* must be held by the user.                                               *)

Auctioned(p, bid, lot) ==
    [liabilities |-> [a \in Assets |-> IF a \in bid THEN p.liabilities[a] ELSE 0],
     collateral  |-> [a \in Assets |-> IF a \in lot THEN p.collateral[a] ELSE 0],
     supply      |-> NoShares]

\* The liquidation of `part' out of the positions valued `all', where `inc' is
\* the value of `part'.  A full liquidation is quoted at 95%.
IsFull(all, inc, percent) ==
    /\ inc.collateral_raw = all.collateral_raw
    /\ inc.liability_raw = all.liability_raw
    /\ percent > 95

ScaledPercent(full, percent) ==
    ((IF full THEN 95 ELSE percent) * OracleScalar) \div 100

\* 1 plus half of what the collateral and liability factors leave as margin.
EstimatedIncentive(inc) ==
    LET avg_cf == DivFloor(inc.collateral_base, inc.collateral_raw, OracleScalar)
        avg_lf == DivFloor(inc.liability_base, inc.liability_raw, OracleScalar)
    IN OracleScalar
         + DivCeil(OracleScalar - DivCeil(avg_cf, avg_lf, OracleScalar),
                   2 * OracleScalar, OracleScalar)

WithdrawnCollateral(inc, pct) ==
    MulFloor(MulFloor(inc.liability_raw, pct, OracleScalar),
             EstimatedIncentive(inc), OracleScalar)

Scaled(shares, pct) == [a \in Assets |-> MulCeil(shares[a], pct, OracleScalar)]

Quote(part, all, inc, full, pct, withdrawn) ==
    LET lotPct == DivCeil(withdrawn, inc.collateral_raw, OracleScalar)
    IN [full |-> full,
        incomplete |-> lotPct > OracleScalar /\ inc.collateral_raw # all.collateral_raw,
        coversAll |-> withdrawn >= all.collateral_raw,
        collateral |-> Scaled(part.collateral,
                              IF lotPct > OracleScalar THEN OracleScalar ELSE lotPct),
        liabilities |-> Scaled(part.liabilities, pct)]

QuoteFor(part, all, inc, percent) ==
    LET full == IsFull(all, inc, percent)
        pct == ScaledPercent(full, percent)
    IN Quote(part, all, inc, full, pct, WithdrawnCollateral(inc, pct))

LiquidationQuote(w, u, bid, lot, percent) ==
    LET part == Auctioned(w.positions[u], bid, lot)
    IN QuoteFor(part, CalculateFromPositions(w, w.positions[u]),
                CalculateFromPositions(w, part), percent)

\* What is left of the user's positions must end between 1.03 and 1.15; a full
\* liquidation must only not be too large.
FairSize(q, health) ==
    IF q.full
    THEN q.coversAll \/ ~IsHfOver(health, Percent7(115))
    ELSE ~IsHfOver(health, Percent7(115)) /\ ~IsHfUnder(health, Percent7(103))

FairQuote(w, p, q) ==
    /\ ~q.incomplete
    /\ FairSize(q, CalculateFromPositions(w,
                     [p EXCEPT !.collateral = Sub(@, q.collateral),
                               !.liabilities = Sub(@, q.liabilities)]))

\* Less collateral than debt, both sides valued.
IsLiquidatable(all) == all.liability_base > all.collateral_base
HasValue(inc) == inc.collateral_raw > 0 /\ inc.liability_raw > 0

CanLiquidate(w, u, bid, lot, percent) ==
    LET p == w.positions[u]
    IN /\ w.liquidation[u] = NoAuction
       /\ percent \in 1..100
       /\ Cardinality(bid) + Cardinality(lot) <= config.max_positions
       /\ bid # {} /\ bid \subseteq Held(p.liabilities)
       /\ lot # {} /\ lot \subseteq Held(p.collateral)
       /\ Priceable(p)
       /\ IsLiquidatable(CalculateFromPositions(w, p))
       /\ HasValue(CalculateFromPositions(w, Auctioned(p, bid, lot)))
       /\ FairQuote(w, p, LiquidationQuote(w, u, bid, lot, percent))

\* A full liquidation sells the whole of the positions included.
Sold(part, q) ==
    IF q.full THEN part
    ELSE [collateral |-> q.collateral, liabilities |-> q.liabilities]

NewLiquidation(sold) ==
    [bid |-> OverTokens(sold.liabilities), lot |-> OverTokens(sold.collateral),
     block |-> now + 1]

CreateUserLiquidation(w, u, bid, lot, percent) ==
    [w EXCEPT !.liquidation[u] =
       NewLiquidation(Sold(Auctioned(w.positions[u], bid, lot),
                           LiquidationQuote(w, u, bid, lot, percent)))]

-----------------------------------------------------------------------------
(* create_bad_debt_auction_data: the backstop's debt on `bid', against as  *)
(* many backstop tokens as are worth 120% of it, or all there are.         *)

DebtValue(w, bid) ==
    FloorValue([a \in bid |->
        ToAssetFromD(LoadedReserve(w, a), w.positions[Backstop].liabilities[a])])

Premium(value) ==
    DivFloor(MulFloor(value, Percent7(120), OracleScalar), SpotPrice, Scalar7)

\* Mutant of CanCreateBadDebt: only what the backstop covers is auctioned.
CanCreateCovered(w, bid) ==
    /\ w.bad_debt = NoAuction
    /\ bid # {} /\ bid \subseteq Held(w.positions[Backstop].liabilities)
    /\ Cardinality(bid) < config.max_positions
    /\ \A a \in bid : price[a] > 0
    /\ DebtValue(w, bid) > 0
    /\ w.backstop_tokens >= Premium(DebtValue(w, bid))

CanCreateBadDebt(w, bid) ==
    /\ w.bad_debt = NoAuction
    /\ bid # {} /\ bid \subseteq Held(w.positions[Backstop].liabilities)
    /\ Cardinality(bid) < config.max_positions
    /\ \A a \in bid : price[a] > 0
    /\ DebtValue(w, bid) > 0
    /\ w.backstop_tokens > 0

\* Mutant of CreateBadDebt: more is offered than the backstop has.
CreateUncapped(w, bid) ==
    [w EXCEPT !.bad_debt =
       [bid |-> OverTokens([a \in bid |-> w.positions[Backstop].liabilities[a]]),
        lot |-> OverTokens([t \in {BackstopToken} |-> Premium(DebtValue(w, bid))]),
        block |-> now + 1]]

CreateBadDebt(w, bid) ==
    LET wanted == Premium(DebtValue(w, bid))
        lot == IF wanted > w.backstop_tokens THEN w.backstop_tokens ELSE wanted
    IN [w EXCEPT !.bad_debt =
          [bid |-> OverTokens([a \in bid |-> w.positions[Backstop].liabilities[a]]),
           lot |-> OverTokens([t \in {BackstopToken} |-> lot]),
           block |-> now + 1]]

-----------------------------------------------------------------------------
(* create_interest_auction_data: the credit of the reserves in `lot', as   *)
(* accrued by now.  The accrued reserves are NOT stored: the fill does it. *)

CreditOf(w, a) == LoadedReserve(w, a).backstop_credit
WithCredit(w, lot) == {a \in lot : CreditOf(w, a) > 0}

InterestValue(w, lot) ==
    FloorValue([a \in WithCredit(w, lot) |-> CreditOf(w, a)])

CanCreateInterest(w, lot) ==
    /\ w.interest = NoAuction
    /\ Cardinality(lot) < config.max_positions
    /\ WithCredit(w, lot) # {}
    /\ \A a \in WithCredit(w, lot) : price[a] > 0
    /\ InterestValue(w, lot) >= MinInterestValue * OracleScalar

CreateInterest(w, lot) ==
    [w EXCEPT !.interest =
       [bid |-> OverTokens([t \in {BackstopToken} |-> Premium(InterestValue(w, lot))]),
        lot |-> OverTokens([a \in WithCredit(w, lot) |-> CreditOf(w, a)]),
        block |-> now + 1]]

\* delete_stale_auction
IsStale(au) == au # NoAuction /\ au.block + StaleBlocks <= now
=============================================================================
