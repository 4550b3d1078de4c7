----------------------------- MODULE MCInterest -----------------------------
(***************************************************************************)
(* Interest owed to the backstop while the admin changes how it is earned: *)
(* bob's debt accrues, gifts are gulped, the take rate changes, usdc gets a*)
(* flatter curve, xlm may become borrowable and the admin then tries to    *)
(* take that back, and auctions sell the credit while lenders and          *)
(* borrowers compete for the same tokens.  In the other starts bob's debt  *)
(* is the backstop's, which pays for it or defaults.                       *)
(***************************************************************************)
EXTENDS MCPool

CollateralOnly == [MCReserve EXCEPT !.supply_cap = 250, !.l_factor = 0]
Borrowable == [CollateralOnly EXCEPT !.l_factor = 80]
Flat == [Borrowable EXCEPT !.r_one = 0, !.r_two = 0, !.r_base = 1]

InterestConfigs == [a \in Assets |-> IF a = xlm THEN CollateralOnly ELSE Borrowable]
InterestNew == [a \in Assets |-> IF a = xlm THEN {Borrowable, CollateralOnly} ELSE {Flat}]

\* The backstop takes half of the interest, until that is lowered.
HighTake == [MCPoolConfig EXCEPT !.bstop_rate = 50]
InterestPoolConfigs == {[HighTake EXCEPT !.bstop_rate = 5]}

InterestRequests ==
    [u \in Users |->
        IF u = alice
        THEN Asks("FillInterestAuction", Backstop, {50, 100})
             \cup Asks("FillBadDebtAuction", Backstop, {100})
             \cup Asks("WithdrawCollateral", usdc, {48})
        ELSE Asks("Borrow", xlm, {5})]

\* Bob was liquidated in full; a liquidator waited until that auction gave away all
\* of the collateral for none of the debt (five ledgers), which the backstop took
\* over, with the interest of that time; its depositors had left it n tokens.  The
\* clock counts from there on, and the price of xlm is back where it was.
HandedOver(n) ==
    [AfterBorrow(InitialLedger) EXCEPT
        !.positions[alice].collateral = [a \in Assets |-> 100],
        !.positions[bob] = NoPositions,
        !.positions[Backstop].liabilities = One(usdc, 50),
        !.reserves[usdc] = [@ EXCEPT !.b_rate = 104, !.d_rate = 115, !.backstop_credit = 4],
        !.backstop_tokens = n]

Par == [a \in Assets |-> 100]

InterestInit ==
    \/ BorrowedInit
    \/ StartingFrom(Par, HandedOver(InitialTokens), 1)
    \/ StartingFrom(Par, HandedOver(2), 2)

InterestSpec == InterestInit /\ [][Next]_poolVars
=============================================================================
