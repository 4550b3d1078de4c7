----------------------------- MODULE MCStreams -----------------------------
(***************************************************************************)
(* Emissions of the usdc reserve begin, lapse and begin again while alice  *)
(* and bob deposit, withdraw, repay and claim, and while bob is liquidated   *)
(* at a price so low that the rest of the debt goes to the backstop.       *)
(***************************************************************************)
EXTENDS MCPool, PoolEmissions

StreamConfigs == [a \in Assets |-> [MCReserve EXCEPT !.supply_cap = 250]]

\* The collateral has lost most of its value already.
CrashedPrices == [a \in Assets |-> IF a = xlm THEN 30 ELSE 100]
OnlyCrashedPrices == [a \in Assets |-> {CrashedPrices[a]}]

StreamRequests ==
    [u \in Users |->
        IF u = alice
        THEN Asks("FillUserLiquidationAuction", bob, {100})
             \cup Asks("Supply", usdc, {20})
             \cup Asks("Withdraw", usdc, {90})
        ELSE Asks("Repay", usdc, {60})]

\* Lenders and borrowers of usdc share what is emitted, two to one.
UsdcShares ==
    {[t \in ReserveTokens |-> CASE t = <<usdc, "b">> -> 2 [] t = <<usdc, "d">> -> 1 [] OTHER -> 0]}

UsdcClaims == {{usdc} \X {"d", "b"}}

StreamInit == BorrowedAt(CrashedPrices) /\ StartWithoutEmissions

StreamSpec == StreamInit /\ [][EmissionNext]_emissionVars
=============================================================================
