--------------------------- MODULE MCLiquidation ---------------------------
(***************************************************************************)
(* Two reserves and two users: bob borrows usdc against xlm whose price    *)
(* falls, alice lends and liquidates, in part or in full, early or late;   *)
(* bob may repay, add collateral, or delete the auction when healthy.      *)
(***************************************************************************)
EXTENDS MCPool

LiquidationConfigs ==
    [a \in Assets |-> [MCReserve EXCEPT !.supply_cap = 250]]

FallingPrices == [a \in Assets |-> IF a = xlm THEN {100, 70} ELSE {100}]

LiquidationRequests ==
    [u \in Users |->
        IF u = alice
        THEN Asks("SupplyCollateral", usdc, {100})
             \cup Asks("FillUserLiquidationAuction", bob, {50, 100})
        ELSE Asks("SupplyCollateral", xlm, {100})
             \cup Asks("WithdrawCollateral", xlm, {40})
             \cup Asks("Borrow", usdc, {50})
             \cup Asks("Repay", usdc, {30})
             \cup Asks("DeleteLiquidationAuction", bob, {0})]
============================================================================
