------------------------------ MODULE MCStatus ------------------------------
(***************************************************************************)
(* The pool changes its status, on its admin's or its backstop's account,  *)
(* while users deposit, take flash loans, repay them or not, and one of    *)
(* them may be liquidated.  At times the oracle's price of usdc is refused,*)
(* which is a price of 0.                                                  *)
(***************************************************************************)
EXTENDS MCPool

StatusConfigs == [a \in Assets |-> [MCReserve EXCEPT !.supply_cap = 250]]

StatusPrices == [a \in Assets |-> IF a = xlm THEN {100, 70} ELSE {100, 0}]

StatusRequests ==
    [u \in Users |->
        IF u = alice
        THEN Asks("Supply", usdc, {40})
             \cup Asks("FillUserLiquidationAuction", bob, {100})
        ELSE Asks("Repay", usdc, {30})
             \cup Asks("DeleteLiquidationAuction", bob, {0})]
=============================================================================
