----------------------------- MODULE MCLending -----------------------------
(***************************************************************************)
(* One reserve, a lender and a borrower whose submits interleave with the  *)
(* passing of time: share arithmetic, interest, and roll-back.             *)
(***************************************************************************)
EXTENDS MCPool

\* 90 exceeds the position: it withdraws everything.
LendingRequests ==
    [u \in Users |->
        IF u = alice
        THEN Asks("Supply", usdc, {20}) \cup Asks("Withdraw", usdc, {11})
        ELSE Asks("SupplyCollateral", usdc, {23})
             \cup Asks("WithdrawCollateral", usdc, {90})
             \cup Asks("Borrow", usdc, {9})
             \cup Asks("Repay", usdc, {5})]
=============================================================================
