---------------------------- MODULE MCInsurance ----------------------------
(***************************************************************************)
(* The way of a debt nothing backs any more: bob's collateral is worth far *)
(* less than the debt, a full liquidation leaves debt behind, the backstop *)
(* takes it over, and either a bad debt auction sells it for the deposit   *)
(* of the backstop or, once that is drained, it is forgiven.  Meanwhile    *)
(* alice, the only depositor, tries to take her deposit out of it.         *)
(***************************************************************************)
EXTENDS Insurance, MCPool

InsuranceConfigs == [a \in Assets |-> [MCReserve EXCEPT !.supply_cap = 250]]

\* Bob's collateral has lost most of its value already.
Crashed == [a \in Assets |-> IF a = xlm THEN 30 ELSE 100]
CrashedPrices == [a \in Assets |-> {Crashed[a]}]

InsuranceRequests ==
    [u \in Users |->
        IF u = alice
        THEN Asks("FillUserLiquidationAuction", bob, {100})
             \cup Asks("FillBadDebtAuction", Backstop, {50, 100})
             \cup Asks("FillInterestAuction", Backstop, {100})
             \cup Asks("WithdrawCollateral", usdc, {13})
        ELSE Asks("Repay", usdc, {30})]

\* What Pool leaves open about its backstop, for ContractsAgree.
AnyDeposit == 0..MaxBackstopTokens
AnyLevel == 0..100

\* All of bob's collateral and debt is for sale.
Liquidated ==
    CreateUserLiquidation(AfterBorrow(InitialLedger), bob, {usdc}, {xlm}, 100)

\* The way of InsuranceSpec from the moment bob is liquidated on.
InsuredInit == StartingFrom(Crashed, Liquidated, 0) /\ FirstDeposit

InsuredSpec == InsuredInit /\ [][InsuranceNext]_insuranceVars
=============================================================================
