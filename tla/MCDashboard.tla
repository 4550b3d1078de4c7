---------------------------- MODULE MCDashboard ----------------------------
(***************************************************************************)
(* A browser whose wallet holds two accounts, the first one selected.      *)
(*                                                                         *)
(* Live, the amount may be borrowed once within the cap of twice the       *)
(* deposit: the second time only statistics that are out of date let it    *)
(* through.  That second submit comes after the first was reported, or     *)
(* while it is still on its way, when the page lost the wallet for a       *)
(* moment.  A transaction is polled for one of the two time units in which *)
(* it may be included.                                                     *)
(*                                                                         *)
(* In the simulator every action is tried; what is withdrawn or repaid may *)
(* be all there is, or more than the statistics shown still allow.         *)
(***************************************************************************)
EXTENDS Dashboard

CONSTANTS anna, ben

SmallOpening == [deposit |-> 2, borrow |-> 1]

MCAsks ==
    [l \in BOOLEAN |-> IF l THEN {[action |-> "borrow", amount |-> 2]}
                       ELSE [action : Actions, amount : {1, 2}]]

FirstAccountInit == DashboardInit /\ wallet = anna

FirstAccountSpec ==
    FirstAccountInit /\ [][DashboardNext]_dashboardVars /\ DashboardFairness
=============================================================================
