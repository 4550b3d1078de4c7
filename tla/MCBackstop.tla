----------------------------- MODULE MCBackstop -----------------------------
(***************************************************************************)
(* Constants shared by the TLC runs of the backstop.  Amounts are small    *)
(* and share no factors, so that prices round.                             *)
(***************************************************************************)
EXTENDS BackstopProperties

CONSTANTS lend, save, alice, bob

\* One set of arguments the factory takes, and one for each reason to refuse.
MCDeployArgs ==
    LET good == [backstop_take_rate |-> 2, max_positions |-> 4, min_collateral |-> 0]
    IN {good, [good EXCEPT !.backstop_take_rate = Scalar7],
        [good EXCEPT !.max_positions = 61], [good EXCEPT !.min_collateral = -1]}

-----------------------------------------------------------------------------
(* A start further on, for the run about claims.  At StartTime the emitter *)
(* switched to this backstop, alice deposited 5 tokens in each of the two  *)
(* pools, these were added to the reward zone, and the distribution was    *)
(* started; two time units later 20 BLND were emitted, distributed in      *)
(* halves, and gulped: 3 to each pool, 7 to its depositors.                *)

AliceDeposit == [NoPoolBalance EXCEPT !.shares = 5, !.tokens = 5]

EmittingInit ==
    /\ now = StartTime + 2
    /\ deployed = Pools
    /\ pool_balance = [p \in Pools |-> AliceDeposit]
    /\ user_balance = [p \in Pools |-> [u \in Users |->
         IF u = alice THEN [NoUserBalance EXCEPT !.shares = 5] ELSE NoUserBalance]]
    /\ emissions = [p \in Pools |-> SetEps(NoData, AliceDeposit, 7, now)]
    /\ user_emissions = [p \in Pools |-> [u \in Users |-> NoData]]
    /\ rewards = [zone |-> Pools, accrued |-> [p \in Pools |-> 0],
                  gulped_at |-> [p \in Pools |-> now],
                  last_distribution |-> now, status |-> "Emitter", backfill |-> 0]
    /\ held = [lp |-> 10, blnd |-> 20, allowance |-> [p \in Pools |-> 3]]
    /\ emitter = [last |-> now, dropped |-> FALSE]
    /\ bad_debt = {}
    /\ calls = 0

EmittingSpec == EmittingInit /\ [][Next]_backstopVars

-----------------------------------------------------------------------------
(* A start for the run about the reward zone: deposits of 4 and of 6       *)
(* tokens, and no distribution yet.                                        *)

DepositOf(p) == IF p = lend THEN 4 ELSE 6

DepositedInit ==
    /\ now = StartTime
    /\ deployed = Pools
    /\ pool_balance = [p \in Pools |->
         [NoPoolBalance EXCEPT !.shares = DepositOf(p), !.tokens = DepositOf(p)]]
    /\ user_balance = [p \in Pools |-> [u \in Users |->
         [NoUserBalance EXCEPT !.shares = IF u = alice THEN DepositOf(p) ELSE 0]]]
    /\ emissions = [p \in Pools |-> NoData]
    /\ user_emissions = [p \in Pools |-> [u \in Users |-> NoData]]
    /\ rewards = [zone |-> {}, accrued |-> [p \in Pools |-> 0],
                  gulped_at |-> [p \in Pools |-> 0],
                  last_distribution |-> 0, status |-> "Unset", backfill |-> 0]
    /\ held = [lp |-> SumFunction([p \in Pools |-> DepositOf(p)]), blnd |-> 0,
               allowance |-> [p \in Pools |-> 0]]
    /\ emitter = [last |-> NoData, dropped |-> FALSE]
    /\ bad_debt = {}
    /\ calls = 0

DepositedSpec == DepositedInit /\ [][Next]_backstopVars
=============================================================================
