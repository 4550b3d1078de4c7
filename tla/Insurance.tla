----------------------------- MODULE Insurance -----------------------------
(***************************************************************************)
(* A pool together with the backstop that insures it.                      *)
(*                                                                         *)
(* Pool takes the deposit of its backstop for a number that others change; *)
(* Backstop takes a pool's bad debt for a flag that comes and goes.  Here  *)
(* both run at once, on one clock: an invocation of the pool that pays a   *)
(* bidder for bad debt draws from the backstop, one that sells interest    *)
(* donates to it, the backstop asks the pool for its positions before it   *)
(* lets a depositor go, and the pool's status follows the backstop's queue.*)
(*                                                                         *)
(* Draws and donations of one invocation are made in one step when it      *)
(* commits: nobody else sees the backstop in between.                      *)
(***************************************************************************)
EXTENDS PoolProperties

CONSTANTS
    PoolAddress,                  \* the pool, as the backstop knows it
    Depositors,                   \* accounts with a deposit in the backstop
    LockTime, MaxQueue, NoData,   \* as in Backstop
    \* Bounds on the inputs explored.
    Deposits, Queues, Withdrawals, MaxMoves

VARIABLES
    pool_balance,   \* the backstop's PoolBalance of the pool
    user_balance,   \* the backstop's UserBalance of each depositor
    moves           \* invocations of the backstop so far

insuranceVars == <<poolVars, pool_balance, user_balance, moves>>

Insured == pool_balance[PoolAddress]
Indebted == HasLiabilities(ledger.positions[Backstop])

\* The backstop, of this pool alone and without emissions.
B == INSTANCE Backstop WITH
    Pools <- {PoolAddress}, Deployable <- {PoolAddress}, DeployArgs <- {},
    deployed <- {PoolAddress}, Users <- Depositors,
    Scalar14 <- Scalar7 * Scalar7, EmissionPeriod <- 1,
    MaxRewardZone <- 0, MaxBackfill <- 0, DepositShare <- Scalar7, BorrowShare <- 0,
    MinDistribution <- 1, RecentDistribution <- 0, GulpInterval <- 0, StartTime <- 1,
    Draws <- 1..MaxBackstopTokens, Donations <- 1..MaxBackstopTokens,
    LpAmounts <- {}, HasEmitter <- FALSE, Indebted <- {PoolAddress},
    MaxTokens <- MaxBackstopTokens, MaxCalls <- MaxMoves, calls <- moves,
    bad_debt <- IF Indebted THEN {PoolAddress} ELSE {},
    emissions <- [p \in {PoolAddress} |-> NoData],
    user_emissions <- [p \in {PoolAddress} |-> [u \in Depositors |-> NoData]],
    rewards <- [zone |-> {}, accrued |-> [p \in {PoolAddress} |-> 0],
                gulped_at |-> [p \in {PoolAddress} |-> 0],
                last_distribution |-> 0, status |-> "Unset", backfill |-> 0],
    held <- [lp |-> Insured.tokens, blnd |-> 0, allowance |-> [p \in {PoolAddress} |-> 0]],
    emitter <- [last |-> NoData, dropped |-> FALSE]

\* Pool leaves open what its backstop does, and here that is no bound: the
\* constants of its environment allow every deposit and every queue there can be.
\* (A backstop without any token is below the level of a default, bad_debt.rs.)
ASSUME InsuranceAssumption ==
    /\ IsFiniteSet(Depositors) /\ LockTime \in Nat /\ MaxQueue \in Nat
    /\ NoData \notin Nat \cup B!EmissionData \cup B!UserEmissionData
    /\ 0..MaxBackstopTokens \subseteq BackstopAmounts /\ 0..100 \subseteq QueueLevels
    /\ InitialTokens <= MaxBackstopTokens /\ DefaultTokens > 0
    /\ Deposits \subseteq Nat /\ Queues \subseteq Nat /\ Withdrawals \subseteq Nat
    /\ MaxMoves \in Nat

\* PoolBackstopData.q4w_pct, in percent.
QueuedPct ==
    IF Insured.shares = 0 THEN 0
    ELSE (100 * DivCeil(Insured.q4w, Insured.shares, Scalar7)) \div Scalar7

-----------------------------------------------------------------------------
(* Invocations of the backstop by its depositors.                          *)

\* The pool as the backstop leaves it behind: `tokens' in its deposit.
Leaving(tokens) ==
    /\ call = NoCall
    /\ ledger' = [ledger EXCEPT !.backstop_tokens = tokens]
    /\ CountWrite
    /\ UNCHANGED <<price, config, call>>

DepositorJoins(u, n) ==
    /\ Leaving(Insured.tokens + n)
    /\ B!Deposit(u, PoolAddress, n)
    /\ q4w_pct' = QueuedPct'

DepositorQueues(u, n) ==
    /\ Leaving(Insured.tokens)
    /\ B!QueueWithdrawal(u, PoolAddress, n) \/ B!DequeueWithdrawal(u, PoolAddress, n)
    /\ q4w_pct' = QueuedPct'

DepositorLeaves(u, n) ==
    /\ Leaving(Insured.tokens - B!ConvertToTokens(Insured, n))
    /\ B!Withdraw(u, PoolAddress, n)
    /\ q4w_pct' = QueuedPct'

-----------------------------------------------------------------------------
(* Invocations of the pool, which call the backstop, and everything else.  *)

Paid == ledger.backstop_tokens - ledger'.backstop_tokens

PoolSide ==
    \/ Begin \/ RequestStep \/ Commit \/ Abort
    \/ AuctionStep \/ MaintenanceStep \/ OutsideStep

PoolMoves ==
    /\ PoolSide
    /\ \/ Paid = 0 /\ UNCHANGED <<pool_balance, user_balance, moves>>
       \/ Paid > 0 /\ B!Draw(PoolAddress, Paid)
       \/ Paid < 0 /\ B!Donate(PoolAddress, -Paid)

InsuranceNext ==
    \/ \E u \in Depositors :
        \/ \E n \in Deposits : DepositorJoins(u, n)
        \/ \E n \in Queues : DepositorQueues(u, n)
        \/ \E n \in Withdrawals : DepositorLeaves(u, n)
    \/ PoolMoves

\* One depositor has put in the backstop's first tokens, for as many shares.
FirstDeposit ==
    /\ pool_balance = [p \in {PoolAddress} |->
         [shares |-> InitialTokens, tokens |-> InitialTokens, q4w |-> 0]]
    /\ \E first \in Depositors :
         user_balance = [p \in {PoolAddress} |-> [u \in Depositors |->
           [shares |-> IF u = first THEN InitialTokens ELSE 0, q4w |-> <<>>]]]
    /\ moves = 0

InsuranceInit == Init /\ FirstDeposit

InsuranceSpec == InsuranceInit /\ [][InsuranceNext]_insuranceVars

-----------------------------------------------------------------------------
(* What must never go wrong.                                               *)

\* What the pool takes for granted of its backstop, and the backstop of its
\* pools, is what the other contract does: together they are a behaviour of
\* either, with one and the same deposit and queue.
ContractsAgree ==
    /\ [][Next /\ ledger'.backstop_tokens = Insured'.tokens
               /\ q4w_pct' = QueuedPct']_poolVars
    /\ [][B!Next]_(B!backstopVars)

\* The deposit a bad debt auction offers is there when a bidder comes, however
\* many bidders were paid before and whoever of the depositors wants to leave:
\* as long as there is debt left to bid on.
LotFunded ==
    LET au == ledger.bad_debt
    IN (au # NoAuction /\ \E a \in Assets : au.bid[a] > 0)
         => au.lot[BackstopToken] <= Insured.tokens

\* Debt handed to the backstop never gets stuck there, where it would lock all
\* depositors in: between the deposit that is worth auctioning and the one so
\* small that the debt is forgiven, there is no gap.  (Debt so small that it
\* rounds to no value can not be auctioned, and is the exception.)
BadDebtResolvable ==
    LET owed == Held(ledger.positions[Backstop].liabilities)
    IN (call = NoCall /\ Indebted /\ ledger.bad_debt = NoAuction /\ \A a \in owed : price[a] > 0)
         => \/ MustDefault(ledger) /\ CanDefault(ledger)
            \/ \E a \in owed : CanCreateBadDebt(ledger, {a})
            \/ DebtValue(ledger, owed) = 0
=============================================================================
