------------------------------ MODULE Backstop ------------------------------
(***************************************************************************)
(* The backstop contract (backstop/src): deposits that insure the pools,   *)
(* their withdrawal queues, draws and donations of the pools, and the      *)
(* emissions paid to depositors.                                           *)
(*                                                                         *)
(* One invocation is one step: it commits all its writes or, when it       *)
(* panics, none.  Outside the contract and modelled by how it is used: the *)
(* emitter, the BLND and LP tokens, the AMM that swaps BLND for LP tokens, *)
(* and whether a pool has bad debt assigned to the backstop.               *)
(***************************************************************************)
EXTENDS BackstopBalances, BackstopEmissions, FiniteSets

CONSTANTS
    Pools, Users,
    Deployable,          \* the addresses the pool factory may deploy pools to
    ThresholdTokens,     \* deposit that makes a pool eligible for rewards
    MaxRewardZone,       \* MAX_RZ_SIZE
    MaxBackfill,         \* MAX_BACKFILLED_EMISSIONS
    DepositShare,        \* 0_7000000: of the emissions, to the depositors
    BorrowShare,         \* 0_3000000: of the emissions, to the pool's users
    MinDistribution,     \* 5 seconds between distributions
    RecentDistribution,  \* an hour: a distribution is recent
    GulpInterval,        \* a day between two gulps of a pool
    StartTime            \* ledger timestamp of the deployment

CONSTANTS
    Deposits, Queues, Withdrawals, Draws, Donations,  \* amounts tried
    LpAmounts,           \* LP tokens the AMM may return for a claim
    HasEmitter,          \* whether the emitter ever switches to this backstop
    Indebted,            \* pools that may hand bad debt to the backstop
    DeployArgs,          \* arguments of the factory's deploy
    Ticks, MaxTime,      \* steps of the clock, and its bound
    MaxTokens,           \* bound on a pool's deposit
    MaxCalls             \* bound on the number of invocations

ASSUME BackstopAssumption ==
    /\ IsFiniteSet(Pools) /\ IsFiniteSet(Users) /\ Deployable \subseteq Pools
    /\ ThresholdTokens \in Nat /\ MaxRewardZone \in Nat /\ MaxBackfill \in Nat
    /\ DepositShare \in Nat /\ BorrowShare \in Nat /\ DepositShare + BorrowShare = Scalar7
    /\ MinDistribution \in Nat \ {0} /\ RecentDistribution \in Nat /\ GulpInterval \in Nat
    /\ StartTime \in Nat \ {0} /\ StartTime >= GulpInterval /\ StartTime >= RecentDistribution
    /\ Deposits \subseteq Nat /\ Queues \subseteq Nat /\ Withdrawals \subseteq Nat
    /\ Draws \subseteq Nat /\ Donations \subseteq Nat /\ LpAmounts \subseteq Nat
    /\ HasEmitter \in BOOLEAN /\ Indebted \subseteq Pools
    /\ DeployArgs \subseteq [backstop_take_rate : Nat, max_positions : Nat,
                             min_collateral : Int]
    /\ Ticks \subseteq Nat /\ MaxTime \in Nat /\ MaxTokens \in Nat /\ MaxCalls \in Nat

VARIABLES
    now,
    deployed,       \* the pools of the factory
    pool_balance,   \* PoolBalance of each pool
    user_balance,   \* UserBalance of each pool and user
    emissions,      \* BEmisData of each pool, or NoData
    user_emissions, \* UEmisData of each pool and user, or NoData
    rewards,        \* reward zone, emissions due to its pools, backfill
    held,           \* tokens of the contract, and the pools' allowances
    emitter,        \* the emitter's last distribution to this backstop
    bad_debt,       \* the pools in which the backstop has liabilities
    calls           \* invocations so far

balanceVars == <<pool_balance, user_balance>>
emissionVars == <<emissions, user_emissions>>
backstopVars == <<now, deployed, pool_balance, user_balance, emissions, user_emissions,
                  rewards, held, emitter, bad_debt, calls>>

Rewards ==
    [zone : SUBSET Pools,
     accrued : [Pools -> Nat],                \* RzEmissions.accrued
     gulped_at : [Pools -> Nat],              \* RzEmissions.last_time
     last_distribution : Nat,                 \* 0: never
     status : {"Unset", "Backfill", "Emitter"},
     backfill : Nat]

Init ==
    /\ now = StartTime
    /\ deployed = {}
    /\ pool_balance = [p \in Pools |-> NoPoolBalance]
    /\ user_balance = [p \in Pools |-> [u \in Users |-> NoUserBalance]]
    /\ emissions = [p \in Pools |-> NoData]
    /\ user_emissions = [p \in Pools |-> [u \in Users |-> NoData]]
    /\ rewards = [zone |-> {}, accrued |-> [p \in Pools |-> 0],
                  gulped_at |-> [p \in Pools |-> 0],
                  last_distribution |-> 0, status |-> "Unset", backfill |-> 0]
    /\ held = [lp |-> 0, blnd |-> 0, allowance |-> [p \in Pools |-> 0]]
    /\ emitter = [last |-> NoData, dropped |-> FALSE]
    /\ bad_debt = {}
    /\ calls = 0

CountCall == calls < MaxCalls /\ calls' = calls + 1

Factory == INSTANCE PoolFactory

\* Mutant of FromFactory: pools are checked when they already have shares.
CheckedTooLate(p) == pool_balance[p].shares > 0 => Factory!IsPool(p)

\* A pool with shares was checked when it got them.
FromFactory(p) == pool_balance[p].shares = 0 => Factory!IsPool(p)

-----------------------------------------------------------------------------
(* Deposits and the queue.  Before a user's unqueued shares change, the    *)
(* emissions they earned are written down.                                 *)

\* Mutant of UpdateEmissions: the user's emissions are not settled.
UpdatePoolOnly(u, p) ==
    /\ emissions' = [emissions EXCEPT ![p] = Accrue(@, pool_balance[p], now)]
    /\ UNCHANGED user_emissions

UpdateEmissions(u, p) ==
    LET d == Accrue(emissions[p], pool_balance[p], now)
    IN /\ emissions' = [emissions EXCEPT ![p] = d]
       /\ user_emissions' =
            IF d = NoData THEN user_emissions
            ELSE [user_emissions EXCEPT ![p][u] = UpdateUser(d, @, user_balance[p][u].shares)]

Deposit(u, p, n) ==
    LET minted == ConvertToShares(pool_balance[p], n)
    IN /\ CountCall
       /\ FromFactory(p)
       /\ minted > 0
       /\ pool_balance[p].tokens + n <= MaxTokens
       /\ UpdateEmissions(u, p)
       /\ pool_balance' = [pool_balance EXCEPT ![p] = DepositInto(@, n, minted)]
       /\ user_balance' = [user_balance EXCEPT ![p][u] = AddShares(@, minted)]
       /\ held' = [held EXCEPT !.lp = @ + n]
       /\ UNCHANGED <<now, deployed, rewards, emitter, bad_debt>>

QueueWithdrawal(u, p, n) ==
    /\ CountCall
    /\ CanQueueShares(user_balance[p][u], n)
    /\ UpdateEmissions(u, p)
    /\ user_balance' = [user_balance EXCEPT ![p][u] = QueueShares(@, n, now)]
    /\ pool_balance' = [pool_balance EXCEPT ![p].q4w = @ + n]
    /\ UNCHANGED <<now, deployed, rewards, held, emitter, bad_debt>>

DequeueWithdrawal(u, p, n) ==
    /\ CountCall
    /\ CanServe(user_balance[p][u].q4w, n)
    /\ n <= pool_balance[p].q4w
    /\ UpdateEmissions(u, p)
    /\ user_balance' = [user_balance EXCEPT ![p][u] = AddShares(DequeueShares(@, n), n)]
    /\ pool_balance' = [pool_balance EXCEPT ![p].q4w = @ - n]
    /\ UNCHANGED <<now, deployed, rewards, held, emitter, bad_debt>>

\* Mutant of Withdraw: the pool is not asked whether it has bad debt.
WithdrawUnasked(u, p, n) ==
    LET paid == ConvertToTokens(pool_balance[p], n)
    IN /\ CountCall
       /\ CanWithdrawShares(user_balance[p][u], n, now)
       /\ paid # 0
       /\ CanWithdrawFrom(pool_balance[p], paid, n)
       /\ user_balance' = [user_balance EXCEPT ![p][u] = WithdrawShares(@, n)]
       /\ pool_balance' = [pool_balance EXCEPT ![p] = WithdrawFrom(@, paid, n)]
       /\ held' = [held EXCEPT !.lp = @ - paid]
       /\ UNCHANGED <<now, deployed, emissionVars, rewards, emitter, bad_debt>>

\* Queued shares earn nothing, so their withdrawal settles no emissions.
Withdraw(u, p, n) ==
    LET paid == ConvertToTokens(pool_balance[p], n)
    IN /\ CountCall
       /\ p \notin bad_debt
       /\ CanWithdrawShares(user_balance[p][u], n, now)
       /\ paid # 0
       /\ CanWithdrawFrom(pool_balance[p], paid, n)
       /\ user_balance' = [user_balance EXCEPT ![p][u] = WithdrawShares(@, n)]
       /\ pool_balance' = [pool_balance EXCEPT ![p] = WithdrawFrom(@, paid, n)]
       /\ held' = [held EXCEPT !.lp = @ - paid]
       /\ UNCHANGED <<now, deployed, emissionVars, rewards, emitter, bad_debt>>

-----------------------------------------------------------------------------
(* The pool takes from its deposit, or adds to it.                         *)

\* The pool's invocation may be the one that hands debt to the backstop, or that
\* ends it.
BadDebtMayChange(p) ==
    bad_debt' \in IF p \in Indebted THEN {bad_debt, bad_debt \cup {p}, bad_debt \ {p}}
                 ELSE {bad_debt}

Draw(p, n) ==
    /\ CountCall
    /\ CanWithdrawFrom(pool_balance[p], n, 0)
    /\ pool_balance' = [pool_balance EXCEPT ![p] = WithdrawFrom(@, n, 0)]
    /\ held' = [held EXCEPT !.lp = @ - n]
    /\ BadDebtMayChange(p)
    /\ UNCHANGED <<now, deployed, user_balance, emissionVars, rewards, emitter>>

Donate(p, n) ==
    /\ CountCall
    /\ FromFactory(p)
    /\ pool_balance[p].tokens + n <= MaxTokens
    /\ pool_balance' = [pool_balance EXCEPT ![p] = DepositInto(@, n, 0)]
    /\ held' = [held EXCEPT !.lp = @ + n]
    /\ BadDebtMayChange(p)
    /\ UNCHANGED <<now, deployed, user_balance, emissionVars, rewards, emitter>>

-----------------------------------------------------------------------------
(* A claim over a set of pools swaps what they owe the user for LP tokens, *)
(* and deposits these in proportion - for shares that may round to none.   *)

ClaimFrom(u, p, d) == Owed(d, user_emissions[p][u], user_balance[p][u].shares)

\* Mutant of PartOf: the LP tokens of the whole claim are deposited in every pool.
WholeOf(amount, claimed, out) == out

PartOf(amount, claimed, out) == MulFloor(out, amount, claimed)

Claim(u, P, out) ==
    LET d == [p \in P |-> Accrue(emissions[p], pool_balance[p], now)]
        amount == [p \in P |-> ClaimFrom(u, p, d[p])]
        claimed == SumFunction(amount)
        part == [p \in P |-> PartOf(amount[p], claimed, out)]
        minted == [p \in P |-> ConvertToShares(pool_balance[p], part[p])]
    IN /\ CountCall
       /\ P # {} /\ \A p \in P : emissions[p] # NoData
       /\ emissions' = [p \in Pools |-> IF p \in P THEN d[p] ELSE emissions[p]]
       /\ user_emissions' = [p \in Pools |->
            IF p \in P THEN [user_emissions[p] EXCEPT ![u] = ClaimUser(d[p])]
            ELSE user_emissions[p]]
       /\ \/ /\ claimed = 0
             /\ UNCHANGED <<balanceVars, held>>
          \/ /\ claimed > 0 /\ claimed <= held.blnd
             /\ \A p \in P : pool_balance[p].tokens + part[p] <= MaxTokens
             /\ pool_balance' = [p \in Pools |->
                  IF p \in P /\ part[p] > 0
                  THEN DepositInto(pool_balance[p], part[p], minted[p])
                  ELSE pool_balance[p]]
             /\ user_balance' = [p \in Pools |->
                  IF p \in P /\ part[p] > 0
                  THEN [user_balance[p] EXCEPT ![u] = AddShares(@, minted[p])]
                  ELSE user_balance[p]]
             /\ held' = [held EXCEPT !.lp = @ + out, !.blnd = @ - claimed]
       /\ UNCHANGED <<now, deployed, rewards, emitter, bad_debt>>

-----------------------------------------------------------------------------
(* The reward zone.  Whether a pool is above the threshold depends on what *)
(* its LP tokens are made of; with the AMM's composition fixed, on their   *)
(* number.                                                                 *)

IsAboveThreshold(p) == pool_balance[p].tokens >= ThresholdTokens
DistributedRecently == rewards.last_distribution >= now - RecentDistribution

\* Into a zone with room.
AddReward(p) ==
    /\ CountCall
    /\ p \notin rewards.zone
    /\ IsAboveThreshold(p)
    /\ rewards.zone # {} => DistributedRecently
    /\ Cardinality(rewards.zone) < MaxRewardZone
    /\ rewards' = [rewards EXCEPT !.zone = @ \cup {p}]
    /\ UNCHANGED <<now, deployed, balanceVars, emissionVars, held, emitter, bad_debt>>

\* Into a full zone, for a pool with a smaller deposit.
SwapReward(p, out) ==
    /\ CountCall
    /\ p \notin rewards.zone
    /\ IsAboveThreshold(p)
    /\ rewards.zone # {} => DistributedRecently
    /\ Cardinality(rewards.zone) >= MaxRewardZone
    /\ pool_balance[p].tokens > pool_balance[out].tokens
    /\ out \in rewards.zone
    /\ rewards' = [rewards EXCEPT !.zone = (@ \ {out}) \cup {p}]
    /\ UNCHANGED <<now, deployed, balanceVars, emissionVars, held, emitter, bad_debt>>

RemoveReward(p) ==
    /\ CountCall
    /\ ~IsAboveThreshold(p)
    /\ DistributedRecently
    /\ p \in rewards.zone
    /\ rewards' = [rewards EXCEPT !.zone = @ \ {p}]
    /\ UNCHANGED <<now, deployed, balanceVars, emissionVars, held, emitter, bad_debt>>

-----------------------------------------------------------------------------
(* distribute.  Emissions come from the emitter; before it switches to     *)
(* this backstop it reports no distribution, and emissions are backfilled  *)
(* on the clock, to be dropped later.                                      *)

Backfilling == emitter.last = NoData
DistributionTime == IF Backfilling THEN now ELSE emitter.last

NewStatus == IF Backfilling THEN "Backfill" ELSE "Emitter"

\* Mutant of NeedsReset: the switch from backfill to the emitter goes unnoticed.
NeverReset == FALSE

NeedsReset == ~Backfilling /\ rewards.status = "Backfill"

\* The first distribution, and the first from the emitter after a backfill,
\* only set the time the next one counts from.
StartDistribution ==
    /\ CountCall
    /\ Backfilling => rewards.status # "Emitter"
    /\ rewards.last_distribution = 0 \/ NeedsReset
    /\ rewards' = [rewards EXCEPT !.status = NewStatus,
                                  !.last_distribution = DistributionTime]
    /\ UNCHANGED <<now, deployed, balanceVars, emissionVars, held, emitter, bad_debt>>

NewEmissions ==
    LET emitted == (DistributionTime - rewards.last_distribution) * Scalar7
    IN IF Backfilling /\ emitted + rewards.backfill > MaxBackfill
       THEN MaxBackfill - rewards.backfill ELSE emitted

ZoneTokens == SumFunction([p \in rewards.zone |-> NonQueuedTokens(pool_balance[p])])

PoolEmissions(p) ==
    MulFloor(DivFloor(NonQueuedTokens(pool_balance[p]), ZoneTokens, Scalar7),
             NewEmissions, Scalar7)

\* A zone whose deposits are all queued cannot be distributed to (0 divides).
Distribute ==
    /\ CountCall
    /\ Backfilling => rewards.status # "Emitter"
    /\ rewards.last_distribution # 0 /\ ~NeedsReset
    /\ DistributionTime - rewards.last_distribution >= MinDistribution
    /\ rewards.zone # {}
    /\ Backfilling => rewards.backfill < MaxBackfill
    /\ ZoneTokens > 0
    /\ rewards' = [rewards EXCEPT
         !.status = NewStatus,
         !.backfill = IF Backfilling THEN @ + NewEmissions ELSE @,
         !.last_distribution = DistributionTime,
         !.accrued = [p \in Pools |-> IF p \in rewards.zone THEN @[p] + PoolEmissions(p) ELSE @[p]]]
    /\ UNCHANGED <<now, deployed, balanceVars, emissionVars, held, emitter, bad_debt>>

\* What a pool is due goes to its users (an allowance) and its depositors.
GulpEmissions(p) ==
    LET due == rewards.accrued[p]
    IN /\ CountCall
       /\ rewards.gulped_at[p] <= now - GulpInterval
       /\ due > 0
       /\ held' = [held EXCEPT !.allowance[p] = @ + MulFloor(due, BorrowShare, Scalar7)]
       /\ rewards' = [rewards EXCEPT !.accrued[p] = 0, !.gulped_at[p] = now]
       /\ emissions' = [emissions EXCEPT ![p] =
            SetEps(@, pool_balance[p], MulFloor(due, DepositShare, Scalar7), now)]
       /\ UNCHANGED <<now, deployed, balanceVars, user_emissions, emitter, bad_debt>>

\* drop: the emitter pays out, once, what was backfilled.
Drop ==
    /\ CountCall
    /\ ~Backfilling /\ ~emitter.dropped
    /\ emitter' = [emitter EXCEPT !.dropped = TRUE]
    /\ held' = [held EXCEPT !.blnd = @ + rewards.backfill]
    /\ UNCHANGED <<now, deployed, balanceVars, emissionVars, rewards, bad_debt>>

-----------------------------------------------------------------------------
(* Outside the contract.                                                   *)

\* The emitter switches to this backstop, and pays it a token a second.
EmitterSwitches ==
    /\ HasEmitter /\ emitter.last = NoData
    /\ emitter' = [emitter EXCEPT !.last = now]
    /\ UNCHANGED <<now, deployed, balanceVars, emissionVars, rewards, held, bad_debt, calls>>

EmitterDistributes ==
    /\ emitter.last # NoData /\ emitter.last < now
    /\ emitter' = [emitter EXCEPT !.last = now]
    /\ held' = [held EXCEPT !.blnd = @ + (now - emitter.last) * Scalar7]
    /\ UNCHANGED <<now, deployed, balanceVars, emissionVars, rewards, bad_debt, calls>>

\* A pool's users are paid through its allowance.
PoolPays(p) ==
    /\ CountCall
    /\ held.allowance[p] > 0 /\ held.allowance[p] <= held.blnd
    /\ held' = [held EXCEPT !.allowance[p] = 0, !.blnd = @ - held.allowance[p]]
    /\ UNCHANGED <<now, deployed, balanceVars, emissionVars, rewards, emitter, bad_debt>>

\* The factory deploys a pool, with arguments the backstop never sees.
DeployPool(p, args) ==
    /\ Factory!Deploy(p, args)
    /\ UNCHANGED <<now, balanceVars, emissionVars, rewards, held, emitter, bad_debt, calls>>

\* A pool hands its bad debt to the backstop, or is rid of it.
BadDebtChanges(p) ==
    /\ bad_debt' = IF p \in bad_debt THEN bad_debt \ {p} ELSE bad_debt \cup {p}
    /\ UNCHANGED <<now, deployed, balanceVars, emissionVars, rewards, held, emitter, calls>>

Tick(dt) ==
    /\ now + dt <= MaxTime
    /\ now' = now + dt
    /\ UNCHANGED <<deployed, balanceVars, emissionVars, rewards, held, emitter, bad_debt, calls>>

UserCall(u, p) ==
    \/ \E n \in Deposits : Deposit(u, p, n)
    \/ \E n \in Queues : QueueWithdrawal(u, p, n)
    \/ \E n \in Queues : DequeueWithdrawal(u, p, n)
    \/ \E n \in Withdrawals : Withdraw(u, p, n)

PoolCall(p) ==
    \/ \E n \in Draws : Draw(p, n)
    \/ \E n \in Donations : Donate(p, n)
    \/ GulpEmissions(p)

RewardCall ==
    \/ \E p \in Pools : AddReward(p) \/ RemoveReward(p)
    \/ \E p, out \in Pools : SwapReward(p, out)
    \/ StartDistribution
    \/ Distribute
    \/ Drop

Next ==
    \/ \E u \in Users, p \in Pools : UserCall(u, p)
    \/ \E u \in Users, P \in SUBSET Pools, out \in LpAmounts : Claim(u, P, out)
    \/ \E p \in Pools : PoolCall(p) \/ PoolPays(p)
    \/ \E p \in Deployable, args \in DeployArgs : DeployPool(p, args)
    \/ \E p \in Indebted : BadDebtChanges(p)
    \/ RewardCall
    \/ EmitterSwitches
    \/ EmitterDistributes
    \/ \E dt \in Ticks : Tick(dt)

Spec == Init /\ [][Next]_backstopVars
=============================================================================
