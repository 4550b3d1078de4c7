------------------------- MODULE BackstopProperties -------------------------
(***************************************************************************)
(* What the backstop must never get wrong.                                 *)
(***************************************************************************)
EXTENDS Backstop

\* All shares of a user in a pool, queued ones included.
Stake(p, u) == user_balance[p][u].shares + Queued(user_balance[p][u].q4w)

OfPools(f(_)) == SumFunction([p \in Pools |-> f(p)])
OfUsers(f(_)) == SumFunction([u \in Users |-> f(u)])

BackstopTypeOK ==
    /\ now \in Nat /\ calls \in Nat /\ deployed \subseteq Deployable
    /\ pool_balance \in [Pools -> PoolBalance]
    /\ user_balance \in [Pools -> [Users -> UserBalance]]
    /\ emissions \in [Pools -> EmissionData \cup {NoData}]
    /\ user_emissions \in [Pools -> [Users -> UserEmissionData \cup {NoData}]]
    /\ rewards \in Rewards
    /\ held \in [lp : Nat, blnd : Nat, allowance : [Pools -> Nat]]
    /\ emitter \in [last : Nat \cup {NoData}, dropped : BOOLEAN]
    /\ bad_debt \subseteq Pools

\* The shares of a pool are the shares of its depositors, and the shares it
\* counts as queued are those in their queues: over deposits, partial services
\* of the queues from either end, and shares minted by claims.
BackstopSharesAddUp ==
    \A p \in Pools :
        /\ pool_balance[p].shares = SumFunction([u \in Users |-> Stake(p, u)])
        /\ pool_balance[p].q4w = SumFunction([u \in Users |-> Queued(user_balance[p][u].q4w)])

\* The contract holds the LP tokens it counts as deposited: a claim over
\* several pools deposits no more than the AMM returned.
DepositsBacked == OfPools(LAMBDA p : pool_balance[p].tokens) <= held.lp

\* Only a pool of the factory ever has a deposit, shares or queued shares: what
\* the reward zone relies on (the note in add_to_reward_zone), though the
\* factory is asked only while the pool has no shares.
OnlyPoolsHoldDeposits == \A p \in Pools \ deployed : pool_balance[p] = NoPoolBalance

-----------------------------------------------------------------------------
(* The queue.                                                              *)

Unlocked(q) == SumFunction([i \in DOMAIN q |-> IF q[i].exp <= now THEN q[i].amount ELSE 0])

\* No share leaves before its lock is over, whatever was queued, withdrawn in
\* part and taken back before: a stake shrinks by what is unlocked at most.
NoEarlyExit ==
    [][\A p \in Pools, u \in Users :
         Stake(p, u)' < Stake(p, u) =>
             Stake(p, u) - Stake(p, u)' <= Unlocked(user_balance[p][u].q4w)]_backstopVars

\* The backstop is a vault per pool: the value of a share falls by a draw of
\* the pool and by nothing else.  In particular deposits, claims and withdrawals
\* are never at a better price than the deposit justifies, queueing and taking
\* back change nothing, and no user moves the stake of another.
AbstractVault == INSTANCE Vault WITH
    tokens <- [p \in Pools |-> pool_balance[p].tokens],
    stake <- [p \in Pools |-> [u \in Users |-> Stake(p, u)]]

ImplementsVault == AbstractVault!Spec

\* The steps alone, from any state: a claim, too, enters several vaults at a fair
\* price, its shares rounded down and possibly to none.
VaultSteps == [][AbstractVault!Next]_(AbstractVault!vars)

-----------------------------------------------------------------------------
(* Emissions.                                                              *)

\* Granted to depositors and not yet reflected in the index.
Unemitted(d) ==
    IF d # NoData /\ d.expiration > d.last_time
    THEN MulFloor(d.eps, d.expiration - d.last_time, Scalar7) ELSE 0

Unclaimed(p, u) ==
    IF emissions[p] = NoData THEN 0
    ELSE Owed(emissions[p], user_emissions[p][u], user_balance[p][u].shares)

\* BLND promised on behalf of a pool.
Promised(p) ==
    rewards.accrued[p] + held.allowance[p] + Unemitted(emissions[p])
      + OfUsers(LAMBDA u : Unclaimed(p, u))

\* Every claim can be paid: what is due to pools and depositors, at any stage
\* between distribution and claim, is BLND the contract holds or, before the
\* drop, has backfilled.  It rests on each change of a user's shares settling
\* emissions first, on queued shares earning nothing, on grants that overlap
\* being merged, and on no second being counted twice at the emitter's switch.
EmissionsCovered ==
    OfPools(Promised) <= held.blnd + (IF emitter.dropped THEN 0 ELSE rewards.backfill)
=============================================================================
