-------------------------- MODULE BackstopBalances --------------------------
(***************************************************************************)
(* The balances of the backstop and the operations on them:                *)
(* backstop/src/backstop/pool.rs (PoolBalance) and user.rs (UserBalance,   *)
(* Q4W).                                                                   *)
(*                                                                         *)
(* A pool's deposit is a number of tokens owned through shares.  A user's  *)
(* shares leave through a queue: they are queued, wait out the lock, and   *)
(* are withdrawn oldest first - or taken back, newest first.               *)
(***************************************************************************)
EXTENDS FixedPoint, Sequences, Functions

CONSTANTS
    LockTime,   \* Q4W_LOCK_TIME: 17 days
    MaxQueue    \* MAX_Q4W_SIZE: entries a user may have queued in a pool

ASSUME BalanceAssumption == LockTime \in Nat /\ MaxQueue \in Nat

Q4W == [amount : Nat, exp : Nat]
UserBalance == [shares : Nat, q4w : Seq(Q4W)]
PoolBalance == [shares : Nat, tokens : Nat, q4w : Nat]

NoUserBalance == [shares |-> 0, q4w |-> <<>>]
NoPoolBalance == [shares |-> 0, tokens |-> 0, q4w |-> 0]

-----------------------------------------------------------------------------
(* PoolBalance                                                             *)

\* Mutant of ConvertToShares: shares are rounded in favour of the depositor.
SharesRoundedUp(b, tokens) ==
    IF b.shares = 0 THEN tokens
    ELSE IF b.tokens = 0 THEN 0 ELSE MulCeil(tokens, b.shares, b.tokens)

ConvertToShares(b, tokens) ==
    IF b.shares = 0 THEN tokens
    ELSE IF b.tokens = 0 THEN 0 ELSE MulFloor(tokens, b.shares, b.tokens)

ConvertToTokens(b, shares) ==
    IF b.shares = 0 THEN 0
    ELSE IF shares = b.shares THEN b.tokens ELSE MulFloor(shares, b.tokens, b.shares)

NonQueuedTokens(b) == b.tokens - ConvertToTokens(b, b.q4w)

DepositInto(b, tokens, shares) == [b EXCEPT !.tokens = @ + tokens, !.shares = @ + shares]

\* Mutant of CanWithdrawFrom: the pool may draw more tokens than it has.
CanWithdrawShort(b, tokens, shares) == shares <= b.shares /\ shares <= b.q4w

\* withdraw panics otherwise.  Shares that leave were queued.
CanWithdrawFrom(b, tokens, shares) ==
    tokens <= b.tokens /\ shares <= b.shares /\ shares <= b.q4w

\* Mutant of WithdrawFrom: the queued shares of the pool are not reduced.
WithdrawLeavingQueue(b, tokens, shares) ==
    [b EXCEPT !.tokens = @ - tokens, !.shares = @ - shares]

WithdrawFrom(b, tokens, shares) ==
    [b EXCEPT !.tokens = @ - tokens, !.shares = @ - shares, !.q4w = @ - shares]

-----------------------------------------------------------------------------
(* The queue of a user.  Serving n shares from the front goes through the  *)
(* entries up to the first one that completes n: earlier ones disappear,   *)
(* that one keeps what is left of it.  (It goes through at least one entry *)
(* of a queue that is not empty, for n = 0 too.)                           *)

Amounts(q) == [i \in DOMAIN q |-> q[i].amount]
Queued(q) == SumFunction(Amounts(q))
QueuedUpTo(q, k) == SumFunctionOnSet(Amounts(q), 1..k)

CanServe(q, n) == n <= Queued(q)

LastServed(q, n) ==
    CHOOSE k \in DOMAIN q : /\ n <= QueuedUpTo(q, k)
                            /\ \A j \in 1..(k - 1) : QueuedUpTo(q, j) < n

Serve(q, n) ==
    IF q = <<>> THEN q
    ELSE LET k == LastServed(q, n)
             left == QueuedUpTo(q, k) - n
             later == SubSeq(q, k + 1, Len(q))
         IN IF left = 0 THEN later ELSE <<[q[k] EXCEPT !.amount = left]>> \o later

Backwards(q) == [i \in DOMAIN q |-> q[Len(q) + 1 - i]]

-----------------------------------------------------------------------------
(* UserBalance at time t                                                   *)

AddShares(ub, n) == [ub EXCEPT !.shares = @ + n]

CanQueueShares(ub, n) == n <= ub.shares /\ Len(ub.q4w) < MaxQueue

QueueShares(ub, n, t) ==
    [ub EXCEPT !.shares = @ - n,
               !.q4w = Append(@, [amount |-> n, exp |-> t + LockTime])]

\* Mutant of CanWithdrawShares: only the oldest entry has to be unlocked.
FirstUnlocked(ub, n, t) ==
    /\ CanServe(ub.q4w, n)
    /\ ub.q4w # <<>> => ub.q4w[1].exp <= t

\* Every entry gone through must be unlocked.
CanWithdrawShares(ub, n, t) ==
    /\ CanServe(ub.q4w, n)
    /\ ub.q4w # <<>> => \A i \in 1..LastServed(ub.q4w, n) : ub.q4w[i].exp <= t

WithdrawShares(ub, n) == [ub EXCEPT !.q4w = Serve(@, n)]

\* Newest first, locked or not.
DequeueShares(ub, n) == [ub EXCEPT !.q4w = Backwards(Serve(Backwards(@), n))]
=============================================================================
