-------------------------------- MODULE Pool --------------------------------
(***************************************************************************)
(* The lending pool contract: pool/src/contract.rs and what it calls.      *)
(*                                                                         *)
(* `submit' and `flash_loan' are run request by request: BeginSubmit or    *)
(* BeginFlashLoan, one action per request type, then Commit (the checks of *)
(* validate_submit, the transfers and the stores) or Abort (some step, a   *)
(* token transfer or the receiver trapped: nothing is kept).  Every other  *)
(* entry point is one action, enabled when it would not trap.              *)
(*                                                                         *)
(* Time, oracle prices, direct token transfers to the pool and the pool's  *)
(* account at the backstop change between invocations only.                *)
(***************************************************************************)
EXTENDS Auctions

CONSTANTS
    Configs,             \* initial reserve configuration of each asset
    InitialPoolConfig,   \* initial take rate and limits
    MaxReserves,         \* MAX_RESERVES, 30
    QueueDelay,          \* SECONDS_PER_WEEK: time lock on reserve changes
    NoQueue,             \* no change of a reserve is queued
    InitialTokens,       \* initial backstop deposit of the pool
    \* Bounds on the inputs explored; none of them is in the code.
    Requests,            \* per user, the requests it makes
    Prices,              \* per asset, the prices the oracle may report
    LiquidationPercents, \* percentages liquidated
    PoolConfigs,         \* take rates and limits update_pool is given
    NewConfigs,          \* per asset, the configurations the admin queues
    AdminStatuses,       \* statuses the admin may set
    QueueLevels,         \* percentages of the backstop queued for withdrawal
    BackstopAmounts,     \* backstop deposits and withdrawals
    MaxBackstopTokens,   \* bound on the backstop's deposit
    Gifts,               \* tokens sent to the pool outside of any request
    MaxBalance,          \* bound on the pool's balance for Gifts
    FlashLoans,          \* amounts of flash loans
    MaxRequests,         \* requests in one submit
    MaxWrites,           \* invocations that change the ledger
    Ticks,               \* time steps
    MaxTime              \* last ledger explored

RequestTypes ==
    {"Supply", "Withdraw", "SupplyCollateral", "WithdrawCollateral",
     "Borrow", "Repay", "FillUserLiquidationAuction", "FillBadDebtAuction",
     "FillInterestAuction", "DeleteLiquidationAuction"}

\* `address' is a reserve, or whose auction is filled; `amount' may be a
\* percentage.  Negative amounts are refused before anything else.
Request == [request_type : RequestTypes, address : Assets \cup Accounts, amount : Nat]

\* The part of PoolConfig update_pool sets, and require_valid_pool_config.
PoolLimits == [bstop_rate : Nat, max_positions : Nat, min_collateral : Nat]

ValidPoolConfig(c) ==
    /\ c \in PoolLimits
    /\ c.bstop_rate < Scalar7
    /\ c.max_positions \in 2..(2 * MaxReserves)

ASSUME PoolAssumption ==
    /\ Configs \in [Assets -> ReserveConfig]
    /\ \A a \in Assets : ValidReserveConfig(Configs[a])
    /\ MaxReserves \in Nat /\ QueueDelay \in Nat
    /\ ValidPoolConfig(InitialPoolConfig)
    /\ PoolConfigs \subseteq PoolLimits
    /\ \A a \in Assets : NewConfigs[a] \subseteq ReserveConfig
    /\ InitialTokens \in Nat /\ BackstopAmounts \subseteq Nat
    /\ \A u \in Users : Requests[u] \subseteq Request
    /\ FlashLoans \subseteq Nat /\ Gifts \subseteq Nat
    /\ Prices \in [Assets -> SUBSET Nat]
    /\ LiquidationPercents \subseteq Nat
    /\ AdminStatuses \subseteq {0, 2, 3, 4} /\ QueueLevels \subseteq 0..100
    /\ Ticks \subseteq Nat /\ MaxTime \in Nat
    /\ MaxBackstopTokens \in Nat /\ MaxBalance \in Nat /\ MaxRequests \in Nat
    /\ MaxWrites \in Nat

\* Every deposit and withdrawal may leave a rounding behind in the pool, so its
\* balance has no bound of its own: `writes' counts the invocations that changed
\* the ledger, and only bounds what is explored.
VARIABLE writes

poolVars == <<vars, writes>>

CountWrite ==
    /\ writes' = IF ledger' = ledger THEN writes ELSE writes + 1
    /\ writes' <= MaxWrites

\* PoolConfig.status: 0 admin active, 1 active, 2 admin on-ice, 3 on-ice,
\* 4 admin frozen, 5 frozen, 6 setup.
Status == 0..6

\* QueuedReserveInit
Queued == [new_config : ReserveConfig, unlock_time : Nat]

Config ==
    [status : Status, bstop_rate : Nat, max_positions : Nat, min_collateral : Nat,
     reserves : [Assets -> ReserveConfig], queued : [Assets -> Queued \cup {NoQueue}]]

\* execute_initialize leaves a pool in setup.
InitialConfig(status) ==
    [status |-> status, bstop_rate |-> InitialPoolConfig.bstop_rate,
     max_positions |-> InitialPoolConfig.max_positions,
     min_collateral |-> InitialPoolConfig.min_collateral,
     reserves |-> Configs, queued |-> [a \in Assets |-> NoQueue]]

Call ==
    [from : Users, ledger : Ledger,
     spender_transfer : [Assets -> Nat],  \* owed by the spender
     pool_transfer : [Assets -> Nat],     \* owed by the pool
     flash : [Assets -> Nat],             \* lent to the flash loan's receiver
     check_health : BOOLEAN, check_max_util : SUBSET Assets,
     prev_positions_count : Nat, requests : Nat]

TypeOK ==
    /\ now \in Nat
    /\ price \in [Assets -> Nat]
    /\ config \in Config
    /\ q4w_pct \in Nat
    /\ ledger \in Ledger
    /\ call \in Call \cup {NoCall}
    /\ writes \in Nat

\* A pool in setup, with its reserves added and a deposit in its backstop.
InitialLedger ==
    [reserves |-> [a \in Assets |-> NewReserve(0)],
     positions |-> [u \in Accounts |-> NoPositions],
     liquidation |-> [u \in Users |-> NoAuction],
     bad_debt |-> NoAuction, interest |-> NoAuction,
     balance |-> NoShares, backstop_tokens |-> InitialTokens]

Init ==
    /\ now = 0
    /\ price \in [Assets -> UNION {Prices[a] : a \in Assets}]
    /\ \A a \in Assets : price[a] \in Prices[a]
    /\ config = InitialConfig(6)
    /\ q4w_pct = 0
    /\ ledger = InitialLedger
    /\ call = NoCall
    /\ writes = 0

-----------------------------------------------------------------------------
(* Starting an invocation.                                                 *)

\* Mutant of PoolAllows: off by one, admin on-ice (2) still lends.
OnIceAllowsDebt(type) ==
    /\ config.status > 2 => type \notin {"Borrow", "DeleteLiquidationAuction"}
    /\ config.status > 3 => type \notin {"Supply", "SupplyCollateral"}

\* Pool::require_action_allowed and Reserve::require_action_allowed.
PoolAllows(type) ==
    /\ config.status > 1 => type \notin {"Borrow", "DeleteLiquidationAuction"}
    /\ config.status > 3 => type \notin {"Supply", "SupplyCollateral"}

ReserveAllows(a, type) ==
    config.reserves[a].enabled \/ type \notin {"Supply", "SupplyCollateral", "Borrow"}

NewCall(u, w) ==
    [from |-> u, ledger |-> w, spender_transfer |-> NoShares,
     pool_transfer |-> NoShares, flash |-> NoShares, check_health |-> FALSE,
     check_max_util |-> {},
     prev_positions_count |-> EffectiveCount(ledger.positions[u]), requests |-> 0]

BeginSubmit(u) ==
    /\ call = NoCall
    /\ call' = NewCall(u, ledger)
    /\ UNCHANGED <<now, price, config, q4w_pct, ledger, writes>>

\* Mutant of BelowFull: off by one, a reserve may be lent out entirely.
UpToFull(r) == Utilization(r) <= Scalar7

BelowFull(r) == Utilization(r) < Scalar7

\* Mutant of BeginFlashLoan: only the requests decide whether health is checked.
FlashLoanUnchecked(u, a, amount) ==
    LET l == LoadReserves(ledger, {a})
        minted == ToDTokenUp(l.reserves[a], amount)
        w == AddLiabilities(l, u, a, minted)
    IN /\ call = NoCall
       /\ PoolAllows("Borrow") /\ ReserveAllows(a, "Borrow")
       /\ minted > 0
       /\ BelowFull(w.reserves[a])
       /\ call' = [NewCall(u, w) EXCEPT !.flash[a] = amount, !.check_max_util = {a}]
       /\ UNCHANGED <<now, price, config, q4w_pct, ledger, writes>>

\* execute_submit_with_flash_loan: the debt is added before the requests.
BeginFlashLoan(u, a, amount) ==
    LET l == LoadReserves(ledger, {a})
        minted == ToDTokenUp(l.reserves[a], amount)
        w == AddLiabilities(l, u, a, minted)
    IN /\ call = NoCall
       /\ PoolAllows("Borrow") /\ ReserveAllows(a, "Borrow")
       /\ minted > 0
       /\ BelowFull(w.reserves[a])
       /\ call' = [NewCall(u, w) EXCEPT !.flash[a] = amount, !.check_health = TRUE,
                                        !.check_max_util = {a}]
       /\ UNCHANGED <<now, price, config, q4w_pct, ledger, writes>>

-----------------------------------------------------------------------------
(* build_actions_from_request: one action per request type.                *)

Requesting(req, type) ==
    /\ call # NoCall
    /\ call.requests < MaxRequests
    /\ req \in Requests[call.from] /\ req.request_type = type
    /\ PoolAllows(type)

\* Requests on a reserve: load_reserve traps on any other address.
RequestingOn(req, type) ==
    /\ Requesting(req, type)
    /\ req.address \in Assets /\ ReserveAllows(req.address, type)

\* The working copy becomes w; `in' and `out' are noted for the transfers.
Proceed(w, a, in, out) ==
    /\ call' = [call EXCEPT !.ledger = w, !.requests = @ + 1,
                            !.spender_transfer[a] = @ + in,
                            !.pool_transfer[a] = @ + out]
    /\ UNCHANGED <<now, price, config, q4w_pct, ledger, writes>>

ProceedChecked(w, a, out, maxUtil) ==
    /\ call' = [call EXCEPT !.ledger = w, !.requests = @ + 1,
                            !.pool_transfer[a] = @ + out,
                            !.check_health = TRUE,
                            !.check_max_util = @ \cup maxUtil]
    /\ UNCHANGED <<now, price, config, q4w_pct, ledger, writes>>

Working(a) == LoadReserves(call.ledger, {a})
Position == call.ledger.positions[call.from]
BelowCap(r, a) == TotalSupply(r) <= config.reserves[a].supply_cap

Supply(req) ==
    LET a == req.address
        r == Working(a).reserves[a]
        minted == ToBTokenDown(r, req.amount)
        w == AddSupply(Working(a), call.from, a, minted)
    IN /\ RequestingOn(req, "Supply")
       /\ r.b_rate > 0 /\ minted > 0
       /\ BelowCap(w.reserves[a], a)
       /\ Proceed(w, a, req.amount, 0)

SupplyCollateral(req) ==
    LET a == req.address
        r == Working(a).reserves[a]
        minted == ToBTokenDown(r, req.amount)
        w == AddCollateral(Working(a), call.from, a, minted)
    IN /\ RequestingOn(req, "SupplyCollateral")
       /\ r.b_rate > 0 /\ minted > 0
       /\ BelowCap(w.reserves[a], a)
       /\ Proceed(w, a, req.amount, 0)

\* Mutant of BurnFor: a withdrawal is not cut down to what the user holds.
BurnUnclamped(r, amount, held) == [shares |-> ToBTokenUp(r, amount), tokens |-> amount]

\* b tokens burnt for `amount' out of `held', and the tokens paid for them.
BurnFor(r, amount, held) ==
    IF ToBTokenUp(r, amount) > held
    THEN [shares |-> held, tokens |-> ToAssetFromB(r, held)]
    ELSE [shares |-> ToBTokenUp(r, amount), tokens |-> amount]

Withdraw(req) ==
    LET a == req.address
        r == Working(a).reserves[a]
        burn == BurnFor(r, req.amount, Position.supply[a])
        w == RemoveSupply(Working(a), call.from, a, burn.shares)
    IN /\ RequestingOn(req, "Withdraw")
       /\ r.b_rate > 0 /\ burn.shares > 0
       /\ BelowFull(w.reserves[a])
       /\ Proceed(w, a, 0, burn.tokens)

WithdrawCollateral(req) ==
    LET a == req.address
        r == Working(a).reserves[a]
        burn == BurnFor(r, req.amount, Position.collateral[a])
        w == RemoveCollateral(Working(a), call.from, a, burn.shares)
    IN /\ RequestingOn(req, "WithdrawCollateral")
       /\ r.b_rate > 0 /\ burn.shares > 0
       /\ BelowFull(w.reserves[a])
       /\ ProceedChecked(w, a, burn.tokens, {})

Borrow(req) ==
    LET a == req.address
        minted == ToDTokenUp(Working(a).reserves[a], req.amount)
        w == AddLiabilities(Working(a), call.from, a, minted)
    IN /\ RequestingOn(req, "Borrow")
       /\ minted > 0
       /\ BelowFull(w.reserves[a])
       /\ ProceedChecked(w, a, req.amount, {a})

\* An overpayment is taken in full and the excess refunded.
Repay(req) ==
    LET a == req.address
        r == Working(a).reserves[a]
        owed == Position.liabilities[a]
        over == ToDTokenDown(r, req.amount) > owed
        burnt == IF over THEN owed ELSE ToDTokenDown(r, req.amount)
        refund == IF over THEN req.amount - ToAssetFromD(r, owed) ELSE 0
        w == RemoveLiabilities(Working(a), call.from, a, burnt)
    IN /\ RequestingOn(req, "Repay")
       /\ burnt > 0 /\ refund >= 0
       /\ Proceed(w, a, req.amount, refund)

\* Auction fills and deletions move no tokens through the two transfer maps.
ProceedWith(w, checkHealth) ==
    /\ call' = [call EXCEPT !.ledger = w, !.requests = @ + 1,
                            !.check_health = @ \/ checkHealth]
    /\ UNCHANGED <<now, price, config, q4w_pct, ledger, writes>>

FillUserLiquidationAuction(req) ==
    /\ Requesting(req, "FillUserLiquidationAuction")
    /\ req.address \in Users
    /\ CanFillUserLiquidation(call.ledger, req.address, call.from, req.amount)
    /\ ProceedWith(FillUserLiquidation(call.ledger, req.address, call.from, req.amount), TRUE)

\* The other two auctions only exist for the backstop's address.
FillBadDebtAuction(req) ==
    /\ Requesting(req, "FillBadDebtAuction")
    /\ req.address = Backstop
    /\ CanFillBadDebt(call.ledger, call.from, req.amount)
    /\ ProceedWith(FillBadDebt(call.ledger, call.from, req.amount), TRUE)

FillInterestAuction(req) ==
    /\ Requesting(req, "FillInterestAuction")
    /\ req.address = Backstop
    /\ CanFillInterest(call.ledger, call.from, req.amount)
    /\ ProceedWith(FillInterest(call.ledger, req.amount), FALSE)

\* Mutant of DeleteLiquidationAuction: no health check is asked for.
DeleteUnchecked(req) ==
    /\ Requesting(req, "DeleteLiquidationAuction")
    /\ call.ledger.liquidation[call.from] # NoAuction
    /\ ProceedWith([call.ledger EXCEPT !.liquidation[call.from] = NoAuction], FALSE)

DeleteLiquidationAuction(req) ==
    /\ Requesting(req, "DeleteLiquidationAuction")
    /\ call.ledger.liquidation[call.from] # NoAuction
    /\ ProceedWith([call.ledger EXCEPT !.liquidation[call.from] = NoAuction], TRUE)

-----------------------------------------------------------------------------
(* Ending an invocation.                                                   *)

\* Mutant of Healthy: a price the oracle no longer stands by is used all the same.
HealthyAtAnyPrice(w, p) ==
    HasLiabilities(p) =>
        LET data == CalculateFromPositions(w, p)
        IN ~IsHfUnder(data, MinHealthFactor) /\ data.collateral_base >= config.min_collateral

\* The health a user with debt must have when its requests are over.
Healthy(w, p) ==
    HasLiabilities(p) =>
        /\ Priceable(p)
        /\ LET data == CalculateFromPositions(w, p)
           IN ~IsHfUnder(data, MinHealthFactor) /\ data.collateral_base >= config.min_collateral

\* validate_submit
UnderMaxPositions ==
    EffectiveCount(Position) > call.prev_positions_count
        => EffectiveCount(Position) <= config.max_positions

UtilizationBelowMax(w, a) ==
    Utilization(LoadedReserve(w, a)) <= config.reserves[a].max_util

\* Mutant of ValidateSubmit: the user's own auction is not looked for.
ValidateIgnoringAuction ==
    /\ UnderMaxPositions
    /\ \A a \in call.check_max_util : UtilizationBelowMax(call.ledger, a)
    /\ call.check_health => Healthy(call.ledger, Position)

\* Mutant of ValidateSubmit: the position from before the requests is checked.
ValidateStalePosition ==
    /\ UnderMaxPositions
    /\ call.ledger.liquidation[call.from] = NoAuction
    /\ \A a \in call.check_max_util : UtilizationBelowMax(call.ledger, a)
    /\ call.check_health => Healthy(call.ledger, ledger.positions[call.from])

ValidateSubmit ==
    /\ UnderMaxPositions
    /\ call.ledger.liquidation[call.from] = NoAuction
    /\ \A a \in call.check_max_util : UtilizationBelowMax(call.ledger, a)
    /\ call.check_health => Healthy(call.ledger, Position)

\* The flash loan goes out first, then what the spender owes comes in and what
\* the pool owes goes out (netted or not, the pool must have it all).
BalancesAfter ==
    [a \in Assets |-> call.ledger.balance[a] - call.flash[a]
                      + call.spender_transfer[a] - call.pool_transfer[a]]

Commit ==
    /\ call # NoCall
    /\ ValidateSubmit
    /\ \A a \in Assets : call.flash[a] <= call.ledger.balance[a] /\ BalancesAfter[a] >= 0
    /\ ledger' = [call.ledger EXCEPT !.balance = BalancesAfter]
    /\ call' = NoCall
    /\ CountWrite
    /\ UNCHANGED <<now, price, config, q4w_pct>>

Abort ==
    /\ call # NoCall
    /\ call' = NoCall
    /\ UNCHANGED <<now, price, config, q4w_pct, ledger, writes>>

-----------------------------------------------------------------------------
(* The entry points that are not requests.                                 *)

Writes(w) ==
    /\ call = NoCall
    /\ ledger' = w
    /\ CountWrite
    /\ UNCHANGED <<now, price, config, q4w_pct, call>>

NewUserLiquidation(u, bid, lot, percent) ==
    /\ CanLiquidate(ledger, u, bid, lot, percent)
    /\ Writes(CreateUserLiquidation(ledger, u, bid, lot, percent))

NewBadDebtAuction(bid) ==
    /\ CanCreateBadDebt(ledger, bid)
    /\ Writes(CreateBadDebt(ledger, bid))

NewInterestAuction(lot) ==
    /\ CanCreateInterest(ledger, lot)
    /\ Writes(CreateInterest(ledger, lot))

\* del_auction, for each type of auction
DeleteStaleLiquidation(u) ==
    /\ IsStale(ledger.liquidation[u])
    /\ Writes([ledger EXCEPT !.liquidation[u] = NoAuction])

DeleteStaleBadDebt ==
    /\ IsStale(ledger.bad_debt)
    /\ Writes([ledger EXCEPT !.bad_debt = NoAuction])

DeleteStaleInterest ==
    /\ IsStale(ledger.interest)
    /\ Writes([ledger EXCEPT !.interest = NoAuction])

\* Mutant of BadDebt: the auction of the bad debt is not looked for.
BadDebtDuringAuction(u) ==
    /\ IF u = Backstop
       THEN /\ MustDefault(ledger) /\ CanDefault(ledger)
            /\ Writes(DefaultBackstopDebt(ledger))
       ELSE /\ ledger.liquidation[u] = NoAuction
            /\ HasBadDebt(ledger.positions[u])
            /\ Writes(HandleUserBadDebt(ledger, u))

\* bad_debt: of the backstop, or of a user.
BadDebt(u) ==
    /\ IF u = Backstop
       THEN /\ ledger.bad_debt = NoAuction
            /\ MustDefault(ledger) /\ CanDefault(ledger)
            /\ Writes(DefaultBackstopDebt(ledger))
       ELSE /\ ledger.liquidation[u] = NoAuction
            /\ HasBadDebt(ledger.positions[u])
            /\ Writes(HandleUserBadDebt(ledger, u))

\* Mutant of Excess: the credit owed already is credited again.
ExcessWithCredit(w, a) ==
    LET r == w.reserves[a]
    IN w.balance[a] - (TotalSupply(r) - TotalLiabilities(r))

\* gulp: tokens nobody claims are credited to the backstop.
Excess(w, a) ==
    LET r == w.reserves[a]
    IN w.balance[a] - (TotalSupply(r) + r.backstop_credit - TotalLiabilities(r))

Gulp(a) ==
    LET w == LoadReserves(ledger, {a})
    IN /\ call = NoCall
       /\ PoolAllows("Borrow")
       /\ Excess(w, a) > 0
       /\ Writes([w EXCEPT !.reserves[a].backstop_credit = @ + Excess(w, a)])

\* Mutant of UpdatePool: past interest is left to accrue at the new take rate.
UpdatePoolUnaccrued(c) ==
    /\ call = NoCall
    /\ ValidPoolConfig(c)
    /\ config' = [config EXCEPT !.bstop_rate = c.bstop_rate,
                                !.max_positions = c.max_positions,
                                !.min_collateral = c.min_collateral]
    /\ UNCHANGED <<now, price, q4w_pct, ledger, call, writes>>

\* update_pool: interest earned so far is accrued at the old take rate.
UpdatePool(c) ==
    /\ call = NoCall
    /\ ValidPoolConfig(c)
    /\ ledger' = IF c.bstop_rate = config.bstop_rate THEN ledger
                 ELSE LoadReserves(ledger, Assets)
    /\ config' = [config EXCEPT !.bstop_rate = c.bstop_rate,
                                !.max_positions = c.max_positions,
                                !.min_collateral = c.min_collateral]
    /\ CountWrite
    /\ UNCHANGED <<now, price, q4w_pct, call>>

SetsConfig(c) ==
    /\ call = NoCall
    /\ config' = c
    /\ UNCHANGED <<now, price, q4w_pct, ledger, call, writes>>

\* queue_set_reserve: the time lock starts once the pool has left setup.
QueueSetReserve(a, cfg) ==
    /\ config.queued[a] = NoQueue
    /\ ValidReserveConfig(cfg) /\ ValidChange(config.reserves[a], cfg)
    /\ SetsConfig([config EXCEPT !.queued[a] =
         [new_config |-> cfg,
          unlock_time |-> IF config.status = 6 THEN now ELSE now + QueueDelay]])

CancelSetReserve(a) == SetsConfig([config EXCEPT !.queued[a] = NoQueue])

\* Mutant of SetReserve: past interest is left to accrue on the new curve.
SetReserveUnaccrued(a) ==
    /\ config.queued[a] # NoQueue
    /\ config.queued[a].unlock_time <= now
    /\ ValidChange(config.reserves[a], config.queued[a].new_config)
    /\ SetsConfig([config EXCEPT !.queued[a] = NoQueue,
                                 !.reserves[a] = config.queued[a].new_config])

\* set_reserve, of a reserve that exists: what it earned is accrued with the old
\* configuration, and a new curve starts with a fresh rate modifier.
SetReserve(a) ==
    LET cur == config.reserves[a]
        cfg == config.queued[a].new_config
        l == LoadReserves(ledger, {a})
    IN /\ call = NoCall
       /\ config.queued[a] # NoQueue
       /\ config.queued[a].unlock_time <= now
       /\ ValidChange(cur, cfg)
       /\ ledger' = IF CurveChanged(cur, cfg)
                    THEN [l EXCEPT !.reserves[a].ir_mod = Scalar7] ELSE l
       /\ config' = [config EXCEPT !.queued[a] = NoQueue, !.reserves[a] = cfg]
       /\ CountWrite
       /\ UNCHANGED <<now, price, q4w_pct, call>>

MetThreshold == ledger.backstop_tokens >= ThresholdTokens

StatusAfterUpdate ==
    CASE config.status = 2 -> IF q4w_pct >= 75 THEN 5 ELSE 2
      [] config.status = 0 -> IF ~MetThreshold \/ q4w_pct >= 50 THEN 3 ELSE 0
      [] OTHER -> IF q4w_pct >= 60 THEN 5
                  ELSE IF q4w_pct >= 30 \/ ~MetThreshold THEN 3 ELSE 1

SetsStatus(s) == SetsConfig([config EXCEPT !.status = s])

UpdateStatus ==
    /\ config.status \notin {4, 6}
    /\ SetsStatus(StatusAfterUpdate)

SetStatus(s) ==
    /\ s = 0 => MetThreshold /\ q4w_pct < 50
    /\ s \in {2, 3} => q4w_pct < 75
    /\ SetsStatus(s)

-----------------------------------------------------------------------------
(* The environment, between invocations.                                   *)

Tick(delta) ==
    /\ call = NoCall /\ now + delta <= MaxTime
    /\ now' = now + delta
    /\ UNCHANGED <<price, config, q4w_pct, ledger, call, writes>>

NewPrice(a, p) ==
    /\ call = NoCall /\ p # price[a]
    /\ price' = [price EXCEPT ![a] = p]
    /\ UNCHANGED <<now, config, q4w_pct, ledger, call, writes>>

Gift(a, amount) ==
    /\ ledger.balance[a] + amount <= MaxBalance
    /\ Writes([ledger EXCEPT !.balance[a] = @ + amount])

\* The backstop's depositors join, leave or queue: the deposit becomes `tokens'
\* and the queued share `level'.
BackstopMoves(tokens, level) ==
    /\ call = NoCall
    /\ ledger' = [ledger EXCEPT !.backstop_tokens = tokens]
    /\ q4w_pct' = level
    /\ CountWrite
    /\ UNCHANGED <<now, price, config, call>>

BackstopDeposit(amount, level) ==
    /\ ledger.backstop_tokens + amount <= MaxBackstopTokens
    /\ BackstopMoves(ledger.backstop_tokens + amount, level)

\* execute_withdraw of the backstop refuses while the pool has bad debt.
BackstopWithdraw(amount, level) ==
    /\ amount <= ledger.backstop_tokens
    /\ ~HasLiabilities(ledger.positions[Backstop])
    /\ BackstopMoves(ledger.backstop_tokens - amount, level)

QueueChange(level) ==
    /\ call = NoCall /\ level # q4w_pct
    /\ q4w_pct' = level
    /\ UNCHANGED <<now, price, config, ledger, call, writes>>

-----------------------------------------------------------------------------
Begin ==
    \E u \in Users :
        \/ BeginSubmit(u)
        \/ \E a \in Assets, amount \in FlashLoans : BeginFlashLoan(u, a, amount)

RequestStep ==
    \E req \in UNION {Requests[u] : u \in Users} :
        \/ Supply(req)
        \/ Withdraw(req)
        \/ SupplyCollateral(req)
        \/ WithdrawCollateral(req)
        \/ Borrow(req)
        \/ Repay(req)
        \/ FillUserLiquidationAuction(req)
        \/ FillBadDebtAuction(req)
        \/ FillInterestAuction(req)
        \/ DeleteLiquidationAuction(req)

LiquidationStep ==
    \E bid, lot \in SUBSET Assets, u \in Users, percent \in LiquidationPercents :
        NewUserLiquidation(u, bid, lot, percent)

OtherAuctionStep ==
    \/ \E assets \in SUBSET Assets :
        NewBadDebtAuction(assets) \/ NewInterestAuction(assets)
    \/ \E u \in Users : DeleteStaleLiquidation(u)
    \/ DeleteStaleBadDebt
    \/ DeleteStaleInterest

AuctionStep == LiquidationStep \/ OtherAuctionStep

MaintenanceStep ==
    \/ \E u \in Accounts : BadDebt(u)
    \/ \E a \in Assets : Gulp(a)
    \/ \E c \in PoolConfigs : UpdatePool(c)
    \/ \E a \in Assets :
        \/ \E cfg \in NewConfigs[a] : QueueSetReserve(a, cfg)
        \/ CancelSetReserve(a)
        \/ SetReserve(a)
    \/ UpdateStatus
    \/ \E s \in AdminStatuses : SetStatus(s)

OutsideStep ==
    \/ \E delta \in Ticks : Tick(delta)
    \/ \E a \in Assets :
        \/ \E p \in Prices[a] : NewPrice(a, p)
        \/ \E amount \in Gifts : Gift(a, amount)

BackstopStep ==
    \/ \E amount \in BackstopAmounts, level \in QueueLevels \cup {q4w_pct} :
        BackstopDeposit(amount, level) \/ BackstopWithdraw(amount, level)
    \/ \E level \in QueueLevels : QueueChange(level)

EnvironmentStep == OutsideStep \/ BackstopStep

Next ==
    \/ Begin \/ RequestStep \/ Commit \/ Abort
    \/ AuctionStep \/ MaintenanceStep \/ EnvironmentStep

Spec == Init /\ [][Next]_poolVars
=============================================================================
