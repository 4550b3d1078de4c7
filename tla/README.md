# SaccoChain lending pool: specification

TLA+ specification, model-checking runs and machine-checked proofs for the
contracts of this repository (`src/` below is the repository's root). The
specification is written from the Rust source; comments and documents were only
used as statements to compare the code with.

## 1. The system

SaccoChain is a set of Soroban (Stellar) contracts in Rust.

| component | state it keeps | operations | modelled by |
|---|---|---|---|
| **Pool: reserves** `pool/src/pool/{reserve,interest}.rs` | per asset `b_rate`, `d_rate`, `ir_mod`, `b_supply`, `d_supply`, `backstop_credit`, `last_time`, and a configuration | accrual when loaded, conversions between shares and tokens | `FixedPoint`, `Reserve` |
| **Pool: users** `pool/{user,pool,health_factor}.rs` | per account three maps: liabilities (d tokens), collateral and supply (b tokens) | add, remove, move, default; health factor from oracle prices | `PoolState` |
| **Pool: auctions** `pool/src/auctions` | at most one liquidation per user, one bad debt and one interest auction | create, fill in part or in full, delete | `Auctions` |
| **Pool: entry points** `pool/{actions,submit,bad_debt,gulp,config,status}.rs`, `contract.rs` | pool configuration and status, queued reserve changes, admin | `submit`, `flash_loan`, `new_auction`, `del_auction`, `bad_debt`, `gulp`, `update_pool`, `queue_set_reserve`, `cancel_set_reserve`, `set_reserve`, `update_status`, `set_status` | `Pool` |
| **Pool: emissions** `pool/src/emissions` | shares, reward rate and index per reserve token; index and accrued amount per holder | `gulp_emissions`, `set_emissions_config`, `claim`; every change of a position settles first | `PoolEmissions` |
| **Backstop: funds** `backstop/src/backstop` | per pool tokens, shares and queued shares; per depositor shares and a queue of withdrawals | `deposit`, `queue_withdrawal`, `dequeue_withdrawal`, `withdraw`, `draw`, `donate` | `BackstopBalances`, `Backstop`, `Vault`; in `Pool` as the pool sees it; both at once in `Insurance` |
| **Backstop: emissions** `backstop/src/emissions` | reward zone, emissions due to its pools, emission index per pool, index and accrued amount per depositor, backfill | `add_reward`, `remove_reward`, `distribute`, `gulp_emissions`, `claim`, `drop` | `BackstopEmissions`, `Backstop` |
| **Pool factory** `pool-factory` | the set of pools deployed | `deploy`, `is_pool` | `PoolFactory`, in `Backstop` |
| **Dashboard** `frontend/{lib/sacco.ts,app/dashboard,components/ActionPanel}` | the address shown, statistics, an error, the submits under way | reading the wallet, loading, submitting: prepare, sign, send, poll | `Dashboard` |
| **Simulator** `frontend/lib/simulator.ts` | members' deposits and loans, totals of the pool | `applySimAction`, `getSimMemberStats` | `Simulator`, in `Dashboard` |
| **Landing page, connect button, mocks, tests** | none of the protocol's | | no |

How they interact. A user calls the pool with a list of requests; the pool reads
prices from an oracle, moves tokens with token contracts, and calls the backstop
(`pool_data` for status, auctions and defaults, `draw` when a bad debt auction is
filled, `donate` when an interest auction is filled). The backstop calls the pool
back in `withdraw` to see whether it owes anything. Anybody may call
`new_auction`, `bad_debt`, `update_status`, `set_reserve`, `gulp`.

What is concurrent. Soroban runs one invocation at a time and forbids a contract
on the call stack to be called again, so neither a flash loan's receiver nor the
backstop nor a token can call back into the pool. An invocation that traps leaves
no trace. The interleaving is that of invocations: requests of different users,
the admin's, the backstop depositors', the passing of time, and prices. *Inside*
an invocation the order of steps matters: a `submit` mutates a position, reserves
and auctions request by request and is validated only at its end.

The browser is the opposite: one thread, but everything on it is asynchronous. The
wallet is read every four seconds by calls that may overlap, an effect loads the
statistics and is cancelled when its inputs change, and a submitted action is
prepared, signed, sent and polled while the member goes on using the page.

What is hard, and what makes the components correct:

- *reserves*: every rounding must favour the pool, at any accrual; rates never
  fall except by a default; time that passed is charged once, by the
  configuration that was in force;
- *users*: positions and totals agree on every path; debt can always be valued;
  taking on debt or withdrawing collateral leaves the user healthy;
- *auctions*: what is sold is still there when it is bought, in parts, late, or
  never; a user cannot get out of a liquidation except by becoming healthy; debt
  that nothing backs ends at the backstop and nowhere else; it is forgiven only
  when the backstop is empty, and then all of it;
- *status*: no debt on ice, no deposits when frozen, by whatever path;
- *backstop, to the pool*: its credit stays in the pool until auctioned; its deposit
  cannot leave while it owes anything;
- *backstop, to depositors*: shares leave through a queue and never before their
  lock; entering and leaving dilutes nobody; only the pool's draws take value;
- *emissions*, of the backstop and of the pool: what is promised can be paid,
  whatever the order of grants, changes of shares and positions, claims, and the
  switch of the emitter; only time changes what somebody is owed;
- *pool and backstop together*: each does what the other takes for granted; debt
  handed over gets resolved and never just stuck;
- *dashboard*: it tells the truth about success, never takes an answer that was
  overtaken for the current one, and catches up with wallet and ledger. (It does go
  on showing what it had until an answer comes and after a load that failed, so for
  a while the statistics of one account stand under the address of another.)

`PROJECT.json` lists the hazards with the lines they come from.

## 2. Modules

    FixedPoint      fixed_mul/div, floor and ceil (external crate)
      Reserve       conversions, utilization, interest, accrual, write-off
        PoolState   variables, positions, cache, health, bad debt
          Auctions  creation, scaling and fill of the three auctions
            Pool    entry points, environment, Init, Next, Spec
              PoolProperties   invariants and action properties
                PoolEmissions  the pool with its reserve emissions
                Insurance      the pool composed with Backstop
                MCPool         constants shared by the runs
                  MCLending MCLiquidation MCInterest MCStatus MCClaims
                  MCInsurance (with Insurance) MCStreams (with PoolEmissions)

    FixedPoint
      BackstopBalances    a pool's deposit, a depositor's shares and queue
      BackstopEmissions   index, accrual, merging of grants
        Backstop          entry points of the backstop, its environment,
                          with an instance of PoolFactory
          BackstopProperties   invariants, the refinement of Vault
            MCBackstop         starts of the runs
    PoolFactory           deploy, is_pool
    Vault                 the abstract specification of the deposits

    Simulator             the pool in the browser's storage
      Dashboard           page, panel, wallet, transactions; fairness
        MCDashboard       a wallet with two accounts

    ArithmeticProofs      divisions, products, sums over functions and sequences
      PoolProofs          ledgers and types of the pool
        PoolSafetyProofs  debts, auctions, rates, status
          SolvencyProofs  the pool's tokens
            InsuranceProofs   pool and backstop, with an instance of BackstopProofs
        EmissionProofs    emissions of the pool
      BackstopProofs      deposits, queue, vault and emissions of the backstop
      DashboardProofs     the page and the simulator

### State

| variable | in the code |
|---|---|
| `ledger.reserves`, `positions` | `ReserveData` per asset, `Positions` per account; maps of the code never store a zero, so an absent key is 0 |
| `ledger.liquidation`, `bad_debt`, `interest` | `AuctionData` under `PoolDataKey::Auction` |
| `ledger.balance` | the pool's balance in each token contract |
| `ledger.backstop_tokens`, `q4w_pct` | what the backstop's `pool_data` reports |
| `config` | `PoolConfig`, `ReserveConfig` and `QueuedReserveInit` |
| `call` | the `submit`/`flash_loan` under way: its working copy of `ledger`, and `Actions` |
| `now`, `price` | ledger sequence and timestamp; the oracle |
| `writes` | not in the code: counts ledger changes to bound exploration |

Of the backstop (a specification of its own, `Backstop`):

| variable | in the code |
|---|---|
| `pool_balance`, `user_balance` | `PoolBalance` per pool, `UserBalance` with its `Vec<Q4W>` per pool and user |
| `emissions`, `user_emissions` | `BEmisData`, `UEmisData`; `NoData` when never written |
| `rewards` | reward zone (a set: its order is never used), `RzEmissions`, last distribution, backfill status and amount |
| `held` | the contract's LP and BLND balances, and the BLND allowances of the pools |
| `emitter`, `bad_debt` | outside: the answer of `try_get_last_distro`, and of the pools' `get_positions` |
| `deployed` | the factory's `Contracts(address)` entries |
| `calls` | not in the code: bounds exploration |

`PoolEmissions` adds `emissions` (`PoolEmis`, `EmisData`, `UserEmis`, and the pool's
BLND allowance on the backstop), `pending` (its working copy during a submit) and
`emitted` (bounds exploration). `Insurance` adds the backstop's `pool_balance` and
`user_balance`; the rest of `Backstop` is an expression of these and of the pool.

Of the dashboard:

| variable | in the code |
|---|---|
| `live` | `isSimulatorMode()` is false |
| `accounts`, `totals` | the simulator's `localStorage`; live, what `get_member_stats` tells of an account, and its sequence number |
| `wallet`, `reads` | the account Freighter reports; `watchWallet` ticks whose answer is on its way |
| `page` | the state hooks of `DashboardPage`, and the inputs its effect last ran for |
| `loads` | `getMemberStats` calls of an effect that was not cleaned up |
| `busy`, `submits` | `busy` of the mounted `ActionPanel`; `submitRequest` calls, each with its stage, its transaction, and the time left to include and to poll it |
| `moves` | not in the code: bounds exploration |

### Actions

`submit` and `submit_with_allowance` are `BeginSubmit`, then one action per
request (`Supply`, `Withdraw`, `SupplyCollateral`, `WithdrawCollateral`, `Borrow`,
`Repay`, `FillUserLiquidationAuction`, `FillBadDebtAuction`, `FillInterestAuction`,
`DeleteLiquidationAuction`) on the working copy `call.ledger`, then `Commit`
(`validate_submit`, transfers, stores) or `Abort`. `flash_loan` begins with
`BeginFlashLoan`. `Abort` stands for every trap: a guard of a request, a failed
validation, a token transfer the model does not see the other side of, the
receiver of a flash loan. All other entry points are one action, enabled when the
code would not panic.

Each entry point of the backstop is one action of `Backstop` named after its
handler, enabled when the code does not panic; `distribute` is two
(`StartDistribution` for the calls that only set the time, `Distribute`), and
`add_reward` is two (`AddReward` with room, `SwapReward` into a full zone). The loops
of `withdraw_shares` and `dequeue_shares` are `Serve`: the entries up to the first
whose running total reaches the amount, from the front, or from the back of the
reversed queue.

A step of `PoolEmissions` is a step of `Pool` together with `Settled`: every reserve
token whose balance an account changes is accrued with the supply before, and the
account settled with the balance before, which is what `update_d_emissions` and
`update_b_emissions` do at the top of each of `User`'s six operations. One step settles
although no balance changes: `create_user_liq_auction_data` takes what it quotes off a
loaded copy of the user's positions (`rm_positions`), to see how healthy the rest would
be. The copy is dropped, but the emission data and entries its removals wrote stay
(`CreateLiquidation`, `Quoted`). When one handler
changes two balances of a token (a fill moves shares from one account to another)
the second update finds the clock at the current time and only settles its account,
so the order within the handler cannot be told from the result.

In `Insurance` a pool's draws and donations are part of the step of the pool that
makes them: `Commit` for fills. `PoolMoves` says so by the change of the deposit, and
`ContractsAgree` checks the two consequences, that the pair is a behaviour of `Pool`
(with all deposits, withdrawals and queue levels open) and one of `Backstop`.

Every callback of the dashboard is an action: a tick of the wallet's interval
(`ReadWallet`) and its answer (`AnswerWallet`), the run of the effect (`RunEffect`, after
the clean-up of the one before), the answer of a load and its handlers (`AnswerLoad`,
`FinishLoad`), and the stretches of `submitRequest` between two awaits (`Prepare`,
`SignAndSend`, `Poll` for the answer of each call of `getTransaction`, `PollAgain` for the
end of the wait after one that found nothing). A call that is rejected ends the submit
in an error at any time, and `sendTransaction` may be rejected although the network took
the transaction. The network includes a transaction in time and in sequence
(`Include`) or not (`Drop`).

Handlers of the pool are operators from ledger to ledger (`CanFillBadDebt`/`FillBadDebt`: the
conditions under which the code does not panic, and the result). The cache of
`Pool` is not a variable: loading a reserve is idempotent within a ledger
(`LoadReserves`), and reserves loaded with `store = false` are evaluated on the spot
(`LoadedReserve`) and leave no trace. That distinction is kept, since the interest
auction depends on it.

### Abstractions

- Scalars (`SCALAR_7`, `SCALAR_12`, seconds per year, the 200 and 500 blocks of an
  auction) are constants: small in the runs so that every rounding is coarse,
  arbitrary in the proofs. Literals such as `0_9500000` are `Percent7(95)`.
- i128 overflow is not modelled: the crate's products are 256 bits wide, and the
  host traps on overflow, which is an `Abort`.
- `bid` and `lot` arguments of `new_auction` are sets (`require_unique_addresses`);
  for the two backstop auctions the percent must be 100 and the other side must be
  the backstop token, so neither is a parameter.
- `calc_pool_backstop_threshold` compares the product of the LP token's underlying
  with a constant: here two thresholds on the number of tokens
  (`ThresholdTokens` = 100%, `DefaultTokens` = 5%).
- One ledger per time unit. The code uses sequence numbers for auctions and
  timestamps for interest and time locks; they advance together.
- Prices may be any listed value; a price that `load_price` refuses is 0.
- `Pool` leaves emissions out; `PoolEmissions` adds them and implements it. The
  amount the backstop hands to `gulp_emissions` is any of a set, and BLND itself is
  the allowance the backstop granted.
- Reserves exist from the start (added during setup); `SetReserve` is the branch of
  an existing reserve. A reserve whose `b_rate` fell to 0 divides by zero on
  deposit and withdrawal, in the code and in the guards.
- `require_valid_reserve_metadata`'s lower bound on `r_base` (0.01%), bound on
  `reactivity` and on decimals are finer than the small scalars; they are left out
  of `ValidReserveConfig`, which therefore admits more configurations.

- The backstop's `is_pool_above_threshold` is a number of LP tokens too. The swap of
  a claim returns any of the listed amounts of LP tokens. Claims are over sets of
  pools (a repeated pool panics). Depositors' wallets are not modelled.
- The emitter answers `try_get_last_distro` with an error until it switches to this
  backstop, and with the time of its last distribution afterwards; a distribution
  mints one BLND a second since the last; it drops the backfilled amount once.

External code, modelled from its use: the fixed-point crate, the ledger clock
(`Tick`), the oracle (`NewPrice`), tokens sent to the pool directly (`Gift`).
`BackstopDeposit`, `BackstopWithdraw` and `QueueChange` are what the backstop's own
entry points do to the two numbers the pool reads; `Insurance` puts those entry
points in their place.

- Of the dashboard: statistics are deposit and loan, with the sequence number of
  the account at the moment they were read; wording, animation and the conversion of
  amounts are left out. A live request succeeds or fails as the network has it: what
  the pool checks is `Pool`'s business, so `accounts` may exceed the product's cap
  there (finding 1) and `SimulatorSound` is about the simulator.

## 3. Properties

In `PoolProperties`, in words there. The main ones: `SharesAccounted` (positions
add up to the totals), `DeficitNeverGrows` (no step makes the pool owe more than it
has), `RatesFallOnlyByDefault`, `BackstopCreditReserved`, `AuctionsCovered` (an
auction can be settled), `FrozenWhileAuctioned`, `LiquidationEnds`,
`WorseOnlyIfHealthy`, `NoUserBadDebt`, `DebtIsPassedOnWhole`, `BackstopHeldForBadDebt`,
`DebtPriceable`, `StatusRestricts`. A property of `ledger` sees a whole submit as
the step that commits it; where it must hold between requests it is stated of
`View`, the working copy when there is one.

In `Insurance`: `ContractsAgree` (the composition is a behaviour of `Pool` and of
`Backstop`, with one deposit and one queue), `LotFunded` (a bidder for bad debt is
paid, whoever else was or left) and `BadDebtResolvable` (debt of the backstop that has
a value can be auctioned or is forgiven: between the two thresholds there is no gap).

In `PoolEmissions`: `ReserveEmissionsCovered` (what is owed and what is still to be
streamed is within the allowance on the backstop) and `OwedOnlyByTime` (no change of
positions, aborted call, new stream or change of shares adds to or takes from what
anybody is owed; a claim takes what it pays, from the claimant).

In `BackstopProperties`: `BackstopSharesAddUp`, `OnlyPoolsHoldDeposits`,
`DepositsBacked`, `NoEarlyExit` (a stake shrinks by unlocked shares at most),
`EmissionsCovered` (everything promised to pools and depositors, at whatever stage
between distribution and claim, is BLND held or backfilled), and `ImplementsVault`:
under the mapping that forgets queues and emissions, every step of `Backstop` is a
step of `Vault`, where joining and leaving happen at most at the current price and
only the pool changes tokens without stakes.

In `Dashboard`: `SuccessIsTrue` (success is reported of what took effect, and of two
submits built on one state of the account at most one does), `NoOvertakenAnswer`
(statistics that arrive are of the account being loaded and no older than those shown
of it), `SimulatorSound`, and, under fairness, `PollingEnds`,
`SeesOwnSuccess` and `FollowsWallet`.

**Fairness.** Only the dashboard has it; the contracts oblige nobody to call them.
`DashboardFairness` is weak fairness of what a browser runs by itself: the interval of
the wallet and its answers, the effect of a changed state, answers of the RPC
(which may be a rejection), callbacks, the polling loop, and the clock. The clock is
needed: without time passing the loop would poll for ever a transaction that is not
found, and `PollingEnds` fails.
Nothing is assumed of the member, of the wallet's pop-up (a submit may stay in
`sign` forever) or of the inclusion of a transaction. `FollowsWallet` supposes in
addition that the wallet stays with one account.

Some exceptions are stated inside the properties because the code has them:
`DeficitNeverGrows` excludes a reserve whose `b_rate` reached 0 (more was forgiven
than was deposited, the rest is lost); `AuctionsCovered` looks at the caller's
own auction only when the submit is over (the code checks it there);
`OwedOnlyByTime` excludes a deposit into a reserve token nobody held, whose first
holder gets what was not streamed meanwhile (`update_emission_data` leaves the clock
behind when the supply is 0); `BadDebtResolvable` excludes debt whose value rounds to
0, which `create_bad_debt_auction_data` refuses; and `LotFunded` asks only while there
is debt left to bid on, as partial fills round the bid up and the lot down.

## 4. Runs

In the pool's runs all scalars are 100, so a percent is the smallest fraction; two users; amounts
that do not divide evenly. Amounts, prices, percentages, time steps, gifts and
backstop amounts are inputs from the small sets the cfg names. `MaxRequests`,
`MaxWrites`, `MaxTime`, `MaxBalance`, `MaxBackstopTokens`, `MaxEmitted`, and of the
dashboard `MaxSubmits`, `MaxMoves`, `MaxReads` and `MaxPending`, bound
the exploration; none is in the code. Deadlock is checked everywhere (an `Abort`, a
price, a change of bad debt or a tick of the wallet's interval is always possible). In
the backstop's runs `Scalar7` is 10, the lock and the interval between gulps are 2 and a
grant lasts 4 or 5 time units; `MaxCalls`, `MaxTime` and `MaxTokens` bound them.

| run | from | bounds that matter | shows |
|---|---|---|---|
| `lending` | setup | 1 asset, 2 requests a submit, 5 writes, two accruals | `TypeOK`, `SharesAccounted`, `DeficitNeverGrows`: share arithmetic with coarse rounding, utilization on both sides of its target, clamped withdrawals, over-repayment, roll-back |
| `liquidation` | borrowed | 2 assets, percent 60 or 100, fills of 50% or 100%, times 0 to 6 (ramp 2, stale 5), 3 writes | `AuctionsCovered`, `FrozenWhileAuctioned`, `WorseOnlyIfHealthy`, `LiquidationEnds` |
| `bad_debt` | liquidated | pool and backstop; bob's collateral at 30% of its value, bad debt auctions filled at 50% or 100%, early, late or never, one depositor with a deposit of 10 who queues 8, takes them back, leaves or joins again (3 invocations), lock 2, 4 writes of the pool | `NoUserBadDebt`, `AuctionsCovered`, `LotFunded`, `BadDebtResolvable`, `RatesFallOnlyByDefault`, `DebtIsPassedOnWhole`, `BackstopHeldForBadDebt`, `ContractsAgree` |
| `interest` | borrowed; handed over | take rate high, then 5; gifts; fills of 50% or 100%; withdrawals up to the last tokens; usdc gets a flat curve, xlm turns borrowable and the admin tries to undo it (time lock 2); bad debt auctioned, deleted when stale, or in default; 3 writes | `AuctionsCovered`, `DebtPriceable`, `DeficitNeverGrows`, `BackstopCreditReserved` |
| `status` | borrowed | statuses 0, 2 to 5, queue at 0 or 80%, backstop withdrawals, flash loans, a liquidation, prices that fall or are refused | `StatusRestricts`, `WorseOnlyIfHealthy` |
| `streams` | borrowed | collateral at 30%; usdc's two tokens share 2:1; up to two gulps of 120, streams of 5 time units, times 0 to 6; supply, withdrawal, repayment, liquidation, hand-over, claims; 3 writes | `EmissionTypeOK`, `ReserveEmissionsCovered`, `OwedOnlyByTime` |
| `vault` | before deployment | 2 depositors, 6 calls, deposits of 3 or 5, parts of 2 or 3, draws of 2, donations of 1, 2 queue entries, one address that is no pool, arguments the factory refuses | `BackstopTypeOK`, `BackstopSharesAddUp`, `OnlyPoolsHoldDeposits`, `NoEarlyExit`, `ImplementsVault` |
| `emissions` | emitting | 2 depositors, 2 pools, 4 calls: grants that overlap, share changes between them, claims over one or both pools, donations that move the price | `EmissionsCovered`, `DepositsBacked`, `VaultSteps` |
| `rewards` | deposited | 2 pools, room for one, draws below the threshold, cap of 3 seconds of backfill, switch and drop at any time, 9 calls | `EmissionsCovered` |
| `dashboard` | first render | 2 accounts; 2 submits, live of a loan that fits the cap once, in the simulator of any action with 1 or 2 tokens; one change of the wallet or refresh; 2 overlapping reads, 3 with the submits; a transaction is polled for 1 of the 2 time units it may be included, any number of times | `DashboardTypeOK`, `SimulatorSound`, `SuccessIsTrue`, `NoOvertakenAnswer`, `PollingEnds`, `SeesOwnSuccess`, `FollowsWallet` |
| `borrow_cap` | borrowed | one borrow | refutes the README's "2x their deposit" (finding 1) |
| `late_success` | first render | as `dashboard` | refutes "every successful action surfaces the tx hash" (finding 2) |

"borrowed" is `BorrowedInit`: the state after the pool was activated, alice supplied
100 usdc and bob 100 xlm as collateral, and bob borrowed 50 usdc, all in the first
ledger. It is reachable from `Init` by those four invocations, which accrue and
round nothing; starting there leaves the writes for what happens to the debt.
"liquidated" (`InsuredInit`) is that state after the price of xlm fell, a full liquidation
of bob was created, and alice deposited 10 tokens in the backstop. "handed over"
(`HandedOver`) is the state, with the reserve configuration of that run, after alice
waited five ledgers until bob's collateral was free, took all of it, and bob's debt went
to the backstop, whose deposit is 10 tokens, or 2 after a withdrawal before that: the
rates and the credit of usdc are what the interest of five ledgers makes of them
(`FillUserLiquidation` evaluated then gives this ledger). The clock counts from the
hand-over on, which no property can tell, the price of xlm has recovered, and the
hand-over and the withdrawal count as writes already made.

"emitting" (`EmittingInit`) is the state after the emitter switched to the backstop,
alice deposited 5 tokens in each pool, the pools entered the zone, and a first
distribution of 20 BLND was gulped by both; "deposited" (`DepositedInit`) is the
state after two deposits. Both are reached by those calls.

Why the bounds are enough for the question asked: a rounding error needs one
conversion at a rate other than 1, which one accrual gives; an auction error needs
a creation, a partial fill and one competing step (3 writes); the way of bad debt
from a created liquidation is fill, bad debt auction, fill, default (4 writes);
emissions are settled wrongly by one change of a position between two points in
time, and a gap needs a lapse and a second gulp (3 writes, times 0, 3 and 6);
a submit that races another needs two of them and one loss of the wallet; a deadline
that passes while a transaction may still be included needs one time unit for each; a
submit on statistics that are out of date needs one before it, and the simulator's
totals and caps are at their edge after one loan, repayment or withdrawal; a queue served out
of order needs a deposit, two entries at different times and a withdrawal (4 calls);
overlapping grants need, after a first grant, a distribution, a gulp, a change of
shares and a claim (4 calls). For each property
a mutant of a mapped definition (a dropped guard, a missing reset, a wrong rounding,
a swapped order), written next to the definition it changes, is refuted by the
same run, which shows that the bounded run reaches the case the property is about.

### Findings

1. *The limit of twice the deposit is not enforced.* `README.md:5` and comments in
   `pool/src/contract.rs:17,121` state it; `apply_borrow` and `validate_submit` never
   read the deposit in the borrowed asset. Only `get_member_stats`, a view, computes it.
2. *A success may never be surfaced.* `frontend/README.md:30` says every successful
   action surfaces the hash. `submitRequest` polls for 30 seconds a transaction that
   may be included for 60 (`lib/sacco.ts:319,343`), reports the failure, and the
   transaction may still succeed. The run is about that deadline; a rejected call of
   the RPC (lines 336, 342, 346) leaves the same state at any time.

Seen while modelling, without a run of their own: the comment on `update_status`
(`pool/src/contract.rs:201`) freezes the pool at 75% of the backstop queued, but an
admin-active pool is set on-ice first (`status.rs:45`) and frozen by the next call;
`backstop/src/contract.rs:77` documents an error for `gulp_emissions` of a pool outside
the reward zone, which `emissions/manager.rs:209` never reads.

## 5. Proofs

All checked by `tlapm`; every theorem holds for every value of the constants allowed
by the named assumptions. TLC evaluates the same assumptions in every run:

- `ScalarAssumption`: positive scalars, `Scalar7 >= 100`;
- `StateAssumption`: finitely many users and assets, addresses apart, a minimal health
  factor above 1, a default threshold below the backstop's;
- `AuctionAssumption`, `PoolAssumption`: valid initial configurations and inputs of
  the right type;
- `EmissionAssumption`, `NoDataAssumption`, `BalanceAssumption`, `BackstopAssumption`:
  `NoData` is not an entry of storage, `Scalar14 = Scalar7 * Scalar7`, inputs and
  bounds of the right type;
- `InsuranceAssumption`: the inputs `Pool` takes for its environment (`BackstopAmounts`,
  `QueueLevels`) are no restriction, all deposits up to the bound and all percentages
  are among them; a backstop without tokens is below the threshold of a default;
- `DashboardAssumption`: what the module `Dashboard` says of its constants.

| module | theorem | states |
|---|---|---|
| `PoolProofs` | `LoadRefreshes` | accruing a reserve never lowers `d_rate`, `b_rate` or the credit, and leaves supplies alone, for every valid configuration |
| | `CreditGrowsWithTime` | the later a reserve is loaded, the more is credited to the backstop |
| | `PoolInvariant` | `Spec => []PoolInv`, the inductive invariant of the next two |
| | `TypeCorrect` | `Spec => []TypeOK`: no share count, rate or deposit ever goes below zero |
| | `SharesAreAccounted` | `Spec => []SharesAccounted` |
| `PoolSafetyProofs` | `SafeInvariant` | `Spec => []SafeInv`, the inductive invariant of the others of this module |
| | `AuctionsAreCovered` | `Spec => []AuctionsCovered`: what an auction sells is there |
| | `NoBadDebtLeft` | `Spec => []NoUserBadDebt` |
| | `DebtIsPriceable` | `Spec => []DebtPriceable` |
| | `RatesFallOnlyInDefault`, `DebtPassesWhole`, `BackstopStaysForBadDebt` | the action properties `RatesFallOnlyByDefault`, `DebtIsPassedOnWhole`, `BackstopHeldForBadDebt` |
| | `StatusIsRespected`, `LiquidatedAreFrozen`, `LiquidationsEndRightly`, `WorseOnlyWhenHealthy` | the action properties `StatusRestricts`, `FrozenWhileAuctioned`, `LiquidationEnds`, `WorseOnlyIfHealthy` |
| `SolvencyProofs` | `SolvencyInvariant` | `Spec => []SolvencyInv`, the inductive invariant of the next two |
| | `DeficitGrowsNever` | `DeficitNeverGrows`: whatever is rounded, the pool does not come to owe more than it has |
| | `CreditIsReserved` | `BackstopCreditReserved`: withdrawals and loans leave the credit of the backstop |
| `EmissionProofs` | `EmissionsImplementPool` | `EmissionSpec => Spec`: the pool with emissions implements the pool |
| | `EmissionsTypeCorrect` | `EmissionSpec => []EmissionTypeOK`: nobody is owed a negative amount, no claim overdraws the allowance |
| | `WorkingCopyOwesAlike` | `EmissionSpec => []CallCarried`: a submit's working copy owes what the storage owes |
| | `NobodyLosesEmissions` | `OwedOnlyByTime`: what is owed changes with time and by one's own claim alone |
| | `EntitlementsAreFunded` | `EmissionSpec => []FundedInv`, the inductive invariant of the next one |
| | `EmissionsAreCovered` | `EmissionSpec => []ReserveEmissionsCovered`: all that is owed or under way is within the allowance |
| `BackstopProofs` | `BackstopInvariant` | `Spec => []BackstopInv`, the inductive invariant of the others |
| | `BackstopTypeCorrect`, `SharesAddUp`, `DepositsAreBacked`, `DepositsOnlyInPools` | the invariants `BackstopTypeOK`, `BackstopSharesAddUp`, `DepositsBacked`, `OnlyPoolsHoldDeposits` |
| | `BackstopIsVault`, `EveryStepOfVault` | `ImplementsVault`, `VaultSteps`: the backstop implements the abstract vault, step by step |
| | `LocksHold` | `NoEarlyExit`: no share leaves before its lock time |
| | `CoveredInvariant` | `Spec => []CoveredInv` |
| | `ClaimsAreCovered` | `Spec => []EmissionsCovered`: all claims together are within the BLND held for them |
| `InsuranceProofs` | `BadDebtNeverStuck` | `Spec => []BadDebtResolvable`, of the pool with a backstop that may do anything |
| | `InsuranceInvariant` | `InsuranceSpec => []InsuranceInv`, the inductive invariant of the next three |
| | `InsuranceImplementsPool` | `InsuranceSpec => Spec`: what is proved of the pool holds of pool and backstop together |
| | `ContractsDoAgree` | `ContractsAgree`: the composition is a behaviour of `Pool` and of `Backstop`, with one deposit and one queue |
| | `LotIsFunded` | `InsuranceSpec => []LotFunded`: a bidder for bad debt is paid |
| `DashboardProofs` | `DashboardIsSound` | `DashboardSpec => []DashboardInv`, the inductive invariant of the others |
| | `DashboardTypesHold`, `SimulatorKeepsItsBooks`, `ReportedSuccessIsTrue` | the invariants `DashboardTypeOK`, `SimulatorSound`, `SuccessIsTrue` |
| | `NoOvertakenAnswerShown` | the action property `NoOvertakenAnswer` |

### The pool: types and shares

`TypeOK` is not inductive: nothing in it stops a removal of shares
from driving a total below zero, or an accrual from lowering a rate. `PoolInv` adds

- `GoodSettings`: installed and queued configurations passed the admin's checks;
- `WellFormed` of the ledger, and of the working copy during a call: it is typed
  with rates and credits in range, *positions add up to totals* (so a clamped
  removal fits in the total), and auctions only offer what their kind may offer.

The first part of `PoolProofs` shows that each operation on a ledger (loading, adding, removing,
moving, writing off, filling and creating auctions) keeps `WellFormed`; it rests on
`ArithmeticProofs` (what floor and ceiling divisions bound, and how a sum over accounts
changes when one summand does). Quotes of auctions must be shown to
be natural numbers although the code subtracts. Its second part has one lemma per action
and the temporal steps.

### The pool: debts, auctions and rates

None of the properties is inductive by itself, because an invocation breaks them and
mends them again: between its first request and `validate_submit` the caller may have debt
without collateral, debt without a liability factor, or an auction that sells
collateral the caller just withdrew. `SafeInv` says

- of the committed ledger: every user's auction is covered and no user has bad debt
  (`SoundUser`), every debt is priceable (`DebtPriced`), the auctions of bad debt and
  interest are covered;
- of the working copy: the same, except of the caller;
- of the two together (`Since`): other users changed only by a fill of their auction,
  which took no more than the auction lost; the caller has become worse (`NotWorse`
  fails) or lost its auction only with a health check asked for; the deposit of the
  backstop shrank only if an auction of its debt was running; nothing was minted that
  the status forbids.

`Since` is what makes the last step of an invocation go through: a caller
without a health check is as sound as before, and a health check that passes means
collateral for the debt and a liability factor for each asset of it (`HealthyIsSound`).
There is one lemma per action, which proves `SafeInv'` and the *shape* of the step: that of
an entry point, of a request, of a commit or of an abort. The action properties
follow from the shapes alone. The credit an interest auction sells is the one the reserve
would have if it were loaded now; that time only adds to it is `CreditGrowsWithTime`,
and that nothing else changes its terms without storing it is `ReconfiguredSafe`.

### The pool: tokens

`DeficitNeverGrows` compares the ledgers before and after an invocation, which may take any
number of requests, each of them with its rounding. What is compared is `Net`, deposits and
credit less debts of one reserve. `SolvencyProofs` shows for each operation that
`Net` grows by at most the tokens that come in (`Favours`): minting and burning of shares
by the direction of `ToBTokenDown` and its kind (`DepositsMove`, `DebtsMove`); accrual because the
interest of the debtors, rounded up, pays for the growth of the deposits, rounded down, and for
the credit (`AccrueNet`); a default because it takes from the deposits at least what it
forgives (`ForgiveFavours`), unless they run out - the reserve is then `Dead`, which is the
exception the property makes. `SolvencyInv` is `SafeInv` and, of the working copy of a
call, that it favours the pool over the stored ledger by the tokens noted so far (`Flow`:
in, less out, less lent by a flash loan), so that the transfers of `Commit` settle the balance.

For `BackstopCreditReserved` the invariant says more (`AssetSince`): what the pool holds above the
credit is the same but for the noted tokens, and if more was noted out than in, the
reserve was left with less debt than deposits (`Whole`, which is what
`require_utilization_below_100` checks) by the last request that noted something out, or a default
lowered its `b_rate` since. Later requests keep a reserve `Whole` or bring tokens in;
a default may not, so the property is restricted to reserves in which no debt was
forgiven at the same time. The property had compared `b_rate` with the one before the
invocation and holds in that form on the small instance; the proof showed that, in a
larger one, interest may hide the fall of a default of the same invocation, so it now compares
with the loaded reserve.

### Emissions of the pool

`EmissionProofs` first maps every step of `PoolEmissions` to a step or a stutter of
`Pool`, which makes `PoolInv` available. `EmissionTypeOK` is not inductive either: what is
owed is a balance times the difference of two indices. `Consistent` adds that no
account was settled beyond the index of its token (`Behind`) and that no stream's clock
is ahead of the ledger's (`OnTime`), of the storage and of the working copy of a
call. One lemma says that settling any set of accounts keeps it (`SettledKept`), one each
that a new stream and a claim do.

What a step settles is a set of account and token pairs that contains all whose balance
it changes (`Covers`): exactly those, or, when a liquidation is created, the quoted ones,
of which none changes (`BetweenCalls`). The lemmas below are about any such set, so they
hold of both.

`OwedOnlyByTime` compares what is owed before and after a step, but a submit changes the
storage only when it commits. `CallCarried` follows its working copy: against the storage,
it owes every account the same (`Carried`), of each reserve token that was held when the
submit began. The difficulty is a supply that goes to zero and comes back within one
call, since a token nobody holds does not accrue: `Carried` therefore also says that such a token is
`Still`, settled up to now or not streaming at all, so that accruing it again adds nothing,
whatever the supply (`NothingToAccrue`). `SettlingOwesAlike` is the step: whoever is settled is owed the
amount noted down (`OwedOnceSettled`), who is not has the balance it had.

`ReserveEmissionsCovered` sums amounts that are rounded down per account, which do not
add up to what the stream gave. `FundedInv` counts entitlements before
that rounding, in units of a reserve token's scalar times `Scalar7` (`EntitledOf`): the
growth of an index times the supply is at most what the stream gave in the time
(`GrowthIsPaid`), and the supply is the sum of the balances (`SharesAccounted`, from
`PoolInv`), so accrual moves entitlements from the stream to the holders and makes none
(`AccrualIsPaid`). Settling rounds down and only loses (`SettlingIsPaid`); a claim takes no more
than its account was entitled to (`ClaimedLess`); a gulp adds at most what it raises
the allowance by (`GulpedWhole`, `StreamIsPaid`). Reserve tokens have different scalars, so the invariant
adds up the ceilings of the entitlements in stroops (`Reserved`, `FundedStep`).
TLC checked `FundedInv` on the `streams` instance before it was proved.

### The backstop

`BackstopInv` is the conjunction of the type invariant, the sums of shares and of queue
entries, the tokens held, `OnlyFactoryPools` and `EmissionsInOrder` (no depositor
settled beyond its pool's index): each action's subtractions are justified by the sums,
so none of the parts is inductive without the others. Queues are sequences; what is
served from either end is described by a sum over prefixes, for which
`ArithmeticProofs` has the lemmas. Each action is then put into one of four kinds
(somebody enters, somebody leaves, shares shift, nothing happens), and the abstract
`Vault` and the lock follow from the kind.

`EmissionsCovered` needs `CoveredInv`: `Solvent` in exact arithmetic (what was earned,
including fractions that floor division drops, and what is still to be streamed, against
what was received) and `EmissionClock`, that the seconds a distribution pays for start
where the one before ended, over the switch from backfill to the emitter.

### Pool and backstop

`InsuranceProofs` has two halves. The first is about `Pool` alone, with a backstop that
does anything. `InsurableInv` says that while there is debt to bid on, the lot of the
auction is within the deposit (`LotBacked`): creation takes at most what the deposit holds,
a fill takes off the lot at least what it draws, and nobody withdraws while the
backstop owes. It also says that an asset that is owed is supplied (`DebtSupplied`), or
the write-off of a default would divide by zero, and that `max_positions` is at least 2, so
that one asset of the debt can be auctioned. `BadDebtResolvable` follows state by state
(`DebtResolvable`): if the deposit is not below the default's threshold, some asset of the debt
has a value, and the quote of an auction for it alone passes the checks of
`create_bad_debt_auction_data`; if it is below, the default goes through.

The second half takes `BackstopProofs` as an instance with the constants and expressions
of `Insurance`, whose assumptions it proves (`BackstopSettings`). `InsuranceInv` joins the
pool's invariants, `BackstopInv`, and `Agree`: the deposit and the queued share that the
pool reads are those in the backstop's storage. Each step of `InsuranceNext` is
shown to be a step of `Next` of the pool (`JoinsKeep`, `QueuesKeep`, `LeavesKeep`,
`PoolMovesKeep`), which is where `Agree` is needed, and a step of the backstop
(`BackstopSide`): a draw, a donation, time, or bad debt that comes or goes. So each contract's
invariant is kept by its own proof. `LotFunded` is `LotBacked` with `Agree`.

`InsuranceSpec` starts with a new pool and a first deposit in its backstop. The run starts further
along the same specification, when a debt has gone bad (section 4).

### The dashboard

`SuccessIsTrue` needs to know where every submit is: `Orderly` relates its stage to
its transaction and, live, the sequence number it was built on to the account's (a
transaction that succeeded has moved it on); `Distinct` says no two that succeeded share one.
`NoOvertakenAnswer` needs that the load under way is of the account the page waits for
and will tell it nothing older than what it shows (`OrderlyLoad`, `Loading`). The simulator's totals
are adjusted on their own and clamped at zero: the sums over members are the reason
the clamps never bite (`SimulatorSound` is inductive together with the types).

### Only model-checked

- Liveness (`PollingEnds`, `SeesOwnSuccess`, `FollowsWallet`) is out of the prover's
  reach and stays with TLC. Every other property of the passing runs is a theorem.
- That `MCInsurance`'s start is reachable: it is a state of `InsuranceSpec` by
  construction, as are the starts of the other runs (section 4).
- What a fold or a recursive function computes is proved only as far as lemmas on sums and
  prefixes go; no property depends on more.

## 6. Not modelled, and why

- New reserves in a running pool (a reserve's index is its place in a list that only
  grows, so no index moves), and the admin's hand-over, which changes who may call and
  nothing else: authorization is not a variable, each action is taken by the account
  the code requires.
- Lifetimes of storage entries, events, error codes: no control depends on them.
- Comet LP, BLND emitter, token contracts, oracle internals: external.
- The landing page and `ConnectButton.tsx`: presentation. The button keeps a wallet
  state of its own: after "disconnect" it shows none while the dashboard, which
  watches the wallet itself, goes on showing the account. `lib/sacco.ts`'s conversion
  of amounts, `connectWallet` and `getPoolStats` have no state of the dashboard's.
- Mocks and test suites: stand-ins and tests.

A count of lines says less here than it seems to: in most files of the contracts the
inline `#[cfg(test)]` module is several times longer than the code above it
(`user_liquidation_auction.rs` has 223 lines of code and 3,366 of tests). The map names
code only.

## 7. Plan

Done: the pool, its emissions, its backstop, their composition, the factory, the
dashboard with the simulator; proofs of every safety and action property that a run
checks, of all of these.

Left: an abstract **lending book** (deposits and debts as amounts) refined by `Pool`, and reserves
that are added to a running pool.
