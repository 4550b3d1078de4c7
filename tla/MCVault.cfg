SPECIFICATION Spec
CONSTANTS
    lend = lend
    save = save
    alice = alice
    bob = bob
    Pools = {lend, save}
    Users = {alice, bob}
    Deployable = {lend}
    DeployArgs <- MCDeployArgs
    NoData = NoData
    LockTime = 2
    MaxQueue = 2
    Scalar7 = 10
    Scalar14 = 100
    EmissionPeriod = 4
    ThresholdTokens = 20
    MaxRewardZone = 0
    MaxBackfill = 100
    DepositShare = 7
    BorrowShare = 3
    MinDistribution = 1
    RecentDistribution = 1
    GulpInterval = 2
    StartTime = 2
    Deposits = {3, 5}
    Queues = {2, 3}
    Withdrawals = {2, 3}
    Draws = {2}
    Donations = {1}
    LpAmounts = {}
    Indebted = {lend}
    HasEmitter = FALSE
    Ticks = {1}
    MaxTime = 5
    MaxTokens = 13
    MaxCalls = 6
INVARIANTS
    BackstopTypeOK
    BackstopSharesAddUp
    OnlyPoolsHoldDeposits
PROPERTIES
    NoEarlyExit
    ImplementsVault
