SPECIFICATION DepositedSpec
CONSTANTS
    lend = lend
    save = save
    alice = alice
    bob = bob
    Pools = {lend, save}
    Users = {alice}
    Deployable = {lend, save}
    DeployArgs <- MCDeployArgs
    NoData = NoData
    LockTime = 2
    MaxQueue = 1
    Scalar7 = 10
    Scalar14 = 100
    EmissionPeriod = 5
    ThresholdTokens = 4
    MaxRewardZone = 1
    MaxBackfill = 30
    DepositShare = 7
    BorrowShare = 3
    MinDistribution = 1
    RecentDistribution = 1
    GulpInterval = 2
    StartTime = 2
    Deposits = {}
    Queues = {}
    Withdrawals = {}
    Draws = {5}
    Donations = {}
    LpAmounts = {}
    Indebted = {lend}
    HasEmitter = TRUE
    Ticks = {2}
    MaxTime = 10
    MaxTokens = 20
    MaxCalls = 9
INVARIANTS
    EmissionsCovered
