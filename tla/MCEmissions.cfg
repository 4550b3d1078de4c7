SPECIFICATION EmittingSpec
CONSTANTS
    lend = lend
    save = save
    alice = alice
    bob = bob
    Pools = {lend, save}
    Users = {alice, bob}
    Deployable = {lend, save}
    DeployArgs <- MCDeployArgs
    NoData = NoData
    LockTime = 2
    MaxQueue = 1
    Scalar7 = 10
    Scalar14 = 100
    EmissionPeriod = 5
    ThresholdTokens = 5
    MaxRewardZone = 2
    MaxBackfill = 100
    DepositShare = 7
    BorrowShare = 3
    MinDistribution = 1
    RecentDistribution = 1
    GulpInterval = 2
    StartTime = 2
    Deposits = {3}
    Queues = {2}
    Withdrawals = {2}
    Draws = {}
    Donations = {1}
    LpAmounts = {3}
    Indebted = {lend}
    HasEmitter = TRUE
    Ticks = {2}
    MaxTime = 8
    MaxTokens = 20
    MaxCalls = 4
INVARIANTS
    EmissionsCovered
    DepositsBacked
PROPERTIES
    VaultSteps
