SPECIFICATION Spec
CONSTANTS
    usdc = usdc
    xlm = xlm
    alice = alice
    bob = bob
    Scalar7 = 100
    Scalar12 = 100
    SecondsPerYear = 10
    Assets = {usdc}
    Users = {alice, bob}
    Backstop = Backstop
    BackstopToken = BackstopToken
    NoAuction = NoAuction
    NoCall = NoCall
    OracleScalar = 100
    MinHealthFactor = 101
    ThresholdTokens = 10
    DefaultTokens = 3
    RampBlocks = 2
    StaleBlocks = 5
    MinInterestValue = 2
    SpotPrice = 100
    Configs <- MCConfigs
    InitialPoolConfig <- MCPoolConfig
    MaxReserves = 30
    QueueDelay = 2
    NoQueue = NoQueue
    InitialTokens = 10
    Requests <- LendingRequests
    Prices <- FixedPrices
    LiquidationPercents = {}
    PoolConfigs = {}
    NewConfigs <- NoNewConfigs
    AdminStatuses = {0}
    QueueLevels = {}
    BackstopAmounts = {}
    MaxBackstopTokens = 10
    Gifts = {}
    MaxBalance = 100
    FlashLoans = {}
    MaxRequests = 2
    MaxWrites = 5
    Ticks = {2}
    MaxTime = 4
INVARIANTS
    TypeOK
    SharesAccounted
PROPERTIES
    DeficitNeverGrows
