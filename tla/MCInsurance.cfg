SPECIFICATION InsuredSpec
CONSTANTS
    usdc = usdc
    xlm = xlm
    alice = alice
    bob = bob
    Scalar7 = 100
    Scalar12 = 100
    SecondsPerYear = 50
    Assets = {usdc, xlm}
    Users = {alice, bob}
    Backstop = Backstop
    BackstopToken = BackstopToken
    NoAuction = NoAuction
    NoCall = NoCall
    OracleScalar = 100
    MinHealthFactor = 101
    ThresholdTokens = 10
    DefaultTokens = 3
    RampBlocks = 2
    StaleBlocks = 5
    MinInterestValue = 2
    SpotPrice = 100
    Configs <- InsuranceConfigs
    InitialPoolConfig <- MCPoolConfig
    MaxReserves = 30
    QueueDelay = 2
    NoQueue = NoQueue
    InitialTokens = 10
    Requests <- InsuranceRequests
    Prices <- CrashedPrices
    LiquidationPercents = {}
    PoolConfigs = {}
    NewConfigs <- NoNewConfigs
    AdminStatuses = {}
    QueueLevels <- AnyLevel
    BackstopAmounts <- AnyDeposit
    MaxBackstopTokens = 10
    Gifts = {}
    MaxBalance = 100
    FlashLoans = {}
    MaxRequests = 1
    MaxWrites = 4
    Ticks = {4}
    MaxTime = 12
    PoolAddress = PoolAddress
    Depositors = {alice}
    LockTime = 2
    MaxQueue = 1
    NoData = NoData
    Deposits = {8}
    Queues = {8}
    Withdrawals = {8}
    MaxMoves = 3
INVARIANTS
    NoUserBadDebt
    AuctionsCovered
    LotFunded
    BadDebtResolvable
PROPERTIES
    RatesFallOnlyByDefault
    DebtIsPassedOnWhole
    BackstopHeldForBadDebt
    ContractsAgree
