SPECIFICATION InterestSpec
CONSTANTS
    usdc = usdc
    xlm = xlm
    alice = alice
    bob = bob
    Scalar7 = 100
    Scalar12 = 100
    SecondsPerYear = 10
    Assets = {usdc, xlm}
    Users = {alice, bob}
    Backstop = Backstop
    BackstopToken = BackstopToken
    NoAuction = NoAuction
    NoCall = NoCall
    OracleScalar = 100
    MinHealthFactor = 101
    ThresholdTokens = 10
    DefaultTokens = 3
    RampBlocks = 2
    StaleBlocks = 5
    MinInterestValue = 2
    SpotPrice = 100
    Configs <- InterestConfigs
    InitialPoolConfig <- HighTake
    MaxReserves = 30
    QueueDelay = 2
    NoQueue = NoQueue
    InitialTokens = 10
    Requests <- InterestRequests
    Prices <- FixedPrices
    LiquidationPercents = {}
    PoolConfigs <- InterestPoolConfigs
    NewConfigs <- InterestNew
    AdminStatuses = {}
    QueueLevels = {}
    BackstopAmounts = {}
    MaxBackstopTokens = 10
    Gifts = {7}
    MaxBalance = 130
    FlashLoans = {}
    MaxRequests = 1
    MaxWrites = 3
    Ticks = {2}
    MaxTime = 6
INVARIANTS
    AuctionsCovered
    DebtPriceable
PROPERTIES
    DeficitNeverGrows
    BackstopCreditReserved
