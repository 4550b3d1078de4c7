SPECIFICATION FirstAccountSpec
CONSTANTS
    anna = anna
    ben = ben
    Members = {anna, ben}
    Nobody = Nobody
    PollFor = 1
    ValidFor = 2
    Opening <- SmallOpening
    Asks <- MCAsks
    MaxSubmits = 2
    MaxMoves = 1
    MaxReads = 2
    MaxPending = 3
INVARIANTS
    DashboardTypeOK
    SimulatorSound
    SuccessIsTrue
PROPERTIES
    NoOvertakenAnswer
    PollingEnds
    SeesOwnSuccess
    FollowsWallet
