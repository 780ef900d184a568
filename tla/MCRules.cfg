SPECIFICATION MCRulesSpec
CONSTANTS
    PriceUnits = 8
    HoldLength = 2
    SizingEnvelopes <- MCEnvelopes
    Candidates <- MCCandidates
    Fees <- MCFees
    Equities = {0, 500, 9999, 19941, 20000}
    ExitBids <- MCExitBids
    Policy <- MCPolicy
    HourBars = 2
    Snapshots <- MCSnapshots
    LastMoment = 4
    WINDOW_SAMPLES = 2
    MAX_SAMPLE_AGE = 1
    JUMP_TOLERANCE = 1
    SERVER_TIME_RESOLUTION = 0
    MAX_PLAUSIBLE_OFFSET = 2
    DRIFT_ALLOWANCE = 1
    MaxUncertainty = 4
    MaxWall = 1
    MaxMoves = 2
    MaxTrip = 1
    Calls = {1, 2}
    MaxTries = 2
    SONNET_MIN_OPPORTUNITY = 50
    FABLE_MIN_OPPORTUNITY = 70
    FABLE_MIN_CONFIRMATIONS = 2
    TAKER_IMBALANCE_CONFIRM = 65
    VOLUME_CONFIRM = 2
    RouterContexts <- MCContexts
    RouterReviews <- MCReviews
    CycleContexts <- MCCycleContexts
    CycleReviews <- MCCycleReviews
    Scanned = {a}
    MaxFinalists = 1
    ShortlistSize = 1
    TickerMaxAge = 1
    Modes = {"inline", "shadow"}
    MaxCycles = 2
    MaxAborts = 1
    MaxBorn = 2
    Shapes <- MCShapes
    ATR_PERIOD = 2
    L2_MIN_BARS = 3
    RESAMPLE = 2
    BARS_4H = 2
    BARS_24H = 4
    TREND_BARS = 2
    LOOKBACK = 5
    MIN_BASELINE = 1
    SQUEEZE = 20
    Returns <- MCReturns
    MaxBars = 6
    SCALE = 64
    Moves <- MCMoves
    Intensities = {3}
    Distances <- MCDistances
    Relatives <- MCRelatives
    OpenInterests = {1}
    Freshnesses = {30}
    Costs_bps = {40}
    PREGATE = 50
    L3Assets = {"a1", "a2", "a3"}
    CandidateSets <- MCCandidateSets
    Books <- MCL3Books
    L3_MAX_FINALISTS = 2
    MAX_AGE = 1
    REFERENCE_USD = 250
    MaxTime = 2
    CostBps = 10
    Spreads = {0, 2}
    Slips = {0, 3}
    FeeRates <- MCFeeRates
    Fundings <- MCFundings
    MaxIntervals = 2
    PRESENTED = 30
CHECK_DEADLOCK FALSE
INVARIANTS
    SizingInv
    SealSound
    ClockTrue
    
    L2Inv
    FinalistsInv
    CostsInv
 
