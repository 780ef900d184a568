SPECIFICATION MCAccountSpec
CONSTANTS
    PriceUnits = 1
    HoldLength = 2
    Envelopes <- MCEnvelope
    Events = {e1, e2}
    Bids = {86, 95}
    Spread = 1
    Atr = 5
    Rules <- MCRules
    Fee = 26
    MonitorEnabled = TRUE
    OperatorActs = {"review", "mark", "kill"}
    DayLength = 2
    MaxTime = 2
    MaxPositions = 2
    MaxLocks = 3
    Callers = {c1, c2}
    Requests <- MCRequests
    Answers <- MCAnswers
    Environments <- MCEnvironments
    WallReadings = {1, 3}
    MAX_NONCE = 5
    Modes = {"PAPER", "SHADOW_LIVE"}
    MaxReaderFaults = 2
    BASELINE_MODEL = "m1"
    OtherModels <- MCOthers
    OPTIONAL_MODEL = "m4"
    Stranger = "m5"
    Development <- MCDevelopment
    Holdout <- MCHoldout
    PROBE_CASES = 1
    COLD_LOADS = 1
    WARM_RUNS = 0
    STABILITY_CASES = 0
    STABILITY_REPEATS = 1
    Replies <- MCReplies
    P95_LIMIT_SECONDS = 2
    Missing = {{"m4"}, {"m3"}}
    MaxStarts = 2
    MaxFaults = 1
SYMMETRY MCAccountSymmetry
INVARIANTS
    PilotInv
    ReaderInv
    BenchInv
PROPERTY PilotSteps
