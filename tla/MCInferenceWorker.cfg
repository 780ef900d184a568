SPECIFICATION WorkerSpec
CONSTANTS
    Versions <- MCVersions
    ItemIds = {1, 2}
    Identities = {"a"}
    Groups = {"g"}
    Horizons = {"1h"}
    AnalysisDeadline <- MCAnalysisDeadline
    MaxQueuedAge <- MCMaxQueuedAge
    MaxQueued = 1
    FairSlotEvery = 2
    FinalizationReserve = 1
    MaxInvocations = 2
    MaxRepairs = 1
    MaxPromptTokens = 2
    MaxOutputTokens = 2
    HardTimeout = 1
    RoleInputCap = 1
    RoleOutputCap = 1
    PromptBounds = {1}
    Times <- MCTimes
    ClockStepsBack = TRUE
    Ids = {i1}
    Model = m
    HourLength = 10
    DayLength = 10
    HourlyLimit <- MCLimit
    DailyLimit <- MCLimit
    RecoverLimit = 1
    MaxDemand = 2
    MaxAttempts = 2
    MaxGeneration = 2
    MaxFailures = 1
    MaxLease = 10
    RecoveryLease = 1
INVARIANT WorkerInv
PROPERTY NothingAfterTermination
