SPECIFICATION MCAnalysisSpec
CONSTANTS
    Versions <- MCVersions
    ItemIds = {1, 2, 3, 4}
    Identities = {"a", "b", "c", "d", "e"}
    Groups = {"g", "h", "k"}
    Horizons = {"1h"}
    AnalysisDeadline <- MCAnalysisDeadline
    MaxQueuedAge <- MCMaxQueuedAge
    MaxQueued = 2
    FairSlotEvery = 3
    FinalizationReserve = 1
    MaxInvocations = 2
    MaxRepairs = 1
    MaxPromptTokens = 2
    MaxOutputTokens = 2
    HardTimeout = 1
    RoleInputCap = 2
    RoleOutputCap = 1
    PromptBounds = {1, 3}
    Times <- MCTimes
    ClockStepsBack = TRUE
    Histories <- MCHistories
    Cohort <- MCCohort
    CostPolicy = 1
    AsOfs = {21}
    MAX_LABEL_HORIZON = 2
    DayLength = 4
    MIN_MATURED_EPISODES = 4
    MIN_TEST_EPISODES = 2
    MIN_CALENDAR_DAYS = 3
    BIN_COUNT = 2
    MIN_BIN_SAMPLES = 1
    MaxManifests = 2
INVARIANTS
    SchedInv
    ExperimentInv
PROPERTY SchedSteps
