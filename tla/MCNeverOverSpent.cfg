SPECIFICATION Spec
CONSTANTS
    Ids = {i1, i2}
    Identities = {a, b}
    Models = {m}
    Owners = {o1}
    Times <- MCTimes
    HourLength = 2
    DayLength = 4
    HourlyLimit <- MCTightLimit
    DailyLimit <- MCDailyLimit
    LeaseSeconds = {3}
    ClockStepsBack = FALSE
    RecoverLimit = 1
    MaxDemand = 2
    MaxAttempts = 2
    MaxGeneration = 2
INVARIANT NeverOverSpent
