SPECIFICATION Spec
CONSTANTS
    Ids = {i1, i2}
    Identities = {a, b}
    Models = {m}
    Owners = {o1, o2}
    Times <- MCTimes
    HourLength = 2
    DayLength = 4
    HourlyLimit <- MCHourlyLimit
    DailyLimit <- MCDailyLimit
    LeaseSeconds = {3}
    ClockStepsBack = TRUE
    RecoverLimit = 1
    MaxDemand = 2
    MaxAttempts = 2
    MaxGeneration = 2
SYMMETRY MCSymmetry
INVARIANTS
    TypeOK
    OneActivePerIdentity
    ReservedWithinLimits
    CountersAddUp
    GenerationsUnique
PROPERTY StaleHolderFenced
