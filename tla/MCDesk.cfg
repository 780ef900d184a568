SPECIFICATION MCDeskSpec
CONSTANTS
    p1 = p1
    p2 = p2
    Processes = {p1, p2}
    EventIds = {1, 2}
    EventKey <- MCSameKey
    StaleAfter = 1
    Backoff = 1
    MaxAttempts = 2
    MaxRowsPerCycle = 2
    CooldownLength = 1
    MaxPushes = 2
    MaxDeaths = 1
    MaxKids = 3
    MaxRestarts = 1
    MaxStoppers = 2
    MaxWindows = 2
INVARIANTS
    
    RoomInv
 
CHECK_DEADLOCK FALSE
