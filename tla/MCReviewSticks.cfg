SPECIFICATION PilotSpec
CONSTANTS
    PriceUnits = 1
    HoldLength = 2
    Envelopes <- MCEnvelope
    Events = {e1, e2}
    Bids = {86, 95}
    Spread = 1
    Atr = 5
    Rules <- MCRules
    Fee = 26
    MonitorEnabled = TRUE
    OperatorActs = {"review", "mark"}
    DayLength = 2
    MaxTime = 2
    MaxPositions = 2
    MaxLocks = 4
PROPERTY ReviewSticks
