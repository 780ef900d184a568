SPECIFICATION MCStoresSpec
CONSTANTS
    Events = {e1, e2}
    Items = {i1}
    Handoffs = {h1, h2, h3}
    Readers = {r1, r2}
    ReadLimit = 2
    MaxRows = 3
    NtfyStatuses = {"FAILED"}
    MaxFile = 12
    x1 = x1
    Openers = {p1, p2}
    Strays = {"outbox"}
    Codes <- MCCodes
    Drafts <- MCDrafts
    Edits <- MCEdits
    Assets <- MCAssets
    Claims <- MCClaims
    MaxDeaths = 1
    SpotPairs = {"btc", "alt_usd", "alt_eur", "eur"}
    Listed = {"btc", "alt_usd", "alt_eur", "eur"}
    AssetOf <- MCAssetOf
    QUOTE_PRIORITY <- MCPriority
    BTC_ASSET = "BTC"
    Excluded = {"FIAT"}
    Tickers <- MCSpotTickers
    Unsound = {{}, {"btc"}}
    Horizon = 3
    LongHorizon = 5
    MIN_TOLERANCE = 1
    SLACK = 1
    Z_LOOKBACK = 5
    RETENTION = 6
    DayLength = 5
    MIN_SAMPLES = 2
    MIN_HISTORY = 2
    SHORTLIST_SIZE = 1
    Gaps = {1, 2}
    MaxScans = 4
SYMMETRY MCSymmetry
INVARIANTS
    OutboxInv
    EvidenceInv
    AnomalyInv
PROPERTIES
    CursorsForward
    ImplementsDeliveryLog
CHECK_DEADLOCK FALSE
