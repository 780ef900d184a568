SPECIFICATION MCBooksSpec
CONSTANTS
 pa = pa
 pb = pb
 e0 = e0
 e1 = e1
 e2 = e2
 PairAsset <- MCPairs
 Markets <- MCMarkets
 LegacyPlays <- MCLegacy
 PlayEvents = {e1, e2}
 Wallets = {1500, 2500}
 Stake = 1000
 FeeBps = 40
 MaxOpen = 2
 MaxPairs = 1
 MaxPTime = 3
 MaxSpots = 2
 MaxPlays = 2
 PriceUnits = 1
 HoldLength = 1
 MarkAge = 1
 Assets = {"BTC"}
 BookRules <- MCBookRules
 Target <- MCTarget
 Window = 1
 Lead = 1
 Worlds <- MCWorlds
 Procs = {p1, p2}
 Readers = {r1}
 Attempts = 2
 MaxDay = 2
 MaxCrashes = 1
 MaxRenames = 1
 RegNames = {n1}
 RegHashes = {h1, h2}
 Researchers = {q1, q2}
 MaxEvents = 3
 MaxRegFaults = 2
 Tolerance = 1
 Margin = 0
 Retention = 3
 ForwardHorizons <- MCForwardHorizons
 OutcomeHorizons = {2}
 ForwardBatch = 1
 MaxBatches = 2
 OutcomeBatch = 1
 Directions = {"LONG", "NONE"}
 CostKinds = {"none", "complete"}
 Settings <- MCSettings
 LastTime = 5
 LastEntry = 0
 MaxEntries = 2
 VenueBars = 3
 WindowBars = 2
 BarRetention = 5
 MaxBarTime = 12
 Rules = {"bh", "ens", "trend5", "trend5_vt", "pair"}
 Bars <- MCBars
 LOOKBACKS = {1, 2}
 SMA = 2
 DONCHIAN <- MCDonchian
 VT_RETURNS = 1
 WEEK = 3
 WARMUP = 2
 START = 480
 COST = 8
 BAND = 5
 TAX = 4
 EXEMPT_DAYS = 2
 YEAR = 5
 MaxDays = 6
 Venues = {"binance", "kraken"}
 PAGE_LIMIT = 2
 VENUE_CANDLES = 3
 MAX_RETRIES = 2
 MAX_REQUESTS = 4
 DEADLINE = 4
 RetryAfters = {0, 3}
 Holes = {{}, {1}}
 FirstDay = 4
 EndDay = 5
 MaxFetches = 2
INVARIANTS TrendInv RegistryInv EngineInv PaperInv 
PROPERTIES  PageTrue
CHECK_DEADLOCK FALSE
SYMMETRY MCBooksSymmetry
