------------------------------- MODULE Anomaly -------------------------------
(* Levels L0 and L1 of a cycle (universe.py, anomaly.py, the snapshot table  *)
(* of store.py and steps 5 to 8 of heartbeat.py): the tickers are grouped by *)
(* asset, the markets of the eligible assets are stored, old rows are        *)
(* pruned, and the move of each asset's main market is judged against that   *)
(* market's own past.  Prices are powers of two, so a return is a whole      *)
(* percent; the open interest follows the same lookups and enters no score.  *)
EXTENDS Integers, Sequences, SequencesExt, FiniteSetsExt

CONSTANTS
    SpotPairs, AssetOf, QUOTE_PRIORITY,     \* the venue: the asset and the rank of the quote of a pair
    Listed,                             \* the pairs with metadata and an allowed quote
    BTC_ASSET, Excluded,                \* fiat and known stable assets
    Tickers,                            \* what a cycle may read: pair -> [last, traded, marks], for those it gets
    Unsound,                            \* sets of pairs whose ticker fails its checks
    Horizon, LongHorizon, MIN_TOLERANCE, SLACK,
    Z_LOOKBACK, RETENTION, DayLength,
    MIN_SAMPLES, MIN_HISTORY, SHORTLIST_SIZE,
    Gaps, MaxScans                      \* bounds: the time between cycles, and their number

ASSUME AnomalyAssumption ==
    /\ {Horizon, LongHorizon, MIN_TOLERANCE, SLACK, Z_LOOKBACK, RETENTION} \subseteq Nat
    /\ Horizon + Horizon \div 2 <= Z_LOOKBACK /\ Z_LOOKBACK <= RETENTION
    /\ 1 < Horizon /\ MIN_TOLERANCE < Horizon /\ Gaps \subseteq Nat \ {0}

VARIABLES
    snapshots,      \* pair -> its rows [ts, last, today] in time order; today counts from 00:00 UTC
    scanned_at, scans, \* the time of the last cycle, and how many there were
    tradeable,      \* the assets this cycle counts as tradeable
    mains, todo,    \* the main markets of this cycle, and those not judged yet
    l1,             \* asset -> its AnomalyResult in this cycle
    shortlist       \* the assets that go on to L2
anomalyVars == <<snapshots, scanned_at, scans, tradeable, mains, todo, l1, shortlist>>

NotFound == [known |-> FALSE, is |-> 0]
Found(x) == [known |-> TRUE, is |-> x]
Far(a, b) == IF a < b THEN b - a ELSE a - b
tolerance(h) == Max({h \div 2, MIN_TOLERANCE})

-----------------------------------------------------------------------------
(* The row of a pair nearest to a time, the earlier of two equally near.     *)
spot_history_by_pair(rows, since) == SelectSeq(rows, LAMBDA r : r.ts >= since)

Nearest(rows, target, tol) ==
    LET near == {i \in DOMAIN rows : Far(rows[i].ts, target) <= tol}
    IN CHOOSE i \in near : \A j \in near : Far(rows[i].ts, target) < Far(rows[j].ts, target)
                                           \/ (Far(rows[i].ts, target) = Far(rows[j].ts, target) /\ i <= j)

lookup_past_spot(table, pair, time, ago) ==
    LET rows == table[pair]
    IN IF \E i \in DOMAIN rows : Far(rows[i].ts, time - ago) <= tolerance(ago)
       THEN Found(rows[Nearest(rows, time - ago, tolerance(ago))]) ELSE NotFound

compute_return(last, past) ==
    IF past.known THEN Found((100 * last) \div past.is.last - 100) ELSE NotFound

reset_aware_delta(current, previous) ==
    IF current < previous THEN [delta |-> current, reset |-> TRUE] ELSE [delta |-> current - previous, reset |-> FALSE]
compute_window_volume(today, past) ==
    IF past.known THEN Found(reset_aware_delta(today, past.is.today).delta) ELSE NotFound

Less(a, b) == IF a.known /\ b.known THEN Found(a.is - b.is) ELSE NotFound

compute_features(table, pair, time, btc_return) ==
    LET row == Last(table[pair])
        past == lookup_past_spot(table, pair, time, Horizon)
        return == compute_return(row.last, past)
        day == compute_window_volume(row.today, lookup_past_spot(table, pair, time, LongHorizon))
        volume == compute_window_volume(row.today, past)
    IN [return |-> return, volume |-> volume,
        intensity |-> IF day.known /\ day.is > 0 /\ volume.known THEN Found((100 * LongHorizon * volume.is) \div (Horizon * day.is)) ELSE NotFound,
        relative |-> IF AssetOf[pair] = BTC_ASSET THEN NotFound ELSE Less(return, btc_return)]

-----------------------------------------------------------------------------
(* The past: every row with the row about one horizon before it.  Only a     *)
(* window is searched, found by bisection in rows that are in time order.    *)
bisect_left(rows, t, lo, stop) == Min({i \in lo..stop : \A j \in lo..(i - 1) : rows[j].ts < t})
bisect_right(rows, t, lo, stop) == Max({i \in lo..stop : \A j \in lo..(i - 1) : rows[j].ts <= t})

(* Mutant: the window ends at the target.                                    *)
_nearby_Before(rows, target, tol, stop) ==
    LET lo == bisect_left(rows, target - tol - SLACK, 1, stop)
    IN lo..(bisect_right(rows, target, lo, stop) - 1)

_nearby(rows, target, tol, stop) ==
    LET lo == bisect_left(rows, target - tol - SLACK, 1, stop)
    IN lo..(bisect_right(rows, target + tol + SLACK, lo, stop) - 1)

(* The scan of the window: a row replaces the best only when it is nearer.   *)
Places(rows) == [i \in DOMAIN rows |-> i]
best_match(rows, target, tol, stop) ==
    LET window == _nearby(rows, target, tol, stop)
        step(best, j) ==
          IF j \in window /\ Far(rows[j].ts, target) <= tol
             /\ (~best.known \/ Far(rows[j].ts, target) < Far(rows[best.is].ts, target))
          THEN Found(j) ELSE best
    IN FoldLeft(step, NotFound, Places(rows))

(* The rows that have a past, in order, with what they gained on it.         *)
_historical_return_observations(rows) ==
    LET step(seq, i) ==
          LET past == best_match(rows, rows[i].ts - Horizon, tolerance(Horizon), i)
          IN IF past.known THEN Append(seq, [ts |-> rows[i].ts, is |-> (100 * rows[i].last) \div rows[past.is].last - 100]) ELSE seq
    IN FoldLeft(step, <<>>, Places(rows))

(* A delta across the daily reset is not comparable and is left out.         *)
historical_delta_series(rows) ==
    LET step(seq, i) ==
          LET past == best_match(rows, rows[i].ts - Horizon, tolerance(Horizon), i)
              gain == reset_aware_delta(rows[i].today, rows[past.is].today)
          IN IF past.known /\ ~gain.reset THEN Append(seq, gain.delta) ELSE seq
    IN FoldLeft(step, <<>>, Places(rows))

(* The asset's returns less BTC's of about the same time.                    *)
_relative_residuals(own, btc) ==
    LET step(seq, k) ==
          LET match == best_match(btc, own[k].ts, tolerance(Horizon), Len(btc) + 1)
          IN IF match.known THEN Append(seq, own[k].is - btc[match.is].is) ELSE seq
    IN FoldLeft(step, <<>>, Places(own))

(* How far a value is from the median, in 1/100 of four scaled deviations,   *)
(* at most 100; values are doubled so that a median is whole.                *)
Doubled(seq) == [k \in DOMAIN seq |-> 2 * seq[k]]
median(seq) ==
    LET s == SortSeq(seq, <)  n == Len(s)
    IN IF n % 2 = 1 THEN s[(n + 1) \div 2] ELSE (s[n \div 2] + s[n \div 2 + 1]) \div 2
robust_z(value, history) ==
    IF ~value.known \/ Len(history) < 2 THEN NotFound
    ELSE LET mid == median(Doubled(history))
             mad == median([k \in DOMAIN history |-> Far(2 * history[k], mid)])
             off == Far(2 * value.is, mid)
         IN Found(IF mad = 0 THEN (IF off = 0 THEN 0 ELSE 100) ELSE Min({100, (250000 * off) \div (14826 * mad)}))

Weighted(parts) ==
    LET known == {k \in DOMAIN parts : parts[k].z.known}
        weight == FoldSet(LAMBDA k, s : s + parts[k].weight, 0, known)
    IN IF weight = 0 THEN NotFound ELSE Found(FoldSet(LAMBDA k, s : s + parts[k].weight * parts[k].z.is, 0, known) \div weight)
_combine_anomaly_score(price_z, volume_z, trades_z, relative_btc_z) ==
    Weighted(<<[weight |-> 30, z |-> price_z], [weight |-> 25, z |-> volume_z], [weight |-> 15, z |-> trades_z],
               [weight |-> 20, z |-> relative_btc_z]>>)

compute_anomaly(table, pair, time, features, btc_pair) ==
    LET history == spot_history_by_pair(table[pair], time - Z_LOOKBACK)
        warmup == Len(history) < MIN_SAMPLES \/ time - history[1].ts < MIN_HISTORY
        own == _historical_return_observations(history)
        btc == _historical_return_observations(spot_history_by_pair(table[btc_pair.is], time - Z_LOOKBACK))
        volume_z == robust_z(features.volume, historical_delta_series(history))
        relative == IF btc_pair.known /\ AssetOf[pair] # BTC_ASSET
                    THEN robust_z(features.relative, _relative_residuals(own, btc)) ELSE NotFound
    IN [pair |-> pair, features |-> features, warmup |-> warmup,
        score |-> IF warmup THEN NotFound
                  ELSE _combine_anomaly_score(robust_z(features.return, [k \in DOMAIN own |-> own[k].is]), volume_z, volume_z, relative)]

-----------------------------------------------------------------------------
(* universe.py.  A market without metadata, in another quote or without a    *)
(* price is dropped; the main market of an asset has the best quote.         *)
build_spot_markets(ticker) == {p \in DOMAIN ticker \cap Listed : ticker[p].last > 0}
_choose_primary(pairs) == CHOOSE p \in pairs : \A q \in pairs : QUOTE_PRIORITY[p] <= QUOTE_PRIORITY[q]

(* The marks of a market (pegged, not a coin, restricted, dead, thin, wide)  *)
(* take an asset out of what is counted as tradeable, not out of L1.         *)
_apply_gates(primary, marks) ==
    LET eligible == AssetOf[primary] \notin Excluded
    IN [primary |-> primary, eligible |-> eligible, tradeable |-> eligible /\ marks = {}]

group_assets(ticker) ==
    LET markets == build_spot_markets(ticker)
    IN {_apply_gates(p, ticker[p].marks) : p \in {_choose_primary({q \in markets : AssetOf[q] = AssetOf[r]}) : r \in markets}}

_insert_spot_row(rows, time, ticker) ==
    LET fresh == rows = <<>> \/ Last(rows).ts \div DayLength # time \div DayLength
    IN Append(rows, [ts |-> time, last |-> ticker.last, today |-> ticker.traded + IF fresh THEN 0 ELSE Last(rows).today])

(* Steps 5 and 6 of a cycle: the rows of the eligible assets, and pruning.   *)
store_snapshots(gap, ticker, unsound) ==
    LET time == scanned_at + gap
        entries == {e \in group_assets(ticker) : e.eligible}
        stored == {p \in build_spot_markets(ticker) : \E e \in entries : AssetOf[e.primary] = AssetOf[p]}
        prune(rows) == SelectSeq(rows, LAMBDA r : r.ts >= time - RETENTION)
    IN /\ todo = {} /\ scans < MaxScans /\ scans' = scans + 1
       /\ scanned_at' = time
       /\ snapshots' = [p \in SpotPairs |-> prune(IF p \in stored THEN _insert_spot_row(snapshots[p], time, ticker[p]) ELSE snapshots[p])]
       /\ todo' = {e.primary : e \in entries} \ unsound
       /\ mains' = todo'
       /\ tradeable' = {AssetOf[e.primary] : e \in {x \in entries : x.tradeable}}
       /\ l1' = <<>> /\ shortlist' = <<>>

(* Step 7: one asset whose ticker is sound, against BTC if BTC's is.         *)
judge(pair) ==
    LET of_btc == {p \in mains : AssetOf[p] = BTC_ASSET}
        btc_pair == IF of_btc = {} THEN NotFound ELSE Found(CHOOSE p \in of_btc : TRUE)
        btc_return == IF of_btc = {} THEN NotFound
                      ELSE compute_return(Last(snapshots[btc_pair.is]).last, lookup_past_spot(snapshots, btc_pair.is, scanned_at, Horizon))
        result == compute_anomaly(snapshots, pair, scanned_at, compute_features(snapshots, pair, scanned_at, btc_return), btc_pair)
    IN /\ pair \in todo /\ todo' = todo \ {pair}
       /\ l1' = [a \in DOMAIN l1 \cup {AssetOf[pair]} |-> IF a = AssetOf[pair] THEN result ELSE l1[a]]
       /\ UNCHANGED <<snapshots, scanned_at, scans, tradeable, mains, shortlist>>

(* Step 8: the most unusual ones; those without a score come last.           *)
rank(a) == IF l1[a].score.known THEN l1[a].score.is ELSE -1
make_shortlist ==
    /\ todo = {} /\ shortlist = <<>> /\ l1 # <<>>
    /\ LET ranked == SetToSortSeq(DOMAIN l1, LAMBDA a, b : rank(a) > rank(b))
       IN shortlist' = SubSeq(ranked, 1, Min({SHORTLIST_SIZE, Len(ranked)}))
    /\ UNCHANGED <<snapshots, scanned_at, scans, tradeable, mains, todo, l1>>

AnomalyInit ==
    /\ snapshots = [p \in SpotPairs |-> <<>>] /\ scanned_at = 0 /\ scans = 0
    /\ tradeable = {} /\ mains = {} /\ todo = {} /\ l1 = <<>> /\ shortlist = <<>>

(* A cycle that made a shortlist, or had no asset to judge, is over.         *)
AnomalyNext ==
    \/ \E gap \in Gaps, ticker \in Tickers, unsound \in Unsound :
          (l1 = <<>> \/ shortlist # <<>>) /\ store_snapshots(gap, ticker, unsound)
    \/ todo # {} /\ judge(CHOOSE pair \in todo : TRUE)
    \/ make_shortlist

AnomalySpec == AnomalyInit /\ [][AnomalyNext]_anomalyVars

-----------------------------------------------------------------------------
(* The search of a window finds what a search of every earlier row finds:    *)
(* the nearest within the tolerance, the earliest of equally near ones.      *)
WindowIsFullScan ==
    \A p \in SpotPairs : LET rows == snapshots[p] IN \A i \in DOMAIN rows :
        LET before == SubSeq(rows, 1, i - 1)
            target == rows[i].ts - Horizon
            found == best_match(rows, target, tolerance(Horizon), i)
        IN /\ found.known <=> \E j \in DOMAIN before : Far(before[j].ts, target) <= tolerance(Horizon)
           /\ found.known => found.is = Nearest(before, target, tolerance(Horizon))

(* The move that is judged is the one its own market's history holds for     *)
(* this moment: what is compared and what it is compared with are found by   *)
(* two different searches, and a market never borrows another's prices.      *)
JudgedByItsOwnPast ==
    \A a \in DOMAIN l1 :
        LET rows == spot_history_by_pair(snapshots[l1[a].pair], scanned_at - Z_LOOKBACK)
            own == _historical_return_observations(rows)
            held == own # <<>> /\ Last(own).ts = scanned_at
        IN /\ l1[a].features.return.known <=> held
           /\ held => l1[a].features.return.is = Last(own).is

(* An asset in warm-up has no score, a score is within 0..100, and no asset  *)
(* outside the shortlist was more unusual than one inside.                   *)
ShortlistRanked ==
    LET score(a) == l1[a].score
    IN /\ \A a \in DOMAIN l1 : (score(a).known => ~l1[a].warmup) /\ score(a).is \in 0..100
       /\ \A a \in DOMAIN l1 \ ToSet(shortlist) : \A b \in ToSet(shortlist) :
            score(a).known => score(b).known /\ score(b).is >= score(a).is

(* A row has a price that can be divided by, and belongs to an asset that is *)
(* neither fiat nor a stable coin.                                           *)
RowsUsable == \A p \in SpotPairs : \A i \in DOMAIN snapshots[p] : snapshots[p][i].last > 0 /\ AssetOf[p] \notin Excluded

(* Levels L0 and L1 (compute_anomaly, _nearby): the bisected window search   *)
(* agrees with a search of the whole history, an asset is judged by its own  *)
(* market's past, the shortlist is the most unusual of those that can be     *)
(* judged, and every stored row can be divided by.                           *)
AnomalyInv == WindowIsFullScan /\ JudgedByItsOwnPast /\ ShortlistRanked /\ RowsUsable
=============================================================================
