------------------------------- MODULE Level2 -------------------------------
(* The L2 level: the features of an asset, and how a candidate is judged by  *)
(* them.                                                                     *)
(*                                                                           *)
(* The L2 features of an asset, from its cached five-minute bars             *)
(* (structure.py, l2_features.py).  Bars close one after another, some       *)
(* intervals have none, and the bar in progress changes with every trade.    *)
(* An average true range is counted in 1/SCALE of a price step; a ratio      *)
(* keeps its two parts.  A value the code may leave None is a record with    *)
(* the field known.                                                          *)
EXTENDS Integers, Sequences, SequencesExt, FiniteSetsExt

CONSTANTS
    Shapes,             \* [open, high, low, close, volume] a bar may have
    ATR_PERIOD, L2_MIN_BARS, RESAMPLE, BARS_4H, BARS_24H, TREND_BARS, LOOKBACK, MIN_BASELINE,
    SQUEEZE,            \* the percentile that counts as compressed
    Returns,            \* percentage returns the L1 level may report
    MaxBars, SCALE

VARIABLES
    history,            \* the closed bars, oldest first
    open,               \* the bar in progress: a sequence of at most one
    intervals,          \* intervals that have gone by
    seen                \* one computation of the features, and its inputs
featureVars == <<history, open, intervals, seen>>

NA == [known |-> FALSE, value |-> 0]
Val(v) == [known |-> TRUE, value |-> v]
Interval == 2
Span(n) == IF n < 0 THEN -n ELSE n
Highest(bars) == Max({bars[i].high : i \in DOMAIN bars})
Lowest(bars) == Min({bars[i].low : i \in DOMAIN bars})
Tail_of(s, n) == SubSeq(s, Max({1, Len(s) - n + 1}), Len(s))

(* Mutant: a bar counts once it has begun.                                   *)
closed_bars_as_of_Started(bars, at) == SelectSeq(bars, LAMBDA bar : bar.time <= at)

closed_bars_as_of(bars, at) == SelectSeq(bars, LAMBDA bar : bar.time + Interval <= at)

Contiguous(bars, step) == \A i \in 1..Len(bars) - 1 : bars[i + 1].time - bars[i].time = step
contiguous_tail(bars, count, step) ==
    LET window == Tail_of(bars, count)
    IN IF Len(bars) < count \/ ~Contiguous(window, step) THEN <<>> ELSE window
contiguous_suffix(bars) ==
    LET whole == {n \in 1..Len(bars) : contiguous_tail(bars, n, Interval) # <<>>}
    IN IF whole = {} THEN <<>> ELSE contiguous_tail(bars, Max(whole), Interval)

true_range_series(bars) ==
    [i \in 1..Len(bars) - 1 |->
        LET b == bars[i + 1] c == bars[i].close
        IN Max({b.high - b.low, Span(b.high - c), Span(b.low - c)})]

(* Wilder's average: the mean of the first ranges, then smoothed.            *)
atr_series(bars) ==
    LET trs == true_range_series(bars)
        seed == (SCALE * FoldLeft(+, 0, SubSeq(trs, 1, ATR_PERIOD))) \div ATR_PERIOD
        smooth(out, tr) == Append(out, (Last(out) * (ATR_PERIOD - 1) + SCALE * tr) \div ATR_PERIOD)
    IN IF Len(trs) < ATR_PERIOD THEN <<>>
       ELSE FoldLeft(smooth, <<seed>>, SubSeq(trs, ATR_PERIOD + 1, Len(trs)))
wilder_atr(bars) == LET series == atr_series(bars) IN IF series = <<>> THEN NA ELSE Val(Last(series))

(* Coarser bars, of groups that are aligned and have no gap.                 *)
merged(group) ==
    [time |-> group[1].time, open |-> group[1].open, high |-> Highest(group), low |-> Lowest(group),
     close |-> Last(group).close, volume |-> FoldLeft(LAMBDA v, b : v + b.volume, 0, group)]
aligned(bar) == bar.time % (Interval * RESAMPLE) = 0
resample_bars(bars) ==
    LET visit(scan, i) ==
          LET group == SubSeq(bars, i, i + RESAMPLE - 1)
          IN IF i < scan.from \/ i + RESAMPLE - 1 > Len(bars) \/ ~aligned(bars[i]) \/ ~Contiguous(group, Interval)
             THEN scan ELSE [from |-> i + RESAMPLE, out |-> Append(scan.out, merged(group))]
    IN FoldLeft(visit, [from |-> 1, out |-> <<>>], [i \in 1..Len(bars) |-> i]).out

volatility_percentile(atr, baseline) ==
    IF ~atr.known \/ Len(baseline) < MIN_BASELINE THEN NA
    ELSE Val((100 * Cardinality({i \in DOMAIN baseline : baseline[i] <= atr.value})) \div Len(baseline))

(* A return in units of the average range, as the two parts of the ratio.    *)
normalize_return_by_atr(pct, atr) ==
    IF ~pct.known \/ ~atr.known \/ atr.value <= 0 THEN NA ELSE Val(<<pct.value, atr.value>>)

high_low(bars) == IF bars = <<>> THEN NA ELSE Val(<<Highest(bars), Lowest(bars)>>)

breakout_distance_atr(price, level, atr) ==
    IF ~level.known \/ ~atr.known \/ atr.value <= 0 THEN NA
    ELSE Val(<<IF price > level.value[1] THEN price - level.value[1]
               ELSE IF price < level.value[2] THEN price - level.value[2] ELSE 0, atr.value>>)

(* Beyond the range by a quarter of the average range.                       *)
breakout_state(level, distance) ==
    IF ~level.known \/ ~distance.known THEN "UNKNOWN"
    ELSE LET d == 4 * SCALE * distance.value[1]
         IN IF d >= distance.value[2] THEN "BREAKOUT_UP"
            ELSE IF -d >= distance.value[2] THEN "BREAKOUT_DOWN" ELSE "INSIDE_RANGE"

(* A wick of at least half the bar names the extreme it was rejected at.     *)
rejection_state(bar) ==
    LET size == bar.high - bar.low
    IN IF size <= 0 THEN "NONE"
       ELSE IF 2 * (bar.high - Max({bar.open, bar.close})) >= size THEN "REJECTION_AT_HIGH"
       ELSE IF 2 * (Min({bar.open, bar.close}) - bar.low) >= size THEN "REJECTION_AT_LOW" ELSE "NONE"

range_expansion(bar, atr) == IF ~atr.known \/ atr.value <= 0 THEN NA ELSE Val(2 * SCALE * (bar.high - bar.low) >= 3 * atr.value)

(* The part of the day's move that happened in the last hour.                *)
compute_freshness(hour, whole_day) ==
    IF ~hour.known \/ ~whole_day.known THEN NA
    ELSE LET recent == Span(hour.value)
             all == recent + Max({Span(whole_day.value) - recent, 0})
         IN Val(IF all = 0 THEN <<0, 1>> ELSE <<recent, all>>)

(* An extreme hour on fading volume.                                         *)
compute_exhaustion(bars, hour) ==
    /\ hour.known /\ SCALE * Span(hour.value[1]) >= 3 * hour.value[2]
    /\ Len(bars) >= 5
    /\ LET before == FoldLeft(LAMBDA v, b : v + b.volume, 0, SubSeq(bars, Len(bars) - 3, Len(bars) - 1))
       IN before > 0 /\ 30 * Last(bars).volume < 7 * before

trend(bars) ==
    IF Len(bars) < 2 THEN NA
    ELSE LET rest == Front(bars) last == Last(bars)
         IN Val([higher_high |-> last.high > Highest(rest), higher_low |-> last.low > Lowest(rest),
                 lower_high |-> last.high < Highest(rest), lower_low |-> last.low < Lowest(rest)])

Warmup == [l2_warmup |-> TRUE]

compute_l2_features(bars, price, returns, at) ==
    LET closed == closed_bars_as_of(bars, at)
        atr_5m == wilder_atr(contiguous_tail(closed, ATR_PERIOD + 1, Interval))
        atr_1h == wilder_atr(contiguous_tail(resample_bars(closed), ATR_PERIOD + 1, Interval * RESAMPLE))
        bars_24h == contiguous_tail(closed, BARS_24H, Interval)
        level_4h == high_low(contiguous_tail(closed, BARS_4H, Interval))
        level_24h == high_low(bars_24h)
        atr_hist == atr_series(Tail_of(contiguous_suffix(closed), LOOKBACK))
        n == Len(atr_hist)
        baseline(s, t) == IF s = <<>> THEN t ELSE s
        distance_24h == breakout_distance_atr(price, level_24h, atr_1h)
        hour_atr == normalize_return_by_atr(returns.r1h, atr_1h)
        day == IF bars_24h # <<>> /\ bars_24h[1].close > 0 THEN Val(price - bars_24h[1].close) ELSE NA
        prior == IF n < 2 THEN NA
                 ELSE volatility_percentile(Val(atr_hist[n - 1]), baseline(SubSeq(atr_hist, 1, n - 2), SubSeq(atr_hist, 1, n - 1)))
    IN IF Len(closed) < L2_MIN_BARS THEN Warmup
       ELSE [l2_warmup |-> FALSE, atr_5m |-> atr_5m, atr_1h |-> atr_1h,
             return_15m_atr |-> normalize_return_by_atr(returns.r15m, atr_5m), return_1h_atr |-> hour_atr,
             volatility_percentile |-> IF n = 0 THEN NA ELSE volatility_percentile(atr_5m, baseline(Front(atr_hist), atr_hist)),
             range_compression |-> IF n < 2 THEN NA ELSE Val(prior.known /\ prior.value <= SQUEEZE),
             level_4h |-> level_4h, level_24h |-> level_24h,
             breakout_dist_4h |-> breakout_distance_atr(price, level_4h, atr_1h), breakout_dist_24h |-> distance_24h,
             trend |-> trend(contiguous_tail(closed, TREND_BARS, Interval)),
             range_expansion |-> range_expansion(Last(closed), atr_5m),
             breakout_state |-> breakout_state(level_24h, distance_24h), rejection_state |-> rejection_state(Last(closed)),
             freshness |-> compute_freshness(returns.r1h, day), exhaustion |-> compute_exhaustion(closed, hour_atr)]

-----------------------------------------------------------------------------
BarAt(shape, t) == [time |-> t, open |-> shape.open, high |-> shape.high, low |-> shape.low,
                    close |-> shape.close, volume |-> shape.volume]

(* A trade changes the bar in progress.                                      *)
Trade(shape) ==
    /\ intervals < MaxBars
    /\ open' = <<BarAt(shape, Interval * intervals)>>
    /\ UNCHANGED <<history, intervals, seen>>

(* The interval ends, with a bar or with none.                               *)
CloseInterval(bar) ==
    /\ intervals < MaxBars
    /\ history' = history \o bar
    /\ open' = <<>>
    /\ intervals' = intervals + 1
    /\ UNCHANGED seen

(* The features are computed as of the start or the middle of the interval.  *)
Look(price, returns, at) ==
    /\ seen = <<>>
    /\ seen' = <<[at |-> at, price |-> price, returns |-> returns,
                  features |-> compute_l2_features(history \o open, price, returns, at)]>>
    /\ UNCHANGED <<history, open, intervals>>

FeaturesInit == history = <<>> /\ open = <<>> /\ intervals = 0 /\ seen = <<>>

FeaturesNext ==
    \/ \E shape \in Shapes : Trade(shape)
    \/ \E bar \in {<<>>} \cup {<<BarAt(shape, Interval * intervals)>> : shape \in Shapes} : CloseInterval(bar)
    \/ \E price \in {s.close : s \in Shapes}, hour \in {NA} \cup {Val(r) : r \in Returns},
          at \in {Interval * intervals, Interval * intervals + 1} :
         Look(price, [r15m |-> hour, r1h |-> hour], at)

FeaturesSpec == FeaturesInit /\ [][FeaturesNext]_featureVars

-----------------------------------------------------------------------------
(* What was computed at a moment is what the bars of a later moment give for *)
(* it: trades in the open bar and bars that close later never change it.     *)
NoRepaint ==
    seen # <<>> =>
        seen[1].features = compute_l2_features(history \o open, seen[1].price, seen[1].returns, seen[1].at)

(* An hour is made exactly of an aligned hour that has all its bars.         *)
HoursWhole ==
    LET hours == resample_bars(history)
        whole == {t \in {history[i].time : i \in DOMAIN history} :
                    t % (Interval * RESAMPLE) = 0
                    /\ \A k \in 0..RESAMPLE - 1 : \E i \in DOMAIN history : history[i].time = t + k * Interval}
    IN /\ {hours[i].time : i \in DOMAIN hours} = whole
       /\ \A i \in 1..Len(hours) - 1 : hours[i].time < hours[i + 1].time

(* The newest run without a gap, compared with a walk back from the end.     *)
SuffixWhole ==
    LET run == contiguous_suffix(history)
        n == Len(history) - Len(run)
    IN /\ Contiguous(run, Interval) /\ run = Tail_of(history, Len(run))
       /\ n > 0 => history[n + 1].time - history[n].time # Interval

(* The L2 features of a moment (compute_l2_features) never change as the     *)
(* open bar trades and later bars close; hours are resampled only whole      *)
(* (resample_bars), and indicators see only the newest run without a gap     *)
(* (contiguous_suffix).                                                      *)
FeaturesInv == NoRepaint /\ HoursWhole /\ SuffixWhole

-----------------------------------------------------------------------------
(* How a candidate of the L2 level is judged: the rules that name its setup  *)
(* and direction (setups.py) and its opportunity score (opportunity.py).     *)
(* Returns and distances are counted in half average ranges, a credit in     *)
(* 1/FULL, a score in 1/FULL of a point.  A feature may be unknown.          *)
CONSTANTS
    Moves,              \* returns in half average ranges
    Intensities,        \* the volume of 15 minutes over its baseline, in halves
    Distances, Relatives, OpenInterests, Freshnesses, Costs_bps,
    PREGATE             \* QWEN_PREGATE_MIN_OPPORTUNITY, in points

VARIABLE judged         \* the features looked at and what came of them
setupVars == <<judged>>

FULL == 60
NoFeature == [known |-> FALSE, value |-> 0]
Feature(v) == [known |-> TRUE, value |-> v]
MoveSize(n) == IF n < 0 THEN -n ELSE n
sign(x) == IF ~x.known \/ x.value = 0 THEN 0 ELSE IF x.value > 0 THEN 1 ELSE -1
clip(x) == Max({0, Min({FULL, x})})

-----------------------------------------------------------------------------
direction_from_sign(s) == IF s > 0 THEN "LONG" ELSE IF s < 0 THEN "SHORT" ELSE "NONE"
volume_confirmed(f) == f.intensity.known /\ f.intensity.value >= 3

reversal_confirmed(f) ==
    /\ f.r15.known /\ f.r1h.known /\ MoveSize(f.r15.value) >= 1
    /\ sign(f.r15) # 0 /\ sign(f.r15) # sign(f.r1h)
    /\ f.rejection # "NONE"
    /\ volume_confirmed(f)

squeeze_release_confirmed(f) == f.compression /\ f.expansion /\ volume_confirmed(f)

continuation_confirmed(f) ==
    /\ sign(f.r5) # 0 /\ sign(f.r5) = sign(f.r15) /\ sign(f.r15) = sign(f.r1h)
    /\ MoveSize(f.r15.value) >= 1 /\ MoveSize(f.r1h.value) >= 2

(* The first rule that applies names the setup.                              *)
classify_setup(f) ==
    LET recent == direction_from_sign(sign(f.r15))
        setup(type, direction) == [type |-> type, direction |-> direction]
    IN CASE f.l2_warmup -> setup("NONE", "NONE")
         [] f.exhaustion /\ reversal_confirmed(f) -> setup("REVERSAL", recent)
         [] squeeze_release_confirmed(f) -> setup("SQUEEZE_RELEASE", recent)
         [] f.breakout \in {"BREAKOUT_UP", "BREAKOUT_DOWN"} /\ volume_confirmed(f) /\ f.expansion ->
              setup("BREAKOUT", IF f.breakout = "BREAKOUT_UP" THEN "LONG" ELSE "SHORT")
         [] ~f.exhaustion /\ reversal_confirmed(f) -> setup("REVERSAL", recent)
         [] ~f.exhaustion /\ continuation_confirmed(f) -> setup("CONTINUATION", direction_from_sign(sign(f.r1h)))
         [] f.exhaustion -> setup("EXHAUSTION", "NONE")
         [] OTHER -> setup("NONE", "NONE")

-----------------------------------------------------------------------------
direction_sign(direction) == IF direction = "LONG" THEN 1 ELSE IF direction = "SHORT" THEN -1 ELSE 0

momentum_credit(f) == IF ~f.r1h.known THEN 0 ELSE clip((FULL * MoveSize(f.r1h.value)) \div 4)

momentum_coherence_credit(f) ==
    LET count(s) == Cardinality({k \in {"r5", "r15", "r1h"} : sign(f[k]) = s})
        moving == count(1) + count(-1)
        agree == Max({count(1), count(-1)})
    IN IF moving < 2 THEN 0 ELSE IF agree = moving THEN FULL ELSE IF agree >= 2 THEN FULL \div 2 ELSE 0

(* The last quarter of the hour against the three before it.                 *)
acceleration_credit(f, dir) ==
    IF ~f.r15.known \/ ~f.r1h.known THEN 0
    ELSE LET faster == (4 * f.r15.value - f.r1h.value) * dir
         IN IF faster <= 0 THEN 0 ELSE clip((FULL * faster) \div 12)

volume_confirmed_credit(f) ==
    IF ~f.intensity.known THEN 0
    ELSE (clip(FULL * (f.intensity.value - 2)) * (IF f.expansion THEN 10 ELSE 3)) \div 10

breakout_distance_credit(f, dir) ==
    LET along == {d \in {f.dist4, f.dist24} : d.known /\ (sign(d) = dir \/ d.value = 0)}
    IN IF dir = 0 \/ along = {} THEN 0 ELSE clip((FULL * Max({MoveSize(d.value) : d \in along})) \div 3)

freshness_credit(f) == IF f.freshness.known THEN clip(f.freshness.value) ELSE 0

relative_strength_credit(f, dir) ==
    IF ~f.relative.known \/ dir = 0 \/ sign(f.relative) # dir THEN 0
    ELSE clip((FULL * MoveSize(f.relative.value)) \div 5)

(* Open interest that grows with the move supports it, either way.           *)
classify_derivatives_coherence(dir, oi) ==
    IF ~oi.known \/ dir = 0 \/ sign(oi) = 0 THEN "UNKNOWN"
    ELSE CASE dir = 1 /\ sign(oi) = 1 -> "PRICE_UP_OI_UP"
           [] dir = 1 /\ sign(oi) = -1 -> "PRICE_UP_OI_DOWN"
           [] dir = -1 /\ sign(oi) = 1 -> "PRICE_DOWN_OI_UP"
           [] OTHER -> "PRICE_DOWN_OI_DOWN"
derivatives_coherence_credit(f, dir) ==
    IF classify_derivatives_coherence(dir, f.oi) \in {"PRICE_UP_OI_UP", "PRICE_DOWN_OI_UP"} THEN FULL ELSE 0

squeeze_release_credit(f, type) ==
    IF type = "SQUEEZE_RELEASE" THEN FULL ELSE IF f.compression THEN FULL \div 5 ELSE 0

(* The move of 15 minutes, half a range being 25 bps, against three times    *)
(* what the trip would cost.                                                 *)
cost_efficiency_credit(f) == clip((FULL * 25 * MoveSize(f.r15.value)) \div Max({1, 3 * f.cost}))

compute_opportunity_score(f, setup) ==
    LET dir == direction_sign(setup.direction)
        weighted == 16 * momentum_credit(f) + 8 * momentum_coherence_credit(f) + 8 * acceleration_credit(f, dir)
                    + 14 * volume_confirmed_credit(f) + 10 * breakout_distance_credit(f, dir) + 10 * freshness_credit(f)
                    + 8 * relative_strength_credit(f, dir) + 8 * derivatives_coherence_credit(f, dir)
                    + 8 * squeeze_release_credit(f, setup.type) + 10 * cost_efficiency_credit(f)
        after == IF f.exhaustion THEN weighted - 25 * FULL ELSE weighted
        capped == IF setup.type = "NONE" THEN Min({after, 20 * FULL}) ELSE after
    IN IF f.l2_warmup THEN 0 ELSE Max({0, Min({100 * FULL, capped})})

-----------------------------------------------------------------------------
Option(values) == {NoFeature} \cup {Feature(v) : v \in values}
Unjudged == [features |-> <<>>]
SetupInit == judged = Unjudged

(* A candidate with any features the L2 level can report.                    *)
Judge ==
    /\ judged = Unjudged
    /\ \E r5, r15, r1h \in Option(Moves), intensity \in Option(Intensities), dist4, dist24 \in Option(Distances),
          breakout \in {"BREAKOUT_UP", "BREAKOUT_DOWN", "INSIDE_RANGE"},
          rejection \in {"NONE", "REJECTION_AT_HIGH", "REJECTION_AT_LOW"}, compression, expansion, exhaustion \in BOOLEAN,
          relative \in Option(Relatives), oi \in Option(OpenInterests), freshness \in Option(Freshnesses),
          cost \in Costs_bps, warmup \in BOOLEAN :
         /\ breakout = (IF sign(dist24) = 1 THEN "BREAKOUT_UP" ELSE IF sign(dist24) = -1 THEN "BREAKOUT_DOWN" ELSE "INSIDE_RANGE")
         /\ dist24.known => dist4.known /\ (sign(dist24) # 0 => sign(dist4) = sign(dist24))
         /\ exhaustion => r1h.known /\ MoveSize(r1h.value) >= 6
         /\ warmup => ~r5.known /\ ~r15.known /\ ~r1h.known /\ ~dist4.known /\ ~exhaustion
         /\ LET f == [r5 |-> r5, r15 |-> r15, r1h |-> r1h, intensity |-> intensity, dist4 |-> dist4, dist24 |-> dist24,
                      breakout |-> breakout, rejection |-> rejection, compression |-> compression,
                      expansion |-> expansion, exhaustion |-> exhaustion, relative |-> relative, oi |-> oi,
                      freshness |-> freshness, cost |-> cost, l2_warmup |-> warmup]
                setup == classify_setup(f)
            IN judged' = [features |-> <<f>>, setup |-> setup, score |-> compute_opportunity_score(f, setup)]

SetupNext == Judge
SetupSpec == SetupInit /\ [][SetupNext]_setupVars

-----------------------------------------------------------------------------
Opposite(x) == [x EXCEPT !.value = -@]
(* The same market upside down.                                              *)
Mirror(f) ==
    [f EXCEPT !.r5 = Opposite(@), !.r15 = Opposite(@), !.r1h = Opposite(@), !.dist4 = Opposite(@),
              !.dist24 = Opposite(@), !.relative = Opposite(@),
              !.breakout = CASE @ = "BREAKOUT_UP" -> "BREAKOUT_DOWN" [] @ = "BREAKOUT_DOWN" -> "BREAKOUT_UP" [] OTHER -> @,
              !.rejection = CASE @ = "REJECTION_AT_HIGH" -> "REJECTION_AT_LOW"
                              [] @ = "REJECTION_AT_LOW" -> "REJECTION_AT_HIGH" [] OTHER -> @]

(* No rule prefers a side: the market upside down has the same setup in the  *)
(* opposite direction and the same score.                                    *)
NoSidePreferred ==
    LET f == judged.features[1]
        other == classify_setup(Mirror(f))
    IN /\ other.type = judged.setup.type
       /\ direction_sign(other.direction) = -direction_sign(judged.setup.direction)
       /\ compute_opportunity_score(Mirror(f), other) = judged.score

(* A score that reaches the pre-gate of the local model belongs to a named   *)
(* setup of a candidate with enough bars; and a named setup has a direction  *)
(* unless it is exhaustion, or a squeeze released without a move.            *)
GateNeedsSetup ==
    /\ judged.score >= PREGATE * FULL => judged.setup.type # "NONE" /\ ~judged.features[1].l2_warmup
    /\ (judged.setup.type # "NONE" /\ judged.setup.direction = "NONE") =>
          \/ judged.setup.type = "EXHAUSTION"
          \/ judged.setup.type = "SQUEEZE_RELEASE" /\ sign(judged.features[1].r15) = 0

(* The judgement of a candidate (classify_setup, compute_opportunity_score): *)
(* the mirrored market gets the mirrored setup and the same score, and only  *)
(* a named setup past its warm-up reaches the pre-gate.                      *)
SetupInv == judged # Unjudged => NoSidePreferred /\ GateNeedsSetup
=============================================================================
