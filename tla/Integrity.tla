----------------------------- MODULE Integrity -----------------------------
(***************************************************************************)
(* The OC-1 integrity checks (domain/integrity.py): every observation of a *)
(* market snapshot is judged at a moment, and the report says whether the  *)
(* spot opportunity is blocked.  Times are integers of one unit; a number  *)
(* that is not finite is NaN, a time or an observation that was not        *)
(* supplied is Absent; every time carries its zone.  The cycle asks for no *)
(* metadata claim and no depth, which are left out.  The state machine     *)
(* holds one snapshot while time passes, as it does between its collection *)
(* and the evidence seal.                                                  *)
(***************************************************************************)
EXTENDS Integers, Sequences, FiniteSets, SequencesExt, FiniteSetsExt

CONSTANTS
    Policy,             \* the limits of IntegrityPolicy; all are inclusive
    HourBars,           \* bars of a 1h bucket
    Snapshots,          \* the snapshots looked at
    LastMoment          \* bound on the clock

VARIABLES snapshot, moment

integrityVars == <<snapshot, moment>>

NaN == -99
Absent == -98
Missing == [instrument |-> "none"]
Selected == "selected"

HARD_REASONS ==
    {"INVALID_NUMBER", "NONPOSITIVE_PRICE", "INVALID_SIZE", "UNIT_MISMATCH", "IDENTITY_MISMATCH",
     "OHLC_INCOHERENT", "BAR_NOT_CLOSED", "BAR_MISALIGNED", "BAR_ORDER", "CROSSED_QUOTE",
     "BOOK_SIDE_UNORDERED", "FUTURE_DATED"}
READINESS_FAILURES ==
    {"STALE_RECEIPT", "STALE_SOURCE", "MARKET_NOT_ONLINE", "CLOCK_NOT_SYNCHRONIZED",
     "CLOCK_UNCERTAINTY_EXCEEDED", "CLOCK_BACKWARD_JUMP"}

status_from_reasons(reasons) ==
    IF reasons \cap (HARD_REASONS \cup READINESS_FAILURES) # {} THEN "FAIL"
    ELSE IF reasons # {} THEN "UNKNOWN" ELSE "PASS"

If(condition, reason) == IF condition THEN {reason} ELSE {}

-----------------------------------------------------------------------------
(* The primitive checks: the reasons each one adds.                         *)
price(v) == IF v = NaN THEN {"INVALID_NUMBER"} ELSE If(v <= 0, "NONPOSITIVE_PRICE")

size(v, strict) ==
    IF v = NaN THEN {"INVALID_NUMBER"} ELSE If(v < 0 \/ (strict /\ v = 0), "INVALID_SIZE")

identity(o) == If(o.instrument # Selected, "IDENTITY_MISMATCH") \cup If(o.unit # "right", "UNIT_MISMATCH")

bid_ask(bid, ask) ==
    price(bid) \cup price(ask)
        \cup If(price(bid) = {} /\ price(ask) = {} /\ bid >= ask, "CROSSED_QUOTE")

\* A time the exchange reported: a little in the future is tolerated.
source_moment(t, now, max_age, stale) ==
    IF t - now > Policy.future_tolerance THEN {"FUTURE_DATED"} ELSE If(now - t > max_age, stale)

NoLimit == 1000

\* Mutant: the source's own time is not looked at.
timing_ReceiptOnly(o, now, receipt_max, source_max) ==
    IF o.received > now THEN {"FUTURE_DATED"} ELSE If(now - o.received > receipt_max, "STALE_RECEIPT")

\* Mutant: the seconds of a timedelta, which start again every day (of four units).
timing_SecondsOfDay(o, now, receipt_max, source_max) ==
    IF o.received > now THEN {"FUTURE_DATED"} ELSE If((now - o.received) % 4 > receipt_max, "STALE_RECEIPT")

timing(o, now, receipt_max, source_max) ==
    (IF o.received > now THEN {"FUTURE_DATED"} ELSE If(now - o.received > receipt_max, "STALE_RECEIPT"))
        \cup (IF o.source = Absent THEN {} ELSE source_moment(o.source, now, source_max, "STALE_SOURCE"))

-----------------------------------------------------------------------------
(* The capabilities.                                                        *)
evaluate_ticker(o, now) ==
    IF o = Missing THEN {"MISSING_OBSERVATION"}
    ELSE identity(o) \cup timing(o, now, Policy.ticker_max_age, Policy.ticker_max_age)
         \cup bid_ask(o.bid, o.ask) \cup price(o.last)
         \cup (CASE o.status = "none" -> {"MISSING_METADATA"}
                 [] o.status = "online" -> {}
                 [] OTHER -> {"MARKET_NOT_ONLINE"})

\* The longest run of bars, at the end, that follow each other without a gap.
_contiguous_tail(bars) ==
    LET joined(i) == \A j \in i..Len(bars) - 1 : bars[j + 1].t - bars[j].t = Policy.interval
        start == Min({i \in 1..Len(bars) : joined(i)})
    IN  IF bars = <<>> THEN <<>> ELSE SubSeq(bars, start, Len(bars))

bar_reasons(series, i) ==
    LET b == series.bars[i]
        prices == price(b.o) \cup price(b.h) \cup price(b.l) \cup price(b.c)
    IN  prices \cup size(b.v, FALSE)
        \cup If(prices = {} /\ ~(b.l <= b.o /\ b.l <= b.c /\ b.h >= b.o /\ b.h >= b.c), "OHLC_INCOHERENT")
        \cup If(b.t % Policy.interval # 0, "BAR_MISALIGNED")
        \cup If(b.t + Policy.interval > series.received, "BAR_NOT_CLOSED")
        \cup If(i > 1 /\ b.t <= series.bars[i - 1].t, "BAR_ORDER")

series_reasons(series, now, required) ==
    LET base == identity(series) \cup timing(series, now, NoLimit, NoLimit)
        each == UNION {bar_reasons(series, i) : i \in DOMAIN series.bars}
        tail == _contiguous_tail(series.bars)
    IN  IF series.bars = <<>> THEN base \cup {"MISSING_OBSERVATION"}
        ELSE IF (base \cup each) \cap HARD_REASONS # {} THEN base \cup each
        ELSE base \cup source_moment(Last(series.bars).t + Policy.interval, now, Policy.last_close_max_age, "STALE_SOURCE")
             \cup If(Len(tail) < required, IF Len(series.bars) < required THEN "INSUFFICIENT_BARS" ELSE "BAR_GAP")

evaluate_ohlc(series, now, required) ==
    IF series = Missing THEN {"MISSING_OBSERVATION"} ELSE series_reasons(series, now, required)

\* Buckets of n bars, on the grid, that the contiguous tail fills completely.
complete_buckets(bars, n) ==
    LET tail == _contiguous_tail(bars)
        span == n * Policy.interval
        start(i) == tail[i].t - (tail[i].t % span)
    IN  Cardinality({s \in {start(i) : i \in DOMAIN tail} :
                        Cardinality({i \in DOMAIN tail : start(i) = s}) = n})

evaluate_atr(series, now, n) ==
    IF series = Missing THEN {"MISSING_OBSERVATION"}
    ELSE LET reasons == series_reasons(series, now, 1)
         IN  reasons \cup If(reasons = {} /\ complete_buckets(series.bars, n) < Policy.atr_min_bars, "INSUFFICIENT_BARS")

\* Bids fall, asks rise: sign is -1 for bids.
book_side(levels, sign) ==
    LET values == UNION {price(levels[i].price) \cup size(levels[i].size, FALSE) : i \in DOMAIN levels}
    IN  IF levels = <<>> THEN {"EMPTY_BOOK_SIDE"}
        ELSE IF values # {} THEN values
        ELSE If(\E i \in 2..Len(levels) : sign * (levels[i].price - levels[i - 1].price) <= 0, "BOOK_SIDE_UNORDERED")

evaluate_book(o, now) ==
    IF o = Missing THEN {"MISSING_OBSERVATION"}
    ELSE LET bids == book_side(o.bids, -1) asks == book_side(o.asks, 1)
         IN  identity(o) \cup timing(o, now, Policy.book_max_age, Policy.book_max_age) \cup bids \cup asks
             \cup If(bids = {} /\ asks = {} /\ o.bids[1].price >= o.asks[1].price, "CROSSED_QUOTE")

evaluate_trades(o, now) ==
    LET times == {o.trades[i].time : i \in DOMAIN o.trades}
        known == {t \in times : source_moment(t, now, NoLimit, "STALE_SOURCE") = {}}
    IN  IF o = Missing THEN {"MISSING_OBSERVATION"}
        ELSE identity(o) \cup timing(o, now, Policy.trades_receipt_max_age, NoLimit)
             \cup UNION {price(o.trades[i].price) \cup size(o.trades[i].size, TRUE) : i \in DOMAIN o.trades}
             \cup UNION {source_moment(t, now, NoLimit, "STALE_SOURCE") : t \in times}
             \cup If(o.trades = <<>>, "NO_TRADES")
             \cup (IF known = {} THEN {}
                   ELSE source_moment(Max(known), now, Policy.last_trade_max_age, "STALE_LAST_TRADE"))

evaluate_futures(o, now) ==
    IF o = Missing THEN {"MISSING_OBSERVATION"}
    ELSE identity(o) \cup timing(o, now, Policy.futures_max_age, Policy.futures_max_age)
         \cup bid_ask(o.bid, o.ask) \cup price(o.last)
         \cup (IF o.trade_time = Absent THEN If(o.source = Absent, "SOURCE_TIME_ABSENT")
               ELSE source_moment(o.trade_time, now, Policy.futures_max_age, "STALE_SOURCE"))

evaluate_clock(sample, now) ==
    (CASE sample.synchronized = "unknown" -> {"CLOCK_SYNC_UNKNOWN"}
       [] sample.synchronized = "no" -> {"CLOCK_NOT_SYNCHRONIZED"}
       [] OTHER -> {})
    \cup (IF sample.uncertainty = Absent THEN {"CLOCK_UNCERTAINTY_UNKNOWN"}
          ELSE If(sample.uncertainty < 0, "INVALID_NUMBER") \cup If(sample.uncertainty > Policy.clock_max_uncertainty, "CLOCK_UNCERTAINTY_EXCEEDED"))
    \cup If((sample.previous # Absent /\ now < sample.previous) \/ sample.backward, "CLOCK_BACKWARD_JUMP")

-----------------------------------------------------------------------------
(* The report of a snapshot.                                                *)
\* Under a clock that does not pass, what depends on freshness does not either.
clock_untrusted(reasons, clock) == IF clock # {} /\ reasons = {} THEN {"CLOCK_UNTRUSTED"} ELSE reasons

Capabilities == {"SPOT_TICKER", "PAIR_OHLC", "ATR", "ATR_1H", "BOOK", "TRADES", "FUTURES", "CLOCK"}
SPOT_REQUIRED == {"SPOT_TICKER", "PAIR_OHLC", "BOOK"}
SPOT_CAPABILITIES == SPOT_REQUIRED \cup {"ATR", "ATR_1H", "TRADES"}

\* The status of each capability; "NA" is not applicable.
evaluate_snapshot(s, now) ==
    LET clock == evaluate_clock(s.clock, now)
        judged(reasons) == status_from_reasons(clock_untrusted(reasons, clock))
    IN  [c \in Capabilities |->
            CASE c = "SPOT_TICKER" -> judged(evaluate_ticker(s.ticker, now))
              [] c = "PAIR_OHLC" -> judged(evaluate_ohlc(s.ohlc, now, 1))
              [] c = "ATR" -> judged(evaluate_atr(s.ohlc, now, 1))
              [] c = "ATR_1H" -> IF s.claim_atr_1h THEN judged(evaluate_atr(s.ohlc, now, HourBars)) ELSE "NA"
              [] c = "BOOK" -> judged(evaluate_book(s.book, now))
              [] c = "TRADES" -> judged(evaluate_trades(s.trades, now))
              [] c = "FUTURES" -> IF s.futures = Missing THEN "NA" ELSE judged(evaluate_futures(s.futures, now))
              [] c = "CLOCK" -> status_from_reasons(clock)]

blocking_results(report) ==
    {c \in Capabilities : \/ c \in SPOT_REQUIRED \cup {"CLOCK"} /\ report[c] # "PASS"
                          \/ c \in SPOT_CAPABILITIES /\ report[c] = "FAIL"}

opportunity_blocked(report) == blocking_results(report) # {}

-----------------------------------------------------------------------------
IntegrityInit == snapshot \in Snapshots /\ moment = 0

\* Time passes between the collection and the seal.
IntegrityNext == moment < LastMoment /\ moment' = moment + 1 /\ UNCHANGED snapshot
IntegritySpec == IntegrityInit /\ [][IntegrityNext]_integrityVars

-----------------------------------------------------------------------------
Sealed == evaluate_snapshot(snapshot, moment)
Quoted(bid, ask) == bid > 0 /\ ask > bid

\* A snapshot that is not blocked can be traded on, read from its raw values:
\* the right instrument everywhere, a quote and a book that are uncrossed and
\* no older than their limits whichever time is the older, a last bar that was
\* closed when it was read, an unbroken clock; and an hourly ATR that passes
\* rests on hours covered by every one of their bars (evaluate_snapshot).
SealSound ==
    LET s == snapshot
        fresh(o, limit) == o.received \in moment - limit..moment /\ (o.source # Absent => o.source >= moment - limit)
    IN  /\ ~opportunity_blocked(Sealed) =>
            /\ s.ticker.instrument = Selected /\ s.ohlc.instrument = Selected /\ s.book.instrument = Selected
            /\ Quoted(s.ticker.bid, s.ticker.ask) /\ s.ticker.status = "online" /\ fresh(s.ticker, Policy.ticker_max_age)
            /\ Quoted(Max({s.book.bids[i].price : i \in DOMAIN s.book.bids}), Min({s.book.asks[i].price : i \in DOMAIN s.book.asks}))
            /\ fresh(s.book, Policy.book_max_age)
            /\ \A i \in DOMAIN s.ohlc.bars : s.ohlc.bars[i].t + Policy.interval <= s.ohlc.received
            /\ moment - (Last(s.ohlc.bars).t + Policy.interval) <= Policy.last_close_max_age
            /\ s.clock.synchronized = "yes" /\ ~s.clock.backward /\ s.clock.uncertainty <= Policy.clock_max_uncertainty
        /\ Sealed["ATR_1H"] = "PASS" =>
            LET opens == {s.ohlc.bars[i].t : i \in DOMAIN s.ohlc.bars}
                hour(k) == {(k * HourBars + j) * Policy.interval : j \in 0..HourBars - 1}
                hours == {k \in {t \div (HourBars * Policy.interval) : t \in opens} : hour(k) \subseteq opens}
            IN  Cardinality(hours) >= Policy.atr_min_bars

\* A time that lies in the future now.
FutureDated ==
    \/ "FUTURE_DATED" \in evaluate_ticker(snapshot.ticker, moment) \cup evaluate_ohlc(snapshot.ohlc, moment, 1)
                           \cup evaluate_book(snapshot.book, moment) \cup evaluate_trades(snapshot.trades, moment)
    \/ snapshot.clock.previous > moment

\* Waiting never opens what was blocked, unless a time lay in the future: a
\* snapshot must be collected again (evaluate_*, all limits are upper bounds).
AgeingNeverHelps ==
    [][moment' > moment /\ opportunity_blocked(Sealed) /\ ~FutureDated
        => opportunity_blocked(evaluate_snapshot(snapshot', moment'))]_integrityVars
=============================================================================
