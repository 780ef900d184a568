---------------------------- MODULE MarketClients ----------------------------
(* The two clients that fetch daily candles for the trend books: Binance     *)
(* klines in pages (binance_public_klines.py) and Kraken OHLC in one answer  *)
(* (kraken_public_ohlc.py, over the guarded session of http_client.py).      *)
(* A fetch asks for the days from since up to the clock its caller read.     *)
(* Days go by at the venue while it runs; requests fail, are refused, or     *)
(* bring rows that are not in order.  Time is counted in backoff units.      *)
EXTENDS Integers, Sequences, SequencesExt, FiniteSetsExt

CONSTANTS
    Venues,             \* which clients: a subset of {"binance", "kraken"}
    PAGE_LIMIT, VENUE_CANDLES,   \* candles in a Binance page, in a Kraken answer
    MAX_RETRIES, MAX_REQUESTS, DEADLINE,
    RetryAfters,        \* what a 429 may ask for; 0: nothing
    Holes,              \* sets of days without a candle
    FirstDay, EndDay, MaxFetches

ASSUME ClientsAssumption ==
    PAGE_LIMIT \in Nat \ {0} /\ VENUE_CANDLES \in Nat \ {0} /\ MAX_RETRIES \in Nat /\ MAX_REQUESTS \in Nat

VARIABLES
    day,        \* the day it is at the venue
    holes,
    http,       \* the client: [venue, requests, sent, stopped, sent_when_stopped]
    query,      \* the fetch in progress
    fetches
clientVars == <<day, holes, http, query, fetches>>

NoCandle == -1
NoQuery == [at |-> "idle", since |-> 0, now |-> 0, start |-> 0, pages |-> 0, closed |-> <<>>, live |-> NoCandle,
         last |-> NoCandle, first |-> NoCandle, attempt |-> 0, time |-> 0, result |-> "none"]

-----------------------------------------------------------------------------

(* Mutant: a candle is open only if it begins in the future.                 *)
still_open_Late(t, now) == t > now

(* One row after another.  A row is [day, sound]: a sound row has the right  *)
(* columns and positive finite numbers.  A candle that is not over by the    *)
(* clock of the caller is the live one: only its open is used, and nothing   *)
(* may follow it.                                                            *)
still_open(t, now) == t + 1 > now

parse_row(venue, since, now, p, row) ==
    IF p.error # "none" THEN p
    ELSE LET t == row.day
             error ==
               CASE row.day > now /\ (venue = "kraken" \/ p.live # NoCandle \/ row.sound) -> "CLOCK_SKEW"
                 [] p.live # NoCandle -> "MALFORMED"
                 [] t = p.last -> "DUPLICATE"
                 [] t < p.last -> "NON_MONOTONIC"
                 [] ~row.sound -> "MALFORMED"
                 [] OTHER -> "none"
         IN [p EXCEPT !.error = error,
              !.live = IF error = "none" /\ still_open(t, now) THEN t ELSE @,
              !.closed = IF error = "none" /\ ~still_open(t, now) /\ t >= since THEN Append(@, t) ELSE @,
              !.first = IF @ = NoCandle THEN t ELSE @,
              !.last = IF error = "none" THEN t ELSE @]

parse_rows(venue, since, now, after, rows) ==
    FoldLeft(LAMBDA p, row : parse_row(venue, since, now, p, row),
             [error |-> "none", live |-> NoCandle, closed |-> <<>>, first |-> NoCandle, last |-> after], rows)

-----------------------------------------------------------------------------
(* What the venue holds, and the rows an answer may bring.                   *)
Candles == {d \in 0..day : d \notin holes}
Ordered(days) == [i \in 1..Cardinality(days) |-> CHOOSE d \in days : Cardinality({e \in days : e <= d}) = i]
InOrder(days) == [i \in 1..Cardinality(days) |-> [day |-> Ordered(days)[i], sound |-> TRUE]]
KlinesFrom(start) == LET rows == InOrder({d \in Candles : d >= start})
                     IN SubSeq(rows, 1, Min({PAGE_LIMIT, Len(rows)}))
OhlcSince(start) == LET rows == InOrder({d \in Candles : d > start})
                    IN SubSeq(rows, Max({1, Len(rows) - VENUE_CANDLES + 1}), Len(rows))
Disturbed(rows) ==
    {rows} \cup (IF rows = <<>> THEN {} ELSE
       {<<rows[1]>> \o rows, Reverse(rows), [rows EXCEPT ![Len(rows)].sound = FALSE]})

-----------------------------------------------------------------------------
End(result) == query' = [NoQuery EXCEPT !.at = "done", !.since = query.since, !.now = query.now, !.result = result,
                           !.closed = query.closed, !.live = query.live, !.first = query.first]
Fail(code) == End(code) /\ UNCHANGED http
World == UNCHANGED <<day, holes, fetches>>

(* fetch_daily: Kraken is asked from a day earlier, and the days before      *)
(* since are dropped.                                                        *)
fetch_daily(since, now) ==
    /\ query.at \in {"idle", "done"}
    /\ fetches < MaxFetches
    /\ fetches' = fetches + 1
    /\ query' = [NoQuery EXCEPT !.at = "get", !.since = since, !.now = now,
                   !.start = IF http.venue = "binance" THEN since ELSE Max({0, since - 1})]
    /\ UNCHANGED <<day, holes, http>>

max_pages == (Max({0, query.now - query.since}) \div PAGE_LIMIT) + 2

(* Before the first attempt of a request: a client that was stopped sends    *)
(* nothing.  Kraken's budget counts requests, Binance's every attempt.       *)
get ==
    /\ query.at = "get"
    /\ IF http.stopped # "no" THEN Fail(http.stopped)
       ELSE IF http.venue = "binance" /\ query.pages >= max_pages THEN Fail("MALFORMED")
       ELSE IF http.venue = "kraken" /\ http.requests >= MAX_REQUESTS THEN Fail("BUDGET")
       ELSE /\ query' = [query EXCEPT !.at = "attempt", !.attempt = 0, !.pages = @ + 1]
            /\ http' = IF http.venue = "kraken" THEN [http EXCEPT !.requests = @ + 1] ELSE http
    /\ World

attempt ==
    /\ query.at = "attempt"
    /\ IF http.venue = "binance" /\ query.time >= DEADLINE THEN Fail("DEADLINE")
       ELSE IF http.venue = "binance" /\ http.requests >= MAX_REQUESTS THEN Fail("BUDGET")
       ELSE /\ query' = [query EXCEPT !.at = "sent"]
            /\ http' = [http EXCEPT !.sent = @ + 1, !.requests = IF http.venue = "binance" THEN @ + 1 ELSE @]
    /\ World

(* A refusal: a ban stops the client at once; a redirect, another 4xx, a     *)
(* body too large, or (Kraken) one cut off ends the fetch.                   *)
refused(code) ==
    /\ query.at = "sent"
    /\ code = "BANNED" => http.venue = "binance"
    /\ code = "NETWORK" => http.venue = "kraken"
    /\ End(code)
    /\ http' = IF code = "BANNED"
               THEN [http EXCEPT !.stopped = code, !.sent_when_stopped = http.sent] ELSE http
    /\ World

(* Something that may be tried again: a network failure, a body cut off, a   *)
(* 429 or a 5xx.  The wait doubles; Binance's Retry-After is kept to, and    *)
(* no sleep runs past the deadline of the fetch.                             *)
retry(limited, asked) ==
    /\ query.at = "sent"
    /\ LET wait == IF http.venue = "binance" THEN Max({2 ^ query.attempt, asked}) ELSE 2 ^ query.attempt
           out == query.attempt = MAX_RETRIES
           late == http.venue = "binance" /\ wait >= DEADLINE - query.time
           code == IF limited THEN "RATE_LIMITED" ELSE IF late /\ ~out THEN "DEADLINE" ELSE "NETWORK"
       IN IF out \/ late
          THEN /\ End(code)
               /\ http' = IF limited THEN [http EXCEPT !.stopped = code, !.sent_when_stopped = http.sent] ELSE http
          ELSE /\ query' = [query EXCEPT !.at = "attempt", !.attempt = @ + 1, !.time = @ + wait]
               /\ UNCHANGED http
    /\ World

(* An answer of Kraken that names its own rate limit also stops the client.  *)
envelope(code) ==
    /\ query.at = "sent" /\ http.venue = "kraken"
    /\ End(code)
    /\ http' = IF code = "RATE_LIMITED" THEN [http EXCEPT !.stopped = code, !.sent_when_stopped = http.sent] ELSE http
    /\ World

Page(rows) == parse_rows(http.venue, query.since, query.now, query.last, rows)

klines_page(rows) ==
    /\ query.at = "sent" /\ http.venue = "binance"
    /\ LET p == Page(rows)
           all == [query EXCEPT !.closed = @ \o p.closed, !.live = p.live, !.last = p.last]
       IN IF p.error # "none" THEN Fail(p.error)
          ELSE /\ query' = IF p.last = query.last \/ p.live # NoCandle \/ Len(p.closed) < PAGE_LIMIT
                           THEN [all EXCEPT !.at = "done", !.result = "ok"]
                           ELSE [all EXCEPT !.at = "get", !.start = p.last + 1]
               /\ UNCHANGED http
    /\ World

answer_rows(rows) ==
    /\ query.at = "sent" /\ http.venue = "kraken"
    /\ LET p == Page(rows)
       IN IF rows = <<>> THEN Fail("EMPTY")
          ELSE IF p.error # "none" THEN Fail(p.error)
          ELSE /\ query' = [query EXCEPT !.at = "done", !.result = "ok", !.closed = p.closed, !.first = p.first,
                                         !.live = IF p.live >= query.since THEN p.live ELSE NoCandle]
               /\ UNCHANGED http
    /\ World

NextDay ==
    /\ day < EndDay
    /\ day' = day + 1
    /\ UNCHANGED <<holes, http, query, fetches>>

ClientsInit ==
    /\ day = FirstDay
    /\ holes \in Holes
    /\ \E v \in Venues :
         http = [venue |-> v, requests |-> 0, sent |-> 0, stopped |-> "no", sent_when_stopped |-> 0]
    /\ query = NoQuery
    /\ fetches = 0

ClientsNext ==
    \/ \E since \in 1..day, now \in (day - 1)..day : fetch_daily(since, now)
    \/ get \/ attempt
    \/ \E code \in {"BANNED", "REDIRECT", "HTTP_ERROR", "TOO_LARGE", "NETWORK"} : refused(code)
    \/ \E limited \in BOOLEAN, asked \in RetryAfters : retry(limited, asked)
    \/ \E code \in {"RATE_LIMITED", "API_ERROR", "RESULT_KEY"} : envelope(code)
    \/ \E rows \in Disturbed(KlinesFrom(query.start)) : klines_page(rows)
    \/ \E rows \in Disturbed(OhlcSince(query.start)) : answer_rows(rows)
    \/ NextDay

ClientsSpec == ClientsInit /\ [][ClientsNext]_clientVars

-----------------------------------------------------------------------------
(* Where Kraken's answer begins later than since, nothing before that day is *)
(* known.                                                                    *)
KnownFrom == IF http.venue = "kraken" /\ query.first > query.since THEN query.first ELSE query.since

(* A fetch that succeeds has every candle of the venue that was over by the  *)
(* caller's clock, once and in order, from since or from where the history   *)
(* is known to begin, although days went by between its pages.               *)
SeriesWhole ==
    (query.at = "done" /\ query.result = "ok") =>
        /\ query.closed = Ordered({d \in Candles : KnownFrom <= d /\ d < query.now})
        /\ query.live \in {NoCandle, query.now}

(* The budget holds, no sleep ends past the deadline, and a client that was  *)
(* banned or limited has sent nothing since.                                 *)
Polite ==
    /\ http.requests <= MAX_REQUESTS
    /\ http.sent <= MAX_REQUESTS * (IF http.venue = "binance" THEN 1 ELSE MAX_RETRIES + 1)
    /\ http.venue = "binance" => query.time < DEADLINE
    /\ http.stopped # "no" => http.sent = http.sent_when_stopped

(* A daily fetch that succeeds answers every closed candle once and in order *)
(* and no open one, although its pages straddle midnight and its requests    *)
(* are retried (fetch_daily, parse_rows); requests, retries and sleeps stay  *)
(* within their budgets, and none follows a ban.                             *)
ClientsInv == SeriesWhole /\ Polite
=============================================================================
