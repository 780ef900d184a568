------------------------------ MODULE Finalists ------------------------------
(* The L3 level of a cycle (l3.py, microstructure.py, the gate of            *)
(* tradeability.py): the best candidates are chosen, their spot book, trades *)
(* and futures book are fetched by a pool of threads, and when all answers   *)
(* are in, each finalist is validated and scored.  Time passes while the     *)
(* slowest job runs, and between the finalists.  Amounts are whole dollars,  *)
(* spreads and slippage whole bps, a credit is counted in 1/100 and a score  *)
(* in 1/100 of a point.                                                      *)
EXTENDS Integers, Sequences, SequencesExt, FiniteSetsExt

CONSTANTS
    L3Assets, CandidateSets,         \* the candidate of an asset: a set of functions
    Books,                      \* [bids, asks], best first, of [price, volume]
    L3_MAX_FINALISTS, MAX_AGE, REFERENCE_USD, MaxTime

VARIABLES
    candidates,         \* asset -> what the levels before say of it
    finalists,          \* the chosen ones, best first; <<>> until chosen
    stage,              \* "select", "fetch" or "evaluate"
    jobs,               \* <<asset, what>> -> the answer, for the answers that are in
    now,                \* the clock of the process
    l3                  \* asset -> its L3Result, for those evaluated
finalistVars == <<candidates, finalists, stage, jobs, now, l3>>

-----------------------------------------------------------------------------
(* microstructure.py: the depth near the mid, and the price at which a book  *)
(* fills the reference size.                                                 *)
Value(levels) == FoldLeft(LAMBDA v, l : v + l.price * l.volume, 0, levels)
depth_within_1pct(levels, mid2, side) ==
    Value(SelectSeq(levels, LAMBDA l : IF side = "bid" THEN 200 * l.price >= 99 * mid2 ELSE 200 * l.price <= 101 * mid2))

(* What is bought or sold while walking, in 1/1000 of a coin.                *)
walk_book_for_fill(levels) ==
    LET step(w, l) ==
          IF w.full THEN w
          ELSE IF w.usd + l.price * l.volume >= REFERENCE_USD
               THEN [usd |-> REFERENCE_USD, base |-> w.base + (1000 * (REFERENCE_USD - w.usd)) \div l.price, full |-> TRUE]
               ELSE [usd |-> w.usd + l.price * l.volume, base |-> w.base + 1000 * l.volume, full |-> FALSE]
    IN FoldLeft(step, [usd |-> 0, base |-> 0, full |-> FALSE], levels)

NoMetrics == [known |-> FALSE, spread |-> 0, bid_usd |-> 0, ask_usd |-> 0, slip_buy |-> 0, slip_sell |-> 0, covered |-> FALSE]

compute_depth_metrics(book) ==
    IF book.bids = <<>> \/ book.asks = <<>> THEN NoMetrics
    ELSE LET bid == book.bids[1].price
             ask == book.asks[1].price
             buy == walk_book_for_fill(book.asks)
             sell == walk_book_for_fill(book.bids)
         IN IF ask < bid THEN NoMetrics
            ELSE [known |-> TRUE, spread |-> (20000 * (ask - bid)) \div (ask + bid),
                  bid_usd |-> depth_within_1pct(book.bids, bid + ask, "bid"),
                  ask_usd |-> depth_within_1pct(book.asks, bid + ask, "ask"),
                  slip_buy |-> (10000 * (1000 * buy.usd - buy.base * ask)) \div (buy.base * ask),
                  slip_sell |-> (10000 * (sell.base * bid - 1000 * sell.usd)) \div (sell.base * bid),
                  covered |-> buy.full /\ sell.full]

-----------------------------------------------------------------------------
(* tradeability.py: eight weighted credits and two vetoes.  Without a book   *)
(* the top of the ticker stands in for its depth, at half its worth.         *)
clip01(x) == Max({0, Min({100, x})})
spread_credit(spread) == clip01(100 - (100 * spread) \div 60)

(* Mutant: the ticker's volume earns a book's full credit.                   *)
depth_credit_Whole(depth, l0) == clip01((IF depth.known THEN Min({depth.bid_usd, depth.ask_usd}) ELSE l0) \div 50)

depth_credit(depth, l0) ==
    IF depth.known THEN clip01(Min({depth.bid_usd, depth.ask_usd}) \div 50) ELSE clip01(l0 \div 50) \div 2
slippage_credit(depth) ==
    IF depth.known THEN clip01(100 - (100 * Max({depth.slip_buy, depth.slip_sell})) \div 40) ELSE 0
imbalance_credit(depth) ==
    IF ~depth.known \/ depth.bid_usd + depth.ask_usd = 0 THEN 70
    ELSE LET more == Max({depth.bid_usd, depth.ask_usd}) less == Min({depth.bid_usd, depth.ask_usd})
         IN clip01(100 - (100 * (more - less)) \div (more + less))
activity_credit(trades) == IF trades.known THEN clip01(2 * trades.per_hour) ELSE 0
futures_quality_credit(c) ==
    IF c.futures THEN (spread_credit(c.futures_spread) + clip01(c.futures_volume \div 500)) \div 2 ELSE 0

compute_tradeability(c, depth, trades) ==
    LET score == 20 * spread_credit(c.spread) + 20 * depth_credit(depth, c.l0) + 15 * slippage_credit(depth)
                 + 5 * imbalance_credit(depth) + 15 * activity_credit(trades)
                 + 10 * (IF c.futures THEN 100 ELSE 0) + 10 * futures_quality_credit(c) + 5 * c.fresh
        veto == c.spread > 150 \/ c.status # "online"
    IN [score |-> score,
        state |-> IF veto \/ score <= 3000 THEN "UNTRADEABLE" ELSE IF score <= 6000 THEN "CONSTRAINED" ELSE "TRADEABLE"]

(* Both legs of a round trip are priced only on a book that covers the size. *)
cost_known(depth) == depth.known /\ depth.covered

-----------------------------------------------------------------------------
(* The candidates with a score, best first, at most so many.                 *)
eligible(c) == ~c.warmup /\ c.score > 0
select_finalists ==
    /\ stage = "select"
    /\ LET worthy == {a \in L3Assets : eligible(candidates[a])}
           ranked == SetToSortSeq(worthy, LAMBDA a, b : candidates[a].score > candidates[b].score)
       IN finalists' = SubSeq(ranked, 1, Min({L3_MAX_FINALISTS, Len(ranked)}))
    /\ stage' = "fetch"
    /\ UNCHANGED <<candidates, jobs, now, l3>>

Submitted ==
    LET chosen == {a \in ToSet(finalists) : candidates[a].instrument}
    IN {<<a, what>> : a \in chosen, what \in {"book", "trades"}}
       \cup {<<a, "futures">> : a \in {b \in ToSet(finalists) : candidates[b].futures}}

(* An answer: not collected, of another market, with rows that cannot be     *)
(* used, or sound; with the time it was received.                            *)
JobAnswers(what) ==
    {[error |-> TRUE, own |-> TRUE, sound |-> FALSE, received |-> now, content |-> <<>>],
     [error |-> FALSE, own |-> what = "futures", sound |-> what # "futures", received |-> now, content |-> <<>>]}
    \cup {[error |-> FALSE, own |-> TRUE, sound |-> TRUE, received |-> now, content |-> <<x>>] :
            x \in IF what = "trades" THEN {30} ELSE Books}

fetch_checked(job, answer) ==
    /\ stage = "fetch" /\ job \in Submitted \ DOMAIN jobs
    /\ jobs' = [j \in DOMAIN jobs \cup {job} |-> IF j = job THEN answer ELSE jobs[j]]
    /\ UNCHANGED <<candidates, finalists, stage, now, l3>>

pool_done ==
    /\ stage = "fetch" /\ DOMAIN jobs = Submitted
    /\ stage' = "evaluate"
    /\ UNCHANGED <<candidates, finalists, jobs, now, l3>>

(* evaluate_book and evaluate_trades, at the time of the evaluation.         *)
passes(o) == ~o.error /\ o.own /\ o.sound /\ now - o.received <= MAX_AGE

NoTrades == [known |-> FALSE, per_hour |-> 0]

(* One finalist: nothing is derived from an answer that does not pass, or    *)
(* under a clock that is not trusted.                                        *)
metrics_of(job, clock_ok) ==
    IF job \in DOMAIN jobs /\ clock_ok /\ passes(jobs[job]) THEN compute_depth_metrics(jobs[job].content[1]) ELSE NoMetrics

passes_qwen_pregate(c, state) == c.score >= 50 /\ state # "UNTRADEABLE" /\ c.setup # "NONE" /\ ~c.ohlc_missing

evaluate(clock_ok) ==
    /\ stage = "evaluate" /\ Len(finalists) > Cardinality(DOMAIN l3)
    /\ LET a == finalists[Cardinality(DOMAIN l3) + 1]
           c == candidates[a]
           depth == IF c.instrument THEN metrics_of(<<a, "book">>, clock_ok) ELSE NoMetrics
           trades == IF c.instrument /\ clock_ok /\ passes(jobs[<<a, "trades">>])
                     THEN [known |-> TRUE, per_hour |-> jobs[<<a, "trades">>].content[1]] ELSE NoTrades
           futures_depth == IF c.futures THEN metrics_of(<<a, "futures">>, clock_ok) ELSE NoMetrics
           gate == compute_tradeability(c, depth, trades)
           one == [depth |-> depth, trades |-> trades, futures |-> futures_depth, state |-> gate.state, score |-> gate.score,
                   spot_cost |-> cost_known(depth), futures_cost |-> c.futures /\ cost_known(futures_depth),
                   qwen_eligible |-> passes_qwen_pregate(c, gate.state), at |-> now, clock_ok |-> clock_ok]
       IN l3' = [b \in DOMAIN l3 \cup {a} |-> IF b = a THEN one ELSE l3[b]]
    /\ UNCHANGED <<candidates, finalists, stage, jobs, now>>

Pass ==
    /\ now < MaxTime
    /\ now' = now + 1
    /\ UNCHANGED <<candidates, finalists, stage, jobs, l3>>

FinalistsInit ==
    /\ candidates \in CandidateSets
    /\ finalists = <<>> /\ stage = "select" /\ jobs = <<>> /\ now = 0 /\ l3 = <<>>

FinalistsNext ==
    \/ select_finalists \/ pool_done \/ Pass
    \/ \E job \in Submitted : \E answer \in JobAnswers(job[2]) : fetch_checked(job, answer)
    \/ \E clock_ok \in BOOLEAN : evaluate(clock_ok)

FinalistsSpec == FinalistsInit /\ [][FinalistsNext]_finalistVars

-----------------------------------------------------------------------------
(* The finalists are the best of those worth a request, and no more requests *)
(* are made than they need.                                                  *)
BestChosen ==
    stage # "select" =>
        /\ Len(finalists) <= L3_MAX_FINALISTS
        /\ \A a \in L3Assets \ ToSet(finalists) : eligible(candidates[a]) =>
             /\ Len(finalists) = L3_MAX_FINALISTS
             /\ \A b \in ToSet(finalists) : candidates[b].score >= candidates[a].score
        /\ Cardinality(DOMAIN jobs) <= 3 * L3_MAX_FINALISTS

(* A metric comes from the finalist's own market, from an answer that was    *)
(* still fresh when it was used, under a trusted clock.                      *)
OnlyVerified ==
    \A a \in DOMAIN l3 :
        LET r == l3[a]
            own(what) == <<a, what>> \in DOMAIN jobs /\ ~jobs[<<a, what>>].error /\ jobs[<<a, what>>].own
                         /\ r.at - jobs[<<a, what>>].received <= MAX_AGE /\ r.clock_ok
        IN /\ r.depth.known => own("book")
           /\ r.trades.known => own("trades")
           /\ r.futures.known => own("futures") /\ candidates[a].futures

(* A finalist of which neither book nor trades could be verified is never    *)
(* called tradeable and has no cost, however good its ticker looks.          *)
UnverifiedNotTradeable ==
    \A a \in DOMAIN l3 :
        (~l3[a].depth.known /\ ~l3[a].trades.known) => l3[a].state # "TRADEABLE" /\ ~l3[a].spot_cost

(* A cost is shown only for a book that fills the reference size both ways,  *)
(* and then no fill is better than the touch or worse than the last level    *)
(* (-1: the base is rounded down to 1/1000 of a coin).                       *)
FillsWithinBook ==
    \A a \in DOMAIN l3 : l3[a].spot_cost =>
        LET book == jobs[<<a, "book">>].content[1]
        IN /\ Value(book.asks) >= REFERENCE_USD /\ Value(book.bids) >= REFERENCE_USD
           /\ l3[a].depth.slip_buy \in 0..((10000 * (Last(book.asks).price - book.asks[1].price)) \div book.asks[1].price)
           /\ l3[a].depth.slip_sell \in -1..((10000 * (book.bids[1].price - Last(book.bids).price)) \div book.bids[1].price)

(* Level L3 (_run_l3_checked): the finalists are the best of those worth a   *)
(* request; their metrics are their own, from answers still fresh when used  *)
(* however long other jobs took; unverified means not tradeable; and a shown *)
(* cost was filled by the book in hand.                                      *)
FinalistsInv == BestChosen /\ OnlyVerified /\ UnverifiedNotTradeable /\ FillsWithinBook
=============================================================================
