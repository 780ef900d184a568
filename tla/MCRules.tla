------------------------------ MODULE MCRules ------------------------------
(* The cycle and the rules it decides by, one at a time: the features of a  *)
(* candidate, its setup and score, its finalist checks and its costs; the   *)
(* sizing of an entry, the integrity of its evidence, the corrected clock,  *)
(* the local review, the router and the cycle itself.  One part is at work  *)
(* in each behaviour, the others stay in one initial state.                 *)
EXTENDS RiskSizing, Integrity, ClockReference, QwenReview, Heartbeat, Level2, Finalists, Costs

VARIABLE part

(* Sizing: the EX-1 envelope and stricter ones; lots that cost from under a *)
(* cent to two euro, so that each limit binds in turn and the rounding of   *)
(* the fees needs none, some or too many passes.                            *)
Env(perEntry, notional, buffer, absolute) ==
    [currency |-> "EUR", per_entry_loss_pct |-> perEntry, aggregate_loss_pct |-> 50,
     gross_notional_pct |-> notional, cash_buffer_pct |-> buffer, daily_loss_pct |-> 100,
     drawdown_pct |-> 300, per_entry_abs_cap |-> absolute]

MCEnvelopes == {Env(25, 1000, 1000, 0), Env(25, 1000, 9950, 0), Env(25, 1000, 1000, 40)}

Rules(ordermin, costmin) == [tick |-> 2, ordermin |-> ordermin, costmin |-> costmin]

Candidate(ask, atr, rules) ==
    [quote |-> "EUR", bid |-> ask - 1, ask |-> ask, atr |-> atr, rules |-> rules]

MCAsks == {7, 20, 51, 100, 203, 401, 1603}
MCAtrs == {1, 2, 3, 5, 8, 13}
MCCandidates ==
    {Candidate(ask, atr, Rules(1, 5)) : ask \in MCAsks, atr \in MCAtrs}
      \cup {Candidate(ask, 5, Rules(4, 900)) : ask \in MCAsks}
      \cup {[Candidate(100, 5, Rules(1, 5)) EXCEPT !.quote = "USD"], [Candidate(100, 5, Rules(1, 5)) EXCEPT !.bid = 0],
            Candidate(100, 0, Rules(1, 5)), Candidate(100, 5, NoRules)}
MCFees == {0, 26, 40}
MCExitBids == {1, 5, 16, 45, 80, 90, 97, 119, 180, 199, 385, 450, 1570, 1580}

(* Evidence: a snapshot that passes, and what can be wrong with each of its *)
(* observations, two observations at a time.  Bars of two units, hours of   *)
(* two bars.                                                                *)
MCPolicy ==
    [ticker_max_age |-> 3, interval |-> 2, last_close_max_age |-> 3, atr_min_bars |-> 2, book_max_age |-> 1,
     trades_receipt_max_age |-> 1, last_trade_max_age |-> 2, futures_max_age |-> 2,
     clock_max_uncertainty |-> 2, future_tolerance |-> 1]

Heard(received, source) == [instrument |-> Selected, unit |-> "right", received |-> received, source |-> source]
Extend(a, b) == [f \in DOMAIN a \cup DOMAIN b |-> IF f \in DOMAIN b THEN b[f] ELSE a[f]]
Wrong(o) == {[o EXCEPT !.instrument = "another"], [o EXCEPT !.unit = "wrong"], Missing}

MCTimes == {<<0, Absent>>, <<-1, -3>>, <<-3, -1>>, <<1, 0>>, <<0, 2>>, <<-1, 1>>}
MCTicker == [bid |-> 3, ask |-> 4, last |-> 3, status |-> "online"]
MCTickers ==
    LET at == {Extend(Heard(t[1], t[2]), MCTicker) : t \in MCTimes} good == Extend(Heard(0, Absent), MCTicker)
    IN  at \cup Wrong(good) \cup {[good EXCEPT !.bid = b] : b \in {NaN, 0, 4}} \cup {[good EXCEPT !.last = 0]}
           \cup {[good EXCEPT !.status = s] : s \in {"none", "cancel_only"}}

Bar(t) == [t |-> t, o |-> 3, h |-> 4, l |-> 2, c |-> 3, v |-> 1]
Series(received, bars) == Extend(Heard(received, Absent), [bars |-> bars])
\* Bars that opened n units before the first one that is not closed yet.
Opened4(S) == LET all == <<Bar(-12), Bar(-10), Bar(-8), Bar(-6), Bar(-4), Bar(-2)>> IN SelectSeq(all, LAMBDA b : b.t \in S)
MCSeries ==
    LET good == Series(0, Opened4({-8, -6, -4, -2}))
    IN  {Series(0, Opened4(S)) : S \in SUBSET {-10, -8, -6, -4, -2}} \cup Wrong(good)
           \cup {Series(0, <<Bar(-4), Bar(-2), Bar(0)>>), Series(0, <<Bar(-2), Bar(-4)>>), Series(0, <<Bar(-3)>>), Series(2, <<Bar(-2), Bar(0)>>)}
           \cup {Series(0, <<Bar(-4), [Bar(-2) EXCEPT !.h = 2]>>), Series(0, <<[Bar(-2) EXCEPT !.v = NaN]>>)}

Level(p) == [price |-> p, size |-> 1]
Book(received, source, bids, asks) == Extend(Heard(received, source), [bids |-> bids, asks |-> asks])
MCBooks2 ==
    LET good == Book(0, Absent, <<Level(3), Level(2)>>, <<Level(4), Level(5)>>)
    IN  {Book(t[1], t[2], good.bids, good.asks) : t \in {<<0, Absent>>, <<-1, 0>>, <<0, -1>>, <<1, 0>>}} \cup Wrong(good)
           \cup {Book(0, Absent, b, a) : b \in {<<>>, <<Level(2), Level(3)>>, <<Level(4)>>, <<Level(NaN)>>}, a \in {good.asks, <<Level(5), Level(4)>>}}

Trades(received, times) == Extend(Heard(received, Absent), [trades |-> [i \in DOMAIN times |-> [price |-> 3, size |-> 1, time |-> times[i]]]])
MCTrades == {Trades(0, <<-1>>), Trades(0, <<-3, 1>>), Trades(0, <<>>), Trades(-1, <<-2>>), Trades(0, <<2>>), Missing,
             [Trades(0, <<0>>) EXCEPT !.trades[1].size = 0]}
MCFutures == {Missing} \cup {Extend(Heard(0, s), [bid |-> 3, ask |-> 4, last |-> 3, trade_time |-> t]) : s \in {Absent, -1}, t \in {Absent, 0}}
MCClocks ==
    {[synchronized |-> s, uncertainty |-> u, previous |-> p, backward |-> b] :
        s \in {"yes", "no", "unknown"}, u \in {Absent, 0, 2, 3}, p \in {Absent, 1}, b \in BOOLEAN}

GoodSnapshot ==
    [ticker |-> Extend(Heard(0, Absent), MCTicker), ohlc |-> Series(0, Opened4({-8, -6, -4, -2})),
     book |-> Book(0, Absent, <<Level(3), Level(2)>>, <<Level(4), Level(5)>>), trades |-> Trades(0, <<-1>>),
     futures |-> Missing, claim_atr_1h |-> TRUE,
     clock |-> [synchronized |-> "yes", uncertainty |-> 1, previous |-> Absent, backward |-> FALSE]]

MCSnapshots ==
    {[GoodSnapshot EXCEPT !.ticker = t, !.book = b] : t \in MCTickers, b \in MCBooks2}
      \cup {[GoodSnapshot EXCEPT !.ohlc = o, !.trades = t, !.claim_atr_1h = c] : o \in MCSeries, t \in MCTrades, c \in BOOLEAN}
      \cup {[GoodSnapshot EXCEPT !.clock = c, !.futures = f] : c \in MCClocks, f \in MCFutures}

(* The router: finalists on both sides of every threshold, and every shape  *)
(* of review.  In a cycle, two finalists and two reviews of each outcome.   *)
MCContexts ==
    [tradeability : {"TRADEABLE", "CONSTRAINED", "UNTRADEABLE"}, setup_type : {"NONE", "BREAKOUT", "SQUEEZE_RELEASE"},
     opportunity : {None, 49, 50, 70}, momentum_1h_atr : {None, -2}, momentum_coherent : {TRUE},
     volume : {None, 2, 3}, range_expansion : {TRUE}, breakout : BOOLEAN, derivatives : {FALSE},
     taker_buy_ratio : {None, 35, 65, 101}, direction : {"LONG", "SHORT", "NONE"}]
MCReviews ==
    [ok : {TRUE}, veto : BOOLEAN, call_sonnet : BOOLEAN, call_fable : BOOLEAN, confidence : {"LOW", "HIGH"},
     direction : {"LONG", "SHORT", "NONE"}]
PlainContext(opportunity) ==
    [tradeability |-> "TRADEABLE", setup_type |-> "BREAKOUT", opportunity |-> opportunity, momentum_1h_atr |-> None,
     momentum_coherent |-> FALSE, volume |-> None, range_expansion |-> FALSE, breakout |-> FALSE, derivatives |-> FALSE,
     taker_buy_ratio |-> None, direction |-> "LONG"]
MCCycleContexts == {PlainContext(49), PlainContext(60)}
MCCycleReviews == {[NoReview EXCEPT !.ok = TRUE], [NoReview EXCEPT !.ok = TRUE, !.veto = TRUE, !.confidence = "HIGH"]}

(* Features: one bar that rises and one wide bar that falls.                *)
MCShapes ==
    {[open |-> 2, high |-> 3, low |-> 2, close |-> 3, volume |-> 9],
     [open |-> 3, high |-> 5, low |-> 1, close |-> 1, volume |-> 2]}
MCReturns == {-9, 1}

(* Setups: moves on both sides of every threshold.                          *)
MCMoves == {-6, 0, 2}
MCDistances == {-1, 0, 2}
MCRelatives == {-3, 2}

(* Finalists: two of three candidates are chosen; some are warming up, have *)
(* no setup, no instrument, or a market that is not online.  One book holds *)
(* the reference order and the other is too thin on one side.               *)
L3Candidate(score, futures, spread) ==
    [score |-> score, warmup |-> FALSE, setup |-> "BREAKOUT", ohlc_missing |-> FALSE, futures |-> futures, instrument |-> TRUE,
     spread |-> spread, l0 |-> 9000, status |-> "online", fresh |-> 100, futures_spread |-> 0, futures_volume |-> 60000]
MCFirst ==
    [x \in L3Assets |-> CASE x = "a1" -> L3Candidate(60, TRUE, 0) [] x = "a2" -> L3Candidate(0, FALSE, 20)
                          [] x = "a3" -> [L3Candidate(70, FALSE, 0) EXCEPT !.warmup = TRUE]]
MCCandidateSets ==
    {MCFirst,
     [x \in L3Assets |-> CASE x = "a1" -> L3Candidate(60, FALSE, 0) [] x = "a2" -> L3Candidate(70, FALSE, 20)
                           [] x = "a3" -> [L3Candidate(55, FALSE, 0) EXCEPT !.setup = "NONE"]],
     [x \in L3Assets |-> IF x = "a1" THEN [L3Candidate(60, FALSE, 0) EXCEPT !.status = "cancel_only"]
                         ELSE [L3Candidate(60, TRUE, 0) EXCEPT !.warmup = x = "a2", !.instrument = FALSE]]}
Rung(p, v) == [price |-> p, volume |-> v]
MCL3Books ==
    {[bids |-> <<Rung(100, 10), Rung(98, 50)>>, asks |-> <<Rung(101, 1), Rung(103, 50)>>],
     [bids |-> <<Rung(100, 1)>>, asks |-> <<Rung(101, 90)>>]}

(* Costs: a negative input is malformed.                                    *)
MCFeeRates == {-1, 2}
MCFundings == {-1, 1}

SizingIdle ==
    /\ envelope = Env(25, 1000, 1000, 0) /\ candidate = Candidate(100, 5, NoRules) /\ fee = 0 /\ equity = 0
    /\ plan = Unplanned /\ bid = 0
IntegrityIdle ==
    /\ snapshot = [ticker |-> Missing, ohlc |-> Missing, book |-> Missing, trades |-> Missing, futures |-> Missing,
                   claim_atr_1h |-> FALSE, clock |-> GoodSnapshot.clock]
    /\ moment = 0

FinalistsIdle == candidates = <<>> /\ finalists = <<>> /\ stage = "select" /\ jobs = <<>> /\ now = 0 /\ l3 = <<>>

RouterIdle == ctx = PlainContext(49) /\ qreview = NoReview

MCRulesInit ==
    /\ part \in {"sizing", "seal", "clock", "review", "router", "cycle", "features", "setups", "finalists", "costs"}
    /\ IF part = "sizing" THEN SizingInit ELSE SizingIdle
    /\ IF part = "seal" THEN IntegrityInit ELSE IntegrityIdle
    /\ IF part = "router" THEN RouterInit ELSE RouterIdle
    /\ ClockInit /\ QwenInit /\ HeartbeatInit /\ FeaturesInit /\ SetupInit /\ CostsInit
    /\ IF part = "finalists" THEN FinalistsInit ELSE FinalistsIdle
    /\ part # "cycle" => mode = "shadow"

MCRulesNext ==
    /\ UNCHANGED part
    /\ IF part = "sizing" THEN SizingNext ELSE UNCHANGED sizingVars
    /\ IF part = "seal" THEN IntegrityNext ELSE UNCHANGED integrityVars
    /\ IF part = "clock" THEN ClockNext ELSE UNCHANGED clockVars
    /\ IF part = "review" THEN QwenNext ELSE UNCHANGED qwenVars
    /\ IF part = "router" THEN RouterNext ELSE UNCHANGED routerVars
    /\ IF part = "cycle" THEN HeartbeatNext ELSE UNCHANGED heartbeatVars
    /\ IF part = "features" THEN FeaturesNext ELSE UNCHANGED featureVars
    /\ IF part = "setups" THEN SetupNext ELSE UNCHANGED setupVars
    /\ IF part = "finalists" THEN FinalistsNext ELSE UNCHANGED finalistVars
    /\ IF part = "costs" THEN CostsNext ELSE UNCHANGED costVars

MCRulesSpec ==
    MCRulesInit /\ [][MCRulesNext]_<<part, sizingVars, integrityVars, clockVars, qwenVars, routerVars, heartbeatVars,
                                 featureVars, setupVars, finalistVars, costVars>>

\* A candidate is judged by its past alone: the features of the bars closed at
\* the instant they are asked for (compute_l2_features), and the setup and the
\* score read from them, the same for a rise and for its mirror image
\* (classify_setup, compute_opportunity_score).
L2Inv == part \in {"features", "setups"} => FeaturesInv /\ SetupInv

\* Neither time nor a review makes a finalist better: waiting opens nothing
\* that was blocked, and a review only silences or raises.
RulesMonotone == AgeingNeverHelps /\ ReviewNeverLowers
=============================================================================
