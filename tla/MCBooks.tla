------------------------------- MODULE MCBooks -------------------------------
(* The stores side by side: one of them is at work in each behaviour, the    *)
(* others stay in an initial state.  They share nothing.  The                *)
(* page, which writes nothing, reads the paper game in behaviours of its own:*)
(* there the monitor is idle.  The paper game records the larger start,      *)
(* enough for two plays and not for a third after a loss; the page also sees *)
(* the smaller one.                                                          *)
EXTENDS TrendLedger, TrendRegistry, TrendEngine, PaperGame, MarketLabels, OhlcBars, MarketClients, TLC

CONSTANTS pa, pb, e0, e1, e2

VARIABLE part

(* The trend ledger: candles that exist, a missing one of each kind, and a   *)
(* venue whose answers hold too few.                                         *)
AllCandles == [s \in Symbols |-> 1..MaxDay]
TrendWorld(v, c) == [venue |-> v, candles |-> c, cap |-> 2]
MCWorlds ==
    {TrendWorld("binance", AllCandles),
     TrendWorld("binance", [AllCandles EXCEPT ![Usdt("BTC")] = @ \ {1}]),
     TrendWorld("binance", [AllCandles EXCEPT ![Pair("BTC")] = @ \ {1}]),
     TrendWorld("binance", [AllCandles EXCEPT ![Pair("BTC")] = @ \ {2}, ![Fx] = @ \ {2}]),
     [TrendWorld("kraken", AllCandles) EXCEPT !.cap = 1],
     TrendWorld("kraken", [AllCandles EXCEPT ![Pair("BTC")] = @ \ {1}])}
MCTarget == <<5, 0>>
MCBookRules == <<"ENS", "BH">>

(* The paper game: prices that touch a stop, a target, or cannot be used.    *)
MCPairs == (pa :> "A") @@ (pb :> "B")
Flat == <<10, 10>>
MCMarkets ==
    {[p \in {pa, pb} |-> Flat],
     (pa :> <<8, 8>>) @@ (pb :> Flat),
     (pa :> <<14, 15>>) @@ (pb :> <<0, 0>>)}
MCLegacy ==
    {<<>>, << [event |-> e0, pair |-> pb, direction |-> "LONG", quote |-> Flat, entry_ts |-> 0,
               stop |-> 0, target |-> 0, due_at |-> 2] >>}

(* The labels: two rows of one candidate, or a subject, and time for the     *)
(* snapshots of their windows to be pruned.                                  *)
MCForwardHorizons == <<2, 3>>
MCSettings == {<<"symmetric", TRUE>>, <<"forward", FALSE>>}

(* The backtest: two instruments, one of them rising, falling or still.      *)
DayBar(o, c) == [open |-> o, close |-> c]
MCBars == [k \in {"a", "b"} |-> IF k = "a" THEN {DayBar(8, 8), DayBar(16, 16), DayBar(8, 16)} ELSE {DayBar(8, 8)}]
MCDonchian == [entry |-> 2, exit |-> 1]

MCBooksSymmetry == Permutations(Procs) \cup Permutations({e1, e2}) \cup Permutations(Researchers)

MCBooksInit ==
    /\ part \in {"trend", "registry", "paper", "page", "labels", "bars", "backtest", "clients"}
    /\ TrendInit /\ RegistryInit /\ PaperInit /\ LabelsInit /\ OhlcInit /\ EngineInit /\ ClientsInit
    /\ part # "trend" => world = TrendWorld("binance", AllCandles)
    /\ part # "paper" => plays = <<>>
    /\ part # "labels" => gaps
    /\ part # "backtest" => rule = "bh"
    /\ part # "clients" => http.venue = "kraken" /\ holes = {}

MCBooksNext ==
    /\ UNCHANGED part
    /\ IF part = "trend" THEN TrendNext ELSE UNCHANGED tvars
    /\ IF part = "registry" THEN RegistryNext ELSE UNCHANGED gvars
    /\ IF part = "labels" THEN LabelsNext ELSE UNCHANGED labelVars
    /\ IF part = "bars" THEN OhlcNext ELSE UNCHANGED ohlcVars
    /\ IF part = "backtest" THEN EngineNext ELSE UNCHANGED engineVars
    /\ IF part = "clients" THEN ClientsNext ELSE UNCHANGED clientVars
    /\ CASE part = "paper" -> PaperNext /\ wallet' # 1500 /\ UNCHANGED page
         [] part = "page" -> PaperNext /\ UNCHANGED eye
         [] OTHER -> UNCHANGED paperVars

MCBooksSpec ==
    MCBooksInit /\ [][MCBooksNext]_<<part, tvars, gvars, paperVars, labelVars, ohlcVars, engineVars, clientVars>>

(* What is kept of the market is what the market was: labels that do not     *)
(* depend on when they were written (label_horizon), consumed bars with all  *)
(* their trades (insert_ohlc_bars_batch), and daily fetches that answer every *)
(* closed candle they could, in order, and no open one (fetch_daily).        *)
MarketInv == part \in {"labels", "bars", "clients"} => LabelsTimeless /\ BarsWhole /\ ClientsInv

(* Nothing written is rewritten: the trend ledger only grows, whoever writes *)
(* or crashes (LedgerWriter), and so do plays and closes, each play opened   *)
(* from cash no other play holds (PaperStore.open_candidates).               *)
AppendOnly == NeverRewritten /\ PaperAppends
=============================================================================
