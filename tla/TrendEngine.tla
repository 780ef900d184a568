---------------------------- MODULE TrendEngine ----------------------------
(* The daily backtest of the trend research (domain/trend_engine.py) and the *)
(* rules it runs (domain/trend_strategies.py), held in units, with tax.  The *)
(* engine walks the days of a panel: on a day the rule sees the bars before  *)
(* it, and the engine trades at its open.  Weights are counted in 1/W; money *)
(* and quantities are whole: a buy is rounded down, a sale for a tax bill up.*)
(* The volatility of a rule is reduced to whether its closes moved.          *)
EXTENDS Integers, Sequences, SequencesExt, FiniteSetsExt

CONSTANTS
    Rules,              \* among "bh", "ens", "trend5", "trend5_vt" and "pair"
    Bars,               \* instrument -> the bars [open, close] it may have on a day
    LOOKBACKS,          \* of the moving averages of ENS
    SMA, DONCHIAN,      \* of trend5: an average, and the entry and exit windows
    VT_RETURNS, WEEK,   \* of its weekly volatility overlay
    WARMUP, START, COST, BAND,  \* the cost is notional \div COST, the band 1/BAND
    TAX, EXEMPT_DAYS, YEAR,     \* the rate is 1/TAX; lengths in days
    MaxDays

ASSUME EngineAssumption ==
    /\ LOOKBACKS \subseteq Nat \ {0} /\ {SMA, VT_RETURNS, WEEK, WARMUP, START, COST, BAND, TAX, YEAR} \subseteq Nat \ {0}
    /\ \A k \in DOMAIN Bars : \A b \in Bars[k] : b.open > 0 /\ b.close > 0 /\ b.open % COST = 0 /\ b.close % COST = 0

VARIABLES
    rule, panel,        \* panel[day][instrument]: <<bar>>, or <<>> on a day without a market
    cash, qty,
    lots,               \* instrument -> its open lots [qty, unit_cost, day], oldest first
    realized, paid,     \* year -> the gain that counts; year -> the tax paid for it
    book                \* [status, targets, marks, fees]: how the run stands
engineVars == <<rule, panel, cash, qty, lots, realized, paid, book>>

W == 4
Instruments == DOMAIN Bars
Years == 0..(MaxDays \div YEAR)
year(day) == day \div YEAR
Unsigned(n) == IF n < 0 THEN -n ELSE n
Ceiling(a, b) == (a + b - 1) \div b

-----------------------------------------------------------------------------

(* Mutant: the bar of the day itself is in the history.                      *)
History_Today(p, day, inst) ==
    FoldLeft(LAMBDA s, d : IF d <= day THEN s \o p[d][inst] ELSE s, <<>>, [d \in DOMAIN p |-> d])

(* What a rule may see: the bars that opened before the day.                 *)
History(p, day, inst) ==
    FoldLeft(LAMBDA s, d : IF d < day THEN s \o p[d][inst] ELSE s, <<>>, [d \in DOMAIN p |-> d])
closes(bars) == FoldLeft(LAMBDA s, b : Append(s, b.close), <<>>, bars)
truncated(p, day) == SubSeq(p, 1, day - 1)

(* Panel.price: the open, or the last close on a day without a market.       *)
price(p, day, inst) == IF p[day][inst] # <<>> THEN p[day][inst][1].open ELSE Last(History(p, day, inst)).close

-----------------------------------------------------------------------------
(* The rules: a weight in 1/W, or none when the history is too short.        *)
AboveAverage(cs, n) == n * Last(cs) > FoldLeft(+, 0, SubSeq(cs, Len(cs) - n + 1, Len(cs)))
ens_fraction(cs) == (W * Cardinality({n \in LOOKBACKS : AboveAverage(cs, n)})) \div Cardinality(LOOKBACKS)

(* The most recent of the two events decides, found by looking back.         *)
Entered(cs, t, entry) == \A k \in (t - entry)..(t - 1) : cs[t] > cs[k]
Left(cs, t, exit) == \A k \in (t - exit)..(t - 1) : cs[t] < cs[k]
donchian_long(cs, entry, exit) ==
    LET events == {t \in (Max({entry, exit}) + 1)..Len(cs) : Entered(cs, t, entry) \/ Left(cs, t, exit)}
    IN events # {} /\ Entered(cs, Max(events), entry)

trend_votes(cs) ==
    (IF AboveAverage(cs, SMA) THEN W \div 2 ELSE 0) + (IF donchian_long(cs, DONCHIAN.entry, DONCHIAN.exit) THEN W \div 2 ELSE 0)

(* The overlay looks only at closes before the week began.  The rule passes  *)
(* the last bars, enough that the days of the week itself leave all of them. *)
Newest(s, n) == SubSeq(s, Max({1, Len(s) - n + 1}), Len(s))
before_monday(bars, day) == SelectSeq(bars, LAMBDA b : b.day < day - (day % WEEK))
weekly_vol_scale(bars, day) ==
    LET cs == Newest(closes(before_monday(bars, day)), VT_RETURNS + 1)
    IN [known |-> Len(cs) >= 2, halves |-> IF \E k \in 1..Len(cs) - 1 : cs[k] # cs[k + 1] THEN 1 ELSE 2]
vt_scale(p, day) == weekly_vol_scale(Newest(History(p, day, "a"), VT_RETURNS + WEEK + 1), day)

Enough(p, day, n) == Len(History(p, day, "a")) >= n
StrategyError(p, day) ==
    CASE rule = "bh" -> FALSE
      [] rule = "ens" -> ~Enough(p, day, Max(LOOKBACKS))
      [] OTHER -> ~Enough(p, day, SMA) \/ (rule = "trend5_vt" /\ ~vt_scale(p, day).known)

BuyAndHold == W
Ens(p, day) == ens_fraction(closes(History(p, day, "a")))
BtcTrend5(p, day) == trend_votes(closes(History(p, day, "a")))
BtcTrend5Vt(p, day) == (BtcTrend5(p, day) * vt_scale(p, day).halves) \div 2

(* "pair" stands for a rule over two instruments, which the engine allows.   *)
ported_rule(p, day) ==
    CASE rule = "bh" -> BuyAndHold
      [] rule = "ens" -> Ens(p, day)
      [] rule = "trend5_vt" -> BtcTrend5Vt(p, day)
      [] OTHER -> BtcTrend5(p, day)
weights(p, day) ==
    [k \in Instruments |-> CASE k = "a" -> ported_rule(p, day) [] rule = "pair" -> W - ported_rule(p, day) [] OTHER -> 0]

(* A weight needs a market that day; the weights here never exceed the whole. *)
Invalid(bars, target) == \E k \in Instruments : target[k] > 0 /\ bars[k] = <<>>

-----------------------------------------------------------------------------
(* FifoTax.trade: a sale takes the oldest lots; what a lot held long enough  *)
(* gains or loses does not count.                                            *)
account == [cash |-> cash, qty |-> qty, lots |-> lots, realized |-> realized, fees |-> 0]

sell_lots(queue, units, px, day) ==
    LET step(s, lot) ==
          LET take == Min({s.left, lot.qty})
              gain == take * (px - lot.unit_cost) - take * (px \div COST)
          IN [left |-> s.left - take,
              gain |-> s.gain + IF day - lot.day < EXEMPT_DAYS THEN gain ELSE 0,
              kept |-> IF take = lot.qty THEN s.kept ELSE Append(s.kept, [lot EXCEPT !.qty = @ - take])]
    IN FoldLeft(step, [left |-> units, gain |-> 0, kept |-> <<>>], queue)

trade(x, inst, units, px, day) ==
    LET fee == Unsigned(units * px) \div COST
        sold == sell_lots(x.lots[inst], -units, px, day)
    IN IF units = 0 THEN x
       ELSE [cash |-> x.cash - units * px - fee,
             qty |-> [x.qty EXCEPT ![inst] = @ + units],
             lots |-> [x.lots EXCEPT ![inst] = IF units < 0 THEN sold.kept
                                               ELSE Append(@, [qty |-> units, unit_cost |-> px + px \div COST, day |-> day])],
             realized |-> IF units < 0 THEN [x.realized EXCEPT ![year(day)] = @ + sold.gain] ELSE x.realized,
             fees |-> x.fees + fee]

tax_for(x, y) == Max({0, x.realized[y]}) \div TAX

(* The bill of a year; positions are sold in proportion when cash is short.  *)
pay_tax(x, y, p, day) ==
    LET due == [x EXCEPT !.cash = @ - tax_for(x, y)]
        value == MapThenSumSet(LAMBDA k : x.qty[k] * price(p, day, k), {k \in Instruments : x.qty[k] > 0})
        worth == value - value \div COST
        share(k) == Min({x.qty[k], Ceiling(x.qty[k] * (-due.cash), worth)})
    IN IF tax_for(x, y) = 0 \/ due.cash >= 0 \/ value = 0 THEN due
       ELSE FoldSet(LAMBDA k, z : trade(z, k, -share(k), price(p, day, k), day), due, {k \in Instruments : x.qty[k] > 0})

equity(x, p, day) == x.cash + MapThenSumSet(LAMBDA k : x.qty[k] * price(p, day, k), {k \in Instruments : x.qty[k] > 0})

(* The orders of a day: outside the band, or an exit; none without a market. *)
orders(x, p, day, e, target) ==
    LET drift(k) == Unsigned(target[k] * e - W * x.qty[k] * price(p, day, k))
        wanted == {k \in Instruments : (target[k] > 0 \/ x.qty[k] > 0)
                                       /\ (BAND * drift(k) >= W * e \/ target[k] = 0) /\ p[day][k] # <<>>}
    IN [k \in wanted |-> (target[k] * e) \div (W * price(p, day, k)) - x.qty[k]]

(* Sells first, so that their cash funds the buys, and the buys are scaled   *)
(* down so that fees never borrow.                                           *)
rebalance(x, p, day, target) ==
    LET e == equity(x, p, day)
        todo == orders(x, p, day, e, target)
        buys == {k \in DOMAIN todo : todo[k] > 0}
        after == FoldSet(LAMBDA k, z : trade(z, k, todo[k], price(p, day, k), day), x, {k \in DOMAIN todo : todo[k] < 0})
        need == MapThenSumSet(LAMBDA k : todo[k] * (price(p, day, k) + price(p, day, k) \div COST), buys)
        units(k) == IF need > after.cash THEN (todo[k] * Max({0, after.cash})) \div need ELSE todo[k]
    IN IF e <= 0 THEN x
       ELSE FoldSet(LAMBDA k, z : trade(z, k, units(k), price(p, day, k), day), after, buys)

-----------------------------------------------------------------------------
Keep(x) == cash' = x.cash /\ qty' = x.qty /\ lots' = x.lots /\ realized' = x.realized

(* The days before the first one a rule is asked about.                      *)
WarmupDay(bars) ==
    /\ book.status = "running" /\ Len(panel) < WARMUP
    /\ panel' = Append(panel, bars)
    /\ UNCHANGED <<rule, cash, qty, lots, realized, paid, book>>

(* One evaluated day: the tax of a year that ended, the mark, the rule, its  *)
(* check, and the trades.                                                    *)
EvaluatedDay(bars) ==
    LET day == Len(panel) + 1
        p == Append(panel, bars)
        billed == book.marks # <<>> /\ year(day) # year(day - 1)
        x == IF billed THEN pay_tax(account, year(day - 1), p, day) ELSE account
        target == weights(p, day)
        refused == StrategyError(p, day) \/ Invalid(bars, target)
        done == rebalance([x EXCEPT !.fees = 0], p, day, target)
    IN /\ book.status = "running" /\ Len(panel) >= WARMUP /\ day < MaxDays
       /\ panel' = p
       /\ paid' = IF billed THEN [paid EXCEPT ![year(day - 1)] = tax_for(account, year(day - 1))] ELSE paid
       /\ IF refused
          THEN Keep(x) /\ book' = [book EXCEPT !.status = "refused"]
          ELSE /\ Keep(done)
               /\ book' = [book EXCEPT !.targets = Append(@, target), !.marks = Append(@, equity(x, p, day)), !.fees = done.fees]
       /\ UNCHANGED rule

(* The end: every year something was booked in and that is not billed yet is *)
(* billed at the next open.                                                  *)
FinalDay(bars) ==
    LET day == Len(panel) + 1
        p == Append(panel, bars)
        unpaid == {y \in Years : paid[y] < 0 /\ realized[y] # 0}
        x == FoldLeft(LAMBDA z, y : pay_tax(z, y, p, day), account, SetToSortSeq(unpaid, <))
    IN /\ book.status = "running" /\ Len(book.marks) >= 2
       /\ panel' = p
       /\ Keep(x)
       /\ paid' = [y \in Years |-> IF y \in unpaid THEN tax_for(account, y) ELSE Max({0, paid[y]})]
       /\ book' = [book EXCEPT !.status = "done", !.marks = Append(@, equity(x, p, day)), !.fees = 0]
       /\ UNCHANGED rule

EngineInit ==
    /\ rule \in Rules
    /\ panel = <<>> /\ cash = START
    /\ qty = [k \in Instruments |-> 0] /\ lots = [k \in Instruments |-> <<>>]
    /\ realized = [y \in Years |-> 0] /\ paid = [y \in Years |-> -1]
    /\ book = [status |-> "running", targets |-> <<>>, marks |-> <<>>, fees |-> 0]

(* A bar carries the day it opened on; the instrument a rule does not trade  *)
(* is always open, and no day of the panel is without any bar.               *)
Days ==
    {bars \in [Instruments -> UNION {{<<>>} \cup {<<[day |-> Len(panel) + 1, open |-> b.open, close |-> b.close]>> : b \in Bars[k]} : k \in Instruments}] :
        /\ \A k \in Instruments : bars[k] = <<>> \/ \E b \in Bars[k] : b.open = bars[k][1].open /\ b.close = bars[k][1].close
        /\ \E k \in Instruments : bars[k] # <<>>
        /\ rule # "pair" => \A k \in Instruments \ {"a"} : bars[k] # <<>>}

EngineNext == \E bars \in Days : WarmupDay(bars) \/ EvaluatedDay(bars) \/ FinalDay(bars)
EngineSpec == EngineInit /\ [][EngineNext]_engineVars

-----------------------------------------------------------------------------
(* A day's weights are those of a panel that holds nothing from that day on. *)
NoLookahead ==
    \A n \in DOMAIN book.targets :
        LET day == WARMUP + n IN ~StrategyError(truncated(panel, day), day) /\ book.targets[n] = weights(truncated(panel, day), day)

(* The signal looked back for is the one a day-by-day follower would hold.   *)
Follows ==
    LET cs == closes(History(panel, Len(panel) + 1, "a"))
        entry == DONCHIAN.entry
        exit == DONCHIAN.exit
        follow(long, t) == IF t <= Max({entry, exit}) THEN FALSE
                           ELSE IF Entered(cs, t, entry) THEN TRUE ELSE IF Left(cs, t, exit) THEN FALSE ELSE long
    IN donchian_long(cs, entry, exit) = FoldLeft(follow, FALSE, [t \in DOMAIN cs |-> t])

(* The volatility overlay changes only when a week begins.                   *)
WeeklyOverlay ==
    \A day \in 2..Len(panel) : (day % WEEK # 0 /\ vt_scale(panel, day - 1).known) => vt_scale(panel, day) = vt_scale(panel, day - 1)

(* Cash is negative only when a tax bill was more than all there was to      *)
(* sell; and a day's trades lose their fees and nothing else.                *)
NeverBorrows == cash < 0 => \A k \in Instruments : qty[k] = 0
NothingElseLost ==
    (book.status = "running" /\ book.marks # <<>>) => equity(account, panel, Len(panel)) = Last(book.marks) - book.fees

(* The open lots are the positions, and while the run goes on a billed year  *)
(* stays as it was billed: no later sale is booked into it.                  *)
TaxTrue ==
    /\ \A k \in Instruments : qty[k] >= 0 /\ qty[k] = FoldLeft(LAMBDA n, lot : n + lot.qty, 0, lots[k])
    /\ book.status = "running" => \A y \in Years : paid[y] >= 0 => paid[y] = Max({0, realized[y]}) \div TAX
    /\ book.status = "done" => \A y \in Years : paid[y] >= 0

(* The backtest (simulate, FifoTax.trade, pay_tax): no day trades on a bar   *)
(* of that day or later, the looked-back signal is the one followed day by   *)
(* day, the account loses its fees and nothing else and is in debt only for  *)
(* a tax that all its sales did not pay, and a billed year stays as billed.  *)
EngineInv == NoLookahead /\ Follows /\ WeeklyOverlay /\ NeverBorrows /\ NothingElseLost /\ TaxTrue
=============================================================================
