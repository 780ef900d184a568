----------------------------- MODULE RiskEngine -----------------------------
(* domain/risk.py and the exit rules of domain/paper.py: the sums that size *)
(* a LONG entry inside the account envelope, mark it, settle it and trip    *)
(* the loss locks.  The decimals are exact, so they are integers here:      *)
(*   a quantity counts lots;                                                *)
(*   a price is that of one lot, in 1/PriceUnits cent;                      *)
(*   an amount is in 1/PriceUnits cent, a fee in whole cents;               *)
(*   a percentage and a fee rate are in basis points (out of BPS);          *)
(*   an amount scaled by BPS (a limit, the planned loss) is named "...Bps". *)
EXTENDS Integers, FiniteSetsExt

CONSTANTS
    PriceUnits,             \* price units per cent
    HoldLength              \* EX1_MAX_HOLD_MINUTES, in clock units

ASSUME RiskAssumption == PriceUnits \in Nat \ {0} /\ HoldLength \in Nat \ {0}

BPS == 10000
\* PILOT_STRESS_EXIT_SLIPPAGE_BPS: 50 of 10000 below the stop, as a fraction.
StressNum == 199
StressDen == 200
MAX_DOWNWARD_PASSES == 3
EX1_STOP_ATR_MULTIPLE == 2
EX1_TARGET_R_MULTIPLE == 2
\* max_positions of every Envelope.
EX1_MAX_POSITIONS == 1

NoRules == [tick |-> 0, ordermin |-> 0, costmin |-> 0]

-----------------------------------------------------------------------------
(* Rounding.                                                                *)

\* cents_up of the fraction n/d of cents, for n >= 0.
cents_up(n, d) == (n + d - 1) \div d

\* paper.cents: n/d to the nearest integer, a half to the even one.
cents(n, d) ==
    LET low == n \div d
        rest == 2 * (n - low * d)
    IN  IF rest > d \/ (rest = d /\ low % 2 = 1) THEN low + 1 ELSE low

floor_to_step(value, step) == (value \div step) * step

-----------------------------------------------------------------------------
(* Levels and exits (domain/paper.py, LONG).                                *)

exit_levels(ask, atr) ==
    LET distance == EX1_STOP_ATR_MULTIPLE * atr
    IN  [stop |-> ask - distance, target |-> ask + EX1_TARGET_R_MULTIPLE * distance]

\* exit_decision: stop before target, both before the time limit.
exit_decision(position, observed_at, bid) ==
    IF bid <= position.stop THEN "STOP"
    ELSE IF bid >= position.target THEN "TARGET"
    ELSE IF observed_at >= position.due_at THEN "TIME"
    ELSE "none"

-----------------------------------------------------------------------------
(* Budget and planned costs.                                                *)

\* _percent_of and budget, every amount scaled by BPS.  An absolute cap of 0
\* stands for None.
budget(envelope, equity, cash, openLossBps, openNotional) ==
    LET per_entry == equity * envelope.per_entry_loss_pct
        absolute == envelope.per_entry_abs_cap * PriceUnits * BPS
    IN  [per_entry_loss_cap |-> IF absolute = 0 THEN per_entry ELSE Min({per_entry, absolute}),
         aggregate_loss_remaining |-> equity * envelope.aggregate_loss_pct - openLossBps,
         notional_remaining |-> equity * envelope.gross_notional_pct - openNotional * BPS,
         cash_room |-> cash * BPS - equity * envelope.cash_buffer_pct]

\* The price loss of one lot down to stress_exit_price, scaled by StressDen.
StressLoss(ask, stop) == StressDen * ask - StressNum * stop

\* loss_per_unit, scaled by StressDen and BPS.
loss_per_unit(ask, stop, fee) ==
    StressLoss(ask, stop) * BPS + (StressDen * ask + StressNum * stop) * fee

\* final_costs: fees rounded up to the cent; the planned loss scaled by BPS.
final_costs(quantity, ask, stop, fee) ==
    LET entry_fee == cents_up(quantity * ask * fee, PriceUnits * BPS)
        exit_fee == cents_up(quantity * stop * StressNum * fee, StressDen * PriceUnits * BPS)
    IN  [notional |-> quantity * ask, entry_fee |-> entry_fee, exit_fee |-> exit_fee,
         planned_lossBps |-> quantity * StressLoss(ask, stop) * (BPS \div StressDen)
                             + (entry_fee + exit_fee) * PriceUnits * BPS]

\* Mutant: the entry fee is left out of the cash an entry needs.
fits_NoFee(costs, room) ==
    /\ costs.planned_lossBps <= room.per_entry_loss_cap
    /\ costs.planned_lossBps <= room.aggregate_loss_remaining
    /\ costs.notional * BPS <= room.notional_remaining
    /\ costs.notional * BPS <= room.cash_room

\* _fits
fits(costs, room) ==
    /\ costs.planned_lossBps <= room.per_entry_loss_cap
    /\ costs.planned_lossBps <= room.aggregate_loss_remaining
    /\ costs.notional * BPS <= room.notional_remaining
    /\ (costs.notional + costs.entry_fee * PriceUnits) * BPS <= room.cash_room

\* candidate_quantities and floor_to_lot: each bound, rounded down to the lot.
candidate_quantities(room, ask, per_unit, fee) ==
    {(room.per_entry_loss_cap * StressDen) \div per_unit,
     (room.aggregate_loss_remaining * StressDen) \div per_unit,
     room.notional_remaining \div (ask * BPS),
     room.cash_room \div (ask * (BPS + fee))}

-----------------------------------------------------------------------------
(* plan_long_entry.                                                         *)

Refused(reason) == [reason |-> reason, quantity |-> 0, stop |-> 0, target |-> 0, planned_lossBps |-> 0]

\* _below_minimum: the reason, or "none".
below_minimum(quantity, ask, rules) ==
    IF quantity <= 0 \/ quantity < rules.ordermin THEN "below_order_minimum"
    ELSE IF quantity * ask < rules.costmin * PriceUnits THEN "below_cost_minimum"
    ELSE "none"

Passes == 0..MAX_DOWNWARD_PASSES

\* What the position records as its planned loss.
PlannedLoss(costs) == costs.planned_lossBps

\* The loop: one lot less per pass until the quantity fits or is too small.
Size(lot_quantity, c, stop, target, room, fee) ==
    LET Costs(p) == final_costs(lot_quantity - p, c.ask, stop, fee)
        Small(p) == below_minimum(lot_quantity - p, c.ask, c.rules)
        ends == {p \in Passes : Small(p) # "none" \/ fits(Costs(p), room)}
        last == Min(ends)
    IN  IF ends = {} THEN Refused("sizing_inconsistent")
        ELSE IF Small(last) # "none" THEN Refused(Small(last))
        ELSE [reason |-> "none", quantity |-> lot_quantity - last, stop |-> stop,
              target |-> target, planned_lossBps |-> PlannedLoss(Costs(last))]

\* A candidate's bid, ask or atr of 0 stands for a value that is not valid
\* (missing, not finite, not online, an ATR of another pair).
plan_long_entry(envelope, c, equity, cash, openLossBps, openNotional, fee) ==
    LET levels == exit_levels(c.ask, c.atr)
        stop == floor_to_step(levels.stop, c.rules.tick)
        target == floor_to_step(levels.target, c.rules.tick)
        room == budget(envelope, equity, cash, openLossBps, openNotional)
        per_unit == loss_per_unit(c.ask, stop, fee)
        lots == Min(candidate_quantities(room, c.ask, per_unit, fee))
    IN  IF c.quote # envelope.currency THEN Refused("quote_currency_mismatch")
        ELSE IF c.bid = 0 \/ c.ask < c.bid THEN Refused("invalid_quote")
        ELSE IF c.atr = 0 THEN Refused("no_valid_atr")
        ELSE IF c.rules = NoRules THEN Refused("missing_pair_rules")
        ELSE IF equity <= 0 THEN Refused("equity_unavailable")
        ELSE IF levels.stop <= 0 THEN Refused("invalid_levels")
        ELSE IF stop <= 0 \/ stop >= c.ask THEN Refused("stop_invalid_after_tick")
        ELSE IF target <= c.ask THEN Refused("invalid_levels")
        ELSE IF room.per_entry_loss_cap <= 0 \/ room.aggregate_loss_remaining <= 0
             THEN Refused("no_loss_budget")
        ELSE IF room.notional_remaining <= 0 THEN Refused("no_notional_room")
        ELSE IF room.cash_room <= 0 THEN Refused("insufficient_cash")
        ELSE Size(lots, c, stop, target, room, fee)

\* admission_refusal, for a LONG: the reason, or "none".
admission_refusal(engaged, activeLocks, openPositions) ==
    IF engaged THEN "kill_switch_engaged"
    ELSE IF "daily_loss" \in activeLocks THEN "daily_loss_lock"
    ELSE IF "drawdown" \in activeLocks THEN "drawdown_lock"
    ELSE IF openPositions >= EX1_MAX_POSITIONS THEN "position_already_open"
    ELSE "none"

-----------------------------------------------------------------------------
(* Marks, settlement and locks.                                             *)

entry_cost_basis(quantity, ask, fee) ==
    quantity * ask + cents(quantity * ask * fee, PriceUnits * BPS) * PriceUnits

unrealized_mark(quantity, bid, cost_basis, fee) ==
    quantity * bid - cents_up(quantity * bid * fee, PriceUnits * BPS) * PriceUnits - cost_basis

\* settle_long: the net, in cents; the gross and each fee are rounded alone.
settle_long(quantity, ask, bid, fee) ==
    cents(quantity * (bid - ask), PriceUnits)
      - cents(quantity * ask * fee, PriceUnits * BPS)
      - cents(quantity * bid * fee, PriceUnits * BPS)

daily_lock_tripped(envelope, equity, day_start) ==
    (equity - day_start) * BPS <= -(day_start * envelope.daily_loss_pct)

drawdown_lock_tripped(envelope, equity, high_water) ==
    equity * BPS <= high_water * (BPS - envelope.drawdown_pct)

tripped_locks(envelope, equity, day_start, high_water) ==
    {kind \in {"daily_loss", "drawdown"} :
        IF kind = "daily_loss" THEN daily_lock_tripped(envelope, equity, day_start)
        ELSE drawdown_lock_tripped(envelope, equity, high_water)}

next_high_water(high_water, equity) == Max({high_water, equity})
=============================================================================
