-------------------------------- MODULE Costs --------------------------------
(* What a round trip costs: the exact two-leg scenarios of domain/costs.py,  *)
(* their fee-only lower bound, and the previews tradeability.py builds from  *)
(* an order book.  The code computes in exact decimals and traps a result    *)
(* that would be rounded; here an amount is counted in 1/One of the          *)
(* reference notional, chosen so that every product below is whole.  A value *)
(* of the code that may be Missing is a record with the field known.         *)
EXTENDS Integers, FiniteSetsExt

CONSTANTS
    CostBps,            \* basis points in one; 10,000 in the code
    Spreads, Slips, FeeRates, Fundings,     \* sets of bps, of a whole round trip's inputs
    MaxIntervals,
    PRESENTED       \* the step of a presented figure, in 1/One

ASSUME CostsAssumption == CostBps \in Nat \ {0} /\ PRESENTED \in Nat \ {0} /\ MaxIntervals \in Nat

VARIABLE quote       \* the last question and its answer
costVars == <<quote>>

Sides == {"long", "short"}
Legs == {"entry", "exit"}
Directions == {"buy", "sell"}
leg_direction(side, leg) == IF (side = "long") = (leg = "entry") THEN "buy" ELSE "sell"

One == 2 * CostBps * CostBps * CostBps
Fraction(bps) == bps * 2 * CostBps * CostBps
Times(a, b) == (a * b) \div One

Unpriced == [known |-> FALSE, value |-> 0]
Known(v) == [known |-> TRUE, value |-> v]
(* A slippage also says what it was measured from (or that it was measured   *)
(* at another size) and whether the book covered the size.                   *)
Slip(v, basis, covered) == [known |-> TRUE, value |-> v, basis |-> basis, covered |-> covered]
NoSlip == [known |-> FALSE, value |-> 0, basis |-> "touch", covered |-> FALSE]

-----------------------------------------------------------------------------
Signed(direction, v) == IF direction = "buy" THEN v ELSE -v

(* Mutant: the slippage is taken from the mid in either convention.          *)
fill_SlippageOnMid(direction, convention, half, slip) ==
    LET touch == One + Signed(direction, half)
    IN IF convention = "mid" THEN [notional |-> One + Signed(direction, slip), spread |-> 0, slippage |-> slip]
       ELSE [notional |-> Times(touch, One + Signed(direction, slip)), spread |-> half, slippage |-> slip]

(* The fill of one leg, and its cost from the mid to the touch and beyond.   *)
fill(direction, convention, half, slip) ==
    LET touch == One + Signed(direction, half)
    IN IF convention = "mid" THEN [notional |-> One + Signed(direction, slip), spread |-> 0, slippage |-> slip]
       ELSE [notional |-> Times(touch, One + Signed(direction, slip)), spread |-> half, slippage |-> Times(touch, slip)]

slippage_of(t, leg) == IF leg_direction(t.side, leg) = "buy" THEN t.buy ELSE t.sell
fee_of(t, leg) == IF leg = "entry" THEN t.entry_fee ELSE t.exit_fee

(* Input the code refuses: a spread next to slippage that contains it, a     *)
(* slippage of the other convention or another size, funding on spot.        *)
Malformed(t) ==
    \/ t.convention = "mid" /\ t.spread.known
    \/ \E s \in {t.buy, t.sell} : s.known /\ s.basis # t.convention
    \/ t.kind = "spot" /\ t.funding.known

spread_missing(t) == t.convention = "touch" /\ ~t.spread.known
filled(t, leg) == slippage_of(t, leg).known /\ slippage_of(t, leg).covered /\ ~spread_missing(t)
leg_fill(t, leg) == fill(leg_direction(t.side, leg), t.convention, t.spread.value \div 2, slippage_of(t, leg).value)
fee_fraction(t, leg) == Times(fee_of(t, leg).value, leg_fill(t, leg).notional)
no_funding(t) == t.kind = "spot" \/ t.intervals = 0
funding_fraction(t) ==
    IF no_funding(t) THEN 0 ELSE (IF t.side = "long" THEN 1 ELSE -1) * t.funding.value * t.intervals

(* The components nobody knows, by leg.                                      *)
missing(t) ==
    {<<"spread", leg>> : leg \in IF spread_missing(t) THEN Legs ELSE {}}
    \cup {<<"slippage", leg>> : leg \in {l \in Legs : ~(slippage_of(t, l).known /\ slippage_of(t, l).covered)}}
    \cup {<<"fee", leg>> : leg \in {l \in Legs : ~fee_of(t, l).known}}
    \cup (IF ~no_funding(t) /\ ~t.funding.known THEN {<<"funding", "none">>} ELSE {})
    \cup (IF t.report = "other" /\ t.quoted /\ ~t.fx.known THEN {<<"fx", "none">>} ELSE {})

(* The known lines: a leg whose fill is not known has none, its fee          *)
(* included.                                                                 *)
lines(t) ==
    UNION {{[component |-> "spread", leg |-> l, fraction |-> leg_fill(t, l).spread],
            [component |-> "slippage", leg |-> l, fraction |-> leg_fill(t, l).slippage]} : l \in {k \in Legs : filled(t, k)}}
    \cup {[component |-> "fee", leg |-> l, fraction |-> fee_fraction(t, l)] : l \in {k \in Legs : filled(t, k) /\ fee_of(t, k).known}}
    \cup (IF ~no_funding(t) /\ t.funding.known
          THEN {[component |-> "funding", leg |-> "none", fraction |-> funding_fraction(t)]} ELSE {})

(* The cash of each leg at an unchanged mid: a buy pays its fill, a sell     *)
(* receives it, and fees and funding are paid.                               *)
cashflow(t) ==
    LET trade(leg) == -Signed(leg_direction(t.side, leg), leg_fill(t, leg).notional)
    IN trade("entry") + trade("exit") - fee_fraction(t, "entry") - fee_fraction(t, "exit") - funding_fraction(t)

CostRefused == [status |-> "refused", total |-> Unpriced, lines |-> {}, missing |-> {}, net |-> Unpriced, report |-> Unpriced]

price_round_trip(t) ==
    IF Malformed(t) THEN CostRefused
    ELSE LET gone == missing(t)
             all == lines(t)
             total == MapThenSumSet(LAMBDA line : line.fraction, all)
         IN IF gone # {}
            THEN [CostRefused EXCEPT !.status = "incomplete", !.lines = all, !.missing = gone]
            ELSE [status |-> "complete", total |-> Known(total), lines |-> all, missing |-> {},
                  net |-> IF t.quoted THEN Known(cashflow(t)) ELSE Unpriced,
                  report |-> IF t.quoted /\ t.report # "none"
                             THEN Known(total * (IF t.report = "other" THEN t.fx.value ELSE 1)) ELSE Unpriced]

(* The least a trip can cost whose spread and slippage were not observed:    *)
(* its fees, on the reference notional.                                      *)
round_trip_cost_lower_bound(t) ==
    IF t.spread.known \/ t.buy.known \/ t.sell.known
        \/ \E leg \in Legs : ~fee_of(t, leg).known \/ fee_of(t, leg).value < 0
        \/ ~no_funding(t) \/ (t.kind = "spot" /\ t.funding.known)
    THEN Unpriced
    ELSE Known(t.entry_fee.value + t.exit_fee.value)

-----------------------------------------------------------------------------
(* The preview of a venue.  A slippage below zero by no more than the noise  *)
(* of the walk is zero; more than that is not usable.  The direction is not  *)
(* known yet: the worse side is shown, rounded towards more cost.            *)
usable_slip(d, name) ==
    IF ~d.known \/ ~d[name].known \/ d[name].value < -1 THEN NoSlip
    ELSE Slip(Max({0, d[name].value}), "touch", d.covered)

venue_scenario(side, kind, d, fee) ==
    [side |-> side, kind |-> kind, convention |-> "touch", spread |-> IF d.known THEN Known(d.spread) ELSE Unpriced,
     buy |-> usable_slip(d, "buy"), sell |-> usable_slip(d, "sell"),
     entry_fee |-> fee, exit_fee |-> fee, intervals |-> 0, funding |-> Unpriced,
     quoted |-> FALSE, report |-> "none", fx |-> Unpriced]

present(v) == -((-v) \div PRESENTED) * PRESENTED

slippage_of_trip(p) ==
    MapThenSumSet(LAMBDA line : line.fraction, {line \in p.lines : line.component = "slippage"})

venue_preview(kind, d, fee) ==
    LET both == {price_round_trip(venue_scenario(side, kind, d, fee)) : side \in Sides}
        complete == \A p \in both : p.total.known
    IN [cost_status |-> IF complete THEN "complete" ELSE "incomplete",
        total |-> IF complete THEN Known(present(Max({p.total.value : p \in both}))) ELSE Unpriced,
        slippage |-> IF complete THEN Known(present(Max({slippage_of_trip(p) : p \in both}))) ELSE Unpriced,
        missing |-> UNION {p.missing : p \in both}]

build_cost_preview(futures_available, spot_depth, futures_depth, spot_fee, futures_fee) ==
    [spot |-> venue_preview("spot", spot_depth, spot_fee),
     futures |-> IF futures_available THEN {venue_preview("futures", futures_depth, futures_fee)} ELSE {}]

-----------------------------------------------------------------------------
SlippageInputs(basis) == {NoSlip} \cup {Slip(Fraction(b), basis, covered) : b \in Slips, covered \in BOOLEAN}
FeeInputs == {Unpriced} \cup {Known(Fraction(b)) : b \in FeeRates}
Crossed == {[intervals |-> 0, funding |-> Unpriced], [intervals |-> MaxIntervals, funding |-> Unpriced]}
           \cup {[intervals |-> MaxIntervals, funding |-> Known(Fraction(b))] : b \in Fundings}
Money == {[quoted |-> FALSE, report |-> "none", fx |-> Unpriced], [quoted |-> TRUE, report |-> "same", fx |-> Unpriced],
          [quoted |-> TRUE, report |-> "other", fx |-> Known(2)], [quoted |-> TRUE, report |-> "other", fx |-> Unpriced]}
Depths == {[known |-> FALSE, spread |-> 0, buy |-> Unpriced, sell |-> Unpriced, covered |-> FALSE]}
          \cup {[known |-> TRUE, spread |-> Fraction(s), buy |-> b, sell |-> c, covered |-> v] :
              s \in Spreads, b, c \in {Unpriced, Known(-1), Known(-2)} \cup {Known(Fraction(k)) : k \in Slips}, v \in BOOLEAN}

Unasked == [about |-> "nothing"]
CostsInit == quote = Unasked

Price ==
    /\ quote = Unasked
    /\ \E side \in Sides, kind \in {"spot", "futures"}, convention \in {"touch", "mid"},
          spread \in {Unpriced} \cup {Known(Fraction(b)) : b \in Spreads}, basis \in {"touch", "mid", "elsewhere"},
          entry_fee, exit_fee \in FeeInputs, crossed \in Crossed, money \in Money :
        \E buy, sell \in SlippageInputs(basis) :
          LET t == [side |-> side, kind |-> kind, convention |-> convention, spread |-> spread, buy |-> buy,
                    sell |-> sell, entry_fee |-> entry_fee, exit_fee |-> exit_fee,
                    intervals |-> crossed.intervals, funding |-> crossed.funding,
                    quoted |-> money.quoted, report |-> money.report, fx |-> money.fx]
          IN /\ kind = "spot" => money.quoted
             /\ quote' = [about |-> "trip", trip |-> t, priced |-> price_round_trip(t)]

Preview ==
    /\ quote = Unasked
    /\ \E d, e \in Depths, futures \in BOOLEAN, fee \in FeeInputs :
         /\ futures \/ e = d
         /\ quote' = [about |-> "preview", spot |-> d, fee |-> fee,
                      shown |-> build_cost_preview(futures, d, e, fee, fee)]

CostsNext == Price \/ Preview
CostsSpec == CostsInit /\ [][CostsNext]_costVars

-----------------------------------------------------------------------------
Unobserved(t) == [t EXCEPT !.spread = Unpriced, !.buy = NoSlip, !.sell = NoSlip]
(* The same fills, each measured from the mid.                               *)
FromMid(t) ==
    LET slip(direction, s) == Slip(Signed(direction, fill(direction, "touch", t.spread.value \div 2, s.value).notional - One),
                                   "mid", s.covered)
    IN [t EXCEPT !.convention = "mid", !.spread = Unpriced, !.buy = slip("buy", @), !.sell = slip("sell", @)]

(* A complete cost is the cash the trip loses, to the last unit; it is never *)
(* below the fee bound of a trip whose book was not seen, whatever that book *)
(* would have shown; and the two spread conventions price the same fills the *)
(* same, so the spread is counted once.                                      *)
TripTrue ==
    (quote.about = "trip" /\ quote.priced.status = "complete") =>
        LET total == quote.priced.total.value
            least == round_trip_cost_lower_bound(Unobserved(quote.trip))
        IN /\ quote.priced.net.known => quote.priced.net.value = -total
           /\ least.known => least.value <= total
           /\ quote.trip.convention = "touch" => price_round_trip(FromMid(quote.trip)).total.value = total

(* A preview shows a total only when both sides of the venue are known, and  *)
(* then not less than either costs and by less than one step too much.       *)
PreviewTrue ==
    quote.about = "preview" =>
        LET sides == {price_round_trip(venue_scenario(side, "spot", quote.spot, quote.fee)) : side \in Sides}
            shown == quote.shown.spot.total
        IN /\ shown.known <=> \A p \in sides : p.status = "complete"
           /\ shown.known => /\ \A p \in sides : p.total.value <= shown.value
                             /\ \E p \in sides : shown.value < p.total.value + PRESENTED

(* The costs of a round trip (price_round_trip, build_cost_preview): a       *)
(* complete cost is the cash the trip loses, the spread counted once in      *)
(* either convention, never below the bound given before the book was seen,  *)
(* and a preview never shows less than a side costs.                         *)
CostsInv == TripTrue /\ PreviewTrue
=============================================================================
