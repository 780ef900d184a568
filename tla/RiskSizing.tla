----------------------------- MODULE RiskSizing -----------------------------
(* One entry of the pilot through domain/risk.py alone: a flat account      *)
(* sizes a candidate, the position is marked at the quotes that follow and  *)
(* sold at one of them.  The state machine only enumerates the inputs; the  *)
(* properties compare the sums with their definitions.                      *)
EXTENDS RiskEngine

CONSTANTS
    SizingEnvelopes, Candidates, Fees,
    Equities,               \* of the flat account, in cents
    ExitBids

VARIABLES envelope, candidate, fee, equity, plan, bid

sizingVars == <<envelope, candidate, fee, equity, plan, bid>>
Unplanned == Refused("unplanned")

SizingInit ==
    /\ envelope \in SizingEnvelopes /\ candidate \in Candidates /\ fee \in Fees
    /\ equity \in {e * PriceUnits : e \in Equities}
    /\ plan = Unplanned /\ bid = 0

\* _plan with the _sizing_inputs of a flat account: its cash is its equity.
PlanEntry ==
    /\ plan = Unplanned
    /\ plan' = plan_long_entry(envelope, candidate, equity, equity, 0, 0, fee)
    /\ UNCHANGED <<envelope, candidate, fee, equity, bid>>

\* A quote observed while the position is open.
Observe ==
    /\ plan.reason = "none"
    /\ bid' \in ExitBids
    /\ UNCHANGED <<envelope, candidate, fee, equity, plan>>

SizingNext == PlanEntry \/ Observe
SizingSpec == SizingInit /\ [][SizingNext]_sizingVars

-----------------------------------------------------------------------------
Opened == plan.reason = "none"
CostBasis == entry_cost_basis(plan.quantity, candidate.ask, fee)
Net == settle_long(plan.quantity, candidate.ask, bid, fee)

\* The EX-1 limits, read on their own: q lots bought at the ask and sold at the
\* stress exit, each fee the least whole cent that covers it, within the limits
\* and an allowance in cents.
Allowed(q, stop, allowance) ==
    LET Cover(n, d) == Min({k \in 0..(n \div d + 1) : k * d >= n})
        entry_fee == Cover(q * candidate.ask * fee, PriceUnits * BPS)
        exit_fee == Cover(q * stop * StressNum * fee, StressDen * PriceUnits * BPS)
        extra == allowance * PriceUnits * BPS
        loss == q * (StressDen * candidate.ask - StressNum * stop) * (BPS \div StressDen)
                + (entry_fee + exit_fee) * PriceUnits * BPS - extra
        spent == (q * candidate.ask + entry_fee * PriceUnits) * BPS - extra
    IN  /\ loss <= equity * envelope.per_entry_loss_pct
        /\ envelope.per_entry_abs_cap # 0 => loss <= envelope.per_entry_abs_cap * PriceUnits * BPS
        /\ loss <= equity * envelope.aggregate_loss_pct
        /\ q * candidate.ask * BPS - extra <= equity * envelope.gross_notional_pct
        /\ spent <= equity * (BPS - envelope.cash_buffer_pct)

\* plan_long_entry: the loop from the exact candidate downwards finds the
\* largest number of lots whose recomputed costs fit every limit: with the fees
\* rounded up, no quantity above the one it starts from fits either.
LargestThatFits ==
    Opened => /\ Allowed(plan.quantity, plan.stop, 0)
              /\ \A more \in 1..(MAX_DOWNWARD_PASSES + 2) : ~Allowed(plan.quantity + more, plan.stop, 0)

\* An entry is given up (sizing_inconsistent) only for what rounding the two
\* fees up costs: the exact amounts were within every limit, so the last
\* quantity tried is over a limit, and by less than two cents.
GivenUpForRounding ==
    plan.reason = "sizing_inconsistent" =>
      LET stop == floor_to_step(exit_levels(candidate.ask, candidate.atr).stop, candidate.rules.tick)
          room == budget(envelope, equity, equity, 0, 0)
          lots == Min(candidate_quantities(room, candidate.ask, loss_per_unit(candidate.ask, stop, fee), fee))
          last == lots - MAX_DOWNWARD_PASSES
      IN  ~Allowed(last, stop, 0) /\ Allowed(last, stop, 2)

\* final_costs and settle_long: a position sold at or above the stress exit
\* price loses at most its planned loss, up to the half cent that rounding the
\* gross move to a cent may cost.
LossWithinPlan ==
    Opened /\ bid # 0 /\ bid * StressDen >= plan.stop * StressNum /\ Net < 0 =>
        -2 * Net * PriceUnits * BPS <= 2 * plan.planned_lossBps + PriceUnits * BPS

\* unrealized_mark is conservative: selling at the quote the position is marked
\* at realises the mark or more, up to the same half cent.
MarkConservative ==
    Opened /\ bid # 0 =>
        2 * unrealized_mark(plan.quantity, bid, CostBasis, fee) <= (2 * Net + 1) * PriceUnits

\* The sizing of an entry (size_long, final_costs, settle_long): the largest
\* quantity that fits every limit once its fees are rounded, given up only when
\* rounding really leaves none, and what a sale realises is never worse than
\* what was planned or marked.
SizingInv == LargestThatFits /\ GivenUpForRounding /\ LossWithinPlan /\ MarkConservative
=============================================================================
