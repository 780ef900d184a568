------------------------------ MODULE MCPilot -------------------------------
(* TLC instance: 240 EUR and limits stricter than EX-1, so that one loss    *)
(* trips the daily lock and two trip the drawdown lock.                     *)
EXTENDS Pilot, TLC

Envelope(daily, drawdown) ==
    [currency |-> "EUR", equity |-> 24000, per_entry_loss_pct |-> 25, aggregate_loss_pct |-> 50,
     gross_notional_pct |-> 1000, cash_buffer_pct |-> 1000, daily_loss_pct |-> daily,
     drawdown_pct |-> drawdown, per_entry_abs_cap |-> 0]

MCEnvelope == {Envelope(20, 40)}
MCRules == [tick |-> 1, ordermin |-> 1, costmin |-> 50]
MCSymmetry == Permutations(Events)
=============================================================================
