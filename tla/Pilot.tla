------------------------------- MODULE Pilot --------------------------------
(* The pilot shadow account: adapters/pilot_store.py as the heartbeat       *)
(* (_run_pilot_step), the monitor thread (PaperMonitor._watch) and the      *)
(* operator (scripts/pilot_control.py) use it, each on a connection of its  *)
(* own.  Every write is one BEGIN IMMEDIATE transaction and so one step;    *)
(* the heartbeat's clock reading, the search for exits and the monitor's    *)
(* request happen outside of it.  One pair carries everything: the account  *)
(* holds at most one position.                                              *)
EXTENDS RiskEngine, Sequences, Functions

CONSTANTS
    Envelopes,              \* that a configuration may offer
    Events, Bids, Spread, Atr, Rules, Fee,
    MonitorEnabled,         \* config: monitor_enabled()
    OperatorActs,           \* which of "review", "mark", "kill" are used
    DayLength, MaxTime, MaxPositions, MaxLocks      \* bounds

ASSUME PilotAssumption ==
    DayLength \in Nat \ {0} /\ {MaxTime, MaxPositions, MaxLocks, Spread, Atr} \subseteq Nat

\* What Envelope.__post_init__ accepts: percentages in basis points, a cap of 0
\* for None; "none" names no currency.
Accepted(e) ==
    /\ e.currency # "none" /\ e.equity \in Nat \ {0} /\ e.per_entry_abs_cap \in Nat
    /\ e.per_entry_loss_pct \in 1..25 /\ e.aggregate_loss_pct \in 1..50 /\ e.gross_notional_pct \in 1..1000
    /\ e.cash_buffer_pct \in 1000..(BPS - 1) /\ e.daily_loss_pct \in 1..100 /\ e.drawdown_pct \in 1..300

ASSUME EnvelopeAssumption == \A e \in Envelopes : Accepted(e)

\* Valid quotes and pair rules, and a fee that is a part of what is traded.
ASSUME QuoteAssumption ==
    /\ Bids \subseteq Nat \ {0} /\ Fee \in 0..BPS
    /\ Rules = NoRules \/ (Rules.tick \in Nat \ {0} /\ Rules.ordermin \in Nat /\ Rules.costmin \in Nat)

VARIABLES
    now,
    snapshots,              \* spot_snapshots: the bid recorded at a time, or 0
    account,                \* pilot_account: its envelope
    decided,                \* pilot_decisions: the event ids
    positions, closes,      \* pilot_positions, pilot_closes, in order
    day_start, high_water,  \* the latest pilot_equity_marks: of each day that has one, and of all
    locks,                  \* pilot_locks, in order, each with its review
    engaged,                \* the latest pilot_kill_switch row
    hb, mon,                \* the heartbeat's and the monitor's local state
    rebased                 \* by kind: the latest mark, when it is a review's

marksVars == <<day_start, high_water, locks, rebased>>
bookVars == <<account, decided, positions, closes, marksVars>>
pilotVars == <<now, snapshots, bookVars, engaged, hb, mon>>

NoAccount == [currency |-> "none"]
NoMark == -1
NoExit == [position |-> 0, exit_ts |-> 0, bid |-> 0, known |-> {}]
Kinds == {"daily_loss", "drawdown"}
Times == 0..MaxTime
utc_day(t) == t \div DayLength
Days == {utc_day(t) : t \in Times}
HeartbeatIdle == [pc |-> "idle", ts |-> 0, envelope |-> NoAccount, found |-> NoExit, settled |-> FALSE]
MonitorIdle == [pc |-> "idle", watched |-> {}, at |-> 0, bid |-> 0, now |-> 0, found |-> NoExit]

PilotInit ==
    /\ now = 0 /\ snapshots = [t \in Times |-> 0]
    /\ account = NoAccount /\ decided = {} /\ positions = <<>> /\ closes = <<>>
    /\ day_start = <<>> /\ high_water = NoMark
    /\ locks = <<>> /\ engaged = FALSE
    /\ hb = HeartbeatIdle /\ mon = MonitorIdle
    /\ rebased = [k \in Kinds |-> NoMark]

-----------------------------------------------------------------------------
(* Reading the books.                                                       *)

Closed(cls) == {cls[i].position : i \in DOMAIN cls}

\* read_open_positions
OpenPositions(pos, cls) == DOMAIN pos \ Closed(cls)

active_kinds == {locks[i].kind : i \in {j \in DOMAIN locks : ~locks[j].reviewed}}

\* The quotes observed up to a moment: recorded snapshots (rank 0) and the
\* extra quotes of the call (rank 1).
Observations(extras, from, moment) ==
    {o \in {[at |-> t, rank |-> 0, bid |-> snapshots[t]] : t \in {u \in Times : snapshots[u] # 0}} \cup extras :
        from <= o.at /\ o.at <= moment}

Earlier(o, p) == o.at < p.at \/ (o.at = p.at /\ o.rank <= p.rank)

\* _mark_quote: the latest quote from entry on, the entry quote when there is none.
MarkBid(p, extras, moment) ==
    LET seen == Observations(extras, p.entry_ts, moment)
    IN  IF seen = {} THEN p.ask - Spread ELSE (CHOOSE o \in seen : \A q \in seen : Earlier(q, o)).bid

\* Assigned equity and realized nets, in cents: the equity of a flat account.
Balance(cls) == account.equity + SumFunction([i \in DOMAIN cls |-> cls[i].net])

\* _account_state
Equity(pos, cls, extras, moment) ==
    LET Mark(p) == unrealized_mark(p.quantity, MarkBid(p, extras, moment), p.cost_basis, Fee)
    IN  Balance(cls) * PriceUnits + SumFunction([i \in OpenPositions(pos, cls) |-> Mark(pos[i])])

-----------------------------------------------------------------------------
(* _evaluate_locks, as part of the transaction that evaluates.              *)

NotActive(kind) == kind \notin active_kinds

Raised(equity) == next_high_water(high_water, equity)

Lock(kind, equity, moment) == [kind |-> kind, equity |-> equity, day |-> utc_day(moment), reviewed |-> FALSE]

Tripped(equity, reference, water) ==
    {kind \in tripped_locks(account, equity, reference, water) : NotActive(kind)}

\* The day's mark, after the marks of the other days.
MarkDay(day, equity) == [d \in DOMAIN day_start \cup {day} |-> IF d = day THEN equity ELSE day_start[d]]

EvaluateLocks(equity, moment) ==
    LET day == utc_day(moment)
        reference == IF day \in DOMAIN day_start THEN day_start[day] ELSE equity
        water == Raised(equity)
        tripped == Tripped(equity, reference, water)
    IN  /\ day_start' = MarkDay(day, reference)
        /\ high_water' = water
        /\ locks' = locks \o (IF "daily_loss" \in tripped THEN <<Lock("daily_loss", equity, moment)>> ELSE <<>>)
                          \o (IF "drawdown" \in tripped THEN <<Lock("drawdown", equity, moment)>> ELSE <<>>)
        /\ rebased' = [k \in Kinds |->
                         IF (k = "daily_loss" /\ day \notin DOMAIN day_start) \/ (k = "drawdown" /\ water # high_water)
                         THEN NoMark ELSE rebased[k]]

\* ensure_account: the first envelope offered is the account's for good.
EnsureAccount(envelope) ==
    IF account = NoAccount
    THEN account' = envelope /\ high_water' = envelope.equity * PriceUnits
    ELSE UNCHANGED <<account, high_water>>

-----------------------------------------------------------------------------
(* close_positions: _find_exit outside the transaction, the writes in it.   *)

FirstOf(touching) == CHOOSE o \in touching : \A q \in touching : Earlier(o, q)

\* _find_exit.  "known" is what was on record then (for the properties only).
FindExit(i, extras, moment) ==
    LET p == positions[i]
        touching == {o \in Observations(extras, p.entry_ts + 1, moment) : exit_decision(p, o.at, o.bid) # "none"}
        first == FirstOf(touching)
    IN  IF touching = {} THEN NoExit
        ELSE [position |-> i, exit_ts |-> first.at, bid |-> first.bid,
              known |-> {t \in Times : snapshots[t] # 0}]

\* The one open position among those wanted, if any.
FindExits(wanted, extras, moment) ==
    LET open == OpenPositions(positions, closes) \cap wanted
    IN  IF open = {} THEN NoExit ELSE FindExit(CHOOSE i \in open : TRUE, extras, moment)

\* Mutant: a position another writer closed meanwhile is closed again.
StillOpen_Unchecked(found) == found # NoExit

\* _write_close: nothing is written for a position that has a close.
StillOpen(found) == found # NoExit /\ found.position \notin Closed(closes)

Settled(found) ==
    LET p == positions[found.position]
    IN  [position |-> found.position, exit_ts |-> found.exit_ts, bid |-> found.bid, known |-> found.known,
         net |-> settle_long(p.quantity, p.ask, found.bid, Fee)]

\* The transaction: the close, then the locks (LockTrigger.SETTLE).
ClosePositions(found, extras, moment) ==
    /\ closes' = IF StillOpen(found) THEN Append(closes, Settled(found)) ELSE closes
    /\ EvaluateLocks(Equity(positions, closes', extras, moment), moment)
    /\ UNCHANGED <<account, decided, positions>>

-----------------------------------------------------------------------------
(* The heartbeat.  Its clock reading ts stamps the snapshots it records and *)
(* is the "now" of every pilot call of the cycle.                           *)

HeartbeatStart ==
    /\ hb.pc = "idle"
    /\ \E envelope \in Envelopes : hb' = [HeartbeatIdle EXCEPT !.pc = "record", !.ts = now, !.envelope = envelope]
    /\ UNCHANGED <<now, snapshots, bookVars, engaged, mon>>

\* The pair's quote, or none that is valid this cycle.  The snapshots of one
\* clock reading agree.
RecordSnapshot ==
    /\ hb.pc = "record"
    /\ \/ snapshots[hb.ts] = 0 /\ \E bid \in Bids : snapshots' = [snapshots EXCEPT ![hb.ts] = bid]
       \/ UNCHANGED snapshots
    /\ hb' = [hb EXCEPT !.pc = "settle"]
    /\ UNCHANGED <<now, bookVars, engaged, mon>>

SettleFind ==
    /\ hb.pc = "settle"
    /\ EnsureAccount(hb.envelope)
    /\ hb' = [hb EXCEPT !.pc = "write", !.found = FindExits(DOMAIN positions, {}, hb.ts)]
    /\ UNCHANGED <<now, snapshots, decided, positions, closes, day_start, locks, rebased, engaged, mon>>

SettleWrite ==
    /\ hb.pc = "write" /\ Len(locks) + 2 <= MaxLocks
    /\ ClosePositions(hb.found, {}, hb.ts)
    /\ hb' = [hb EXCEPT !.pc = "open", !.found = NoExit, !.settled = TRUE]
    /\ UNCHANGED <<now, snapshots, engaged, mon>>

\* A settle that fails (a busy database) is logged and the cycle goes on.
SettleFails ==
    /\ hb.pc \in {"settle", "write"}
    /\ hb' = [hb EXCEPT !.pc = "open", !.found = NoExit]
    /\ UNCHANGED <<now, snapshots, bookVars, engaged, mon>>

Candidate(bid) ==
    [quote |-> hb.envelope.currency, bid |-> bid, ask |-> bid + Spread, atr |-> Atr, rules |-> Rules]

\* The plan of the candidate, or why it is refused.
Plan(direction, equity, kinds) ==
    LET open == OpenPositions(positions, closes)
        refusal == admission_refusal(engaged, kinds, Cardinality(open))
    IN  IF direction # "LONG" THEN Refused("unsupported_direction")
        ELSE IF hb.envelope # account THEN Refused("envelope_changed")
        ELSE IF refusal # "none" THEN Refused(refusal)
        ELSE plan_long_entry(account, Candidate(snapshots[hb.ts]), equity, Balance(closes) * PriceUnits, 0, 0, Fee)

\* Mutant: the locks are read before they are evaluated.
KindsAfter_Before == active_kinds

KindsAfter == {locks'[i].kind : i \in {j \in DOMAIN locks' : ~locks'[j].reviewed}}

Position(event, plan) ==
    LET ask == snapshots[hb.ts] + Spread
    IN  [event |-> event, entry_ts |-> hb.ts, ask |-> ask, quantity |-> plan.quantity, stop |-> plan.stop,
         target |-> plan.target, due_at |-> hb.ts + HoldLength,
         cost_basis |-> entry_cost_basis(plan.quantity, ask, Fee)]

\* open_candidates, offered one event at a time: the locks first
\* (LockTrigger.ENTRY), then the decision and, when it opens, the position.
open_candidates(event, direction) ==
    /\ hb.pc = "open" /\ account # NoAccount /\ Len(locks) + 2 <= MaxLocks
    /\ LET equity == Equity(positions, closes, {}, hb.ts)
       IN  /\ EvaluateLocks(equity, hb.ts)
           /\ LET plan == Plan(direction, equity, KindsAfter)
              IN  IF event \in decided \/ plan.reason # "none" THEN UNCHANGED positions
                  ELSE /\ Len(positions) < MaxPositions
                       /\ positions' = Append(positions, Position(event, plan))
    /\ decided' = decided \cup {event}
    /\ UNCHANGED <<now, snapshots, account, closes, engaged, hb, mon>>

\* The account may have to be recorded first (a failed settle).
OpenPrepares ==
    /\ hb.pc = "open" /\ account = NoAccount
    /\ EnsureAccount(hb.envelope)
    /\ UNCHANGED <<now, snapshots, decided, positions, closes, day_start, locks, rebased, engaged, hb, mon>>

EndCycle ==
    /\ hb.pc = "open"
    /\ hb' = HeartbeatIdle
    /\ UNCHANGED <<now, snapshots, bookVars, engaged, mon>>

-----------------------------------------------------------------------------
(* The monitor thread.                                                      *)

\* _pilot_watched
Watch ==
    /\ MonitorEnabled /\ mon.pc = "idle" /\ account # NoAccount /\ OpenPositions(positions, closes) # {}
    /\ mon' = [MonitorIdle EXCEPT !.pc = "request", !.watched = OpenPositions(positions, closes)]
    /\ UNCHANGED <<now, snapshots, bookVars, engaged, hb>>

\* The Ticker answer, stamped at its receipt.
Quoted ==
    /\ mon.pc = "request"
    /\ \E bid \in Bids : mon' = [mon EXCEPT !.pc = "find", !.at = now, !.bid = bid]
    /\ UNCHANGED <<now, snapshots, bookVars, engaged, hb>>

Extras == {[at |-> mon.at, rank |-> 1, bid |-> mon.bid]}

MonitorFind ==
    /\ mon.pc = "find"
    /\ mon' = [mon EXCEPT !.pc = "write", !.now = now, !.found = FindExits(mon.watched, Extras, now)]
    /\ UNCHANGED <<now, snapshots, bookVars, engaged, hb>>

\* _close_pilot
MonitorWrite ==
    /\ mon.pc = "write" /\ Len(locks) + 2 <= MaxLocks
    /\ ClosePositions(mon.found, Extras, mon.now)
    /\ mon' = MonitorIdle
    /\ UNCHANGED <<now, snapshots, engaged, hb>>

\* A request or a database call that fails ends the tick.
TickFails ==
    /\ mon.pc # "idle"
    /\ mon' = MonitorIdle
    /\ UNCHANGED <<now, snapshots, bookVars, engaged, hb>>

-----------------------------------------------------------------------------
(* The operator, the clock, a restart of the radar.                         *)

review_lock(i) ==
    LET equity == Equity(positions, closes, {}, now)
        lock == locks[i]
    IN  /\ "review" \in OperatorActs /\ ~lock.reviewed
        /\ locks' = [locks EXCEPT ![i].reviewed = TRUE]
        /\ rebased' = [rebased EXCEPT ![lock.kind] = equity]
        /\ IF lock.kind = "drawdown"
           THEN high_water' = equity /\ UNCHANGED day_start
           ELSE day_start' = MarkDay(utc_day(now), equity) /\ UNCHANGED high_water
        /\ UNCHANGED <<now, snapshots, account, decided, positions, closes, engaged, hb, mon>>

\* pilot_shadow.evaluate_locks (LockTrigger.MARK)
evaluate_locks ==
    /\ "mark" \in OperatorActs /\ account # NoAccount /\ Len(locks) + 2 <= MaxLocks
    /\ EvaluateLocks(Equity(positions, closes, {}, now), now)
    /\ UNCHANGED <<now, snapshots, account, decided, positions, closes, engaged, hb, mon>>

engage_kill_switch ==
    /\ "kill" \in OperatorActs /\ engaged' = TRUE
    /\ UNCHANGED <<now, snapshots, bookVars, hb, mon>>

release_kill_switch ==
    /\ "kill" \in OperatorActs /\ engaged' = FALSE
    /\ UNCHANGED <<now, snapshots, bookVars, hb, mon>>

Clock ==
    /\ now < MaxTime /\ now' = now + 1
    /\ UNCHANGED <<snapshots, bookVars, engaged, hb, mon>>

Restart ==
    /\ hb' = HeartbeatIdle /\ mon' = MonitorIdle
    /\ UNCHANGED <<now, snapshots, bookVars, engaged>>

HeartbeatStep ==
    \/ HeartbeatStart \/ RecordSnapshot \/ SettleFind \/ SettleWrite \/ SettleFails
    \/ OpenPrepares \/ EndCycle
    \/ \E event \in Events, direction \in {"LONG", "SHORT"} : open_candidates(event, direction)

MonitorStep == Watch \/ Quoted \/ MonitorFind \/ MonitorWrite \/ TickFails

OperatorStep ==
    \/ \E i \in DOMAIN locks : review_lock(i)
    \/ evaluate_locks \/ engage_kill_switch \/ release_kill_switch

PilotNext == HeartbeatStep \/ MonitorStep \/ OperatorStep \/ Clock \/ Restart

PilotSpec == PilotInit /\ [][PilotNext]_pilotVars

-----------------------------------------------------------------------------
(* Properties.                                                              *)

\* The books have their types, and a mark exists with the account.
PilotTypeOK ==
    /\ now \in Times /\ snapshots \in [Times -> Bids \cup {0}]
    /\ account \in Envelopes \cup {NoAccount} /\ decided \subseteq Events
    /\ {positions[i].event : i \in DOMAIN positions} \subseteq decided
    /\ Closed(closes) \subseteq DOMAIN positions
    /\ DOMAIN day_start \subseteq Days /\ (\A d \in DOMAIN day_start : day_start[d] \in Int) /\ high_water \in Int
    /\ account = NoAccount => high_water = NoMark /\ positions = <<>> /\ locks = <<>>
    /\ Len(positions) <= MaxPositions /\ Len(locks) <= MaxLocks

\* close_positions: the heartbeat and the monitor may find an exit of the same
\* position at once; it is closed, and its net counted, once.  And F5: at most
\* one position is open.
ClosedOnce ==
    /\ \A i, j \in DOMAIN closes : closes[i].position = closes[j].position => i = j
    /\ Cardinality(OpenPositions(positions, closes)) <= EX1_MAX_POSITIONS

\* _evaluate_locks: whoever evaluates, a kind has at most one lock that waits
\* for its review.
OneActivePerKind ==
    \A i, j \in DOMAIN locks :
        locks[i].kind = locks[j].kind /\ ~locks[i].reviewed /\ ~locks[j].reviewed => i = j

\* open_candidates evaluates the locks before it reads them: a position is only
\* opened by an account whose balance is above both limits, with no lock
\* waiting for its review and the kill switch released, whatever was closed,
\* marked or reviewed while the cycle ran.
EntryWithinLimits ==
    [][positions' # positions =>
         LET day == utc_day(hb.ts)
             balance == Balance(closes) * PriceUnits
         IN  /\ ~engaged /\ \A i \in DOMAIN locks' : locks'[i].reviewed
             /\ balance * BPS > high_water' * (BPS - account.drawdown_pct)
             /\ (day_start'[day] - balance) * BPS < day_start'[day] * account.daily_loss_pct]_pilotVars

\* The references move one way: the high-water mark falls and a day's reference
\* changes only in a review.
ReferencesHold ==
    [][(\A i \in DOMAIN locks : locks'[i] = locks[i]) =>
         /\ high_water' >= high_water
         /\ \A d \in DOMAIN day_start : d \in DOMAIN day_start' /\ day_start'[d] = day_start[d]]_pilotVars

\* A close sold below the stress exit price of its position: a gap.
Gap(c) == c.bid * StressDen < positions[c.position].stop * StressNum

\* The locks and the sizing together: without a gap and without a review, the
\* balance never falls further below the drawdown limit of the assigned equity
\* than one planned loss (a cent covers the roundings).
DrawdownBounded ==
    account # NoAccount /\ (\A i \in DOMAIN locks : ~locks[i].reviewed) /\ (\A i \in DOMAIN closes : ~Gap(closes[i]))
      => LET limit == (account.equity * (BPS - account.drawdown_pct)) \div BPS
         IN  Balance(closes) >= (limit * (BPS - account.per_entry_loss_pct)) \div BPS - 1

\* close_positions: "the earliest touching observation wins": no snapshot that
\* was on record when the exit was found touched before it.
EarliestTouch ==
    \A i \in DOMAIN closes :
        LET c == closes[i]
            p == positions[c.position]
        IN  \A t \in c.known \cap (p.entry_ts + 1)..(c.exit_ts - 1) :
                exit_decision(p, t, snapshots[t]) = "none"

\* close_positions runs "with the kill switch engaged and locks active": once a
\* cycle's settle has committed, no position is open that a quote on record up to
\* the cycle's time stopped out, took to its target or found at its time limit.
NothingDueLeft ==
    hb.pc = "open" /\ hb.settled =>
      \A i \in OpenPositions(positions, closes) :
        LET p == positions[i]
        IN  \A t \in (p.entry_ts + 1)..hb.ts :
              snapshots[t] # 0 => p.stop < snapshots[t] /\ snapshots[t] < p.target /\ t < p.due_at

\* What every transaction keeps of the books (close_positions,
\* _evaluate_locks, open_candidates): one close per position, where it first
\* had to be left, whoever settles; one active lock per kind; and without a
\* gap or a review a balance at most one planned loss below the drawdown limit.
PilotInv ==
    PilotTypeOK /\ ClosedOnce /\ OneActivePerKind /\ EarliestTouch /\ NothingDueLeft /\ DrawdownBounded

\* What no step may do (open_candidates, review_lock): enter past a limit, or
\* move a reference outside a review.
PilotSteps == EntryWithinLimits /\ ReferencesHold

\* review_lock: "so the same loss does not trip the lock again at once": while
\* the review's mark is the latest, its own equity trips no lock of its kind.
ReviewSticks ==
    [][Len(locks') > Len(locks) =>
         \A i \in (Len(locks) + 1)..Len(locks') : rebased[locks'[i].kind] # locks'[i].equity]_pilotVars
=============================================================================
