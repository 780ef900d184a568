---------------------------- MODULE EventBridge ----------------------------
(***************************************************************************)
(* The event queue and the bridge that drains it (events.py, cooldown.py,  *)
(* claude_bridge.py, notifications.py, ntfy.py, mock_alert.py, the events  *)
(* half of store.py and the loop of cli.py): each radar process may insert *)
(* an event, then recovers what a dead process left, takes the actionable  *)
(* events one by one through the model call, and pushes to the phone.      *)
(*                                                                         *)
(* Time is kept as ages and remainders, so no bound on it is needed.  Only *)
(* waits take time: the model call and the sleep between two cycles.  The  *)
(* statements between taking an event and its lease, and between the       *)
(* lease's release and the event's status, are local and fall in one tick. *)
(* Of the invocation ledger (module InvocationLedger) only the lease of    *)
(* the event's own invocation is kept; its budget may refuse at any time.  *)
(***************************************************************************)
EXTENDS Integers, Sequences, SequencesExt, FiniteSets, FiniteSetsExt

CONSTANTS
    Processes,          \* radar processes
    EventIds,           \* events in order of their ts: 1..n
    EventKey,           \* dedup key: asset, setup, direction, model
    StaleAfter,         \* CLAUDE_BRIDGE_PROCESSING_STALE_SECONDS, also the lease's length
    Backoff,            \* CLAUDE_BRIDGE_RETRY_BACKOFF_SECONDS
    MaxAttempts,        \* CLAUDE_BRIDGE_MAX_ATTEMPTS_BEFORE_FAILED
    MaxRowsPerCycle,    \* CLAUDE_BRIDGE_MAX_EVENTS_PER_CYCLE
    CooldownLength,     \* COOLDOWN_HOURS
    MaxPushes,          \* NTFY_MAX_RETRY_ATTEMPTS
    MaxDeaths           \* bound on crashes and outages

ASSUME BridgeAssumption ==
    /\ {StaleAfter, MaxAttempts, MaxRowsPerCycle, MaxPushes} \subseteq Nat \ {0}
    /\ {Backoff, CooldownLength, MaxDeaths} \subseteq Nat

VARIABLES
    radars,             \* the processes the user started
    ev,                 \* the events table
    lease,              \* the lease of each event's invocation
    good,               \* successful rows of model_analyses, by event
    pushed,             \* history: pushes that reached the phone
    hot,                \* model_cooldowns: what is left, by key
    proc,               \* each process: its place, the rows it listed, its cycle's age
    deaths              \* bound

bridgeVars == <<radars, ev, lease, good, pushed, hot, proc, deaths>>

NoLease == [by |-> "nobody", left |-> 0]
Unborn == [status |-> "none", att |-> 0, age |-> 0, back |-> 0, notified |-> FALSE,
            ntfy |-> "none", natt |-> 0, mock |-> FALSE]
Asleep == [pc |-> "sleep", rows |-> <<>>, lag |-> 0, new |-> 0, fenced |-> {}, res |-> "none", via |-> "bridge"]

InOrder(S) == SetToSortSeq(S, LAMBDA a, b : a < b)
Current(p) == Head(proc[p].rows)
Goto(p, pc) == proc' = [proc EXCEPT ![p].pc = pc]
NextRow(p, pc) == proc' = [proc EXCEPT ![p].pc = pc, ![p].rows = Tail(@), ![p].res = "none"]
Capped(n, limit) == IF n > limit THEN limit ELSE n
Less(n, k) == IF n < k THEN 0 ELSE n - k

BridgeInit ==
    /\ radars \in SUBSET Processes \ {{}}
    /\ ev = [e \in EventIds |-> Unborn] /\ lease = [e \in EventIds |-> NoLease]
    /\ good = [e \in EventIds |-> 0] /\ pushed = [e \in EventIds |-> 0]
    /\ hot = [k \in {EventKey[e] : e \in EventIds} |-> 0]
    /\ proc = [p \in Processes |-> Asleep] /\ deaths = 0

-----------------------------------------------------------------------------
(* The queue.                                                               *)
OpenStatus == {"PENDING", "PROCESSING", "DEFERRED"}
find_open_event_by_dedup(k) == {e \in EventIds : EventKey[e] = k /\ ev[e].status \in OpenStatus}
check_cooldown(k, jump) == hot[k] = 0 \/ jump

Uncreated == {e \in EventIds : ev[e].status = "none" /\ \A p \in Processes : proc[p].new # e}

(* One alert of the cycle: the cooldown, then the search for an open event, *)
(* then, in another transaction, the insert.  jump: the opportunity rose,   *)
(* or the setup or the direction changed.                                   *)
create_event_Searches(p, jump) ==
    LET e == Min(Uncreated) k == EventKey[e]
    IN  /\ proc[p].pc = "cycle" /\ Uncreated # {}
        /\ proc' = [proc EXCEPT ![p] =
                IF check_cooldown(k, jump) /\ find_open_event_by_dedup(k) = {}
                THEN [@ EXCEPT !.pc = "insert", !.new = e] ELSE [@ EXCEPT !.pc = "recover"]]
        /\ UNCHANGED <<radars, ev, lease, good, pushed, hot, deaths>>

create_event_Inserts(p) ==
    /\ proc[p].pc = "insert"
    /\ ev' = [ev EXCEPT ![proc[p].new] = [Unborn EXCEPT !.status = "PENDING"]]
    /\ proc' = [proc EXCEPT ![p].pc = "recover", ![p].new = 0]
    /\ UNCHANGED <<radars, lease, good, pushed, hot, deaths>>

(* --mode mock-alert: an event that is PROCESSED from the start, and its    *)
(* notifications.                                                           *)
create_mock_event(p) ==
    LET e == Min(Uncreated)
    IN  /\ proc[p].pc = "cycle" /\ Uncreated # {}
        /\ ev' = [ev EXCEPT ![e] = [Unborn EXCEPT !.status = "PROCESSED", !.mock = TRUE]]
        /\ proc' = [proc EXCEPT ![p].pc = "notify", ![p].rows = << <<e, 0, FALSE>> >>, ![p].via = "mock"]
        /\ UNCHANGED <<radars, lease, good, pushed, hot, deaths>>

(* --mode bridge, or a cycle without an alert. *)
NoAlert(p) ==
    /\ proc[p].pc = "cycle" /\ Goto(p, "recover")
    /\ UNCHANGED <<radars, ev, lease, good, pushed, hot, deaths>>

-----------------------------------------------------------------------------
(* Recovery: leases that ran out are fenced, then released; only then the   *)
(* events that were taken longer ago than that go back to the queue.        *)
FenceExpired(p) ==
    LET expired == {e \in EventIds : lease[e].by # "nobody" /\ lease[e].left = 0}
    IN  /\ proc[p].pc = "recover"
        /\ lease' = [e \in EventIds |-> IF e \in expired THEN [by |-> p, left |-> StaleAfter] ELSE lease[e]]
        /\ proc' = [proc EXCEPT ![p].pc = "release", ![p].fenced = expired]
        /\ UNCHANGED <<radars, ev, good, pushed, hot, deaths>>

ReleaseFenced(p) ==
    /\ proc[p].pc = "release"
    /\ lease' = [e \in EventIds |-> IF e \in proc[p].fenced THEN NoLease ELSE lease[e]]
    /\ proc' = [proc EXCEPT ![p].pc = "stale", ![p].fenced = {}]
    /\ UNCHANGED <<radars, ev, good, pushed, hot, deaths>>

(* Mutant: the limit is doubled.                                             *)
TakenTooLong_Twice(e) == ev[e].status = "PROCESSING" /\ ev[e].age > 2 * StaleAfter

TakenTooLong(e) == ev[e].status = "PROCESSING" /\ ev[e].age > StaleAfter

StaleGoBack(p) ==
    LET stale == {e \in EventIds : TakenTooLong(e)}
    IN  /\ proc[p].pc = "stale"
        /\ ev' = [e \in EventIds |-> IF e \in stale
                    THEN [ev[e] EXCEPT !.status = "PENDING", !.att = Capped(@ + 1, MaxAttempts), !.age = 0] ELSE ev[e]]
        /\ Goto(p, "list")
        /\ UNCHANGED <<radars, lease, good, pushed, hot, deaths>>

(* The invocation store is busy, the SDK or the key is missing: the cycle   *)
(* ends with a health state and goes on to the pushes.                      *)
BridgeUnavailable(p) ==
    /\ proc[p].pc \in {"recover", "list"} /\ Goto(p, "retry")
    /\ deaths < MaxDeaths /\ deaths' = deaths + 1
    /\ UNCHANGED <<radars, ev, lease, good, pushed, hot>>

find_actionable_events(p) ==
    LET due == {e \in EventIds : ev[e].status = "PENDING" \/ (ev[e].status = "DEFERRED" /\ ev[e].back = 0)}
        rows == InOrder({e \in due : Cardinality({d \in due : d < e}) < MaxRowsPerCycle})
    IN  /\ proc[p].pc = "list"
        /\ proc' = [proc EXCEPT ![p].pc = "row",
                                ![p].rows = [i \in DOMAIN rows |-> <<rows[i], ev[rows[i]].att, ev[rows[i]].notified>>]]
        /\ UNCHANGED <<radars, ev, lease, good, pushed, hot, deaths>>

-----------------------------------------------------------------------------
(* One row.  Its attempts and notified are those of the listing.            *)
deferred(r, q) == [r EXCEPT !.status = "DEFERRED", !.att = Capped(@ + 1, MaxAttempts), !.age = 0,
                            !.back = Less(Backoff, q.lag)]
processed(r) == [r EXCEPT !.status = "PROCESSED", !.age = 0, !.back = 0]
failed(r) == [r EXCEPT !.status = "FAILED", !.att = Capped(@ + 1, MaxAttempts), !.age = 0, !.back = 0]

RowsDone(p) ==
    /\ proc[p].pc = "row" /\ proc[p].rows = <<>> /\ Goto(p, "retry")
    /\ UNCHANGED <<radars, ev, lease, good, pushed, hot, deaths>>

has_successful_analysis(e) == good[e] > 0

CheckAnalysed(p) ==
    /\ proc[p].pc = "row" /\ proc[p].rows # <<>>
    /\ LET e == Current(p)[1]
       IN  IF has_successful_analysis(e)
           THEN ev' = [ev EXCEPT ![e] = processed(@)] /\ NextRow(p, "row")
           ELSE UNCHANGED ev /\ Goto(p, "take")
    /\ UNCHANGED <<radars, lease, good, pushed, hot, deaths>>

TakeEvent(p) ==
    LET e == Current(p)[1]
    IN  /\ proc[p].pc = "take"
        /\ IF ev[e].status \in {"PENDING", "DEFERRED"}
           THEN ev' = [ev EXCEPT ![e].status = "PROCESSING", ![e].age = 0] /\ Goto(p, "claim")
           ELSE UNCHANGED ev /\ NextRow(p, "row")
        /\ UNCHANGED <<radars, lease, good, pushed, hot, deaths>>

(* The event does not name its instrument or direction. *)
IdentityInvalid(p) ==
    /\ proc[p].pc = "claim"
    /\ ev' = [ev EXCEPT ![Current(p)[1]] = failed(@)] /\ NextRow(p, "row")
    /\ UNCHANGED <<radars, lease, good, pushed, hot, deaths>>

LeaseFree(e) == lease[e].by = "nobody"

claim_invocation(p) ==
    LET e == Current(p)[1]
    IN  /\ proc[p].pc = "claim" /\ LeaseFree(e)
        /\ lease' = [lease EXCEPT ![e] = [by |-> p, left |-> StaleAfter]]
        /\ Goto(p, "attempt")
        /\ UNCHANGED <<radars, ev, good, pushed, hot, deaths>>

(* Refused by the budget, or a duplicate of an invocation under a lease. *)
defer_uncharged(p) ==
    LET e == Current(p)[1]
    IN  /\ proc[p].pc = "claim"
        /\ ev' = [ev EXCEPT ![e] = deferred(@, proc[p])] /\ NextRow(p, "row")
        /\ UNCHANGED <<radars, lease, good, pushed, hot, deaths>>

(* Mutant: any holder may write.                                             *)
Applied_Unfenced(p, e) == TRUE

Applied(p, e) == lease[e].by = p /\ lease[e].left > 0

record_attempt(p) ==
    LET e == Current(p)[1]
    IN  /\ proc[p].pc = "attempt"
        /\ hot' = [hot EXCEPT ![EventKey[e]] = CooldownLength]
        /\ IF Applied(p, e) THEN Goto(p, "call") ELSE NextRow(p, "row")
        /\ UNCHANGED <<radars, ev, lease, good, pushed, deaths>>

call_model(p, result) ==
    /\ proc[p].pc = "call"
    /\ proc' = [proc EXCEPT ![p].pc = "transition", ![p].res = result]
    /\ UNCHANGED <<radars, ev, lease, good, pushed, hot, deaths>>

(* complete_invocation or release_invocation; a holder that was fenced, or  *)
(* whose lease ran out, writes nothing and leaves the event to recovery.    *)
transition_invocation(p) ==
    LET e == Current(p)[1]
    IN  /\ proc[p].pc = "transition"
        /\ IF Applied(p, e) THEN lease' = [lease EXCEPT ![e] = NoLease] /\ Goto(p, "analysis")
           ELSE UNCHANGED lease /\ NextRow(p, "row")
        /\ UNCHANGED <<radars, ev, good, pushed, hot, deaths>>

(* An InvocationError: the event is deferred if it is still taken, and the  *)
(* cycle stops.                                                             *)
InvocationStoreFails(p) ==
    LET e == Current(p)[1]
    IN  /\ proc[p].pc \in {"claim", "attempt", "transition"}
        /\ ev' = IF ev[e].status = "PROCESSING" THEN [ev EXCEPT ![e] = deferred(@, proc[p])] ELSE ev
        /\ proc' = [proc EXCEPT ![p].pc = "retry", ![p].rows = <<>>, ![p].res = "none"]
        /\ UNCHANGED <<radars, lease, good, pushed, hot, deaths>>

insert_model_analysis(p) ==
    /\ proc[p].pc = "analysis"
    /\ good' = [good EXCEPT ![Current(p)[1]] = @ + (IF proc[p].res = "SUCCESS" THEN 1 ELSE 0)]
    /\ Goto(p, "apply")
    /\ UNCHANGED <<radars, ev, lease, pushed, hot, deaths>>

apply_outcome(p) ==
    LET e == Current(p)[1] r == proc[p].res att == Current(p)[2] + 1
    IN  /\ proc[p].pc = "apply"
        /\ ev' = [ev EXCEPT ![e] = CASE r = "SUCCESS" -> processed(@)
                                     [] r = "AUTH_ERROR" \/ (r = "TIMEOUT" /\ att >= MaxAttempts) -> failed(@)
                                     [] OTHER -> deferred(@, proc[p])]
        /\ IF r = "SUCCESS" /\ ~Current(p)[3] THEN Goto(p, "notify") ELSE NextRow(p, "row")
        /\ UNCHANGED <<radars, lease, good, pushed, hot, deaths>>

-----------------------------------------------------------------------------
(* The push: skipped when one is recorded as SENT, else PENDING, the POSTs, *)
(* and the result.  A POST that timed out may have arrived.                 *)
send_mobile_notification(p) ==
    LET e == Current(p)[1]
    IN  /\ proc[p].pc = "notify"
        /\ IF ev[e].ntfy = "SENT" THEN UNCHANGED ev /\ Goto(p, "mark")
           ELSE ev' = [ev EXCEPT ![e].ntfy = "PENDING"] /\ Goto(p, "push")
        /\ UNCHANGED <<radars, lease, good, pushed, hot, deaths>>

(* "lost": it timed out, or the service answered an error; arrived or not.  *)
send_ntfy_notification(p, arrived, result) ==
    /\ proc[p].pc = "push" /\ (result = "SUCCESS" => arrived) /\ (result = "DISABLED" => ~arrived)
    /\ pushed' = [pushed EXCEPT ![Current(p)[1]] = @ + (IF arrived THEN 1 ELSE 0)]
    /\ proc' = [proc EXCEPT ![p].pc = "record", ![p].res = result]
    /\ UNCHANGED <<radars, ev, lease, good, hot, deaths>>

RecordPush(p) ==
    LET e == Current(p)[1]
    IN  /\ proc[p].pc = "record"
        /\ ev' = [ev EXCEPT ![e] = CASE proc[p].res = "SUCCESS" -> [@ EXCEPT !.ntfy = "SENT"]
                                     [] proc[p].res = "FAILED" -> [@ EXCEPT !.ntfy = "FAILED", !.natt = @ + 1]
                                     [] OTHER -> @]
        /\ Goto(p, "mark")
        /\ UNCHANGED <<radars, lease, good, pushed, hot, deaths>>

(* mark_event_notified after notify_fn; a resend leaves the event alone. *)
MarkNotified(p) ==
    LET e == Current(p)[1]
    IN  /\ proc[p].pc = "mark"
        /\ ev' = IF proc[p].via = "retry" THEN ev ELSE [ev EXCEPT ![e].notified = TRUE]
        /\ CASE proc[p].via = "bridge" -> NextRow(p, "row")
             [] proc[p].via = "retry" -> NextRow(p, "resend")
             [] OTHER -> proc' = [proc EXCEPT ![p] = Asleep]
        /\ UNCHANGED <<radars, lease, good, pushed, hot, deaths>>

(* The failed pushes that are due; the interval between two is left open.   *)
RetryDue(e) == ev[e].status = "PROCESSED" /\ ev[e].ntfy = "FAILED" /\ ev[e].natt < MaxPushes

retry_pending_ntfy(p) ==
    /\ proc[p].pc = "retry"
    /\ \E S \in SUBSET {e \in EventIds : RetryDue(e)} :
          proc' = [proc EXCEPT ![p].pc = "resend", ![p].via = "retry",
                               ![p].rows = [i \in 1..Cardinality(S) |-> <<InOrder(S)[i], 0, FALSE>>]]
    /\ UNCHANGED <<radars, ev, lease, good, pushed, hot, deaths>>

Resend(p) ==
    /\ proc[p].pc = "resend"
    /\ IF proc[p].rows = <<>> THEN proc' = [proc EXCEPT ![p] = Asleep] ELSE Goto(p, "notify")
    /\ UNCHANGED <<radars, ev, lease, good, pushed, hot, deaths>>

-----------------------------------------------------------------------------
(* Time passes while every process waits; the loop starts its next cycle.   *)
Waits == {"sleep", "call"}

BridgeClock ==
    /\ \A p \in radars : proc[p].pc \in Waits
    /\ ev' = [e \in EventIds |-> [ev[e] EXCEPT
                !.age = IF ev[e].status = "PROCESSING" THEN Capped(@ + 1, StaleAfter + 1) ELSE 0, !.back = Less(@, 1)]]
    /\ lease' = [e \in EventIds |-> [lease[e] EXCEPT !.left = Less(@, 1)]]
    /\ hot' = [k \in DOMAIN hot |-> Less(hot[k], 1)]
    /\ proc' = [p \in Processes |-> IF p \notin radars THEN proc[p]
                    ELSE IF proc[p].pc = "sleep" THEN [Asleep EXCEPT !.pc = "cycle"]
                    ELSE [proc[p] EXCEPT !.lag = Capped(@ + 1, Backoff)]]
    /\ UNCHANGED <<radars, good, pushed, deaths>>

Dies(p) ==
    /\ proc[p].pc # "sleep" /\ deaths < MaxDeaths
    /\ deaths' = deaths + 1 /\ proc' = [proc EXCEPT ![p] = Asleep]
    /\ UNCHANGED <<radars, ev, lease, good, pushed, hot>>

RadarStep(p) ==
    \/ \E jump \in BOOLEAN : create_event_Searches(p, jump)
    \/ create_event_Inserts(p) \/ create_mock_event(p) \/ NoAlert(p)
    \/ FenceExpired(p) \/ ReleaseFenced(p) \/ StaleGoBack(p) \/ BridgeUnavailable(p)
    \/ find_actionable_events(p) \/ RowsDone(p) \/ CheckAnalysed(p) \/ TakeEvent(p)
    \/ IdentityInvalid(p) \/ claim_invocation(p) \/ defer_uncharged(p) \/ record_attempt(p)
    \/ \E result \in {"SUCCESS", "AUTH_ERROR", "TIMEOUT"} : call_model(p, result)
    \/ transition_invocation(p) \/ InvocationStoreFails(p) \/ insert_model_analysis(p) \/ apply_outcome(p)
    \/ send_mobile_notification(p)
    \/ \E arrived \in BOOLEAN, result \in {"SUCCESS", "FAILED", "DISABLED"} : send_ntfy_notification(p, arrived, result)
    \/ RecordPush(p) \/ MarkNotified(p) \/ retry_pending_ntfy(p) \/ Resend(p)

BridgeNext == BridgeClock \/ \E p \in Processes : RadarStep(p) \/ Dies(p)

(* The loop runs its cycles, every call ends (the client's timeout), and    *)
(* the clock goes on.                                                       *)
BridgeFairness == WF_bridgeVars(BridgeClock) /\ \A p \in Processes : WF_bridgeVars(RadarStep(p))
BridgeSpec == BridgeInit /\ [][BridgeNext]_bridgeVars /\ BridgeFairness

-----------------------------------------------------------------------------
Alone == Cardinality(radars) = 1

(* An event is analysed at most once, and once it is no later writer fails  *)
(* it, however two processes overlap, a lease runs out in a call, or one    *)
(* dies between two writes (the fence before the recovery, the transition   *)
(* before the analysis); only what was analysed, or a mock, is notified; a  *)
(* push that failed is sent again at most MaxPushes times in all.  One      *)
(* process alone keeps one open event per dedup key.                        *)
BridgeInv ==
    /\ radars \subseteq Processes /\ \A e \in EventIds : ev[e].status \in OpenStatus \cup {"none", "PROCESSED", "FAILED"}
    /\ \A e \in EventIds :
          /\ good[e] <= 1 /\ (good[e] = 1 => ev[e].status # "FAILED")
          /\ ev[e].notified => good[e] = 1 \/ ev[e].mock
          /\ ev[e].mock => good[e] = 0 /\ ev[e].status = "PROCESSED"
          /\ Alone => ev[e].natt <= MaxPushes /\ pushed[e] <= MaxPushes
    /\ Alone => \A e, f \in EventIds :
          EventKey[e] = EventKey[f] /\ ev[e].status \in OpenStatus /\ ev[f].status \in OpenStatus => e = f

(* A taken event never stays taken: its holder settles it, or a later cycle *)
(* puts it back; and an analysed event is PROCESSED in the end, also when   *)
(* its holder died before saying so or another process deferred it          *)
(* meanwhile (recover_stale_processing, the idempotency backstop).          *)
EventsSettle ==
    \A e \in EventIds :
        /\ (ev[e].status = "PROCESSING") ~> (ev[e].status # "PROCESSING")
        /\ (good[e] = 1) ~> (ev[e].status = "PROCESSED")
=============================================================================
