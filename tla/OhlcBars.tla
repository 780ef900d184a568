------------------------------ MODULE OhlcBars ------------------------------
(***************************************************************************)
(* The bars of one market (l2.py _fetch_worker_checked, _run_l2_checked;   *)
(* store.py ohlc_bars and ohlc_cursor): fetched since the cursor, checked, *)
(* stored, and read back by the level that consumes them.                  *)
(*                                                                         *)
(* Bar k is open during the times 2k and 2k+1.  The answer to a request is *)
(* made at one time and received at another, and the process may die       *)
(* between any two writes.                                                 *)
(***************************************************************************)
EXTENDS Integers, FiniteSets, FiniteSetsExt

CONSTANTS
    VenueBars,          \* the most bars of one answer
    WindowBars,         \* OHLC_WINDOW_BARS
    BarRetention,       \* SNAPSHOT_RETENTION_DAYS, in times
    MaxBarTime          \* bound

ASSUME OhlcAssumption ==
    /\ {VenueBars, WindowBars} \subseteq Nat \ {0} /\ WindowBars < VenueBars
    /\ {BarRetention, MaxBarTime} \subseteq Nat

VARIABLES
    tick,               \* the time
    bars,               \* table ohlc_bars: a bar and whether all its trades are in it
    cursor,             \* table ohlc_cursor
    fetch,              \* the fetch under way
    consumed,           \* the bars the last cycle consumed
    skipped             \* history: bars the venue no longer gave

ohlcVars == <<tick, bars, cursor, fetch, consumed, skipped>>

NoCursor == -1
NoFetch == [step |-> "idle", now |-> 0, answer |-> {}, last |-> NoCursor, ok |-> FALSE]

OhlcInit == tick = 0 /\ bars = {} /\ cursor = NoCursor /\ fetch = NoFetch /\ consumed = {} /\ skipped = {}

ClosedAt(k, t) == 2 * k + 2 <= t
Numbers(S) == {b.k : b \in S}

\* The cycle's time is read, and old bars are pruned.
CycleBegins ==
    /\ fetch.step = "idle" /\ tick < MaxBarTime
    /\ fetch' = [NoFetch EXCEPT !.step = "asked", !.now = tick]
    /\ bars' = {b \in bars : 2 * b.k >= tick - BarRetention}
    /\ UNCHANGED <<tick, cursor, consumed, skipped>>

\* The venue: the newest bars after `since', the open one last and so far, and
\* as `last' the newest one that is closed.
VenueAnswers ==
    /\ fetch.step = "asked"
    /\ LET all == {k \in 0..(tick \div 2) : k > cursor}
           given == {k \in all : Cardinality({j \in all : j > k}) < VenueBars}
       IN  /\ fetch' = [fetch EXCEPT !.step = "answered", !.answer = {[k |-> k, whole |-> ClosedAt(k, tick)] : k \in given},
                                     !.last = tick \div 2 - 1]
           /\ skipped' = skipped \cup (all \ given)
    /\ UNCHANGED <<tick, bars, cursor, consumed>>

\* The request fails, or the answer fails a check that stores nothing.
FetchFails ==
    /\ fetch.step \in {"asked", "answered"} /\ fetch' = [fetch EXCEPT !.step = "fetched", !.answer = {}]
    /\ UNCHANGED <<tick, bars, cursor, consumed, skipped>>

\* Received: the last bar is left out if it is still forming now; the others
\* must have closed.  A bar already stored is replaced.
forming(answer) == {b \in answer : b.k = Max(Numbers(answer)) /\ ~ClosedAt(b.k, tick)}
insert_ohlc_bars_batch(table, new) == {b \in table : b.k \notin Numbers(new)} \cup new
ReceiveAnswer ==
    /\ fetch.step = "answered"
    /\ bars' = insert_ohlc_bars_batch(bars, IF fetch.answer = {} THEN {} ELSE fetch.answer \ forming(fetch.answer))
    /\ fetch' = [fetch EXCEPT !.step = "stored", !.answer = {}]
    /\ UNCHANGED <<tick, cursor, consumed, skipped>>

set_ohlc_cursor ==
    /\ fetch.step = "stored"
    /\ cursor' = IF fetch.last >= 0 THEN fetch.last ELSE cursor
    /\ fetch' = [fetch EXCEPT !.step = "fetched", !.ok = TRUE]
    /\ UNCHANGED <<tick, bars, consumed, skipped>>

\* What L2 reads: after a fetch that succeeded only, the newest bars of the
\* store, those closed when the cycle began.
get_ohlc_window == {b \in bars : Cardinality({c \in bars : c.k > b.k}) < WindowBars}
window == IF fetch.ok THEN {b \in get_ohlc_window : ClosedAt(b.k, fetch.now)} ELSE {}

\* The checks of the series, the ATR and the clock (module Integrity) decide.
RunL2Checked(passes) ==
    /\ fetch.step = "fetched" /\ fetch' = NoFetch
    /\ consumed' = IF passes THEN window ELSE {}
    /\ UNCHANGED <<tick, bars, cursor, skipped>>

ProcessDies ==
    /\ fetch.step # "idle" /\ fetch' = NoFetch /\ consumed' = {}
    /\ UNCHANGED <<tick, bars, cursor, skipped>>

BarTimePasses ==
    /\ tick < MaxBarTime /\ tick' = tick + 1
    /\ UNCHANGED <<bars, cursor, fetch, consumed, skipped>>

OhlcNext ==
    \/ CycleBegins \/ VenueAnswers \/ FetchFails \/ ReceiveAnswer \/ set_ohlc_cursor \/ ProcessDies \/ BarTimePasses
    \/ \E passes \in BOOLEAN : RunL2Checked(passes)

OhlcSpec == OhlcInit /\ [][OhlcNext]_ohlcVars

-----------------------------------------------------------------------------
\* A bar that was consumed has all its trades in it.  The store may hold one that
\* has not (the answer was made before the bar closed and received after), but
\* never at or before the cursor, so that the next fetch replaces it, and no
\* cycle reads before that.  No bar up to the cursor is missing, unless it was
\* pruned.  Both except for bars the venue had stopped giving, which no window
\* reaches
\* (_fetch_worker_checked, _run_l2_checked, insert_ohlc_bars_batch).
BarsWhole ==
    /\ \A b \in consumed : b.whole
    /\ \A b \in bars : ~b.whole => b.k > cursor \/ b.k \in skipped
    /\ \A k \in 0..cursor : k \in Numbers(bars) \cup skipped \/ 2 * k < tick - BarRetention
=============================================================================
