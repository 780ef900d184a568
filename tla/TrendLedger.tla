---------------------------- MODULE TrendLedger ----------------------------
(***************************************************************************)
(* The trend paper books (radar_v08/domain/trend_paper.py and its Kraken   *)
(* twin, adapters/trend_paper_store.py, trend_paper_hook.py, the alerts,   *)
(* ui/trend_reader.py): an append-only, hash-chained ledger file under an  *)
(* operating-system lock, caught up from public candles that may lag, be   *)
(* missing for good, or be missing from one response only.                 *)
(*                                                                         *)
(* Days are 1, 2, ...; every day before the paper start has its candles.   *)
(* A response is, by symbol, the set of days whose candle it shows; the    *)
(* candle of the fetch day is still open and has no close.                 *)
(***************************************************************************)
EXTENDS Integers, Sequences, FiniteSets, SequencesExt

CONSTANTS
    Assets,           \* BTC, ETH
    BookRules,        \* the books' rules, in ledger order: "ENS" or "BH"
    Target,           \* by day: the ENS target in tenths (what the closes say)
    Window,           \* ENS_WINDOW: closes before the day that the signal needs
    Lead,             \* KRAKEN_LEAD_DAYS: days requested before the first one needed
    Worlds,           \* venue, its candles by symbol, the latest candles a response holds
    Procs, Readers,
    Attempts,         \* SETTLE_ATTEMPTS
    MaxDay, MaxCrashes, MaxRenames     \* bounds

ASSUME TrendAssumption ==
    /\ {Window, Lead, Attempts} \subseteq Nat \ {0}
    /\ {MaxDay, MaxCrashes, MaxRenames} \subseteq Nat

VARIABLES
    world,            \* the candles that exist, and the venue of this ledger
    today,            \* the clock's UTC day
    file,             \* the ledger: whole lines, and whether a cut-off line follows
    locked,           \* who holds the lock of the ledger file
    run,              \* one catch-up per process: its place and what it keeps
    reader,           \* read_ledger_settled of a reader without the lock
    alerts,           \* the dedupe file: handled keys, and whether it is torn
    toasts,           \* history: how often each key was shown
    crashes, renames  \* history: bounds

tvars == <<world, today, file, locked, run, reader, alerts, toasts, crashes, renames>>

Start == 1
NoDay == 0
Nobody == "nobody"
Fx == <<"fx", "fx">>
Usdt(a) == <<"usdt", a>>
Pair(a) == <<"eur", a>>
Symbols == {Fx} \cup {Usdt(a) : a \in Assets} \cup {Pair(a) : a \in Assets}
Kraken(m) == m.venue = "kraken"

-----------------------------------------------------------------------------
(* A response.  open_on: a closed candle or the open of the live day;       *)
(* close_on: closed candles only.                                           *)
open_on(m, s, d) == d < Start \/ d \in m.open[s]
close_on(m, s, d) == open_on(m, s, d) /\ d < m.day
last_open_day(m, s) == IF m.open[s] = {} THEN NoDay ELSE Max(m.open[s])
HasLater(m, g) == last_open_day(m, g.symbol) > g.day

Gap(s, d) == [symbol |-> s, day |-> d]
NoGap == [reason |-> "none", gaps |-> {}]
DayGap(reason, gaps) == [reason |-> reason, gaps |-> gaps]

(* The USDT closes the day's signals need and the response lacks: the ENS   *)
(* windows, and any hole in the whole BTC history that btc_trend5 reads.    *)
signal_gaps(m, d) ==
    LET window == {Gap(Usdt(a), k) : a \in Assets, k \in (d - Window)..(d - 1)}
        history == {Gap(Usdt(a), k) : a \in Assets \cap {"BTC"}, k \in 1..(d - 1)}
    IN  {g \in window : ~close_on(m, g.symbol, g.day)}
        \cup {g \in history : /\ ~close_on(m, g.symbol, g.day)
                              /\ \E k \in (g.day + 1)..(d - 1) : close_on(m, g.symbol, k)}

day_gap(m, d) ==
    LET fill == {Gap(Usdt(a), d) : a \in {b \in Assets : ~open_on(m, Usdt(b), d)}}
        signal == signal_gaps(m, d)
        eur == UNION {{Gap(Pair(a), d), Gap(Fx, d)} :
                         a \in {b \in Assets : ~open_on(m, Pair(b), d) /\ ~open_on(m, Fx, d)}}
    IN  CASE fill # {} -> DayGap("NO_FILL_CANDLE", fill)
          [] fill = {} /\ signal # {} -> DayGap("NO_SIGNAL_CLOSE", signal)
          [] fill = {} /\ signal = {} /\ eur # {} -> DayGap("NO_EUR_PRICE", eur)
          [] OTHER -> NoGap

kraken_day_gap(m, d) ==
    LET fill == {Gap(Pair(a), d) : a \in {b \in Assets : ~open_on(m, Pair(b), d)}}
        signal == signal_gaps(m, d)
    IN  CASE fill # {} -> DayGap("NO_KRAKEN_OPEN", fill)
          [] fill = {} /\ signal # {} -> DayGap("NO_SIGNAL_CLOSE", signal)
          [] OTHER -> NoGap

(* EUR pairs priced at the USDT open over the EURUSDT open. *)
eur_fallbacks(m, d) ==
    IF open_on(m, Fx, d)
    THEN {Gap(Pair(a), d) : a \in {b \in Assets : ~open_on(m, Pair(b), d)}}
    ELSE {}

(* A Kraken day before the earliest returned candle is unknown. *)
Known(m, g) == m.from[g.symbol] = NoDay \/ g.day >= m.from[g.symbol]

kraken_unsettled(m, g) == ~HasLater(m, g) \/ ~Known(m, g)

FoundGap(m, d) == IF Kraken(m) THEN kraken_day_gap(m, d) ELSE day_gap(m, d)
Fallbacks(m, d) == IF Kraken(m) THEN {} ELSE eur_fallbacks(m, d)

(* The missing candles a day's settlement relies on. *)
Missing(m, d) ==
    IF FoundGap(m, d) # NoGap THEN FoundGap(m, d).gaps ELSE Fallbacks(m, d)

last_bookable_day(m) ==
    LET lasts == {last_open_day(m, Usdt(a)) : a \in Assets} IN Min(lasts)

-----------------------------------------------------------------------------
(* Lines.  A line's chain field stands for the hash of the line before it:  *)
(* the position and the day it continues.                                   *)
BookLine(d, b, held, traded, source, prev) ==
    [kind |-> "book", day |-> d, book |-> b, held |-> held, traded |-> traded,
     source |-> source, prev |-> prev]
SkipLine(d, gap, prev) ==
    [kind |-> "skip", day |-> d, book |-> 0, held |-> 0, traded |-> FALSE,
     source |-> gap.reason, prev |-> prev]

(* verify_chain: terminated lines, each continuing the one before it. *)
verify_chain(f) ==
    /\ ~f.torn
    /\ \A k \in DOMAIN f.lines : f.lines[k].prev = k - 1

(* extend_ledger: days consecutive from the start, each one skip line or    *)
(* all books in their order.                                                *)
WholeDays(lines) ==
    \A k \in DOMAIN lines :
        LET l == lines[k]
            before == IF k = 1 THEN NoDay ELSE lines[k - 1].day
            fresh == l.kind = "skip" \/ l.book = 1
            closed == IF k = 1 THEN TRUE
                      ELSE lines[k - 1].kind = "skip" \/ lines[k - 1].book = Len(BookRules)
        IN  /\ fresh => closed /\ l.day = before + 1
            /\ ~fresh => /\ lines[k - 1].kind = "book" /\ lines[k - 1].book = l.book - 1
                         /\ l.day = before
            /\ k = Len(lines) => l.kind = "skip" \/ l.book = Len(BookRules)

extend_ledger(f) == verify_chain(f) /\ WholeDays(f.lines)
extend_kraken_ledger(f) ==
    /\ verify_chain(f) /\ WholeDays(f.lines)
    /\ \A k \in DOMAIN f.lines : f.lines[k].source # "fx"
Verified(f) == IF Kraken(world) THEN extend_kraken_ledger(f) ELSE extend_ledger(f)

LastDay(lines) == IF lines = <<>> THEN NoDay ELSE Last(lines).day
first_day_to_book(lines) == IF lines = <<>> THEN Start ELSE LastDay(lines) + 1

(* The fraction a book holds after these lines. *)
HeldAfter(lines, b) ==
    LET mine == {k \in DOMAIN lines : lines[k].kind = "book" /\ lines[k].book = b}
    IN  IF mine = {} THEN 0 ELSE lines[Max(mine)].held

-----------------------------------------------------------------------------
(* Booking a day.  Fractions in tenths; the band is 2 tenths on the         *)
(* fraction set at the last rebalance.                                      *)
EnsBand == 2
step_fraction(held, tgt, buy_and_hold, first_day) ==
    LET trade == IF buy_and_hold THEN first_day /\ held = 0
                 ELSE tgt - held >= EnsBand \/ held - tgt >= EnsBand \/ (tgt = 0 /\ held > 0)
        want == IF ~buy_and_hold THEN tgt ELSE IF first_day \/ held > 0 THEN 10 ELSE 0
    IN  [traded |-> trade, held |-> IF trade THEN want ELSE held]

Booked(lines, d, source) ==
    LET first == \A k \in DOMAIN lines : lines[k].kind # "book"
    IN  [b \in DOMAIN BookRules |->
            LET s == step_fraction(HeldAfter(lines, b), Target[d], BookRules[b] = "BH", first)
            IN  BookLine(d, b, s.held, s.traded, source, Len(lines) + b - 1)]

book_day(m, lines, d) == Booked(lines, d, IF eur_fallbacks(m, d) = {} THEN "pair" ELSE "fx")
book_kraken_day(lines, d) == Booked(lines, d, "pair")

SettledLines(m, lines, d) ==
    CASE FoundGap(m, d) # NoGap -> << SkipLine(d, FoundGap(m, d), Len(lines)) >>
      [] FoundGap(m, d) = NoGap /\ Kraken(m) -> book_kraken_day(lines, d)
      [] OTHER -> book_day(m, lines, d)

-----------------------------------------------------------------------------
(* Planning a catch-up: every day up to the clock's day, nothing when one   *)
(* of them waits, and a missing candle confirmed by a second response.      *)
DueDays(lines, day) == [k \in 1..(day - first_day_to_book(lines) + 1) |->
                            first_day_to_book(lines) + k - 1]
RelyOn(m, lines) == UNION {Missing(m, d) : d \in Range(DueDays(lines, m.day))}

plan_catch_up(m, lines) ==
    /\ last_bookable_day(m) >= m.day
    /\ \A g \in RelyOn(m, lines) : HasLater(m, g)

plan_kraken_catch_up(m, lines) ==
    /\ last_bookable_day(m) >= m.day
    /\ \A g \in RelyOn(m, lines) : ~kraken_unsettled(m, g)

confirm_plan(m, lines, second) ==
    \A g \in RelyOn(m, lines) : HasLater(second, g) /\ ~open_on(second, g.symbol, g.day)

confirm_kraken_plan(m, lines, second) ==
    \A g \in RelyOn(m, lines) : ~kraken_unsettled(second, g) /\ ~open_on(second, g.symbol, g.day)

(* apply_plan computes and verifies every day in memory before the first    *)
(* append: the lines of each due day in turn.                               *)
apply_plan(m, lines) ==
    LET all[k \in 0..Len(DueDays(lines, m.day))] ==
            IF k = 0 THEN <<>>
            ELSE LET before == lines \o FlattenSeq(all[k - 1])
                 IN  Append(all[k - 1], SettledLines(m, before, DueDays(lines, m.day)[k]))
    IN  all[Len(DueDays(lines, m.day))]

-----------------------------------------------------------------------------
(* Responses the exchange may give on the run's day: of each symbol the     *)
(* published candles, perhaps without the newest one (not published yet),   *)
(* and at most one candle left out by mistake.  Kraken returns its latest   *)
(* cap candles; from is where a truncated history starts.             *)
Latest(days, cap) == {d \in days : Cardinality({e \in days : e >= d}) <= cap}
Respond(w, day, since, late, glitch) ==
    LET shown(s) == {d \in w.candles[s] \cap (1..day) :
                        ~(d = day /\ s \in late) /\ glitch # Gap(s, d)}
        capped == {s \in Symbols : Kraken(w) /\ s \in {Pair(a) : a \in Assets}}
        rows(s) == Latest({d \in ((since - 1)..0) \cup shown(s) : d >= since - 1}, w.cap)
    IN  [day |-> day, venue |-> w.venue,
         open |-> [s \in Symbols |-> IF s \in capped THEN rows(s) ELSE shown(s)],
         from |-> [s \in Symbols |-> IF s \in capped /\ Min(rows(s)) > since
                                      THEN Min(rows(s)) ELSE NoDay]]

NoGlitch == Gap(Fx, 0)
Glitches(day) == {NoGlitch} \cup {Gap(s, d) : s \in Symbols, d \in 1..day}

Idle == [pc |-> "idle", hook |-> FALSE, day |-> 0, lines |-> <<>>, chunks |-> <<>>,
         booked |-> {}, shown |-> {}]
NotReading == [pc |-> "idle", left |-> 0, answer |-> "none"]
EmptyFile == [lines |-> <<>>, torn |-> FALSE]

TrendInit ==
    /\ world \in Worlds
    /\ today = Start - 1
    /\ file = EmptyFile
    /\ locked = Nobody
    /\ run = [p \in Procs |-> Idle]
    /\ reader = [r \in Readers |-> NotReading]
    /\ alerts = [handled |-> {}, torn |-> FALSE]
    /\ toasts = [k \in (DOMAIN BookRules) \X (1..MaxDay) |-> 0]
    /\ crashes = 0 /\ renames = 0

(* catch_up up to its requests: the clock is read, the lock is taken and    *)
(* the ledger is verified under it.  A start that finds the lock taken      *)
(* (BUSY), a refused ledger or nothing due changes nothing.                 *)
StartCatchUp(p, hook) ==
    /\ run[p].pc = "idle" /\ locked = Nobody
    /\ Verified(file) /\ first_day_to_book(file.lines) <= today
    /\ locked' = p
    /\ run' = [run EXCEPT ![p] = [Idle EXCEPT !.pc = "fetch", !.hook = hook,
                                             !.day = today, !.lines = file.lines]]
    /\ UNCHANGED <<world, today, file, reader, alerts, toasts, crashes, renames>>

(* The radar's start-up thread, and the control room's "Catch up now". *)
HookCatchUp(p) == StartCatchUp(p, TRUE)
RoomCatchUp(p) == StartCatchUp(p, FALSE)

(* Every request before the first append: the plan, the second request for  *)
(* what is missing, every due day in memory.                                *)
Responses(day) == [late : SUBSET Symbols, glitch : Glitches(day)]
fetch_since(lines) == first_day_to_book(lines) - Lead
to_confirm(m, lines) == Min({g.day : g \in RelyOn(m, lines)} \cup {m.day}) - Lead

Planned(m, lines) == IF Kraken(m) THEN plan_kraken_catch_up(m, lines) ELSE plan_catch_up(m, lines)
Confirmed(m, lines, second) ==
    IF Kraken(m) THEN confirm_kraken_plan(m, lines, second) ELSE confirm_plan(m, lines, second)

(* A candle that one response leaves out by mistake is in the other one.    *)
Plans(w, day, lines) ==
    LET First(r) == Respond(w, day, fetch_since(lines), r.late, r.glitch)
        Second(r, q) == Respond(w, day, to_confirm(First(r), lines), q.late, q.glitch)
        planned == {r \in Responses(day) : Planned(First(r), lines)}
        settled == {r \in planned : \E q \in Responses(day) :
                       /\ r.glitch = NoGlitch \/ q.glitch # r.glitch
                       /\ Confirmed(First(r), lines, Second(r, q))}
    IN  {apply_plan(First(r), lines) : r \in settled}

Fetched(p) ==
    /\ run[p].pc = "fetch"
    /\ \E chunks \in Plans(world, run[p].day, run[p].lines) :
          run' = [run EXCEPT ![p].pc = "append", ![p].chunks = chunks]
    /\ UNCHANGED <<world, today, file, locked, reader, alerts, toasts, crashes, renames>>

Stopped(p) == [run EXCEPT ![p] = Idle]
LockFreedBy(p) == IF locked = p THEN Nobody ELSE locked

(* WAITING_FOR_DATA, a failed or refused request, a clock behind the        *)
(* exchange: nothing is written and the lock is released.                   *)
GiveUp(p) ==
    /\ run[p].pc = "fetch"
    /\ run' = Stopped(p) /\ locked' = LockFreedBy(p)
    /\ UNCHANGED <<world, today, file, reader, alerts, toasts, crashes, renames>>

(* LedgerWriter.append, one call per day: the size check, the write, which  *)
(* a reader or a crash may catch after any part of it, the read-back.       *)
SizeAsExpected(p) == file = [lines |-> run[p].lines, torn |-> FALSE]

WriteSome(p) ==
    /\ run[p].pc = "append" /\ SizeAsExpected(p)
    /\ \E n \in 0..(Len(Head(run[p].chunks)) - 1), torn \in BOOLEAN :
          /\ n > 0 \/ torn
          /\ file' = [lines |-> file.lines \o SubSeq(Head(run[p].chunks), 1, n), torn |-> torn]
    /\ run' = [run EXCEPT ![p].pc = "half"]
    /\ UNCHANGED <<world, today, locked, reader, alerts, toasts, crashes, renames>>

(* The last day of the plan is written: the lock is released, and only the  *)
(* radar's hook on the Binance books goes on to the alerts.                 *)
WriteRest(p) ==
    LET r == run[p]
        lines == r.lines \o Head(r.chunks)
        done == Tail(r.chunks) = <<>>
        booked == r.booked \cup (IF Head(r.chunks)[1].kind = "book" THEN {LastDay(lines)} ELSE {})
        alerting == r.hook /\ ~Kraken(world) /\ booked # {}
    IN  /\ r.pc = "half"
        /\ file' = [lines |-> lines, torn |-> FALSE]
        /\ run' = [run EXCEPT ![p] =
                       IF done /\ ~alerting THEN Idle
                       ELSE [r EXCEPT !.lines = lines, !.chunks = Tail(@), !.booked = booked,
                                      !.pc = IF done THEN "alert" ELSE "append"]]
        /\ locked' = IF done THEN LockFreedBy(p) ELSE locked
        /\ UNCHANGED <<world, today, reader, alerts, toasts, crashes, renames>>

(* Mutant: a failed write is left half done.                                 *)
WriteFails_NotUndone(p) ==
    /\ run[p].pc = "half" /\ UNCHANGED <<file, crashes>>
    /\ run' = Stopped(p) /\ locked' = LockFreedBy(p)
    /\ UNCHANGED <<world, today, reader, alerts, toasts, renames>>

(* Mutant: a failed write is undone to the beginning of the file.            *)
WriteFails_AllUndone(p) ==
    /\ run[p].pc = "half" /\ file' = EmptyFile
    /\ run' = Stopped(p) /\ locked' = LockFreedBy(p)
    /\ UNCHANGED <<world, today, reader, alerts, toasts, crashes, renames>>

(* The write fails: this append, and only this, is truncated away, unless   *)
(* the truncation fails too.  Days appended before it stay.                 *)
WriteFails(p) ==
    /\ run[p].pc = "half"
    /\ \/ file' = [lines |-> run[p].lines, torn |-> FALSE] /\ UNCHANGED crashes
       \/ crashes < MaxCrashes /\ crashes' = crashes + 1 /\ UNCHANGED file
    /\ run' = Stopped(p) /\ locked' = LockFreedBy(p)
    /\ UNCHANGED <<world, today, reader, alerts, toasts, renames>>

(* CHANGED_DURING_APPEND: somebody replaced the file since it was read. *)
ChangedDuringAppend(p) ==
    /\ run[p].pc = "append" /\ ~SizeAsExpected(p)
    /\ run' = Stopped(p) /\ locked' = LockFreedBy(p)
    /\ UNCHANGED <<world, today, file, reader, alerts, toasts, crashes, renames>>

-----------------------------------------------------------------------------
(* Alerts: every exposure change of the booked days is claimed in the       *)
(* dedupe file before any toast; per rule only the latest one is shown.     *)
exposure_changes(lines, days) ==
    {<<l.book, l.day>> : l \in {x \in Range(lines) : /\ x.kind = "book" /\ x.traded
                                                  /\ x.day \in days /\ BookRules[x.book] # "BH"}}
plan_alerts(changes) == {k \in changes : \A j \in changes : j[1] = k[1] => j[2] <= k[2]}

claim(p) ==
    LET changes == exposure_changes(run[p].lines, run[p].booked)
        new == plan_alerts(changes) \ alerts.handled
    IN  /\ run[p].pc = "alert" /\ ~alerts.torn
        /\ alerts' = [alerts EXCEPT !.handled = @ \cup changes]
        /\ run' = [run EXCEPT ![p] = IF new = {} THEN Idle ELSE [@ EXCEPT !.pc = "toast", !.shown = new]]
        /\ UNCHANGED <<world, today, file, locked, reader, toasts, crashes, renames>>

(* The claim fails: the dedupe file is refused, another claimer holds its   *)
(* lock, or the write fails and, unlike the ledger's, is not undone.        *)
AlertStepFails(p) ==
    /\ run[p].pc = "alert"
    /\ run' = Stopped(p)
    /\ \/ UNCHANGED <<alerts, crashes>>
       \/ /\ crashes < MaxCrashes /\ crashes' = crashes + 1
          /\ \E part \in SUBSET exposure_changes(run[p].lines, run[p].booked) :
                alerts' = [handled |-> alerts.handled \cup part, torn |-> TRUE]
    /\ UNCHANGED <<world, today, file, locked, reader, toasts, renames>>

Toast(p) ==
    /\ run[p].pc = "toast"
    /\ \E k \in run[p].shown :
          /\ toasts' = [toasts EXCEPT ![k] = @ + 1]
          /\ run' = [run EXCEPT ![p] = IF @.shown = {k} THEN Idle ELSE [@ EXCEPT !.shown = @ \ {k}]]
    /\ UNCHANGED <<world, today, file, locked, reader, alerts, crashes, renames>>

-----------------------------------------------------------------------------
(* read_ledger_settled: a refused read is tried again; if the last one is   *)
(* refused too, the lock tells whether a writer is at work.  The probe      *)
(* takes the lock itself for a moment.                                      *)
StartRead(r) ==
    /\ reader[r].pc = "idle"
    /\ reader' = [reader EXCEPT ![r] = [pc |-> "read", left |-> Attempts, answer |-> "none"]]
    /\ UNCHANGED <<world, today, file, locked, run, alerts, toasts, crashes, renames>>

ReadAttempt(r) ==
    /\ reader[r].pc = "read"
    /\ reader' = [reader EXCEPT ![r] =
            CASE Verified(file) -> [NotReading EXCEPT !.answer = "ledger"]
              [] ~Verified(file) /\ @.left > 1 -> [@ EXCEPT !.left = @ - 1]
              [] OTHER -> [@ EXCEPT !.pc = "probe", !.left = 0]]
    /\ UNCHANGED <<world, today, file, locked, run, alerts, toasts, crashes, renames>>

writer_active(r) ==
    /\ reader[r].pc = "probe"
    /\ reader' = [reader EXCEPT ![r] =
            IF locked # Nobody THEN [NotReading EXCEPT !.answer = "being_written"]
            ELSE [@ EXCEPT !.pc = "unlock"]]
    /\ locked' = IF locked # Nobody THEN locked ELSE r
    /\ UNCHANGED <<world, today, file, run, alerts, toasts, crashes, renames>>

Refuse(r) ==
    /\ reader[r].pc = "unlock"
    /\ reader' = [reader EXCEPT ![r] = [NotReading EXCEPT !.answer = "refused"]]
    /\ locked' = Nobody
    /\ UNCHANGED <<world, today, file, run, alerts, toasts, crashes, renames>>

(* A user who reads "Ledger refused" renames the file (the guide's steps);  *)
(* the next catch-up builds it again from the first day.                    *)
RenameRefused ==
    /\ renames < MaxRenames
    /\ \E r \in Readers : reader[r].answer = "refused"
    /\ \A p \in Procs : run[p].pc # "half"
    /\ file' = EmptyFile /\ renames' = renames + 1
    /\ reader' = [r \in Readers |-> NotReading]
    /\ UNCHANGED <<world, today, locked, run, alerts, toasts, crashes>>

Crash(p) ==
    /\ crashes < MaxCrashes /\ run[p].pc # "idle"
    /\ crashes' = crashes + 1
    /\ run' = Stopped(p) /\ locked' = LockFreedBy(p)
    /\ UNCHANGED <<world, today, file, reader, alerts, toasts, renames>>

Midnight ==
    /\ today < MaxDay /\ today' = today + 1
    /\ UNCHANGED <<world, file, locked, run, reader, alerts, toasts, crashes, renames>>

TrendNext ==
    \/ \E p \in Procs :
          \/ HookCatchUp(p) \/ RoomCatchUp(p)
          \/ Fetched(p) \/ GiveUp(p) \/ WriteSome(p) \/ WriteRest(p) \/ WriteFails(p)
          \/ ChangedDuringAppend(p) \/ claim(p) \/ AlertStepFails(p) \/ Toast(p) \/ Crash(p)
    \/ \E r \in Readers : StartRead(r) \/ ReadAttempt(r) \/ writer_active(r) \/ Refuse(r)
    \/ RenameRefused \/ Midnight

TrendSpec == TrendInit /\ [][TrendNext]_tvars

-----------------------------------------------------------------------------
(* The settlement that the candles of the exchange alone determine: what    *)
(* one catch-up after everything was published would write.                 *)
SettlementOf == [w \in Worlds |->
    LET m == [day |-> MaxDay + 1, venue |-> w.venue, open |-> w.candles,
               from |-> [s \in Symbols |-> NoDay]]
        all[d \in 0..MaxDay] ==
            IF d = 0 THEN <<>> ELSE all[d - 1] \o SettledLines(m, all[d - 1], d)
    IN  all[MaxDay]]
Settlement == SettlementOf[world]

(* The ledger is a function of the candles, whatever the days of the        *)
(* catch-ups, the order in which candles appear, a candle left out of one   *)
(* response, failed writes, crashes and rebuilds: what is on file is always *)
(* a beginning of that settlement (plan_catch_up, confirm_plan, append).    *)
SettledAsPublished ==
    /\ file.lines # <<>> => IsPrefix(file.lines, Settlement)
    /\ \A p \in Procs : run[p].pc \in {"append", "half"} =>
          IsPrefix(run[p].lines \o FlattenSeq(run[p].chunks), Settlement)

(* A key is shown at most once, after it was claimed, and only for a day    *)
(* the published candles settle as an exposure change: also when the ledger *)
(* is rebuilt after a refusal (claim before the toast, alerts.jsonl kept).  *)
ToastedOnce ==
    \A k \in DOMAIN toasts :
        /\ toasts[k] <= 1
        /\ toasts[k] = 1 => k \in alerts.handled
        /\ k \in alerts.handled => k \in exposure_changes(Settlement, 1..MaxDay)

(* What is on file is the settlement of the published candles and nothing   *)
(* else, and toasts are shown once.  Only the lock's holder is inside a     *)
(* catch-up's write section; a damaged file is somebody's append in         *)
(* progress or was left by a crash or by a truncation that failed           *)
(* (LedgerWriter, catch_up).                                                *)
TrendInv ==
    /\ SettledAsPublished
    /\ today \in 0..MaxDay /\ locked \in {Nobody} \cup Procs \cup Readers
    /\ file.torn \in BOOLEAN /\ alerts.torn \in BOOLEAN
    /\ \A p \in Procs : run[p].pc \in {"fetch", "append", "half"} <=> locked = p
    /\ \A r \in Readers : reader[r].pc = "unlock" <=> locked = r
    /\ ~Verified(file) => crashes > 0 \/ \E p \in Procs : run[p].pc = "half"
    /\ ToastedOnce

(* A ledger that verifies only grows, a write in progress or undone keeps   *)
(* every day appended before it, and a damaged file nobody is writing is    *)
(* left exactly as it is, except by the user's rename (append undoes its    *)
(* own failed write and nothing else).                                      *)
NeverRewritten ==
    [][renames' = renames =>
          IF Verified(file) THEN IsPrefix(file.lines, file'.lines)
          ELSE IF \E p \in Procs : run[p].pc = "half"
               THEN \A p \in Procs : run[p].pc = "half" => IsPrefix(run[p].lines, file'.lines)
               ELSE UNCHANGED file]_tvars
=============================================================================
