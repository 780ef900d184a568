------------------------------ MODULE PaperGame ------------------------------
(***************************************************************************)
(* The paper game (domain/paper.py, adapters/paper_store.py, paper_game.py,*)
(* the paper step of heartbeat.py and the game half of paper_monitor.py):  *)
(* a wallet recorded once, plays that open on a cycle's snapshot and close *)
(* on the first quote that touches a level or is due, found by the cycle   *)
(* in the recorded snapshots and by the monitor thread in the snapshots    *)
(* and one Ticker answer of its own.                                       *)
(*                                                                         *)
(* Amounts are cents, prices small integers; a quote <<0, 0>> is one that  *)
(* validate_quote refuses.  A play without levels (stop 0) is a legacy one.*)
(***************************************************************************)
EXTENDS Integers, Sequences, SequencesExt, RiskEngine

CONSTANTS
    PairAsset,          \* the spot pairs and the asset of each
    Markets,            \* the quotes a cycle or a Ticker answer may show, by pair
    PlayEvents,         \* event ids
    Wallets,            \* configured start balances
    Stake, FeeBps, MaxOpen,
    MaxPairs,           \* pairs the monitor requests: PAPER_MAX_OPEN when it started
    LegacyPlays,        \* plays recorded before the levels existed
    MarkAge,            \* NOW_PRICE_MAX_AGE of the page
    MaxPTime, MaxSpots, MaxPlays     \* bounds

ASSUME PaperAssumption ==
    /\ {Stake, MaxOpen} \subseteq Nat \ {0} /\ FeeBps \in Nat
    /\ {MaxPTime, MaxSpots, MaxPlays} \subseteq Nat

VARIABLES
    ptime,              \* the clock
    spots,              \* spot_snapshots: what each cycle recorded, in order
    wallet,             \* the recorded start balance, or NoWallet
    plays, closed,      \* paper_plays, paper_closes
    kept,               \* paper_exit_quotes: the plays whose exit quote is stored
    beat,               \* the heartbeat's paper step
    eye,                \* the monitor thread
    page                \* the control room reading the game for its page

paperVars == <<ptime, spots, wallet, plays, closed, kept, beat, eye, page>>

Pairs == DOMAIN PairAsset
NoWallet == 0
BeatIdle == [pc |-> "idle", ts |-> 0, snap |-> 0, settled |-> FALSE, found |-> {}]
EyeIdle == [pc |-> "idle", watched |-> {}, at |-> 0, market |-> <<>>, found |-> {}]
PageIdle == [pc |-> "idle", plays |-> 0, at |-> 0]

-----------------------------------------------------------------------------
(* The rules of one play.                                                   *)
validate_quote(q) == q[1] > 0 /\ q[2] >= q[1]

(* LONG enters on the ask and watches the bid, SHORT mirrors it. *)
levels(direction, q, atr) ==
    IF direction = "LONG" THEN exit_levels(q[2], atr)
    ELSE [stop |-> q[1] + EX1_STOP_ATR_MULTIPLE * atr,
          target |-> q[1] - EX1_STOP_ATR_MULTIPLE * EX1_TARGET_R_MULTIPLE * atr]

touched(play, at, q) ==
    IF play.direction = "LONG" THEN exit_decision(play, at, q[1])
    ELSE IF q[2] >= play.stop THEN "STOP"
    ELSE IF q[2] <= play.target THEN "TARGET"
    ELSE IF at >= play.due_at THEN "TIME"
    ELSE "none"

(* Twice the mid: the gross is taken on the mids, the result on the touch   *)
(* prices, the fee on both notionals; each is rounded alone, half to even.  *)
settle(direction, stake, fee, entry, exit) ==
    LET mid(q) == q[1] + q[2]
        sign == IF direction = "LONG" THEN 1 ELSE -1
        enter == IF direction = "LONG" THEN entry[2] ELSE entry[1]
        leave == IF direction = "LONG" THEN exit[1] ELSE exit[2]
        gross == sign * stake * (mid(exit) - mid(entry))          \* over mid(entry)
        price == sign * stake * (leave - enter)                   \* over enter
        gross_mid == cents(gross, mid(entry))
        spread == cents(gross * enter - price * mid(entry), mid(entry) * enter)
        fees == cents(stake * fee * (enter + leave), enter * BPS)
    IN  [gross_mid |-> gross_mid, spread |-> spread, fees |-> fees,
         net |-> gross_mid - spread - fees]

-----------------------------------------------------------------------------
(* What the tables say.                                                     *)
ClosedPlays == {closed[k].play : k \in DOMAIN closed}
OpenPlays == {i \in DOMAIN plays : i \notin ClosedPlays}
balance(start) == FoldLeft(LAMBDA sum, c : sum + c.net, start, closed)
available_cash(start) == balance(start) - Stake * Cardinality(OpenPlays)
HasLevels(i) == plays[i].stop # 0

admit(asset, start) ==
    IF \E i \in OpenPlays : PairAsset[plays[i].pair] = asset THEN "ASSET_ALREADY_OPEN"
    ELSE IF Cardinality(OpenPlays) >= MaxOpen THEN "MAX_OPEN"
    ELSE IF available_cash(start) < Stake THEN "INSUFFICIENT_CASH"
    ELSE "none"

-----------------------------------------------------------------------------
(* Finding an exit: no lock is held, no row is written.                     *)
spot_observations(pair, from, upto) ==
    {[at |-> spots[k].at, rank |-> 0, id |-> k, quote |-> spots[k].market[pair]] :
        k \in {j \in DOMAIN spots : /\ spots[j].at >= from /\ spots[j].at <= upto
                                    /\ validate_quote(spots[j].market[pair])}}

extra_observations(extras, play, upto) ==
    {x \in extras : /\ x.pair = play.pair /\ play.entry_ts < x.at /\ x.at <= upto
                    /\ validate_quote(x.quote)}

Earlier(x, y) == \/ x.at < y.at
                 \/ x.at = y.at /\ (x.rank < y.rank \/ (x.rank = y.rank /\ x.id < y.id))
FirstObserved(obs) == CHOOSE x \in obs : \A y \in obs \ {x} : Earlier(x, y)

NoExit == [play |-> 0]
Exit(i, x, reason) == [play |-> i, at |-> x.at, rank |-> x.rank, quote |-> x.quote, reason |-> reason,
                       seen |-> Len(spots)]

find_exit(i, extras, upto) ==
    LET p == plays[i]
        due == spot_observations(p.pair, p.due_at, upto)
        obs == spot_observations(p.pair, p.entry_ts + 1, upto)
               \cup {[at |-> x.at, rank |-> 1, id |-> 0, quote |-> x.quote] : x \in extra_observations(extras, p, upto)}
        hits == {x \in obs : touched(p, x.at, x.quote) # "none"}
    IN  CASE ~HasLevels(i) /\ due # {} -> Exit(i, FirstObserved(due), "LEGACY")
          [] HasLevels(i) /\ hits # {} ->
                LET x == FirstObserved(hits) IN Exit(i, x, touched(p, x.at, x.quote))
          [] OTHER -> NoExit

close_plays_Found(ids, extras, upto) ==
    {find_exit(i, extras, upto) : i \in OpenPlays \cap ids} \ {NoExit}

(* Mutant: the write does not look whether the play was closed meanwhile.    *)
StillOpenPlay_Unchecked(i) == TRUE

(* _write_close, one transaction for all that were found: a play somebody   *)
(* closed meanwhile is left as it is.  A stop or target exit is due when    *)
(* it was touched.                                                          *)
StillOpenPlay(i) == i \notin ClosedPlays

CloseRow(x) ==
    LET p == plays[x.play]
        r == settle(p.direction, Stake, FeeBps, p.quote, x.quote)
    IN  [play |-> x.play, at |-> x.at, reason |-> x.reason, extra |-> x.rank = 1, seen |-> x.seen,
         due |-> IF x.reason \in {"STOP", "TARGET"} THEN x.at ELSE p.due_at, net |-> r.net]

write_closes(found) ==
    LET still == {x \in found : StillOpenPlay(x.play)}
        rows == SetToSortSeq({CloseRow(x) : x \in still}, LAMBDA a, b : a.play < b.play)
    IN  /\ closed' = closed \o rows
        /\ kept' = kept \cup {x.play : x \in {y \in still : y.rank = 1}}

-----------------------------------------------------------------------------
(* The heartbeat: the clock is read at its start, the snapshot is recorded  *)
(* later with that time, then the paper step settles and opens.             *)
ensure_wallet(start) == wallet' = IF wallet = NoWallet THEN start ELSE wallet

PaperInit ==
    /\ ptime = 1 /\ spots = <<>> /\ wallet = NoWallet
    /\ plays \in LegacyPlays /\ closed = <<>> /\ kept = {}
    /\ beat = BeatIdle /\ eye = EyeIdle /\ page = PageIdle

BeatStart ==
    /\ beat.pc = "idle" /\ Len(spots) < MaxSpots
    /\ \A k \in DOMAIN spots : spots[k].at < ptime
    /\ beat' = [BeatIdle EXCEPT !.pc = "record", !.ts = ptime]
    /\ UNCHANGED <<ptime, spots, wallet, plays, closed, kept, eye, page>>

RecordSpots ==
    /\ beat.pc = "record"
    /\ \E m \in Markets : spots' = Append(spots, [at |-> beat.ts, market |-> m])
    /\ beat' = [beat EXCEPT !.pc = "settle", !.snap = Len(spots) + 1]
    /\ UNCHANGED <<ptime, wallet, plays, closed, kept, eye, page>>

settle_due ==
    /\ beat.pc = "settle"
    /\ \E start \in Wallets : ensure_wallet(start)
    /\ beat' = [beat EXCEPT !.pc = "close", !.found = close_plays_Found(DOMAIN plays, {}, beat.ts)]
    /\ UNCHANGED <<ptime, spots, plays, closed, kept, eye, page>>

SettleDueWrites ==
    /\ beat.pc = "close"
    /\ write_closes(beat.found)
    /\ beat' = [beat EXCEPT !.pc = "open", !.settled = TRUE, !.found = {}]
    /\ UNCHANGED <<ptime, spots, wallet, plays, eye, page>>

(* A settle that raises (a busy database) is counted; the events still open.*)
SettleDueFails ==
    /\ beat.pc \in {"settle", "close"}
    /\ beat' = [beat EXCEPT !.pc = "open", !.found = {}]
    /\ UNCHANGED <<ptime, spots, wallet, plays, closed, kept, eye, page>>

(* A candidate enters on the cycle's own recorded touch; an ATR of 0 is one *)
(* that is missing, invalid or of another pair.                             *)
Refusal(event, pair, direction, q, atr, start) ==
    LET l == levels(direction, q, atr)
    IN  CASE \E i \in DOMAIN plays : plays[i].event = event -> "ALREADY_RECORDED"
          [] direction \notin {"LONG", "SHORT"} -> "NO_DIRECTION"
          [] ~validate_quote(q) -> "INVALID_PRICE"
          [] atr = 0 -> "NO_VALID_ATR"
          [] l.stop <= 0 \/ l.target <= 0 -> "INVALID_LEVELS"
          [] OTHER -> admit(PairAsset[pair], start)

PlayRow(event, pair, direction, q, atr) ==
    LET l == levels(direction, q, atr)
    IN  [event |-> event, pair |-> pair, direction |-> direction, quote |-> q, entry_ts |-> beat.ts,
         stop |-> l.stop, target |-> l.target, due_at |-> beat.ts + HoldLength]

open_for_events(event, pair, direction, atr) ==
    LET q == spots[beat.snap].market[pair]
    IN  /\ beat.pc = "open" /\ Len(plays) < MaxPlays
        /\ \E start \in Wallets : ensure_wallet(start)
        /\ plays' = IF Refusal(event, pair, direction, q, atr, wallet') = "none"
                    THEN Append(plays, PlayRow(event, pair, direction, q, atr)) ELSE plays
        /\ UNCHANGED <<ptime, spots, closed, kept, beat, eye, page>>

BeatEnds ==
    /\ beat.pc = "open" /\ beat' = BeatIdle
    /\ UNCHANGED <<ptime, spots, wallet, plays, closed, kept, eye, page>>

-----------------------------------------------------------------------------
(* The monitor thread: open plays with levels, the pairs of the oldest up   *)
(* to the limit, one Ticker request, and the same close path.               *)
MonitorPairs ==
    LET with == {i \in OpenPlays : HasLevels(i)}
        before(i) == {plays[j].pair : j \in {k \in with : k < i}} \ {plays[i].pair}
    IN  {plays[i].pair : i \in {j \in with : Cardinality(before(j)) < MaxPairs}}

MonitorWatch ==
    /\ eye.pc = "idle" /\ MonitorPairs # {}
    /\ eye' = [EyeIdle EXCEPT !.pc = "ask", !.watched = {i \in OpenPlays : HasLevels(i) /\ plays[i].pair \in MonitorPairs}]
    /\ UNCHANGED <<ptime, spots, wallet, plays, closed, kept, beat, page>>

TickerAnswers ==
    /\ eye.pc = "ask"
    /\ \E m \in Markets : eye' = [eye EXCEPT !.pc = "find", !.at = ptime, !.market = m]
    /\ UNCHANGED <<ptime, spots, wallet, plays, closed, kept, beat, page>>

EyeExtras == {[pair |-> p, at |-> eye.at, quote |-> eye.market[p]] : p \in Pairs}

MonitorFinds ==
    /\ eye.pc = "find"
    /\ LET quoted == {i \in eye.watched : validate_quote(eye.market[plays[i].pair])}
       IN  eye' = [EyeIdle EXCEPT !.pc = "write", !.found = close_plays_Found(quoted, EyeExtras, ptime)]
    /\ UNCHANGED <<ptime, spots, wallet, plays, closed, kept, beat, page>>

MonitorCloses ==
    /\ eye.pc = "write"
    /\ write_closes(eye.found)
    /\ eye' = EyeIdle
    /\ UNCHANGED <<ptime, spots, wallet, plays, beat, page>>

(* Every failure of a tick is an outcome; the next tick starts afresh. The  *)
(* thread may also be stopped here.                                         *)
MonitorGivesUp ==
    /\ eye.pc # "idle" /\ eye' = EyeIdle
    /\ UNCHANGED <<ptime, spots, wallet, plays, closed, kept, beat, page>>

(* The control room's page: the clock, the wallet and the plays, then the   *)
(* closes, each in a reading of its own; nothing is written.                *)
reporting_mark(i, at) ==
    LET seen == {k \in DOMAIN spots : spots[k].at >= plays[i].entry_ts /\ spots[k].at <= at}
        fresh == {k \in seen : at - spots[k].at <= MarkAge}
        valid == {k \in fresh : validate_quote(spots[k].market[plays[i].pair])}
    IN  CASE valid # {} -> [status |-> "marked", quote |-> spots[Max(valid)].market[plays[i].pair]]
          [] valid = {} /\ seen = {} -> [status |-> "missing_quote"]
          [] valid = {} /\ fresh # {} -> [status |-> "invalid_quote"]
          [] OTHER -> [status |-> "stale_quote"]

value_play(i, at) ==
    LET p == plays[i] IN settle(p.direction, Stake, FeeBps, p.quote, reporting_mark(i, at).quote).net

PageOpen(n) == {i \in 1..n : i \notin ClosedPlays}

(* Mutant: a play without a mark counts as nothing.                          *)
valuation_ZeroFilled(n, at) ==
    LET marked == {i \in PageOpen(n) : reporting_mark(i, at).status = "marked"}
    IN  [free_cash |-> balance(wallet) - Stake * Cardinality(PageOpen(n)), known |-> TRUE,
         equity |-> balance(wallet) + MapThenSumSet(LAMBDA i : value_play(i, at), marked)]

(* One open play without a mark makes the equity unknown. *)
valuation(n, at) ==
    LET unmarked == {i \in PageOpen(n) : reporting_mark(i, at).status # "marked"}
        open_net == MapThenSumSet(LAMBDA i : value_play(i, at), PageOpen(n))
        free_cash == balance(wallet) - Stake * Cardinality(PageOpen(n))
    IN  IF unmarked = {}
        THEN [free_cash |-> free_cash, known |-> TRUE,
              equity |-> free_cash + (Stake * Cardinality(PageOpen(n)) + open_net)]
        ELSE [free_cash |-> free_cash, known |-> FALSE, equity |-> 0]

PageReadsPlays ==
    /\ page.pc = "idle" /\ wallet # NoWallet
    /\ page' = [pc |-> "half", plays |-> Len(plays), at |-> ptime]
    /\ UNCHANGED <<ptime, spots, wallet, plays, closed, kept, beat, eye>>

PageShows ==
    /\ page.pc = "half" /\ page' = PageIdle
    /\ UNCHANGED <<ptime, spots, wallet, plays, closed, kept, beat, eye>>

PaperClock ==
    /\ ptime < MaxPTime /\ ptime' = ptime + 1
    /\ UNCHANGED <<spots, wallet, plays, closed, kept, beat, eye, page>>

PaperRestart ==
    /\ beat.pc # "idle" \/ eye.pc # "idle"
    /\ beat' = BeatIdle /\ eye' = EyeIdle
    /\ UNCHANGED <<ptime, spots, wallet, plays, closed, kept, page>>

PaperNext ==
    \/ BeatStart \/ RecordSpots \/ settle_due \/ SettleDueWrites \/ SettleDueFails \/ BeatEnds
    \/ \E event \in PlayEvents, pair \in Pairs, direction \in {"LONG", "SHORT", "NEUTRAL"}, atr \in {0, 1} :
          open_for_events(event, pair, direction, atr)
    \/ MonitorWatch \/ TickerAnswers \/ MonitorFinds \/ MonitorCloses \/ MonitorGivesUp
    \/ PageReadsPlays \/ PageShows \/ PaperClock \/ PaperRestart

PaperSpec == PaperInit /\ [][PaperNext]_paperVars

-----------------------------------------------------------------------------
Touches(i, k) ==
    LET s == spots[k]
    IN  /\ validate_quote(s.market[plays[i].pair])
        /\ IF HasLevels(i) THEN s.at > plays[i].entry_ts /\ touched(plays[i], s.at, s.market[plays[i].pair]) # "none"
           ELSE s.at >= plays[i].due_at

(* A close is on an observation after the entry, never before it was due,   *)
(* and none of the snapshots on record when it was looked up touched the    *)
(* play before it; once a cycle has settled, no open play has a touching    *)
(* snapshot up to the cycle's time (_find_exit outside the lock, the cycle  *)
(* and the monitor both finding).                                           *)
PlaysExitFirst ==
    /\ \A c \in Range(closed) :
          /\ c.at > plays[c.play].entry_ts /\ c.at >= c.due
          /\ \A k \in 1..c.seen : Touches(c.play, k) =>
                spots[k].at > c.at \/ (spots[k].at = c.at /\ ~c.extra)
    /\ beat.pc = "open" /\ beat.settled =>
          \A i \in OpenPlays, k \in DOMAIN spots : ~Touches(i, k)

(* A play ends at its first touching observation, whoever finds it.         *)
(* One close per play, and the stored quote of exactly the closes a Ticker  *)
(* answer made; one open play per asset, at most MaxOpen; one play per      *)
(* event; a play only after the wallet (open_candidates and _write_close    *)
(* under the write lock, whoever found the exit first).                     *)
PaperInv ==
    /\ PlaysExitFirst
    /\ ptime \in 1..MaxPTime /\ wallet \in {NoWallet} \cup Wallets
    /\ \A j, k \in DOMAIN closed : closed[j].play = closed[k].play => j = k
    /\ kept = {closed[k].play : k \in {j \in DOMAIN closed : closed[j].extra}}
    /\ \A i, j \in OpenPlays : i # j => PairAsset[plays[i].pair] # PairAsset[plays[j].pair]
    /\ Cardinality(OpenPlays) <= MaxOpen
    /\ \A i, j \in DOMAIN plays : plays[i].event = plays[j].event => i = j
    /\ \A i \in DOMAIN plays : HasLevels(i) => wallet # NoWallet

(* A play is opened only from cash that no other open play holds, whatever  *)
(* the monitor has closed since the cycle settled (open_candidates reads    *)
(* the balance under the write lock), and nothing recorded is rewritten.    *)
PaperAppends ==
    [][/\ plays' # plays => FoldLeft(LAMBDA sum, c : sum + c.net, wallet', closed)
                              >= Stake * Cardinality({i \in DOMAIN plays' : i \notin ClosedPlays})
       /\ IsPrefix(plays, plays') /\ IsPrefix(closed, closed')
       /\ wallet # NoWallet => wallet' = wallet]_paperVars

CloseAt(i, at) ==
    CloseRow([play |-> i, at |-> at, reason |-> "TIME", rank |-> 0, seen |-> 0,
              quote |-> reporting_mark(i, at).quote])

(* An equity the page shows is what the wallet would hold had every play it *)
(* lists been closed on its latest recorded quote, and it shows one only    *)
(* when each has such a quote; its free cash is the cash a play could open  *)
(* with, unless one opened while the page was read: the closes written      *)
(* between its readings are in both (PaperReader.read reads plays, then     *)
(* closes).                                                                 *)
PageTrue ==
    [][page.pc = "half" /\ page'.pc = "idle" =>
          LET shown == valuation(page.plays, page.at)
              open == {i \in DOMAIN plays : i <= page.plays /\ i \notin ClosedPlays}
              Quoted(i) == \E k \in DOMAIN spots :
                              /\ spots[k].at \in plays[i].entry_ts .. page.at
                              /\ page.at - spots[k].at <= MarkAge
                              /\ validate_quote(spots[k].market[plays[i].pair])
          IN  /\ shown.known = \A i \in open : Quoted(i)
              /\ shown.known => shown.equity =
                    FoldLeft(LAMBDA sum, c : sum + c.net, wallet,
                             closed \o SetToSeq({CloseAt(i, page.at) : i \in open}))
              /\ Len(plays) = page.plays => shown.free_cash = available_cash(wallet)]_paperVars
=============================================================================
