----------------------------- MODULE Heartbeat -----------------------------
(***************************************************************************)
(* The cycle of the radar process (heartbeat.py run_heartbeat) from the    *)
(* market to the run record: the funnel of assets, the evidence seal, the  *)
(* local review (inline, or in the shadow thread of qwen_shadow.py), the   *)
(* router, the events, and what is told of them to the paper game, the     *)
(* pilot, the review log (adapters/qwen_review_store.py) and the run log.  *)
(*                                                                         *)
(* What the levels find in an asset, and what a review returns and when    *)
(* (module QwenReview), are inputs.  An exception that is not caught ends  *)
(* the loop and the process with its threads (cli._loop_cycles catches     *)
(* none); the bridge, elsewhere, closes events.                            *)
(***************************************************************************)
EXTENDS QwenReview, Sequences, FiniteSetsExt

(* The demand router (router.py): how deep an analysis a sealed finalist    *)
(* deserves.  Scores are integers of one hundred, ratios percent, an        *)
(* absent number is None; a machine of its own enumerates its inputs.       *)

CONSTANTS
    SONNET_MIN_OPPORTUNITY, FABLE_MIN_OPPORTUNITY, FABLE_MIN_CONFIRMATIONS,
    TAKER_IMBALANCE_CONFIRM, VOLUME_CONFIRM,
    RouterContexts, RouterReviews

VARIABLES ctx, qreview

routerVars == <<ctx, qreview>>
None == -1000
NoReview == [ok |-> FALSE, veto |-> FALSE, call_sonnet |-> FALSE, call_fable |-> FALSE, confidence |-> "LOW", direction |-> "NONE"]

valid_taker_buy_ratio(value) == IF value \in 0..100 THEN value ELSE None

count_confirmations(c, r) ==
    LET taker == valid_taker_buy_ratio(c.taker_buy_ratio)
        confirmed == [momentum_2atr_coherent |-> /\ c.momentum_1h_atr # None /\ c.momentum_coherent
                                                 /\ (c.momentum_1h_atr >= 2 \/ c.momentum_1h_atr <= -2),
                      volume_3x_range_confirmed |-> c.volume # None /\ c.volume >= 3 /\ c.range_expansion,
                      breakout_with_volume |-> c.breakout /\ c.volume # None /\ c.volume >= VOLUME_CONFIRM,
                      squeeze_release |-> c.setup_type = "SQUEEZE_RELEASE",
                      derivatives_coherent |-> c.derivatives,
                      taker_imbalance |-> /\ taker # None
                                          /\ \/ c.direction = "LONG" /\ taker >= TAKER_IMBALANCE_CONFIRM
                                             \/ c.direction = "SHORT" /\ 100 - taker >= TAKER_IMBALANCE_CONFIRM,
                      qwen_call_fable_high |-> r.ok /\ r.call_fable /\ r.confidence = "HIGH"]
    IN  Cardinality({name \in DOMAIN confirmed : confirmed[name]})

compute_confidence(data_quality_ok, n) ==
    CASE ~data_quality_ok \/ n = 0 -> "LOW" [] data_quality_ok /\ n \in 1..2 -> "MEDIUM" [] OTHER -> "HIGH"

\* In eightieths of a hundredth: opportunity half, confirmations 0.3 of at most
\* four, tradeability 0.2.
model_demand_score(c, n) ==
    40 * (IF c.opportunity = None THEN 0 ELSE c.opportunity) + 600 * (IF n > 4 THEN 4 ELSE n)
        + (CASE c.tradeability = "TRADEABLE" -> 1600 [] c.tradeability = "CONSTRAINED" -> 800 [] OTHER -> 0)

Ignored == [decision |-> "IGNORE", confidence |-> "LOW", score |-> 0]

\* Without a review one more confirmation is asked for.
min_fable_confirmations(r) == IF r.ok THEN FABLE_MIN_CONFIRMATIONS ELSE FABLE_MIN_CONFIRMATIONS + 1

route(c, r, data_quality_ok) ==
    LET n == count_confirmations(c, r)
        conflict == r.ok /\ r.direction # "NONE" /\ c.direction # "NONE" /\ r.direction # c.direction
        scored(least) == c.opportunity # None /\ c.opportunity >= least
        fable == \/ scored(FABLE_MIN_OPPORTUNITY) /\ n >= min_fable_confirmations(r)
                 \/ r.ok /\ r.call_fable
                 \/ conflict
        sonnet == scored(SONNET_MIN_OPPORTUNITY) \/ (r.ok /\ r.call_sonnet)
        found(decision) == [decision |-> decision, confidence |-> compute_confidence(data_quality_ok, n), score |-> model_demand_score(c, n)]
    IN  IF c.tradeability = "UNTRADEABLE" \/ c.setup_type = "NONE" \/ (r.ok /\ r.veto /\ r.confidence = "HIGH") THEN Ignored
        ELSE found(CASE fable -> "FABLE" [] ~fable /\ sonnet -> "SONNET" [] OTHER -> "IGNORE")

-----------------------------------------------------------------------------
RouterInit == ctx \in RouterContexts /\ qreview = NoReview

\* The same finalist with a review that came back.
Review(r) == qreview = NoReview /\ qreview' = r /\ UNCHANGED ctx

RouterNext == \E r \in RouterReviews : Review(r)
RouterSpec == RouterInit /\ [][RouterNext]_routerVars

Rank(d) == CASE d = "IGNORE" -> 0 [] d = "SONNET" -> 1 [] d = "FABLE" -> 2

\* A review that arrives changes the demand in two ways only: a veto of high
\* confidence silences the finalist; any other raises it or leaves it, in the
\* decision, the confidence and the score alike.  A finalist is never analysed
\* less because the local model answered (route, count_confirmations).
ReviewNeverLowers ==
    [][qreview' # qreview =>
       LET before == route(ctx, qreview, TRUE) after == route(ctx', qreview', TRUE)
       IN  IF qreview'.veto /\ qreview'.confidence = "HIGH" THEN after = Ignored
           ELSE Rank(after.decision) >= Rank(before.decision) /\ after.score >= before.score]_routerVars

-----------------------------------------------------------------------------
(* The cycle.                                                               *)

CONSTANTS
    Scanned,            \* assets of the universe
    MaxFinalists, ShortlistSize, TickerMaxAge,
    Modes,              \* the RADAR_QWEN_MODE values looked at
    CycleContexts, CycleReviews,    \* the router's inputs met in a cycle
    MaxCycles, MaxAborts, MaxBorn   \* bounds

VARIABLES
    mode,               \* RADAR_QWEN_MODE
    hb,                 \* the cycle under way
    shadow,             \* the shadow thread: where it is, and its run
    inferring,          \* inference_active: a review whose caller gave up still holds the slot
    completed,          \* the shadow's completion queue, of runs
    batches,            \* QwenReviewBatch of a run
    decided,            \* history: the decisions a run acted on
    reviews,            \* table qwen_reviews
    born,               \* the events created, in order
    runlog, runs,       \* the run-record file and table runs
    aborts              \* bound

heartbeatVars == <<mode, hb, shadow, inferring, completed, batches, decided, reviews, born, runlog, runs, aborts>>

Resting == [pc |-> "idle", full |-> FALSE, S |-> {}, age |-> 0, again |-> {}, againAge |-> 0, asked |-> {},
            status |-> "SKIPPED", todo |-> {}, new |-> {}, failed |-> FALSE]
NoThread == [pc |-> "none", run |-> 0]
NoBatch == [finalists |-> {}, decisions |-> <<>>, result |-> "none"]
Run == Len(batches)

HeartbeatInit ==
    /\ mode \in Modes /\ hb = Resting /\ shadow = NoThread /\ completed = <<>> /\ batches = <<>> /\ decided = <<>>
    /\ reviews = {} /\ born = <<>> /\ runlog = {} /\ runs = {} /\ aborts = 0 /\ inferring = FALSE

-----------------------------------------------------------------------------
\* The funnel, each level on what the one before it left.
StartCycle(full) ==
    /\ hb.pc = "idle" /\ Run < MaxCycles
    /\ hb' = [Resting EXCEPT !.pc = "market", !.full = full]
    /\ batches' = Append(batches, NoBatch) /\ decided' = Append(decided, <<>>)
    /\ UNCHANGED <<mode, shadow, inferring, completed, reviews, born, runlog, runs, aborts>>

\* Spot and futures tickers are read and the clock probed; a row whose check
\* fails hard is dropped, the others are grouped, stored and old ones pruned.
ReadMarket(valid) ==
    /\ hb.pc = "market"
    /\ hb' = [hb EXCEPT !.pc = "l1", !.S = valid]
    /\ UNCHANGED <<mode, shadow, inferring, completed, batches, decided, reviews, born, runlog, runs, aborts>>

\* Freshness counts only under a clock that passes.
consumable(S, clock) == IF clock THEN S ELSE {}

\* L1 on what can be consumed; the most anomalous are shortlisted.
RunL1(clock, passing) ==
    /\ hb.pc = "l1"
    /\ LET entries == consumable(hb.S \cap passing, clock)
       IN  \E shortlist \in kSubset(Min({ShortlistSize, Cardinality(entries)}), entries) :
               hb' = [hb EXCEPT !.pc = "l2", !.S = shortlist]
    /\ UNCHANGED <<mode, shadow, inferring, completed, batches, decided, reviews, born, runlog, runs, aborts>>

\* OHLC, structure and opportunity (run_l2), then the labelling of older rows.
RunL2(kept) ==
    /\ hb.pc = "l2"
    /\ hb' = IF hb.full THEN [hb EXCEPT !.S = @ \cap kept, !.pc = "l3"] ELSE [Resting EXCEPT !.pc = "record"]
    /\ UNCHANGED <<mode, shadow, inferring, completed, batches, decided, reviews, born, runlog, runs, aborts>>

\* select_finalists and run_l3: the finalists keep their place whatever L3 found.
RunL3(finalists) ==
    /\ hb.pc = "l3" /\ finalists \subseteq hb.S /\ Cardinality(finalists) <= MaxFinalists
    /\ hb' = [hb EXCEPT !.S = finalists, !.pc = "refresh"]
    /\ UNCHANGED <<mode, shadow, inferring, completed, batches, decided, reviews, born, runlog, runs, aborts>>

\* A ticker too old for the seal is read again, once, for the finalists only.
RefreshTickers(answered) ==
    /\ hb.pc = "refresh"
    /\ hb' = [hb EXCEPT !.pc = "seal", !.againAge = 0,
                        !.again = IF hb.age > TickerMaxAge THEN answered \cap hb.S ELSE {}]
    /\ UNCHANGED <<mode, shadow, inferring, completed, batches, decided, reviews, born, runlog, runs, aborts>>

seal_tickers(a) == IF a \in hb.again THEN hb.againAge ELSE hb.age

\* The evidence seal: the rest of the evidence, and the clock, are inputs.
SealEvidence(clock, passing) ==
    /\ hb.pc = "seal"
    /\ hb' = [hb EXCEPT !.pc = "qwen", !.age = 0, !.againAge = 0, !.again = {},
                        !.S = {a \in consumable(hb.S \cap passing, clock) : seal_tickers(a) <= TickerMaxAge}]
    /\ UNCHANGED <<mode, shadow, inferring, completed, batches, decided, reviews, born, runlog, runs, aborts>>

-----------------------------------------------------------------------------
\* The local review of the sealed finalists that clear the pre-gate.
SkipReview(eligible) ==
    /\ hb.pc = "qwen" /\ (mode = "off" \/ eligible = {})
    /\ hb' = [hb EXCEPT !.pc = "route", !.todo = hb.S]
    /\ UNCHANGED <<mode, shadow, inferring, completed, batches, decided, reviews, born, runlog, runs, aborts>>

\* review_finalists, seen from its caller: refused while another inference is
\* active, otherwise a result, which after a timeout leaves an active inference.
Results == {"OK", "TIMEOUT", "UNAVAILABLE"}
review_finalists(result) ==
    /\ inferring => result = "UNAVAILABLE"
    /\ inferring' = (inferring \/ result = "TIMEOUT")

InlineReview(eligible, result) ==
    /\ hb.pc = "qwen" /\ mode = "inline" /\ eligible \subseteq hb.S /\ eligible # {}
    /\ review_finalists(result)
    /\ hb' = [hb EXCEPT !.pc = "route", !.todo = hb.S, !.asked = eligible, !.status = result]
    /\ batches' = [batches EXCEPT ![Run] = [@ EXCEPT !.finalists = eligible, !.result = result]]
    /\ UNCHANGED <<mode, shadow, completed, decided, reviews, born, runlog, runs, aborts>>

\* QwenShadow.submit: dropped while a thread lives or an inference is active.
ShadowSubmit(eligible) ==
    /\ hb.pc = "qwen" /\ mode = "shadow" /\ eligible \subseteq hb.S /\ eligible # {}
    /\ hb' = [hb EXCEPT !.pc = "route", !.todo = hb.S]
    /\ IF shadow.pc # "none" \/ inferring
       THEN UNCHANGED <<shadow, batches>>
       ELSE /\ shadow' = [pc |-> "review", run |-> Run]
            /\ batches' = [batches EXCEPT ![Run].finalists = eligible]
    /\ UNCHANGED <<mode, inferring, completed, decided, reviews, born, runlog, runs, aborts>>

\* _run: the batch is posted, with a result or the error; then the thread ends.
ShadowPosts(result) ==
    /\ shadow.pc = "review"
    /\ IF result = "ERROR" THEN UNCHANGED inferring ELSE review_finalists(result)
    /\ batches' = [batches EXCEPT ![shadow.run].result = result]
    /\ completed' = Append(completed, shadow.run) /\ shadow' = [shadow EXCEPT !.pc = "ending"]
    /\ UNCHANGED <<mode, hb, decided, reviews, born, runlog, runs, aborts>>

\* The transport of an abandoned review returns at last.
InferenceEnds ==
    /\ inferring /\ inferring' = FALSE
    /\ UNCHANGED <<mode, hb, shadow, completed, batches, decided, reviews, born, runlog, runs, aborts>>

ShadowEnds ==
    /\ shadow.pc = "ending" /\ shadow' = NoThread
    /\ UNCHANGED <<mode, hb, inferring, completed, batches, decided, reviews, born, runlog, runs, aborts>>

-----------------------------------------------------------------------------
OpenEvent(a) == \E i \in DOMAIN born : born[i].asset = a /\ born[i].open

\* One sealed finalist through the router, the cooldown and the event queue;
\* only an event created here is remembered for the paper game and the pilot.
RouteOne(a, c, r, allowed) ==
    /\ hb.pc = "route" /\ a \in hb.todo
    /\ r # NoReview => a \in hb.asked /\ hb.status = "OK"
    /\ r = NoReview => a \notin hb.asked \/ hb.status # "OK"
    /\ LET decision == route(c, r, TRUE).decision
           new == decision # "IGNORE" /\ allowed /\ ~OpenEvent(a)
       IN  /\ decided' = [decided EXCEPT ![Run] = Append(@, <<a, decision>>)]
           /\ born' = IF new THEN Append(born, [asset |-> a, run |-> Run, open |-> TRUE, paper |-> 0, pilot |-> 0]) ELSE born
           /\ hb' = [hb EXCEPT !.todo = @ \ {a}, !.new = IF new THEN @ \cup {Len(born) + 1} ELSE @]
    /\ Len(born) < MaxBorn
    /\ UNCHANGED <<mode, shadow, inferring, completed, batches, reviews, runlog, runs, aborts>>

\* The batch learns the decisions before anyone can drain it.
RouteEnds ==
    /\ hb.pc = "route" /\ hb.todo = {}
    /\ hb' = [hb EXCEPT !.pc = "record", !.S = {}, !.asked = {}, !.status = "SKIPPED"]
    /\ batches' = IF batches[Run].finalists = {} THEN batches ELSE [batches EXCEPT ![Run].decisions = decided[Run]]
    /\ UNCHANGED <<mode, shadow, inferring, completed, decided, reviews, born, runlog, runs, aborts>>

DecisionIn(list, a) == IF \E i \in DOMAIN list : list[i][1] = a THEN list[CHOOSE i \in DOMAIN list : list[i][1] = a][2] ELSE "none"

\* QwenReviewBatch.rows and record_batch: one row per submitted finalist, a
\* (run, asset) already stored is left alone.
rows(run) == {[run |-> run, asset |-> a, decision |-> DecisionIn(batches[run].decisions, a), status |-> batches[run].result] :
                 a \in batches[run].finalists}
record_batch(run) == {row \in rows(run) : ~\E old \in reviews : old.run = run /\ old.asset = row.asset}

\* drain: every finished batch is recorded on this thread, each failure alone.
\* (Registering outcome subjects follows, each failure alone too.)
finished == (IF mode = "inline" /\ batches[Run].result # "none" THEN {Run} ELSE {}) \cup {completed[i] : i \in DOMAIN completed}
RecordReviews(lost) ==
    /\ hb.pc = "record" /\ lost \subseteq finished
    /\ reviews' = reviews \cup UNION {record_batch(run) : run \in finished \ lost}
    /\ completed' = <<>> /\ hb' = [hb EXCEPT !.pc = "paper"]
    /\ UNCHANGED <<mode, shadow, inferring, batches, decided, born, runlog, runs, aborts>>

\* The paper game and the pilot are offered each new event, each failure caught
\* and counted; a step that fails as a whole offers none.
OfferPaper(taken) ==
    /\ hb.pc = "paper" /\ taken \subseteq hb.new
    /\ born' = [i \in DOMAIN born |-> IF i \in taken THEN [born[i] EXCEPT !.paper = @ + 1] ELSE born[i]]
    /\ hb' = [hb EXCEPT !.pc = "pilot", !.failed = @ \/ taken # hb.new]
    /\ UNCHANGED <<mode, shadow, inferring, completed, batches, decided, reviews, runlog, runs, aborts>>

OfferPilot(taken) ==
    /\ hb.pc = "pilot" /\ taken \subseteq hb.new
    /\ born' = [i \in DOMAIN born |-> IF i \in taken THEN [born[i] EXCEPT !.pilot = @ + 1] ELSE born[i]]
    /\ hb' = [hb EXCEPT !.pc = "alerts", !.failed = @ \/ taken # hb.new]
    /\ UNCHANGED <<mode, shadow, inferring, completed, batches, decided, reviews, runlog, runs, aborts>>

\* The alerts, the line of the run-record file, and the row of table runs.
WriteRecord ==
    /\ hb.pc = "alerts" /\ runlog' = runlog \cup {[run |-> Run, failed |-> hb.failed]}
    /\ hb' = [hb EXCEPT !.pc = "insert"]
    /\ UNCHANGED <<mode, shadow, inferring, completed, batches, decided, reviews, born, runs, aborts>>

InsertRun ==
    /\ hb.pc = "insert" /\ runs' = runs \cup {Run} /\ hb' = Resting
    /\ UNCHANGED <<mode, shadow, inferring, completed, batches, decided, reviews, born, runlog, aborts>>

\* An exception nobody catches, or the end of the process, at any point; the
\* loop is started again with nothing in memory.
Abort ==
    /\ aborts < MaxAborts /\ aborts' = aborts + 1
    /\ hb' = Resting /\ shadow' = NoThread /\ completed' = <<>>
    /\ inferring' = FALSE
    /\ UNCHANGED <<mode, batches, decided, reviews, born, runlog, runs>>

-----------------------------------------------------------------------------
\* The bridge closes an event at any time.
BridgeCloses(i) ==
    /\ born[i].open /\ born' = [born EXCEPT ![i].open = FALSE]
    /\ UNCHANGED <<mode, hb, shadow, inferring, completed, batches, decided, reviews, runlog, runs, aborts>>

\* Time between two stages, while the tickers' age still matters.
StageTakesTime ==
    /\ hb.pc \in {"l1", "l2", "l3", "refresh", "seal"} /\ hb.age <= TickerMaxAge
    /\ hb' = [hb EXCEPT !.age = @ + 1, !.againAge = @ + 1]
    /\ UNCHANGED <<mode, shadow, inferring, completed, batches, decided, reviews, born, runlog, runs, aborts>>

HeartbeatNext ==
    \/ \E full \in BOOLEAN : StartCycle(full)
    \/ \E clock \in BOOLEAN, A \in SUBSET Scanned : RunL1(clock, A) \/ SealEvidence(clock, A)
    \/ \E A \in SUBSET Scanned : ReadMarket(A) \/ RunL2(A) \/ RunL3(A) \/ RefreshTickers(A) \/ SkipReview(A) \/ ShadowSubmit(A)
    \/ \E A \in SUBSET Scanned, result \in Results : InlineReview(A, result)
    \/ \E result \in Results \cup {"ERROR"} : ShadowPosts(result)
    \/ ShadowEnds \/ InferenceEnds
    \/ \E a \in Scanned, c \in CycleContexts, r \in CycleReviews \cup {NoReview}, allowed \in BOOLEAN : RouteOne(a, c, r, allowed)
    \/ RouteEnds \/ (\E lost \in SUBSET (1..MaxCycles) : RecordReviews(lost))
    \/ \E taken \in SUBSET (1..MaxBorn) : OfferPaper(taken) \/ OfferPilot(taken)
    \/ WriteRecord \/ InsertRun \/ Abort \/ StageTakesTime
    \/ \E i \in DOMAIN born : BridgeCloses(i)

HeartbeatSpec == HeartbeatInit /\ [][HeartbeatNext]_heartbeatVars

-----------------------------------------------------------------------------
\* What the cycle leaves behind agrees.  An event is offered to the paper game
\* and to the pilot at most once, by the cycle that created it, and one that was
\* not offered belongs to a cycle that did not finish or that counted a failure.
\* An asset has one open event.  A stored review carries the decision its own
\* cycle acted on, however many cycles later it is drained; an asset is reviewed
\* once per cycle.  Every row of runs has its line in the run log
\* (run_heartbeat, QwenReviewBatch.rows, record_batch).
CycleInv ==
    /\ \A i \in DOMAIN born : born[i].paper <= 1 /\ born[i].pilot <= 1
    /\ \A i, j \in DOMAIN born : born[i].open /\ born[j].open /\ born[i].asset = born[j].asset => i = j
    /\ \A record \in runlog : ~record.failed =>
         \A i \in DOMAIN born : born[i].run = record.run => born[i].paper = 1 /\ born[i].pilot = 1
    /\ \A row \in reviews : row.decision # "none" /\ row.decision = DecisionIn(decided[row.run], row.asset)
    /\ \A x, y \in reviews : x.run = y.run /\ x.asset = y.asset => x = y
    /\ runs \subseteq {record.run : record \in runlog}

\* The cycle and its local review: one inference at a time, whoever gave up
\* waiting, and no answer after its deadline (SlotInv, _review_batch); events
\* offered once, reviews stored with the decision of their own cycle, a log
\* line for every run (CycleInv, run_heartbeat).
CycleSound == SlotInv /\ CycleInv
=============================================================================
