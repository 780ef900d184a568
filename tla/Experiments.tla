----------------------------- MODULE Experiments -----------------------------
(* The experiment ledger: the observations of a cohort grouped into          *)
(* episodes, split by time into fit, calibration and test blocks with a      *)
(* purge, judged against the minima, calibrated, and sealed as attempts of   *)
(* the cohort (domain/experiments.py, domain/calibration.py).  The numbers   *)
(* of a fit are not modelled: a solver converges or not, and the measures of *)
(* its test are on either side of their limits.                              *)
EXTENDS Naturals, Sequences, FiniteSets, SequencesExt

CONSTANTS Histories,            \* the labelled outcomes that may come to be, as sets of observations
          Cohort, CostPolicy,   \* the cohort and the cost policy of the benchmark
          AsOfs,                \* the times of an evaluation
          MAX_LABEL_HORIZON, DayLength,
          MIN_MATURED_EPISODES, MIN_TEST_EPISODES, MIN_CALENDAR_DAYS,
          BIN_COUNT, MIN_BIN_SAMPLES,
          MaxManifests

ASSUME ExperimentAssumption ==
    /\ MAX_LABEL_HORIZON \in Nat \ {0} /\ DayLength \in Nat \ {0}
    /\ BIN_COUNT \in Nat \ {0} /\ MIN_TEST_EPISODES >= BIN_COUNT

VARIABLES history,      \* the observations
          evaluation,   \* what was evaluated last, and whether it is calibrated
          manifests     \* the trial ledger

experimentVars == <<history, evaluation, manifests>>

----------------------------------------------------------------------------
FIT_PERCENT == 60
CALIBRATION_PERCENT == 20

\* The attributes a cohort fixes, in the order they are compared.
CohortKey == <<"setup", "direction", "horizon", "feature_version", "outcome_policy_version">>

(* Why an observation is not of this cohort; "none" when it is.              *)
cohort_exclusion(o, as_of) ==
    LET differing == {i \in DOMAIN CohortKey : o.key[CohortKey[i]] # Cohort[CohortKey[i]]}
    IN  IF differing # {} THEN CohortKey[CHOOSE i \in differing : \A j \in differing : i <= j]
        ELSE IF o.decided > as_of THEN "decided_after_as_of" ELSE "none"

(* Why an episode has no usable outcome: it is the label of its seal, never  *)
(* that of a member.                                                         *)
episode_exclusion(seal, as_of) ==
    CASE seal.available > as_of -> "label_not_mature"
      [] seal.available <= as_of /\ seal.net \notin {"positive", "not_positive"} -> seal.net
      [] seal.available <= as_of /\ seal.net \in {"positive", "not_positive"} /\ seal.cost_policy # CostPolicy ->
             "cost_policy_mismatch"
      [] OTHER -> "none"

Earlier(a, b) == a.decided < b.decided \/ (a.decided = b.decided /\ a.id < b.id)
InOrder(S) == [i \in 1..Cardinality(S) |-> CHOOSE o \in S : Cardinality({x \in S : Earlier(x, o)}) = i - 1]

(* One pair in order: what is decided less than one horizon after a seal is  *)
(* its member, the next one seals a new episode.                             *)
Grouped(groups, o) ==
    LET last == Len(groups)
    IN  IF last > 0 /\ o.decided < groups[last].seal.decided + MAX_LABEL_HORIZON
        THEN [groups EXCEPT ![last].members = @ \cup {o}]
        ELSE Append(groups, [seal |-> o, members |-> {}])
group_episodes(outcomes) ==
    UNION {LET ordered == InOrder({o \in outcomes : o.pair = pair})
               groups == FoldLeft(Grouped, <<>>, ordered)
           IN  {groups[i] : i \in DOMAIN groups} : pair \in {o.pair : o \in outcomes}}

NoStart == 0    \* an empty block has no start; times begin at 1

(* The decision time of the episode at a cut, when there is one.             *)
StartAt(eligible, cut) ==
    IF cut >= Cardinality(eligible) THEN NoStart
    ELSE (CHOOSE e \in eligible : Cardinality({x \in eligible : Earlier(x.seal, e.seal)}) = cut).seal.decided

(* Where an episode belongs, and what comes after its block.                 *)
Block(e, starts, as_of) ==
    LET at == e.seal.decided
    IN  IF starts[2] # NoStart /\ at >= starts[2]
        THEN [split |-> 3, next |-> NoStart, end |-> as_of]
        ELSE IF starts[1] # NoStart /\ at >= starts[1]
        THEN [split |-> 2, next |-> starts[2], end |-> IF starts[2] = NoStart THEN as_of ELSE starts[2]]
        ELSE [split |-> 1, next |-> starts[1], end |-> IF starts[1] = NoStart THEN as_of ELSE starts[1]]

(* Mutant: only the time of the label is looked at.                          *)
purged_LabelOnly(e, block) == e.seal.available > block.end

(* Purged: decided within one horizon of the next block, or labelled after   *)
(* the end of its own.                                                       *)
purged(e, block) ==
    \/ block.next # NoStart /\ e.seal.decided + MAX_LABEL_HORIZON >= block.next
    \/ e.seal.available > block.end

calendar_days(moments) ==
    IF moments = {} THEN 0
    ELSE LET days == {m \div DayLength : m \in moments}
         IN  (CHOOSE d \in days : \A x \in days : x <= d) - (CHOOSE d \in days : \A x \in days : d <= x) + 1

failed_minima(total, test, days) ==
    (IF total < MIN_MATURED_EPISODES THEN {"matured_episodes"} ELSE {})
      \cup (IF test < MIN_TEST_EPISODES THEN {"test_episodes"} ELSE {})
      \cup (IF days < MIN_CALENDAR_DAYS THEN {"calendar_days"} ELSE {})

(* evaluate_cohort: the content of a manifest, and the blocks, which are     *)
(* withheld when a minimum failed.                                           *)
evaluate_cohort(observations, as_of) ==
    LET candidates == {o \in observations : cohort_exclusion(o, as_of) = "none"}
        groups == group_episodes(candidates)
        eligible == {g \in groups : episode_exclusion(g.seal, as_of) = "none"}
        n == Cardinality(eligible)
        starts == <<StartAt(eligible, (n * FIT_PERCENT) \div 100),
                    StartAt(eligible, (n * (FIT_PERCENT + CALIBRATION_PERCENT)) \div 100)>>
        kept == {e \in eligible : ~purged(e, Block(e, starts, as_of))}
        blocks == [s \in 1..3 |-> {e \in kept : Block(e, starts, as_of).split = s}]
        failed == failed_minima(Cardinality(kept), Cardinality(blocks[3]), calendar_days({e.seal.decided : e \in kept}))
        content == [as_of |-> as_of, inputs |-> {o.id : o \in observations}, formed |-> Cardinality(groups),
                    eligible |-> n, starts |-> starts, splits |-> [s \in 1..3 |-> {e.seal.id : e \in blocks[s]}],
                    failed |-> failed, calibration |-> "none", reasons |-> {}]
    IN  [content |-> content, status |-> IF failed = {} THEN "SAMPLE_SUFFICIENT" ELSE "UNCALIBRATED",
         blocks |-> IF failed = {} THEN blocks ELSE [s \in 1..3 |-> {}]]

NothingEvaluated == [content |-> [as_of |-> 0, calibration |-> "none"], status |-> "none", blocks |-> [s \in 1..3 |-> {}]]

Evaluate(as_of) ==
    /\ evaluation' = evaluate_cohort(history, as_of)
    /\ UNCHANGED <<history, manifests>>

----------------------------------------------------------------------------
(* Calibration.                                                              *)
\* Two classes are needed where something is fitted.
SingleClass(block) == Cardinality({e.seal.net : e \in block}) < 2

\* Equal-frequency bins: positions k*n/BINS up to (k+1)*n/BINS.
BinSize(k, n) == ((k + 1) * n) \div BIN_COUNT - (k * n) \div BIN_COUNT
small_bins(n) == \E k \in 0..(BIN_COUNT - 1) : BinSize(k, n) < MIN_BIN_SAMPLES

probability_decision(n, better, close) ==
    (IF small_bins(n) THEN {"small_bins"} ELSE {}) \cup (IF better THEN {} ELSE {"brier_not_better"})
      \cup (IF close THEN {} ELSE {"calibration_error_high"})

\* The reasons there is no probability, in the order they end the procedure.
Unavailable(blocks, missing, converged, better, close) ==
    IF missing THEN {"missing_features"}
    ELSE IF \E s \in 1..3 : blocks[s] = {} THEN {"empty_block"}
    ELSE IF \E s \in 1..2 : SingleClass(blocks[s]) THEN {"single_class_block"}
    ELSE IF ~converged THEN {"not_converged"}
    ELSE probability_decision(Cardinality(blocks[3]), better, close)

finish(status, reasons) ==
    evaluation' = [evaluation EXCEPT !.content.calibration = status, !.content.reasons = reasons]

calibrate(missing, converged, better, close) ==
    /\ evaluation.status # "none"
    /\ evaluation.content.calibration = "none"    \* "already calibrated"
    /\ IF evaluation.status = "UNCALIBRATED"
       THEN finish("UNCALIBRATED", {})
       ELSE LET reasons == Unavailable(evaluation.blocks, missing, converged, better, close)
            IN  finish(IF reasons = {} THEN "PROBABILITY_AVAILABLE" ELSE "PROBABILITY_UNAVAILABLE", reasons)
    /\ UNCHANGED <<history, manifests>>

----------------------------------------------------------------------------
(* The trial ledger: a manifest is the content sealed with its attempt.      *)
attempts == Len(manifests)
find(content) == {i \in DOMAIN manifests : manifests[i].content = content}
SealedManifest(content, attempt) == [content |-> content, attempt |-> attempt]

register(content) ==
    IF find(content) # {} THEN manifests ELSE Append(manifests, SealedManifest(content, attempts + 1))

Register ==
    /\ evaluation.status # "none" /\ attempts < MaxManifests
    /\ manifests' = register(evaluation.content)
    /\ UNCHANGED <<history, evaluation>>

ExperimentInit == history \in Histories /\ evaluation = NothingEvaluated /\ manifests = <<>>

ExperimentNext ==
    \/ \E as_of \in AsOfs : Evaluate(as_of)
    \/ \E missing, converged, better, close \in BOOLEAN : calibrate(missing, converged, better, close)
    \/ Register

ExperimentSpec == ExperimentInit /\ [][ExperimentNext]_experimentVars

----------------------------------------------------------------------------
(* No block learns from a later one: the label of every kept episode was     *)
(* known, and its last member decided, before the first decision of every    *)
(* later block; and the samples of a block are independent, two of one pair  *)
(* being at least one horizon apart.                                         *)
NoLeak ==
    LET b == evaluation.blocks
        all == b[1] \cup b[2] \cup b[3]
    IN  /\ \A s \in 1..3 : \A t \in (s + 1)..3 : \A x \in b[s], y \in b[t] :
              /\ x.seal.available <= y.seal.decided
              /\ \A m \in x.members : m.decided < y.seal.decided
        /\ \A x, y \in all : x # y /\ x.seal.pair = y.seal.pair =>
              \/ x.seal.decided + MAX_LABEL_HORIZON <= y.seal.decided
              \/ y.seal.decided + MAX_LABEL_HORIZON <= x.seal.decided

(* What an evaluation says depends only on what was known at its time: the   *)
(* outcomes decided later, and what a label that came later says, change     *)
(* neither its blocks nor its verdict.                                       *)
Sampled(blocks) == [s \in 1..3 |-> {<<e.seal, {m.id : m \in e.members}>> : e \in blocks[s]}]
KnownAt(as_of) ==
    {IF o.available > as_of THEN [o EXCEPT !.net = "unknown"] ELSE o : o \in {x \in history : x.decided <= as_of}}
NoLookAhead ==
    evaluation.status # "none" =>
        LET then == evaluate_cohort(KnownAt(evaluation.content.as_of), evaluation.content.as_of)
        IN  Sampled(then.blocks) = Sampled(evaluation.blocks) /\ then.status = evaluation.status

(* Every distinct result counts once: the attempts of the cohort are 1, 2,   *)
(* 3 and so on, and no content is sealed twice.  An accepted probability     *)
(* rests on blocks of both classes and on a test that fills every bin.       *)
TrialsCounted ==
    /\ \A i \in DOMAIN manifests : manifests[i].attempt = i
    /\ \A i, j \in DOMAIN manifests : i # j => manifests[i].content # manifests[j].content
    /\ evaluation.content.calibration = "PROBABILITY_AVAILABLE" =>
          /\ \A s \in 1..2 : ~SingleClass(evaluation.blocks[s])
          /\ Cardinality(evaluation.blocks[3]) >= BIN_COUNT * MIN_BIN_SAMPLES

(* An experiment's split teaches nothing it should not (evaluate_cohort): no *)
(* label reaches over a block border, no later outcome changes a verdict,    *)
(* and every distinct result is one counted trial.                           *)
ExperimentInv == NoLeak /\ NoLookAhead /\ TrialsCounted
=============================================================================
