----------------------------- MODULE MCAnalysis -----------------------------
(* The scheduler of the analyses, and the experiments that calibrate what is  *)
(* learnt from them: one of them is at work in each behaviour.  An experiment *)
(* may rest at any time; the scheduler must always have a step.               *)
EXTENDS DeadlineScheduler, Experiments

VARIABLE part

(* The scheduler: the versions are chosen so that every way in and out of   *)
(* the queue happens: two versions of one group, one of them a              *)
(* re-observation that keeps an early deadline, an incompatible one, other  *)
(* groups that compete for the room, and refusals of every kind.            *)
V(id, x, g, pol, band, sealed, origin) ==
    [item_id |-> id, identity |-> x, group |-> g, policy_version |-> pol, horizon |-> "1h",
     band |-> band, sealed_at |-> sealed, origin_sealed_at |-> origin, integrity_valid |-> TRUE,
     deterministic_path_eligible |-> TRUE, screener |-> TRUE]

MCVersions ==
    {V(1, "a", "g", 1, "HIGH", 0, 0),
     V(2, "b", "g", 1, "ELIGIBLE", 1, 0),            \* re-observation of the group of 1
     V(3, "c", "h", 1, "ELIGIBLE", 0, 0),
     V(4, "d", "k", 1, "HIGH", 1, 1),
     V(1, "d", "k", 1, "HIGH", 1, 1),                \* item id 1 for another identity
     V(4, "e", "g", 2, "HIGH", 1, 1),                \* another policy version
     [V(3, "c", "h", 1, "ELIGIBLE", 0, 0) EXCEPT !.integrity_valid = FALSE],
     [V(2, "b", "g", 1, "NONE", 1, 0) EXCEPT !.screener = FALSE],
     [V(4, "d", "k", 1, "HIGH", 1, 1) EXCEPT !.screener = FALSE,
                                             !.deterministic_path_eligible = FALSE]}
MCTimes == 0..6
MCAnalysisDeadline == [h \in Horizons |-> 5]
MCMaxQueuedAge == [h \in Horizons |-> 2]

(* Experiments: ten observations one or three units apart, of one pair or   *)
(* of two, and one of them odd in each way a cohort or a split tells apart. *)
N == 10
MCCohort == [setup |-> 1, direction |-> 1, horizon |-> 1, feature_version |-> 1, outcome_policy_version |-> 1]
Obs(i, t, pair) ==
    [id |-> i, pair |-> pair, decided |-> t, available |-> t + 1, net |-> IF i % 2 = 0 THEN "positive" ELSE "not_positive",
     cost_policy |-> 1, key |-> MCCohort]
Spaced(apart, one) ==
    FoldLeft(LAMBDA s, i : Append(s, Obs(i, (IF i = 1 THEN 1 ELSE s[i - 1].decided + apart[i - 1]), IF one THEN 1 ELSE i % 2)),
             <<>>, [i \in 1..N |-> i])
Oddly(o, prev, kind) ==
    CASE kind = "late" -> [o EXCEPT !.available = @ + 3]
      [] kind = "missing" -> [o EXCEPT !.net = "cost_incomplete"]
      [] kind = "policy" -> [o EXCEPT !.cost_policy = 2]
      [] kind = "setup" -> [o EXCEPT !.key.setup = 2]
      [] kind = "twin" -> [o EXCEPT !.decided = prev.decided, !.available = prev.decided + 1]
      [] kind = "same" -> [o EXCEPT !.decided = prev.decided, !.available = prev.decided + MAX_LABEL_HORIZON, !.pair = prev.pair]
MCHistories ==
    {ToSet(s) : s \in {t \in {Spaced(g, one) : g \in [1..N - 1 -> {1, 3}], one \in BOOLEAN} : t[N].decided \in {20, 24}}}
      \cup {ToSet([s EXCEPT ![j] = Oddly(s[j], s[j - 1], kind)]) :
              s \in {Spaced([i \in 1..N - 1 |-> IF i \in g THEN 3 ELSE 1], one) :
                        g \in {1..9, {1, 3, 5, 7, 8, 9}, {2, 5, 6, 8}, {1, 2, 4, 6, 7, 8, 9}}, one \in BOOLEAN},
              j \in {5, 7, 8, 9}, kind \in {"late", "missing", "policy", "setup", "same", "twin"}}

ExperimentIdle == history = {} /\ evaluation = NothingEvaluated /\ manifests = <<>>

MCAnalysisInit ==
    /\ part \in {"scheduler", "experiments"}
    /\ SchedInit
    /\ part # "scheduler" => now = 0
    /\ IF part = "experiments" THEN ExperimentInit ELSE ExperimentIdle

MCAnalysisNext ==
    /\ UNCHANGED part
    /\ IF part = "scheduler" THEN SchedNext ELSE UNCHANGED schedVars
    /\ IF part = "experiments" THEN ExperimentNext \/ UNCHANGED experimentVars ELSE UNCHANGED experimentVars

MCAnalysisSpec == MCAnalysisInit /\ [][MCAnalysisNext]_<<part, schedVars, experimentVars>>
=============================================================================
