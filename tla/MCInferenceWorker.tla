------------------------- MODULE MCInferenceWorker -------------------------
(* TLC instance of the worker with its scheduler and its ledger: two items  *)
(* of one identity and group, the second a later observation.               *)
EXTENDS InferenceWorker

V(id, x, sealed, origin) ==
    [item_id |-> id, identity |-> x, group |-> "g", policy_version |-> 1, horizon |-> "1h",
     band |-> "HIGH", sealed_at |-> sealed, origin_sealed_at |-> origin, integrity_valid |-> TRUE,
     deterministic_path_eligible |-> TRUE, screener |-> TRUE]

MCVersions == {V(1, "a", 0, 0), V(2, "a", 1, 0)}
MCOneVersion == {V(1, "a", 0, 0)}
MCTimes == {0, 1, 3, 4}
MCAnalysisDeadline == [h \in Horizons |-> 3]
MCMaxQueuedAge == [h \in Horizons |-> 2]
MCLimit == [m \in {Model} |-> 2]
=============================================================================
