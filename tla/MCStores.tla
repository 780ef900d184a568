------------------------------ MODULE MCStores ------------------------------
(* What the program keeps in its database, one store at a time: the outbox   *)
(* tables and their readers, with one handoff at most; the export of         *)
(* handoffs; the evidence store; the snapshots and the anomalies judged from *)
(* them.  The parts share nothing.                                           *)
EXTENDS Outbox, EvidenceStore, Anomaly, TLC

CONSTANT x1

VARIABLE part

(* Evidence: code that knows all, some and an edited one of the migrations; *)
(* drafts that can be sealed, and one of each kind that cannot; rows edited *)
(* outside the program.                                                     *)
MCCodes == {[known |-> 5, edited |-> FALSE], [known |-> 2, edited |-> FALSE], [known |-> 3, edited |-> TRUE]}
Btc == [symbol |-> "XBTEUR", base |-> "BTC"]
Eth == [symbol |-> "ETHEUR", base |-> "ETH"]
Scope(run, i) == [run |-> run, instrument |-> i]
Observed(s) == make_fact(s, "observation", "ticker", 1, {}, "none")
Calc(s) == make_fact(s, "calculation", "atr", 2, {Observed(s).fact_id}, "v1")
Draft(s, facts) ==
    [scope |-> s, sealed_at |-> 2, facts |-> facts, integrity |-> [evaluated_at |-> 1, subjects |-> {s.instrument.symbol}]]
R1 == Scope("r1", Btc)
R2 == Scope("r2", Eth)
MCDrafts ==
    {Draft(R1, <<Observed(R1), Calc(R1)>>), Draft(R1, <<Observed(R1)>>), Draft(R1, <<Calc(R1)>>), Draft(R1, <<Observed(R1), Observed(R1)>>),
     Draft(R2, <<Observed(R2)>>), Draft(R1, <<Observed(Scope("r2", Btc))>>),
     [Draft(R1, <<Observed(R1), Calc(R1)>>) EXCEPT !.integrity.evaluated_at = 3],
     [Draft(R1, <<Observed(R1), Calc(R1)>>) EXCEPT !.integrity.subjects = {"ETHEUR"}]}
Whole == seal_evidence(Draft(R1, <<Observed(R1), Calc(R1)>>))
MCEdits ==
    {seal_evidence(Draft(R1, <<Observed(R1)>>)),
     [Whole EXCEPT !.facts = {Observed(R1), [Calc(R1) EXCEPT !.payload = 3]}]}
MCAssets == x1 :> "BTC"
MCClaims == {[run |-> "r1", instrument |-> Btc], [run |-> "r2", instrument |-> Btc], [run |-> "r2", instrument |-> Eth]}

(* Anomalies: four markets, two of one asset and one of an excluded asset;  *)
(* scans with a market missing, at price zero, or unknown to the venue.     *)
MCAssetOf == [p \in SpotPairs |-> CASE p = "btc" -> "BTC" [] p = "eur" -> "FIAT" [] OTHER -> "ALT"]
MCPriority == [p \in SpotPairs |-> IF p = "alt_eur" THEN 3 ELSE 0]
SpotTicker(l, v) == [last |-> l, traded |-> v, marks |-> IF v = 2 THEN {"dead"} ELSE {}]
MCSpotTickers ==
    {[p \in SpotPairs |-> CASE p = "alt_usd" -> SpotTicker(l, l) [] p = "btc" -> SpotTicker(b, 0) [] OTHER -> SpotTicker(8, 1)] :
        <<l, b>> \in {<<1, 1>>, <<2, 1>>, <<2, 2>>}}
      \cup {[p \in {"btc", "alt_eur", "alt_usd"} |-> SpotTicker(IF p = "alt_usd" THEN 0 ELSE 8, 1)],
            [p \in {"alt_usd", "alt_xyz"} |-> SpotTicker(2, 0)]}

MCSymmetry == Permutations(Handoffs) \cup Permutations(Readers)

EvidenceIdle ==
    /\ schema = [objects |-> {}, ledger |-> <<>>] /\ txn = NoTxn /\ opener = [p \in Openers |-> [at |-> "closed"]]
    /\ evidence_versions = {} /\ event_evidence = {} /\ contexts = {} /\ deaths = 0

MCStoresInit ==
    /\ part \in {"tables", "export", "evidence", "snapshots"}
    /\ OutboxInit /\ AnomalyInit
    /\ IF part = "evidence" THEN EvidenceInit ELSE EvidenceIdle

MCStoresNext ==
    /\ UNCHANGED part
    /\ CASE part = "tables" -> /\ OutboxNext
                               /\ UNCHANGED <<export, file, cut>>
                               /\ Cardinality({n \in DOMAIN rows' : rows'[n].kind = "HANDOFF"}) <= 1
         [] part = "export" -> OutboxNext /\ UNCHANGED <<event, stale, item, position, batch, handled>>
         [] OTHER -> UNCHANGED outboxVars
    /\ IF part = "evidence" THEN EvidenceNext ELSE UNCHANGED evidenceVars
    /\ IF part = "snapshots" THEN AnomalyNext ELSE UNCHANGED anomalyVars

MCStoresSpec == MCStoresInit /\ [][MCStoresNext]_<<part, outboxVars, evidenceVars, anomalyVars>>
=============================================================================
