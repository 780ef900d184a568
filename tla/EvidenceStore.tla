---------------------------- MODULE EvidenceStore ----------------------------
(* The ledgered schema of radar_state.sqlite, the sealed evidence it stores, *)
(* the links of events to their evidence and the context built from them     *)
(* (adapters/evidence_store.py, domain/evidence.py, context_builder.py).     *)
(* A canonical hash is modelled by the content it is taken of: two records   *)
(* have one hash exactly when they are one record.                           *)
EXTENDS Naturals, Sequences, FiniteSets

CONSTANTS Openers,      \* the processes that open the database
          Codes,        \* the code they run: how many migrations it knows, and whether it edited an old one
          Strays,       \* objects a legacy database may hold by accident
          Drafts,       \* what may be offered for sealing
          Assets,       \* the asset of each event
          Claims,       \* what may be claimed of an event's evidence
          Edits,        \* records an operator may write over a stored one
          MaxDeaths

\* A record has exactly these fields: any other is refused before it is read (_mapping).
IsRecord(e) ==
    e = [evidence_id |-> e.evidence_id, scope |-> e.scope, sealed_at |-> e.sealed_at, facts |-> e.facts, integrity |-> e.integrity]

ASSUME EvidenceAssumption ==
    /\ Codes # {} /\ Codes \subseteq [known : 0..5, edited : BOOLEAN]
    /\ "none" \notin Openers
    /\ \A e \in Edits : IsRecord(e)

VARIABLES schema,       \* what is committed: the objects, and the rows of schema_version_ledger
          txn,          \* the one write transaction: its process and what it sees
          opener,       \* of each process: its code, where it is, and the statements it has run
          evidence_versions, event_evidence,
          contexts,     \* every context that was built
          deaths

evidenceVars == <<schema, txn, opener, evidence_versions, event_evidence, contexts, deaths>>

----------------------------------------------------------------------------
(* Migrations: each creates objects by plain CREATE.  The indexes and        *)
(* triggers of a migration count as one object.                              *)
Migration(name, statements) == [name |-> name, statements |-> statements, checksum |-> statements]
LEDGER_MIGRATION == Migration("ledger", <<"schema_version_ledger", "ledger_guards">>)
EVIDENCE_MIGRATION == Migration("evidence", <<"evidence_versions", "event_evidence", "evidence_guards">>)
INVOCATION_MIGRATION == Migration("invocations", <<"invocations", "invocation_budget", "invocation_demand", "invocation_guards">>)
OUTBOX_MIGRATION == Migration("outbox", <<"lifecycle_items", "outbox", "outbox_cursors", "outbox_guards">>)
OUTCOME_MIGRATION == Migration("outcomes", <<"outcome_subjects", "outcome_subject_costs", "outcome_labels", "outcome_guards">>)
SCHEMA_MIGRATIONS ==
    <<LEDGER_MIGRATION, EVIDENCE_MIGRATION, INVOCATION_MIGRATION, OUTBOX_MIGRATION, OUTCOME_MIGRATION>>

\* The plan of some code: the migrations it knows; edited code changed the statements of version 2.
Plan(code) ==
    [v \in 1..code.known |-> IF code.edited /\ v = 2
                             THEN Migration("evidence", <<"evidence_versions", "event_evidence">>)
                             ELSE SCHEMA_MIGRATIONS[v]]

LedgerEntry(v, m) == [version |-> v, name |-> m.name, checksum |-> m.checksum]
read_ledger(s) == IF "schema_version_ledger" \in s.objects THEN s.ledger ELSE <<>>

\* What a ledger makes of a plan: a refusal, or the migrations that are left (from..to).
Refused == [refused |-> TRUE, from |-> 0, to |-> 0]
pending(s, plan) ==
    LET ledger == read_ledger(s)
    IN  IF \A i \in DOMAIN ledger : i \in DOMAIN plan /\ ledger[i] = LedgerEntry(i, plan[i])
        THEN [refused |-> FALSE, from |-> Len(ledger) + 1, to |-> Len(plan)]
        ELSE Refused
Nothing(todo) == ~todo.refused /\ todo.from > todo.to
plan_of(p) == Plan(opener[p].code)

NoTxn == [by |-> "none", schema |-> [objects |-> {}, ledger |-> <<>>]]

(* SnapshotStore.__init__ / migrate_schema: the ledger is current, cannot be *)
(* trusted, or lacks migrations.                                             *)
OpenStore(p) ==
    LET todo == pending(schema, plan_of(p))
    IN  /\ opener[p].at = "closed"
        /\ opener' = [opener EXCEPT ![p].at = CASE todo.refused -> "refused"
                                                [] Nothing(todo) -> "open"
                                                [] OTHER -> "begin"]
        /\ UNCHANGED <<schema, txn, evidence_versions, event_evidence, contexts, deaths>>

(* BEGIN IMMEDIATE, then the check again under the write lock.               *)
BeginMigration(p) ==
    LET todo == pending(schema, plan_of(p))
    IN  /\ opener[p].at = "begin" /\ txn = NoTxn
        /\ IF todo.refused
           THEN opener' = [opener EXCEPT ![p].at = "refused"] /\ UNCHANGED txn
           ELSE /\ opener' = [opener EXCEPT ![p].at = "migrating", ![p].next = <<todo.from, 1>>]
                /\ txn' = [by |-> p, schema |-> schema]
        /\ UNCHANGED <<schema, evidence_versions, event_evidence, contexts, deaths>>

\* A writer that does not get the lock in time: SQLITE_ERROR, and the store is closed.
BusyMigration(p) ==
    /\ opener[p].at = "begin" /\ txn # NoTxn
    /\ opener' = [opener EXCEPT ![p].at = "busy"]
    /\ UNCHANGED <<schema, txn, evidence_versions, event_evidence, contexts, deaths>>

(* One statement; after the last one of a migration, its ledger row.  An     *)
(* object of the same name fails it, and everything is rolled back.          *)
RunStatement(p) ==
    LET plan == plan_of(p)  v == opener[p].next[1]  n == opener[p].next[2]
        m == plan[v]  object == m.statements[n]  last == n = Len(m.statements)
    IN  /\ opener[p].at = "migrating" /\ v <= Len(plan)
        /\ IF object \in txn.schema.objects
           THEN /\ txn' = NoTxn
                /\ opener' = [opener EXCEPT ![p].at = "failed"]
           ELSE /\ txn' = [txn EXCEPT !.schema = [objects |-> @.objects \cup {object},
                                                  ledger |-> IF last THEN Append(@.ledger, LedgerEntry(v, m)) ELSE @.ledger]]
                /\ opener' = [opener EXCEPT ![p].next = IF last THEN <<v + 1, 1>> ELSE <<v, n + 1>>]
        /\ UNCHANGED <<schema, evidence_versions, event_evidence, contexts, deaths>>

CommitMigration(p) ==
    /\ opener[p].at = "migrating" /\ opener[p].next[1] > Len(plan_of(p))
    /\ schema' = txn.schema /\ txn' = NoTxn
    /\ opener' = [opener EXCEPT ![p].at = "open"]
    /\ UNCHANGED <<evidence_versions, event_evidence, contexts, deaths>>

(* A process ends, or dies in the middle, and starts again, perhaps with     *)
(* other code: an open transaction is rolled back.                           *)
Restart(p) ==
    /\ deaths < MaxDeaths /\ opener[p].at # "closed"
    /\ deaths' = deaths + 1
    /\ \E code \in Codes : opener' = [opener EXCEPT ![p] = [code |-> code, at |-> "closed", next |-> <<0, 0>>]]
    /\ txn' = IF txn.by = p THEN NoTxn ELSE txn
    /\ UNCHANGED <<schema, evidence_versions, event_evidence, contexts>>

----------------------------------------------------------------------------
(* Facts and sealed evidence.                                                *)
\* make_fact: the id is the hash of the content.
WithId(f) == [f EXCEPT !.fact_id = <<f.run, f.instrument, f.kind, f.name, f.payload, f.depends_on, f.calculation_version>>]
make_fact(scope, kind, name, payload, depends_on, version) ==
    WithId([fact_id |-> <<>>, run |-> scope.run, instrument |-> scope.instrument, kind |-> kind, name |-> name,
            payload |-> payload, depends_on |-> depends_on, calculation_version |-> version])
EvidenceFact(f) == /\ f.kind = "calculation" <=> f.calculation_version # "none"
                   /\ f.fact_id = WithId(f).fact_id

Ids(facts) == {f.fact_id : f \in facts}
validate_bindings(e) ==
    /\ e.facts # {}
    /\ \A f \in e.facts : f.run = e.scope.run /\ f.instrument = e.scope.instrument
    /\ \A f \in e.facts : f.depends_on \subseteq Ids(e.facts)
    /\ e.integrity.evaluated_at <= e.sealed_at
    /\ e.scope.instrument.symbol \in e.integrity.subjects

\* The content of an evidence version, which is its hash and its id.
evidence_content(e) == <<e.scope, e.sealed_at, e.facts, e.integrity>>
\* seal_evidence: the facts are sorted, so their order is not part of the content.
seal_evidence(d) ==
    LET facts == {d.facts[i] : i \in DOMAIN d.facts}
    IN  [evidence_id |-> <<d.scope, d.sealed_at, facts, d.integrity>>, scope |-> d.scope, sealed_at |-> d.sealed_at,
         facts |-> facts, integrity |-> d.integrity]
\* A fact offered twice is refused.
CanSeal(d) ==
    LET e == seal_evidence(d)
    IN  (\A f \in e.facts : EvidenceFact(f)) /\ Cardinality(e.facts) = Len(d.facts) /\ validate_bindings(e)

\* Reading a record back: every hash and every binding is checked.
SealedEvidence(e) == validate_bindings(e) /\ e.evidence_id = evidence_content(e)

\* Mutant: the stored identity is not recomputed.
evidence_from_record_Trusting(e) == validate_bindings(e)

evidence_from_record(e) == (\A f \in e.facts : EvidenceFact(f)) /\ SealedEvidence(e)

\* The indexed copies of what the record says of itself.
identity_columns(e) == <<e.evidence_id, e.scope.run, e.scope.instrument.symbol, e.sealed_at>>

Ids_stored == {r.columns[1] : r \in evidence_versions}
\* load_evidence: the row of an id, or that there is none, or that it cannot be believed.
Absent == [absent |-> TRUE, rejected |-> FALSE]
Rejected == [absent |-> FALSE, rejected |-> TRUE]
load_evidence(id) ==
    LET rows == {r \in evidence_versions : r.columns[1] = id}
    IN  IF rows = {} THEN Absent
        ELSE LET r == CHOOSE r \in rows : TRUE
             IN  IF evidence_from_record(r.record) /\ identity_columns(r.record) = r.columns
                 THEN [absent |-> FALSE, rejected |-> FALSE, record |-> r.record]
                 ELSE Rejected

require_migrated(p) == Nothing(pending(schema, plan_of(p)))
Writes(p) == opener[p].at = "open" /\ txn = NoTxn /\ require_migrated(p)

(* save_evidence: what is there already is not written again; another record *)
(* under the same id is refused.                                             *)
save_evidence(p, d) ==
    LET e == seal_evidence(d)
    IN  /\ Writes(p) /\ CanSeal(d)
        /\ e.evidence_id \notin Ids_stored
        /\ evidence_versions' = evidence_versions \cup {[columns |-> identity_columns(e), record |-> e]}
        /\ UNCHANGED <<schema, txn, opener, event_evidence, contexts, deaths>>

(* verify_link: the claim of an event against what is stored.                *)
verify_link(link, loaded, event) ==
    /\ link.event = event
    /\ ~loaded.absent /\ ~loaded.rejected
    /\ loaded.record.evidence_id = link.evidence_id
    /\ loaded.record.scope.run = link.run
    /\ loaded.record.scope.instrument = link.instrument
    /\ Assets[event] = loaded.record.scope.instrument.base

load_link(event) == {l \in event_evidence : l.event = event}

(* link_event_evidence: verified, and written once; the same claim again     *)
(* changes nothing and another one is refused.                               *)
link_event_evidence(p, event, id, claim) ==
    LET link == [event |-> event, evidence_id |-> id, run |-> claim.run, instrument |-> claim.instrument]
    IN  /\ Writes(p)
        /\ verify_link(link, load_evidence(id), event)
        /\ load_link(event) = {}
        /\ event_evidence' = event_evidence \cup {link}
        /\ UNCHANGED <<schema, txn, opener, evidence_versions, contexts, deaths>>

(* load_event_evidence and build_verified_model_context: a linked event gets *)
(* its verified evidence or no context at all; an event with no link is      *)
(* legacy and cites nothing.                                                 *)
load_event_evidence(event) ==
    IF load_link(event) = {} THEN [legacy |-> TRUE]
    ELSE LET link == CHOOSE l \in load_link(event) : TRUE
         IN  [legacy |-> FALSE, link |-> link, loaded |-> load_evidence(link.evidence_id)]
evidence_block(found) == IF found.legacy THEN {} ELSE {found.loaded.record}
verify_event_evidence(event, found) == IF found.legacy THEN TRUE ELSE verify_link(found.link, found.loaded, event)

build_model_context(event, found) == [event |-> event, evidence |-> evidence_block(found)]

build_verified_model_context(p, event) ==
    LET found == load_event_evidence(event)
    IN  /\ opener[p].at = "open" /\ require_migrated(p)
        /\ verify_event_evidence(event, found)
        /\ contexts' = contexts \cup {build_model_context(event, found)}
        /\ UNCHANGED <<schema, txn, opener, evidence_versions, event_evidence, deaths>>

\* resolve_fact: a fact is cited by evidence, run and instrument.
resolve_fact(e, id, run, instrument) ==
    {f \in e.facts : f.fact_id = id /\ e.scope.run = run /\ e.scope.instrument = instrument}

(* A stored row is changed outside the program: a record is written over     *)
(* another one, or its row is removed.                                       *)
RowEdited ==
    /\ deaths < MaxDeaths /\ evidence_versions # {}
    /\ deaths' = deaths + 1
    /\ \E r \in evidence_versions :
          \/ \E e \in Edits : evidence_versions' = (evidence_versions \ {r}) \cup {[r EXCEPT !.record = e]}
          \/ \E id \in Ids_stored : evidence_versions' = (evidence_versions \ {r}) \cup {[r EXCEPT !.record.evidence_id = id]}
          \/ evidence_versions' = evidence_versions \ {r}
    /\ UNCHANGED <<schema, txn, opener, event_evidence, contexts>>

EvidenceInit ==
    /\ schema \in {[objects |-> s, ledger |-> <<>>] : s \in {{}} \cup {{x} : x \in Strays}}
    /\ txn = NoTxn
    /\ opener \in [Openers -> {[code |-> c, at |-> "closed", next |-> <<0, 0>>] : c \in Codes}]
    /\ evidence_versions = {} /\ event_evidence = {} /\ contexts = {} /\ deaths = 0

EvidenceNext ==
    \/ \E p \in Openers :
          \/ OpenStore(p) \/ BeginMigration(p) \/ BusyMigration(p) \/ RunStatement(p) \/ CommitMigration(p) \/ Restart(p)
          \/ \E d \in Drafts : save_evidence(p, d)
          \/ \E event \in DOMAIN Assets :
                \/ build_verified_model_context(p, event)
                \/ \E id \in Ids_stored, claim \in Claims : link_event_evidence(p, event, id, claim)
    \/ RowEdited

EvidenceSpec == EvidenceInit /\ [][EvidenceNext]_evidenceVars

----------------------------------------------------------------------------
\* The objects that the first n migrations of a plan create.
ObjectsOf(plan, n) == UNION {{plan[v].statements[i] : i \in DOMAIN plan[v].statements} : v \in 1..n}

(* The ledger tells the truth about the schema, whoever migrates, dies or is *)
(* replaced by other code: what is committed is the legacy database and the  *)
(* objects of exactly the migrations it lists, never a part of one, and a    *)
(* process that is open agrees with every one of them it knows.  A migration *)
(* only ever fails because of an object that was there before any of them.   *)
LedgerTrue ==
    /\ \E base \in {{}} \cup {{x} : x \in Strays}, code \in Codes :
          LET n == Len(schema.ledger) plan == Plan(code)
          IN  /\ n <= Len(plan) /\ \A v \in 1..n : schema.ledger[v] = LedgerEntry(v, plan[v])
              /\ schema.objects = base \cup ObjectsOf(plan, n)
    /\ \A p \in Openers :
          /\ opener[p].at = "open" => \A v \in DOMAIN schema.ledger \cap DOMAIN plan_of(p) :
                                          schema.ledger[v] = LedgerEntry(v, plan_of(p)[v])
          /\ opener[p].at = "failed" => schema.objects \cap Strays # {}

(* What an event is said to be built from is one sealed record, always the   *)
(* same one, of its own asset, whose facts rest only on facts sealed with    *)
(* them, in its own run: not even a row changed behind the program's back    *)
(* brings another record into a context.                                     *)
ContextTrue ==
    \A c \in contexts : \A e \in c.evidence :
        /\ \E d \in Drafts : CanSeal(d) /\ e = seal_evidence(d)
        /\ e.scope.instrument.base = Assets[c.event]
        /\ \A f \in e.facts : \A dep \in f.depends_on : resolve_fact(e, dep, f.run, f.instrument) # {}
        /\ \A other \in contexts : other.event = c.event => other.evidence \subseteq {e}

(* Two openers that migrate one file, each with its own version of the code, *)
(* leave a ledger that says exactly what the schema is                       *)
(* (apply_schema_migrations); and a context is built only from a sealed      *)
(* record that is whole and belongs to its event (evidence_from_record,      *)
(* load_event_evidence).                                                     *)
EvidenceInv == LedgerTrue /\ ContextTrue
=============================================================================
