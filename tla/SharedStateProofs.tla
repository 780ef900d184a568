------------------------- MODULE SharedStateProofs -------------------------
(* What holds of the state that several processes share.                     *)
(*                                                                           *)
(* The evidence store, for any number of openers, versions of the code,      *)
(* stray objects, drafts, events and edited rows.                            *)
(*                                                                           *)
(* The pre-registration registry of the trend research, for every set of     *)
(* names and hashes, any finite set of processes and any bound on lines and  *)
(* faults.                                                                   *)
(*                                                                           *)
(* The control room's ownership of the radar, for any number of launches,    *)
(* windows, restarts and stop workers.                                       *)
EXTENDS EvidenceStore, TrendRegistry, ProcessManager, FiniteSetTheorems, TLAPS

-----------------------------------------------------------------------------
(* The plans of migrations.                                                  *)

(* Where an object is created: the migration and its statement.              *)
Place ==
    [x \in {"schema_version_ledger", "ledger_guards",
            "evidence_versions", "event_evidence", "evidence_guards",
            "invocations", "invocation_budget", "invocation_demand", "invocation_guards",
            "lifecycle_items", "outbox", "outbox_cursors", "outbox_guards",
            "outcome_subjects", "outcome_subject_costs", "outcome_labels", "outcome_guards"} |->
        CASE x = "schema_version_ledger" -> <<1, 1>> [] x = "ledger_guards" -> <<1, 2>>
          [] x = "evidence_versions" -> <<2, 1>> [] x = "event_evidence" -> <<2, 2>> [] x = "evidence_guards" -> <<2, 3>>
          [] x = "invocations" -> <<3, 1>> [] x = "invocation_budget" -> <<3, 2>>
          [] x = "invocation_demand" -> <<3, 3>> [] x = "invocation_guards" -> <<3, 4>>
          [] x = "lifecycle_items" -> <<4, 1>> [] x = "outbox" -> <<4, 2>>
          [] x = "outbox_cursors" -> <<4, 3>> [] x = "outbox_guards" -> <<4, 4>>
          [] x = "outcome_subjects" -> <<5, 1>> [] x = "outcome_subject_costs" -> <<5, 2>>
          [] x = "outcome_labels" -> <<5, 3>> [] x = "outcome_guards" -> <<5, 4>>]

(* A statement creates an object that no other statement of a plan creates.  *)
PlacedIn(m, v) ==
    /\ Len(m.statements) \in Nat \ {0} /\ DOMAIN m.statements = 1..Len(m.statements)
    /\ m.checksum = m.statements
    /\ \A i \in 1..Len(m.statements) : Place[m.statements[i]] = <<v, i>>

(* The migrations of the program create every object once.                   *)
LEMMA MigrationsPlaced == \A v \in 1..5 : PlacedIn(SCHEMA_MIGRATIONS[v], v)
<1>1. PlacedIn(LEDGER_MIGRATION, 1)
  BY DEF PlacedIn, LEDGER_MIGRATION, Migration, Place
<1>2. PlacedIn(EVIDENCE_MIGRATION, 2)
  BY DEF PlacedIn, EVIDENCE_MIGRATION, Migration, Place
<1>3. PlacedIn(INVOCATION_MIGRATION, 3)
  BY DEF PlacedIn, INVOCATION_MIGRATION, Migration, Place
<1>4. PlacedIn(OUTBOX_MIGRATION, 4)
  BY DEF PlacedIn, OUTBOX_MIGRATION, Migration, Place
<1>5. PlacedIn(OUTCOME_MIGRATION, 5)
  BY DEF PlacedIn, OUTCOME_MIGRATION, Migration, Place
<1>6. /\ SCHEMA_MIGRATIONS[1] = LEDGER_MIGRATION /\ SCHEMA_MIGRATIONS[2] = EVIDENCE_MIGRATION
      /\ SCHEMA_MIGRATIONS[3] = INVOCATION_MIGRATION /\ SCHEMA_MIGRATIONS[4] = OUTBOX_MIGRATION
      /\ SCHEMA_MIGRATIONS[5] = OUTCOME_MIGRATION
  BY DEF SCHEMA_MIGRATIONS
<1> SUFFICES ASSUME NEW v \in 1..5 PROVE PlacedIn(SCHEMA_MIGRATIONS[v], v)
  OBVIOUS
<1>7. v = 1 \/ v = 2 \/ v = 3 \/ v = 4 \/ v = 5
  OBVIOUS
<1> QED BY <1>1, <1>2, <1>3, <1>4, <1>5, <1>6, <1>7

(* Whatever version the code has, its plan is migrations in their places,    *)
(* and the first of them creates the ledger.                                 *)
LEMMA PlanPlaced ==
    ASSUME NEW code \in Codes
    PROVE  /\ code.known \in 0..5 /\ DOMAIN Plan(code) = 1..code.known /\ Len(Plan(code)) = code.known
           /\ \A v \in 1..code.known : PlacedIn(Plan(code)[v], v)
           /\ code.known >= 1 => "schema_version_ledger" \in {Plan(code)[1].statements[i] : i \in DOMAIN Plan(code)[1].statements}
<1> DEFINE P == Plan(code)
           edit == Migration("evidence", <<"evidence_versions", "event_evidence">>)
           K == code.known
<1>1. K \in 0..5
  BY EvidenceAssumption
<1>2. P = [v \in 1..K |-> IF code.edited /\ v = 2 THEN edit ELSE SCHEMA_MIGRATIONS[v]]
  BY DEF Plan
<1>3. PlacedIn(edit, 2)
  BY DEF PlacedIn, Migration, Place
<1>4. SCHEMA_MIGRATIONS[1].statements = <<"schema_version_ledger", "ledger_guards">>
  BY DEF SCHEMA_MIGRATIONS, LEDGER_MIGRATION, Migration
<1> HIDE DEF P, edit, K
<1>5. \A v \in 1..K : PlacedIn(P[v], v)
  <2>1. \A v \in 1..K : v \in 1..5
    BY <1>1
  <2> QED BY <1>2, <1>3, <2>1, MigrationsPlaced
<1>6. DOMAIN P = 1..K /\ Len(P) = K
  BY <1>1, <1>2
<1>7. ASSUME K >= 1 PROVE "schema_version_ledger" \in {P[1].statements[i] : i \in DOMAIN P[1].statements}
  <2>1. 1 \in 1..K
    BY <1>1, <1>7
  <2>2. P[1].statements = <<"schema_version_ledger", "ledger_guards">>
    BY <1>2, <1>4, <2>1
  <2>3. 1 \in DOMAIN <<"schema_version_ledger", "ledger_guards">> /\ <<"schema_version_ledger", "ledger_guards">>[1] = "schema_version_ledger"
    OBVIOUS
  <2> QED BY <2>2, <2>3
<1> QED BY <1>1, <1>5, <1>6, <1>7 DEF P, K

-----------------------------------------------------------------------------
(* The inductive invariant of the migrations.                                *)

Bases == {{}} \cup {{x} : x \in Strays}
Places == {"closed", "begin", "migrating", "busy", "failed", "open", "refused"}
StatementsOf(m) == {m.statements[i] : i \in DOMAIN m.statements}

(* The ledger of the first n migrations of a plan.                           *)
LedgerOf(plan, n) == [v \in 1..n |-> LedgerEntry(v, plan[v])]

(* The objects there are before statement i of migration v.                  *)
Created(plan, v, i) == ObjectsOf(plan, v - 1) \cup {plan[v].statements[j] : j \in 1..i - 1}

(* The schema is what the first n migrations of some code make of a base.    *)
SchemaIs(base, code, n) ==
    schema.ledger = LedgerOf(Plan(code), n) /\ schema.objects = base \cup ObjectsOf(Plan(code), n)

(* The code of a process agrees with the first n migrations.                 *)
Agrees(p, n) == n <= Len(plan_of(p)) /\ \A v \in 1..n : schema.ledger[v] = LedgerEntry(v, plan_of(p)[v])

(* A migrating process holds the transaction, which shows what it has run.   *)
Progress(p, base, n, v, i) ==
    /\ txn.by = p
    /\ v \in n + 1..Len(plan_of(p)) + 1
    /\ IF v <= Len(plan_of(p)) THEN i \in 1..Len(plan_of(p)[v].statements) ELSE i = 1
    /\ txn.schema.ledger = LedgerOf(plan_of(p), v - 1)
    /\ txn.schema.objects = base \cup Created(plan_of(p), v, i)

OpenerFits(p, base, n) ==
    /\ opener[p].at = "migrating" => Agrees(p, n) /\ Progress(p, base, n, opener[p].next[1], opener[p].next[2])
    /\ opener[p].at = "open" =>
          Len(plan_of(p)) <= n /\ \A v \in 1..Len(plan_of(p)) : schema.ledger[v] = LedgerEntry(v, plan_of(p)[v])
    /\ opener[p].at = "failed" => base # {}

SchemaShape ==
    /\ opener \in [Openers -> [code : Codes, at : Places, next : Nat \X Nat]]
    /\ schema = [objects |-> schema.objects, ledger |-> schema.ledger]
    /\ \/ txn = NoTxn
       \/ /\ txn = [by |-> txn.by, schema |-> [objects |-> txn.schema.objects, ledger |-> txn.schema.ledger]]
          /\ txn.by \in Openers /\ opener[txn.by].at = "migrating"

MigrationsFit ==
    \E base \in Bases, code \in Codes : \E n \in 0..code.known :
        SchemaIs(base, code, n) /\ \A p \in Openers : OpenerFits(p, base, n)

LedgerIInv == SchemaShape /\ MigrationsFit

(* What a ledger of a plan says of it.                                       *)
LEMMA LedgerSays ==
    ASSUME NEW plan, NEW n \in Nat
    PROVE  /\ DOMAIN LedgerOf(plan, n) = 1..n /\ Len(LedgerOf(plan, n)) = n
           /\ \A v \in 1..n : LedgerOf(plan, n)[v] = LedgerEntry(v, plan[v])
           /\ Append(LedgerOf(plan, n), LedgerEntry(n + 1, plan[n + 1])) = LedgerOf(plan, n + 1)
<1> DEFINE L == LedgerOf(plan, n)
           X == {LedgerEntry(v, plan[v]) : v \in Nat}
           E(v) == LedgerEntry(v, plan[v])
<1>1. L = [v \in 1..n |-> E(v)] /\ LedgerOf(plan, n + 1) = [v \in 1..n + 1 |-> E(v)]
  BY DEF LedgerOf
<1>2. \A v \in Nat : E(v) \in X
  OBVIOUS
<1> HIDE DEF L, X, E
<1>3. L \in Seq(X) /\ DOMAIN L = 1..n /\ Len(L) = n /\ \A v \in 1..n : L[v] = E(v)
  BY <1>1, <1>2
<1>4. n + 1 \in Nat
  OBVIOUS
<1>5. Append(L, E(n + 1)) = [v \in 1..n + 1 |-> IF v <= n THEN L[v] ELSE E(n + 1)]
  BY <1>2, <1>3, <1>4
<1>6. \A v \in 1..n + 1 : (IF v <= n THEN L[v] ELSE E(n + 1)) = E(v)
  BY <1>3
<1>7. Append(L, E(n + 1)) = LedgerOf(plan, n + 1)
  BY <1>1, <1>5, <1>6
<1> QED BY <1>3, <1>7 DEF L, E

(* One ledger, one set of objects: a checksum is the statements.             *)
LEMMA SameObjects ==
    ASSUME NEW a \in Codes, NEW b \in Codes, NEW n \in Nat, n <= a.known, n <= b.known,
           \A v \in 1..n : LedgerEntry(v, Plan(a)[v]) = LedgerEntry(v, Plan(b)[v])
    PROVE  ObjectsOf(Plan(a), n) = ObjectsOf(Plan(b), n)
<1>1. ASSUME NEW v \in 1..n PROVE Plan(a)[v].statements = Plan(b)[v].statements
  <2>1. v \in 1..a.known /\ v \in 1..b.known
    BY PlanPlaced
  <2>2. Plan(a)[v].checksum = Plan(a)[v].statements /\ Plan(b)[v].checksum = Plan(b)[v].statements
    BY <2>1, PlanPlaced DEF PlacedIn
  <2>3. LedgerEntry(v, Plan(a)[v]).checksum = LedgerEntry(v, Plan(b)[v]).checksum
    OBVIOUS
  <2> QED BY <2>2, <2>3 DEF LedgerEntry
<1> QED BY <1>1 DEF ObjectsOf

(* The ledger is found whenever there is one.                                *)
LEMMA LedgerFound ==
    ASSUME NEW base, NEW code \in Codes, NEW n \in 0..code.known, SchemaIs(base, code, n)
    PROVE  read_ledger(schema) = schema.ledger /\ DOMAIN schema.ledger = 1..n /\ Len(schema.ledger) = n /\ n \in Nat
<1>1. n \in Nat /\ code.known \in Nat
  BY PlanPlaced
<1>2. DOMAIN schema.ledger = 1..n /\ Len(schema.ledger) = n
  BY <1>1, LedgerSays DEF SchemaIs
<1>3. CASE n = 0
  <2>1. schema.ledger = <<>>
    BY <1>3 DEF SchemaIs, LedgerOf
  <2> QED BY <1>1, <1>2, <2>1 DEF read_ledger
<1>4. CASE n # 0
  <2>1. code.known >= 1 /\ 1 \in 1..n
    BY <1>1, <1>4
  <2>2. "schema_version_ledger" \in {Plan(code)[1].statements[i] : i \in DOMAIN Plan(code)[1].statements}
    BY <2>1, PlanPlaced
  <2>3. "schema_version_ledger" \in schema.objects
    BY <2>1, <2>2 DEF SchemaIs, ObjectsOf
  <2> QED BY <1>1, <1>2, <2>3 DEF read_ledger
<1> QED BY <1>3, <1>4

(* What pending answers.                                                     *)
LEMMA PendingSays ==
    ASSUME NEW base, NEW code \in Codes, NEW n \in 0..code.known, SchemaIs(base, code, n), NEW p \in Openers, opener[p].code \in Codes,
           ~pending(schema, plan_of(p)).refused
    PROVE  /\ Agrees(p, n) /\ Len(plan_of(p)) \in Nat
           /\ pending(schema, plan_of(p)).from = n + 1 /\ pending(schema, plan_of(p)).to = Len(plan_of(p))
           /\ ObjectsOf(Plan(code), n) = ObjectsOf(plan_of(p), n)
<1>1. read_ledger(schema) = schema.ledger /\ DOMAIN schema.ledger = 1..n /\ Len(schema.ledger) = n /\ n \in Nat
  BY LedgerFound
<1>2. \A i \in 1..n : i \in DOMAIN plan_of(p) /\ schema.ledger[i] = LedgerEntry(i, plan_of(p)[i])
  BY <1>1 DEF pending, Refused
<1>3. pending(schema, plan_of(p)) = [refused |-> FALSE, from |-> n + 1, to |-> Len(plan_of(p))]
  BY <1>1, <1>2 DEF pending
<1>4. Len(plan_of(p)) \in Nat /\ DOMAIN plan_of(p) = 1..Len(plan_of(p)) /\ Len(plan_of(p)) = opener[p].code.known
  BY PlanPlaced DEF plan_of
<1>5. n <= Len(plan_of(p))
  <2>1. CASE n = 0
    BY <1>4, <2>1
  <2>2. CASE n # 0
    <3>1. n \in 1..n
      BY <1>1, <2>2
    <3> QED BY <1>1, <1>2, <1>4, <3>1
  <2> QED BY <2>1, <2>2
<1>6. Agrees(p, n)
  BY <1>2, <1>5 DEF Agrees
<1>7. \A v \in 1..n : LedgerEntry(v, Plan(code)[v]) = LedgerEntry(v, Plan(opener[p].code)[v])
  BY <1>1, <1>2, LedgerSays DEF SchemaIs, plan_of
<1>8. n <= code.known /\ code.known \in Nat
  BY PlanPlaced
<1>9. ObjectsOf(Plan(code), n) = ObjectsOf(plan_of(p), n)
  BY <1>1, <1>4, <1>5, <1>7, <1>8, SameObjects DEF plan_of
<1> QED BY <1>3, <1>4, <1>6, <1>9

(* A process that does nothing still fits.                                   *)
LEMMA OthersFit ==
    ASSUME NEW q \in Openers, NEW base, NEW n, OpenerFits(q, base, n), opener'[q] = opener[q], schema' = schema,
           txn' = txn \/ opener[q].at # "migrating"
    PROVE  OpenerFits(q, base, n)'
<1>1. plan_of(q)' = plan_of(q)
  BY DEF plan_of
<1>2. CASE opener[q].at = "migrating"
  BY <1>1, <1>2 DEF OpenerFits, Agrees, Progress
<1>3. CASE opener[q].at # "migrating"
  BY <1>1, <1>3 DEF OpenerFits
<1> QED BY <1>2, <1>3

(* The process that holds the transaction is the one that migrates.          *)
LEMMA OneMigrates ==
    ASSUME SchemaShape, NEW base, NEW n, NEW p \in Openers, OpenerFits(p, base, n)
    PROVE  opener[p].at = "migrating" <=> txn.by = p
<1>1. ASSUME opener[p].at = "migrating" PROVE txn.by = p
  BY <1>1 DEF OpenerFits, Progress
<1>2. ASSUME txn.by = p PROVE opener[p].at = "migrating"
  <2>1. txn # NoTxn
    BY <1>2, EvidenceAssumption DEF NoTxn
  <2> QED BY <1>2, <2>1 DEF SchemaShape
<1> QED BY <1>1, <1>2

(* A step of one process that leaves schema and transaction alone.           *)
LEMMA OpenerSteps ==
    ASSUME LedgerIInv, NEW p \in Openers, NEW r \in [code : Codes, at : Places \ {"migrating", "failed"}, next : Nat \X Nat],
           opener' = [opener EXCEPT ![p] = r], schema' = schema,
           txn' = IF txn.by = p THEN NoTxn ELSE txn,
           r.at = "open" => r.code = opener[p].code /\ Nothing(pending(schema, plan_of(p)))
    PROVE  LedgerIInv'
<1>1. SchemaShape /\ opener \in [Openers -> [code : Codes, at : Places, next : Nat \X Nat]]
  BY DEF LedgerIInv, SchemaShape
<1>2. opener'[p] = r /\ \A q \in Openers \ {p} : opener'[q] = opener[q]
  BY <1>1
<1>3. opener' \in [Openers -> [code : Codes, at : Places, next : Nat \X Nat]]
  BY <1>1
<1>4. PICK base \in Bases, code \in Codes : \E n \in 0..code.known :
        SchemaIs(base, code, n) /\ \A q \in Openers : OpenerFits(q, base, n)
  BY DEF LedgerIInv, MigrationsFit
<1>5. PICK n \in 0..code.known : SchemaIs(base, code, n) /\ \A q \in Openers : OpenerFits(q, base, n)
  BY <1>4
<1>6. SchemaIs(base, code, n)'
  BY <1>5 DEF SchemaIs
<1>7. ASSUME NEW q \in Openers \ {p} PROVE OpenerFits(q, base, n)'
  <2>1. opener[q].at = "migrating" => txn.by = q
    BY <1>1, <1>5, OneMigrates
  <2> QED BY <1>2, <1>5, <2>1, OthersFit
<1>8. OpenerFits(p, base, n)'
  <2>1. r.at # "migrating" /\ r.at # "failed"
    OBVIOUS
  <2>2. CASE r.at # "open"
    BY <1>2, <2>1, <2>2 DEF OpenerFits
  <2>3. CASE r.at = "open"
    <3>1. plan_of(p)' = plan_of(p) /\ opener[p].code \in Codes
      BY <1>1, <1>2, <2>3 DEF plan_of
    <3>2. ~pending(schema, plan_of(p)).refused /\ pending(schema, plan_of(p)).from > pending(schema, plan_of(p)).to
      BY <2>3 DEF Nothing
    <3>3. /\ Agrees(p, n) /\ Len(plan_of(p)) \in Nat /\ n \in Nat
          /\ pending(schema, plan_of(p)).from = n + 1 /\ pending(schema, plan_of(p)).to = Len(plan_of(p))
      <4>1. n \in Nat
        BY <1>5, LedgerFound
      <4> QED BY <1>5, <3>1, <3>2, <4>1, PendingSays
    <3>4. n = Len(plan_of(p))
      BY <3>2, <3>3 DEF Agrees
    <3>5. Len(plan_of(p)) <= n /\ \A v \in 1..Len(plan_of(p)) : schema.ledger[v] = LedgerEntry(v, plan_of(p)[v])
      BY <3>3, <3>4 DEF Agrees
    <3> QED BY <1>2, <2>1, <2>3, <3>1, <3>5 DEF OpenerFits
  <2> QED BY <2>2, <2>3
<1>9. MigrationsFit'
  BY <1>5, <1>6, <1>7, <1>8 DEF MigrationsFit
<1>10. SchemaShape'
  <2>1. CASE txn.by = p
    BY <1>1, <1>3, <2>1 DEF SchemaShape, NoTxn
  <2>2. CASE txn.by # p
    <3>1. txn' = txn
      BY <2>2
    <3>2. CASE txn = NoTxn
      BY <1>1, <1>3, <3>1, <3>2 DEF SchemaShape, NoTxn
    <3>3. CASE txn # NoTxn
      <4>1. txn.by \in Openers \ {p} /\ opener[txn.by].at = "migrating"
        BY <1>1, <2>2, <3>3 DEF SchemaShape
      <4>2. opener'[txn.by].at = "migrating"
        BY <1>2, <4>1
      <4> QED BY <1>1, <1>3, <3>1, <3>3, <4>1, <4>2 DEF SchemaShape
    <3> QED BY <3>2, <3>3
  <2> QED BY <2>1, <2>2
<1> QED BY <1>9, <1>10 DEF LedgerIInv

OpenerRecords == [code : Codes, at : Places, next : Nat \X Nat]

(* The record of a process after a step that moves it.                       *)
LEMMA OpenerMoves ==
    ASSUME NEW o \in OpenerRecords, NEW a \in Places, NEW x \in Nat \X Nat
    PROVE  /\ [o EXCEPT !.at = a, !.next = x] \in OpenerRecords
           /\ [o EXCEPT !.at = a, !.next = x].code = o.code
           /\ [o EXCEPT !.at = a, !.next = x].at = a
           /\ [o EXCEPT !.at = a, !.next = x].next = x
<1>1. o = [code |-> o.code, at |-> o.at, next |-> o.next] /\ o.code \in Codes
  BY DEF OpenerRecords
<1> DEFINE c == o.code  b == o.at  y == o.next
           o1 == [o EXCEPT !.at = a]
<1> HIDE DEF c, b, y
<1>3. o = [code |-> c, at |-> b, next |-> y]
  BY <1>1 DEF c, b, y
<1>4. o1 = [code |-> c, at |-> a, next |-> y]
  BY <1>3
<1> HIDE DEF o1
<1>5. [o1 EXCEPT !.next = x] = [code |-> c, at |-> a, next |-> x]
  BY <1>4
<1>2. [o EXCEPT !.at = a, !.next = x] = [code |-> o.code, at |-> a, next |-> x]
  BY <1>5 DEF o1, c
<1> QED BY <1>1, <1>2 DEF OpenerRecords

(* BEGIN IMMEDIATE: the transaction sees the schema, whose ledger the code   *)
(* of the process agrees with.                                               *)
LEMMA MigrationBegins ==
    ASSUME LedgerIInv, NEW p \in Openers, opener[p].at = "begin", txn = NoTxn,
           ~pending(schema, plan_of(p)).refused, schema' = schema,
           opener' = [opener EXCEPT ![p].at = "migrating", ![p].next = <<pending(schema, plan_of(p)).from, 1>>],
           txn' = [by |-> p, schema |-> schema]
    PROVE  LedgerIInv'
<1>1. SchemaShape /\ opener \in [Openers -> [code : Codes, at : Places, next : Nat \X Nat]]
  BY DEF LedgerIInv, SchemaShape
<1>4. PICK base \in Bases, code \in Codes : \E n \in 0..code.known :
        SchemaIs(base, code, n) /\ \A q \in Openers : OpenerFits(q, base, n)
  BY DEF LedgerIInv, MigrationsFit
<1>5. PICK n \in 0..code.known : SchemaIs(base, code, n) /\ \A q \in Openers : OpenerFits(q, base, n)
  BY <1>4
<1>6. opener[p].code \in Codes
  BY <1>1
<1>7. /\ Agrees(p, n) /\ Len(plan_of(p)) \in Nat /\ n \in Nat
      /\ pending(schema, plan_of(p)).from = n + 1
      /\ ObjectsOf(Plan(code), n) = ObjectsOf(plan_of(p), n)
      /\ Len(schema.ledger) = n /\ DOMAIN schema.ledger = 1..n
  BY <1>5, <1>6, PendingSays, LedgerFound
<1> DEFINE r == [opener[p] EXCEPT !.at = "migrating", !.next = <<n + 1, 1>>]
<1>8. opener' = [opener EXCEPT ![p] = r]
  BY <1>1, <1>7
<1>9. r.code = opener[p].code /\ r.at = "migrating" /\ r.next = <<n + 1, 1>> /\ r \in [code : Codes, at : Places, next : Nat \X Nat]
  <2>1. opener[p] \in OpenerRecords /\ "migrating" \in Places
    BY <1>1 DEF OpenerRecords, Places
  <2>2. <<n + 1, 1>> \in Nat \X Nat
    BY <1>7
  <2> QED BY <2>1, <2>2, OpenerMoves DEF OpenerRecords
<1> HIDE DEF r
<1>10. opener'[p] = r /\ (\A q \in Openers \ {p} : opener'[q] = opener[q]) /\ opener' \in [Openers -> [code : Codes, at : Places, next : Nat \X Nat]]
  BY <1>1, <1>8, <1>9
<1>11. SchemaIs(base, code, n)'
  BY <1>5 DEF SchemaIs
<1>12. ASSUME NEW q \in Openers \ {p} PROVE OpenerFits(q, base, n)'
  <2>1. opener[q].at # "migrating"
    <3>1. opener[q].at = "migrating" => txn.by = q
      BY <1>1, <1>5, OneMigrates
    <3> QED BY <3>1, EvidenceAssumption DEF NoTxn
  <2> QED BY <1>5, <1>10, <2>1, OthersFit
<1>13. plan_of(p)' = plan_of(p)
  BY <1>9, <1>10 DEF plan_of
<1>14. schema.ledger = LedgerOf(plan_of(p), n)
  <2>1. schema.ledger = LedgerOf(Plan(code), n)
    BY <1>5 DEF SchemaIs
  <2>2. \A v \in 1..n : LedgerEntry(v, Plan(code)[v]) = LedgerEntry(v, plan_of(p)[v])
    BY <1>7, <2>1, LedgerSays DEF Agrees
  <2> QED BY <2>1, <2>2 DEF LedgerOf
<1>15. schema.objects = base \cup Created(plan_of(p), n + 1, 1)
  <2>1. (n + 1) - 1 = n /\ 1..1 - 1 = {}
    BY <1>7
  <2>2. Created(plan_of(p), n + 1, 1) = ObjectsOf(plan_of(p), n)
    BY <2>1 DEF Created
  <2> QED BY <1>5, <1>7, <2>2 DEF SchemaIs
<1>16. Progress(p, base, n, n + 1, 1)'
  <2>1. n + 1 \in n + 1..Len(plan_of(p)) + 1
    BY <1>7 DEF Agrees
  <2>2. IF n + 1 <= Len(plan_of(p)) THEN 1 \in 1..Len(plan_of(p)[n + 1].statements) ELSE 1 = 1
    <3>1. CASE n + 1 <= Len(plan_of(p))
      <4>1. n + 1 \in 1..opener[p].code.known
        BY <1>6, <1>7, <3>1, PlanPlaced DEF plan_of
      <4>2. Len(plan_of(p)[n + 1].statements) \in Nat \ {0}
        BY <1>6, <4>1, PlanPlaced DEF plan_of, PlacedIn
      <4> QED BY <4>2
    <3> QED BY <3>1
  <2>3. txn'.by = p /\ txn'.schema = schema
    OBVIOUS
  <2>4. (n + 1) - 1 = n
    BY <1>7
  <2> QED BY <1>13, <1>14, <1>15, <2>1, <2>2, <2>3, <2>4 DEF Progress
<1>17. Agrees(p, n)'
  BY <1>7, <1>13 DEF Agrees
<1>18. OpenerFits(p, base, n)'
  BY <1>9, <1>10, <1>16, <1>17 DEF OpenerFits
<1>19. MigrationsFit'
  BY <1>5, <1>11, <1>12, <1>18 DEF MigrationsFit
<1>20. SchemaShape'
  BY <1>1, <1>9, <1>10 DEF SchemaShape
<1> QED BY <1>19, <1>20 DEF LedgerIInv

(* What a migrating process has run and what it runs next: its next object   *)
(* is created by no statement before it.                                     *)
LEMMA NextIsNew ==
    ASSUME NEW code \in Codes, NEW v \in 1..code.known, NEW i \in 1..Len(Plan(code)[v].statements)
    PROVE  Plan(code)[v].statements[i] \notin Created(Plan(code), v, i)
<1> DEFINE P == Plan(code)
<1>1. code.known \in 0..5 /\ \A w \in 1..code.known : PlacedIn(P[w], w)
  BY PlanPlaced
<1>2. Place[P[v].statements[i]] = <<v, i>> /\ v \in Nat /\ i \in Nat
  <2>1. PlacedIn(P[v], v)
    BY <1>1
  <2>2. Place[P[v].statements[i]] = <<v, i>>
    BY <2>1 DEF PlacedIn
  <2> QED BY <1>1, <2>1, <2>2 DEF PlacedIn
<1> SUFFICES ASSUME P[v].statements[i] \in Created(P, v, i) PROVE FALSE
  OBVIOUS
<1>3. CASE P[v].statements[i] \in {P[v].statements[j] : j \in 1..i - 1}
  <2>1. PICK j \in 1..i - 1 : P[v].statements[i] = P[v].statements[j]
    BY <1>3
  <2>2. j \in 1..Len(P[v].statements) /\ j # i
    BY <1>1, <1>2, <2>1 DEF PlacedIn
  <2>3. Place[P[v].statements[j]] = <<v, j>>
    BY <1>1, <2>2 DEF PlacedIn
  <2> QED BY <1>2, <2>1, <2>2, <2>3
<1>4. CASE P[v].statements[i] \in ObjectsOf(P, v - 1)
  <2>1. PICK w \in 1..v - 1 : P[v].statements[i] \in {P[w].statements[j] : j \in DOMAIN P[w].statements}
    BY <1>4 DEF ObjectsOf
  <2>2. w \in 1..code.known /\ w # v
    BY <1>1, <1>2, <2>1
  <2>3. PICK j \in 1..Len(P[w].statements) : P[v].statements[i] = P[w].statements[j]
    BY <1>1, <2>1, <2>2 DEF PlacedIn
  <2>4. Place[P[w].statements[j]] = <<w, j>>
    BY <1>1, <2>2, <2>3 DEF PlacedIn
  <2> QED BY <1>2, <2>2, <2>3, <2>4
<1> QED BY <1>3, <1>4 DEF Created

(* After a statement, one object more is created; after the last one of a    *)
(* migration, all of its objects are.                                        *)
LEMMA CreatedGrows ==
    ASSUME NEW code \in Codes, NEW v \in 1..code.known, NEW i \in 1..Len(Plan(code)[v].statements)
    PROVE  /\ Created(Plan(code), v, i) \cup {Plan(code)[v].statements[i]} = Created(Plan(code), v, i + 1)
           /\ i = Len(Plan(code)[v].statements) => Created(Plan(code), v, i + 1) = Created(Plan(code), v + 1, 1)
<1> DEFINE P == Plan(code)
           S(w) == {P[w].statements[j] : j \in DOMAIN P[w].statements}
<1>1. code.known \in 0..5 /\ PlacedIn(P[v], v)
  BY PlanPlaced
<1>2. v \in Nat /\ i \in Nat /\ DOMAIN P[v].statements = 1..Len(P[v].statements)
  BY <1>1 DEF PlacedIn
<1>3. 1..(i + 1) - 1 = (1..i - 1) \cup {i}
  BY <1>2
<1>4. {P[v].statements[j] : j \in 1..(i + 1) - 1} = {P[v].statements[j] : j \in 1..i - 1} \cup {P[v].statements[i]}
  BY <1>3
<1>5. Created(P, v, i) \cup {P[v].statements[i]} = Created(P, v, i + 1)
  BY <1>4 DEF Created
<1>6. ASSUME i = Len(P[v].statements) PROVE Created(P, v, i + 1) = Created(P, v + 1, 1)
  <2>1. (i + 1) - 1 = i /\ (v + 1) - 1 = v /\ 1..1 - 1 = {} /\ 1..v = (1..v - 1) \cup {v}
    BY <1>2
  <2>2. {P[v].statements[j] : j \in 1..(i + 1) - 1} = S(v)
    BY <1>2, <1>6, <2>1
  <2>3. ObjectsOf(P, v) = ObjectsOf(P, v - 1) \cup S(v)
    BY <2>1 DEF ObjectsOf
  <2>4. Created(P, v + 1, 1) = ObjectsOf(P, v)
    BY <2>1 DEF Created
  <2> QED BY <2>2, <2>3, <2>4 DEF Created
<1> QED BY <1>5, <1>6

(* A statement whose object is there already: it was there before any        *)
(* migration, and everything is rolled back.                                 *)
LEMMA StatementFails ==
    ASSUME LedgerIInv, NEW p \in Openers, opener[p].at = "migrating", opener[p].next[1] <= Len(plan_of(p)),
           plan_of(p)[opener[p].next[1]].statements[opener[p].next[2]] \in txn.schema.objects,
           txn' = NoTxn, schema' = schema, opener' = [opener EXCEPT ![p].at = "failed"]
    PROVE  LedgerIInv'
<1>1. SchemaShape /\ opener \in [Openers -> OpenerRecords]
  BY DEF LedgerIInv, SchemaShape, OpenerRecords
<1>2. PICK base \in Bases, code \in Codes : \E n \in 0..code.known :
        SchemaIs(base, code, n) /\ \A q \in Openers : OpenerFits(q, base, n)
  BY DEF LedgerIInv, MigrationsFit
<1>3. PICK n \in 0..code.known : SchemaIs(base, code, n) /\ \A q \in Openers : OpenerFits(q, base, n)
  BY <1>2
<1> DEFINE v == opener[p].next[1]
           i == opener[p].next[2]
           c == opener[p].code
<1>4. c \in Codes /\ plan_of(p) = Plan(c) /\ v \in Nat /\ i \in Nat /\ n \in Nat
  BY <1>1, PlanPlaced DEF plan_of, OpenerRecords
<1>5. Progress(p, base, n, v, i)
  BY <1>3 DEF OpenerFits
<1> HIDE DEF v, i, c
<1>6. v \in 1..c.known /\ i \in 1..Len(Plan(c)[v].statements)
  <2>1. Len(Plan(c)) = c.known /\ c.known \in Nat /\ v <= Len(Plan(c))
    BY <1>4, PlanPlaced DEF v
  <2> QED BY <1>4, <1>5, <2>1 DEF Progress
<1>7. base # {}
  <2>1. Plan(c)[v].statements[i] \in base \cup Created(Plan(c), v, i)
    BY <1>4, <1>5 DEF Progress, v, i
  <2> QED BY <1>4, <1>6, <2>1, NextIsNew
<1>8. /\ opener' \in [Openers -> OpenerRecords] /\ opener'[p].at = "failed"
      /\ \A q \in Openers \ {p} : opener'[q] = opener[q]
  BY <1>1 DEF OpenerRecords, Places
<1>9. ASSUME NEW q \in Openers \ {p} PROVE OpenerFits(q, base, n)'
  <2>1. opener[q].at # "migrating"
    <3>1. txn.by = p /\ (opener[q].at = "migrating" => txn.by = q)
      BY <1>1, <1>3, OneMigrates
    <3> QED BY <3>1
  <2> QED BY <1>3, <1>8, <2>1, OthersFit
<1>10. OpenerFits(p, base, n)'
  BY <1>7, <1>8 DEF OpenerFits
<1>11. SchemaIs(base, code, n)'
  BY <1>3 DEF SchemaIs
<1>12. MigrationsFit'
  BY <1>3, <1>9, <1>10, <1>11 DEF MigrationsFit
<1>13. SchemaShape'
  BY <1>1, <1>8 DEF SchemaShape, OpenerRecords
<1> QED BY <1>12, <1>13 DEF LedgerIInv

(* Where a statement leads, and the schema it leaves.                        *)
NextPlace(plan, v, i) == IF i = Len(plan[v].statements) THEN <<v + 1, 1>> ELSE <<v, i + 1>>
NextSchema(s, plan, v, i) ==
    [objects |-> s.objects \cup {plan[v].statements[i]},
     ledger |-> IF i = Len(plan[v].statements) THEN Append(s.ledger, LedgerEntry(v, plan[v])) ELSE s.ledger]

(* The process is at statement i of migration v and runs it.                 *)
RunsAt(p, v, i) ==
    /\ opener[p].at = "migrating" /\ v = opener[p].next[1] /\ i = opener[p].next[2] /\ v <= Len(plan_of(p))
    /\ txn' = [txn EXCEPT !.schema = NextSchema(txn.schema, plan_of(p), v, i)]
    /\ schema' = schema /\ opener' = [opener EXCEPT ![p].next = NextPlace(plan_of(p), v, i)]

(* A statement that runs: one object more and, after the last one of its     *)
(* migration, one row more in the ledger of the transaction.                 *)
LEMMA StatementRuns ==
    ASSUME LedgerIInv, NEW p \in Openers, NEW v \in Nat, NEW i \in Nat, RunsAt(p, v, i)
    PROVE  LedgerIInv'
<1>1. SchemaShape /\ opener \in [Openers -> OpenerRecords]
  BY DEF LedgerIInv, SchemaShape, OpenerRecords
<1>2. PICK base \in Bases, code \in Codes : \E n \in 0..code.known :
        SchemaIs(base, code, n) /\ \A q \in Openers : OpenerFits(q, base, n)
  BY DEF LedgerIInv, MigrationsFit
<1>3. PICK n \in 0..code.known : SchemaIs(base, code, n) /\ \A q \in Openers : OpenerFits(q, base, n)
  BY <1>2
<1>4. PICK c \in Codes : c = opener[p].code
  BY <1>1 DEF OpenerRecords
<1>5. plan_of(p) = Plan(c) /\ n \in Nat /\ v <= Len(Plan(c))
  BY <1>4, PlanPlaced DEF plan_of, RunsAt
<1>6. Progress(p, base, n, v, i) /\ Agrees(p, n)
  BY <1>3 DEF OpenerFits, RunsAt
<1>7. PICK K \in Nat : K = Len(Plan(c)) /\ K = c.known
  BY PlanPlaced
<1>8. v \in 1..K /\ n + 1 <= v /\ i \in 1..Len(Plan(c)[v].statements)
  BY <1>5, <1>6, <1>7 DEF Progress
<1>9. PICK m \in Nat : m = Len(Plan(c)[v].statements)
  BY <1>7, <1>8, PlanPlaced DEF PlacedIn
<1> DEFINE O == base \cup Created(Plan(c), v, i + 1)
           L == IF i = m THEN LedgerOf(Plan(c), v) ELSE LedgerOf(Plan(c), v - 1)
<1>10. txn.by = p /\ txn = [by |-> p, schema |-> txn.schema]
  <2>1. txn.by = p
    BY <1>6 DEF Progress
  <2>2. txn # NoTxn
    BY <2>1, EvidenceAssumption DEF NoTxn
  <2>3. txn = [by |-> txn.by, schema |-> [objects |-> txn.schema.objects, ledger |-> txn.schema.ledger]]
    BY <1>1, <2>2 DEF SchemaShape
  <2> QED BY <2>1, <2>3
<1>11. NextSchema(txn.schema, Plan(c), v, i) = [objects |-> O, ledger |-> L]
  <2>1. txn.schema.ledger = LedgerOf(Plan(c), v - 1) /\ txn.schema.objects = base \cup Created(Plan(c), v, i)
    BY <1>5, <1>6 DEF Progress
  <2>2. Created(Plan(c), v, i) \cup {Plan(c)[v].statements[i]} = Created(Plan(c), v, i + 1)
    BY <1>7, <1>8, CreatedGrows
  <2>3. txn.schema.objects \cup {Plan(c)[v].statements[i]} = O
    BY <2>1, <2>2
  <2>4. v - 1 \in Nat /\ (v - 1) + 1 = v
    BY <1>8
  <2>5. Append(LedgerOf(Plan(c), v - 1), LedgerEntry(v, Plan(c)[v])) = LedgerOf(Plan(c), v)
    BY <2>4, LedgerSays
  <2> QED BY <1>9, <2>1, <2>3, <2>5 DEF NextSchema
<1> HIDE DEF O, L
<1>12. txn' = [by |-> p, schema |-> [objects |-> O, ledger |-> L]]
  <2>1. txn' = [txn EXCEPT !.schema = [objects |-> O, ledger |-> L]]
    BY <1>5, <1>11 DEF RunsAt
  <2> QED BY <1>10, <2>1
<1>13. txn'.by = p /\ txn'.schema.objects = O /\ txn'.schema.ledger = L
  BY <1>12
<1>14. PICK x \in Nat \X Nat : x = NextPlace(Plan(c), v, i)
  <2>1. <<v + 1, 1>> \in Nat \X Nat /\ <<v, i + 1>> \in Nat \X Nat
    OBVIOUS
  <2> QED BY <2>1, Zenon DEF NextPlace
<1>15. /\ opener' \in [Openers -> OpenerRecords] /\ opener'[p].at = "migrating" /\ opener'[p].next = x /\ opener'[p].code = c
       /\ \A q \in Openers \ {p} : opener'[q] = opener[q]
  <2>1. opener' = [opener EXCEPT ![p].next = x]
    BY <1>5, <1>14 DEF RunsAt
  <2> DEFINE r == [opener[p] EXCEPT !.next = x]
  <2>2. opener[p] = [code |-> opener[p].code, at |-> opener[p].at, next |-> opener[p].next] /\ opener[p] \in OpenerRecords
    BY <1>1 DEF OpenerRecords
  <2>3. r = [code |-> c, at |-> "migrating", next |-> x]
    BY <1>4, <2>2 DEF RunsAt
  <2>4. "migrating" \in Places
    BY DEF Places
  <2>5. r \in OpenerRecords /\ r.at = "migrating" /\ r.next = x /\ r.code = c
    BY <2>3, <2>4 DEF OpenerRecords
  <2>6. opener' = [opener EXCEPT ![p] = r]
    BY <2>1
  <2> HIDE DEF r
  <2> QED BY <1>1, <2>5, <2>6
<1>16. ASSUME NEW q \in Openers \ {p} PROVE OpenerFits(q, base, n)'
  <2>1. opener[q].at # "migrating"
    <3>1. opener[q].at = "migrating" => txn.by = q
      BY <1>1, <1>3, OneMigrates
    <3> QED BY <1>10, <3>1
  <2> QED BY <1>3, <1>15, <2>1, OthersFit DEF RunsAt
<1>17. plan_of(p)' = Plan(c)
  BY <1>15 DEF plan_of
<1>18. Progress(p, base, n, x[1], x[2])'
  <2>1. CASE i = m
    <3>1. x[1] = v + 1 /\ x[2] = 1
      BY <1>9, <1>14, <2>1 DEF NextPlace
    <3>2. v + 1 \in n + 1..K + 1 /\ (v + 1) - 1 = v
      BY <1>5, <1>8
    <3>3. v + 1 <= K => 1 \in 1..Len(Plan(c)[v + 1].statements)
      <4>1. ASSUME v + 1 <= K PROVE Len(Plan(c)[v + 1].statements) \in Nat \ {0}
        <5>1. v + 1 \in 1..c.known
          BY <1>7, <4>1
        <5>2. PlacedIn(Plan(c)[v + 1], v + 1)
          BY <5>1, PlanPlaced
        <5> QED BY <5>2 DEF PlacedIn
      <4>2. \A k \in Nat \ {0} : 1 \in 1..k
        OBVIOUS
      <4> QED BY <4>1, <4>2
    <3>4. txn'.schema.objects = base \cup Created(Plan(c), v + 1, 1)
      <4>1. Created(Plan(c), v, i + 1) = Created(Plan(c), v + 1, 1)
        BY <1>7, <1>8, <1>9, <2>1, CreatedGrows
      <4> QED BY <1>13, <4>1 DEF O
    <3>5. txn'.schema.ledger = LedgerOf(Plan(c), v)
      BY <1>13, <2>1 DEF L
    <3> QED BY <1>7, <1>13, <1>17, <3>1, <3>2, <3>3, <3>4, <3>5 DEF Progress
  <2>2. CASE i # m
    <3>1. x[1] = v /\ x[2] = i + 1
      BY <1>9, <1>14, <2>2 DEF NextPlace
    <3>2. i + 1 \in 1..m
      <4>1. i \in 1..m
        BY <1>8, <1>9
      <4> QED BY <2>2, <4>1
    <3>3. v \in n + 1..K + 1 /\ v <= K
      BY <1>5, <1>8
    <3>4. txn'.schema.objects = base \cup Created(Plan(c), v, i + 1) /\ txn'.schema.ledger = LedgerOf(Plan(c), v - 1)
      BY <1>13, <2>2 DEF O, L
    <3> QED BY <1>7, <1>9, <1>13, <1>17, <3>1, <3>2, <3>3, <3>4 DEF Progress
  <2> QED BY <2>1, <2>2
<1>19. Agrees(p, n)'
  BY <1>5, <1>6, <1>17 DEF Agrees, RunsAt
<1>20. OpenerFits(p, base, n)'
  BY <1>15, <1>18, <1>19 DEF OpenerFits
<1>21. SchemaIs(base, code, n)'
  BY <1>3 DEF SchemaIs, RunsAt
<1>22. MigrationsFit'
  BY <1>3, <1>16, <1>20, <1>21 DEF MigrationsFit
<1>23. SchemaShape'
  <2>1. txn' = [by |-> txn'.by, schema |-> [objects |-> txn'.schema.objects, ledger |-> txn'.schema.ledger]]
    BY <1>12, <1>13
  <2>2. schema' = [objects |-> schema'.objects, ledger |-> schema'.ledger]
    BY <1>1 DEF SchemaShape, RunsAt
  <2> QED BY <1>13, <1>15, <2>1, <2>2 DEF SchemaShape, OpenerRecords
<1> QED BY <1>22, <1>23 DEF LedgerIInv

(* COMMIT: every migration of the code is in the ledger, and what the others *)
(* rest on is still its beginning.                                           *)
LEMMA MigrationCommits ==
    ASSUME LedgerIInv, NEW p \in Openers, opener[p].at = "migrating", opener[p].next[1] > Len(plan_of(p)),
           schema' = txn.schema, txn' = NoTxn, opener' = [opener EXCEPT ![p].at = "open"]
    PROVE  LedgerIInv'
<1>1. SchemaShape /\ opener \in [Openers -> OpenerRecords]
  BY DEF LedgerIInv, SchemaShape, OpenerRecords
<1>2. PICK base \in Bases, code \in Codes : \E n \in 0..code.known :
        SchemaIs(base, code, n) /\ \A q \in Openers : OpenerFits(q, base, n)
  BY DEF LedgerIInv, MigrationsFit
<1>3. PICK n \in 0..code.known : SchemaIs(base, code, n) /\ \A q \in Openers : OpenerFits(q, base, n)
  BY <1>2
<1>4. PICK c \in Codes : c = opener[p].code
  BY <1>1 DEF OpenerRecords
<1> DEFINE v == opener[p].next[1]
           i == opener[p].next[2]
<1>5. PICK K \in Nat : K = Len(Plan(c)) /\ K = c.known
  BY <1>4, PlanPlaced
<1>6. plan_of(p) = Plan(c) /\ v \in Nat /\ i \in Nat /\ n \in Nat /\ v > K
  BY <1>1, <1>4, <1>5, PlanPlaced DEF plan_of, OpenerRecords
<1>7. Progress(p, base, n, v, i) /\ Agrees(p, n)
  BY <1>3 DEF OpenerFits
<1> HIDE DEF v, i
<1>8. v = K + 1 /\ i = 1 /\ v - 1 = K /\ n <= K
  <2>1. v \in n + 1..K + 1 /\ n <= K /\ IF v <= K THEN i \in 1..Len(Plan(c)[v].statements) ELSE i = 1
    BY <1>5, <1>6, <1>7 DEF Progress, Agrees
  <2>2. ~(v <= K) /\ v = K + 1
    BY <1>6, <2>1
  <2> QED BY <2>1, <2>2
<1>9. schema'.ledger = LedgerOf(Plan(c), K) /\ schema'.objects = base \cup ObjectsOf(Plan(c), K)
  <2>1. txn.schema.ledger = LedgerOf(Plan(c), K) /\ txn.schema.objects = base \cup Created(Plan(c), K + 1, 1)
    BY <1>6, <1>7, <1>8 DEF Progress
  <2>2. (K + 1) - 1 = K /\ 1..1 - 1 = {}
    OBVIOUS
  <2>3. Created(Plan(c), K + 1, 1) = ObjectsOf(Plan(c), K)
    BY <2>2 DEF Created
  <2> QED BY <2>1, <2>3
<1>10. SchemaIs(base, c, K)'
  BY <1>9 DEF SchemaIs
<1>11. \A w \in 1..K : schema'.ledger[w] = LedgerEntry(w, Plan(c)[w])
  BY <1>9, LedgerSays
<1>12. \A w \in 1..n : schema'.ledger[w] = schema.ledger[w]
  BY <1>6, <1>7, <1>8, <1>11 DEF Agrees
<1>13. /\ opener' \in [Openers -> OpenerRecords] /\ opener'[p].at = "open" /\ opener'[p].code = c
       /\ \A q \in Openers \ {p} : opener'[q] = opener[q]
  BY <1>1, <1>4 DEF OpenerRecords, Places
<1>14. ASSUME NEW q \in Openers \ {p} PROVE OpenerFits(q, base, K)'
  <2>1. opener'[q].at # "migrating"
    <3>1. txn.by = p /\ (opener[q].at = "migrating" => txn.by = q)
      BY <1>1, <1>3, OneMigrates
    <3> QED BY <1>13, <3>1
  <2>2. plan_of(q)' = plan_of(q) /\ Len(plan_of(q)) \in Nat
    BY <1>1, <1>13, PlanPlaced DEF plan_of, OpenerRecords
  <2>3. ASSUME opener'[q].at = "open"
        PROVE  Len(plan_of(q)) <= K /\ \A w \in 1..Len(plan_of(q)) : schema'.ledger[w] = LedgerEntry(w, plan_of(q)[w])
    <3>1. Len(plan_of(q)) <= n /\ \A w \in 1..Len(plan_of(q)) : schema.ledger[w] = LedgerEntry(w, plan_of(q)[w])
      BY <1>3, <1>13, <2>3 DEF OpenerFits
    <3>2. \A w \in 1..Len(plan_of(q)) : w \in 1..n
      BY <1>6, <2>2, <3>1
    <3>3. Len(plan_of(q)) <= K
      BY <1>6, <1>8, <2>2, <3>1
    <3> QED BY <1>12, <3>1, <3>2, <3>3
  <2>4. opener'[q].at = "failed" => base # {}
    BY <1>3, <1>13 DEF OpenerFits
  <2> QED BY <2>1, <2>2, <2>3, <2>4 DEF OpenerFits
<1>15. OpenerFits(p, base, K)'
  <2>1. plan_of(p)' = Plan(c)
    BY <1>13 DEF plan_of
  <2>2. Len(Plan(c)) <= K
    BY <1>5
  <2> QED BY <1>5, <1>11, <1>13, <2>1, <2>2 DEF OpenerFits
<1>16. MigrationsFit'
  <2>1. K \in 0..c.known
    BY <1>5
  <2> QED BY <1>10, <1>14, <1>15, <2>1 DEF MigrationsFit
<1>17. SchemaShape'
  <2>1. txn # NoTxn
    <3>1. txn.by = p
      BY <1>7 DEF Progress
    <3> QED BY <3>1, EvidenceAssumption DEF NoTxn
  <2>2. txn = [by |-> txn.by, schema |-> [objects |-> txn.schema.objects, ledger |-> txn.schema.ledger]]
    BY <1>1, <2>1 DEF SchemaShape
  <2>3. schema' = [objects |-> schema'.objects, ledger |-> schema'.ledger]
    BY <2>2
  <2> QED BY <1>13, <2>3 DEF SchemaShape, OpenerRecords
<1> QED BY <1>16, <1>17 DEF LedgerIInv

(* A process that does not migrate moves and nothing else changes.           *)
LEMMA OpenerIdles ==
    ASSUME LedgerIInv, NEW p \in Openers, NEW a \in Places \ {"migrating", "failed"}, opener[p].at # "migrating",
           opener' = [opener EXCEPT ![p].at = a], schema' = schema, txn' = txn,
           a = "open" => Nothing(pending(schema, plan_of(p)))
    PROVE  LedgerIInv'
<1>1. SchemaShape /\ opener \in [Openers -> OpenerRecords]
  BY DEF LedgerIInv, SchemaShape, OpenerRecords
<1>2. txn.by # p
  <2>1. PICK base \in Bases, code \in Codes : \E n \in 0..code.known : \A q \in Openers : OpenerFits(q, base, n)
    BY DEF LedgerIInv, MigrationsFit
  <2>2. PICK n \in 0..code.known : OpenerFits(p, base, n)
    BY <2>1
  <2> QED BY <1>1, <2>2, OneMigrates
<1> DEFINE r == [opener[p] EXCEPT !.at = a]
<1>3. opener[p] = [code |-> opener[p].code, at |-> opener[p].at, next |-> opener[p].next]
      /\ opener[p].code \in Codes /\ opener[p].next \in Nat \X Nat
  BY <1>1 DEF OpenerRecords
<1>4. r = [code |-> opener[p].code, at |-> a, next |-> opener[p].next]
  BY <1>3
<1>5. opener' = [opener EXCEPT ![p] = r]
  OBVIOUS
<1>6. r \in [code : Codes, at : Places \ {"migrating", "failed"}, next : Nat \X Nat] /\ r.at = a /\ r.code = opener[p].code
  BY <1>3, <1>4
<1> HIDE DEF r
<1> QED BY <1>2, <1>5, <1>6, OpenerSteps

(* The steps that leave the schema, the transaction and the openers alone.   *)
LEMMA LedgerStays ==
    ASSUME LedgerIInv, schema' = schema, txn' = txn, opener' = opener
    PROVE  LedgerIInv'
<1>1. SchemaShape'
  BY DEF LedgerIInv, SchemaShape, NoTxn
<1>2. PICK base \in Bases, code \in Codes : \E n \in 0..code.known :
        SchemaIs(base, code, n) /\ \A q \in Openers : OpenerFits(q, base, n)
  BY DEF LedgerIInv, MigrationsFit
<1>3. PICK n \in 0..code.known : SchemaIs(base, code, n) /\ \A q \in Openers : OpenerFits(q, base, n)
  BY <1>2
<1>4. SchemaIs(base, code, n)'
  BY <1>3 DEF SchemaIs
<1>5. ASSUME NEW q \in Openers PROVE OpenerFits(q, base, n)'
  BY <1>3, OthersFit
<1>6. MigrationsFit'
  BY <1>4, <1>5 DEF MigrationsFit
<1> QED BY <1>1, <1>6 DEF LedgerIInv

(* The legacy database has no ledger, and every process is closed.           *)
LEMMA LedgerStarts == EvidenceInit => LedgerIInv
<1> SUFFICES ASSUME EvidenceInit PROVE LedgerIInv
  OBVIOUS
<1>1. PICK base \in Bases : schema = [objects |-> base, ledger |-> <<>>]
  BY DEF EvidenceInit, Bases
<1>2. PICK code \in Codes : TRUE
  BY EvidenceAssumption
<1>3. 0 \in 0..code.known /\ 1..0 = {}
  BY PlanPlaced
<1>4. LedgerOf(Plan(code), 0) = <<>> /\ ObjectsOf(Plan(code), 0) = {}
  BY <1>3 DEF LedgerOf, ObjectsOf
<1>5. SchemaIs(base, code, 0)
  BY <1>1, <1>4 DEF SchemaIs
<1>6. opener \in [Openers -> [code : Codes, at : Places, next : Nat \X Nat]] /\ \A p \in Openers : opener[p].at = "closed"
  <2>1. \A c \in Codes : [code |-> c, at |-> "closed", next |-> <<0, 0>>] \in [code : Codes, at : Places, next : Nat \X Nat]
    BY DEF Places
  <2>2. opener \in [Openers -> {[code |-> c, at |-> "closed", next |-> <<0, 0>>] : c \in Codes}]
    BY DEF EvidenceInit
  <2>3. \A p \in Openers : \E c \in Codes : opener[p] = [code |-> c, at |-> "closed", next |-> <<0, 0>>]
    BY <2>2
  <2> QED BY <2>1, <2>2, <2>3
<1>7. \A p \in Openers : OpenerFits(p, base, 0)
  BY <1>6 DEF OpenerFits
<1>8. SchemaShape
  BY <1>1, <1>6 DEF SchemaShape, EvidenceInit
<1>9. MigrationsFit
  BY <1>2, <1>3, <1>5, <1>7 DEF MigrationsFit
<1> QED BY <1>8, <1>9 DEF LedgerIInv

(* Every step keeps the ledger true.                                         *)
LEMMA LedgerKept == LedgerIInv /\ [EvidenceNext]_evidenceVars => LedgerIInv'
<1> SUFFICES ASSUME LedgerIInv, [EvidenceNext]_evidenceVars PROVE LedgerIInv'
  OBVIOUS
<1>1. opener \in [Openers -> OpenerRecords]
  BY DEF LedgerIInv, SchemaShape, OpenerRecords
<1>2. ASSUME NEW p \in Openers, OpenStore(p) PROVE LedgerIInv'
  <2> DEFINE todo == pending(schema, plan_of(p))
             a == CASE todo.refused -> "refused" [] Nothing(todo) -> "open" [] OTHER -> "begin"
  <2>1. opener[p].at = "closed" /\ opener' = [opener EXCEPT ![p].at = a] /\ schema' = schema /\ txn' = txn
    BY <1>2 DEF OpenStore
  <2>2. a \in Places \ {"migrating", "failed"} /\ (a = "open" => Nothing(todo))
    <3>1. Nothing(todo) => ~todo.refused
      BY DEF Nothing
    <3> HIDE DEF todo
    <3> QED BY <3>1 DEF Places
  <2> HIDE DEF a
  <2> QED BY <2>1, <2>2, OpenerIdles DEF todo
<1>3. ASSUME NEW p \in Openers, BeginMigration(p) PROVE LedgerIInv'
  <2>1. CASE pending(schema, plan_of(p)).refused
    <3>1. "refused" \in Places \ {"migrating", "failed"}
      BY DEF Places
    <3>2. opener[p].at = "begin" /\ opener' = [opener EXCEPT ![p].at = "refused"] /\ schema' = schema /\ txn' = txn
      BY <1>3, <2>1 DEF BeginMigration
    <3> QED BY <3>1, <3>2, OpenerIdles
  <2>2. CASE ~pending(schema, plan_of(p)).refused
    BY <1>3, <2>2, MigrationBegins DEF BeginMigration
  <2> QED BY <2>1, <2>2
<1>4. ASSUME NEW p \in Openers, BusyMigration(p) PROVE LedgerIInv'
  <2>1. "busy" \in Places \ {"migrating", "failed"}
    BY DEF Places
  <2>2. opener[p].at = "begin" /\ opener' = [opener EXCEPT ![p].at = "busy"] /\ schema' = schema /\ txn' = txn
    BY <1>4 DEF BusyMigration
  <2> QED BY <2>1, <2>2, OpenerIdles
<1>5. ASSUME NEW p \in Openers, RunStatement(p) PROVE LedgerIInv'
  <2>1. PICK v \in Nat, i \in Nat : v = opener[p].next[1] /\ i = opener[p].next[2]
    BY <1>1 DEF OpenerRecords
  <2>2. opener[p].at = "migrating" /\ v <= Len(plan_of(p)) /\ schema' = schema
    BY <1>5, <2>1 DEF RunStatement
  <2>3. CASE plan_of(p)[v].statements[i] \in txn.schema.objects
    <3>1. txn' = NoTxn /\ opener' = [opener EXCEPT ![p].at = "failed"]
      BY <1>5, <2>1, <2>3 DEF RunStatement
    <3> QED BY <2>1, <2>2, <2>3, <3>1, StatementFails
  <2>4. CASE plan_of(p)[v].statements[i] \notin txn.schema.objects
    <3>1. /\ txn' = [txn EXCEPT !.schema = NextSchema(txn.schema, plan_of(p), v, i)]
          /\ opener' = [opener EXCEPT ![p].next = NextPlace(plan_of(p), v, i)]
      BY <1>5, <2>1, <2>4 DEF RunStatement, NextSchema, NextPlace
    <3> QED BY <2>1, <2>2, <3>1, StatementRuns DEF RunsAt
  <2> QED BY <2>3, <2>4
<1>6. ASSUME NEW p \in Openers, CommitMigration(p) PROVE LedgerIInv'
  BY <1>6, MigrationCommits DEF CommitMigration
<1>7. ASSUME NEW p \in Openers, Restart(p) PROVE LedgerIInv'
  <2>1. PICK code \in Codes : opener' = [opener EXCEPT ![p] = [code |-> code, at |-> "closed", next |-> <<0, 0>>]]
    BY <1>7 DEF Restart
  <2> DEFINE r == [code |-> code, at |-> "closed", next |-> <<0, 0>>]
  <2>2. r \in [code : Codes, at : Places \ {"migrating", "failed"}, next : Nat \X Nat] /\ r.at # "open"
    BY DEF Places
  <2>3. schema' = schema /\ txn' = IF txn.by = p THEN NoTxn ELSE txn
    BY <1>7 DEF Restart
  <2> HIDE DEF r
  <2> QED BY <2>1, <2>2, <2>3, OpenerSteps DEF r
<1>8. ASSUME NEW p \in Openers, NEW d \in Drafts, save_evidence(p, d) PROVE LedgerIInv'
  BY <1>8, LedgerStays DEF save_evidence
<1>9. ASSUME NEW p \in Openers, NEW event \in DOMAIN Assets, build_verified_model_context(p, event) PROVE LedgerIInv'
  BY <1>9, LedgerStays DEF build_verified_model_context
<1>10. ASSUME NEW p \in Openers, NEW event \in DOMAIN Assets, NEW id \in Ids_stored, NEW claim \in Claims,
              link_event_evidence(p, event, id, claim)
       PROVE  LedgerIInv'
  BY <1>10, LedgerStays DEF link_event_evidence
<1>11. CASE RowEdited
  BY <1>11, LedgerStays DEF RowEdited
<1>12. CASE UNCHANGED evidenceVars
  BY <1>12, LedgerStays DEF evidenceVars
<1> QED BY <1>2, <1>3, <1>4, <1>5, <1>6, <1>7, <1>8, <1>9, <1>10, <1>11, <1>12 DEF EvidenceNext

(* What is committed is the legacy database and whole migrations.            *)
LEMMA LedgerInductive == LedgerIInv => LedgerTrue
<1> SUFFICES ASSUME LedgerIInv PROVE LedgerTrue
  OBVIOUS
<1>1. PICK base \in Bases, code \in Codes : \E n \in 0..code.known :
        SchemaIs(base, code, n) /\ \A q \in Openers : OpenerFits(q, base, n)
  BY DEF LedgerIInv, MigrationsFit
<1>2. PICK n \in 0..code.known : SchemaIs(base, code, n) /\ \A q \in Openers : OpenerFits(q, base, n)
  BY <1>1
<1>3. /\ n \in Nat /\ Len(schema.ledger) = n /\ DOMAIN schema.ledger = 1..n
      /\ \A v \in 1..n : schema.ledger[v] = LedgerEntry(v, Plan(code)[v])
  BY <1>2, LedgerFound, LedgerSays DEF SchemaIs
<1>4. n <= Len(Plan(code)) /\ schema.objects = base \cup ObjectsOf(Plan(code), n)
  BY <1>2, PlanPlaced DEF SchemaIs
<1>5. base \in {{}} \cup {{x} : x \in Strays}
  BY DEF Bases
<1>6. ASSUME NEW p \in Openers
      PROVE  /\ opener[p].at = "open" => \A v \in DOMAIN schema.ledger \cap DOMAIN plan_of(p) :
                                            schema.ledger[v] = LedgerEntry(v, plan_of(p)[v])
             /\ opener[p].at = "failed" => schema.objects \cap Strays # {}
  <2>1. DOMAIN plan_of(p) = 1..Len(plan_of(p))
    <3>1. opener[p].code \in Codes
      BY DEF LedgerIInv, SchemaShape
    <3> QED BY <3>1, PlanPlaced DEF plan_of
  <2>2. opener[p].at = "failed" => schema.objects \cap Strays # {}
    BY <1>2, <1>4, <1>5 DEF OpenerFits
  <2> QED BY <1>2, <2>1, <2>2 DEF OpenerFits
<1>7. \E b \in {{}} \cup {{x} : x \in Strays}, c \in Codes :
          LET k == Len(schema.ledger) plan == Plan(c)
          IN  /\ k <= Len(plan) /\ \A v \in 1..k : schema.ledger[v] = LedgerEntry(v, plan[v])
              /\ schema.objects = b \cup ObjectsOf(plan, k)
  BY <1>3, <1>4, <1>5
<1> QED BY <1>6, <1>7 DEF LedgerTrue

-----------------------------------------------------------------------------
(* Evidence, links and contexts.                                             *)

(* A record that was sealed.                                                 *)
Sealed(e) == \E d \in Drafts : CanSeal(d) /\ e = seal_evidence(d)

(* Whatever became of its record, a row keeps the columns of a sealed one.   *)
RowsIndexed ==
    \A r \in evidence_versions :
        /\ r = [columns |-> r.columns, record |-> r.record] /\ IsRecord(r.record)
        /\ \E d \in Drafts : CanSeal(d) /\ r.columns = identity_columns(seal_evidence(d))

(* An event is linked once.                                                  *)
LinkedOnce == \A l \in event_evidence : \A k \in event_evidence : l.event = k.event => l = k

(* A context cites the sealed record that its event is linked to.            *)
ContextsLinked ==
    \A c \in contexts : \A e \in c.evidence :
        /\ Sealed(e)
        /\ e.scope.instrument.base = Assets[c.event]
        /\ \E l \in event_evidence : l.event = c.event /\ l.evidence_id = e.evidence_id

ContextIInv == RowsIndexed /\ LinkedOnce /\ ContextsLinked

(* The id of a sealed record is its content: one id, one record.             *)
LEMMA SealedById ==
    ASSUME NEW e, NEW f, Sealed(e), Sealed(f), e.evidence_id = f.evidence_id
    PROVE  e = f
<1>1. PICK d \in Drafts : e = seal_evidence(d)
  BY DEF Sealed
<1>2. PICK g \in Drafts : f = seal_evidence(g)
  BY DEF Sealed
<1> DEFINE F(x) == {x.facts[i] : i \in DOMAIN x.facts}
<1>3. e = [evidence_id |-> <<d.scope, d.sealed_at, F(d), d.integrity>>, scope |-> d.scope, sealed_at |-> d.sealed_at,
           facts |-> F(d), integrity |-> d.integrity]
  BY <1>1 DEF seal_evidence
<1>4. f = [evidence_id |-> <<g.scope, g.sealed_at, F(g), g.integrity>>, scope |-> g.scope, sealed_at |-> g.sealed_at,
           facts |-> F(g), integrity |-> g.integrity]
  BY <1>2 DEF seal_evidence
<1> HIDE DEF F
<1>5. <<d.scope, d.sealed_at, F(d), d.integrity>> = <<g.scope, g.sealed_at, F(g), g.integrity>>
  BY <1>3, <1>4
<1>6. d.scope = g.scope /\ d.sealed_at = g.sealed_at /\ F(d) = F(g) /\ d.integrity = g.integrity
  BY <1>5
<1> QED BY <1>3, <1>4, <1>6

(* A sealed record's bindings hold, so that every fact it rests on is in it. *)
LEMMA SealedResolves ==
    ASSUME NEW e, Sealed(e)
    PROVE  \A f \in e.facts : \A dep \in f.depends_on : resolve_fact(e, dep, f.run, f.instrument) # {}
<1>1. validate_bindings(e)
  BY DEF Sealed, CanSeal
<1> SUFFICES ASSUME NEW f \in e.facts, NEW dep \in f.depends_on
             PROVE  resolve_fact(e, dep, f.run, f.instrument) # {}
  OBVIOUS
<1>2. dep \in Ids(e.facts) /\ f.run = e.scope.run /\ f.instrument = e.scope.instrument
  BY <1>1 DEF validate_bindings
<1>3. PICK g \in e.facts : g.fact_id = dep
  BY <1>2 DEF Ids
<1> QED BY <1>2, <1>3 DEF resolve_fact

(* What is read back under an id is the record that was sealed under it.     *)
LEMMA LoadedIsSealed ==
    ASSUME RowsIndexed, NEW id, ~load_evidence(id).absent, ~load_evidence(id).rejected
    PROVE  Sealed(load_evidence(id).record) /\ load_evidence(id).record.evidence_id = id
<1> DEFINE rows == {r \in evidence_versions : r.columns[1] = id}
           r == CHOOSE r \in rows : TRUE
<1>1. rows # {}
  BY DEF load_evidence, Absent
<1>2. r \in evidence_versions /\ r.columns[1] = id
  BY <1>1
<1>3. load_evidence(id) = IF evidence_from_record(r.record) /\ identity_columns(r.record) = r.columns
                          THEN [absent |-> FALSE, rejected |-> FALSE, record |-> r.record] ELSE Rejected
  BY <1>1 DEF load_evidence
<1> HIDE DEF r, rows
<1>4. evidence_from_record(r.record) /\ identity_columns(r.record) = r.columns
  BY <1>3 DEF Rejected
<1>5. load_evidence(id).record = r.record
  BY <1>3, <1>4
<1> DEFINE e == r.record
<1>6. e.evidence_id = <<e.scope, e.sealed_at, e.facts, e.integrity>> /\ IsRecord(e)
  BY <1>2, <1>4 DEF evidence_from_record, SealedEvidence, evidence_content, RowsIndexed
<1>7. PICK d \in Drafts : CanSeal(d) /\ r.columns = identity_columns(seal_evidence(d))
  BY <1>2 DEF RowsIndexed
<1> DEFINE s == seal_evidence(d)
<1>8. s.evidence_id = <<s.scope, s.sealed_at, s.facts, s.integrity>>
      /\ s = [evidence_id |-> s.evidence_id, scope |-> s.scope, sealed_at |-> s.sealed_at, facts |-> s.facts, integrity |-> s.integrity]
  BY DEF seal_evidence
<1> HIDE DEF s, e
<1>9. identity_columns(e) = identity_columns(s) /\ identity_columns(e)[1] = id
  BY <1>2, <1>4, <1>7 DEF s, e
<1>10. e.evidence_id = s.evidence_id /\ e.evidence_id = id
  BY <1>9 DEF identity_columns
<1>11. e.scope = s.scope /\ e.sealed_at = s.sealed_at /\ e.facts = s.facts /\ e.integrity = s.integrity
  BY <1>6, <1>8, <1>10
<1>12. e = s
  BY <1>6, <1>8, <1>10, <1>11 DEF IsRecord
<1>13. Sealed(e)
  BY <1>7, <1>12 DEF Sealed, s
<1> QED BY <1>5, <1>10, <1>13 DEF e

(* Saving: the new row has the columns of the record it holds.               *)
LEMMA RowsKept ==
    ASSUME ContextIInv, evidence_versions' \subseteq evidence_versions \cup {x \in evidence_versions' :
               /\ x = [columns |-> x.columns, record |-> x.record] /\ IsRecord(x.record)
               /\ \E d \in Drafts : CanSeal(d) /\ x.columns = identity_columns(seal_evidence(d))},
           event_evidence' = event_evidence, contexts' = contexts
    PROVE  ContextIInv'
<1>1. RowsIndexed'
  BY DEF ContextIInv, RowsIndexed
<1>2. LinkedOnce' /\ ContextsLinked'
  BY DEF ContextIInv, LinkedOnce, ContextsLinked
<1> QED BY <1>1, <1>2 DEF ContextIInv

(* A row edited by hand keeps its columns and holds a record of some kind.   *)
LEMMA EditedRow ==
    ASSUME RowsIndexed, NEW r \in evidence_versions, NEW x,
           \/ \E e \in Edits : x = [r EXCEPT !.record = e]
           \/ \E id \in Ids_stored : x = [r EXCEPT !.record.evidence_id = id]
    PROVE  /\ x = [columns |-> x.columns, record |-> x.record] /\ IsRecord(x.record)
           /\ \E d \in Drafts : CanSeal(d) /\ x.columns = identity_columns(seal_evidence(d))
<1>1. /\ r = [columns |-> r.columns, record |-> r.record] /\ IsRecord(r.record)
      /\ \E d \in Drafts : CanSeal(d) /\ r.columns = identity_columns(seal_evidence(d))
  BY DEF RowsIndexed
<1>2. ASSUME NEW e \in Edits, x = [r EXCEPT !.record = e] PROVE x.columns = r.columns /\ x = [columns |-> r.columns, record |-> e] /\ IsRecord(e)
  BY <1>1, <1>2, EvidenceAssumption
<1>3. ASSUME NEW id \in Ids_stored, x = [r EXCEPT !.record.evidence_id = id]
      PROVE  \E e : x = [columns |-> r.columns, record |-> e] /\ IsRecord(e)
  <2> DEFINE a == r.record
             e == [a EXCEPT !.evidence_id = id]
  <2>1. x = [r EXCEPT !.record = e]
    BY <1>3
  <2>2. a = [evidence_id |-> a.evidence_id, scope |-> a.scope, sealed_at |-> a.sealed_at, facts |-> a.facts, integrity |-> a.integrity]
    BY <1>1 DEF IsRecord
  <2> HIDE DEF a
  <2>3. e = [evidence_id |-> id, scope |-> a.scope, sealed_at |-> a.sealed_at, facts |-> a.facts, integrity |-> a.integrity]
    BY <2>2
  <2>4. IsRecord(e)
    BY <2>3 DEF IsRecord
  <2> HIDE DEF e
  <2>5. x = [columns |-> r.columns, record |-> e]
    BY <1>1, <2>1
  <2> QED BY <2>4, <2>5
<1>4. PICK e : x = [columns |-> r.columns, record |-> e] /\ IsRecord(e)
  BY <1>2, <1>3
<1> QED BY <1>1, <1>4

(* Every step keeps rows, links and contexts together.                       *)
LEMMA ContextKept == ContextIInv /\ [EvidenceNext]_evidenceVars => ContextIInv'
<1> SUFFICES ASSUME ContextIInv, [EvidenceNext]_evidenceVars PROVE ContextIInv'
  OBVIOUS
<1>1. ASSUME UNCHANGED <<evidence_versions, event_evidence, contexts>> PROVE ContextIInv'
  BY <1>1 DEF ContextIInv, RowsIndexed, LinkedOnce, ContextsLinked
<1>2. ASSUME NEW p \in Openers,
             OpenStore(p) \/ BeginMigration(p) \/ BusyMigration(p) \/ RunStatement(p) \/ CommitMigration(p) \/ Restart(p)
      PROVE  ContextIInv'
  BY <1>1, <1>2 DEF OpenStore, BeginMigration, BusyMigration, RunStatement, CommitMigration, Restart
<1>3. ASSUME NEW p \in Openers, NEW d \in Drafts, save_evidence(p, d) PROVE ContextIInv'
  <2> DEFINE e == seal_evidence(d)
             x == [columns |-> identity_columns(e), record |-> e]
  <2>1. /\ evidence_versions' = evidence_versions \cup {x} /\ event_evidence' = event_evidence /\ contexts' = contexts
        /\ CanSeal(d)
    BY <1>3 DEF save_evidence
  <2>2. IsRecord(e)
    BY DEF IsRecord, seal_evidence
  <2>3. x.columns = identity_columns(seal_evidence(d)) /\ x.record = e /\ x = [columns |-> x.columns, record |-> x.record]
    OBVIOUS
  <2> HIDE DEF e, x
  <2> QED BY <2>1, <2>2, <2>3, RowsKept
<1>4. ASSUME NEW p \in Openers, NEW event \in DOMAIN Assets, NEW id \in Ids_stored, NEW claim \in Claims,
             link_event_evidence(p, event, id, claim)
      PROVE  ContextIInv'
  <2> DEFINE link == [event |-> event, evidence_id |-> id, run |-> claim.run, instrument |-> claim.instrument]
  <2>1. /\ load_link(event) = {} /\ event_evidence' = event_evidence \cup {link}
        /\ evidence_versions' = evidence_versions /\ contexts' = contexts
    BY <1>4 DEF link_event_evidence
  <2>2. link.event = event
    OBVIOUS
  <2> HIDE DEF link
  <2>3. \A l \in event_evidence : l.event # event
    BY <2>1 DEF load_link
  <2>4. LinkedOnce'
    BY <2>1, <2>2, <2>3 DEF ContextIInv, LinkedOnce
  <2>5. RowsIndexed'
    BY <2>1 DEF ContextIInv, RowsIndexed
  <2>6. ContextsLinked'
    BY <2>1 DEF ContextIInv, ContextsLinked
  <2> QED BY <2>4, <2>5, <2>6 DEF ContextIInv
<1>5. ASSUME NEW p \in Openers, NEW event \in DOMAIN Assets, build_verified_model_context(p, event) PROVE ContextIInv'
  <2> DEFINE found == load_event_evidence(event)
             c == build_model_context(event, found)
  <2>1. /\ verify_event_evidence(event, found) /\ contexts' = contexts \cup {c}
        /\ evidence_versions' = evidence_versions /\ event_evidence' = event_evidence
    BY <1>5 DEF build_verified_model_context
  <2>2. c.event = event /\ c.evidence = evidence_block(found)
    BY DEF build_model_context
  <2>3. ASSUME NEW e \in c.evidence
        PROVE  /\ Sealed(e) /\ e.scope.instrument.base = Assets[event]
               /\ \E l \in event_evidence : l.event = event /\ l.evidence_id = e.evidence_id
    <3> DEFINE l == CHOOSE l \in load_link(event) : TRUE
    <3>1. load_link(event) # {}
      <4>1. load_link(event) = {} => found.legacy
        BY DEF load_event_evidence
      <4>2. ~found.legacy
        BY <2>2, <2>3 DEF evidence_block
      <4> QED BY <4>1, <4>2
    <3>2. l \in event_evidence /\ l.event = event
      BY <3>1 DEF load_link
    <3>3. found = [legacy |-> FALSE, link |-> l, loaded |-> load_evidence(l.evidence_id)]
      BY <3>1 DEF load_event_evidence
    <3> HIDE DEF l, found
    <3>4. verify_link(l, load_evidence(l.evidence_id), event) /\ e = load_evidence(l.evidence_id).record
      BY <2>1, <2>2, <2>3, <3>3 DEF verify_event_evidence, evidence_block
    <3>5. Sealed(e) /\ e.evidence_id = l.evidence_id
      BY <3>4, LoadedIsSealed DEF verify_link, ContextIInv
    <3>6. e.scope.instrument.base = Assets[event]
      BY <3>4 DEF verify_link
    <3> QED BY <3>2, <3>5, <3>6
  <2> HIDE DEF c
  <2>4. ContextsLinked'
    BY <2>1, <2>2, <2>3 DEF ContextIInv, ContextsLinked
  <2>5. RowsIndexed' /\ LinkedOnce'
    BY <2>1 DEF ContextIInv, RowsIndexed, LinkedOnce
  <2> QED BY <2>4, <2>5 DEF ContextIInv
<1>6. CASE RowEdited
  <2>1. event_evidence' = event_evidence /\ contexts' = contexts
    BY <1>6 DEF RowEdited
  <2>2. PICK r \in evidence_versions :
          \/ \E e \in Edits : evidence_versions' = (evidence_versions \ {r}) \cup {[r EXCEPT !.record = e]}
          \/ \E id \in Ids_stored : evidence_versions' = (evidence_versions \ {r}) \cup {[r EXCEPT !.record.evidence_id = id]}
          \/ evidence_versions' = evidence_versions \ {r}
    BY <1>6 DEF RowEdited
  <2>3. CASE evidence_versions' = evidence_versions \ {r}
    BY <2>1, <2>3, RowsKept
  <2>4. ASSUME NEW e \in Edits, evidence_versions' = (evidence_versions \ {r}) \cup {[r EXCEPT !.record = e]} PROVE ContextIInv'
    <3> DEFINE x == [r EXCEPT !.record = e]
    <3>1. /\ x = [columns |-> x.columns, record |-> x.record] /\ IsRecord(x.record)
          /\ \E d \in Drafts : CanSeal(d) /\ x.columns = identity_columns(seal_evidence(d))
      BY EditedRow DEF ContextIInv
    <3>2. evidence_versions' = (evidence_versions \ {r}) \cup {x}
      BY <2>4
    <3> HIDE DEF x
    <3> QED BY <2>1, <3>1, <3>2, RowsKept
  <2>5. ASSUME NEW id \in Ids_stored, evidence_versions' = (evidence_versions \ {r}) \cup {[r EXCEPT !.record.evidence_id = id]}
        PROVE  ContextIInv'
    <3> DEFINE x == [r EXCEPT !.record.evidence_id = id]
    <3>1. /\ x = [columns |-> x.columns, record |-> x.record] /\ IsRecord(x.record)
          /\ \E d \in Drafts : CanSeal(d) /\ x.columns = identity_columns(seal_evidence(d))
      BY EditedRow DEF ContextIInv
    <3>2. evidence_versions' = (evidence_versions \ {r}) \cup {x}
      BY <2>5
    <3> HIDE DEF x
    <3> QED BY <2>1, <3>1, <3>2, RowsKept
  <2> QED BY <2>2, <2>3, <2>4, <2>5
<1>7. CASE UNCHANGED evidenceVars
  BY <1>1, <1>7 DEF evidenceVars
<1> QED BY <1>2, <1>3, <1>4, <1>5, <1>6, <1>7 DEF EvidenceNext

(* Contexts built of an event cite one record.                               *)
LEMMA ContextInductive == ContextIInv => ContextTrue
<1> SUFFICES ASSUME ContextIInv, NEW c \in contexts, NEW e \in c.evidence
             PROVE  /\ \E d \in Drafts : CanSeal(d) /\ e = seal_evidence(d)
                    /\ e.scope.instrument.base = Assets[c.event]
                    /\ \A f \in e.facts : \A dep \in f.depends_on : resolve_fact(e, dep, f.run, f.instrument) # {}
                    /\ \A other \in contexts : other.event = c.event => other.evidence \subseteq {e}
  BY DEF ContextTrue
<1>1. Sealed(e) /\ e.scope.instrument.base = Assets[c.event]
  BY DEF ContextIInv, ContextsLinked
<1>2. PICK l \in event_evidence : l.event = c.event /\ l.evidence_id = e.evidence_id
  BY DEF ContextIInv, ContextsLinked
<1>3. ASSUME NEW other \in contexts, other.event = c.event, NEW g \in other.evidence PROVE g = e
  <2>1. Sealed(g)
    BY DEF ContextIInv, ContextsLinked
  <2>2. PICK k \in event_evidence : k.event = other.event /\ k.evidence_id = g.evidence_id
    BY DEF ContextIInv, ContextsLinked
  <2>3. k = l
    BY <1>2, <1>3, <2>2 DEF ContextIInv, LinkedOnce
  <2> QED BY <1>1, <1>2, <2>1, <2>2, <2>3, SealedById
<1>4. \A f \in e.facts : \A dep \in f.depends_on : resolve_fact(e, dep, f.run, f.instrument) # {}
  BY <1>1, SealedResolves
<1> QED BY <1>1, <1>3, <1>4 DEF Sealed

(* Whatever processes open the database, with whatever versions of the code  *)
(* and however often they die, the ledger of migrations says what the schema *)
(* is (apply_schema_migrations), and however stored rows are edited, a       *)
(* context cites one sealed record of its own event (evidence_from_record,   *)
(* load_event_evidence).                                                     *)
THEOREM EvidenceSound == EvidenceSpec => []EvidenceInv
<1>1. EvidenceInit => LedgerIInv /\ ContextIInv
  <2>1. EvidenceInit => ContextIInv
    BY DEF EvidenceInit, ContextIInv, RowsIndexed, LinkedOnce, ContextsLinked
  <2> QED BY <2>1, LedgerStarts
<1>2. LedgerIInv /\ ContextIInv /\ [EvidenceNext]_evidenceVars => (LedgerIInv /\ ContextIInv)'
  BY LedgerKept, ContextKept
<1>3. LedgerIInv /\ ContextIInv => EvidenceInv
  BY LedgerInductive, ContextInductive DEF EvidenceInv
<1> QED BY <1>1, <1>2, <1>3, PTL DEF EvidenceSpec
-----------------------------------------------------------------------------
(* The pre-registration registry.                                            *)

EventsOf == {"register", "holdout"} \X RegNames \X RegHashes
RegLine == [seq : Nat, event : EventsOf]

(* Every variable of the registry is what the program can hold there. *)
RegistryTypeOK ==
    /\ registry \in [lines : Seq(RegLine), torn : BOOLEAN]
    /\ reglock \in BOOLEAN
    /\ research \in [Researchers -> [pc : {"idle", "payload", "append", "compute"},
                                     payload : EventsOf \cup {<<>>}, seen : Nat]]
    /\ \A p \in Researchers : research[p].pc # "idle" => research[p].payload \in EventsOf
    /\ holdouts \in [RegNames -> Nat]

(* A holdout that is about to be recorded has its registration on file: it  *)
(* was there at the reading before the lock, and no line is ever removed.   *)
SourceOnFile ==
    \A p \in Researchers : research[p].pc \in {"payload", "append"} /\ research[p].payload[1] = "holdout" =>
        \E j \in DOMAIN registry.lines : Line(j) = Ev("register", research[p].payload[2], research[p].payload[3])

OnlyHoldoutsComputed ==
    \A p \in Researchers : research[p].pc = "compute" => research[p].payload[1] = "holdout"

RegistryIInv == RegistryTypeOK /\ SourceOnFile /\ OnlyHoldoutsComputed /\ RegistryInv

-----------------------------------------------------------------------------
(* The counts of the invariant are numbers. *)
LEMMA CountsAreNumbers ==
    ASSUME RegistryTypeOK, NEW n
    PROVE  /\ IsFiniteSet(Computing(n)) /\ Cardinality(Computing(n)) \in Nat
           /\ IsFiniteSet(RecordedHoldouts(n)) /\ Cardinality(RecordedHoldouts(n)) \in Nat
<1>1. IsFiniteSet(Computing(n))
  BY RegistryAssumption, FS_Subset DEF Computing
<1>2. IsFiniteSet(RecordedHoldouts(n))
  BY FS_Interval, FS_Subset DEF RecordedHoldouts, RegistryTypeOK
<1> QED BY <1>1, <1>2, FS_CardinalityType

(* The lock, the registry's lines and what was counted are as before: the   *)
(* invariant's parts on the log and the counts carry over when no process   *)
(* enters or leaves a computation.                                          *)
LEMMA LogUnchanged ==
    ASSUME RegistryIInv, UNCHANGED holdouts, registry'.lines = registry.lines,
           \A p \in Researchers : research'[p].pc = "compute" => research[p] = research'[p]
    PROVE  Chained' /\ RegisteredFirst' /\ ComputedOnRecord'
<1>1. \A k : Line(k)' = Line(k)
  BY DEF Line
<1>2. \A n : RecordedHoldouts(n)' = RecordedHoldouts(n)
  BY <1>1 DEF RecordedHoldouts
<1>3. \A n : Computing(n)' \subseteq Computing(n)
  BY DEF Computing
<1>4. ASSUME NEW n \in RegNames
      PROVE  holdouts'[n] + Cardinality(Computing(n)') <= Cardinality(RecordedHoldouts(n)')
  <2>1. /\ Cardinality(Computing(n)') <= Cardinality(Computing(n)) /\ Cardinality(Computing(n)') \in Nat
        /\ Cardinality(Computing(n)) \in Nat /\ Cardinality(RecordedHoldouts(n)) \in Nat
    BY <1>3, CountsAreNumbers, FS_Subset, FS_CardinalityType DEF RegistryIInv
  <2> QED BY <1>2, <2>1 DEF RegistryIInv, RegistryInv, ComputedOnRecord, RegistryTypeOK
<1> QED BY <1>1, <1>2, <1>4 DEF RegistryIInv, RegistryInv, Chained, RegisteredFirst, ComputedOnRecord

(* An appended line: the log before it is as it was. *)
LEMMA Appending ==
    ASSUME RegistryTypeOK, NEW l \in RegLine, registry'.lines = Append(registry.lines, l)
    PROVE  /\ DOMAIN registry.lines = 1..Len(registry.lines) /\ Len(registry.lines) \in Nat
           /\ DOMAIN registry'.lines = 1..(Len(registry.lines) + 1)
           /\ \A k \in 1..(Len(registry.lines) + 1) :
                 /\ registry'.lines[k] = IF k = Len(registry.lines) + 1 THEN l ELSE registry.lines[k]
                 /\ Line(k)' = IF k = Len(registry.lines) + 1 THEN l.event ELSE Line(k)
<1> DEFINE old == registry.lines
<1>1. old \in Seq(RegLine)
  BY DEF RegistryTypeOK
<1>2. /\ DOMAIN old = 1..Len(old) /\ Len(old) \in Nat
      /\ DOMAIN Append(old, l) = 1..(Len(old) + 1)
      /\ \A k \in 1..(Len(old) + 1) : Append(old, l)[k] = IF k = Len(old) + 1 THEN l ELSE old[k]
  BY <1>1
<1> QED BY <1>2 DEF Line

-----------------------------------------------------------------------------
(* The empty registry, with no process at work. *)
LEMMA RegistryInitially == RegistryInit => RegistryIInv
<1> SUFFICES ASSUME RegistryInit PROVE RegistryIInv
  OBVIOUS
<1>a. RegIdle \in [pc : {"idle", "payload", "append", "compute"}, payload : EventsOf \cup {<<>>}, seen : Nat]
  BY DEF RegIdle
<1>b. \A p \in Researchers : research[p] = RegIdle /\ research[p].pc = "idle"
  BY DEF RegistryInit, RegIdle
<1>0. RegistryTypeOK
  <2>0. <<>> \in Seq(RegLine) /\ FALSE \in BOOLEAN
    OBVIOUS
  <2>1. /\ registry \in [lines : Seq(RegLine), torn : BOOLEAN] /\ reglock \in BOOLEAN
    BY <2>0, Zenon DEF RegistryInit
  <2>3. holdouts \in [RegNames -> Nat]
    BY DEF RegistryInit
  <2>2. research \in [Researchers -> [pc : {"idle", "payload", "append", "compute"},
                                     payload : EventsOf \cup {<<>>}, seen : Nat]]
    BY <1>a DEF RegistryInit
  <2> QED BY <1>b, <2>1, <2>2, <2>3 DEF RegistryTypeOK
<1>1. SourceOnFile /\ OnlyHoldoutsComputed
  BY <1>b DEF SourceOnFile, OnlyHoldoutsComputed
<1>2. Chained /\ OneWriter
  BY <1>b DEF Chained, OneWriter, RegistryInit
<1>3. \A n \in RegNames : RecordedHoldouts(n) = {} /\ Computing(n) = {}
  BY <1>b DEF RecordedHoldouts, Computing, RegistryInit
<1>4. RegisteredFirst
  BY <1>3 DEF RegisteredFirst
<1>5. ComputedOnRecord
  <2>1. \A n \in RegNames : holdouts[n] = 0
    BY DEF RegistryInit
  <2>2. \A n \in RegNames : Cardinality(RecordedHoldouts(n)) = 0 /\ Cardinality(Computing(n)) = 0
    BY <1>3, FS_EmptySet, Zenon
  <2> QED BY <2>1, <2>2 DEF ComputedOnRecord
<1> QED BY <1>0, <1>1, <1>2, <1>4, <1>5 DEF RegistryIInv, RegistryInv, RegistryInit

(* A payload is built on a reading of the registry: what a holdout needs is *)
(* on file, and nothing else moves.                                         *)
LEMMA PrepareKeeps ==
    ASSUME RegistryIInv, NEW p \in Researchers, NEW event \in EventsOf,
           research[p].pc = "idle", Prepare(p, event),
           event[1] = "holdout" => \E j \in DOMAIN registry.lines : Line(j) = Ev("register", event[2], event[3])
    PROVE  RegistryIInv'
<1>1. /\ research' = [research EXCEPT ![p] = [pc |-> "payload", payload |-> event, seen |-> 0]]
      /\ UNCHANGED <<registry, reglock, holdouts>>
  BY DEF Prepare
<1>2. RegistryTypeOK'
  BY <1>1 DEF RegistryIInv, RegistryTypeOK
<1>3. \A q \in Researchers : research'[q] = IF q = p THEN [pc |-> "payload", payload |-> event, seen |-> 0] ELSE research[q]
  BY <1>1 DEF RegistryIInv, RegistryTypeOK
<1>4. SourceOnFile' /\ OnlyHoldoutsComputed'
  BY <1>1, <1>3 DEF RegistryIInv, SourceOnFile, OnlyHoldoutsComputed, Line
<1>5. Chained' /\ RegisteredFirst' /\ ComputedOnRecord'
  BY <1>1, <1>3, LogUnchanged
<1>6. OneWriter'
  BY <1>1, <1>3 DEF RegistryIInv, RegistryInv, OneWriter
<1> QED BY <1>2, <1>4, <1>5, <1>6 DEF RegistryIInv, RegistryInv, RegistryTypeOK

(* register builds a line and writes nothing yet.                            *)
LEMMA RegisterKeeps ==
    ASSUME RegistryIInv, NEW p \in Researchers, NEW n \in RegNames, NEW h \in RegHashes, register(p, n, h)
    PROVE  RegistryIInv'
<1>1. Ev("register", n, h) \in EventsOf /\ Ev("register", n, h)[1] # "holdout"
  BY DEF Ev, EventsOf
<1> QED BY <1>1, PrepareKeeps DEF register

(* begin_holdout builds its line from a source that is on file.              *)
LEMMA BeginHoldoutKeeps ==
    ASSUME RegistryIInv, NEW p \in Researchers, NEW n \in RegNames, NEW h \in RegHashes, begin_holdout(p, n, h)
    PROVE  RegistryIInv'
<1>1. Ev("holdout", n, h) \in EventsOf /\ Ev("holdout", n, h)[2] = n /\ Ev("holdout", n, h)[3] = h
  BY DEF Ev, EventsOf
<1>2. PICK k \in Registered(n) : registry.lines[k].event[3] = h
  BY DEF begin_holdout, holdout_payload, verify_source
<1>3. k \in DOMAIN registry.lines /\ Line(k)[1] = "register" /\ Line(k)[2] = n /\ Line(k)[3] = h
  BY <1>2 DEF Registered, Line
<1>4. Line(k) \in EventsOf
  <2>1. registry.lines[k] \in RegLine
    BY <1>3 DEF RegistryIInv, RegistryTypeOK
  <2> QED BY <2>1 DEF Line, RegLine
<1>5. Line(k) = Ev("register", n, h)
  BY <1>3, <1>4 DEF EventsOf, Ev
<1> QED BY <1>1, <1>3, <1>5, PrepareKeeps DEF begin_holdout

(* Inside the lock only one process can be: the file is created exclusively. *)
LEMMA LockKeeps ==
    ASSUME RegistryIInv, NEW p \in Researchers, LockRegistry(p)
    PROVE  RegistryIInv'
<1> DEFINE now == research'[p]
<1>1. /\ UNCHANGED <<registry, holdouts>> /\ ~reglock /\ research[p].pc = "payload"
      /\ \A q \in Researchers \ {p} : research'[q] = research[q]
  BY DEF LockRegistry, RegistryIInv, RegistryTypeOK
<1>2. Len(registry.lines) \in Nat
  BY DEF RegistryIInv, RegistryTypeOK
<1>3. RegistryTypeOK'
  <2>1. parse_registry(registry) \in BOOLEAN
    BY DEF parse_registry
  <2>2. reglock' \in BOOLEAN
    BY <2>1 DEF LockRegistry
  <2>3. research' \in [Researchers -> [pc : {"idle", "payload", "append", "compute"},
                                      payload : EventsOf \cup {<<>>}, seen : Nat]]
    BY <1>2 DEF LockRegistry, RegistryIInv, RegistryTypeOK, RegIdle
  <2>4. \A q \in Researchers : research'[q].pc # "idle" => research'[q].payload \in EventsOf
    BY DEF LockRegistry, RegistryIInv, RegistryTypeOK, RegIdle
  <2> QED BY <1>1, <2>2, <2>3, <2>4 DEF RegistryIInv, RegistryTypeOK
<1>4. \/ now = RegIdle
      \/ /\ now.pc = "append" /\ now.seen = Len(registry.lines) /\ now.payload = research[p].payload
         /\ reglock'
  BY DEF LockRegistry, RegistryIInv, RegistryTypeOK
<1>5. SourceOnFile' /\ OnlyHoldoutsComputed'
  BY <1>1, <1>4 DEF RegistryIInv, SourceOnFile, OnlyHoldoutsComputed, Line, RegIdle
<1>6. Chained' /\ RegisteredFirst' /\ ComputedOnRecord'
  BY <1>1, <1>4, LogUnchanged DEF RegIdle
<1>7. OneWriter'
  BY <1>1, <1>4 DEF RegistryIInv, RegistryInv, OneWriter, RegIdle
<1> QED BY <1>3, <1>5, <1>6, <1>7 DEF RegistryIInv, RegistryInv, RegistryTypeOK

(* The lock is taken: the process gives up.                                  *)
LEMMA BusyKeeps ==
    ASSUME RegistryIInv, NEW p \in Researchers, Busy(p)
    PROVE  RegistryIInv'
<1>1. /\ UNCHANGED <<registry, reglock, holdouts>>
      /\ \A q \in Researchers : research'[q] = IF q = p THEN RegIdle ELSE research[q]
  BY DEF Busy, RegistryIInv, RegistryTypeOK
<1>2. RegistryTypeOK'
  BY <1>1 DEF Busy, RegistryIInv, RegistryTypeOK, RegIdle
<1>3. SourceOnFile' /\ OnlyHoldoutsComputed' /\ OneWriter'
  BY <1>1 DEF RegistryIInv, RegistryInv, SourceOnFile, OnlyHoldoutsComputed, OneWriter, Line, RegIdle
<1>4. Chained' /\ RegisteredFirst' /\ ComputedOnRecord'
  BY <1>1, LogUnchanged DEF RegIdle
<1> QED BY <1>2, <1>3, <1>4 DEF RegistryIInv, RegistryInv, RegistryTypeOK

(* A failed write or a crash in it: the process is gone and the log's lines *)
(* are as they were; the lock file stays exactly where nobody writes.       *)
LEMMA AppendFailsKeeps ==
    ASSUME RegistryIInv, NEW p \in Researchers, NEW crash \in BOOLEAN, AppendFails(p, crash)
    PROVE  RegistryIInv'
<1>1. /\ UNCHANGED holdouts
      /\ \A q \in Researchers : research'[q] = IF q = p THEN RegIdle ELSE research[q]
      /\ research[p].pc \in {"append", "compute"}
  BY DEF AppendFails, RegistryIInv, RegistryTypeOK
<1>2. registry'.lines = registry.lines /\ registry' \in [lines : Seq(RegLine), torn : BOOLEAN]
  BY DEF AppendFails, RegistryIInv, RegistryTypeOK
<1>3. RegistryTypeOK'
  BY <1>1, <1>2 DEF AppendFails, RegistryIInv, RegistryTypeOK, RegIdle
<1>4. SourceOnFile' /\ OnlyHoldoutsComputed'
  BY <1>1, <1>2 DEF RegistryIInv, SourceOnFile, OnlyHoldoutsComputed, Line, RegIdle
<1>5. OneWriter'
  BY <1>1, <1>2 DEF AppendFails, RegistryIInv, RegistryInv, OneWriter, RegIdle
<1>6. Chained' /\ RegisteredFirst' /\ ComputedOnRecord'
  BY <1>1, <1>2, LogUnchanged DEF RegIdle
<1> QED BY <1>3, <1>4, <1>5, <1>6 DEF RegistryIInv, RegistryInv, RegistryTypeOK

(* An operator removes the torn line or the stale lock.                      *)
LEMMA RepairKeeps ==
    ASSUME RegistryIInv, RepairByHand
    PROVE  RegistryIInv'
<1>1. registry'.lines = registry.lines /\ registry' \in [lines : Seq(RegLine), torn : BOOLEAN]
  BY DEF RepairByHand, RegistryIInv, RegistryTypeOK
<1>2. RegistryTypeOK'
  BY <1>1 DEF RepairByHand, RegistryIInv, RegistryTypeOK
<1>3. SourceOnFile' /\ OnlyHoldoutsComputed' /\ OneWriter'
  BY <1>1 DEF RepairByHand, RegistryIInv, RegistryInv, SourceOnFile, OnlyHoldoutsComputed, OneWriter, Line
<1>4. Chained' /\ RegisteredFirst' /\ ComputedOnRecord'
  BY <1>1, LogUnchanged DEF RepairByHand
<1> QED BY <1>2, <1>3, <1>4 DEF RegistryIInv, RegistryInv, RegistryTypeOK

(* The line is appended under the lock, to the very log that was verified:  *)
(* it takes the next number, a holdout's registration is before it, and     *)
(* from here on the process may compute what is on record.                  *)
LEMMA AppendKeeps ==
    ASSUME RegistryIInv, NEW p \in Researchers, append_event(p)
    PROVE  RegistryIInv'
<1> DEFINE event == research[p].payload
           n == Len(registry.lines)
           l == [seq |-> n, event |-> event]
<1>1. /\ UNCHANGED holdouts /\ research[p].pc = "append" /\ research[p].seen = n
      /\ \A q \in Researchers \ {p} : research'[q] = research[q] /\ research[q].pc # "append"
      /\ event \in EventsOf /\ n \in Nat /\ reglock' = FALSE
  BY DEF append_event, RegistryIInv, RegistryInv, OneWriter, RegistryTypeOK
<1>2. CASE registry.torn
  <2>1. registry' = registry /\ research'[p] = RegIdle
    BY <1>1, <1>2 DEF append_event, RegistryIInv, RegistryTypeOK
  <2>2. RegistryTypeOK'
    BY <1>1, <2>1, <1>2 DEF append_event, RegistryIInv, RegistryTypeOK, RegIdle
  <2>3. SourceOnFile' /\ OnlyHoldoutsComputed' /\ OneWriter'
    BY <1>1, <2>1 DEF RegistryIInv, RegistryInv, SourceOnFile, OnlyHoldoutsComputed, OneWriter, Line, RegIdle
  <2>4. Chained' /\ RegisteredFirst' /\ ComputedOnRecord'
    BY <1>1, <2>1, LogUnchanged DEF RegIdle
  <2> QED BY <2>2, <2>3, <2>4 DEF RegistryIInv, RegistryInv, RegistryTypeOK
<1>3. CASE ~registry.torn
  <2>1. /\ registry' = [registry EXCEPT !.lines = Append(@, l)]
        /\ research'[p] = IF event[1] = "holdout" THEN [research[p] EXCEPT !.pc = "compute"] ELSE RegIdle
        /\ research' \in [Researchers -> [pc : {"idle", "payload", "append", "compute"},
                                          payload : EventsOf \cup {<<>>}, seen : Nat]]
    BY <1>1, <1>3, ZenonT(60) DEF append_event, RegistryIInv, RegistryTypeOK, RegIdle
  <2>2. l \in RegLine
    BY <1>1 DEF RegLine
  <2>3. registry'.lines = Append(registry.lines, l) /\ registry' \in [lines : Seq(RegLine), torn : BOOLEAN]
    <3>1. registry.lines \in Seq(RegLine) /\ Append(registry.lines, l) \in Seq(RegLine)
      BY <2>2 DEF RegistryIInv, RegistryTypeOK
    <3>2. registry'.lines = Append(registry.lines, l) /\ registry'.torn = registry.torn
      BY <2>1 DEF RegistryIInv, RegistryTypeOK
    <3> QED BY <2>1, <3>1, <3>2 DEF RegistryIInv, RegistryTypeOK
  <2>12. IF event[1] = "holdout" THEN research'[p].pc = "compute" /\ research'[p].payload = event
                                 ELSE research'[p].pc = "idle"
    BY <2>1 DEF RegistryIInv, RegistryTypeOK, RegIdle
  <2>4. RegistryTypeOK'
    BY <1>1, <2>1, <2>3, <2>12 DEF RegistryIInv, RegistryTypeOK
  <2>5. /\ DOMAIN registry.lines = 1..n /\ DOMAIN registry'.lines = 1..(n + 1)
        /\ \A k \in 1..(n + 1) : /\ registry'.lines[k] = IF k = n + 1 THEN l ELSE registry.lines[k]
                                 /\ Line(k)' = IF k = n + 1 THEN event ELSE Line(k)
    BY <2>2, <2>3, Appending DEF RegistryIInv
  <2>6. SourceOnFile'
    <3>1. \A j \in DOMAIN registry.lines : j \in DOMAIN registry'.lines /\ Line(j)' = Line(j)
      BY <1>1, <2>5
    <3> QED BY <1>1, <2>12, <3>1 DEF RegistryIInv, SourceOnFile
  <2>7. OnlyHoldoutsComputed' /\ OneWriter'
    BY <1>1, <2>12 DEF RegistryIInv, OnlyHoldoutsComputed, OneWriter
  <2>8. Chained'
    <3>1. ASSUME NEW k \in 1..(n + 1) PROVE registry'.lines[k].seq = k - 1
      <4>1. CASE k = n + 1
        BY <1>1, <2>5, <4>1
      <4>2. CASE k # n + 1
        <5>1. k \in DOMAIN registry.lines /\ registry'.lines[k] = registry.lines[k]
          BY <1>1, <2>5, <4>2
        <5> QED BY <5>1 DEF RegistryIInv, RegistryInv, Chained
      <4> QED BY <4>1, <4>2
    <3> QED BY <2>5, <3>1 DEF Chained
  <2>9. ASSUME NEW name \in RegNames
        PROVE  RecordedHoldouts(name)' = RecordedHoldouts(name) \cup
                   (IF event[1] = "holdout" /\ event[2] = name THEN {n + 1} ELSE {})
    BY <1>1, <2>5 DEF RecordedHoldouts
  <2>10. RegisteredFirst'
    <3> SUFFICES ASSUME NEW name \in RegNames, NEW k \in RecordedHoldouts(name)'
                 PROVE  \E j \in 1..(k - 1) : Line(j)' = Ev("register", name, Line(k)'[3])
      BY DEF RegisteredFirst
    <3>1. CASE k \in RecordedHoldouts(name)
      <4>1. k \in 1..n
        BY <2>5, <3>1 DEF RecordedHoldouts
      <4>2. PICK j \in 1..(k - 1) : Line(j) = Ev("register", name, Line(k)[3])
        BY <3>1 DEF RegistryIInv, RegistryInv, RegisteredFirst
      <4> QED BY <1>1, <2>5, <4>1, <4>2
    <3>2. CASE k \notin RecordedHoldouts(name)
      <4>1. k = n + 1 /\ event[1] = "holdout" /\ event[2] = name
        BY <2>9, <3>2
      <4>2. PICK j \in DOMAIN registry.lines : Line(j) = Ev("register", event[2], event[3])
        BY <1>1, <4>1 DEF RegistryIInv, SourceOnFile
      <4>3. j \in 1..(k - 1) /\ Line(j)' = Line(j) /\ Line(k)' = event
        BY <1>1, <2>5, <4>1, <4>2
      <4> QED BY <4>1, <4>2, <4>3
    <3> QED BY <3>1, <3>2
  <2>11. ComputedOnRecord'
    <3> SUFFICES ASSUME NEW name \in RegNames
                 PROVE  holdouts[name] + Cardinality(Computing(name)') <= Cardinality(RecordedHoldouts(name)')
      BY <1>1 DEF ComputedOnRecord
    <3>1. Computing(name)' = Computing(name) \cup (IF event[1] = "holdout" /\ event[2] = name THEN {p} ELSE {})
      BY <1>1, <2>12 DEF Computing
    <3>2. /\ IsFiniteSet(Computing(name)) /\ IsFiniteSet(RecordedHoldouts(name))
          /\ Cardinality(Computing(name)) \in Nat /\ Cardinality(RecordedHoldouts(name)) \in Nat
      BY CountsAreNumbers DEF RegistryIInv
    <3>3. p \notin Computing(name) /\ n + 1 \notin RecordedHoldouts(name)
      BY <1>1, <2>5 DEF Computing, RecordedHoldouts
    <3>4. holdouts[name] \in Nat /\ holdouts[name] + Cardinality(Computing(name)) <= Cardinality(RecordedHoldouts(name))
      BY DEF RegistryIInv, RegistryInv, RegistryTypeOK, ComputedOnRecord
    <3>6. CASE event[1] = "holdout" /\ event[2] = name
      <4>1. Computing(name)' = Computing(name) \cup {p} /\ RecordedHoldouts(name)' = RecordedHoldouts(name) \cup {n + 1}
        BY <2>9, <3>1, <3>6
      <4>2. Cardinality(Computing(name)') = Cardinality(Computing(name)) + 1
        BY <3>2, <3>3, <4>1, FS_AddElement
      <4>3. Cardinality(RecordedHoldouts(name)') = Cardinality(RecordedHoldouts(name)) + 1
        BY <3>2, <3>3, <4>1, FS_AddElement
      <4> QED BY <3>2, <3>4, <4>2, <4>3
    <3>7. CASE ~(event[1] = "holdout" /\ event[2] = name)
      <4>1. Computing(name)' = Computing(name) /\ RecordedHoldouts(name)' = RecordedHoldouts(name)
        BY <2>9, <3>1, <3>7
      <4> QED BY <3>4, <4>1
    <3> QED BY <3>6, <3>7
  <2> QED BY <2>4, <2>6, <2>7, <2>8, <2>10, <2>11 DEF RegistryIInv, RegistryInv, RegistryTypeOK
<1> QED BY <1>2, <1>3 DEF RegistryIInv, RegistryTypeOK

(* A computation is counted and its process leaves: the sum is the same. *)
LEMMA RunHoldoutKeeps ==
    ASSUME RegistryIInv, NEW p \in Researchers, run_holdout(p)
    PROVE  RegistryIInv'
<1> DEFINE name == research[p].payload[2]
<1>1. /\ UNCHANGED <<registry, reglock>> /\ research[p].pc = "compute"
      /\ \A q \in Researchers : research'[q] = IF q = p THEN RegIdle ELSE research[q]
  BY DEF run_holdout, RegistryIInv, RegistryTypeOK
<1>2. research[p].payload \in EventsOf
  BY <1>1 DEF RegistryIInv, RegistryTypeOK
<1>3. name \in RegNames
  BY <1>2 DEF EventsOf
<1>4. \A m \in RegNames : holdouts'[m] = IF m = name THEN holdouts[m] + 1 ELSE holdouts[m]
  BY <1>3 DEF run_holdout, RegistryIInv, RegistryTypeOK
<1>5. RegistryTypeOK'
  BY <1>1, <1>3 DEF run_holdout, RegistryIInv, RegistryTypeOK, RegIdle
<1>6. SourceOnFile' /\ OnlyHoldoutsComputed' /\ OneWriter' /\ Chained'
  BY <1>1 DEF RegistryIInv, RegistryInv, SourceOnFile, OnlyHoldoutsComputed, OneWriter, Chained, Line, RegIdle
<1>7. \A m : RecordedHoldouts(m)' = RecordedHoldouts(m)
  BY <1>1 DEF RecordedHoldouts, Line
<1>8. RegisteredFirst'
  BY <1>1, <1>7 DEF RegistryIInv, RegistryInv, RegisteredFirst, Line
<1>9. ComputedOnRecord'
  <2> SUFFICES ASSUME NEW m \in RegNames
               PROVE  holdouts'[m] + Cardinality(Computing(m)') <= Cardinality(RecordedHoldouts(m))
    BY <1>7 DEF ComputedOnRecord
  <2>1. holdouts[m] \in Nat /\ holdouts[m] + Cardinality(Computing(m)) <= Cardinality(RecordedHoldouts(m))
    BY DEF RegistryIInv, RegistryInv, RegistryTypeOK, ComputedOnRecord
  <2>2. /\ IsFiniteSet(Computing(m)) /\ Cardinality(Computing(m)) \in Nat
        /\ Cardinality(RecordedHoldouts(m)) \in Nat
    BY CountsAreNumbers DEF RegistryIInv
  <2>3. Computing(m)' = Computing(m) \ {p} /\ (p \in Computing(m) <=> m = name)
    BY <1>1 DEF Computing, RegIdle
  <2>4. Cardinality(Computing(m)') = IF m = name THEN Cardinality(Computing(m)) - 1 ELSE Cardinality(Computing(m))
    BY <2>2, <2>3, FS_RemoveElement
  <2> QED BY <1>4, <2>1, <2>2, <2>4
<1> QED BY <1>5, <1>6, <1>8, <1>9 DEF RegistryIInv, RegistryInv, RegistryTypeOK

-----------------------------------------------------------------------------
(* The registry is sound for any number of names, sources and processes,    *)
(* however they interleave, fail and crash: one writer under the lock       *)
(* (append_event), a chain without gaps (parse_registry accepts what was    *)
(* written), every recorded holdout after the registration of its source    *)
(* (verify_source), no computation that is not on record (run_holdout).     *)
THEOREM RegistrySound == RegistrySpec => []RegistryInv
<1>1. RegistryInit => RegistryIInv
  BY RegistryInitially
<1>2. RegistryIInv /\ [RegistryNext]_gvars => RegistryIInv'
  <2> SUFFICES ASSUME RegistryIInv, [RegistryNext]_gvars PROVE RegistryIInv'
    OBVIOUS
  <2>1. CASE RegistryNext
    BY <2>1, RegisterKeeps, BeginHoldoutKeeps, LockKeeps, BusyKeeps, AppendKeeps, RunHoldoutKeeps,
       AppendFailsKeeps, RepairKeeps DEF RegistryNext
  <2>2. CASE UNCHANGED gvars
    <3>1. Chained' /\ RegisteredFirst' /\ ComputedOnRecord'
      BY <2>2, LogUnchanged DEF gvars
    <3>2. RegistryTypeOK' /\ SourceOnFile' /\ OnlyHoldoutsComputed' /\ OneWriter'
      BY <2>2 DEF gvars, RegistryIInv, RegistryTypeOK, SourceOnFile, OnlyHoldoutsComputed, RegistryInv, OneWriter, Line
    <3> QED BY <3>1, <3>2 DEF RegistryIInv, RegistryInv, RegistryTypeOK
  <2> QED BY <2>1, <2>2
<1>3. RegistryIInv => RegistryInv
  BY DEF RegistryIInv
<1> QED BY <1>1, <1>2, <1>3, PTL DEF RegistrySpec

-----------------------------------------------------------------------------
(* The control room.                                                         *)

RoomStates == {"STOPPED", "FORCED_STOPPED", "RUNNING", "STOPPING", "ADOPTED", "UNKNOWN", "ERROR"}
WorkerSteps == {"none", "check", "check_kill", "terminate", "kill", "wait", "wait_kill"}

(* Every variable of the room is what the program can hold there. *)
RoomTypeOK ==
    /\ room \in [state : RoomStates, proc : Kids \cup {NoKid}, record : BOOLEAN]
    /\ kid \in [Kids -> {"none", "running", "exited"}] /\ born \in [Kids -> Nat]
    /\ stopper \in [Stoppers -> [pc : WorkerSteps, proc : Kids \cup {NoKid}, forced : BOOLEAN]]
    /\ window \in Nat

(* Processes are numbered as they are launched. *)
LaunchedInOrder == \E n \in 0..MaxKids : Launched = 1..n

(* What the manager holds, and what its stop workers stop, was launched by  *)
(* this window; no process was launched by a later one.                     *)
HeldIsOurs ==
    /\ room.proc # NoKid => room.proc \in Launched /\ born[room.proc] = window
    /\ \A w \in Stoppers : stopper[w].pc # "none" =>
          stopper[w].proc \in Launched /\ born[stopper[w].proc] = window
    /\ \A k \in Kids : born[k] <= window

RoomIInv == RoomTypeOK /\ LaunchedInOrder /\ HeldIsOurs /\ RoomInv

-----------------------------------------------------------------------------
(* A room that opens owns nothing.                                           *)
LEMMA RoomInitially == RoomInit => RoomIInv
<1> SUFFICES ASSUME RoomInit PROVE RoomIInv
  OBVIOUS
<1>1. RoomTypeOK
  BY DEF RoomInit, RoomTypeOK, Room, NoWorker, Worker, RoomStates, WorkerSteps
<1>2. Launched = {} /\ Launched = 1..0 /\ 0 \in 0..MaxKids
  BY RoomAssumption DEF RoomInit, Launched
<1>3. HeldIsOurs
  BY DEF RoomInit, HeldIsOurs, Room, NoWorker, Worker, NoKid
<1>4. RoomInv
  BY <1>2 DEF RoomInit, RoomInv, Room
<1> QED BY <1>1, <1>2, <1>3, <1>4 DEF RoomIInv, LaunchedInOrder

(* start: the new process is a fresh one, and the only one that runs. *)
LEMMA StartKeeps ==
    ASSUME RoomIInv, StartEffect, UNCHANGED <<stopper, strays, window>>
    PROVE  RoomIInv'
<1>1. CASE UNCHANGED <<room, kid, born>>
  BY <1>1 DEF RoomIInv, RoomTypeOK, LaunchedInOrder, HeldIsOurs, RoomInv, Launched
<1>2. CASE MayStart /\ room' = Room("ERROR", NoKid, FALSE) /\ UNCHANGED <<kid, born>>
  <2>1. room'.state = "ERROR" /\ room'.proc = NoKid /\ room.proc = NoKid
    BY <1>2 DEF MayStart, Room
  <2>2. RoomTypeOK'
    BY <1>2 DEF RoomIInv, RoomTypeOK, Room, RoomStates
  <2>3. Launched' = Launched
    BY <1>2 DEF Launched
  <2> QED BY <1>2, <2>1, <2>2, <2>3 DEF RoomIInv, LaunchedInOrder, HeldIsOurs, RoomInv
<1>3. CASE /\ MayStart /\ Cardinality(Launched) < MaxKids
           /\ LET k == Cardinality(Launched) + 1
              IN  /\ kid' = [kid EXCEPT ![k] = "running"] /\ born' = [born EXCEPT ![k] = window]
                  /\ \/ room' = Room("UNKNOWN", k, FALSE)
                     \/ room' = Room("RUNNING", k, TRUE)
  <2>1. PICK n \in 0..MaxKids : Launched = 1..n
    BY DEF RoomIInv, LaunchedInOrder
  <2>2. n \in Nat /\ MaxKids \in Nat
    BY <2>1, RoomAssumption
  <2>3. Cardinality(Launched) = n
    BY <2>1, <2>2, FS_Interval
  <2> DEFINE k == n + 1
  <2>4. k \in Kids /\ k # NoKid /\ k \notin Launched
    BY <1>3, <2>1, <2>2, <2>3 DEF Kids, NoKid
  <2>5. /\ kid' = [kid EXCEPT ![k] = "running"] /\ born' = [born EXCEPT ![k] = window]
        /\ room' = Room("UNKNOWN", k, FALSE) \/ room' = Room("RUNNING", k, TRUE)
    BY <1>3, <2>3
  <2> HIDE DEF k
  <2>6. room'.proc = k /\ room'.state \in {"UNKNOWN", "RUNNING"}
    BY <2>5 DEF Room
  <2>7. RoomTypeOK'
    <3>1. room' \in [state : RoomStates, proc : Kids \cup {NoKid}, record : BOOLEAN]
      <4>1. Room("UNKNOWN", k, FALSE) \in [state : RoomStates, proc : Kids \cup {NoKid}, record : BOOLEAN]
        BY <2>4 DEF Room, RoomStates
      <4>2. Room("RUNNING", k, TRUE) \in [state : RoomStates, proc : Kids \cup {NoKid}, record : BOOLEAN]
        BY <2>4 DEF Room, RoomStates
      <4> QED BY <2>5, <4>1, <4>2
    <3>2. kid' \in [Kids -> {"none", "running", "exited"}] /\ born' \in [Kids -> Nat]
      BY <2>4, <2>5 DEF RoomIInv, RoomTypeOK
    <3> QED BY <3>1, <3>2 DEF RoomIInv, RoomTypeOK
  <2>8. Launched' = Launched \cup {k}
    BY <2>4, <2>5 DEF RoomIInv, RoomTypeOK, Launched
  <2>9. LaunchedInOrder'
    BY <1>3, <2>1, <2>2, <2>3, <2>8 DEF LaunchedInOrder, k
  <2>10. \A j \in Launched : kid'[j] = kid[j] /\ born'[j] = born[j]
    BY <2>4, <2>5 DEF RoomIInv, RoomTypeOK, Launched
  <2>11. HeldIsOurs'
    BY <2>4, <2>5, <2>6, <2>8, <2>10 DEF RoomIInv, RoomTypeOK, HeldIsOurs, Launched
  <2>12. \A j \in Launched : ~(kid[j] = "running" /\ born[j] = window)
    BY <1>3 DEF RoomIInv, RoomInv, MayStart, Launched, Kids, NoKid
  <2>13. RoomInv'
    BY <2>6, <2>8, <2>10, <2>12 DEF RoomIInv, RoomInv
  <2> QED BY <2>7, <2>9, <2>11, <2>13 DEF RoomIInv
<1> QED BY <1>1, <1>2, <1>3 DEF StartEffect

(* stop: what is held is not let go, and STOPPING has its worker. *)
LEMMA StopKeeps ==
    ASSUME RoomIInv, NEW visible \in BOOLEAN, StopEffect(visible), UNCHANGED <<kid, born, strays, window>>
    PROVE  RoomIInv'
<1>0. Launched' = Launched
  BY DEF Launched
<1>1. CASE UNCHANGED <<room, stopper>>
  BY <1>0, <1>1 DEF RoomIInv, RoomTypeOK, LaunchedInOrder, HeldIsOurs, RoomInv
<1>2. CASE room' = Unknown(room) /\ UNCHANGED stopper
  <2>1. room'.state = "UNKNOWN" /\ room'.proc = room.proc
    BY <1>2 DEF Unknown, RoomIInv, RoomTypeOK
  <2>2. RoomTypeOK'
    BY <1>2 DEF Unknown, RoomIInv, RoomTypeOK, RoomStates
  <2> QED BY <1>0, <1>2, <2>1, <2>2 DEF RoomIInv, LaunchedInOrder, HeldIsOurs, RoomInv
<1>3. CASE /\ room.proc # NoKid /\ room' = [room EXCEPT !.state = "STOPPING"]
           /\ \E w \in Stoppers : stopper' = [stopper EXCEPT ![w] = Worker("check", room.proc, FALSE)]
  <2>1. PICK w \in Stoppers : stopper' = [stopper EXCEPT ![w] = Worker("check", room.proc, FALSE)]
    BY <1>3
  <2>2. room'.state = "STOPPING" /\ room'.proc = room.proc
    BY <1>3 DEF RoomIInv, RoomTypeOK
  <2>3. RoomTypeOK'
    BY <1>3, <2>1 DEF RoomIInv, RoomTypeOK, RoomStates, Worker, WorkerSteps
  <2>4. /\ \A v \in Stoppers : v # w => stopper'[v] = stopper[v]
        /\ stopper'[w].pc = "check" /\ stopper'[w].proc = room.proc
    BY <2>1 DEF RoomIInv, RoomTypeOK, Worker
  <2>5. HeldIsOurs'
    <3>1. room.proc \in Launched /\ born[room.proc] = window
      BY <1>3 DEF RoomIInv, HeldIsOurs
    <3>2. \A v \in Stoppers : stopper'[v].pc # "none" =>
             stopper'[v].proc \in Launched /\ born[stopper'[v].proc] = window
      BY <2>4, <3>1 DEF RoomIInv, HeldIsOurs
    <3> QED BY <1>0, <2>2, <3>1, <3>2 DEF RoomIInv, HeldIsOurs
  <2>6. RoomInv'
    BY <1>0, <2>2, <2>4 DEF RoomIInv, RoomInv
  <2> QED BY <1>0, <2>3, <2>5, <2>6 DEF RoomIInv, LaunchedInOrder
<1> QED BY <1>1, <1>2, <1>3 DEF StopEffect

(* A stop worker moves on, with the process it was given. *)
LEMMA WorkerMovesKeeps ==
    ASSUME RoomIInv, NEW w \in Stoppers, NEW pc \in WorkerSteps \ {"none"}, NEW forced \in BOOLEAN,
           stopper[w].pc # "none",
           stopper' = [stopper EXCEPT ![w] = Worker(pc, stopper[w].proc, forced)],
           UNCHANGED <<room, kid, born, strays, window>>
    PROVE  RoomIInv'
<1>1. RoomTypeOK'
  BY DEF RoomIInv, RoomTypeOK, Worker
<1>2. /\ \A v \in Stoppers : v # w => stopper'[v] = stopper[v]
      /\ stopper'[w].pc # "none" /\ stopper'[w].proc = stopper[w].proc
  BY DEF RoomIInv, RoomTypeOK, Worker
<1>3. Launched' = Launched
  BY DEF Launched
<1> QED BY <1>1, <1>2, <1>3 DEF RoomIInv, LaunchedInOrder, HeldIsOurs, RoomInv

(* A stop worker ends: the state is no longer STOPPING, and what is let go  *)
(* has exited.                                                              *)
LEMMA WorkerEndsKeeps ==
    ASSUME RoomIInv, NEW w \in Stoppers, WorkerEnds(w), UNCHANGED <<kid, born, strays, window>>,
           room' \in [state : RoomStates \ {"STOPPING"}, proc : Kids \cup {NoKid}, record : BOOLEAN],
           \/ room'.proc = room.proc
           \/ room'.proc = NoKid /\ (room.proc # NoKid => kid[room.proc] = "exited")
    PROVE  RoomIInv'
<1>1. RoomTypeOK'
  BY DEF RoomIInv, RoomTypeOK, WorkerEnds, NoWorker, Worker, WorkerSteps
<1>2. /\ \A v \in Stoppers : v # w => stopper'[v] = stopper[v]
      /\ stopper'[w].pc = "none"
  BY DEF RoomIInv, RoomTypeOK, WorkerEnds, NoWorker, Worker
<1>3. Launched' = Launched
  BY DEF Launched
<1>4. HeldIsOurs'
  BY <1>2, <1>3 DEF RoomIInv, HeldIsOurs
<1>5. RoomInv'
  BY <1>3 DEF RoomIInv, RoomInv, RoomStates
<1> QED BY <1>1, <1>3, <1>4, <1>5 DEF RoomIInv, LaunchedInOrder

(* _stop_worker, each of its steps. *)
LEMMA StopWorkerKeeps ==
    ASSUME RoomIInv, NEW w \in Stoppers, StopWorker(w)
    PROVE  RoomIInv'
<1>0. stopper[w] \in [pc : WorkerSteps, proc : Kids \cup {NoKid}, forced : BOOLEAN]
  BY DEF RoomIInv, RoomTypeOK
<1>u. Unknown(room) \in [state : RoomStates \ {"STOPPING"}, proc : Kids \cup {NoKid}, record : BOOLEAN]
      /\ Unknown(room).proc = room.proc
  BY DEF RoomIInv, RoomTypeOK, Unknown, RoomStates
<1>1. ASSUME NEW visible \in BOOLEAN, StopWorkerChecks(w, visible) PROVE RoomIInv'
  <2>1. CASE is_owned(stopper[w].proc, visible)
    <3> DEFINE pc == IF stopper[w].pc = "check" THEN "terminate" ELSE "kill"
    <3>1. stopper' = [stopper EXCEPT ![w] = [@ EXCEPT !.pc = pc]] /\ UNCHANGED <<room, kid, born, strays, window>>
      BY <1>1, <2>1 DEF StopWorkerChecks
    <3>2. [stopper[w] EXCEPT !.pc = pc] = Worker(pc, stopper[w].proc, stopper[w].forced) /\ stopper[w].forced \in BOOLEAN
      BY <1>0 DEF Worker
    <3>3. stopper' = [stopper EXCEPT ![w] = Worker(pc, stopper[w].proc, stopper[w].forced)]
      BY <3>1, <3>2
    <3>4. pc \in WorkerSteps \ {"none"} /\ stopper[w].pc # "none"
      BY <1>1 DEF WorkerSteps, StopWorkerChecks
    <3> HIDE DEF pc
    <3> QED BY <3>1, <3>2, <3>3, <3>4, WorkerMovesKeeps
  <2>2. CASE ~is_owned(stopper[w].proc, visible)
    BY <1>1, <1>u, <2>2, WorkerEndsKeeps DEF StopWorkerChecks
  <2> QED BY <2>1, <2>2
<1>2. CASE SendSignal(w)
  <2>1. stopper[w].pc # "none" /\ UNCHANGED <<room, kid, born, window>>
    BY <1>2 DEF SendSignal
  <2>2. UNCHANGED strays
    <3>1. born[stopper[w].proc] = window /\ strays = 0
      BY <2>1 DEF RoomIInv, HeldIsOurs, RoomInv
    <3> QED BY <1>2, <3>1 DEF SendSignal
  <2> DEFINE pc == IF stopper[w].pc = "kill" THEN "wait_kill" ELSE "wait"
             forced == stopper[w].pc = "kill"
  <2>3. pc \in WorkerSteps \ {"none"} /\ forced \in BOOLEAN
    BY DEF WorkerSteps
  <2>4. stopper' = [stopper EXCEPT ![w] = Worker(pc, stopper[w].proc, forced)]
    BY <1>2 DEF SendSignal
  <2> HIDE DEF pc, forced
  <2> QED BY <2>1, <2>2, <2>3, <2>4, WorkerMovesKeeps
<1>3. CASE WaitTimesOut(w)
  <2>1. stopper' = [stopper EXCEPT ![w] = [@ EXCEPT !.pc = "check_kill"]] /\ stopper[w].pc = "wait"
        /\ UNCHANGED <<room, kid, born, strays, window>>
    BY <1>3 DEF WaitTimesOut
  <2>2. [stopper[w] EXCEPT !.pc = "check_kill"] = Worker("check_kill", stopper[w].proc, stopper[w].forced)
        /\ stopper[w].forced \in BOOLEAN
    BY <1>0 DEF Worker
  <2>3. stopper' = [stopper EXCEPT ![w] = Worker("check_kill", stopper[w].proc, stopper[w].forced)]
    BY <2>1, <2>2
  <2> QED BY <2>1, <2>2, <2>3, WorkerMovesKeeps DEF WorkerSteps
<1>4. CASE WaitReturns(w)
  <2>1. CASE room.proc # stopper[w].proc \/ ~room.record
    BY <1>4, <1>u, <2>1, WorkerEndsKeeps DEF WaitReturns
  <2>2. CASE ~(room.proc # stopper[w].proc \/ ~room.record)
    <3>1. /\ room' = Room(IF stopper[w].forced THEN "FORCED_STOPPED" ELSE "STOPPED", NoKid, FALSE)
          /\ kid[room.proc] = "exited" /\ WorkerEnds(w) /\ UNCHANGED <<kid, born, strays, window>>
      BY <1>4, <2>2 DEF WaitReturns
    <3>2. room' \in [state : RoomStates \ {"STOPPING"}, proc : Kids \cup {NoKid}, record : BOOLEAN] /\ room'.proc = NoKid
      BY <3>1 DEF Room, RoomStates
    <3> QED BY <3>1, <3>2, WorkerEndsKeeps
  <2> QED BY <2>1, <2>2
<1>5. CASE StopFails(w)
  <2>1. room' = [room EXCEPT !.state = "ERROR"] /\ WorkerEnds(w) /\ UNCHANGED <<kid, born, strays, window>>
    BY <1>5 DEF StopFails
  <2>2. room' \in [state : RoomStates \ {"STOPPING"}, proc : Kids \cup {NoKid}, record : BOOLEAN] /\ room'.proc = room.proc
    BY <2>1 DEF RoomIInv, RoomTypeOK, RoomStates
  <2> QED BY <2>1, <2>2, WorkerEndsKeeps
<1> QED BY <1>1, <1>2, <1>3, <1>4, <1>5 DEF StopWorker

(* A process that exits by itself.                                           *)
LEMMA ChildExitsKeeps ==
    ASSUME RoomIInv, NEW k \in Kids, ChildExits(k)
    PROVE  RoomIInv'
<1>1. kid' = [kid EXCEPT ![k] = "exited"] /\ kid[k] = "running" /\ UNCHANGED <<room, born, stopper, strays, window>>
  BY DEF ChildExits
<1>2. RoomTypeOK'
  BY <1>1 DEF RoomIInv, RoomTypeOK
<1>3. Launched' = Launched
  BY <1>1 DEF RoomIInv, RoomTypeOK, Launched
<1>4. \A j \in Kids : kid'[j] = "running" => kid[j] = "running"
  BY <1>1 DEF RoomIInv, RoomTypeOK
<1>5. \A j \in Launched : j \in Kids
  BY DEF Launched
<1> QED BY <1>1, <1>2, <1>3, <1>4, <1>5 DEF RoomIInv, LaunchedInOrder, HeldIsOurs, RoomInv

(* A new window holds nothing, and nothing was launched by it yet. *)
LEMMA AdoptKeeps ==
    ASSUME RoomIInv, adopt_existing_lock
    PROVE  RoomIInv'
<1>1. /\ window' = window + 1 /\ stopper' = [w \in Stoppers |-> NoWorker] /\ UNCHANGED <<kid, born, strays>>
      /\ room' = Room("ADOPTED", NoKid, FALSE) \/ room' = Room("STOPPED", NoKid, FALSE)
  BY DEF adopt_existing_lock
<1>2. room'.proc = NoKid /\ room'.state \in {"ADOPTED", "STOPPED"}
  BY <1>1 DEF Room
<1>3. room' \in [state : RoomStates, proc : Kids \cup {NoKid}, record : BOOLEAN]
  <2>1. Room("ADOPTED", NoKid, FALSE) \in [state : RoomStates, proc : Kids \cup {NoKid}, record : BOOLEAN]
    BY DEF Room, RoomStates
  <2>2. Room("STOPPED", NoKid, FALSE) \in [state : RoomStates, proc : Kids \cup {NoKid}, record : BOOLEAN]
    BY DEF Room, RoomStates
  <2> QED BY <1>1, <2>1, <2>2
<1>4. RoomTypeOK'
  BY <1>1, <1>3 DEF RoomIInv, RoomTypeOK, NoWorker, Worker, WorkerSteps
<1>5. Launched' = Launched /\ \A k \in Launched : k \in Kids
  BY <1>1 DEF Launched
<1>6. \A k \in Kids : born[k] < window'
  BY <1>1 DEF RoomIInv, RoomTypeOK, HeldIsOurs
<1>7. HeldIsOurs'
  BY <1>1, <1>2, <1>6 DEF RoomIInv, RoomTypeOK, HeldIsOurs, NoWorker, Worker
<1>8. RoomInv'
  BY <1>1, <1>2, <1>5, <1>6 DEF RoomIInv, RoomTypeOK, RoomInv
<1> QED BY <1>4, <1>5, <1>7, <1>8 DEF RoomIInv, LaunchedInOrder

-----------------------------------------------------------------------------
(* The control room never has two radars of its own, never loses sight of   *)
(* one that runs, never signals a process of an earlier window, and never   *)
(* shows STOPPING without a worker that will end it: in any order of start, *)
(* stop, restart, exits, failed or late stops and windows (start, stop,     *)
(* _stop_worker, restart, adopt_existing_lock).                             *)
THEOREM RoomSound == RoomSpec => []RoomInv
<1>1. RoomIInv /\ [RoomNext]_roomVars => RoomIInv'
  <2> SUFFICES ASSUME RoomIInv, [RoomNext]_roomVars PROVE RoomIInv'
    OBVIOUS
  <2>1. CASE start
    BY <2>1, StartKeeps DEF start
  <2>2. ASSUME NEW visible \in BOOLEAN, stop(visible) PROVE RoomIInv'
    BY <2>2, StopKeeps DEF stop
  <2>3. ASSUME NEW r \in Restarts, restart(r) PROVE RoomIInv'
    BY <2>3 DEF restart, RoomIInv, RoomTypeOK, LaunchedInOrder, HeldIsOurs, RoomInv, Launched
  <2>4. ASSUME NEW r \in Restarts, RestartStarts(r) PROVE RoomIInv'
    BY <2>4, StartKeeps DEF RestartStarts
  <2>5. ASSUME NEW r \in Restarts, NEW visible \in BOOLEAN, RestartStops(r, visible) PROVE RoomIInv'
    BY <2>5, StopKeeps DEF RestartStops
  <2>6. CASE UNCHANGED roomVars
    BY <2>6 DEF roomVars, RoomIInv, RoomTypeOK, LaunchedInOrder, HeldIsOurs, RoomInv, Launched
  <2> QED BY <2>1, <2>2, <2>3, <2>4, <2>5, <2>6, StopWorkerKeeps, ChildExitsKeeps, AdoptKeeps DEF RoomNext
<1>2. RoomIInv => RoomInv
  BY DEF RoomIInv
<1> QED BY <1>1, <1>2, RoomInitially, PTL DEF RoomSpec
=============================================================================
