------------------------------- MODULE Outbox -------------------------------
(***************************************************************************)
(* The delivery outbox: radar_v08/adapters/outbox_store.py, and the writes *)
(* of radar_v08/store.py that record into it.                              *)
(*                                                                         *)
(* Every write is one transaction under SQLite's write lock, hence one     *)
(* action; a write that is refused, stays busy or fails is rolled back and *)
(* is a stuttering step.  The one thing a rollback cannot undo is the      *)
(* export file: an export that dies or fails before its commit leaves some *)
(* prefix of what it was appending.  The file is a sequence of pieces, a   *)
(* line being the two halves of a record and a newline, so that a tear can *)
(* fall anywhere.  Validation of field formats happens before any SQL and  *)
(* is left out: the constants are well-formed values.                      *)
(***************************************************************************)
EXTENDS Naturals, Sequences, FiniteSets, SequencesExt

CONSTANTS
    Events,         \* event ids
    Items,          \* lifecycle item ids
    Handoffs,       \* communication ids, each of a message between two agents
    Readers,        \* processes that share one consumer name
    ReadLimit,      \* rows one read_pending returns
    MaxRows,        \* bound: outbox rows
    NtfyStatuses,   \* the push states set_ntfy_status writes
    MaxFile         \* bound: pieces of the export file

ASSUME OutboxAssumption ==
    /\ IsFiniteSet(Events)
    /\ ReadLimit \in Nat \ {0}
    /\ MaxRows \in Nat /\ MaxFile \in Nat

VARIABLES
    rows,       \* the outbox table: rows[n] has seq n
    event,      \* the events table
    stale,      \* what a recovery has found and not yet written
    item,       \* lifecycle_items.state
    position,   \* the readers' cursor
    batch,      \* what each reader has read and not acknowledged
    handled,    \* the seqs some reader has handled
    export,     \* the export file's cursor: [position, byte_offset]
    file,       \* the export file
    cut         \* history: seqs whose line was cut out of the file from outside

outboxVars == <<stale, rows, event, item, position, batch, handled, export, file, cut>>

-----------------------------------------------------------------------------
(* Rows.                                                                   *)

LifecycleStates ==
    {"QUEUED", "LOADING", "RUNNING", "FINISHED", "FAILED", "ABORT_STALE",
     "SUPERSEDED", "DROPPED_BACKPRESSURE"}

INITIAL_STATES == {"QUEUED", "SUPERSEDED", "DROPPED_BACKPRESSURE", "ABORT_STALE"}

ALLOWED_TRANSITIONS ==
    [s \in LifecycleStates |->
        CASE s = "QUEUED"  -> {"LOADING", "RUNNING", "SUPERSEDED", "DROPPED_BACKPRESSURE", "ABORT_STALE"}
          [] s = "LOADING" -> {"RUNNING", "FAILED", "ABORT_STALE"}
          [] s = "RUNNING" -> {"FINISHED", "FAILED", "ABORT_STALE"}
          [] OTHER         -> {}]

NoItem == "none"

check_transition(current, new) ==
    new \in IF current = NoItem THEN INITIAL_STATES ELSE ALLOWED_TRANSITIONS[current]

EventStatuses == {"PENDING", "PROCESSING", "DEFERRED", "PROCESSED", "FAILED"}
NoEvent == [status |-> "none", notified |-> FALSE, ntfy |-> "none"]
EventRow == [status : EventStatuses, notified : BOOLEAN, ntfy : NtfyStatuses \cup {"none"}]

\* An outbox row: its kind, its delivery id and, for an event, the snapshot.
Row(kind, subject, id, payload) ==
    [kind |-> kind, subject |-> subject, id |-> id, payload |-> payload]

\* The seqs of the rows of a kind about one subject.
SeqsOf(log, kind, subject) == {n \in DOMAIN log : log[n].kind = kind /\ log[n].subject = subject}

Recorded(id) == \E n \in DOMAIN rows : rows[n].id = id

\* Mutant: the rows with the same snapshot are counted.
EventNumber_OfStatus(log, e, snapshot) ==
    Cardinality({n \in SeqsOf(log, "EVENT", e) : log[n].payload = snapshot}) + 1

\* event:<event_id>:<n> counts the rows the event has so far.
EventNumber(log, e, snapshot) == Cardinality(SeqsOf(log, "EVENT", e)) + 1

record_event_row(log, e, snapshot) ==
    Row("EVENT", e, <<"event", e, EventNumber(log, e, snapshot)>>, snapshot)

\* The rows of several events changed by one transaction, in any fixed order:
\* one row each, so none changes the number of another.
RecordEach(log, es, f) ==
    LET order == SetToSeq(es)
    IN  log \o [k \in 1..Cardinality(es) |-> record_event_row(log, order[k], f[order[k]])]

-----------------------------------------------------------------------------
(* Writes of the store to an events row, with its outbox row.              *)

\* _event_write: the change of the rows of es and their outbox rows commit together.
WriteEvents(es, change) ==
    /\ event' = [e \in Events |-> IF e \in es THEN change[e] ELSE event[e]]
    /\ rows' = RecordEach(rows, es, event')
    /\ Len(rows') <= MaxRows
    /\ UNCHANGED <<item, position, batch, handled, export, file, cut>>

EventWrite(es, change) == WriteEvents(es, change) /\ UNCHANGED stale

Exists(e) == event[e] # NoEvent
SetStatus(es, st) == [e \in es |-> [event[e] EXCEPT !.status = st]]

insert_event(e) ==
    /\ ~ Exists(e)
    /\ EventWrite({e}, [x \in {e} |-> [NoEvent EXCEPT !.status = "PENDING"]])

claim_event_for_processing(e) ==
    /\ event[e].status \in {"PENDING", "DEFERRED"}
    /\ EventWrite({e}, SetStatus({e}, "PROCESSING"))

\* recover_stale_processing reads the events PROCESSING for too long (es) before
\* its transaction begins, which is with the first UPDATE: another connection may
\* write in between.
find_stale_processing(es) ==
    /\ stale = {} /\ es # {} /\ \A e \in es : event[e].status = "PROCESSING"
    /\ stale' = es
    /\ UNCHANGED <<rows, event, item, position, batch, handled, export, file, cut>>

\* The transaction: by event id alone, one outbox row each.
recover_stale_processing ==
    /\ stale # {} /\ stale' = {}
    /\ WriteEvents(stale, SetStatus(stale, "PENDING"))

\* Its process dies, or the database stays busy: nothing was written.
RecoveryFails ==
    /\ stale # {} /\ stale' = {}
    /\ UNCHANGED <<rows, event, item, position, batch, handled, export, file, cut>>

update_event_status(e, st) == Exists(e) /\ EventWrite({e}, SetStatus({e}, st))

mark_event(e, st) == Exists(e) /\ EventWrite({e}, SetStatus({e}, st))

mark_event_notified(e) ==
    Exists(e) /\ EventWrite({e}, [x \in {e} |-> [event[e] EXCEPT !.notified = TRUE]])

\* The one write to an events row that goes through _cursor: no outbox row.
set_ntfy_status(e, st) ==
    /\ Exists(e)
    /\ event' = [event EXCEPT ![e].ntfy = st]
    /\ UNCHANGED <<stale, rows, item, position, batch, handled, export, file, cut>>

-----------------------------------------------------------------------------
(* Lifecycle transitions and handoffs.  A delivery that is already         *)
(* recorded is returned (or refused, with other details): nothing changes. *)

record_lifecycle_transition(i, s) ==
    LET id == <<"lifecycle", i, s>>
    IN  /\ ~ Recorded(id) /\ Len(rows) < MaxRows
        /\ check_transition(item[i], s)
        /\ item' = [item EXCEPT ![i] = s]
        /\ rows' = Append(rows, Row("LIFECYCLE", i, id, s))
        /\ UNCHANGED <<stale, event, position, batch, handled, export, file, cut>>

record_handoff(h) ==
    LET id == <<"handoff", h, "">>
    IN  /\ ~ Recorded(id) /\ Len(rows) < MaxRows
        /\ rows' = Append(rows, Row("HANDOFF", h, id, h))
        /\ UNCHANGED <<stale, event, item, position, batch, handled, export, file, cut>>

-----------------------------------------------------------------------------
(* Consumers: read rows after the cursor, handle them, acknowledge.        *)

NoBatch == [seqs |-> {}, handled |-> FALSE]

SmallerOf(a, b) == IF a <= b THEN a ELSE b

entries_after(p, limit) == p + 1..SmallerOf(Len(rows), p + limit)

read_pending(r) ==
    /\ batch[r] = NoBatch
    /\ entries_after(position, ReadLimit) # {}
    /\ batch' = [batch EXCEPT ![r].seqs = entries_after(position, ReadLimit)]
    /\ UNCHANGED <<stale, rows, event, item, position, handled, export, file, cut>>

Handle(r) ==
    /\ batch[r] # NoBatch /\ ~ batch[r].handled
    /\ handled' = handled \cup batch[r].seqs
    /\ batch' = [batch EXCEPT ![r].handled = TRUE]
    /\ UNCHANGED <<stale, rows, event, item, position, export, file, cut>>

\* Mutant: any acknowledgement moves the cursor.
Acknowledged_AnySeq(seq) == seq

\* The cursor after an acknowledgement of seq.
Acknowledged(seq) == IF seq > Len(rows) \/ seq <= position THEN position ELSE seq

acknowledge(r) ==
    /\ batch[r].handled
    /\ position' = Acknowledged(Max(batch[r].seqs))
    /\ batch' = [batch EXCEPT ![r] = NoBatch]
    /\ UNCHANGED <<stale, rows, event, item, handled, export, file, cut>>

\* A reader dies with a batch: read and perhaps handled, never acknowledged.
ReaderDies(r) ==
    /\ batch[r] # NoBatch
    /\ batch' = [batch EXCEPT ![r] = NoBatch]
    /\ UNCHANGED <<stale, rows, event, item, position, handled, export, file, cut>>

-----------------------------------------------------------------------------
(* The JSONL export.                                                       *)

Newline == <<0, 0>>
Line(n) == <<<<n, 1>>, <<n, 2>>, Newline>>

\* The line that starts at piece k of f, read from piece `start' on, is the
\* whole record of row n: anything else is torn and does not parse.
WholeAt(f, start, k, n) ==
    /\ k = start \/ f[k - 1] = Newline
    /\ k + 1 <= Len(f) /\ f[k] = <<n, 1>> /\ f[k + 1] = <<n, 2>>
    /\ k + 1 = Len(f) \/ f[k + 2] = Newline

\* The delivery ids in the file from the offset on (the whole file if it shrank).
delivery_ids_in(offset) ==
    LET start == IF offset <= Len(file) THEN offset + 1 ELSE 1
    IN  {rows[n].id : n \in {m \in DOMAIN rows :
            \E k \in start..Len(file) : WholeAt(file, start, k, m)}}

\* A torn last line is kept apart from the next record.
Separator == IF file # <<>> /\ Last(file) # Newline THEN <<Newline>> ELSE <<>>

\* Mutant: the newest row first.
Nth_NewestFirst(S, j) == CHOOSE n \in S : Cardinality({m \in S : m >= n}) = j

\* The rows after the cursor are taken in seq order: the j-th of S.
Nth(S, j) == CHOOSE n \in S : Cardinality({m \in S : m <= n}) = j

\* The rows after the cursor that the file does not show yet.
Unseen ==
    {n \in export.position + 1..Len(rows) : rows[n].id \notin delivery_ids_in(export.byte_offset)}

\* The lines of the rows S, three pieces each.
LinesOf(S) ==
    [p \in 1..3 * Cardinality(S) |-> Line(Nth(S, (p + 2) \div 3))[1 + ((p + 2) % 3)]]

\* What an export appends.
Appended == Separator \o LinesOf(Unseen)

\* The cursor an export saves: the last row's seq and the file's size.
Saved(size) == [position |-> Len(rows), byte_offset |-> size]

\* Append, fsync, save the cursor, commit.
export_jsonl ==
    /\ export.position < Len(rows)
    /\ file' = file \o Appended
    /\ Len(file') <= MaxFile
    /\ export' = Saved(Len(file'))
    /\ UNCHANGED <<stale, rows, event, item, position, batch, handled, cut>>

\* A crash, an OSError or a failed commit: some of the pieces are in the
\* file, none of them is committed.
ExportInterrupted ==
    /\ export.position < Len(rows)
    /\ \E k \in 1..Len(Appended) :
        /\ Len(file) + k <= MaxFile
        /\ file' = file \o SubSeq(Appended, 1, k)
    /\ UNCHANGED <<stale, rows, event, item, position, batch, handled, export, cut>>

\* Row n can be read from f by someone who reads it from the beginning.
ReadableIn(f, n) == \E k \in DOMAIN f : WholeAt(f, 1, k, n)

\* Someone truncates the file, or deletes it.
Shrink ==
    /\ \E k \in 0..Len(file) - 1 : file' = SubSeq(file, 1, k)
    /\ cut' = cut \cup {n \in DOMAIN rows : ReadableIn(file, n) /\ ~ ReadableIn(file', n)}
    /\ UNCHANGED <<stale, rows, event, item, position, batch, handled, export>>

-----------------------------------------------------------------------------
OutboxInit ==
    /\ rows = <<>> /\ file = <<>>
    /\ event = [e \in Events |-> NoEvent] /\ stale = {}
    /\ item = [i \in Items |-> NoItem]
    /\ position = 0 /\ handled = {} /\ cut = {}
    /\ batch = [r \in Readers |-> NoBatch]
    /\ export = [position |-> 0, byte_offset |-> 0]

OutboxNext ==
    \/ \E e \in Events : insert_event(e)
    \/ \E e \in Events : claim_event_for_processing(e)
    \/ \E es \in SUBSET Events : find_stale_processing(es)
    \/ recover_stale_processing
    \/ RecoveryFails
    \/ \E e \in Events, st \in EventStatuses : update_event_status(e, st)
    \/ \E e \in Events, st \in {"PROCESSED", "DEFERRED", "FAILED"} : mark_event(e, st)
    \/ \E e \in Events : mark_event_notified(e)
    \/ \E e \in Events, st \in NtfyStatuses : set_ntfy_status(e, st)
    \/ \E i \in Items, s \in LifecycleStates : record_lifecycle_transition(i, s)
    \/ \E h \in Handoffs : record_handoff(h)
    \/ \E r \in Readers : read_pending(r) \/ Handle(r) \/ acknowledge(r) \/ ReaderDies(r)
    \/ export_jsonl
    \/ ExportInterrupted
    \/ Shrink

OutboxSpec == OutboxInit /\ [][OutboxNext]_outboxVars

-----------------------------------------------------------------------------
(* Properties.                                                             *)

DeliveryIds ==
    ({"event"} \X Events \X (1..MaxRows))
        \cup ({"lifecycle"} \X Items \X LifecycleStates)
        \cup ({"handoff"} \X Handoffs \X {""})

\* Type invariant: rows carry delivery ids of their kind, cursors stay within
\* the outbox, and the file holds pieces of recorded rows only.
OutboxTypeOK ==
    /\ \A n \in DOMAIN rows : rows[n].id \in DeliveryIds
    /\ event \in [Events -> EventRow \cup {NoEvent}]
    /\ stale \subseteq {e \in Events : Exists(e)}
    /\ item \in [Items -> LifecycleStates \cup {NoItem}]
    /\ position \in 0..Len(rows) /\ handled \subseteq 1..Len(rows) /\ cut \subseteq 1..Len(rows)
    /\ \A r \in Readers : batch[r].seqs \subseteq 1..Len(rows) /\ batch[r].handled \in BOOLEAN
    /\ export.position \in 0..Len(rows) /\ export.byte_offset \in Nat
    /\ \A k \in DOMAIN file : file[k] \in ((1..Len(rows)) \X {1, 2}) \cup {Newline}

\* No two rows share a delivery id: the number of an event's row counts its
\* rows, and a lifecycle state or a handoff is recorded once.
UniqueDelivery == \A m, n \in DOMAIN rows : rows[m].id = rows[n].id => m = n

\* The LIFECYCLE rows of an item, in seq order, are a path of the allowed
\* moves from an initial state to the item's current state.
LifecycleChain ==
    \A i \in Items :
        LET path == SeqsOf(rows, "LIFECYCLE", i)
        IN  /\ path = {} <=> item[i] = NoItem
            /\ \A n \in path :
                /\ (\A m \in path : m <= n) => rows[n].payload = item[i]
                /\ (\A m \in path : n <= m) => rows[n].payload \in INITIAL_STATES
                /\ \A m \in path : m < n /\ (\A k \in path : k <= m \/ n <= k) =>
                        rows[n].payload \in ALLOWED_TRANSITIONS[rows[m].payload]

\* The last EVENT row of an event shows the status and the notified flag the
\* events table has: whoever replays the outbox ends with that table.
EventsMirrored ==
    \A e \in Events : Exists(e) =>
        \E n \in SeqsOf(rows, "EVENT", e) :
            /\ \A m \in SeqsOf(rows, "EVENT", e) : m <= n
            /\ rows[n].payload.status = event[e].status
            /\ rows[n].payload.notified = event[e].notified

\* At-least-once: a row at or behind the readers' cursor has been handled, for
\* any mix of reader crashes and of acknowledgements that arrive late.
ReadersMissNothing == 1..position \subseteq handled

\* No cursor ever moves back, also when a slow reader acknowledges a batch
\* that another one has passed.
CursorsForward ==
    [][position' >= position /\ export'.position >= export.position]_outboxVars

\* Every row at or behind the export's cursor can be read from the file,
\* whatever tore earlier exports, unless someone cut it out.
ExportedReadable == \A n \in 1..export.position : ReadableIn(file, n) \/ n \in cut

\* What every write, reader and export keeps of the outbox (append_outbox,
\* acknowledge, export_handoffs): delivery ids are unique, an item's rows are
\* a path of allowed moves, the rows mirror the events table, nothing behind
\* the readers' cursor was missed and nothing behind the export's is lost.
OutboxInv ==
    OutboxTypeOK /\ UniqueDelivery /\ LifecycleChain /\ EventsMirrored /\ ReadersMissNothing /\ ExportedReadable

\* The records a reader of the file finds, in the order of the file.
DeliveredIds ==
    LET starts == {k \in DOMAIN file : \E n \in DOMAIN rows : WholeAt(file, 1, k, n)}
        Start(j) == CHOOSE k \in starts : Cardinality({l \in starts : l <= k}) = j
    IN  [j \in 1..Cardinality(starts) |-> rows[file[Start(j)][1]].id]

DL == INSTANCE DeliveryLog WITH
    log <- [n \in DOMAIN rows |-> rows[n].id],
    delivered <- DeliveredIds,
    intact <- cut = {}

\* The outbox with its torn, retried and resumed exports implements the
\* delivery log: until someone cuts a record out of the file, it shows each
\* record once, in order, nothing left out.
ImplementsDeliveryLog == DL!LogSpec
=============================================================================
