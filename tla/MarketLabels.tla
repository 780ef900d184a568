---------------------------- MODULE MarketLabels ----------------------------
(***************************************************************************)
(* The two labellers of the cycle and the snapshots they read.  A cycle    *)
(* stores the spot snapshots and prunes old ones (store.py), opens forward *)
(* returns for its L2 candidates, labels or marks the due ones in batches  *)
(* (l2.py label_forward_returns), labels matured outcomes in one           *)
(* transaction (adapters/outcome_store.py, domain/outcomes.py) and         *)
(* registers new subjects.  It may be cut short anywhere, and the radar    *)
(* may be off for any time.                                                *)
(*                                                                         *)
(* One market is labelled; the others matter as proof that time went on.   *)
(* A price is known by the time it was observed at; the time of a cycle    *)
(* never goes back.                                                        *)
(***************************************************************************)
EXTENDS Integers, Sequences, FiniteSets, FiniteSetsExt

CONSTANTS
    Tolerance, Margin, Retention,   \* in cycles
    ForwardHorizons,                \* in order
    OutcomeHorizons,
    ForwardBatch, MaxBatches, OutcomeBatch,
    Directions, CostKinds,          \* of a subject
    Settings,                       \* pairs of RADAR_OUTCOME_LABEL_WINDOW and RADAR_FWD_RETURN_MARK_GAPS
    LastTime, LastEntry, MaxEntries \* bounds: on time, and on rows and subjects together and their time

ASSUME LabelsAssumption ==
    /\ {Tolerance, Margin, Retention, LastTime, LastEntry, MaxEntries} \subseteq Nat
    /\ {ForwardBatch, MaxBatches, OutcomeBatch} \subseteq Nat \ {0}
    /\ \A h \in OutcomeHorizons : h \in Nat /\ h > Tolerance

VARIABLES
    kind, gaps,         \* the two settings
    time,          \* now, and the time of the last cycle
    snaps, ever,        \* table spot_snapshots, and all that was ever in it
    rows,               \* table forward_returns, by id
    subjects,           \* table of outcome subjects, by age
    labels,             \* table of outcome labels
    stage, batch        \* where the cycle is, and the batches of its labelling pass

labelVars == <<kind, gaps, time, snaps, ever, rows, subjects, labels, stage, batch>>

Nowhen == -1
Never == 1000

LabelsInit ==
    /\ \E s \in Settings : kind = s[1] /\ gaps = s[2]
    /\ time = 0 /\ snaps = {} /\ ever = {} /\ rows = <<>> /\ subjects = <<>> /\ labels = {}
    /\ stage = "idle" /\ batch = 0

Own(S) == {s \in S : s.own}
Away(a, b) == IF a < b THEN b - a ELSE a - b

-----------------------------------------------------------------------------
\* A cycle begins: its snapshots, all at its own time, and the pruning.
prune(S) == {s \in S : s.ts >= time - Retention}
StoreSnapshots(quote) ==
    /\ stage = "idle" /\ time <= LastTime
    /\ LET seen == {[own |-> FALSE, ts |-> time, valid |-> TRUE]} \cup
                   (IF quote = "none" THEN {} ELSE {[own |-> TRUE, ts |-> time, valid |-> quote = "valid"]})
       IN  snaps' = prune(snaps \cup seen) /\ ever' = ever \cup seen
    /\ stage' = "l2"
    /\ UNCHANGED <<kind, gaps, time, rows, subjects, labels, batch>>

\* _store_l2_snapshot: a candidate whose features are warm opens one row per
\* horizon; only an asset with a ticker is a candidate.
create_forward_return_placeholders ==
    [i \in DOMAIN ForwardHorizons |-> [ts |-> time, h |-> ForwardHorizons[i], exit |-> Nowhen, mark |-> "none", at |-> Nowhen]]
OpenReturns(candidate) ==
    /\ stage = "l2" /\ (candidate => time <= LastEntry /\ \E s \in Own(snaps) : s.ts = time)
    /\ rows' = IF candidate THEN rows \o create_forward_return_placeholders ELSE rows
    /\ Len(rows') + Len(subjects) <= MaxEntries /\ stage' = "forward" /\ batch' = 0
    /\ UNCHANGED <<kind, gaps, time, snaps, ever, subjects, labels>>

-----------------------------------------------------------------------------
\* The oldest due rows that are neither labelled nor marked.
pending_forward_returns ==
    LET due == {i \in DOMAIN rows : rows[i].exit = Nowhen /\ rows[i].mark = "none" /\ rows[i].ts + rows[i].h <= time}
    IN  {i \in due : Cardinality({j \in due : j < i}) < ForwardBatch}

\* The first of the snapshots closest to the target.
nearest_spot_snapshot_by_pair(target) ==
    LET close == {s.ts : s \in {s \in Own(snaps) : Away(s.ts, target) <= Tolerance}}
    IN  IF close = {} THEN Nowhen
        ELSE Min({ts \in close : \A other \in close : Away(ts, target) <= Away(other, target)})

Oldest(S) == Min({s.ts : s \in S})
outside_retention(window_end) ==
    \/ window_end < time - Retention
    \/ /\ ~(Own(snaps) # {} /\ window_end >= Oldest(Own(snaps)))
       /\ snaps # {} /\ window_end < Oldest(snaps)

\* A later snapshot of any market proves that the window cannot fill any more.
window_closed(window_end) == \E s \in snaps : s.ts > window_end + Margin

\* One row of label_batch: a return, a reason why there will never be one, or
\* nothing yet.
Labelled(row) ==
    LET exit == nearest_spot_snapshot_by_pair(row.ts + row.h)
        window_end == row.ts + row.h + Tolerance
    IN  CASE exit # Nowhen -> [row EXCEPT !.exit = exit, !.at = time]
          [] exit = Nowhen /\ outside_retention(window_end) -> [row EXCEPT !.mark = "retention", !.at = time]
          [] exit = Nowhen /\ ~outside_retention(window_end) /\ gaps /\ window_closed(window_end) ->
                [row EXCEPT !.mark = "gap", !.at = time]
          [] OTHER -> row

\* label_forward_returns: batch after batch while they are full and something
\* moves, within the limit and the time budget.
LabelReturns(out_of_time) ==
    /\ stage = "forward"
    /\ LET due == pending_forward_returns
       IN  /\ rows' = [i \in DOMAIN rows |-> IF i \in due THEN Labelled(rows[i]) ELSE rows[i]]
           /\ stage' = IF \/ Cardinality(due) < ForwardBatch \/ rows' = rows \/ out_of_time
                          \/ batch + 1 >= (IF gaps THEN MaxBatches ELSE 1)
                       THEN "outcomes" ELSE "forward"
    /\ batch' = IF stage' = "forward" THEN batch + 1 ELSE 0
    /\ UNCHANGED <<kind, gaps, time, snaps, ever, subjects, labels>>

-----------------------------------------------------------------------------
\* The quote that ends a horizon, as of `now'.  Forward: the first valid one from
\* the target on.  Symmetric: the nearest valid one, the later of two; final
\* once no closer one can come.  A record of what is known, or when to ask again.
Missing2(Q) == IF Q = {} THEN "quote_missing_at_horizon" ELSE "quote_invalid_at_horizon"
ForwardExit(target, quotes, now) ==
    LET window == {q \in quotes : target <= q.ts /\ q.ts <= target + Tolerance /\ q.ts <= now}
        valid == {q.ts : q \in {q \in window : q.valid}}
    IN  IF valid # {} THEN [exit |-> Min(valid), reason |-> "none", available |-> Min(valid)]
        ELSE [exit |-> Nowhen, reason |-> Missing2(window), available |-> target + Tolerance]

nearest_exit(as_of, target, quotes, now) ==
    LET window == {q \in quotes : Away(q.ts, target) <= Tolerance /\ q.ts <= now /\ q.ts > as_of}
        valid == {q.ts : q \in {q \in window : q.valid}}
        best == Max({ts \in valid : \A other \in valid : Away(ts, target) <= Away(other, target)})
    IN  IF valid # {} THEN [exit |-> best, reason |-> "none", available |-> target + Away(best, target)]
        ELSE [exit |-> Nowhen, reason |-> Missing2(window), available |-> target + Tolerance]

NotMature == [status |-> "NOT_MATURE"]
Mature(target, found, now) == now >= target /\ now >= found.available

\* Return, gross and net markout, each a value or the reason it is missing.
label_horizon(n, h, quotes, now, at) ==
    LET subject == subjects[n]
        target == subject.as_of + h
        found == CASE ~subject.spot -> [exit |-> Nowhen, reason |-> "price_source_unsupported", available |-> target]
                   [] subject.spot /\ kind = "symmetric" -> nearest_exit(subject.as_of, target, quotes, now)
                   [] subject.spot /\ kind = "forward" -> ForwardExit(target, quotes, now)
        gross == CASE found.exit = Nowhen -> found.reason
                   [] found.exit # Nowhen /\ subject.direction = "NONE" -> "no_direction"
                   [] OTHER -> "value"
        net == CASE gross # "value" -> "gross_unavailable"
                 [] gross = "value" /\ subject.cost = "none" -> "cost_not_recorded"
                 [] gross = "value" /\ subject.cost = "incomplete" -> "cost_incomplete"
                 [] OTHER -> "value"
    IN  IF ~Mature(target, found, now) THEN NotMature
        ELSE [status |-> IF found.exit = Nowhen THEN "UNAVAILABLE" ELSE "AVAILABLE", subject |-> n, h |-> h, exit |-> found.exit,
              available |-> found.available, market |-> found.reason, gross |-> gross, net |-> net, at |-> at]

Kept(label) == label.status # "NOT_MATURE"
due_outcomes(h) ==
    LET due == {n \in DOMAIN subjects : subjects[n].as_of <= time - h /\ ~\E l \in labels : l.subject = n /\ l.h = h}
    IN  {n \in due : Cardinality({m \in due : m < n}) < OutcomeBatch}

\* label_due_outcomes: all of the pass or, after any error, none of it.
LabelOutcomes(ok) ==
    /\ stage = "outcomes" /\ stage' = "register"
    /\ labels' = IF ok
                 THEN labels \cup {l \in UNION {{label_horizon(n, h, Own(snaps), time, time) : n \in due_outcomes(h)} :
                                                  h \in OutcomeHorizons} : Kept(l)}
                 ELSE labels
    /\ UNCHANGED <<kind, gaps, time, snaps, ever, rows, subjects, batch>>

\* register_subject, for a candidate of this cycle: without a direction there is
\* no cost.
RegisterSubject(direction, cost) ==
    /\ stage = "register" /\ Len(subjects) + Len(rows) < MaxEntries /\ time <= LastEntry /\ \E s \in Own(snaps) : s.ts = time
    /\ direction = "NONE" => cost = "none"
    /\ subjects' = Append(subjects, [as_of |-> time, direction |-> direction, cost |-> cost, spot |-> TRUE])
    /\ stage' = "idle" /\ time' = time + 1
    /\ UNCHANGED <<kind, gaps, snaps, ever, rows, labels, batch>>

CycleEnds ==
    /\ stage = "register" /\ stage' = "idle" /\ time' = time + 1
    /\ UNCHANGED <<kind, gaps, snaps, ever, rows, subjects, labels, batch>>

\* The cycle is cut short; of a batch, the labels of its first rows may be in.
CutShort(n) ==
    /\ stage # "idle" /\ stage' = "idle" /\ time' = time + 1
    /\ rows' = [i \in DOMAIN rows |->
                    IF stage = "forward" /\ i \in pending_forward_returns /\ i <= n /\ Labelled(rows[i]).mark = "none"
                    THEN Labelled(rows[i]) ELSE rows[i]]
    /\ batch' = 0 /\ UNCHANGED <<kind, gaps, snaps, ever, subjects, labels>>

RadarIsOff ==
    /\ stage = "idle" /\ time < LastTime /\ time' = time + 1
    /\ UNCHANGED <<kind, gaps, snaps, ever, rows, subjects, labels, stage, batch>>

LabelsNext ==
    \/ \E quote \in {"none", "valid", "invalid"} : StoreSnapshots(quote)
    \/ \E b \in BOOLEAN : OpenReturns(b) \/ LabelReturns(b) \/ LabelOutcomes(b)
    \/ \E direction \in Directions, cost \in CostKinds : RegisterSubject(direction, cost)
    \/ CycleEnds \/ RadarIsOff
    \/ \E n \in 0..MaxEntries : CutShort(n)

LabelsSpec == LabelsInit /\ [][LabelsNext]_labelVars

-----------------------------------------------------------------------------
\* What a label says does not depend on when it was written.  An outcome is the
\* one all the quotes ever observed give, and the one that those observed until
\* it became available give (so a decision at that moment may know it), unless
\* quotes of its window had been pruned by then.  A forward return ends within
\* the tolerance of its target; a row marked as impossible never had, and never
\* gets, a snapshot it could have used (label_horizon, _nearest_exit,
\* label_batch, prune).
LabelsTimeless ==
    /\ \A l \in labels :
         LET target == subjects[l.subject].as_of + l.h
         IN  \/ l.at - Retention > target - Tolerance
             \/ /\ l = label_horizon(l.subject, l.h, Own(ever), Never, l.at)
                /\ l = label_horizon(l.subject, l.h, {s \in Own(ever) : s.ts <= l.available}, Never, l.at)
                /\ l.available <= l.at
    /\ \A i \in DOMAIN rows :
         LET target == rows[i].ts + rows[i].h
         IN  /\ rows[i].exit # Nowhen => Away(rows[i].exit, target) <= Tolerance /\ \E s \in Own(ever) : s.ts = rows[i].exit
             /\ rows[i].mark # "none" =>
                  \A s \in Own(ever) : Away(s.ts, target) <= Tolerance => s.ts < rows[i].at - Retention
=============================================================================
