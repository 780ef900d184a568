-------------------------- MODULE DeadlineScheduler --------------------------
(***************************************************************************)
(* The deadline scheduler: radar_v08/workflow/scheduler.py.                *)
(*                                                                         *)
(* The scheduler's memory is one record, and each public operation is a    *)
(* function of that record and of the clock reading, as in the code, where *)
(* everything that can raise happens before the commit point (_begin).  An *)
(* operation answers [s, out]: the state after it, and the records         *)
(* (Transitions) the caller must persist, as pairs of item and state.      *)
(*                                                                         *)
(* Only the SCREENER role can be enabled (SchedulerPolicy refuses a policy *)
(* that enables another one), so a path is the screener or empty.          *)
(***************************************************************************)
EXTENDS Integers, FiniteSets

CONSTANTS
    Versions,           \* the OpportunityVersions that may be offered
    ItemIds,            \* their item ids; ids are compared, so they are numbers
    Identities, Groups, \* identities, and their instrument/setup/direction slots
    Horizons,
    AnalysisDeadline,   \* [Horizons -> seconds from the origin seal]
    MaxQueuedAge,       \* [Horizons -> seconds in the queue]
    MaxQueued, FairSlotEvery, FinalizationReserve,
    MaxInvocations, MaxRepairs, MaxPromptTokens, MaxOutputTokens,
    HardTimeout, RoleInputCap, RoleOutputCap,    \* the screener's profile
    PromptBounds,       \* token bounds a caller may present
    Times, ClockStepsBack

Version == [item_id : ItemIds, identity : Identities, group : Groups, policy_version : Nat,
            horizon : Horizons, band : {"HIGH", "ELIGIBLE", "NONE"}, sealed_at : Int,
            origin_sealed_at : Int, integrity_valid : BOOLEAN,
            deterministic_path_eligible : BOOLEAN, screener : BOOLEAN]

\* The group and the policy version are fields of the identity.
ASSUME SchedulerAssumption ==
    /\ Versions \subseteq Version
    /\ \A v, w \in Versions : v.identity = w.identity =>
          v.group = w.group /\ v.policy_version = w.policy_version
    /\ \A v \in Versions : v.origin_sealed_at <= v.sealed_at
    /\ ItemIds \subseteq Nat \ {0} /\ Times \subseteq Nat
    /\ MaxQueued \in Nat \ {0} /\ FairSlotEvery \in Nat \ {0, 1}
    /\ MaxInvocations \in Nat /\ MaxRepairs \in Nat
    /\ MaxPromptTokens \in Nat /\ MaxOutputTokens \in Nat
    /\ RoleInputCap \in Nat /\ RoleOutputCap \in Nat /\ PromptBounds \subseteq Nat
    /\ AnalysisDeadline \in [Horizons -> Nat \ {0}] /\ MaxQueuedAge \in [Horizons -> Nat]
    /\ HardTimeout \in Nat \ {0} /\ FinalizationReserve \in Nat

VARIABLES
    sched,      \* the scheduler's memory
    now,        \* the injected clock
    recorded,   \* history: QUEUED or RUNNING if that is an item's last record, else OUT
    out,        \* history: the records of the last step
    skipped     \* history: dispatches in a row that passed over an ELIGIBLE item

schedVars == <<sched, now, recorded, out, skipped>>

None == 0
NoEntry == [version |-> None]
Idle == [version |-> None, aborted |-> FALSE]

-----------------------------------------------------------------------------
(* Reading the memory.                                                      *)

Queued(s) == {i \in ItemIds : s.queue[i] # NoEntry}

\* From the ORIGIN seal: a re-observation keeps the first version's deadline.
Deadline(v) == v.origin_sealed_at + AnalysisDeadline[v.horizon]

PathFits(v, t) ==
    /\ v.screener
    /\ MaxInvocations >= 1 /\ RoleInputCap <= MaxPromptTokens /\ RoleOutputCap <= MaxOutputTokens
    /\ t + HardTimeout + FinalizationReserve <= Deadline(v)

UnfitState(v) == IF v.deterministic_path_eligible THEN "DETERMINISTIC_ONLY" ELSE "ABSTAIN"

Before(a, b) == \E k \in DOMAIN a : a[k] < b[k] /\ \A j \in 1..(k-1) : a[j] = b[j]

RankKey(e) ==
    <<IF e.version.band = "HIGH" THEN 0 ELSE 1, Deadline(e.version), e.version.sealed_at,
      e.version.item_id>>

FairKey(e) == <<e.enqueued_at, e.version.sealed_at, e.version.item_id>>

Best(s) == CHOOSE i \in Queued(s) :
              \A j \in Queued(s) \ {i} : Before(RankKey(s.queue[i]), RankKey(s.queue[j]))
Worst(s) == CHOOSE i \in Queued(s) :
              \A j \in Queued(s) \ {i} : Before(RankKey(s.queue[j]), RankKey(s.queue[i]))

Lower(s, t) == {i \in Queued(s) : s.queue[i].version.band = "ELIGIBLE"
                                  /\ PathFits(s.queue[i].version, t)}
Oldest(s, ids) == CHOOSE i \in ids :
              \A j \in ids \ {i} : Before(FairKey(s.queue[i]), FairKey(s.queue[j]))

\* _active_identity: the identity an item id names now, if any.
ActiveIdentity(s, i) ==
    IF s.queue[i] # NoEntry THEN {s.queue[i].version.identity}
    ELSE IF s.running # Idle /\ s.running.version.item_id = i THEN {s.running.version.identity}
    ELSE {}

-----------------------------------------------------------------------------
(* Changing it.                                                             *)

\* Mutant: the group index keeps the removed item.
_remove_StaleGroup(s, ids) ==
    [s EXCEPT
       !.queue = [i \in ItemIds |-> IF i \in ids THEN NoEntry ELSE s.queue[i]],
       !.by_identity = [x \in Identities |->
           IF \E i \in ids : s.queue[i].version.identity = x THEN None ELSE s.by_identity[x]]]

_remove(s, ids) ==
    [s EXCEPT
       !.queue = [i \in ItemIds |-> IF i \in ids THEN NoEntry ELSE s.queue[i]],
       !.by_identity = [x \in Identities |->
           IF \E i \in ids : s.queue[i].version.identity = x THEN None ELSE s.by_identity[x]],
       !.by_group = [g \in Groups |->
           IF \E i \in ids : s.queue[i].version.group = g /\ s.by_group[g] = i
           THEN None ELSE s.by_group[g]]]

Insert(s, e) ==
    [s EXCEPT !.queue[e.version.item_id] = e,
              !.by_identity[e.version.identity] = e.version.item_id,
              !.by_group[e.version.group] = e.version.item_id]

\* What the sweep does with a queued entry; "QUEUED" when it stays.
SweptState(e, t) ==
    IF \/ t >= Deadline(e.version)
       \/ t - e.enqueued_at > MaxQueuedAge[e.version.horizon]
    THEN "ABORT_STALE"
    ELSE IF PathFits(e.version, t) THEN "QUEUED" ELSE UnfitState(e.version)

\* Mutant: a result at the deadline still counts.
RunsLate_After(s, t) == s.running # Idle /\ ~s.running.aborted /\ t > Deadline(s.running.version)

\* The running item has reached its deadline: it is aborted, but keeps the slot.
RunsLate(s, t) == s.running # Idle /\ ~s.running.aborted /\ t >= Deadline(s.running.version)

Sweep(s, t) ==
    LET gone == {i \in Queued(s) : SweptState(s.queue[i], t) # "QUEUED"}
        late == RunsLate(s, t)
        s1 == _remove([s EXCEPT !.last_now = t], gone)
    IN  [s |-> IF late THEN [s1 EXCEPT !.running.aborted = TRUE] ELSE s1,
         out |-> {<<i, SweptState(s.queue[i], t)>> : i \in gone}
                 \cup (IF late THEN {<<s.running.version.item_id, "ABORT_STALE">>} ELSE {})]

-----------------------------------------------------------------------------
(* admit: the state it records for the offered version (early returns in    *)
(* the code's order), then the state after it.                              *)

Incumbent(s, v) == s.by_group[v.group]

\* The memory without the incumbent the new version supersedes.
WithRoom(s, v) == IF Incumbent(s, v) = None THEN s ELSE _remove(s, {Incumbent(s, v)})

\* The sweep of this very call closed the item that is offered again.
Replayed(s, s1, i) == ActiveIdentity(s, i) # {} /\ ActiveIdentity(s1, i) = {}

NotNewer(v, held) == v.sealed_at <= held.sealed_at

Full(s) == Cardinality(Queued(s)) >= MaxQueued

Verdict(s, s1, v, t) ==
    LET duplicate == \/ s1.by_identity[v.identity] # None
                     \/ s1.running # Idle /\ s1.running.version.identity = v.identity
        held == s1.queue[Incumbent(s1, v)].version
        s2 == WithRoom(s1, v)
        e == [version |-> v, enqueued_at |-> t]
    IN  IF Replayed(s, s1, v.item_id) \/ duplicate THEN "NOTHING"
        ELSE IF ~v.integrity_valid THEN "INTEGRITY_INVALID"
        ELSE IF v.band = "NONE" THEN "NOT_ELIGIBLE"
        ELSE IF t >= Deadline(v) THEN "ABORT_STALE"
        ELSE IF ~PathFits(v, t) THEN UnfitState(v)
        ELSE IF Incumbent(s1, v) # None
                /\ (held.policy_version # v.policy_version \/ held.horizon # v.horizon)
             THEN "INCOMPATIBLE_VERSION"
        ELSE IF Incumbent(s1, v) # None /\ NotNewer(v, held) THEN "SUPERSEDED"
        ELSE IF Full(s2) /\ ~Before(RankKey(e), RankKey(s2.queue[Worst(s2)])) THEN "DROPPED_BACKPRESSURE"
        ELSE "QUEUED"

Admit(s, v, t) ==
    LET swept == Sweep(s, t)
        verdict == Verdict(s, swept.s, v, t)
        old == Incumbent(swept.s, v)
        s2 == WithRoom(swept.s, v)
        s3 == IF Full(s2) THEN _remove(s2, {Worst(s2)}) ELSE s2
    IN  IF verdict # "QUEUED"
        THEN [s |-> swept.s,
              out |-> swept.out \cup (IF verdict = "NOTHING" THEN {} ELSE {<<v.item_id, verdict>>})]
        ELSE [s |-> Insert(s3, [version |-> v, enqueued_at |-> t]),
              out |-> swept.out \cup {<<v.item_id, "QUEUED">>}
                      \cup (IF old # None THEN {<<old, "SUPERSEDED">>} ELSE {})
                      \cup (IF Full(s2) THEN {<<Worst(s2), "DROPPED_BACKPRESSURE">>} ELSE {})]

-----------------------------------------------------------------------------
(* dispatch, authorize_call, complete, fail.                                *)

\* The reserved slot takes the oldest lower-band item, if there is one.
\* slots_used is only read modulo FairSlotEvery, and kept so.
Chosen(s, t) ==
    IF (s.slots_used + 1) % FairSlotEvery = 0 /\ Lower(s, t) # {}
    THEN Oldest(s, Lower(s, t)) ELSE Best(s)

Dispatch(s, t) ==
    LET swept == Sweep(s, t)
        i == Chosen(swept.s, t)
        s1 == _remove(swept.s, {i})
    IN  IF swept.s.running # Idle \/ Queued(swept.s) = {} THEN swept
        ELSE [s |-> [s1 EXCEPT
                       !.slots_used = (@ + 1) % FairSlotEvery,
                       !.running = [version |-> swept.s.queue[i].version, aborted |-> FALSE,
                                    invocations |-> 0, repairs |-> 0,
                                    prompt_tokens |-> 0, output_tokens |-> 0]],
              out |-> swept.out \cup {<<i, "RUNNING">>}]

CapsLeft(r, repair, prompt) ==
    /\ r.invocations + 1 <= MaxInvocations
    /\ repair => r.repairs + 1 <= MaxRepairs
    /\ r.prompt_tokens + prompt <= MaxPromptTokens
    /\ r.output_tokens + RoleOutputCap <= MaxOutputTokens

\* allowed iff refusal is None; role is the screener or a disabled role.
Allowed(s, i, screener, repair, prompt, t) ==
    LET r == s.running
    IN  /\ r # Idle /\ r.version.item_id = i /\ ~r.aborted
        /\ screener /\ prompt <= RoleInputCap
        /\ CapsLeft(r, repair, prompt)
        /\ t + HardTimeout + FinalizationReserve <= Deadline(r.version)

AuthorizeCall(s, i, screener, repair, prompt, t) ==
    LET swept == Sweep(s, t)
    IN  IF ~Allowed(swept.s, i, screener, repair, prompt, t) THEN swept
        ELSE [swept EXCEPT
                !.s.running.invocations = @ + 1,
                !.s.running.repairs = IF repair THEN @ + 1 ELSE @,
                !.s.running.prompt_tokens = @ + prompt,
                !.s.running.output_tokens = @ + RoleOutputCap]

\* complete and fail free the slot; the sweep they make has already recorded
\* ABORT_STALE for a result at or after the deadline.
Finish(s, state, t) ==
    LET swept == Sweep(s, t)
    IN  [s |-> [swept.s EXCEPT !.running = Idle],
         out |-> swept.out \cup
                 (IF swept.s.running.aborted THEN {} ELSE {<<s.running.version.item_id, state>>})]

-----------------------------------------------------------------------------
(* The component on its own: any caller, any order of calls.  A call that   *)
(* raises (clock behind last_now, an item id naming another active item, an *)
(* unknown item) changes nothing.                                           *)

EmptySchedule ==
    [last_now |-> 0, queue |-> [i \in ItemIds |-> NoEntry],
     by_identity |-> [x \in Identities |-> None],
     by_group |-> [g \in Groups |-> None], running |-> Idle, slots_used |-> 0]

SchedInit ==
    /\ sched = EmptySchedule
    /\ now \in Times
    /\ recorded = [i \in ItemIds |-> "OUT"]
    /\ out = {}
    /\ skipped = 0

Record(records) ==
    /\ out' = records
    /\ recorded' = [i \in ItemIds |->
          IF <<i, "QUEUED">> \in records THEN "QUEUED"
          ELSE IF <<i, "RUNNING">> \in records THEN "RUNNING"
          ELSE IF \E p \in records : p[1] = i THEN "OUT"
          ELSE recorded[i]]

Call(result) ==
    /\ now >= sched.last_now
    /\ \E r \in {result} : sched' = r.s /\ Record(r.out)
    /\ UNCHANGED now

sweep == Call(Sweep(sched, now)) /\ UNCHANGED skipped

admit(v) ==
    /\ ActiveIdentity(sched, v.item_id) \subseteq {v.identity}
    /\ Call(Admit(sched, v, now))
    /\ UNCHANGED skipped

dispatch ==
    /\ Call(Dispatch(sched, now))
    /\ skipped' = IF sched'.running = sched.running \/ sched.running # Idle THEN skipped
                  ELSE IF sched'.running.version.band = "ELIGIBLE"
                          \/ Lower(Sweep(sched, now).s, now) = {} THEN 0
                  ELSE skipped + 1

authorize_call(i, screener, repair, prompt) ==
    /\ Call(AuthorizeCall(sched, i, screener, repair, prompt, now))
    /\ UNCHANGED skipped

complete == sched.running # Idle /\ Call(Finish(sched, "COMPLETED", now)) /\ UNCHANGED skipped

fail == sched.running # Idle /\ Call(Finish(sched, "FAILED", now)) /\ UNCHANGED skipped

Clock ==
    /\ now' \in Times \ {now}
    /\ now' > now \/ ClockStepsBack
    /\ out' = {}
    /\ UNCHANGED <<sched, recorded, skipped>>

SchedNext ==
    \/ sweep \/ dispatch \/ complete \/ fail \/ Clock
    \/ \E v \in Versions : admit(v)
    \/ \E i \in ItemIds, screener, repair \in BOOLEAN, prompt \in PromptBounds :
          authorize_call(i, screener, repair, prompt)

SchedSpec == SchedInit /\ [][SchedNext]_schedVars

-----------------------------------------------------------------------------
(* Properties.                                                             *)

States == {"QUEUED", "RUNNING", "COMPLETED", "FAILED", "SUPERSEDED", "DROPPED_BACKPRESSURE",
           "ABORT_STALE", "DETERMINISTIC_ONLY", "ABSTAIN", "NOT_ELIGIBLE",
           "INTEGRITY_INVALID", "INCOMPATIBLE_VERSION"}

Entry == [version : Versions, enqueued_at : Times]
Running == [version : Versions, aborted : BOOLEAN, invocations : Nat, repairs : Nat,
            prompt_tokens : Nat, output_tokens : Nat]

\* The scheduler's memory and the history variables have their types.
SchedTypeOK ==
    /\ sched \in [last_now : Nat, queue : [ItemIds -> Entry \cup {NoEntry}],
                  by_identity : [Identities -> ItemIds \cup {None}],
                  by_group : [Groups -> ItemIds \cup {None}],
                  running : Running \cup {Idle}, slots_used : 0..(FairSlotEvery - 1)]
    /\ now \in Times
    /\ recorded \in [ItemIds -> {"QUEUED", "RUNNING", "OUT"}]
    /\ out \subseteq ItemIds \X States
    /\ skipped \in Nat

\* _insert, _remove, _sweep: the two indexes say exactly what the queue holds,
\* so the queue has one version per instrument/setup/direction and one per
\* identity, and no identity is queued while it runs.
IndexesMirrorQueue ==
    LET q == sched.queue
    IN  /\ \A i \in Queued(sched) : /\ q[i].version.item_id = i
                                    /\ sched.by_identity[q[i].version.identity] = i
                                    /\ sched.by_group[q[i].version.group] = i
        /\ \A x \in Identities : sched.by_identity[x] # None =>
              /\ sched.by_identity[x] \in Queued(sched)
              /\ q[sched.by_identity[x]].version.identity = x
              /\ sched.running # Idle => sched.running.version.identity # x
        /\ \A g \in Groups : sched.by_group[g] # None =>
              /\ sched.by_group[g] \in Queued(sched)
              /\ q[sched.by_group[g]].version.group = g

\* admit, step 4: the queue never holds more than max_queued versions.
QueueBounded == Cardinality(Queued(sched)) <= MaxQueued

\* SchedulerError's docstring: no item leaves without its record.  The last
\* record of an item says exactly where it is: queued, running, or gone; and an
\* operation records an item once, also when it is offered again just as the
\* operation's own sweep closes it.
NothingLost ==
    /\ \A i \in ItemIds :
        /\ recorded[i] = "QUEUED" <=> i \in Queued(sched)
        /\ recorded[i] = "RUNNING" <=> /\ sched.running # Idle /\ ~sched.running.aborted
                                       /\ sched.running.version.item_id = i
    /\ \A p, q \in out : p[1] = q[1] => p = q

\* complete: a result is recorded COMPLETED only before the deadline counted
\* from the ORIGIN seal, however late, re-observed or re-offered the item is.
PublishedInTime ==
    [][\A i \in ItemIds : <<i, "COMPLETED">> \in out' =>
         LET v == sched.running.version
         IN  /\ v.item_id = i /\ recorded[i] = "RUNNING"
             /\ now < v.origin_sealed_at + AnalysisDeadline[v.horizon]]_schedVars

\* admit, step 3: a queued version gives way only to a newer, compatible
\* version of its group that is itself queued; never to one that is dropped.
SupersededByNewer ==
    [][\A i \in Queued(sched) : <<i, "SUPERSEDED">> \in out' =>
         LET old == sched.queue[i].version
             heir == sched'.by_group[old.group]
             new == sched'.queue[heir].version
         IN  /\ heir # None /\ new.sealed_at > old.sealed_at
             /\ new.horizon = old.horizon
             /\ new.policy_version = old.policy_version]_schedVars

\* admit, step 4: backpressure drops only when the queue stays full, and a
\* queued item is dropped only if it ranks behind everything left.
BackpressureDropsWorst ==
    [][\A i \in ItemIds : <<i, "DROPPED_BACKPRESSURE">> \in out' =>
         /\ Cardinality(Queued(sched')) = MaxQueued
         /\ i \in Queued(sched) => \A j \in Queued(sched') :
               Before(RankKey(sched'.queue[j]), RankKey(sched.queue[i]))]_schedVars

\* dispatch: a waiting ELIGIBLE item is passed over at most fair_slot_every - 1
\* times in a row, whatever HIGH items keep arriving.
FairSlot == skipped < FairSlotEvery

\* authorize_call: the calls granted to one opportunity never pass its caps.
CallBudget ==
    LET r == sched.running
    IN  r # Idle => /\ r.invocations <= MaxInvocations /\ r.repairs <= MaxRepairs
                    /\ r.prompt_tokens <= MaxPromptTokens
                    /\ r.output_tokens <= MaxOutputTokens

\* Whatever leaves the queue for another version leaves it for a better one.
DisplacedByBetter == SupersededByNewer /\ BackpressureDropsWorst

\* _sweep is the first thing every call does: whatever was admitted, replayed or
\* re-observed, a version still queued after the last call has waited no longer
\* than max_queued_age, and a call started then would still end, finalization
\* included, before the deadline counted from its origin.
WaitBounded ==
    \A i \in Queued(sched) :
        LET v == sched.queue[i].version
        IN  /\ sched.last_now <= sched.queue[i].enqueued_at + MaxQueuedAge[v.horizon]
            /\ sched.last_now + HardTimeout + FinalizationReserve
                 <= v.origin_sealed_at + AnalysisDeadline[v.horizon]

\* What every operation keeps (admit, dispatch, authorize_call, complete,
\* _sweep): indexes that mirror a bounded queue, calls within their caps,
\* exactly one record of where each item is, a fair slot, a bounded wait.
SchedInv ==
    /\ SchedTypeOK /\ IndexesMirrorQueue /\ QueueBounded /\ CallBudget
    /\ NothingLost /\ FairSlot /\ WaitBounded

\* What no operation may do (complete, admit): record COMPLETED after the
\* deadline of the origin, or displace a version for a worse one.
SchedSteps == PublishedInTime /\ DisplacedByBetter
=============================================================================
