--------------------------- MODULE InferenceWorker ---------------------------
(***************************************************************************)
(* The local inference worker: radar_v08/workflow/worker.py, composed with *)
(* the scheduler it owns (DeadlineScheduler) and the durable ledger it     *)
(* shares with other processes (InvocationLedger, through the adapter in   *)
(* radar_v08/worker.py).                                                   *)
(*                                                                         *)
(* Four actors: the worker thread (run, one step per lock section, ledger  *)
(* transaction or clock reading), the collector (submit), the watchdog     *)
(* thread and the operator.  A crash loses the process's memory; the       *)
(* ledger and what the sink accepted stay.  Any ledger call may raise      *)
(* (BUSY, ...), which changes nothing there; the sink may refuse a batch   *)
(* at any time.  Reports, reasons and payloads are left out.               *)
(***************************************************************************)
EXTENDS Integers, FiniteSets, Sequences, SequencesExt

CONSTANTS
    Versions, ItemIds, Identities, Groups, Horizons, AnalysisDeadline, MaxQueuedAge,
    MaxQueued, FairSlotEvery, FinalizationReserve, MaxInvocations, MaxRepairs,
    MaxPromptTokens, MaxOutputTokens, HardTimeout, RoleInputCap, RoleOutputCap,
    PromptBounds, Times, ClockStepsBack,                      \* as in DeadlineScheduler
    Ids, Model, HourLength, DayLength, HourlyLimit, DailyLimit,
    RecoverLimit, MaxDemand, MaxAttempts, MaxGeneration,      \* as in InvocationLedger
    MaxFailures,                \* FailurePolicy.max_failures
    MaxLease, RecoveryLease     \* MAX_LEASE_SECONDS, RECOVERY_LEASE_SECONDS

VARIABLES
    sched, now,                                               \* DeadlineScheduler
    rows, reserved, observed, refused, leases, calls, acted,  \* InvocationLedger
    pc,         \* where the worker thread is
    job,        \* the locals of _run_item and _attempts
    active,     \* the _ActiveCall
    mem,        \* the worker's other fields
    durable,    \* the sink: QUEUED, RUNNING or COMPLETED if that is an item's last record
    published,  \* the sink: publications accepted
    made        \* history: model calls made under an invocation

ledgerVars == <<rows, reserved, observed, refused, leases, calls, acted>>
sinkVars == <<durable, published>>
workerVars == <<sched, now, rows, reserved, observed, refused, leases, calls, acted,
                pc, job, active, mem, durable, published, made>>

\* The scheduler and the ledger, each with what is proved about it.
S == INSTANCE DeadlineSchedulerProofs WITH recorded <- durable, out <- {}, skipped <- 0
L == INSTANCE InvocationLedgerProofs WITH Models <- {Model}, Owners <- {"worker", "other"},
                                          LeaseSeconds <- 1..MaxLease

\* What SchedulerPolicy and FailurePolicy accept, and the adapter's lease lengths.
ASSUME WorkerAssumption ==
    /\ S!SchedulerAssumption /\ L!LedgerAssumption /\ L!TablesAssumption
    /\ MaxFailures \in Nat \ {0} /\ MaxLease \in Nat /\ RecoveryLease \in 1..MaxLease

None == 0
NoVersion == [item_id |-> None]
NoJob == [item_id |-> None]
NoCall == [phase |-> "none"]

FreshMemory == [versions |-> [i \in ItemIds |-> NoVersion], pending |-> <<>>, pending_fail |-> None,
                stop |-> FALSE, restart_required |-> FALSE, failures |-> 0, disabled |-> FALSE]

WorkerInit ==
    /\ now \in Times
    /\ sched = S!EmptySchedule
    /\ L!Init
    /\ pc = "recover" /\ job = NoJob /\ active = NoCall /\ mem = FreshMemory
    /\ durable = [i \in ItemIds |-> "OUT"] /\ published = {}
    /\ made = [i \in Ids |-> 0]

-----------------------------------------------------------------------------
(* The sink.  A batch is the records of one scheduler operation and at most *)
(* one publication, written atomically.                                     *)

Terminal(state) == state \notin {"QUEUED", "RUNNING"}

\* The ways to end other than COMPLETED are not told apart.
Batch(records, publication) ==
    [records |-> {<<r[1], IF Terminal(r[2]) /\ r[2] # "COMPLETED" THEN "OUT" ELSE r[2]>> : r \in records},
     publication |-> publication]

\* What the sink says of each item after a sequence of batches: its last record.
Telling(batches, i) == {k \in DOMAIN batches : \E r \in batches[k].records : r[1] = i}

Written(states, batches) ==
    [i \in ItemIds |->
        IF Telling(batches, i) = {} THEN states[i]
        ELSE (CHOOSE r \in batches[Max(Telling(batches, i))].records : r[1] = i)[2]]

\* What the sink says once everything pending has been written.
View == Written(durable, mem.pending)

Persist(batches) ==
    /\ durable' = Written(durable, batches)
    /\ published' = published \cup UNION {batches[k].publication : k \in DOMAIN batches}

Forget(m, records) ==
    [i \in ItemIds |-> IF \E r \in records : r[1] = i /\ Terminal(r[2])
                       THEN NoVersion ELSE m.versions[i]]

Kept(batches, k) == SubSeq(batches, k + 1, Len(batches))

\* The sink takes the first k pending batches of memory m.
Flush(m, k) ==
    /\ mem' = [m EXCEPT !.pending = Kept(m.pending, k)]
    /\ Persist(SubSeq(m.pending, 1, k))

\* _emit_locked on memory m: append, then flush; the first `flushed' batches
\* are written for sure (the call began with a flush that succeeded).
Emit(m, records, publication, flushed) ==
    LET batches == IF records = {} /\ publication = {} THEN m.pending
                   ELSE Append(m.pending, Batch(records, publication))
    IN  \E k \in flushed..Len(batches) :
          Flush([m EXCEPT !.pending = batches, !.versions = Forget(m, records)], k)

\* The steps of process_next that hold the lock across two clock readings.
LockFree == pc \notin {"dispatch", "refuse"}

\* A flush that fails: a proper prefix of what is pending is written.
FlushFails ==
    \E k \in 0..(Len(mem.pending) - 1) : Flush(mem, k)

-----------------------------------------------------------------------------
(* The other actors.                                                        *)

\* A call of the scheduler raises when the clock is behind its last reading.
ClockOK == now >= sched.last_now

submit(v) ==
    LET result == S!Admit(sched, v, now)
        m == IF <<v.item_id, "QUEUED">> \in result.out
             THEN [mem EXCEPT !.versions[v.item_id] = v] ELSE mem
    IN  /\ LockFree
        /\ ~mem.restart_required /\ ~mem.stop /\ ~mem.disabled
        /\ ClockOK /\ S!ActiveIdentity(sched, v.item_id) \subseteq {v.identity}
        /\ sched' = result.s
        /\ Emit(m, result.out, {}, Len(mem.pending))
        /\ UNCHANGED <<now, ledgerVars, pc, job, active, made>>

\* submit answers SINK_UNAVAILABLE.
SubmitRefused ==
    /\ LockFree
    /\ ~mem.restart_required /\ ~mem.stop /\ ~mem.disabled
    /\ FlushFails
    /\ UNCHANGED <<sched, now, ledgerVars, pc, job, active, made>>

review_profile ==
    /\ LockFree
    /\ mem' = [mem EXCEPT !.disabled = FALSE, !.failures = 0]
    /\ UNCHANGED <<sched, now, ledgerVars, pc, job, active, sinkVars, made>>

request_stop ==
    /\ LockFree
    /\ mem' = [mem EXCEPT !.stop = TRUE]
    /\ active' = IF active = NoCall THEN NoCall ELSE [active EXCEPT !.cancel = TRUE]
    /\ UNCHANGED <<sched, now, ledgerVars, pc, job, sinkVars, made>>

\* The monotonic clock passes the call's limit, then its limit plus grace.
Elapse ==
    /\ active.phase \in {"within", "over"}
    /\ active' = [active EXCEPT !.phase = IF @ = "within" THEN "over" ELSE "beyond"]
    /\ UNCHANGED <<sched, now, ledgerVars, pc, job, mem, sinkVars, made>>

watchdog_tick ==
    /\ LockFree
    /\ active.phase \in {"over", "beyond"}
    /\ active' = [active EXCEPT !.timed_out = TRUE, !.cancel = TRUE]
    /\ mem' = [mem EXCEPT !.restart_required = @ \/ active.phase = "beyond"]
    /\ UNCHANGED <<sched, now, ledgerVars, pc, job, sinkVars, made>>

\* The process dies anywhere, or is terminated by the watchdog, and a new one
\* starts.  Nothing of the queue is resumed: what the sink last heard of a
\* queued or running item stays as it is, and is out of this model.
Restart ==
    /\ sched' = S!EmptySchedule
    /\ pc' = "recover" /\ job' = NoJob /\ active' = NoCall /\ mem' = FreshMemory
    /\ durable' = [i \in ItemIds |-> IF durable[i] \in {"QUEUED", "RUNNING"} THEN "OUT" ELSE durable[i]]
    /\ UNCHANGED <<now, ledgerVars, published, made>>

\* Another worker process starts and takes over what has expired.
OtherRecovers ==
    /\ L!recover_expired("other", RecoveryLease)
    /\ UNCHANGED <<sched, pc, job, active, mem, sinkVars, made>>

Clock ==
    /\ L!Clock
    /\ UNCHANGED <<sched, pc, job, active, mem, sinkVars, made>>
-----------------------------------------------------------------------------
(* The worker thread: run and recover.                                      *)

Goto(label) == pc' = label /\ job' = job

RecoverTakes ==
    /\ pc = "recover"
    /\ L!recover_expired("worker", RecoveryLease)
    /\ pc' = "releasing" /\ job' = [todo |-> leases' \ leases]
    /\ UNCHANGED <<sched, active, mem, sinkVars, made>>

\* recover found nothing, or a ledger call raised: the loop starts anyway.
RecoverEnds ==
    /\ pc \in {"recover", "releasing"}
    /\ pc' = "loop" /\ job' = NoJob
    /\ UNCHANGED <<sched, now, ledgerVars, active, mem, sinkVars, made>>

ReleaseRecovered ==
    /\ pc = "releasing"
    /\ \E l \in job.todo :
         /\ \/ L!release_invocation(l)
            \/ ~L!fence_applied(l) /\ UNCHANGED <<ledgerVars, now>>
         /\ IF job.todo = {l} THEN pc' = "loop" /\ job' = NoJob
            ELSE pc' = pc /\ job' = [todo |-> job.todo \ {l}]
    /\ UNCHANGED <<sched, active, mem, sinkVars, made>>

\* Mutant: the loop does not look at the stop flag.
AfterItem_IgnoresStop == "next"

AfterItem == IF mem.stop THEN "exited" ELSE "next"

Loop ==
    /\ pc = "loop"
    /\ Goto(AfterItem)
    /\ UNCHANGED <<sched, now, ledgerVars, active, mem, sinkVars, made>>

-----------------------------------------------------------------------------
(* process_next.                                                            *)

\* _fail_item_locked, for the item that runs.
FailItem(m, flushed) ==
    LET result == S!Finish(sched, "FAILED", now)
    IN  IF ClockOK
        THEN sched' = result.s /\ Emit(m, result.out, {}, flushed)
        ELSE /\ Flush([m EXCEPT !.pending_fail = sched.running.version.item_id], flushed)
             /\ UNCHANGED sched

MustRestart == mem.restart_required

NextRefused ==
    /\ pc = "next"
    /\ \/ /\ MustRestart
          /\ Goto("exited") /\ UNCHANGED <<mem, sinkVars>>
       \/ /\ ~MustRestart
          /\ FlushFails /\ Goto("loop")
    /\ UNCHANGED <<sched, now, ledgerVars, active, made>>

RetryFail ==
    /\ pc = "next" /\ ~MustRestart /\ mem.pending_fail # None
    /\ FailItem([mem EXCEPT !.pending_fail = None], Len(mem.pending))
    /\ Goto(IF ClockOK THEN "dispatch" ELSE "loop")
    /\ UNCHANGED <<now, ledgerVars, active, made>>

Dispatch ==
    LET result == S!Dispatch(sched, now)
        flushed == IF pc = "next" THEN Len(mem.pending) ELSE 0
        started == {i \in ItemIds : <<i, "RUNNING">> \in result.out}
    IN  /\ \/ pc = "next" /\ ~MustRestart /\ mem.pending_fail = None
           \/ pc = "dispatch"
        /\ IF ~ClockOK
           THEN Flush(mem, flushed) /\ Goto("loop") /\ UNCHANGED sched
           ELSE /\ sched' = result.s
                /\ Emit(mem, result.out, {}, flushed)
                /\ IF started = {} THEN Goto("loop")
                   ELSE \E i \in started :
                        /\ job' = [version |-> mem'.versions[i], lease |-> NoJob, seconds |-> 0,
                                   repair |-> FALSE, call_deadline |-> 0, raised |-> FALSE]
                        /\ pc' = IF mem.disabled \/ mem.stop \/ mem'.versions[i] = NoVersion
                                 THEN "refuse" ELSE "lease"
        /\ UNCHANGED <<now, ledgerVars, active, made>>

\* The item ends as failed: at once (refuse), or after _abandon.
EndItem ==
    /\ pc \in {"refuse", "failing"}
    /\ FailItem(mem, 0)
    /\ pc' = IF job.raised THEN "exited" ELSE "loop"
    /\ job' = NoJob
    /\ UNCHANGED <<now, ledgerVars, active, made>>
-----------------------------------------------------------------------------
(* _run_item and _attempts.                                                 *)

DispatchedDeadline == S!Deadline(sched.running.version)

Least(a, b) == IF a < b THEN a ELSE b
Greatest(a, b) == IF a > b THEN a ELSE b

\* Mutant: the lease covers the reserve and not the time to the deadline.
LeaseLength_Short == Least(Greatest(FinalizationReserve, 1), MaxLease)

\* _lease_seconds
LeaseLength ==
    Least(Greatest(Greatest(DispatchedDeadline - now, 0) + FinalizationReserve, 1), MaxLease)

ComputeLease ==
    /\ pc = "lease"
    /\ pc' = "claim" /\ job' = [job EXCEPT !.seconds = LeaseLength]
    /\ UNCHANGED <<sched, now, ledgerVars, active, mem, sinkVars, made>>

\* A duplicate, a refusal or a ledger error ends the item.
ClaimFails ==
    /\ pc = "claim"
    /\ \/ L!ClaimDuplicate(job.version.identity, Model)
       \/ L!ClaimRefused(job.version.identity, Model)
       \/ UNCHANGED <<ledgerVars, now>>
    /\ Goto("failing")
    /\ UNCHANGED <<sched, active, mem, sinkVars, made>>

ClaimWins ==
    /\ pc = "claim"
    /\ L!Claim(job.version.identity, Model, "worker", job.seconds)
    /\ pc' = "attempts"
    /\ job' = [job EXCEPT !.lease = CHOOSE l \in leases' \ leases : TRUE, !.seconds = 0]
    /\ UNCHANGED <<sched, active, mem, sinkVars, made>>

\* _attempts ends without a value; the locals it used are dead.
GiveUp(raised) ==
    /\ pc' = "abandon"
    /\ job' = [job EXCEPT !.repair = FALSE, !.call_deadline = 0, !.raised = raised]

\* Stopped, or the prompt does not fit the context, or preparing it raised.
NoAttempt ==
    /\ pc = "attempts"
    /\ \E raised \in {FALSE, ~mem.stop} : GiveUp(raised)
    /\ UNCHANGED <<sched, now, ledgerVars, active, mem, sinkVars, made>>

authorize(prompt) ==
    LET i == sched.running.version.item_id
        result == S!AuthorizeCall(sched, i, TRUE, job.repair, prompt, now)
        granted == S!Allowed(S!Sweep(sched, now).s, i, TRUE, job.repair, prompt, now)
    IN  /\ pc = "attempts" /\ ~mem.stop
        /\ IF ~ClockOK
           THEN GiveUp(FALSE) /\ UNCHANGED <<sched, mem, sinkVars>>
           ELSE /\ sched' = result.s
                /\ Emit(mem, result.out, {}, 0)
                /\ IF granted
                   THEN pc' = "record" /\ job' = [job EXCEPT !.call_deadline = now + HardTimeout]
                   ELSE GiveUp(FALSE)
        /\ UNCHANGED <<now, ledgerVars, active, made>>

\* Mutant: the answer of record_attempt is not looked at.
AttemptRecorded_Ignored == L!record_attempt(job.lease) \/ UNCHANGED <<ledgerVars, now>>

AttemptRecorded == L!record_attempt(job.lease)

\* Not applied (fenced, expired, over budget), or the ledger raised.
RecordAttempt ==
    /\ pc = "record"
    /\ \/ AttemptRecorded /\ Goto("call")
       \/ UNCHANGED <<ledgerVars, now>> /\ GiveUp(FALSE)
    /\ UNCHANGED <<sched, active, mem, sinkVars, made>>

StartCall == [phase |-> "within", cancel |-> mem.stop, timed_out |-> FALSE]

BeginCall ==
    /\ pc = "call"
    /\ IF now >= job.call_deadline
       THEN GiveUp(FALSE) /\ UNCHANGED <<active, made>>
       ELSE /\ Goto("calling")
            /\ active' = StartCall
            /\ made' = [made EXCEPT ![job.lease.invocation_id] = @ + 1]
    /\ UNCHANGED <<sched, now, ledgerVars, mem, sinkVars>>

\* What the call amounts to.  The adapter may answer anything; "raises" is an
\* interpreter that raises, "failed" every failure that is not repairable.
Answers == {"accepted", "rejected", "raises", "malformed", "failed", "cancelled"}

\* Mutant: a reply is only discarded when the watchdog was there in time.
CallVerdict_Kept(answer) ==
    IF answer = "cancelled" /\ active.phase = "within" THEN "cancelled"
    ELSE IF answer = "accepted" THEN "accepted" ELSE "failed"

CallVerdict(answer) ==
    LET timed_out == active.timed_out \/ active.phase # "within"
    IN  IF mem.restart_required THEN "failed"
        ELSE IF answer = "cancelled" /\ ~timed_out THEN "cancelled"
        ELSE IF timed_out THEN "failed"
        ELSE IF answer \in {"malformed", "failed"} THEN answer
        ELSE IF now > job.call_deadline THEN "failed" ELSE answer

\* record_failure: the failures still inside the window, and this one.
RecordFailure ==
    \E kept \in 0..mem.failures :
        mem' = [mem EXCEPT !.failures = kept + 1, !.disabled = @ \/ kept + 1 >= MaxFailures]

CallReturns(answer) ==
    LET verdict == CallVerdict(answer)
    IN  /\ pc = "calling"
        /\ active' = NoCall
        /\ IF verdict \in {"accepted", "cancelled", "raises"} THEN UNCHANGED mem ELSE RecordFailure
        /\ IF verdict = "accepted" THEN Goto("commit")
           ELSE IF verdict \in {"malformed", "rejected"} /\ ~job.repair /\ ~mem'.disabled
           THEN pc' = "attempts" /\ job' = [job EXCEPT !.repair = TRUE]
           ELSE GiveUp(verdict = "raises")
        /\ UNCHANGED <<sched, now, ledgerVars, sinkVars, made>>

\* _abandon: the release may be refused or raise; the item is failed anyway.
Abandon ==
    /\ pc = "abandon"
    /\ L!release_invocation(job.lease) \/ UNCHANGED <<ledgerVars, now>>
    /\ Goto("failing")
    /\ UNCHANGED <<sched, active, mem, sinkVars, made>>

-----------------------------------------------------------------------------
(* _commit.                                                                 *)

ResultLate == now >= DispatchedDeadline

Commit ==
    /\ pc = "commit"
    /\ Goto(IF ResultLate THEN "late" ELSE "complete")
    /\ UNCHANGED <<sched, now, ledgerVars, active, mem, sinkVars, made>>

ReleaseLate ==
    /\ pc = "late"
    /\ L!release_invocation(job.lease) \/ UNCHANGED <<ledgerVars, now>>
    /\ Goto("discard")
    /\ UNCHANGED <<sched, active, mem, sinkVars, made>>

Committed == L!complete_invocation(job.lease)

\* Applied, fenced, or the ledger raised.
CompleteLedger ==
    /\ pc = "complete"
    /\ \/ Committed /\ Goto("publish")
       \/ ~L!fence_applied(job.lease) /\ UNCHANGED <<ledgerVars, now>> /\ Goto("failing")
       \/ UNCHANGED <<ledgerVars, now>> /\ Goto("abandon")
    /\ UNCHANGED <<sched, active, mem, sinkVars, made>>

\* scheduler.complete, for a committed result (publish) or a late one (discard).
CompleteItem ==
    LET i == sched.running.version.item_id
        result == S!Finish(sched, "COMPLETED", now)
        publication == IF pc = "publish" /\ <<i, "COMPLETED">> \in result.out
                       THEN {<<i, job.lease.invocation_id>>} ELSE {}
    IN  /\ pc \in {"publish", "discard"}
        /\ IF ClockOK
           THEN sched' = result.s /\ Emit(mem, result.out, publication, 0)
           ELSE /\ mem' = [mem EXCEPT !.pending_fail = i]
                /\ UNCHANGED <<sched, sinkVars>>
        /\ pc' = "loop" /\ job' = NoJob
        /\ UNCHANGED <<now, ledgerVars, active, made>>
-----------------------------------------------------------------------------
ThreadStep ==
    \/ RecoverTakes \/ RecoverEnds \/ ReleaseRecovered \/ Loop
    \/ NextRefused \/ RetryFail \/ Dispatch \/ EndItem
    \/ ComputeLease \/ ClaimFails \/ ClaimWins
    \/ NoAttempt \/ (\E prompt \in PromptBounds : authorize(prompt)) \/ RecordAttempt \/ BeginCall
    \/ Abandon \/ Commit \/ ReleaseLate \/ CompleteLedger \/ CompleteItem

WorkerNext ==
    \/ ThreadStep
    \/ \E answer \in Answers : CallReturns(answer)
    \/ \E v \in Versions : submit(v)
    \/ SubmitRefused \/ review_profile \/ request_stop
    \/ Elapse \/ watchdog_tick \/ Restart \/ OtherRecovers \/ Clock

WorkerSpec == WorkerInit /\ [][WorkerNext]_workerVars

\* terminate(): the callback the watchdog calls once cancellation failed.
Terminated == mem.restart_required /\ Restart

\* The worker and watchdog threads keep running and both clocks advance.  A
\* model call need not return, and nobody need restart the process.
FairWorkerSpec ==
    /\ WorkerSpec
    /\ WF_workerVars(ThreadStep) /\ WF_workerVars(Elapse) /\ WF_workerVars(watchdog_tick)
    /\ WF_workerVars(Terminated) /\ WF_workerVars(Clock)

-----------------------------------------------------------------------------
(* Properties.                                                             *)

Publications == published \cup UNION {mem.pending[k].publication : k \in DOMAIN mem.pending}

\* The worker's own state has its type, a call is registered exactly while it
\* runs, and the breaker is open exactly when its failures reached the limit.
WorkerTypeOK ==
    /\ pc \in {"recover", "releasing", "loop", "next", "dispatch", "refuse", "lease", "claim",
               "failing", "attempts", "record", "call", "calling", "abandon", "commit", "late",
               "discard", "complete", "publish", "exited"}
    /\ active = NoCall \/ active \in [phase : {"within", "over", "beyond"}, cancel : BOOLEAN,
                                      timed_out : BOOLEAN]
    /\ active # NoCall <=> pc = "calling"
    /\ mem.versions \in [ItemIds -> Versions \cup {NoVersion}]
    /\ mem.pending_fail \in ItemIds \cup {None} /\ mem.failures \in 0..MaxFailures
    /\ mem.disabled <=> mem.failures = MaxFailures
    /\ Publications \subseteq ItemIds \X Ids
    /\ made \in [Ids -> Nat]

\* "Commit is fenced": a result is published only under an invocation the
\* ledger completed, and once per invocation, whatever stalls, is recovered by
\* another process or raises in between.
PublishedIsCommitted ==
    /\ \A p \in Publications : rows[p[2]].state = "COMPLETED"
    /\ \A p, q \in Publications : p[2] = q[2] => p = q

\* _emit_locked and _flush_locked: what the sink holds together with what is
\* pending says of every item of this process where the scheduler has it, also
\* across sink outages and raised scheduler calls.
RecordsMatchScheduler ==
    \A i \in ItemIds :
        /\ View[i] = "QUEUED" <=> i \in S!Queued(sched)
        /\ View[i] = "RUNNING" <=> /\ sched.running # S!Idle /\ ~sched.running.aborted
                                   /\ sched.running.version.item_id = i

\* submit and _emit_locked: the worker keeps the version of exactly the items
\* that are live, and it is the version the scheduler ranked.
VersionsMatchScheduler ==
    \A i \in ItemIds :
        mem.versions[i] =
          IF i \in S!Queued(sched) THEN sched.queue[i].version
          ELSE IF sched.running # S!Idle /\ ~sched.running.aborted
                  /\ sched.running.version.item_id = i THEN sched.running.version
          ELSE NoVersion

\* _fail_item_locked, _commit: every path out of an item frees the scheduler's
\* slot or remembers the item in _pending_fail, and nothing else is remembered;
\* so a raised scheduler call never blocks the worker for good.
SlotAccounted ==
    /\ mem.pending_fail # None =>
         sched.running # S!Idle /\ sched.running.version.item_id = mem.pending_fail
    /\ pc \in {"recover", "releasing", "loop", "next", "dispatch", "exited"} /\ sched.running # S!Idle =>
         mem.pending_fail # None

\* _attempts: every model call was recorded, and so paid for, before it began.
CallsCovered == \A i \in Ids : made[i] > 0 => rows[i] # L!NoRow /\ made[i] <= rows[i].attempt_count

\* _call, request_stop: a call that runs while a stop was requested has its
\* cancel signal, also when the stop came between the checks and the call.
StopCancelsCall == active # NoCall /\ mem.stop => active.cancel

\* What every step of every actor keeps (InferenceWorker): the scheduler, the
\* worker's versions and the sink tell one story, every slot is accounted for,
\* every call was paid for and has its cancel signal, and what is published
\* was committed, once.
WorkerInv ==
    /\ WorkerTypeOK /\ CallsCovered /\ StopCancelsCall /\ SlotAccounted
    /\ RecordsMatchScheduler /\ VersionsMatchScheduler /\ PublishedIsCommitted

\* watchdog_tick: "the worker refuses all further work": once termination was
\* asked for, a late reply is not published and no item or call starts.
NothingAfterTermination ==
    [][mem.restart_required /\ mem'.restart_required =>
         /\ sched'.running \in {sched.running, S!Idle}
            \/ sched'.running.aborted
         /\ made' = made
         /\ Publications' \subseteq Publications]_workerVars

\* _lease_seconds: "the lease outlives the opportunity deadline".  While the
\* clock is not set back, a worker that still can publish holds its lease.
HeldWhileUseful ==
    pc \in {"attempts", "record", "call", "calling", "commit", "complete"}
      /\ now < DispatchedDeadline => L!fence_applied(job.lease)

\* _commit: "Late result: never committed. The scheduler records ABORT_STALE".
LateNeverCompleted ==
    pc = "discard" /\ sched'.running = S!Idle =>
      View'[sched.running.version.item_id] # "COMPLETED"

\* request_stop: the worker thread ends, or its process is terminated, even if
\* a model call never returns.
StopEnds == mem.stop ~> pc = "exited" \/ ~mem.stop

\* A dispatched item leaves the only slot.
SlotFreed == sched.running # S!Idle ~> sched.running = S!Idle

\* While the clock is not set back (_lease_seconds, _commit): a worker that can
\* still publish holds its lease, and a late result is never completed.
InTime == [][HeldWhileUseful /\ LateNeverCompleted]_workerVars

\* A stop is obeyed and the slot is freed, whatever a call does (request_stop,
\* watchdog_tick).
WorkerProgress == StopEnds /\ SlotFreed
=============================================================================
