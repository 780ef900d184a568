----------------------------- MODULE QwenReview -----------------------------
(***************************************************************************)
(* The local review of finalists (qwen.py).  A call of review_finalists is *)
(* two threads: the caller, who waits until the batch's deadline, and the  *)
(* worker, who asks Ollama.  They share the process's one inference slot:  *)
(* a worker whose caller gave up keeps it until the transport returns.     *)
(* Time is the call's `late': its deadline has passed.                     *)
(***************************************************************************)
EXTENDS Integers, FiniteSets

CONSTANTS
    Calls,              \* calls that may be alive at once: the current one and abandoned ones
    MaxTries            \* QWEN_MAX_RETRIES_ON_INVALID + 1

ASSUME QwenAssumption == Calls \subseteq Nat \ {0} /\ IsFiniteSet(Calls) /\ MaxTries \in Nat \ {0}

VARIABLES
    slot,               \* _INFERENCE_SLOT: the call that holds it, 0 if free
    calls

qwenVars == <<slot, calls>>

NoCall == [caller |-> "none", worker |-> "none", late |-> FALSE, cancelled |-> FALSE,
           released |-> FALSE, tries |-> 0, last |-> "none", outcome |-> "none", result |-> "none"]

QwenInit == slot = 0 /\ calls = [c \in Calls |-> NoCall]

-----------------------------------------------------------------------------
\* Mutant: the slot is released although the worker has begun.
may_release_Always(call, only_unstarted) == ~call.released

\* release_slot, once per call; a failed start only takes back what no worker
\* has begun to use.
may_release(call, only_unstarted) ==
    ~call.released /\ (only_unstarted => call.worker = "created")

\* The caller has its result; a call whose worker has ended too is forgotten.
Settled(call) == IF call.caller = "none" /\ call.worker = "none" THEN NoCall ELSE call

\* review_finalists begins: without a profile, or with the slot held, nothing
\* is asked; otherwise the worker is created with a deadline.
review_Begins(c, profile) ==
    /\ calls[c] = NoCall
    /\ IF ~profile \/ slot # 0
       THEN calls' = [calls EXCEPT ![c] = [NoCall EXCEPT !.caller = "back", !.result = "UNAVAILABLE"]]
            /\ UNCHANGED slot
       ELSE calls' = [calls EXCEPT ![c] = [NoCall EXCEPT !.caller = "starting", !.worker = "created"]]
            /\ slot' = c

StartReturns(c) ==
    /\ calls[c].caller = "starting"
    /\ calls' = [calls EXCEPT ![c].caller = "waiting"] /\ UNCHANGED slot

\* The start or the wait raises (no thread left, an interrupt): the thread may
\* have begun all the same.
CallerRaises(c) ==
    /\ calls[c].caller \in {"starting", "waiting"}
    /\ LET back == calls[c].caller = "starting" /\ may_release(calls[c], TRUE)
       IN  /\ calls' = [calls EXCEPT ![c].caller = "back", ![c].cancelled = TRUE, ![c].result = "raised",
                                     ![c].released = @ \/ back]
           /\ slot' = IF back THEN 0 ELSE slot

\* work: a worker that finds the slot taken back ends at once.
WorkerStarts(c) ==
    /\ calls[c].worker = "created"
    /\ calls' = [calls EXCEPT ![c] = Settled([@ EXCEPT !.worker = IF calls[c].released THEN "none" ELSE "asking"])]
    /\ UNCHANGED slot

\* The worker ends with an outcome and gives the slot back.
WorkerEnds(c, call, outcome) ==
    LET back == may_release(call, FALSE)
    IN  /\ calls' = [calls EXCEPT ![c] = Settled([call EXCEPT !.worker = IF call.caller = "none" THEN "none" ELSE "done",
                                                              !.outcome = outcome, !.released = @ \/ back])]
        /\ slot' = IF back THEN 0 ELSE slot

GaveUp(call) == call.cancelled \/ call.late

\* The head of _review_until_deadline's loop, and its end.
WorkerAsks(c) ==
    LET call == calls[c]
    IN  /\ call.worker = "asking"
        /\ IF GaveUp(call) THEN WorkerEnds(c, call, "TIMEOUT")
           ELSE IF call.tries = MaxTries
                THEN WorkerEnds(c, call, IF call.last = "timeout" THEN "TIMEOUT" ELSE "UNAVAILABLE")
                ELSE calls' = [calls EXCEPT ![c].tries = @ + 1, ![c].worker = "posting"] /\ UNCHANGED slot

\* Ollama answers, or the transport fails, however late.  An answer is valid
\* when it is complete, is JSON and has exactly one well-formed review for
\* each finalist (_validate_reviews); an error outside the transport's own is
\* raised in the worker.
Answers == {"timeout", "error", "invalid", "valid", "raises"}
PostReturns(c, answer) ==
    LET call == calls[c]
        again == [call EXCEPT !.worker = "asking", !.last = answer]
    IN  /\ call.worker = "posting"
        /\ CASE answer = "raises" -> WorkerEnds(c, call, "raised")
             [] answer \in {"timeout", "error"} -> calls' = [calls EXCEPT ![c] = again] /\ UNCHANGED slot
             [] answer \in {"invalid", "valid"} /\ GaveUp(call) -> WorkerEnds(c, call, "TIMEOUT")
             [] answer = "invalid" /\ ~GaveUp(call) -> calls' = [calls EXCEPT ![c] = again] /\ UNCHANGED slot
             [] answer = "valid" /\ ~GaveUp(call) -> WorkerEnds(c, call, "OK")

\* done.wait returns, with the worker's outcome or without: after the deadline
\* the caller takes nothing.
returned(call) == IF call.late THEN "TIMEOUT" ELSE call.outcome

CallerReturns(c) ==
    LET call == calls[c]
    IN  /\ call.caller = "waiting" /\ (call.worker = "done" \/ call.late)
        /\ calls' = [calls EXCEPT ![c] = [call EXCEPT !.caller = "back", !.cancelled = call.late, !.result = returned(call)]]
        /\ UNCHANGED slot

DeadlinePasses(c) ==
    /\ calls[c].caller \in {"starting", "waiting"} /\ ~calls[c].late
    /\ calls' = [calls EXCEPT ![c].late = TRUE] /\ UNCHANGED slot

\* Whoever called takes the result.
ResultTaken(c) ==
    /\ calls[c].caller = "back" /\ UNCHANGED slot
    /\ calls' = [calls EXCEPT ![c] = IF @.worker \in {"done", "none"} THEN NoCall ELSE [@ EXCEPT !.caller = "none"]]

QwenNext == \E c \in Calls :
    \/ \E profile \in BOOLEAN : review_Begins(c, profile)
    \/ ResultTaken(c)
    \/ StartReturns(c) \/ CallerRaises(c) \/ WorkerStarts(c) \/ WorkerAsks(c) \/ CallerReturns(c) \/ DeadlinePasses(c)
    \/ \E answer \in Answers : PostReturns(c, answer)

QwenSpec == QwenInit /\ [][QwenNext]_qwenVars

-----------------------------------------------------------------------------
Busy == {c \in Calls : calls[c].worker \in {"asking", "posting"}}

\* One inference at a time, also when callers gave up, starts failed halfway and
\* late workers woke up; the slot is free again exactly when the last worker that
\* could still use it has ended, and no caller is handed an answer that came
\* after its deadline (_INFERENCE_SLOT, release_slot, work, _review_batch).
SlotInv ==
    /\ Cardinality(Busy) <= 1
    /\ \A c \in Busy : slot = c
    /\ slot # 0 => calls[slot].worker \in {"created", "asking", "posting"}
    /\ \A c \in Calls : calls[c].result \notin {"none", "raised", "UNAVAILABLE", "TIMEOUT"} => ~calls[c].late
=============================================================================
