------------------------------ MODULE BenchRun ------------------------------
(* The T051 benchmark: scripts/run_t051_block.py runs a fixed sequence of    *)
(* model calls in invocations that may stop anywhere and be started again.   *)
(* What is done is read back from one append-only file of JSON lines.  The   *)
(* runner shares the Ollama server with other programs, which load models    *)
(* and install new weights.  The file is what survives a crash; a crash in a *)
(* write leaves part of a line, or a line without its newline.               *)
EXTENDS Naturals, Sequences, SequencesExt, FiniteSetsExt

CONSTANTS
    BASELINE_MODEL, OtherModels, OPTIONAL_MODEL,  \* OtherModels is a sequence
    Stranger,           \* a model of another program
    Development,        \* cases in the order of their hash: [id, category, labelled]
    Holdout,
    PROBE_CASES, COLD_LOADS, WARM_RUNS, STABILITY_CASES, STABILITY_REPEATS,
    Replies(_),         \* what a call of a block can come to
    P95_LIMIT_SECONDS,
    Missing,            \* sets of models that may not be installed at first
    MaxStarts, MaxFaults

PROBE_MODELS == <<BASELINE_MODEL>> \o OtherModels
BENCHMARK_MODELS == Append(PROBE_MODELS, OPTIONAL_MODEL)
NotInstalled == 0

VARIABLES
    results,       \* the results file: see below
    freeze,     \* [committed, current]: the freeze file and what the code hashes to; 0: no file
    server,     \* [loaded, digest]: models in memory, and the weights of each installed model
    runner,     \* the invocation in progress
    starts, faults
benchVars == <<results, freeze, server, runner, starts, faults>>

Gone == [at |-> "out", include_optional |-> FALSE, digests |-> <<>>, installed |-> <<>>,
         k |-> 0, loaded |-> {}, step |-> <<>>, reply |-> <<>>]

-----------------------------------------------------------------------------
(* The fixed lists.  Case ids are numbers, so the order of a list is theirs. *)
case_ids(cases) == {c.id : c \in Range(cases)}
Sorted(S) == SetToSortSeq(S, <)
Labelled(cases) == SelectSeq(cases, LAMBDA c : c.labelled)

stratified(cases, total) ==
    LET categories == Sorted({c.category : c \in Range(cases)})
        want(i) == (total \div Len(categories)) + (IF i <= total % Len(categories) THEN 1 ELSE 0)
        pool(i) == SelectSeq(cases, LAMBDA c : c.category = categories[i])
    IN Sorted(UNION {case_ids(SubSeq(pool(i), 1, want(i))) : i \in DOMAIN categories})

Between(cases, low, high) == [i \in 1..(high - low) |-> cases[low + i].id]

Lists ==
    [probe |-> stratified(Labelled(Development), PROBE_CASES),
     warmup |-> Between(Development, 0, 1),
     cold |-> Between(Development, 1, 1 + COLD_LOADS),
     warm |-> Between(Development, 1 + COLD_LOADS, 1 + COLD_LOADS + WARM_RUNS),
     holdout |-> Sorted(case_ids(Labelled(Holdout))),
     stability |-> stratified(Labelled(Holdout), STABILITY_CASES),
     sealed |-> case_ids(Holdout) \ case_ids(Labelled(Holdout))]

Step(block, model, case, repetition) ==
    [block |-> block, model |-> model, case |-> case, repetition |-> repetition]
Steps(block, model, cases, repetition) ==
    [i \in DOMAIN cases |-> Step(block, model, cases[i], repetition)]
probe_steps(model) == Steps("probe", model, Lists.probe, 1)
candidate_steps(model) ==
    Steps("cold", model, Lists.cold, 1) \o Steps("warm", model, Lists.warm, 1)
    \o Steps("holdout", model, Lists.holdout, 1)
    \o FlattenSeq([r \in 1..STABILITY_REPEATS |-> Steps("stability", model, Lists.stability, r)])

-----------------------------------------------------------------------------
(* The results file is kept as what parse_results and done_keys make of it:  *)
(* the calls, the last preflight of each model, the freezes they name, how   *)
(* its last line ends, and whether it is refused.  The last line is whole,   *)
(* or a record without its newline ("unended"), or part of one ("torn"), or  *)
(* part of one with a newline but no marker yet ("ended").  other_weights    *)
(* counts the calls after which other weights than the preflight's were seen.*)
EmptyFile == [calls |-> {}, preflight |-> <<>>, under |-> {}, tail |-> "whole",
              corrupt |-> FALSE, other_weights |-> 0]
Marker == [type |-> "truncated_tail"]
Summary == [type |-> "invocation"]
PreflightLine(model, digest) == [type |-> "preflight", model |-> model, digest |-> digest]

(* A whole line at the end of the file.  A key seen twice is refused, and so *)
(* is a line that joins, or comes after, a bad line no marker names.         *)
parse_results(line) ==
    LET joined == results.tail # "whole" /\ line.type # "truncated_tail"
    IN CASE joined -> [results EXCEPT !.corrupt = TRUE]
         [] ~joined /\ line.type = "call" ->
              [results EXCEPT !.calls = @ \cup {[key |-> line.key, outcome |-> line.outcome,
                                              seconds |-> line.seconds, memory |-> line.memory]},
                           !.corrupt = @ \/ \E c \in results.calls : c.key = line.key,
                           !.under = @ \cup {freeze.current},
                           !.other_weights = IF line.other_weights THEN @ + 1 ELSE @]
         [] ~joined /\ line.type = "preflight" ->
              [results EXCEPT !.preflight = [m \in DOMAIN @ \cup {line.model} |->
                                            IF m = line.model THEN line.digest ELSE @[m]],
                           !.under = @ \cup {freeze.current}]
         [] OTHER -> [results EXCEPT !.tail = "whole"]
(* Part of a line: after a bad line that has no marker it is a second one.   *)
TornLine == [results EXCEPT !.tail = "torn", !.corrupt = @ \/ results.tail # "whole"]
NewlineAtEnd ==
    [results EXCEPT !.tail = CASE @ = "unended" -> "whole" [] @ = "torn" -> "ended" [] OTHER -> @,
                 !.corrupt = @ \/ results.tail = "ended"]       \* an empty line

call_key(step, digest) == <<step.block, step.model, digest, step.case, step.repetition>>
done_keys == {c.key : c \in results.calls}
probe_observations(model, digests) ==
    {l \in results.calls : l.key[1] = "probe" /\ l.key[2] = model /\ l.key[3] = digests[model]}

next_warmup_repetition(model, digest) ==
    1 + Max({0} \cup {key[5] : key \in {k \in done_keys :
                                          k[1] = "warmup" /\ k[2] = model /\ k[3] = digest}})

-----------------------------------------------------------------------------
(* One case through every gate of the harness.  A reply says what each gate  *)
(* would find: the memory left after the call, the failure of the call, and  *)
(* the text.                                                                 *)
failure_outcome(failure) ==
    CASE failure \in {"timeout", "late"} -> "timeout"
      [] failure = "malformed" -> "schema_invalid"
      [] OTHER -> "inference_failed"

evaluate_case(reply) ==
    CASE reply.bound > reply.budget -> "context_unfit"
      [] reply.resources # "fine" -> reply.resources
      [] reply.failure # "none" -> failure_outcome(reply.failure)
      [] reply.tokens > reply.cap -> "output_cap_exceeded"
      [] reply.scan > reply.scan_budget -> "response_budget_exceeded"
      [] reply.invades -> "risk_authority_rejected"
      [] ~reply.parses -> "schema_invalid"
      [] ~reply.cited \subseteq reply.evidence -> "citation_out_of_scope"
      [] OTHER -> "accepted"
schema_valid(outcome) == outcome \in {"citation_out_of_scope", "accepted"}

(* The selection.  A latency or a memory of 0 was not measured.  The p95 of  *)
(* fewer than 20 probes is taken as their slowest.                           *)
probe_stats(model, seen) ==
    LET times == {l.seconds : l \in seen}
        outcomes == {l.outcome : l \in seen}
    IN [model |-> model,
        valid |-> Cardinality({l \in seen : schema_valid(l.outcome)}),
        p95 |-> IF 0 \in times THEN 0 ELSE Max({0} \cup times),
        memory |-> IF 0 \in {l.memory : l \in seen} THEN 0 ELSE Max({0} \cup {l.memory : l \in seen}),
        passes |-> /\ outcomes \cap {"oom", "resource_reserve_breached", "resources_unreported"} = {}
                   /\ times # {} /\ 0 \notin times /\ Max(times) <= P95_LIMIT_SECONDS]

RanksBefore(a, b) ==
    \/ a.valid > b.valid
    \/ a.valid = b.valid /\ a.p95 < b.p95
    \/ a.valid = b.valid /\ a.p95 = b.p95 /\ a.memory # b.memory
       /\ a.memory # 0 /\ (b.memory = 0 \/ a.memory < b.memory)
    \/ a.valid = b.valid /\ a.p95 = b.p95 /\ a.memory = b.memory
       /\ \E i, j \in DOMAIN OtherModels : i < j /\ OtherModels[i] = a.model /\ OtherModels[j] = b.model

select_candidates(digests) ==
    LET stats == {probe_stats(m, probe_observations(m, digests)) : m \in DOMAIN digests \cap Range(OtherModels)}
        others == {s \in stats : s.passes}
        best == {s \in others : \A t \in others \ {s} : RanksBefore(s, t)}
    IN <<BASELINE_MODEL>> \o SetToSeq({s.model : s \in best})

-----------------------------------------------------------------------------
(* Every step of the sequence not yet done, as far as the sequence is known: *)
(* candidates once every installed probe model has been probed, the optional *)
(* model once all of that is done.                                           *)
FlatMap(op(_), models) == FlattenSeq([i \in DOMAIN models |-> op(models[i])])
Undone(steps, digests) ==
    SelectSeq(steps, LAMBDA s : call_key(s, digests[s.model]) \notin done_keys)

(* Mutant: the candidates are measured before the probes.                    *)
plan_ProbesLast(digests, include_optional) ==
    LET installed == SelectSeq(PROBE_MODELS, LAMBDA m : m \in DOMAIN digests)
    IN Undone(FlatMap(candidate_steps, select_candidates(digests)) \o FlatMap(probe_steps, installed), digests)

plan(digests, include_optional) ==
    LET installed == SelectSeq(PROBE_MODELS, LAMBDA m : m \in DOMAIN digests)
        probes == Undone(FlatMap(probe_steps, installed), digests)
        mandatory == IF probes # <<>> THEN probes
                     ELSE Undone(FlatMap(candidate_steps, select_candidates(digests)), digests)
        own_probe == Undone(probe_steps(OPTIONAL_MODEL), digests)
    IN CASE mandatory # <<>> -> mandatory
         [] ~include_optional \/ OPTIONAL_MODEL \notin DOMAIN digests -> <<>>
         [] own_probe # <<>> -> own_probe
         [] probe_stats(OPTIONAL_MODEL, probe_observations(OPTIONAL_MODEL, digests)).passes ->
              Undone(candidate_steps(OPTIONAL_MODEL), digests)
         [] OTHER -> <<>>

-----------------------------------------------------------------------------
(* Writing.  Where a write is cut, the process dies with it.                 *)
Fault == faults < MaxFaults /\ faults' = faults + 1
Written(line, next) ==
    \/ results' = parse_results(line) /\ runner' = next /\ UNCHANGED faults
    \/ /\ Fault
       /\ results' \in {TornLine, [parse_results(line) EXCEPT !.tail = "unended"]}
       /\ runner' = Gone
Calm == UNCHANGED <<freeze, starts>>
Turn(next) == runner' = next /\ UNCHANGED <<results, faults>>
Go(place) == [runner EXCEPT !.at = place]

(* run_invocation: the arguments are right; load reads the corpus, compares  *)
(* the freeze, reads the file and repairs its tail.  A stop before the       *)
(* freeze is known leaves no summary.                                        *)
run_invocation(include_optional) ==
    /\ runner.at = "out"
    /\ starts < MaxStarts
    /\ starts' = starts + 1
    /\ runner' = [Gone EXCEPT !.at = "load", !.include_optional = include_optional]
    /\ UNCHANGED <<results, freeze, server, faults>>

load ==
    /\ runner.at = "load"
    /\ IF freeze.committed # freeze.current THEN Turn(Gone)
       ELSE IF results.corrupt \/ results.under \ {freeze.current} # {} THEN Turn(Go("summary"))
       ELSE /\ results' = (IF results.tail = "whole" THEN results ELSE NewlineAtEnd)
            /\ runner' = Go(IF results.tail \in {"torn", "ended"} THEN "marker" ELSE "tags")
            /\ UNCHANGED faults
    /\ Calm /\ UNCHANGED server

(* close_truncated_tail: the newline is written, now the marker.             *)
close_truncated_tail ==
    /\ runner.at = "marker"
    /\ Written(Marker, Go("tags"))
    /\ Calm /\ UNCHANGED server

(* preflight: nothing may be loaded; each model is compared with its record, *)
(* or gets one.                                                              *)
Checked == IF runner.include_optional THEN Range(BENCHMARK_MODELS) ELSE Range(PROBE_MODELS)
filed_digest(model) == IF model \in DOMAIN results.preflight THEN {results.preflight[model]} ELSE {}

ps == server.loaded
tags ==
    /\ runner.at = "tags"
    /\ \/ Turn(Go("summary"))
       \/ ps = {} /\ Turn([runner EXCEPT !.at = "preflight", !.installed = server.digest, !.k = 1])
    /\ Calm /\ UNCHANGED server

Noted(model, digest) ==
    [runner EXCEPT !.k = @ + 1,
       !.digests = IF digest = NotInstalled THEN @
                   ELSE [m \in DOMAIN @ \cup {model} |-> IF m = model THEN digest ELSE @[m]]]

preflight ==
    /\ runner.at = "preflight"
    /\ IF runner.k > Len(BENCHMARK_MODELS)
       THEN Turn(Go(IF BASELINE_MODEL \in DOMAIN runner.digests THEN "plan" ELSE "summary"))
       ELSE LET model == BENCHMARK_MODELS[runner.k]
                digest == runner.installed[model]
            IN IF filed_digest(model) # {}
               THEN Turn(IF model \in Checked /\ filed_digest(model) # {digest}
                         THEN Go("summary") ELSE Noted(model, digest))
               ELSE \/ Written(PreflightLine(model, digest), Noted(model, digest))
                    \/ digest # NotInstalled /\ Turn(Go("summary"))   \* show failed
    /\ Calm /\ UNCHANGED server

(* Unloading the model the runner loaded: confirmed, or the end of the       *)
(* invocation.                                                               *)
unload(models) == server' = [server EXCEPT !.loaded = @ \ models]
unload_current(next, refused) ==
    \/ /\ unload(runner.loaded)
       /\ Turn([next EXCEPT !.loaded = {}])
    \/ /\ runner.loaded # {}
       /\ \E dropped \in {{}, runner.loaded} : unload(dropped)
       /\ Fault /\ UNCHANGED results /\ runner' = refused

(* run_sequence: the first undone step; the budget may end the invocation.   *)
WARM_BLOCKS == {"probe", "warm", "holdout", "stability"}
warmup_for(s, loaded) == s.block \in WARM_BLOCKS /\ loaded # {s.model}
WarmupStep(s) ==
    Step("warmup", s.model, Lists.warmup[1], next_warmup_repetition(s.model, runner.digests[s.model]))

run_sequence ==
    /\ runner.at = "plan"
    /\ LET todo == plan(runner.digests, runner.include_optional)
       IN \/ Turn(Go("unload")) /\ UNCHANGED server        \* complete, or the budget
          \/ /\ todo # <<>>
             /\ LET s == Head(todo)
                    send == [runner EXCEPT !.at = "check",
                               !.step = IF warmup_for(s, runner.loaded) THEN WarmupStep(s) ELSE s]
                IN IF runner.loaded \in {{}, {s.model}}
                   THEN Turn(send) /\ UNCHANGED server
                   ELSE unload_current(runner, Go("unload"))
    /\ Calm

(* call: never a sealed case; a cold call starts from an empty server, any   *)
(* other from a server that holds nothing but the model of this invocation.  *)
ensure_only ==
    /\ runner.at = "check"
    /\ runner.step.case \notin Lists.sealed
    /\ IF runner.step.block = "cold" /\ runner.loaded # {}
       THEN unload_current(runner, Go("unload"))
       ELSE /\ \/ ps \subseteq runner.loaded /\ Turn(Go("send"))
               \/ Turn(Go("unload"))
            /\ UNCHANGED server
    /\ Calm

(* At most one call.  The server loads the model unless it cannot be         *)
(* reached; the runner takes it as loaded either way.                        *)
Sent(reply) == reply.bound <= reply.budget
infer ==
    /\ runner.at = "send"
    /\ LET model == runner.step.model
           weights == server.digest[model]
       IN \E reply \in Replies(runner.step.block) :
            /\ server' = [server EXCEPT !.loaded =
                 IF Sent(reply) /\ reply.failure # "unavailable" THEN @ \cup {model} ELSE @]
            /\ Turn([runner EXCEPT !.at = "record", !.reply = <<reply, weights>>,
                      !.loaded = IF Sent(reply) THEN {model} ELSE @])
    /\ Calm

CallLine(seen) ==
    LET reply == runner.reply[1]
        outcome == evaluate_case(reply)
        probe == runner.step.block = "probe"
    IN [type |-> "call", key |-> call_key(runner.step, runner.digests[runner.step.model]),
        outcome |-> IF probe THEN outcome ELSE "kept",
        seconds |-> IF probe THEN reply.seconds ELSE 0,
        memory |-> IF probe /\ seen THEN reply.memory ELSE 0,
        other_weights |-> seen /\ runner.reply[2] # runner.digests[runner.step.model]]

(* The record is written whatever came back, and then the weights that were  *)
(* seen in memory must be those of the preflight.                            *)
After == IF runner.step.block = "warmup" THEN "again" ELSE "plan"
Seen == runner.step.model \in ps
record ==
    /\ runner.at = "record"
    /\ \/ Written(CallLine(Seen),
                  Go(IF Seen /\ runner.reply[2] # runner.digests[runner.step.model] THEN "unload" ELSE After))
       \/ Fault /\ results' = parse_results(CallLine(FALSE)) /\ runner' = Go(After)     \* /api/ps failed
    /\ Calm /\ UNCHANGED server

(* After a warm-up call its step follows, with no new look at the budget.    *)
after_warmup ==
    /\ runner.at = "again"
    /\ Turn([runner EXCEPT !.at = "check", !.step = Head(plan(runner.digests, runner.include_optional))])
    /\ Calm /\ UNCHANGED server

(* The end of every invocation that reached the server: its model is         *)
(* unloaded, confirmed or not, and a summary is appended.                    *)
unload_at_end == runner.at = "unload" /\ unload_current(Go("summary"), Go("summary")) /\ Calm
summary == runner.at = "summary" /\ Written(Summary, Gone) /\ Calm /\ UNCHANGED server

-----------------------------------------------------------------------------
(* The world: a process that dies between two steps, another program that    *)
(* loads a model, a model that leaves the memory, new weights of a model,    *)
(* code that changes, a freeze that is removed and committed again.          *)
Crash ==
    /\ runner.at # "out" /\ Fault
    /\ runner' = Gone
    /\ UNCHANGED <<results, freeze, server, starts>>
OtherProgram ==
    /\ Fault
    /\ \E m \in {Stranger, BASELINE_MODEL} \ server.loaded : server' = [server EXCEPT !.loaded = @ \cup {m}]
    /\ UNCHANGED <<results, freeze, runner, starts>>
Expire ==
    /\ runner.at = "out"
    /\ \E m \in server.loaded : server' = [server EXCEPT !.loaded = @ \ {m}]
    /\ UNCHANGED <<results, freeze, runner, starts, faults>>
Pull ==
    /\ Fault
    /\ \E m \in Range(BENCHMARK_MODELS) :
         server.digest[m] # 2 /\ server' = [server EXCEPT !.digest[m] = 2]
    /\ UNCHANGED <<results, freeze, runner, starts>>
CodeChanges ==
    /\ runner.at = "out" /\ Fault
    /\ freeze' = [freeze EXCEPT !.current = 3 - @]
    /\ UNCHANGED <<results, server, runner, starts>>
FreezeRemoved ==
    /\ runner.at = "out" /\ Fault
    /\ freeze' = [freeze EXCEPT !.committed = 0]
    /\ UNCHANGED <<results, server, runner, starts>>
write_freeze ==     \* a committed freeze is never replaced
    /\ runner.at = "out" /\ freeze.committed = 0
    /\ freeze' = [freeze EXCEPT !.committed = freeze.current]
    /\ UNCHANGED <<results, server, runner, starts, faults>>

BenchInit ==
    /\ results = EmptyFile
    /\ freeze = [committed |-> 1, current |-> 1]
    /\ \E missing \in Missing :
         server = [loaded |-> {}, digest |-> [m \in Range(BENCHMARK_MODELS) |-> IF m \in missing THEN NotInstalled ELSE 1]]
    /\ runner = Gone
    /\ starts = 0 /\ faults = 0

BenchNext ==
    \/ \E o \in BOOLEAN : run_invocation(o)
    \/ load \/ close_truncated_tail \/ tags \/ preflight \/ run_sequence \/ ensure_only
    \/ infer \/ record \/ after_warmup \/ unload_at_end \/ summary
    \/ Crash \/ OtherProgram \/ Expire \/ Pull \/ CodeChanges \/ FreezeRemoved \/ write_freeze

BenchSpec == BenchInit /\ [][BenchNext]_benchVars

-----------------------------------------------------------------------------
(* The weights of each model as the file has them.                           *)
Filed == [m \in {p \in Range(BENCHMARK_MODELS) : filed_digest(p) \notin {{}, {NotInstalled}}} |->
            CHOOSE d \in filed_digest(m) : TRUE]

(* However often the runner was stopped and started again, no sealed case    *)
(* was sent and all calls are under one freeze; a file that was never cut is *)
(* never refused, so no step is in it twice.                                 *)
EachStepOnce ==
    /\ faults = 0 => ~results.corrupt
    /\ \A c, d \in results.calls : c.key = d.key => c = d
    /\ \A c \in results.calls : c.key[4] \notin Lists.sealed
    /\ Cardinality(results.under) <= 1

(* A candidate that was measured is one the probes in the file select: the   *)
(* selection does not move after the first candidate call.                   *)
SelectionHeld ==
    \A c \in results.calls :
      (c.key[1] \notin {"probe", "warmup"} /\ c.key[2] # OPTIONAL_MODEL) =>
         /\ c.key[2] \in Range(select_candidates(Filed))
         /\ \A m \in Range(PROBE_MODELS) \cap DOMAIN Filed :
              \A s \in Range(probe_steps(m)) : call_key(s, Filed[m]) \in done_keys

(* Each time weights are changed, at most one call made with them, and seen  *)
(* to be, is filed under the weights of the preflight.                       *)
OtherWeightsStop == results.other_weights <= faults

(* After any sequence of crashes, resumed invocations, other programs on the *)
(* server and pulled weights, the results file holds each planned call once  *)
(* and no sealed case (load, close_truncated_tail, done keys), the           *)
(* candidates measured are the ones its own probes select                    *)
(* (select_candidates), and calls made with other weights stop at the first  *)
(* (ensure_only, record).                                                    *)
BenchInv == EachStepOnce /\ SelectionHeld /\ OtherWeightsStop
=============================================================================
