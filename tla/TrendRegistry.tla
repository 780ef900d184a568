--------------------------- MODULE TrendRegistry ---------------------------
(***************************************************************************)
(* The pre-registration registry of the trend research                     *)
(* (radar_v08/domain/trend_registry.py, adapters/trend_registry_store.py): *)
(* a hash-chained log under an exclusive lock FILE.  The policy (a name    *)
(* and a source once, one holdout per name) is checked on a reading made   *)
(* before the lock; under the lock only the chain is.                      *)
(***************************************************************************)
EXTENDS Integers, Sequences, FiniteSets, SequencesExt

CONSTANTS
    RegNames, RegHashes,      \* rule names, hashes of their sources
    Researchers,              \* processes
    MaxEvents, MaxRegFaults   \* bounds

ASSUME RegistryAssumption == IsFiniteSet(Researchers)

VARIABLES
    registry,                 \* [lines, torn]: parsed lines, a cut-off last line
    reglock,                  \* the lock file exists
    research,                 \* by process: place and the payload built
    holdouts,                 \* history: computations of the holdout, by name
    regfaults                 \* bound

gvars == <<registry, reglock, research, holdouts, regfaults>>

RegIdle == [pc |-> "idle", payload |-> <<>>, seen |-> 0]
Ev(kind, n, h) == <<kind, n, h>>

(* parse_registry: a torn last line, or a line that does not chain (here:  *)
(* written after another length than its own position), is refused.        *)
parse_registry(r) == ~r.torn /\ \A k \in DOMAIN r.lines : r.lines[k].seq = k - 1
Registered(n) == {k \in DOMAIN registry.lines :
                     registry.lines[k].event[1] = "register" /\ registry.lines[k].event[2] = n}
holdout_used(n) == \E k \in DOMAIN registry.lines :
                       registry.lines[k].event[1] = "holdout" /\ registry.lines[k].event[2] = n

registration_payload(n, h) ==
    \A k \in DOMAIN registry.lines : registry.lines[k].event[1] = "register" =>
        registry.lines[k].event[2] # n /\ registry.lines[k].event[3] # h
verify_source(n, h) ==
    \E k \in Registered(n) : registry.lines[k].event[3] = h /\ \A j \in Registered(n) : k <= j
holdout_payload(n, h) == verify_source(n, h) /\ ~holdout_used(n)

RegistryInit ==
    /\ registry = [lines |-> <<>>, torn |-> FALSE]
    /\ reglock = FALSE
    /\ research = [p \in Researchers |-> RegIdle]
    /\ holdouts = [n \in RegNames |-> 0]
    /\ regfaults = 0

Prepare(p, event) ==
    /\ research' = [research EXCEPT ![p] = [pc |-> "payload", payload |-> event, seen |-> 0]]
    /\ UNCHANGED <<registry, reglock, holdouts, regfaults>>

register(p, n, h) ==
    /\ research[p].pc = "idle" /\ parse_registry(registry)
    /\ registration_payload(n, h)
    /\ Prepare(p, Ev("register", n, h))

begin_holdout(p, n, h) ==
    /\ research[p].pc = "idle" /\ parse_registry(registry)
    /\ holdout_payload(n, h)
    /\ Prepare(p, Ev("holdout", n, h))

(* Mutant: an existing lock file stops nobody.                               *)
LockRegistry_IfExists(p) ==
    /\ research[p].pc = "payload"
    /\ Len(registry.lines) < MaxEvents
    /\ reglock' = parse_registry(registry)
    /\ research' = [research EXCEPT ![p] = IF parse_registry(registry)
                        THEN [@ EXCEPT !.pc = "append", !.seen = Len(registry.lines)]
                        ELSE RegIdle]
    /\ UNCHANGED <<registry, holdouts, regfaults>>

(* append_event: BUSY while the lock file exists; the registry is read      *)
(* again and verified, the new line chains to that reading.                 *)
LockRegistry(p) ==
    /\ research[p].pc = "payload" /\ ~reglock
    /\ Len(registry.lines) < MaxEvents
    /\ reglock' = parse_registry(registry)
    /\ research' = [research EXCEPT ![p] = IF parse_registry(registry)
                        THEN [@ EXCEPT !.pc = "append", !.seen = Len(registry.lines)]
                        ELSE RegIdle]
    /\ UNCHANGED <<registry, holdouts, regfaults>>

Busy(p) ==
    /\ research[p].pc = "payload" /\ reglock
    /\ research' = [research EXCEPT ![p] = RegIdle]
    /\ UNCHANGED <<registry, reglock, holdouts, regfaults>>

append_event(p) ==
    LET event == research[p].payload
        unchanged == Len(registry.lines) = research[p].seen /\ ~registry.torn
    IN  /\ research[p].pc = "append"
        /\ reglock' = FALSE
        /\ registry' = IF unchanged
                       THEN [registry EXCEPT !.lines = Append(@, [seq |-> research[p].seen, event |-> event])]
                       ELSE registry
        /\ research' = [research EXCEPT ![p] =
                           IF unchanged /\ event[1] = "holdout" THEN [@ EXCEPT !.pc = "compute"] ELSE RegIdle]
        /\ UNCHANGED <<holdouts, regfaults>>

(* run_holdout: record, then compute; a computation that raises, or a       *)
(* crash, leaves the holdout consumed.                                      *)
run_holdout(p) ==
    /\ research[p].pc = "compute"
    /\ holdouts' = [holdouts EXCEPT ![research[p].payload[2]] = @ + 1]
    /\ research' = [research EXCEPT ![p] = RegIdle]
    /\ UNCHANGED <<registry, reglock, regfaults>>

(* The write fails or the process dies in it: part of the line may stay.    *)
(* A failed write removes the lock file, a crash does not.                  *)
AppendFails(p, crash) ==
    /\ regfaults < MaxRegFaults /\ regfaults' = regfaults + 1
    /\ research[p].pc \in {"append", "compute"}
    /\ \E torn \in BOOLEAN : registry' = IF research[p].pc = "append"
                                         THEN [registry EXCEPT !.torn = torn] ELSE registry
    /\ reglock' = IF research[p].pc = "append" THEN crash ELSE reglock
    /\ research' = [research EXCEPT ![p] = RegIdle]
    /\ UNCHANGED holdouts

(* "a lock left by a crash must be removed by hand after checking the       *)
(* registry": the user removes the cut-off line too.                        *)
RepairByHand ==
    /\ reglock \/ registry.torn
    /\ \A p \in Researchers : research[p].pc # "append"
    /\ reglock' = FALSE /\ registry' = [registry EXCEPT !.torn = FALSE]
    /\ UNCHANGED <<research, holdouts, regfaults>>

RegistryNext ==
    \/ \E p \in Researchers :
          \/ \E n \in RegNames, h \in RegHashes : register(p, n, h) \/ begin_holdout(p, n, h)
          \/ LockRegistry(p) \/ Busy(p) \/ append_event(p) \/ run_holdout(p)
          \/ \E crash \in BOOLEAN : AppendFails(p, crash)
    \/ RepairByHand

RegistrySpec == RegistryInit /\ [][RegistryNext]_gvars

-----------------------------------------------------------------------------
Line(k) == registry.lines[k].event
RecordedHoldouts(n) == {k \in DOMAIN registry.lines : Line(k)[1] = "holdout" /\ Line(k)[2] = n}
Computing(n) == {p \in Researchers : research[p].pc = "compute" /\ research[p].payload[2] = n}

Chained == \A k \in DOMAIN registry.lines : registry.lines[k].seq = k - 1
OneWriter ==
    \A p \in Researchers : research[p].pc = "append" =>
        /\ reglock /\ research[p].seen = Len(registry.lines)
        /\ \A q \in Researchers \ {p} : research[q].pc # "append"
RegisteredFirst ==
    \A n \in RegNames : \A k \in RecordedHoldouts(n) :
        \E j \in 1..(k - 1) : Line(j) = Ev("register", n, Line(k)[3])
ComputedOnRecord ==
    \A n \in RegNames : holdouts[n] + Cardinality(Computing(n)) <= Cardinality(RecordedHoldouts(n))

(* One writer inside the lock; every line chains to the one before it; a    *)
(* holdout on record follows a registration of its name with the very       *)
(* source it ran; and no holdout is computed that is not on record, however *)
(* writes fail and processes die (append_event, run_holdout).               *)
RegistryInv ==
    /\ registry.torn \in BOOLEAN /\ reglock \in BOOLEAN
    /\ Chained /\ OneWriter /\ RegisteredFirst /\ ComputedOnRecord

(* "the single allowed holdout evaluation of a name": what the module says  *)
(* of a holdout event (holdout_payload before append_event's lock).         *)
HoldoutOnce == \A n \in RegNames : holdouts[n] <= 1
=============================================================================
