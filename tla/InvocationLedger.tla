-------------------------- MODULE InvocationLedger --------------------------
(***************************************************************************)
(* The invocation ledger: radar_v08/adapters/invocation_store.py over the  *)
(* pure rules of radar_v08/domain/invocation.py.                           *)
(*                                                                         *)
(* Every operation of the store is one BEGIN IMMEDIATE transaction, so one *)
(* operation is one action.  A transaction that stays busy or fails is     *)
(* rolled back and raises: it changes nothing and is a stuttering step.    *)
(* Callers live in several processes; a lease that was handed out may be   *)
(* presented at any later time, by a holder that stalled or was restarted, *)
(* so `leases' only grows.  `now' is the wall clock the callers pass; it   *)
(* may jump forward and, with ClockStepsBack, be set back.                 *)
(***************************************************************************)
EXTENDS Integers, FiniteSets, Functions

CONSTANTS
    Ids,            \* invocation ids that new_id may return
    Identities,     \* the OC-1 identity tuples
    Models,
    Owners,         \* lease owner names
    Times,          \* the instants of the clock
    HourLength,     \* instants per UTC hour
    DayLength,      \* instants per UTC day
    HourlyLimit,    \* [Models -> Nat]
    DailyLimit,     \* [Models -> Nat]
    LeaseSeconds,   \* the lease lengths callers ask for
    ClockStepsBack, \* whether the wall clock may be set back
    RecoverLimit,   \* rows one recover_expired call takes over
    MaxDemand,      \* bound: requests observed per model and window
    MaxAttempts,    \* bound: attempts recorded per invocation
    MaxGeneration   \* bound: recoveries of one invocation

ASSUME LedgerAssumption ==
    /\ Times \subseteq Nat
    /\ HourLength \in Nat \ {0} /\ DayLength \in Nat \ {0}
    /\ HourlyLimit \in [Models -> Nat] /\ DailyLimit \in [Models -> Nat]
    /\ LeaseSeconds \subseteq Nat \ {0} /\ RecoverLimit \in Nat \ {0}

\* A UTC day is a whole number of hours.  The ids (uuid4), the configured
\* models and the instants a datetime can hold are finite in number.
ASSUME TablesAssumption ==
    /\ DayLength % HourLength = 0
    /\ IsFiniteSet(Ids) /\ IsFiniteSet(Models) /\ IsFiniteSet(Times)

VARIABLES
    rows,           \* model_invocations, by invocation id
    reserved,       \* invocation_budgets.reserved, by model and window
    observed,       \* invocation_demand.observed
    refused,        \* invocation_demand.refused
    leases,         \* every Lease object ever returned to a caller
    now,
    calls,          \* history: genuine attempts, by model and window of the attempt
    acted           \* history: generation of the last holder action applied to a row

vars == <<rows, reserved, observed, refused, leases, now, calls, acted>>

-----------------------------------------------------------------------------
(* Budget windows and counters.                                            *)

budget_windows(t) == {<<"hour", t \div HourLength>>, <<"day", t \div DayLength>>}

Windows == UNION {budget_windows(t) : t \in Times}

Limit(m, w) == IF w[1] = "hour" THEN HourlyLimit[m] ELSE DailyLimit[m]

\* One more unit in each of the windows ws of model m.
Count(table, m, ws) ==
    [table EXCEPT ![m] = [w \in Windows |-> IF w \in ws THEN table[m][w] + 1 ELSE table[m][w]]]

\* Mutant: a limit is only a limit once it has been passed.
Refusal_OffByOne(m) == \E w \in budget_windows(now) : reserved[m][w] > Limit(m, w)

\* refusal_reason(usage) is not None: a window of `now' has no unit left.
Refusal(m) == \E w \in budget_windows(now) : reserved[m][w] >= Limit(m, w)

reserve(m) == reserved' = Count(reserved, m, budget_windows(now))

-----------------------------------------------------------------------------
(* Rows and leases.                                                        *)

Row == [identity : Identities, model : Models,
        state : {"CLAIMED", "COMPLETED", "RELEASED"},
        generation : Nat \ {0}, lease_owner : Owners, lease_expires_at : Nat,
        demand_count : Nat, attempt_count : Nat]

NoRow == [state |-> "ABSENT"]

Lease == [invocation_id : Ids, generation : Nat \ {0}, owner : Owners]

Active(i) == rows[i].state = "CLAIMED"

\* Mutant: the lease length is taken off.
lease_expiry_Backwards(seconds) == now - seconds

lease_expiry(seconds) == now + seconds

\* Mutant: the generation and the owner are not compared.
fence_applied_NoFence(l) ==
    Active(l.invocation_id) /\ now < rows[l.invocation_id].lease_expires_at

\* fence_status(record, lease, now) is APPLIED.  The other statuses (missing
\* row, ended, fenced, expired) all change nothing and need not be told apart.
fence_applied(l) ==
    LET record == rows[l.invocation_id]
    IN  /\ record.state = "CLAIMED"
        /\ record.generation = l.generation /\ record.lease_owner = l.owner
        /\ now < record.lease_expires_at

Init ==
    /\ rows = [i \in Ids |-> NoRow]
    /\ reserved = [m \in Models |-> [w \in Windows |-> 0]]
    /\ observed = [m \in Models |-> [w \in Windows |-> 0]]
    /\ refused = [m \in Models |-> [w \in Windows |-> 0]]
    /\ leases = {}
    /\ now \in Times
    /\ calls = [m \in Models |-> [w \in Windows |-> 0]]
    /\ acted = [i \in Ids |-> 0]

-----------------------------------------------------------------------------
(* claim_invocation: one action per kind of ClaimResult.                   *)

Observe(m) ==
    /\ \A w \in budget_windows(now) : observed[m][w] < MaxDemand
    /\ observed' = Count(observed, m, budget_windows(now))

\* Mutant: a claim whose lease ran out no longer counts as active.
ActiveWith_Unexpired(identity) ==
    {i \in Ids : Active(i) /\ now < rows[i].lease_expires_at /\ rows[i].identity = identity}

ActiveWith(identity) == {i \in Ids : Active(i) /\ rows[i].identity = identity}

ClaimDuplicate(identity, m) ==
    /\ Observe(m)
    /\ \E i \in ActiveWith(identity) : rows' = [rows EXCEPT ![i].demand_count = @ + 1]
    /\ UNCHANGED <<reserved, refused, leases, now, calls, acted>>

ClaimRefused(identity, m) ==
    /\ Observe(m)
    /\ ActiveWith(identity) = {}
    /\ Refusal(m)
    /\ refused' = Count(refused, m, budget_windows(now))
    /\ UNCHANGED <<rows, reserved, leases, now, calls, acted>>

Claim(identity, m, owner, seconds) ==
    /\ Observe(m)
    /\ ActiveWith(identity) = {}
    /\ ~Refusal(m)
    /\ reserve(m)
    /\ \E i \in Ids :
         /\ rows[i] = NoRow
         /\ rows' = [rows EXCEPT ![i] =
              [identity |-> identity, model |-> m, state |-> "CLAIMED", generation |-> 1,
               lease_owner |-> owner, lease_expires_at |-> lease_expiry(seconds),
               demand_count |-> 1, attempt_count |-> 0]]
         /\ leases' = leases \cup {[invocation_id |-> i, generation |-> 1, owner |-> owner]}
    /\ UNCHANGED <<refused, now, calls, acted>>

-----------------------------------------------------------------------------
(* Holder actions.  A lease that is no longer applied changes nothing;       *)
(* neither does an attempt answered BUDGET_EXHAUSTED.              *)

HolderAction(l) ==
    /\ fence_applied(l)
    /\ acted' = [acted EXCEPT ![l.invocation_id] = l.generation]

\* Mutant: the claim's unit also covers the second attempt.
CoveredByClaim_Twice(record) == record.attempt_count <= 1

\* The claim's reservation covers the first attempt only.
CoveredByClaim(record) == record.attempt_count = 0

record_attempt(l) ==
    LET record == rows[l.invocation_id]
    IN  /\ HolderAction(l)
        /\ record.attempt_count < MaxAttempts
        /\ IF CoveredByClaim(record)
           THEN UNCHANGED reserved
           ELSE ~Refusal(record.model) /\ reserve(record.model)
        /\ rows' = [rows EXCEPT ![l.invocation_id].attempt_count = @ + 1]
        /\ calls' = Count(calls, record.model, budget_windows(now))
        /\ UNCHANGED <<observed, refused, leases, now>>

EndInvocation(l, state) ==
    /\ HolderAction(l)
    /\ rows' = [rows EXCEPT ![l.invocation_id].state = state]
    /\ UNCHANGED <<reserved, observed, refused, leases, now, calls>>

complete_invocation(l) == EndInvocation(l, "COMPLETED")

\* The ReleaseReason is stored and read by nobody here.
release_invocation(l) == EndInvocation(l, "RELEASED")

-----------------------------------------------------------------------------
(* recover_expired: the oldest RecoverLimit expired leases go to `owner'.   *)
(* Ties on lease_expires_at are broken by the random id: any order.         *)

Expired == {i \in Ids : Active(i) /\ rows[i].lease_expires_at <= now}

OldestFirst(S) ==
    /\ S \subseteq Expired
    /\ Cardinality(S) = IF Cardinality(Expired) < RecoverLimit
                        THEN Cardinality(Expired) ELSE RecoverLimit
    /\ \A i \in S, j \in Expired \ S : rows[i].lease_expires_at <= rows[j].lease_expires_at

\* Mutant: the new holder takes over the old generation.
NextGeneration_Same(i) == rows[i].generation

NextGeneration(i) == rows[i].generation + 1

recover_expired(owner, seconds) ==
    \E S \in SUBSET Ids :
        /\ S # {}
        /\ OldestFirst(S)
        /\ \A i \in S : rows[i].generation < MaxGeneration
        /\ rows' = [i \in Ids |-> IF i \in S
                     THEN [rows[i] EXCEPT !.generation = NextGeneration(i), !.lease_owner = owner,
                                          !.lease_expires_at = lease_expiry(seconds)]
                     ELSE rows[i]]
        /\ leases' = leases \cup
             {[invocation_id |-> i, generation |-> NextGeneration(i), owner |-> owner] : i \in S}
        /\ UNCHANGED <<reserved, observed, refused, now, calls, acted>>

\* The wall clock: later, or earlier after an adjustment.
Clock ==
    /\ now' \in Times \ {now}
    /\ now' > now \/ ClockStepsBack
    /\ UNCHANGED <<rows, reserved, observed, refused, leases, calls, acted>>

Next ==
    \/ \E identity \in Identities, m \in Models :
         \/ ClaimDuplicate(identity, m)
         \/ ClaimRefused(identity, m)
         \/ \E owner \in Owners, seconds \in LeaseSeconds : Claim(identity, m, owner, seconds)
    \/ \E l \in leases : record_attempt(l) \/ complete_invocation(l) \/ release_invocation(l)
    \/ \E owner \in Owners, seconds \in LeaseSeconds : recover_expired(owner, seconds)
    \/ Clock

Spec == Init /\ [][Next]_vars

-----------------------------------------------------------------------------
(* Properties.                                                             *)

\* Rows, counters, leases and history variables have their types.
TypeOK ==
    /\ rows \in [Ids -> Row \cup {NoRow}]
    /\ reserved \in [Models -> [Windows -> Nat]]
    /\ observed \in [Models -> [Windows -> Nat]]
    /\ refused \in [Models -> [Windows -> Nat]]
    /\ leases \subseteq Lease
    /\ now \in Times
    /\ calls \in [Models -> [Windows -> Nat]]
    /\ acted \in [Ids -> Nat]

\* claim_invocation and recover_expired: an identity has at most one active
\* invocation, in whatever order processes claim, end, crash and recover.
OneActivePerIdentity ==
    \A i, j \in Ids : Active(i) /\ Active(j) /\ rows[i].identity = rows[j].identity => i = j

\* refusal_reason and _reserve: no window of any model is reserved past its
\* limit, by claims, by repeated attempts after a recovery, or by both.
ReservedWithinLimits ==
    \A m \in Models : \A w \in Windows : reserved[m][w] <= Limit(m, w)

\* _reserve charges both windows: a day holds exactly the units of its hours.
Hours == {w \in Windows : w[1] = "hour"}
HoursOf(d) == {w \in Hours : \E t \in Times :
                 w[2] = t \div HourLength /\ d = <<"day", t \div DayLength>>}
DayIsSumOfHours ==
    \A m \in Models : \A d \in Windows \ Hours :
        reserved[m][d] = SumFunctionOnSet(reserved[m], HoursOf(d))

\* "reserved >= attempts always holds" (domain/invocation.py): the units a
\* model reserved cover every genuine call, however often leases were lost.
RowOf(i, m) == rows[i] # NoRow /\ rows[i].model = m
Attempts(i, m) == IF RowOf(i, m) THEN rows[i].attempt_count ELSE 0
ReservedCoversAttempts ==
    \A m \in Models : SumFunction([i \in Ids |-> Attempts(i, m)])
                        <= SumFunctionOnSet(reserved[m], Hours)

\* Demand is counted apart from budget: each observed request was refused or
\* is in the demand count of exactly one invocation (the winner's or, for a
\* duplicate, the active one's, which may be another model's).
Demand(i) == IF rows[i] = NoRow THEN 0 ELSE rows[i].demand_count
Admitted(p) == observed[p[1]][p[2]] - refused[p[1]][p[2]]
DemandAccounted ==
    SumFunction([p \in Models \X Hours |-> Admitted(p)])
      = SumFunction([i \in Ids |-> Demand(i)])

\* The counters of rows, hours and days add up, whoever wrote them last.
CountersAddUp == DayIsSumOfHours /\ ReservedCoversAttempts /\ DemandAccounted

\* A generation is handed out once: two leases of one invocation and one
\* generation are the same lease, and none is newer than the row.
GenerationsUnique ==
    /\ \A l \in leases : rows[l.invocation_id] # NoRow
                         /\ l.generation <= rows[l.invocation_id].generation
    /\ \A l1, l2 \in leases : l1.invocation_id = l2.invocation_id
                              /\ l1.generation = l2.generation => l1 = l2

\* OC-1: "a result after lease loss never commits".  An attempt or an end is
\* only ever applied for the newest lease handed out, before it expires, and
\* an ended invocation never changes again.
RowFenced(i) ==
    /\ rows[i] # NoRow /\ ~Active(i) => rows'[i] = rows[i]
    /\ Active(i) /\ (~Active(i)' \/ rows'[i].attempt_count # rows[i].attempt_count) =>
         /\ now < rows[i].lease_expires_at
         /\ \A l \in leases : l.invocation_id = i => l.generation <= acted'[i]
StaleHolderFenced == [][\A i \in Ids : RowFenced(i)]_vars

\* domain/invocation.py: "the budget can be over-reserved, never over-spent".
\* Read per window, as the limits are: no hour or day sees more genuine calls
\* than its limit.
NeverOverSpent ==
    \A m \in Models : \A w \in Windows : calls[m][w] <= Limit(m, w)
=============================================================================
