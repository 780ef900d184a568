----------------------- MODULE InvocationLedgerProofs -----------------------
(***************************************************************************)
(* Proofs about the invocation ledger, for every set of ids, identities,   *)
(* models, owners and instants and every limit.                            *)
(***************************************************************************)
EXTENDS InvocationLedger, SumTheorems, TLAPS

\* Counting a unit keeps a counter table a table of naturals.
LEMMA CountType ==
    ASSUME NEW table \in [Models -> [Windows -> Nat]], NEW m \in Models, NEW ws
    PROVE  Count(table, m, ws) \in [Models -> [Windows -> Nat]]
BY DEF Count

\* Counting adds one to the windows named and leaves the other cells alone.
LEMMA CountCell ==
    ASSUME NEW table \in [Models -> [Windows -> Nat]], NEW m \in Models, NEW ws,
           NEW n \in Models, NEW w \in Windows
    PROVE  Count(table, m, ws)[n][w] =
             IF n = m /\ w \in ws THEN table[n][w] + 1 ELSE table[n][w]
BY DEF Count

\* A stored row is either absent or a Row, and its state tells which.
LEMMA RowKind ==
    ASSUME TypeOK, NEW i \in Ids
    PROVE  /\ rows[i] = NoRow \/ rows[i] \in Row
           /\ Active(i) => rows[i] \in Row
           /\ rows[i] \in Row => rows[i] # NoRow
BY DEF TypeOK, Active, Row, NoRow

\* Every lease in a caller's hands names a row and an owner of the instance.
LEMMA HolderRow ==
    ASSUME TypeOK, NEW l \in leases, fence_applied(l)
    PROVE  /\ l.invocation_id \in Ids /\ l.generation \in Nat \ {0}
           /\ rows[l.invocation_id] \in Row
           /\ Active(l.invocation_id)
<1>1. l.invocation_id \in Ids /\ l.generation \in Nat \ {0}
  BY DEF TypeOK, Lease
<1>2. Active(l.invocation_id)
  BY DEF fence_applied, Active
<1> QED BY <1>1, <1>2, RowKind

\* Every operation of the store keeps the tables well typed.
LEMMA TypeKept == TypeOK /\ [Next]_vars => TypeOK'
<1> SUFFICES ASSUME TypeOK, [Next]_vars PROVE TypeOK'
  OBVIOUS
<1> USE LedgerAssumption
<1>1. ASSUME NEW identity \in Identities, NEW m \in Models, ClaimDuplicate(identity, m)
      PROVE  TypeOK'
  <2>1. observed' \in [Models -> [Windows -> Nat]]
    BY <1>1, CountType DEF ClaimDuplicate, Observe, TypeOK
  <2>2. PICK i \in ActiveWith(identity) : rows' = [rows EXCEPT ![i].demand_count = @ + 1]
    BY <1>1 DEF ClaimDuplicate
  <2>3. i \in Ids /\ rows[i] \in Row
    BY <2>2, RowKind DEF ActiveWith
  <2>4. [rows[i] EXCEPT !.demand_count = @ + 1] \in Row
    BY <2>3 DEF Row
  <2>5. rows' \in [Ids -> Row \cup {NoRow}]
    BY <2>2, <2>3, <2>4 DEF TypeOK
  <2> QED BY <1>1, <2>1, <2>5 DEF ClaimDuplicate, TypeOK
<1>2. ASSUME NEW identity \in Identities, NEW m \in Models, ClaimRefused(identity, m)
      PROVE  TypeOK'
  BY <1>2, CountType DEF ClaimRefused, Observe, TypeOK
<1>3. ASSUME NEW identity \in Identities, NEW m \in Models, NEW owner \in Owners,
             NEW seconds \in LeaseSeconds, Claim(identity, m, owner, seconds)
      PROVE  TypeOK'
  <2>1. /\ observed' \in [Models -> [Windows -> Nat]]
        /\ reserved' \in [Models -> [Windows -> Nat]]
    BY <1>3, CountType DEF Claim, Observe, reserve, TypeOK
  <2>2. now + seconds \in Nat
    BY DEF TypeOK, LedgerAssumption
  <2>3. rows' \in [Ids -> Row \cup {NoRow}]
    BY <1>3, <2>2 DEF Claim, TypeOK, Row, lease_expiry
  <2>4. leases' \subseteq Lease
    BY <1>3 DEF Claim, TypeOK, Lease
  <2> QED BY <1>3, <2>1, <2>3, <2>4 DEF Claim, TypeOK
<1>4. ASSUME NEW l \in leases, record_attempt(l) PROVE TypeOK'
  <2> DEFINE i == l.invocation_id
  <2>1. i \in Ids /\ l.generation \in Nat /\ rows[i] \in Row
    BY <1>4, HolderRow DEF record_attempt, HolderAction
  <2>2. rows[i].model \in Models /\ [rows[i] EXCEPT !.attempt_count = @ + 1] \in Row
    BY <2>1 DEF Row
  <2>3. rows' \in [Ids -> Row \cup {NoRow}]
    BY <1>4, <2>1, <2>2 DEF record_attempt, TypeOK
  <2>4. reserved' \in [Models -> [Windows -> Nat]]
    <3>1. reserved' = reserved \/ reserve(rows[i].model)
      BY <1>4 DEF record_attempt
    <3> QED BY <2>2, <3>1, CountType DEF reserve, TypeOK
  <2>5. calls' \in [Models -> [Windows -> Nat]]
    BY <1>4, <2>2, CountType DEF record_attempt, TypeOK
  <2>6. acted' \in [Ids -> Nat]
    BY <1>4, <2>1 DEF record_attempt, HolderAction, TypeOK
  <2> QED BY <1>4, <2>3, <2>4, <2>5, <2>6 DEF record_attempt, TypeOK
<1>5. ASSUME NEW l \in leases, NEW state \in {"COMPLETED", "RELEASED"}, EndInvocation(l, state)
      PROVE  TypeOK'
  <2> DEFINE i == l.invocation_id
  <2>1. i \in Ids /\ l.generation \in Nat /\ rows[i] \in Row
    BY <1>5, HolderRow DEF EndInvocation, HolderAction
  <2>2. [rows[i] EXCEPT !.state = state] \in Row
    BY <2>1 DEF Row
  <2>3. rows' \in [Ids -> Row \cup {NoRow}]
    BY <1>5, <2>1, <2>2 DEF EndInvocation, TypeOK
  <2>4. acted' \in [Ids -> Nat]
    BY <1>5, <2>1 DEF EndInvocation, HolderAction, TypeOK
  <2> QED BY <1>5, <2>3, <2>4 DEF EndInvocation, TypeOK
<1>6. ASSUME NEW owner \in Owners, NEW seconds \in LeaseSeconds, recover_expired(owner, seconds)
      PROVE  TypeOK'
  <2>1. PICK S \in SUBSET Ids :
          /\ OldestFirst(S)
          /\ rows' = [i \in Ids |-> IF i \in S
                       THEN [rows[i] EXCEPT !.generation = @ + 1, !.lease_owner = owner,
                                            !.lease_expires_at = lease_expiry(seconds)]
                       ELSE rows[i]]
          /\ leases' = leases \cup
               {[invocation_id |-> i, generation |-> rows[i].generation + 1,
                 owner |-> owner] : i \in S}
    BY <1>6 DEF recover_expired, NextGeneration
  <2>2. \A i \in S : i \in Ids /\ rows[i] \in Row
    BY <2>1, RowKind DEF OldestFirst, Expired
  <2>3. now + seconds \in Nat
    BY DEF TypeOK, LedgerAssumption
  <2>4. ASSUME NEW i \in S
        PROVE  [rows[i] EXCEPT !.generation = @ + 1, !.lease_owner = owner,
                               !.lease_expires_at = lease_expiry(seconds)] \in Row
    <3>1. rows[i] \in Row /\ lease_expiry(seconds) \in Nat
      BY <2>2, <2>3 DEF lease_expiry
    <3>2. rows[i].generation + 1 \in Nat \ {0}
      BY <3>1 DEF Row
    <3> QED BY <3>1, <3>2 DEF Row
  <2>5. rows' \in [Ids -> Row \cup {NoRow}]
    BY <2>1, <2>4 DEF TypeOK
  <2>6. ASSUME NEW i \in S
        PROVE  [invocation_id |-> i, generation |-> rows[i].generation + 1,
                owner |-> owner] \in Lease
    BY <2>2 DEF Lease, Row
  <2>7. leases' \subseteq Lease
    BY <2>1, <2>6 DEF TypeOK
  <2> QED BY <1>6, <2>5, <2>7 DEF recover_expired, TypeOK
<1>7. CASE Clock
  BY <1>7 DEF Clock, TypeOK
<1>8. CASE UNCHANGED vars
  BY <1>8 DEF vars, TypeOK
<1> QED BY <1>1, <1>2, <1>3, <1>4, <1>5, <1>6, <1>7, <1>8
        DEF Next, complete_invocation, release_invocation

\* Init and every operation of the store keep the tables well typed.
THEOREM TypeCorrect == Spec => []TypeOK
<1>1. Init => TypeOK
  BY DEF Init, TypeOK
<1>2. TypeOK /\ [Next]_vars => TypeOK'
  BY TypeKept
<1> QED BY <1>1, <1>2, PTL DEF Spec

-----------------------------------------------------------------------------
\* One action's effect on the rows, told once for the invariants below: which
\* rows are active afterwards, and with which identity.
LEMMA ActiveAfter ==
    ASSUME TypeOK, [Next]_vars, NEW i \in Ids, Active(i)'
    PROVE  \/ Active(i) /\ rows'[i].identity = rows[i].identity
           \/ /\ rows[i] = NoRow
              /\ ActiveWith(rows'[i].identity) = {}
              /\ \A j \in Ids \ {i} : rows'[j] = rows[j]
<1>1. CASE \E identity \in Identities, m \in Models : ClaimDuplicate(identity, m)
  <2>1. PICK k \in Ids : Active(k) /\ rows' = [rows EXCEPT ![k].demand_count = @ + 1]
    BY <1>1 DEF ClaimDuplicate, ActiveWith
  <2>2. rows[k] \in Row
    BY <2>1, RowKind
  <2>3. rows'[i].state = rows[i].state /\ rows'[i].identity = rows[i].identity
    BY <2>1, <2>2 DEF TypeOK, Row
  <2> QED BY <2>3 DEF Active
<1>2. CASE \E identity \in Identities, m \in Models : ClaimRefused(identity, m)
  BY <1>2 DEF ClaimRefused, Active
<1>3. CASE \E identity \in Identities, m \in Models, owner \in Owners,
            seconds \in LeaseSeconds : Claim(identity, m, owner, seconds)
  BY <1>3 DEF Claim, Active, TypeOK
<1>4. ASSUME NEW l \in leases, record_attempt(l) \/ EndInvocation(l, "COMPLETED")
                               \/ EndInvocation(l, "RELEASED")
      PROVE  Active(i) /\ rows'[i].identity = rows[i].identity
  <2> DEFINE k == l.invocation_id
  <2>1. k \in Ids /\ rows[k] \in Row /\ Active(k)
    BY <1>4, HolderRow DEF record_attempt, EndInvocation, HolderAction
  <2>2. CASE i # k
    BY <1>4, <2>1, <2>2 DEF record_attempt, EndInvocation, TypeOK, Active
  <2>3. CASE i = k
    BY <1>4, <2>1, <2>3 DEF record_attempt, EndInvocation, TypeOK, Active, Row
  <2> QED BY <2>2, <2>3
<1>5. CASE \E owner \in Owners, seconds \in LeaseSeconds : recover_expired(owner, seconds)
  <2>1. PICK owner \in Owners, seconds \in LeaseSeconds, S \in SUBSET Ids :
          /\ OldestFirst(S)
          /\ rows' = [j \in Ids |-> IF j \in S
                       THEN [rows[j] EXCEPT !.generation = @ + 1, !.lease_owner = owner,
                                            !.lease_expires_at = lease_expiry(seconds)]
                       ELSE rows[j]]
    BY <1>5 DEF recover_expired, NextGeneration
  <2>2. CASE i \in S
    <3>1. Active(i) /\ rows[i] \in Row
      BY <2>1, <2>2, RowKind DEF OldestFirst, Expired
    <3> QED BY <2>1, <2>2, <3>1 DEF Row
  <2>3. CASE i \notin S
    BY <2>1, <2>3 DEF Active
  <2> QED BY <2>2, <2>3
<1>6. CASE Clock \/ UNCHANGED vars
  BY <1>6 DEF Clock, vars, Active
<1> QED BY <1>1, <1>2, <1>3, <1>4, <1>5, <1>6
        DEF Next, complete_invocation, release_invocation

\* claim_invocation never opens a second active invocation of an identity,
\* for any number of processes, stale holders, recoveries and clock jumps.
THEOREM OneActive == Spec => []OneActivePerIdentity
<1>1. Init => OneActivePerIdentity
  BY DEF Init, OneActivePerIdentity, Active, NoRow
<1>2. TypeOK /\ OneActivePerIdentity /\ [Next]_vars => OneActivePerIdentity'
  <2> SUFFICES ASSUME TypeOK, OneActivePerIdentity, [Next]_vars,
                      NEW i \in Ids, NEW j \in Ids, Active(i)', Active(j)',
                      rows'[i].identity = rows'[j].identity
               PROVE  i = j
    BY DEF OneActivePerIdentity
  <2>1. CASE Active(i) /\ Active(j)
    BY <2>1, ActiveAfter DEF OneActivePerIdentity, NoRow, Active
  <2>2. CASE ~Active(i)
    <3>1. ActiveWith(rows'[i].identity) = {} /\ \A k \in Ids \ {i} : rows'[k] = rows[k]
      BY <2>2, ActiveAfter
    <3> QED BY <3>1 DEF ActiveWith, Active
  <2>3. CASE ~Active(j)
    <3>1. ActiveWith(rows'[j].identity) = {} /\ \A k \in Ids \ {j} : rows'[k] = rows[k]
      BY <2>3, ActiveAfter
    <3> QED BY <3>1 DEF ActiveWith, Active
  <2> QED BY <2>1, <2>2, <2>3
<1> QED BY <1>1, <1>2, TypeCorrect, PTL DEF Spec

-----------------------------------------------------------------------------
\* A reservation that passed refusal_reason stays within every limit.
LEMMA ReserveFits ==
    ASSUME TypeOK, ReservedWithinLimits, NEW m \in Models, ~Refusal(m), reserve(m)
    PROVE  ReservedWithinLimits'
<1> SUFFICES ASSUME NEW n \in Models, NEW w \in Windows
             PROVE  reserved'[n][w] <= Limit(n, w)
  BY DEF ReservedWithinLimits
<1>1. reserved[n][w] \in Nat /\ Limit(n, w) \in Nat /\ reserved[n][w] <= Limit(n, w)
  BY LedgerAssumption DEF TypeOK, Limit, LedgerAssumption, ReservedWithinLimits
<1>2. reserved'[n][w] = IF n = m /\ w \in budget_windows(now)
                        THEN reserved[n][w] + 1 ELSE reserved[n][w]
  BY CountCell DEF TypeOK, reserve
<1>3. w \in budget_windows(now) => ~(reserved[m][w] >= Limit(m, w))
  BY DEF Refusal
<1> QED BY <1>1, <1>2, <1>3

\* No window of any model is ever reserved past its limit: not by claims, not
\* by the further attempts record_attempt pays for.
THEOREM BudgetHolds == Spec => []ReservedWithinLimits
<1>1. Init => ReservedWithinLimits
  BY LedgerAssumption DEF Init, ReservedWithinLimits, LedgerAssumption, Limit
<1>2. TypeOK /\ ReservedWithinLimits /\ [Next]_vars => ReservedWithinLimits'
  <2> SUFFICES ASSUME TypeOK, ReservedWithinLimits, [Next]_vars
               PROVE  ReservedWithinLimits'
    OBVIOUS
  <2>1. ASSUME NEW identity \in Identities, NEW m \in Models, NEW owner \in Owners,
               NEW seconds \in LeaseSeconds, Claim(identity, m, owner, seconds)
        PROVE  ReservedWithinLimits'
    BY <2>1, ReserveFits DEF Claim
  <2>2. ASSUME NEW l \in leases, record_attempt(l) PROVE ReservedWithinLimits'
    <3>1. rows[l.invocation_id].model \in Models
      BY <2>2, HolderRow DEF record_attempt, HolderAction, Row
    <3>2. CASE UNCHANGED reserved
      BY <3>2 DEF ReservedWithinLimits
    <3>3. CASE ~Refusal(rows[l.invocation_id].model) /\ reserve(rows[l.invocation_id].model)
      BY <3>1, <3>3, ReserveFits
    <3> QED BY <2>2, <3>2, <3>3 DEF record_attempt
  <2>3. ASSUME UNCHANGED reserved PROVE ReservedWithinLimits'
    BY <2>3 DEF ReservedWithinLimits
  <2> QED BY <2>1, <2>2, <2>3
          DEF Next, vars, ClaimDuplicate, ClaimRefused, complete_invocation,
              release_invocation, EndInvocation, recover_expired, Clock
<1> QED BY <1>1, <1>2, TypeCorrect, PTL DEF Spec

-----------------------------------------------------------------------------
\* An action that hands out no lease keeps GenerationsUnique when it keeps
\* every generation and never deletes a row.
LEMMA NoNewLease ==
    ASSUME GenerationsUnique, TypeOK, UNCHANGED leases,
           \A i \in Ids : rows[i] # NoRow =>
               rows'[i] # NoRow /\ rows'[i].generation = rows[i].generation
    PROVE  GenerationsUnique'
<1>1. \A l \in leases : l.invocation_id \in Ids
  BY DEF TypeOK, Lease
<1> QED BY <1>1 DEF GenerationsUnique

\* A holder action or a duplicate's count changes no generation.
LEMMA FieldUpdate ==
    ASSUME TypeOK, NEW k \in Ids, rows[k] \in Row,
           NEW r \in Row, r.generation = rows[k].generation,
           rows' = [rows EXCEPT ![k] = r]
    PROVE  \A i \in Ids : rows[i] # NoRow =>
               rows'[i] # NoRow /\ rows'[i].generation = rows[i].generation
BY DEF TypeOK, Row, NoRow

\* No operation hands out a generation twice.
LEMMA GenerationsKept == TypeOK /\ GenerationsUnique /\ [Next]_vars => GenerationsUnique'
<1> SUFFICES ASSUME TypeOK, GenerationsUnique, [Next]_vars PROVE GenerationsUnique'
  OBVIOUS
<1>1. ASSUME NEW identity \in Identities, NEW m \in Models, ClaimDuplicate(identity, m)
      PROVE  GenerationsUnique'
  <2>1. PICK k \in ActiveWith(identity) : rows' = [rows EXCEPT ![k].demand_count = @ + 1]
    BY <1>1 DEF ClaimDuplicate
  <2>2. k \in Ids /\ rows[k] \in Row
    BY <2>1, RowKind DEF ActiveWith
  <2> DEFINE r == [rows[k] EXCEPT !.demand_count = @ + 1]
  <2>3. r \in Row /\ r.generation = rows[k].generation
    BY <2>2 DEF Row
  <2>4. rows' = [rows EXCEPT ![k] = r]
    BY <2>1
  <2> HIDE DEF r
  <2> QED BY <1>1, <2>2, <2>3, <2>4, FieldUpdate, NoNewLease DEF ClaimDuplicate
<1>2. ASSUME NEW identity \in Identities, NEW m \in Models, ClaimRefused(identity, m)
      PROVE  GenerationsUnique'
  BY <1>2 DEF ClaimRefused, GenerationsUnique
<1>3. ASSUME NEW identity \in Identities, NEW m \in Models, NEW owner \in Owners,
             NEW seconds \in LeaseSeconds, Claim(identity, m, owner, seconds)
      PROVE  GenerationsUnique'
  <2>1. PICK i \in Ids :
          /\ rows[i] = NoRow
          /\ rows' = [rows EXCEPT ![i] =
               [identity |-> identity, model |-> m, state |-> "CLAIMED", generation |-> 1,
                lease_owner |-> owner, lease_expires_at |-> lease_expiry(seconds),
                demand_count |-> 1, attempt_count |-> 0]]
          /\ leases' = leases \cup {[invocation_id |-> i, generation |-> 1, owner |-> owner]}
    BY <1>3 DEF Claim
  <2>2. \A l \in leases : l.invocation_id \in Ids /\ l.invocation_id # i
    BY <2>1 DEF GenerationsUnique, TypeOK, Lease
  <2>3. rows'[i] # NoRow /\ rows'[i].generation = 1
    BY <2>1 DEF TypeOK, NoRow
  <2>4. \A j \in Ids \ {i} : rows'[j] = rows[j]
    BY <2>1 DEF TypeOK
  <2> QED BY <2>1, <2>2, <2>3, <2>4 DEF GenerationsUnique
<1>4. ASSUME NEW l \in leases, record_attempt(l) PROVE GenerationsUnique'
  <2> DEFINE k == l.invocation_id
             r == [rows[k] EXCEPT !.attempt_count = @ + 1]
  <2>1. k \in Ids /\ rows[k] \in Row
    BY <1>4, HolderRow DEF record_attempt, HolderAction
  <2>2. r \in Row /\ r.generation = rows[k].generation
    BY <2>1 DEF Row
  <2>3. rows' = [rows EXCEPT ![k] = r] /\ UNCHANGED leases
    BY <1>4 DEF record_attempt
  <2> HIDE DEF r, k
  <2> QED BY <2>1, <2>2, <2>3, FieldUpdate, NoNewLease
<1>5. ASSUME NEW l \in leases, NEW state \in {"COMPLETED", "RELEASED"}, EndInvocation(l, state)
      PROVE  GenerationsUnique'
  <2> DEFINE k == l.invocation_id
             r == [rows[k] EXCEPT !.state = state]
  <2>1. k \in Ids /\ rows[k] \in Row
    BY <1>5, HolderRow DEF EndInvocation, HolderAction
  <2>2. r \in Row /\ r.generation = rows[k].generation
    BY <2>1 DEF Row
  <2>3. rows' = [rows EXCEPT ![k] = r] /\ UNCHANGED leases
    BY <1>5 DEF EndInvocation
  <2> HIDE DEF r, k
  <2> QED BY <2>1, <2>2, <2>3, FieldUpdate, NoNewLease
<1>6. ASSUME NEW owner \in Owners, NEW seconds \in LeaseSeconds, recover_expired(owner, seconds)
      PROVE  GenerationsUnique'
  <2>1. PICK S \in SUBSET Ids :
          /\ OldestFirst(S)
          /\ rows' = [i \in Ids |-> IF i \in S
                       THEN [rows[i] EXCEPT !.generation = @ + 1, !.lease_owner = owner,
                                            !.lease_expires_at = lease_expiry(seconds)]
                       ELSE rows[i]]
          /\ leases' = leases \cup
               {[invocation_id |-> i, generation |-> rows[i].generation + 1,
                 owner |-> owner] : i \in S}
    BY <1>6 DEF recover_expired, NextGeneration
  <2>2. ASSUME NEW i \in S
        PROVE  /\ i \in Ids /\ rows[i].generation \in Nat
               /\ rows'[i] # NoRow /\ rows'[i].generation = rows[i].generation + 1
    <3>1. i \in Ids /\ rows[i] \in Row
      BY <2>1, RowKind DEF OldestFirst, Expired
    <3> QED BY <2>1, <3>1 DEF Row, NoRow
  <2>3. \A i \in Ids \ S : rows'[i] = rows[i]
    BY <2>1
  <2>4. \A l \in leases : /\ l.invocation_id \in Ids /\ l.generation \in Nat
                          /\ rows[l.invocation_id] # NoRow
                          /\ l.generation <= rows[l.invocation_id].generation
    BY DEF TypeOK, Lease, GenerationsUnique
  <2>5. ASSUME NEW l \in leases'
        PROVE  \/ l \in leases
               \/ /\ l.invocation_id \in S /\ l.owner = owner
                  /\ l.generation = rows[l.invocation_id].generation + 1
                  /\ l = [invocation_id |-> l.invocation_id, generation |-> l.generation,
                          owner |-> l.owner]
    <3> SUFFICES ASSUME l \notin leases
                 PROVE  /\ l.invocation_id \in S /\ l.owner = owner
                        /\ l.generation = rows[l.invocation_id].generation + 1
                        /\ l = [invocation_id |-> l.invocation_id,
                                generation |-> l.generation, owner |-> l.owner]
      OBVIOUS
    <3>1. PICK i \in S : l = [invocation_id |-> i, generation |-> rows[i].generation + 1,
                              owner |-> owner]
      BY <2>1
    <3> QED BY <3>1
  <2>6. ASSUME NEW l \in leases'
        PROVE  /\ rows'[l.invocation_id] # NoRow
               /\ l.generation <= rows'[l.invocation_id].generation
    <3>1. CASE l \in leases /\ l.invocation_id \in S
      BY <3>1, <2>2, <2>4
    <3>2. CASE l \in leases /\ l.invocation_id \notin S
      BY <3>2, <2>3, <2>4
    <3>3. CASE l.invocation_id \in S /\ l.generation = rows[l.invocation_id].generation + 1
      BY <3>3, <2>2
    <3> QED BY <2>5, <3>1, <3>2, <3>3
  <2>7. ASSUME NEW l1 \in leases', NEW l2 \in leases',
               l1.invocation_id = l2.invocation_id, l1.generation = l2.generation
        PROVE  l1 = l2
    <3>1. CASE l1 \in leases /\ l2 \in leases
      BY <3>1, <2>7 DEF GenerationsUnique
    <3>2. CASE l1 \notin leases /\ l2 \notin leases
      BY <3>2, <2>5, <2>7
    <3>3. ASSUME NEW old \in leases, NEW i \in S, old.invocation_id = i,
                 old.generation = rows[i].generation + 1
          PROVE  FALSE
      BY <3>3, <2>2, <2>4
    <3> QED BY <3>1, <3>2, <3>3, <2>5, <2>7
  <2> QED BY <2>6, <2>7 DEF GenerationsUnique
<1>7. CASE Clock \/ UNCHANGED vars
  BY <1>7 DEF Clock, vars, GenerationsUnique
<1> QED BY <1>1, <1>2, <1>3, <1>4, <1>5, <1>6, <1>7
        DEF Next, complete_invocation, release_invocation

\* A (invocation, generation) pair is handed to one holder only.
THEOREM OneHolderPerGeneration == Spec => []GenerationsUnique
<1>1. Init => GenerationsUnique
  BY DEF Init, GenerationsUnique
<1>2. TypeOK /\ GenerationsUnique /\ [Next]_vars => GenerationsUnique'
  BY GenerationsKept
<1> QED BY <1>1, <1>2, TypeCorrect, PTL DEF Spec

-----------------------------------------------------------------------------
\* An action of the holder of l satisfies the fence for every row.
LEMMA HolderFenced ==
    ASSUME TypeOK, GenerationsUnique, NEW l \in leases, HolderAction(l),
           NEW r, rows' = [rows EXCEPT ![l.invocation_id] = r], NEW i \in Ids
    PROVE  RowFenced(i)
<1>1. l.invocation_id \in Ids /\ Active(l.invocation_id)
  BY HolderRow DEF HolderAction
<1>2. CASE i # l.invocation_id
  BY <1>1, <1>2 DEF HolderAction, TypeOK, RowFenced, Active
<1>3. CASE i = l.invocation_id
  <2>1. acted'[i] = l.generation
    BY <1>1, <1>3 DEF HolderAction, TypeOK
  <2>2. rows[i].generation = l.generation /\ now < rows[i].lease_expires_at
    BY <1>3 DEF HolderAction, fence_applied
  <2> QED BY <1>1, <1>3, <2>1, <2>2 DEF RowFenced, GenerationsUnique
<1> QED BY <1>2, <1>3

\* A holder whose generation was recovered, or whose lease expired, changes
\* nothing, and an ended invocation never changes again.
THEOREM Fencing == Spec => StaleHolderFenced
<1>1. TypeOK /\ GenerationsUnique /\ [Next]_vars => [\A i \in Ids : RowFenced(i)]_vars
  <2> SUFFICES ASSUME TypeOK, GenerationsUnique, Next, NEW i \in Ids
               PROVE  RowFenced(i)
    OBVIOUS
  <2>1. ASSUME NEW identity \in Identities, NEW m \in Models, ClaimDuplicate(identity, m)
        PROVE  RowFenced(i)
    <3>1. PICK k \in Ids : Active(k) /\ rows' = [rows EXCEPT ![k].demand_count = @ + 1]
      BY <2>1 DEF ClaimDuplicate, ActiveWith
    <3>2. rows[k] \in Row
      BY <3>1, RowKind
    <3>3. /\ rows'[i].state = rows[i].state /\ (~Active(i) => rows'[i] = rows[i])
          /\ rows'[i].attempt_count = rows[i].attempt_count
      BY <3>1, <3>2 DEF TypeOK, Row
    <3> QED BY <2>1, <3>3 DEF ClaimDuplicate, RowFenced, Active
  <2>2. ASSUME NEW identity \in Identities, NEW m \in Models, ClaimRefused(identity, m)
        PROVE  RowFenced(i)
    BY <2>2 DEF ClaimRefused, RowFenced, Active
  <2>3. ASSUME NEW identity \in Identities, NEW m \in Models, NEW owner \in Owners,
               NEW seconds \in LeaseSeconds, Claim(identity, m, owner, seconds)
        PROVE  RowFenced(i)
    <3>1. rows[i] = NoRow \/ rows'[i] = rows[i]
      BY <2>3 DEF Claim, TypeOK
    <3>2. rows[i] = NoRow => ~Active(i)
      BY DEF NoRow, Active
    <3> QED BY <3>1, <3>2 DEF RowFenced, Active
  <2>4. ASSUME NEW l \in leases, record_attempt(l) PROVE RowFenced(i)
    BY <2>4, HolderFenced DEF record_attempt
  <2>5. ASSUME NEW l \in leases, NEW state, EndInvocation(l, state) PROVE RowFenced(i)
    BY <2>5, HolderFenced DEF EndInvocation
  <2>6. ASSUME NEW owner \in Owners, NEW seconds \in LeaseSeconds, recover_expired(owner, seconds)
        PROVE  RowFenced(i)
    <3>1. /\ rows'[i].state = rows[i].state /\ (~Active(i) => rows'[i] = rows[i])
          /\ rows'[i].attempt_count = rows[i].attempt_count
      <4>1. PICK S \in SUBSET Ids :
              /\ OldestFirst(S)
              /\ rows' = [j \in Ids |-> IF j \in S
                           THEN [rows[j] EXCEPT !.generation = @ + 1, !.lease_owner = owner,
                                                !.lease_expires_at = lease_expiry(seconds)]
                           ELSE rows[j]]
        BY <2>6 DEF recover_expired, NextGeneration
      <4>2. CASE i \in S
        <5>1. Active(i) /\ rows[i] \in Row
          BY <4>1, <4>2, RowKind DEF OldestFirst, Expired
        <5> QED BY <4>1, <4>2, <5>1 DEF Row
      <4> QED BY <4>1, <4>2
    <3> QED BY <2>6, <3>1 DEF recover_expired, RowFenced, Active
  <2>7. CASE Clock
    BY <2>7 DEF Clock, RowFenced, Active
  <2> QED BY <2>1, <2>2, <2>3, <2>4, <2>5, <2>6, <2>7
          DEF Next, complete_invocation, release_invocation
<1> QED BY <1>1, TypeCorrect, OneHolderPerGeneration, PTL DEF Spec, StaleHolderFenced

-----------------------------------------------------------------------------
\* No operation takes a row, an attempt or a lease away, or a completion back.
RowAdvances(i) ==
    rows[i] # NoRow => /\ rows'[i] # NoRow /\ rows'[i].attempt_count >= rows[i].attempt_count
                       /\ rows[i].state = "COMPLETED" => rows'[i].state = "COMPLETED"

\* The row of an active invocation may be charged, extended or ended.
LEMMA ActiveAdvances ==
    ASSUME TypeOK, NEW k \in Ids, Active(k), NEW r \in Row, r.attempt_count >= rows[k].attempt_count,
           rows' = [rows EXCEPT ![k] = r]
    PROVE  \A i \in Ids : RowAdvances(i)
<1>1. rows[k].state = "CLAIMED" /\ r # NoRow
  BY DEF Active, Row, NoRow
<1> SUFFICES ASSUME NEW i \in Ids, rows[i] # NoRow
             PROVE  /\ rows'[i] # NoRow /\ rows'[i].attempt_count >= rows[i].attempt_count
                    /\ rows[i].state = "COMPLETED" => rows'[i].state = "COMPLETED"
  BY DEF RowAdvances
<1>2. rows[i] \in Row /\ rows[i].attempt_count \in Nat
  BY RowKind DEF Row
<1>3. rows'[i] = IF i = k THEN r ELSE rows[i]
  BY DEF TypeOK
<1> QED BY <1>1, <1>2, <1>3

\* Rows only advance, and leases only become more.
LEMMA RowsAdvance ==
    ASSUME TypeOK, [Next]_vars
    PROVE  (\A i \in Ids : RowAdvances(i)) /\ leases \subseteq leases'
<1>0. \A i \in Ids : rows[i] # NoRow => rows[i] \in Row /\ rows[i].attempt_count \in Nat
  BY RowKind DEF Row
<1>s. ASSUME rows' = rows PROVE \A i \in Ids : RowAdvances(i)
  BY <1>0, <1>s DEF RowAdvances
<1>1. ASSUME NEW identity \in Identities, NEW m \in Models, ClaimDuplicate(identity, m)
      PROVE  (\A i \in Ids : RowAdvances(i)) /\ leases \subseteq leases'
  <2>1. PICK k \in Ids : Active(k) /\ rows' = [rows EXCEPT ![k].demand_count = @ + 1]
    BY <1>1 DEF ClaimDuplicate, ActiveWith
  <2>2. rows[k] \in Row
    BY <2>1, RowKind
  <2>3. PICK r : r = [rows[k] EXCEPT !.demand_count = @ + 1]
    OBVIOUS
  <2>4. r \in Row /\ r.attempt_count = rows[k].attempt_count /\ rows[k].attempt_count \in Nat
    BY <2>2, <2>3 DEF Row
  <2>5. rows' = [rows EXCEPT ![k] = r]
    BY <2>1, <2>3
  <2>6. r.attempt_count >= rows[k].attempt_count
    BY <2>4
  <2>7. \A i \in Ids : RowAdvances(i)
    BY <2>1, <2>4, <2>5, <2>6, ActiveAdvances, Zenon
  <2> QED BY <1>1, <2>7 DEF ClaimDuplicate
<1>2. ASSUME NEW identity \in Identities, NEW m \in Models, ClaimRefused(identity, m)
      PROVE  (\A i \in Ids : RowAdvances(i)) /\ leases \subseteq leases'
  BY <1>2, <1>s DEF ClaimRefused
<1>3. ASSUME NEW identity \in Identities, NEW m \in Models, NEW owner \in Owners,
             NEW seconds \in LeaseSeconds, Claim(identity, m, owner, seconds)
      PROVE  (\A i \in Ids : RowAdvances(i)) /\ leases \subseteq leases'
  <2>1. leases \subseteq leases' /\ \A i \in Ids : rows[i] # NoRow => rows'[i] = rows[i]
    BY <1>3 DEF Claim, TypeOK
  <2> QED BY <1>0, <2>1 DEF RowAdvances
<1>4. ASSUME NEW l \in leases, record_attempt(l)
      PROVE  (\A i \in Ids : RowAdvances(i)) /\ leases \subseteq leases'
  <2>1. PICK k \in Ids : k = l.invocation_id /\ Active(k) /\ rows[k] \in Row
    BY <1>4, HolderRow DEF record_attempt, HolderAction
  <2>2. PICK n \in Nat : n = rows[k].attempt_count + 1
    BY <2>1 DEF Row
  <2>3. PICK r : r = [rows[k] EXCEPT !.attempt_count = n]
    OBVIOUS
  <2>4. r \in Row /\ r.attempt_count = n /\ rows[k].attempt_count \in Nat
    BY <2>1, <2>3 DEF Row
  <2>5. rows' = [rows EXCEPT ![k] = r]
    BY <1>4, <2>1, <2>2, <2>3 DEF record_attempt
  <2>6. r.attempt_count >= rows[k].attempt_count
    BY <2>2, <2>4
  <2>7. \A i \in Ids : RowAdvances(i)
    BY <2>1, <2>4, <2>5, <2>6, ActiveAdvances, Zenon
  <2> QED BY <1>4, <2>7 DEF record_attempt
<1>5. ASSUME NEW l \in leases, NEW state \in {"COMPLETED", "RELEASED"}, EndInvocation(l, state)
      PROVE  (\A i \in Ids : RowAdvances(i)) /\ leases \subseteq leases'
  <2>1. PICK k \in Ids : k = l.invocation_id /\ Active(k) /\ rows[k] \in Row
    BY <1>5, HolderRow DEF EndInvocation, HolderAction
  <2>2. PICK r : r = [rows[k] EXCEPT !.state = state]
    OBVIOUS
  <2>3. r \in Row /\ r.attempt_count = rows[k].attempt_count /\ rows[k].attempt_count \in Nat
    BY <2>1, <2>2 DEF Row
  <2>4. rows' = [rows EXCEPT ![k] = r]
    BY <1>5, <2>1, <2>2 DEF EndInvocation
  <2>5. r.attempt_count >= rows[k].attempt_count
    BY <2>3
  <2>6. \A i \in Ids : RowAdvances(i)
    BY <2>1, <2>3, <2>4, <2>5, ActiveAdvances, Zenon
  <2> QED BY <1>5, <2>6 DEF EndInvocation
<1>6. ASSUME NEW owner \in Owners, NEW seconds \in LeaseSeconds, recover_expired(owner, seconds)
      PROVE  (\A i \in Ids : RowAdvances(i)) /\ leases \subseteq leases'
  <2>1. PICK S \in SUBSET Ids :
          /\ OldestFirst(S)
          /\ rows' = [j \in Ids |-> IF j \in S
                       THEN [rows[j] EXCEPT !.generation = NextGeneration(j), !.lease_owner = owner,
                                            !.lease_expires_at = lease_expiry(seconds)]
                       ELSE rows[j]]
    BY <1>6 DEF recover_expired
  <2>2. ASSUME NEW i \in Ids, rows[i] # NoRow PROVE RowAdvances(i)
    <3>1. CASE i \in S
      <4>1. Active(i) /\ rows[i] \in Row
        BY <2>1, <3>1, RowKind DEF OldestFirst, Expired
      <4>2. rows'[i] = [rows[i] EXCEPT !.generation = NextGeneration(i), !.lease_owner = owner,
                                       !.lease_expires_at = lease_expiry(seconds)]
        BY <2>1, <3>1
      <4>3. rows'[i].state = "CLAIMED" /\ rows'[i].attempt_count = rows[i].attempt_count
        BY <4>1, <4>2 DEF Row, Active
      <4>4. rows'[i] # NoRow /\ rows[i].state = "CLAIMED"
        BY <4>1, <4>3 DEF NoRow, Active
      <4> QED BY <1>0, <4>3, <4>4 DEF RowAdvances
    <3>2. CASE i \notin S
      <4>1. rows'[i] = rows[i]
        BY <2>1, <3>2
      <4> QED BY <1>0, <4>1 DEF RowAdvances
    <3> QED BY <3>1, <3>2
  <2>3. \A i \in Ids : RowAdvances(i)
    BY <2>2 DEF RowAdvances
  <2> QED BY <1>6, <2>3 DEF recover_expired
<1>7. CASE Clock \/ UNCHANGED vars
  BY <1>7, <1>s DEF Clock, vars
<1> QED BY <1>1, <1>2, <1>3, <1>4, <1>5, <1>6, <1>7 DEF Next, complete_invocation, release_invocation

-----------------------------------------------------------------------------
(* The counters of rows, hours and days add up.                            *)

\* The windows `now' falls in.
HourNow == <<"hour", now \div HourLength>>
DayNow == <<"day", now \div DayLength>>

\* The hour and the day of an instant are two windows.
LEMMA WindowsOf ==
    ASSUME NEW t \in Times
    PROVE  /\ <<"hour", t \div HourLength>> \in Hours
           /\ <<"day", t \div DayLength>> \in Windows \ Hours
<1>1. <<"hour", t \div HourLength>> \in Windows /\ <<"day", t \div DayLength>> \in Windows
  BY DEF Windows, budget_windows
<1> QED BY <1>1 DEF Hours

\* A window is the hour or the day of an instant.
LEMMA WindowKinds ==
    ASSUME NEW w \in Windows
    PROVE  \E t \in Times : \/ w = <<"hour", t \div HourLength>>
                            \/ w = <<"day", t \div DayLength>>
BY DEF Windows, budget_windows

\* There are finitely many hours.
LEMMA HoursFinite == IsFiniteSet(Hours)
<1> DEFINE f == [t \in Times |-> <<"hour", t \div HourLength>>]
           T == {<<"hour", t \div HourLength>> : t \in Times}
<1>1. f \in Surjection(Times, T)
  BY DEF Surjection
<1>2. IsFiniteSet(T)
  <2> HIDE DEF f, T
  <2> QED BY <1>1, FS_Surjection, TablesAssumption DEF TablesAssumption
<1>3. Hours \in SUBSET T
  BY WindowKinds DEF Hours
<1> HIDE DEF T
<1> QED BY <1>2, <1>3, FS_Subset

\* Between two instants of different days lies the end of an hour.
LEMMA DayEndsHour ==
    ASSUME NEW H \in Nat \ {0}, NEW D \in Nat \ {0}, D % H = 0,
           NEW s \in Nat, NEW t \in Nat, s \div D < t \div D
    PROVE  s \div H # t \div H
<1>1. PICK k \in Nat : D = k * H
  <2>1. D = (D \div H) * H + (D % H) /\ D \div H \in Nat
    OBVIOUS
  <2> QED BY <2>1
<1>2. PICK q \in Nat : q = s \div D + 1
  <2>1. s \div D \in Nat
    OBVIOUS
  <2> QED BY <2>1
<1>3. s < q * D
  BY <1>2
<1>4. q * D <= t
  <2>1. q <= t \div D /\ t \div D \in Nat
    BY <1>2
  <2>2. PICK u \in Nat : u = t \div D
    BY <2>1
  <2>3. u * D <= t
    BY <2>2
  <2>4. q * D <= u * D
    BY <2>1, <2>2
  <2> QED BY <2>3, <2>4
<1>5. PICK n \in Nat : n = q * k
  OBVIOUS
<1>6. q * D = n * H
  BY <1>1, <1>5
<1>7. s \div H < n
  BY <1>3, <1>6
<1>8. n <= t \div H
  BY <1>4, <1>6
<1> QED BY <1>7, <1>8

\* Two instants of one hour are of one day.
LEMMA HourInDay ==
    ASSUME NEW s \in Times, NEW t \in Times, s \div HourLength = t \div HourLength
    PROVE  s \div DayLength = t \div DayLength
<1>1. s \in Nat /\ t \in Nat /\ HourLength \in Nat \ {0} /\ DayLength \in Nat \ {0}
      /\ DayLength % HourLength = 0
  BY LedgerAssumption, TablesAssumption DEF LedgerAssumption, TablesAssumption
<1>2. s \div DayLength \in Int /\ t \div DayLength \in Int
  BY <1>1
<1>3. ~(s \div DayLength < t \div DayLength)
  BY <1>1, DayEndsHour
<1>4. ~(t \div DayLength < s \div DayLength)
  BY <1>1, DayEndsHour
<1> QED BY <1>2, <1>3, <1>4

\* The windows a transaction charges: one hour, and the day that hour is in.
LEMMA WindowsNow ==
    ASSUME now \in Times
    PROVE  /\ HourNow \in Hours /\ DayNow \in Windows \ Hours
           /\ \A w \in Hours : w \in budget_windows(now) <=> w = HourNow
           /\ \A d \in Windows \ Hours :
                /\ d \in budget_windows(now) <=> d = DayNow
                /\ HourNow \in HoursOf(d) <=> d = DayNow
<1>1. HourNow \in Hours /\ DayNow \in Windows \ Hours
  BY WindowsOf DEF HourNow, DayNow
<1>2. \A w : w \in budget_windows(now) <=> w = HourNow \/ w = DayNow
  BY DEF budget_windows, HourNow, DayNow
<1>3. ASSUME NEW d \in Windows \ Hours, HourNow \in HoursOf(d)
      PROVE  d = DayNow
  <2>1. PICK t \in Times : HourNow[2] = t \div HourLength /\ d = <<"day", t \div DayLength>>
    BY <1>3 DEF HoursOf
  <2>2. now \div HourLength = t \div HourLength
    BY <2>1 DEF HourNow
  <2>3. now \div DayLength = t \div DayLength
    BY <2>2, HourInDay
  <2> QED BY <2>1, <2>3 DEF DayNow
<1>4. HourNow \in HoursOf(DayNow)
  BY <1>1 DEF HoursOf, HourNow, DayNow
<1> QED BY <1>1, <1>2, <1>3, <1>4

\* Counting a unit of model m in the windows of `now' adds one to every sum of
\* hours of m that the current hour is in, and changes no other.
LEMMA CountSum ==
    ASSUME now \in Times, NEW table \in [Models -> [Windows -> Nat]], NEW m \in Models,
           NEW n \in Models, NEW S \in SUBSET Hours
    PROVE  SumFunctionOnSet(Count(table, m, budget_windows(now))[n], S) =
             SumFunctionOnSet(table[n], S) + (IF n = m /\ HourNow \in S THEN 1 ELSE 0)
<1> DEFINE f == table[n]
           h == Count(table, m, budget_windows(now))[n]
<1>0. IsFiniteSet(S) /\ S \subseteq Windows
  BY HoursFinite, FS_Subset DEF Hours
<1>1. \A w \in S : f[w] \in Nat /\ h[w] \in Nat
  BY <1>0, CountType
<1>2. \A w \in S : h[w] = IF n = m /\ w = HourNow THEN f[w] + 1 ELSE f[w]
  BY <1>0, CountCell, WindowsNow
<1> HIDE DEF f, h
<1>3. SumFunctionOnSet(f, S) \in Int
  BY <1>0, <1>1, SumType
<1>4. CASE n = m /\ HourNow \in S
  <2>1. SumFunctionOnSet(h, S) = SumFunctionOnSet(f, S) + (h[HourNow] - f[HourNow])
    BY <1>0, <1>1, <1>2, <1>4, SumChange
  <2>2. h[HourNow] = f[HourNow] + 1 /\ f[HourNow] \in Int
    BY <1>1, <1>2, <1>4
  <2> QED BY <2>1, <2>2, <1>3, <1>4 DEF f, h
<1>5. CASE ~(n = m /\ HourNow \in S)
  <2>1. SumFunctionOnSet(f, S) = SumFunctionOnSet(h, S)
    BY <1>0, <1>1, <1>2, <1>5, SumSame
  <2> QED BY <2>1, <1>3, <1>5 DEF f, h
<1> QED BY <1>4, <1>5

\* _reserve keeps every day the sum of its hours.
LEMMA ReserveDay ==
    ASSUME TypeOK, DayIsSumOfHours, NEW m \in Models, reserve(m)
    PROVE  DayIsSumOfHours'
<1> SUFFICES ASSUME NEW n \in Models, NEW d \in Windows \ Hours
             PROVE  reserved'[n][d] = SumFunctionOnSet(reserved'[n], HoursOf(d))
  BY DEF DayIsSumOfHours
<1>1. now \in Times /\ reserved \in [Models -> [Windows -> Nat]] /\ reserved[n][d] \in Nat
  BY DEF TypeOK
<1>2. HoursOf(d) \in SUBSET Hours
  BY DEF HoursOf
<1>3. SumFunctionOnSet(reserved'[n], HoursOf(d)) =
        SumFunctionOnSet(reserved[n], HoursOf(d)) + (IF n = m /\ HourNow \in HoursOf(d) THEN 1 ELSE 0)
  BY <1>1, <1>2, CountSum DEF reserve
<1>4. reserved'[n][d] = IF n = m /\ d = DayNow THEN reserved[n][d] + 1 ELSE reserved[n][d]
  BY <1>1, CountCell, WindowsNow DEF reserve
<1>5. HourNow \in HoursOf(d) <=> d = DayNow
  BY <1>1, WindowsNow
<1>6. reserved[n][d] = SumFunctionOnSet(reserved[n], HoursOf(d))
  BY DEF DayIsSumOfHours
<1> QED BY <1>1, <1>3, <1>4, <1>5, <1>6

-----------------------------------------------------------------------------
(* What a row was charged, and what its requests were.                     *)

\* What model m was charged for row i: one unit at the claim, which covers the
\* first attempt, and one for every further attempt.
Charge(i, m) ==
    IF RowOf(i, m) THEN IF rows[i].attempt_count = 0 THEN 1 ELSE rows[i].attempt_count ELSE 0

\* The hours of a model hold exactly what its rows were charged.
ReservedIsCharged ==
    \A m \in Models :
        SumFunction([i \in Ids |-> Charge(i, m)]) = SumFunctionOnSet(reserved[m], Hours)

\* What the sums below add are naturals.
LEMMA RowNumbers ==
    ASSUME TypeOK, NEW i \in Ids, NEW m \in Models
    PROVE  /\ Charge(i, m) \in Nat /\ Attempts(i, m) \in Nat /\ Demand(i) \in Nat
           /\ Attempts(i, m) <= Charge(i, m)
<1>1. CASE rows[i] = NoRow
  BY <1>1 DEF Charge, Attempts, Demand, RowOf
<1>2. CASE rows[i] # NoRow
  <2>1. rows[i] \in Row
    BY <1>2, RowKind
  <2>2. rows[i].attempt_count \in Nat /\ rows[i].demand_count \in Nat
    BY <2>1 DEF Row
  <2> QED BY <1>2, <2>2 DEF Charge, Attempts, Demand, RowOf
<1> QED BY <1>1, <1>2

\* The numbers of every row are naturals.
RowsCount == \A i \in Ids, m \in Models : Charge(i, m) \in Nat /\ Demand(i) \in Nat

\* They are in this state.
LEMMA RowsNumbers == TypeOK => RowsCount
BY RowNumbers DEF RowsCount

\* They are in the next state.
LEMMA RowsNumbersAfter == TypeOK' => RowsCount'
BY RowsNumbers, PTL

\* Sums over all ids of values that change for one id only.
LEMMA SumOneId ==
    ASSUME NEW f \in [Ids -> Nat], NEW h \in [Ids -> Nat], NEW k \in Ids,
           \A i \in Ids \ {k} : h[i] = f[i]
    PROVE  /\ SumFunction(f) \in Int
           /\ SumFunction(h) = SumFunction(f) + (h[k] - f[k])
<1>1. DOMAIN f = Ids /\ DOMAIN h = Ids /\ IsFiniteSet(Ids)
  BY TablesAssumption DEF TablesAssumption
<1>2. \A i \in Ids : f[i] \in Int /\ h[i] \in Int
  OBVIOUS
<1>3. SumFunctionOnSet(h, Ids) = SumFunctionOnSet(f, Ids) + (h[k] - f[k])
  BY <1>1, <1>2, SumChange
<1>4. SumFunctionOnSet(f, Ids) \in Int
  BY <1>1, <1>2, SumType
<1> QED BY <1>1, <1>3, <1>4 DEF SumFunction

\* A step that writes one row changes the charges and the demand by that row's.
LEMMA OneRow ==
    ASSUME TypeOK, TypeOK', NEW k \in Ids, \A i \in Ids \ {k} : rows'[i] = rows[i],
           NEW m \in Models
    PROVE  /\ SumFunction([i \in Ids |-> Charge(i, m)]) \in Int
           /\ SumFunction([i \in Ids |-> Demand(i)]) \in Int
           /\ SumFunction([i \in Ids |-> Charge(i, m)])' =
                SumFunction([i \in Ids |-> Charge(i, m)]) + (Charge(k, m)' - Charge(k, m))
           /\ SumFunction([i \in Ids |-> Demand(i)])' =
                SumFunction([i \in Ids |-> Demand(i)]) + (Demand(k)' - Demand(k))
<1>1. \A i \in Ids : Charge(i, m) \in Nat /\ Demand(i) \in Nat
  BY RowNumbers
<1>2. \A i \in Ids : Charge(i, m)' \in Nat /\ Demand(i)' \in Nat
  BY RowsNumbersAfter DEF RowsCount
<1>3. \A i \in Ids \ {k} : Charge(i, m)' = Charge(i, m) /\ Demand(i)' = Demand(i)
  BY DEF Charge, Demand, RowOf
<1>4. PICK f, h : f = [i \in Ids |-> Charge(i, m)] /\ h = [i \in Ids |-> Charge(i, m)']
  OBVIOUS
<1>5. PICK d, e : d = [i \in Ids |-> Demand(i)] /\ e = [i \in Ids |-> Demand(i)']
  OBVIOUS
<1>6. f \in [Ids -> Nat] /\ h \in [Ids -> Nat] /\ \A i \in Ids \ {k} : h[i] = f[i]
  BY <1>1, <1>2, <1>3, <1>4
<1>7. d \in [Ids -> Nat] /\ e \in [Ids -> Nat] /\ \A i \in Ids \ {k} : e[i] = d[i]
  BY <1>1, <1>2, <1>3, <1>5
<1>8. SumFunction(f) \in Int /\ SumFunction(h) = SumFunction(f) + (h[k] - f[k])
  BY <1>6, SumOneId
<1>9. SumFunction(d) \in Int /\ SumFunction(e) = SumFunction(d) + (e[k] - d[k])
  BY <1>7, SumOneId
<1> QED BY <1>4, <1>5, <1>8, <1>9

\* The units in the hours of a model are a number.
LEMMA HoursNumber ==
    ASSUME TypeOK, NEW m \in Models
    PROVE  SumFunctionOnSet(reserved[m], Hours) \in Int
<1>1. \A w \in Hours : reserved[m][w] \in Int
  BY DEF TypeOK, Hours
<1> QED BY <1>1, HoursFinite, SumType

\* A reservation and a row charged one unit more go together.
LEMMA ChargeOne ==
    ASSUME TypeOK, TypeOK', ReservedIsCharged, NEW m \in Models, reserve(m),
           NEW k \in Ids, \A i \in Ids \ {k} : rows'[i] = rows[i],
           Charge(k, m)' = Charge(k, m) + 1,
           \A n \in Models \ {m} : Charge(k, n)' = Charge(k, n)
    PROVE  ReservedIsCharged'
<1> SUFFICES ASSUME NEW n \in Models
             PROVE  SumFunction([i \in Ids |-> Charge(i, n)])' = SumFunctionOnSet(reserved'[n], Hours)
  BY DEF ReservedIsCharged
<1>1. /\ SumFunction([i \in Ids |-> Charge(i, n)]) \in Int
      /\ SumFunction([i \in Ids |-> Charge(i, n)])' =
           SumFunction([i \in Ids |-> Charge(i, n)]) + (Charge(k, n)' - Charge(k, n))
  BY OneRow
<1>2. now \in Times /\ reserved \in [Models -> [Windows -> Nat]]
  BY DEF TypeOK
<1>3. SumFunctionOnSet(reserved'[n], Hours) =
        SumFunctionOnSet(reserved[n], Hours) + (IF n = m /\ HourNow \in Hours THEN 1 ELSE 0)
  <2>1. reserved' = Count(reserved, m, budget_windows(now))
    BY DEF reserve
  <2>2. Hours \in SUBSET Hours
    OBVIOUS
  <2>3. SumFunctionOnSet(Count(reserved, m, budget_windows(now))[n], Hours) =
          SumFunctionOnSet(reserved[n], Hours) + (IF n = m /\ HourNow \in Hours THEN 1 ELSE 0)
    BY <1>2, <2>2, CountSum
  <2> QED BY <2>1, <2>3
<1>4. HourNow \in Hours
  BY <1>2, WindowsNow
<1>5. Charge(k, n) \in Nat
  BY RowNumbers
<1>6. SumFunction([i \in Ids |-> Charge(i, n)]) = SumFunctionOnSet(reserved[n], Hours)
  BY DEF ReservedIsCharged
<1>7. Charge(k, n)' - Charge(k, n) = IF n = m THEN 1 ELSE 0
  BY <1>5
<1> QED BY <1>1, <1>3, <1>4, <1>6, <1>7

\* A step that reserves nothing and charges no row more keeps the sums.
LEMMA ChargeNone ==
    ASSUME ReservedIsCharged, UNCHANGED reserved,
           \A i \in Ids, m \in Models : Charge(i, m)' = Charge(i, m)
    PROVE  ReservedIsCharged'
<1> SUFFICES ASSUME NEW m \in Models
             PROVE  SumFunction([i \in Ids |-> Charge(i, m)])' = SumFunctionOnSet(reserved'[m], Hours)
  BY DEF ReservedIsCharged
<1>1. [i \in Ids |-> Charge(i, m)'] = [i \in Ids |-> Charge(i, m)]
  OBVIOUS
<1>2. SumFunction([i \in Ids |-> Charge(i, m)]) = SumFunctionOnSet(reserved[m], Hours)
  BY DEF ReservedIsCharged
<1> QED BY <1>1, <1>2

-----------------------------------------------------------------------------
(* One lemma per operation of the store.                                   *)

\* A row that keeps its model and its attempts keeps its charge, whatever else
\* is written to it.
LEMMA ChargeKept ==
    ASSUME NEW i \in Ids, NEW m \in Models,
           rows[i] = NoRow <=> rows'[i] = NoRow,
           rows[i] # NoRow => /\ rows'[i].model = rows[i].model
                              /\ rows'[i].attempt_count = rows[i].attempt_count
    PROVE  Charge(i, m)' = Charge(i, m)
BY DEF Charge, RowOf

\* claim_invocation, duplicate: no row is charged more.
LEMMA DuplicateCharges ==
    ASSUME TypeOK, ReservedIsCharged, NEW identity, NEW m, ClaimDuplicate(identity, m)
    PROVE  ReservedIsCharged'
<1>1. PICK k \in Ids : Active(k) /\ rows' = [rows EXCEPT ![k].demand_count = @ + 1]
  BY DEF ClaimDuplicate, ActiveWith
<1>2. rows[k] \in Row
  BY <1>1, RowKind
<1>3. ASSUME NEW i \in Ids, NEW n \in Models PROVE Charge(i, n)' = Charge(i, n)
  <2>1. CASE i = k
    <3>1. /\ rows'[k].model = rows[k].model /\ rows'[k].attempt_count = rows[k].attempt_count
          /\ rows'[k].state = rows[k].state
      BY <1>1, <1>2 DEF TypeOK, Row
    <3>2. rows[k] # NoRow /\ rows'[k] # NoRow
      BY <1>1, <3>1 DEF Active, NoRow
    <3> QED BY <2>1, <3>1, <3>2, ChargeKept
  <2>2. CASE i # k
    <3>1. rows'[i] = rows[i]
      BY <1>1, <2>2 DEF TypeOK
    <3> QED BY <3>1 DEF Charge, RowOf
  <2> QED BY <2>1, <2>2
<1> QED BY <1>3, ChargeNone DEF ClaimDuplicate

\* claim_invocation, claimed: the new row's first unit is reserved.
LEMMA ClaimCharges ==
    ASSUME TypeOK, TypeOK', ReservedIsCharged, NEW identity, NEW m \in Models,
           NEW owner, NEW seconds, Claim(identity, m, owner, seconds)
    PROVE  ReservedIsCharged'
<1>1. PICK k \in Ids :
        /\ rows[k] = NoRow
        /\ rows' = [rows EXCEPT ![k] =
             [identity |-> identity, model |-> m, state |-> "CLAIMED", generation |-> 1,
              lease_owner |-> owner, lease_expires_at |-> lease_expiry(seconds),
              demand_count |-> 1, attempt_count |-> 0]]
  BY DEF Claim
<1>2. \A i \in Ids \ {k} : rows'[i] = rows[i]
  BY <1>1 DEF TypeOK
<1>3. rows'[k].model = m /\ rows'[k].attempt_count = 0 /\ rows'[k].state = "CLAIMED"
  BY <1>1 DEF TypeOK
<1>4. rows'[k] # NoRow
  BY <1>3 DEF NoRow
<1>5. \A n \in Models : Charge(k, n) = 0 /\ Charge(k, n)' = IF n = m THEN 1 ELSE 0
  BY <1>1, <1>3, <1>4 DEF Charge, RowOf
<1>6. reserve(m)
  BY DEF Claim
<1> QED BY <1>2, <1>5, <1>6, ChargeOne

\* record_attempt: the first attempt is covered by the claim's unit, a later one
\* reserves its own.
LEMMA AttemptCharges ==
    ASSUME TypeOK, TypeOK', ReservedIsCharged, NEW l \in leases, record_attempt(l)
    PROVE  ReservedIsCharged'
<1>1. PICK k \in Ids : k = l.invocation_id /\ rows[k] \in Row /\ Active(k)
  BY HolderRow DEF record_attempt, HolderAction
<1>2. rows' = [rows EXCEPT ![k].attempt_count = @ + 1]
  BY <1>1 DEF record_attempt
<1>3. PICK m \in Models : m = rows[k].model
  BY <1>1 DEF Row
<1>4. \A i \in Ids \ {k} : rows'[i] = rows[i]
  BY <1>2 DEF TypeOK
<1>5. /\ rows'[k].model = m /\ rows'[k].attempt_count = rows[k].attempt_count + 1
      /\ rows'[k].state = rows[k].state /\ rows[k].attempt_count \in Nat
  BY <1>1, <1>2, <1>3 DEF TypeOK, Row
<1>6. rows[k] # NoRow /\ rows'[k] # NoRow
  BY <1>1, <1>5 DEF Active, NoRow
<1>7. \A n \in Models \ {m} : Charge(k, n) = 0 /\ Charge(k, n)' = 0
  BY <1>3, <1>5, <1>6 DEF Charge, RowOf
<1>8. CASE rows[k].attempt_count = 0
  <2>1. UNCHANGED reserved
    BY <1>1, <1>8 DEF record_attempt, CoveredByClaim
  <2>2. Charge(k, m)' = Charge(k, m)
    BY <1>3, <1>5, <1>6, <1>8 DEF Charge, RowOf
  <2>3. \A i \in Ids \ {k}, n \in Models : Charge(i, n)' = Charge(i, n)
    BY <1>4 DEF Charge, RowOf
  <2> QED BY <1>7, <2>1, <2>2, <2>3, ChargeNone
<1>9. CASE rows[k].attempt_count # 0
  <2>1. reserve(m)
    BY <1>1, <1>3, <1>9 DEF record_attempt, CoveredByClaim
  <2>2. Charge(k, m)' = Charge(k, m) + 1
    BY <1>3, <1>5, <1>6, <1>9 DEF Charge, RowOf
  <2> QED BY <1>4, <1>7, <2>1, <2>2, ChargeOne
<1> QED BY <1>8, <1>9

\* complete_invocation and release_invocation charge nothing and give nothing back.
LEMMA EndCharges ==
    ASSUME TypeOK, ReservedIsCharged, NEW l \in leases, NEW state \in {"COMPLETED", "RELEASED"},
           EndInvocation(l, state)
    PROVE  ReservedIsCharged'
<1>1. PICK k \in Ids : k = l.invocation_id /\ rows[k] \in Row /\ Active(k)
  BY HolderRow DEF EndInvocation, HolderAction
<1>2. rows' = [rows EXCEPT ![k].state = state]
  BY <1>1 DEF EndInvocation
<1>3. ASSUME NEW i \in Ids, NEW n \in Models PROVE Charge(i, n)' = Charge(i, n)
  <2>1. CASE i = k
    <3>1. /\ rows'[k].model = rows[k].model /\ rows'[k].attempt_count = rows[k].attempt_count
          /\ rows'[k].state = state
      BY <1>1, <1>2 DEF TypeOK, Row
    <3>2. rows[k] # NoRow /\ rows'[k] # NoRow
      BY <1>1, <3>1 DEF Active, NoRow
    <3> QED BY <2>1, <3>1, <3>2, ChargeKept
  <2>2. CASE i # k
    <3>1. rows'[i] = rows[i]
      BY <1>2, <2>2 DEF TypeOK
    <3> QED BY <3>1 DEF Charge, RowOf
  <2> QED BY <2>1, <2>2
<1> QED BY <1>3, ChargeNone DEF EndInvocation

\* What a recovery leaves of every row: its model and both of its counts.
LEMMA RecoverKeeps ==
    ASSUME TypeOK, NEW owner, NEW seconds, recover_expired(owner, seconds), NEW i \in Ids
    PROVE  /\ rows[i] = NoRow <=> rows'[i] = NoRow
           /\ rows[i] # NoRow => /\ rows'[i].model = rows[i].model
                                 /\ rows'[i].attempt_count = rows[i].attempt_count
                                 /\ rows'[i].demand_count = rows[i].demand_count
<1>1. PICK S \in SUBSET Ids :
        /\ OldestFirst(S)
        /\ rows' = [j \in Ids |-> IF j \in S
                     THEN [rows[j] EXCEPT !.generation = @ + 1, !.lease_owner = owner,
                                          !.lease_expires_at = lease_expiry(seconds)]
                     ELSE rows[j]]
  BY DEF recover_expired, NextGeneration
<1>2. CASE i \in S
  <2>1. Active(i) /\ rows[i] \in Row
    BY <1>1, <1>2, RowKind DEF OldestFirst, Expired
  <2>2. /\ rows'[i].model = rows[i].model /\ rows'[i].attempt_count = rows[i].attempt_count
        /\ rows'[i].demand_count = rows[i].demand_count /\ rows'[i].state = rows[i].state
    BY <1>1, <1>2, <2>1 DEF Row
  <2>3. rows[i] # NoRow /\ rows'[i] # NoRow
    BY <2>1, <2>2 DEF Active, NoRow
  <2> QED BY <2>2, <2>3
<1>3. CASE i \notin S
  BY <1>1, <1>3
<1> QED BY <1>2, <1>3

-----------------------------------------------------------------------------
(* Demand.                                                                 *)

\* What was asked for and not refused, by model and hour.
AdmittedTable == [p \in Models \X Hours |-> Admitted(p)]

\* There are finitely many pairs of a model and an hour, and each admitted some
\* number of requests.
LEMMA AdmittedNumbers ==
    ASSUME TypeOK
    PROVE  /\ IsFiniteSet(Models \X Hours)
           /\ \A p \in Models \X Hours : Admitted(p) \in Int
           /\ SumFunction(AdmittedTable) \in Int
<1>1. IsFiniteSet(Models \X Hours)
  BY HoursFinite, FS_Product, TablesAssumption DEF TablesAssumption
<1>2. ASSUME NEW p \in Models \X Hours PROVE Admitted(p) \in Int
  <2>1. p[1] \in Models /\ p[2] \in Windows
    BY DEF Hours
  <2>2. observed[p[1]][p[2]] \in Nat /\ refused[p[1]][p[2]] \in Nat
    BY <2>1 DEF TypeOK
  <2> QED BY <2>2 DEF Admitted
<1>3. SumFunctionOnSet(AdmittedTable, Models \X Hours) \in Int
  <2>1. \A p \in Models \X Hours : AdmittedTable[p] \in Int
    BY <1>2 DEF AdmittedTable
  <2> QED BY <1>1, <2>1, SumType
<1>4. DOMAIN AdmittedTable = Models \X Hours
  BY DEF AdmittedTable
<1> QED BY <1>1, <1>2, <1>3, <1>4 DEF SumFunction

\* One more request observed for a model and not refused.
LEMMA AdmitOne ==
    ASSUME TypeOK, NEW m \in Models, observed' = Count(observed, m, budget_windows(now)),
           UNCHANGED refused
    PROVE  SumFunction(AdmittedTable)' = SumFunction(AdmittedTable) + 1
<1>1. PICK y \in Models \X Hours : y = <<m, HourNow>>
  BY WindowsNow DEF TypeOK
<1>2. ASSUME NEW p \in Models \X Hours
      PROVE  Admitted(p)' = IF p = y THEN Admitted(p) + 1 ELSE Admitted(p)
  <2>1. p[1] \in Models /\ p[2] \in Hours /\ p = <<p[1], p[2]>> /\ p[2] \in Windows
    BY DEF Hours
  <2>2. observed[p[1]][p[2]] \in Nat /\ refused[p[1]][p[2]] \in Nat
    BY <2>1 DEF TypeOK
  <2>3. observed'[p[1]][p[2]] = IF p[1] = m /\ p[2] = HourNow
                                THEN observed[p[1]][p[2]] + 1 ELSE observed[p[1]][p[2]]
    BY <2>1, CountCell, WindowsNow DEF TypeOK
  <2>4. p = y <=> p[1] = m /\ p[2] = HourNow
    BY <1>1, <2>1
  <2> QED BY <2>2, <2>3, <2>4 DEF Admitted
<1>3. PICK f : f = AdmittedTable
  OBVIOUS
<1>4. PICK h : h = [p \in Models \X Hours |-> Admitted(p)']
  OBVIOUS
<1>5. h = AdmittedTable'
  BY <1>4 DEF AdmittedTable
<1>6. \A p \in Models \X Hours : /\ f[p] \in Int /\ h[p] \in Int
                                 /\ h[p] = IF p = y THEN f[p] + 1 ELSE f[p]
  BY <1>2, <1>3, <1>4, AdmittedNumbers DEF AdmittedTable
<1>7. SumFunctionOnSet(h, Models \X Hours) =
        SumFunctionOnSet(f, Models \X Hours) + (h[y] - f[y])
  BY <1>6, AdmittedNumbers, SumChange
<1>8. SumFunction(f) = SumFunctionOnSet(f, Models \X Hours)
      /\ SumFunction(h) = SumFunctionOnSet(h, Models \X Hours)
  BY <1>3, <1>4 DEF SumFunction, AdmittedTable
<1>9. SumFunction(f) \in Int
  BY <1>3, AdmittedNumbers
<1>10. h[y] - f[y] = 1
  BY <1>1, <1>6
<1> QED BY <1>3, <1>5, <1>7, <1>8, <1>9, <1>10

\* A request that is observed and refused is not admitted.
LEMMA AdmitNone ==
    ASSUME TypeOK, NEW m \in Models, observed' = Count(observed, m, budget_windows(now)),
           refused' = Count(refused, m, budget_windows(now))
    PROVE  SumFunction(AdmittedTable)' = SumFunction(AdmittedTable)
<1>1. ASSUME NEW p \in Models \X Hours PROVE Admitted(p)' = Admitted(p)
  <2>1. p[1] \in Models /\ p[2] \in Windows
    BY DEF Hours
  <2>2. observed[p[1]][p[2]] \in Nat /\ refused[p[1]][p[2]] \in Nat
    BY <2>1 DEF TypeOK
  <2>3. observed'[p[1]][p[2]] = IF p[1] = m /\ p[2] \in budget_windows(now)
                                THEN observed[p[1]][p[2]] + 1 ELSE observed[p[1]][p[2]]
    <3>1. observed \in [Models -> [Windows -> Nat]]
      BY DEF TypeOK
    <3> QED BY <2>1, <3>1, CountCell
  <2>4. refused'[p[1]][p[2]] = IF p[1] = m /\ p[2] \in budget_windows(now)
                               THEN refused[p[1]][p[2]] + 1 ELSE refused[p[1]][p[2]]
    <3>1. refused \in [Models -> [Windows -> Nat]]
      BY DEF TypeOK
    <3> QED BY <2>1, <3>1, CountCell
  <2> QED BY <2>2, <2>3, <2>4 DEF Admitted
<1>2. AdmittedTable' = AdmittedTable
  BY <1>1 DEF AdmittedTable
<1> QED BY <1>2

\* claim_invocation, duplicate: the request joins the active row's demand.
LEMMA DuplicateDemand ==
    ASSUME TypeOK, TypeOK', DemandAccounted, NEW identity, NEW m \in Models,
           ClaimDuplicate(identity, m)
    PROVE  DemandAccounted'
<1>1. PICK k \in Ids : Active(k) /\ rows' = [rows EXCEPT ![k].demand_count = @ + 1]
  BY DEF ClaimDuplicate, ActiveWith
<1>2. rows[k] \in Row
  BY <1>1, RowKind
<1>3. /\ rows'[k].demand_count = rows[k].demand_count + 1 /\ rows'[k].state = rows[k].state
      /\ rows[k].demand_count \in Nat
  BY <1>1, <1>2 DEF TypeOK, Row
<1>4. rows[k] # NoRow /\ rows'[k] # NoRow
  BY <1>1, <1>3 DEF Active, NoRow
<1>5. Demand(k)' = Demand(k) + 1 /\ Demand(k) \in Nat
  BY <1>3, <1>4 DEF Demand
<1>6. \A i \in Ids \ {k} : rows'[i] = rows[i]
  BY <1>1 DEF TypeOK
<1>7. /\ SumFunction([i \in Ids |-> Demand(i)]) \in Int
      /\ SumFunction([i \in Ids |-> Demand(i)])' =
           SumFunction([i \in Ids |-> Demand(i)]) + (Demand(k)' - Demand(k))
  BY <1>6, OneRow
<1>8. SumFunction(AdmittedTable)' = SumFunction(AdmittedTable) + 1
  BY AdmitOne DEF ClaimDuplicate, Observe
<1> QED BY <1>5, <1>7, <1>8 DEF DemandAccounted, AdmittedTable

\* claim_invocation, claimed: the new row carries the request it answers.
LEMMA ClaimDemand ==
    ASSUME TypeOK, TypeOK', DemandAccounted, NEW identity, NEW m \in Models,
           NEW owner, NEW seconds, Claim(identity, m, owner, seconds)
    PROVE  DemandAccounted'
<1>1. PICK k \in Ids :
        /\ rows[k] = NoRow
        /\ rows' = [rows EXCEPT ![k] =
             [identity |-> identity, model |-> m, state |-> "CLAIMED", generation |-> 1,
              lease_owner |-> owner, lease_expires_at |-> lease_expiry(seconds),
              demand_count |-> 1, attempt_count |-> 0]]
  BY DEF Claim
<1>2. \A i \in Ids \ {k} : rows'[i] = rows[i]
  BY <1>1 DEF TypeOK
<1>3. rows'[k].demand_count = 1 /\ rows'[k].state = "CLAIMED"
  BY <1>1 DEF TypeOK
<1>4. Demand(k) = 0 /\ Demand(k)' = 1
  BY <1>1, <1>3 DEF Demand, NoRow
<1>5. /\ SumFunction([i \in Ids |-> Demand(i)]) \in Int
      /\ SumFunction([i \in Ids |-> Demand(i)])' =
           SumFunction([i \in Ids |-> Demand(i)]) + (Demand(k)' - Demand(k))
  BY <1>2, OneRow
<1>6. SumFunction(AdmittedTable)' = SumFunction(AdmittedTable) + 1
  BY AdmitOne DEF Claim, Observe
<1> QED BY <1>4, <1>5, <1>6 DEF DemandAccounted, AdmittedTable

\* A step that answers no request leaves both sides of the account alone.
LEMMA DemandKept ==
    ASSUME DemandAccounted, SumFunction(AdmittedTable)' = SumFunction(AdmittedTable),
           \A i \in Ids : Demand(i)' = Demand(i)
    PROVE  DemandAccounted'
<1>1. [i \in Ids |-> Demand(i)'] = [i \in Ids |-> Demand(i)]
  OBVIOUS
<1> QED BY <1>1 DEF DemandAccounted, AdmittedTable

\* A holder's action writes no demand.
LEMMA HolderDemand ==
    ASSUME TypeOK, DemandAccounted, NEW l \in leases, HolderAction(l),
           UNCHANGED <<observed, refused>>,
           \/ rows' = [rows EXCEPT ![l.invocation_id].attempt_count = @ + 1]
           \/ \E state \in {"COMPLETED", "RELEASED"} :
                rows' = [rows EXCEPT ![l.invocation_id].state = state]
    PROVE  DemandAccounted'
<1>1. PICK k \in Ids : k = l.invocation_id /\ rows[k] \in Row /\ Active(k)
  BY HolderRow DEF HolderAction
<1>2. /\ rows'[k].demand_count = rows[k].demand_count
      /\ rows'[k].state \in {"CLAIMED", "COMPLETED", "RELEASED"}
  <2>0. rows[k].state = "CLAIMED"
    BY <1>1 DEF Active
  <2>1. CASE rows' = [rows EXCEPT ![k].attempt_count = @ + 1]
    BY <1>1, <2>0, <2>1 DEF TypeOK, Row
  <2>2. CASE \E state \in {"COMPLETED", "RELEASED"} : rows' = [rows EXCEPT ![k].state = state]
    BY <1>1, <2>2 DEF TypeOK, Row
  <2> QED BY <1>1, <2>1, <2>2
<1>3. rows[k] # NoRow /\ rows'[k] # NoRow
  BY <1>1, <1>2 DEF Active, NoRow
<1>4. \A i \in Ids \ {k} : rows'[i] = rows[i]
  BY <1>1 DEF TypeOK
<1>5. \A i \in Ids : Demand(i)' = Demand(i)
  BY <1>2, <1>3, <1>4 DEF Demand
<1>6. AdmittedTable' = AdmittedTable
  BY DEF AdmittedTable, Admitted
<1> QED BY <1>5, <1>6, DemandKept

-----------------------------------------------------------------------------
\* The hours of a model cover its attempts because they hold what its rows were
\* charged, and a row is charged no less than its attempts.
LEMMA ChargedCovers == TypeOK /\ ReservedIsCharged => ReservedCoversAttempts
<1> SUFFICES ASSUME TypeOK, ReservedIsCharged, NEW m \in Models
             PROVE  SumFunction([i \in Ids |-> Attempts(i, m)])
                      <= SumFunctionOnSet(reserved[m], Hours)
  BY DEF ReservedCoversAttempts
<1>1. PICK f, h : f = [i \in Ids |-> Attempts(i, m)] /\ h = [i \in Ids |-> Charge(i, m)]
  OBVIOUS
<1>2. \A i \in Ids : f[i] \in Int /\ h[i] \in Int /\ f[i] <= h[i]
  BY <1>1, RowNumbers
<1>3. SumFunctionOnSet(f, Ids) <= SumFunctionOnSet(h, Ids)
  BY <1>2, SumLeq, TablesAssumption DEF TablesAssumption
<1>4. SumFunction(f) = SumFunctionOnSet(f, Ids) /\ SumFunction(h) = SumFunctionOnSet(h, Ids)
  BY <1>1 DEF SumFunction
<1> QED BY <1>1, <1>3, <1>4 DEF ReservedIsCharged

\* Before the first request everything adds up to nothing.
LEMMA NothingCounted == Init => DayIsSumOfHours /\ ReservedIsCharged /\ DemandAccounted
<1> SUFFICES ASSUME Init PROVE DayIsSumOfHours /\ ReservedIsCharged /\ DemandAccounted
  OBVIOUS
<1>0. IsFiniteSet(Ids) /\ IsFiniteSet(Models \X Hours) /\ Hours \subseteq Windows
  BY HoursFinite, FS_Product, TablesAssumption DEF TablesAssumption, Hours
<1>1. ASSUME NEW m \in Models, NEW S \in SUBSET Hours PROVE SumFunctionOnSet(reserved[m], S) = 0
  <2>1. IsFiniteSet(S) /\ \A w \in S : reserved[m][w] = 0
    BY <1>0, HoursFinite, FS_Subset DEF Init
  <2> QED BY <2>1, SumZero
<1>2. DayIsSumOfHours
  <2> SUFFICES ASSUME NEW m \in Models, NEW d \in Windows \ Hours
               PROVE  reserved[m][d] = SumFunctionOnSet(reserved[m], HoursOf(d))
    BY DEF DayIsSumOfHours
  <2>1. HoursOf(d) \in SUBSET Hours
    BY DEF HoursOf
  <2>2. SumFunctionOnSet(reserved[m], HoursOf(d)) = 0
    BY <1>1, <2>1
  <2> QED BY <2>2 DEF Init
<1>3. ASSUME NEW m \in Models PROVE SumFunction([i \in Ids |-> Charge(i, m)]) = 0
  <2>1. PICK f : f = [i \in Ids |-> Charge(i, m)]
    OBVIOUS
  <2>2. DOMAIN f = Ids /\ \A i \in Ids : f[i] = 0
    BY <2>1 DEF Init, Charge, RowOf
  <2> QED BY <2>1, <2>2, <1>0, SumZero DEF SumFunction
<1>4. SumFunction([i \in Ids |-> Demand(i)]) = 0
  <2>1. PICK f : f = [i \in Ids |-> Demand(i)]
    OBVIOUS
  <2>2. DOMAIN f = Ids /\ \A i \in Ids : f[i] = 0
    BY <2>1 DEF Init, Demand
  <2> QED BY <2>1, <2>2, <1>0, SumZero DEF SumFunction
<1>5. SumFunction([p \in Models \X Hours |-> Admitted(p)]) = 0
  <2>1. PICK f : f = [p \in Models \X Hours |-> Admitted(p)]
    OBVIOUS
  <2>2. ASSUME NEW p \in Models \X Hours PROVE Admitted(p) = 0
    <3>1. p[1] \in Models /\ p[2] \in Windows
      BY <1>0
    <3>2. observed[p[1]][p[2]] = 0 /\ refused[p[1]][p[2]] = 0
      BY <3>1 DEF Init
    <3> QED BY <3>2 DEF Admitted
  <2>3. DOMAIN f = Models \X Hours /\ \A p \in Models \X Hours : f[p] = 0
    BY <2>1, <2>2
  <2> QED BY <2>1, <2>3, <1>0, SumZero DEF SumFunction
<1> QED BY <1>1, <1>2, <1>3, <1>4, <1>5 DEF ReservedIsCharged, DemandAccounted

\* A unit reserved is a unit of an hour, of its day and of a row; a request
\* observed is refused or in one row's demand: in every reachable state the
\* counters claim_invocation, record_attempt and recover_expired write add up.
THEOREM CountersSound == Spec => []CountersAddUp
<1> DEFINE IInv == DayIsSumOfHours /\ ReservedIsCharged /\ DemandAccounted
<1>1. Init => IInv
  BY NothingCounted
<1>2. TypeOK /\ TypeOK' /\ IInv /\ [Next]_vars => IInv'
  <2> SUFFICES ASSUME TypeOK, TypeOK', IInv, [Next]_vars PROVE IInv'
    OBVIOUS
  <2>1. ASSUME NEW identity \in Identities, NEW m \in Models, ClaimDuplicate(identity, m)
        PROVE  IInv'
    <3>1. DayIsSumOfHours'
      BY <2>1 DEF ClaimDuplicate, DayIsSumOfHours
    <3> QED BY <2>1, <3>1, DuplicateCharges, DuplicateDemand
  <2>2. ASSUME NEW identity \in Identities, NEW m \in Models, ClaimRefused(identity, m)
        PROVE  IInv'
    <3>1. UNCHANGED <<rows, reserved>>
      BY <2>2 DEF ClaimRefused
    <3>2. DayIsSumOfHours'
      BY <3>1 DEF DayIsSumOfHours
    <3>3. ReservedIsCharged'
      BY <3>1 DEF ReservedIsCharged, Charge, RowOf
    <3>4. SumFunction(AdmittedTable)' = SumFunction(AdmittedTable)
      BY <2>2, AdmitNone DEF ClaimRefused, Observe
    <3>5. \A i \in Ids : Demand(i)' = Demand(i)
      BY <3>1 DEF Demand
    <3> QED BY <3>2, <3>3, <3>4, <3>5, DemandKept
  <2>3. ASSUME NEW identity \in Identities, NEW m \in Models, NEW owner \in Owners,
               NEW seconds \in LeaseSeconds, Claim(identity, m, owner, seconds)
        PROVE  IInv'
    <3>1. DayIsSumOfHours'
      BY <2>3, ReserveDay DEF Claim
    <3> QED BY <2>3, <3>1, ClaimCharges, ClaimDemand
  <2>4. ASSUME NEW l \in leases, record_attempt(l) PROVE IInv'
    <3>1. rows[l.invocation_id].model \in Models
      BY <2>4, HolderRow DEF record_attempt, HolderAction, Row
    <3>2. DayIsSumOfHours'
      <4>1. CASE UNCHANGED reserved
        BY <4>1 DEF DayIsSumOfHours
      <4>2. CASE reserve(rows[l.invocation_id].model)
        BY <3>1, <4>2, ReserveDay
      <4> QED BY <2>4, <4>1, <4>2 DEF record_attempt
    <3>3. DemandAccounted'
      BY <2>4, HolderDemand DEF record_attempt
    <3> QED BY <2>4, <3>2, <3>3, AttemptCharges
  <2>5. ASSUME NEW l \in leases, NEW state \in {"COMPLETED", "RELEASED"}, EndInvocation(l, state)
        PROVE  IInv'
    <3>1. DayIsSumOfHours'
      BY <2>5 DEF EndInvocation, DayIsSumOfHours
    <3>2. DemandAccounted'
      BY <2>5, HolderDemand DEF EndInvocation
    <3> QED BY <2>5, <3>1, <3>2, EndCharges
  <2>6. ASSUME NEW owner \in Owners, NEW seconds \in LeaseSeconds, recover_expired(owner, seconds)
        PROVE  IInv'
    <3>1. UNCHANGED <<reserved, observed, refused>>
      BY <2>6 DEF recover_expired
    <3>2. DayIsSumOfHours'
      BY <3>1 DEF DayIsSumOfHours
    <3>3. \A i \in Ids, m \in Models : Charge(i, m)' = Charge(i, m)
      BY <2>6, RecoverKeeps, ChargeKept
    <3>4. \A i \in Ids : Demand(i)' = Demand(i)
      BY <2>6, RecoverKeeps DEF Demand
    <3>5. AdmittedTable' = AdmittedTable
      BY <3>1 DEF AdmittedTable, Admitted
    <3> QED BY <3>1, <3>2, <3>3, <3>4, <3>5, ChargeNone, DemandKept
  <2>7. CASE Clock \/ UNCHANGED vars
    <3>1. UNCHANGED <<rows, reserved, observed, refused>>
      BY <2>7 DEF Clock, vars
    <3> QED BY <3>1 DEF DayIsSumOfHours, ReservedIsCharged, DemandAccounted, Charge, RowOf,
                        Demand, Admitted
  <2> QED BY <2>1, <2>2, <2>3, <2>4, <2>5, <2>6, <2>7
          DEF Next, complete_invocation, release_invocation
<1>3. TypeOK /\ IInv => CountersAddUp
  BY ChargedCovers DEF CountersAddUp
<1> HIDE DEF IInv
<1> QED BY <1>1, <1>2, <1>3, TypeCorrect, PTL DEF Spec
=============================================================================
