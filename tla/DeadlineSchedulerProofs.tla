---------------------- MODULE DeadlineSchedulerProofs ----------------------
(* What holds of the deadline scheduler for every set of items, identities,  *)
(* groups and horizons and every policy that SchedulerPolicy accepts.  Each  *)
(* operation is a function of the memory, so the lemmas follow the memory    *)
(* through it: the sweep first, then what the operation adds (MovesTwice).   *)
(* SchedInv is carried by the inductive invariant SchedIInv.                 *)
EXTENDS DeadlineScheduler, FiniteSetTheorems, TLAPS

\* The type of the memory and, of any memory, that its indexes mirror its queue.
Memory == [last_now : Nat, queue : [ItemIds -> Entry \cup {NoEntry}],
           by_identity : [Identities -> ItemIds \cup {None}],
           by_group : [Groups -> ItemIds \cup {None}],
           running : Running \cup {Idle}, slots_used : 0..(FairSlotEvery - 1)]

Indexed(s) ==
    /\ \A i \in Queued(s) : /\ s.queue[i].version.item_id = i
                            /\ s.by_identity[s.queue[i].version.identity] = i
                            /\ s.by_group[s.queue[i].version.group] = i
    /\ \A x \in Identities : s.by_identity[x] # None =>
          /\ s.by_identity[x] \in Queued(s)
          /\ s.queue[s.by_identity[x]].version.identity = x
          /\ s.running # Idle => s.running.version.identity # x
    /\ \A g \in Groups : s.by_group[g] # None =>
          /\ s.by_group[g] \in Queued(s)
          /\ s.queue[s.by_group[g]].version.group = g

(* A nonempty set of numbers has a least one.                                *)
LEMMA LeastNumber == ASSUME NEW T \in SUBSET Nat, T # {} PROVE \E x \in T : \A y \in T : x <= y
<1>0. \E R : /\ \A a, b \in Nat : <<a, b>> \in R <=> a < b
             /\ IsWellFoundedOn(R, Nat)
  <2>1. \A a, b \in Nat : <<a, b>> \in OpToRel(<, Nat) <=> a < b
    BY Zenon DEF OpToRel
  <2> QED BY <2>1, NatLessThanWellFounded, Zenon
<1>1. PICK R : /\ \A a, b \in Nat : <<a, b>> \in R <=> a < b
               /\ IsWellFoundedOn(R, Nat)
  BY <1>0
<1>2. PICK x \in T : \A y \in T : ~ (<<y, x>> \in R)
  <2>1. T \subseteq Nat OBVIOUS
  <2>2. IsWellFoundedOn(R, Nat) BY <1>1
  <2>3. T # {} OBVIOUS
  <2> HIDE <1>1
  <2> QED BY <2>3, <2>2, <2>1, WFMin
<1>3. ASSUME NEW y \in T PROVE x <= y
  <2>1. x \in Nat /\ y \in Nat OBVIOUS
  <2>2. ~ (y < x) BY <2>1, <1>1, <1>2, Zenon
  <2> QED BY <2>1, <2>2
<1> QED BY <1>3

(* A finite set that a relation orders strictly has a first element.         *)
LEMMA FirstOf ==
    ASSUME NEW S, NEW R, IsFiniteSet(S), S # {},
           \A x \in S : <<x, x>> \notin R,
           \A x, y, z \in S : <<x, y>> \in R /\ <<y, z>> \in R => <<x, z>> \in R,
           \A x, y \in S : x # y => <<x, y>> \in R \/ <<y, x>> \in R
    PROVE  \E x \in S : \A y \in S \ {x} : <<x, y>> \in R
<1> DEFINE Below(x) == {y \in S : <<y, x>> \in R}
<1>1. ASSUME NEW x \in S PROVE IsFiniteSet(Below(x)) /\ Cardinality(Below(x)) \in Nat
  BY FS_Subset, FS_CardinalityType
<1>2. ASSUME NEW x \in S, NEW y \in S, <<y, x>> \in R
      PROVE  Below(y) \subseteq Below(x) /\ Below(y) # Below(x)
  BY <1>2
<1> HIDE DEF Below
<1> DEFINE T == {Cardinality(Below(x)) : x \in S}
<1>3. T \in SUBSET Nat /\ T # {}
  BY <1>1
<1>4. PICK n \in T : \A m \in T : n <= m
  <2> HIDE DEF T
  <2> QED BY <1>3, LeastNumber
<1>5. PICK x \in S : n = Cardinality(Below(x))
  BY <1>4
<1>6. ASSUME NEW y \in S, <<y, x>> \in R PROVE FALSE
  <2>1. Cardinality(Below(y)) \in T /\ Cardinality(Below(y)) \in Nat /\ Cardinality(Below(x)) \in Nat
    BY <1>1
  <2>2. Cardinality(Below(y)) < Cardinality(Below(x))
    BY <1>1, <1>2, <1>6, <2>1, FS_Subset
  <2> QED BY <1>4, <1>5, <2>1, <2>2
<1> QED BY <1>6

(* A place in the queue holds an entry or nothing.                           *)
LEMMA EntryOrNone ==
    ASSUME NEW s \in Memory, NEW i \in ItemIds
    PROVE  /\ s.queue[i] # NoEntry => s.queue[i] \in Entry
           /\ s.queue[i] \in Entry => s.queue[i] # NoEntry
BY DEF Memory, NoEntry, Entry

(* Only the queue, the indexes and the running version matter to them.       *)
LEMMA SameIndexes ==
    ASSUME NEW s, NEW r, Indexed(s), r.queue = s.queue, r.by_identity = s.by_identity, r.by_group = s.by_group,
           r.running # Idle => s.running # Idle /\ r.running.version = s.running.version
    PROVE  Indexed(r)
<1>1. Queued(r) = Queued(s)
  BY DEF Queued
<1>2. \A i \in Queued(r) : /\ r.queue[i].version.item_id = i
                           /\ r.by_identity[r.queue[i].version.identity] = i
                           /\ r.by_group[r.queue[i].version.group] = i
  BY <1>1 DEF Indexed
<1>3. ASSUME NEW x \in Identities, r.by_identity[x] # None
      PROVE  /\ r.by_identity[x] \in Queued(r)
             /\ r.queue[r.by_identity[x]].version.identity = x
             /\ r.running # Idle => r.running.version.identity # x
  BY <1>1, <1>3 DEF Indexed
<1>4. ASSUME NEW g \in Groups, r.by_group[g] # None
      PROVE  r.by_group[g] \in Queued(r) /\ r.queue[r.by_group[g]].version.group = g
  BY <1>1, <1>4 DEF Indexed
<1> QED BY <1>2, <1>3, <1>4 DEF Indexed

(* _remove takes exactly the items ids out of the queue and the indexes.     *)
LEMMA Removed ==
    ASSUME NEW s \in Memory, Indexed(s), NEW ids \in SUBSET Queued(s)
    PROVE  /\ _remove(s, ids) \in Memory
           /\ Queued(_remove(s, ids)) = Queued(s) \ ids
           /\ \A i \in Queued(s) \ ids : _remove(s, ids).queue[i] = s.queue[i]
           /\ Indexed(_remove(s, ids))
           /\ _remove(s, ids).running = s.running /\ _remove(s, ids).last_now = s.last_now
           /\ _remove(s, ids).slots_used = s.slots_used
           /\ \A x \in Identities : _remove(s, ids).by_identity[x] \in {None, s.by_identity[x]}
           /\ \A g \in Groups : _remove(s, ids).by_group[g] \in {None, s.by_group[g]}
           /\ \A i \in ids : /\ _remove(s, ids).by_identity[s.queue[i].version.identity] = None
                             /\ _remove(s, ids).by_group[s.queue[i].version.group] = None
<1> DEFINE r == _remove(s, ids)
<1>1. /\ s.queue \in [ItemIds -> Entry \cup {NoEntry}] /\ s.by_identity \in [Identities -> ItemIds \cup {None}]
      /\ s.by_group \in [Groups -> ItemIds \cup {None}]
  BY DEF Memory
<1>2. /\ r.queue = [i \in ItemIds |-> IF i \in ids THEN NoEntry ELSE s.queue[i]]
      /\ r.by_identity = [x \in Identities |->
           IF \E i \in ids : s.queue[i].version.identity = x THEN None ELSE s.by_identity[x]]
      /\ r.by_group = [g \in Groups |->
           IF \E i \in ids : s.queue[i].version.group = g /\ s.by_group[g] = i THEN None ELSE s.by_group[g]]
      /\ r.running = s.running /\ r.last_now = s.last_now /\ r.slots_used = s.slots_used
  BY DEF _remove, Memory
<1>3. r \in Memory
  <2>1. r.queue \in [ItemIds -> Entry \cup {NoEntry}]
    BY <1>1, <1>2
  <2>2. r.by_identity \in [Identities -> ItemIds \cup {None}] /\ r.by_group \in [Groups -> ItemIds \cup {None}]
    BY <1>1, <1>2
  <2> QED BY <2>1, <2>2 DEF Memory, _remove
<1>4. Queued(r) = Queued(s) \ ids /\ \A i \in Queued(s) \ ids : r.queue[i] = s.queue[i]
  BY <1>2 DEF Queued
<1> HIDE DEF r
<1>5. \A i \in Queued(s) : s.queue[i].version.identity \in Identities /\ s.queue[i].version.group \in Groups
  BY EntryOrNone, SchedulerAssumption DEF Queued, Entry, Version
<1>6. Indexed(r)
  <2>1. ASSUME NEW i \in Queued(r)
        PROVE  /\ r.queue[i].version.item_id = i
               /\ r.by_identity[r.queue[i].version.identity] = i
               /\ r.by_group[r.queue[i].version.group] = i
    <3>1. i \in Queued(s) /\ i \notin ids /\ r.queue[i] = s.queue[i]
      BY <1>4
    <3>2. /\ s.queue[i].version.item_id = i
          /\ s.by_identity[s.queue[i].version.identity] = i
          /\ s.by_group[s.queue[i].version.group] = i
      BY <3>1 DEF Indexed
    <3>3. ~ \E j \in ids : s.queue[j].version.identity = s.queue[i].version.identity
      BY <3>1, <3>2 DEF Indexed
    <3>4. \A x \in Identities : (~ \E j \in ids : s.queue[j].version.identity = x) => r.by_identity[x] = s.by_identity[x]
      BY <1>2
    <3>5. \A g \in Groups : s.by_group[g] \notin ids => r.by_group[g] = s.by_group[g]
      BY <1>2
    <3>6. s.queue[i].version.identity \in Identities /\ s.queue[i].version.group \in Groups
      BY <1>5, <3>1
    <3> HIDE <1>2
    <3>7. r.by_identity[s.queue[i].version.identity] = i
      BY <3>2, <3>3, <3>4, <3>6
    <3>8. r.by_group[s.queue[i].version.group] = i
      BY <3>1, <3>2, <3>5, <3>6
    <3> QED BY <3>1, <3>2, <3>7, <3>8
  <2>2. ASSUME NEW x \in Identities, r.by_identity[x] # None
        PROVE  /\ r.by_identity[x] \in Queued(r)
               /\ r.queue[r.by_identity[x]].version.identity = x
               /\ r.running # Idle => r.running.version.identity # x
    <3>1. r.by_identity[x] = s.by_identity[x] /\ s.by_identity[x] # None
          /\ \A i \in ids : s.queue[i].version.identity # x
      BY <1>2, <2>2
    <3>2. /\ s.by_identity[x] \in Queued(s) /\ s.queue[s.by_identity[x]].version.identity = x
          /\ s.running # Idle => s.running.version.identity # x
      BY <3>1 DEF Indexed
    <3>3. r.running = s.running
      BY <1>2
    <3> HIDE <1>2
    <3> QED BY <1>4, <3>1, <3>2, <3>3
  <2>3. ASSUME NEW g \in Groups, r.by_group[g] # None
        PROVE  /\ r.by_group[g] \in Queued(r)
               /\ r.queue[r.by_group[g]].version.group = g
    <3>1. r.by_group[g] = s.by_group[g] /\ s.by_group[g] # None
          /\ \A i \in ids : s.queue[i].version.group = g => s.by_group[g] # i
      BY <1>2, <2>3
    <3>2. s.by_group[g] \in Queued(s) /\ s.queue[s.by_group[g]].version.group = g
      BY <3>1 DEF Indexed
    <3> HIDE <1>2
    <3> QED BY <1>4, <3>1, <3>2
  <2> QED BY <2>1, <2>2, <2>3 DEF Indexed
<1>7. /\ \A x \in Identities : r.by_identity[x] \in {None, s.by_identity[x]}
      /\ \A g \in Groups : r.by_group[g] \in {None, s.by_group[g]}
  BY <1>2
<1>8. ASSUME NEW i \in ids
      PROVE  /\ r.by_identity[s.queue[i].version.identity] = None
             /\ r.by_group[s.queue[i].version.group] = None
  <2>1. s.by_group[s.queue[i].version.group] = i
    BY DEF Indexed
  <2>2. s.queue[i].version.identity \in Identities /\ s.queue[i].version.group \in Groups
    BY <1>5
  <2>3. \A x \in Identities : s.queue[i].version.identity = x => r.by_identity[x] = None
    BY <1>2
  <2>4. \A g \in Groups : s.queue[i].version.group = g /\ s.by_group[g] = i => r.by_group[g] = None
    BY <1>2
  <2> QED BY <2>1, <2>2, <2>3, <2>4
<1> QED BY <1>2, <1>3, <1>4, <1>6, <1>7, <1>8 DEF r

(* Tuples are compared position by position.                                 *)
LEMMA BeforeFour ==
    ASSUME NEW a \in Int \X Int \X Int \X Int, NEW b \in Int \X Int \X Int \X Int
    PROVE  Before(a, b) <=>
              \/ a[1] < b[1]
              \/ a[1] = b[1] /\ (a[2] < b[2] \/ (a[2] = b[2] /\ (a[3] < b[3] \/ (a[3] = b[3] /\ a[4] < b[4]))))
<1>1. DOMAIN a = {1, 2, 3, 4} /\ 1..0 = {} /\ 1..1 = {1} /\ 1..2 = {1, 2} /\ 1..3 = {1, 2, 3}
  OBVIOUS
<1>2. Before(a, b) <=> \E k \in {1, 2, 3, 4} : a[k] < b[k] /\ \A j \in 1..(k-1) : a[j] = b[j]
  BY <1>1 DEF Before
<1> QED BY <1>1, <1>2

(* Three positions.                                                          *)
LEMMA BeforeThree ==
    ASSUME NEW a \in Int \X Int \X Int, NEW b \in Int \X Int \X Int
    PROVE  Before(a, b) <=>
              a[1] < b[1] \/ (a[1] = b[1] /\ (a[2] < b[2] \/ (a[2] = b[2] /\ a[3] < b[3])))
<1>1. DOMAIN a = {1, 2, 3} /\ 1..0 = {} /\ 1..1 = {1} /\ 1..2 = {1, 2}
  OBVIOUS
<1>2. Before(a, b) <=> \E k \in {1, 2, 3} : a[k] < b[k] /\ \A j \in 1..(k-1) : a[j] = b[j]
  BY <1>1 DEF Before
<1> QED BY <1>1, <1>2

(* The fields of an entry.                                                   *)
LEMMA EntryFields ==
    ASSUME NEW e \in Entry
    PROVE  /\ e.version \in Versions /\ e.enqueued_at \in Nat /\ Deadline(e.version) \in Int
           /\ e.version.sealed_at \in Int /\ e.version.item_id \in ItemIds /\ e.version.item_id \in Int
           /\ e.version.identity \in Identities /\ e.version.group \in Groups
           /\ e.version.horizon \in Horizons /\ e.version.origin_sealed_at \in Int
           /\ e.version.screener \in BOOLEAN
<1>1. e.version \in Version /\ e.version \in Versions /\ e.enqueued_at \in Nat
  BY SchedulerAssumption DEF Entry
<1>2. /\ e.version.sealed_at \in Int /\ e.version.item_id \in ItemIds
      /\ e.version.identity \in Identities /\ e.version.group \in Groups
      /\ e.version.horizon \in Horizons /\ e.version.origin_sealed_at \in Int
      /\ e.version.screener \in BOOLEAN
  BY <1>1 DEF Version
<1>3. AnalysisDeadline[e.version.horizon] \in Nat /\ e.version.item_id \in Int
  <2>1. (\A h \in Horizons : AnalysisDeadline[h] \in Nat) /\ \A i \in ItemIds : i \in Int
    BY SchedulerAssumption
  <2> QED BY <1>2, <2>1
<1> QED BY <1>1, <1>2, <1>3 DEF Deadline

(* The ranks of entries of different items are ordered strictly.             *)
LEMMA RankOrders ==
    ASSUME NEW e \in Entry, NEW f \in Entry, NEW g \in Entry
    PROVE  /\ ~ Before(RankKey(e), RankKey(e))
           /\ Before(RankKey(e), RankKey(f)) /\ Before(RankKey(f), RankKey(g)) => Before(RankKey(e), RankKey(g))
           /\ e.version.item_id # f.version.item_id =>
                 Before(RankKey(e), RankKey(f)) \/ Before(RankKey(f), RankKey(e))
<1>1. ASSUME NEW x \in Entry
      PROVE  RankKey(x) \in Int \X Int \X Int \X Int /\ RankKey(x)[4] = x.version.item_id
  BY EntryFields DEF RankKey
<1> DEFINE k == RankKey(e)
           l == RankKey(f)
           m == RankKey(g)
<1>2. k \in Int \X Int \X Int \X Int /\ l \in Int \X Int \X Int \X Int /\ m \in Int \X Int \X Int \X Int
  BY <1>1
<1>3. k[4] = e.version.item_id /\ l[4] = f.version.item_id
  BY <1>1
<1> HIDE DEF k, l, m
<1>4. ~ Before(k, k)
  BY <1>2, BeforeFour
<1>5. Before(k, l) /\ Before(l, m) => Before(k, m)
  BY <1>2, BeforeFour
<1>6. k[4] # l[4] => Before(k, l) \/ Before(l, k)
  BY <1>2, BeforeFour
<1> QED BY <1>3, <1>4, <1>5, <1>6 DEF k, l, m

(* So are their places in the line of the fair slot.                         *)
LEMMA FairOrders ==
    ASSUME NEW e \in Entry, NEW f \in Entry, NEW g \in Entry
    PROVE  /\ ~ Before(FairKey(e), FairKey(e))
           /\ Before(FairKey(e), FairKey(f)) /\ Before(FairKey(f), FairKey(g)) => Before(FairKey(e), FairKey(g))
           /\ e.version.item_id # f.version.item_id =>
                 Before(FairKey(e), FairKey(f)) \/ Before(FairKey(f), FairKey(e))
<1>1. ASSUME NEW x \in Entry
      PROVE  FairKey(x) \in Int \X Int \X Int /\ FairKey(x)[3] = x.version.item_id
  BY EntryFields DEF FairKey
<1> DEFINE k == FairKey(e)
           l == FairKey(f)
           m == FairKey(g)
<1>2. k \in Int \X Int \X Int /\ l \in Int \X Int \X Int /\ m \in Int \X Int \X Int
  BY <1>1
<1>3. k[3] = e.version.item_id /\ l[3] = f.version.item_id
  BY <1>1
<1> HIDE DEF k, l, m
<1>4. ~ Before(k, k)
  BY <1>2, BeforeThree
<1>5. Before(k, l) /\ Before(l, m) => Before(k, m)
  BY <1>2, BeforeThree
<1>6. k[3] # l[3] => Before(k, l) \/ Before(l, k)
  BY <1>2, BeforeThree
<1> QED BY <1>3, <1>4, <1>5, <1>6 DEF k, l, m

(* So the queue has a best, a worst and, among the lower band, an oldest.    *)
LEMMA Ends ==
    ASSUME NEW s \in Memory, Indexed(s), NEW ids \in SUBSET Queued(s), ids # {}, IsFiniteSet(ids)
    PROVE  /\ \E i \in ids : \A j \in ids \ {i} : Before(RankKey(s.queue[i]), RankKey(s.queue[j]))
           /\ \E i \in ids : \A j \in ids \ {i} : Before(RankKey(s.queue[j]), RankKey(s.queue[i]))
           /\ \E i \in ids : \A j \in ids \ {i} : Before(FairKey(s.queue[i]), FairKey(s.queue[j]))
<1> DEFINE Up == {p \in ids \X ids : Before(RankKey(s.queue[p[1]]), RankKey(s.queue[p[2]]))}
           Down == {p \in ids \X ids : Before(RankKey(s.queue[p[2]]), RankKey(s.queue[p[1]]))}
           Line == {p \in ids \X ids : Before(FairKey(s.queue[p[1]]), FairKey(s.queue[p[2]]))}
<1>1. \A i \in ids : s.queue[i] \in Entry /\ s.queue[i].version.item_id = i
  BY EntryOrNone DEF Queued, Indexed
<1>2. \A i, j \in ids : /\ <<i, j>> \in Up <=> Before(RankKey(s.queue[i]), RankKey(s.queue[j]))
                        /\ <<i, j>> \in Down <=> Before(RankKey(s.queue[j]), RankKey(s.queue[i]))
                        /\ <<i, j>> \in Line <=> Before(FairKey(s.queue[i]), FairKey(s.queue[j]))
  OBVIOUS
<1> HIDE DEF Up, Down, Line
<1>3. /\ \A x \in ids : <<x, x>> \notin Up /\ <<x, x>> \notin Down /\ <<x, x>> \notin Line
      /\ \A x, y \in ids : x # y => /\ <<x, y>> \in Up \/ <<y, x>> \in Up
                                    /\ <<x, y>> \in Down \/ <<y, x>> \in Down
                                    /\ <<x, y>> \in Line \/ <<y, x>> \in Line
  BY <1>1, <1>2, RankOrders, FairOrders
<1>4. /\ \A x, y, z \in ids : <<x, y>> \in Up /\ <<y, z>> \in Up => <<x, z>> \in Up
      /\ \A x, y, z \in ids : <<x, y>> \in Down /\ <<y, z>> \in Down => <<x, z>> \in Down
      /\ \A x, y, z \in ids : <<x, y>> \in Line /\ <<y, z>> \in Line => <<x, z>> \in Line
  BY <1>1, <1>2, RankOrders, FairOrders
<1>5. \E i \in ids : \A j \in ids \ {i} : <<i, j>> \in Up
  BY <1>3, <1>4, FirstOf
<1>6. \E i \in ids : \A j \in ids \ {i} : <<i, j>> \in Down
  BY <1>3, <1>4, FirstOf
<1>7. \E i \in ids : \A j \in ids \ {i} : <<i, j>> \in Line
  BY <1>3, <1>4, FirstOf
<1> QED BY <1>2, <1>5, <1>6, <1>7

(* Best, Worst and Oldest choose them.                                       *)
LEMMA EndsChosen ==
    ASSUME NEW s \in Memory, Indexed(s), Queued(s) # {}, IsFiniteSet(Queued(s))
    PROVE  /\ Best(s) \in Queued(s) /\ Worst(s) \in Queued(s)
           /\ \A j \in Queued(s) \ {Worst(s)} : Before(RankKey(s.queue[j]), RankKey(s.queue[Worst(s)]))
           /\ \A ids \in SUBSET Queued(s) : ids # {} => Oldest(s, ids) \in ids
<1>1. /\ \E i \in Queued(s) : \A j \in Queued(s) \ {i} : Before(RankKey(s.queue[i]), RankKey(s.queue[j]))
      /\ \E i \in Queued(s) : \A j \in Queued(s) \ {i} : Before(RankKey(s.queue[j]), RankKey(s.queue[i]))
  BY Ends
<1>2. ASSUME NEW ids \in SUBSET Queued(s), ids # {} PROVE Oldest(s, ids) \in ids
  <2>1. IsFiniteSet(ids)
    BY FS_Subset
  <2>2. \E i \in ids : \A j \in ids \ {i} : Before(FairKey(s.queue[i]), FairKey(s.queue[j]))
    BY <1>2, <2>1, Ends
  <2> QED BY <2>2, Zenon DEF Oldest
<1>3. Best(s) \in Queued(s)
  BY <1>1, Zenon DEF Best
<1>4. Worst(s) \in Queued(s) /\ \A j \in Queued(s) \ {Worst(s)} : Before(RankKey(s.queue[j]), RankKey(s.queue[Worst(s)]))
  BY <1>1, Zenon DEF Worst
<1> QED BY <1>2, <1>3, <1>4

(* Insert: a version whose item, identity and group are not in the queue.    *)
LEMMA Inserted ==
    ASSUME NEW s \in Memory, Indexed(s), NEW v \in Versions, NEW t \in Times,
           v.item_id \notin Queued(s), s.by_identity[v.identity] = None, s.by_group[v.group] = None,
           s.running # Idle => s.running.version.identity # v.identity
    PROVE  LET e == [version |-> v, enqueued_at |-> t]
               r == Insert(s, e)
           IN  /\ r \in Memory
               /\ Queued(r) = Queued(s) \cup {v.item_id} /\ r.queue[v.item_id] = e
               /\ \A i \in Queued(s) : r.queue[i] = s.queue[i]
               /\ Indexed(r)
               /\ r.running = s.running /\ r.last_now = s.last_now /\ r.slots_used = s.slots_used
               /\ r.by_group[v.group] = v.item_id
<1> DEFINE e == [version |-> v, enqueued_at |-> t]
           r == Insert(s, e)
<1>0. e \in Entry /\ e # NoEntry /\ e.version = v
  BY DEF Entry, NoEntry
<1>1. /\ s.queue \in [ItemIds -> Entry \cup {NoEntry}] /\ s.by_identity \in [Identities -> ItemIds \cup {None}]
      /\ s.by_group \in [Groups -> ItemIds \cup {None}]
  BY DEF Memory
<1>2. v.item_id \in ItemIds /\ v.identity \in Identities /\ v.group \in Groups /\ v.item_id # None
  BY <1>0, EntryFields, SchedulerAssumption DEF None
<1> HIDE DEF e
<1>3. /\ r.queue = [s.queue EXCEPT ![v.item_id] = e]
      /\ r.by_identity = [s.by_identity EXCEPT ![v.identity] = v.item_id]
      /\ r.by_group = [s.by_group EXCEPT ![v.group] = v.item_id]
      /\ r.running = s.running /\ r.last_now = s.last_now /\ r.slots_used = s.slots_used
  BY <1>0 DEF Insert, Memory
<1>4. r \in Memory
  <2>1. r.queue \in [ItemIds -> Entry \cup {NoEntry}]
    BY <1>0, <1>1, <1>2, <1>3
  <2>2. r.by_identity \in [Identities -> ItemIds \cup {None}] /\ r.by_group \in [Groups -> ItemIds \cup {None}]
    BY <1>1, <1>2, <1>3
  <2> QED BY <2>1, <2>2 DEF Memory, Insert
<1> HIDE DEF r
<1>5. /\ Queued(r) = Queued(s) \cup {v.item_id} /\ r.queue[v.item_id] = e
      /\ \A i \in Queued(s) : r.queue[i] = s.queue[i]
  BY <1>0, <1>1, <1>2, <1>3 DEF Queued
<1>6. \A i \in Queued(s) : s.queue[i].version.identity \in Identities /\ s.queue[i].version.group \in Groups
  BY EntryOrNone, EntryFields DEF Queued
<1>7. Indexed(r)
  <2>1. ASSUME NEW i \in Queued(r)
        PROVE  /\ r.queue[i].version.item_id = i
               /\ r.by_identity[r.queue[i].version.identity] = i
               /\ r.by_group[r.queue[i].version.group] = i
    <3>1. CASE i = v.item_id
      BY <1>0, <1>1, <1>2, <1>3, <1>5, <3>1
    <3>2. CASE i \in Queued(s)
      <4>1. /\ s.queue[i].version.item_id = i
            /\ s.by_identity[s.queue[i].version.identity] = i
            /\ s.by_group[s.queue[i].version.group] = i
        BY <3>2 DEF Indexed
      <4>2. s.queue[i].version.identity # v.identity /\ s.queue[i].version.group # v.group /\ r.queue[i] = s.queue[i]
        BY <1>5, <3>2, <4>1, SchedulerAssumption DEF None, Queued
      <4> QED BY <1>1, <1>2, <1>3, <1>6, <3>2, <4>1, <4>2
    <3> QED BY <1>5, <3>1, <3>2
  <2>2. ASSUME NEW x \in Identities, r.by_identity[x] # None
        PROVE  /\ r.by_identity[x] \in Queued(r)
               /\ r.queue[r.by_identity[x]].version.identity = x
               /\ r.running # Idle => r.running.version.identity # x
    <3>1. CASE x = v.identity
      BY <1>0, <1>1, <1>2, <1>3, <1>5, <3>1
    <3>2. CASE x # v.identity
      BY <1>1, <1>2, <1>3, <1>5, <2>2, <3>2 DEF Indexed
    <3> QED BY <3>1, <3>2
  <2>3. ASSUME NEW g \in Groups, r.by_group[g] # None
        PROVE  /\ r.by_group[g] \in Queued(r)
               /\ r.queue[r.by_group[g]].version.group = g
    <3>1. CASE g = v.group
      BY <1>0, <1>1, <1>2, <1>3, <1>5, <3>1
    <3>2. CASE g # v.group
      BY <1>1, <1>2, <1>3, <1>5, <2>3, <3>2 DEF Indexed
    <3> QED BY <3>1, <3>2
  <2> QED BY <2>1, <2>2, <2>3 DEF Indexed
<1> QED BY <1>1, <1>2, <1>3, <1>4, <1>5, <1>7 DEF r, e

-----------------------------------------------------------------------------
(* What every operation keeps, of the memory it is given.                    *)

Capped(r) ==
    r # Idle => /\ r.invocations <= MaxInvocations /\ r.repairs <= MaxRepairs
                /\ r.prompt_tokens <= MaxPromptTokens
                /\ r.output_tokens <= MaxOutputTokens

\* A running item, aborted or not, is not in the queue as well.
Sound(s) ==
    /\ s \in Memory /\ Indexed(s)
    /\ IsFiniteSet(Queued(s)) /\ Cardinality(Queued(s)) <= MaxQueued
    /\ s.running # Idle => s.running.version.item_id \notin Queued(s)
    /\ Capped(s.running)

\* What the sweep leaves in the queue at t.
Fresh(s, t) ==
    /\ s.last_now = t
    /\ \A i \in Queued(s) : /\ t <= s.queue[i].enqueued_at + MaxQueuedAge[s.queue[i].version.horizon]
                            /\ PathFits(s.queue[i].version, t)

Runs(s, i) == s.running # Idle /\ ~ s.running.aborted /\ s.running.version.item_id = i

\* The records R say what moved between s and r.
Moves(s, r, R) ==
    \A i \in ItemIds :
        /\ i \in Queued(r) <=> <<i, "QUEUED">> \in R \/ (i \in Queued(s) /\ \A p \in R : p[1] # i)
        /\ Runs(r, i) <=> <<i, "RUNNING">> \in R \/ (Runs(s, i) /\ \A p \in R : p[1] # i)

OneEach(R) == R \subseteq ItemIds \X States /\ \A p, q \in R : p[1] = q[1] => p = q

(* Two moves in a row whose records are about different items are one.       *)
LEMMA MovesTwice ==
    ASSUME NEW s, NEW w, NEW r, NEW R1, NEW R2, Moves(s, w, R1), Moves(w, r, R2), OneEach(R1), OneEach(R2),
           \A p \in R1, q \in R2 : p[1] # q[1]
    PROVE  Moves(s, r, R1 \cup R2) /\ OneEach(R1 \cup R2)
<1>1. OneEach(R1 \cup R2)
  BY DEF OneEach
<1>2. ASSUME NEW i \in ItemIds
      PROVE  /\ i \in Queued(r) <=> \/ <<i, "QUEUED">> \in R1 \cup R2
                                    \/ i \in Queued(s) /\ \A p \in R1 \cup R2 : p[1] # i
             /\ Runs(r, i) <=> \/ <<i, "RUNNING">> \in R1 \cup R2
                               \/ Runs(s, i) /\ \A p \in R1 \cup R2 : p[1] # i
  <2>1. /\ i \in Queued(r) <=> <<i, "QUEUED">> \in R2 \/ (i \in Queued(w) /\ \A p \in R2 : p[1] # i)
        /\ Runs(r, i) <=> <<i, "RUNNING">> \in R2 \/ (Runs(w, i) /\ \A p \in R2 : p[1] # i)
        /\ i \in Queued(w) <=> <<i, "QUEUED">> \in R1 \/ (i \in Queued(s) /\ \A p \in R1 : p[1] # i)
        /\ Runs(w, i) <=> <<i, "RUNNING">> \in R1 \/ (Runs(s, i) /\ \A p \in R1 : p[1] # i)
    BY DEF Moves
  <2>2. \A st : <<i, st>> \in R1 => \A p \in R2 : p[1] # i
    OBVIOUS
  <2> QED BY <2>1, <2>2
<1> QED BY <1>1, <1>2 DEF Moves

\* The history of records says where each item is.
Placed(s, rec) ==
    \A i \in ItemIds : /\ rec[i] = "QUEUED" <=> i \in Queued(s)
                       /\ rec[i] = "RUNNING" <=> Runs(s, i)

(* Recording a move keeps the history true.                                  *)
LEMMA RecordPlaces ==
    ASSUME NEW s, NEW r, NEW R, Placed(s, recorded), Moves(s, r, R), OneEach(R), Record(R)
    PROVE  Placed(r, recorded')
<1> SUFFICES ASSUME NEW i \in ItemIds
             PROVE  /\ recorded'[i] = "QUEUED" <=> i \in Queued(r)
                    /\ recorded'[i] = "RUNNING" <=> Runs(r, i)
  BY DEF Placed
<1>1. recorded'[i] = IF <<i, "QUEUED">> \in R THEN "QUEUED"
                     ELSE IF <<i, "RUNNING">> \in R THEN "RUNNING"
                     ELSE IF \E p \in R : p[1] = i THEN "OUT"
                     ELSE recorded[i]
  BY DEF Record
<1>2. ~ (<<i, "QUEUED">> \in R /\ <<i, "RUNNING">> \in R)
  BY DEF OneEach
<1>3. /\ recorded[i] = "QUEUED" <=> i \in Queued(s)
      /\ recorded[i] = "RUNNING" <=> Runs(s, i)
      /\ i \in Queued(r) <=> <<i, "QUEUED">> \in R \/ (i \in Queued(s) /\ \A p \in R : p[1] # i)
      /\ Runs(r, i) <=> <<i, "RUNNING">> \in R \/ (Runs(s, i) /\ \A p \in R : p[1] # i)
  BY DEF Placed, Moves
<1>4. (\E p \in R : p[1] = i) <=> ~ \A p \in R : p[1] # i
  OBVIOUS
<1>5. CASE \E p \in R : p[1] = i
  BY <1>1, <1>2, <1>3, <1>4, <1>5
<1>6. CASE \A p \in R : p[1] # i
  <2>1. <<i, "QUEUED">> \notin R /\ <<i, "RUNNING">> \notin R
    BY <1>6
  <2> QED BY <1>1, <1>3, <1>4, <1>6, <2>1
<1> QED BY <1>5, <1>6

-----------------------------------------------------------------------------
(* The sweep.                                                                *)

Closing == {"ABORT_STALE", "DETERMINISTIC_ONLY", "ABSTAIN"}

\* w is what a sweep of s at t answers.
Swept(s, t, w) ==
    /\ Sound(w.s) /\ Fresh(w.s, t) /\ w.s.slots_used = s.slots_used
    /\ Queued(w.s) \subseteq Queued(s) /\ \A i \in Queued(w.s) : w.s.queue[i] = s.queue[i]
    /\ Moves(s, w.s, w.out) /\ OneEach(w.out)
    /\ \A p \in w.out : /\ p[2] \in Closing
                        /\ \/ p[1] \in Queued(s) \ Queued(w.s)
                           \/ RunsLate(s, t) /\ p[1] = s.running.version.item_id
    /\ w.s.running = Idle <=> s.running = Idle
    /\ s.running # Idle => /\ w.s.running.version = s.running.version
                           /\ w.s.running.aborted = (s.running.aborted \/ RunsLate(s, t))

(* The slot holds a running item or nothing.                                 *)
LEMMA RunningOrIdle ==
    ASSUME NEW s \in Memory
    PROVE  /\ s.running # Idle => s.running \in Running
           /\ s.running \in Running => s.running # Idle
BY DEF Memory, Running, Idle

(* The fields of a running item.                                             *)
LEMMA RunningFields ==
    ASSUME NEW r \in Running
    PROVE  /\ r.version \in Versions /\ r.version.item_id \in ItemIds /\ r.version.identity \in Identities
           /\ Deadline(r.version) \in Int /\ r.aborted \in BOOLEAN
           /\ r.invocations \in Nat /\ r.repairs \in Nat /\ r.prompt_tokens \in Nat /\ r.output_tokens \in Nat
           /\ r.version.horizon \in Horizons /\ r.version.origin_sealed_at \in Int
<1>1. r.version \in Versions /\ r.aborted \in BOOLEAN
  BY DEF Running
<1>2. r.invocations \in Nat /\ r.repairs \in Nat /\ r.prompt_tokens \in Nat /\ r.output_tokens \in Nat
  BY DEF Running
<1>4. r.version \in Version
  BY <1>1, SchedulerAssumption
<1>5. /\ r.version.item_id \in ItemIds /\ r.version.identity \in Identities
      /\ r.version.horizon \in Horizons /\ r.version.origin_sealed_at \in Int
  BY <1>4 DEF Version
<1>6. \A h \in Horizons : AnalysisDeadline[h] \in Nat
  BY SchedulerAssumption
<1> QED BY <1>1, <1>2, <1>5, <1>6 DEF Deadline

(* _sweep closes what is stale or no longer fits, and nothing else.          *)
LEMMA SweepSound ==
    ASSUME NEW s, Sound(s), NEW t \in Times
    PROVE  Swept(s, t, Sweep(s, t))
<1> DEFINE s0 == [s EXCEPT !.last_now = t]
           gone == {i \in Queued(s) : SweptState(s.queue[i], t) # "QUEUED"}
           s1 == _remove(s0, gone)
           late == RunsLate(s, t)
           w == Sweep(s, t)
<1>0. s \in Memory /\ Indexed(s) /\ t \in Nat
  BY SchedulerAssumption DEF Sound
<1>1. /\ s0 \in Memory /\ s0.queue = s.queue /\ s0.running = s.running /\ s0.last_now = t
      /\ s0.slots_used = s.slots_used /\ s0.by_identity = s.by_identity /\ s0.by_group = s.by_group
  BY <1>0 DEF Memory
<1>2. Queued(s0) = Queued(s) /\ Indexed(s0)
  BY <1>0, <1>1 DEF Queued, Indexed
<1>3. gone \subseteq Queued(s)
  OBVIOUS
<1>4. /\ w.s = IF late THEN [s1 EXCEPT !.running.aborted = TRUE] ELSE s1
      /\ w.out = {<<i, SweptState(s.queue[i], t)>> : i \in gone}
                 \cup (IF late THEN {<<s.running.version.item_id, "ABORT_STALE">>} ELSE {})
  BY DEF Sweep
<1>5. \A i \in gone : SweptState(s.queue[i], t) \in Closing
  BY DEF SweptState, UnfitState, Closing
<1>6. \A i \in Queued(s) \ gone : ~ (t >= Deadline(s.queue[i].version))
         /\ ~ (t - s.queue[i].enqueued_at > MaxQueuedAge[s.queue[i].version.horizon])
         /\ PathFits(s.queue[i].version, t)
  BY DEF SweptState, UnfitState
<1> HIDE DEF s0, gone
<1>7. /\ s1 \in Memory /\ Queued(s1) = Queued(s) \ gone
      /\ \A i \in Queued(s) \ gone : s1.queue[i] = s.queue[i]
      /\ Indexed(s1) /\ s1.running = s.running /\ s1.last_now = t /\ s1.slots_used = s.slots_used
  BY <1>1, <1>2, <1>3, Removed
<1> HIDE DEF s1, w
<1>8. late => s.running # Idle /\ s.running \in Running /\ ~ s.running.aborted
  BY <1>0, RunningOrIdle DEF RunsLate
<1> HIDE DEF late
<1>9. /\ w.s \in Memory /\ w.s.queue = s1.queue /\ w.s.last_now = t /\ w.s.slots_used = s.slots_used
      /\ w.s.by_identity = s1.by_identity /\ w.s.by_group = s1.by_group
      /\ ~ late => w.s.running = s.running
      /\ late => w.s.running = [s.running EXCEPT !.aborted = TRUE] /\ w.s.running \in Running
  <2>1. CASE late
    <3>1. w.s = [s1 EXCEPT !.running.aborted = TRUE]
      BY <1>4, <2>1
    <3>2. /\ w.s.running = [s.running EXCEPT !.aborted = TRUE] /\ w.s.queue = s1.queue /\ w.s.last_now = t
          /\ w.s.slots_used = s.slots_used /\ w.s.by_identity = s1.by_identity /\ w.s.by_group = s1.by_group
      BY <1>7, <3>1 DEF Memory
    <3>3. w.s.running \in Running
      BY <1>8, <2>1, <3>2 DEF Running
    <3>4. w.s \in Memory
      BY <1>7, <3>1, <3>2, <3>3 DEF Memory
    <3> QED BY <2>1, <3>2, <3>3, <3>4
  <2>2. CASE ~ late
    BY <1>4, <1>7, <2>2
  <2> QED BY <2>1, <2>2
<1>10. /\ w.s.running = Idle <=> s.running = Idle
       /\ s.running # Idle => /\ w.s.running.version = s.running.version
                              /\ w.s.running.aborted = (s.running.aborted \/ late)
  <2>1. CASE late
    <3>1. w.s.running # Idle /\ s.running # Idle
      BY <1>8, <1>9, <2>1, RunningOrIdle
    <3>2. w.s.running.version = s.running.version /\ w.s.running.aborted = TRUE
      BY <1>8, <1>9, <2>1 DEF Running
    <3> QED BY <2>1, <3>1, <3>2
  <2>2. CASE ~ late
    BY <1>0, <1>9, <2>2, RunningOrIdle, RunningFields
  <2> QED BY <2>1, <2>2
<1>11. Queued(w.s) = Queued(s) \ gone /\ \A i \in Queued(w.s) : w.s.queue[i] = s.queue[i]
  BY <1>7, <1>9 DEF Queued
<1>12. Indexed(w.s)
  <2>1. Queued(w.s) = Queued(s1) /\ (w.s.running # Idle => s1.running # Idle /\ w.s.running.version = s1.running.version)
    BY <1>7, <1>10, <1>11
  <2> QED BY <1>7, <1>9, <2>1, SameIndexes
<1>13. IsFiniteSet(Queued(w.s)) /\ Cardinality(Queued(w.s)) <= MaxQueued
  <2>1. /\ IsFiniteSet(Queued(w.s)) /\ Cardinality(Queued(w.s)) <= Cardinality(Queued(s))
        /\ Cardinality(Queued(w.s)) \in Nat /\ Cardinality(Queued(s)) \in Nat
    BY <1>11, FS_Subset, FS_CardinalityType DEF Sound
  <2> QED BY <2>1, SchedulerAssumption DEF Sound
<1>14. w.s.running # Idle => w.s.running.version.item_id \notin Queued(w.s)
  BY <1>10, <1>11 DEF Sound
<1>15. Capped(w.s.running)
  <2>1. CASE late
    BY <1>8, <1>9, <2>1 DEF Sound, Capped, Running
  <2>2. CASE ~ late
    BY <1>9, <2>2 DEF Sound
  <2> QED BY <2>1, <2>2
<1>16. Sound(w.s)
  BY <1>9, <1>12, <1>13, <1>14, <1>15 DEF Sound
<1>17. Fresh(w.s, t)
  <2> SUFFICES ASSUME NEW i \in Queued(w.s)
               PROVE  /\ t <= w.s.queue[i].enqueued_at + MaxQueuedAge[w.s.queue[i].version.horizon]
                      /\ PathFits(w.s.queue[i].version, t)
    BY <1>9 DEF Fresh
  <2>1. w.s.queue[i] = s.queue[i] /\ s.queue[i] \in Entry /\ i \in Queued(s) \ gone
    BY <1>0, <1>11, EntryOrNone DEF Queued
  <2>2. s.queue[i].enqueued_at \in Nat /\ MaxQueuedAge[s.queue[i].version.horizon] \in Nat
    <3>1. \A h \in Horizons : MaxQueuedAge[h] \in Nat
      BY SchedulerAssumption
    <3> QED BY <2>1, <3>1, EntryFields
  <2>3. /\ ~ (t - s.queue[i].enqueued_at > MaxQueuedAge[s.queue[i].version.horizon])
        /\ PathFits(s.queue[i].version, t)
    BY <1>6, <2>1
  <2> QED BY <1>0, <2>1, <2>2, <2>3
<1>18. late => s.running.version.item_id \in ItemIds /\ s.running.version.item_id \notin Queued(s)
  BY <1>8, RunningFields DEF Sound
<1>19. \A p \in w.out : \/ p[1] \in gone /\ p = <<p[1], SweptState(s.queue[p[1]], t)>>
                        \/ late /\ p = <<s.running.version.item_id, "ABORT_STALE">>
  BY <1>4
<1>20. \A p \in w.out : /\ p[2] \in Closing
                        /\ \/ p[1] \in Queued(s) \ Queued(w.s)
                           \/ late /\ p[1] = s.running.version.item_id
  <2> SUFFICES ASSUME NEW p \in w.out
               PROVE  /\ p[2] \in Closing
                      /\ p[1] \in Queued(s) \ Queued(w.s) \/ (late /\ p[1] = s.running.version.item_id)
    OBVIOUS
  <2>1. CASE p[1] \in gone /\ p = <<p[1], SweptState(s.queue[p[1]], t)>>
    BY <1>3, <1>5, <1>11, <2>1
  <2>2. CASE late /\ p = <<s.running.version.item_id, "ABORT_STALE">>
    BY <2>2 DEF Closing
  <2> QED BY <1>19, <2>1, <2>2
<1>21. OneEach(w.out)
  <2>1. \A p, q \in w.out : p[1] = q[1] => p = q
    BY <1>3, <1>18, <1>19
  <2>2. \A p \in w.out : p \in ItemIds \X States
    <3> SUFFICES ASSUME NEW p \in w.out PROVE p \in ItemIds \X States
      OBVIOUS
    <3>1. p = <<p[1], p[2]>>
      BY <1>19
    <3>2. p[1] \in ItemIds /\ p[2] \in States
      BY <1>18, <1>20 DEF Closing, States, Queued
    <3> QED BY <3>1, <3>2
  <2> QED BY <2>1, <2>2 DEF OneEach
<1>22. Moves(s, w.s, w.out)
  <2> SUFFICES ASSUME NEW i \in ItemIds
               PROVE  /\ i \in Queued(w.s) <=> \/ <<i, "QUEUED">> \in w.out
                                               \/ i \in Queued(s) /\ \A p \in w.out : p[1] # i
                      /\ Runs(w.s, i) <=> \/ <<i, "RUNNING">> \in w.out
                                          \/ Runs(s, i) /\ \A p \in w.out : p[1] # i
    BY DEF Moves
  <2>1. <<i, "QUEUED">> \notin w.out /\ <<i, "RUNNING">> \notin w.out
    BY <1>20 DEF Closing
  <2>2. i \in gone => \E p \in w.out : p[1] = i
    <3>1. i \in gone => <<i, SweptState(s.queue[i], t)>> \in w.out
      BY <1>4
    <3> QED BY <3>1
  <2>3. late => \E p \in w.out : p[1] = s.running.version.item_id
    <3>1. late => <<s.running.version.item_id, "ABORT_STALE">> \in w.out
      BY <1>4
    <3> QED BY <3>1
  <2>4. i \in Queued(s) => (i \in gone <=> \E p \in w.out : p[1] = i)
    BY <1>18, <1>19, <2>2
  <2>5. Runs(s, i) => (late <=> \E p \in w.out : p[1] = i)
    <3>1. Runs(s, i) => i \notin Queued(s) /\ s.running.version.item_id = i
      BY DEF Runs, Sound
    <3> QED BY <1>3, <1>19, <2>3, <3>1
  <2>6. Runs(w.s, i) <=> Runs(s, i) /\ ~ late
    BY <1>10 DEF Runs
  <2> QED BY <1>11, <2>1, <2>4, <2>5, <2>6
<1> QED BY <1>9, <1>10, <1>11, <1>16, <1>17, <1>20, <1>21, <1>22 DEF Swept, late, w

-----------------------------------------------------------------------------
(* The operations.  Each sweeps first; r and R are the memory it leaves and  *)
(* the records it answers.                                                   *)

Kept(s, t, r, R) == Sound(r) /\ Fresh(r, t) /\ Moves(s, r, R) /\ OneEach(R)

\* What stays queued, and what stays in the slot, stays the same version.
Carried(s, r) == \A i \in Queued(r) : i \in Queued(s) => r.queue[i] = s.queue[i]

SlotKept(s, r) ==
    /\ r.running = Idle <=> s.running = Idle
    /\ s.running # Idle => r.running.version = s.running.version

(* slots_used counts modulo fair_slot_every.                                 *)
LEMMA SlotCounts ==
    ASSUME NEW a \in 0..(FairSlotEvery - 1)
    PROVE  /\ (a + 1) % FairSlotEvery \in 0..(FairSlotEvery - 1)
           /\ (a + 1) % FairSlotEvery = IF a + 1 = FairSlotEvery THEN 0 ELSE a + 1
<1>1. FairSlotEvery \in Nat /\ FairSlotEvery >= 2
  BY SchedulerAssumption
<1>2. a \in Nat /\ a + 1 <= FairSlotEvery
  BY <1>1
<1>3. CASE a + 1 = FairSlotEvery
  BY <1>1, <1>3
<1>4. CASE a + 1 # FairSlotEvery
  <2>1. a + 1 \in 0..(FairSlotEvery - 1)
    BY <1>1, <1>2, <1>4
  <2>2. \A x \in Int, n \in Nat : n > 0 /\ x \in 0..(n - 1) => x % n = x
    OBVIOUS
  <2> QED BY <1>1, <1>4, <2>1, <2>2
<1> QED BY <1>3, <1>4

(* dispatch moves one queued item into the idle slot; the reserved slot goes *)
(* to the lower band if it waits.                                            *)
LEMMA DispatchSound ==
    ASSUME NEW s, Sound(s), NEW t \in Times
    PROVE  LET d == Dispatch(s, t)
               w == Sweep(s, t)
           IN  /\ Kept(s, t, d.s, d.out)
               /\ \A p \in d.out : p[2] \in Closing \cup {"RUNNING"}
               /\ Carried(s, d.s)
               /\ \/ SlotKept(s, d.s) /\ \A p \in d.out : p[2] # "RUNNING"
                  \/ /\ s.running = Idle /\ d.s.running # Idle
                     /\ \E i \in Queued(s) : <<i, "RUNNING">> \in d.out /\ d.s.running.version = s.queue[i].version
               /\ \/ d = w
                  \/ /\ s.running = Idle /\ d.s.running # Idle
                     /\ d.s.slots_used = IF s.slots_used + 1 = FairSlotEvery THEN 0 ELSE s.slots_used + 1
                     /\ s.slots_used + 1 = FairSlotEvery =>
                           d.s.running.version.band = "ELIGIBLE" \/ Lower(w.s, t) = {}
<1> DEFINE d == Dispatch(s, t)
           w == Sweep(s, t)
           i == Chosen(w.s, t)
           s1 == _remove(w.s, {i})
           run == [version |-> w.s.queue[i].version, aborted |-> FALSE,
                   invocations |-> 0, repairs |-> 0, prompt_tokens |-> 0, output_tokens |-> 0]
           slot == (w.s.slots_used + 1) % FairSlotEvery
<1>1. Swept(s, t, w)
  BY SweepSound
<1>2. CASE w.s.running # Idle \/ Queued(w.s) = {}
  <2>1. d = w
    BY <1>2 DEF Dispatch
  <2>2. \A p \in w.out : p[2] # "RUNNING"
    BY <1>1 DEF Swept, Closing
  <2> QED BY <1>1, <2>1, <2>2 DEF Swept, Kept, Carried, SlotKept
<1>3. CASE w.s.running = Idle /\ Queued(w.s) # {}
  <2>0. /\ w.s \in Memory /\ Indexed(w.s) /\ IsFiniteSet(Queued(w.s)) /\ Sound(w.s)
        /\ w.s.slots_used = s.slots_used /\ s.running = Idle
    BY <1>1, <1>3 DEF Swept, Sound
  <2>1. d.s = [s1 EXCEPT !.slots_used = (@ + 1) % FairSlotEvery, !.running = run] /\ d.out = w.out \cup {<<i, "RUNNING">>}
    BY <1>3 DEF Dispatch
  <2> HIDE DEF w, d
  <2>2. Lower(w.s, t) \subseteq Queued(w.s)
    BY DEF Lower
  <2>3. i \in Queued(w.s) /\ (slot = 0 => Lower(w.s, t) = {} \/ i \in Lower(w.s, t))
    BY <1>3, <2>0, <2>2, EndsChosen DEF Chosen
  <2> HIDE DEF i
  <2>4. /\ w.s.queue[i] \in Entry /\ w.s.queue[i].version.item_id = i
        /\ i \in ItemIds /\ w.s.queue[i].version \in Versions
    BY <2>0, <2>3, EntryOrNone, EntryFields DEF Queued, Indexed
  <2>5. run \in Running /\ run.version = w.s.queue[i].version /\ run.aborted = FALSE /\ Capped(run)
    BY <2>4, SchedulerAssumption DEF Running, Capped
  <2> HIDE DEF run
  <2>6. /\ s1 \in Memory /\ Queued(s1) = Queued(w.s) \ {i}
        /\ \A j \in Queued(w.s) \ {i} : s1.queue[j] = w.s.queue[j]
        /\ Indexed(s1) /\ s1.running = w.s.running /\ s1.last_now = w.s.last_now /\ s1.slots_used = w.s.slots_used
        /\ s1.by_identity[w.s.queue[i].version.identity] = None
    BY <2>0, <2>3, Removed
  <2> HIDE DEF s1
  <2>7. w.s.slots_used \in 0..(FairSlotEvery - 1)
    BY <2>0 DEF Memory
  <2>8. slot \in 0..(FairSlotEvery - 1) /\ slot = IF s.slots_used + 1 = FairSlotEvery THEN 0 ELSE s.slots_used + 1
    BY <2>0, <2>7, SlotCounts
  <2>9. /\ d.s.running = run /\ d.s.slots_used = slot /\ d.s.queue = s1.queue /\ d.s.last_now = s1.last_now
        /\ d.s.by_identity = s1.by_identity /\ d.s.by_group = s1.by_group
    BY <2>1, <2>6 DEF Memory
  <2>10. d.s \in Memory
    BY <2>1, <2>5, <2>6, <2>8, <2>9 DEF Memory
  <2> HIDE DEF slot
  <2>11. Queued(d.s) = Queued(w.s) \ {i} /\ run # Idle
    BY <2>5, <2>6, <2>9, <2>10, RunningOrIdle DEF Queued
  <2>12. Indexed(d.s)
    BY <2>5, <2>6, <2>9, <2>11, SMTT(30) DEF Indexed, Queued
  <2>13. IsFiniteSet(Queued(d.s)) /\ Cardinality(Queued(d.s)) <= MaxQueued
    <3>1. /\ IsFiniteSet(Queued(d.s)) /\ Cardinality(Queued(d.s)) <= Cardinality(Queued(w.s))
          /\ Cardinality(Queued(d.s)) \in Nat /\ Cardinality(Queued(w.s)) \in Nat
      BY <2>0, <2>11, FS_Subset, FS_CardinalityType
    <3> QED BY <2>0, <3>1, SchedulerAssumption DEF Sound
  <2>14. Sound(d.s)
    BY <2>4, <2>5, <2>9, <2>10, <2>11, <2>12, <2>13 DEF Sound
  <2>15. Fresh(d.s, t)
    BY <1>1, <2>6, <2>9, <2>11 DEF Swept, Fresh
  <2>16. Moves(w.s, d.s, {<<i, "RUNNING">>}) /\ OneEach({<<i, "RUNNING">>})
    <3>1. \A j \in ItemIds : Runs(d.s, j) <=> j = i
      BY <2>4, <2>5, <2>9, <2>11 DEF Runs
    <3>2. \A j \in ItemIds : ~ Runs(w.s, j)
      BY <1>3 DEF Runs
    <3> QED BY <2>3, <2>4, <2>11, <3>1, <3>2 DEF Moves, OneEach, States
  <2>17. \A p \in w.out : p[1] # i
    BY <1>1, <2>0, <2>3 DEF Swept, RunsLate
  <2>18. Moves(s, d.s, d.out) /\ OneEach(d.out)
    <3>1. \A p \in w.out, q \in {<<i, "RUNNING">>} : p[1] # q[1]
      BY <2>17
    <3> QED BY <1>1, <2>1, <2>16, <3>1, MovesTwice DEF Swept
  <2>19. \A p \in d.out : p[2] \in Closing \cup {"RUNNING"}
    BY <1>1, <2>1 DEF Swept
  <2>20. s.slots_used + 1 = FairSlotEvery => d.s.running.version.band = "ELIGIBLE" \/ Lower(w.s, t) = {}
    BY <2>3, <2>5, <2>8, <2>9 DEF Lower
  <2>21. Carried(s, d.s) /\ i \in Queued(s) /\ d.s.running.version = s.queue[i].version /\ <<i, "RUNNING">> \in d.out
    BY <1>1, <2>1, <2>3, <2>5, <2>6, <2>9, <2>11 DEF Swept, Carried
  <2> QED BY <2>0, <2>8, <2>9, <2>11, <2>14, <2>15, <2>18, <2>19, <2>20, <2>21 DEF Kept, w, d
<1> QED BY <1>2, <1>3

(* complete and fail free the slot, and record a result only before its      *)
(* deadline.                                                                 *)
LEMMA FinishSound ==
    ASSUME NEW s, Sound(s), NEW t \in Times, s.running # Idle, NEW state \in {"COMPLETED", "FAILED"}
    PROVE  LET f == Finish(s, state, t)
           IN  /\ Kept(s, t, f.s, f.out) /\ f.s.slots_used = s.slots_used
               /\ Carried(s, f.s) /\ f.s.running = Idle
               /\ \A p \in f.out : \/ p[2] \in Closing
                                   \/ /\ p = <<s.running.version.item_id, state>>
                                      /\ ~ s.running.aborted /\ t < Deadline(s.running.version)
<1> DEFINE f == Finish(s, state, t)
           w == Sweep(s, t)
           done == IF w.s.running.aborted THEN {} ELSE {<<s.running.version.item_id, state>>}
<1>1. Swept(s, t, w)
  BY SweepSound
<1>2. f.s = [w.s EXCEPT !.running = Idle] /\ f.out = w.out \cup done
  BY DEF Finish
<1> HIDE DEF f, w
<1>3. /\ w.s \in Memory /\ Indexed(w.s) /\ Sound(w.s) /\ w.s.slots_used = s.slots_used /\ w.s.running # Idle
      /\ w.s.running \in Running /\ s.running \in Running
      /\ w.s.running.version = s.running.version
      /\ w.s.running.aborted = (s.running.aborted \/ RunsLate(s, t))
  BY <1>1, RunningOrIdle DEF Swept, Sound
<1>4. /\ f.s \in Memory /\ f.s.running = Idle /\ f.s.queue = w.s.queue /\ f.s.last_now = w.s.last_now
      /\ f.s.by_identity = w.s.by_identity /\ f.s.by_group = w.s.by_group /\ f.s.slots_used = w.s.slots_used
  BY <1>2, <1>3 DEF Memory
<1>5. Queued(f.s) = Queued(w.s)
  BY <1>4 DEF Queued
<1>6. Indexed(f.s)
  BY <1>3, <1>4, SameIndexes
<1>7. Sound(f.s)
  BY <1>3, <1>4, <1>5, <1>6 DEF Sound, Capped
<1>8. Fresh(f.s, t)
  BY <1>1, <1>4, <1>5 DEF Swept, Fresh
<1>9. OneEach(done) /\ Moves(w.s, f.s, done)
  <2>1. s.running.version.item_id \in ItemIds
    BY <1>3, RunningFields
  <2>2. s.running.version.item_id \notin Queued(w.s)
    BY <1>3 DEF Sound
  <2>3. OneEach(done) /\ \A j \in ItemIds : <<j, "QUEUED">> \notin done /\ <<j, "RUNNING">> \notin done
    BY <2>1 DEF OneEach, States
  <2>4. ASSUME NEW j \in ItemIds PROVE ~ Runs(f.s, j) /\ ~ (Runs(w.s, j) /\ \A p \in done : p[1] # j)
    BY <1>3, <1>4 DEF Runs
  <2>5. ASSUME NEW j \in ItemIds PROVE j \in Queued(f.s) <=> j \in Queued(w.s) /\ \A p \in done : p[1] # j
    BY <1>5, <2>2
  <2> QED BY <2>3, <2>4, <2>5 DEF Moves
<1>10. \A p \in w.out, q \in done : p[1] # q[1]
  <2> SUFFICES ASSUME NEW p \in w.out, NEW q \in done PROVE p[1] # q[1]
    OBVIOUS
  <2>1. q[1] = s.running.version.item_id /\ ~ w.s.running.aborted
    OBVIOUS
  <2>2. ~ RunsLate(s, t)
    BY <1>3, <2>1
  <2>3. p[1] \in Queued(s)
    BY <1>1, <2>2 DEF Swept
  <2> QED BY <2>1, <2>3 DEF Sound
<1>11. Moves(s, f.s, f.out) /\ OneEach(f.out)
  <2> HIDE DEF done
  <2> QED BY <1>1, <1>2, <1>9, <1>10, MovesTwice DEF Swept
<1>12. ASSUME NEW p \in done
       PROVE  p = <<s.running.version.item_id, state>> /\ ~ s.running.aborted /\ t < Deadline(s.running.version)
  <2>1. ~ w.s.running.aborted
    BY <1>12
  <2>2. ~ s.running.aborted /\ ~ RunsLate(s, t)
    BY <1>3, <2>1
  <2>3. Deadline(s.running.version) \in Int /\ t \in Int
    BY <1>3, RunningFields, SchedulerAssumption
  <2> QED BY <2>2, <2>3 DEF RunsLate
<1>13. \A p \in f.out : \/ p[2] \in Closing
                        \/ /\ p = <<s.running.version.item_id, state>>
                           /\ ~ s.running.aborted /\ t < Deadline(s.running.version)
  <2> HIDE DEF done
  <2> QED BY <1>1, <1>2, <1>12 DEF Swept
<1>14. Carried(s, f.s)
  BY <1>1, <1>4, <1>5 DEF Swept, Carried
<1> QED BY <1>3, <1>4, <1>7, <1>8, <1>11, <1>13, <1>14 DEF Kept, f

(* authorize_call grants a call only within the caps.                        *)
LEMMA AuthorizeSound ==
    ASSUME NEW s, Sound(s), NEW t \in Times, NEW i \in ItemIds, NEW screener \in BOOLEAN, NEW repair \in BOOLEAN,
           NEW prompt \in PromptBounds
    PROVE  LET a == AuthorizeCall(s, i, screener, repair, prompt, t)
           IN  /\ Kept(s, t, a.s, a.out) /\ a.s.slots_used = s.slots_used
               /\ \A p \in a.out : p[2] \in Closing
               /\ Carried(s, a.s) /\ SlotKept(s, a.s)
<1> DEFINE a == AuthorizeCall(s, i, screener, repair, prompt, t)
           w == Sweep(s, t)
           r == w.s.running
           run == [r EXCEPT !.invocations = @ + 1, !.repairs = IF repair THEN @ + 1 ELSE @,
                            !.prompt_tokens = @ + prompt, !.output_tokens = @ + RoleOutputCap]
<1>1. Swept(s, t, w)
  BY SweepSound
<1>2. CASE ~ Allowed(w.s, i, screener, repair, prompt, t)
  <2>1. a = w
    BY <1>2 DEF AuthorizeCall
  <2> QED BY <1>1, <2>1 DEF Swept, Kept, Carried, SlotKept
<1>3. CASE Allowed(w.s, i, screener, repair, prompt, t)
  <2>0. /\ w.s \in Memory /\ Indexed(w.s) /\ Sound(w.s) /\ w.s.slots_used = s.slots_used
    BY <1>1 DEF Swept, Sound
  <2>1. /\ a = [w EXCEPT !.s.running.invocations = @ + 1,
                         !.s.running.repairs = IF repair THEN @ + 1 ELSE @,
                         !.s.running.prompt_tokens = @ + prompt,
                         !.s.running.output_tokens = @ + RoleOutputCap]
    BY <1>3 DEF AuthorizeCall
  <2>2. r # Idle /\ r \in Running /\ ~ r.aborted /\ CapsLeft(r, repair, prompt)
    BY <1>3, <2>0, RunningOrIdle DEF Allowed
  <2>3. w = [s |-> w.s, out |-> w.out]
    BY DEF Sweep
  <2> HIDE DEF w, a
  <2>4. a.out = w.out /\ a.s = [w.s EXCEPT !.running = run]
    BY <2>0, <2>1, <2>2, <2>3, ZenonT(60) DEF Memory, Running
  <2>5. /\ prompt \in Nat /\ RoleOutputCap \in Nat
        /\ MaxInvocations \in Nat /\ MaxRepairs \in Nat /\ MaxPromptTokens \in Nat /\ MaxOutputTokens \in Nat
    BY SchedulerAssumption
  <2>6. /\ run.version = r.version /\ run.aborted = r.aborted
        /\ run.invocations = r.invocations + 1 /\ run.repairs = (IF repair THEN r.repairs + 1 ELSE r.repairs)
        /\ run.prompt_tokens = r.prompt_tokens + prompt /\ run.output_tokens = r.output_tokens + RoleOutputCap
    BY <2>2 DEF Running
  <2>7. run \in Running /\ Capped(run)
    <3>1. run \in Running
      <4> DEFINE r1 == [r EXCEPT !.invocations = @ + 1]
                 r2 == [r1 EXCEPT !.repairs = IF repair THEN @ + 1 ELSE @]
                 r3 == [r2 EXCEPT !.prompt_tokens = @ + prompt]
      <4>1. r1 \in Running
        BY <2>2 DEF Running
      <4> HIDE DEF r1
      <4>2. r2 \in Running
        BY <4>1 DEF Running
      <4> HIDE DEF r2
      <4>3. r3 \in Running
        BY <2>5, <4>2 DEF Running
      <4> HIDE DEF r3
      <4>4. [r3 EXCEPT !.output_tokens = @ + RoleOutputCap] \in Running
        BY <2>5, <4>3 DEF Running
      <4> QED BY <4>4 DEF r1, r2, r3
    <3>2. Capped(r)
      BY <2>0 DEF Sound
    <3> QED BY <2>2, <2>5, <2>6, <3>1, <3>2 DEF Capped, CapsLeft
  <2> HIDE DEF run
  <2>8. /\ a.s \in Memory /\ a.s.running = run /\ a.s.queue = w.s.queue /\ a.s.last_now = w.s.last_now
        /\ a.s.by_identity = w.s.by_identity /\ a.s.by_group = w.s.by_group /\ a.s.slots_used = w.s.slots_used
    BY <2>0, <2>4, <2>7 DEF Memory
  <2>9. Queued(a.s) = Queued(w.s) /\ run # Idle
    BY <2>7, <2>8, RunningOrIdle DEF Queued
  <2>10. Indexed(a.s)
    <3>1. a.s.running # Idle => w.s.running # Idle /\ a.s.running.version = w.s.running.version
      BY <2>2, <2>6, <2>8
    <3>2. Indexed(w.s)
      BY <2>0
    <3> QED BY <2>8, <3>1, <3>2, SameIndexes
  <2>11. Sound(a.s)
    BY <2>0, <2>2, <2>6, <2>7, <2>8, <2>9, <2>10 DEF Sound
  <2>12. Fresh(a.s, t)
    BY <1>1, <2>8, <2>9 DEF Swept, Fresh
  <2>13. Moves(s, a.s, a.out)
    <3>1. \A j \in ItemIds : Runs(a.s, j) <=> Runs(w.s, j)
      BY <2>2, <2>6, <2>8, <2>9 DEF Runs
    <3> QED BY <1>1, <2>4, <2>9, <3>1 DEF Swept, Moves
  <2>14. Carried(s, a.s)
    BY <1>1, <2>8, <2>9 DEF Swept, Carried
  <2>15. SlotKept(s, a.s)
    BY <1>1, <2>2, <2>6, <2>8, <2>9 DEF Swept, SlotKept
  <2> QED BY <1>1, <2>0, <2>4, <2>8, <2>11, <2>12, <2>13, <2>14, <2>15 DEF Swept, Kept, a
<1> QED BY <1>2, <1>3

\* What a verdict says of the version and the queue.
Refusals == {"INTEGRITY_INVALID", "NOT_ELIGIBLE", "ABORT_STALE", "DETERMINISTIC_ONLY", "ABSTAIN",
             "INCOMPATIBLE_VERSION", "SUPERSEDED", "DROPPED_BACKPRESSURE"}

(* Its kinds.                                                                *)
LEMMA VerdictKinds ==
    ASSUME NEW s, NEW s1, NEW v, NEW t
    PROVE  Verdict(s, s1, v, t) \in Refusals \cup {"NOTHING", "QUEUED"}
BY Zenon DEF Verdict, UnfitState, Refusals

(* A version that is judged at all is not a duplicate.                       *)
LEMMA VerdictJudged ==
    ASSUME NEW s, NEW s1, NEW v, NEW t, Verdict(s, s1, v, t) # "NOTHING"
    PROVE  /\ ~ Replayed(s, s1, v.item_id)
           /\ s1.by_identity[v.identity] = None
           /\ s1.running # Idle => s1.running.version.identity # v.identity
BY Zenon DEF Verdict

(* A version that is queued fits, is newer than what it supersedes and ranks *)
(* before what it drops.                                                     *)
LEMMA VerdictQueued ==
    ASSUME NEW s, NEW s1, NEW v, NEW t, Verdict(s, s1, v, t) = "QUEUED"
    PROVE  LET held == s1.queue[Incumbent(s1, v)].version
               s2 == WithRoom(s1, v)
           IN  /\ PathFits(v, t)
               /\ Incumbent(s1, v) # None => /\ held.policy_version = v.policy_version
                                             /\ held.horizon = v.horizon
                                             /\ ~ NotNewer(v, held)
               /\ Full(s2) => Before(RankKey([version |-> v, enqueued_at |-> t]), RankKey(s2.queue[Worst(s2)]))
BY Zenon DEF Verdict, UnfitState

(* A version is dropped only when there is no room.                          *)
LEMMA VerdictDropped ==
    ASSUME NEW s, NEW s1, NEW v, NEW t, Verdict(s, s1, v, t) = "DROPPED_BACKPRESSURE"
    PROVE  Full(WithRoom(s1, v))
BY Zenon DEF Verdict, UnfitState

(* The room made for a version whose identity is not queued.                 *)
LEMMA RoomMade ==
    ASSUME NEW s, Sound(s), NEW v \in Versions
    PROVE  LET old == Incumbent(s, v)
               r == WithRoom(s, v)
           IN  /\ r \in Memory /\ Indexed(r) /\ IsFiniteSet(Queued(r)) /\ Cardinality(Queued(r)) <= MaxQueued
               /\ Queued(r) = Queued(s) \ {old}
               /\ old # None => /\ old \in Queued(s) /\ s.queue[old].version.group = v.group
                                /\ Cardinality(Queued(r)) < MaxQueued
               /\ old = None => r = s
               /\ \A i \in Queued(r) : r.queue[i] = s.queue[i]
               /\ r.running = s.running /\ r.last_now = s.last_now /\ r.slots_used = s.slots_used
               /\ r.by_group[v.group] = None
               /\ \A x \in Identities : r.by_identity[x] \in {None, s.by_identity[x]}
<1> DEFINE old == Incumbent(s, v)
           r == WithRoom(s, v)
<1>0. s \in Memory /\ Indexed(s) /\ IsFiniteSet(Queued(s)) /\ Cardinality(Queued(s)) <= MaxQueued
  BY DEF Sound
<1>1. v.group \in Groups /\ v.identity \in Identities
  <2>1. v \in Version
    BY SchedulerAssumption
  <2> QED BY <2>1 DEF Version
<1>2. CASE old = None
  <2>1. r = s
    BY <1>2 DEF WithRoom
  <2>2. None \notin Queued(s)
    BY SchedulerAssumption DEF Queued, None
  <2>3. s.by_group[v.group] = None
    BY <1>2 DEF Incumbent
  <2> QED BY <1>0, <1>2, <2>1, <2>2, <2>3
<1>3. CASE old # None
  <2>1. r = _remove(s, {old})
    BY <1>3 DEF WithRoom
  <2>2. old \in Queued(s) /\ s.queue[old].version.group = v.group
    BY <1>0, <1>1, <1>3 DEF Incumbent, Indexed
  <2> HIDE DEF old, r
  <2>3. /\ r \in Memory /\ Queued(r) = Queued(s) \ {old}
        /\ \A i \in Queued(s) \ {old} : r.queue[i] = s.queue[i]
        /\ Indexed(r) /\ r.running = s.running /\ r.last_now = s.last_now /\ r.slots_used = s.slots_used
        /\ \A x \in Identities : r.by_identity[x] \in {None, s.by_identity[x]}
        /\ r.by_group[s.queue[old].version.group] = None
    BY <1>0, <2>1, <2>2, Removed
  <2>4. /\ IsFiniteSet(Queued(s) \ {old}) /\ Cardinality(Queued(s) \ {old}) = Cardinality(Queued(s)) - 1
        /\ Cardinality(Queued(s)) \in Nat /\ MaxQueued \in Nat
    BY <1>0, <2>2, FS_RemoveElement, FS_CardinalityType, SchedulerAssumption
  <2>5. Cardinality(Queued(r)) < MaxQueued /\ Cardinality(Queued(r)) <= MaxQueued
    BY <1>0, <2>3, <2>4
  <2> QED BY <1>3, <2>2, <2>3, <2>4, <2>5 DEF old, r
<1> QED BY <1>2, <1>3

(* An item that is offered and judged is nowhere in the scheduler.           *)
LEMMA OfferedIsNew ==
    ASSUME NEW s, Sound(s), NEW t \in Times, NEW v \in Versions, ActiveIdentity(s, v.item_id) \subseteq {v.identity},
           Verdict(s, Sweep(s, t).s, v, t) # "NOTHING"
    PROVE  LET w == Sweep(s, t)
           IN  /\ v.item_id \in ItemIds /\ v.item_id \notin Queued(s) /\ v.item_id \notin Queued(w.s)
               /\ w.s.running # Idle => w.s.running.version.item_id # v.item_id
               /\ \A p \in w.out : p[1] # v.item_id
<1> DEFINE w == Sweep(s, t)
           id == v.item_id
<1>1. Swept(s, t, w)
  BY SweepSound
<1>2. /\ ~ Replayed(s, w.s, id) /\ w.s.by_identity[v.identity] = None
      /\ w.s.running # Idle => w.s.running.version.identity # v.identity
  <2>1. Verdict(s, w.s, v, t) # "NOTHING"
    OBVIOUS
  <2> DEFINE s1 == w.s
  <2>2. Verdict(s, s1, v, t) # "NOTHING"
    BY <2>1
  <2> HIDE DEF w, s1, id
  <2>3. ~ Replayed(s, s1, v.item_id)
    BY <2>2, VerdictJudged
  <2>4. s1.by_identity[v.identity] = None
    BY <2>2, VerdictJudged
  <2>5. s1.running # Idle => s1.running.version.identity # v.identity
    BY <2>2, VerdictJudged
  <2> QED BY <2>3, <2>4, <2>5 DEF s1, id
<1>3. id \in ItemIds /\ id # None /\ v.identity \in Identities
  <2>1. v \in Version /\ ItemIds \subseteq Nat \ {0}
    BY SchedulerAssumption
  <2> QED BY <2>1 DEF Version, None
<1> HIDE DEF w, id
<1>4. ActiveIdentity(s, id) \subseteq {v.identity}
  BY DEF id
<1>5. s \in Memory /\ Indexed(s) /\ w.s \in Memory /\ Indexed(w.s)
  BY <1>1 DEF Swept, Sound
<1>6. id \notin Queued(w.s)
  <2> SUFFICES ASSUME id \in Queued(w.s) PROVE FALSE
    OBVIOUS
  <2>1. id \in Queued(s) /\ w.s.queue[id] = s.queue[id]
    BY <1>1 DEF Swept
  <2>2. ActiveIdentity(s, id) = {s.queue[id].version.identity}
    BY <2>1 DEF ActiveIdentity, Queued
  <2>3. w.s.queue[id].version.identity = v.identity
    BY <1>4, <2>1, <2>2
  <2>4. w.s.by_identity[v.identity] = id
    BY <1>5, <2>3 DEF Indexed
  <2> QED BY <1>2, <1>3, <2>4
<1>7. s.running # Idle => s.running.version.item_id # id
  <2> SUFFICES ASSUME s.running # Idle, s.running.version.item_id = id PROVE FALSE
    OBVIOUS
  <2>1. id \notin Queued(s) /\ w.s.running # Idle /\ w.s.running.version = s.running.version
    BY <1>1 DEF Swept, Sound
  <2>2. ActiveIdentity(s, id) = {s.running.version.identity}
    BY <1>3, <2>1 DEF ActiveIdentity, Queued
  <2> QED BY <1>2, <1>4, <2>1, <2>2
<1>8. w.s.running # Idle => w.s.running.version.item_id # id
  BY <1>1, <1>7 DEF Swept
<1>9. id \notin Queued(s)
  <2> SUFFICES ASSUME id \in Queued(s) PROVE FALSE
    OBVIOUS
  <2>1. ActiveIdentity(s, id) # {}
    BY DEF ActiveIdentity, Queued
  <2>2. ActiveIdentity(w.s, id) = {}
    BY <1>3, <1>6, <1>8 DEF ActiveIdentity, Queued
  <2> QED BY <1>2, <2>1, <2>2 DEF Replayed
<1>10. \A p \in w.out : p[1] # id
  BY <1>1, <1>7, <1>9 DEF Swept, RunsLate
<1> QED BY <1>3, <1>6, <1>8, <1>9, <1>10 DEF w, id

\* What admit may do with the versions it meets in the queue.
Displaces(s, r, R) ==
    /\ \A i \in Queued(s) : <<i, "SUPERSEDED">> \in R =>
          LET old == s.queue[i].version
              heir == r.by_group[old.group]
              new == r.queue[heir].version
          IN  /\ heir # None /\ new.sealed_at > old.sealed_at
              /\ new.horizon = old.horizon
              /\ new.policy_version = old.policy_version
    /\ \A i \in ItemIds : <<i, "DROPPED_BACKPRESSURE">> \in R =>
          /\ Cardinality(Queued(r)) = MaxQueued
          /\ i \in Queued(s) => \A j \in Queued(r) : Before(RankKey(r.queue[j]), RankKey(s.queue[i]))

(* admit refuses the version: only the sweep changes the memory.             *)
LEMMA RefusalSound ==
    ASSUME NEW s, Sound(s), NEW t \in Times, NEW v \in Versions, ActiveIdentity(s, v.item_id) \subseteq {v.identity},
           Verdict(s, Sweep(s, t).s, v, t) # "QUEUED"
    PROVE  LET a == Admit(s, v, t)
           IN  /\ Kept(s, t, a.s, a.out) /\ a.s.slots_used = s.slots_used
               /\ \A p \in a.out : p[2] \in Closing \cup Refusals
               /\ Displaces(s, a.s, a.out)
               /\ Carried(s, a.s) /\ SlotKept(s, a.s)
<1> DEFINE a == Admit(s, v, t)
           w == Sweep(s, t)
           verdict == Verdict(s, w.s, v, t)
           extra == IF verdict = "NOTHING" THEN {} ELSE {<<v.item_id, verdict>>}
<1>1. Swept(s, t, w)
  BY SweepSound
<1>2. a.s = w.s /\ a.out = w.out \cup extra
  BY DEF Admit
<1>3. verdict \in Refusals \cup {"NOTHING"}
  BY VerdictKinds
<1>4. verdict # "NOTHING" =>
         /\ v.item_id \in ItemIds /\ v.item_id \notin Queued(s) /\ v.item_id \notin Queued(w.s)
         /\ w.s.running # Idle => w.s.running.version.item_id # v.item_id
         /\ \A p \in w.out : p[1] # v.item_id
  BY OfferedIsNew
<1>5. verdict = "DROPPED_BACKPRESSURE" => Full(WithRoom(w.s, v))
  BY VerdictDropped
<1> HIDE DEF a, w, verdict
<1>6. OneEach(extra) /\ \A p \in w.out, q \in extra : p[1] # q[1]
  BY <1>3, <1>4 DEF OneEach, States, Refusals
<1>7. \A p \in extra : p = <<v.item_id, verdict>> /\ verdict \in Refusals
  BY <1>3
<1>8. Moves(w.s, w.s, extra)
  <2> SUFFICES ASSUME NEW i \in ItemIds
               PROVE  /\ i \in Queued(w.s) <=> \/ <<i, "QUEUED">> \in extra
                                               \/ i \in Queued(w.s) /\ \A p \in extra : p[1] # i
                      /\ Runs(w.s, i) <=> \/ <<i, "RUNNING">> \in extra
                                          \/ Runs(w.s, i) /\ \A p \in extra : p[1] # i
    BY DEF Moves
  <2>1. <<i, "QUEUED">> \notin extra /\ <<i, "RUNNING">> \notin extra
    BY <1>7 DEF Refusals
  <2>2. i \in Queued(w.s) \/ Runs(w.s, i) => \A p \in extra : p[1] # i
    BY <1>4 DEF Runs
  <2> QED BY <2>1, <2>2
<1> HIDE DEF extra
<1>9. Moves(s, a.s, a.out) /\ OneEach(a.out)
  BY <1>1, <1>2, <1>6, <1>8, MovesTwice DEF Swept
<1>10. \A p \in a.out : p[2] \in Closing \cup Refusals
  BY <1>1, <1>2, <1>7 DEF Swept
<1>11. Displaces(s, a.s, a.out)
  <2>1. \A i, st : <<i, st>> \in a.out /\ st \in {"SUPERSEDED", "DROPPED_BACKPRESSURE"} => <<i, st>> \in extra
    BY <1>1, <1>2 DEF Swept, Closing
  <2>2. \A i, st : <<i, st>> \in extra => i \notin Queued(s) /\ st = verdict
    BY <1>4, <1>7 DEF Refusals
  <2>3. verdict = "DROPPED_BACKPRESSURE" => Cardinality(Queued(w.s)) = MaxQueued
    <3> SUFFICES ASSUME verdict = "DROPPED_BACKPRESSURE" PROVE Cardinality(Queued(w.s)) = MaxQueued
      OBVIOUS
    <3>1. Sound(w.s)
      BY <1>1 DEF Swept
    <3>2. /\ Incumbent(w.s, v) # None => Cardinality(Queued(WithRoom(w.s, v))) < MaxQueued
          /\ Incumbent(w.s, v) = None => WithRoom(w.s, v) = w.s
      BY <3>1, RoomMade
    <3>3. Cardinality(Queued(WithRoom(w.s, v))) >= MaxQueued
      BY <1>5 DEF Full
    <3>4. IsFiniteSet(Queued(WithRoom(w.s, v)))
      BY <3>1, RoomMade
    <3>5. Cardinality(Queued(WithRoom(w.s, v))) \in Nat /\ MaxQueued \in Nat
      BY <3>4, FS_CardinalityType, SchedulerAssumption
    <3>6. WithRoom(w.s, v) = w.s
      BY <3>2, <3>3, <3>5
    <3> QED BY <3>1, <3>3, <3>5, <3>6 DEF Sound
  <2>4. \A i \in Queued(s) : <<i, "SUPERSEDED">> \notin a.out
    BY <2>1, <2>2
  <2>5. \A i \in ItemIds : <<i, "DROPPED_BACKPRESSURE">> \in a.out =>
           Cardinality(Queued(a.s)) = MaxQueued /\ i \notin Queued(s)
    BY <1>2, <2>1, <2>2, <2>3
  <2> QED BY <2>4, <2>5 DEF Displaces
<1>12. Carried(s, a.s) /\ SlotKept(s, a.s)
  BY <1>1, <1>2 DEF Swept, Carried, SlotKept
<1> QED BY <1>1, <1>2, <1>9, <1>10, <1>11, <1>12 DEF Swept, Kept, a

(* admit queues the version, over the incumbent of its group and, if the     *)
(* queue is full, over its worst entry.                                      *)
LEMMA AdmissionSound ==
    ASSUME NEW s, Sound(s), NEW t \in Times, NEW v \in Versions, ActiveIdentity(s, v.item_id) \subseteq {v.identity},
           Verdict(s, Sweep(s, t).s, v, t) = "QUEUED"
    PROVE  LET a == Admit(s, v, t)
           IN  /\ Kept(s, t, a.s, a.out) /\ a.s.slots_used = s.slots_used
               /\ \A p \in a.out : p[2] \in Closing \cup {"QUEUED", "SUPERSEDED", "DROPPED_BACKPRESSURE"}
               /\ Displaces(s, a.s, a.out)
               /\ Carried(s, a.s) /\ SlotKept(s, a.s)
               /\ a.s.queue[v.item_id].version = v /\ \A p \in a.out : p[2] = "QUEUED" => p[1] = v.item_id
<1> DEFINE a == Admit(s, v, t)
           w == Sweep(s, t)
           u == w.s
           id == v.item_id
           old == Incumbent(u, v)
           s2 == WithRoom(u, v)
           full == Full(s2)
           bad == Worst(s2)
           s3 == IF full THEN _remove(s2, {bad}) ELSE s2
           e == [version |-> v, enqueued_at |-> t]
           extra == {<<id, "QUEUED">>} \cup (IF old # None THEN {<<old, "SUPERSEDED">>} ELSE {})
                      \cup (IF full THEN {<<bad, "DROPPED_BACKPRESSURE">>} ELSE {})
<1>1. Swept(s, t, w)
  BY SweepSound
<1>2. a.s = Insert(s3, e) /\ a.out = w.out \cup extra
  <2>1. /\ a.s = Insert(s3, e)
        /\ a.out = w.out \cup {<<id, "QUEUED">>} \cup (IF old # None THEN {<<old, "SUPERSEDED">>} ELSE {})
                      \cup (IF full THEN {<<bad, "DROPPED_BACKPRESSURE">>} ELSE {})
    BY DEF Admit
  <2> HIDE DEF a, w, old, full, bad, s3, e, id
  <2> QED BY <2>1
<1>3. /\ id \in ItemIds /\ id \notin Queued(s) /\ id \notin Queued(u)
      /\ u.running # Idle => u.running.version.item_id # id
      /\ \A p \in w.out : p[1] # id
  BY OfferedIsNew
<1>4. u.by_identity[v.identity] = None /\ (u.running # Idle => u.running.version.identity # v.identity)
  <2>1. Verdict(s, u, v, t) # "NOTHING"
    OBVIOUS
  <2> HIDE DEF u
  <2> QED BY <2>1, VerdictJudged
<1>5. /\ PathFits(v, t)
      /\ old # None => /\ u.queue[old].version.policy_version = v.policy_version
                       /\ u.queue[old].version.horizon = v.horizon
                       /\ ~ NotNewer(v, u.queue[old].version)
      /\ full => Before(RankKey(e), RankKey(s2.queue[bad]))
  <2>1. Verdict(s, u, v, t) = "QUEUED"
    OBVIOUS
  <2> HIDE DEF u
  <2> QED BY <2>1, VerdictQueued, Zenon
<1>6. Sound(u) /\ Fresh(u, t) /\ u.slots_used = s.slots_used
  BY <1>1 DEF Swept
<1> HIDE DEF w, u
<1>7. /\ s2 \in Memory /\ Indexed(s2) /\ IsFiniteSet(Queued(s2)) /\ Cardinality(Queued(s2)) <= MaxQueued
      /\ Queued(s2) = Queued(u) \ {old}
      /\ old # None => old \in Queued(u) /\ u.queue[old].version.group = v.group
      /\ \A i \in Queued(s2) : s2.queue[i] = u.queue[i]
      /\ s2.running = u.running /\ s2.last_now = u.last_now /\ s2.slots_used = u.slots_used
      /\ s2.by_group[v.group] = None
      /\ \A x \in Identities : s2.by_identity[x] \in {None, u.by_identity[x]}
  BY <1>6, RoomMade
<1>8. v \in Version /\ v.identity \in Identities /\ v.group \in Groups /\ id # None /\ MaxQueued \in Nat \ {0}
      /\ v.horizon \in Horizons /\ v.sealed_at \in Int
  <2>1. v \in Version /\ ItemIds \subseteq Nat \ {0} /\ MaxQueued \in Nat \ {0}
    BY SchedulerAssumption
  <2> QED BY <1>3, <2>1 DEF Version, None
<1>9. /\ full => /\ bad \in Queued(s2) /\ Cardinality(Queued(s2)) = MaxQueued
                 /\ \A j \in Queued(s2) \ {bad} : Before(RankKey(s2.queue[j]), RankKey(s2.queue[bad]))
      /\ ~ full => Cardinality(Queued(s2)) < MaxQueued
  <2>1. Cardinality(Queued(s2)) \in Nat
    BY <1>7, FS_CardinalityType
  <2>2. ~ full => Cardinality(Queued(s2)) < MaxQueued
    BY <1>8, <2>1 DEF Full
  <2>3. full => Cardinality(Queued(s2)) = MaxQueued
    BY <1>7, <1>8, <2>1 DEF Full
  <2> HIDE DEF s2
  <2>4. full => Queued(s2) # {}
    BY <1>8, <2>3, FS_EmptySet
  <2> QED BY <1>7, <2>2, <2>3, <2>4, EndsChosen
<1> HIDE DEF s2, old, full, bad
<1>10. /\ s3 \in Memory /\ Indexed(s3)
       /\ Queued(s3) = IF full THEN Queued(s2) \ {bad} ELSE Queued(s2)
       /\ \A i \in Queued(s3) : s3.queue[i] = s2.queue[i]
       /\ s3.running = u.running /\ s3.last_now = u.last_now /\ s3.slots_used = u.slots_used
       /\ s3.by_group[v.group] = None /\ s3.by_identity[v.identity] = None
  <2>1. s2.by_identity[v.identity] = None
    BY <1>4, <1>7, <1>8
  <2>2. CASE full
    <3>1. /\ s3 \in Memory /\ Indexed(s3) /\ Queued(s3) = Queued(s2) \ {bad}
          /\ \A i \in Queued(s2) \ {bad} : s3.queue[i] = s2.queue[i]
          /\ s3.running = s2.running /\ s3.last_now = s2.last_now /\ s3.slots_used = s2.slots_used
          /\ \A x \in Identities : s3.by_identity[x] \in {None, s2.by_identity[x]}
          /\ \A g \in Groups : s3.by_group[g] \in {None, s2.by_group[g]}
      BY <1>7, <1>9, <2>2, Removed
    <3>2. s3.by_group[v.group] = None /\ s3.by_identity[v.identity] = None
      BY <1>7, <1>8, <2>1, <3>1
    <3> HIDE DEF s3
    <3> QED BY <1>7, <2>2, <3>1, <3>2
  <2>3. CASE ~ full
    BY <1>7, <2>1, <2>3
  <2> QED BY <2>2, <2>3
<1> HIDE DEF s3
<1>11. id \notin Queued(s3) /\ IsFiniteSet(Queued(s3)) /\ Cardinality(Queued(s3)) + 1 <= MaxQueued
       /\ (full => Cardinality(Queued(s3)) + 1 = MaxQueued) /\ Cardinality(Queued(s3)) \in Nat
  <2>1. id \notin Queued(s3)
    BY <1>3, <1>7, <1>10
  <2>2. CASE full
    <3>1. IsFiniteSet(Queued(s2) \ {bad}) /\ Cardinality(Queued(s2) \ {bad}) = Cardinality(Queued(s2)) - 1
      BY <1>7, <1>9, <2>2, FS_RemoveElement
    <3>2. Cardinality(Queued(s2) \ {bad}) \in Nat /\ Cardinality(Queued(s2)) \in Nat
      BY <1>7, <3>1, FS_CardinalityType
    <3>3. Queued(s3) = Queued(s2) \ {bad}
      BY <1>10, <2>2
    <3> QED BY <1>8, <1>9, <2>1, <2>2, <3>1, <3>2, <3>3
  <2>3. CASE ~ full
    <3>1. Cardinality(Queued(s2)) \in Nat
      BY <1>7, FS_CardinalityType
    <3> QED BY <1>7, <1>8, <1>9, <1>10, <2>1, <2>3, <3>1
  <2> QED BY <2>2, <2>3
<1>12. /\ a.s \in Memory
       /\ Queued(a.s) = Queued(s3) \cup {id} /\ a.s.queue[id] = e
       /\ \A i \in Queued(s3) : a.s.queue[i] = s3.queue[i]
       /\ Indexed(a.s)
       /\ a.s.running = s3.running /\ a.s.last_now = s3.last_now /\ a.s.slots_used = s3.slots_used
       /\ a.s.by_group[v.group] = id
  BY <1>2, <1>4, <1>10, <1>11, Inserted
<1> HIDE DEF a
<1>13. IsFiniteSet(Queued(a.s)) /\ Cardinality(Queued(a.s)) = Cardinality(Queued(s3)) + 1
  BY <1>11, <1>12, FS_AddElement
<1>14. Sound(a.s)
  <2>1. u.running # Idle => u.running.version.item_id \notin Queued(a.s)
    BY <1>3, <1>6, <1>7, <1>10, <1>12 DEF Sound
  <2> QED BY <1>6, <1>10, <1>11, <1>12, <1>13, <2>1 DEF Sound
<1>15. Fresh(a.s, t)
  <2>1. a.s.last_now = t
    BY <1>6, <1>10, <1>12 DEF Fresh
  <2>2. \A i \in Queued(s3) : i \in Queued(u) /\ a.s.queue[i] = u.queue[i]
    BY <1>7, <1>10, <1>12
  <2>3. e.enqueued_at = t /\ e.version = v /\ t <= t + MaxQueuedAge[v.horizon]
    <3>1. (\A h \in Horizons : MaxQueuedAge[h] \in Nat) /\ t \in Nat
      BY SchedulerAssumption
    <3> QED BY <1>8, <3>1
  <2> HIDE DEF e
  <2> QED BY <1>5, <1>6, <1>12, <2>1, <2>2, <2>3 DEF Fresh
<1>16. /\ \A p \in extra : \/ p = <<id, "QUEUED">>
                           \/ old # None /\ p = <<old, "SUPERSEDED">>
                           \/ full /\ p = <<bad, "DROPPED_BACKPRESSURE">>
       /\ <<id, "QUEUED">> \in extra
       /\ old # None => <<old, "SUPERSEDED">> \in extra
       /\ full => <<bad, "DROPPED_BACKPRESSURE">> \in extra
  OBVIOUS
<1> HIDE DEF extra, e, id
<1>17. /\ id # old /\ (full => id # bad /\ bad # old /\ bad \in Queued(u)) /\ (old # None => old \in Queued(u))
  BY <1>3, <1>7, <1>8, <1>9
<1>18. OneEach(extra) /\ \A p \in w.out, q \in extra : p[1] # q[1]
  <2>1. \A p, q \in extra : p[1] = q[1] => p = q
    BY <1>16, <1>17
  <2>2. \A q \in extra : q \in ItemIds \X States /\ (q[1] = id \/ q[1] \in Queued(u))
    BY <1>3, <1>16, <1>17 DEF States, Queued
  <2>3. \A p \in w.out : p[1] \notin Queued(u) /\ p[1] # id
    <3>1. /\ Queued(u) \subseteq Queued(s)
          /\ \A p \in w.out : p[1] \in Queued(s) \ Queued(u) \/ (RunsLate(s, t) /\ p[1] = s.running.version.item_id)
      BY <1>1 DEF Swept, u
    <3>2. RunsLate(s, t) => s.running.version.item_id \notin Queued(s)
      BY DEF RunsLate, Sound
    <3> QED BY <1>3, <3>1, <3>2
  <2> QED BY <2>1, <2>2, <2>3 DEF OneEach
<1>19. Moves(u, a.s, extra)
  <2> SUFFICES ASSUME NEW i \in ItemIds
               PROVE  /\ i \in Queued(a.s) <=> <<i, "QUEUED">> \in extra \/ (i \in Queued(u) /\ \A p \in extra : p[1] # i)
                      /\ Runs(a.s, i) <=> <<i, "RUNNING">> \in extra \/ (Runs(u, i) /\ \A p \in extra : p[1] # i)
    BY DEF Moves
  <2>1. (<<i, "QUEUED">> \in extra <=> i = id) /\ <<i, "RUNNING">> \notin extra
    BY <1>16
  <2>2. (\E p \in extra : p[1] = i) <=> i = id \/ (old # None /\ i = old) \/ (full /\ i = bad)
    <3>1. ASSUME i = id \/ (old # None /\ i = old) \/ (full /\ i = bad) PROVE \E p \in extra : p[1] = i
      <4>1. <<id, "QUEUED">>[1] = id /\ <<old, "SUPERSEDED">>[1] = old /\ <<bad, "DROPPED_BACKPRESSURE">>[1] = bad
        OBVIOUS
      <4> QED BY <1>16, <3>1, <4>1
    <3> QED BY <1>16, <3>1
  <2>3. i \in Queued(u) => (i = old => old # None)
    BY SchedulerAssumption DEF Queued, None
  <2>4. i \in Queued(a.s) <=> i = id \/ (i \in Queued(u) /\ i # old /\ ~ (full /\ i = bad))
    BY <1>7, <1>10, <1>12
  <2>5. Runs(a.s, i) <=> Runs(u, i)
    BY <1>10, <1>12 DEF Runs
  <2>6. Runs(u, i) => i # id /\ i \notin Queued(u)
    BY <1>3, <1>6 DEF Runs, Sound
  <2> QED BY <1>3, <1>17, <2>1, <2>2, <2>3, <2>4, <2>5, <2>6
<1>20. Moves(s, a.s, a.out) /\ OneEach(a.out)
  BY <1>1, <1>2, <1>18, <1>19, MovesTwice DEF Swept, u
<1>21. \A p \in a.out : p[2] \in Closing \cup {"QUEUED", "SUPERSEDED", "DROPPED_BACKPRESSURE"}
  BY <1>1, <1>2, <1>16 DEF Swept
<1>22. Displaces(s, a.s, a.out)
  <2>0. \A i \in Queued(u) : i \in Queued(s) /\ u.queue[i] = s.queue[i]
    BY <1>1 DEF Swept, u
  <2>1. \A i : <<i, "SUPERSEDED">> \in a.out => i = old /\ old # None
    BY <1>1, <1>2, <1>16 DEF Swept, Closing
  <2>2. \A i : <<i, "DROPPED_BACKPRESSURE">> \in a.out => i = bad /\ full
    BY <1>1, <1>2, <1>16 DEF Swept, Closing
  <2>3. ASSUME old # None
        PROVE  LET h == s.queue[old].version IN
               /\ h.group = v.group /\ v.sealed_at > h.sealed_at
               /\ v.horizon = h.horizon /\ v.policy_version = h.policy_version
    <3>1. old \in Queued(u) /\ s.queue[old] = u.queue[old] /\ u.queue[old] \in Entry
      BY <1>6, <1>7, <2>0, <2>3, EntryOrNone DEF Sound, Queued
    <3>2. u.queue[old].version.sealed_at \in Int
      BY <3>1, EntryFields
    <3>3. v.sealed_at > u.queue[old].version.sealed_at
      BY <1>5, <1>8, <2>3, <3>2 DEF NotNewer
    <3> QED BY <1>5, <1>7, <2>3, <3>1, <3>3
  <2>4. a.s.queue[id].version = v
    BY <1>12 DEF e
  <2>5. \A i \in Queued(s) : <<i, "SUPERSEDED">> \in a.out =>
          LET was == s.queue[i].version
              heir == a.s.by_group[was.group]
              new == a.s.queue[heir].version
          IN  /\ heir # None /\ new.sealed_at > was.sealed_at
              /\ new.horizon = was.horizon
              /\ new.policy_version = was.policy_version
    <3>1. CASE old = None
      BY <2>1, <3>1
    <3>2. CASE old # None
      <4>1. a.s.by_group[s.queue[old].version.group] = id
        BY <1>12, <2>3, <3>2
      <4> DEFINE was == s.queue[old].version
      <4>2. /\ a.s.by_group[was.group] # None /\ a.s.queue[a.s.by_group[was.group]].version = v
        BY <1>8, <2>4, <4>1
      <4>3. v.sealed_at > was.sealed_at /\ v.horizon = was.horizon /\ v.policy_version = was.policy_version
        BY <2>3, <3>2
      <4>4. \A i : <<i, "SUPERSEDED">> \in a.out => s.queue[i].version = was
        BY <2>1
      <4> HIDE DEF was
      <4> QED BY <4>2, <4>3, <4>4
    <3> QED BY <3>1, <3>2
  <2>6. ASSUME full PROVE \A j \in Queued(a.s) : Before(RankKey(a.s.queue[j]), RankKey(s.queue[bad]))
    <3>1. s.queue[bad] = s2.queue[bad]
      BY <1>7, <1>9, <2>0, <2>6
    <3>2. \A j \in Queued(s3) : a.s.queue[j] = s2.queue[j] /\ j \in Queued(s2) \ {bad}
      BY <1>10, <1>12, <2>6
    <3> QED BY <1>5, <1>9, <1>12, <2>6, <3>1, <3>2
  <2>7. full => Cardinality(Queued(a.s)) = MaxQueued
    BY <1>11, <1>13
  <2> QED BY <2>2, <2>5, <2>6, <2>7 DEF Displaces
<1>23. Carried(s, a.s)
  <2>1. \A i \in Queued(s3) : i \in Queued(u) /\ a.s.queue[i] = u.queue[i]
    BY <1>7, <1>10, <1>12
  <2>2. \A i \in Queued(u) : u.queue[i] = s.queue[i]
    BY <1>1 DEF Swept, u
  <2> QED BY <1>3, <1>12, <2>1, <2>2 DEF Carried
<1>24. SlotKept(s, a.s)
  BY <1>1, <1>10, <1>12 DEF Swept, SlotKept, u
<1>25. a.s.queue[v.item_id].version = v /\ \A p \in a.out : p[2] = "QUEUED" => p[1] = v.item_id
  <2>1. a.s.queue[v.item_id].version = v
    BY <1>12 DEF e, id
  <2>2. \A p \in a.out : p[2] = "QUEUED" => p[1] = id
    BY <1>1, <1>2, <1>16 DEF Swept, Closing
  <2> QED BY <2>1, <2>2 DEF id
<1> QED BY <1>6, <1>10, <1>12, <1>14, <1>15, <1>20, <1>21, <1>22, <1>23, <1>24, <1>25 DEF Kept, a

(* admit, whatever its verdict.                                              *)
LEMMA AdmitSound ==
    ASSUME NEW s, Sound(s), NEW t \in Times, NEW v \in Versions, ActiveIdentity(s, v.item_id) \subseteq {v.identity}
    PROVE  LET a == Admit(s, v, t)
           IN  /\ Kept(s, t, a.s, a.out) /\ a.s.slots_used = s.slots_used
               /\ \A p \in a.out : p[2] # "COMPLETED" /\ p[2] # "RUNNING"
               /\ Displaces(s, a.s, a.out)
               /\ Carried(s, a.s) /\ SlotKept(s, a.s)
               /\ \A p \in a.out : p[2] = "QUEUED" => p[1] = v.item_id /\ a.s.queue[v.item_id].version = v
<1>1. CASE Verdict(s, Sweep(s, t).s, v, t) = "QUEUED"
  BY <1>1, AdmissionSound DEF Closing
<1>2. CASE Verdict(s, Sweep(s, t).s, v, t) # "QUEUED"
  BY <1>2, RefusalSound DEF Closing, Refusals
<1> QED BY <1>1, <1>2

-----------------------------------------------------------------------------
(* The inductive invariant.  To what the runs check it adds that the queue   *)
(* is finite (so it has a best and a worst entry), that an aborted item      *)
(* still in its slot is not queued again, and that the count of dispatches   *)
(* that passed over the lower band is never ahead of the count of slots.     *)

Waits(s) ==
    \A i \in Queued(s) :
        LET v == s.queue[i].version
        IN  /\ s.last_now <= s.queue[i].enqueued_at + MaxQueuedAge[v.horizon]
            /\ s.last_now + HardTimeout + FinalizationReserve
                 <= v.origin_sealed_at + AnalysisDeadline[v.horizon]

SchedIInv ==
    /\ SchedInv
    /\ IsFiniteSet(Queued(sched))
    /\ sched.running # Idle => sched.running.version.item_id \notin Queued(sched)
    /\ skipped <= sched.slots_used

CoreInv ==
    /\ Sound(sched) /\ Waits(sched) /\ Placed(sched, recorded) /\ OneEach(out)
    /\ now \in Times /\ recorded \in [ItemIds -> {"QUEUED", "RUNNING", "OUT"}]
    /\ skipped \in Nat /\ skipped <= sched.slots_used

(* The inductive invariant, by what the lemmas are about.                    *)
LEMMA InvSplits == SchedIInv <=> CoreInv
<1>1. SchedIInv => CoreInv
  <2> SUFFICES ASSUME SchedIInv PROVE CoreInv
    OBVIOUS
  <2>1. Sound(sched)
    BY DEF SchedIInv, SchedInv, SchedTypeOK, IndexesMirrorQueue, QueueBounded, CallBudget, Sound, Memory, Indexed, Capped
  <2>2. Waits(sched)
    BY DEF SchedIInv, SchedInv, WaitBounded, Waits
  <2>3. Placed(sched, recorded) /\ OneEach(out)
    BY DEF SchedIInv, SchedInv, NothingLost, SchedTypeOK, Placed, Runs, OneEach
  <2> QED BY <2>1, <2>2, <2>3 DEF SchedIInv, SchedInv, SchedTypeOK, CoreInv
<1>2. CoreInv => SchedIInv
  <2> SUFFICES ASSUME CoreInv PROVE SchedIInv
    OBVIOUS
  <2>1. SchedTypeOK
    BY DEF CoreInv, Sound, Memory, SchedTypeOK, OneEach
  <2>2. IndexesMirrorQueue /\ QueueBounded /\ CallBudget
    BY DEF CoreInv, Sound, Indexed, Capped, IndexesMirrorQueue, QueueBounded, CallBudget
  <2>3. NothingLost
    BY DEF CoreInv, Placed, Runs, OneEach, NothingLost
  <2>4. WaitBounded
    BY DEF CoreInv, Waits, WaitBounded
  <2>5. FairSlot
    <3>1. sched.slots_used \in 0..(FairSlotEvery - 1) /\ skipped \in Nat /\ skipped <= sched.slots_used
      BY DEF CoreInv, Sound, Memory
    <3> QED BY <3>1, SchedulerAssumption DEF FairSlot
  <2> QED BY <2>1, <2>2, <2>3, <2>4, <2>5 DEF CoreInv, Sound, SchedIInv, SchedInv
<1> QED BY <1>1, <1>2

(* What the sweep leaves in the queue waits no longer than it may.           *)
LEMMA FreshWaits ==
    ASSUME NEW s, NEW t \in Times, Sound(s), Fresh(s, t)
    PROVE  Waits(s)
<1> SUFFICES ASSUME NEW i \in Queued(s)
             PROVE  LET v == s.queue[i].version
                    IN  /\ s.last_now <= s.queue[i].enqueued_at + MaxQueuedAge[v.horizon]
                        /\ s.last_now + HardTimeout + FinalizationReserve
                              <= v.origin_sealed_at + AnalysisDeadline[v.horizon]
  BY DEF Waits
<1> QED BY DEF Fresh, PathFits, Deadline

(* A new scheduler's memory is sound.                                        *)
LEMMA EmptySound == Sound(EmptySchedule) /\ Queued(EmptySchedule) = {} /\ EmptySchedule.running = Idle
<1>1. Queued(EmptySchedule) = {} /\ EmptySchedule.running = Idle
  BY DEF EmptySchedule, Queued
<1>2. EmptySchedule \in Memory
  BY SchedulerAssumption DEF EmptySchedule, Memory, None
<1>3. Indexed(EmptySchedule)
  BY <1>1 DEF EmptySchedule, Indexed
<1>4. IsFiniteSet(Queued(EmptySchedule)) /\ Cardinality(Queued(EmptySchedule)) <= MaxQueued
  BY <1>1, FS_EmptySet, SchedulerAssumption
<1> QED BY <1>1, <1>2, <1>3, <1>4 DEF Sound, Capped

(* It holds initially.                                                       *)
LEMMA InitSound == SchedInit => SchedIInv
<1> SUFFICES ASSUME SchedInit PROVE CoreInv
  BY InvSplits
<1>1. Sound(sched) /\ Queued(sched) = {} /\ sched.running = Idle
  BY EmptySound DEF SchedInit
<1>2. Waits(sched) /\ sched.slots_used = 0
  BY <1>1 DEF Waits, SchedInit, EmptySchedule
<1>3. Placed(sched, recorded) /\ OneEach(out)
  BY <1>1 DEF SchedInit, Placed, Runs, OneEach
<1> QED BY <1>1, <1>2, <1>3 DEF SchedInit, CoreInv

(* A call that keeps the memory sound keeps the history true as well.        *)
LEMMA CallKeeps ==
    ASSUME CoreInv, NEW result, Kept(sched, now, result.s, result.out), Call(result),
           skipped' \in Nat, skipped' <= result.s.slots_used
    PROVE  CoreInv' /\ sched' = result.s /\ out' = result.out
<1>1. sched' = result.s /\ Record(result.out) /\ now' = now /\ out' = result.out
  BY DEF Call, Record
<1>2. Placed(sched, recorded) /\ now \in Times
  BY DEF CoreInv
<1>3. Placed(result.s, recorded')
  BY <1>1, <1>2, RecordPlaces DEF Kept
<1>4. Waits(result.s) /\ Sound(result.s) /\ OneEach(result.out)
  BY <1>2, FreshWaits DEF Kept
<1>5. recorded' \in [ItemIds -> {"QUEUED", "RUNNING", "OUT"}]
  <2>1. \A i \in ItemIds : recorded[i] \in {"QUEUED", "RUNNING", "OUT"}
    BY DEF CoreInv
  <2>2. recorded' = [i \in ItemIds |->
          IF <<i, "QUEUED">> \in result.out THEN "QUEUED"
          ELSE IF <<i, "RUNNING">> \in result.out THEN "RUNNING"
          ELSE IF \E p \in result.out : p[1] = i THEN "OUT"
          ELSE recorded[i]]
    BY <1>1 DEF Record
  <2> QED BY <2>1, <2>2
<1> QED BY <1>1, <1>2, <1>3, <1>4, <1>5 DEF CoreInv

\* What SchedSteps says of one step.
InTimeStep ==
    \A i \in ItemIds : <<i, "COMPLETED">> \in out' =>
         LET v == sched.running.version
         IN  /\ v.item_id = i /\ recorded[i] = "RUNNING"
             /\ now < v.origin_sealed_at + AnalysisDeadline[v.horizon]

(* A step that records only closings and a dispatch completes and displaces  *)
(* nothing.                                                                  *)
LEMMA QuietStep ==
    ASSUME \A p \in out' : p[2] \in Closing \cup {"RUNNING"}
    PROVE  InTimeStep /\ Displaces(sched, sched', out')
<1>1. \A i, st : <<i, st>> \in out' => st \in Closing \cup {"RUNNING"}
  OBVIOUS
<1>2. \A i : /\ <<i, "COMPLETED">> \notin out' /\ <<i, "SUPERSEDED">> \notin out'
             /\ <<i, "DROPPED_BACKPRESSURE">> \notin out'
  BY <1>1 DEF Closing
<1> QED BY <1>2 DEF InTimeStep, Displaces

(* Every step keeps it, completes in time and displaces for the better.      *)
LEMMA NextSound ==
    ASSUME SchedIInv, [SchedNext]_schedVars
    PROVE  SchedIInv' /\ (UNCHANGED schedVars \/ (InTimeStep /\ Displaces(sched, sched', out')))
<1> DEFINE Goal == CoreInv' /\ InTimeStep /\ Displaces(sched, sched', out')
<1>0. CoreInv
  BY InvSplits
<1>1. /\ Sound(sched) /\ now \in Times /\ skipped \in Nat /\ skipped <= sched.slots_used
      /\ sched.slots_used \in 0..(FairSlotEvery - 1) /\ FairSlotEvery \in Nat
  BY <1>0, SchedulerAssumption DEF CoreInv, Sound, Memory
<1>2. ASSUME sweep PROVE Goal
  <2>1. Swept(sched, now, Sweep(sched, now))
    BY <1>1, SweepSound
  <2>2. CoreInv' /\ out' = Sweep(sched, now).out
    BY <1>0, <1>1, <1>2, <2>1, CallKeeps DEF sweep, Swept, Kept
  <2>3. \A p \in out' : p[2] \in Closing \cup {"RUNNING"}
    BY <2>1, <2>2 DEF Swept
  <2> QED BY <2>2, <2>3, QuietStep
<1>3. ASSUME dispatch PROVE Goal
  <2> DEFINE d == Dispatch(sched, now)
             w == Sweep(sched, now)
  <2>1. Swept(sched, now, w)
    BY <1>1, SweepSound
  <2>2. /\ Kept(sched, now, d.s, d.out)
        /\ \A p \in d.out : p[2] \in Closing \cup {"RUNNING"}
        /\ \/ d = w
           \/ /\ sched.running = Idle /\ d.s.running # Idle
              /\ d.s.slots_used = IF sched.slots_used + 1 = FairSlotEvery THEN 0 ELSE sched.slots_used + 1
              /\ sched.slots_used + 1 = FairSlotEvery =>
                    d.s.running.version.band = "ELIGIBLE" \/ Lower(w.s, now) = {}
    BY <1>1, DispatchSound
  <2>3. /\ Call(d)
        /\ skipped' = IF sched'.running = sched.running \/ sched.running # Idle THEN skipped
                      ELSE IF sched'.running.version.band = "ELIGIBLE" \/ Lower(w.s, now) = {} THEN 0
                      ELSE skipped + 1
    BY <1>3 DEF dispatch
  <2> HIDE DEF d, w
  <2>4. sched' = d.s
    BY <2>3 DEF Call
  <2>5. skipped' \in Nat /\ skipped' <= d.s.slots_used
    <3>1. CASE d = w
      <4>1. w.s.slots_used = sched.slots_used /\ (sched.running = Idle => w.s.running = Idle)
        BY <2>1 DEF Swept
      <4>2. skipped' = skipped
        BY <2>3, <2>4, <3>1, <4>1
      <4> QED BY <1>1, <3>1, <4>1, <4>2
    <3>2. CASE d # w
      BY <1>1, <2>2, <2>3, <2>4, <3>2
    <3> QED BY <3>1, <3>2
  <2>6. CoreInv' /\ out' = d.out
    BY <1>0, <2>2, <2>3, <2>5, CallKeeps
  <2> QED BY <2>2, <2>6, QuietStep
<1>4. ASSUME NEW state \in {"COMPLETED", "FAILED"}, sched.running # Idle, Call(Finish(sched, state, now)), skipped' = skipped
      PROVE  Goal
  <2> DEFINE f == Finish(sched, state, now)
  <2>1. /\ Kept(sched, now, f.s, f.out) /\ f.s.slots_used = sched.slots_used
        /\ \A p \in f.out : \/ p[2] \in Closing
                            \/ /\ p = <<sched.running.version.item_id, state>>
                               /\ ~ sched.running.aborted /\ now < Deadline(sched.running.version)
    BY <1>1, <1>4, FinishSound
  <2>2. Call(f) /\ skipped' = skipped
    BY <1>4
  <2> HIDE DEF f
  <2>3. CoreInv' /\ out' = f.out
    BY <1>0, <1>1, <2>1, <2>2, CallKeeps
  <2>4. InTimeStep
    <3> SUFFICES ASSUME NEW i \in ItemIds, <<i, "COMPLETED">> \in out'
                 PROVE  LET v == sched.running.version
                        IN  /\ v.item_id = i /\ recorded[i] = "RUNNING"
                            /\ now < v.origin_sealed_at + AnalysisDeadline[v.horizon]
      BY DEF InTimeStep
    <3>1. <<i, "COMPLETED">>[2] \notin Closing
      BY DEF Closing
    <3>2. /\ <<i, "COMPLETED">> = <<sched.running.version.item_id, state>>
          /\ ~ sched.running.aborted /\ now < Deadline(sched.running.version)
      BY <2>1, <2>3, <3>1
    <3>3. sched.running.version.item_id = i
      BY <3>2
    <3>4. recorded[i] = "RUNNING"
      BY <1>0, <1>4, <3>2, <3>3 DEF CoreInv, Placed, Runs
    <3> QED BY <3>2, <3>3, <3>4 DEF Deadline
  <2>5. Displaces(sched, sched', out')
    <3>1. \A i, st : <<i, st>> \in out' => st \in Closing \/ st = state
      BY <2>1, <2>3
    <3>2. \A i : <<i, "SUPERSEDED">> \notin out' /\ <<i, "DROPPED_BACKPRESSURE">> \notin out'
      BY <3>1 DEF Closing
    <3> QED BY <3>2 DEF Displaces
  <2> QED BY <2>3, <2>4, <2>5
<1>5. ASSUME complete \/ fail PROVE Goal
  BY <1>4, <1>5 DEF complete, fail
<1>6. ASSUME Clock PROVE Goal
  <2>1. /\ sched' = sched /\ recorded' = recorded /\ skipped' = skipped /\ out' = {} /\ now' \in Times
    BY <1>6 DEF Clock
  <2>2. CoreInv'
    BY <1>0, <2>1 DEF CoreInv, OneEach
  <2> QED BY <2>1, <2>2, QuietStep
<1>7. ASSUME NEW v \in Versions, admit(v) PROVE Goal
  <2> DEFINE a == Admit(sched, v, now)
  <2>1. /\ Kept(sched, now, a.s, a.out) /\ a.s.slots_used = sched.slots_used
        /\ \A p \in a.out : p[2] # "COMPLETED"
        /\ Displaces(sched, a.s, a.out)
    BY <1>1, <1>7, AdmitSound DEF admit
  <2>2. Call(a) /\ skipped' = skipped
    BY <1>7 DEF admit
  <2> HIDE DEF a
  <2>3. CoreInv' /\ sched' = a.s /\ out' = a.out
    BY <1>0, <1>1, <2>1, <2>2, CallKeeps
  <2>4. InTimeStep
    BY <2>1, <2>3 DEF InTimeStep
  <2> QED BY <2>1, <2>3, <2>4
<1>8. ASSUME NEW i \in ItemIds, NEW screener \in BOOLEAN, NEW repair \in BOOLEAN, NEW prompt \in PromptBounds,
             authorize_call(i, screener, repair, prompt)
      PROVE  Goal
  <2> DEFINE a == AuthorizeCall(sched, i, screener, repair, prompt, now)
  <2>1. /\ Kept(sched, now, a.s, a.out) /\ a.s.slots_used = sched.slots_used
        /\ \A p \in a.out : p[2] \in Closing
    BY <1>1, AuthorizeSound
  <2>2. Call(a) /\ skipped' = skipped
    BY <1>8 DEF authorize_call
  <2> HIDE DEF a
  <2>3. CoreInv' /\ out' = a.out
    BY <1>0, <1>1, <2>1, <2>2, CallKeeps
  <2> QED BY <2>1, <2>3, QuietStep
<1>9. CASE UNCHANGED schedVars
  <2>1. CoreInv'
    BY <1>0, <1>9 DEF schedVars, CoreInv
  <2> QED BY <1>9, <2>1, InvSplits, PTL
<1>10. CASE SchedNext
  <2>1. Goal
    BY <1>2, <1>3, <1>5, <1>6, <1>7, <1>8, <1>10 DEF SchedNext
  <2>2. SchedIInv'
    BY <2>1, InvSplits, PTL
  <2> QED BY <2>1, <2>2
<1> QED BY <1>9, <1>10

-----------------------------------------------------------------------------
(* Whatever is offered, in whatever order and at whatever times, for every   *)
(* number of items, identities and groups and every policy: the indexes      *)
(* mirror a bounded queue, calls stay within their caps, the last record of  *)
(* each item says where it is and no operation records it twice, the lower   *)
(* band is passed over fewer than fair_slot_every times in a row, and what   *)
(* is queued can still finish in time (admit, dispatch, authorize_call,      *)
(* complete, fail, _sweep).                                                  *)
THEOREM SchedulerSound == SchedSpec => []SchedInv
<1>1. SchedInit => SchedIInv
  BY InitSound
<1>2. SchedIInv /\ [SchedNext]_schedVars => SchedIInv'
  BY NextSound
<1>3. SchedIInv => SchedInv
  BY DEF SchedIInv
<1> QED BY <1>1, <1>2, <1>3, PTL DEF SchedSpec

(* No step records COMPLETED at or after the deadline of the origin, lets a  *)
(* queued version give way to one that is not newer, compatible and itself   *)
(* queued, or drops an entry of the queue for one of lower rank (complete,   *)
(* admit steps 3 and 4).                                                     *)
THEOREM SchedulerSteps == SchedSpec => SchedSteps
<1>1. SchedInit => SchedIInv
  BY InitSound
<1>2. SchedIInv /\ [SchedNext]_schedVars => SchedIInv'
  BY NextSound
<1> DEFINE Replaced == \A i \in Queued(sched) : <<i, "SUPERSEDED">> \in out' =>
             LET old == sched.queue[i].version
                 heir == sched'.by_group[old.group]
                 new == sched'.queue[heir].version
             IN  /\ heir # None /\ new.sealed_at > old.sealed_at
                 /\ new.horizon = old.horizon
                 /\ new.policy_version = old.policy_version
           Dropped == \A i \in ItemIds : <<i, "DROPPED_BACKPRESSURE">> \in out' =>
             /\ Cardinality(Queued(sched')) = MaxQueued
             /\ i \in Queued(sched) => \A j \in Queued(sched') :
                   Before(RankKey(sched'.queue[j]), RankKey(sched.queue[i]))
<1>3. SchedIInv /\ [SchedNext]_schedVars => [InTimeStep]_schedVars
  BY NextSound
<1>4. SchedIInv /\ [SchedNext]_schedVars => [Replaced]_schedVars
  BY NextSound DEF Displaces
<1>5. SchedIInv /\ [SchedNext]_schedVars => [Dropped]_schedVars
  BY NextSound DEF Displaces
<1>6. SchedSpec => [][InTimeStep]_schedVars
  BY <1>1, <1>2, <1>3, PTL DEF SchedSpec
<1>7. SchedSpec => [][Replaced]_schedVars
  BY <1>1, <1>2, <1>4, PTL DEF SchedSpec
<1>8. SchedSpec => [][Dropped]_schedVars
  BY <1>1, <1>2, <1>5, PTL DEF SchedSpec
<1>9. SchedSpec => PublishedInTime
  BY <1>6 DEF PublishedInTime, InTimeStep
<1>10. SchedSpec => SupersededByNewer
  BY <1>7 DEF SupersededByNewer
<1>11. SchedSpec => BackpressureDropsWorst
  BY <1>8 DEF BackpressureDropsWorst
<1> QED BY <1>9, <1>10, <1>11 DEF SchedSteps, DisplacedByBetter
============================================================================
