----------------------- MODULE InferenceWorkerProofs -----------------------
(***************************************************************************)
(* What holds of the inference worker for every set of items, versions,    *)
(* invocations and instants, however its collector, watchdog, operator,    *)
(* rival processes and crashes interleave with it and whatever raises.     *)
(*                                                                         *)
(* The worker's steps on the ledger are steps of the ledger and its calls  *)
(* of the scheduler are operations of the scheduler, so their theorems and *)
(* lemmas (L!..., S!...) carry most of the argument.                       *)
(***************************************************************************)
EXTENDS InferenceWorker, TLAPS

Said == {"QUEUED", "RUNNING", "COMPLETED", "OUT"}
BatchSet == [records : SUBSET (ItemIds \X Said), publication : SUBSET (ItemIds \X Ids)]
WorkerMemory ==
    [versions : [ItemIds -> Versions \cup {NoVersion}], pending : Seq(BatchSet),
     pending_fail : ItemIds \cup {None}, stop : BOOLEAN, restart_required : BOOLEAN,
     failures : 0..MaxFailures, disabled : BOOLEAN]
ActiveCall == [phase : {"within", "over", "beyond"}, cancel : BOOLEAN, timed_out : BOOLEAN]
Item == [version : Versions, lease : L!Lease \cup {NoJob}, seconds : Nat, repair : BOOLEAN,
         call_deadline : Nat, raised : BOOLEAN]

\* Where the thread has no item, where it has one, and where it has its lease.
Between == {"recover", "releasing", "loop", "next", "dispatch", "exited"}
Leased == {"attempts", "record", "call", "calling", "abandon", "commit", "late", "discard", "complete", "publish"}
Working == Leased \cup {"refuse", "lease", "claim", "failing"}

\* The worker keeps of each live item the version the scheduler has.
VersionsFit(s, versions) ==
    \A i \in ItemIds :
        versions[i] = IF i \in S!Queued(s) THEN s.queue[i].version
                      ELSE IF S!Runs(s, i) THEN s.running.version ELSE NoVersion

\* Scheduler, versions and sink tell one story.
Story ==
    /\ S!Sound(sched) /\ mem \in WorkerMemory
    /\ S!Placed(sched, View) /\ VersionsFit(sched, mem.versions)

LedgerOK == L!TypeOK /\ L!GenerationsUnique

\* The thread's locals fit its place; a lease it uses was handed out.
JobFits ==
    /\ pc \in Between \cup Working
    /\ pc \in Working => job \in Item
    /\ pc \in Leased => job.lease \in leases
    /\ pc = "claim" => job.seconds \in 1..MaxLease
    /\ pc = "releasing" => job.todo \subseteq leases

\* An item is in the slot while the thread works on it, and stays there
\* otherwise only if it is remembered.
SlotFits ==
    /\ pc \in Working => sched.running # S!Idle /\ mem.pending_fail = None
    /\ pc = "dispatch" => mem.pending_fail = None
    /\ mem.pending_fail # None => sched.running # S!Idle /\ sched.running.version.item_id = mem.pending_fail
    /\ pc \in Between /\ sched.running # S!Idle => mem.pending_fail # None

\* The breaker is closed on the way to a call, and a call is registered while
\* it runs; after a request to terminate the thread is on its way out.
CallFits ==
    /\ active = NoCall \/ active \in ActiveCall
    /\ active # NoCall <=> pc = "calling"
    /\ active # NoCall /\ mem.stop => active.cancel
    /\ mem.disabled <=> mem.failures = MaxFailures
    /\ pc \in {"lease", "claim", "attempts", "record", "call", "calling"} => ~mem.disabled
    /\ mem.restart_required => pc \in {"calling", "abandon", "failing", "loop", "next", "exited"}

\* A call about to begin is already paid for.
PaidFor ==
    /\ made \in [Ids -> Nat] /\ CallsCovered
    /\ pc = "call" => /\ rows[job.lease.invocation_id] # L!NoRow
                      /\ made[job.lease.invocation_id] < rows[job.lease.invocation_id].attempt_count

\* What is about to be published is committed and was never published.
PublicationsFit ==
    /\ Publications \subseteq ItemIds \X Ids /\ PublishedIsCommitted
    /\ pc = "publish" => /\ rows[job.lease.invocation_id].state = "COMPLETED"
                         /\ \A p \in Publications : p[2] # job.lease.invocation_id

WorkerIInv == LedgerOK /\ Story /\ JobFits /\ SlotFits /\ CallFits /\ PaidFor /\ PublicationsFit

-----------------------------------------------------------------------------
(* The sink: what a sequence of batches says of an item.                    *)

\* The policies that SchedulerPolicy accepts, for the lemmas on the scheduler.
LEMMA Assumed ==
    /\ S!SchedulerAssumption /\ L!LedgerAssumption /\ L!TablesAssumption
    /\ MaxFailures \in Nat \ {0} /\ MaxLease \in Nat /\ RecoveryLease \in 1..MaxLease
BY WorkerAssumption DEF WorkerAssumption

\* A nonempty set of numbers below a bound has a greatest one.
LEMMA GreatestNumber ==
    ASSUME NEW n \in Nat, NEW T \in SUBSET (1..n), T # {}
    PROVE  Max(T) \in T /\ \A y \in T : Max(T) >= y
<1> DEFINE U == {n - y : y \in T}
<1>1. U \in SUBSET Nat /\ U # {}
  <2>1. \A y \in T : y \in 1..n /\ n - y \in Nat
    OBVIOUS
  <2>2. \E y \in T : n - y \in U
    OBVIOUS
  <2> QED BY <2>1, <2>2
<1>2. PICK u \in U : \A w \in U : u <= w
  <2> HIDE DEF U
  <2> QED BY <1>1, Assumed, S!LeastNumber
<1>3. PICK x \in T : u = n - x
  BY <1>2
<1>4. \A y \in T : x >= y
  <2> SUFFICES ASSUME NEW y \in T PROVE x >= y
    OBVIOUS
  <2>1. n - y \in U
    OBVIOUS
  <2>2. u <= n - y
    BY <1>2, <2>1
  <2> QED BY <1>3, <2>2
<1> QED BY <1>4 DEF Max

\* The last batch that tells of item i, if any does.
LEMMA TellingLast ==
    ASSUME NEW batches \in Seq(BatchSet), NEW i, Telling(batches, i) # {}
    PROVE  /\ Max(Telling(batches, i)) \in Telling(batches, i)
           /\ \A k \in Telling(batches, i) : Max(Telling(batches, i)) >= k
<1>1. Telling(batches, i) \in SUBSET (1..Len(batches)) /\ Len(batches) \in Nat
  BY DEF Telling
<1> QED BY <1>1, GreatestNumber

\* It is the only batch with these two properties.
LEMMA TellingIs ==
    ASSUME NEW batches \in Seq(BatchSet), NEW i, NEW n \in Telling(batches, i),
           \A k \in Telling(batches, i) : n >= k
    PROVE  Max(Telling(batches, i)) = n
<1>1. /\ Max(Telling(batches, i)) \in Telling(batches, i)
      /\ Max(Telling(batches, i)) >= n
  BY TellingLast
<1>2. n >= Max(Telling(batches, i)) /\ n \in Nat /\ Max(Telling(batches, i)) \in Nat
  BY <1>1 DEF Telling
<1> QED BY <1>1, <1>2

\* The batch tells of item i, and what it says.
Tells(b, i) == \E r \in b.records : r[1] = i
RecordOf(b, i) == (CHOOSE r \in b.records : r[1] = i)[2]

\* What is written of item i, in the two cases.
LEMMA WrittenOf ==
    ASSUME NEW states, NEW batches, NEW i \in ItemIds
    PROVE  /\ Telling(batches, i) = {} => Written(states, batches)[i] = states[i]
           /\ Telling(batches, i) # {} =>
                Written(states, batches)[i] = RecordOf(batches[Max(Telling(batches, i))], i)
BY DEF Written, RecordOf

\* Nothing written changes nothing.
LEMMA WrittenNothing ==
    ASSUME NEW states, NEW i \in ItemIds
    PROVE  Written(states, <<>>)[i] = states[i]
<1>1. Telling(<<>>, i) = {}
  BY DEF Telling
<1> QED BY <1>1, WrittenOf

\* What one more batch b changes in what is said of item i.
LastWord(states, batches, b, i) ==
    /\ Tells(b, i) => Written(states, Append(batches, b))[i] = RecordOf(b, i)
    /\ ~Tells(b, i) => Written(states, Append(batches, b))[i] = Written(states, batches)[i]

\* One more batch has the last word on the items it tells of, and no other.
LEMMA WrittenAppend ==
    ASSUME NEW states, NEW batches \in Seq(BatchSet), NEW b \in BatchSet, NEW i \in ItemIds
    PROVE  LastWord(states, batches, b, i)
<1> USE DEF LastWord
<1> DEFINE all == Append(batches, b)
           n == Len(batches) + 1
<1>1. /\ all \in Seq(BatchSet) /\ n \in Nat \ {0} /\ DOMAIN all = 1..n /\ DOMAIN batches = 1..(n - 1)
      /\ all[n] = b /\ \A k \in 1..(n - 1) : all[k] = batches[k]
  OBVIOUS
<1> HIDE DEF all, n
<1>2. CASE Tells(b, i)
  <2>1. n \in Telling(all, i) /\ \A k \in Telling(all, i) : n >= k
    BY <1>1, <1>2 DEF Telling, Tells
  <2>2. Max(Telling(all, i)) = n
    BY <1>1, <2>1, TellingIs
  <2>3. Written(states, all)[i] = RecordOf(b, i)
    BY <1>1, <2>1, <2>2, WrittenOf
  <2> QED BY <1>2, <2>3 DEF all
<1>3. CASE ~Tells(b, i)
  <2>1. Telling(all, i) = Telling(batches, i)
    BY <1>1, <1>3 DEF Telling, Tells
  <2>2. CASE Telling(batches, i) = {}
    BY <1>3, <2>1, <2>2, WrittenOf DEF all
  <2>3. CASE Telling(batches, i) # {}
    <3>1. Max(Telling(batches, i)) \in 1..(n - 1)
      BY <1>1, <2>3, TellingLast DEF Telling
    <3>2. Written(states, all)[i] = RecordOf(all[Max(Telling(batches, i))], i)
      BY <2>1, <2>3, WrittenOf
    <3>3. Written(states, batches)[i] = RecordOf(batches[Max(Telling(batches, i))], i)
      BY <2>3, WrittenOf
    <3>4. Written(states, all)[i] = Written(states, batches)[i]
      BY <1>1, <3>1, <3>2, <3>3
    <3> QED BY <1>3, <3>4 DEF all
  <2> QED BY <2>2, <2>3
<1> QED BY <1>2, <1>3

\* Writing the first k batches and then the rest is writing them all.
LEMMA WrittenSplit ==
    ASSUME NEW states, NEW batches \in Seq(BatchSet), NEW k \in 0..Len(batches), NEW i \in ItemIds
    PROVE  Written(Written(states, SubSeq(batches, 1, k)), Kept(batches, k))[i] = Written(states, batches)[i]
<1> DEFINE a == SubSeq(batches, 1, k)
           c == Kept(batches, k)
           n == Len(batches)
<1>1. n \in Nat /\ k \in Nat /\ k <= n /\ DOMAIN batches = 1..n
  OBVIOUS
<1>2. a \in Seq(BatchSet) /\ DOMAIN a = 1..k /\ \A j \in 1..k : a[j] = batches[j]
  <2>1. \A j \in 1..k : batches[j] \in BatchSet
    OBVIOUS
  <2> QED BY <1>1, <2>1
<1>3. c \in Seq(BatchSet) /\ DOMAIN c = 1..(n - k) /\ \A j \in 1..(n - k) : c[j] = batches[j + k]
  <2>1. \A j \in (k + 1)..n : batches[j] \in BatchSet
    OBVIOUS
  <2> QED BY <1>1, <2>1 DEF Kept
<1> HIDE DEF a, c, n
<1>4. \A j \in 1..(n - k) : j \in Telling(c, i) <=> j + k \in Telling(batches, i)
  BY <1>1, <1>3 DEF Telling
<1>5. \A j \in 1..k : j \in Telling(a, i) <=> j \in Telling(batches, i)
  BY <1>1, <1>2 DEF Telling
<1>6. CASE Telling(c, i) # {}
  <2>1. PICK m \in Telling(c, i) : \A j \in Telling(c, i) : m >= j
    BY <1>3, <1>6, TellingLast
  <2>2. m \in 1..(n - k) /\ Max(Telling(c, i)) = m
    BY <1>3, <2>1, TellingIs DEF Telling
  <2>3. ASSUME NEW j \in Telling(batches, i) PROVE m + k >= j
    <3>1. j \in 1..n
      BY <1>1 DEF Telling
    <3>2. CASE j <= k
      BY <1>1, <2>2, <3>1, <3>2
    <3>3. CASE j > k
      <4>1. j - k \in 1..(n - k) /\ (j - k) + k = j
        BY <1>1, <3>1, <3>3
      <4>2. j - k \in Telling(c, i)
        BY <1>4, <4>1
      <4> QED BY <1>1, <2>1, <2>2, <3>1, <4>2
    <3> QED BY <1>1, <3>1, <3>2, <3>3
  <2>4. m + k \in Telling(batches, i)
    BY <1>4, <2>1, <2>2
  <2>5. Max(Telling(batches, i)) = m + k
    BY <2>3, <2>4, TellingIs
  <2>6. Written(states, batches)[i] = RecordOf(batches[m + k], i)
    BY <2>4, <2>5, WrittenOf
  <2>7. Written(Written(states, a), c)[i] = RecordOf(c[m], i)
    BY <2>1, <2>2, WrittenOf
  <2> QED BY <1>3, <2>2, <2>6, <2>7 DEF a, c
<1>7. CASE Telling(c, i) = {}
  <2>1. Telling(batches, i) = Telling(a, i)
    <3>1. ASSUME NEW j \in Telling(batches, i) PROVE j \in Telling(a, i)
      <4>1. j \in 1..n
        BY <1>1 DEF Telling
      <4>2. CASE j <= k
        BY <1>1, <1>5, <4>1, <4>2
      <4>3. CASE j > k
        <5>1. j - k \in 1..(n - k) /\ (j - k) + k = j
          BY <1>1, <4>1, <4>3
        <5> QED BY <1>4, <1>7, <5>1
      <4> QED BY <1>1, <4>1, <4>2, <4>3
    <3>2. ASSUME NEW j \in Telling(a, i) PROVE j \in Telling(batches, i)
      <4>1. j \in 1..k
        BY <1>2 DEF Telling
      <4> QED BY <1>5, <4>1
    <3> QED BY <3>1, <3>2
  <2>2. Written(Written(states, a), c)[i] = Written(states, a)[i]
    BY <1>7, WrittenOf
  <2>3. CASE Telling(a, i) = {}
    BY <2>1, <2>2, <2>3, WrittenOf DEF a, c
  <2>4. CASE Telling(a, i) # {}
    <3>1. Max(Telling(a, i)) \in 1..k
      BY <1>2, <2>4, TellingLast DEF Telling
    <3>2. Written(states, a)[i] = RecordOf(a[Max(Telling(a, i))], i)
      BY <2>4, WrittenOf
    <3>3. Written(states, batches)[i] = RecordOf(batches[Max(Telling(a, i))], i)
      BY <2>1, <2>4, WrittenOf
    <3> QED BY <1>2, <2>2, <3>1, <3>2, <3>3 DEF a, c
  <2> QED BY <2>3, <2>4
<1> QED BY <1>6, <1>7

-----------------------------------------------------------------------------
(* Flushing and emitting.                                                   *)

\* What the batches publish.
Pubs(batches) == UNION {batches[k].publication : k \in DOMAIN batches}

\* What the records of a batch say of a record's state.
Shown(st) == IF Terminal(st) /\ st # "COMPLETED" THEN "OUT" ELSE st

SameFlags(a, b) ==
    /\ a.pending_fail = b.pending_fail /\ a.stop = b.stop /\ a.restart_required = b.restart_required
    /\ a.failures = b.failures /\ a.disabled = b.disabled

\* Publications are those accepted and those pending.
LEMMA PublicationsAre ==
    /\ Publications = published \cup Pubs(mem.pending)
    /\ Publications' = published' \cup Pubs(mem'.pending)
BY DEF Publications, Pubs

\* What is published by the first k batches and the rest is published by all.
LEMMA PubsSplit ==
    ASSUME NEW batches \in Seq(BatchSet), NEW k \in 0..Len(batches)
    PROVE  Pubs(SubSeq(batches, 1, k)) \cup Pubs(Kept(batches, k)) = Pubs(batches)
<1> DEFINE a == SubSeq(batches, 1, k)
           c == Kept(batches, k)
           n == Len(batches)
<1>1. n \in Nat /\ k \in Nat /\ k <= n /\ DOMAIN batches = 1..n
  OBVIOUS
<1>2. DOMAIN a = 1..k /\ \A j \in 1..k : a[j] = batches[j]
  BY <1>1
<1>3. DOMAIN c = 1..(n - k) /\ \A j \in 1..(n - k) : c[j] = batches[j + k]
  BY <1>1 DEF Kept
<1> HIDE DEF a, c, n
<1>4. ASSUME NEW p \in Pubs(a) PROVE p \in Pubs(batches)
  <2>1. PICK j \in 1..k : p \in a[j].publication
    BY <1>2 DEF Pubs
  <2>2. j \in DOMAIN batches /\ p \in batches[j].publication
    BY <1>1, <1>2, <2>1
  <2> QED BY <2>2 DEF Pubs
<1>5. ASSUME NEW p \in Pubs(c) PROVE p \in Pubs(batches)
  <2>1. PICK j \in 1..(n - k) : p \in c[j].publication
    BY <1>3 DEF Pubs
  <2>2. j + k \in DOMAIN batches /\ p \in batches[j + k].publication
    BY <1>1, <1>3, <2>1
  <2> QED BY <2>2 DEF Pubs
<1>6. ASSUME NEW p \in Pubs(batches) PROVE p \in Pubs(a) \cup Pubs(c)
  <2>1. PICK j \in 1..n : p \in batches[j].publication
    BY <1>1 DEF Pubs
  <2>2. CASE j <= k
    <3>1. j \in DOMAIN a /\ p \in a[j].publication
      BY <1>1, <1>2, <2>1, <2>2
    <3> QED BY <3>1 DEF Pubs
  <2>3. CASE j > k
    <3>1. j - k \in 1..(n - k) /\ (j - k) + k = j
      BY <1>1, <2>1, <2>3
    <3>2. j - k \in DOMAIN c /\ p \in c[j - k].publication
      BY <1>3, <2>1, <3>1
    <3> QED BY <3>2 DEF Pubs
  <2> QED BY <1>1, <2>1, <2>2, <2>3
<1> QED BY <1>4, <1>5, <1>6 DEF a, c

\* One more batch publishes what it holds.
LEMMA PubsAppend ==
    ASSUME NEW batches \in Seq(BatchSet), NEW b \in BatchSet
    PROVE  Pubs(Append(batches, b)) = Pubs(batches) \cup b.publication
<1> DEFINE all == Append(batches, b)
           n == Len(batches) + 1
<1>1. /\ n \in Nat \ {0} /\ DOMAIN all = 1..n /\ DOMAIN batches = 1..(n - 1)
      /\ all[n] = b /\ \A k \in 1..(n - 1) : all[k] = batches[k]
  OBVIOUS
<1> HIDE DEF all, n
<1>2. ASSUME NEW p \in Pubs(all) PROVE p \in Pubs(batches) \cup b.publication
  <2>1. PICK j \in 1..n : p \in all[j].publication
    BY <1>1 DEF Pubs
  <2>2. CASE j = n
    BY <1>1, <2>1, <2>2
  <2>3. CASE j # n
    <3>1. j \in DOMAIN batches /\ p \in batches[j].publication
      BY <1>1, <2>1, <2>3
    <3> QED BY <3>1 DEF Pubs
  <2> QED BY <2>2, <2>3
<1>3. ASSUME NEW p \in Pubs(batches) PROVE p \in Pubs(all)
  <2>1. PICK j \in 1..(n - 1) : p \in batches[j].publication
    BY <1>1 DEF Pubs
  <2>2. j \in DOMAIN all /\ p \in all[j].publication
    BY <1>1, <2>1
  <2> QED BY <2>2 DEF Pubs
<1>4. ASSUME NEW p \in b.publication PROVE p \in Pubs(all)
  <2>1. n \in DOMAIN all /\ p \in all[n].publication
    BY <1>1, <1>4
  <2> QED BY <2>1 DEF Pubs
<1> QED BY <1>2, <1>3, <1>4 DEF all

\* A memory with other batches pending.
LEMMA PendingChanged ==
    ASSUME NEW m \in WorkerMemory, NEW batches \in Seq(BatchSet)
    PROVE  /\ [m EXCEPT !.pending = batches] \in WorkerMemory
           /\ [m EXCEPT !.pending = batches].pending = batches
           /\ [m EXCEPT !.pending = batches].versions = m.versions
           /\ SameFlags([m EXCEPT !.pending = batches], m)
BY DEF WorkerMemory, SameFlags

\* Taking the first k pending batches changes neither what the sink will say
\* nor what will be published.
LEMMA FlushSays ==
    ASSUME NEW m \in WorkerMemory, NEW k \in 0..Len(m.pending), Flush(m, k)
    PROVE  /\ mem' \in WorkerMemory /\ mem'.versions = m.versions /\ SameFlags(mem', m)
           /\ \A i \in ItemIds : View'[i] = Written(durable, m.pending)[i]
           /\ Publications' = published \cup Pubs(m.pending)
<1>1. m.pending \in Seq(BatchSet)
  BY DEF WorkerMemory
<1>2. Kept(m.pending, k) \in Seq(BatchSet)
  <2>1. \A j \in (k + 1)..Len(m.pending) : m.pending[j] \in BatchSet
    BY <1>1
  <2> QED BY <1>1, <2>1 DEF Kept
<1>3. /\ mem' \in WorkerMemory /\ mem'.pending = Kept(m.pending, k) /\ mem'.versions = m.versions
      /\ SameFlags(mem', m)
  BY <1>2, PendingChanged DEF Flush
<1>4. /\ durable' = Written(durable, SubSeq(m.pending, 1, k))
      /\ published' = published \cup Pubs(SubSeq(m.pending, 1, k))
  BY DEF Flush, Persist, Pubs
<1>5. \A i \in ItemIds : View'[i] = Written(durable, m.pending)[i]
  <2> SUFFICES ASSUME NEW i \in ItemIds PROVE View'[i] = Written(durable, m.pending)[i]
    OBVIOUS
  <2>1. View' = Written(Written(durable, SubSeq(m.pending, 1, k)), Kept(m.pending, k))
    BY <1>3, <1>4 DEF View
  <2> QED BY <1>1, <2>1, WrittenSplit
<1>6. Publications' = published \cup Pubs(m.pending)
  BY <1>1, <1>3, <1>4, PublicationsAre, PubsSplit
<1> QED BY <1>3, <1>5, <1>6

\* The batch of some records says of each item what its record says.
LEMMA BatchSays ==
    ASSUME NEW R, S!OneEach(R), NEW publication \in SUBSET (ItemIds \X Ids)
    PROVE  /\ Batch(R, publication) \in BatchSet /\ Batch(R, publication).publication = publication
           /\ \A i : (\E r \in Batch(R, publication).records : r[1] = i) <=> \E r \in R : r[1] = i
           /\ \A i, st : <<i, st>> \in R => RecordOf(Batch(R, publication), i) = Shown(st)
<1> DEFINE b == Batch(R, publication)
<1>1. b.records = {<<r[1], Shown(r[2])>> : r \in R} /\ b.publication = publication
      /\ b = [records |-> {<<r[1], Shown(r[2])>> : r \in R}, publication |-> publication]
  BY DEF Batch, Shown
<1>2. \A r \in R : r[1] \in ItemIds /\ Shown(r[2]) \in Said /\ r = <<r[1], r[2]>>
  BY DEF S!OneEach, S!States, Shown, Terminal, Said
<1>3. b \in BatchSet
  <2>1. {<<r[1], Shown(r[2])>> : r \in R} \in SUBSET (ItemIds \X Said)
    BY <1>2
  <2> QED BY <1>1, <2>1 DEF BatchSet
<1> HIDE DEF b
<1>4. ASSUME NEW i PROVE (\E r \in b.records : r[1] = i) <=> \E r \in R : r[1] = i
  <2>1. ASSUME NEW q \in b.records, q[1] = i PROVE \E r \in R : r[1] = i
    <3>1. PICK r \in R : q = <<r[1], Shown(r[2])>>
      BY <1>1, <2>1
    <3> QED BY <2>1, <3>1
  <2>2. ASSUME NEW r \in R, r[1] = i PROVE \E q \in b.records : q[1] = i
    <3>1. PICK q : q = <<r[1], Shown(r[2])>>
      OBVIOUS
    <3>2. q \in b.records
      BY <1>1, <3>1
    <3> QED BY <2>2, <3>1, <3>2
  <2> QED BY <2>1, <2>2
<1>5. ASSUME NEW i, NEW st, <<i, st>> \in R PROVE RecordOf(b, i) = Shown(st)
  <2>1. <<i, Shown(st)>> \in b.records
    BY <1>1, <1>5
  <2>2. ASSUME NEW q \in b.records, q[1] = i PROVE q = <<i, Shown(st)>>
    <3>1. PICK r \in R : q = <<r[1], Shown(r[2])>>
      BY <1>1, <2>2
    <3>2. r[1] = i
      BY <2>2, <3>1
    <3>3. r = <<i, st>>
      BY <1>5, <3>2 DEF S!OneEach
    <3> QED BY <3>1, <3>3
  <2>3. (CHOOSE q \in b.records : q[1] = i) = <<i, Shown(st)>>
    BY <2>1, <2>2
  <2>4. RecordOf(b, i) = <<i, Shown(st)>>[2]
    BY <2>3, Zenon DEF RecordOf
  <2> QED BY <2>4
<1> QED BY <1>1, <1>3, <1>4, <1>5 DEF b

\* _emit_locked: what the sink will say after it, and what will be published.
LEMMA EmitSays ==
    ASSUME NEW m \in WorkerMemory, NEW R, S!OneEach(R), NEW publication \in SUBSET (ItemIds \X Ids),
           NEW flushed \in Nat, Emit(m, R, publication, flushed)
    PROVE  /\ mem' \in WorkerMemory /\ mem'.versions = Forget(m, R) /\ SameFlags(mem', m)
           /\ \A i \in ItemIds : (\A r \in R : r[1] # i) => View'[i] = Written(durable, m.pending)[i]
           /\ \A i \in ItemIds : \A st : <<i, st>> \in R => View'[i] = Shown(st)
           /\ Publications' = published \cup Pubs(m.pending) \cup publication
<1> DEFINE b == Batch(R, publication)
<1>1. m.pending \in Seq(BatchSet) /\ m.versions \in [ItemIds -> Versions \cup {NoVersion}]
  BY DEF WorkerMemory
<1>2. /\ b \in BatchSet /\ b.publication = publication
      /\ \A i : (\E r \in b.records : r[1] = i) <=> \E r \in R : r[1] = i
      /\ \A i, st : <<i, st>> \in R => RecordOf(b, i) = Shown(st)
  BY BatchSays
<1>3. PICK batches : /\ batches = IF R = {} /\ publication = {} THEN m.pending ELSE Append(m.pending, b)
                     /\ \E k \in flushed..Len(batches) :
                          Flush([m EXCEPT !.pending = batches, !.versions = Forget(m, R)], k)
  BY DEF Emit
<1> HIDE DEF b
<1>4. batches \in Seq(BatchSet)
  BY <1>1, <1>2, <1>3
<1>5. Forget(m, R) \in [ItemIds -> Versions \cup {NoVersion}]
  BY <1>1 DEF Forget
<1>6. PICK w : w = [m EXCEPT !.pending = batches, !.versions = Forget(m, R)]
  OBVIOUS
<1>7. w \in WorkerMemory /\ w.pending = batches /\ w.versions = Forget(m, R) /\ SameFlags(w, m)
  BY <1>4, <1>5, <1>6 DEF WorkerMemory, SameFlags
<1>8. PICK k \in 0..Len(w.pending) : Flush(w, k)
  <2>1. PICK k \in flushed..Len(batches) : Flush(w, k)
    BY <1>3, <1>6, Zenon
  <2>2. Len(batches) \in Nat
    BY <1>4
  <2>3. k \in 0..Len(w.pending)
    BY <1>7, <2>1, <2>2
  <2> QED BY <2>1, <2>3
<1>9. /\ mem' \in WorkerMemory /\ mem'.versions = Forget(m, R) /\ SameFlags(mem', m)
      /\ \A i \in ItemIds : View'[i] = Written(durable, batches)[i]
      /\ Publications' = published \cup Pubs(batches)
  <2>1. /\ mem' \in WorkerMemory /\ mem'.versions = w.versions /\ SameFlags(mem', w)
        /\ \A i \in ItemIds : View'[i] = Written(durable, w.pending)[i]
        /\ Publications' = published \cup Pubs(w.pending)
    BY <1>7, <1>8, FlushSays
  <2> QED BY <1>7, <2>1 DEF SameFlags
<1>10. CASE R = {} /\ publication = {}
  BY <1>3, <1>9, <1>10
<1>11. CASE ~(R = {} /\ publication = {})
  <2>1. batches = Append(m.pending, b)
    BY <1>3, <1>11
  <2>2. \A i \in ItemIds :
          /\ Tells(b, i) => Written(durable, batches)[i] = RecordOf(b, i)
          /\ ~Tells(b, i) => Written(durable, batches)[i] = Written(durable, m.pending)[i]
    <3>1. \A i \in ItemIds : LastWord(durable, m.pending, b, i)
      BY <1>1, <1>2, WrittenAppend
    <3> QED BY <2>1, <3>1 DEF LastWord
  <2>3. Pubs(batches) = Pubs(m.pending) \cup publication
    BY <1>1, <1>2, <2>1, PubsAppend
  <2>4. ASSUME NEW i \in ItemIds, \A r \in R : r[1] # i
        PROVE  View'[i] = Written(durable, m.pending)[i]
    <3>1. ~Tells(b, i)
      BY <1>2, <2>4 DEF Tells
    <3> QED BY <1>9, <2>2, <3>1
  <2>5. ASSUME NEW i \in ItemIds, NEW st, <<i, st>> \in R
        PROVE  View'[i] = Shown(st)
    <3>1. Tells(b, i)
      <4>1. \E r \in R : r[1] = i
        BY <2>5
      <4> QED BY <1>2, <4>1 DEF Tells
    <3> QED BY <1>2, <1>9, <2>2, <2>5, <3>1
  <2> QED BY <1>9, <2>3, <2>4, <2>5
<1> QED BY <1>10, <1>11

-----------------------------------------------------------------------------
(* An operation of the scheduler whose records are emitted.                 *)

\* An operation took the scheduler from s to r with the records R; the worker
\* kept the version of what it queued.
Operated(s, r, R, before, after) ==
    \A i \in ItemIds :
        /\ <<i, "QUEUED">> \in R => after[i] = r.queue[i].version
        /\ <<i, "QUEUED">> \notin R => after[i] = before[i]
        /\ <<i, "RUNNING">> \in R => i \in S!Queued(s) /\ r.running.version = s.queue[i].version
        /\ S!Runs(r, i) /\ <<i, "RUNNING">> \notin R => r.running.version = s.running.version

\* A record names its item and its state.
LEMMA RecordNames ==
    ASSUME NEW R, S!OneEach(R), NEW i
    PROVE  (\E q \in R : q[1] = i) <=> \E st \in S!States : <<i, st>> \in R
<1>1. \A q \in R : q = <<q[1], q[2]>> /\ q[2] \in S!States
  BY DEF S!OneEach
<1>2. ASSUME NEW q \in R, q[1] = i PROVE \E st \in S!States : <<i, st>> \in R
  <2>1. q[2] \in S!States /\ <<i, q[2]>> \in R
    BY <1>1, <1>2
  <2> QED BY <2>1
<1>3. ASSUME NEW st \in S!States, <<i, st>> \in R PROVE \E q \in R : q[1] = i
  BY <1>3
<1> QED BY <1>2, <1>3

\* The versions kept after it are those of the live items.
LEMMA OperationVersions ==
    ASSUME NEW s, S!Sound(s), NEW r, NEW R, NEW t, S!Kept(s, t, r, R), S!Carried(s, r),
           NEW before, VersionsFit(s, before), NEW m, Operated(s, r, R, before, m.versions)
    PROVE  VersionsFit(r, Forget(m, R))
<1> SUFFICES ASSUME NEW i \in ItemIds
             PROVE  Forget(m, R)[i] = IF i \in S!Queued(r) THEN r.queue[i].version
                                      ELSE IF S!Runs(r, i) THEN r.running.version ELSE NoVersion
  BY DEF VersionsFit
<1> DEFINE Ends == \E q \in R : q[1] = i /\ Terminal(q[2])
           Named == \E q \in R : q[1] = i
<1>1. Forget(m, R)[i] = IF Ends THEN NoVersion ELSE m.versions[i]
  BY DEF Forget
<1>2. /\ i \in S!Queued(r) <=> <<i, "QUEUED">> \in R \/ (i \in S!Queued(s) /\ ~Named)
      /\ S!Runs(r, i) <=> <<i, "RUNNING">> \in R \/ (S!Runs(s, i) /\ ~Named)
  BY DEF S!Kept, S!Moves
<1>3. S!OneEach(R) /\ S!Sound(r)
  BY DEF S!Kept
<1>4. Named <=> \E st \in S!States : <<i, st>> \in R
  BY <1>3, RecordNames
<1>5. ASSUME NEW st, <<i, st>> \in R
      PROVE  (Ends <=> Terminal(st)) /\ \A o : <<i, o>> \in R => o = st
  BY <1>3, <1>5 DEF S!OneEach
<1>6. ~Named => ~Ends
  OBVIOUS
<1>7. ~(S!Runs(r, i) /\ i \in S!Queued(r)) /\ ~(S!Runs(s, i) /\ i \in S!Queued(s))
  BY <1>3 DEF S!Sound, S!Runs
<1>8. before[i] = IF i \in S!Queued(s) THEN s.queue[i].version
                  ELSE IF S!Runs(s, i) THEN s.running.version ELSE NoVersion
  BY DEF VersionsFit
<1>9. /\ <<i, "QUEUED">> \in R => m.versions[i] = r.queue[i].version
      /\ <<i, "QUEUED">> \notin R => m.versions[i] = before[i]
      /\ <<i, "RUNNING">> \in R => i \in S!Queued(s) /\ r.running.version = s.queue[i].version
      /\ S!Runs(r, i) /\ <<i, "RUNNING">> \notin R => r.running.version = s.running.version
  BY DEF Operated
<1>10. i \in S!Queued(r) /\ i \in S!Queued(s) => r.queue[i].version = s.queue[i].version
  BY DEF S!Carried
<1>11. <<i, "QUEUED">> \in R \/ <<i, "RUNNING">> \in R => Named
  OBVIOUS
<1> HIDE DEF Ends, Named
<1>12. CASE ~Named
  BY <1>1, <1>2, <1>6, <1>7, <1>8, <1>9, <1>10, <1>11, <1>12
<1>13. CASE Named
  <2>1. PICK st \in S!States : <<i, st>> \in R
    BY <1>4, <1>13
  <2>2. (Ends <=> st \notin {"QUEUED", "RUNNING"}) /\ \A o : <<i, o>> \in R => o = st
    BY <1>5, <2>1 DEF Terminal
  <2>3. CASE st = "QUEUED"
    BY <1>1, <1>2, <1>9, <2>1, <2>2, <2>3
  <2>4. CASE st = "RUNNING"
    BY <1>1, <1>2, <1>7, <1>8, <1>9, <2>1, <2>2, <2>4
  <2>5. CASE st \notin {"QUEUED", "RUNNING"}
    BY <1>1, <1>2, <1>13, <2>2, <2>5
  <2> QED BY <2>3, <2>4, <2>5
<1> QED BY <1>12, <1>13

\* A record is of one of the states, and the sink shows two of them as they are.
LEMMA ShownStates ==
    \A st : (Shown(st) = "QUEUED" <=> st = "QUEUED") /\ (Shown(st) = "RUNNING" <=> st = "RUNNING")
BY DEF Shown, Terminal

\* After its records are emitted, the sink will say where each item is.
LEMMA OperationTells ==
    ASSUME NEW s, NEW r, NEW R, NEW t, S!Kept(s, t, r, R), NEW told, S!Placed(s, told), NEW says,
           \A i \in ItemIds : (\A q \in R : q[1] # i) => says[i] = told[i],
           \A i \in ItemIds : \A st : <<i, st>> \in R => says[i] = Shown(st)
    PROVE  S!Placed(r, says)
<1> SUFFICES ASSUME NEW i \in ItemIds
             PROVE  /\ says[i] = "QUEUED" <=> i \in S!Queued(r)
                    /\ says[i] = "RUNNING" <=> S!Runs(r, i)
  BY DEF S!Placed
<1> DEFINE Named == \E q \in R : q[1] = i
<1>1. /\ i \in S!Queued(r) <=> <<i, "QUEUED">> \in R \/ (i \in S!Queued(s) /\ ~Named)
      /\ S!Runs(r, i) <=> <<i, "RUNNING">> \in R \/ (S!Runs(s, i) /\ ~Named)
  BY DEF S!Kept, S!Moves
<1>2. S!OneEach(R)
  BY DEF S!Kept
<1>3. /\ told[i] = "QUEUED" <=> i \in S!Queued(s)
      /\ told[i] = "RUNNING" <=> S!Runs(s, i)
  BY DEF S!Placed
<1>4. CASE Named
  <2>1. PICK st : <<i, st>> \in R
    BY <1>2, <1>4, RecordNames
  <2>2. \A o : <<i, o>> \in R => o = st
    BY <1>2, <2>1 DEF S!OneEach
  <2>3. says[i] = Shown(st)
    BY <2>1
  <2>4. (says[i] = "QUEUED" <=> st = "QUEUED") /\ (says[i] = "RUNNING" <=> st = "RUNNING")
    BY <2>3, ShownStates
  <2> QED BY <1>1, <1>4, <2>1, <2>2, <2>4
<1>5. CASE ~Named
  <2>1. says[i] = told[i] /\ <<i, "QUEUED">> \notin R /\ <<i, "RUNNING">> \notin R
    BY <1>5
  <2> QED BY <1>1, <1>3, <1>5, <2>1
<1> QED BY <1>4, <1>5

\* Both together: the story goes on.
LEMMA OperationStory ==
    ASSUME Story, NEW r, NEW R, NEW t, S!Kept(sched, t, r, R), S!Carried(sched, r),
           NEW m \in WorkerMemory, m.pending = mem.pending, Operated(sched, r, R, mem.versions, m.versions),
           NEW publication \in SUBSET (ItemIds \X Ids), NEW flushed \in Nat,
           Emit(m, R, publication, flushed), sched' = r
    PROVE  /\ Story' /\ SameFlags(mem', m)
           /\ Publications' = Publications \cup publication
           /\ mem'.versions = Forget(m, R)
<1>1. S!OneEach(R) /\ S!Sound(r)
  BY DEF S!Kept
<1>2. /\ mem' \in WorkerMemory /\ mem'.versions = Forget(m, R) /\ SameFlags(mem', m)
      /\ \A i \in ItemIds : (\A q \in R : q[1] # i) => View'[i] = View[i]
      /\ \A i \in ItemIds : \A st : <<i, st>> \in R => View'[i] = Shown(st)
      /\ Publications' = published \cup Pubs(mem.pending) \cup publication
  <2>1. /\ mem' \in WorkerMemory /\ mem'.versions = Forget(m, R) /\ SameFlags(mem', m)
        /\ \A i \in ItemIds : (\A q \in R : q[1] # i) => View'[i] = Written(durable, m.pending)[i]
        /\ \A i \in ItemIds : \A st : <<i, st>> \in R => View'[i] = Shown(st)
        /\ Publications' = published \cup Pubs(m.pending) \cup publication
    BY <1>1, EmitSays
  <2> QED BY <2>1 DEF View
<1>3. S!Placed(r, View')
  <2>1. S!Placed(sched, View)
    BY DEF Story
  <2> QED BY <1>2, <2>1, OperationTells
<1>4. VersionsFit(r, mem'.versions)
  <2>1. VersionsFit(sched, mem.versions) /\ S!Sound(sched)
    BY DEF Story
  <2> QED BY <1>2, <2>1, OperationVersions
<1>5. Story'
  BY <1>1, <1>2, <1>3, <1>4 DEF Story
<1> QED BY <1>2, <1>5, PublicationsAre

\* A flush: the scheduler and the story stay.
LEMMA FlushStory ==
    ASSUME Story, NEW m \in WorkerMemory, m.pending = mem.pending, m.versions = mem.versions,
           NEW k \in 0..Len(mem.pending), Flush(m, k), sched' = sched
    PROVE  /\ Story' /\ SameFlags(mem', m) /\ Publications' = Publications /\ mem'.versions = mem.versions
<1>1. /\ mem' \in WorkerMemory /\ mem'.versions = mem.versions /\ SameFlags(mem', m)
      /\ \A i \in ItemIds : View'[i] = View[i]
      /\ Publications' = published \cup Pubs(mem.pending)
  BY FlushSays DEF View
<1>2. S!Placed(sched, View')
  BY <1>1 DEF Story, S!Placed
<1>3. VersionsFit(sched, mem'.versions)
  BY <1>1 DEF Story
<1>4. Story'
  BY <1>1, <1>2, <1>3 DEF Story
<1> QED BY <1>1, <1>4, PublicationsAre

-----------------------------------------------------------------------------
(* The worker's calls of the scheduler.                                     *)

\* An operation that starts nothing and queues nothing leaves the versions.
LEMMA QuietOperation ==
    ASSUME NEW s, NEW r, NEW R, NEW versions, \A q \in R : q[2] # "QUEUED" /\ q[2] # "RUNNING",
           \/ r.running = S!Idle
           \/ S!SlotKept(s, r)
    PROVE  Operated(s, r, R, versions, versions)
<1>1. \A i : <<i, "QUEUED">> \notin R /\ <<i, "RUNNING">> \notin R
  OBVIOUS
<1>2. \A i : S!Runs(r, i) => r.running.version = s.running.version
  BY DEF S!Runs, S!SlotKept
<1> QED BY <1>1, <1>2 DEF Operated

\* complete and fail: the item leaves the slot.
LEMMA FinishStory ==
    ASSUME Story, now \in Times, sched.running # S!Idle, NEW state \in {"COMPLETED", "FAILED"},
           NEW m \in WorkerMemory, m.pending = mem.pending, m.versions = mem.versions,
           NEW publication \in SUBSET (ItemIds \X Ids), NEW flushed \in Nat,
           Emit(m, S!Finish(sched, state, now).out, publication, flushed),
           sched' = S!Finish(sched, state, now).s
    PROVE  /\ Story' /\ SameFlags(mem', m) /\ Publications' = Publications \cup publication
           /\ sched'.running = S!Idle
<1>1. PICK f : f = S!Finish(sched, state, now)
  OBVIOUS
<1>2. S!Sound(sched)
  BY DEF Story
<1>3. /\ S!Kept(sched, now, f.s, f.out) /\ S!Carried(sched, f.s) /\ f.s.running = S!Idle
      /\ \A q \in f.out : q[2] \in S!Closing \/ q = <<sched.running.version.item_id, state>>
  BY <1>1, <1>2, Assumed, S!FinishSound
<1>4. \A q \in f.out : q[2] # "QUEUED" /\ q[2] # "RUNNING"
  BY <1>3 DEF S!Closing
<1>5. Operated(sched, f.s, f.out, mem.versions, m.versions)
  BY <1>3, <1>4, QuietOperation
<1>6. Emit(m, f.out, publication, flushed) /\ sched' = f.s
  BY <1>1
<1> QED BY <1>3, <1>5, <1>6, OperationStory

\* authorize_call: the slot keeps its item.
LEMMA AuthorizeStory ==
    ASSUME Story, now \in Times, NEW i \in ItemIds, NEW repair \in BOOLEAN, NEW prompt \in PromptBounds,
           Emit(mem, S!AuthorizeCall(sched, i, TRUE, repair, prompt, now).out, {}, 0),
           sched' = S!AuthorizeCall(sched, i, TRUE, repair, prompt, now).s
    PROVE  Story' /\ SameFlags(mem', mem) /\ Publications' = Publications /\ S!SlotKept(sched, sched')
<1>1. PICK a : a = S!AuthorizeCall(sched, i, TRUE, repair, prompt, now)
  OBVIOUS
<1>2. S!Sound(sched) /\ mem \in WorkerMemory
  BY DEF Story
<1>3. /\ S!Kept(sched, now, a.s, a.out) /\ S!Carried(sched, a.s) /\ S!SlotKept(sched, a.s)
      /\ \A q \in a.out : q[2] \in S!Closing
  BY <1>1, <1>2, Assumed, S!AuthorizeSound
<1>4. \A q \in a.out : q[2] # "QUEUED" /\ q[2] # "RUNNING"
  BY <1>3 DEF S!Closing
<1>5. Operated(sched, a.s, a.out, mem.versions, mem.versions)
  BY <1>3, <1>4, QuietOperation
<1>6. Emit(mem, a.out, {}, 0) /\ sched' = a.s
  BY <1>1
<1>7. {} \in SUBSET (ItemIds \X Ids) /\ 0 \in Nat
  OBVIOUS
<1>8. Story' /\ SameFlags(mem', mem) /\ Publications' = Publications \cup {}
  BY <1>2, <1>3, <1>5, <1>6, <1>7, OperationStory
<1> QED BY <1>3, <1>6, <1>8

\* dispatch: the slot keeps what it has, or takes one of the queued items,
\* whose version the worker has.
LEMMA DispatchStory ==
    ASSUME Story, now \in Times, NEW flushed \in Nat,
           Emit(mem, S!Dispatch(sched, now).out, {}, flushed), sched' = S!Dispatch(sched, now).s
    PROVE  /\ Story' /\ SameFlags(mem', mem) /\ Publications' = Publications
           /\ \/ /\ S!SlotKept(sched, sched')
                 /\ \A i : <<i, "RUNNING">> \notin S!Dispatch(sched, now).out
              \/ /\ sched.running = S!Idle /\ sched'.running # S!Idle
                 /\ \E i \in ItemIds : <<i, "RUNNING">> \in S!Dispatch(sched, now).out
                 /\ \A i \in ItemIds : <<i, "RUNNING">> \in S!Dispatch(sched, now).out =>
                       mem'.versions[i] \in Versions
<1>1. PICK d : d = S!Dispatch(sched, now)
  OBVIOUS
<1>2. S!Sound(sched) /\ mem \in WorkerMemory
  BY DEF Story
<1>3. /\ S!Kept(sched, now, d.s, d.out) /\ S!Carried(sched, d.s)
      /\ \A q \in d.out : q[2] \in S!Closing \cup {"RUNNING"}
      /\ \/ S!SlotKept(sched, d.s) /\ \A q \in d.out : q[2] # "RUNNING"
         \/ /\ sched.running = S!Idle /\ d.s.running # S!Idle
            /\ \E i \in S!Queued(sched) : <<i, "RUNNING">> \in d.out /\ d.s.running.version = sched.queue[i].version
  BY <1>1, <1>2, Assumed, S!DispatchSound
<1>4. Emit(mem, d.out, {}, flushed) /\ sched' = d.s
  BY <1>1
<1>5. {} \in SUBSET (ItemIds \X Ids)
  OBVIOUS
<1>6. ASSUME Operated(sched, d.s, d.out, mem.versions, mem.versions)
      PROVE  Story' /\ SameFlags(mem', mem) /\ Publications' = Publications
  <2>1. Story' /\ SameFlags(mem', mem) /\ Publications' = Publications \cup {}
    BY <1>2, <1>3, <1>4, <1>5, <1>6, OperationStory
  <2> QED BY <2>1
<1>7. CASE S!SlotKept(sched, d.s) /\ \A q \in d.out : q[2] # "RUNNING"
  <2>1. \A q \in d.out : q[2] # "QUEUED" /\ q[2] # "RUNNING"
    BY <1>3, <1>7 DEF S!Closing
  <2>2. Operated(sched, d.s, d.out, mem.versions, mem.versions)
    BY <1>7, <2>1, QuietOperation
  <2>3. \A i : <<i, "RUNNING">> \notin d.out
    BY <2>1
  <2> QED BY <1>1, <1>4, <1>6, <1>7, <2>2, <2>3
<1>8. ASSUME sched.running = S!Idle, d.s.running # S!Idle, NEW j \in S!Queued(sched),
             <<j, "RUNNING">> \in d.out, d.s.running.version = sched.queue[j].version
      PROVE  /\ Story' /\ SameFlags(mem', mem) /\ Publications' = Publications
             /\ \A i \in ItemIds : <<i, "RUNNING">> \in d.out => mem'.versions[i] \in Versions
  <2>1. \A i : <<i, "QUEUED">> \notin d.out
    BY <1>3 DEF S!Closing
  <2>2. \A i \in ItemIds : S!Runs(d.s, i) <=> <<i, "RUNNING">> \in d.out
    BY <1>3, <1>8 DEF S!Kept, S!Moves, S!Runs
  <2>3. j \in ItemIds
    BY DEF S!Queued
  <2>4. \A i \in ItemIds : <<i, "RUNNING">> \in d.out => i = j
    BY <1>8, <2>2, <2>3 DEF S!Runs
  <2>5. Operated(sched, d.s, d.out, mem.versions, mem.versions)
    BY <1>8, <2>1, <2>2, <2>4 DEF Operated
  <2>6. Story' /\ SameFlags(mem', mem) /\ Publications' = Publications
    BY <1>6, <2>5
  <2>7. ASSUME NEW i \in ItemIds, <<i, "RUNNING">> \in d.out PROVE mem'.versions[i] \in Versions
    <3>1. S!Sound(d.s) /\ VersionsFit(d.s, mem'.versions)
      BY <1>4, <2>6 DEF Story
    <3>2. S!Runs(d.s, i) /\ i \notin S!Queued(d.s)
      BY <2>2, <2>7, <3>1 DEF S!Sound, S!Runs
    <3>3. mem'.versions[i] = d.s.running.version
      BY <3>1, <3>2 DEF VersionsFit
    <3>4. d.s.running \in S!Running
      BY <1>8, <3>1, Assumed, S!RunningOrIdle DEF S!Sound
    <3> QED BY <3>3, <3>4, Assumed, S!RunningFields
  <2> QED BY <2>6, <2>7
<1>9. CASE /\ sched.running = S!Idle /\ d.s.running # S!Idle
           /\ \E i \in S!Queued(sched) : <<i, "RUNNING">> \in d.out /\ d.s.running.version = sched.queue[i].version
  <2>1. PICK j \in S!Queued(sched) : <<j, "RUNNING">> \in d.out /\ d.s.running.version = sched.queue[j].version
    BY <1>9
  <2>2. j \in ItemIds
    BY DEF S!Queued
  <2>3. /\ Story' /\ SameFlags(mem', mem) /\ Publications' = Publications
        /\ \A i \in ItemIds : <<i, "RUNNING">> \in d.out => mem'.versions[i] \in Versions
    BY <1>8, <1>9, <2>1
  <2> QED BY <1>1, <1>4, <1>9, <2>1, <2>2, <2>3
<1> QED BY <1>3, <1>7, <1>9

\* The memory in which the version of a queued item is kept.
KeepsVersion(m, v, R) ==
    m = IF <<v.item_id, "QUEUED">> \in R THEN [mem EXCEPT !.versions[v.item_id] = v] ELSE mem

\* admit: the slot keeps its item, and the worker keeps the queued version.
LEMMA AdmitStory ==
    ASSUME Story, now \in Times, NEW v \in Versions, S!ActiveIdentity(sched, v.item_id) \subseteq {v.identity},
           NEW m, KeepsVersion(m, v, S!Admit(sched, v, now).out),
           NEW flushed \in Nat, Emit(m, S!Admit(sched, v, now).out, {}, flushed),
           sched' = S!Admit(sched, v, now).s
    PROVE  Story' /\ SameFlags(mem', mem) /\ Publications' = Publications /\ S!SlotKept(sched, sched')
<1>1. PICK a : a = S!Admit(sched, v, now)
  OBVIOUS
<1>2. S!Sound(sched) /\ mem \in WorkerMemory
  BY DEF Story
<1>3. /\ S!Kept(sched, now, a.s, a.out) /\ S!Carried(sched, a.s) /\ S!SlotKept(sched, a.s)
      /\ \A q \in a.out : q[2] # "RUNNING"
      /\ \A q \in a.out : q[2] = "QUEUED" => q[1] = v.item_id /\ a.s.queue[v.item_id].version = v
  BY <1>1, <1>2, Assumed, S!AdmitSound
<1>4. Emit(m, a.out, {}, flushed) /\ sched' = a.s
  BY <1>1
<1>5. /\ m \in WorkerMemory /\ m.pending = mem.pending /\ SameFlags(m, mem)
      /\ <<v.item_id, "QUEUED">> \notin a.out => m.versions = mem.versions
      /\ <<v.item_id, "QUEUED">> \in a.out => m.versions = [mem.versions EXCEPT ![v.item_id] = v]
  <2>1. CASE <<v.item_id, "QUEUED">> \in a.out
    <3>1. m = [mem EXCEPT !.versions[v.item_id] = v]
      BY <1>1, <2>1 DEF KeepsVersion
    <3>2. PICK vs : vs = [mem.versions EXCEPT ![v.item_id] = v]
      OBVIOUS
    <3>3. vs \in [ItemIds -> Versions \cup {NoVersion}]
      BY <1>2, <3>2 DEF WorkerMemory
    <3>4. m = [mem EXCEPT !.versions = vs]
      BY <3>1, <3>2
    <3> QED BY <1>2, <2>1, <3>2, <3>3, <3>4 DEF WorkerMemory, SameFlags
  <2>2. CASE <<v.item_id, "QUEUED">> \notin a.out
    BY <1>1, <1>2, <2>2 DEF SameFlags, KeepsVersion
  <2> QED BY <2>1, <2>2
<1>6. Operated(sched, a.s, a.out, mem.versions, m.versions)
  <2> SUFFICES ASSUME NEW i \in ItemIds
               PROVE  /\ <<i, "QUEUED">> \in a.out => m.versions[i] = a.s.queue[i].version
                      /\ <<i, "QUEUED">> \notin a.out => m.versions[i] = mem.versions[i]
                      /\ <<i, "RUNNING">> \in a.out =>
                           i \in S!Queued(sched) /\ a.s.running.version = sched.queue[i].version
                      /\ S!Runs(a.s, i) /\ <<i, "RUNNING">> \notin a.out =>
                           a.s.running.version = sched.running.version
    BY DEF Operated
  <2>1. <<i, "RUNNING">> \notin a.out
    BY <1>3
  <2>2. S!Runs(a.s, i) => a.s.running.version = sched.running.version
    BY <1>3 DEF S!Runs, S!SlotKept
  <2>3. mem.versions \in [ItemIds -> Versions \cup {NoVersion}]
    BY <1>2 DEF WorkerMemory
  <2>4. ASSUME <<i, "QUEUED">> \in a.out PROVE m.versions[i] = a.s.queue[i].version
    <3>1. i = v.item_id /\ a.s.queue[i].version = v
      BY <1>3, <2>4
    <3> QED BY <1>5, <2>3, <2>4, <3>1
  <2>5. ASSUME <<i, "QUEUED">> \notin a.out PROVE m.versions[i] = mem.versions[i]
    BY <1>5, <2>3, <2>5
  <2> QED BY <2>1, <2>2, <2>4, <2>5
<1>7. {} \in SUBSET (ItemIds \X Ids)
  OBVIOUS
<1>8. m \in WorkerMemory /\ m.pending = mem.pending /\ SameFlags(m, mem)
  BY <1>5
<1>9. Story' /\ SameFlags(mem', m) /\ Publications' = Publications \cup {}
  <2>1. S!Kept(sched, now, a.s, a.out) /\ S!Carried(sched, a.s)
    BY <1>3
  <2> QED BY <1>4, <1>6, <1>7, <1>8, <2>1, OperationStory
<1> QED BY <1>3, <1>4, <1>8, <1>9 DEF SameFlags

-----------------------------------------------------------------------------
(* The ledger under the worker.                                             *)

LedgerStep == [L!Next]_(L!vars)

\* Whoever takes a step of the ledger, what is paid for and what is committed
\* stay so, and a lease once handed out stays known.
LEMMA LedgerGoes ==
    ASSUME WorkerIInv, LedgerStep
    PROVE  /\ LedgerOK' /\ leases \subseteq leases' /\ \A i \in Ids : L!RowAdvances(i)
<1>1. L!TypeOK /\ L!GenerationsUnique /\ [L!Next]_(L!vars)
  BY DEF WorkerIInv, LedgerOK, LedgerStep
<1>2. L!TypeOK'
  BY <1>1, Assumed, L!TypeKept
<1>3. L!GenerationsUnique'
  BY <1>1, Assumed, L!GenerationsKept
<1>4. (\A i \in Ids : L!RowAdvances(i)) /\ leases \subseteq leases'
  BY <1>1, Assumed, L!RowsAdvance
<1> QED BY <1>2, <1>3, <1>4 DEF LedgerOK

\* Paid calls stay paid for.
LEMMA CallsStayCovered ==
    ASSUME WorkerIInv, LedgerStep, made' = made
    PROVE  made' \in [Ids -> Nat] /\ CallsCovered'
<1>1. made \in [Ids -> Nat] /\ CallsCovered
  BY DEF WorkerIInv, PaidFor
<1>2. L!TypeOK /\ L!TypeOK'
  BY LedgerGoes DEF WorkerIInv, LedgerOK
<1>3. ASSUME NEW i \in Ids, made'[i] > 0 PROVE rows'[i] # L!NoRow /\ made'[i] <= rows'[i].attempt_count
  <2>1. rows[i] # L!NoRow /\ made[i] <= rows[i].attempt_count /\ made[i] \in Nat
    BY <1>1, <1>3 DEF CallsCovered
  <2>2. rows'[i] # L!NoRow /\ rows'[i].attempt_count >= rows[i].attempt_count
    BY <2>1, LedgerGoes DEF L!RowAdvances
  <2>3. rows[i] \in L!Row /\ rows'[i] \in L!Row
    BY <1>2, <2>1, <2>2 DEF L!TypeOK
  <2>4. rows[i].attempt_count \in Nat /\ rows'[i].attempt_count \in Nat
    BY <2>3 DEF L!Row
  <2> QED BY <2>1, <2>2, <2>4
<1> QED BY <1>1, <1>3 DEF CallsCovered

\* A completed invocation stays completed.
LEMMA StaysCompleted ==
    ASSUME WorkerIInv, LedgerStep, NEW i \in Ids, rows[i].state = "COMPLETED"
    PROVE  rows'[i].state = "COMPLETED"
<1>1. rows[i] # L!NoRow
  BY DEF L!NoRow
<1> QED BY <1>1, LedgerGoes DEF L!RowAdvances

\* What was published stays committed.
LEMMA PublishedStays ==
    ASSUME WorkerIInv, LedgerStep, Publications' \subseteq Publications
    PROVE  Publications' \subseteq ItemIds \X Ids /\ PublishedIsCommitted'
<1>1. Publications \subseteq ItemIds \X Ids /\ PublishedIsCommitted
  BY DEF WorkerIInv, PublicationsFit
<1>2. ASSUME NEW p \in Publications PROVE rows'[p[2]].state = "COMPLETED"
  <2>1. p[2] \in Ids /\ rows[p[2]].state = "COMPLETED"
    BY <1>1 DEF PublishedIsCommitted
  <2> QED BY <2>1, StaysCompleted
<1> QED BY <1>1, <1>2 DEF PublishedIsCommitted

\* The thread is where it was: its locals still fit, whatever others did.
LEMMA ThreadStays ==
    ASSUME WorkerIInv, LedgerStep, pc' = pc, job' = job
    PROVE  /\ JobFits'
           /\ made' = made => PaidFor'
           /\ Publications' \subseteq Publications => PublicationsFit'
<1>1. JobFits /\ L!TypeOK /\ L!TypeOK' /\ leases \subseteq leases'
  BY LedgerGoes DEF WorkerIInv, LedgerOK
<1>2. JobFits'
  BY <1>1 DEF JobFits
<1>3. pc \in Leased => job.lease.invocation_id \in Ids
  BY <1>1 DEF JobFits, L!TypeOK, L!Lease
<1>4. ASSUME made' = made PROVE PaidFor'
  <2>1. made' \in [Ids -> Nat] /\ CallsCovered'
    BY <1>4, CallsStayCovered
  <2>2. ASSUME pc' = "call"
        PROVE  /\ rows'[job'.lease.invocation_id] # L!NoRow
               /\ made'[job'.lease.invocation_id] < rows'[job'.lease.invocation_id].attempt_count
    <3>1. PICK i \in Ids : i = job.lease.invocation_id
      BY <1>3, <2>2 DEF Leased
    <3>2. rows[i] # L!NoRow /\ made[i] < rows[i].attempt_count /\ made[i] \in Nat
      BY <2>2, <3>1 DEF WorkerIInv, PaidFor
    <3>3. rows'[i] # L!NoRow /\ rows'[i].attempt_count >= rows[i].attempt_count
      BY <3>2, LedgerGoes DEF L!RowAdvances
    <3>4. rows[i] \in L!Row /\ rows'[i] \in L!Row
      BY <1>1, <3>2, <3>3 DEF L!TypeOK
    <3>5. rows[i].attempt_count \in Nat /\ rows'[i].attempt_count \in Nat
      BY <3>4 DEF L!Row
    <3> QED BY <1>4, <3>1, <3>2, <3>3, <3>5
  <2> QED BY <2>1, <2>2 DEF PaidFor
<1>5. ASSUME Publications' \subseteq Publications PROVE PublicationsFit'
  <2>1. Publications' \subseteq ItemIds \X Ids /\ PublishedIsCommitted'
    BY <1>5, PublishedStays
  <2>2. ASSUME pc' = "publish"
        PROVE  /\ rows'[job'.lease.invocation_id].state = "COMPLETED"
               /\ \A p \in Publications' : p[2] # job'.lease.invocation_id
    <3>1. PICK i \in Ids : i = job.lease.invocation_id
      BY <1>3, <2>2 DEF Leased
    <3>2. rows[i].state = "COMPLETED" /\ \A p \in Publications : p[2] # i
      BY <2>2, <3>1 DEF WorkerIInv, PublicationsFit
    <3>3. rows'[i].state = "COMPLETED"
      BY <3>2, StaysCompleted
    <3> QED BY <1>5, <3>1, <3>2, <3>3
  <2> QED BY <2>1, <2>2 DEF PublicationsFit
<1> QED BY <1>2, <1>4, <1>5

\* The thread moves on to where no call and no publication is due.
LEMMA ThreadMoves ==
    ASSUME WorkerIInv, LedgerStep, pc' \notin {"call", "publish"}
    PROVE  /\ made' = made => PaidFor'
           /\ Publications' \subseteq Publications => PublicationsFit'
<1>1. made' = made => made' \in [Ids -> Nat] /\ CallsCovered'
  BY CallsStayCovered
<1>2. Publications' \subseteq Publications => Publications' \subseteq ItemIds \X Ids /\ PublishedIsCommitted'
  BY PublishedStays
<1> QED BY <1>1, <1>2 DEF PaidFor, PublicationsFit

\* Nothing of the story changes.
LEMMA StoryStays ==
    ASSUME Story, UNCHANGED <<sched, mem, sinkVars>>
    PROVE  Story' /\ Publications' = Publications
BY DEF Story, View, Publications, sinkVars, VersionsFit

\* A step that leaves the ledger alone is none of its steps.
LEMMA NoLedgerStep ==
    ASSUME UNCHANGED <<now, ledgerVars>>
    PROVE  LedgerStep
BY DEF LedgerStep, ledgerVars, L!vars

-----------------------------------------------------------------------------
(* The other actors.                                                        *)

\* The thread is where it was, its slot holds what it held and no flag changed.
LEMMA SlotStays ==
    ASSUME WorkerIInv, pc' = pc, SameFlags(mem', mem), S!SlotKept(sched, sched')
    PROVE  SlotFits'
BY DEF WorkerIInv, SlotFits, SameFlags, S!SlotKept

\* The thread, its call and the flags are as they were.
LEMMA CallStays ==
    ASSUME WorkerIInv, pc' = pc, active' = active, SameFlags(mem', mem)
    PROVE  CallFits'
BY DEF WorkerIInv, CallFits, SameFlags

\* A step that leaves the thread, the ledger and its history where they are.
LEMMA ActorKeeps ==
    ASSUME WorkerIInv, UNCHANGED <<now, ledgerVars, pc, job, made>>, Publications' = Publications,
           Story', SlotFits', CallFits'
    PROVE  LedgerStep /\ WorkerIInv'
<1>1. LedgerStep
  BY NoLedgerStep
<1>2. LedgerOK'
  BY <1>1, LedgerGoes
<1>3. JobFits' /\ PaidFor' /\ PublicationsFit'
  BY <1>1, ThreadStays
<1> QED BY <1>1, <1>2, <1>3 DEF WorkerIInv

\* submit: what is queued is kept, and the slot is not touched.
LEMMA SubmitKeeps ==
    ASSUME WorkerIInv, NEW v \in Versions, submit(v)
    PROVE  LedgerStep /\ WorkerIInv'
<1>1. Story /\ now \in Times /\ mem \in WorkerMemory
  BY DEF WorkerIInv, LedgerOK, L!TypeOK, Story
<1>2. PICK a : a = S!Admit(sched, v, now)
  OBVIOUS
<1>3. PICK m : KeepsVersion(m, v, a.out)
  BY DEF KeepsVersion
<1>4. /\ S!ActiveIdentity(sched, v.item_id) \subseteq {v.identity}
      /\ sched' = a.s /\ Emit(m, a.out, {}, Len(mem.pending))
      /\ UNCHANGED <<now, ledgerVars, pc, job, active, made>>
  BY <1>2, <1>3 DEF submit, KeepsVersion
<1>5. Len(mem.pending) \in Nat
  BY <1>1 DEF WorkerMemory
<1>6. Story' /\ SameFlags(mem', mem) /\ Publications' = Publications /\ S!SlotKept(sched, sched')
  BY <1>1, <1>2, <1>3, <1>4, <1>5, AdmitStory
<1>7. SlotFits' /\ CallFits'
  BY <1>4, <1>6, SlotStays, CallStays
<1> QED BY <1>4, <1>6, <1>7, ActorKeeps

\* A flush that fails still leaves what is pending to be told.
LEMMA FlushFailsStory ==
    ASSUME Story, FlushFails, sched' = sched
    PROVE  Story' /\ SameFlags(mem', mem) /\ Publications' = Publications
<1>1. mem \in WorkerMemory /\ Len(mem.pending) \in Nat
  BY DEF Story, WorkerMemory
<1>2. PICK k \in 0..(Len(mem.pending) - 1) : Flush(mem, k)
  BY DEF FlushFails
<1>3. k \in 0..Len(mem.pending)
  BY <1>1, <1>2
<1> QED BY <1>1, <1>2, <1>3, FlushStory

\* A scheduler that did not move has kept its slot.
LEMMA SlotKeptItself == \A s : S!SlotKept(s, s)
BY DEF S!SlotKept

\* submit answers SINK_UNAVAILABLE: the batches not taken stay pending.
LEMMA SubmitRefusedKeeps ==
    ASSUME WorkerIInv, SubmitRefused
    PROVE  LedgerStep /\ WorkerIInv'
<1>1. Story /\ FlushFails /\ sched' = sched /\ UNCHANGED <<now, ledgerVars, pc, job, active, made>>
  BY DEF WorkerIInv, SubmitRefused
<1>2. Story' /\ SameFlags(mem', mem) /\ Publications' = Publications
  BY <1>1, FlushFailsStory
<1>3. SlotFits' /\ CallFits'
  BY <1>1, <1>2, SlotStays, CallStays, SlotKeptItself
<1> QED BY <1>1, <1>2, <1>3, ActorKeeps

\* Only flags change: what is kept, pending and recorded stays.
LEMMA FlagsStory ==
    ASSUME Story, UNCHANGED <<sched, sinkVars>>, mem' \in WorkerMemory,
           mem'.versions = mem.versions, mem'.pending = mem.pending
    PROVE  Story' /\ Publications' = Publications
<1>1. View' = View
  BY DEF View, sinkVars
<1>2. Story'
  BY <1>1 DEF Story
<1> QED BY <1>2 DEF Publications, sinkVars

\* review_profile closes the breaker and counts from nothing.
LEMMA ReviewKeeps ==
    ASSUME WorkerIInv, review_profile
    PROVE  LedgerStep /\ WorkerIInv'
<1>1. /\ Story /\ UNCHANGED <<sched, sinkVars>> /\ UNCHANGED <<now, ledgerVars, pc, job, made>>
      /\ UNCHANGED active /\ mem' = [mem EXCEPT !.disabled = FALSE, !.failures = 0]
  BY DEF WorkerIInv, review_profile
<1>2. mem \in WorkerMemory /\ MaxFailures \in Nat \ {0}
  BY <1>1, Assumed DEF Story
<1>3. /\ mem' \in WorkerMemory /\ mem'.versions = mem.versions /\ mem'.pending = mem.pending
      /\ mem'.pending_fail = mem.pending_fail /\ mem'.stop = mem.stop
      /\ mem'.restart_required = mem.restart_required /\ mem'.failures = 0 /\ mem'.disabled = FALSE
  <2>1. 0 \in 0..MaxFailures
    BY <1>2
  <2> QED BY <1>1, <1>2, <2>1 DEF WorkerMemory
<1>4. Story' /\ Publications' = Publications
  BY <1>1, <1>3, FlagsStory
<1>5. SlotFits'
  BY <1>1, <1>3 DEF WorkerIInv, SlotFits
<1>6. CallFits'
  BY <1>1, <1>2, <1>3 DEF WorkerIInv, CallFits
<1> QED BY <1>1, <1>4, <1>5, <1>6, ActorKeeps

\* request_stop: a call that runs gets its cancel signal.
LEMMA StopKeeps ==
    ASSUME WorkerIInv, request_stop
    PROVE  LedgerStep /\ WorkerIInv'
<1>1. /\ Story /\ UNCHANGED <<sched, sinkVars>> /\ UNCHANGED <<now, ledgerVars, pc, job, made>>
      /\ active' = IF active = NoCall THEN NoCall ELSE [active EXCEPT !.cancel = TRUE]
      /\ mem' = [mem EXCEPT !.stop = TRUE]
  BY DEF WorkerIInv, request_stop
<1>2. mem \in WorkerMemory
  BY <1>1 DEF Story
<1>3. /\ mem' \in WorkerMemory /\ mem'.versions = mem.versions /\ mem'.pending = mem.pending
      /\ mem'.pending_fail = mem.pending_fail /\ mem'.stop = TRUE
      /\ mem'.restart_required = mem.restart_required /\ mem'.failures = mem.failures
      /\ mem'.disabled = mem.disabled
  BY <1>1, <1>2 DEF WorkerMemory
<1>4. Story' /\ Publications' = Publications
  BY <1>1, <1>3, FlagsStory
<1>5. SlotFits'
  BY <1>1, <1>3 DEF WorkerIInv, SlotFits
<1>6. CallFits'
  <2>1. CASE active = NoCall
    BY <1>1, <1>3, <2>1 DEF WorkerIInv, CallFits
  <2>2. CASE active # NoCall
    <3>1. active \in ActiveCall /\ active' = [active EXCEPT !.cancel = TRUE]
      BY <1>1, <2>2 DEF WorkerIInv, CallFits
    <3>2. active' \in ActiveCall /\ active'.cancel = TRUE /\ active' # NoCall
      BY <3>1 DEF ActiveCall, NoCall
    <3> QED BY <1>1, <1>3, <2>2, <3>2 DEF WorkerIInv, CallFits
  <2> QED BY <2>1, <2>2
<1> QED BY <1>1, <1>4, <1>5, <1>6, ActorKeeps

\* Time passes for the call that runs.
LEMMA ElapseKeeps ==
    ASSUME WorkerIInv, Elapse
    PROVE  LedgerStep /\ WorkerIInv'
<1>1. /\ Story /\ UNCHANGED <<sched, mem, sinkVars>> /\ UNCHANGED <<now, ledgerVars, pc, job, made>>
      /\ UNCHANGED mem /\ active.phase \in {"within", "over"}
      /\ active' = [active EXCEPT !.phase = IF @ = "within" THEN "over" ELSE "beyond"]
  BY DEF WorkerIInv, Elapse
<1>2. Story' /\ Publications' = Publications
  BY <1>1, StoryStays
<1>3. SlotFits'
  BY <1>1 DEF WorkerIInv, SlotFits
<1>4. active # NoCall /\ active \in ActiveCall
  BY <1>1 DEF WorkerIInv, CallFits, NoCall
<1>5. active' \in ActiveCall /\ active'.cancel = active.cancel /\ active' # NoCall
  BY <1>1, <1>4 DEF ActiveCall, NoCall
<1>6. CallFits'
  BY <1>1, <1>4, <1>5 DEF WorkerIInv, CallFits
<1> QED BY <1>1, <1>2, <1>3, <1>6, ActorKeeps

\* watchdog_tick signals the call and, past the grace, asks for the end.
LEMMA WatchdogKeeps ==
    ASSUME WorkerIInv, watchdog_tick
    PROVE  LedgerStep /\ WorkerIInv'
<1>1. /\ Story /\ UNCHANGED <<sched, sinkVars>> /\ UNCHANGED <<now, ledgerVars, pc, job, made>>
      /\ active.phase \in {"over", "beyond"} /\ active' = [active EXCEPT !.timed_out = TRUE, !.cancel = TRUE]
      /\ mem' = [mem EXCEPT !.restart_required = @ \/ active.phase = "beyond"]
  BY DEF WorkerIInv, watchdog_tick
<1>2. mem \in WorkerMemory
  BY <1>1 DEF Story
<1>3. PICK must \in BOOLEAN : must = (mem.restart_required \/ active.phase = "beyond")
  BY <1>2 DEF WorkerMemory
<1>4. mem' = [mem EXCEPT !.restart_required = must]
  BY <1>1, <1>3
<1>5. /\ mem' \in WorkerMemory /\ mem'.versions = mem.versions /\ mem'.pending = mem.pending
      /\ mem'.pending_fail = mem.pending_fail /\ mem'.stop = mem.stop
      /\ mem'.failures = mem.failures /\ mem'.disabled = mem.disabled
  BY <1>2, <1>4 DEF WorkerMemory
<1>6. Story' /\ Publications' = Publications
  BY <1>1, <1>5, FlagsStory
<1>7. SlotFits'
  BY <1>1, <1>5 DEF WorkerIInv, SlotFits
<1>8. active # NoCall /\ active \in ActiveCall
  BY <1>1 DEF WorkerIInv, CallFits, NoCall
<1>9. active' \in ActiveCall /\ active'.cancel = TRUE /\ active' # NoCall
  BY <1>1, <1>8 DEF ActiveCall, NoCall
<1>10. CallFits'
  BY <1>1, <1>5, <1>8, <1>9 DEF WorkerIInv, CallFits
<1> QED BY <1>1, <1>6, <1>7, <1>10, ActorKeeps

\* A process that starts has nothing pending, nothing queued and nothing kept.
FreshProcess ==
    sched = S!EmptySchedule /\ mem = FreshMemory /\ \A i \in ItemIds : durable[i] \notin {"QUEUED", "RUNNING"}

\* Such a process, its scheduler and its sink tell one story.
LEMMA FreshStory == FreshProcess => Story
<1> SUFFICES ASSUME FreshProcess PROVE Story
  OBVIOUS
<1> USE DEF FreshProcess
<1>1. S!Sound(sched) /\ S!Queued(sched) = {} /\ sched.running = S!Idle
  BY Assumed, S!EmptySound
<1>2. mem \in WorkerMemory
  <2>1. MaxFailures \in Nat \ {0}
    BY Assumed
  <2>2. <<>> \in Seq(BatchSet) /\ [i \in ItemIds |-> NoVersion] \in [ItemIds -> Versions \cup {NoVersion}]
    OBVIOUS
  <2> QED BY <2>1, <2>2 DEF WorkerMemory, FreshMemory
<1>3. \A i \in ItemIds : View[i] = durable[i]
  BY WrittenNothing DEF View, FreshMemory
<1>4. \A i : i \notin S!Queued(sched) /\ ~S!Runs(sched, i)
  BY <1>1 DEF S!Runs
<1>5. S!Placed(sched, View)
  BY <1>3, <1>4 DEF S!Placed
<1>6. VersionsFit(sched, mem.versions)
  BY <1>4 DEF VersionsFit, FreshMemory
<1> QED BY <1>1, <1>2, <1>5, <1>6 DEF Story

\* A crash loses the memory; leases, rows and publications stay.
LEMMA RestartKeeps ==
    ASSUME WorkerIInv, Restart
    PROVE  LedgerStep /\ WorkerIInv'
<1>1. /\ pc' = "recover" /\ job' = NoJob /\ active' = NoCall /\ mem' = FreshMemory
      /\ sched' = S!EmptySchedule /\ UNCHANGED <<now, ledgerVars, published, made>>
      /\ \A i \in ItemIds : durable'[i] \notin {"QUEUED", "RUNNING"}
  BY DEF Restart
<1>2. LedgerStep
  BY <1>1, NoLedgerStep
<1>3. LedgerOK'
  BY <1>2, LedgerGoes
<1>4. Story'
  <2>1. FreshProcess'
    BY <1>1 DEF FreshProcess
  <2>2. FreshProcess' => Story'
    BY FreshStory, PTL
  <2> QED BY <2>1, <2>2
<1>5. JobFits'
  BY <1>1 DEF JobFits, Between, Working, Leased
<1>6. S!EmptySchedule.running = S!Idle
  BY Assumed, S!EmptySound
<1>7. /\ FreshMemory.pending_fail = None /\ FreshMemory.stop = FALSE /\ FreshMemory.restart_required = FALSE
      /\ FreshMemory.failures = 0 /\ FreshMemory.disabled = FALSE /\ FreshMemory.pending = <<>>
  BY DEF FreshMemory
<1>8. SlotFits'
  BY <1>1, <1>6, <1>7 DEF SlotFits, Working, Leased, Between
<1>9. CallFits'
  <2>1. 0 # MaxFailures
    BY Assumed
  <2> QED BY <1>1, <1>7, <2>1 DEF CallFits
<1>10. Publications' \subseteq Publications
  BY <1>1, <1>7 DEF Publications
<1>11. PaidFor' /\ PublicationsFit'
  BY <1>1, <1>2, <1>10, ThreadMoves
<1> QED BY <1>2, <1>3, <1>4, <1>5, <1>8, <1>9, <1>11 DEF WorkerIInv

\* A step of the ledger by another process, or of the clock.
LEMMA LedgerKeeps ==
    ASSUME WorkerIInv, LedgerStep, UNCHANGED <<sched, pc, job, active, mem, sinkVars, made>>
    PROVE  WorkerIInv'
<1>1. LedgerOK'
  BY LedgerGoes
<1>2. Story' /\ Publications' = Publications
  BY StoryStays DEF WorkerIInv
<1>3. JobFits' /\ PaidFor' /\ PublicationsFit'
  BY <1>2, ThreadStays
<1>4. SlotFits' /\ CallFits'
  BY SlotStays, CallStays, SlotKeptItself DEF SameFlags
<1> QED BY <1>1, <1>2, <1>3, <1>4 DEF WorkerIInv

\* Another process recovers, or the clock moves.
LEMMA OtherKeeps ==
    ASSUME WorkerIInv, OtherRecovers \/ Clock
    PROVE  LedgerStep /\ WorkerIInv'
<1>1. UNCHANGED <<sched, pc, job, active, mem, sinkVars, made>>
  BY DEF OtherRecovers, Clock
<1>2. CASE OtherRecovers
  <2>1. RecoveryLease \in 1..MaxLease
    BY Assumed
  <2>2. L!Next
    BY <1>2, <2>1 DEF OtherRecovers, L!Next
  <2> QED BY <1>1, <2>2, LedgerKeeps DEF LedgerStep
<1>3. CASE Clock
  <2>1. L!Next
    BY <1>3 DEF Clock, L!Next
  <2> QED BY <1>1, <2>1, LedgerKeeps DEF LedgerStep
<1> QED BY <1>2, <1>3

-----------------------------------------------------------------------------
(* The thread's steps that touch only the ledger and its locals.            *)

Toward == {"lease", "claim", "attempts", "record", "call"}
Leaving == {"abandon", "failing", "loop", "next", "exited"}

\* The thread keeps its item, or goes on without one.
SameSide ==
    /\ \/ pc \in Between /\ pc' \in Between \ {"dispatch"}
       \/ pc \in Working /\ pc' \in Working
    /\ pc # "calling" /\ pc' # "calling"
    /\ pc' \in Toward => pc \in Toward
    /\ pc \in Leaving => pc' \in Leaving

\* A thread that stays on its side, with locals that fit.
LEMMA PlaceKeeps ==
    ASSUME WorkerIInv, LedgerStep, UNCHANGED <<sched, active, mem, sinkVars, made>>, SameSide,
           JobFits', PaidFor', PublicationsFit'
    PROVE  WorkerIInv'
<1>1. LedgerOK'
  BY LedgerGoes
<1>2. Story'
  BY StoryStays DEF WorkerIInv
<1>3. SlotFits'
  BY DEF WorkerIInv, SlotFits, SameSide, Between, Working, Leased
<1>4. CallFits'
  BY DEF WorkerIInv, CallFits, SameSide, Toward, Leaving
<1> QED BY <1>1, <1>2, <1>3, <1>4 DEF WorkerIInv

\* ... to where no call and no publication is due.
LEMMA PlaceMoves ==
    ASSUME WorkerIInv, LedgerStep, UNCHANGED <<sched, active, mem, sinkVars, made>>, SameSide,
           JobFits', pc' \notin {"call", "publish"}
    PROVE  LedgerStep /\ WorkerIInv'
<1>1. Publications' = Publications
  BY DEF Publications, sinkVars
<1>2. PaidFor' /\ PublicationsFit'
  BY <1>1, ThreadMoves
<1> QED BY <1>2, PlaceKeeps

\* Where the thread holds no lease, its locals need only be an item's.
LEMMA JobKept ==
    ASSUME WorkerIInv, LedgerStep, pc \in Working, pc' \in Working \ {"claim"}, job' \in Item,
           pc' \in Leased => pc \in Leased /\ job'.lease = job.lease
    PROVE  JobFits'
<1>1. leases \subseteq leases' /\ JobFits
  BY LedgerGoes DEF WorkerIInv
<1> QED BY <1>1 DEF JobFits, Working, Leased, Between

\* recover: what it takes over are leases it was handed.
LEMMA RecoverTakesKeeps ==
    ASSUME WorkerIInv, RecoverTakes
    PROVE  LedgerStep /\ WorkerIInv'
<1>1. /\ pc = "recover" /\ pc' = "releasing" /\ job' = [todo |-> leases' \ leases]
      /\ UNCHANGED <<sched, active, mem, sinkVars, made>>
  BY DEF RecoverTakes
<1>2. L!Next
  <2>1. RecoveryLease \in 1..MaxLease
    BY Assumed
  <2> QED BY <2>1 DEF RecoverTakes, L!Next
<1>3. LedgerStep
  BY <1>2 DEF LedgerStep
<1>4. SameSide
  BY <1>1 DEF SameSide, Between, Working, Leased, Toward, Leaving
<1>5. JobFits'
  BY <1>1 DEF JobFits, Between, Working, Leased
<1> QED BY <1>1, <1>3, <1>4, <1>5, PlaceMoves

\* recover ends and the loop begins.
LEMMA RecoverEndsKeeps ==
    ASSUME WorkerIInv, RecoverEnds
    PROVE  LedgerStep /\ WorkerIInv'
<1>1. /\ pc \in {"recover", "releasing"} /\ pc' = "loop" /\ UNCHANGED <<now, ledgerVars>>
      /\ UNCHANGED <<sched, active, mem, sinkVars, made>>
  BY DEF RecoverEnds
<1>2. LedgerStep
  BY <1>1, NoLedgerStep
<1>3. SameSide
  BY <1>1 DEF SameSide, Between, Working, Leased, Toward, Leaving
<1>4. JobFits'
  BY <1>1 DEF JobFits, Between, Working, Leased
<1> QED BY <1>1, <1>2, <1>3, <1>4, PlaceMoves

\* A release of a lease that was handed out is a step of the ledger.
LEMMA ReleaseStep ==
    ASSUME WorkerIInv, NEW l \in leases, L!release_invocation(l) \/ UNCHANGED <<ledgerVars, now>>
    PROVE  LedgerStep
<1>1. CASE L!release_invocation(l)
  BY <1>1 DEF LedgerStep, L!Next
<1>2. CASE UNCHANGED <<ledgerVars, now>>
  BY <1>2, NoLedgerStep
<1> QED BY <1>1, <1>2

\* recover releases one of them, or finds it fenced.
LEMMA ReleaseRecoveredKeeps ==
    ASSUME WorkerIInv, ReleaseRecovered
    PROVE  LedgerStep /\ WorkerIInv'
<1>1. pc = "releasing" /\ UNCHANGED <<sched, active, mem, sinkVars, made>>
  BY DEF ReleaseRecovered
<1>2. PICK l \in job.todo :
        /\ L!release_invocation(l) \/ UNCHANGED <<ledgerVars, now>>
        /\ \/ pc' = "loop" /\ job' = NoJob
           \/ pc' = pc /\ job' = [todo |-> job.todo \ {l}]
  BY DEF ReleaseRecovered
<1>3. job.todo \subseteq leases
  BY <1>1 DEF WorkerIInv, JobFits
<1>4. LedgerStep
  BY <1>2, <1>3, ReleaseStep
<1>5. SameSide
  BY <1>1, <1>2 DEF SameSide, Between, Working, Leased, Toward, Leaving
<1>6. leases \subseteq leases'
  BY <1>4, LedgerGoes
<1>7. JobFits'
  BY <1>1, <1>2, <1>3, <1>6 DEF JobFits, Between, Working, Leased
<1>8. pc' \notin {"call", "publish"}
  BY <1>1, <1>2
<1> QED BY <1>1, <1>4, <1>5, <1>7, <1>8, PlaceMoves

\* run looks at the stop flag.
LEMMA LoopKeeps ==
    ASSUME WorkerIInv, Loop
    PROVE  LedgerStep /\ WorkerIInv'
<1>1. /\ pc = "loop" /\ pc' \in {"exited", "next"} /\ UNCHANGED <<now, ledgerVars>>
      /\ UNCHANGED <<sched, active, mem, sinkVars, made>>
  BY DEF Loop, Goto, AfterItem
<1>2. LedgerStep
  BY <1>1, NoLedgerStep
<1>3. SameSide
  BY <1>1 DEF SameSide, Between, Working, Leased, Toward, Leaving
<1>4. JobFits'
  BY <1>1 DEF JobFits, Between, Working, Leased
<1> QED BY <1>1, <1>2, <1>3, <1>4, PlaceMoves

\* _lease_seconds answers a length the ledger accepts.
LEMMA LeaseLengthFits ==
    ASSUME WorkerIInv, sched.running # S!Idle
    PROVE  LeaseLength \in 1..MaxLease
<1>1. sched.running \in S!Running
  BY Assumed, S!RunningOrIdle DEF WorkerIInv, Story, S!Sound
<1>2. DispatchedDeadline \in Int
  BY <1>1, Assumed, S!RunningFields DEF DispatchedDeadline
<1>3. now \in Nat /\ FinalizationReserve \in Nat /\ MaxLease \in Nat /\ MaxLease >= 1
  <2>1. now \in Times
    BY DEF WorkerIInv, LedgerOK, L!TypeOK
  <2>2. Times \subseteq Nat /\ FinalizationReserve \in Nat
    BY Assumed DEF S!SchedulerAssumption
  <2>3. MaxLease \in Nat /\ RecoveryLease \in 1..MaxLease
    BY Assumed
  <2> QED BY <2>1, <2>2, <2>3
<1> QED BY <1>2, <1>3 DEF LeaseLength, Least, Greatest

\* _run_item computes the lease length.
LEMMA ComputeLeaseKeeps ==
    ASSUME WorkerIInv, ComputeLease
    PROVE  LedgerStep /\ WorkerIInv'
<1>1. /\ pc = "lease" /\ pc' = "claim" /\ UNCHANGED <<now, ledgerVars>>
      /\ UNCHANGED <<sched, active, mem, sinkVars, made>>
      /\ job' = [job EXCEPT !.seconds = LeaseLength]
  BY DEF ComputeLease
<1>2. LedgerStep
  BY <1>1, NoLedgerStep
<1>3. SameSide
  BY <1>1 DEF SameSide, Between, Working, Leased, Toward, Leaving
<1>4. job \in Item /\ sched.running # S!Idle
  BY <1>1 DEF WorkerIInv, JobFits, SlotFits, Working
<1>5. PICK n \in 1..MaxLease : n = LeaseLength
  BY <1>4, LeaseLengthFits
<1>6. job' \in Item /\ job'.seconds = n
  <2>1. n \in Nat
    BY <1>5, Assumed
  <2>2. job' = [job EXCEPT !.seconds = n]
    BY <1>1, <1>5
  <2> QED BY <1>4, <2>1, <2>2 DEF Item
<1>7. JobFits'
  BY <1>1, <1>5, <1>6 DEF JobFits, Between, Working, Leased
<1> QED BY <1>1, <1>2, <1>3, <1>7, PlaceMoves

\* The identity the worker claims is one the ledger knows.
LEMMA IdentityKnown ==
    ASSUME NEW v \in Versions
    PROVE  v.identity \in Identities
<1>1. v \in S!Version
  BY Assumed DEF S!SchedulerAssumption
<1> QED BY <1>1 DEF S!Version

\* A claim that is a duplicate, refused or raises ends the item.
LEMMA ClaimFailsKeeps ==
    ASSUME WorkerIInv, ClaimFails
    PROVE  LedgerStep /\ WorkerIInv'
<1>1. pc = "claim" /\ pc' = "failing" /\ job' = job /\ UNCHANGED <<sched, active, mem, sinkVars, made>>
  BY DEF ClaimFails, Goto
<1>2. job \in Item
  BY <1>1 DEF WorkerIInv, JobFits, Working
<1>3. job.version.identity \in Identities
  BY <1>2, IdentityKnown DEF Item
<1>4. LedgerStep
  <2>1. CASE L!ClaimDuplicate(job.version.identity, Model)
    BY <1>3, <2>1 DEF LedgerStep, L!Next
  <2>2. CASE L!ClaimRefused(job.version.identity, Model)
    BY <1>3, <2>2 DEF LedgerStep, L!Next
  <2>3. CASE UNCHANGED <<ledgerVars, now>>
    BY <2>3, NoLedgerStep
  <2> QED BY <2>1, <2>2, <2>3 DEF ClaimFails
<1>5. SameSide
  BY <1>1 DEF SameSide, Between, Working, Leased, Toward, Leaving
<1>6. JobFits'
  BY <1>1, <1>2, <1>4, JobKept DEF Working, Leased
<1> QED BY <1>1, <1>4, <1>5, <1>6, PlaceMoves

\* A claim hands out one lease, of an invocation no lease names.
LEMMA ClaimedLease ==
    ASSUME WorkerIInv, NEW seconds, L!Claim(job.version.identity, Model, "worker", seconds)
    PROVE  (CHOOSE l \in leases' \ leases : TRUE) \in leases'
<1>1. PICK i \in Ids : /\ rows[i] = L!NoRow
                       /\ leases' = leases \cup {[invocation_id |-> i, generation |-> 1, owner |-> "worker"]}
  BY DEF L!Claim
<1>2. PICK l : l = [invocation_id |-> i, generation |-> 1, owner |-> "worker"]
  OBVIOUS
<1>3. l \notin leases
  BY <1>1, <1>2 DEF WorkerIInv, LedgerOK, L!GenerationsUnique
<1>4. \E x \in leases' \ leases : TRUE
  BY <1>1, <1>2, <1>3
<1> QED BY <1>4

\* A claim that wins gives the thread the lease handed out.
LEMMA ClaimWinsKeeps ==
    ASSUME WorkerIInv, ClaimWins
    PROVE  LedgerStep /\ WorkerIInv'
<1>1. /\ pc = "claim" /\ pc' = "attempts" /\ UNCHANGED <<sched, active, mem, sinkVars, made>>
      /\ L!Claim(job.version.identity, Model, "worker", job.seconds)
      /\ job' = [job EXCEPT !.lease = CHOOSE l \in leases' \ leases : TRUE, !.seconds = 0]
  BY DEF ClaimWins
<1>2. job \in Item /\ job.seconds \in 1..MaxLease
  BY <1>1 DEF WorkerIInv, JobFits, Working
<1>3. job.version.identity \in Identities
  BY <1>2, IdentityKnown DEF Item
<1>4. LedgerStep
  BY <1>1, <1>2, <1>3 DEF LedgerStep, L!Next
<1>5. PICK l \in leases' : l = CHOOSE x \in leases' \ leases : TRUE
  BY <1>1, ClaimedLease
<1>6. l \in L!Lease
  BY <1>4, <1>5, LedgerGoes DEF LedgerOK, L!TypeOK
<1>7. job' = [job EXCEPT !.lease = l, !.seconds = 0]
  BY <1>1, <1>5
<1>8. job' \in Item /\ job'.lease = l
  BY <1>2, <1>6, <1>7 DEF Item
<1>9. JobFits'
  BY <1>1, <1>5, <1>8 DEF JobFits, Between, Working, Leased
<1>10. SameSide
  BY <1>1 DEF SameSide, Between, Working, Leased, Toward, Leaving
<1> QED BY <1>1, <1>4, <1>9, <1>10, PlaceMoves

\* Giving up leaves the item and its lease.
LEMMA GivesUp ==
    ASSUME WorkerIInv, pc \in Leased, NEW raised \in BOOLEAN, GiveUp(raised)
    PROVE  pc' = "abandon" /\ job' \in Item /\ job'.lease = job.lease
<1>1. job \in Item
  BY DEF WorkerIInv, JobFits, Working
<1> QED BY <1>1 DEF GiveUp, Item

\* The lease of the item names one of the ids.
LEMMA LeaseKnown ==
    ASSUME WorkerIInv, pc \in Leased
    PROVE  job \in Item /\ job.lease \in leases /\ job.lease.invocation_id \in Ids
<1>1. job \in Item /\ job.lease \in leases /\ leases \subseteq L!Lease
  BY DEF WorkerIInv, JobFits, Working, LedgerOK, L!TypeOK
<1> QED BY <1>1 DEF L!Lease

\* _attempts ends before its first step.
LEMMA NoAttemptKeeps ==
    ASSUME WorkerIInv, NoAttempt
    PROVE  LedgerStep /\ WorkerIInv'
<1>1. /\ pc = "attempts" /\ UNCHANGED <<now, ledgerVars>> /\ UNCHANGED <<sched, active, mem, sinkVars, made>>
      /\ \E raised \in BOOLEAN : GiveUp(raised)
  <2>1. mem.stop \in BOOLEAN
    BY DEF WorkerIInv, Story, WorkerMemory
  <2> QED BY <2>1 DEF NoAttempt
<1>2. pc \in Leased
  BY <1>1 DEF Leased
<1>3. pc' = "abandon" /\ job' \in Item /\ job'.lease = job.lease
  BY <1>1, <1>2, GivesUp
<1>4. LedgerStep
  BY <1>1, NoLedgerStep
<1>5. JobFits'
  BY <1>2, <1>3, <1>4, JobKept DEF Working, Leased
<1>6. SameSide
  BY <1>1, <1>3 DEF SameSide, Between, Working, Leased, Toward, Leaving
<1> QED BY <1>1, <1>3, <1>4, <1>5, <1>6, PlaceMoves

\* A recorded attempt pays for one more call.
LEMMA AttemptPays ==
    ASSUME WorkerIInv, NEW l \in leases, NEW i \in Ids, i = l.invocation_id, L!record_attempt(l)
    PROVE  rows'[i] # L!NoRow /\ made[i] < rows'[i].attempt_count
<1>1. L!TypeOK /\ made \in [Ids -> Nat] /\ CallsCovered
  BY DEF WorkerIInv, LedgerOK, PaidFor
<1>2. rows[i].state = "CLAIMED"
  BY DEF L!record_attempt, L!HolderAction, L!fence_applied
<1>3. rows[i] # L!NoRow
  BY <1>2 DEF L!NoRow
<1>4. rows[i] \in L!Row
  BY <1>1, <1>3 DEF L!TypeOK
<1>5. PICK n \in Nat : n = rows[i].attempt_count
  BY <1>4 DEF L!Row
<1>6. PICK r : r = [rows[i] EXCEPT !.attempt_count = n + 1]
  OBVIOUS
<1>7. r.attempt_count = n + 1 /\ r.state = "CLAIMED"
  BY <1>2, <1>4, <1>6 DEF L!Row
<1>8. rows' = [rows EXCEPT ![i] = r]
  BY <1>5, <1>6 DEF L!record_attempt
<1>9. rows'[i] = r
  BY <1>1, <1>8 DEF L!TypeOK
<1>10. made[i] \in Nat /\ made[i] < n + 1
  BY <1>1, <1>5 DEF CallsCovered
<1>11. r # L!NoRow
  BY <1>7 DEF L!NoRow
<1> QED BY <1>7, <1>9, <1>10, <1>11

\* record_attempt, applied or not.
LEMMA RecordAttemptKeeps ==
    ASSUME WorkerIInv, RecordAttempt
    PROVE  LedgerStep /\ WorkerIInv'
<1>1. pc = "record" /\ UNCHANGED <<sched, active, mem, sinkVars, made>>
  BY DEF RecordAttempt
<1>2. pc \in Leased
  BY <1>1 DEF Leased
<1>3. job \in Item /\ job.lease \in leases /\ job.lease.invocation_id \in Ids
  BY <1>2, LeaseKnown
<1>4. Publications' = Publications
  BY <1>1 DEF Publications, sinkVars
<1>5. CASE L!record_attempt(job.lease) /\ pc' = "call" /\ job' = job
  <2>1. LedgerStep
    BY <1>3, <1>5 DEF LedgerStep, L!Next
  <2>2. JobFits'
    BY <1>2, <1>3, <1>5, <2>1, JobKept DEF Working, Leased
  <2>3. SameSide
    BY <1>1, <1>5 DEF SameSide, Between, Working, Leased, Toward, Leaving
  <2>4. PICK i \in Ids : i = job.lease.invocation_id
    BY <1>3
  <2>5. rows'[i] # L!NoRow /\ made[i] < rows'[i].attempt_count
    BY <1>3, <1>5, <2>4, AttemptPays
  <2>6. made' \in [Ids -> Nat] /\ CallsCovered'
    BY <1>1, <2>1, CallsStayCovered
  <2>7. PaidFor'
    BY <1>1, <1>5, <2>4, <2>5, <2>6 DEF PaidFor
  <2>8. PublicationsFit'
    <3>1. Publications' \subseteq ItemIds \X Ids /\ PublishedIsCommitted'
      BY <1>4, <2>1, PublishedStays
    <3> QED BY <1>5, <3>1 DEF PublicationsFit
  <2> QED BY <1>1, <2>1, <2>2, <2>3, <2>7, <2>8, PlaceKeeps
<1>6. CASE UNCHANGED <<ledgerVars, now>> /\ GiveUp(FALSE)
  <2>1. pc' = "abandon" /\ job' \in Item /\ job'.lease = job.lease
    BY <1>2, <1>6, GivesUp
  <2>2. LedgerStep
    BY <1>6, NoLedgerStep
  <2>3. JobFits'
    BY <1>2, <2>1, <2>2, JobKept DEF Working, Leased
  <2>4. SameSide
    BY <1>1, <2>1 DEF SameSide, Between, Working, Leased, Toward, Leaving
  <2> QED BY <1>1, <2>1, <2>2, <2>3, <2>4, PlaceMoves
<1> QED BY <1>5, <1>6 DEF RecordAttempt, AttemptRecorded, Goto

\* _abandon and a late result release the lease, or try to.
LEMMA AbandonKeeps ==
    ASSUME WorkerIInv, Abandon \/ ReleaseLate
    PROVE  LedgerStep /\ WorkerIInv'
<1>1. /\ UNCHANGED <<sched, active, mem, sinkVars, made>> /\ job' = job
      /\ \/ pc = "abandon" /\ pc' = "failing"
         \/ pc = "late" /\ pc' = "discard"
      /\ L!release_invocation(job.lease) \/ UNCHANGED <<ledgerVars, now>>
  BY DEF Abandon, ReleaseLate, Goto
<1>2. pc \in Leased /\ pc' \in Working \ {"claim"} /\ pc' \notin {"call", "publish"}
  BY <1>1 DEF Leased, Working
<1>3. job \in Item /\ job.lease \in leases
  BY <1>2, LeaseKnown
<1>4. LedgerStep
  BY <1>1, <1>3, ReleaseStep
<1>5. JobFits'
  BY <1>1, <1>2, <1>3, <1>4, JobKept DEF Working, Leased
<1>6. SameSide
  BY <1>1 DEF SameSide, Between, Working, Leased, Toward, Leaving
<1> QED BY <1>1, <1>2, <1>4, <1>5, <1>6, PlaceMoves

\* _commit looks at the deadline.
LEMMA CommitKeeps ==
    ASSUME WorkerIInv, Commit
    PROVE  LedgerStep /\ WorkerIInv'
<1>1. /\ UNCHANGED <<sched, active, mem, sinkVars, made>> /\ UNCHANGED <<now, ledgerVars>>
      /\ pc = "commit" /\ pc' \in {"late", "complete"} /\ job' = job
  BY DEF Commit, Goto
<1>2. pc \in Leased /\ pc' \in Working \ {"claim"} /\ pc' \notin {"call", "publish"}
  BY <1>1 DEF Leased, Working
<1>3. job \in Item
  BY <1>2, LeaseKnown
<1>4. LedgerStep
  BY <1>1, NoLedgerStep
<1>5. JobFits'
  BY <1>1, <1>2, <1>3, <1>4, JobKept DEF Working, Leased
<1>6. SameSide
  BY <1>1 DEF SameSide, Between, Working, Leased, Toward, Leaving
<1> QED BY <1>1, <1>2, <1>4, <1>5, <1>6, PlaceMoves

\* An invocation that is completed now was not before: nothing names it yet.
LEMMA CommitIsNew ==
    ASSUME WorkerIInv, NEW l \in leases, NEW i \in Ids, i = l.invocation_id, L!complete_invocation(l)
    PROVE  rows'[i].state = "COMPLETED" /\ \A p \in Publications : p[2] # i
<1>1. L!TypeOK /\ \A p \in Publications : rows[p[2]].state = "COMPLETED"
  BY DEF WorkerIInv, LedgerOK, PublicationsFit, PublishedIsCommitted
<1>2. rows[i].state = "CLAIMED"
  BY DEF L!complete_invocation, L!EndInvocation, L!HolderAction, L!fence_applied
<1>3. rows[i] # L!NoRow
  BY <1>2 DEF L!NoRow
<1>4. rows[i] \in L!Row
  BY <1>1, <1>3 DEF L!TypeOK
<1>5. PICK r : r = [rows[i] EXCEPT !.state = "COMPLETED"]
  OBVIOUS
<1>6. r.state = "COMPLETED"
  BY <1>4, <1>5 DEF L!Row
<1>7. rows' = [rows EXCEPT ![i] = r]
  BY <1>5 DEF L!complete_invocation, L!EndInvocation
<1>8. rows'[i] = r
  BY <1>1, <1>7 DEF L!TypeOK
<1>9. \A p \in Publications : p[2] # i
  BY <1>1, <1>2
<1> QED BY <1>6, <1>8, <1>9

\* _commit completes the invocation, is fenced, or the ledger raises.
LEMMA CompleteLedgerKeeps ==
    ASSUME WorkerIInv, CompleteLedger
    PROVE  LedgerStep /\ WorkerIInv'
<1>1. pc = "complete" /\ UNCHANGED <<sched, active, mem, sinkVars, made>> /\ job' = job
  BY DEF CompleteLedger, Goto
<1>2. pc \in Leased
  BY <1>1 DEF Leased
<1>3. job \in Item /\ job.lease \in leases /\ job.lease.invocation_id \in Ids
  BY <1>2, LeaseKnown
<1>4. Publications' = Publications
  BY <1>1 DEF Publications, sinkVars
<1>5. CASE L!complete_invocation(job.lease) /\ pc' = "publish"
  <2>1. LedgerStep
    BY <1>3, <1>5 DEF LedgerStep, L!Next
  <2>2. JobFits'
    BY <1>1, <1>2, <1>3, <1>5, <2>1, JobKept DEF Working, Leased
  <2>3. SameSide
    BY <1>1, <1>5 DEF SameSide, Between, Working, Leased, Toward, Leaving
  <2>4. PICK i \in Ids : i = job.lease.invocation_id
    BY <1>3
  <2>5. rows'[i].state = "COMPLETED" /\ \A p \in Publications : p[2] # i
    BY <1>3, <1>5, <2>4, CommitIsNew
  <2>6. Publications' \subseteq ItemIds \X Ids /\ PublishedIsCommitted'
    BY <1>4, <2>1, PublishedStays
  <2>7. PublicationsFit'
    BY <1>1, <1>4, <1>5, <2>4, <2>5, <2>6 DEF PublicationsFit
  <2>8. PaidFor'
    <3>1. made' \in [Ids -> Nat] /\ CallsCovered'
      BY <1>1, <2>1, CallsStayCovered
    <3> QED BY <1>5, <3>1 DEF PaidFor
  <2> QED BY <1>1, <2>1, <2>2, <2>3, <2>7, <2>8, PlaceKeeps
<1>6. CASE UNCHANGED <<ledgerVars, now>> /\ pc' \in {"failing", "abandon"}
  <2>1. LedgerStep
    BY <1>6, NoLedgerStep
  <2>2. JobFits'
    BY <1>1, <1>2, <1>3, <1>6, <2>1, JobKept DEF Working, Leased
  <2>3. SameSide
    BY <1>1, <1>6 DEF SameSide, Between, Working, Leased, Toward, Leaving
  <2>4. pc' \notin {"call", "publish"}
    BY <1>6
  <2> QED BY <1>1, <2>1, <2>2, <2>3, <2>4, PlaceMoves
<1> QED BY <1>5, <1>6 DEF CompleteLedger, Committed, Goto

-----------------------------------------------------------------------------
(* The call.                                                                *)

\* _call: one more call under an invocation that paid for it.
LEMMA BeginCallKeeps ==
    ASSUME WorkerIInv, BeginCall
    PROVE  LedgerStep /\ WorkerIInv'
<1>1. pc = "call" /\ UNCHANGED <<now, ledgerVars>> /\ UNCHANGED <<sched, mem, sinkVars>>
  BY DEF BeginCall
<1>2. pc \in Leased
  BY <1>1 DEF Leased
<1>3. job \in Item /\ job.lease \in leases /\ job.lease.invocation_id \in Ids
  BY <1>2, LeaseKnown
<1>4. LedgerStep
  BY <1>1, NoLedgerStep
<1>5. CASE GiveUp(FALSE) /\ UNCHANGED <<active, made>>
  <2>1. pc' = "abandon" /\ job' \in Item /\ job'.lease = job.lease
    BY <1>2, <1>5, GivesUp
  <2>2. JobFits'
    BY <1>2, <1>4, <2>1, JobKept DEF Working, Leased
  <2>3. SameSide
    BY <1>1, <2>1 DEF SameSide, Between, Working, Leased, Toward, Leaving
  <2> QED BY <1>1, <1>4, <1>5, <2>1, <2>2, <2>3, PlaceMoves
<1>6. CASE /\ pc' = "calling" /\ job' = job /\ active' = StartCall
           /\ made' = [made EXCEPT ![job.lease.invocation_id] = @ + 1]
  <2>1. LedgerOK'
    BY <1>4, LedgerGoes
  <2>2. Story' /\ Publications' = Publications
    BY <1>1, StoryStays DEF WorkerIInv
  <2>3. JobFits'
    BY <1>2, <1>3, <1>4, <1>6, JobKept DEF Working, Leased
  <2>4. SlotFits'
    BY <1>1, <1>6 DEF WorkerIInv, SlotFits, Between, Working, Leased
  <2>5. mem.stop \in BOOLEAN
    BY DEF WorkerIInv, Story, WorkerMemory
  <2>6. active' \in ActiveCall /\ active' # NoCall /\ active'.cancel = mem.stop
    BY <1>6, <2>5 DEF StartCall, ActiveCall, NoCall
  <2>7. CallFits'
    BY <1>1, <1>6, <2>6 DEF WorkerIInv, CallFits
  <2>8. PublicationsFit'
    BY <1>4, <1>6, <2>2, ThreadMoves
  <2>9. PICK i \in Ids : i = job.lease.invocation_id
    BY <1>3
  <2>10. /\ made \in [Ids -> Nat] /\ CallsCovered /\ rows[i] # L!NoRow /\ made[i] < rows[i].attempt_count
    BY <1>1, <2>9 DEF WorkerIInv, PaidFor
  <2>11. rows[i].attempt_count \in Nat
    BY <2>10 DEF WorkerIInv, LedgerOK, L!TypeOK, L!Row
  <2>12. PICK n \in Nat : n = made[i] + 1 /\ n <= rows[i].attempt_count
    BY <2>10, <2>11
  <2>13. made' = [made EXCEPT ![i] = n]
    BY <1>6, <2>9, <2>12
  <2>14. made' \in [Ids -> Nat] /\ \A k \in Ids : made'[k] = IF k = i THEN n ELSE made[k]
    BY <2>10, <2>13
  <2>15. rows' = rows
    BY <1>1 DEF ledgerVars
  <2>16. CallsCovered'
    BY <2>10, <2>12, <2>14, <2>15 DEF CallsCovered
  <2>17. PaidFor'
    BY <1>6, <2>14, <2>16 DEF PaidFor
  <2> QED BY <1>4, <2>1, <2>2, <2>3, <2>4, <2>7, <2>8, <2>17 DEF WorkerIInv
<1> QED BY <1>5, <1>6 DEF BeginCall, Goto

\* record_failure opens the breaker exactly at its limit.
LEMMA FailureCounts ==
    ASSUME WorkerIInv, ~mem.disabled, RecordFailure
    PROVE  /\ mem' \in WorkerMemory /\ mem'.versions = mem.versions /\ mem'.pending = mem.pending
           /\ mem'.pending_fail = mem.pending_fail /\ mem'.stop = mem.stop
           /\ mem'.restart_required = mem.restart_required
           /\ mem'.disabled <=> mem'.failures = MaxFailures
<1>1. mem \in WorkerMemory /\ (mem.disabled <=> mem.failures = MaxFailures) /\ MaxFailures \in Nat \ {0}
  BY Assumed DEF WorkerIInv, Story, CallFits
<1>2. mem.failures \in 0..MaxFailures /\ mem.failures # MaxFailures /\ mem.disabled = FALSE
  BY <1>1 DEF WorkerMemory
<1>3. PICK kept \in 0..mem.failures :
         mem' = [mem EXCEPT !.failures = kept + 1, !.disabled = @ \/ kept + 1 >= MaxFailures]
  BY DEF RecordFailure
<1>4. PICK n \in 0..MaxFailures : n = kept + 1
  BY <1>1, <1>2
<1>5. PICK open \in BOOLEAN : open <=> n = MaxFailures
  <2>1. CASE n = MaxFailures
    BY <2>1
  <2>2. CASE n # MaxFailures
    BY <2>2
  <2> QED BY <2>1, <2>2
<1>6. mem' = [mem EXCEPT !.failures = n, !.disabled = mem.disabled \/ kept + 1 >= MaxFailures]
  BY <1>3, <1>4
<1>7. mem' = [mem EXCEPT !.failures = n, !.disabled = open]
  <2>1. CASE n = MaxFailures
    <3>1. kept + 1 >= MaxFailures /\ open = TRUE
      BY <1>1, <1>4, <1>5, <2>1
    <3>2. (mem.disabled \/ kept + 1 >= MaxFailures) = TRUE
      BY <3>1
    <3> QED BY <1>6, <3>1, <3>2
  <2>2. CASE n # MaxFailures
    <3>1. ~(kept + 1 >= MaxFailures) /\ open = FALSE
      BY <1>1, <1>4, <1>5, <2>2
    <3>2. (mem.disabled \/ kept + 1 >= MaxFailures) = FALSE
      BY <1>2, <3>1
    <3> QED BY <1>6, <3>1, <3>2
  <2> QED BY <2>1, <2>2
<1>8. /\ mem' \in WorkerMemory /\ mem'.versions = mem.versions /\ mem'.pending = mem.pending
      /\ mem'.pending_fail = mem.pending_fail /\ mem'.stop = mem.stop
      /\ mem'.restart_required = mem.restart_required /\ mem'.failures = n /\ mem'.disabled = open
  BY <1>1, <1>7 DEF WorkerMemory
<1> QED BY <1>5, <1>8

\* A call that returns leaves to commit, to repair or to be abandoned; once
\* termination was asked for, only to be abandoned.
LEMMA CallLeaves ==
    ASSUME WorkerIInv, NEW answer \in Answers, CallReturns(answer)
    PROVE  /\ pc = "calling" /\ active' = NoCall /\ UNCHANGED <<now, ledgerVars>>
           /\ UNCHANGED <<sched, sinkVars>> /\ made' = made
           /\ mem' = mem \/ RecordFailure
           /\ \/ pc' = "commit" /\ job' = job /\ ~mem.restart_required
              \/ pc' = "attempts" /\ job' = [job EXCEPT !.repair = TRUE] /\ ~mem.restart_required /\ ~mem'.disabled
              \/ \E raised \in BOOLEAN : GiveUp(raised)
<1>1. PICK verdict : /\ verdict = CallVerdict(answer)
                     /\ mem.restart_required => verdict = "failed"
  BY DEF CallVerdict
<1>2. /\ pc = "calling" /\ active' = NoCall /\ UNCHANGED <<sched, now, ledgerVars, sinkVars, made>>
      /\ IF verdict \in {"accepted", "cancelled", "raises"} THEN UNCHANGED mem ELSE RecordFailure
      /\ IF verdict = "accepted" THEN pc' = "commit" /\ job' = job
         ELSE IF verdict \in {"malformed", "rejected"} /\ ~job.repair /\ ~mem'.disabled
         THEN pc' = "attempts" /\ job' = [job EXCEPT !.repair = TRUE]
         ELSE GiveUp(verdict = "raises")
  BY <1>1 DEF CallReturns, Goto
<1>3. PICK raises \in BOOLEAN : raises = (verdict = "raises")
  OBVIOUS
<1> QED BY <1>1, <1>2, <1>3

\* _call returns: nothing else of the system moves.
LEMMA CallReturnsKeeps ==
    ASSUME WorkerIInv, NEW answer \in Answers, CallReturns(answer)
    PROVE  LedgerStep /\ WorkerIInv'
<1>1. /\ pc = "calling" /\ active' = NoCall /\ UNCHANGED <<now, ledgerVars>>
      /\ UNCHANGED <<sched, sinkVars>> /\ made' = made
  BY CallLeaves
<1>2. pc \in Leased
  BY <1>1 DEF Leased
<1>3. job \in Item /\ job.lease \in leases
  BY <1>2, LeaseKnown
<1>4. LedgerStep /\ LedgerOK'
  BY <1>1, NoLedgerStep, LedgerGoes
<1>5. ~mem.disabled
  BY <1>1 DEF WorkerIInv, CallFits
<1>6. mem \in WorkerMemory /\ (mem.disabled <=> mem.failures = MaxFailures)
  BY DEF WorkerIInv, Story, CallFits
<1>7. /\ mem' \in WorkerMemory /\ mem'.versions = mem.versions /\ mem'.pending = mem.pending
      /\ mem'.pending_fail = mem.pending_fail /\ mem'.stop = mem.stop
      /\ mem'.restart_required = mem.restart_required
      /\ mem'.disabled <=> mem'.failures = MaxFailures
  <2>1. CASE mem' = mem
    BY <1>6, <2>1
  <2>2. CASE RecordFailure
    BY <1>5, <2>2, FailureCounts
  <2> QED BY <2>1, <2>2, CallLeaves
<1>8. Story' /\ Publications' = Publications
  BY <1>1, <1>7, FlagsStory DEF WorkerIInv
<1>9. /\ pc' \in {"commit", "attempts", "abandon"} /\ job' \in Item /\ job'.lease = job.lease
      /\ pc' # "abandon" => ~mem.restart_required
      /\ pc' = "attempts" => ~mem'.disabled
  <2>1. CASE pc' = "commit" /\ job' = job /\ ~mem.restart_required
    BY <1>3, <2>1
  <2>2. CASE pc' = "attempts" /\ job' = [job EXCEPT !.repair = TRUE] /\ ~mem.restart_required /\ ~mem'.disabled
    <3>1. job' \in Item /\ job'.lease = job.lease
      BY <1>3, <2>2 DEF Item
    <3> QED BY <2>2, <3>1
  <2>3. CASE \E raised \in BOOLEAN : GiveUp(raised)
    BY <1>2, <2>3, GivesUp
  <2> QED BY <2>1, <2>2, <2>3, CallLeaves
<1>10. JobFits'
  <2>1. pc \in Working /\ pc' \in Working \ {"claim"} /\ (pc' \in Leased => pc \in Leased /\ job'.lease = job.lease)
    BY <1>2, <1>9 DEF Working, Leased
  <2> QED BY <1>4, <1>9, <2>1, JobKept
<1>11. SlotFits'
  BY <1>1, <1>7, <1>9 DEF WorkerIInv, SlotFits, Between, Working, Leased
<1>12. CallFits'
  BY <1>1, <1>7, <1>9 DEF CallFits
<1>13. PaidFor' /\ PublicationsFit'
  <2>1. pc' \notin {"call", "publish"}
    BY <1>9
  <2> QED BY <1>1, <1>4, <1>8, <2>1, ThreadMoves
<1> QED BY <1>4, <1>8, <1>10, <1>11, <1>12, <1>13 DEF WorkerIInv

-----------------------------------------------------------------------------
(* The thread's calls of the scheduler.                                     *)

\* Where the story is told, what is left to show of a thread that goes on
\* without an item.
LEMMA BetweenKeeps ==
    ASSUME WorkerIInv, UNCHANGED <<now, ledgerVars, active, made>>, Story',
           Publications' \subseteq Publications, pc # "calling",
           pc' \in {"loop", "dispatch", "exited"}, SlotFits',
           mem'.stop = mem.stop, mem'.restart_required = mem.restart_required,
           mem'.failures = mem.failures, mem'.disabled = mem.disabled,
           mem.restart_required => pc' # "dispatch"
    PROVE  LedgerStep /\ WorkerIInv'
<1>1. LedgerStep /\ LedgerOK'
  BY NoLedgerStep, LedgerGoes
<1>2. JobFits'
  BY DEF JobFits, Between, Working, Leased
<1>3. CallFits'
  BY DEF WorkerIInv, CallFits
<1>4. PaidFor' /\ PublicationsFit'
  BY <1>1, ThreadMoves
<1> QED BY <1>1, <1>2, <1>3, <1>4 DEF WorkerIInv

\* process_next refuses: termination was asked for, or the sink is out.
LEMMA NextRefusedKeeps ==
    ASSUME WorkerIInv, NextRefused
    PROVE  LedgerStep /\ WorkerIInv'
<1>1. pc = "next" /\ UNCHANGED <<now, ledgerVars, active, made>> /\ UNCHANGED sched
  BY DEF NextRefused
<1>2. CASE pc' = "exited" /\ UNCHANGED <<mem, sinkVars>>
  <2>1. Story' /\ Publications' = Publications
    BY <1>1, <1>2, StoryStays DEF WorkerIInv
  <2>2. SlotFits'
    BY <1>1, <1>2 DEF WorkerIInv, SlotFits, Between, Working, Leased
  <2> QED BY <1>1, <1>2, <2>1, <2>2, BetweenKeeps
<1>3. CASE pc' = "loop" /\ FlushFails
  <2>1. Story' /\ SameFlags(mem', mem) /\ Publications' = Publications
    BY <1>1, <1>3, FlushFailsStory DEF WorkerIInv
  <2>2. SlotFits'
    BY <1>1, <1>3, <2>1 DEF WorkerIInv, SlotFits, Between, Working, Leased, SameFlags
  <2>3. /\ mem'.stop = mem.stop /\ mem'.restart_required = mem.restart_required
        /\ mem'.failures = mem.failures /\ mem'.disabled = mem.disabled
    BY <2>1 DEF SameFlags
  <2> QED BY <1>1, <1>3, <2>1, <2>2, <2>3, BetweenKeeps
<1> QED BY <1>2, <1>3 DEF NextRefused, Goto

\* The items of the slot are known.
LEMMA SlotItem ==
    ASSUME WorkerIInv, sched.running # S!Idle
    PROVE  sched.running.version.item_id \in ItemIds /\ sched.running.version.item_id # None
<1>1. sched.running \in S!Running
  BY Assumed, S!RunningOrIdle DEF WorkerIInv, Story, S!Sound
<1>2. sched.running.version.item_id \in ItemIds
  BY <1>1, Assumed, S!RunningFields
<1>3. ItemIds \subseteq Nat \ {0}
  BY Assumed DEF S!SchedulerAssumption
<1> QED BY <1>2, <1>3 DEF None

\* _fail_item_locked: the slot is freed, or its item is remembered.
LEMMA FailItemStory ==
    ASSUME WorkerIInv, sched.running # S!Idle, NEW m \in WorkerMemory, m.pending = mem.pending,
           m.versions = mem.versions, m.pending_fail = None, m.stop = mem.stop,
           m.restart_required = mem.restart_required, m.failures = mem.failures, m.disabled = mem.disabled,
           NEW flushed \in 0..Len(mem.pending), FailItem(m, flushed)
    PROVE  /\ Story' /\ Publications' = Publications
           /\ mem'.stop = mem.stop /\ mem'.restart_required = mem.restart_required
           /\ mem'.failures = mem.failures /\ mem'.disabled = mem.disabled
           /\ ClockOK => sched'.running = S!Idle /\ mem'.pending_fail = None
           /\ ~ClockOK => /\ sched' = sched /\ mem'.pending_fail # None
                          /\ mem'.pending_fail = sched.running.version.item_id
<1>1. Story /\ now \in Times /\ mem \in WorkerMemory
  BY DEF WorkerIInv, LedgerOK, L!TypeOK, Story
<1>2. flushed \in Nat /\ Len(mem.pending) \in Nat
  BY <1>1 DEF WorkerMemory
<1>3. CASE ClockOK
  <2>1. /\ sched' = S!Finish(sched, "FAILED", now).s
        /\ Emit(m, S!Finish(sched, "FAILED", now).out, {}, flushed)
    BY <1>3 DEF FailItem
  <2>2. {} \in SUBSET (ItemIds \X Ids) /\ "FAILED" \in {"COMPLETED", "FAILED"}
    OBVIOUS
  <2>3. /\ Story' /\ SameFlags(mem', m) /\ Publications' = Publications \cup {}
        /\ sched'.running = S!Idle
    BY <1>1, <1>2, <2>1, <2>2, FinishStory
  <2> QED BY <1>3, <2>3 DEF SameFlags
<1>4. CASE ~ClockOK
  <2>1. PICK i \in ItemIds : i = sched.running.version.item_id /\ i # None
    BY SlotItem
  <2>2. PICK w : w = [m EXCEPT !.pending_fail = i]
    OBVIOUS
  <2>3. /\ w \in WorkerMemory /\ w.pending = m.pending /\ w.versions = m.versions /\ w.pending_fail = i
        /\ w.stop = m.stop /\ w.restart_required = m.restart_required /\ w.failures = m.failures
        /\ w.disabled = m.disabled
    BY <2>2 DEF WorkerMemory
  <2>4. Flush(w, flushed) /\ sched' = sched
    BY <1>4, <2>1, <2>2 DEF FailItem
  <2>5. w.pending = mem.pending /\ w.versions = mem.versions
    BY <2>3
  <2>6. Story' /\ SameFlags(mem', w) /\ Publications' = Publications
    BY <1>1, <2>3, <2>4, <2>5, FlushStory
  <2> QED BY <1>4, <2>1, <2>3, <2>4, <2>6 DEF SameFlags
<1> QED BY <1>3, <1>4

\* process_next first ends the item it remembers.
LEMMA RetryFailKeeps ==
    ASSUME WorkerIInv, RetryFail
    PROVE  LedgerStep /\ WorkerIInv'
<1>1. /\ pc = "next" /\ ~mem.restart_required /\ mem.pending_fail # None
      /\ UNCHANGED <<now, ledgerVars, active, made>>
      /\ ClockOK => pc' = "dispatch"
      /\ ~ClockOK => pc' = "loop"
  BY DEF RetryFail, Goto, MustRestart
<1>2. PICK m : m = [mem EXCEPT !.pending_fail = None]
  OBVIOUS
<1>3. mem \in WorkerMemory
  BY DEF WorkerIInv, Story
<1>4. /\ m \in WorkerMemory /\ m.pending = mem.pending /\ m.versions = mem.versions
      /\ m.pending_fail = None /\ m.stop = mem.stop /\ m.restart_required = mem.restart_required
      /\ m.failures = mem.failures /\ m.disabled = mem.disabled
  BY <1>2, <1>3 DEF WorkerMemory
<1>5. PICK flushed \in 0..Len(mem.pending) : FailItem(m, flushed)
  <2>1. FailItem(m, Len(mem.pending))
    BY <1>2 DEF RetryFail
  <2>2. Len(mem.pending) \in Nat
    BY <1>3 DEF WorkerMemory
  <2> QED BY <2>1, <2>2
<1>6. sched.running # S!Idle
  BY <1>1 DEF WorkerIInv, SlotFits
<1>7. /\ Story' /\ Publications' = Publications
      /\ mem'.stop = mem.stop /\ mem'.restart_required = mem.restart_required
      /\ mem'.failures = mem.failures /\ mem'.disabled = mem.disabled
      /\ ClockOK => sched'.running = S!Idle /\ mem'.pending_fail = None
      /\ ~ClockOK => /\ sched' = sched /\ mem'.pending_fail # None
                     /\ mem'.pending_fail = sched.running.version.item_id
  BY <1>4, <1>5, <1>6, FailItemStory
<1>8. SlotFits'
  BY <1>1, <1>6, <1>7 DEF SlotFits, Between, Working, Leased
<1>9. pc' \in {"loop", "dispatch"}
  BY <1>1
<1> QED BY <1>1, <1>7, <1>8, <1>9, BetweenKeeps

\* _fail_item_locked at the end of an item.
LEMMA EndItemKeeps ==
    ASSUME WorkerIInv, EndItem
    PROVE  LedgerStep /\ WorkerIInv'
<1>1. /\ pc \in {"refuse", "failing"} /\ pc' \in {"exited", "loop"}
      /\ FailItem(mem, 0) /\ UNCHANGED <<now, ledgerVars, active, made>>
  BY DEF EndItem
<1>2. mem \in WorkerMemory /\ 0 \in 0..Len(mem.pending)
  BY DEF WorkerIInv, Story, WorkerMemory
<1>3. sched.running # S!Idle /\ mem.pending_fail = None
  BY <1>1 DEF WorkerIInv, SlotFits, Working
<1>4. /\ Story' /\ Publications' = Publications
      /\ mem'.stop = mem.stop /\ mem'.restart_required = mem.restart_required
      /\ mem'.failures = mem.failures /\ mem'.disabled = mem.disabled
      /\ ClockOK => sched'.running = S!Idle /\ mem'.pending_fail = None
      /\ ~ClockOK => /\ sched' = sched /\ mem'.pending_fail # None
                     /\ mem'.pending_fail = sched.running.version.item_id
  BY <1>1, <1>2, <1>3, FailItemStory
<1>5. SlotFits'
  BY <1>1, <1>3, <1>4 DEF SlotFits, Between, Working, Leased
<1> QED BY <1>1, <1>4, <1>5, BetweenKeeps

\* Between items the slot is empty unless its item is remembered.
LEMMA DispatchPlace ==
    ASSUME WorkerIInv, Dispatch
    PROVE  /\ pc \in {"next", "dispatch"} /\ ~mem.restart_required /\ mem.pending_fail = None
           /\ sched.running = S!Idle /\ UNCHANGED <<now, ledgerVars, active, made>>
<1>1. /\ \/ pc = "next" /\ ~mem.restart_required /\ mem.pending_fail = None
         \/ pc = "dispatch"
      /\ UNCHANGED <<now, ledgerVars, active, made>>
  BY DEF Dispatch, MustRestart
<1>2. pc = "dispatch" => ~mem.restart_required /\ mem.pending_fail = None
  BY DEF WorkerIInv, CallFits, SlotFits
<1>3. pc \in Between /\ sched.running # S!Idle => mem.pending_fail # None
  BY DEF WorkerIInv, SlotFits
<1>4. pc \in Between
  BY <1>1 DEF Between
<1> QED BY <1>1, <1>2, <1>3, <1>4

\* An item that starts: what the thread takes into its locals.
Starts(i) ==
    /\ job' = [version |-> mem'.versions[i], lease |-> NoJob, seconds |-> 0,
               repair |-> FALSE, call_deadline |-> 0, raised |-> FALSE]
    /\ pc' = IF mem.disabled \/ mem.stop \/ mem'.versions[i] = NoVersion THEN "refuse" ELSE "lease"

\* An item that starts is in the slot, with its version.
LEMMA StartsKeeps ==
    ASSUME WorkerIInv, UNCHANGED <<now, ledgerVars, active, made>>, Story', SameFlags(mem', mem),
           Publications' = Publications, sched'.running # S!Idle, mem.pending_fail = None,
           ~mem.restart_required, pc # "calling",
           NEW i \in ItemIds, mem'.versions[i] \in Versions, Starts(i)
    PROVE  LedgerStep /\ WorkerIInv'
<1>1. LedgerStep /\ LedgerOK'
  BY NoLedgerStep, LedgerGoes
<1>2. job' \in Item
  BY DEF Starts, Item
<1>3. pc' \in {"refuse", "lease"} /\ (pc' = "lease" => ~mem.disabled)
  BY DEF Starts
<1>4. JobFits'
  BY <1>2, <1>3 DEF JobFits, Between, Working, Leased
<1>5. SlotFits'
  BY <1>3 DEF SlotFits, Between, Working, Leased, SameFlags
<1>6. CallFits'
  BY <1>3 DEF WorkerIInv, CallFits, SameFlags
<1>7. PaidFor' /\ PublicationsFit'
  BY <1>1, <1>3, ThreadMoves
<1> QED BY <1>1, <1>4, <1>5, <1>6, <1>7 DEF WorkerIInv

\* process_next dispatches, finds nothing, or the clock is behind.
LEMMA DispatchKeeps ==
    ASSUME WorkerIInv, Dispatch
    PROVE  LedgerStep /\ WorkerIInv'
<1>1. /\ pc \in {"next", "dispatch"} /\ ~mem.restart_required /\ mem.pending_fail = None
      /\ sched.running = S!Idle /\ UNCHANGED <<now, ledgerVars, active, made>>
  BY DispatchPlace
<1>2. Story /\ now \in Times /\ mem \in WorkerMemory /\ Len(mem.pending) \in Nat
  BY DEF WorkerIInv, LedgerOK, L!TypeOK, Story, WorkerMemory
<1>3. PICK flushed \in 0..Len(mem.pending) : flushed = IF pc = "next" THEN Len(mem.pending) ELSE 0
  BY <1>2
<1>4. PICK d : d = S!Dispatch(sched, now)
  OBVIOUS
<1>5. CASE ~ClockOK
  <2>1. Flush(mem, flushed) /\ pc' = "loop" /\ sched' = sched
    BY <1>3, <1>5 DEF Dispatch, Goto
  <2>2. Story' /\ SameFlags(mem', mem) /\ Publications' = Publications
    BY <1>2, <2>1, FlushStory
  <2>3. SlotFits'
    BY <1>1, <2>1, <2>2 DEF SlotFits, Between, Working, Leased, SameFlags
  <2>4. /\ mem'.stop = mem.stop /\ mem'.restart_required = mem.restart_required
        /\ mem'.failures = mem.failures /\ mem'.disabled = mem.disabled
    BY <2>2 DEF SameFlags
  <2> QED BY <1>1, <2>1, <2>2, <2>3, <2>4, BetweenKeeps
<1>6. CASE ClockOK
  <2>1. sched' = d.s /\ Emit(mem, d.out, {}, flushed)
    BY <1>3, <1>4, <1>6 DEF Dispatch
  <2>2. /\ Story' /\ SameFlags(mem', mem) /\ Publications' = Publications
        /\ \/ S!SlotKept(sched, sched') /\ \A i : <<i, "RUNNING">> \notin d.out
           \/ /\ sched'.running # S!Idle
              /\ \E i \in ItemIds : <<i, "RUNNING">> \in d.out
              /\ \A i \in ItemIds : <<i, "RUNNING">> \in d.out => mem'.versions[i] \in Versions
    BY <1>2, <1>4, <2>1, DispatchStory
  <2>3. \/ pc' = "loop" /\ \A i \in ItemIds : <<i, "RUNNING">> \notin d.out
        \/ \E i \in ItemIds : <<i, "RUNNING">> \in d.out /\ Starts(i)
    <3>1. CASE {i \in ItemIds : <<i, "RUNNING">> \in d.out} = {}
      <4>1. pc' = "loop"
        BY <1>4, <1>6, <3>1 DEF Dispatch, Goto
      <4> QED BY <3>1, <4>1
    <3>2. CASE {i \in ItemIds : <<i, "RUNNING">> \in d.out} # {}
      <4>1. \E i \in {i \in ItemIds : <<i, "RUNNING">> \in d.out} : Starts(i)
        BY <1>4, <1>6, <3>2 DEF Dispatch, Starts
      <4> QED BY <4>1
    <3> QED BY <3>1, <3>2
  <2>4. CASE pc' = "loop" /\ \A i \in ItemIds : <<i, "RUNNING">> \notin d.out
    <3>1. sched'.running = S!Idle
      BY <1>1, <2>2, <2>4 DEF S!SlotKept
    <3>2. SlotFits'
      BY <1>1, <2>2, <2>4, <3>1 DEF SlotFits, Between, Working, Leased, SameFlags
    <3>3. /\ mem'.stop = mem.stop /\ mem'.restart_required = mem.restart_required
          /\ mem'.failures = mem.failures /\ mem'.disabled = mem.disabled
      BY <2>2 DEF SameFlags
    <3> QED BY <1>1, <2>2, <2>4, <3>2, <3>3, BetweenKeeps
  <2>5. CASE \E i \in ItemIds : <<i, "RUNNING">> \in d.out /\ Starts(i)
    <3>1. PICK i \in ItemIds : <<i, "RUNNING">> \in d.out /\ Starts(i)
      BY <2>5
    <3>2. sched'.running # S!Idle /\ mem'.versions[i] \in Versions
      BY <2>2, <3>1
    <3> QED BY <1>1, <2>2, <3>1, <3>2, StartsKeeps
  <2> QED BY <2>3, <2>4, <2>5
<1> QED BY <1>5, <1>6

\* authorize_call: granted or not, the slot keeps its item.
LEMMA AuthorizeKeeps ==
    ASSUME WorkerIInv, NEW prompt \in PromptBounds, authorize(prompt)
    PROVE  LedgerStep /\ WorkerIInv'
<1>1. pc = "attempts" /\ UNCHANGED <<now, ledgerVars, active, made>> /\ UNCHANGED <<now, ledgerVars>>
  BY DEF authorize
<1>2. pc \in Leased /\ pc \in Working
  BY <1>1 DEF Leased, Working
<1>3. job \in Item /\ job.lease \in leases
  BY <1>2, LeaseKnown
<1>4. LedgerStep /\ LedgerOK'
  BY <1>1, NoLedgerStep, LedgerGoes
<1>5. sched.running # S!Idle /\ mem.pending_fail = None
  BY <1>2 DEF WorkerIInv, SlotFits
<1>6. PICK i \in ItemIds : i = sched.running.version.item_id
  BY <1>5, SlotItem
<1>7. Story /\ now \in Times /\ job.repair \in BOOLEAN
  BY <1>3 DEF WorkerIInv, LedgerOK, L!TypeOK, Item
<1>8. CASE ~ClockOK
  <2>1. GiveUp(FALSE) /\ UNCHANGED <<sched, active, mem, sinkVars, made>>
    BY <1>1, <1>8 DEF authorize
  <2>2. pc' = "abandon" /\ job' \in Item /\ job'.lease = job.lease
    BY <1>2, <2>1, GivesUp
  <2>3. JobFits'
    BY <1>2, <1>4, <2>2, JobKept DEF Working, Leased
  <2>4. SameSide
    BY <1>1, <2>2 DEF SameSide, Between, Working, Leased, Toward, Leaving
  <2> QED BY <1>4, <2>1, <2>2, <2>3, <2>4, PlaceMoves
<1>9. CASE ClockOK
  <2>1. /\ sched' = S!AuthorizeCall(sched, i, TRUE, job.repair, prompt, now).s
        /\ Emit(mem, S!AuthorizeCall(sched, i, TRUE, job.repair, prompt, now).out, {}, 0)
        /\ \/ pc' = "record" /\ job' = [job EXCEPT !.call_deadline = now + HardTimeout]
           \/ GiveUp(FALSE)
    BY <1>6, <1>9 DEF authorize
  <2>2. Story' /\ SameFlags(mem', mem) /\ Publications' = Publications /\ S!SlotKept(sched, sched')
    BY <1>7, <2>1, AuthorizeStory
  <2>3. pc' \in {"record", "abandon"} /\ job' \in Item /\ job'.lease = job.lease
    <3>1. CASE pc' = "record" /\ job' = [job EXCEPT !.call_deadline = now + HardTimeout]
      <4>1. Times \subseteq Nat /\ HardTimeout \in Nat
        BY Assumed DEF S!SchedulerAssumption
      <4>2. PICK n \in Nat : n = now + HardTimeout
        BY <1>7, <4>1
      <4>3. job' = [job EXCEPT !.call_deadline = n]
        BY <3>1, <4>2
      <4>4. job' \in Item /\ job'.lease = job.lease
        BY <1>3, <4>3 DEF Item
      <4> QED BY <3>1, <4>4
    <3>2. CASE GiveUp(FALSE)
      BY <1>2, <3>2, GivesUp
    <3> QED BY <2>1, <3>1, <3>2
  <2>4. JobFits'
    <3>1. pc' \in Working \ {"claim"}
      BY <2>3 DEF Working, Leased
    <3> QED BY <1>2, <1>4, <2>3, <3>1, JobKept
  <2>5. SlotFits'
    BY <1>5, <2>2, <2>3 DEF SlotFits, Between, Working, Leased, SameFlags, S!SlotKept
  <2>6. CallFits'
    BY <1>1, <2>2, <2>3 DEF WorkerIInv, CallFits, SameFlags
  <2>7. PaidFor' /\ PublicationsFit'
    <3>1. pc' \notin {"call", "publish"} /\ made' = made
      BY <1>1, <2>3
    <3> QED BY <1>4, <2>2, <3>1, ThreadMoves
  <2> QED BY <1>4, <2>2, <2>4, <2>5, <2>6, <2>7 DEF WorkerIInv
<1> QED BY <1>8, <1>9

\* A committed result is published once, under its invocation.
LEMMA PublishesOnce ==
    ASSUME WorkerIInv, UNCHANGED ledgerVars, NEW publication, Publications' = Publications \cup publication,
           \/ publication = {}
           \/ /\ pc = "publish"
              /\ \E i \in ItemIds : publication = {<<i, job.lease.invocation_id>>}
    PROVE  Publications' \subseteq ItemIds \X Ids /\ PublishedIsCommitted'
<1>1. Publications \subseteq ItemIds \X Ids /\ PublishedIsCommitted
  BY DEF WorkerIInv, PublicationsFit
<1>2. rows' = rows
  BY DEF ledgerVars
<1>3. CASE publication = {}
  <2>1. Publications' = Publications
    BY <1>3
  <2> QED BY <1>1, <1>2, <2>1 DEF PublishedIsCommitted
<1>4. CASE /\ pc = "publish"
           /\ \E i \in ItemIds : publication = {<<i, job.lease.invocation_id>>}
  <2>1. PICK i \in ItemIds : publication = {<<i, job.lease.invocation_id>>}
    BY <1>4
  <2>2. PICK k \in Ids : k = job.lease.invocation_id
    BY <1>4, LeaseKnown DEF Leased
  <2>3. rows[k].state = "COMPLETED" /\ \A p \in Publications : p[2] # k
    BY <1>4, <2>2 DEF WorkerIInv, PublicationsFit
  <2>4. Publications' = Publications \cup {<<i, k>>}
    BY <2>1, <2>2
  <2>5. /\ \A p \in Publications : rows[p[2]].state = "COMPLETED"
        /\ \A p, q \in Publications : p[2] = q[2] => p = q
    BY <1>1 DEF PublishedIsCommitted
  <2>6. PublishedIsCommitted'
    BY <1>2, <2>3, <2>4, <2>5 DEF PublishedIsCommitted
  <2> QED BY <1>1, <2>4, <2>6
<1> QED BY <1>3, <1>4

\* scheduler.complete, with the publication in the same batch.
LEMMA CompleteItemKeeps ==
    ASSUME WorkerIInv, CompleteItem
    PROVE  LedgerStep /\ WorkerIInv'
<1>1. /\ pc \in {"publish", "discard"} /\ pc' = "loop" /\ UNCHANGED <<now, ledgerVars, active, made>>
  BY DEF CompleteItem
<1>2. sched.running # S!Idle /\ mem.pending_fail = None
  BY <1>1 DEF WorkerIInv, SlotFits, Working, Leased
<1>3. PICK i \in ItemIds : i = sched.running.version.item_id /\ i # None
  BY <1>2, SlotItem
<1>4. Story /\ now \in Times /\ mem \in WorkerMemory
  BY DEF WorkerIInv, LedgerOK, L!TypeOK, Story
<1>5. LedgerStep /\ LedgerOK'
  BY <1>1, NoLedgerStep, LedgerGoes
<1>6. PICK publication :
        publication = IF pc = "publish" /\ <<i, "COMPLETED">> \in S!Finish(sched, "COMPLETED", now).out
                      THEN {<<i, job.lease.invocation_id>>} ELSE {}
  OBVIOUS
<1>7. \/ publication = {}
      \/ pc = "publish" /\ \E k \in ItemIds : publication = {<<k, job.lease.invocation_id>>}
  BY <1>6
<1>8. publication \in SUBSET (ItemIds \X Ids)
  <2>1. job.lease.invocation_id \in Ids
    BY <1>1, LeaseKnown DEF Leased
  <2> QED BY <1>6, <2>1
<1>9. CASE ClockOK
  <2>1. /\ sched' = S!Finish(sched, "COMPLETED", now).s
        /\ Emit(mem, S!Finish(sched, "COMPLETED", now).out, publication, 0)
    BY <1>3, <1>6, <1>9 DEF CompleteItem
  <2>2. "COMPLETED" \in {"COMPLETED", "FAILED"} /\ 0 \in Nat
    OBVIOUS
  <2>3. /\ Story' /\ SameFlags(mem', mem) /\ Publications' = Publications \cup publication
        /\ sched'.running = S!Idle
    BY <1>2, <1>4, <1>8, <2>1, <2>2, FinishStory
  <2>4. SlotFits'
    BY <1>1, <1>2, <2>3 DEF SlotFits, Between, Working, Leased, SameFlags
  <2>5. JobFits'
    BY <1>1 DEF JobFits, Between, Working, Leased
  <2>6. CallFits'
    BY <1>1, <2>3 DEF WorkerIInv, CallFits, SameFlags
  <2>7. PaidFor'
    BY <1>1, <1>5, ThreadMoves
  <2>8. Publications' \subseteq ItemIds \X Ids /\ PublishedIsCommitted'
    BY <1>1, <1>7, <2>3, PublishesOnce
  <2>9. PublicationsFit'
    BY <1>1, <2>8 DEF PublicationsFit
  <2> QED BY <1>5, <2>3, <2>4, <2>5, <2>6, <2>7, <2>9 DEF WorkerIInv
<1>10. CASE ~ClockOK
  <2>1. mem' = [mem EXCEPT !.pending_fail = i] /\ UNCHANGED <<sched, sinkVars>>
    BY <1>3, <1>10 DEF CompleteItem
  <2>2. /\ mem' \in WorkerMemory /\ mem'.pending = mem.pending /\ mem'.versions = mem.versions
        /\ mem'.pending_fail = i /\ mem'.stop = mem.stop /\ mem'.restart_required = mem.restart_required
        /\ mem'.failures = mem.failures /\ mem'.disabled = mem.disabled
    BY <1>4, <2>1 DEF WorkerMemory
  <2>3. Story' /\ Publications' = Publications
    BY <1>4, <2>1, <2>2, FlagsStory
  <2>4. SlotFits'
    BY <1>1, <1>2, <1>3, <2>1, <2>2 DEF SlotFits, Between, Working, Leased
  <2> QED BY <1>1, <2>2, <2>3, <2>4, BetweenKeeps
<1> QED BY <1>9, <1>10

-----------------------------------------------------------------------------
(* The theorems.                                                            *)

\* A system that starts has the invariant.
LEMMA WorkerInitSound == WorkerInit => WorkerIInv
<1> SUFFICES ASSUME WorkerInit PROVE WorkerIInv
  OBVIOUS
<1>1. /\ L!Init /\ now \in Times /\ sched = S!EmptySchedule /\ mem = FreshMemory /\ published = {}
      /\ pc = "recover" /\ active = NoCall /\ durable = [i \in ItemIds |-> "OUT"] /\ made = [i \in Ids |-> 0]
  BY DEF WorkerInit
<1>2. LedgerOK
  <2>1. L!TypeOK
    BY <1>1 DEF L!Init, L!TypeOK
  <2>2. L!GenerationsUnique
    BY <1>1 DEF L!Init, L!GenerationsUnique
  <2> QED BY <2>1, <2>2 DEF LedgerOK
<1>3. Story
  BY <1>1, FreshStory DEF FreshProcess
<1>4. JobFits
  BY <1>1 DEF JobFits, Between, Working, Leased
<1>5. /\ mem.pending_fail = None /\ mem.stop = FALSE /\ mem.restart_required = FALSE
      /\ mem.failures = 0 /\ mem.disabled = FALSE /\ mem.pending = <<>> /\ sched.running = S!Idle
  BY <1>1, Assumed, S!EmptySound DEF FreshMemory
<1>6. SlotFits
  BY <1>1, <1>5 DEF SlotFits, Between, Working, Leased
<1>7. CallFits
  <2>1. MaxFailures # 0
    BY Assumed
  <2> QED BY <1>1, <1>5, <2>1 DEF CallFits
<1>8. PaidFor
  BY <1>1 DEF PaidFor, CallsCovered
<1>9. PublicationsFit
  <2>1. Publications = {}
    BY <1>1, <1>5 DEF Publications
  <2> QED BY <1>1, <2>1 DEF PublicationsFit, PublishedIsCommitted
<1> QED BY <1>2, <1>3, <1>4, <1>6, <1>7, <1>8, <1>9 DEF WorkerIInv

\* Every step of every actor keeps the invariant and is, for the ledger, one
\* of its own steps or none.
LEMMA WorkerStepSound == WorkerIInv /\ [WorkerNext]_workerVars => LedgerStep /\ WorkerIInv'
<1> SUFFICES ASSUME WorkerIInv, [WorkerNext]_workerVars PROVE LedgerStep /\ WorkerIInv'
  OBVIOUS
<1>1. CASE ThreadStep
  <2>1. CASE RecoverTakes
    BY <2>1, RecoverTakesKeeps
  <2>2. CASE RecoverEnds
    BY <2>2, RecoverEndsKeeps
  <2>3. CASE ReleaseRecovered
    BY <2>3, ReleaseRecoveredKeeps
  <2>4. CASE Loop
    BY <2>4, LoopKeeps
  <2>5. CASE NextRefused
    BY <2>5, NextRefusedKeeps
  <2>6. CASE RetryFail
    BY <2>6, RetryFailKeeps
  <2>7. CASE Dispatch
    BY <2>7, DispatchKeeps
  <2>8. CASE EndItem
    BY <2>8, EndItemKeeps
  <2>9. CASE ComputeLease
    BY <2>9, ComputeLeaseKeeps
  <2>10. CASE ClaimFails
    BY <2>10, ClaimFailsKeeps
  <2>11. CASE ClaimWins
    BY <2>11, ClaimWinsKeeps
  <2>12. CASE NoAttempt
    BY <2>12, NoAttemptKeeps
  <2>13. CASE \E prompt \in PromptBounds : authorize(prompt)
    BY <2>13, AuthorizeKeeps
  <2>14. CASE RecordAttempt
    BY <2>14, RecordAttemptKeeps
  <2>15. CASE BeginCall
    BY <2>15, BeginCallKeeps
  <2>16. CASE Abandon \/ ReleaseLate
    BY <2>16, AbandonKeeps
  <2>17. CASE Commit
    BY <2>17, CommitKeeps
  <2>18. CASE CompleteLedger
    BY <2>18, CompleteLedgerKeeps
  <2>19. CASE CompleteItem
    BY <2>19, CompleteItemKeeps
  <2> QED BY <1>1, <2>1, <2>2, <2>3, <2>4, <2>5, <2>6, <2>7, <2>8, <2>9, <2>10, <2>11, <2>12, <2>13,
             <2>14, <2>15, <2>16, <2>17, <2>18, <2>19 DEF ThreadStep
<1>2. CASE \E answer \in Answers : CallReturns(answer)
  BY <1>2, CallReturnsKeeps
<1>3. CASE \E v \in Versions : submit(v)
  BY <1>3, SubmitKeeps
<1>4. CASE SubmitRefused
  BY <1>4, SubmitRefusedKeeps
<1>5. CASE review_profile
  BY <1>5, ReviewKeeps
<1>6. CASE request_stop
  BY <1>6, StopKeeps
<1>7. CASE Elapse
  BY <1>7, ElapseKeeps
<1>8. CASE watchdog_tick
  BY <1>8, WatchdogKeeps
<1>9. CASE Restart
  BY <1>9, RestartKeeps
<1>10. CASE OtherRecovers \/ Clock
  BY <1>10, OtherKeeps
<1>11. CASE UNCHANGED workerVars
  <2>1. UNCHANGED <<now, ledgerVars>> /\ UNCHANGED <<sched, pc, job, active, mem, sinkVars, made>>
    BY <1>11 DEF workerVars, ledgerVars, sinkVars
  <2> QED BY <2>1, NoLedgerStep, LedgerKeeps
<1> QED BY <1>1, <1>2, <1>3, <1>4, <1>5, <1>6, <1>7, <1>8, <1>9, <1>10, <1>11 DEF WorkerNext

\* The inductive invariant says what the runs check.
LEMMA WorkerInvFollows == WorkerIInv => WorkerInv
<1> SUFFICES ASSUME WorkerIInv PROVE WorkerInv
  OBVIOUS
<1>1. Story /\ JobFits /\ SlotFits /\ CallFits /\ PaidFor /\ PublicationsFit
  BY DEF WorkerIInv
<1>2. mem \in WorkerMemory /\ S!Placed(sched, View) /\ VersionsFit(sched, mem.versions)
  BY <1>1 DEF Story
<1>3. WorkerTypeOK
  <2>1. mem.versions \in [ItemIds -> Versions \cup {NoVersion}]
    BY <1>2 DEF WorkerMemory
  <2>2. mem.pending_fail \in ItemIds \cup {None} /\ mem.failures \in 0..MaxFailures
    BY <1>2 DEF WorkerMemory
  <2>3. pc \in Between \cup Working
    BY <1>1 DEF JobFits
  <2>4. /\ active = NoCall \/ active \in ActiveCall
        /\ active # NoCall <=> pc = "calling"
        /\ mem.disabled <=> mem.failures = MaxFailures
    BY <1>1 DEF CallFits
  <2>5. Publications \subseteq ItemIds \X Ids /\ made \in [Ids -> Nat]
    BY <1>1 DEF PublicationsFit, PaidFor
  <2> QED BY <2>1, <2>2, <2>3, <2>4, <2>5 DEF WorkerTypeOK, Between, Working, Leased, ActiveCall
<1>4. CallsCovered /\ StopCancelsCall /\ PublishedIsCommitted
  BY <1>1 DEF PaidFor, CallFits, StopCancelsCall, PublicationsFit
<1>5. SlotAccounted
  BY <1>1 DEF SlotFits, SlotAccounted, Between
<1>6. RecordsMatchScheduler
  BY <1>2 DEF RecordsMatchScheduler, S!Placed, S!Runs
<1>7. VersionsMatchScheduler
  BY <1>2 DEF VersionsMatchScheduler, VersionsFit, S!Runs
<1> QED BY <1>3, <1>4, <1>5, <1>6, <1>7 DEF WorkerInv

\* worker.py: whatever the collector, the watchdog, the operator, rival
\* processes, crashes and raising calls do between two steps of the thread, the
\* scheduler, the versions kept and the sink tell one story, the slot is
\* accounted for, calls are paid for, and what is published was committed, once.
THEOREM WorkerSound == WorkerSpec => []WorkerInv
<1>1. WorkerInit => WorkerIInv
  BY WorkerInitSound
<1>2. WorkerIInv /\ [WorkerNext]_workerVars => WorkerIInv'
  BY WorkerStepSound
<1>3. WorkerIInv => WorkerInv
  BY WorkerInvFollows
<1> QED BY <1>1, <1>2, <1>3, PTL DEF WorkerSpec

\* The worker, its rivals and its crashes use the ledger only through its
\* operations, with leases it was handed: every behaviour of the composed
\* system is one of the ledger (InvocationLedger), whose theorems hold of it.
THEOREM WorkerUsesLedger == WorkerSpec => L!Spec
<1>1. WorkerInit => WorkerIInv /\ L!Init
  BY WorkerInitSound DEF WorkerInit
<1>2. WorkerIInv /\ [WorkerNext]_workerVars => WorkerIInv' /\ [L!Next]_(L!vars)
  BY WorkerStepSound DEF LedgerStep
<1> QED BY <1>1, <1>2, PTL DEF WorkerSpec, L!Spec

-----------------------------------------------------------------------------
(* After a request to terminate.                                            *)

\* Nothing is published, started or called.
Quietens ==
    /\ sched'.running \in {sched.running, S!Idle} \/ sched'.running.aborted
    /\ made' = made
    /\ Publications' \subseteq Publications

\* What is pending, accepted, scheduled and called stays.
LEMMA NothingMoves ==
    ASSUME sched' = sched, made' = made, published' = published, mem'.pending = mem.pending
    PROVE  Quietens
BY DEF Quietens, Publications

\* A step of the worker thread towards the exit.
LEMMA ThreadQuietens ==
    ASSUME WorkerIInv, mem.restart_required, ThreadStep
    PROVE  Quietens
<1>1. pc \in {"calling", "abandon", "failing", "loop", "next", "exited"}
  BY DEF WorkerIInv, CallFits
<1>2. CASE Loop \/ Abandon
  <2>1. UNCHANGED <<sched, mem, sinkVars, made>>
    BY <1>2 DEF Loop, Abandon
  <2> QED BY <2>1, NothingMoves DEF sinkVars
<1>3. CASE NextRefused
  <2>1. UNCHANGED <<sched, mem, sinkVars, made>>
    BY <1>3 DEF NextRefused, MustRestart
  <2> QED BY <2>1, NothingMoves DEF sinkVars
<1>4. CASE EndItem
  <2>1. FailItem(mem, 0) /\ made' = made /\ pc \in {"refuse", "failing"}
    BY <1>4 DEF EndItem
  <2>2. mem \in WorkerMemory /\ 0 \in 0..Len(mem.pending)
    BY DEF WorkerIInv, Story, WorkerMemory
  <2>3. sched.running # S!Idle /\ mem.pending_fail = None
    BY <2>1 DEF WorkerIInv, SlotFits, Working
  <2>4. /\ Publications' = Publications
        /\ ClockOK => sched'.running = S!Idle
        /\ ~ClockOK => sched' = sched
    BY <2>1, <2>2, <2>3, FailItemStory
  <2> QED BY <2>1, <2>4 DEF Quietens
<1>5. pc \notin {"recover", "releasing", "dispatch", "refuse", "lease", "claim", "attempts", "record", "call",
                 "commit", "late", "discard", "complete", "publish"}
  BY <1>1
<1>6. ~(RecoverTakes \/ RecoverEnds \/ ReleaseRecovered \/ ComputeLease \/ ClaimFails \/ ClaimWins)
  BY <1>5 DEF RecoverTakes, RecoverEnds, ReleaseRecovered, ComputeLease, ClaimFails, ClaimWins
<1>7. ~(RetryFail \/ Dispatch \/ NoAttempt \/ \E prompt \in PromptBounds : authorize(prompt))
  BY <1>5 DEF RetryFail, Dispatch, MustRestart, NoAttempt, authorize
<1>8. ~(RecordAttempt \/ BeginCall \/ Commit \/ ReleaseLate \/ CompleteLedger \/ CompleteItem)
  BY <1>5 DEF RecordAttempt, BeginCall, Commit, ReleaseLate, CompleteLedger, CompleteItem
<1> QED BY <1>2, <1>3, <1>4, <1>6, <1>7, <1>8 DEF ThreadStep

\* No step of any actor after the request does any of it.
LEMMA TerminationQuietens ==
    WorkerIInv /\ [WorkerNext]_workerVars => (mem.restart_required /\ mem'.restart_required => Quietens)
<1> SUFFICES ASSUME WorkerIInv, [WorkerNext]_workerVars, mem.restart_required, mem'.restart_required
             PROVE  Quietens
  OBVIOUS
<1>1. mem \in WorkerMemory
  BY DEF WorkerIInv, Story
<1>2. CASE ThreadStep
  BY <1>2, ThreadQuietens
<1>3. ASSUME NEW answer \in Answers, CallReturns(answer) PROVE Quietens
  <2>1. pc = "calling" /\ UNCHANGED <<sched, sinkVars>> /\ made' = made /\ (mem' = mem \/ RecordFailure)
    BY <1>3, CallLeaves
  <2>2. ~mem.disabled
    BY <2>1 DEF WorkerIInv, CallFits
  <2>3. mem'.pending = mem.pending
    BY <2>1, <2>2, FailureCounts
  <2> QED BY <2>1, <2>3, NothingMoves DEF sinkVars
<1>4. ~(\E v \in Versions : submit(v)) /\ ~SubmitRefused
  BY DEF submit, SubmitRefused
<1>5. CASE review_profile
  <2>1. mem' = [mem EXCEPT !.disabled = FALSE, !.failures = 0] /\ UNCHANGED <<sched, sinkVars, made>>
    BY <1>5 DEF review_profile
  <2>2. mem'.pending = mem.pending
    BY <1>1, <2>1 DEF WorkerMemory
  <2> QED BY <2>1, <2>2, NothingMoves DEF sinkVars
<1>6. CASE request_stop
  <2>1. mem' = [mem EXCEPT !.stop = TRUE] /\ UNCHANGED <<sched, sinkVars, made>>
    BY <1>6 DEF request_stop
  <2>2. mem'.pending = mem.pending
    BY <1>1, <2>1 DEF WorkerMemory
  <2> QED BY <2>1, <2>2, NothingMoves DEF sinkVars
<1>7. CASE watchdog_tick
  <2>1. /\ mem' = [mem EXCEPT !.restart_required = @ \/ active.phase = "beyond"]
        /\ UNCHANGED <<sched, sinkVars, made>>
    BY <1>7 DEF watchdog_tick
  <2>2. mem'.pending = mem.pending
    BY <1>1, <2>1 DEF WorkerMemory
  <2> QED BY <2>1, <2>2, NothingMoves DEF sinkVars
<1>8. ~Restart
  BY DEF Restart, FreshMemory
<1>9. CASE Elapse \/ OtherRecovers \/ Clock \/ UNCHANGED workerVars
  <2>1. UNCHANGED <<sched, mem, sinkVars, made>>
    BY <1>9 DEF Elapse, OtherRecovers, Clock, workerVars, sinkVars
  <2> QED BY <2>1, NothingMoves DEF sinkVars
<1> QED BY <1>2, <1>3, <1>4, <1>5, <1>6, <1>7, <1>8, <1>9 DEF WorkerNext

\* watchdog_tick: once termination was asked for, no late reply is published,
\* no item starts and no call begins, whatever the thread was doing.
THEOREM TerminationIsFinal == WorkerSpec => NothingAfterTermination
<1>1. WorkerInit => WorkerIInv
  BY WorkerInitSound
<1>2. WorkerIInv /\ [WorkerNext]_workerVars => WorkerIInv'
  BY WorkerStepSound
<1>3. WorkerIInv /\ [WorkerNext]_workerVars =>
        [mem.restart_required /\ mem'.restart_required =>
           /\ sched'.running \in {sched.running, S!Idle}
              \/ sched'.running.aborted
           /\ made' = made
           /\ Publications' \subseteq Publications]_workerVars
  BY TerminationQuietens DEF Quietens
<1> QED BY <1>1, <1>2, <1>3, PTL DEF WorkerSpec, NothingAfterTermination

\* The composed system keeps the ledger's promises: one active invocation per
\* identity, no window over its limit, counters that add up, a generation
\* handed out once and stale holders fenced.
THEOREM WorkerKeepsLedger ==
    WorkerSpec => /\ []L!OneActivePerIdentity /\ []L!ReservedWithinLimits
                  /\ []L!CountersAddUp /\ []L!GenerationsUnique /\ L!StaleHolderFenced
<1>1. L!Spec => []L!OneActivePerIdentity
  BY Assumed, L!OneActive
<1>2. L!Spec => []L!ReservedWithinLimits
  BY Assumed, L!BudgetHolds
<1>3. L!Spec => []L!CountersAddUp
  BY Assumed, L!CountersSound
<1>4. L!Spec => []L!GenerationsUnique
  BY Assumed, L!OneHolderPerGeneration
<1>5. L!Spec => L!StaleHolderFenced
  BY Assumed, L!Fencing
<1> QED BY <1>1, <1>2, <1>3, <1>4, <1>5, WorkerUsesLedger, PTL

=============================================================================
