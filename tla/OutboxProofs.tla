---------------------------- MODULE OutboxProofs ----------------------------
(* What holds of the delivery outbox for every number of events, items,      *)
(* handoffs and readers, every read limit and every bound: OutboxInv is      *)
(* carried by the inductive invariant OutboxIInv, which adds the shape of    *)
(* rows and batches and where a line of the export file may begin; and that  *)
(* the outbox implements DeliveryLog, by FileInOrder.                        *)
EXTENDS Outbox, FiniteSetTheorems, TLAPS

-----------------------------------------------------------------------------
(* Lemmas about the operators the outbox is built from.                      *)

(* The largest number of an interval.                                        *)
LEMMA MaxOfInterval ==
    ASSUME NEW a \in Int, NEW b \in Int, a <= b
    PROVE  Max(a..b) = b
<1>1. b \in a..b /\ \A y \in a..b : b >= y
  OBVIOUS
<1>2. \A x \in a..b : (\A y \in a..b : x >= y) => x = b
  OBVIOUS
<1> QED BY <1>1, <1>2 DEF Max

(* SetToSeq lists every element of a finite set once.                        *)
LEMMA ListedOnce ==
    ASSUME NEW S, IsFiniteSet(S)
    PROVE  /\ Cardinality(S) \in Nat
           /\ SetToSeq(S) \in [1..Cardinality(S) -> S]
           /\ \A i, j \in 1..Cardinality(S) : SetToSeq(S)[i] = SetToSeq(S)[j] => i = j
           /\ \A x \in S : \E i \in 1..Cardinality(S) : SetToSeq(S)[i] = x
<1>1. Cardinality(S) \in Nat /\ ExistsBijection(1..Cardinality(S), S)
  BY FS_CardinalityType
<1> DEFINE D == 1..Cardinality(S)
<1>2. PICK g \in [D -> S] : \A i, j \in D : g[i] = g[j] => i = j
  BY <1>1 DEF ExistsBijection, Bijection, Injection, IsInjective
<1>3. \E f \in [D -> S] : IsInjective(f)
  BY <1>2 DEF IsInjective
<1>4. SetToSeq(S) \in [D -> S] /\ IsInjective(SetToSeq(S))
  BY <1>3 DEF SetToSeq
<1>5. SetToSeq(S) \in Injection(D, S)
  BY <1>4 DEF Injection, IsInjective
<1>6. IsFiniteSet(D) /\ Cardinality(D) = Cardinality(S)
  BY <1>1, FS_Interval
<1>7. SetToSeq(S) \in Surjection(D, S)
  BY <1>5, <1>6, FS_Injection
<1> QED BY <1>1, <1>4, <1>7 DEF IsInjective, Surjection

(* An interval from one counts itself.                                       *)
LEMMA UptoCounted == ASSUME NEW c \in Nat PROVE IsFiniteSet(1..c) /\ Cardinality(1..c) = c
BY FS_Interval

(* The rows of one subject are as many as there are rows, at most.           *)
LEMMA SeqsCounted ==
    ASSUME NEW R, NEW log \in Seq(R), NEW kind, NEW subject
    PROVE  /\ IsFiniteSet(SeqsOf(log, kind, subject))
           /\ Cardinality(SeqsOf(log, kind, subject)) \in 0..Len(log)
<1>1. SeqsOf(log, kind, subject) \subseteq 1..Len(log) /\ Len(log) \in Nat
  BY DEF SeqsOf
<1>2. IsFiniteSet(1..Len(log)) /\ Cardinality(1..Len(log)) = Len(log)
  BY <1>1, UptoCounted
<1> QED BY <1>1, <1>2, FS_Subset, FS_CardinalityType

(* Counting the members up to n ranks a finite set of numbers: each member   *)
(* is the Nth for one j.                                                     *)
LEMMA NthRanks ==
    ASSUME NEW S \in SUBSET Nat, IsFiniteSet(S)
    PROVE  /\ Cardinality(S) \in Nat
           /\ \A n \in S : \E j \in 1..Cardinality(S) : Nth(S, j) = n
           /\ \A j \in 1..Cardinality(S) : Nth(S, j) \in S
<1> DEFINE Upto(n) == {m \in S : m <= n}
           rank == [n \in S |-> Cardinality(Upto(n))]
           D == 1..Cardinality(S)
<1>1. Cardinality(S) \in Nat
  BY FS_CardinalityType
<1>2. ASSUME NEW n \in S PROVE Cardinality(Upto(n)) \in D
  <2>1. Upto(n) \subseteq S /\ n \in Upto(n)
    OBVIOUS
  <2>2. IsFiniteSet(Upto(n)) /\ Cardinality(Upto(n)) <= Cardinality(S)
    BY <2>1, FS_Subset
  <2>3. Cardinality(Upto(n)) \in Nat /\ Cardinality(Upto(n)) # 0
    BY <2>1, <2>2, FS_CardinalityType, FS_EmptySet
  <2> QED BY <1>1, <2>2, <2>3
<1>3. ASSUME NEW n \in S, NEW k \in S, n < k PROVE Cardinality(Upto(n)) < Cardinality(Upto(k))
  <2>0. k \in Upto(k) /\ k \notin Upto(n)
    BY <1>3
  <2>1. Upto(n) \subseteq Upto(k) /\ Upto(k) \subseteq S
    <3>1. ASSUME NEW m \in S, m <= n PROVE m <= k
      <4>1. m \in Int /\ n \in Int /\ k \in Int OBVIOUS
      <4> QED BY <1>3, <3>1, <4>1
    <3> QED BY <3>1
  <2>4. Upto(n) # Upto(k)
    BY <2>0
  <2>2. IsFiniteSet(Upto(k))
    BY <2>1, FS_Subset
  <2>3. Cardinality(Upto(n)) <= Cardinality(Upto(k)) /\ Cardinality(Upto(n)) # Cardinality(Upto(k))
    BY <2>1, <2>2, <2>4, FS_Subset
  <2> QED BY <1>2, <2>3
<1>4. \A n, k \in S : Cardinality(Upto(n)) = Cardinality(Upto(k)) => n = k
  <2> SUFFICES ASSUME NEW n \in S, NEW k \in S, Cardinality(Upto(n)) = Cardinality(Upto(k)), n # k PROVE FALSE
    OBVIOUS
  <2>1. n < k \/ k < n OBVIOUS
  <2> QED BY <2>1, <1>3, <1>2
<1>5. rank \in Injection(S, D)
  <2>1. rank \in [S -> D]
    BY <1>2
  <2>2. \A n, k \in S : rank[n] = rank[k] => n = k
    BY <1>4
  <2> QED BY <2>1, <2>2 DEF Injection, IsInjective
<1>6. IsFiniteSet(D) /\ Cardinality(D) = Cardinality(S)
  BY <1>1, FS_Interval
<1>7. rank \in Surjection(S, D)
  BY <1>5, <1>6, FS_Injection
<1>8. ASSUME NEW n \in S PROVE Nth(S, Cardinality(Upto(n))) = n
  BY <1>4 DEF Nth
<1>9. ASSUME NEW j \in D PROVE Nth(S, j) \in S
  <2>1. PICK n \in S : rank[n] = j
    BY <1>7 DEF Surjection
  <2> QED BY <2>1, <1>8
<1> QED BY <1>1, <1>2, <1>8, <1>9

-----------------------------------------------------------------------------
(* Lemmas about the export file.                                             *)

Pieces == (Nat \X {1, 2}) \cup {Newline}

(* A record begins a line, wherever files were torn and cut.                 *)
StartsLines(f) == \A k \in DOMAIN f : f[k][2] = 1 => k = 1 \/ f[k - 1] = Newline

(* A line has two pieces and its newline.                                    *)
LEMMA PieceOfLine ==
    ASSUME NEW n
    PROVE  Line(n)[1] = <<n, 1>> /\ Line(n)[2] = <<n, 2>> /\ Line(n)[3] = Newline
BY DEF Line

(* The lines of a set of rows are whole, and there is one for each.          *)
LEMMA LinesWhole ==
    ASSUME NEW S \in SUBSET Nat, IsFiniteSet(S)
    PROVE  /\ LinesOf(S) \in Seq((S \X {1, 2}) \cup {Newline})
           /\ StartsLines(LinesOf(S))
           /\ \A n \in S : \E p \in 1..Len(LinesOf(S)) :
                 /\ p + 2 <= Len(LinesOf(S))
                 /\ LinesOf(S)[p] = <<n, 1>> /\ LinesOf(S)[p + 1] = <<n, 2>> /\ LinesOf(S)[p + 2] = Newline
<1> DEFINE c == Cardinality(S)
           L == LinesOf(S)
<1>1. c \in Nat /\ \A j \in 1..c : Nth(S, j) \in S
  BY NthRanks
<1>2. L = [p \in 1..3 * c |-> Line(Nth(S, (p + 2) \div 3))[1 + ((p + 2) % 3)]]
  BY DEF LinesOf
<1> HIDE DEF c, L
<1>3. ASSUME NEW p \in 1..3 * c
      PROVE  /\ (p + 2) \div 3 \in 1..c
             /\ (p + 2) % 3 \in 0..2
             /\ (p + 2) % 3 = 0 => p = 1 \/ (p - 1 \in 1..3 * c /\ (p + 1) % 3 = 2)
  BY <1>1
<1>4. ASSUME NEW p \in 1..3 * c
      PROVE  \/ (p + 2) % 3 = 0 /\ L[p] = <<Nth(S, (p + 2) \div 3), 1>>
             \/ (p + 2) % 3 = 1 /\ L[p] = <<Nth(S, (p + 2) \div 3), 2>>
             \/ (p + 2) % 3 = 2 /\ L[p] = Newline
  <2>1. L[p] = Line(Nth(S, (p + 2) \div 3))[1 + ((p + 2) % 3)]
    BY <1>2
  <2>2. (p + 2) % 3 = 0 \/ (p + 2) % 3 = 1 \/ (p + 2) % 3 = 2
    BY <1>3
  <2> QED BY <2>1, <2>2, PieceOfLine
<1>5. L \in Seq((S \X {1, 2}) \cup {Newline}) /\ Len(L) = 3 * c /\ DOMAIN L = 1..3 * c
  <2>1. \A p \in 1..3 * c : L[p] \in (S \X {1, 2}) \cup {Newline}
    <3> SUFFICES ASSUME NEW p \in 1..3 * c PROVE L[p] \in (S \X {1, 2}) \cup {Newline}
      OBVIOUS
    <3>1. Nth(S, (p + 2) \div 3) \in S
      BY <1>1, <1>3
    <3>2. \E n \in S : L[p] \in {<<n, 1>>, <<n, 2>>, Newline}
      BY <1>4, <3>1
    <3> QED BY <3>2
  <2> QED BY <1>1, <1>2, <2>1
<1>6. StartsLines(L)
  <2> SUFFICES ASSUME NEW p \in 1..3 * c, L[p][2] = 1 PROVE p = 1 \/ L[p - 1] = Newline
    BY <1>5 DEF StartsLines
  <2>1. (p + 2) % 3 = 0
    BY <1>4 DEF Newline
  <2>2. CASE p # 1
    <3>1. p - 1 \in 1..3 * c /\ ((p - 1) + 2) % 3 = 2
      BY <1>3, <2>1, <2>2
    <3> QED BY <3>1, <1>4
  <2> QED BY <2>2
<1>7. ASSUME NEW n \in S
      PROVE  \E p \in 1..3 * c : p + 2 <= 3 * c /\ L[p] = <<n, 1>> /\ L[p + 1] = <<n, 2>> /\ L[p + 2] = Newline
  <2>1. PICK j \in 1..c : Nth(S, j) = n
    BY NthRanks DEF c
  <2> DEFINE p == 3 * j - 2
  <2>2. p \in 1..3 * c /\ p + 1 \in 1..3 * c /\ p + 2 \in 1..3 * c
    BY <1>1
  <2>3. /\ (p + 2) \div 3 = j /\ (p + 2) % 3 = 0
        /\ ((p + 1) + 2) \div 3 = j /\ ((p + 1) + 2) % 3 = 1
        /\ ((p + 2) + 2) % 3 = 2
    BY <1>1
  <2>4. L[p] = <<n, 1>> /\ L[p + 1] = <<n, 2>> /\ L[p + 2] = Newline
    <3> HIDE DEF p
    <3> QED BY <1>4, <2>1, <2>2, <2>3
  <2>5. p + 2 <= 3 * c
    BY <1>1
  <2> QED BY <2>2, <2>4, <2>5
<1> QED BY <1>5, <1>6, <1>7 DEF L

(* Writing more to a file keeps what could be read from it, when a torn last *)
(* line is kept apart from what follows.                                     *)
LEMMA Extended ==
    ASSUME NEW f \in Seq(Pieces), NEW g \in Seq(Pieces), StartsLines(f), StartsLines(g),
           f # <<>> /\ g # <<>> /\ f[Len(f)] # Newline => g[1] = Newline
    PROVE  /\ f \o g \in Seq(Pieces) /\ StartsLines(f \o g)
           /\ \A n \in Nat : ReadableIn(f, n) => ReadableIn(f \o g, n)
           /\ \A n \in Nat : \A p \in 1..Len(g) :
                 p + 2 <= Len(g) /\ g[p] = <<n, 1>> /\ g[p + 1] = <<n, 2>> /\ g[p + 2] = Newline
                 => ReadableIn(f \o g, n)
<1> DEFINE h == f \o g
           F == Len(f)
           G == Len(g)
<1>1. /\ F \in Nat /\ G \in Nat /\ h \in Seq(Pieces) /\ Len(h) = F + G
      /\ DOMAIN f = 1..F /\ DOMAIN g = 1..G /\ DOMAIN h = 1..F + G
  OBVIOUS
<1>2. /\ \A k \in 1..F : h[k] = f[k]
      /\ \A k \in 1..G : h[F + k] = g[k]
      /\ f # <<>> => F >= 1
      /\ g # <<>> => G >= 1
  OBVIOUS
<1>3. \A k \in 1..F + G : k <= F \/ (k - F \in 1..G /\ h[k] = g[k - F])
  <2> SUFFICES ASSUME NEW k \in 1..F + G, ~(k <= F) PROVE k - F \in 1..G /\ h[k] = g[k - F]
    OBVIOUS
  <2>1. k - F \in 1..G /\ F + (k - F) = k
    BY <1>1
  <2> QED BY <1>2, <2>1
<1>7. F >= 1 => f # <<>>
  OBVIOUS
<1>8. G >= 1 => g # <<>>
  OBVIOUS
<1> HIDE DEF h, F, G
<1>4. StartsLines(h)
  <2> SUFFICES ASSUME NEW k \in 1..F + G, h[k][2] = 1, k # 1 PROVE h[k - 1] = Newline
    BY <1>1 DEF StartsLines
  <2>1. CASE k <= F
    <3>1. k \in 1..F /\ k - 1 \in 1..F
      BY <1>1, <2>1
    <3> QED BY <3>1, <1>1, <1>2 DEF StartsLines
  <2>2. CASE k = F + 1
    <3>1. 1 \in 1..G /\ h[k] = g[1] /\ F \in 1..F /\ k - 1 = F
      BY <1>1, <1>2, <2>2
    <3>2. g[1] # Newline
      BY <3>1 DEF Newline
    <3>3. f[F] = Newline
      BY <1>1, <1>7, <1>8, <3>1, <3>2 DEF F
    <3> QED BY <3>1, <3>3, <1>2
  <2>3. CASE k > F + 1
    <3> DEFINE j == k - F
    <3>1. j \in 1..G /\ j - 1 \in 1..G /\ F + j = k /\ F + (j - 1) = k - 1 /\ j # 1
      BY <1>1, <2>3
    <3> HIDE DEF j
    <3>2. h[k] = g[j] /\ h[k - 1] = g[j - 1]
      BY <3>1, <1>2
    <3> QED BY <3>1, <3>2, <1>1 DEF StartsLines
  <2> QED BY <1>1, <2>1, <2>2, <2>3
<1>5. ASSUME NEW n \in Nat, ReadableIn(f, n) PROVE ReadableIn(h, n)
  <2>1. PICK k \in 1..F : WholeAt(f, 1, k, n)
    BY <1>1, <1>5 DEF ReadableIn
  <2>2. /\ k = 1 \/ f[k - 1] = Newline
        /\ k + 1 <= F /\ f[k] = <<n, 1>> /\ f[k + 1] = <<n, 2>>
        /\ k + 1 = F \/ f[k + 2] = Newline
    BY <2>1 DEF WholeAt, F
  <2>3. (k = 1 \/ h[k - 1] = Newline) /\ h[k] = <<n, 1>> /\ h[k + 1] = <<n, 2>> /\ k \in 1..F + G /\ k + 1 <= F + G
    BY <1>1, <1>2, <2>2
  <2>4. k + 1 = F + G \/ h[k + 2] = Newline
    <3>1. CASE k + 1 = F
      <4>1. CASE G = 0
        BY <3>1, <4>1, <1>1
      <4>2. CASE G # 0
        <5>1. f[F] # Newline /\ F >= 1 /\ G >= 1
          BY <3>1, <4>2, <2>2, <1>1 DEF Newline
        <5>2. g[1] = Newline
          BY <5>1, <1>7, <1>8 DEF F
        <5>3. 1 \in 1..G /\ F + 1 = k + 2
          BY <3>1, <5>1, <1>1
        <5> QED BY <5>2, <5>3, <1>2
      <4> QED BY <4>1, <4>2
    <3>2. CASE k + 1 # F
      BY <3>2, <2>2, <1>1, <1>2
    <3> QED BY <3>1, <3>2
  <2> QED BY <1>1, <2>3, <2>4 DEF ReadableIn, WholeAt
<1>6. ASSUME NEW n \in Nat, NEW p \in 1..G, p + 2 <= G,
             g[p] = <<n, 1>>, g[p + 1] = <<n, 2>>, g[p + 2] = Newline
      PROVE  ReadableIn(h, n)
  <2>1. F + p \in 1..F + G /\ (F + p) + 1 = F + (p + 1) /\ (F + p) + 2 = F + (p + 2) /\ (F + p) + 1 <= F + G
    BY <1>1, <1>6
  <2>2. p + 1 \in 1..G /\ p + 2 \in 1..G
    BY <1>1, <1>6
  <2>3. h[F + p] = <<n, 1>> /\ h[(F + p) + 1] = <<n, 2>> /\ h[(F + p) + 2] = Newline
    BY <1>2, <1>6, <2>1, <2>2, SMTT(30)
  <2>4. F + p = 1 \/ h[(F + p) - 1] = Newline
    BY <1>1, <1>4, <2>1, <2>3, SMTT(30) DEF StartsLines
  <2> QED BY <1>1, <2>1, <2>3, <2>4 DEF ReadableIn, WholeAt
<1> QED BY <1>1, <1>4, <1>5, <1>6 DEF h, G

(* A prefix of a file's lines begins its lines too.                          *)
LEMMA PrefixStartsLines ==
    ASSUME NEW f \in Seq(Pieces), StartsLines(f), NEW k \in 0..Len(f)
    PROVE  /\ SubSeq(f, 1, k) \in Seq(Pieces) /\ Len(SubSeq(f, 1, k)) = k
           /\ \A j \in 1..k : SubSeq(f, 1, k)[j] = f[j]
           /\ StartsLines(SubSeq(f, 1, k))
<1> DEFINE h == SubSeq(f, 1, k)
<1>1. h \in Seq(Pieces) /\ Len(h) = k /\ DOMAIN h = 1..k /\ \A j \in 1..k : h[j] = f[j]
  OBVIOUS
<1>2. k \in Nat /\ \A j \in 1..k : j \in DOMAIN f /\ (j = 1 \/ j - 1 \in 1..k)
  OBVIOUS
<1> HIDE DEF h
<1>3. StartsLines(h)
  BY <1>1, <1>2 DEF StartsLines
<1> QED BY <1>1, <1>3 DEF h

-----------------------------------------------------------------------------
(* The inductive invariant.                                                  *)

OutboxRow ==
    [kind : {"EVENT", "LIFECYCLE", "HANDOFF"}, subject : Events \cup Items \cup Handoffs,
     id : DeliveryIds, payload : EventRow \cup LifecycleStates \cup Handoffs]

OutboxShape ==
    /\ rows \in Seq(OutboxRow) /\ Len(rows) <= MaxRows
    /\ file \in Seq(Pieces)
    /\ batch \in [Readers -> [seqs : SUBSET Nat, handled : BOOLEAN]]
    /\ export \in [position : Nat, byte_offset : Nat]

(* What a row's delivery id says of it: the number of an event's row is not  *)
(* larger than the number of that event's rows, so the next one is fresh.    *)
IdFits(log, n) ==
    \/ /\ log[n].kind = "EVENT"
       /\ \E c \in 1..Cardinality(SeqsOf(log, "EVENT", log[n].subject)) :
             log[n].id = <<"event", log[n].subject, c>>
    \/ log[n].kind = "LIFECYCLE" /\ log[n].id = <<"lifecycle", log[n].subject, log[n].payload>>
    \/ log[n].kind = "HANDOFF" /\ log[n].id = <<"handoff", log[n].subject, "">>

IdsFit == \A n \in DOMAIN rows : IdFits(rows, n)

(* A batch begins at most one row after the cursor, wherever that has moved  *)
(* since the batch was read.                                                 *)
BatchFits(r) ==
    \/ batch[r] = NoBatch
    \/ \E a \in Nat \ {0}, b \in Nat :
          /\ a <= b /\ batch[r].seqs = a..b
          /\ a <= position + 1 /\ b <= Len(rows)
          /\ batch[r].handled => a..b \subseteq handled

BatchesFit == \A r \in Readers : BatchFits(r)

OutboxIInv == OutboxInv /\ OutboxShape /\ IdsFit /\ BatchesFit /\ StartsLines(file)

(* The part of OutboxTypeOK about readers, cursors and the file.             *)
CursorsTyped ==
    /\ position \in 0..Len(rows) /\ handled \subseteq 1..Len(rows) /\ cut \subseteq 1..Len(rows)
    /\ \A r \in Readers : batch[r].seqs \subseteq 1..Len(rows) /\ batch[r].handled \in BOOLEAN
    /\ export.position \in 0..Len(rows) /\ export.byte_offset \in Nat
    /\ \A k \in DOMAIN file : file[k] \in ((1..Len(rows)) \X {1, 2}) \cup {Newline}

(* The part about the tables.                                                *)
TablesTyped ==
    /\ event \in [Events -> EventRow \cup {NoEvent}]
    /\ stale \subseteq {e \in Events : Exists(e)}
    /\ item \in [Items -> LifecycleStates \cup {NoItem}]

(* The type invariant in two parts, the tables and the cursors.              *)
LEMMA TypeInTwo == OutboxShape => (OutboxTypeOK <=> CursorsTyped /\ TablesTyped)
<1> SUFFICES ASSUME OutboxShape PROVE \A n \in DOMAIN rows : rows[n].id \in DeliveryIds
  BY DEF OutboxTypeOK, CursorsTyped, TablesTyped
<1> SUFFICES ASSUME NEW n \in DOMAIN rows PROVE rows[n].id \in DeliveryIds
  OBVIOUS
<1>1. rows[n] \in OutboxRow
  BY DEF OutboxShape
<1> QED BY <1>1 DEF OutboxRow

-----------------------------------------------------------------------------
(* Recording.                                                                *)

Drafts(log, es, f) == {record_event_row(log, e, f[e]) : e \in es}

(* A function on 1..c is a sequence of length c.                             *)
LEMMA FunctionIsSeq == ASSUME NEW T, NEW c \in Nat, NEW q \in [1..c -> T] PROVE q \in Seq(T) /\ Len(q) = c
OBVIOUS

(* The length of a concatenation.                                            *)
LEMMA ConcatLen ==
    ASSUME NEW S, NEW T, NEW s \in Seq(S), NEW t \in Seq(T)
    PROVE  Len(s \o t) = Len(s) + Len(t)
<1>1. s \in Seq(S \cup T) /\ t \in Seq(S \cup T)
  OBVIOUS
<1> QED BY <1>1

(* The log new is log with one row for each event of es, in some order.      *)
ExtendedBy(log, es, f, new) ==
    \E c \in Nat : \E order \in [1..c -> es] : \E more :
        /\ \A i, j \in 1..c : order[i] = order[j] => i = j
        /\ \A e \in es : \E i \in 1..c : order[i] = e
        /\ more \in [1..c -> Drafts(log, es, f)]
        /\ \A k \in 1..c : more[k] = record_event_row(log, order[k], f[order[k]])
        /\ new = log \o more

(* One transaction records one row for each event it changed, after the rows *)
(* there are.                                                                *)
LEMMA EachRecorded ==
    ASSUME NEW log, NEW es \in SUBSET Events, NEW f
    PROVE  ExtendedBy(log, es, f, RecordEach(log, es, f))
<1>1. IsFiniteSet(es)
  BY OutboxAssumption, FS_Subset
<1> DEFINE c == Cardinality(es)
           order == SetToSeq(es)
           more == [k \in 1..c |-> record_event_row(log, order[k], f[order[k]])]
<1>2. /\ c \in Nat /\ order \in [1..c -> es]
      /\ \A i, j \in 1..c : order[i] = order[j] => i = j
      /\ \A e \in es : \E i \in 1..c : order[i] = e
  BY <1>1, ListedOnce
<1>3. RecordEach(log, es, f) = log \o more
  BY DEF RecordEach
<1>4. /\ more \in [1..c -> Drafts(log, es, f)]
      /\ \A k \in 1..c : more[k] = record_event_row(log, order[k], f[order[k]])
  BY <1>2 DEF Drafts
<1> HIDE DEF c, order, more
<1> QED BY <1>2, <1>3, <1>4, ZenonT(60) DEF ExtendedBy

(* The fields of an event's row.                                             *)
LEMMA EventRecord ==
    ASSUME NEW log, NEW e, NEW snapshot
    PROVE  record_event_row(log, e, snapshot) =
             [kind |-> "EVENT", subject |-> e,
              id |-> <<"event", e, Cardinality(SeqsOf(log, "EVENT", e)) + 1>>, payload |-> snapshot]
BY DEF record_event_row, Row, EventNumber

(* Rows that are only added to leave the readers and the file in place.      *)
LEMMA RowsGrow ==
    ASSUME OutboxIInv, rows' \in Seq(OutboxRow), Len(rows') <= MaxRows, Len(rows) <= Len(rows'),
           UNCHANGED <<position, batch, handled, export, file, cut>>
    PROVE  /\ OutboxShape' /\ CursorsTyped' /\ BatchesFit' /\ StartsLines(file)'
           /\ ReadersMissNothing' /\ ExportedReadable'
<1>1. OutboxShape /\ CursorsTyped
  BY TypeInTwo DEF OutboxIInv, OutboxInv
<1>2. OutboxShape'
  BY <1>1 DEF OutboxShape
<1>3. Len(rows) \in Nat /\ Len(rows') \in Nat /\ 1..Len(rows) \subseteq 1..Len(rows')
  BY <1>1 DEF OutboxShape
<1>4. CursorsTyped'
  <2>1. position' \in 0..Len(rows') /\ export'.position \in 0..Len(rows') /\ export'.byte_offset \in Nat
    BY <1>1, <1>3 DEF CursorsTyped
  <2>2. \A r \in Readers : batch'[r].seqs \subseteq 1..Len(rows') /\ batch'[r].handled \in BOOLEAN
    BY <1>1, <1>3 DEF CursorsTyped
  <2>3. handled' \subseteq 1..Len(rows') /\ cut' \subseteq 1..Len(rows')
    BY <1>1, <1>3 DEF CursorsTyped
  <2>4. \A k \in DOMAIN file' : file'[k] \in ((1..Len(rows')) \X {1, 2}) \cup {Newline'}
    BY <1>1, <1>3 DEF CursorsTyped, Newline
  <2> QED BY <2>1, <2>2, <2>3, <2>4 DEF CursorsTyped, Newline
<1>5. BatchesFit'
  <2> SUFFICES ASSUME NEW r \in Readers PROVE BatchFits(r)'
    BY DEF BatchesFit
  <2>1. BatchFits(r)
    BY DEF OutboxIInv, BatchesFit
  <2>2. \A b \in Nat : b <= Len(rows) => b <= Len(rows')
    BY <1>3
  <2> QED BY <2>1, <2>2 DEF BatchFits, NoBatch
<1>6. StartsLines(file)'
  BY DEF OutboxIInv, StartsLines, Newline
<1>7. ReadersMissNothing' /\ ExportedReadable'
  BY DEF OutboxIInv, OutboxInv, ReadersMissNothing, ExportedReadable, ReadableIn, WholeAt, Newline
<1> QED BY <1>2, <1>4, <1>5, <1>6, <1>7

(* Rows added after the ones there are keep the numbers of those.            *)
LEMMA IdsKept ==
    ASSUME OutboxIInv, NEW log \in Seq(OutboxRow), Len(rows) <= Len(log),
           \A n \in 1..Len(rows) : log[n] = rows[n]
    PROVE  \A n \in 1..Len(rows) : IdFits(log, n)
<1> SUFFICES ASSUME NEW n \in 1..Len(rows) PROVE IdFits(log, n)
  OBVIOUS
<1>1. rows \in Seq(OutboxRow) /\ IdFits(rows, n)
  BY DEF OutboxIInv, OutboxShape, IdsFit
<1>2. SeqsOf(rows, "EVENT", rows[n].subject) \subseteq SeqsOf(log, "EVENT", rows[n].subject)
  BY <1>1 DEF SeqsOf
<1>3. /\ Cardinality(SeqsOf(rows, "EVENT", rows[n].subject)) <= Cardinality(SeqsOf(log, "EVENT", rows[n].subject))
      /\ Cardinality(SeqsOf(rows, "EVENT", rows[n].subject)) \in Nat
      /\ Cardinality(SeqsOf(log, "EVENT", rows[n].subject)) \in Nat
  BY <1>1, <1>2, SeqsCounted, FS_Subset
<1>4. \A c \in 1..Cardinality(SeqsOf(rows, "EVENT", rows[n].subject)) :
         c \in 1..Cardinality(SeqsOf(log, "EVENT", rows[n].subject))
  BY <1>3
<1>5. log[n] = rows[n]
  OBVIOUS
<1> QED BY <1>1, <1>4, <1>5, Zenon DEF IdFits

(* A change of events and the rows that record it commit together            *)
(* (_event_write): the outbox stays in step with the table.                  *)
LEMMA Written ==
    ASSUME OutboxIInv, NEW es \in SUBSET Events, NEW change \in [es -> EventRow],
           WriteEvents(es, change), stale' \subseteq stale
    PROVE  OutboxIInv'
<1> DEFINE N == Len(rows)
<1>1. OutboxShape /\ CursorsTyped /\ TablesTyped /\ rows \in Seq(OutboxRow) /\ N \in Nat
  BY TypeInTwo DEF OutboxIInv, OutboxInv, OutboxShape
<1>2. /\ event' = [e \in Events |-> IF e \in es THEN change[e] ELSE event[e]]
      /\ rows' = RecordEach(rows, es, event')
      /\ Len(rows') <= MaxRows
      /\ UNCHANGED <<item, position, batch, handled, export, file, cut>>
  BY DEF WriteEvents
<1>3. /\ event' \in [Events -> EventRow \cup {NoEvent}]
      /\ \A e \in es : event'[e] \in EventRow
      /\ \A e \in Events \ es : event'[e] = event[e]
  BY <1>1, <1>2 DEF TablesTyped
<1>24. ExtendedBy(rows, es, event', rows')
  BY <1>2, EachRecorded
<1>4. PICK c \in Nat : \E order \in [1..c -> es] : \E more :
             /\ \A i, j \in 1..c : order[i] = order[j] => i = j
             /\ \A e \in es : \E i \in 1..c : order[i] = e
             /\ more \in [1..c -> Drafts(rows, es, event')]
             /\ \A k \in 1..c : more[k] = record_event_row(rows, order[k], event'[order[k]])
             /\ rows' = rows \o more
  BY <1>24 DEF ExtendedBy
<1>5. PICK order \in [1..c -> es] : \E more :
             /\ \A i, j \in 1..c : order[i] = order[j] => i = j
             /\ \A e \in es : \E i \in 1..c : order[i] = e
             /\ more \in [1..c -> Drafts(rows, es, event')]
             /\ \A k \in 1..c : more[k] = record_event_row(rows, order[k], event'[order[k]])
             /\ rows' = rows \o more
  BY <1>4
<1> DEFINE Count(e) == Cardinality(SeqsOf(rows, "EVENT", e))
<1>6. \A e : Count(e) \in 0..N /\ IsFiniteSet(SeqsOf(rows, "EVENT", e))
  BY <1>1, SeqsCounted
<1>7. PICK more :
             /\ more \in [1..c -> Drafts(rows, es, event')]
             /\ \A k \in 1..c : more[k] = [kind |-> "EVENT", subject |-> order[k],
                                          id |-> <<"event", order[k], Count(order[k]) + 1>>, payload |-> event'[order[k]]]
             /\ rows' = rows \o more
  BY <1>2, <1>5, EventRecord
<1>8. ASSUME NEW k \in 1..c
      PROVE  /\ more[k].kind = "EVENT" /\ more[k].subject = order[k] /\ order[k] \in es /\ order[k] \in Events
             /\ more[k].id = <<"event", order[k], Count(order[k]) + 1>>
             /\ more[k].payload = event'[order[k]]
  <2>1. order[k] \in es
    BY <1>5
  <2>2. more[k] = [kind |-> "EVENT", subject |-> order[k],
                   id |-> <<"event", order[k], Count(order[k]) + 1>>, payload |-> event'[order[k]]]
    BY <1>7
  <2> QED BY <2>1, <2>2
<1>9. Len(rows') = N + c
  <2>1. more \in Seq(Drafts(rows, es, event')) /\ Len(more) = c
    BY <1>4, <1>7, FunctionIsSeq
  <2>2. Len(rows \o more) = Len(rows) + Len(more)
    BY <1>1, <2>1, ConcatLen
  <2>3. rows' = rows \o more
    BY <1>7
  <2> QED BY <2>1, <2>2, <2>3
<1>10. ASSUME NEW k \in 1..c PROVE more[k] \in OutboxRow
  <2>1. order[k] \in es /\ order[k] \in Events
    BY <1>8
  <2>2. Count(order[k]) + 1 \in 1..MaxRows
    <3>1. Count(order[k]) \in 0..N /\ N + c <= MaxRows /\ c >= 1
      <4>1. Count(order[k]) \in 0..N
        BY <1>6
      <4>2. N + c <= MaxRows
        BY <1>2, <1>9
      <4>3. c >= 1
        BY <1>4
      <4> QED BY <4>1, <4>2, <4>3
    <3>2. \A x \in 0..N : x + 1 \in 1..MaxRows
      BY <1>1, <1>4, <3>1, OutboxAssumption
    <3> QED BY <3>1, <3>2
  <2>3. <<"event", order[k], Count(order[k]) + 1>> \in DeliveryIds
    BY <2>1, <2>2 DEF DeliveryIds
  <2>4. event'[order[k]] \in EventRow
    BY <1>3, <2>1
  <2> DEFINE id == <<"event", order[k], Count(order[k]) + 1>>
  <2>5. more[k] = [kind |-> "EVENT", subject |-> order[k], id |-> id, payload |-> event'[order[k]]]
    BY <1>7
  <2>6. id \in DeliveryIds
    BY <2>3
  <2> HIDE DEF id
  <2> QED BY <2>1, <2>4, <2>5, <2>6 DEF OutboxRow
<1>23. more \in Seq(OutboxRow) /\ Len(more) = c
  <2>1. more \in [1..c -> OutboxRow]
    BY <1>7, <1>10
  <2> QED BY <2>1, <1>4, FunctionIsSeq
<1>11. rows' \in Seq(OutboxRow)
  BY <1>1, <1>7, <1>23
<1>12. /\ DOMAIN rows' = 1..N + c /\ DOMAIN rows = 1..N
       /\ \A n \in 1..N : rows'[n] = rows[n]
       /\ \A k \in 1..c : rows'[N + k] = more[k] /\ N + k \in 1..N + c /\ N + k \notin 1..N
       /\ \A n \in 1..N + c : n \in 1..N \/ \E k \in 1..c : n = N + k
       /\ 1..N \subseteq 1..N + c
  <2>2. \A n \in 1..N + c : n \in 1..N \/ n - N \in 1..c
    BY <1>1, <1>4
  <2>3. \A n \in 1..N + c : n = N + (n - N)
    BY <1>1, <1>4
  <2>4. \A n \in 1..N : rows'[n] = rows[n]
    BY <1>1, <1>7, <1>23
  <2>5. \A k \in 1..c : rows'[N + k] = more[k] /\ N + k \in 1..N + c /\ N + k \notin 1..N
    BY <1>1, <1>7, <1>23
  <2>6. DOMAIN rows' = 1..N + c /\ DOMAIN rows = 1..N
    BY <1>1, <1>9, <1>11
  <2>7. 1..N \subseteq 1..N + c
    BY <1>1, <1>4
  <2> QED BY <2>2, <2>3, <2>4, <2>5, <2>6, <2>7
<1> HIDE DEF N
<1>13. \A kind, x : kind # "EVENT" => SeqsOf(rows', kind, x) = SeqsOf(rows, kind, x)
  <2> SUFFICES ASSUME NEW kind, NEW x, kind # "EVENT"
               PROVE  \A n : n \in SeqsOf(rows', kind, x) <=> n \in SeqsOf(rows, kind, x)
    BY DEF SeqsOf
  <2>1. ASSUME NEW n \in 1..N PROVE n \in SeqsOf(rows', kind, x) <=> n \in SeqsOf(rows, kind, x)
    BY <1>12 DEF SeqsOf
  <2>2. ASSUME NEW k \in 1..c PROVE N + k \notin SeqsOf(rows', kind, x)
    <3>1. rows'[N + k].kind = "EVENT"
      BY <1>8, <1>12, ZenonT(60)
    <3> QED BY <3>1 DEF SeqsOf
  <2>3. \A n \in SeqsOf(rows', kind, x) : n \in 1..N + c
    BY <1>12 DEF SeqsOf
  <2>4. \A n \in SeqsOf(rows, kind, x) : n \in 1..N
    BY <1>12 DEF SeqsOf
  <2> QED BY <1>12, <2>1, <2>2, <2>3, <2>4
<1>14. \A e, n : n \in SeqsOf(rows', "EVENT", e) <=>
                  \/ n \in SeqsOf(rows, "EVENT", e)
                  \/ \E k \in 1..c : n = N + k /\ order[k] = e
  <2> SUFFICES ASSUME NEW e, NEW n
               PROVE  n \in SeqsOf(rows', "EVENT", e) <=>
                        \/ n \in SeqsOf(rows, "EVENT", e)
                        \/ \E k \in 1..c : n = N + k /\ order[k] = e
    OBVIOUS
  <2>1. CASE n \in 1..N
    BY <2>1, <1>12 DEF SeqsOf
  <2>2. CASE \E k \in 1..c : n = N + k
    <3>1. PICK k \in 1..c : n = N + k
      BY <2>2
    <3>4. \A j \in 1..c : N + k = N + j => j = k
      BY <1>1, <1>4
    <3>2. \A j \in 1..c : n = N + j => j = k
      BY <3>1, <3>4
    <3>3. rows'[n].kind = "EVENT" /\ rows'[n].subject = order[k] /\ n \in DOMAIN rows' /\ n \notin DOMAIN rows
      BY <1>8, <1>12, <3>1, ZenonT(60)
    <3> QED BY <3>1, <3>2, <3>3 DEF SeqsOf
  <2>3. CASE n \notin 1..N + c
    BY <2>3, <1>12 DEF SeqsOf
  <2> QED BY <1>12, <2>1, <2>2, <2>3
<1>15. Len(rows) <= Len(rows') /\ N = Len(rows)
  BY <1>1, <1>4, <1>9 DEF N
<1>16. /\ OutboxShape' /\ CursorsTyped' /\ BatchesFit' /\ StartsLines(file)'
       /\ ReadersMissNothing' /\ ExportedReadable'
  BY <1>2, <1>11, <1>15, RowsGrow
<1>17. IdsFit'
  <2>1. \A n \in 1..N : IdFits(rows', n)
    BY <1>11, <1>12, <1>15, IdsKept
  <2>2. ASSUME NEW k \in 1..c PROVE IdFits(rows', N + k)
    <3> DEFINE e == order[k]
               Old == SeqsOf(rows, "EVENT", e)
               New == SeqsOf(rows', "EVENT", e)
    <3>1. N + k \in New /\ Old \subseteq New
      BY <1>12, <1>14
    <3>2. N + k \notin Old
      BY <1>1, <1>12 DEF SeqsOf
    <3>3. Cardinality(Old \cup {N + k}) = Cardinality(Old) + 1 /\ IsFiniteSet(Old \cup {N + k})
      BY <1>6, <3>2, FS_AddElement
    <3>4. IsFiniteSet(New) /\ Cardinality(New) \in Nat
      BY <1>11, SeqsCounted
    <3>5. Cardinality(Old) + 1 <= Cardinality(New)
      BY <3>1, <3>3, <3>4, FS_Subset
    <3>6. Count(e) + 1 \in 1..Cardinality(New)
      BY <1>6, <3>4, <3>5
    <3>7. /\ rows'[N + k].kind = "EVENT" /\ rows'[N + k].subject = e
          /\ rows'[N + k].id = <<"event", e, Count(e) + 1>>
      BY <1>8, <1>12, ZenonT(60)
    <3> HIDE DEF e, Count
    <3> QED BY <3>6, <3>7 DEF IdFits
  <2>3. \A n \in DOMAIN rows' : IdFits(rows', n)
    BY <1>12, <2>1, <2>2
  <2> QED BY <2>3 DEF IdsFit, IdFits, SeqsOf
<1>18. UniqueDelivery'
  <2>1. \A m, n \in 1..N : rows'[m].id = rows'[n].id => m = n
    BY <1>12 DEF OutboxIInv, OutboxInv, UniqueDelivery
  <2>2. \A j, k \in 1..c : rows'[N + j].id = rows'[N + k].id => N + j = N + k
    <3> SUFFICES ASSUME NEW j \in 1..c, NEW k \in 1..c, rows'[N + j].id = rows'[N + k].id PROVE j = k
      OBVIOUS
    <3>1. <<"event", order[j], Count(order[j]) + 1>> = <<"event", order[k], Count(order[k]) + 1>>
      <4>1. rows'[N + j].id = <<"event", order[j], Count(order[j]) + 1>>
        BY <1>8, <1>12
      <4>2. rows'[N + k].id = <<"event", order[k], Count(order[k]) + 1>>
        BY <1>8, <1>12
      <4> QED BY <4>1, <4>2
    <3> QED BY <3>1, <1>5
  <2>3. ASSUME NEW m \in 1..N, NEW k \in 1..c, rows'[m].id = rows'[N + k].id PROVE FALSE
    <3>1. rows[m].id = <<"event", order[k], Count(order[k]) + 1>> /\ IdFits(rows, m)
      BY <1>8, <1>12, <2>3 DEF OutboxIInv, IdsFit
    <3>2. PICK j \in 1..Count(rows[m].subject) : rows[m].id = <<"event", rows[m].subject, j>>
      BY <3>1 DEF IdFits
    <3>3. rows[m].subject = order[k] /\ j = Count(order[k]) + 1
      BY <3>1, <3>2
    <3> QED BY <3>2, <3>3, <1>6
  <2> QED BY <1>12, <2>1, <2>2, <2>3 DEF UniqueDelivery
<1>19. LifecycleChain'
  <2>1. \A i \in Items : SeqsOf(rows', "LIFECYCLE", i) = SeqsOf(rows, "LIFECYCLE", i)
    BY <1>13
  <2>2. \A i \in Items : \A n \in SeqsOf(rows, "LIFECYCLE", i) : rows'[n] = rows[n]
    BY <1>12 DEF SeqsOf
  <2>3. LifecycleChain
    BY DEF OutboxIInv, OutboxInv
  <2> SUFFICES ASSUME NEW i \in Items
               PROVE  LET path == SeqsOf(rows', "LIFECYCLE", i)
                      IN  /\ path = {} <=> item'[i] = NoItem
                          /\ \A n \in path :
                              /\ (\A m \in path : m <= n) => rows'[n].payload = item'[i]
                              /\ (\A m \in path : n <= m) => rows'[n].payload \in INITIAL_STATES
                              /\ \A m \in path : m < n /\ (\A k \in path : k <= m \/ n <= k) =>
                                      rows'[n].payload \in ALLOWED_TRANSITIONS[rows'[m].payload]
    BY DEF LifecycleChain, NoItem, INITIAL_STATES, ALLOWED_TRANSITIONS, LifecycleStates
  <2>4. item' = item
    BY <1>2
  <2> QED BY <2>1, <2>2, <2>3, <2>4 DEF LifecycleChain
<1>20. EventsMirrored'
  <2> SUFFICES ASSUME NEW e \in Events, Exists(e)'
               PROVE  \E n \in SeqsOf(rows', "EVENT", e) :
                         /\ \A m \in SeqsOf(rows', "EVENT", e) : m <= n
                         /\ rows'[n].payload.status = event'[e].status
                         /\ rows'[n].payload.notified = event'[e].notified
    BY DEF EventsMirrored
  <2>1. CASE e \in es
    <3>1. PICK k \in 1..c : order[k] = e
      BY <1>5, <2>1
    <3>2. N + k \in SeqsOf(rows', "EVENT", e)
      BY <1>12, <1>14, <3>1
    <3>3. \A m \in SeqsOf(rows', "EVENT", e) : m <= N + k
      <4> SUFFICES ASSUME NEW m \in SeqsOf(rows', "EVENT", e) PROVE m <= N + k
        OBVIOUS
      <4>1. CASE m \in SeqsOf(rows, "EVENT", e)
        BY <4>1, <1>1, <1>4, <1>12 DEF SeqsOf
      <4>2. CASE \E j \in 1..c : m = N + j /\ order[j] = e
        BY <4>2, <3>1, <1>5, <1>1, <1>4
      <4> QED BY <1>14, <4>1, <4>2
    <3>4. rows'[N + k].payload = event'[e]
      BY <1>8, <1>12, <3>1
    <3> QED BY <3>2, <3>3, <3>4
  <2>2. CASE e \notin es
    <3>1. event'[e] = event[e] /\ Exists(e)
      BY <1>3, <2>2 DEF Exists, NoEvent
    <3>2. SeqsOf(rows', "EVENT", e) = SeqsOf(rows, "EVENT", e)
      <4>1. \A n : n \in SeqsOf(rows', "EVENT", e) <=> n \in SeqsOf(rows, "EVENT", e)
        BY <1>8, <1>14, <2>2
      <4> QED BY <4>1 DEF SeqsOf
    <3>3. \A n \in SeqsOf(rows, "EVENT", e) : rows'[n] = rows[n]
      BY <1>12 DEF SeqsOf
    <3> QED BY <3>1, <3>2, <3>3 DEF OutboxIInv, OutboxInv, EventsMirrored
  <2> QED BY <2>1, <2>2
<1>21. TablesTyped'
  <2>1. stale' \subseteq {e \in Events : Exists(e)'}
    BY <1>1, <1>3, SMTT(30) DEF TablesTyped, Exists, NoEvent, EventRow, EventStatuses
  <2> QED BY <1>1, <1>2, <1>3, <2>1 DEF TablesTyped, EventRow, EventStatuses, NoEvent, LifecycleStates, NoItem
<1>22. OutboxTypeOK'
  BY <1>16, <1>21, TypeInTwo, PTL
<1> QED BY <1>16, <1>17, <1>18, <1>19, <1>20, <1>22 DEF OutboxIInv, OutboxInv

(* What appending a row does.                                                *)
LEMMA RowAppended ==
    ASSUME NEW R, NEW s \in Seq(R), NEW x \in R
    PROVE  /\ Append(s, x) \in Seq(R) /\ Len(s) \in Nat /\ Len(Append(s, x)) = Len(s) + 1
           /\ DOMAIN s = 1..Len(s) /\ DOMAIN Append(s, x) = 1..Len(s) + 1
           /\ \A n \in 1..Len(s) : Append(s, x)[n] = s[n]
           /\ Append(s, x)[Len(s) + 1] = x
OBVIOUS

IdSays(kind, subject, id, payload) ==
    \/ kind = "LIFECYCLE" /\ id = <<"lifecycle", subject, payload>>
    \/ kind = "HANDOFF" /\ id = <<"handoff", subject, "">>

NewRow(kind, subject, id, payload) ==
    /\ ~ Recorded(id) /\ Len(rows) < MaxRows
    /\ rows' = Append(rows, Row(kind, subject, id, payload))
    /\ UNCHANGED <<stale, event, position, batch, handled, export, file, cut>>

(* A lifecycle transition or a handoff appends one row, of a kind of its     *)
(* own, that is not recorded yet.                                            *)
LEMMA Appends ==
    ASSUME OutboxIInv, NEW kind \in {"LIFECYCLE", "HANDOFF"}, NEW subject \in Items \cup Handoffs,
           NEW id \in DeliveryIds, NEW payload \in LifecycleStates \cup Handoffs,
           IdSays(kind, subject, id, payload),
           NewRow(kind, subject, id, payload)
    PROVE  /\ OutboxShape' /\ CursorsTyped' /\ BatchesFit' /\ StartsLines(file)'
           /\ ReadersMissNothing' /\ ExportedReadable' /\ IdsFit' /\ UniqueDelivery' /\ EventsMirrored'
           /\ Len(rows) \in Nat /\ DOMAIN rows = 1..Len(rows) /\ DOMAIN rows' = 1..Len(rows) + 1
           /\ \A n \in 1..Len(rows) : rows'[n] = rows[n]
           /\ rows'[Len(rows) + 1] = Row(kind, subject, id, payload)
<1> DEFINE N == Len(rows)
           new == Row(kind, subject, id, payload)
<1>1. OutboxShape /\ rows \in Seq(OutboxRow) /\ N \in Nat /\ MaxRows \in Nat
  BY OutboxAssumption DEF OutboxIInv, OutboxShape
<1>12. UNCHANGED <<stale, event, position, batch, handled, export, file, cut>> /\ N < MaxRows
  BY DEF NewRow
<1>2. new.kind = kind /\ new.subject = subject /\ new.id = id /\ new.payload = payload
  BY DEF Row
<1>3. new \in OutboxRow
  BY DEF Row, OutboxRow
<1> HIDE DEF new
<1>4. rows' = Append(rows, new)
  BY DEF new, NewRow
<1>5. /\ rows' \in Seq(OutboxRow) /\ Len(rows') = N + 1 /\ DOMAIN rows = 1..N /\ DOMAIN rows' = 1..N + 1
      /\ \A n \in 1..N : rows'[n] = rows[n]
      /\ rows'[N + 1] = new
  BY <1>1, <1>3, <1>4, RowAppended
<1>6. Len(rows) <= Len(rows') /\ Len(rows') <= MaxRows
  BY <1>1, <1>5, <1>12
<1>7. /\ OutboxShape' /\ CursorsTyped' /\ BatchesFit' /\ StartsLines(file)'
      /\ ReadersMissNothing' /\ ExportedReadable'
  BY <1>5, <1>6, <1>12, RowsGrow
<1>8. \A n \in 1..N + 1 : n \in 1..N \/ n = N + 1
  BY <1>1
<1>9. IdsFit'
  <2>1. \A n \in 1..N : IdFits(rows', n)
    BY <1>5, <1>6, IdsKept
  <2>2. IdFits(rows', N + 1)
    BY <1>2, <1>5 DEF IdFits, IdSays
  <2>3. \A n \in DOMAIN rows' : IdFits(rows', n)
    BY <1>5, <1>8, <2>1, <2>2
  <2> QED BY <2>3 DEF IdsFit, IdFits, SeqsOf
<1>10. UniqueDelivery'
  <2>1. \A m, n \in 1..N : rows'[m].id = rows'[n].id => m = n
    BY <1>5 DEF OutboxIInv, OutboxInv, UniqueDelivery
  <2>2. \A m \in 1..N : rows'[m].id # rows'[N + 1].id
    BY <1>2, <1>5 DEF Recorded, NewRow
  <2> QED BY <1>5, <1>8, <2>1, <2>2 DEF UniqueDelivery
<1>11. EventsMirrored'
  <2> SUFFICES ASSUME NEW e \in Events, Exists(e)'
               PROVE  \E n \in SeqsOf(rows', "EVENT", e) :
                         /\ \A m \in SeqsOf(rows', "EVENT", e) : m <= n
                         /\ rows'[n].payload.status = event'[e].status
                         /\ rows'[n].payload.notified = event'[e].notified
    BY DEF EventsMirrored
  <2>1. Exists(e) /\ event' = event
    BY <1>12 DEF Exists, NoEvent
  <2>2. \A n : n \in SeqsOf(rows', "EVENT", e) <=> n \in SeqsOf(rows, "EVENT", e)
    <3>1. \A n \in 1..N : n \in SeqsOf(rows', "EVENT", e) <=> n \in SeqsOf(rows, "EVENT", e)
      BY <1>1, <1>5 DEF SeqsOf
    <3>2. N + 1 \notin SeqsOf(rows', "EVENT", e)
      BY <1>2, <1>5 DEF SeqsOf
    <3>3. /\ \A n \in SeqsOf(rows', "EVENT", e) : n \in 1..N + 1
          /\ \A n \in SeqsOf(rows, "EVENT", e) : n \in 1..N
      BY <1>5 DEF SeqsOf
    <3> QED BY <1>8, <3>1, <3>2, <3>3
  <2>3. \A n \in SeqsOf(rows, "EVENT", e) : rows'[n] = rows[n]
    BY <1>5 DEF SeqsOf
  <2> QED BY <2>1, <2>2, <2>3 DEF OutboxIInv, OutboxInv, EventsMirrored
<1> QED BY <1>1, <1>5, <1>7, <1>9, <1>10, <1>11 DEF new

(* record_lifecycle_transition keeps the invariant.                          *)
LEMMA TransitionRecorded ==
    ASSUME OutboxIInv, NEW i \in Items, NEW s \in LifecycleStates, record_lifecycle_transition(i, s)
    PROVE  OutboxIInv'
<1> DEFINE N == Len(rows)
           id == <<"lifecycle", i, s>>
<1>1. /\ ~ Recorded(id) /\ Len(rows) < MaxRows /\ check_transition(item[i], s)
      /\ item' = [item EXCEPT ![i] = s]
      /\ rows' = Append(rows, Row("LIFECYCLE", i, id, s))
      /\ UNCHANGED <<stale, event, position, batch, handled, export, file, cut>>
  BY DEF record_lifecycle_transition
<1>2. id \in DeliveryIds
  BY DEF DeliveryIds
<1>8. NewRow("LIFECYCLE", i, id, s) /\ IdSays("LIFECYCLE", i, id, s)
  BY <1>1 DEF NewRow, IdSays
<1>3. /\ OutboxShape' /\ CursorsTyped' /\ BatchesFit' /\ StartsLines(file)'
      /\ ReadersMissNothing' /\ ExportedReadable' /\ IdsFit' /\ UniqueDelivery' /\ EventsMirrored'
      /\ N \in Nat /\ DOMAIN rows = 1..N /\ DOMAIN rows' = 1..N + 1
      /\ \A n \in 1..N : rows'[n] = rows[n]
      /\ rows'[N + 1] = Row("LIFECYCLE", i, id, s)
  BY <1>2, <1>8, Appends
<1>4. TablesTyped
  BY TypeInTwo DEF OutboxIInv, OutboxInv
<1>5. TablesTyped'
  BY <1>1, <1>4 DEF TablesTyped, Exists, NoEvent, EventRow, EventStatuses, LifecycleStates, NoItem
<1>6. OutboxTypeOK'
  BY <1>3, <1>5, TypeInTwo, PTL
<1> HIDE DEF N
<1>7. LifecycleChain'
  <2> SUFFICES ASSUME NEW x \in Items
               PROVE  LET path == SeqsOf(rows', "LIFECYCLE", x)
                      IN  /\ path = {} <=> item'[x] = NoItem
                          /\ \A n \in path :
                              /\ (\A m \in path : m <= n) => rows'[n].payload = item'[x]
                              /\ (\A m \in path : n <= m) => rows'[n].payload \in INITIAL_STATES
                              /\ \A m \in path : m < n /\ (\A k \in path : k <= m \/ n <= k) =>
                                      rows'[n].payload \in ALLOWED_TRANSITIONS[rows'[m].payload]
    BY DEF LifecycleChain, NoItem, INITIAL_STATES, ALLOWED_TRANSITIONS, LifecycleStates
  <2> DEFINE old == SeqsOf(rows, "LIFECYCLE", x)
             path == SeqsOf(rows', "LIFECYCLE", x)
  <2>1. /\ old = {} <=> item[x] = NoItem
        /\ \A n \in old :
            /\ (\A m \in old : m <= n) => rows[n].payload = item[x]
            /\ (\A m \in old : n <= m) => rows[n].payload \in INITIAL_STATES
            /\ \A m \in old : m < n /\ (\A k \in old : k <= m \/ n <= k) =>
                    rows[n].payload \in ALLOWED_TRANSITIONS[rows[m].payload]
    BY DEF OutboxIInv, OutboxInv, LifecycleChain
  <2>2. old \subseteq 1..N /\ \A n \in old : rows'[n] = rows[n] /\ n < N + 1 /\ n \in Int
    BY <1>3 DEF SeqsOf
  <2>3. /\ rows'[N + 1].kind = "LIFECYCLE" /\ rows'[N + 1].subject = i /\ rows'[N + 1].payload = s
        /\ N + 1 \in DOMAIN rows'
    BY <1>3 DEF Row
  <2>4. CASE x # i
    <3>1. \A n : n \in path <=> n \in old
      <4>1. \A n \in 1..N : n \in path <=> n \in old
        BY <1>3 DEF SeqsOf
      <4>2. N + 1 \notin path
        BY <2>3, <2>4 DEF SeqsOf
      <4>3. \A n \in path : n \in 1..N \/ n = N + 1
        BY <1>3 DEF SeqsOf
      <4> QED BY <2>2, <4>1, <4>2, <4>3
    <3>2. path = old
      BY <3>1 DEF SeqsOf
    <3>3. item'[x] = item[x]
      BY <1>1, <1>4, <2>4 DEF TablesTyped
    <3> HIDE DEF path, old
    <3>4. /\ path = {} <=> item'[x] = NoItem
          /\ \A n \in path :
                /\ (\A m \in path : m <= n) => rows'[n].payload = item'[x]
                /\ (\A m \in path : n <= m) => rows'[n].payload \in INITIAL_STATES
                /\ \A m \in path : m < n /\ (\A k \in path : k <= m \/ n <= k) =>
                        rows'[n].payload \in ALLOWED_TRANSITIONS[rows'[m].payload]
      BY <2>1, <2>2, <3>2, <3>3
    <3> QED BY <3>4 DEF path
  <2>5. CASE x = i
    <3>1. \A n : n \in path <=> n \in old \/ n = N + 1
      <4>1. \A n \in 1..N : n \in path <=> n \in old
        BY <1>3 DEF SeqsOf
      <4>2. N + 1 \in path
        BY <2>3, <2>5 DEF SeqsOf
      <4>3. \A n \in path : n \in 1..N \/ n = N + 1
        BY <1>3 DEF SeqsOf
      <4> QED BY <2>2, <4>1, <4>2, <4>3
    <3>2. item'[x] = s /\ s # NoItem
      BY <1>1, <1>4, <2>5 DEF TablesTyped, LifecycleStates, NoItem
    <3>3. s \in IF item[x] = NoItem THEN INITIAL_STATES ELSE ALLOWED_TRANSITIONS[item[x]]
      BY <1>1, <2>5 DEF check_transition
    <3> HIDE DEF path, old
    <3>4. path # {}
      BY <3>1
    <3>5. N + 1 \in Int /\ N \in Int
      BY <1>3
    <3>6. ASSUME NEW n \in path
          PROVE  /\ (\A m \in path : m <= n) => rows'[n].payload = item'[x]
                 /\ (\A m \in path : n <= m) => rows'[n].payload \in INITIAL_STATES
                 /\ \A m \in path : m < n /\ (\A k \in path : k <= m \/ n <= k) =>
                        rows'[n].payload \in ALLOWED_TRANSITIONS[rows'[m].payload]
      <4>1. CASE n \in old
        <5>1. ~ (\A m \in path : m <= n)
          BY <3>1, <3>5, <2>2, <4>1
        <5>2. (\A m \in path : n <= m) => rows'[n].payload \in INITIAL_STATES
          BY <2>1, <2>2, <3>1, <4>1
        <5>3. ASSUME NEW m \in path, m < n, \A k \in path : k <= m \/ n <= k
              PROVE  rows'[n].payload \in ALLOWED_TRANSITIONS[rows'[m].payload]
          <6>1. m \in old
            BY <3>1, <3>5, <2>2, <4>1, <5>3
          <6>2. \A k \in old : k <= m \/ n <= k
            BY <3>1, <5>3
          <6> QED BY <6>1, <6>2, <5>3, <4>1, <2>1, <2>2
        <5> QED BY <5>1, <5>2, <5>3
      <4>2. CASE n = N + 1
        <5>1. rows'[n].payload = s
          BY <2>3, <4>2
        <5>2. ASSUME \A m \in path : n <= m PROVE s \in INITIAL_STATES
          <6>1. \A m \in old : N + 1 <= m /\ m < N + 1 /\ m \in Int
            BY <5>2, <4>2, <3>1, <2>2
          <6>2. old = {}
            BY <6>1, <3>5
          <6> QED BY <6>2, <2>1, <3>3
        <5>3. ASSUME NEW m \in path, m < n, \A k \in path : k <= m \/ n <= k
              PROVE  s \in ALLOWED_TRANSITIONS[rows'[m].payload]
          <6>1. m \in old
            BY <3>1, <3>5, <4>2, <5>3
          <6>2. \A k \in old : k <= m
            BY <3>1, <3>5, <2>2, <4>2, <5>3
          <6>3. rows'[m].payload = item[x] /\ item[x] # NoItem
            BY <6>1, <6>2, <2>1, <2>2
          <6> QED BY <6>3, <3>3
        <5> QED BY <5>1, <5>2, <5>3, <3>2
      <4> QED BY <3>1, <4>1, <4>2
    <3> QED BY <3>2, <3>4, <3>6 DEF path
  <2> QED BY <2>4, <2>5
<1> QED BY <1>3, <1>6, <1>7 DEF OutboxIInv, OutboxInv

(* record_handoff keeps the invariant.                                       *)
LEMMA HandoffRecorded ==
    ASSUME OutboxIInv, NEW h \in Handoffs, record_handoff(h)
    PROVE  OutboxIInv'
<1> DEFINE N == Len(rows)
           id == <<"handoff", h, "">>
<1>1. /\ ~ Recorded(id) /\ Len(rows) < MaxRows
      /\ rows' = Append(rows, Row("HANDOFF", h, id, h))
      /\ UNCHANGED <<stale, event, item, position, batch, handled, export, file, cut>>
  BY DEF record_handoff
<1>2. id \in DeliveryIds
  BY DEF DeliveryIds
<1>8. NewRow("HANDOFF", h, id, h) /\ IdSays("HANDOFF", h, id, h)
  BY <1>1 DEF NewRow, IdSays
<1> HIDE DEF id
<1>3. /\ OutboxShape' /\ CursorsTyped' /\ BatchesFit' /\ StartsLines(file)'
      /\ ReadersMissNothing' /\ ExportedReadable' /\ IdsFit' /\ UniqueDelivery' /\ EventsMirrored'
  BY <1>2, <1>8, Appends DEF id
<1>9. /\ N \in Nat /\ DOMAIN rows = 1..N /\ DOMAIN rows' = 1..N + 1
      /\ \A n \in 1..N : rows'[n] = rows[n]
      /\ rows'[N + 1] = Row("HANDOFF", h, id, h)
  BY <1>2, <1>8, Appends DEF id
<1>10. rows'[N + 1].kind = "HANDOFF"
  BY <1>9 DEF Row
<1>4. TablesTyped
  BY TypeInTwo DEF OutboxIInv, OutboxInv
<1>5. TablesTyped'
  BY <1>1, <1>4 DEF TablesTyped, Exists, NoEvent, EventRow, EventStatuses, LifecycleStates, NoItem
<1>6. OutboxTypeOK'
  BY <1>3, <1>5, TypeInTwo, PTL
<1> HIDE DEF N
<1>7. LifecycleChain'
  <2>1. ASSUME NEW x PROVE SeqsOf(rows', "LIFECYCLE", x) = SeqsOf(rows, "LIFECYCLE", x)
    <3>1. \A n \in 1..N : n \in SeqsOf(rows', "LIFECYCLE", x) <=> n \in SeqsOf(rows, "LIFECYCLE", x)
      BY <1>9 DEF SeqsOf
    <3>2. N + 1 \notin SeqsOf(rows', "LIFECYCLE", x)
      BY <1>9, <1>10 DEF SeqsOf
    <3>3. /\ \A n \in SeqsOf(rows', "LIFECYCLE", x) : n \in 1..N \/ n = N + 1
          /\ \A n \in SeqsOf(rows, "LIFECYCLE", x) : n \in 1..N
      BY <1>9 DEF SeqsOf
    <3>4. \A n : n \in SeqsOf(rows', "LIFECYCLE", x) <=> n \in SeqsOf(rows, "LIFECYCLE", x)
      BY <3>1, <3>2, <3>3
    <3> QED BY <3>4 DEF SeqsOf
  <2>2. \A x : \A n \in SeqsOf(rows, "LIFECYCLE", x) : rows'[n] = rows[n]
    BY <1>9 DEF SeqsOf
  <2>3. LifecycleChain
    BY DEF OutboxIInv, OutboxInv
  <2> SUFFICES ASSUME NEW i \in Items
               PROVE  LET path == SeqsOf(rows', "LIFECYCLE", i)
                      IN  /\ path = {} <=> item'[i] = NoItem
                          /\ \A n \in path :
                              /\ (\A m \in path : m <= n) => rows'[n].payload = item'[i]
                              /\ (\A m \in path : n <= m) => rows'[n].payload \in INITIAL_STATES
                              /\ \A m \in path : m < n /\ (\A k \in path : k <= m \/ n <= k) =>
                                      rows'[n].payload \in ALLOWED_TRANSITIONS[rows'[m].payload]
    BY DEF LifecycleChain, NoItem, INITIAL_STATES, ALLOWED_TRANSITIONS, LifecycleStates
  <2>4. item' = item
    BY <1>1
  <2> QED BY <2>1, <2>2, <2>3, <2>4 DEF LifecycleChain
<1> QED BY <1>3, <1>6, <1>7 DEF OutboxIInv, OutboxInv

-----------------------------------------------------------------------------
(* Steps that leave the rows and the tables alone.                           *)

(* What is only about rows and tables stays.                                 *)
LEMMA TablesSame ==
    ASSUME OutboxIInv, UNCHANGED <<rows, event, item>>
    PROVE  UniqueDelivery' /\ LifecycleChain' /\ EventsMirrored' /\ IdsFit'
<1>1. UniqueDelivery /\ LifecycleChain /\ EventsMirrored /\ IdsFit
  BY DEF OutboxIInv, OutboxInv
<1>2. UniqueDelivery' /\ IdsFit'
  BY <1>1 DEF UniqueDelivery, IdsFit, IdFits, SeqsOf
<1>3. LifecycleChain'
  BY <1>1 DEF LifecycleChain, SeqsOf, NoItem, INITIAL_STATES, ALLOWED_TRANSITIONS, LifecycleStates
<1>4. EventsMirrored'
  BY <1>1 DEF EventsMirrored, SeqsOf, Exists, NoEvent
<1> QED BY <1>2, <1>3, <1>4

(* What a reader's step has to keep.                                         *)
LEMMA ReaderStep ==
    ASSUME OutboxIInv, UNCHANGED <<stale, rows, event, item, export, file, cut>>,
           batch' \in [Readers -> [seqs : SUBSET Nat, handled : BOOLEAN]],
           position' \in 0..Len(rows), handled' \subseteq 1..Len(rows),
           BatchesFit', ReadersMissNothing'
    PROVE  OutboxIInv'
<1>1. OutboxShape /\ CursorsTyped /\ TablesTyped /\ Len(rows) \in Nat
  BY TypeInTwo DEF OutboxIInv, OutboxInv, OutboxShape
<1>2. OutboxShape'
  BY <1>1 DEF OutboxShape, OutboxRow, Pieces, Newline, DeliveryIds, LifecycleStates, EventRow, EventStatuses
<1>3. CursorsTyped'
  <2>1. \A r \in Readers : batch'[r].seqs \subseteq 1..Len(rows) /\ batch'[r].handled \in BOOLEAN
    <3> SUFFICES ASSUME NEW r \in Readers PROVE batch'[r].seqs \subseteq 1..Len(rows) /\ batch'[r].handled \in BOOLEAN
      OBVIOUS
    <3>1. batch'[r].handled \in BOOLEAN
      OBVIOUS
    <3>2. BatchFits(r)'
      BY DEF BatchesFit
    <3>3. CASE batch'[r] = NoBatch'
      BY <3>1, <3>3 DEF NoBatch
    <3>4. CASE \E a \in Nat \ {0}, b \in Nat : a <= b /\ batch'[r].seqs = a..b /\ b <= Len(rows')
      BY <1>1, <3>1, <3>4
    <3> QED BY <3>2, <3>3, <3>4 DEF BatchFits
  <2> QED BY <1>1, <2>1 DEF CursorsTyped, Newline
<1>4. TablesTyped'
  BY <1>1 DEF TablesTyped, Exists, NoEvent, EventRow, EventStatuses, LifecycleStates, NoItem
<1>5. OutboxTypeOK'
  BY <1>2, <1>3, <1>4, TypeInTwo, PTL
<1>6. UniqueDelivery' /\ LifecycleChain' /\ EventsMirrored' /\ IdsFit'
  BY TablesSame
<1>7. ExportedReadable' /\ StartsLines(file)'
  BY DEF OutboxIInv, OutboxInv, ExportedReadable, ReadableIn, WholeAt, StartsLines, Newline
<1> QED BY <1>2, <1>5, <1>6, <1>7 DEF OutboxIInv, OutboxInv

(* Readers keep it, and no acknowledgement moves the cursor back.            *)
LEMMA ReadersKeep ==
    ASSUME OutboxIInv, NEW r \in Readers,
           read_pending(r) \/ Handle(r) \/ acknowledge(r) \/ ReaderDies(r)
    PROVE  OutboxIInv' /\ position' >= position
<1>1. /\ OutboxShape /\ CursorsTyped /\ Len(rows) \in Nat /\ position \in Nat /\ position <= Len(rows)
      /\ batch \in [Readers -> [seqs : SUBSET Nat, handled : BOOLEAN]]
      /\ handled \subseteq 1..Len(rows)
      /\ ReadersMissNothing /\ \A x \in Readers : BatchFits(x)
  BY TypeInTwo DEF OutboxIInv, OutboxInv, OutboxShape, CursorsTyped, BatchesFit
<1>2. NoBatch \in [seqs : SUBSET Nat, handled : BOOLEAN] /\ NoBatch.seqs = {} /\ NoBatch.handled = FALSE
  BY DEF NoBatch
<1>3. CASE read_pending(r)
  <2> DEFINE a == position + 1
             b == SmallerOf(Len(rows), position + ReadLimit)
             new == [batch[r] EXCEPT !.seqs = a..b]
  <2>1. /\ UNCHANGED <<stale, rows, event, item, position, handled, export, file, cut>>
        /\ batch' = [batch EXCEPT ![r] = new] /\ batch[r] = NoBatch /\ a..b # {}
    BY <1>1, <1>3 DEF read_pending, entries_after
  <2>2. a \in Nat \ {0} /\ b \in Nat /\ b <= Len(rows) /\ a <= position + 1
    BY <1>1, OutboxAssumption DEF SmallerOf
  <2> HIDE DEF a, b
  <2>3. a <= b
    BY <2>1, <2>2
  <2>4. a..b \subseteq Nat /\ batch[r].handled = FALSE
    BY <1>2, <2>1, <2>2
  <2>5. new \in [seqs : SUBSET Nat, handled : BOOLEAN] /\ new.seqs = a..b /\ new.handled = FALSE
    BY <1>1, <2>4
  <2> HIDE DEF new
  <2>6. batch' \in [Readers -> [seqs : SUBSET Nat, handled : BOOLEAN]]
    BY <1>1, <2>1, <2>5
  <2>7. BatchesFit'
    <3> SUFFICES ASSUME NEW x \in Readers PROVE BatchFits(x)'
      BY DEF BatchesFit
    <3>1. CASE x = r
      <4>1. batch'[x] = new
        BY <1>1, <2>1, <3>1
      <4> QED BY <2>1, <2>2, <2>3, <2>5, <4>1 DEF BatchFits
    <3>2. CASE x # r
      <4>1. batch'[x] = batch[x] /\ BatchFits(x)
        BY <1>1, <2>1, <3>2
      <4> QED BY <2>1, <4>1 DEF BatchFits, NoBatch
    <3> QED BY <3>1, <3>2
  <2>8. ReadersMissNothing'
    BY <1>1, <2>1 DEF ReadersMissNothing
  <2>9. position' \in 0..Len(rows) /\ handled' \subseteq 1..Len(rows) /\ position' >= position
    BY <1>1, <2>1
  <2> QED BY <2>1, <2>6, <2>7, <2>8, <2>9, ReaderStep
<1>4. CASE Handle(r)
  <2> DEFINE new == [batch[r] EXCEPT !.handled = TRUE]
  <2>1. /\ UNCHANGED <<stale, rows, event, item, position, export, file, cut>>
        /\ batch' = [batch EXCEPT ![r] = new] /\ batch[r] # NoBatch
        /\ handled' = handled \cup batch[r].seqs
    BY <1>1, <1>4 DEF Handle
  <2>2. new \in [seqs : SUBSET Nat, handled : BOOLEAN] /\ new.seqs = batch[r].seqs /\ new.handled = TRUE
    BY <1>1
  <2> HIDE DEF new
  <2>3. batch' \in [Readers -> [seqs : SUBSET Nat, handled : BOOLEAN]]
    BY <1>1, <2>1, <2>2
  <2>4. PICK a \in Nat \ {0}, b \in Nat :
          a <= b /\ batch[r].seqs = a..b /\ a <= position + 1 /\ b <= Len(rows)
    BY <1>1, <2>1 DEF BatchFits
  <2>5. BatchesFit'
    <3> SUFFICES ASSUME NEW x \in Readers PROVE BatchFits(x)'
      BY DEF BatchesFit
    <3>1. CASE x = r
      <4>1. batch'[x] = new
        BY <1>1, <2>1, <3>1
      <4>2. a..b \subseteq handled'
        BY <2>1, <2>4
      <4> QED BY <2>1, <2>2, <2>4, <4>1, <4>2 DEF BatchFits
    <3>2. CASE x # r
      <4>1. batch'[x] = batch[x] /\ BatchFits(x)
        BY <1>1, <2>1, <3>2
      <4>2. handled \subseteq handled'
        BY <2>1
      <4> QED BY <2>1, <4>1, <4>2 DEF BatchFits, NoBatch
    <3> QED BY <3>1, <3>2
  <2>6. ReadersMissNothing'
    BY <1>1, <2>1 DEF ReadersMissNothing
  <2>7. position' \in 0..Len(rows) /\ handled' \subseteq 1..Len(rows) /\ position' >= position
    BY <1>1, <2>1, <2>4
  <2> QED BY <2>1, <2>3, <2>5, <2>6, <2>7, ReaderStep
<1>5. CASE acknowledge(r)
  <2>1. /\ UNCHANGED <<stale, rows, event, item, handled, export, file, cut>>
        /\ batch' = [batch EXCEPT ![r] = NoBatch] /\ batch[r].handled
        /\ position' = Acknowledged(Max(batch[r].seqs))
    BY <1>5 DEF acknowledge
  <2>2. batch[r] # NoBatch
    BY <1>2, <2>1
  <2>3. PICK a \in Nat \ {0}, b \in Nat :
          a <= b /\ batch[r].seqs = a..b /\ a <= position + 1 /\ b <= Len(rows) /\ a..b \subseteq handled
    BY <1>1, <2>1, <2>2 DEF BatchFits
  <2>4. Max(batch[r].seqs) = b
    BY <2>3, MaxOfInterval
  <2>5. position' = IF b <= position THEN position ELSE b
    BY <1>1, <2>1, <2>3, <2>4 DEF Acknowledged
  <2>6. position' \in 0..Len(rows) /\ position' >= position
    BY <1>1, <2>3, <2>5
  <2>7. ReadersMissNothing'
    <3>1. 1..position \subseteq handled
      BY <1>1 DEF ReadersMissNothing
    <3>2. \A n \in 1..b : n \in 1..position \/ n \in a..b
      BY <1>1, <2>3
    <3> QED BY <2>1, <2>3, <2>5, <3>1, <3>2 DEF ReadersMissNothing
  <2>8. batch' \in [Readers -> [seqs : SUBSET Nat, handled : BOOLEAN]]
    BY <1>1, <1>2, <2>1
  <2>9. BatchesFit'
    <3> SUFFICES ASSUME NEW x \in Readers PROVE BatchFits(x)'
      BY DEF BatchesFit
    <3>1. CASE x = r
      BY <1>1, <2>1, <3>1 DEF BatchFits, NoBatch
    <3>2. CASE x # r
      <4>1. batch'[x] = batch[x] /\ BatchFits(x)
        BY <1>1, <2>1, <3>2
      <4>2. CASE batch[x] = NoBatch
        BY <2>1, <4>1, <4>2 DEF BatchFits, NoBatch
      <4>3. CASE batch[x] # NoBatch
        <5>1. PICK k \in Nat \ {0}, n \in Nat :
                /\ k <= n /\ batch[x].seqs = k..n /\ k <= position + 1 /\ n <= Len(rows)
                /\ batch[x].handled => k..n \subseteq handled
          BY <4>1, <4>3 DEF BatchFits
        <5>2. k <= position' + 1
          <6>1. position \in Int /\ position' \in Int /\ position <= position'
            BY <1>1, <2>6
          <6>2. k \in Int /\ k <= position + 1
            BY <5>1
          <6> DEFINE q == position'
          <6>3. q \in Int /\ position <= q
            BY <6>1
          <6> HIDE DEF q
          <6>4. k <= q + 1
            BY <6>1, <6>2, <6>3
          <6> QED BY <6>4 DEF q
        <5> QED BY <2>1, <4>1, <5>1, <5>2 DEF BatchFits
      <4> QED BY <4>2, <4>3
    <3> QED BY <3>1, <3>2
  <2>10. handled' \subseteq 1..Len(rows)
    BY <1>1, <2>1
  <2>11. UNCHANGED <<stale, rows, event, item, export, file, cut>>
    BY <2>1
  <2> QED BY <2>6, <2>7, <2>8, <2>9, <2>10, <2>11, ReaderStep
<1>6. CASE ReaderDies(r)
  <2>1. /\ UNCHANGED <<stale, rows, event, item, position, handled, export, file, cut>>
        /\ batch' = [batch EXCEPT ![r] = NoBatch]
    BY <1>6 DEF ReaderDies
  <2>2. batch' \in [Readers -> [seqs : SUBSET Nat, handled : BOOLEAN]]
    BY <1>1, <1>2, <2>1
  <2>3. BatchesFit'
    <3> SUFFICES ASSUME NEW x \in Readers PROVE BatchFits(x)'
      BY DEF BatchesFit
    <3>1. CASE x = r
      BY <1>1, <2>1, <3>1 DEF BatchFits, NoBatch
    <3>2. CASE x # r
      <4>1. batch'[x] = batch[x] /\ BatchFits(x)
        BY <1>1, <2>1, <3>2
      <4> QED BY <2>1, <4>1 DEF BatchFits, NoBatch
    <3> QED BY <3>1, <3>2
  <2>4. ReadersMissNothing' /\ position' \in 0..Len(rows) /\ handled' \subseteq 1..Len(rows) /\ position' >= position
    BY <1>1, <2>1 DEF ReadersMissNothing
  <2> QED BY <2>1, <2>2, <2>3, <2>4, ReaderStep
<1> QED BY <1>3, <1>4, <1>5, <1>6

-----------------------------------------------------------------------------
(* The export.                                                               *)

Placed == ((1..Len(rows)) \X {1, 2}) \cup {Newline}

(* What an export appends begins its lines and keeps a torn line apart; the  *)
(* rows it leaves out can be read from the file already.                     *)
LEMMA AppendedSound ==
    ASSUME OutboxIInv
    PROVE  /\ Appended \in Seq(Placed) /\ Appended \in Seq(Pieces) /\ StartsLines(Appended)
           /\ file # <<>> /\ file[Len(file)] # Newline => Appended # <<>> /\ Appended[1] = Newline
           /\ \A n \in export.position + 1..Len(rows) : ReadableIn(file \o Appended, n)
<1>1. /\ OutboxShape /\ CursorsTyped /\ rows \in Seq(OutboxRow) /\ Len(rows) \in Nat /\ file \in Seq(Pieces)
      /\ export.position \in Nat /\ export.byte_offset \in Nat /\ StartsLines(file) /\ UniqueDelivery
  BY TypeInTwo DEF OutboxIInv, OutboxInv, OutboxShape, CursorsTyped
<1> DEFINE L == LinesOf(Unseen)
           Sep == Separator
           N == Len(rows)
<1>2. Unseen \subseteq 1..N /\ Unseen \in SUBSET Nat /\ IsFiniteSet(Unseen)
  <2>1. Unseen \subseteq 1..N
    BY <1>1 DEF Unseen
  <2>2. IsFiniteSet(1..N)
    BY <1>1, UptoCounted
  <2>3. IsFiniteSet(Unseen)
    BY <2>1, <2>2, FS_Subset
  <2>4. Unseen \subseteq Nat
    BY <2>1
  <2> QED BY <2>1, <2>3, <2>4
<1>3. /\ L \in Seq((Unseen \X {1, 2}) \cup {Newline}) /\ StartsLines(L)
      /\ \A n \in Unseen : \E p \in 1..Len(L) :
            p + 2 <= Len(L) /\ L[p] = <<n, 1>> /\ L[p + 1] = <<n, 2>> /\ L[p + 2] = Newline
  BY <1>2, LinesWhole
<1>4. (Unseen \X {1, 2}) \cup {Newline} \subseteq Placed /\ Placed \subseteq Pieces
  <2>1. Unseen \X {1, 2} \subseteq (1..Len(rows)) \X {1, 2}
    BY <1>2
  <2>2. (1..Len(rows)) \X {1, 2} \subseteq Nat \X {1, 2}
    BY <1>1
  <2> QED BY <2>1, <2>2 DEF Placed, Pieces
<1>5. Sep = <<>> \/ Sep = <<Newline>>
  BY DEF Separator
<1>6. Sep \in Seq(Placed) /\ StartsLines(Sep) /\ (Sep # <<>> => Sep[Len(Sep)] = Newline)
  <2>1. CASE Sep = <<>>
    BY <2>1 DEF StartsLines
  <2>2. CASE Sep = <<Newline>>
    <3>1. Newline \in Placed
      BY DEF Placed
    <3>2. <<Newline>> \in Seq(Placed) /\ Len(<<Newline>>) = 1 /\ DOMAIN <<Newline>> = {1} /\ <<Newline>>[1] = Newline
      BY <3>1
    <3> QED BY <2>2, <3>2 DEF StartsLines
  <2> HIDE DEF Sep
  <2> QED BY <1>5, <2>1, <2>2
<1>7. file # <<>> /\ file[Len(file)] # Newline => Sep = <<Newline>>
  BY DEF Separator, Last
<1> HIDE DEF L, Sep
<1>8. L \in Seq(Placed) /\ L \in Seq(Pieces) /\ Sep \in Seq(Pieces)
  BY <1>3, <1>4, <1>6
<1>9. Appended = Sep \o L
  BY DEF Appended, L, Sep
<1>10. Appended \in Seq(Placed) /\ Appended \in Seq(Pieces)
  BY <1>6, <1>8, <1>9
<1>11. StartsLines(Appended)
  BY <1>3, <1>6, <1>8, <1>9, Extended
<1>12. file # <<>> /\ file[Len(file)] # Newline => Appended # <<>> /\ Appended[1] = Newline
  <2>1. ASSUME Sep = <<Newline>> PROVE Len(Sep \o L) >= 1 /\ (Sep \o L)[1] = Newline
    BY <1>8, <2>1
  <2>2. Sep = <<Newline>> => Appended # <<>> /\ Appended[1] = Newline
    BY <1>9, <1>10, <2>1
  <2> QED BY <1>7, <2>2
<1>13. ASSUME NEW n \in export.position + 1..N PROVE ReadableIn(file \o Appended, n)
  <2>0. n \in Nat /\ n \in DOMAIN rows
    BY <1>1
  <2>1. /\ \A x \in Nat : ReadableIn(file, x) => ReadableIn(file \o Appended, x)
        /\ \A x \in Nat : \A p \in 1..Len(Appended) :
              p + 2 <= Len(Appended) /\ Appended[p] = <<x, 1>> /\ Appended[p + 1] = <<x, 2>> /\ Appended[p + 2] = Newline
              => ReadableIn(file \o Appended, x)
    BY <1>1, <1>10, <1>11, <1>12, Extended
  <2>2. CASE n \in Unseen
    <3>1. PICK p \in 1..Len(L) :
            p + 2 <= Len(L) /\ L[p] = <<n, 1>> /\ L[p + 1] = <<n, 2>> /\ L[p + 2] = Newline
      BY <1>3, <2>2
    <3> DEFINE S == Len(Sep)
    <3>2. S \in Nat /\ Len(L) \in Nat /\ Len(Appended) = S + Len(L) /\ \A k \in 1..Len(L) : Appended[S + k] = L[k]
      BY <1>8, <1>9
    <3>3. p \in 1..Len(L) /\ p + 1 \in 1..Len(L) /\ p + 2 \in 1..Len(L)
      BY <3>1, <3>2
    <3> HIDE DEF S
    <3>4. S + p \in 1..S + Len(L) /\ (S + p) + 1 = S + (p + 1) /\ (S + p) + 2 = S + (p + 2) /\ (S + p) + 2 <= S + Len(L)
      BY <3>1, <3>2
    <3>5. Appended[S + p] = <<n, 1>> /\ Appended[(S + p) + 1] = <<n, 2>> /\ Appended[(S + p) + 2] = Newline
      BY <3>1, <3>2, <3>3, <3>4, SMTT(30)
    <3> QED BY <2>0, <2>1, <3>2, <3>4, <3>5
  <2>3. CASE n \notin Unseen
    <3> DEFINE start == IF export.byte_offset <= Len(file) THEN export.byte_offset + 1 ELSE 1
    <3>1. rows[n].id \in delivery_ids_in(export.byte_offset)
      BY <2>3 DEF Unseen
    <3>2. PICK m \in DOMAIN rows : /\ rows[n].id = rows[m].id
                                   /\ \E k \in start..Len(file) : WholeAt(file, start, k, m)
      BY <3>1 DEF delivery_ids_in
    <3>3. m = n
      BY <1>1, <2>0, <3>2 DEF UniqueDelivery
    <3>4. PICK k \in start..Len(file) : WholeAt(file, start, k, n)
      BY <3>2, <3>3
    <3>5. start \in Nat \ {0} /\ Len(file) \in Nat /\ DOMAIN file = 1..Len(file)
      BY <1>1
    <3> HIDE DEF start
    <3>6. k \in DOMAIN file
      BY <3>4, <3>5
    <3>7. /\ k + 1 <= Len(file) /\ file[k] = <<n, 1>> /\ file[k + 1] = <<n, 2>>
          /\ k + 1 = Len(file) \/ file[k + 2] = Newline
      BY <3>4 DEF WholeAt
    <3>8. k = 1 \/ file[k - 1] = Newline
      BY <1>1, <3>6, <3>7 DEF StartsLines
    <3>9. ReadableIn(file, n)
      BY <3>6, <3>7, <3>8 DEF ReadableIn, WholeAt
    <3> QED BY <2>0, <2>1, <3>9
  <2> QED BY <2>2, <2>3
<1> QED BY <1>10, <1>11, <1>12, <1>13

(* What a step of the export or on its file has to keep.                     *)
LEMMA FileStep ==
    ASSUME OutboxIInv, UNCHANGED <<stale, rows, event, item, position, batch, handled>>,
           file' \in Seq(Pieces), \A k \in DOMAIN file' : file'[k] \in Placed, StartsLines(file'),
           export' \in [position : Nat, byte_offset : Nat], export'.position <= Len(rows),
           cut' \subseteq 1..Len(rows),
           \A n \in 1..export'.position : ReadableIn(file', n) \/ n \in cut'
    PROVE  OutboxIInv'
<1>1. OutboxShape /\ CursorsTyped /\ TablesTyped /\ Len(rows) \in Nat
  BY TypeInTwo DEF OutboxIInv, OutboxInv, OutboxShape
<1>2. OutboxShape'
  BY <1>1 DEF OutboxShape, OutboxRow, Pieces, Newline, DeliveryIds, LifecycleStates, EventRow, EventStatuses
<1>3. CursorsTyped'
  <2>1. export'.position \in 0..Len(rows) /\ export'.byte_offset \in Nat
    BY <1>1
  <2> QED BY <1>1, <2>1 DEF CursorsTyped, Newline, Placed
<1>4. TablesTyped'
  BY <1>1 DEF TablesTyped, Exists, NoEvent, EventRow, EventStatuses, LifecycleStates, NoItem
<1>5. OutboxTypeOK'
  BY <1>2, <1>3, <1>4, TypeInTwo, PTL
<1>6. UniqueDelivery' /\ LifecycleChain' /\ EventsMirrored' /\ IdsFit'
  BY TablesSame
<1>7. ReadersMissNothing' /\ BatchesFit'
  BY DEF OutboxIInv, OutboxInv, ReadersMissNothing, BatchesFit, BatchFits, NoBatch
<1>8. ExportedReadable' /\ StartsLines(file)'
  BY DEF ExportedReadable, ReadableIn, WholeAt, StartsLines, Newline
<1> QED BY <1>2, <1>5, <1>6, <1>7, <1>8 DEF OutboxIInv, OutboxInv

(* Exports, whole or torn, and a cut file keep it; the export's cursor advances.*)
LEMMA ExportKeeps ==
    ASSUME OutboxIInv, export_jsonl \/ ExportInterrupted \/ Shrink
    PROVE  OutboxIInv' /\ export'.position >= export.position
<1>1. /\ OutboxShape /\ CursorsTyped /\ Len(rows) \in Nat /\ file \in Seq(Pieces) /\ StartsLines(file)
      /\ export \in [position : Nat, byte_offset : Nat] /\ export.position <= Len(rows)
      /\ cut \subseteq 1..Len(rows) /\ \A k \in DOMAIN file : file[k] \in Placed
      /\ \A n \in 1..export.position : ReadableIn(file, n) \/ n \in cut
  BY TypeInTwo DEF OutboxIInv, OutboxInv, OutboxShape, CursorsTyped, ExportedReadable, Placed
<1>2. /\ Appended \in Seq(Placed) /\ Appended \in Seq(Pieces) /\ StartsLines(Appended)
      /\ file # <<>> /\ file[Len(file)] # Newline => Appended # <<>> /\ Appended[1] = Newline
      /\ \A n \in export.position + 1..Len(rows) : ReadableIn(file \o Appended, n)
  BY AppendedSound
<1>3. file \in Seq(Placed)
  BY <1>1
<1>4. ASSUME NEW g \in Seq(Placed), g \in Seq(Pieces), StartsLines(g),
             file # <<>> /\ g # <<>> /\ file[Len(file)] # Newline => g[1] = Newline
      PROVE  /\ file \o g \in Seq(Pieces) /\ \A k \in DOMAIN (file \o g) : (file \o g)[k] \in Placed
             /\ StartsLines(file \o g)
             /\ \A n \in 1..export.position : ReadableIn(file \o g, n) \/ n \in cut
  <2>1. file \o g \in Seq(Placed)
    BY <1>3
  <2>2. /\ file \o g \in Seq(Pieces) /\ StartsLines(file \o g)
        /\ \A n \in Nat : ReadableIn(file, n) => ReadableIn(file \o g, n)
    BY <1>1, <1>4, Extended
  <2>3. \A n \in 1..export.position : n \in Nat
    BY <1>1
  <2> QED BY <1>1, <2>1, <2>2, <2>3
<1>5. CASE export_jsonl
  <2>1. /\ file' = file \o Appended /\ export' = [position |-> Len(rows), byte_offset |-> Len(file')]
        /\ UNCHANGED <<stale, rows, event, item, position, batch, handled, cut>>
        /\ export.position < Len(rows)
    BY <1>5 DEF export_jsonl, Saved
  <2>2. /\ file' \in Seq(Pieces) /\ \A k \in DOMAIN file' : file'[k] \in Placed
        /\ StartsLines(file')
        /\ \A n \in 1..export.position : ReadableIn(file', n) \/ n \in cut
    BY <1>2, <1>4, <2>1
  <2>3. Len(file') \in Nat
    BY <2>2
  <2>4. export' \in [position : Nat, byte_offset : Nat] /\ export'.position = Len(rows)
    BY <1>1, <2>1, <2>3
  <2>5. \A n \in 1..Len(rows) : n \in 1..export.position \/ n \in export.position + 1..Len(rows)
    BY <1>1
  <2>6. \A n \in 1..export'.position : ReadableIn(file', n) \/ n \in cut'
    BY <1>2, <2>1, <2>2, <2>4, <2>5
  <2>7. export'.position <= Len(rows) /\ cut' \subseteq 1..Len(rows) /\ export'.position >= export.position
    BY <1>1, <2>1, <2>4
  <2> QED BY <2>1, <2>2, <2>4, <2>6, <2>7, FileStep
<1>6. CASE ExportInterrupted
  <2>1. PICK k \in 1..Len(Appended) : file' = file \o SubSeq(Appended, 1, k)
    BY <1>6 DEF ExportInterrupted
  <2>2. UNCHANGED <<stale, rows, event, item, position, batch, handled, export, cut>>
    BY <1>6 DEF ExportInterrupted
  <2> DEFINE g == SubSeq(Appended, 1, k)
  <2>3. k \in 0..Len(Appended) /\ 1 \in 1..k /\ k \in 1..Len(Appended)
    BY <1>2
  <2>4. g \in Seq(Pieces) /\ StartsLines(g) /\ \A j \in 1..k : g[j] = Appended[j]
    BY <1>2, <2>3, PrefixStartsLines
  <2>5. g \in Seq(Placed)
    BY <1>2, <2>3
  <2> HIDE DEF g
  <2>6. /\ file' \in Seq(Pieces) /\ \A j \in DOMAIN file' : file'[j] \in Placed
        /\ StartsLines(file')
        /\ \A n \in 1..export.position : ReadableIn(file', n) \/ n \in cut
    <3>1. file' = file \o g
      BY <2>1 DEF g
    <3>2. file # <<>> /\ g # <<>> /\ file[Len(file)] # Newline => g[1] = Newline
      BY <1>2, <2>3, <2>4
    <3> QED BY <1>4, <2>4, <2>5, <3>1, <3>2
  <2>7. /\ export' \in [position : Nat, byte_offset : Nat] /\ export'.position <= Len(rows)
        /\ cut' \subseteq 1..Len(rows) /\ export'.position >= export.position
        /\ \A n \in 1..export'.position : ReadableIn(file', n) \/ n \in cut'
    BY <1>1, <2>2, <2>6
  <2> QED BY <2>2, <2>6, <2>7, FileStep
<1>7. CASE Shrink
  <2>1. PICK k \in 0..Len(file) - 1 : file' = SubSeq(file, 1, k)
    BY <1>7 DEF Shrink
  <2>2. /\ UNCHANGED <<stale, rows, event, item, position, batch, handled, export>>
        /\ cut' = cut \cup {n \in DOMAIN rows : ReadableIn(file, n) /\ ~ ReadableIn(file', n)}
    BY <1>7 DEF Shrink
  <2>3. k \in 0..Len(file) /\ 1..k \subseteq DOMAIN file
    BY <1>1
  <2>4. file' \in Seq(Pieces) /\ Len(file') = k /\ StartsLines(file') /\ \A j \in 1..k : file'[j] = file[j]
    BY <1>1, <2>1, <2>3, PrefixStartsLines
  <2>5. \A j \in DOMAIN file' : file'[j] \in Placed
    BY <1>1, <2>3, <2>4
  <2>6. DOMAIN rows = 1..Len(rows)
    BY <1>1 DEF OutboxShape
  <2>7. \A n \in 1..export.position : n \in DOMAIN rows
    BY <1>1, <2>6
  <2>8. \A n \in 1..export'.position : ReadableIn(file', n) \/ n \in cut'
    BY <1>1, <2>2, <2>7
  <2>9. cut' \subseteq 1..Len(rows)
    BY <1>1, <2>2, <2>6
  <2>10. export' \in [position : Nat, byte_offset : Nat] /\ export'.position <= Len(rows) /\ export'.position >= export.position
    BY <1>1, <2>2
  <2> QED BY <2>2, <2>4, <2>5, <2>8, <2>9, <2>10, FileStep
<1> QED BY <1>5, <1>6, <1>7

-----------------------------------------------------------------------------
(* Every step.                                                               *)

(* It holds initially.                                                       *)
LEMMA InitSound == OutboxInit => OutboxIInv
<1> SUFFICES ASSUME OutboxInit PROVE OutboxIInv
  OBVIOUS
<1>1. /\ rows = <<>> /\ file = <<>> /\ event = [e \in Events |-> NoEvent] /\ stale = {}
      /\ item = [i \in Items |-> NoItem] /\ position = 0 /\ handled = {} /\ cut = {}
      /\ batch = [r \in Readers |-> NoBatch] /\ export = [position |-> 0, byte_offset |-> 0]
  BY DEF OutboxInit
<1>2. rows \in Seq(OutboxRow) /\ Len(rows) = 0 /\ DOMAIN rows = {} /\ file \in Seq(Pieces) /\ DOMAIN file = {}
  BY <1>1
<1>3. NoBatch \in [seqs : SUBSET Nat, handled : BOOLEAN] /\ NoBatch.seqs = {}
  BY DEF NoBatch
<1>4. OutboxShape
  BY <1>1, <1>2, <1>3, OutboxAssumption DEF OutboxShape
<1>5. \A r \in Readers : batch[r] = NoBatch /\ batch[r].seqs \subseteq 1..Len(rows) /\ batch[r].handled \in BOOLEAN
  BY <1>1, <1>3
<1>6. CursorsTyped
  BY <1>1, <1>2, <1>5 DEF CursorsTyped
<1>7. TablesTyped
  BY <1>1 DEF TablesTyped
<1>8. IdsFit /\ UniqueDelivery /\ StartsLines(file) /\ BatchesFit
  BY <1>1, <1>2, <1>5 DEF IdsFit, UniqueDelivery, StartsLines, BatchesFit, BatchFits
<1>9. \A kind, x : SeqsOf(rows, kind, x) = {}
  BY <1>2 DEF SeqsOf
<1>10. LifecycleChain /\ EventsMirrored
  BY <1>1, <1>9 DEF LifecycleChain, EventsMirrored, Exists
<1>11. ReadersMissNothing /\ ExportedReadable
  BY <1>1 DEF ReadersMissNothing, ExportedReadable
<1> QED BY <1>4, <1>6, <1>7, <1>8, <1>10, <1>11, TypeInTwo DEF OutboxIInv, OutboxInv

(* Each write to an events row goes through _event_write with rows that are  *)
(* rows of the table.                                                        *)
LEMMA EventsChange ==
    ASSUME OutboxIInv, NEW es \in SUBSET Events, NEW st \in EventStatuses, \A e \in es : Exists(e)
    PROVE  SetStatus(es, st) \in [es -> EventRow]
<1>1. event \in [Events -> EventRow \cup {NoEvent}]
  BY DEF OutboxIInv, OutboxInv, OutboxTypeOK
<1>2. \A e \in es : event[e] \in EventRow
  BY <1>1 DEF Exists
<1>3. \A e \in es : [event[e] EXCEPT !.status = st] \in EventRow
  BY <1>2 DEF EventRow
<1> QED BY <1>3 DEF SetStatus

(* Every step keeps it and moves no cursor back.                             *)
LEMMA NextSound ==
    ASSUME OutboxIInv, [OutboxNext]_outboxVars
    PROVE  OutboxIInv' /\ position' >= position /\ export'.position >= export.position
<1>1. /\ event \in [Events -> EventRow \cup {NoEvent}] /\ stale \subseteq {e \in Events : Exists(e)}
      /\ position \in Int /\ export.position \in Int
  BY DEF OutboxIInv, OutboxInv, OutboxTypeOK
<1>0. OutboxShape /\ CursorsTyped /\ TablesTyped
  BY TypeInTwo DEF OutboxIInv, OutboxInv
<1> DEFINE Goal == OutboxIInv' /\ position' >= position /\ export'.position >= export.position
<1>2. ASSUME NEW es \in SUBSET Events, NEW change \in [es -> EventRow], WriteEvents(es, change), stale' \subseteq stale
      PROVE  Goal
  <2>1. OutboxIInv'
    BY <1>2, Written
  <2>2. position' = position /\ export' = export
    BY <1>2 DEF WriteEvents
  <2> QED BY <1>1, <2>1, <2>2
<1>3. ASSUME NEW es \in SUBSET Events, NEW change \in [es -> EventRow], EventWrite(es, change)
      PROVE  Goal
  BY <1>2, <1>3 DEF EventWrite
<1>4. ASSUME NEW e \in Events, insert_event(e) PROVE Goal
  <2>1. [NoEvent EXCEPT !.status = "PENDING"] \in EventRow
    BY DEF NoEvent, EventRow, EventStatuses
  <2>2. [x \in {e} |-> [NoEvent EXCEPT !.status = "PENDING"]] \in [{e} -> EventRow]
    BY <2>1
  <2> QED BY <1>3, <1>4, <2>2 DEF insert_event
<1>5. ASSUME NEW e \in Events, NEW st \in EventStatuses, Exists(e), EventWrite({e}, SetStatus({e}, st))
      PROVE  Goal
  <2>1. SetStatus({e}, st) \in [{e} -> EventRow]
    BY <1>5, EventsChange
  <2> QED BY <1>3, <1>5, <2>1
<1>6. ASSUME NEW e \in Events, claim_event_for_processing(e) PROVE Goal
  <2>1. Exists(e)
    BY <1>6 DEF claim_event_for_processing, Exists, NoEvent
  <2>2. "PROCESSING" \in EventStatuses
    BY DEF EventStatuses
  <2> QED BY <1>5, <1>6, <2>1, <2>2 DEF claim_event_for_processing
<1>7. ASSUME NEW es \in SUBSET Events, find_stale_processing(es) PROVE Goal
  <2>1. /\ stale' = es /\ \A e \in es : event[e].status = "PROCESSING"
        /\ UNCHANGED <<rows, event, item, position, batch, handled, export, file, cut>>
    BY <1>7 DEF find_stale_processing
  <2>2. \A e \in es : Exists(e)
    BY <2>1 DEF Exists, NoEvent
  <2>3. TablesTyped'
    BY <1>0, <2>1, <2>2 DEF TablesTyped, Exists, NoEvent, EventRow, EventStatuses, LifecycleStates, NoItem
  <2>4. OutboxShape' /\ CursorsTyped'
    BY <1>0, <2>1 DEF OutboxShape, CursorsTyped, OutboxRow, Pieces, Newline, DeliveryIds, LifecycleStates, EventRow, EventStatuses
  <2>5. OutboxTypeOK'
    BY <2>3, <2>4, TypeInTwo, PTL
  <2>6. UniqueDelivery' /\ LifecycleChain' /\ EventsMirrored' /\ IdsFit'
    BY <2>1, TablesSame
  <2>7. ReadersMissNothing' /\ BatchesFit'
    BY <2>1 DEF OutboxIInv, OutboxInv, ReadersMissNothing, BatchesFit, BatchFits, NoBatch
  <2>8. ExportedReadable' /\ StartsLines(file)'
    BY <2>1 DEF OutboxIInv, OutboxInv, ExportedReadable, ReadableIn, WholeAt, StartsLines, Newline
  <2>9. OutboxIInv'
    BY <2>4, <2>5, <2>6, <2>7, <2>8 DEF OutboxIInv, OutboxInv
  <2> QED BY <1>1, <2>1, <2>9
<1>8. CASE recover_stale_processing
  <2>1. WriteEvents(stale, SetStatus(stale, "PENDING")) /\ stale' = {}
    BY <1>8 DEF recover_stale_processing
  <2>2. stale \in SUBSET Events /\ \A e \in stale : Exists(e)
    BY <1>1
  <2>3. "PENDING" \in EventStatuses
    BY DEF EventStatuses
  <2>4. SetStatus(stale, "PENDING") \in [stale -> EventRow]
    BY <2>2, <2>3, EventsChange
  <2>5. stale' \subseteq stale
    BY <2>1
  <2> QED BY <1>2, <2>1, <2>2, <2>4, <2>5
<1>9. ASSUME UNCHANGED <<rows, event, item, position, batch, handled, export, file, cut>>, stale' \subseteq stale PROVE Goal
  <2>3. TablesTyped'
    BY <1>0, <1>9 DEF TablesTyped, Exists, NoEvent, EventRow, EventStatuses, LifecycleStates, NoItem
  <2>4. OutboxShape' /\ CursorsTyped'
    BY <1>0, <1>9 DEF OutboxShape, CursorsTyped, OutboxRow, Pieces, Newline, DeliveryIds, LifecycleStates, EventRow, EventStatuses
  <2>5. OutboxTypeOK'
    BY <2>3, <2>4, TypeInTwo, PTL
  <2>6. UniqueDelivery' /\ LifecycleChain' /\ EventsMirrored' /\ IdsFit'
    BY <1>9, TablesSame
  <2>7. ReadersMissNothing' /\ BatchesFit'
    BY <1>9 DEF OutboxIInv, OutboxInv, ReadersMissNothing, BatchesFit, BatchFits, NoBatch
  <2>8. ExportedReadable' /\ StartsLines(file)'
    BY <1>9 DEF OutboxIInv, OutboxInv, ExportedReadable, ReadableIn, WholeAt, StartsLines, Newline
  <2>9. OutboxIInv'
    BY <2>4, <2>5, <2>6, <2>7, <2>8 DEF OutboxIInv, OutboxInv
  <2> QED BY <1>1, <1>9, <2>9
<1>10. CASE RecoveryFails
  BY <1>9, <1>10 DEF RecoveryFails
<1>11. ASSUME NEW e \in Events, NEW st \in EventStatuses, update_event_status(e, st) PROVE Goal
  BY <1>5, <1>11 DEF update_event_status
<1>12. ASSUME NEW e \in Events, NEW st \in {"PROCESSED", "DEFERRED", "FAILED"}, mark_event(e, st) PROVE Goal
  <2>1. st \in EventStatuses
    BY DEF EventStatuses
  <2> QED BY <1>5, <1>12, <2>1 DEF mark_event
<1>13. ASSUME NEW e \in Events, mark_event_notified(e) PROVE Goal
  <2>1. event[e] \in EventRow
    BY <1>1, <1>13 DEF mark_event_notified, Exists
  <2>2. [event[e] EXCEPT !.notified = TRUE] \in EventRow
    BY <2>1 DEF EventRow
  <2>3. [x \in {e} |-> [event[e] EXCEPT !.notified = TRUE]] \in [{e} -> EventRow]
    BY <2>2
  <2> QED BY <1>3, <1>13, <2>3 DEF mark_event_notified
<1>14. ASSUME NEW e \in Events, NEW st \in NtfyStatuses, set_ntfy_status(e, st) PROVE Goal
  <2> DEFINE new == [event[e] EXCEPT !.ntfy = st]
  <2>1. /\ Exists(e) /\ event' = [event EXCEPT ![e] = new]
        /\ UNCHANGED <<stale, rows, item, position, batch, handled, export, file, cut>>
    BY <1>1, <1>14 DEF set_ntfy_status
  <2>2. event[e] \in EventRow
    BY <1>1, <2>1 DEF Exists
  <2>3. new \in EventRow /\ new.status = event[e].status /\ new.notified = event[e].notified
    BY <2>2 DEF EventRow
  <2> HIDE DEF new
  <2>4. new # NoEvent
    BY <2>3 DEF EventRow, EventStatuses, NoEvent
  <2>5. \A x \in Events : /\ event'[x] = IF x = e THEN new ELSE event[x]
                          /\ event'[x] # NoEvent => event[x] # NoEvent
                          /\ event[x] # NoEvent => event'[x] # NoEvent
    BY <1>1, <2>1, <2>4 DEF Exists
  <2>6. TablesTyped'
    <3>1. event' \in [Events -> EventRow \cup {NoEvent}]
      BY <1>1, <2>1, <2>3
    <3>2. stale' \subseteq {x \in Events : event'[x] # NoEvent}
      BY <1>1, <2>1, <2>5 DEF Exists
    <3> QED BY <1>0, <2>1, <3>1, <3>2 DEF TablesTyped, Exists, NoEvent, EventRow, EventStatuses, LifecycleStates, NoItem
  <2>7. OutboxShape' /\ CursorsTyped'
    BY <1>0, <2>1 DEF OutboxShape, CursorsTyped, OutboxRow, Pieces, Newline, DeliveryIds, LifecycleStates, EventRow, EventStatuses
  <2>8. OutboxTypeOK'
    BY <2>6, <2>7, TypeInTwo, PTL
  <2>9. UniqueDelivery' /\ IdsFit'
    BY <2>1 DEF OutboxIInv, OutboxInv, UniqueDelivery, IdsFit, IdFits, SeqsOf
  <2>10. LifecycleChain'
    BY <2>1 DEF OutboxIInv, OutboxInv, LifecycleChain, SeqsOf, NoItem, INITIAL_STATES, ALLOWED_TRANSITIONS, LifecycleStates
  <2>11. EventsMirrored'
    <3> SUFFICES ASSUME NEW x \in Events, event'[x] # NoEvent
                 PROVE  \E n \in SeqsOf(rows, "EVENT", x) :
                           /\ \A m \in SeqsOf(rows, "EVENT", x) : m <= n
                           /\ rows[n].payload.status = event'[x].status
                           /\ rows[n].payload.notified = event'[x].notified
      BY <2>1 DEF EventsMirrored, Exists, NoEvent, SeqsOf
    <3>1. event[x] # NoEvent /\ event'[x].status = event[x].status /\ event'[x].notified = event[x].notified
      BY <2>3, <2>5
    <3> QED BY <3>1 DEF OutboxIInv, OutboxInv, EventsMirrored, Exists
  <2>12. ReadersMissNothing' /\ BatchesFit'
    BY <2>1 DEF OutboxIInv, OutboxInv, ReadersMissNothing, BatchesFit, BatchFits, NoBatch
  <2>13. ExportedReadable' /\ StartsLines(file)'
    BY <2>1 DEF OutboxIInv, OutboxInv, ExportedReadable, ReadableIn, WholeAt, StartsLines, Newline
  <2>14. OutboxIInv'
    BY <2>7, <2>8, <2>9, <2>10, <2>11, <2>12, <2>13 DEF OutboxIInv, OutboxInv
  <2> QED BY <1>1, <2>1, <2>14
<1>15. ASSUME NEW i \in Items, NEW st \in LifecycleStates, record_lifecycle_transition(i, st) PROVE Goal
  <2>1. OutboxIInv'
    BY <1>15, TransitionRecorded
  <2>2. position' = position /\ export' = export
    BY <1>15 DEF record_lifecycle_transition
  <2> QED BY <1>1, <2>1, <2>2
<1>16. ASSUME NEW h \in Handoffs, record_handoff(h) PROVE Goal
  <2>1. OutboxIInv'
    BY <1>16, HandoffRecorded
  <2>2. position' = position /\ export' = export
    BY <1>16 DEF record_handoff
  <2> QED BY <1>1, <2>1, <2>2
<1>17. ASSUME NEW r \in Readers, read_pending(r) \/ Handle(r) \/ acknowledge(r) \/ ReaderDies(r) PROVE Goal
  <2>1. OutboxIInv' /\ position' >= position
    BY <1>17, ReadersKeep
  <2>2. export' = export
    BY <1>17 DEF read_pending, Handle, acknowledge, ReaderDies
  <2> QED BY <1>1, <2>1, <2>2
<1>18. CASE export_jsonl \/ ExportInterrupted \/ Shrink
  <2>1. OutboxIInv' /\ export'.position >= export.position
    BY <1>18, ExportKeeps
  <2>2. position' = position
    BY <1>18 DEF export_jsonl, ExportInterrupted, Shrink
  <2> QED BY <1>1, <2>1, <2>2
<1>19. CASE UNCHANGED outboxVars
  BY <1>9, <1>19 DEF outboxVars
<1>20. CASE OutboxNext
  <2>1. CASE \E e \in Events : insert_event(e)
    BY <1>4, <2>1
  <2>2. CASE \E e \in Events : claim_event_for_processing(e)
    BY <1>6, <2>2
  <2>3. CASE \E es \in SUBSET Events : find_stale_processing(es)
    BY <1>7, <2>3
  <2>4. CASE \E e \in Events, st \in EventStatuses : update_event_status(e, st)
    BY <1>11, <2>4
  <2>5. CASE \E e \in Events, st \in {"PROCESSED", "DEFERRED", "FAILED"} : mark_event(e, st)
    BY <1>12, <2>5
  <2>6. CASE \E e \in Events : mark_event_notified(e)
    BY <1>13, <2>6
  <2>7. CASE \E e \in Events, st \in NtfyStatuses : set_ntfy_status(e, st)
    BY <1>14, <2>7
  <2>8. CASE \E i \in Items, st \in LifecycleStates : record_lifecycle_transition(i, st)
    BY <1>15, <2>8
  <2>9. CASE \E h \in Handoffs : record_handoff(h)
    BY <1>16, <2>9
  <2>10. CASE \E r \in Readers : read_pending(r) \/ Handle(r) \/ acknowledge(r) \/ ReaderDies(r)
    BY <1>17, <2>10
  <2> QED
    BY <1>8, <1>10, <1>18, <1>20, <2>1, <2>2, <2>3, <2>4, <2>5, <2>6, <2>7, <2>8, <2>9, <2>10 DEF OutboxNext
<1> QED BY <1>19, <1>20

-----------------------------------------------------------------------------
(* The outbox keeps what it promises for any number of events, items,        *)
(* handoffs and readers, however writes, recoveries, readers and exports     *)
(* interleave, die half way or find the file cut: delivery ids are unique    *)
(* (append_outbox), an item's rows are a path of allowed moves               *)
(* (record_lifecycle_transition), the rows mirror the events table           *)
(* (_event_write), no row behind the readers' cursor was missed              *)
(* (acknowledge) and none behind the export's is lost (export_jsonl).        *)
THEOREM OutboxSound == OutboxSpec => []OutboxInv
<1>1. OutboxInit => OutboxIInv
  BY InitSound
<1>2. OutboxIInv /\ [OutboxNext]_outboxVars => OutboxIInv'
  BY NextSound
<1>3. OutboxIInv => OutboxInv
  BY DEF OutboxIInv
<1> QED BY <1>1, <1>2, <1>3, PTL DEF OutboxSpec

(* No acknowledgement, however late, and no export moves a cursor back       *)
(* (acknowledge, export_jsonl).                                              *)
THEOREM CursorsAdvance == OutboxSpec => CursorsForward
<1>1. OutboxInit => OutboxIInv
  BY InitSound
<1>2. OutboxIInv /\ [OutboxNext]_outboxVars => OutboxIInv'
  BY NextSound
<1>3. OutboxIInv /\ [OutboxNext]_outboxVars => [position' >= position /\ export'.position >= export.position]_outboxVars
  BY NextSound
<1> QED BY <1>1, <1>2, <1>3, PTL DEF OutboxSpec, CursorsForward

-----------------------------------------------------------------------------
(* The outbox implements the delivery log.                                  *)

(* A record ends its line: a newline follows it, or nothing yet.             *)
EndsLines(f) == \A k \in DOMAIN f : f[k][2] = 2 => k = Len(f) \/ f[k + 1] = Newline

(* The record of row n stands in f, whole, at piece k.                       *)
Holds(f, k, n) == k \in 1..Len(f) - 1 /\ f[k] = <<n, 1>> /\ f[k + 1] = <<n, 2>>

(* The file shows the rows 1 to e, each once and in their order, and no      *)
(* other row.                                                                *)
Shows(f, e) ==
    /\ \A n \in 1..e : \E k \in 1..Len(f) : Holds(f, k, n)
    /\ \A k \in 1..Len(f) : \A n \in Nat : Holds(f, k, n) => n \in 1..e
    /\ \A k, l \in 1..Len(f) : \A m, n \in Nat : Holds(f, k, m) /\ Holds(f, l, n) /\ k < l => m < n

(* What the cursor x of the export knows of the file, of an outbox of size   *)
(* rows: no row it has not passed stands before its offset, nothing          *)
(* follows the line of the last row, and the line of the last exported row   *)
(* ends at the offset.                                                       *)
OffsetFits(f, x, size) ==
    /\ \A k \in 1..Len(f) : \A n \in Nat : Holds(f, k, n) /\ n > x.position => k > x.byte_offset
    /\ \A k \in 1..Len(f) : Holds(f, k, size) => Len(f) <= k + 2
    /\ \/ x.position = 0 /\ x.byte_offset = 0
       \/ x.byte_offset >= 3 /\ Holds(f, x.byte_offset - 2, x.position)

(* The inductive invariant of the export, as long as nobody cut a record     *)
(* out of the file.                                                          *)
FileInOrder ==
    /\ EndsLines(file)
    /\ cut = {} => /\ \E e \in export.position..Len(rows) : Shows(file, e)
                   /\ OffsetFits(file, export, Len(rows))

(* A reader that starts anywhere finds the records that stand after it.      *)
LEMMA WholeIsHeld ==
    ASSUME NEW f \in Seq(Pieces), StartsLines(f), EndsLines(f),
           NEW start \in Nat \ {0}, NEW k \in start..Len(f), NEW n \in Nat
    PROVE  WholeAt(f, start, k, n) <=> Holds(f, k, n)
<1>1. Len(f) \in Nat /\ DOMAIN f = 1..Len(f) /\ k \in 1..Len(f)
  OBVIOUS
<1>2. ASSUME WholeAt(f, start, k, n) PROVE Holds(f, k, n)
  <2>1. k + 1 <= Len(f) /\ f[k] = <<n, 1>> /\ f[k + 1] = <<n, 2>>
    BY <1>2 DEF WholeAt
  <2>2. k \in 1..Len(f) - 1
    BY <1>1, <2>1
  <2> QED BY <2>1, <2>2 DEF Holds
<1>3. ASSUME Holds(f, k, n) PROVE WholeAt(f, start, k, n)
  <2>1. k + 1 \in 1..Len(f) /\ f[k] = <<n, 1>> /\ f[k + 1] = <<n, 2>> /\ k + 1 <= Len(f)
    BY <1>1, <1>3 DEF Holds
  <2>2. k = 1 \/ f[k - 1] = Newline
    BY <1>1, <2>1 DEF StartsLines
  <2>3. k = 1 => k = start
    BY <1>1
  <2>4. k + 1 = Len(f) \/ f[(k + 1) + 1] = Newline
    <3>1. f[k + 1][2] = 2
      BY <2>1
    <3>2. k + 1 \in DOMAIN f
      BY <1>1, <2>1
    <3> QED BY <3>1, <3>2 DEF EndsLines
  <2>5. (k + 1) + 1 = k + 2
    BY <1>1
  <2> QED BY <2>1, <2>2, <2>3, <2>4, <2>5 DEF WholeAt
<1> QED BY <1>2, <1>3

(* What stands in a file to which more was written.                          *)
LEMMA Joined ==
    ASSUME NEW f \in Seq(Pieces), NEW g \in Seq(Pieces),
           f # <<>> /\ g # <<>> /\ f[Len(f)] # Newline => g[1] = Newline
    PROVE  /\ EndsLines(f) /\ EndsLines(g) => EndsLines(f \o g)
           /\ \A k \in 1..Len(f) + Len(g), n \in Nat :
                 Holds(f \o g, k, n) <=> Holds(f, k, n) \/ (k > Len(f) /\ Holds(g, k - Len(f), n))
<1> DEFINE h == f \o g
           F == Len(f)
           G == Len(g)
<1>1. /\ F \in Nat /\ G \in Nat /\ h \in Seq(Pieces) /\ Len(h) = F + G
      /\ DOMAIN f = 1..F /\ DOMAIN g = 1..G /\ DOMAIN h = 1..F + G
  OBVIOUS
<1>2. /\ \A k \in 1..F : h[k] = f[k]
      /\ \A k \in 1..G : h[F + k] = g[k]
  OBVIOUS
<1>3. F >= 1 => f # <<>>
  OBVIOUS
<1>4. G >= 1 => g # <<>>
  OBVIOUS
<1>5. F >= 1 /\ G >= 1 /\ f[F] # Newline => g[1] = Newline
  BY <1>3, <1>4
<1> HIDE DEF h, F, G
<1>6. ASSUME EndsLines(f), EndsLines(g) PROVE EndsLines(h)
  <2> SUFFICES ASSUME NEW k \in 1..F + G, h[k][2] = 2, k # F + G PROVE h[k + 1] = Newline
    BY <1>1 DEF EndsLines
  <2>1. CASE k < F
    <3>1. k \in 1..F /\ k + 1 \in 1..F /\ k # F
      BY <1>1, <2>1
    <3>2. f[k + 1] = Newline
      BY <1>1, <1>2, <1>6, <3>1 DEF EndsLines, F
    <3> QED BY <3>1, <3>2, <1>2
  <2>2. CASE k = F
    <3>1. k \in 1..F /\ 1 \in 1..G /\ F >= 1 /\ G >= 1
      BY <1>1, <2>2
    <3>2. f[F] # Newline
      BY <1>2, <2>2, <3>1 DEF Newline
    <3> QED BY <1>2, <1>5, <2>2, <3>1, <3>2
  <2>3. CASE k > F
    <3> DEFINE j == k - F
    <3>1. j \in 1..G /\ j + 1 \in 1..G /\ F + j = k /\ F + (j + 1) = k + 1 /\ j # G
      BY <1>1, <2>3
    <3> HIDE DEF j
    <3>2. h[k] = g[j] /\ h[k + 1] = g[j + 1]
      BY <3>1, <1>2
    <3> QED BY <3>1, <3>2, <1>1, <1>6 DEF EndsLines, G
  <2> QED BY <1>1, <2>1, <2>2, <2>3
<1>7. ASSUME NEW k \in 1..F + G, NEW n \in Nat
      PROVE  Holds(h, k, n) <=> Holds(f, k, n) \/ (k > F /\ Holds(g, k - F, n))
  <2>0. k \in Int
    OBVIOUS
  <2>1. CASE k < F
    <3>1. k \in 1..F /\ k + 1 \in 1..F /\ ~(k > F) /\ k \in 1..F - 1 /\ k \in 1..(F + G) - 1
      BY <1>1, <2>1
    <3> QED BY <3>1, <1>1, <1>2 DEF Holds, F
  <2>2. CASE k = F
    <3>1. k \in 1..F /\ F >= 1 /\ ~(k > F) /\ k \notin 1..F - 1
      BY <1>1, <2>2
    <3>2. ASSUME Holds(h, k, n) PROVE FALSE
      <4>1. k \in 1..(F + G) - 1 /\ h[k] = <<n, 1>> /\ h[k + 1] = <<n, 2>>
        BY <1>1, <3>2 DEF Holds
      <4>2. 1 \in 1..G /\ G >= 1 /\ k + 1 = F + 1
        BY <1>1, <2>2, <4>1
      <4>3. f[F] = <<n, 1>> /\ g[1] = <<n, 2>>
        BY <1>2, <2>2, <3>1, <4>1, <4>2
      <4> QED BY <1>5, <3>1, <4>2, <4>3 DEF Newline
    <3> QED BY <3>1, <3>2 DEF Holds, F
  <2>3. CASE k > F
    <3> DEFINE j == k - F
    <3>1. j \in 1..G /\ F + j = k /\ k \notin 1..F - 1 /\ (j \in 1..G - 1 <=> k \in 1..(F + G) - 1)
      BY <1>1, <2>3
    <3>2. j \in 1..G - 1 => j + 1 \in 1..G /\ F + (j + 1) = k + 1
      BY <1>1
    <3> HIDE DEF j
    <3>3. h[k] = g[j] /\ (j \in 1..G - 1 => h[k + 1] = g[j + 1])
      BY <1>2, <3>1, <3>2
    <3>4. Holds(h, k, n) <=> Holds(g, j, n)
      BY <1>1, <3>1, <3>3 DEF Holds, G
    <3>5. ~Holds(f, k, n)
      BY <3>1 DEF Holds, F
    <3> QED BY <2>3, <3>4, <3>5 DEF j
  <2> QED BY <1>1, <2>0, <2>1, <2>2, <2>3
<1> QED BY <1>6, <1>7 DEF h, F, G

(* What stands in a file that was cut.                                       *)
LEMMA PrefixHeld ==
    ASSUME NEW f \in Seq(Pieces), NEW c \in 0..Len(f)
    PROVE  /\ EndsLines(f) => EndsLines(SubSeq(f, 1, c))
           /\ \A k \in 1..Len(f), n \in Nat : Holds(SubSeq(f, 1, c), k, n) <=> Holds(f, k, n) /\ k + 1 <= c
<1> DEFINE h == SubSeq(f, 1, c)
           F == Len(f)
<1>1. h \in Seq(Pieces) /\ Len(h) = c /\ DOMAIN h = 1..c /\ \A j \in 1..c : h[j] = f[j]
  OBVIOUS
<1>2. F \in Nat /\ c \in Nat /\ c <= F /\ DOMAIN f = 1..F
  OBVIOUS
<1> HIDE DEF h, F
<1>3. EndsLines(f) => EndsLines(h)
  <2> SUFFICES ASSUME EndsLines(f), NEW k \in 1..c, h[k][2] = 2, k # c PROVE h[k + 1] = Newline
    BY <1>1 DEF EndsLines
  <2>1. k \in 1..F /\ k + 1 \in 1..c /\ k # F
    BY <1>2
  <2>2. f[k + 1] = Newline
    BY <1>1, <1>2, <2>1 DEF EndsLines, F
  <2> QED BY <1>1, <2>1, <2>2
<1>4. ASSUME NEW k \in 1..F, NEW n \in Nat
      PROVE  Holds(h, k, n) <=> Holds(f, k, n) /\ k + 1 <= c
  <2>1. CASE k + 1 <= c
    <3>1. k \in 1..c /\ k + 1 \in 1..c /\ k \in 1..c - 1 /\ k \in 1..F - 1
      BY <1>2, <2>1
    <3> QED BY <1>1, <2>1, <3>1 DEF Holds, F
  <2>2. CASE ~(k + 1 <= c)
    <3>1. k \notin 1..c - 1
      BY <1>2, <2>2
    <3> QED BY <1>1, <2>2, <3>1 DEF Holds
  <2> QED BY <2>1, <2>2
<1> QED BY <1>3, <1>4 DEF h, F

(* The members of an interval, one after the other.                          *)
LEMMA NthOfInterval ==
    ASSUME NEW e \in Nat, NEW N \in Nat, e <= N, NEW j \in 1..N - e
    PROVE  Nth(e + 1..N, j) = e + j
<1> DEFINE S == e + 1..N
<1>1. ASSUME NEW n \in S PROVE Cardinality({m \in S : m <= n}) = n - e
  <2>1. {m \in S : m <= n} = e + 1..n
    BY <1>1
  <2>2. e + 1 \in Int /\ n \in Int /\ e + 1 <= n /\ (n - (e + 1)) + 1 = n - e
    BY <1>1
  <2>3. Cardinality(e + 1..n) = (n - (e + 1)) + 1
    BY <2>2, FS_Interval
  <2> QED BY <2>1, <2>2, <2>3
<1>2. e + j \in S /\ (e + j) - e = j
  OBVIOUS
<1>3. \A n \in S : n - e = j => n = e + j
  OBVIOUS
<1> HIDE DEF S
<1> QED BY <1>1, <1>2, <1>3 DEF Nth, S

(* The lines of the rows after e stand three pieces apart, in their order.   *)
LEMMA LinesInOrder ==
    ASSUME NEW e \in Nat, NEW N \in Nat, e <= N
    PROVE  /\ Len(LinesOf(e + 1..N)) = 3 * (N - e)
           /\ \A k \in 1..3 * (N - e), n \in Nat :
                 Holds(LinesOf(e + 1..N), k, n) <=> n \in e + 1..N /\ k = 3 * ((n - e) - 1) + 1
<1> DEFINE S == e + 1..N
           L == LinesOf(S)
           c == N - e
<1>1. IsFiniteSet(S) /\ Cardinality(S) = c
  <2>1. e + 1 \in Int /\ N \in Int /\ IF e + 1 > N THEN c = 0 ELSE (N - (e + 1)) + 1 = c
    OBVIOUS
  <2> QED BY <2>1, FS_Interval
<1>2. L = [p \in 1..3 * c |-> Line(Nth(S, (p + 2) \div 3))[1 + ((p + 2) % 3)]]
  BY <1>1 DEF LinesOf
<1>3. c \in Nat /\ \A j \in 1..c : Nth(S, j) = e + j
  BY NthOfInterval
<1> HIDE DEF S, L, c
<1>4. ASSUME NEW p \in 1..3 * c
      PROVE  (p + 2) \div 3 \in 1..c /\ (p + 2) % 3 \in 0..2 /\ p + 2 = 3 * ((p + 2) \div 3) + ((p + 2) % 3)
  BY <1>3
<1>5. ASSUME NEW p \in 1..3 * c
      PROVE  \/ (p + 2) % 3 = 0 /\ L[p] = <<e + ((p + 2) \div 3), 1>>
             \/ (p + 2) % 3 = 1 /\ L[p] = <<e + ((p + 2) \div 3), 2>>
             \/ (p + 2) % 3 = 2 /\ L[p] = Newline
  <2>1. L[p] = Line(e + ((p + 2) \div 3))[1 + ((p + 2) % 3)]
    BY <1>2, <1>3, <1>4
  <2>2. (p + 2) % 3 = 0 \/ (p + 2) % 3 = 1 \/ (p + 2) % 3 = 2
    BY <1>4
  <2> QED BY <2>1, <2>2, PieceOfLine
<1>6. DOMAIN L = 1..3 * c /\ Len(L) = 3 * c
  BY <1>2, <1>3
<1>8. ASSUME NEW k \in 1..3 * c, NEW n \in Nat
      PROVE  Holds(L, k, n) <=> n - e \in 1..c /\ k = 3 * ((n - e) - 1) + 1
  <2>1. ASSUME Holds(L, k, n) PROVE n - e \in 1..c /\ k = 3 * ((n - e) - 1) + 1
    <3>1. L[k] = <<n, 1>>
      BY <2>1 DEF Holds
    <3>2. (k + 2) % 3 = 0 /\ n = e + ((k + 2) \div 3)
      BY <1>5, <3>1 DEF Newline
    <3>3. (k + 2) \div 3 \in 1..c /\ k + 2 = 3 * ((k + 2) \div 3)
      BY <1>4, <3>2
    <3> DEFINE q == (k + 2) \div 3
    <3>4. q \in 1..c /\ k + 2 = 3 * q /\ n = e + q
      BY <3>2, <3>3
    <3> HIDE DEF q
    <3> QED BY <1>3, <3>4
  <2>2. ASSUME n - e \in 1..c, k = 3 * ((n - e) - 1) + 1 PROVE Holds(L, k, n)
    <3> DEFINE q == n - e
    <3>1. q \in 1..c /\ k = 3 * q - 2 /\ n = e + q
      BY <1>3, <2>2
    <3> HIDE DEF q
    <3>2. /\ (k + 2) \div 3 = q /\ (k + 2) % 3 = 0
          /\ ((k + 1) + 2) \div 3 = q /\ ((k + 1) + 2) % 3 = 1
          /\ k + 1 \in 1..3 * c /\ k \in 1..3 * c - 1
      BY <1>3, <3>1
    <3>3. L[k] = <<n, 1>> /\ L[k + 1] = <<n, 2>>
      BY <1>5, <3>1, <3>2
    <3> QED BY <1>6, <3>2, <3>3 DEF Holds
  <2> QED BY <2>1, <2>2
<1>9. \A n \in Nat : n - e \in 1..c <=> n \in S
  BY DEF S, c
<1> QED BY <1>6, <1>8, <1>9 DEF L, S, c

(* After s pieces, g has the lines of the rows after e, or some of them.     *)
Continues(g, e, N, s) ==
    /\ Len(g) <= s + 3 * (N - e)
    /\ \A k \in 1..Len(g), n \in Nat :
          Holds(g, k, n) <=> n \in e + 1..N /\ k = s + 3 * ((n - e) - 1) + 1 /\ k + 1 <= Len(g)

(* Writing those to a file that shows the rows up to e shows some more.      *)
LEMMA ShowsMore ==
    ASSUME NEW f \in Seq(Pieces), NEW g \in Seq(Pieces),
           f # <<>> /\ g # <<>> /\ f[Len(f)] # Newline => g[1] = Newline,
           NEW e \in Nat, NEW N \in Nat, e <= N, Shows(f, e),
           NEW s \in {0, 1}, Continues(g, e, N, s)
    PROVE  \E d \in e..N : Shows(f \o g, d) /\ (Len(g) = s + 3 * (N - e) => d = N)
<1> DEFINE h == f \o g
           F == Len(f)
           G == Len(g)
           d == e + ((G + 1 - s) \div 3)
<1>1. F \in Nat /\ G \in Nat /\ Len(h) = F + G
  OBVIOUS
<1>2. \A k \in 1..F + G, n \in Nat : Holds(h, k, n) <=> Holds(f, k, n) \/ (k > F /\ Holds(g, k - F, n))
  BY Joined
<1>3. \A k \in 1..G, n \in Nat : Holds(g, k, n) <=> n \in e + 1..N /\ k = s + 3 * ((n - e) - 1) + 1 /\ k + 1 <= G
  BY DEF Continues
<1>4. G <= s + 3 * (N - e)
  BY DEF Continues
<1>5. /\ \A n \in 1..e : \E k \in 1..F : Holds(f, k, n)
      /\ \A k \in 1..F : \A n \in Nat : Holds(f, k, n) => n \in 1..e
      /\ \A k, l \in 1..F : \A m, n \in Nat : Holds(f, k, m) /\ Holds(f, l, n) /\ k < l => m < n
  BY DEF Shows
<1>15. \A k \in 1..F + G : \A n \in Nat : Holds(f, k, n) => k \in 1..F
  BY <1>1 DEF Holds
<1> HIDE DEF h, F, G
<1>6. d \in e..N /\ (G = s + 3 * (N - e) => d = N) /\ \A n \in e + 1..N : n <= d <=> s + 3 * ((n - e) - 1) + 2 <= G
  BY <1>1, <1>4
<1> HIDE DEF d
<1>7. \A n \in 1..d : \E k \in 1..F + G : Holds(h, k, n)
  <2> SUFFICES ASSUME NEW n \in 1..d PROVE \E k \in 1..F + G : Holds(h, k, n)
    OBVIOUS
  <2>0. n \in Nat
    BY <1>6
  <2>1. CASE n <= e
    <3>1. PICK k \in 1..F : Holds(f, k, n)
      BY <1>5, <1>6, <2>1
    <3>2. k \in 1..F + G
      BY <1>1
    <3> QED BY <1>2, <2>0, <3>1, <3>2
  <2>2. CASE ~(n <= e)
    <3> DEFINE p == s + 3 * ((n - e) - 1) + 1
    <3>0. n \in e + 1..N /\ n <= d
      BY <1>6, <2>2
    <3>4. s + 3 * ((n - e) - 1) + 2 <= G
      BY <1>6, <3>0
    <3>1. n \in e + 1..N /\ p \in 1..G /\ p + 1 <= G
      BY <1>1, <3>0, <3>4
    <3>2. Holds(g, p, n)
      BY <1>3, <2>0, <3>1
    <3>3. F + p \in 1..F + G /\ F + p > F /\ (F + p) - F = p
      BY <1>1, <3>1
    <3> HIDE DEF p
    <3> QED BY <1>2, <2>0, <3>2, <3>3
  <2> QED BY <2>1, <2>2
<1>8. ASSUME NEW k \in 1..F + G, NEW n \in Nat, Holds(h, k, n)
      PROVE  \/ Holds(f, k, n) /\ k \in 1..F /\ n \in 1..e
             \/ k > F /\ n \in e + 1..d /\ k = F + s + 3 * ((n - e) - 1) + 1
  <2>1. CASE Holds(f, k, n)
    BY <1>5, <1>15, <2>1
  <2>2. CASE k > F /\ Holds(g, k - F, n)
    <3>1. k - F \in 1..G
      BY <1>1, <2>2
    <3>2. n \in e + 1..N /\ k - F = s + 3 * ((n - e) - 1) + 1 /\ (k - F) + 1 <= G
      BY <1>3, <2>2, <3>1
    <3>3. n <= d
      BY <1>1, <1>6, <3>2
    <3> QED BY <1>1, <1>6, <2>2, <3>2, <3>3
  <2> QED BY <1>2, <1>8, <2>1, <2>2
<1>9. \A k \in 1..F + G : \A n \in Nat : Holds(h, k, n) => n \in 1..d
  <2> SUFFICES ASSUME NEW k \in 1..F + G, NEW n \in Nat, Holds(h, k, n) PROVE n \in 1..d
    OBVIOUS
  <2>1. n \in 1..e \/ n \in e + 1..d
    BY <1>8
  <2> QED BY <1>6, <2>1
<1>10. \A k, l \in 1..F + G : \A m, n \in Nat : Holds(h, k, m) /\ Holds(h, l, n) /\ k < l => m < n
  <2> SUFFICES ASSUME NEW k \in 1..F + G, NEW l \in 1..F + G, NEW m \in Nat, NEW n \in Nat,
                      Holds(h, k, m), Holds(h, l, n), k < l
               PROVE  m < n
    OBVIOUS
  <2>1. \/ Holds(f, k, m) /\ k \in 1..F /\ m \in 1..e
        \/ k > F /\ m \in e + 1..d /\ k = F + s + 3 * ((m - e) - 1) + 1
    BY <1>8
  <2>2. \/ Holds(f, l, n) /\ l \in 1..F /\ n \in 1..e
        \/ l > F /\ n \in e + 1..d /\ l = F + s + 3 * ((n - e) - 1) + 1
    BY <1>8
  <2>3. CASE Holds(f, k, m) /\ k \in 1..F /\ m \in 1..e /\ Holds(f, l, n) /\ l \in 1..F
    BY <1>5, <2>3
  <2>4. CASE m \in 1..e /\ n \in e + 1..d
    BY <1>6, <2>4
  <2>5. CASE k > F /\ m \in e + 1..d /\ k = F + s + 3 * ((m - e) - 1) + 1
    <3>1. l > F
      BY <1>1, <2>5
    <3>2. n \in e + 1..d /\ l = F + s + 3 * ((n - e) - 1) + 1
      BY <1>1, <2>2, <3>1
    <3> QED BY <1>1, <1>6, <2>5, <3>2
  <2> QED BY <2>1, <2>2, <2>3, <2>4, <2>5
<1>11. Shows(h, d)
  BY <1>1, <1>7, <1>9, <1>10 DEF Shows
<1> QED BY <1>6, <1>11 DEF h, G

(* DeliveredIds of a file and a log.                                         *)
ShownIn(f, log) ==
    LET starts == {k \in DOMAIN f : \E n \in DOMAIN log : WholeAt(f, 1, k, n)}
        Start(j) == CHOOSE k \in starts : Cardinality({l \in starts : l <= k}) = j
    IN  [j \in 1..Cardinality(starts) |-> log[f[Start(j)][1]].id]

(* A reader of a file that shows the rows 1 to e finds their ids, in order.  *)
LEMMA ShownInOrder ==
    ASSUME NEW f \in Seq(Pieces), StartsLines(f), EndsLines(f), NEW R, NEW log \in Seq(R),
           NEW e \in 0..Len(log), Shows(f, e)
    PROVE  ShownIn(f, log) = [j \in 1..e |-> log[j].id]
<1> DEFINE starts == {k \in DOMAIN f : \E n \in DOMAIN log : WholeAt(f, 1, k, n)}
           F == Len(f)
           At(j) == CHOOSE k \in 1..F : Holds(f, k, j)
           at == [j \in 1..e |-> At(j)]
<1>1. F \in Nat /\ DOMAIN f = 1..F /\ Len(log) \in Nat /\ DOMAIN log = 1..Len(log) /\ e \in Nat /\ 1..e \subseteq 1..Len(log)
  OBVIOUS
<1>2. /\ \A n \in 1..e : \E k \in 1..F : Holds(f, k, n)
      /\ \A k \in 1..F : \A n \in Nat : Holds(f, k, n) => n \in 1..e
      /\ \A k, l \in 1..F : \A m, n \in Nat : Holds(f, k, m) /\ Holds(f, l, n) /\ k < l => m < n
  BY DEF Shows
<1>3. \A k \in 1..F, n \in Nat : WholeAt(f, 1, k, n) <=> Holds(f, k, n)
  BY WholeIsHeld
<1>4. \A k \in 1..F : k \in starts <=> \E n \in 1..e : Holds(f, k, n)
  <2> SUFFICES ASSUME NEW k \in 1..F PROVE k \in starts <=> \E n \in 1..e : Holds(f, k, n)
    OBVIOUS
  <2>1. \A n \in DOMAIN log : n \in Nat
    BY <1>1
  <2>2. \A n \in 1..e : n \in DOMAIN log
    BY <1>1
  <2> QED BY <1>1, <1>2, <1>3, <2>1, <2>2
<1>5. starts \subseteq 1..F
  BY <1>1
<1> HIDE DEF starts, F
<1>6. \A j \in 1..e : At(j) \in 1..F /\ Holds(f, At(j), j)
  BY <1>2
<1>7. \A j, i \in 1..e : j < i => At(j) < At(i)
  <2> SUFFICES ASSUME NEW j \in 1..e, NEW i \in 1..e, j < i, ~(At(j) < At(i)) PROVE FALSE
    OBVIOUS
  <2>1. At(j) \in 1..F /\ At(i) \in 1..F /\ Holds(f, At(j), j) /\ Holds(f, At(i), i) /\ i \in Nat /\ j \in Nat
    BY <1>1, <1>6
  <2> HIDE DEF At
  <2>2. At(i) = At(j) \/ At(i) < At(j)
    BY <2>1
  <2>3. CASE At(i) = At(j)
    <3>1. f[At(i)] = <<i, 1>> /\ f[At(j)] = <<j, 1>>
      BY <2>1 DEF Holds
    <3>2. i = j
      BY <2>3, <3>1
    <3> QED BY <2>1, <3>2
  <2>4. CASE At(i) < At(j)
    <3>1. i < j
      BY <1>2, <2>1, <2>4
    <3> QED BY <2>1, <3>1
  <2> QED BY <2>2, <2>3, <2>4
<1>8. \A k \in starts : \E j \in 1..e : k = At(j)
  <2> SUFFICES ASSUME NEW k \in starts PROVE \E j \in 1..e : k = At(j)
    OBVIOUS
  <2>1. PICK j \in 1..e : Holds(f, k, j)
    BY <1>4, <1>5
  <2>2. At(j) \in 1..F /\ Holds(f, At(j), j) /\ k \in 1..F /\ j \in Nat
    BY <1>1, <1>5, <1>6
  <2> HIDE DEF At
  <2>3. ~(k < At(j)) /\ ~(At(j) < k)
    <3>1. k < At(j) => j < j
      BY <1>2, <2>1, <2>2
    <3>2. At(j) < k => j < j
      BY <1>2, <2>1, <2>2
    <3> QED BY <2>2, <3>1, <3>2
  <2>4. k = At(j)
    BY <2>2, <2>3
  <2> QED BY <2>4
<1>9. \A j \in 1..e : At(j) \in starts
  BY <1>4, <1>6
<1> HIDE DEF At
<1>10. ASSUME NEW j \in 0..e PROVE Cardinality({l \in starts : \E i \in 1..j : l = At(i)}) = j
  <2> DEFINE T == {l \in starts : \E i \in 1..j : l = At(i)}
             b == [i \in 1..j |-> At(i)]
  <2>0. j \in Nat /\ 1..j \subseteq 1..e
    BY <1>1
  <2>1. b \in [1..j -> T]
    BY <1>9, <2>0
  <2>2. \A i, k \in 1..j : b[i] = b[k] => i = k
    <3> SUFFICES ASSUME NEW i \in 1..j, NEW k \in 1..j, At(i) = At(k), i # k PROVE FALSE
      OBVIOUS
    <3>1. i \in 1..e /\ k \in 1..e /\ At(i) \in Int /\ (i < k \/ k < i)
      BY <1>6, <2>0
    <3>2. At(i) < At(k) \/ At(k) < At(i)
      BY <1>7, <3>1
    <3> QED BY <3>1, <3>2
  <2>3. \A l \in T : \E i \in 1..j : b[i] = l
    OBVIOUS
  <2>4. b \in Bijection(1..j, T)
    BY <2>1, <2>2, <2>3 DEF Bijection, Injection, Surjection, IsInjective
  <2> HIDE DEF T, b
  <2>6. ExistsBijection(1..j, T)
    BY <2>4 DEF ExistsBijection
  <2> QED BY <2>0, <2>6, FS_CountingElements DEF T
<1>11. Cardinality(starts) = e
  <2>1. starts = {l \in starts : \E i \in 1..e : l = At(i)}
    BY <1>8
  <2>2. e \in 0..e
    BY <1>1
  <2> QED BY <1>10, <2>1, <2>2
<1>12. ASSUME NEW j \in 1..e PROVE Cardinality({l \in starts : l <= At(j)}) = j
  <2>1. \A i \in 1..e : At(i) <= At(j) <=> i \in 1..j
    <3> SUFFICES ASSUME NEW i \in 1..e PROVE At(i) <= At(j) <=> i \in 1..j
      OBVIOUS
    <3>1. At(i) \in Int /\ At(j) \in Int
      BY <1>6
    <3>2. (i < j => At(i) < At(j)) /\ (j < i => At(j) < At(i))
      BY <1>7
    <3>3. i \in Int /\ j \in Int /\ 1 <= i
      BY <1>1
    <3>4. CASE i < j
      BY <3>1, <3>2, <3>3, <3>4
    <3>5. CASE i = j
      BY <3>1, <3>3, <3>5
    <3>6. CASE j < i
      BY <3>1, <3>2, <3>3, <3>6
    <3> QED BY <3>3, <3>4, <3>5, <3>6
  <2>2. \A l \in starts : l <= At(j) <=> \E i \in 1..j : l = At(i)
    <3>1. \A i \in 1..j : i \in 1..e
      BY <1>1
    <3> QED BY <1>8, <2>1, <3>1
  <2>3. {l \in starts : l <= At(j)} = {l \in starts : \E i \in 1..j : l = At(i)}
    BY <2>2
  <2>4. j \in 0..e
    BY <1>1
  <2> QED BY <1>10, <2>3, <2>4
<1> DEFINE Start(j) == CHOOSE k \in starts : Cardinality({l \in starts : l <= k}) = j
<1>13. ASSUME NEW j \in 1..e PROVE Start(j) = At(j)
  <2>1. At(j) \in starts /\ Cardinality({l \in starts : l <= At(j)}) = j
    BY <1>9, <1>12
  <2>2. Start(j) \in starts /\ Cardinality({l \in starts : l <= Start(j)}) = j
    BY <2>1
  <2>3. PICK i \in 1..e : Start(j) = At(i)
    BY <1>8, <2>2
  <2>4. Cardinality({l \in starts : l <= At(i)}) = i
    BY <1>12
  <2> QED BY <2>2, <2>3, <2>4
<1>14. ASSUME NEW j \in 1..e PROVE log[f[Start(j)][1]].id = log[j].id
  <2>1. f[At(j)] = <<j, 1>>
    BY <1>6 DEF Holds
  <2>2. f[At(j)][1] = j
    BY <2>1
  <2> QED BY <1>13, <2>2
<1>15. ShownIn(f, log) = [j \in 1..Cardinality(starts) |-> log[f[Start(j)][1]].id]
  BY DEF ShownIn, starts
<1> HIDE DEF Start
<1> QED BY <1>11, <1>14, <1>15

-----------------------------------------------------------------------------
(* What the steps of the tables and of their readers do to the export.       *)
RowsGrowOnly ==
    /\ Len(rows) <= Len(rows') /\ \A n \in 1..Len(rows) : rows'[n] = rows[n]
    /\ UNCHANGED <<export, file, cut>>

(* Every step is one of those, an export, or a truncation.                   *)
LEMMA StepKinds ==
    ASSUME OutboxIInv, [OutboxNext]_outboxVars
    PROVE  RowsGrowOnly \/ export_jsonl \/ ExportInterrupted \/ Shrink
<1>0. rows \in Seq(OutboxRow) /\ Len(rows) \in Nat /\ stale \in SUBSET Events
  BY TypeInTwo DEF OutboxIInv, OutboxInv, OutboxShape, TablesTyped
<1>1. ASSUME NEW es \in SUBSET Events, NEW change, WriteEvents(es, change) PROVE RowsGrowOnly
  <2>1. rows' = RecordEach(rows, es, event') /\ UNCHANGED <<export, file, cut>>
    BY <1>1 DEF WriteEvents
  <2>2. ExtendedBy(rows, es, event', rows')
    BY <2>1, EachRecorded
  <2>3. PICK c \in Nat : \E more : more \in [1..c -> Drafts(rows, es, event')] /\ rows' = rows \o more
    BY <2>2 DEF ExtendedBy
  <2>7. PICK more \in [1..c -> Drafts(rows, es, event')] : rows' = rows \o more
    BY <2>3
  <2>4. more \in Seq(Drafts(rows, es, event')) /\ Len(more) = c
    BY <2>7, FunctionIsSeq
  <2>5. Len(rows') = Len(rows) + c
    <3>1. Len(rows \o more) = Len(rows) + Len(more)
      BY <1>0, <2>4, ConcatLen
    <3> QED BY <2>4, <2>7, <3>1
  <2>6. \A n \in 1..Len(rows) : rows'[n] = rows[n]
    <3>1. rows \in Seq(OutboxRow \cup Drafts(rows, es, event')) /\ more \in Seq(OutboxRow \cup Drafts(rows, es, event'))
      BY <1>0, <2>4
    <3> QED BY <2>7, <3>1
  <2> QED BY <1>0, <2>1, <2>5, <2>6 DEF RowsGrowOnly
<1>2. ASSUME NEW x \in OutboxRow, rows' = Append(rows, x), UNCHANGED <<export, file, cut>> PROVE RowsGrowOnly
  BY <1>0, <1>2 DEF RowsGrowOnly
<1>3. ASSUME UNCHANGED <<rows, export, file, cut>> PROVE RowsGrowOnly
  BY <1>0, <1>3 DEF RowsGrowOnly
<1>4. CASE UNCHANGED outboxVars
  BY <1>3, <1>4 DEF outboxVars
<1>5. ASSUME NEW e \in Events, NEW change, EventWrite({e}, change) PROVE RowsGrowOnly
  BY <1>1, <1>5 DEF EventWrite
<1>6. CASE \E e \in Events : insert_event(e) \/ claim_event_for_processing(e) \/ mark_event_notified(e)
  BY <1>5, <1>6 DEF insert_event, claim_event_for_processing, mark_event_notified
<1>7. CASE \E e \in Events, st \in EventStatuses : update_event_status(e, st)
  BY <1>5, <1>7 DEF update_event_status
<1>8. CASE \E e \in Events, st \in {"PROCESSED", "DEFERRED", "FAILED"} : mark_event(e, st)
  BY <1>5, <1>8 DEF mark_event
<1>9. CASE recover_stale_processing
  BY <1>0, <1>1, <1>9 DEF recover_stale_processing
<1>10. CASE RecoveryFails \/ \E es \in SUBSET Events : find_stale_processing(es)
  BY <1>3, <1>10 DEF RecoveryFails, find_stale_processing
<1>11. CASE \E e \in Events, st \in NtfyStatuses : set_ntfy_status(e, st)
  BY <1>3, <1>11 DEF set_ntfy_status
<1>12. ASSUME NEW i \in Items, NEW s \in LifecycleStates, record_lifecycle_transition(i, s) PROVE RowsGrowOnly
  <2>1. rows' = Append(rows, Row("LIFECYCLE", i, <<"lifecycle", i, s>>, s)) /\ UNCHANGED <<export, file, cut>>
    BY <1>12 DEF record_lifecycle_transition
  <2>2. <<"lifecycle", i, s>> \in DeliveryIds
    BY DEF DeliveryIds
  <2>3. Row("LIFECYCLE", i, <<"lifecycle", i, s>>, s) \in OutboxRow
    BY <2>2 DEF Row, OutboxRow
  <2> QED BY <1>2, <2>1, <2>3
<1>13. ASSUME NEW h \in Handoffs, record_handoff(h) PROVE RowsGrowOnly
  <2>1. rows' = Append(rows, Row("HANDOFF", h, <<"handoff", h, "">>, h)) /\ UNCHANGED <<export, file, cut>>
    BY <1>13 DEF record_handoff
  <2>2. <<"handoff", h, "">> \in DeliveryIds
    BY DEF DeliveryIds
  <2>3. Row("HANDOFF", h, <<"handoff", h, "">>, h) \in OutboxRow
    BY <2>2 DEF Row, OutboxRow
  <2> QED BY <1>2, <2>1, <2>3
<1>14. CASE \E r \in Readers : read_pending(r) \/ Handle(r) \/ acknowledge(r) \/ ReaderDies(r)
  BY <1>3, <1>14 DEF read_pending, Handle, acknowledge, ReaderDies
<1>15. CASE OutboxNext
  BY <1>6, <1>7, <1>8, <1>9, <1>10, <1>11, <1>12, <1>13, <1>14, <1>15 DEF OutboxNext
<1> QED BY <1>4, <1>15

(* The lines of any set of rows end.                                         *)
LEMMA LinesEnd == ASSUME NEW S \in SUBSET Nat, IsFiniteSet(S) PROVE EndsLines(LinesOf(S))
<1> DEFINE c == Cardinality(S)
           L == LinesOf(S)
<1>1. c \in Nat
  BY NthRanks
<1>2. L = [p \in 1..3 * c |-> Line(Nth(S, (p + 2) \div 3))[1 + ((p + 2) % 3)]]
  BY DEF LinesOf
<1> HIDE DEF c, L
<1>3. DOMAIN L = 1..3 * c /\ Len(L) = 3 * c
  BY <1>1, <1>2
<1>4. ASSUME NEW p \in 1..3 * c
      PROVE  \/ (p + 2) % 3 = 0 /\ L[p] = <<Nth(S, (p + 2) \div 3), 1>>
             \/ (p + 2) % 3 = 1 /\ L[p] = <<Nth(S, (p + 2) \div 3), 2>>
             \/ (p + 2) % 3 = 2 /\ L[p] = Newline
  <2>1. L[p] = Line(Nth(S, (p + 2) \div 3))[1 + ((p + 2) % 3)]
    BY <1>2
  <2>2. (p + 2) % 3 = 0 \/ (p + 2) % 3 = 1 \/ (p + 2) % 3 = 2
    BY <1>1
  <2> QED BY <2>1, <2>2, PieceOfLine
<1> SUFFICES ASSUME NEW p \in 1..3 * c, L[p][2] = 2, p # 3 * c PROVE L[p + 1] = Newline
  BY <1>3 DEF EndsLines, L
<1>5. (p + 2) % 3 = 1
  BY <1>4 DEF Newline
<1>6. p + 1 \in 1..3 * c /\ ((p + 1) + 2) % 3 = 2
  BY <1>1, <1>5
<1> QED BY <1>4, <1>6

(* export_jsonl finds the rows that the file does not show, although it      *)
(* reads the file from its offset on only.                                   *)
LEMMA UnseenFollows ==
    ASSUME OutboxIInv, EndsLines(file), NEW e \in export.position..Len(rows), Shows(file, e),
           OffsetFits(file, export, Len(rows))
    PROVE  Unseen = e + 1..Len(rows)
<1>1. /\ rows \in Seq(OutboxRow) /\ Len(rows) \in Nat /\ DOMAIN rows = 1..Len(rows) /\ file \in Seq(Pieces)
      /\ export.position \in Nat /\ export.byte_offset \in Nat /\ StartsLines(file) /\ UniqueDelivery
  BY TypeInTwo DEF OutboxIInv, OutboxInv, OutboxShape, CursorsTyped
<1> DEFINE start == IF export.byte_offset <= Len(file) THEN export.byte_offset + 1 ELSE 1
           F == Len(file)
<1>2. start \in Nat \ {0} /\ F \in Nat /\ e \in Nat
  BY <1>1
<1>3. ASSUME NEW n \in 1..Len(rows)
      PROVE  rows[n].id \in delivery_ids_in(export.byte_offset) <=> \E k \in start..F : WholeAt(file, start, k, n)
  <2>1. delivery_ids_in(export.byte_offset) =
          {rows[m].id : m \in {m \in DOMAIN rows : \E k \in start..F : WholeAt(file, start, k, m)}}
    BY DEF delivery_ids_in
  <2>2. \A m \in DOMAIN rows : rows[m].id = rows[n].id => m = n
    BY <1>1 DEF UniqueDelivery
  <2> HIDE DEF start, F
  <2> QED BY <1>1, <2>1, <2>2
<1>4. ASSUME NEW n \in export.position + 1..Len(rows)
      PROVE  (\E k \in start..F : WholeAt(file, start, k, n)) <=> n <= e
  <2>0. n \in Nat /\ n > export.position /\ n \in 1..Len(rows)
    BY <1>1
  <2>1. ASSUME NEW k \in start..F, WholeAt(file, start, k, n) PROVE n <= e
    <3>1. Holds(file, k, n)
      BY <1>1, <1>2, <2>0, <2>1, WholeIsHeld
    <3>2. k \in 1..F
      BY <1>2
    <3> QED BY <1>2, <2>0, <3>1, <3>2 DEF Shows
  <2>2. ASSUME n <= e PROVE \E k \in start..F : WholeAt(file, start, k, n)
    <3>1. PICK k \in 1..F : Holds(file, k, n)
      BY <1>2, <2>0, <2>2 DEF Shows
    <3>2. k > export.byte_offset
      BY <2>0, <3>1 DEF OffsetFits
    <3>3. k \in start..F
      BY <1>1, <1>2, <3>2
    <3> HIDE DEF start
    <3>4. WholeAt(file, start, k, n)
      BY <1>1, <1>2, <2>0, <3>1, <3>3, WholeIsHeld
    <3> QED BY <3>3, <3>4
  <2> QED BY <2>1, <2>2
<1> HIDE DEF start, F
<1>5. \A n \in export.position + 1..Len(rows) :
        n \in 1..Len(rows) /\ (rows[n].id \notin delivery_ids_in(export.byte_offset) <=> ~(n <= e))
  BY <1>1, <1>3, <1>4
<1>6. \A n \in Int : n \in e + 1..Len(rows) <=> n \in export.position + 1..Len(rows) /\ ~(n <= e)
  BY <1>1, <1>2
<1>7. Unseen \subseteq Int /\ e + 1..Len(rows) \subseteq Int
  BY <1>1 DEF Unseen
<1>8. \A n \in Int : n \in Unseen <=> n \in e + 1..Len(rows)
  BY <1>5, <1>6 DEF Unseen
<1> QED BY <1>7, <1>8

(* The separator is there when the last line was torn, and holds no record.  *)
LEMMA SeparatorSays ==
    ASSUME file \in Seq(Pieces)
    PROVE  /\ Separator \in Seq(Pieces) /\ EndsLines(Separator)
           /\ Separator # <<>> => Separator[Len(Separator)] = Newline
           /\ \/ Len(Separator) = 0 /\ (file = <<>> \/ file[Len(file)] = Newline)
              \/ Len(Separator) = 1 /\ file # <<>> /\ file[Len(file)] # Newline
           /\ \A k \in Int, n \in Nat : ~Holds(Separator, k, n)
<1> DEFINE S == Separator
<1>1. \/ S = <<>> /\ (file = <<>> \/ file[Len(file)] = Newline)
      \/ S = <<Newline>> /\ file # <<>> /\ file[Len(file)] # Newline
  BY DEF Separator, Last
<1>2. Newline \in Pieces
  BY DEF Pieces
<1>3. /\ <<Newline>> \in Seq(Pieces) /\ Len(<<Newline>>) = 1 /\ DOMAIN <<Newline>> = {1} /\ <<Newline>>[1] = Newline
      /\ <<Newline>> # <<>>
  BY <1>2
<1>4. <<>> \in Seq(Pieces) /\ Len(<<>>) = 0 /\ DOMAIN <<>> = {}
  OBVIOUS
<1> HIDE DEF S
<1>5. S \in Seq(Pieces) /\ (Len(S) = 0 \/ Len(S) = 1) /\ (S # <<>> => S[Len(S)] = Newline)
  BY <1>1, <1>3, <1>4
<1>6. EndsLines(S)
  BY <1>1, <1>3, <1>4 DEF EndsLines
<1>7. \A k \in Int, n \in Nat : ~Holds(S, k, n)
  BY <1>5 DEF Holds
<1>8. \/ Len(S) = 0 /\ (file = <<>> \/ file[Len(file)] = Newline)
      \/ Len(S) = 1 /\ file # <<>> /\ file[Len(file)] # Newline
  BY <1>1, <1>3, <1>4
<1> QED BY <1>5, <1>6, <1>7, <1>8 DEF S

(* What an export writes ends its lines.                                     *)
LEMMA AppendedEnds == ASSUME OutboxIInv PROVE EndsLines(Appended)
<1>1. rows \in Seq(OutboxRow) /\ Len(rows) \in Nat /\ file \in Seq(Pieces) /\ export.position \in Nat
  BY TypeInTwo DEF OutboxIInv, OutboxInv, OutboxShape, CursorsTyped
<1>2. Unseen \subseteq 1..Len(rows)
  BY <1>1 DEF Unseen
<1>3. Unseen \in SUBSET Nat /\ IsFiniteSet(Unseen)
  <2>1. IsFiniteSet(1..Len(rows))
    BY <1>1, UptoCounted
  <2>2. IsFiniteSet(Unseen)
    BY <1>2, <2>1, FS_Subset
  <2> QED BY <1>2, <2>2
<1>4. EndsLines(LinesOf(Unseen)) /\ LinesOf(Unseen) \in Seq(Pieces)
  <2>1. EndsLines(LinesOf(Unseen)) /\ LinesOf(Unseen) \in Seq((Unseen \X {1, 2}) \cup {Newline})
    BY <1>3, LinesEnd, LinesWhole
  <2>2. (Unseen \X {1, 2}) \cup {Newline} \subseteq Pieces
    BY <1>3 DEF Pieces
  <2> QED BY <2>1, <2>2
<1>5. Separator \in Seq(Pieces) /\ EndsLines(Separator) /\ (Separator # <<>> => Separator[Len(Separator)] = Newline)
  BY <1>1, SeparatorSays
<1> QED BY <1>4, <1>5, Joined DEF Appended

(* What an export writes: the separator, then the lines of the rows after e. *)
LEMMA AppendedInOrder ==
    ASSUME OutboxIInv, NEW e \in export.position..Len(rows), Unseen = e + 1..Len(rows)
    PROVE  \E s \in {0, 1} :
              /\ s = Len(Separator)
              /\ Len(Appended) = s + 3 * (Len(rows) - e)
              /\ \A k \in 1..Len(Appended), n \in Nat :
                    Holds(Appended, k, n) <=> n \in e + 1..Len(rows) /\ k = s + 3 * ((n - e) - 1) + 1
<1>1. rows \in Seq(OutboxRow) /\ Len(rows) \in Nat /\ file \in Seq(Pieces) /\ export.position \in Nat
  BY TypeInTwo DEF OutboxIInv, OutboxInv, OutboxShape, CursorsTyped
<1> DEFINE N == Len(rows)
           L == LinesOf(Unseen)
           s == Len(Separator)
<1>2. e \in Nat /\ N \in Nat /\ e <= N
  BY <1>1
<1>3. /\ Len(L) = 3 * (N - e)
      /\ \A k \in 1..3 * (N - e), n \in Nat : Holds(L, k, n) <=> n \in e + 1..N /\ k = 3 * ((n - e) - 1) + 1
  BY <1>2, LinesInOrder
<1>4. L \in Seq(Pieces)
  <2>1. Unseen \in SUBSET Nat /\ IsFiniteSet(Unseen)
    <3>1. Unseen \subseteq 1..N
      BY <1>2
    <3> QED BY <1>2, <3>1, UptoCounted, FS_Subset
  <2>2. L \in Seq((Unseen \X {1, 2}) \cup {Newline})
    BY <2>1, LinesWhole
  <2>3. (Unseen \X {1, 2}) \cup {Newline} \subseteq Pieces
    BY <2>1 DEF Pieces
  <2> QED BY <2>2, <2>3
<1>5. /\ Separator \in Seq(Pieces) /\ s \in {0, 1}
      /\ Separator # <<>> => Separator[Len(Separator)] = Newline
      /\ \A k \in Int, n \in Nat : ~Holds(Separator, k, n)
  BY <1>1, SeparatorSays
<1>6. /\ Appended = Separator \o L
      /\ \A k \in 1..s + Len(L), n \in Nat :
            Holds(Separator \o L, k, n) <=> Holds(Separator, k, n) \/ (k > s /\ Holds(L, k - s, n))
  BY <1>4, <1>5, Joined DEF Appended
<1>7. Len(Appended) = s + 3 * (N - e)
  <2>1. Len(Separator \o L) = Len(Separator) + Len(L)
    BY <1>4, <1>5, ConcatLen
  <2> QED BY <1>3, <1>6, <2>1
<1> HIDE DEF N, L, s
<1>8. ASSUME NEW k \in 1..Len(Appended), NEW n \in Nat
      PROVE  Holds(Appended, k, n) <=> n \in e + 1..N /\ k = s + 3 * ((n - e) - 1) + 1
  <2>1. k \in Int /\ k \in 1..s + Len(L)
    BY <1>2, <1>3, <1>5, <1>7
  <2>2. Holds(Appended, k, n) <=> k > s /\ Holds(L, k - s, n)
    BY <1>5, <1>6, <2>1
  <2>3. CASE k > s
    <3>1. k - s \in 1..3 * (N - e)
      BY <1>2, <1>3, <1>5, <2>1, <2>3
    <3>2. Holds(L, k - s, n) <=> n \in e + 1..N /\ k - s = 3 * ((n - e) - 1) + 1
      BY <1>3, <3>1
    <3>3. k - s = 3 * ((n - e) - 1) + 1 <=> k = s + 3 * ((n - e) - 1) + 1
      BY <1>2, <1>5, <2>1
    <3> QED BY <2>2, <2>3, <3>2, <3>3
  <2>4. CASE ~(k > s)
    <3>1. n \in e + 1..N => k # s + 3 * ((n - e) - 1) + 1
      BY <1>2, <1>5, <2>1, <2>4
    <3> QED BY <2>2, <2>4, <3>1
  <2> QED BY <2>3, <2>4
<1> QED BY <1>5, <1>7, <1>8 DEF N, s

(* An export, however much of it was written, leaves the file in order; a    *)
(* whole one leaves it ending in the line of the last row.                   *)
LEMMA ExportInOrder ==
    ASSUME OutboxIInv, FileInOrder, cut = {}, NEW e \in export.position..Len(rows), Shows(file, e),
           NEW c \in 0..Len(Appended)
    PROVE  LET h == file \o SubSeq(Appended, 1, c)
           IN  /\ \E d \in e..Len(rows) : Shows(h, d) /\ (c = Len(Appended) => d = Len(rows))
               /\ OffsetFits(h, export, Len(rows))
               /\ c = Len(Appended) /\ export.position < Len(rows) => Len(h) >= 3 /\ Holds(h, Len(h) - 2, Len(rows))
<1> DEFINE N == Len(rows)
           F == Len(file)
           g == SubSeq(Appended, 1, c)
           h == file \o g
           pos == export.position
           off == export.byte_offset
<1>1. /\ N \in Nat /\ file \in Seq(Pieces) /\ F \in Nat /\ DOMAIN file = 1..F /\ pos \in Nat /\ off \in Nat /\ StartsLines(file)
      /\ EndsLines(file) /\ OffsetFits(file, export, N)
  BY TypeInTwo DEF OutboxIInv, OutboxInv, OutboxShape, CursorsTyped, FileInOrder
<1>2. e \in Nat /\ e <= N /\ pos <= e
  BY <1>1
<1>3. Unseen = e + 1..N
  BY <1>1, UnseenFollows
<1>4. PICK s \in {0, 1} :
         /\ s = Len(Separator)
         /\ Len(Appended) = s + 3 * (N - e)
         /\ \A k \in 1..Len(Appended), n \in Nat :
               Holds(Appended, k, n) <=> n \in e + 1..N /\ k = s + 3 * ((n - e) - 1) + 1
  BY <1>3, AppendedInOrder
<1>5. /\ Appended \in Seq(Pieces) /\ StartsLines(Appended)
      /\ file # <<>> /\ file[F] # Newline => Appended # <<>> /\ Appended[1] = Newline
  BY AppendedSound
<1>6. g \in Seq(Pieces) /\ Len(g) = c /\ c \in Nat /\ c <= s + 3 * (N - e) /\ \A j \in 1..c : g[j] = Appended[j]
  BY <1>4, <1>5, PrefixStartsLines
<1>7. file # <<>> /\ g # <<>> /\ file[F] # Newline => g[1] = Newline
  <2>1. g # <<>> => 1 \in 1..c
    BY <1>6
  <2> QED BY <1>5, <1>6, <2>1
<1>8. \A k \in 1..c, n \in Nat : Holds(g, k, n) <=> n \in e + 1..N /\ k = s + 3 * ((n - e) - 1) + 1 /\ k + 1 <= c
  <2>1. \A k \in 1..Len(Appended), n \in Nat : Holds(g, k, n) <=> Holds(Appended, k, n) /\ k + 1 <= c
    BY <1>5, PrefixHeld
  <2>2. \A k \in 1..c : k \in 1..Len(Appended)
    BY <1>4, <1>6
  <2> QED BY <1>4, <2>1, <2>2
<1>9. \/ s = 0 /\ (file = <<>> \/ file[F] = Newline)
      \/ s = 1 /\ file # <<>> /\ file[F] # Newline
  BY <1>1, <1>4, SeparatorSays
<1>10. Len(h) = F + c
  BY <1>1, <1>6
<1>11. \A k \in 1..F + c, n \in Nat : Holds(h, k, n) <=> Holds(file, k, n) \/ (k > F /\ Holds(g, k - F, n))
  BY <1>1, <1>6, <1>7, Joined
<1>12. \E d \in e..N : Shows(h, d) /\ (c = s + 3 * (N - e) => d = N)
  <2>1. Continues(g, e, N, s)
    BY <1>6, <1>8 DEF Continues
  <2>2. file # <<>> /\ g # <<>> /\ file[Len(file)] # Newline => g[1] = Newline
    BY <1>7
  <2> HIDE DEF g, N
  <2>3. \E d \in e..N : Shows(file \o g, d) /\ (Len(g) = s + 3 * (N - e) => d = N)
    BY <1>1, <1>2, <1>6, <2>1, <2>2, ShowsMore
  <2> QED BY <1>6, <2>3
<1>13. F >= 1 => file # <<>>
  BY <1>1
<1>14. \A k \in 1..F : \A n \in Nat : Holds(file, k, n) =>
          n \in 1..e /\ k + 1 <= F /\ file[k + 1] # Newline /\ (k + 1 = F \/ file[k + 2] = Newline)
  <2> SUFFICES ASSUME NEW k \in 1..F, NEW n \in Nat, Holds(file, k, n)
               PROVE  n \in 1..e /\ k + 1 <= F /\ file[k + 1] # Newline /\ (k + 1 = F \/ file[k + 2] = Newline)
    OBVIOUS
  <2>1. n \in 1..e
    BY DEF Shows
  <2>2. k \in 1..F - 1 /\ file[k + 1] = <<n, 2>>
    BY DEF Holds
  <2>3. WholeAt(file, 1, k, n)
    BY <1>1, WholeIsHeld
  <2>4. k + 1 = F \/ file[k + 2] = Newline
    BY <2>3 DEF WholeAt
  <2>5. file[k + 1] # Newline
    BY <2>2 DEF Newline
  <2>6. k + 1 <= F
    BY <1>1, <2>2
  <2> QED BY <2>1, <2>4, <2>5, <2>6
<1>15. /\ \A k \in 1..F : \A n \in Nat : Holds(file, k, n) /\ n > pos => k > off
       /\ \A k \in 1..F : Holds(file, k, N) => F <= k + 2
       /\ \/ pos = 0 /\ off = 0
          \/ off >= 3 /\ Holds(file, off - 2, pos)
  BY <1>1 DEF OffsetFits
<1>16. \A k \in Int, n \in Nat : Holds(file, k, n) => k \in 1..F
  BY <1>1 DEF Holds
<1>17. \A k \in 1..F + c, n \in Nat : Holds(h, k, n) =>
          \/ Holds(file, k, n) /\ k \in 1..F
          \/ k > F /\ n \in e + 1..N /\ k = F + s + 3 * ((n - e) - 1) + 1
  <2> SUFFICES ASSUME NEW k \in 1..F + c, NEW n \in Nat, Holds(h, k, n), ~Holds(file, k, n)
               PROVE  k > F /\ n \in e + 1..N /\ k = F + s + 3 * ((n - e) - 1) + 1
    BY <1>16
  <2>1. k > F /\ Holds(g, k - F, n)
    BY <1>11
  <2>2. k - F \in 1..c
    BY <1>1, <1>6, <2>1
  <2>3. n \in e + 1..N /\ k - F = s + 3 * ((n - e) - 1) + 1
    BY <1>8, <2>1, <2>2
  <2> QED BY <1>1, <1>2, <2>1, <2>3
<1> HIDE DEF N, F, g, h, pos, off
<1>18. off <= F \/ (off = F + 1 /\ s = 1)
  <2>1. CASE off >= 3 /\ Holds(file, off - 2, pos)
    <3>1. off - 2 \in 1..F
      BY <1>1, <1>16, <2>1
    <3>2. (off - 2) + 1 <= F /\ file[(off - 2) + 1] # Newline
      BY <1>1, <1>14, <2>1, <3>1
    <3>3. off - 1 <= F /\ file[off - 1] # Newline
      BY <1>1, <3>2
    <3>4. CASE off - 1 = F
      BY <1>1, <1>9, <1>13, <3>1, <3>3, <3>4
    <3> QED BY <1>1, <3>3, <3>4
  <2> QED BY <1>1, <1>15, <2>1
<1>19. ASSUME NEW k \in 1..F + c, NEW n \in Nat, Holds(h, k, n), n > pos PROVE k > off
  <2>1. CASE Holds(file, k, n) /\ k \in 1..F
    BY <1>15, <1>19, <2>1
  <2>2. CASE k > F /\ n \in e + 1..N /\ k = F + s + 3 * ((n - e) - 1) + 1
    BY <1>1, <1>2, <1>18, <2>2
  <2> QED BY <1>17, <1>19, <2>1, <2>2
<1>20. ASSUME NEW k \in 1..F + c, Holds(h, k, N) PROVE F + c <= k + 2
  <2>1. CASE Holds(file, k, N) /\ k \in 1..F
    <3>1. /\ N \in 1..e /\ k + 1 <= F /\ file[k + 1] # Newline /\ (k + 1 = F \/ file[k + 2] = Newline)
          /\ F <= k + 2
      BY <1>1, <1>14, <1>15, <2>1
    <3>2. N = e /\ c <= s
      BY <1>1, <1>2, <1>6, <3>1
    <3>3. CASE k + 1 = F
      BY <1>1, <1>6, <3>2, <3>3
    <3>4. CASE k + 1 # F
      <4>1. F = k + 2 /\ file[F] = Newline
        BY <1>1, <3>1, <3>4
      <4> QED BY <1>1, <1>6, <1>9, <3>2, <4>1
    <3> QED BY <3>3, <3>4
  <2>2. CASE k > F /\ k = F + s + 3 * ((N - e) - 1) + 1
    BY <1>1, <1>2, <1>6, <2>2
  <2> QED BY <1>1, <1>17, <1>20, <2>1, <2>2
<1>21. ASSUME off >= 3, Holds(file, off - 2, pos) PROVE Holds(h, off - 2, pos)
  <2>1. off - 2 \in 1..F
    BY <1>1, <1>16, <1>21
  <2>2. off - 2 \in 1..F + c
    BY <1>1, <1>6, <2>1
  <2> QED BY <1>1, <1>11, <1>21, <2>2
<1>22. OffsetFits(h, export, N)
  BY <1>10, <1>15, <1>19, <1>20, <1>21 DEF OffsetFits, pos, off
<1>23. ASSUME c = s + 3 * (N - e), pos < N PROVE F + c >= 3 /\ Holds(h, (F + c) - 2, N)
  <2>1. CASE e < N
    <3> DEFINE p == s + 3 * ((N - e) - 1) + 1
    <3>1. N \in e + 1..N /\ p \in 1..c /\ p + 1 <= c /\ p = c - 2
      BY <1>1, <1>2, <1>23, <2>1
    <3>2. Holds(g, p, N)
      BY <1>1, <1>8, <3>1
    <3> HIDE DEF p
    <3>4. p \in Nat /\ p >= 1 /\ c = p + 2
      BY <1>6, <3>1
    <3>3. F + p \in 1..F + c /\ F + p > F /\ (F + p) - F = p /\ F + p = (F + c) - 2 /\ F + c >= 3
      BY <1>1, <3>4
    <3> QED BY <1>1, <1>11, <3>2, <3>3
  <2>2. CASE e = N
    <3>1. N \in 1..e
      BY <1>1, <1>23, <2>2
    <3>2. PICK k \in 1..F : Holds(file, k, N)
      BY <3>1 DEF Shows, F
    <3>3. /\ k + 1 <= F /\ file[k + 1] # Newline /\ (k + 1 = F \/ file[k + 2] = Newline)
          /\ F <= k + 2
      BY <1>1, <1>14, <1>15, <3>2
    <3>4. c = s
      BY <1>1, <1>2, <1>23, <2>2
    <3>5. F + c = k + 2
      <4>1. CASE k + 1 = F
        BY <1>1, <1>9, <1>13, <3>3, <3>4, <4>1
      <4>2. CASE k + 1 # F
        <5>1. F = k + 2 /\ file[F] = Newline
          BY <1>1, <3>3, <4>2
        <5> QED BY <1>1, <1>9, <3>4, <5>1
      <4> QED BY <4>1, <4>2
    <3>6. k \in 1..F + c /\ (F + c) - 2 = k /\ F + c >= 3
      BY <1>1, <1>6, <3>5
    <3> QED BY <1>1, <1>11, <3>2, <3>6
  <2> QED BY <1>1, <1>2, <2>1, <2>2
<1> QED BY <1>4, <1>10, <1>12, <1>22, <1>23 DEF N, h, g, pos

(* What can be read is what stands in the file.                              *)
LEMMA ReadableIsHeld ==
    ASSUME NEW f \in Seq(Pieces), StartsLines(f), EndsLines(f), NEW n \in Nat
    PROVE  ReadableIn(f, n) <=> \E k \in 1..Len(f) : Holds(f, k, n)
<1>1. DOMAIN f = 1..Len(f) /\ 1 \in Nat \ {0}
  OBVIOUS
<1>2. \A k \in 1..Len(f) : WholeAt(f, 1, k, n) <=> Holds(f, k, n)
  BY <1>1, WholeIsHeld
<1> QED BY <1>1, <1>2 DEF ReadableIn

(* A truncation that takes no record leaves every record where it was.       *)
LEMMA ShrinkHeld ==
    ASSUME OutboxIInv, FileInOrder, Shrink, cut' = {}
    PROVE  /\ cut = {} /\ EndsLines(file') /\ Len(file') \in Nat /\ Len(file') < Len(file)
           /\ \A k \in Int, n \in Nat : Holds(file', k, n) <=> Holds(file, k, n)
<1>1. /\ rows \in Seq(OutboxRow) /\ DOMAIN rows = 1..Len(rows) /\ Len(rows) \in Nat /\ file \in Seq(Pieces) /\ Len(file) \in Nat
      /\ StartsLines(file) /\ EndsLines(file) /\ export.position \in Nat
  BY TypeInTwo DEF OutboxIInv, OutboxInv, OutboxShape, CursorsTyped, FileInOrder
<1>2. PICK c \in 0..Len(file) - 1 : file' = SubSeq(file, 1, c)
  BY DEF Shrink
<1>3. cut' = cut \cup {n \in DOMAIN rows : ReadableIn(file, n) /\ ~ ReadableIn(file', n)}
  BY DEF Shrink
<1>4. cut = {} /\ \A n \in DOMAIN rows : ReadableIn(file, n) => ReadableIn(file', n)
  BY <1>3
<1>5. c \in 0..Len(file) /\ c < Len(file) /\ c \in Nat
  BY <1>1
<1>6. file' \in Seq(Pieces) /\ Len(file') = c /\ StartsLines(file')
  BY <1>1, <1>2, <1>5, PrefixStartsLines
<1>7. /\ EndsLines(file')
      /\ \A k \in 1..Len(file), n \in Nat : Holds(file', k, n) <=> Holds(file, k, n) /\ k + 1 <= c
  BY <1>1, <1>2, <1>5, PrefixHeld
<1>8. PICK e \in export.position..Len(rows) : Shows(file, e)
  BY <1>4 DEF FileInOrder
<1>9. ASSUME NEW k \in Int, NEW n \in Nat, Holds(file, k, n) PROVE Holds(file', k, n)
  <2>1. k \in 1..Len(file)
    BY <1>1, <1>9 DEF Holds
  <2>2. n \in 1..e
    BY <1>8, <1>9, <2>1 DEF Shows
  <2>3. n \in DOMAIN rows
    BY <1>1, <1>8, <2>2
  <2>4. ReadableIn(file, n)
    BY <1>1, <1>9, <2>1, ReadableIsHeld
  <2>5. ReadableIn(file', n)
    BY <1>4, <2>3, <2>4
  <2>6. PICK l \in 1..Len(file') : Holds(file', l, n)
    BY <1>6, <1>7, <2>5, ReadableIsHeld
  <2>7. l \in 1..Len(file) /\ l \in Int
    BY <1>1, <1>5, <1>6
  <2>8. Holds(file, l, n)
    BY <1>7, <2>6, <2>7
  <2>9. (k < l => n < n) /\ (l < k => n < n)
    BY <1>8, <1>9, <2>1, <2>7, <2>8 DEF Shows
  <2>10. k = l
    BY <2>7, <2>9
  <2> QED BY <2>6, <2>10
<1>10. ASSUME NEW k \in Int, NEW n \in Nat, Holds(file', k, n) PROVE Holds(file, k, n)
  <2>1. k \in 1..Len(file)
    BY <1>1, <1>5, <1>6, <1>10 DEF Holds
  <2> QED BY <1>7, <1>10, <2>1
<1> QED BY <1>4, <1>5, <1>6, <1>7, <1>9, <1>10

(* Every step leaves the file in order.                                      *)
LEMMA InOrderKept ==
    ASSUME OutboxIInv, FileInOrder, [OutboxNext]_outboxVars
    PROVE  FileInOrder'
<1>1. /\ rows \in Seq(OutboxRow) /\ DOMAIN rows = 1..Len(rows) /\ Len(rows) \in Nat /\ file \in Seq(Pieces) /\ Len(file) \in Nat
      /\ StartsLines(file) /\ EndsLines(file) /\ export.position \in Nat /\ export.byte_offset \in Nat
      /\ export.position <= Len(rows)
  BY TypeInTwo DEF OutboxIInv, OutboxInv, OutboxShape, CursorsTyped, FileInOrder
<1>2. OutboxIInv'
  BY NextSound
<1>3. rows' \in Seq(OutboxRow) /\ Len(rows') \in Nat
  BY <1>2 DEF OutboxIInv, OutboxShape
<1> SUFFICES /\ EndsLines(file')
             /\ cut' = {} => /\ \E d \in export'.position..Len(rows') : Shows(file', d)
                             /\ OffsetFits(file', export', Len(rows'))
  BY DEF FileInOrder, EndsLines, Shows, OffsetFits, Holds, Newline
<1>4. CASE RowsGrowOnly
  <2>1. Len(rows) <= Len(rows') /\ UNCHANGED <<export, file, cut>>
    BY <1>4 DEF RowsGrowOnly
  <2>2. EndsLines(file')
    BY <1>1, <2>1
  <2>3. ASSUME cut = {}
        PROVE  (\E d \in export.position..Len(rows') : Shows(file, d)) /\ OffsetFits(file, export, Len(rows'))
    <3>1. PICK e \in export.position..Len(rows) : Shows(file, e)
      BY <2>3 DEF FileInOrder
    <3>2. e \in export.position..Len(rows')
      BY <1>1, <1>3, <2>1
    <3>3. OffsetFits(file, export, Len(rows))
      BY <2>3 DEF FileInOrder
    <3>4. ASSUME NEW k \in 1..Len(file), Holds(file, k, Len(rows')) PROVE Len(file) <= k + 2
      <4>1. Len(rows') \in 1..e
        BY <1>3, <3>1, <3>4 DEF Shows
      <4>2. Len(rows') = Len(rows)
        BY <1>1, <1>3, <2>1, <4>1
      <4> QED BY <3>3, <3>4, <4>2 DEF OffsetFits
    <3>5. OffsetFits(file, export, Len(rows'))
      BY <3>3, <3>4 DEF OffsetFits
    <3> QED BY <3>1, <3>2, <3>5
  <2> QED BY <2>1, <2>2, <2>3
<1>5. ASSUME NEW c \in 0..Len(Appended), file' = file \o SubSeq(Appended, 1, c) PROVE EndsLines(file')
  <2>1. /\ Appended \in Seq(Pieces) /\ StartsLines(Appended)
        /\ file # <<>> /\ file[Len(file)] # Newline => Appended # <<>> /\ Appended[1] = Newline
    BY AppendedSound
  <2> DEFINE g == SubSeq(Appended, 1, c)
  <2>2. g \in Seq(Pieces) /\ Len(g) = c /\ \A j \in 1..c : g[j] = Appended[j]
    BY <2>1, PrefixStartsLines
  <2>3. EndsLines(g)
    BY <2>1, AppendedEnds, PrefixHeld
  <2>4. g # <<>> => 1 \in 1..c
    BY <2>2
  <2> HIDE DEF g
  <2>5. file # <<>> /\ g # <<>> /\ file[Len(file)] # Newline => g[1] = Newline
    BY <2>1, <2>2, <2>4
  <2>6. EndsLines(file \o g)
    BY <1>1, <2>2, <2>3, <2>5, Joined
  <2> QED BY <1>5, <2>6 DEF g
<1>6. CASE export_jsonl
  <2>1. /\ file' = file \o Appended /\ export' = [position |-> Len(rows), byte_offset |-> Len(file')]
        /\ UNCHANGED <<rows, cut>> /\ export.position < Len(rows)
    BY <1>6 DEF export_jsonl, Saved
  <2>2. Appended \in Seq(Pieces)
    BY AppendedSound
  <2>3. Len(Appended) \in 0..Len(Appended) /\ SubSeq(Appended, 1, Len(Appended)) = Appended
    BY <2>2
  <2>4. EndsLines(file')
    BY <1>5, <2>1, <2>3
  <2>5. export'.position = Len(rows) /\ export'.byte_offset = Len(file')
    BY <2>1
  <2>6. ASSUME cut = {}
        PROVE  (\E d \in export'.position..Len(rows) : Shows(file', d)) /\ OffsetFits(file', export', Len(rows))
    <3>1. PICK e \in export.position..Len(rows) : Shows(file, e)
      BY <2>6 DEF FileInOrder
    <3>2. /\ \E d \in e..Len(rows) : Shows(file', d) /\ d = Len(rows)
          /\ OffsetFits(file', export, Len(rows))
          /\ Len(file') >= 3 /\ Holds(file', Len(file') - 2, Len(rows))
      BY <2>1, <2>3, <2>6, <3>1, ExportInOrder
    <3>3. Shows(file', Len(rows)) /\ Len(rows) \in export'.position..Len(rows)
      BY <1>1, <2>5, <3>2
    <3>4. ASSUME NEW k \in 1..Len(file'), NEW n \in Nat, Holds(file', k, n) PROVE ~(n > Len(rows))
      <4>1. n \in 1..Len(rows)
        BY <3>3, <3>4 DEF Shows
      <4> QED BY <1>1, <4>1
    <3>5. \A k \in 1..Len(file') : Holds(file', k, Len(rows)) => Len(file') <= k + 2
      BY <3>2 DEF OffsetFits
    <3>6. OffsetFits(file', export', Len(rows))
      BY <2>5, <3>2, <3>4, <3>5 DEF OffsetFits
    <3> QED BY <3>3, <3>6
  <2> QED BY <2>1, <2>4, <2>6
<1>7. CASE ExportInterrupted
  <2>1. PICK c \in 1..Len(Appended) : file' = file \o SubSeq(Appended, 1, c)
    BY <1>7 DEF ExportInterrupted
  <2>2. UNCHANGED <<rows, export, cut>>
    BY <1>7 DEF ExportInterrupted
  <2>3. c \in 0..Len(Appended)
    OBVIOUS
  <2>4. EndsLines(file')
    BY <1>5, <2>1, <2>3
  <2>5. ASSUME cut = {}
        PROVE  (\E d \in export.position..Len(rows) : Shows(file', d)) /\ OffsetFits(file', export, Len(rows))
    <3>1. PICK e \in export.position..Len(rows) : Shows(file, e)
      BY <2>5 DEF FileInOrder
    <3>2. (\E d \in e..Len(rows) : Shows(file', d)) /\ OffsetFits(file', export, Len(rows))
      BY <2>1, <2>3, <2>5, <3>1, ExportInOrder
    <3>3. \A d \in e..Len(rows) : d \in export.position..Len(rows)
      BY <1>1
    <3> QED BY <3>2, <3>3
  <2> QED BY <2>2, <2>4, <2>5
<1>8. CASE Shrink
  <2>1. UNCHANGED <<rows, export>>
    BY <1>8 DEF Shrink
  <2>2. EndsLines(file')
    <3>1. PICK c \in 0..Len(file) - 1 : file' = SubSeq(file, 1, c)
      BY <1>8 DEF Shrink
    <3>2. c \in 0..Len(file)
      BY <1>1
    <3> QED BY <1>1, <3>1, <3>2, PrefixHeld
  <2>3. ASSUME cut' = {}
        PROVE  (\E d \in export.position..Len(rows) : Shows(file', d)) /\ OffsetFits(file', export, Len(rows))
    <3> DEFINE F == Len(file)
               G == Len(file')
    <3>1. /\ cut = {} /\ G \in Nat /\ G < F
          /\ \A k \in Int, n \in Nat : Holds(file', k, n) <=> Holds(file, k, n)
      BY <1>8, <2>3, ShrinkHeld
    <3>2. PICK e \in export.position..Len(rows) : Shows(file, e)
      BY <3>1 DEF FileInOrder
    <3>3. OffsetFits(file, export, Len(rows))
      BY <3>1 DEF FileInOrder
    <3>4. \A k \in Int, n \in Nat : Holds(file', k, n) => k \in 1..G /\ k \in 1..F
      BY <1>1, <3>1 DEF Holds
    <3>5. 1..G \subseteq 1..F /\ 1..F \subseteq Int
      BY <1>1, <3>1
    <3>6. 1..e \subseteq Nat /\ e \in Nat
      BY <1>1
    <3>7. /\ \A n \in 1..e : \E k \in 1..F : Holds(file, k, n)
          /\ \A k \in 1..F : \A n \in Nat : Holds(file, k, n) => n \in 1..e
          /\ \A k, l \in 1..F : \A m, n \in Nat : Holds(file, k, m) /\ Holds(file, l, n) /\ k < l => m < n
      BY <3>2 DEF Shows
    <3>8. /\ \A k \in 1..F : \A n \in Nat : Holds(file, k, n) /\ n > export.position => k > export.byte_offset
          /\ \A k \in 1..F : Holds(file, k, Len(rows)) => F <= k + 2
          /\ \/ export.position = 0 /\ export.byte_offset = 0
             \/ export.byte_offset >= 3 /\ Holds(file, export.byte_offset - 2, export.position)
      BY <3>3 DEF OffsetFits
    <3> HIDE DEF F, G
    <3>9. \A n \in 1..e : \E k \in 1..G : Holds(file', k, n)
      <4> SUFFICES ASSUME NEW n \in 1..e PROVE \E k \in 1..G : Holds(file', k, n)
        OBVIOUS
      <4>1. PICK k \in 1..F : Holds(file, k, n)
        BY <3>7
      <4> QED BY <3>1, <3>4, <3>5, <3>6, <4>1
    <3>10. \A k \in 1..G : \A n \in Nat : Holds(file', k, n) => n \in 1..e
      BY <3>1, <3>5, <3>7
    <3>11. \A k, l \in 1..G : \A m, n \in Nat : Holds(file', k, m) /\ Holds(file', l, n) /\ k < l => m < n
      BY <3>1, <3>5, <3>7
    <3>12. Shows(file', e)
      BY <3>9, <3>10, <3>11 DEF Shows, G
    <3>13. \A k \in 1..G : \A n \in Nat : Holds(file', k, n) /\ n > export.position => k > export.byte_offset
      BY <3>1, <3>5, <3>8
    <3>14. ASSUME NEW k \in 1..G, Holds(file', k, Len(rows)) PROVE G <= k + 2
      <4>1. Holds(file, k, Len(rows)) /\ k \in 1..F
        BY <1>1, <3>1, <3>5, <3>14
      <4>2. F <= k + 2
        BY <3>8, <4>1
      <4> QED BY <1>1, <3>1, <4>2 DEF F
    <3>15. \/ export.position = 0 /\ export.byte_offset = 0
           \/ export.byte_offset >= 3 /\ Holds(file', export.byte_offset - 2, export.position)
      <4>1. export.byte_offset - 2 \in Int
        BY <1>1
      <4> QED BY <1>1, <3>1, <3>8, <4>1
    <3>16. OffsetFits(file', export, Len(rows))
      BY <3>13, <3>14, <3>15 DEF OffsetFits, G
    <3> QED BY <3>12, <3>16
  <2> QED BY <2>1, <2>2, <2>3
<1> QED BY <1>4, <1>6, <1>7, <1>8, StepKinds

(* The abstract log of the rows r.                                           *)
LogOf(r) == [n \in DOMAIN r |-> r[n].id]

(* A step of the outbox is a step of the delivery log, or none.              *)
LEMMA StepDelivers ==
    ASSUME OutboxIInv, FileInOrder, [OutboxNext]_outboxVars
    PROVE  [DL!Record \/ DL!Deliver \/ DL!Tampered]_<<LogOf(rows), DeliveredIds, cut = {}>>
<1>1. /\ rows \in Seq(OutboxRow) /\ DOMAIN rows = 1..Len(rows) /\ Len(rows) \in Nat /\ file \in Seq(Pieces) /\ Len(file) \in Nat
      /\ StartsLines(file) /\ EndsLines(file) /\ export.position \in Nat
      /\ \A k \in DOMAIN file : file[k] \in Placed
  BY TypeInTwo DEF OutboxIInv, OutboxInv, OutboxShape, CursorsTyped, FileInOrder, Placed
<1>2. OutboxIInv' /\ FileInOrder'
  BY NextSound, InOrderKept
<1>3. /\ rows' \in Seq(OutboxRow) /\ DOMAIN rows' = 1..Len(rows') /\ Len(rows') \in Nat /\ file' \in Seq(Pieces)
      /\ StartsLines(file') /\ EndsLines(file') /\ export'.position \in Nat
  <2>1. OutboxShape' /\ StartsLines(file)' /\ EndsLines(file)'
    BY <1>2 DEF OutboxIInv, FileInOrder
  <2>2. StartsLines(file') /\ EndsLines(file')
    BY <2>1 DEF StartsLines, EndsLines, Newline
  <2> QED BY <2>1, <2>2 DEF OutboxShape
<1>4. DeliveredIds = ShownIn(file, rows) /\ DeliveredIds' = ShownIn(file', rows')
  BY DEF DeliveredIds, ShownIn, WholeAt, Newline
<1>5. CASE RowsGrowOnly
  <2>1. Len(rows) <= Len(rows') /\ UNCHANGED <<export, file, cut>> /\ \A n \in 1..Len(rows) : rows'[n] = rows[n]
    BY <1>5 DEF RowsGrowOnly
  <2> DEFINE S == {k \in DOMAIN file : \E n \in DOMAIN rows : WholeAt(file, 1, k, n)}
             T == {k \in DOMAIN file : \E n \in DOMAIN rows' : WholeAt(file, 1, k, n)}
  <2>2. \A k \in DOMAIN file : \A n \in DOMAIN rows' : WholeAt(file, 1, k, n) => n \in DOMAIN rows
    <3> SUFFICES ASSUME NEW k \in DOMAIN file, NEW n \in DOMAIN rows', WholeAt(file, 1, k, n) PROVE n \in DOMAIN rows
      OBVIOUS
    <3>1. file[k] = <<n, 1>>
      BY DEF WholeAt
    <3>2. file[k] \in ((1..Len(rows)) \X {1, 2}) \cup {<<0, 0>>}
      BY <1>1 DEF Placed, Newline
    <3> QED BY <1>1, <3>1, <3>2
  <2>3. DOMAIN rows \subseteq DOMAIN rows'
    BY <1>1, <1>3, <2>1
  <2>4. S = T
    BY <2>2, <2>3
  <2>5. ASSUME NEW k \in S PROVE file[k][1] \in 1..Len(rows)
    <3>1. PICK n \in DOMAIN rows : WholeAt(file, 1, k, n)
      OBVIOUS
    <3>2. file[k] = <<n, 1>>
      BY <3>1 DEF WholeAt
    <3> QED BY <1>1, <3>2
  <2> DEFINE Start(j) == CHOOSE k \in S : Cardinality({l \in S : l <= k}) = j
  <2>6. IsFiniteSet(S) /\ S \in SUBSET Nat
    <3>1. S \subseteq 1..Len(file)
      BY <1>1
    <3>2. IsFiniteSet(1..Len(file))
      BY <1>1, UptoCounted
    <3>3. IsFiniteSet(S)
      BY <3>1, <3>2, FS_Subset
    <3> QED BY <3>1, <3>3
  <2>7. ShownIn(file, rows) = [j \in 1..Cardinality(S) |-> rows[file[Start(j)][1]].id]
    BY DEF ShownIn
  <2>8. ShownIn(file, rows') = [j \in 1..Cardinality(S) |-> rows'[file[Start(j)][1]].id]
    <3> DEFINE G(X) == [j \in 1..Cardinality(X) |-> rows'[file[CHOOSE k \in X : Cardinality({l \in X : l <= k}) = j][1]].id]
    <3>1. ShownIn(file, rows') = G(T)
      BY DEF ShownIn
    <3>2. G(S) = [j \in 1..Cardinality(S) |-> rows'[file[Start(j)][1]].id]
      OBVIOUS
    <3> HIDE DEF S, T, G
    <3> QED BY <2>4, <3>1, <3>2
  <2> HIDE DEF S, T
  <2>9. \A j \in 1..Cardinality(S) : Start(j) \in S
    BY <2>6, NthRanks DEF Nth
  <2> HIDE DEF Start
  <2>10. \A j \in 1..Cardinality(S) : rows'[file[Start(j)][1]] = rows[file[Start(j)][1]]
    BY <2>1, <2>5, <2>9
  <2>11. DeliveredIds' = DeliveredIds
    BY <1>4, <2>1, <2>7, <2>8, <2>10
  <2>12. (cut = {})' = (cut = {})
    BY <2>1
  <2>13. CASE Len(rows') = Len(rows)
    <3>1. LogOf(rows') = LogOf(rows)
      BY <1>1, <1>3, <2>1, <2>13 DEF LogOf
    <3>2. LogOf(rows)' = LogOf(rows')
      BY DEF LogOf
    <3> QED BY <2>11, <2>12, <3>1, <3>2
  <2>14. CASE Len(rows') # Len(rows)
    <3> DEFINE a == LogOf(rows)
               b == LogOf(rows')
               n == Len(rows) + 1
    <3>1. a \in Seq(DeliveryIds) /\ Len(a) = Len(rows) /\ b \in Seq(DeliveryIds) /\ Len(b) = Len(rows')
      <4>1. \A x \in OutboxRow : x.id \in DeliveryIds
        BY DEF OutboxRow
      <4> QED BY <1>1, <1>3, <4>1 DEF LogOf
    <3>2. \A k \in 1..Len(rows) : b[k] = a[k]
      BY <1>1, <1>3, <2>1, <2>3 DEF LogOf
    <3>3. \A k, j \in 1..Len(rows') : b[k] = b[j] => k = j
      <4>1. UniqueDelivery'
        BY <1>2 DEF OutboxIInv, OutboxInv
      <4> QED BY <1>3, <4>1 DEF UniqueDelivery, LogOf
    <3> HIDE DEF a, b
    <3>4. n \in 1..Len(b) /\ n - 1 = Len(a)
      <4> DEFINE p == Len(rows)
                 q == Len(rows')
      <4>1. p \in Nat /\ q \in Nat /\ p <= q /\ p # q /\ Len(b) = q /\ Len(a) = p /\ n = p + 1
        BY <1>1, <1>3, <2>1, <2>14, <3>1
      <4> HIDE DEF p, q, n
      <4> QED BY <4>1
    <3> HIDE DEF n
    <3>5. SubSeq(b, 1, n - 1) = a
      BY <1>1, <1>3, <2>1, <3>1, <3>2, <3>4
    <3>6. \A k \in n..Len(b) : b[k] \in DeliveryIds \ {b[j] : j \in 1..k - 1}
      <4> SUFFICES ASSUME NEW k \in n..Len(b) PROVE b[k] \in DeliveryIds \ {b[j] : j \in 1..k - 1}
        OBVIOUS
      <4>1. k \in 1..Len(b) /\ Len(b) \in Nat
        BY <3>1, <3>4
      <4>2. b[k] \in DeliveryIds
        BY <3>1, <4>1
      <4>3. \A j \in 1..k - 1 : j \in 1..Len(b) /\ j # k
        BY <4>1
      <4>4. \A j \in 1..k - 1 : b[j] # b[k]
        BY <3>1, <3>3, <4>1, <4>3
      <4> QED BY <4>2, <4>4
    <3>7. \E m \in 1..Len(b) : /\ SubSeq(b, 1, m - 1) = a
                               /\ \A k \in m..Len(b) : b[k] \in DeliveryIds \ {b[j] : j \in 1..k - 1}
      BY <3>4, <3>5, <3>6
    <3>8. a = [m \in DOMAIN rows |-> rows[m].id] /\ b = [m \in DOMAIN rows' |-> rows'[m].id]
      BY DEF a, b, LogOf
    <3>9. DL!Record
      BY <2>11, <2>12, <3>7, <3>8 DEF DL!Record
    <3> QED BY <3>9
  <2> QED BY <2>13, <2>14
<1>6. CASE export_jsonl \/ ExportInterrupted \/ Shrink
  <2>1. rows' = rows
    BY <1>6 DEF export_jsonl, ExportInterrupted, Shrink
  <2>2. LogOf(rows)' = LogOf(rows)
    BY <2>1 DEF LogOf
  <2>3. CASE cut' # {}
    <3>1. DL!Tampered
      BY <2>1, <2>3 DEF DL!Tampered
    <3> QED BY <3>1
  <2>4. CASE cut' = {}
    <3>1. cut = {}
      BY <1>6, <2>4, ShrinkHeld DEF export_jsonl, ExportInterrupted
    <3>2. PICK e \in export.position..Len(rows) : Shows(file, e)
      BY <3>1 DEF FileInOrder
    <3>3. PICK d \in export'.position..Len(rows) : Shows(file', d)
      <4>1. \E d \in export'.position..Len(rows') : Shows(file, d)'
        BY <1>2, <2>4 DEF FileInOrder
      <4> QED BY <2>1, <4>1 DEF Shows, Holds
    <3>4. e \in 0..Len(rows) /\ d \in 0..Len(rows)
      BY <1>1, <1>3
    <3>5. DeliveredIds = [j \in 1..e |-> rows[j].id]
      BY <1>1, <1>4, <3>2, <3>4, ShownInOrder
    <3>6. DeliveredIds' = [j \in 1..d |-> rows[j].id]
      BY <1>1, <1>3, <1>4, <2>1, <3>3, <3>4, ShownInOrder
    <3>7. e <= d
      <4>1. ASSUME NEW k \in 1..Len(file), Holds(file, k, e), e >= 1 PROVE \E l \in 1..Len(file') : Holds(file', l, e)
        <5>0. e \in Nat
          BY <1>1
        <5>1. ReadableIn(file, e)
          BY <1>1, <4>1, <5>0, ReadableIsHeld
        <5>2. ReadableIn(file', e)
          <6>1. CASE Shrink
            BY <1>1, <2>4, <3>4, <4>1, <5>1, <6>1 DEF Shrink
          <6>2. ASSUME NEW c \in 0..Len(Appended), file' = file \o SubSeq(Appended, 1, c) PROVE ReadableIn(file', e)
            <7>1. /\ Appended \in Seq(Pieces) /\ StartsLines(Appended)
                  /\ file # <<>> /\ file[Len(file)] # Newline => Appended # <<>> /\ Appended[1] = Newline
              BY AppendedSound
            <7> DEFINE g == SubSeq(Appended, 1, c)
            <7>2. g \in Seq(Pieces) /\ Len(g) = c /\ StartsLines(g) /\ \A j \in 1..c : g[j] = Appended[j]
              BY <7>1, PrefixStartsLines
            <7>3. g # <<>> => 1 \in 1..c
              BY <7>2
            <7> HIDE DEF g
            <7>4. file # <<>> /\ g # <<>> /\ file[Len(file)] # Newline => g[1] = Newline
              BY <7>1, <7>2, <7>3
            <7>5. ReadableIn(file \o g, e)
              BY <1>1, <5>0, <5>1, <7>2, <7>4, Extended
            <7> QED BY <6>2, <7>5 DEF g
          <6>3. CASE export_jsonl
            <7>1. Appended \in Seq(Pieces)
              BY AppendedSound
            <7>2. Len(Appended) \in 0..Len(Appended) /\ SubSeq(Appended, 1, Len(Appended)) = Appended
              BY <7>1
            <7> QED BY <6>2, <6>3, <7>2 DEF export_jsonl
          <6>4. CASE ExportInterrupted
            <7>1. PICK c \in 1..Len(Appended) : file' = file \o SubSeq(Appended, 1, c)
              BY <6>4 DEF ExportInterrupted
            <7>2. c \in 0..Len(Appended)
              OBVIOUS
            <7> QED BY <6>2, <7>1, <7>2
          <6> QED BY <1>6, <6>1, <6>3, <6>4
        <5> QED BY <1>3, <5>0, <5>2, ReadableIsHeld
      <4>2. CASE e >= 1
        <5>1. e \in 1..e /\ e \in Nat
          BY <1>1, <4>2
        <5>2. PICK k \in 1..Len(file) : Holds(file, k, e)
          BY <3>2, <5>1 DEF Shows
        <5>3. PICK l \in 1..Len(file') : Holds(file', l, e)
          BY <4>1, <4>2, <5>2
        <5>4. e \in 1..d
          BY <3>3, <5>1, <5>3 DEF Shows
        <5> QED BY <3>4, <5>4
      <4> QED BY <1>1, <3>4, <4>2
    <3>8. CASE e = d
      BY <2>2, <2>4, <3>1, <3>5, <3>6, <3>8
    <3>9. CASE e < d
      <4> DEFINE log == LogOf(rows)
      <4>1. log \in Seq(DeliveryIds) /\ Len(log) = Len(rows) /\ \A j \in 1..Len(rows) : log[j] = rows[j].id
        <5>1. \A x \in OutboxRow : x.id \in DeliveryIds
          BY DEF OutboxRow
        <5> QED BY <1>1, <5>1 DEF LogOf
      <4> HIDE DEF log
      <4>2. SubSeq(log, 1, d) = [j \in 1..d |-> rows[j].id]
        BY <1>1, <3>4, <4>1
      <4>3. Len(DeliveredIds) = e /\ d \in e + 1..Len(log)
        BY <1>1, <3>4, <3>5, <3>9, <4>1
      <4>4. log = [n \in DOMAIN rows |-> rows[n].id]
        BY DEF log, LogOf
      <4>5. DL!Deliver
        BY <2>1, <2>4, <3>1, <3>6, <4>2, <4>3, <4>4 DEF DL!Deliver
      <4> QED BY <4>5
    <3> QED BY <3>4, <3>7, <3>8, <3>9
  <2> QED BY <2>3, <2>4
<1> QED BY <1>5, <1>6, StepKinds

(* The outbox implements the delivery log, for any number of rows and any    *)
(* length of the file: however exports are torn, retried and resumed         *)
(* (export_jsonl), a reader of the file finds every record once, in order    *)
(* and with none left out, until someone cuts a record out of the file.      *)
THEOREM OutboxDelivers == OutboxSpec => ImplementsDeliveryLog
<1>1. OutboxInit => OutboxIInv
  BY InitSound
<1>2. OutboxInit => FileInOrder
  <2> SUFFICES ASSUME OutboxInit PROVE FileInOrder
    OBVIOUS
  <2>1. file = <<>> /\ rows = <<>> /\ export.position = 0 /\ export.byte_offset = 0
    BY DEF OutboxInit
  <2>2. Len(file) = 0 /\ Len(rows) = 0 /\ DOMAIN file = {} /\ 0 \in export.position..Len(rows)
    BY <2>1
  <2>3. EndsLines(file) /\ Shows(file, 0)
    BY <2>2 DEF EndsLines, Shows
  <2>4. OffsetFits(file, export, Len(rows))
    BY <2>1, <2>2 DEF OffsetFits
  <2> QED BY <2>2, <2>3, <2>4 DEF FileInOrder
<1>3. OutboxInit => DL!LogInit
  <2> SUFFICES ASSUME OutboxInit PROVE DL!LogInit
    OBVIOUS
  <2>1. file = <<>> /\ rows = <<>> /\ cut = {}
    BY DEF OutboxInit
  <2>2. DOMAIN file = {} /\ DOMAIN rows = {}
    BY <2>1
  <2> DEFINE S == {k \in DOMAIN file : \E n \in DOMAIN rows : WholeAt(file, 1, k, n)}
             Start(j) == CHOOSE k \in S : Cardinality({l \in S : l <= k}) = j
  <2>3. S = {} /\ Cardinality(S) = 0
    BY <2>2, FS_EmptySet
  <2>4. DeliveredIds = [j \in 1..Cardinality(S) |-> rows[file[Start(j)][1]].id]
    BY DEF DeliveredIds
  <2> HIDE DEF S, Start
  <2>5. DeliveredIds = <<>>
    BY <2>3, <2>4
  <2>6. [n \in DOMAIN rows |-> rows[n].id] = <<>>
    BY <2>2
  <2> QED BY <2>1, <2>5, <2>6 DEF DL!LogInit
<1>4. OutboxIInv /\ FileInOrder /\ [OutboxNext]_outboxVars => OutboxIInv' /\ FileInOrder'
  BY NextSound, InOrderKept
<1>5. OutboxIInv /\ FileInOrder /\ [OutboxNext]_outboxVars
        => [DL!Record \/ DL!Deliver \/ DL!Tampered]_<<[n \in DOMAIN rows |-> rows[n].id], DeliveredIds, cut = {}>>
  BY StepDelivers DEF LogOf
<1> QED BY <1>1, <1>2, <1>3, <1>4, <1>5, PTL DEF OutboxSpec, ImplementsDeliveryLog, DL!LogSpec
=============================================================================
