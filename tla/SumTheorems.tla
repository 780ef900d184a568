---------------------------- MODULE SumTheorems ----------------------------
(***************************************************************************)
(* Sums of a function over a finite set (SumFunctionOnSet and SumFunction  *)
(* of the community modules): that they are integers, and what adding,     *)
(* taking away or changing one element does to them.  The library defines  *)
(* them by a recursion on the subsets of the set; the facts are proved by  *)
(* induction on those, with the library's theorem that the strict subset   *)
(* order of a finite set is well founded.                                  *)
(***************************************************************************)
EXTENDS Integers, Functions, FiniteSets, FiniteSetTheorems, WellFoundedInduction, TLAPS

\* The element a sum over s takes next.
Taken(s) == CHOOSE x \in s : TRUE

\* g sums f over the subsets of D.
Sums(g, f, D) ==
    g = [s \in SUBSET D |-> IF s = {} THEN 0 ELSE f[Taken(s)] + g[s \ {Taken(s)}]]

\* The sum over D, as the library defines it: the value at D of the function that
\* sums over every subset.
LEMMA SumUnfold ==
    ASSUME NEW f, NEW D
    PROVE  SumFunctionOnSet(f, D) = (CHOOSE g : Sums(g, f, D))[D]
BY DEF SumFunctionOnSet, FoldFunctionOnSet, MapThenFoldSet, Sums, Taken

\* Subsets of a finite set, some of them: one has no smaller one among them.
\* Every induction below is on such a minimal counterexample.
LEMMA FiniteMin ==
    ASSUME NEW D, IsFiniteSet(D), NEW B \in SUBSET (SUBSET D), B # {}
    PROVE  \E m \in B : \A t \in B : ~(t \subseteq m /\ t # m)
<1>1. FiniteSubsetsOf(D) = SUBSET D
  BY FS_FiniteSubsetsOfFinite
<1>2. IsWellFoundedOn(StrictSubsetOrdering(D), SUBSET D)
  BY <1>1, FS_StrictSubsetOrderingWellFounded
<1>3. PICK m \in B : \A t \in B : ~(<<t, m>> \in StrictSubsetOrdering(D))
  BY <1>2, WFMin
<1> QED
  BY <1>3 DEF StrictSubsetOrdering

\* Nothing sums to nothing.
LEMMA SumsNone ==
    ASSUME NEW f, NEW D, NEW g, Sums(g, f, D)
    PROVE  g[{}] = 0
BY DEF Sums

\* A sum over a set takes one element and sums the rest.
LEMMA SumsStep ==
    ASSUME NEW f, NEW D, NEW g, Sums(g, f, D), NEW s \in SUBSET D, s # {}
    PROVE  g[s] = f[Taken(s)] + g[s \ {Taken(s)}]
BY DEF Sums

\* The element taken is one of the set.
LEMMA TakenIn == ASSUME NEW s, s # {} PROVE Taken(s) \in s
BY DEF Taken

\* There is at most one function of sums.
LEMMA SumsUnique ==
    ASSUME NEW f, NEW D, IsFiniteSet(D), NEW g, NEW h, Sums(g, f, D), Sums(h, f, D)
    PROVE  g = h
<1> DEFINE Bad == {s \in SUBSET D : g[s] # h[s]}
<1>1. Bad = {}
  <2> SUFFICES ASSUME Bad # {} PROVE FALSE OBVIOUS
  <2>0. Bad \in SUBSET (SUBSET D) OBVIOUS
  <2>1. PICK m \in Bad : \A t \in Bad : ~(t \subseteq m /\ t # m)
    <3> HIDE DEF Bad
    <3> QED BY <2>0, FiniteMin
  <2>2. m # {} /\ m \in SUBSET D
    <3>1. {} \in SUBSET D /\ m \in SUBSET D BY <2>1
    <3>2. g[{}] = 0 /\ h[{}] = 0 BY SumsNone
    <3> QED BY <2>1, <3>1, <3>2
  <2>3. Taken(m) \in m BY <2>2, TakenIn
  <2>4. m \ {Taken(m)} \notin Bad /\ m \ {Taken(m)} \in SUBSET D BY <2>1, <2>2, <2>3
  <2>5. g[m \ {Taken(m)}] = h[m \ {Taken(m)}] BY <2>4
  <2>6. g[m] = f[Taken(m)] + g[m \ {Taken(m)}] BY <2>2, SumsStep
  <2>7. h[m] = f[Taken(m)] + h[m \ {Taken(m)}] BY <2>2, SumsStep
  <2> QED BY <2>1, <2>5, <2>6, <2>7
<1>2. DOMAIN g = SUBSET D /\ DOMAIN h = SUBSET D BY DEF Sums
<1>3. g = [s \in SUBSET D |-> g[s]] /\ h = [s \in SUBSET D |-> h[s]] BY DEF Sums
<1> QED BY <1>1, <1>3

\* The sums over the subsets of a part are the same.
LEMMA SumsRestrict ==
    ASSUME NEW f, NEW D, NEW g, Sums(g, f, D), NEW E \in SUBSET D
    PROVE  Sums([s \in SUBSET E |-> g[s]], f, E)
<1> DEFINE h == [s \in SUBSET E |-> g[s]]
<1>1. ASSUME NEW s \in SUBSET E
      PROVE  h[s] = IF s = {} THEN 0 ELSE f[Taken(s)] + h[s \ {Taken(s)}]
  <2>1. CASE s = {}
    BY <2>1, SumsNone
  <2>2. CASE s # {}
    <3>0. s \in SUBSET D OBVIOUS
    <3>1. g[s] = f[Taken(s)] + g[s \ {Taken(s)}]
      <4> HIDE DEF h
      <4> QED BY <2>2, <3>0, SumsStep
    <3>2. h[s] = g[s] /\ h[s \ {Taken(s)}] = g[s \ {Taken(s)}] OBVIOUS
    <3> QED BY <2>2, <3>1, <3>2
  <2> QED BY <2>1, <2>2
<1> HIDE DEF h
<1>2. h = [s \in SUBSET E |-> h[s]] BY DEF h
<1>3. Sums(h, f, E) BY <1>1, <1>2 DEF Sums
<1> QED BY <1>3 DEF h

\* There is a function of sums: recursion on the subsets is well founded.
LEMMA SumsExist ==
    ASSUME NEW f, NEW D, IsFiniteSet(D), \A x \in D : f[x] \in Int
    PROVE  \E g \in [SUBSET D -> Int] : Sums(g, f, D)
<1> DEFINE Has(t, g) == g \in [SUBSET t -> Int] /\ Sums(g, f, t)
           Bad == {t \in SUBSET D : ~ \E g : Has(t, g)}
           G(t) == CHOOSE g : Has(t, g)
<1>1. Bad = {}
  <2> SUFFICES ASSUME Bad # {} PROVE FALSE OBVIOUS
  <2>0. Bad \in SUBSET (SUBSET D) OBVIOUS
  <2>1. PICK m \in Bad : \A t \in Bad : ~(t \subseteq m /\ t # m)
    <3> HIDE DEF Bad
    <3> QED BY <2>0, FiniteMin
  <2>2. \A t \in SUBSET m : t # m => Has(t, G(t)) BY <2>1
  <2> DEFINE val(s) == IF s = {} THEN 0
                       ELSE IF s = m THEN f[Taken(m)] + G(m \ {Taken(m)})[m \ {Taken(m)}] ELSE G(s)[s]
             h == [s \in SUBSET m |-> val(s)]
  <2>3. ASSUME NEW t \in SUBSET m, NEW s \in SUBSET t, t # m
        PROVE  G(t)[s] = G(s)[s]
    <3>1. Has(t, G(t)) /\ Has(s, G(s)) BY <2>2, <2>3
    <3>2. Sums([u \in SUBSET s |-> G(t)[u]], f, s)
      <4>1. Sums(G(t), f, t) BY <3>1
      <4> HIDE DEF G, Has, Bad
      <4> QED BY <4>1, SumsRestrict
    <3>3. IsFiniteSet(s) BY FS_Subset
    <3>4. [u \in SUBSET s |-> G(t)[u]] = G(s) BY <3>1, <3>2, <3>3, SumsUnique
    <3> HIDE DEF G
    <3> QED BY <3>4
  <2>4. ASSUME NEW s \in SUBSET m
        PROVE  h[s] \in Int /\ h[s] = IF s = {} THEN 0 ELSE f[Taken(s)] + h[s \ {Taken(s)}]
    <3> HIDE DEF G
    <3>1. CASE s = {} BY <3>1
    <3>2. CASE s # {}
      <4> DEFINE y == Taken(s) r == s \ {y}
      <4>1. y \in s BY <3>2, TakenIn
      <4>2. r \in SUBSET m /\ r # m /\ f[y] \in Int BY <4>1
      <4>3. G(r) \in [SUBSET r -> Int] BY <4>2, <2>2
      <4>4. G(r)[r] \in Int BY <4>3
      <4>5. h[r] = G(r)[r]
        <5>1. CASE r = {}
          <6>1. Sums(G(r), f, r) BY <4>2, <2>2
          <6>2. G(r)[r] = 0 BY <6>1, <5>1, SumsNone
          <6> QED BY <5>1, <6>2, <4>2
        <5>2. CASE r # {} BY <5>2, <4>2
        <5> QED BY <5>1, <5>2
      <4>6. h[s] = f[y] + G(r)[r]
        <5>1. CASE s = m BY <5>1, <3>2
        <5>2. CASE s # m
          <6>1. Sums(G(s), f, s) BY <5>2, <2>2
          <6>2. G(s)[s] = f[Taken(s)] + G(s)[s \ {Taken(s)}]
            <7>1. PICK k : k = G(s) OBVIOUS
            <7>2. Sums(k, f, s) /\ s \in SUBSET s BY <7>1, <6>1
            <7> HIDE DEF h, y, r, val
            <7> HIDE DEF Has, Bad
            <7>3. k[s] = f[Taken(s)] + k[s \ {Taken(s)}] BY <7>2, <3>2, SumsStep
            <7> QED BY <7>1, <7>3
          <6>3. G(s)[r] = G(r)[r] BY <2>3, <5>2
          <6> QED BY <6>2, <6>3, <5>2, <3>2
        <5> QED BY <5>1, <5>2
      <4> HIDE DEF h, y, r
      <4>7. h[s] \in Int /\ h[s] = f[y] + h[r] BY <4>2, <4>4, <4>5, <4>6
      <4> QED BY <4>7, <3>2 DEF y, r
    <3> QED BY <3>1, <3>2
  <2>5. h = [s \in SUBSET m |-> h[s]] OBVIOUS
  <2> HIDE DEF h
  <2>6. h \in [SUBSET m -> Int] BY <2>4, <2>5
  <2>7. Sums(h, f, m) BY <2>4, <2>5 DEF Sums
  <2> QED BY <2>1, <2>6, <2>7
<1>2. \E g : Has(D, g) BY <1>1
<1> QED BY <1>2

\* It gives SumFunctionOnSet at every subset.
LEMMA SumsOf ==
    ASSUME NEW f, NEW D, IsFiniteSet(D), \A x \in D : f[x] \in Int
    PROVE  \E g \in [SUBSET D -> Int] :
              /\ Sums(g, f, D)
              /\ \A s \in SUBSET D : g[s] = SumFunctionOnSet(f, s)
<1>1. PICK g \in [SUBSET D -> Int] : Sums(g, f, D) BY SumsExist
<1>2. ASSUME NEW s \in SUBSET D PROVE g[s] = SumFunctionOnSet(f, s)
  <2>1. Sums([u \in SUBSET s |-> g[u]], f, s) BY <1>1, SumsRestrict
  <2>2. Sums((CHOOSE h : Sums(h, f, s)), f, s) BY <2>1
  <2>3. IsFiniteSet(s) BY FS_Subset
  <2>4. [u \in SUBSET s |-> g[u]] = (CHOOSE h : Sums(h, f, s)) BY <2>1, <2>2, <2>3, SumsUnique
  <2>5. [u \in SUBSET s |-> g[u]][s] = g[s] OBVIOUS
  <2> QED BY <2>4, <2>5, SumUnfold
<1> QED BY <1>1, <1>2

\* A sum of integers is an integer.
LEMMA SumType ==
    ASSUME NEW f, NEW D, IsFiniteSet(D), \A x \in D : f[x] \in Int
    PROVE  SumFunctionOnSet(f, D) \in Int
<1>1. PICK g \in [SUBSET D -> Int] : \A s \in SUBSET D : g[s] = SumFunctionOnSet(f, s)
  BY SumsOf
<1>2. g[D] \in Int /\ g[D] = SumFunctionOnSet(f, D) BY <1>1
<1> QED BY <1>2

\* The sum over no element.
LEMMA SumEmpty ==
    ASSUME NEW f PROVE SumFunctionOnSet(f, {}) = 0
<1>1. PICK g \in [SUBSET {} -> Int] : Sums(g, f, {}) /\ \A s \in SUBSET {} : g[s] = SumFunctionOnSet(f, s)
  BY SumsOf, FS_EmptySet
<1> QED BY <1>1, SumsNone

\* The sum over a set, one element taken first.
LEMMA SumTake ==
    ASSUME NEW f, NEW D, IsFiniteSet(D), \A x \in D : f[x] \in Int, D # {}
    PROVE  SumFunctionOnSet(f, D) = f[Taken(D)] + SumFunctionOnSet(f, D \ {Taken(D)})
<1>1. PICK g \in [SUBSET D -> Int] : Sums(g, f, D) /\ \A s \in SUBSET D : g[s] = SumFunctionOnSet(f, s)
  BY SumsOf
<1>2. g[D] = f[Taken(D)] + g[D \ {Taken(D)}] BY <1>1, SumsStep
<1> QED BY <1>1, <1>2

\* Any element may be taken first.
LEMMA SumRemove ==
    ASSUME NEW f, NEW D, IsFiniteSet(D), \A x \in D : f[x] \in Int, NEW y \in D
    PROVE  SumFunctionOnSet(f, D) = f[y] + SumFunctionOnSet(f, D \ {y})
<1> DEFINE Sum(s) == SumFunctionOnSet(f, s)
           Bad == {s \in SUBSET D : \E x \in s : Sum(s) # f[x] + Sum(s \ {x})}
<1>1. Bad = {}
  <2> SUFFICES ASSUME Bad # {} PROVE FALSE OBVIOUS
  <2> HIDE DEF Sum
  <2>0. Bad \in SUBSET (SUBSET D) OBVIOUS
  <2>1. PICK m \in Bad : \A t \in Bad : ~(t \subseteq m /\ t # m)
    <3> HIDE DEF Bad
    <3> QED BY <2>0, FiniteMin
  <2>2. PICK x \in m : Sum(m) # f[x] + Sum(m \ {x}) BY <2>1
  <2> DEFINE z == Taken(m)
  <2>3. z \in m /\ m \in SUBSET D BY <2>1, <2>2, TakenIn
  <2>4. \A s \in SUBSET D : IsFiniteSet(s) BY FS_Subset
  <2>5. Sum(m) = f[z] + Sum(m \ {z}) BY <2>2, <2>3, <2>4, SumTake DEF Sum
  <2> HIDE DEF z
  <2>6. x # z BY <2>2, <2>5
  <2>7. m \ {z} \notin Bad /\ m \ {x} \notin Bad /\ m \ {z} \in SUBSET D /\ m \ {x} \in SUBSET D
    BY <2>1, <2>2, <2>3
  <2>a. \A s \in SUBSET D : s \notin Bad => \A u \in s : Sum(s) = f[u] + Sum(s \ {u}) OBVIOUS
  <2> HIDE DEF Bad
  <2>7a. Sum(m \ {z}) = f[x] + Sum((m \ {z}) \ {x}) BY <2>7, <2>a, <2>2, <2>6
  <2>8. Sum(m \ {x}) = f[z] + Sum((m \ {x}) \ {z}) BY <2>7, <2>a, <2>3, <2>6
  <2>9. (m \ {x}) \ {z} = (m \ {z}) \ {x} OBVIOUS
  <2>10. f[x] \in Int /\ f[z] \in Int BY <2>2, <2>3
  <2>11. Sum((m \ {z}) \ {x}) \in Int
    <3>1. (m \ {z}) \ {x} \in SUBSET D BY <2>3
    <3> QED BY <3>1, <2>4, SumType DEF Sum
  <2>12. PICK w \in Int : w = Sum((m \ {z}) \ {x}) BY <2>11
  <2>13. Sum(m) = f[z] + (f[x] + w) BY <2>5, <2>7a, <2>12
  <2>14. f[x] + Sum(m \ {x}) = f[x] + (f[z] + w) BY <2>8, <2>9, <2>12
  <2> QED BY <2>2, <2>10, <2>13, <2>14
<1> QED BY <1>1

\* Functions that agree on a set have the same sum over it.
LEMMA SumSame ==
    ASSUME NEW f, NEW h, NEW D, IsFiniteSet(D), \A x \in D : f[x] \in Int /\ f[x] = h[x]
    PROVE  SumFunctionOnSet(f, D) = SumFunctionOnSet(h, D)
<1> DEFINE Bad == {s \in SUBSET D : SumFunctionOnSet(f, s) # SumFunctionOnSet(h, s)}
<1>1. Bad = {}
  <2> SUFFICES ASSUME Bad # {} PROVE FALSE OBVIOUS
  <2>0. Bad \in SUBSET (SUBSET D) OBVIOUS
  <2>1. PICK m \in Bad : \A t \in Bad : ~(t \subseteq m /\ t # m)
    <3> HIDE DEF Bad
    <3> QED BY <2>0, FiniteMin
  <2>2. m # {} /\ m \in SUBSET D BY <2>1, SumEmpty
  <2> DEFINE x == Taken(m)
  <2>3. x \in m /\ IsFiniteSet(m) BY <2>2, TakenIn, FS_Subset
  <2>4. m \ {x} \notin Bad BY <2>1, <2>2, <2>3
  <2>5. SumFunctionOnSet(f, m) = f[x] + SumFunctionOnSet(f, m \ {x}) BY <2>2, <2>3, SumTake
  <2>6. SumFunctionOnSet(h, m) = h[x] + SumFunctionOnSet(h, m \ {x}) BY <2>2, <2>3, SumTake
  <2> QED BY <2>1, <2>2, <2>3, <2>4, <2>5, <2>6
<1> QED BY <1>1

\* The sum of a function over the whole of its finite domain is an integer.
LEMMA SumFunctionType ==
    ASSUME NEW f, IsFiniteSet(DOMAIN f), \A x \in DOMAIN f : f[x] \in Int
    PROVE  SumFunction(f) \in Int
BY SumType DEF SumFunction

\* A function with no values sums to nothing.
LEMMA SumFunctionEmpty ==
    ASSUME NEW f, DOMAIN f = {}
    PROVE  SumFunction(f) = 0
BY SumEmpty DEF SumFunction

\* One more value at the end of a list adds that value to its sum.
LEMMA SumFunctionAppend ==
    ASSUME NEW n \in Nat, NEW f, NEW h, DOMAIN f = 1..(n + 1), DOMAIN h = 1..n,
           \A i \in 1..(n + 1) : f[i] \in Int, \A i \in 1..n : h[i] = f[i]
    PROVE  SumFunction(f) = SumFunction(h) + f[n + 1]
<1>1. IsFiniteSet(1..n) /\ IsFiniteSet(1..(n + 1))
  BY FS_Interval
<1>2. (1..(n + 1)) \ {n + 1} = 1..n /\ n + 1 \in 1..(n + 1)
  OBVIOUS
<1>3. SumFunctionOnSet(f, 1..(n + 1)) = f[n + 1] + SumFunctionOnSet(f, 1..n)
  BY <1>1, <1>2, SumRemove
<1>4. SumFunctionOnSet(h, 1..n) = SumFunctionOnSet(f, 1..n)
  BY <1>1, SumSame
<1>5. SumFunctionOnSet(f, 1..n) \in Int
  BY <1>1, SumType
<1>6. SumFunction(f) = f[n + 1] + SumFunctionOnSet(f, 1..n) /\ SumFunction(h) = SumFunctionOnSet(f, 1..n)
  BY <1>3, <1>4 DEF SumFunction
<1>7. \A a, b \in Int : a + b = b + a
  OBVIOUS
<1>8. f[n + 1] \in Int
  BY <1>2
<1> QED
  BY <1>5, <1>6, <1>7, <1>8

\* Functions that differ at one element only have sums that differ by as much.
LEMMA SumChange ==
    ASSUME NEW f, NEW h, NEW D, IsFiniteSet(D), NEW y \in D,
           \A x \in D : f[x] \in Int /\ h[x] \in Int,
           \A x \in D \ {y} : h[x] = f[x]
    PROVE  SumFunctionOnSet(h, D) = SumFunctionOnSet(f, D) + (h[y] - f[y])
<1>0. IsFiniteSet(D \ {y}) BY FS_RemoveElement
<1>1. SumFunctionOnSet(f, D) = f[y] + SumFunctionOnSet(f, D \ {y}) BY SumRemove
<1>2. SumFunctionOnSet(h, D) = h[y] + SumFunctionOnSet(h, D \ {y}) BY SumRemove
<1>3. SumFunctionOnSet(f, D \ {y}) = SumFunctionOnSet(h, D \ {y}) BY <1>0, SumSame
<1>4. SumFunctionOnSet(f, D \ {y}) \in Int BY <1>0, SumType
<1>5. f[y] \in Int /\ h[y] \in Int OBVIOUS
<1> QED BY <1>1, <1>2, <1>3, <1>4, <1>5

\* A function nowhere above another has a sum no larger.
LEMMA SumLeq ==
    ASSUME NEW f, NEW h, NEW D, IsFiniteSet(D),
           \A x \in D : f[x] \in Int /\ h[x] \in Int /\ f[x] <= h[x]
    PROVE  SumFunctionOnSet(f, D) <= SumFunctionOnSet(h, D)
<1> DEFINE F(s) == SumFunctionOnSet(f, s)
           H(s) == SumFunctionOnSet(h, s)
           Bad == {s \in SUBSET D : ~(F(s) <= H(s))}
<1>1. Bad = {}
  <2> SUFFICES ASSUME Bad # {} PROVE FALSE OBVIOUS
  <2>0. Bad \in SUBSET (SUBSET D) OBVIOUS
  <2>1. PICK m \in Bad : \A t \in Bad : ~(t \subseteq m /\ t # m)
    <3> HIDE DEF Bad
    <3> QED BY <2>0, FiniteMin
  <2>2. m \in SUBSET D /\ ~(F(m) <= H(m)) BY <2>1
  <2>3. F({}) = 0 /\ H({}) = 0 BY SumEmpty
  <2>4. m # {} BY <2>2, <2>3
  <2>5. PICK y \in m : TRUE BY <2>4
  <2>6. m \ {y} \in SUBSET D /\ m \ {y} \notin Bad BY <2>1, <2>2, <2>5
  <2>7. F(m \ {y}) <= H(m \ {y}) BY <2>6
  <2>8. IsFiniteSet(m) /\ IsFiniteSet(m \ {y}) BY <2>2, <2>6, FS_Subset
  <2>9. F(m) = f[y] + F(m \ {y}) /\ H(m) = h[y] + H(m \ {y})
    <3> HIDE DEF Bad
    <3> QED BY <2>2, <2>8, SumRemove
  <2>10. F(m \ {y}) \in Int /\ H(m \ {y}) \in Int
    <3> HIDE DEF Bad
    <3> QED BY <2>6, <2>8, SumType
  <2>11. f[y] \in Int /\ h[y] \in Int /\ f[y] <= h[y] BY <2>2
  <2> HIDE DEF F, H
  <2> QED BY <2>2, <2>7, <2>9, <2>10, <2>11
<1> QED BY <1>1

\* Zeroes sum to zero.
LEMMA SumZero ==
    ASSUME NEW f, NEW D, IsFiniteSet(D), \A x \in D : f[x] = 0
    PROVE  SumFunctionOnSet(f, D) = 0
<1> DEFINE F(s) == SumFunctionOnSet(f, s)
           Bad == {s \in SUBSET D : F(s) # 0}
<1>1. Bad = {}
  <2> SUFFICES ASSUME Bad # {} PROVE FALSE OBVIOUS
  <2>0. Bad \in SUBSET (SUBSET D) OBVIOUS
  <2>1. PICK m \in Bad : \A t \in Bad : ~(t \subseteq m /\ t # m)
    <3> HIDE DEF Bad
    <3> QED BY <2>0, FiniteMin
  <2>2. m \in SUBSET D /\ F(m) # 0 BY <2>1
  <2>3. m # {} BY <2>2, SumEmpty
  <2>4. PICK y \in m : TRUE BY <2>3
  <2>5. m \ {y} \in SUBSET D /\ F(m \ {y}) = 0 BY <2>1, <2>2, <2>4
  <2>6. IsFiniteSet(m) BY <2>2, FS_Subset
  <2>7. F(m) = f[y] + F(m \ {y})
    <3> HIDE DEF Bad
    <3>1. \A x \in m : f[x] \in Int BY <2>2
    <3> QED BY <3>1, <2>6, SumRemove
  <2>8. f[y] = 0 BY <2>2
  <2> HIDE DEF F
  <2> QED BY <2>2, <2>5, <2>7, <2>8
<1> QED BY <1>1
=============================================================================
