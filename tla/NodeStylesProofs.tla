--------------------------- MODULE NodeStylesProofs ---------------------------
(***************************************************************************)
(* Proofs about the elements of a document, the two caches that hold their *)
(* styles and fonts, and what the indices of the elements denote, for any  *)
(* number of elements, styles, fonts, renderings and reloads.              *)
(*                                                                         *)
(* First what each operation of the cache does to the index it is about,   *)
(* and that it leaves the others alone; then the invariants.  The caches   *)
(* stay sound whatever is done to them.  That an index denotes what its    *)
(* holder was given rests on the count of references: a value that another *)
(* element holds has a reference to spare.                                 *)
(***************************************************************************)
EXTENDS NodeStyles, FiniteSetTheorems, SequenceTheorems, WellFoundedInduction, TLAPS

-----------------------------------------------------------------------------
(* Numbers *)

\* A set of natural numbers that is not empty has a least element.
LEMMA LeastNatural ==
    ASSUME NEW T \in SUBSET Nat, T # {}
    PROVE  /\ Min(T) \in T /\ \A m \in T : Min(T) <= m
<1>1. \E n \in T : \A m \in T : <<m, n>> \notin OpToRel(<, Nat)
  BY NatLessThanWellFounded, WFMin
<1>2. PICK n \in T : \A m \in T : <<m, n>> \notin OpToRel(<, Nat)
  BY <1>1
<1>3. ASSUME NEW m \in T PROVE n <= m
  <2>1. m \in Nat /\ n \in Nat /\ <<m, n>> \in Nat \X Nat
    OBVIOUS
  <2>2. ~(m < n)
    BY <1>2, <2>1 DEF OpToRel
  <2> QED
    BY <2>1, <2>2
<1> QED
  BY <1>2, <1>3 DEF Min

\* A bounded one has a greatest.
LEMMA GreatestNatural ==
    ASSUME NEW T \in SUBSET Nat, T # {}, NEW b \in Nat, \A m \in T : m <= b
    PROVE  /\ Max(T) \in T /\ \A m \in T : m <= Max(T)
<1> DEFINE U == {b - m : m \in T}
<1>1. U \in SUBSET Nat /\ U # {}
  <2>1. \A m \in T : b - m \in Nat
    OBVIOUS
  <2>2. U \in SUBSET Nat
    BY <2>1
  <2> QED
    BY <2>2
<1>2. Min(U) \in U /\ \A d \in U : Min(U) <= d
  BY <1>1, LeastNatural
<1>3. PICK n \in T : Min(U) = b - n
  BY <1>2
<1>4. \A m \in T : n >= m
  BY <1>2, <1>3
<1> QED
  BY <1>4 DEF Max

\* nearestPowerOf2 ends: 2^n is not less than n.
LEMMA PowersGrow == \A n \in Nat : 2^n \in Nat /\ n <= 2^n
<1> SUFFICES ASSUME NEW n \in Nat PROVE 2^n \in Nat /\ n <= 2^n
  OBVIOUS
<1>1. IsFiniteSet(1..n) /\ Cardinality(1..n) = n
  BY FS_Interval
<1>2. IsFiniteSet(SUBSET (1..n)) /\ Cardinality(SUBSET (1..n)) = 2^n
  BY <1>1, FS_SUBSET
<1>3. 2^n \in Nat
  BY <1>2, FS_CardinalityType
<1> DEFINE f == [i \in 1..n |-> {i}]
<1>4. f \in Injection(1..n, SUBSET (1..n))
  BY DEF Injection, IsInjective
<1>5. Cardinality(1..n) <= Cardinality(SUBSET (1..n))
  BY <1>2, <1>4, FS_Injection
<1> QED
  BY <1>1, <1>2, <1>3, <1>5

LEMMA PowerOfTwoTyped == \A n \in Nat : PowerOfTwoFrom(n) \in Nat
<1> SUFFICES ASSUME NEW n \in Nat PROVE PowerOfTwoFrom(n) \in Nat
  OBVIOUS
<1> DEFINE T == {2^k : k \in 0..n} \ 0..(n - 1)
<1>1. T \in SUBSET Nat
  BY PowersGrow
<1>2. 2^n \in T
  BY PowersGrow
<1>3. Min(T) \in T
  BY <1>1, <1>2, LeastNatural
<1> QED
  BY <1>1, <1>3 DEF PowerOfTwoFrom

-----------------------------------------------------------------------------
(* The cache *)

\* A value has one index.
OneIndex(items) ==
    \A i, j \in 1..Len(items) : items[i] = items[j] /\ items[i] # NoRef => i = j

CacheOK(c, V) ==
    /\ c \in CacheOf(V) /\ Len(c.refs) = Len(c.item)
    /\ FreeListSound(c) /\ OneIndex(c.item)

Free(c) == {n \in 1..Len(c.item) : c.item[n] = NoRef}

\* The references an index has.
Refs(c, n) == IF Present(c, n) THEN c.refs[n] ELSE 0

LEMMA ListSound ==
    ASSUME NEW c
    PROVE  FreeListSound(c) <=>
             /\ IF Free(c) = {} THEN c.free = 0 ELSE c.free \in Free(c)
             /\ \A n \in Free(c) : c.refs[n] \in (Free(c) \ {c.free}) \union {0}
             /\ \A m \in Free(c) \ {c.free} : \E n \in Free(c) : c.refs[n] = m
             /\ \A n, m \in Free(c) : c.refs[n] = c.refs[m] /\ c.refs[n] # 0 => n = m
             /\ \A S \in SUBSET Free(c) : S # {} => \E n \in S : \A m \in S : c.refs[m] # n
BY DEF FreeListSound, Free

LEMMA CacheShape ==
    ASSUME NEW V, NEW c \in CacheOf(V), Len(c.refs) = Len(c.item)
    PROVE  /\ Len(c.item) \in Nat
           /\ c.item \in [1..Len(c.item) -> V \union {NoRef}]
           /\ c.refs \in [1..Len(c.item) -> Nat]
           /\ c.free \in Nat /\ c.cap \in Nat /\ c.table \in Nat
<1>1. /\ c.item \in Seq(V \union {NoRef}) /\ c.refs \in Seq(Nat)
      /\ c.free \in Nat /\ c.cap \in Nat /\ c.table \in Nat
  BY DEF CacheOf
<1> QED
  BY <1>1, LenProperties

LEMMA FunctionIsSeq ==
    ASSUME NEW S, NEW n \in Nat, NEW f \in [1..n -> S]
    PROVE  f \in Seq(S) /\ Len(f) = n
<1>1. f \in Seq(S)
  BY SeqDef
<1> QED
  BY <1>1, LenProperties

LEMMA NewCacheOK ==
    ASSUME NEW V, NEW size \in Nat
    PROVE  CacheOK(NewCache(size), V) /\ \A n : ~Present(NewCache(size), n)
<1> DEFINE c == NewCache(size)
<1>1. c.item = << >> /\ c.refs = << >> /\ c.free = 0 /\ c \in CacheOf(V)
  BY DEF NewCache, CacheOf
<1>2. Free(c) = {}
  BY <1>1 DEF Free
<1>3. FreeListSound(c)
  BY <1>1, <1>2, ListSound
<1> QED
  BY <1>1, <1>3 DEF CacheOK, OneIndex, Present

\* A cache from its parts.
CacheWith(items, refs, head, cap, table) ==
    [item |-> items, refs |-> refs, free |-> head, cap |-> cap, table |-> table]

LEMMA CacheIs ==
    ASSUME NEW V, NEW n \in Nat, NEW items, NEW refs, NEW head, NEW cap, NEW table, NEW c,
           items \in [1..n -> V \union {NoRef}], refs \in [1..n -> Nat],
           head \in Nat, cap \in Nat, table \in Nat,
           c = CacheWith(items, refs, head, cap, table)
    PROVE  c \in CacheOf(V)
<1>1. items \in Seq(V \union {NoRef}) /\ refs \in Seq(Nat)
  BY FunctionIsSeq
<1> QED
  BY <1>1 DEF CacheOf, CacheWith

LEMMA CacheParts ==
    ASSUME NEW V, NEW c \in CacheOf(V), NEW s, NEW r, NEW h, NEW d,
           d = [c EXCEPT !.item = s, !.refs = r, !.free = h]
    PROVE  d = CacheWith(s, r, h, c.cap, c.table)
<1>1. c \in [{"item", "refs", "free", "cap", "table"} -> {c.item, c.refs, c.free, c.cap, c.table}]
  BY DEF CacheOf
<1>2. d = [f \in DOMAIN c |-> CASE f = "item" -> s [] f = "refs" -> r [] f = "free" -> h [] OTHER -> c[f]]
  OBVIOUS
<1> QED
  BY <1>1, <1>2 DEF CacheWith

LEMMA CachePartsGrown ==
    ASSUME NEW V, NEW c \in CacheOf(V), NEW s, NEW r, NEW k, NEW d,
           d = [c EXCEPT !.item = s, !.refs = r, !.cap = k]
    PROVE  d = CacheWith(s, r, c.free, k, c.table)
<1>1. c \in [{"item", "refs", "free", "cap", "table"} -> {c.item, c.refs, c.free, c.cap, c.table}]
  BY DEF CacheOf
<1>2. d = [f \in DOMAIN c |-> CASE f = "item" -> s [] f = "refs" -> r [] f = "cap" -> k [] OTHER -> c[f]]
  OBVIOUS
<1> QED
  BY <1>1, <1>2 DEF CacheWith

\* What one operation does to index n, and that it leaves the others alone.
OthersAlone(c, d, n) == \A m : m # n => Get(d, m) = Get(c, m) /\ Refs(d, m) = Refs(c, m)

Added(c, d, n) ==
    /\ OthersAlone(c, d, n) /\ Get(d, n) = Get(c, n)
    /\ Refs(d, n) = IF Get(c, n) # NoRef THEN Refs(c, n) + 1 ELSE 0

Dropped(c, d, n) ==
    /\ OthersAlone(c, d, n) /\ Get(d, n) \in {Get(c, n), NoRef}
    /\ Refs(c, n) > 1 => Get(d, n) = Get(c, n) /\ Refs(d, n) = Refs(c, n) - 1

Taken(c, d, n, v) ==
    /\ OthersAlone(c, d, n) /\ n \in Nat \ {0} /\ Get(d, n) = v
    /\ Get(c, n) \in {v, NoRef} /\ Refs(d, n) = Refs(c, n) + 1

LEMMA GetTyped ==
    ASSUME NEW V, NEW c, CacheOK(c, V), NEW n
    PROVE  /\ Get(c, n) \in V \union {NoRef} /\ Refs(c, n) \in Nat
           /\ Present(c, n) <=> Get(c, n) # NoRef
           /\ Get(c, n) = NoRef => Refs(c, n) = 0
<1>1. /\ c.item \in [1..Len(c.item) -> V \union {NoRef}]
      /\ c.refs \in [1..Len(c.item) -> Nat]
  BY CacheShape DEF CacheOK
<1> QED
  BY <1>1 DEF Get, Refs, Present

LEMMA AddIndexRefOK ==
    ASSUME NEW V, NEW c, CacheOK(c, V), NEW n
    PROVE  CacheOK(AddIndexRef(c, n), V) /\ Added(c, AddIndexRef(c, n), n)
<1> DEFINE d == AddIndexRef(c, n)
           L == Len(c.item)
<1>1. CASE ~Present(c, n)
  <2>1. d = c
    BY <1>1 DEF AddIndexRef
  <2> QED
    BY <1>1, <2>1 DEF Refs, Get, Added, OthersAlone
<1>2. CASE Present(c, n)
  <2>1. n \in 1..L /\ c.item[n] # NoRef /\ L \in Nat
        /\ c.item \in [1..L -> V \union {NoRef}] /\ c.refs \in [1..L -> Nat]
        /\ c.free \in Nat /\ c.cap \in Nat /\ c.table \in Nat
    BY <1>2, CacheShape DEF Present, CacheOK
  <2> DEFINE r == [c.refs EXCEPT ![n] = c.refs[n] + 1]
  <2>2. d = [c EXCEPT !.refs = r]
    BY <1>2 DEF AddIndexRef
  <2>3. r \in [1..L -> Nat] /\ r[n] = c.refs[n] + 1 /\ \A m \in 1..L : m # n => r[m] = c.refs[m]
    BY <2>1
  <2> HIDE DEF r
  <2>4. d = CacheWith(c.item, r, c.free, c.cap, c.table)
    BY <2>2 DEF CacheOK, CacheOf, CacheWith
  <2> HIDE DEF d
  <2>5. /\ d \in CacheOf(V) /\ Len(d.item) = L /\ Len(d.refs) = L
        /\ d.item = c.item /\ d.refs = r /\ d.free = c.free
    <3>1. d.item = c.item /\ d.refs = r /\ d.free = c.free
      BY <2>4 DEF CacheWith
    <3>2. d \in CacheOf(V)
      BY <2>1, <2>3, <2>4, CacheIs
    <3>3. Len(c.item) = L /\ Len(r) = L
      BY <2>1, <2>3, FunctionIsSeq
    <3> QED
      BY <3>1, <3>2, <3>3
  <2>6. Free(d) = Free(c) /\ \A m \in Free(c) : d.refs[m] = c.refs[m]
    BY <2>1, <2>3, <2>5 DEF Free
  <2>7. FreeListSound(d)
    <3>1. /\ IF Free(c) = {} THEN c.free = 0 ELSE c.free \in Free(c)
          /\ \A m \in Free(c) : c.refs[m] \in (Free(c) \ {c.free}) \union {0}
          /\ \A m \in Free(c) \ {c.free} : \E k \in Free(c) : c.refs[k] = m
          /\ \A k, m \in Free(c) : c.refs[k] = c.refs[m] /\ c.refs[k] # 0 => k = m
      BY ListSound DEF CacheOK
    <3>2. \A S \in SUBSET Free(c) : S # {} => \E k \in S : \A m \in S : c.refs[m] # k
      BY ListSound DEF CacheOK
    <3>3. ASSUME NEW S \in SUBSET Free(c), S # {}
          PROVE  \E k \in S : \A m \in S : d.refs[m] # k
      <4>1. PICK k \in S : \A m \in S : c.refs[m] # k
        BY <3>2, <3>3
      <4> QED
        BY <2>6, <4>1
    <3> QED
      BY <2>5, <2>6, <3>1, <3>3, ListSound
  <2>8. CacheOK(d, V)
    BY <2>5, <2>7 DEF CacheOK
  <2>9. \A m : Get(d, m) = Get(c, m) /\ (Present(d, m) <=> Present(c, m))
    BY <2>5 DEF Get, Present
  <2>10. \A m : m # n => Refs(d, m) = Refs(c, m)
    BY <2>3, <2>5, <2>9 DEF Refs, Present
  <2>11. Refs(d, n) = Refs(c, n) + 1
    BY <1>2, <2>3, <2>5, <2>9 DEF Refs
  <2> QED
    BY <1>2, <2>8, <2>9, <2>10, <2>11, GetTyped DEF d, Added, OthersAlone
<1> QED
  BY <1>1, <1>2

LEMMA ReleaseOK ==
    ASSUME NEW V, NoRef \notin V, NEW c, CacheOK(c, V), NEW n
    PROVE  CacheOK(Release(c, n), V) /\ Dropped(c, Release(c, n), n)
<1> DEFINE d == Release(c, n)
           L == Len(c.item)
<1>1. CASE ~Present(c, n)
  <2>1. d = c
    BY <1>1 DEF Release
  <2> QED
    BY <1>1, <2>1 DEF Refs, Dropped, OthersAlone
<1>2. ASSUME Present(c, n)
      PROVE  /\ n \in 1..L /\ c.item[n] # NoRef /\ L \in Nat
             /\ c.item \in [1..L -> V \union {NoRef}] /\ c.refs \in [1..L -> Nat]
             /\ c.free \in Nat /\ c.cap \in Nat /\ c.table \in Nat
             /\ Refs(c, n) = c.refs[n]
  BY <1>2, CacheShape DEF Present, CacheOK, Refs
<1>3. CASE Present(c, n) /\ c.refs[n] > 1
  <2> DEFINE r == [c.refs EXCEPT ![n] = c.refs[n] - 1]
  <2>1. /\ n \in 1..L /\ c.item[n] # NoRef /\ L \in Nat
        /\ c.item \in [1..L -> V \union {NoRef}] /\ c.refs \in [1..L -> Nat]
        /\ c.free \in Nat /\ c.cap \in Nat /\ c.table \in Nat
        /\ Refs(c, n) = c.refs[n]
    BY <1>2, <1>3
  <2>2. d = [c EXCEPT !.refs = r]
    BY <1>3 DEF Release
  <2>3. r \in [1..L -> Nat] /\ r[n] = c.refs[n] - 1 /\ \A m \in 1..L : m # n => r[m] = c.refs[m]
    BY <1>3, <2>1
  <2> HIDE DEF r
  <2>4. d = CacheWith(c.item, r, c.free, c.cap, c.table)
    BY <2>2 DEF CacheOK, CacheOf, CacheWith
  <2> HIDE DEF d
  <2>5. /\ d \in CacheOf(V) /\ Len(d.item) = L /\ Len(d.refs) = L
        /\ d.item = c.item /\ d.refs = r /\ d.free = c.free
    <3>1. d.item = c.item /\ d.refs = r /\ d.free = c.free
      BY <2>4 DEF CacheWith
    <3>2. d \in CacheOf(V)
      BY <2>1, <2>3, <2>4, CacheIs
    <3>3. Len(c.item) = L /\ Len(r) = L
      BY <2>1, <2>3, FunctionIsSeq
    <3> QED
      BY <3>1, <3>2, <3>3
  <2>6. Free(d) = Free(c) /\ \A m \in Free(c) : d.refs[m] = c.refs[m]
    BY <2>1, <2>3, <2>5 DEF Free
  <2>7. FreeListSound(d)
    <3>1. /\ IF Free(c) = {} THEN c.free = 0 ELSE c.free \in Free(c)
          /\ \A m \in Free(c) : c.refs[m] \in (Free(c) \ {c.free}) \union {0}
          /\ \A m \in Free(c) \ {c.free} : \E k \in Free(c) : c.refs[k] = m
          /\ \A k, m \in Free(c) : c.refs[k] = c.refs[m] /\ c.refs[k] # 0 => k = m
      BY ListSound DEF CacheOK
    <3>2. \A S \in SUBSET Free(c) : S # {} => \E k \in S : \A m \in S : c.refs[m] # k
      BY ListSound DEF CacheOK
    <3>3. ASSUME NEW S \in SUBSET Free(c), S # {}
          PROVE  \E k \in S : \A m \in S : d.refs[m] # k
      <4>1. PICK k \in S : \A m \in S : c.refs[m] # k
        BY <3>2, <3>3
      <4> QED
        BY <2>6, <4>1
    <3> QED
      BY <2>5, <2>6, <3>1, <3>3, ListSound
  <2>8. CacheOK(d, V)
    BY <2>5, <2>7 DEF CacheOK
  <2>9. \A m : Get(d, m) = Get(c, m) /\ (Present(d, m) <=> Present(c, m))
    BY <2>5 DEF Get, Present
  <2>10. \A m : m # n => Refs(d, m) = Refs(c, m)
    BY <2>3, <2>5, <2>9 DEF Refs, Present
  <2>11. Refs(d, n) = Refs(c, n) - 1
    BY <1>3, <2>3, <2>5, <2>9 DEF Refs
  <2> QED
    BY <1>3, <2>1, <2>8, <2>9, <2>10, <2>11 DEF d, Dropped, OthersAlone
<1>4. CASE Present(c, n) /\ ~(c.refs[n] > 1)
  <2> DEFINE s == [c.item EXCEPT ![n] = NoRef]
             r == [c.refs EXCEPT ![n] = c.free]
  <2>1. /\ n \in 1..L /\ c.item[n] # NoRef /\ L \in Nat
        /\ c.item \in [1..L -> V \union {NoRef}] /\ c.refs \in [1..L -> Nat]
        /\ c.free \in Nat /\ c.cap \in Nat /\ c.table \in Nat
        /\ Refs(c, n) = c.refs[n]
    BY <1>2, <1>4
  <2>2. d = [c EXCEPT !.item = s, !.refs = r, !.free = n]
    BY <1>4 DEF Release
  <2>3. /\ s \in [1..L -> V \union {NoRef}] /\ s[n] = NoRef
        /\ \A m \in 1..L : m # n => s[m] = c.item[m]
        /\ r \in [1..L -> Nat] /\ r[n] = c.free /\ \A m \in 1..L : m # n => r[m] = c.refs[m]
    BY <2>1
  <2> HIDE DEF r, s
  <2>4. d = CacheWith(s, r, n, c.cap, c.table)
    <3>1. c \in CacheOf(V)
      BY DEF CacheOK
    <3> HIDE DEF d
    <3> QED
      BY <2>2, <3>1, CacheParts
  <2> HIDE DEF d
  <2>5. /\ d \in CacheOf(V) /\ Len(d.item) = L /\ Len(d.refs) = L
        /\ d.item = s /\ d.refs = r /\ d.free = n
    <3>1. d.item = s /\ d.refs = r /\ d.free = n
      BY <2>4 DEF CacheWith
    <3>2. n \in Nat
      BY <2>1
    <3>3. d \in CacheOf(V)
      BY <2>1, <2>3, <2>4, <3>2, CacheIs
    <3>4. Len(s) = L /\ Len(r) = L
      BY <2>1, <2>3, FunctionIsSeq
    <3> QED
      BY <3>1, <3>3, <3>4
  <2>6. /\ Free(d) = Free(c) \union {n} /\ n \notin Free(c) /\ n # 0 /\ 0 \notin Free(c)
        /\ \A m \in Free(c) : d.refs[m] = c.refs[m]
        /\ d.refs[n] = c.free
    <3>1. \A m : m \in Free(d) <=> m \in Free(c) \union {n}
      BY <2>1, <2>3, <2>5 DEF Free
    <3>2. n \notin Free(c) /\ n # 0 /\ 0 \notin Free(c)
      BY <2>1 DEF Free
    <3>3. \A m \in Free(c) : d.refs[m] = c.refs[m]
      BY <2>1, <2>3, <2>5, <3>2 DEF Free
    <3> QED
      BY <2>3, <2>5, <3>1, <3>2, <3>3
  <2>7. /\ IF Free(c) = {} THEN c.free = 0 ELSE c.free \in Free(c)
        /\ \A m \in Free(c) : c.refs[m] \in (Free(c) \ {c.free}) \union {0}
        /\ \A m \in Free(c) \ {c.free} : \E k \in Free(c) : c.refs[k] = m
        /\ \A k, m \in Free(c) : c.refs[k] = c.refs[m] /\ c.refs[k] # 0 => k = m
        /\ \A S \in SUBSET Free(c) : S # {} => \E k \in S : \A m \in S : c.refs[m] # k
    BY ListSound DEF CacheOK
  <2>8. FreeListSound(d)
    <3>1. \A m \in Free(d) : d.refs[m] \in (Free(d) \ {n}) \union {0}
      BY <2>6, <2>7
    <3>2. \A m \in Free(d) \ {n} : \E k \in Free(d) : d.refs[k] = m
      BY <2>6, <2>7
    <3>3. \A k, m \in Free(d) : d.refs[k] = d.refs[m] /\ d.refs[k] # 0 => k = m
      BY <2>6, <2>7
    <3>4. ASSUME NEW S \in SUBSET Free(d), S # {}
          PROVE  \E k \in S : \A m \in S : d.refs[m] # k
      <4>1. CASE n \in S
        <5>1. \A m \in S : d.refs[m] # n
          BY <2>6, <2>7, <3>4
        <5> QED
          BY <4>1, <5>1
      <4>2. CASE n \notin S
        <5>1. S \in SUBSET Free(c)
          BY <2>6, <4>2
        <5>2. PICK k \in S : \A m \in S : c.refs[m] # k
          BY <2>7, <3>4, <5>1
        <5> QED
          BY <2>6, <5>1, <5>2
      <4> QED
        BY <4>1, <4>2
    <3> QED
      BY <2>5, <2>6, <3>1, <3>2, <3>3, <3>4, ListSound
  <2>9. OneIndex(d.item)
    BY <2>3, <2>5 DEF OneIndex, CacheOK
  <2>10. CacheOK(d, V)
    BY <2>5, <2>8, <2>9 DEF CacheOK
  <2>11. \A m : m # n => Get(d, m) = Get(c, m) /\ Refs(d, m) = Refs(c, m)
    BY <2>3, <2>5 DEF Get, Present, Refs
  <2>12. ~Present(d, n) /\ Get(d, n) = NoRef
    BY <2>3, <2>5 DEF Get, Present
  <2> QED
    BY <1>4, <2>1, <2>10, <2>11, <2>12 DEF d, Dropped, OthersAlone
<1> QED
  BY <1>1, <1>3, <1>4

LEMMA PlacedOK ==
    ASSUME NEW V, NoRef \notin V, NEW c, CacheOK(c, V), NEW v \in V,
           \A n \in 1..Len(c.item) : c.item[n] # v
    PROVE  /\ CacheOK(Placed(c, v).cache, V)
           /\ Taken(c, Placed(c, v).cache, Placed(c, v).index, v)
<1> DEFINE L == Len(c.item)
           f == c.free
           d == Placed(c, v).cache
<1>1. /\ L \in Nat
      /\ c.item \in [1..L -> V \union {NoRef}] /\ c.refs \in [1..L -> Nat]
      /\ f \in Nat /\ c.cap \in Nat /\ c.table \in Nat /\ c \in CacheOf(V)
  BY CacheShape DEF CacheOK
<1>2. /\ IF Free(c) = {} THEN f = 0 ELSE f \in Free(c)
      /\ \A m \in Free(c) : c.refs[m] \in (Free(c) \ {f}) \union {0}
      /\ \A m \in Free(c) \ {f} : \E k \in Free(c) : c.refs[k] = m
      /\ \A k, m \in Free(c) : c.refs[k] = c.refs[m] /\ c.refs[k] # 0 => k = m
  BY ListSound DEF CacheOK
<1>3. \A S \in SUBSET Free(c) : S # {} => \E k \in S : \A m \in S : c.refs[m] # k
  BY ListSound DEF CacheOK
<1>4. v # NoRef
  OBVIOUS
<1>5. CASE f # 0
  <2> DEFINE s == [c.item EXCEPT ![f] = v]
             r == [c.refs EXCEPT ![f] = 1]
             h == c.refs[f]
  <2>1. f \in Free(c) /\ f \in 1..L /\ c.item[f] = NoRef
    BY <1>2, <1>5 DEF Free
  <2>2. h \in Nat /\ h \in (Free(c) \ {f}) \union {0}
    BY <1>1, <1>2, <2>1
  <2>3. d = [c EXCEPT !.item = s, !.refs = r, !.free = h] /\ Placed(c, v).index = f
    BY <1>5 DEF Placed
  <2>4. /\ s \in [1..L -> V \union {NoRef}] /\ s[f] = v
        /\ \A m \in 1..L : m # f => s[m] = c.item[m]
        /\ r \in [1..L -> Nat] /\ r[f] = 1 /\ \A m \in 1..L : m # f => r[m] = c.refs[m]
    BY <1>1, <2>1
  <2> HIDE DEF r, s, h, d
  <2>5. d = CacheWith(s, r, h, c.cap, c.table)
    BY <1>1, <2>3, CacheParts
  <2>6. /\ d \in CacheOf(V) /\ Len(d.item) = L /\ Len(d.refs) = L
        /\ d.item = s /\ d.refs = r /\ d.free = h
    <3>1. d.item = s /\ d.refs = r /\ d.free = h
      BY <2>5 DEF CacheWith
    <3>2. d \in CacheOf(V)
      BY <1>1, <2>2, <2>4, <2>5, CacheIs
    <3>3. Len(s) = L /\ Len(r) = L
      BY <1>1, <2>4, FunctionIsSeq
    <3> QED
      BY <3>1, <3>2, <3>3
  <2>7. Free(d) = Free(c) \ {f} /\ \A m \in Free(d) : d.refs[m] = c.refs[m]
    <3>1. \A m : m \in Free(d) <=> m \in Free(c) /\ m # f
      BY <1>1, <1>4, <2>1, <2>4, <2>6 DEF Free
    <3>2. \A m \in Free(d) : d.refs[m] = c.refs[m]
      BY <2>4, <2>6, <3>1 DEF Free
    <3> QED
      BY <3>1, <3>2
  <2>8. FreeListSound(d)
    <3>1. IF Free(d) = {} THEN h = 0 ELSE h \in Free(d)
      <4>1. CASE Free(d) = {}
        BY <2>2, <2>7, <4>1
      <4>2. CASE Free(d) # {}
        <5>1. PICK k \in Free(d) : \A m \in Free(d) : c.refs[m] # k
          BY <1>3, <2>7, <4>2
        <5>2. PICK m \in Free(c) : c.refs[m] = k
          BY <1>2, <2>7, <5>1
        <5>3. m = f
          BY <2>7, <5>1, <5>2
        <5>4. h = k
          BY <5>2, <5>3 DEF h
        <5> QED
          BY <4>2, <5>4
      <4> QED
        BY <4>1, <4>2
    <3>2. ASSUME NEW m \in Free(d) PROVE d.refs[m] \in (Free(d) \ {h}) \union {0}
      BY <1>2, <2>1, <2>7 DEF h
    <3>3. ASSUME NEW m \in Free(d) \ {h} PROVE \E k \in Free(d) : d.refs[k] = m
      BY <1>2, <2>1, <2>7 DEF h
    <3>4. \A k, m \in Free(d) : d.refs[k] = d.refs[m] /\ d.refs[k] # 0 => k = m
      BY <1>2, <2>7
    <3>5. ASSUME NEW S \in SUBSET Free(d), S # {}
          PROVE  \E k \in S : \A m \in S : d.refs[m] # k
      <4>1. PICK k \in S : \A m \in S : c.refs[m] # k
        BY <1>3, <2>7, <3>5
      <4> QED
        BY <2>7, <4>1
    <3> QED
      BY <2>6, <3>1, <3>2, <3>3, <3>4, <3>5, ListSound
  <2>9. OneIndex(d.item)
    BY <2>4, <2>6 DEF OneIndex, CacheOK
  <2>10. OthersAlone(c, d, f)
    BY <2>4, <2>6 DEF OthersAlone, Get, Present, Refs
  <2>11. Get(d, f) = v /\ Refs(d, f) = 1 /\ Get(c, f) = NoRef /\ Refs(c, f) = 0
    BY <1>4, <2>1, <2>4, <2>6 DEF Get, Present, Refs
  <2>12. CacheOK(d, V)
    BY <2>6, <2>8, <2>9 DEF CacheOK
  <2>13. Taken(c, d, f, v)
    BY <1>1, <1>5, <2>10, <2>11 DEF Taken
  <2> QED
    BY <2>3, <2>12, <2>13 DEF d
<1>6. CASE f = 0
  <2> DEFINE s == Append(c.item, v)
             r == Append(c.refs, 1)
             k == Grown(c, L + 1)
             i == L + 1
  <2>1. k \in Nat
    BY <1>1 DEF Grown
  <2>2. d = [c EXCEPT !.item = s, !.refs = r, !.cap = k] /\ Placed(c, v).index = i
    BY <1>6 DEF Placed
  <2>3. c.item \in Seq(V \union {NoRef}) /\ c.refs \in Seq(Nat) /\ Len(c.refs) = L
    BY <1>1 DEF CacheOf, CacheOK
  <2>4. /\ s \in Seq(V \union {NoRef}) /\ Len(s) = i /\ s[i] = v /\ \A m \in 1..L : s[m] = c.item[m]
        /\ r \in Seq(Nat) /\ Len(r) = i /\ r[i] = 1 /\ \A m \in 1..L : r[m] = c.refs[m]
    BY <2>3, AppendProperties
  <2> HIDE DEF r, s, k, d
  <2>5. d = CacheWith(s, r, f, k, c.table)
    BY <1>1, <2>2, CachePartsGrown
  <2>6. d.item = s /\ d.refs = r /\ d.free = f
    BY <2>5 DEF CacheWith
  <2>7. d \in CacheOf(V)
    BY <1>1, <2>1, <2>4, <2>5 DEF CacheOf, CacheWith
  <2>8. Free(d) = {} /\ Free(c) = {}
    <3>1. Free(c) = {}
      BY <1>2, <1>6, <1>1 DEF Free
    <3>2. \A m \in 1..i : m \in 1..L \/ m = i
      BY <1>1
    <3>3. \A m \in 1..Len(d.item) : d.item[m] # NoRef
      BY <1>4, <2>4, <2>6, <3>1, <3>2, SMTT(30) DEF Free
    <3> QED
      BY <3>1, <3>3 DEF Free
  <2>9. FreeListSound(d)
    BY <1>6, <2>6, <2>8, ListSound
  <2>10. OneIndex(d.item)
    <3>1. ASSUME NEW a \in 1..i, NEW b \in 1..i, s[a] = s[b], s[a] # NoRef PROVE a = b
      <4>1. \A m \in 1..i : m \in 1..L \/ m = i
        BY <1>1
      <4> QED
        BY <1>1, <2>4, <3>1, <4>1 DEF OneIndex, CacheOK
    <3> QED
      BY <2>4, <2>6, <3>1 DEF OneIndex
  <2>11. OthersAlone(c, d, i)
    <3>1. ASSUME NEW m, m # i PROVE m \in 1..i <=> m \in 1..L
      BY <1>1, <3>1
    <3> QED
      BY <2>4, <2>6, <3>1 DEF OthersAlone, Get, Present, Refs
  <2>12. Get(d, i) = v /\ Refs(d, i) = 1 /\ Get(c, i) = NoRef /\ Refs(c, i) = 0
    BY <1>1, <1>4, <2>4, <2>6 DEF Get, Present, Refs
  <2>13. CacheOK(d, V)
    BY <2>4, <2>6, <2>7, <2>9, <2>10 DEF CacheOK
  <2>14. Taken(c, d, i, v)
    BY <1>1, <2>11, <2>12 DEF Taken
  <2> QED
    BY <2>2, <2>13, <2>14 DEF d
<1> QED
  BY <1>5, <1>6

\* find returns an index that holds the value, or 0.
LEMMA FindOK ==
    ASSUME NEW V, NEW c, CacheOK(c, V), NEW v
    PROVE  \/ Find(c, v) = 0 /\ \A n \in 1..Len(c.item) : c.item[n] # v
           \/ Find(c, v) \in 1..Len(c.item) /\ c.item[Find(c, v)] = v
<1>1. Len(c.item) \in Nat
  BY CacheShape DEF CacheOK
<1>2. CASE IndicesOf(c, v) = {}
  BY <1>2 DEF Find, IndicesOf
<1>3. CASE IndicesOf(c, v) # {}
  <2>1. IndicesOf(c, v) \in SUBSET Nat
    BY <1>1 DEF IndicesOf
  <2>2. Min(IndicesOf(c, v)) \in IndicesOf(c, v)
    BY <1>3, <2>1, LeastNatural
  <2>3. Find(c, v) \in IndicesOf(c, v)
    BY <1>3, <2>2 DEF Find
  <2> QED
    BY <2>3 DEF IndicesOf
<1> QED
  BY <1>2, <1>3

LEMMA CachedOK ==
    ASSUME NEW V, NoRef \notin V, NEW c, CacheOK(c, V), NEW v \in V
    PROVE  /\ CacheOK(Cached(c, v).cache, V)
           /\ Taken(c, Cached(c, v).cache, Cached(c, v).index, v)
<1> DEFINE n == Find(c, v)
<1>1. CASE n = 0
  <2>1. Cached(c, v) = Placed(c, v)
    BY <1>1 DEF Cached
  <2>2. \A m \in 1..Len(c.item) : c.item[m] # v
    BY <1>1, FindOK
  <2> QED
    BY <2>1, <2>2, PlacedOK
<1>2. CASE n # 0
  <2>1. n \in 1..Len(c.item) /\ c.item[n] = v
    BY <1>2, FindOK
  <2>2. Cached(c, v).cache = AddIndexRef(c, n) /\ Cached(c, v).index = n
    BY <1>2 DEF Cached
  <2>3. Get(c, n) = v /\ v # NoRef
    BY <2>1 DEF Get, Present
  <2>4. CacheOK(AddIndexRef(c, n), V) /\ Added(c, AddIndexRef(c, n), n)
    BY AddIndexRefOK
  <2>5. n \in Nat \ {0}
    <3>1. Len(c.item) \in Nat
      BY CacheShape DEF CacheOK
    <3> QED
      BY <1>2, <2>1, <3>1
  <2> HIDE DEF n
  <2>6. Taken(c, AddIndexRef(c, n), n, v)
    BY <2>3, <2>4, <2>5 DEF Added, Taken
  <2> QED
    BY <2>2, <2>4, <2>6
<1> QED
  BY <1>1, <1>2

\* The holder of index h now holds index n, which is that of v.
Moved(c, d, h, n, v) ==
    /\ n \in Nat \ {0} /\ Get(d, n) = v /\ Get(c, n) \in {v, NoRef}
    /\ \A m : m \notin {h, n} => Get(d, m) = Get(c, m) /\ Refs(d, m) = Refs(c, m)
    /\ h = n => Refs(d, n) >= Refs(c, n) /\ Refs(d, n) >= 1
    /\ h # n => /\ Refs(d, n) = Refs(c, n) + 1
                /\ Get(d, h) \in {Get(c, h), NoRef}
                /\ Refs(c, h) > 1 => Get(d, h) = Get(c, h) /\ Refs(d, h) = Refs(c, h) - 1

LEMMA RecachedOK ==
    ASSUME NEW V, NoRef \notin V, NEW c, CacheOK(c, V), NEW h, NEW v \in V
    PROVE  /\ CacheOK(Recached(c, h, v).cache, V)
           /\ Moved(c, Recached(c, h, v).cache, h, Recached(c, h, v).index, v)
<1> DEFINE e == Cached(c, v).cache
           n == Cached(c, v).index
           d == Recached(c, h, v).cache
<1>1. CacheOK(e, V) /\ Taken(c, e, n, v)
  BY CachedOK
<1>2. Recached(c, h, v).index = n
  BY DEF Recached
<1>3. d = IF h # n \/ e.refs[h] > 1 THEN Release(e, h) ELSE e
  BY DEF Recached
<1> HIDE DEF e, n, d
<1>4. CacheOK(Release(e, h), V) /\ Dropped(e, Release(e, h), h)
  BY <1>1, ReleaseOK
<1>5. Get(e, n) = v /\ v # NoRef /\ Present(e, n) /\ e.refs[n] = Refs(e, n)
  BY <1>1 DEF Taken, Get, Refs
<1>6. Refs(c, n) \in Nat /\ Refs(e, n) = Refs(c, n) + 1 /\ n \in Nat \ {0}
  BY <1>1, GetTyped DEF Taken
<1>7. CASE h # n
  <2>1. d = Release(e, h)
    BY <1>3, <1>7
  <2>2. Get(e, h) = Get(c, h) /\ Refs(e, h) = Refs(c, h)
    BY <1>1, <1>7 DEF Taken, OthersAlone
  <2>3. Get(d, n) = v /\ Refs(d, n) = Refs(c, n) + 1
    BY <1>4, <1>5, <1>6, <1>7, <2>1 DEF Dropped, OthersAlone
  <2>4. \A m : m \notin {h, n} => Get(d, m) = Get(c, m) /\ Refs(d, m) = Refs(c, m)
    BY <1>1, <1>4, <2>1 DEF Taken, Dropped, OthersAlone
  <2>5. Moved(c, d, h, n, v)
    BY <1>1, <1>4, <1>6, <1>7, <2>1, <2>2, <2>3, <2>4 DEF Moved, Dropped, Taken
  <2> QED
    BY <1>2, <1>4, <2>1, <2>5 DEF d
<1>8. CASE h = n /\ e.refs[h] > 1
  <2>1. d = Release(e, n)
    BY <1>3, <1>8
  <2>2. Get(d, n) = v /\ Refs(d, n) = Refs(c, n) /\ Refs(c, n) >= 1
    BY <1>4, <1>5, <1>6, <1>8, <2>1 DEF Dropped
  <2>3. \A m : m \notin {h, n} => Get(d, m) = Get(c, m) /\ Refs(d, m) = Refs(c, m)
    BY <1>1, <1>4, <1>8, <2>1 DEF Taken, Dropped, OthersAlone
  <2>4. Moved(c, d, h, n, v)
    BY <1>1, <1>6, <1>8, <2>2, <2>3 DEF Moved, Taken
  <2> QED
    BY <1>2, <1>4, <1>8, <2>1, <2>4 DEF d
<1>9. CASE h = n /\ ~(e.refs[h] > 1)
  <2>1. d = e
    BY <1>3, <1>9
  <2>2. Get(d, n) = v /\ Refs(d, n) >= Refs(c, n) /\ Refs(d, n) >= 1
    BY <1>5, <1>6, <2>1
  <2>3. \A m : m \notin {h, n} => Get(d, m) = Get(c, m) /\ Refs(d, m) = Refs(c, m)
    BY <1>1, <1>9, <2>1 DEF Taken, OthersAlone
  <2>4. Moved(c, d, h, n, v)
    BY <1>1, <1>6, <1>9, <2>2, <2>3 DEF Moved, Taken
  <2> QED
    BY <1>1, <1>2, <2>1, <2>4 DEF d
<1> QED
  BY <1>7, <1>8, <1>9

\* What a cache lists, and the cache made from a list.
ListOK(list, V) == list \in Seq(V \union {NoRef}) /\ OneIndex(list)

LEMMA ListedOK ==
    ASSUME NEW V, NEW c, CacheOK(c, V)
    PROVE  /\ ListOK(Listed(c), V)
           /\ \A n \in 1..Len(Listed(c)) : Listed(c)[n] = Get(c, n)
<1> DEFINE k == Max({c.cap - 1, 0})
<1>1. c.cap \in Nat
  BY CacheShape DEF CacheOK
<1>2. k \in Nat
  <2>1. c.cap = 0 \/ c.cap - 1 \in Nat
    BY <1>1
  <2>2. CASE c.cap = 0
    <3>1. \A m \in {c.cap - 1, 0} : 0 >= m
      BY <2>2
    <3>2. \A m \in {c.cap - 1, 0} : (\A l \in {c.cap - 1, 0} : m >= l) => m = 0
      BY <2>2
    <3> QED
      BY <3>1, <3>2 DEF Max
  <2>3. CASE c.cap - 1 \in Nat
    <3> DEFINE T == {c.cap - 1, 0}
    <3>1. T \in SUBSET Nat /\ T # {} /\ \A m \in T : m <= c.cap
      BY <1>1, <2>3
    <3>2. Max(T) \in T
      BY <1>1, <3>1, GreatestNatural
    <3> QED
      BY <3>1, <3>2
  <2> QED
    BY <2>1, <2>2, <2>3
<1> HIDE DEF k
<1>3. Listed(c) = [n \in 1..k |-> Get(c, n)]
  BY DEF Listed, k
<1>4. Listed(c) \in [1..k -> V \union {NoRef}]
  BY <1>3, GetTyped
<1>5. Listed(c) \in Seq(V \union {NoRef}) /\ Len(Listed(c)) = k
  BY <1>2, <1>4, FunctionIsSeq
<1>6. \A n \in 1..k : Listed(c)[n] = Get(c, n)
  BY <1>3
<1>7. OneIndex(Listed(c))
  BY <1>5, <1>6 DEF OneIndex, CacheOK, Get, Present
<1> QED
  BY <1>5, <1>6, <1>7 DEF ListOK

LEMMA FromListOK ==
    ASSUME NEW V, NEW list, ListOK(list, V)
    PROVE  /\ CacheOK(FromList(list), V)
           /\ \A n : Get(FromList(list), n) = IF n \in 1..Len(list) THEN list[n] ELSE NoRef
<1> DEFINE L == Len(list)
           Gaps == {n \in DOMAIN list : list[n] = NoRef}
           Before(n) == {0} \union {m \in 1..(n - 1) : list[m] = NoRef}
           r == [n \in DOMAIN list |-> IF list[n] # NoRef THEN 1 ELSE Max(Before(n))]
           h == Max({0} \union Gaps)
           d == FromList(list)
<1>1. list \in Seq(V \union {NoRef}) /\ L \in Nat /\ DOMAIN list = 1..L
      /\ list \in [1..L -> V \union {NoRef}] /\ OneIndex(list)
  BY LenProperties DEF ListOK
<1>2. d = CacheWith(list, r, h, IF list = << >> THEN 0 ELSE L + 1,
                    IF list = << >> THEN 32 ELSE PowerOfTwoFrom(L + 1))
  BY DEF FromList, CacheWith
<1>3. \A n \in 1..L : Max(Before(n)) \in Before(n) /\ \A m \in Before(n) : m <= Max(Before(n))
  <2> SUFFICES ASSUME NEW n \in 1..L
               PROVE  Max(Before(n)) \in Before(n) /\ \A m \in Before(n) : m <= Max(Before(n))
    OBVIOUS
  <2>1. n \in Nat /\ Before(n) \in SUBSET Nat /\ Before(n) # {} /\ \A m \in Before(n) : m <= n
    BY <1>1
  <2> HIDE DEF Before
  <2> QED
    BY <2>1, GreatestNatural
<1>4. h \in {0} \union Gaps /\ \A m \in Gaps : m <= h
  <2> DEFINE T == {0} \union Gaps
  <2>1. T \in SUBSET Nat /\ T # {} /\ \A m \in T : m <= L
    BY <1>1
  <2> HIDE DEF T
  <2>2. Max(T) \in T /\ \A m \in T : m <= Max(T)
    BY <1>1, <2>1, GreatestNatural
  <2> QED
    BY <2>2 DEF T
<1>5. r \in [1..L -> Nat]
  BY <1>1, <1>3
<1>6. ASSUME NEW n \in Gaps
      PROVE  /\ n \in 1..L /\ list[n] = NoRef
             /\ r[n] \in Nat /\ r[n] < n /\ r[n] \in {0} \union Gaps
             /\ \A m \in Gaps : m < n => m <= r[n]
  <2>1. n \in 1..L /\ list[n] = NoRef /\ r[n] = Max(Before(n))
    BY <1>1
  <2>2. \A m : m \in Before(n) => m \in Nat /\ m < n /\ m \in {0} \union Gaps
    BY <1>1, <2>1
  <2>3. \A m \in Gaps : m < n => m \in Before(n)
    BY <1>1, <2>1
  <2> HIDE DEF Before, r, Gaps
  <2> QED
    BY <1>3, <2>1, <2>2, <2>3
<1>7. Gaps \in SUBSET (1..L)
  BY <1>1
<1>8. h \in Nat
  BY <1>1, <1>4, <1>7
<1>9. PowerOfTwoFrom(L + 1) \in Nat
  BY <1>1, PowerOfTwoTyped
<1> HIDE DEF h, r, d
<1>10. d \in CacheOf(V)
  BY <1>1, <1>2, <1>5, <1>8, <1>9, CacheIs
<1>11. d.item = list /\ d.refs = r /\ d.free = h
  BY <1>2 DEF CacheWith
<1>12. Len(d.item) = L /\ Len(d.refs) = L
  BY <1>1, <1>5, <1>11, FunctionIsSeq
<1>13. Free(d) = Gaps
  BY <1>1, <1>11 DEF Free
<1> HIDE DEF Gaps
<1>14. FreeListSound(d)
  <2>1. IF Gaps = {} THEN h = 0 ELSE h \in Gaps
    BY <1>1, <1>4, <1>7, <1>8
  <2>2. \A n \in Gaps : r[n] \in (Gaps \ {h}) \union {0}
    BY <1>1, <1>4, <1>6, <1>7, <1>8
  <2>3. ASSUME NEW m \in Gaps \ {h} PROVE \E n \in Gaps : r[n] = m
    <3> DEFINE T == {n \in Gaps : m < n}
    <3>1. m \in 1..L /\ m \in Nat /\ m <= h /\ m # h /\ m # 0
      BY <1>1, <1>4, <1>7, <2>3
    <3>2. h \in Gaps /\ m < h
      BY <1>4, <1>8, <3>1
    <3>3. \A n \in Gaps : n \in Nat
      BY <1>1, <1>7
    <3>4. m \in Nat /\ m <= h /\ m # h /\ h \in T /\ T \in SUBSET Nat
      BY <3>1, <3>2, <3>3
    <3> DEFINE n == Min(T)
    <3> HIDE DEF T
    <3>5. n \in T /\ \A k \in T : n <= k
      BY <3>4, LeastNatural
    <3> HIDE DEF n
    <3>6. n \in Gaps /\ m < n /\ n \in Nat
      BY <3>4, <3>5 DEF T
    <3>7. r[n] \in Nat /\ r[n] < n /\ r[n] \in {0} \union Gaps /\ m <= r[n]
      BY <1>6, <2>3, <3>6
    <3>8. r[n] \notin T
      BY <3>5, <3>6, <3>7
    <3>9. r[n] = m
      BY <1>7, <3>4, <3>7, <3>8, <2>3 DEF T
    <3> QED
      BY <3>6, <3>9
  <2>4. ASSUME NEW n \in Gaps, NEW m \in Gaps, r[n] = r[m], r[n] # 0 PROVE n = m
    <3>1. n \in Nat /\ m \in Nat
      BY <1>1, <1>7
    <3>2. r[n] \in Nat /\ r[n] < n /\ (m < n => m <= r[n])
      BY <1>6
    <3>3. r[m] \in Nat /\ r[m] < m /\ (n < m => n <= r[m])
      BY <1>6
    <3> QED
      BY <2>4, <3>1, <3>2, <3>3
  <2>5. ASSUME NEW S \in SUBSET Gaps, S # {}
        PROVE  \E n \in S : \A m \in S : r[m] # n
    <3>1. S \in SUBSET Nat /\ \A m \in S : m <= L
      BY <1>1, <1>7
    <3>2. Max(S) \in S /\ \A m \in S : m <= Max(S)
      BY <1>1, <2>5, <3>1, GreatestNatural
    <3>3. ASSUME NEW m \in S PROVE r[m] # Max(S)
      <4>1. m <= Max(S) /\ m \in Nat /\ Max(S) \in Nat
        BY <3>1, <3>2
      <4>2. r[m] \in Nat /\ r[m] < m
        BY <1>6
      <4> QED
        BY <4>1, <4>2
    <3> QED
      BY <3>2, <3>3
  <2>6. \A m \in Free(d) \ {d.free} : \E n \in Free(d) : d.refs[n] = m
    BY <1>11, <1>13, <2>3
  <2>7. \A n, m \in Free(d) : d.refs[n] = d.refs[m] /\ d.refs[n] # 0 => n = m
    BY <1>11, <1>13, <2>4
  <2>8. \A S \in SUBSET Free(d) : S # {} => \E n \in S : \A m \in S : d.refs[m] # n
    BY <1>11, <1>13, <2>5
  <2>9. IF Free(d) = {} THEN d.free = 0 ELSE d.free \in Free(d)
    BY <1>11, <1>13, <2>1
  <2>10. \A n \in Free(d) : d.refs[n] \in (Free(d) \ {d.free}) \union {0}
    BY <1>11, <1>13, <2>2
  <2> QED
    BY <2>6, <2>7, <2>8, <2>9, <2>10, ListSound
<1>15. CacheOK(d, V)
  BY <1>1, <1>10, <1>11, <1>12, <1>14 DEF CacheOK
<1>16. \A n : Get(d, n) = IF n \in 1..L THEN list[n] ELSE NoRef
  BY <1>11, <1>12 DEF Get, Present
<1> QED
  BY <1>15, <1>16 DEF d

-----------------------------------------------------------------------------
(* The elements and their indices: what holds whatever is done to them *)

SlotsOK ==
    /\ elemCount \in Slots
    /\ Root \in live /\ live \subseteq 1..elemCount
    /\ freeSlots \in Seq(Nat)
    /\ \A i \in 1..Len(freeSlots) : freeSlots[i] \in (1..elemCount) \ live
    /\ \A i, j \in 1..Len(freeSlots) : freeSlots[i] = freeSlots[j] => i = j

IndexOK ==
    /\ styleIdx \in [Slots -> Nat] /\ fontIdx \in [Slots -> Nat]
    /\ \A i \in DOMAIN fontMap : fontMap[i] \in Nat

RestOK ==
    /\ phase \in {"building", "styling", "idle", "loading"}
    /\ pending \subseteq live
    /\ given \in [Slots -> Styles \union {NoRef}]

SavedOK ==
    saved.valid =>
        /\ saved.elemCount \in Slots
        /\ Root \in saved.live /\ saved.live \subseteq 1..saved.elemCount
        /\ saved.styleIdx \in [Slots -> Nat] /\ saved.fontIdx \in [Slots -> Nat]
        /\ ListOK(saved.styles, Styles)
        /\ saved.given \in [Slots -> Styles \union {NoRef}]

CInv ==
    /\ SlotsOK /\ IndexOK /\ RestOK /\ SavedOK
    /\ CacheOK(styles, Styles) /\ CacheOK(fonts, Fonts)

LEMMA Constants ==
    /\ FontFor \in [Styles -> Fonts] /\ NoRef \notin Styles /\ NoRef \notin Fonts
    /\ PartLen \in Nat \ {0} /\ TableSize \in Nat /\ MaxElems \in Nat \ {0}
BY ConstantsAssumption

\* The caches of an element that is styled, and the font it finds.
LEMMA FontFoundOK ==
    ASSUME NEW map, NEW cache, NEW font, NEW i, NEW s \in Styles,
           CacheOK(cache, Fonts), \A j \in DOMAIN map : map[j] \in Nat
    PROVE  LET found == FontFound(map, cache, font, i, s)
           IN /\ CacheOK(found.cache, Fonts) /\ found.index \in Nat \ {0}
              /\ \A j \in DOMAIN found.map : found.map[j] \in Nat
<1> DEFINE found == FontFound(map, cache, font, i, s)
<1>1. FontFor[s] \in Fonts /\ NoRef \notin Fonts
  BY Constants
<1>2. CASE FontAt(map, i) # 0
  <2> DEFINE n == FontAt(map, i)
  <2>1. n \in Nat \ {0}
    BY <1>2 DEF FontAt
  <2>2. found.index = n /\ found.map = map
        /\ found.cache = IF font # n THEN AddIndexRef(cache, n) ELSE cache
    BY <1>2 DEF FontFound
  <2> HIDE DEF n, found
  <2>3. CacheOK(AddIndexRef(cache, n), Fonts)
    BY AddIndexRefOK
  <2>4. CacheOK(found.cache, Fonts)
    BY <2>2, <2>3
  <2> QED
    BY <2>1, <2>2, <2>4 DEF found
<1>3. CASE FontAt(map, i) = 0
  <2> DEFINE v == FontFor[s]
             e == Cached(cache, v).cache
             n == Cached(cache, v).index
  <2>1. /\ found.index = n
        /\ found.map = [j \in DOMAIN map \union {i} |-> IF j = i THEN n ELSE map[j]]
        /\ found.cache = IF font \notin {0, n} THEN Release(e, font) ELSE e
    BY <1>3 DEF FontFound
  <2>2. v \in Fonts
    BY <1>1
  <2> HIDE DEF v
  <2>3. CacheOK(e, Fonts) /\ n \in Nat \ {0}
    BY <1>1, <2>2, CachedOK DEF Taken
  <2> HIDE DEF e, n, found
  <2>4. CacheOK(Release(e, font), Fonts)
    BY <1>1, <2>3, ReleaseOK
  <2>5. CacheOK(found.cache, Fonts)
    BY <2>1, <2>3, <2>4
  <2>6. \A j \in DOMAIN found.map : found.map[j] \in Nat
    BY <2>1, <2>3
  <2> QED
    BY <2>1, <2>3, <2>5, <2>6 DEF found
<1> QED
  BY <1>2, <1>3

LEMMA CInvInit == Init => CInv
<1> SUFFICES ASSUME Init PROVE CInv
  OBVIOUS
<1> USE DEF Init
<1>1. SlotsOK
  BY Constants DEF SlotsOK, Slots, Root
<1>2. IndexOK
  BY DEF IndexOK
<1>3. RestOK
  BY DEF RestOK
<1>4. SavedOK
  BY DEF SavedOK
<1>5. CacheOK(styles, Styles) /\ CacheOK(fonts, Fonts)
  BY Constants, NewCacheOK
<1> QED
  BY <1>1, <1>2, <1>3, <1>4, <1>5 DEF CInv

LEMMA CInvCreate == CInv /\ Create => CInv'
<1> SUFFICES ASSUME CInv, Create PROVE CInv'
  OBVIOUS
<1>1. /\ elemCount \in Slots /\ Root \in live /\ live \subseteq 1..elemCount
      /\ freeSlots \in Seq(Nat)
      /\ \A i \in 1..Len(freeSlots) : freeSlots[i] \in (1..elemCount) \ live
      /\ \A i, j \in 1..Len(freeSlots) : freeSlots[i] = freeSlots[j] => i = j
  BY DEF CInv, SlotsOK
<1>2. UNCHANGED <<phase, indexVars, pending, given, once, saved, renders, loads>>
  BY DEF Create
<1>3. elemCount \in Nat /\ elemCount <= MaxElems /\ elemCount >= 1
  BY <1>1, Constants DEF Slots
<1>4. CASE freeSlots # << >>
  <2> DEFINE t == Tail(freeSlots)
  <2>1. /\ live' = live \union {Head(freeSlots)} /\ freeSlots' = t /\ elemCount' = elemCount
    BY <1>4 DEF Create
  <2>2. /\ t \in Seq(Nat) /\ Len(t) = Len(freeSlots) - 1 /\ Len(freeSlots) \in Nat \ {0}
        /\ \A i \in 1..Len(t) : t[i] = freeSlots[i + 1]
        /\ Head(freeSlots) = freeSlots[1]
    BY <1>1, <1>4, HeadTailProperties, EmptySeq, LenProperties
  <2> HIDE DEF t
  <2>3. Head(freeSlots) \in 1..elemCount
    BY <1>1, <2>2
  <2>4. ASSUME NEW i \in 1..Len(t)
        PROVE  t[i] \in (1..elemCount) \ live /\ t[i] # Head(freeSlots)
    <3>1. i + 1 \in 1..Len(freeSlots) /\ 1 \in 1..Len(freeSlots) /\ i + 1 # 1
      BY <2>2
    <3> QED
      BY <1>1, <2>2, <3>1
  <2>5. ASSUME NEW i \in 1..Len(t), NEW j \in 1..Len(t), t[i] = t[j] PROVE i = j
    <3>1. i + 1 \in 1..Len(freeSlots) /\ j + 1 \in 1..Len(freeSlots)
      BY <2>2
    <3>2. i + 1 = j + 1
      BY <1>1, <2>2, <2>5, <3>1
    <3> QED
      BY <3>2
  <2>6. SlotsOK'
    BY <1>1, <2>1, <2>2, <2>3, <2>4, <2>5 DEF SlotsOK
  <2>7. RestOK'
    BY <1>2, <2>1 DEF CInv, RestOK
  <2> QED
    BY <1>2, <2>6, <2>7 DEF CInv, IndexOK, SavedOK, indexVars
<1>5. CASE freeSlots = << >>
  <2>1. /\ elemCount < MaxElems /\ elemCount' = elemCount + 1
        /\ live' = live \union {elemCount + 1} /\ freeSlots' = freeSlots
    BY <1>5 DEF Create
  <2>2. elemCount' \in Slots /\ live' \subseteq 1..elemCount'
    BY <1>1, <1>3, <2>1, Constants DEF Slots
  <2>3. Len(freeSlots) = 0
    BY <1>5
  <2>4. SlotsOK'
    BY <1>1, <2>1, <2>2, <2>3 DEF SlotsOK
  <2>5. RestOK'
    BY <1>2, <2>1 DEF CInv, RestOK
  <2> QED
    BY <1>2, <2>4, <2>5 DEF CInv, IndexOK, SavedOK, indexVars
<1> QED
  BY <1>4, <1>5

LEMMA CInvInitNodeStyle ==
    ASSUME CInv, NEW n \in live, NEW s \in Styles, InitNodeStyle(n, s)
    PROVE  CInv'
<1> DEFINE new == Recached(styles, styleIdx[n], s)
           found == FontFound(fontMap, fonts, fontIdx[n], new.index, s)
<1>1. /\ styleIdx' = [styleIdx EXCEPT ![n] = new.index]
      /\ styles' = AddIndexRef(new.cache, new.index)
      /\ fontIdx' = [fontIdx EXCEPT ![n] = found.index]
      /\ fonts' = found.cache /\ fontMap' = found.map
      /\ given' = [given EXCEPT ![n] = s] /\ pending' = pending \ {n}
      /\ phase' = phase /\ UNCHANGED slotVars /\ saved' = saved
  BY DEF InitNodeStyle, StyleNode
<1>2. CacheOK(new.cache, Styles) /\ new.index \in Nat
  BY Constants, RecachedOK DEF CInv, Moved
<1>3. CacheOK(styles', Styles)
  BY <1>1, <1>2, AddIndexRefOK
<1>4. \A j \in DOMAIN fontMap : fontMap[j] \in Nat
  BY DEF CInv, IndexOK
<1>5. /\ CacheOK(found.cache, Fonts) /\ found.index \in Nat
      /\ \A j \in DOMAIN found.map : found.map[j] \in Nat
  BY <1>4, FontFoundOK DEF CInv
<1> HIDE DEF new, found
<1>6. IndexOK'
  BY <1>1, <1>2, <1>5 DEF CInv, IndexOK
<1>7. RestOK'
  BY <1>1 DEF CInv, RestOK, slotVars
<1>8. SlotsOK' /\ SavedOK'
  BY <1>1 DEF CInv, SlotsOK, SavedOK, slotVars
<1> QED
  BY <1>1, <1>3, <1>5, <1>6, <1>7, <1>8 DEF CInv

LEMMA CInvSetStyle ==
    ASSUME CInv, NEW n \in live, NEW s \in Styles, SetStyle(n, s)
    PROVE  CInv'
<1> DEFINE new == Recached(styles, styleIdx[n], s)
<1>1. /\ styleIdx' = [styleIdx EXCEPT ![n] = new.index] /\ styles' = new.cache
      /\ given' = [given EXCEPT ![n] = s]
      /\ UNCHANGED <<phase, slotVars, fontIdx, fonts, fontMap, pending, saved>>
  BY DEF SetStyle
<1>2. CacheOK(new.cache, Styles) /\ new.index \in Nat
  BY Constants, RecachedOK DEF CInv, Moved
<1> HIDE DEF new
<1>3. IndexOK'
  BY <1>1, <1>2 DEF CInv, IndexOK
<1>4. RestOK'
  BY <1>1 DEF CInv, RestOK, slotVars
<1>5. SlotsOK' /\ SavedOK'
  BY <1>1 DEF CInv, SlotsOK, SavedOK, slotVars
<1> QED
  BY <1>1, <1>2, <1>3, <1>4, <1>5 DEF CInv

LEMMA CInvDestroy ==
    ASSUME CInv, NEW n \in live, Destroy(n)
    PROVE  CInv'
<1> DEFINE t == <<n>> \o freeSlots
<1>1. /\ n # Root
      /\ styles' = Release(styles, styleIdx[n]) /\ fonts' = Release(fonts, fontIdx[n])
      /\ styleIdx' = [styleIdx EXCEPT ![n] = 0] /\ fontIdx' = [fontIdx EXCEPT ![n] = 0]
      /\ live' = live \ {n} /\ freeSlots' = t
      /\ given' = [given EXCEPT ![n] = NoRef] /\ pending' = pending \ {n}
      /\ UNCHANGED <<phase, elemCount, fontMap, saved>>
  BY DEF Destroy
<1>2. /\ elemCount \in Slots /\ Root \in live /\ live \subseteq 1..elemCount
      /\ freeSlots \in Seq(Nat)
      /\ \A i \in 1..Len(freeSlots) : freeSlots[i] \in (1..elemCount) \ live
      /\ \A i, j \in 1..Len(freeSlots) : freeSlots[i] = freeSlots[j] => i = j
  BY DEF CInv, SlotsOK
<1>3. /\ t \in Seq(Nat) /\ Len(t) = Len(freeSlots) + 1 /\ Len(freeSlots) \in Nat
      /\ t[1] = n
      /\ \A i \in 1..Len(t) : i # 1 => i - 1 \in 1..Len(freeSlots) /\ t[i] = freeSlots[i - 1]
  <2>1. n \in Nat
    BY <1>2
  <2>2. <<n>> \in Seq(Nat) /\ Len(<<n>>) = 1
    BY <2>1
  <2> QED
    BY <1>2, <2>2, ConcatProperties, LenProperties
<1> HIDE DEF t
<1>4. \A i \in 1..Len(t) : t[i] \in (1..elemCount) \ (live \ {n})
  BY <1>2, <1>3
<1>5. ASSUME NEW i \in 1..Len(t), NEW j \in 1..Len(t), t[i] = t[j] PROVE i = j
  <2>1. i = 1 \/ (i - 1 \in 1..Len(freeSlots) /\ t[i] = freeSlots[i - 1])
    BY <1>3
  <2>2. j = 1 \/ (j - 1 \in 1..Len(freeSlots) /\ t[j] = freeSlots[j - 1])
    BY <1>3
  <2>3. \A k \in 1..Len(freeSlots) : freeSlots[k] # n
    BY <1>2
  <2>4. i = 1 <=> j = 1
    BY <1>3, <1>5, <2>1, <2>2, <2>3
  <2>5. i # 1 => i - 1 = j - 1
    BY <1>2, <1>5, <2>1, <2>2, <2>4
  <2> QED
    BY <2>4, <2>5
<1>6. SlotsOK'
  BY <1>1, <1>2, <1>3, <1>4, <1>5 DEF SlotsOK
<1>7. CacheOK(styles', Styles) /\ CacheOK(fonts', Fonts)
  BY <1>1, Constants, ReleaseOK DEF CInv
<1>8. IndexOK'
  BY <1>1 DEF CInv, IndexOK
<1>9. RestOK'
  BY <1>1 DEF CInv, RestOK
<1> QED
  BY <1>1, <1>6, <1>7, <1>8, <1>9 DEF CInv, SavedOK

LEMMA CInvDropStyles == CInv /\ DropStyles => CInv'
<1> SUFFICES ASSUME CInv, DropStyles PROVE CInv'
  OBVIOUS
<1>1. /\ phase' = "styling" /\ styles' = Cleared(styles) /\ fonts' = Cleared(fonts)
      /\ styleIdx' = [n \in Slots |-> IF n \in Visited THEN 0 ELSE styleIdx[n]]
      /\ fontIdx' = [n \in Slots |-> IF n \in Visited THEN 0 ELSE fontIdx[n]]
      /\ fontMap' = [i \in {} |-> 0] /\ given' = [n \in Slots |-> NoRef]
      /\ pending' = live /\ UNCHANGED slotVars /\ saved' = saved
  BY DEF DropStyles
<1>2. styles.table \in Nat /\ fonts.table \in Nat
  BY CacheShape DEF CInv, CacheOK
<1>3. CacheOK(styles', Styles) /\ CacheOK(fonts', Fonts)
  BY <1>1, <1>2, NewCacheOK DEF Cleared
<1>4. IndexOK'
  BY <1>1 DEF CInv, IndexOK
<1>5. RestOK'
  BY <1>1 DEF CInv, RestOK, slotVars
<1>6. SlotsOK' /\ SavedOK'
  BY <1>1 DEF CInv, SlotsOK, SavedOK, slotVars
<1> QED
  BY <1>3, <1>4, <1>5, <1>6 DEF CInv

LEMMA CInvSave == CInv /\ Save => CInv'
<1> SUFFICES ASSUME CInv, Save PROVE CInv'
  OBVIOUS
<1>1. /\ saved' = [valid |-> TRUE, elemCount |-> elemCount, live |-> live,
                   styleIdx |-> styleIdx, fontIdx |-> fontIdx,
                   styles |-> Listed(styles), given |-> given]
      /\ UNCHANGED <<phase, slotVars, indexVars, pending, given>>
  BY DEF Save
<1>2. ListOK(Listed(styles), Styles)
  BY ListedOK DEF CInv
<1>3. /\ saved'.elemCount = elemCount /\ saved'.live = live /\ saved'.given = given
      /\ saved'.styleIdx = styleIdx /\ saved'.fontIdx = fontIdx /\ saved'.styles = Listed(styles)
  BY <1>1
<1>4. SavedOK'
  BY <1>2, <1>3 DEF SavedOK, CInv, SlotsOK, IndexOK, RestOK
<1>5. SlotsOK' /\ IndexOK' /\ RestOK'
  BY <1>1 DEF CInv, SlotsOK, IndexOK, RestOK, slotVars, indexVars
<1> QED
  BY <1>1, <1>4, <1>5 DEF CInv, indexVars

LEMMA CInvLoad == CInv /\ Load => CInv'
<1> SUFFICES ASSUME CInv, Load PROVE CInv'
  OBVIOUS
<1>1. /\ saved.valid /\ phase' = "loading"
      /\ elemCount' = saved.elemCount /\ live' = saved.live /\ freeSlots' = << >>
      /\ styles' = FromList(saved.styles) /\ fonts' = NewCache(TableSize)
      /\ fontMap' = [i \in {} |-> 0]
      /\ styleIdx' = saved.styleIdx /\ fontIdx' = saved.fontIdx
      /\ pending' = {n \in saved.live : n \div PartLen < Parts(saved.elemCount)}
      /\ given' = saved.given /\ saved' = saved
  BY DEF Load
<1>2. /\ saved.elemCount \in Slots
      /\ Root \in saved.live /\ saved.live \subseteq 1..saved.elemCount
      /\ saved.styleIdx \in [Slots -> Nat] /\ saved.fontIdx \in [Slots -> Nat]
      /\ ListOK(saved.styles, Styles)
      /\ saved.given \in [Slots -> Styles \union {NoRef}]
  BY <1>1 DEF CInv, SavedOK
<1>3. CacheOK(styles', Styles) /\ CacheOK(fonts', Fonts)
  BY <1>1, <1>2, Constants, FromListOK, NewCacheOK
<1>4. SlotsOK'
  BY <1>1, <1>2 DEF SlotsOK
<1>5. IndexOK'
  BY <1>1, <1>2 DEF IndexOK
<1>6. RestOK'
  BY <1>1, <1>2 DEF RestOK
<1>7. SavedOK'
  BY <1>1 DEF CInv, SavedOK
<1> QED
  BY <1>3, <1>4, <1>5, <1>6, <1>7 DEF CInv

\* The next slot to visit is one.
LEMMA NextVisited == CInv /\ pending # {} => Min(pending) \in pending
<1> SUFFICES ASSUME CInv, pending # {} PROVE Min(pending) \in pending
  OBVIOUS
<1>1. pending \in SUBSET Nat
  <2>1. elemCount \in Nat /\ pending \subseteq 1..elemCount
    BY Constants DEF CInv, SlotsOK, RestOK, Slots
  <2> QED
    BY <2>1
<1> QED
  BY <1>1, LeastNatural

LEMMA CInvUpdateLoaded == CInv /\ UpdateLoaded => CInv'
<1> SUFFICES ASSUME CInv, UpdateLoaded PROVE CInv'
  OBVIOUS
<1> DEFINE n == Min(pending)
           i == styleIdx[n]
           s == Get(styles, i)
           found == FontFound(fontMap, fonts, 0, i, s)
<1>1. /\ pending' = pending \ {n}
      /\ UNCHANGED <<phase, slotVars, styles, given, saved>>
      /\ \/ /\ s = NoRef
            /\ styleIdx' = [styleIdx EXCEPT ![n] = 0] /\ fontIdx' = [fontIdx EXCEPT ![n] = 0]
            /\ fonts' = fonts /\ fontMap' = fontMap
         \/ /\ s # NoRef
            /\ fontIdx' = [fontIdx EXCEPT ![n] = found.index]
            /\ fonts' = found.cache /\ fontMap' = found.map /\ styleIdx' = styleIdx
  BY DEF UpdateLoaded
<1>2. \A j \in DOMAIN fontMap : fontMap[j] \in Nat
  BY DEF CInv, IndexOK
<1>3. s \in Styles \union {NoRef}
  BY GetTyped DEF CInv
<1>4. s # NoRef => /\ CacheOK(found.cache, Fonts) /\ found.index \in Nat
                   /\ \A j \in DOMAIN found.map : found.map[j] \in Nat
  BY <1>2, <1>3, FontFoundOK DEF CInv
<1> HIDE DEF found, n
<1>5. IndexOK' /\ CacheOK(fonts', Fonts)
  <2>1. CASE s = NoRef
    BY <1>1, <2>1 DEF CInv, IndexOK
  <2>2. CASE s # NoRef
    BY <1>1, <1>4, <2>2 DEF CInv, IndexOK
  <2> QED
    BY <2>1, <2>2
<1>6. RestOK'
  BY <1>1 DEF CInv, RestOK, slotVars
<1>7. SlotsOK' /\ SavedOK'
  BY <1>1 DEF CInv, SlotsOK, SavedOK, slotVars
<1> QED
  BY <1>1, <1>5, <1>6, <1>7 DEF CInv

LEMMA CInvNext == CInv /\ [Next]_vars => CInv'
<1> SUFFICES ASSUME CInv, [Next]_vars PROVE CInv'
  OBVIOUS
<1>1. CASE Create
  BY <1>1, CInvCreate
<1>2. ASSUME NEW n \in live, NEW s \in Styles, InitNodeStyle(n, s) PROVE CInv'
  BY <1>2, CInvInitNodeStyle
<1>3. ASSUME NEW n \in live, NEW s \in Styles, SetStyle(n, s) PROVE CInv'
  BY <1>3, CInvSetStyle
<1>4. ASSUME NEW n \in live, Destroy(n) PROVE CInv'
  BY <1>4, CInvDestroy
<1>5. CASE DropStyles
  BY <1>5, CInvDropStyles
<1>6. CASE Done
  <2>1. phase' = "idle" /\ UNCHANGED <<slotVars, indexVars, pending, given, saved>>
    BY <1>6 DEF Done
  <2> QED
    BY <2>1 DEF CInv, SlotsOK, IndexOK, RestOK, SavedOK, slotVars, indexVars
<1>7. CASE Save
  BY <1>7, CInvSave
<1>8. CASE Load
  BY <1>8, CInvLoad
<1>9. CASE UpdateLoaded
  BY <1>9, CInvUpdateLoaded
<1>10. CASE UNCHANGED vars
  BY <1>10 DEF CInv, SlotsOK, IndexOK, RestOK, SavedOK, vars, slotVars, indexVars
<1> QED
  BY <1>1, <1>2, <1>3, <1>4, <1>5, <1>6, <1>7, <1>8, <1>9, <1>10 DEF Next

\* One index of a value: the property counts them.
LEMMA OneIndexCounted ==
    ASSUME NEW V, NoRef \notin V, NEW c, CacheOK(c, V), NEW v \in V
    PROVE  Cardinality(IndicesOf(c, v)) <= 1
<1>1. \A i, j \in IndicesOf(c, v) : i = j
  BY DEF CacheOK, OneIndex, IndicesOf
<1>2. CASE IndicesOf(c, v) = {}
  BY <1>2, FS_EmptySet
<1>3. CASE IndicesOf(c, v) # {}
  <2>1. PICK i \in IndicesOf(c, v) : TRUE
    BY <1>3
  <2>2. IndicesOf(c, v) = {i}
    BY <1>1, <2>1
  <2> QED
    BY <2>2, FS_Singleton
<1> QED
  BY <1>2, <1>3

LEMMA CInvSound == CInv => CachesSound
<1> SUFFICES ASSUME CInv PROVE CachesSound
  OBVIOUS
<1>1. ToSet(freeSlots) \subseteq (1..elemCount) \ live
  BY LenProperties DEF CInv, SlotsOK, ToSet
<1>2. TypeOK
  BY <1>1 DEF CInv, SlotsOK, IndexOK, RestOK, CacheOK, TypeOK
<1>3. FreeListSound(styles) /\ FreeListSound(fonts)
  BY DEF CInv, CacheOK
<1>4. \A v \in Styles : Cardinality(IndicesOf(styles, v)) <= 1
  BY Constants, OneIndexCounted DEF CInv
<1>5. \A v \in Fonts : Cardinality(IndicesOf(fonts, v)) <= 1
  BY Constants, OneIndexCounted DEF CInv
<1> QED
  BY <1>2, <1>3, <1>4, <1>5 DEF CachesSound

LEMMA CInvAlways == Spec => []CInv
<1>1. CInv /\ [Next]_vars => CInv'
  BY CInvNext
<1> QED
  BY <1>1, CInvInit, PTL DEF Spec

(* Whatever is done to the elements, rendered, saved and loaded, the two    *)
(* caches stay sound: the free list of each holds every free index once and *)
(* ends, a value has one index, and a slot for reuse holds no element       *)
(* (LVIndexedRefCache::indexItem, cache, release, setIndex).                *)
THEOREM CachesAlwaysSound == Spec => []CachesSound
<1>1. CInv => CachesSound
  BY CInvSound
<1> QED
  BY <1>1, CInvAlways, PTL

-----------------------------------------------------------------------------
(* How many elements hold an index *)

HoldersOf(E, idx, i) == {m \in E : idx[m] = i}
Count(E, idx, i) == Cardinality(HoldersOf(E, idx, i))

LEMMA CountTyped ==
    ASSUME NEW E, IsFiniteSet(E), NEW idx, NEW i
    PROVE  IsFiniteSet(HoldersOf(E, idx, i)) /\ Count(E, idx, i) \in Nat
<1>1. HoldersOf(E, idx, i) \subseteq E
  BY DEF HoldersOf
<1>2. IsFiniteSet(HoldersOf(E, idx, i))
  BY <1>1, FS_Subset
<1> QED
  BY <1>2, FS_CardinalityType DEF Count

\* An index two elements hold.
LEMMA CountTwo ==
    ASSUME NEW E, IsFiniteSet(E), NEW idx, NEW n \in E
    PROVE  /\ Count(E, idx, idx[n]) >= 1
           /\ \A m \in E : m # n /\ idx[m] = idx[n] => Count(E, idx, idx[n]) >= 2
<1> DEFINE H == HoldersOf(E, idx, idx[n])
<1>1. n \in H /\ IsFiniteSet(H) /\ Cardinality(H) \in Nat /\ Count(E, idx, idx[n]) = Cardinality(H)
  <2>1. n \in H
    BY DEF HoldersOf
  <2>2. Count(E, idx, idx[n]) = Cardinality(H)
    BY DEF Count
  <2>3. IsFiniteSet(H) /\ Count(E, idx, idx[n]) \in Nat
    BY CountTyped
  <2> QED
    BY <2>1, <2>2, <2>3
<1> HIDE DEF H
<1>2. Cardinality(H \ {n}) = Cardinality(H) - 1 /\ IsFiniteSet(H \ {n})
  BY <1>1, FS_RemoveElement
<1>3. Cardinality(H \ {n}) \in Nat
  BY <1>2, FS_CardinalityType
<1>4. ASSUME NEW m \in E, m # n, idx[m] = idx[n] PROVE Cardinality(H) >= 2
  <2>1. m \in H \ {n}
    BY <1>4 DEF H, HoldersOf
  <2>2. Cardinality(H \ {n}) # 0
    BY <1>2, <2>1, FS_EmptySet
  <2> QED
    BY <1>1, <1>2, <1>3, <2>2
<1> QED
  BY <1>1, <1>2, <1>3, <1>4

\* One element gives up its index for another.
Reassigned(E, idx, n, k, idx2) ==
    /\ \A m \in E : idx[m] \in Nat
    /\ idx2[n] = k /\ \A m \in E : m # n => idx2[m] = idx[m]

LEMMA CountMoved ==
    ASSUME NEW E, IsFiniteSet(E), NEW idx, NEW n \in E, NEW k, NEW idx2,
           Reassigned(E, idx, n, k, idx2), NEW h, h = idx[n]
    PROVE  /\ \A i : i \notin {h, k} \/ h = k => Count(E, idx2, i) = Count(E, idx, i)
           /\ h # k => /\ Count(E, idx2, k) = Count(E, idx, k) + 1
                       /\ Count(E, idx2, h) = Count(E, idx, h) - 1
<1>1. idx2[n] = k /\ \A m \in E : m # n => idx2[m] = idx[m]
  BY DEF Reassigned
<1>2. ASSUME NEW i, i \notin {h, k} PROVE Count(E, idx2, i) = Count(E, idx, i)
  <2>1. HoldersOf(E, idx2, i) = HoldersOf(E, idx, i)
    BY <1>1, <1>2 DEF HoldersOf
  <2> QED
    BY <2>1 DEF Count
<1>3. ASSUME h = k, NEW i PROVE Count(E, idx2, i) = Count(E, idx, i)
  <2>1. HoldersOf(E, idx2, i) = HoldersOf(E, idx, i)
    BY <1>1, <1>3 DEF HoldersOf
  <2> QED
    BY <2>1 DEF Count
<1>4. ASSUME h # k
      PROVE  /\ Count(E, idx2, k) = Count(E, idx, k) + 1
             /\ Count(E, idx2, h) = Count(E, idx, h) - 1
  <2> DEFINE A == HoldersOf(E, idx, k)
             B == HoldersOf(E, idx, h)
  <2>1. HoldersOf(E, idx2, k) = A \union {n} /\ n \notin A
    BY <1>1, <1>4 DEF HoldersOf
  <2>2. HoldersOf(E, idx2, h) = B \ {n} /\ n \in B
    BY <1>1, <1>4 DEF HoldersOf
  <2>3. IsFiniteSet(A) /\ IsFiniteSet(B)
    BY CountTyped
  <2> HIDE DEF A, B
  <2>4. Cardinality(A \union {n}) = Cardinality(A) + 1
    BY <2>1, <2>3, FS_AddElement
  <2>5. Cardinality(B \ {n}) = Cardinality(B) - 1
    BY <2>2, <2>3, FS_RemoveElement
  <2> QED
    BY <2>1, <2>2, <2>4, <2>5 DEF Count, A, B
<1> QED
  BY <1>2, <1>3, <1>4

\* No index has fewer references than holders, and those of M have one more.
Covers(c, E, idx, M) ==
    \A i \in Nat \ {0} :
        /\ Refs(c, i) >= Count(E, idx, i)
        /\ i \in M => Refs(c, i) > Count(E, idx, i)

\* Each element that has an index has that of the value it was given.
Denotes(c, E, idx, g) ==
    \A m \in E : idx[m] # 0 => g[m] # NoRef /\ Get(c, idx[m]) = g[m]

LEMMA MovedCovers ==
    ASSUME NEW V, NoRef \notin V, NEW c, CacheOK(c, V), NEW d, CacheOK(d, V),
           NEW E, IsFiniteSet(E), NEW idx, NEW n \in E, NEW k, NEW v \in V, NEW idx2,
           Reassigned(E, idx, n, k, idx2),
           NEW M, Covers(c, E, idx, M), Moved(c, d, idx[n], k, v)
    PROVE  /\ Covers(d, E, idx2, M)
           /\ \A i \in M : i \in Nat \ {0} => Get(d, i) = Get(c, i)
<1> DEFINE h == idx[n]
<1>1. k \in Nat \ {0} /\ h \in Nat /\ h = idx[n]
  BY DEF Moved, Reassigned
<1> HIDE DEF h
<1>2. /\ \A i : i \notin {h, k} \/ h = k => Count(E, idx2, i) = Count(E, idx, i)
      /\ h # k => /\ Count(E, idx2, k) = Count(E, idx, k) + 1
                  /\ Count(E, idx2, h) = Count(E, idx, h) - 1
  <2>1. \A i : i \notin {h, k} \/ h = k => Count(E, idx2, i) = Count(E, idx, i)
    BY <1>1, CountMoved
  <2>2. h # k => /\ Count(E, idx2, k) = Count(E, idx, k) + 1
                 /\ Count(E, idx2, h) = Count(E, idx, h) - 1
    BY <1>1, CountMoved
  <2> QED
    BY <2>1, <2>2
<1>3. \A i : Count(E, idx, i) \in Nat /\ Refs(c, i) \in Nat /\ Refs(d, i) \in Nat
  BY CountTyped, GetTyped
<1>4. Count(E, idx, h) >= 1
  BY CountTwo DEF h
<1>5. Moved(c, d, h, k, v)
  BY DEF h
<1>6. ASSUME NEW i \in Nat \ {0}
      PROVE  /\ Refs(d, i) >= Count(E, idx2, i)
             /\ i \in M => Refs(d, i) > Count(E, idx2, i)
             /\ i \in M => Get(d, i) = Get(c, i)
  <2>1. Refs(c, i) >= Count(E, idx, i) /\ (i \in M => Refs(c, i) > Count(E, idx, i))
    BY DEF Covers
  <2>2. CASE i \notin {h, k}
    BY <1>2, <1>5, <2>1, <2>2 DEF Moved
  <2>3. CASE i = k
    <3>1. i \in M => Get(c, i) = v
      <4>1. i \in M => Refs(c, i) # 0
        BY <1>3, <2>1
      <4>2. Get(c, i) \in {v, NoRef}
        BY <1>5, <2>3 DEF Moved
      <4> QED
        BY <4>1, <4>2, GetTyped
    <3>2. Get(d, i) = v
      BY <1>5, <2>3 DEF Moved
    <3>3. CASE h = k
      <4>1. Refs(d, k) >= Refs(c, k) /\ Count(E, idx2, k) = Count(E, idx, k)
        BY <1>2, <1>5, <3>3 DEF Moved
      <4> QED
        BY <1>3, <2>1, <2>3, <3>1, <3>2, <4>1
    <3>4. CASE h # k
      <4>1. Refs(d, k) = Refs(c, k) + 1 /\ Count(E, idx2, k) = Count(E, idx, k) + 1
        BY <1>2, <1>5, <3>4 DEF Moved
      <4> QED
        BY <1>3, <2>1, <2>3, <3>1, <3>2, <4>1
    <3> QED
      BY <3>3, <3>4
  <2>4. CASE i = h /\ h # k
    <3>1. Count(E, idx2, h) = Count(E, idx, h) - 1
      BY <1>2, <2>4
    <3>2. CASE Refs(c, h) > 1
      <4>1. Get(d, h) = Get(c, h) /\ Refs(d, h) = Refs(c, h) - 1
        BY <1>5, <2>4, <3>2 DEF Moved
      <4> QED
        BY <1>3, <2>1, <2>4, <3>1, <4>1
    <3>3. CASE ~(Refs(c, h) > 1)
      <4>1. Refs(c, h) = 1 /\ Count(E, idx, h) = 1 /\ i \notin M
        BY <1>3, <1>4, <2>1, <2>4, <3>3
      <4> QED
        BY <1>3, <2>4, <3>1, <4>1
    <3> QED
      BY <3>2, <3>3
  <2> QED
    BY <2>2, <2>3, <2>4
<1> QED
  BY <1>6 DEF Covers

LEMMA MovedDenotes ==
    ASSUME NEW V, NoRef \notin V, NEW c, CacheOK(c, V), NEW d,
           NEW E, IsFiniteSet(E), NEW idx, NEW n \in E, NEW k, NEW v \in V, NEW idx2,
           Reassigned(E, idx, n, k, idx2),
           NEW g, NEW g2, g2[n] = v, \A m \in E : m # n => g2[m] = g[m],
           Covers(c, E, idx, {}), Denotes(c, E, idx, g), Moved(c, d, idx[n], k, v)
    PROVE  Denotes(d, E, idx2, g2)
<1> SUFFICES ASSUME NEW m \in E, idx2[m] # 0
             PROVE  g2[m] # NoRef /\ Get(d, idx2[m]) = g2[m]
  BY DEF Denotes
<1> DEFINE h == idx[n]
<1>1. CASE m = n
  <2>1. idx2[m] = k /\ g2[m] = v
    BY <1>1 DEF Reassigned
  <2> QED
    BY <2>1 DEF Moved
<1>2. CASE m # n
  <2> DEFINE i == idx[m]
  <2>1. idx2[m] = i /\ g2[m] = g[m] /\ i \in Nat /\ i # 0
    BY <1>2 DEF Reassigned
  <2>2. g[m] # NoRef /\ Get(c, i) = g[m]
    BY <2>1 DEF Denotes
  <2>3. CASE i \notin {h, k}
    BY <2>1, <2>2, <2>3 DEF Moved
  <2>4. CASE i = k
    BY <2>1, <2>2, <2>4 DEF Moved
  <2>5. CASE i = h /\ h # k
    <3>1. Count(E, idx, h) >= 2
      BY <1>2, <2>5, CountTwo
    <3>2. Refs(c, h) > 1
      <4>1. Refs(c, h) >= Count(E, idx, h)
        BY <2>1, <2>5 DEF Covers
      <4>2. Refs(c, h) \in Nat /\ Count(E, idx, h) \in Nat
        BY CountTyped, GetTyped
      <4> QED
        BY <3>1, <4>1, <4>2
    <3>3. Get(d, h) = Get(c, h)
      BY <2>5, <3>2 DEF Moved
    <3> QED
      BY <2>1, <2>2, <2>5, <3>3
  <2> QED
    BY <2>3, <2>4, <2>5
<1> QED
  BY <1>1, <1>2

\* One element goes, and with it its reference.
LEMMA DroppedCovers ==
    ASSUME NEW V, NEW c, CacheOK(c, V), NEW d, CacheOK(d, V),
           NEW E, IsFiniteSet(E), NEW idx, NEW n \in E, NEW idx2,
           Reassigned(E, idx, n, 0, idx2), NEW E2, E2 = E \ {n},
           NEW g, NEW g2, \A m \in E2 : g2[m] = g[m],
           Covers(c, E, idx, {}), Denotes(c, E, idx, g), Dropped(c, d, idx[n])
    PROVE  Covers(d, E2, idx2, {}) /\ Denotes(d, E2, idx2, g2)
<1> DEFINE h == idx[n]
<1>1. h \in Nat /\ \A m \in E2 : m \in E /\ m # n /\ idx2[m] = idx[m] /\ idx[m] \in Nat
  BY DEF Reassigned
<1>2. Dropped(c, d, h) /\ h = idx[n]
  OBVIOUS
<1> HIDE DEF h
<1>3. \A i : Count(E, idx, i) \in Nat /\ Refs(c, i) \in Nat /\ Refs(d, i) \in Nat
  BY CountTyped, GetTyped
<1>4. ASSUME NEW i \in Nat \ {0} PROVE Refs(d, i) >= Count(E2, idx2, i)
  <2>1. HoldersOf(E2, idx2, i) = HoldersOf(E, idx, i) \ {n}
    BY <1>1 DEF HoldersOf
  <2>2. IsFiniteSet(HoldersOf(E, idx, i))
    BY CountTyped
  <2>3. Refs(c, i) >= Count(E, idx, i)
    BY DEF Covers
  <2>4. CASE i = h
    <3>1. n \in HoldersOf(E, idx, i)
      BY <1>2, <2>4 DEF HoldersOf
    <3>2. Count(E2, idx2, i) = Count(E, idx, i) - 1
      BY <2>1, <2>2, <3>1, FS_RemoveElement DEF Count
    <3>3. CASE Refs(c, h) > 1
      BY <1>2, <1>3, <2>3, <2>4, <3>2, <3>3 DEF Dropped
    <3>4. CASE ~(Refs(c, h) > 1)
      BY <1>3, <2>3, <2>4, <3>2, <3>4
    <3> QED
      BY <3>3, <3>4
  <2>5. CASE i # h
    <3>1. n \notin HoldersOf(E, idx, i)
      BY <1>2, <2>5 DEF HoldersOf
    <3>2. Count(E2, idx2, i) = Count(E, idx, i)
      BY <2>1, <2>2, <3>1, FS_RemoveElement DEF Count
    <3>3. Refs(d, i) = Refs(c, i)
      BY <1>2, <2>5 DEF Dropped, OthersAlone
    <3> QED
      BY <2>3, <3>2, <3>3
  <2> QED
    BY <2>4, <2>5
<1>5. ASSUME NEW m \in E2, idx2[m] # 0 PROVE g2[m] # NoRef /\ Get(d, idx2[m]) = g2[m]
  <2> DEFINE i == idx[m]
  <2>1. m \in E /\ m # n /\ idx2[m] = i /\ g2[m] = g[m] /\ i \in Nat \ {0}
    BY <1>1, <1>5
  <2>2. g[m] # NoRef /\ Get(c, i) = g[m]
    BY <2>1 DEF Denotes
  <2>3. CASE i # h
    BY <1>2, <2>1, <2>2, <2>3 DEF Dropped, OthersAlone
  <2>4. CASE i = h
    <3>1. Count(E, idx, h) >= 2
      BY <1>2, <2>1, <2>4, CountTwo
    <3>2. Refs(c, h) >= Count(E, idx, h)
      BY <2>1, <2>4 DEF Covers
    <3>3. Refs(c, h) > 1
      BY <1>3, <3>1, <3>2
    <3>4. Get(d, h) = Get(c, h)
      BY <1>2, <3>3 DEF Dropped
    <3> QED
      BY <2>1, <2>2, <2>4, <3>4
  <2> QED
    BY <2>3, <2>4
<1> QED
  BY <1>4, <1>5 DEF Covers, Denotes

LEMMA AddedCovers ==
    ASSUME NEW V, NEW c, CacheOK(c, V), NEW d, CacheOK(d, V),
           NEW E, IsFiniteSet(E), NEW idx, NEW M, NEW k,
           Covers(c, E, idx, M), Added(c, d, k), Get(c, k) # NoRef
    PROVE  Covers(d, E, idx, M \union {k}) /\ \A i : Get(d, i) = Get(c, i)
<1>1. \A i : Count(E, idx, i) \in Nat /\ Refs(c, i) \in Nat /\ Refs(d, i) \in Nat
  BY CountTyped, GetTyped
<1>2. Refs(d, k) = Refs(c, k) + 1 /\ \A i : i # k => Refs(d, i) = Refs(c, i)
  BY DEF Added, OthersAlone
<1>3. ASSUME NEW i \in Nat \ {0}
      PROVE  /\ Refs(d, i) >= Count(E, idx, i)
             /\ i \in M \union {k} => Refs(d, i) > Count(E, idx, i)
  <2>1. Refs(c, i) >= Count(E, idx, i) /\ (i \in M => Refs(c, i) > Count(E, idx, i))
    BY DEF Covers
  <2> QED
    BY <1>1, <1>2, <2>1
<1> QED
  BY <1>3 DEF Covers, Added, OthersAlone

-----------------------------------------------------------------------------
(* What the indices of the elements denote *)

\* No full rendering and no load happens at a number of slots that is a
\* multiple of the part length: the loops that count the parts of the element
\* list then leave out the last slot, and reach every other element always.
SeesAll == renders' # renders \/ loads' # loads => elemCount' % PartLen # 0

LEMMA VisitedAll ==
    ASSUME NEW count \in Nat, count % PartLen # 0, NEW n \in 1..count
    PROVE  n \div PartLen < Parts(count)
<1>1. PartLen \in Nat /\ PartLen > 0
  BY Constants
<1>2. /\ n = PartLen * (n \div PartLen) + (n % PartLen)
      /\ n \div PartLen \in Nat /\ n % PartLen \in 0..(PartLen - 1)
  BY <1>1
<1>3. /\ count = PartLen * (count \div PartLen) + (count % PartLen)
      /\ count \div PartLen \in Nat /\ count % PartLen \in 0..(PartLen - 1)
  BY <1>1
<1> DEFINE c == count + PartLen - 1
<1>4. /\ c = PartLen * (c \div PartLen) + (c % PartLen)
      /\ c \div PartLen \in Nat /\ c % PartLen \in 0..(PartLen - 1)
  BY <1>1
<1> QED
  BY <1>1, <1>2, <1>3, <1>4 DEF Parts

ZeroInv ==
    /\ renders \in Nat /\ loads \in Nat
    /\ \A n \in Slots \ live : styleIdx[n] = 0 /\ fontIdx[n] = 0
    /\ phase \in {"building", "idle"} => pending = {}
    /\ phase = "styling" => \A n \in pending : styleIdx[n] = 0 /\ fontIdx[n] = 0
    /\ \A n \in live \ pending : styleIdx[n] = 0 => fontIdx[n] = 0

\* A loaded element may hold an index the loaded styles do not have until it is
\* visited.
HeldInv ==
    \A n \in live : styleIdx[n] # 0 =>
        /\ given[n] # NoRef
        /\ \/ Get(styles, styleIdx[n]) = given[n]
           \/ phase = "loading" /\ n \in pending /\ Get(styles, styleIdx[n]) = NoRef

CoverInv == phase \in {"building", "styling"} => Covers(styles, live, styleIdx, {})

SavedHeldInv ==
    saved.valid =>
        /\ \A n \in Slots \ saved.live : saved.styleIdx[n] = 0 /\ saved.fontIdx[n] = 0
        /\ \A n \in saved.live : saved.styleIdx[n] # 0 =>
              /\ saved.given[n] # NoRef
              /\ saved.styleIdx[n] \in 1..Len(saved.styles)
                    => saved.styles[saved.styleIdx[n]] = saved.given[n]

HInv == ZeroInv /\ HeldInv /\ CoverInv /\ SavedHeldInv

LEMMA LiveFinite == CInv => IsFiniteSet(live) /\ live \subseteq Slots
<1> SUFFICES ASSUME CInv PROVE IsFiniteSet(live) /\ live \subseteq Slots
  OBVIOUS
<1>1. elemCount \in Nat /\ elemCount <= MaxElems /\ live \subseteq 1..elemCount /\ MaxElems \in Nat
  BY Constants DEF CInv, SlotsOK, Slots
<1>2. IsFiniteSet(1..elemCount)
  BY <1>1, FS_Interval
<1>3. IsFiniteSet(live)
  BY <1>1, <1>2, FS_Subset
<1> QED
  BY <1>1, <1>3 DEF Slots

LEMMA HeldDenotes ==
    ASSUME CInv, HInv, phase \in {"building", "styling", "idle"}
    PROVE  Denotes(styles, live, styleIdx, given)
BY DEF HInv, HeldInv, Denotes

LEMMA HInvInit == Init => HInv
<1> SUFFICES ASSUME Init PROVE HInv
  OBVIOUS
<1>1. live \subseteq Slots
  BY Constants DEF Init, Slots, Root
<1>2. ZeroInv /\ HeldInv /\ SavedHeldInv
  BY <1>1 DEF Init, ZeroInv, HeldInv, SavedHeldInv
<1>3. Covers(styles, live, styleIdx, {})
  <2>1. \A i : Refs(styles, i) \in Nat
    BY CInvInit, GetTyped DEF CInv
  <2>2. ASSUME NEW i \in Nat \ {0} PROVE Count(live, styleIdx, i) = 0
    <3>1. HoldersOf(live, styleIdx, i) = {}
      BY <1>1 DEF Init, HoldersOf
    <3> QED
      BY <3>1, FS_EmptySet DEF Count
  <2> QED
    BY <2>1, <2>2 DEF Covers
<1> QED
  BY <1>2, <1>3 DEF HInv, CoverInv

\* An element that holds no index counts for none.
LEMMA CreatedCovers ==
    ASSUME NEW c, NEW E, NEW idx, NEW M, NEW n, idx[n] = 0, Covers(c, E, idx, M)
    PROVE  Covers(c, E \union {n}, idx, M)
<1>1. ASSUME NEW i \in Nat \ {0} PROVE Count(E \union {n}, idx, i) = Count(E, idx, i)
  <2>1. HoldersOf(E \union {n}, idx, i) = HoldersOf(E, idx, i)
    BY DEF HoldersOf
  <2> QED
    BY <2>1 DEF Count
<1> QED
  BY <1>1 DEF Covers

\* The slot a new element gets.
LEMMA CreateSlot ==
    ASSUME CInv, CInv', Create
    PROVE  \E n \in Slots \ live : live' = live \union {n}
<1>1. live' \subseteq Slots
  <2>1. elemCount' \in Nat /\ elemCount' <= MaxElems /\ live' \subseteq 1..elemCount'
        /\ MaxElems \in Nat
    BY Constants DEF CInv, SlotsOK, Slots
  <2> QED
    BY <2>1 DEF Slots
<1>2. CASE freeSlots # << >>
  <2>1. live' = live \union {Head(freeSlots)}
    BY <1>2 DEF Create
  <2>2. freeSlots \in Seq(Nat) /\ \A i \in 1..Len(freeSlots) : freeSlots[i] \notin live
    BY DEF CInv, SlotsOK
  <2>3. Head(freeSlots) = freeSlots[1] /\ 1 \in 1..Len(freeSlots)
    BY <1>2, <2>2, HeadTailProperties, EmptySeq, LenProperties
  <2> QED
    BY <1>1, <2>1, <2>2, <2>3
<1>3. CASE freeSlots = << >>
  <2>1. live' = live \union {elemCount + 1}
    BY <1>3 DEF Create
  <2>2. elemCount + 1 \notin live
    BY Constants DEF CInv, SlotsOK, Slots
  <2> QED
    BY <1>1, <2>1, <2>2
<1> QED
  BY <1>2, <1>3

LEMMA HInvCreate ==
    ASSUME CInv, CInv', HInv, Create
    PROVE  HInv'
<1>1. UNCHANGED <<phase, indexVars, pending, given, once, saved, renders, loads>>
  BY DEF Create
<1>2. PICK n \in Slots \ live : live' = live \union {n}
  BY CreateSlot
<1>3. styleIdx[n] = 0 /\ fontIdx[n] = 0
  BY <1>2 DEF HInv, ZeroInv
<1>4. ZeroInv'
  BY <1>1, <1>2, <1>3 DEF HInv, ZeroInv, indexVars
<1>5. HeldInv'
  BY <1>1, <1>2, <1>3 DEF HInv, HeldInv, indexVars
<1>6. CoverInv'
  BY <1>1, <1>2, <1>3, CreatedCovers DEF HInv, CoverInv, indexVars
<1> QED
  BY <1>1, <1>4, <1>5, <1>6 DEF HInv, SavedHeldInv

\* What styling an element does to the styles, for the indices in M.
LEMMA StyleNodeStyles ==
    ASSUME CInv, CInv', HInv, NEW n \in live, NEW s \in Styles, InitNodeStyle(n, s),
           NEW M, Covers(styles, live, styleIdx, M)
    PROVE  LET k == Recached(styles, styleIdx[n], s).index
           IN /\ k \in Nat \ {0} /\ Get(styles, k) \in {s, NoRef} /\ Get(styles', k) = s
              /\ Covers(styles', live, styleIdx', M \union {k})
              /\ Denotes(styles', live, styleIdx', given')
              /\ \A i \in M : i \in Nat \ {0} => Get(styles', i) = Get(styles, i)
<1> DEFINE h == styleIdx[n]
           d == Recached(styles, h, s).cache
           k == Recached(styles, h, s).index
<1>1. /\ styleIdx' = [styleIdx EXCEPT ![n] = k] /\ styles' = AddIndexRef(d, k)
      /\ given' = [given EXCEPT ![n] = s]
  BY DEF InitNodeStyle, StyleNode
<1>2. CacheOK(d, Styles) /\ Moved(styles, d, h, k, s)
  BY Constants, RecachedOK DEF CInv
<1>3. phase \in {"building", "styling"}
  BY DEF InitNodeStyle
<1> HIDE DEF d, k
<1>4. k \in Nat \ {0} /\ Get(d, k) = s /\ Get(styles, k) \in {s, NoRef}
  BY <1>2 DEF Moved
<1>5. IsFiniteSet(live) /\ live \subseteq Slots /\ NoRef \notin Styles
  BY LiveFinite, Constants
<1>6. Reassigned(live, styleIdx, n, k, styleIdx')
  BY <1>1, <1>5 DEF Reassigned, CInv, IndexOK
<1>7. given'[n] = s /\ \A m \in live : m # n => given'[m] = given[m]
  BY <1>1, <1>5 DEF CInv, RestOK
<1>8. Denotes(styles, live, styleIdx, given) /\ Covers(styles, live, styleIdx, {})
  BY <1>3, HeldDenotes DEF HInv, CoverInv
<1>9. CacheOK(styles, Styles)
  BY DEF CInv
<1>10. Covers(d, live, styleIdx', M) /\ \A i \in M : i \in Nat \ {0} => Get(d, i) = Get(styles, i)
  BY <1>2, <1>5, <1>6, <1>9, MovedCovers
<1>11. Denotes(d, live, styleIdx', given')
  BY <1>2, <1>5, <1>6, <1>7, <1>8, <1>9, MovedDenotes
<1>12. CacheOK(styles', Styles) /\ Added(d, styles', k)
  BY <1>1, <1>2, AddIndexRefOK
<1>13. Get(d, k) # NoRef
  BY <1>4, <1>5
<1>14. Covers(styles', live, styleIdx', M \union {k}) /\ \A i : Get(styles', i) = Get(d, i)
  <2>1. \A i : Get(styles', i) = Get(d, i)
    BY <1>12 DEF Added, OthersAlone
  <2>2. Covers(styles', live, styleIdx', M \union {k})
    BY <1>2, <1>5, <1>10, <1>12, <1>13, AddedCovers
  <2> QED
    BY <2>1, <2>2
<1>15. Denotes(styles', live, styleIdx', given')
  BY <1>11, <1>14 DEF Denotes
<1> QED
  BY <1>4, <1>10, <1>14, <1>15 DEF k

LEMMA HInvInitNodeStyle ==
    ASSUME CInv, CInv', HInv, NEW n \in live, NEW s \in Styles, InitNodeStyle(n, s)
    PROVE  HInv'
<1> DEFINE k == Recached(styles, styleIdx[n], s).index
           f == FontFound(fontMap, fonts, fontIdx[n], k, s).index
<1>1. /\ styleIdx' = [styleIdx EXCEPT ![n] = k] /\ fontIdx' = [fontIdx EXCEPT ![n] = f]
      /\ pending' = pending \ {n} /\ live' = live
      /\ UNCHANGED <<phase, saved, renders, loads>>
      /\ phase \in {"building", "styling"}
  BY DEF InitNodeStyle, StyleNode, slotVars
<1>2. Covers(styles, live, styleIdx, {})
  BY <1>1 DEF HInv, CoverInv
<1>3. /\ k \in Nat \ {0} /\ Covers(styles', live, styleIdx', {} \union {k})
      /\ Denotes(styles', live, styleIdx', given')
  BY <1>2, StyleNodeStyles
<1> HIDE DEF k, f
<1>4. ZeroInv'
  <2>1. live \subseteq Slots /\ styleIdx \in [Slots -> Nat] /\ fontIdx \in [Slots -> Nat]
    BY LiveFinite DEF CInv, IndexOK
  <2> QED
    BY <1>1, <1>3, <2>1 DEF HInv, ZeroInv
<1>5. HeldInv'
  BY <1>1, <1>3 DEF HeldInv, Denotes
<1>6. CoverInv'
  BY <1>1, <1>3 DEF CoverInv, Covers
<1> QED
  BY <1>1, <1>4, <1>5, <1>6 DEF HInv, SavedHeldInv

LEMMA SetStyleStyles ==
    ASSUME CInv, CInv', HInv, NEW n \in live, NEW s \in Styles, SetStyle(n, s),
           NEW M, Covers(styles, live, styleIdx, M)
    PROVE  LET k == Recached(styles, styleIdx[n], s).index
           IN /\ k \in Nat \ {0}
              /\ Covers(styles', live, styleIdx', M)
              /\ Denotes(styles', live, styleIdx', given')
              /\ \A i \in M : i \in Nat \ {0} => Get(styles', i) = Get(styles, i)
<1> DEFINE h == styleIdx[n]
           d == Recached(styles, h, s).cache
           k == Recached(styles, h, s).index
<1>1. /\ styleIdx' = [styleIdx EXCEPT ![n] = k] /\ styles' = d
      /\ given' = [given EXCEPT ![n] = s] /\ phase = "styling"
  BY DEF SetStyle
<1>2. CacheOK(d, Styles) /\ Moved(styles, d, h, k, s)
  BY Constants, RecachedOK DEF CInv
<1> HIDE DEF d, k
<1>3. k \in Nat \ {0}
  BY <1>2 DEF Moved
<1>4. IsFiniteSet(live) /\ live \subseteq Slots /\ NoRef \notin Styles
  BY LiveFinite, Constants
<1>5. Reassigned(live, styleIdx, n, k, styleIdx')
  BY <1>1, <1>4 DEF Reassigned, CInv, IndexOK
<1>6. given'[n] = s /\ \A m \in live : m # n => given'[m] = given[m]
  BY <1>1, <1>4 DEF CInv, RestOK
<1>7. Denotes(styles, live, styleIdx, given) /\ Covers(styles, live, styleIdx, {})
  BY <1>1, HeldDenotes DEF HInv, CoverInv
<1>8. CacheOK(styles, Styles)
  BY DEF CInv
<1>9. Covers(d, live, styleIdx', M) /\ \A i \in M : i \in Nat \ {0} => Get(d, i) = Get(styles, i)
  BY <1>2, <1>4, <1>5, <1>8, MovedCovers
<1>10. Denotes(d, live, styleIdx', given')
  BY <1>2, <1>4, <1>5, <1>6, <1>7, <1>8, MovedDenotes
<1> QED
  BY <1>1, <1>3, <1>9, <1>10 DEF k

LEMMA HInvSetStyle ==
    ASSUME CInv, CInv', HInv, NEW n \in live, NEW s \in Styles, SetStyle(n, s)
    PROVE  HInv'
<1> DEFINE k == Recached(styles, styleIdx[n], s).index
<1>1. /\ styleIdx' = [styleIdx EXCEPT ![n] = k] /\ phase = "styling" /\ pending = {}
      /\ live' = live /\ UNCHANGED <<phase, fontIdx, pending, saved, renders, loads>>
  BY DEF SetStyle, slotVars
<1>2. Covers(styles, live, styleIdx, {})
  BY <1>1 DEF HInv, CoverInv
<1>3. /\ k \in Nat \ {0} /\ Covers(styles', live, styleIdx', {})
      /\ Denotes(styles', live, styleIdx', given')
  BY <1>2, SetStyleStyles
<1> HIDE DEF k
<1>4. ZeroInv'
  <2>1. live \subseteq Slots /\ styleIdx \in [Slots -> Nat]
    BY LiveFinite DEF CInv, IndexOK
  <2> QED
    BY <1>1, <1>3, <2>1 DEF HInv, ZeroInv
<1>5. HeldInv'
  BY <1>1, <1>3 DEF HeldInv, Denotes
<1>6. CoverInv'
  BY <1>1, <1>3 DEF CoverInv
<1> QED
  BY <1>1, <1>4, <1>5, <1>6 DEF HInv, SavedHeldInv

LEMMA HInvDestroy ==
    ASSUME CInv, CInv', HInv, NEW n \in live, Destroy(n)
    PROVE  HInv'
<1>1. /\ styles' = Release(styles, styleIdx[n])
      /\ styleIdx' = [styleIdx EXCEPT ![n] = 0] /\ fontIdx' = [fontIdx EXCEPT ![n] = 0]
      /\ live' = live \ {n} /\ given' = [given EXCEPT ![n] = NoRef] /\ pending' = pending \ {n}
      /\ UNCHANGED <<phase, saved, renders, loads>>
      /\ phase \in {"building", "styling"}
  BY DEF Destroy
<1>2. IsFiniteSet(live) /\ live \subseteq Slots /\ NoRef \notin Styles
  BY LiveFinite, Constants
<1>3. styleIdx \in [Slots -> Nat] /\ fontIdx \in [Slots -> Nat]
  BY DEF CInv, IndexOK
<1>4. Reassigned(live, styleIdx, n, 0, styleIdx')
  BY <1>1, <1>2, <1>3 DEF Reassigned
<1>5. \A m \in live' : given'[m] = given[m]
  BY <1>1, <1>2 DEF CInv, RestOK
<1>6. Denotes(styles, live, styleIdx, given) /\ Covers(styles, live, styleIdx, {})
  BY <1>1, HeldDenotes DEF HInv, CoverInv
<1>7. CacheOK(styles, Styles) /\ CacheOK(styles', Styles)
  BY DEF CInv
<1>8. Dropped(styles, styles', styleIdx[n])
  BY <1>1, <1>2, <1>7, ReleaseOK
<1>9. Covers(styles', live', styleIdx', {})
  BY <1>1, <1>2, <1>4, <1>5, <1>6, <1>7, <1>8, DroppedCovers
<1>10. Denotes(styles', live', styleIdx', given')
  BY <1>1, <1>2, <1>4, <1>5, <1>6, <1>7, <1>8, DroppedCovers
<1>11. ZeroInv'
  BY <1>1, <1>2, <1>3 DEF HInv, ZeroInv
<1>12. HeldInv'
  BY <1>10 DEF HeldInv, Denotes
<1> QED
  BY <1>1, <1>9, <1>11, <1>12 DEF HInv, CoverInv, SavedHeldInv

LEMMA VisitedLive ==
    ASSUME CInv, elemCount % PartLen # 0
    PROVE  Visited = live
<1>1. elemCount \in Nat /\ live \subseteq 1..elemCount
  BY Constants DEF CInv, SlotsOK, Slots
<1> QED
  BY <1>1, VisitedAll DEF Visited

LEMMA HInvDropStyles ==
    ASSUME CInv, CInv', HInv, DropStyles, SeesAll
    PROVE  HInv' /\ \A n \in Slots : styleIdx'[n] = 0 /\ fontIdx'[n] = 0
<1>1. /\ phase' = "styling" /\ pending' = live /\ live' = live /\ elemCount' = elemCount
      /\ styleIdx' = [n \in Slots |-> IF n \in Visited THEN 0 ELSE styleIdx[n]]
      /\ fontIdx' = [n \in Slots |-> IF n \in Visited THEN 0 ELSE fontIdx[n]]
      /\ saved' = saved /\ renders' = renders + 1 /\ loads' = loads
  BY DEF DropStyles, slotVars
<1>2. Visited = live
  <2>1. renders' # renders
    BY <1>1 DEF HInv, ZeroInv
  <2>2. elemCount % PartLen # 0
    BY <1>1, <2>1 DEF SeesAll
  <2> QED
    BY <2>2, VisitedLive
<1>3. \A n \in Slots : styleIdx'[n] = 0 /\ fontIdx'[n] = 0
  BY <1>1, <1>2 DEF HInv, ZeroInv
<1>4. live \subseteq Slots
  BY LiveFinite
<1>5. ZeroInv'
  BY <1>1, <1>3, <1>4 DEF HInv, ZeroInv
<1>6. HeldInv'
  BY <1>1, <1>3, <1>4 DEF HeldInv
<1>7. Covers(styles', live', styleIdx', {})
  <2>1. \A i : Refs(styles', i) \in Nat
    BY GetTyped DEF CInv
  <2>2. ASSUME NEW i \in Nat \ {0} PROVE Count(live', styleIdx', i) = 0
    <3>1. HoldersOf(live', styleIdx', i) = {}
      BY <1>1, <1>3, <1>4 DEF HoldersOf
    <3> QED
      BY <3>1, FS_EmptySet DEF Count
  <2> QED
    BY <2>1, <2>2 DEF Covers
<1> QED
  BY <1>1, <1>3, <1>5, <1>6, <1>7 DEF HInv, CoverInv, SavedHeldInv

LEMMA HInvSave ==
    ASSUME CInv, CInv', HInv, Save
    PROVE  HInv'
<1>1. /\ saved' = [valid |-> TRUE, elemCount |-> elemCount, live |-> live,
                   styleIdx |-> styleIdx, fontIdx |-> fontIdx,
                   styles |-> Listed(styles), given |-> given]
      /\ UNCHANGED <<phase, slotVars, indexVars, pending, given, renders, loads>>
      /\ phase = "idle"
  BY DEF Save
<1>2. /\ saved'.live = live /\ saved'.given = given
      /\ saved'.styleIdx = styleIdx /\ saved'.fontIdx = fontIdx /\ saved'.styles = Listed(styles)
  BY <1>1
<1>3. Denotes(styles, live, styleIdx, given)
  BY <1>1, HeldDenotes
<1>4. \A i \in 1..Len(Listed(styles)) : Listed(styles)[i] = Get(styles, i)
  BY ListedOK DEF CInv
<1>5. SavedHeldInv'
  BY <1>2, <1>3, <1>4 DEF SavedHeldInv, Denotes, HInv, ZeroInv
<1>6. ZeroInv' /\ HeldInv' /\ CoverInv'
  BY <1>1 DEF HInv, ZeroInv, HeldInv, CoverInv, slotVars, indexVars
<1> QED
  BY <1>5, <1>6 DEF HInv

LEMMA HInvLoad ==
    ASSUME CInv, CInv', HInv, Load, SeesAll
    PROVE  HInv' /\ pending' = live'
<1>1. /\ saved.valid /\ phase' = "loading"
      /\ elemCount' = saved.elemCount /\ live' = saved.live
      /\ styles' = FromList(saved.styles)
      /\ styleIdx' = saved.styleIdx /\ fontIdx' = saved.fontIdx
      /\ pending' = {n \in saved.live : n \div PartLen < Parts(saved.elemCount)}
      /\ given' = saved.given /\ saved' = saved /\ loads' = loads + 1 /\ renders' = renders
  BY DEF Load
<1>2. /\ saved.elemCount \in Slots /\ saved.live \subseteq 1..saved.elemCount
      /\ ListOK(saved.styles, Styles) /\ saved.styleIdx \in [Slots -> Nat]
  BY <1>1 DEF CInv, SavedOK
<1>3. pending' = live'
  <2>1. loads' # loads
    BY <1>1 DEF HInv, ZeroInv
  <2>2. saved.elemCount % PartLen # 0 /\ saved.elemCount \in Nat
    BY <1>1, <1>2, <2>1, Constants DEF SeesAll, Slots
  <2> QED
    BY <1>1, <1>2, <2>2, VisitedAll
<1>4. ZeroInv'
  <2>1. \A n \in Slots \ saved.live : saved.styleIdx[n] = 0 /\ saved.fontIdx[n] = 0
    BY <1>1 DEF HInv, SavedHeldInv
  <2> QED
    BY <1>1, <1>3, <2>1 DEF HInv, ZeroInv
<1>5. HeldInv'
  <2>1. \A i : Get(styles', i) = IF i \in 1..Len(saved.styles) THEN saved.styles[i] ELSE NoRef
    BY <1>1, <1>2, FromListOK
  <2>2. \A n \in saved.live : saved.styleIdx[n] # 0 =>
              /\ saved.given[n] # NoRef
              /\ saved.styleIdx[n] \in 1..Len(saved.styles)
                    => saved.styles[saved.styleIdx[n]] = saved.given[n]
    BY <1>1 DEF HInv, SavedHeldInv
  <2> QED
    BY <1>1, <1>3, <2>1, <2>2 DEF HeldInv
<1> QED
  BY <1>1, <1>3, <1>4, <1>5 DEF HInv, CoverInv, SavedHeldInv

LEMMA HInvUpdateLoaded ==
    ASSUME CInv, CInv', HInv, UpdateLoaded
    PROVE  HInv'
<1> DEFINE n == Min(pending)
           i == styleIdx[n]
           s == Get(styles, i)
           found == FontFound(fontMap, fonts, 0, i, s)
<1>1. /\ pending' = pending \ {n} /\ pending # {} /\ phase = "loading"
      /\ UNCHANGED <<phase, slotVars, styles, given, saved, renders, loads>>
      /\ \/ /\ s = NoRef
            /\ styleIdx' = [styleIdx EXCEPT ![n] = 0] /\ fontIdx' = [fontIdx EXCEPT ![n] = 0]
         \/ /\ s # NoRef
            /\ fontIdx' = [fontIdx EXCEPT ![n] = found.index] /\ styleIdx' = styleIdx
  BY DEF UpdateLoaded
<1>2. n \in pending /\ pending \subseteq live /\ live \subseteq Slots
  BY <1>1, NextVisited, LiveFinite DEF CInv, RestOK
<1>3. styleIdx \in [Slots -> Nat] /\ fontIdx \in [Slots -> Nat]
  BY DEF CInv, IndexOK
<1>4. s # NoRef => i # 0
  BY GetTyped DEF CInv, Get, Present
<1>5. live' = live
  BY <1>1 DEF slotVars
<1> HIDE DEF found, n
<1>6. CASE s = NoRef
  <2>1. ZeroInv'
    BY <1>1, <1>2, <1>3, <1>5, <1>6 DEF HInv, ZeroInv
  <2>2. HeldInv'
    BY <1>1, <1>2, <1>3, <1>5, <1>6 DEF HInv, HeldInv
  <2> QED
    BY <1>1, <2>1, <2>2 DEF HInv, CoverInv, SavedHeldInv
<1>7. CASE s # NoRef
  <2>1. ZeroInv'
    BY <1>1, <1>2, <1>3, <1>4, <1>5, <1>7 DEF HInv, ZeroInv
  <2>2. HeldInv'
    BY <1>1, <1>2, <1>3, <1>5, <1>7 DEF HInv, HeldInv
  <2> QED
    BY <1>1, <2>1, <2>2 DEF HInv, CoverInv, SavedHeldInv
<1> QED
  BY <1>6, <1>7

LEMMA HInvNext ==
    ASSUME CInv, CInv', HInv, [Next]_vars, SeesAll
    PROVE  HInv'
<1>1. CASE Create
  BY <1>1, HInvCreate
<1>2. ASSUME NEW n \in live, NEW s \in Styles, InitNodeStyle(n, s) PROVE HInv'
  BY <1>2, HInvInitNodeStyle
<1>3. ASSUME NEW n \in live, NEW s \in Styles, SetStyle(n, s) PROVE HInv'
  BY <1>3, HInvSetStyle
<1>4. ASSUME NEW n \in live, Destroy(n) PROVE HInv'
  BY <1>4, HInvDestroy
<1>5. CASE DropStyles
  BY <1>5, HInvDropStyles
<1>6. CASE Done
  <2>1. /\ phase' = "idle" /\ phase \in {"styling", "loading"} /\ pending = {}
        /\ UNCHANGED <<slotVars, indexVars, pending, given, saved, renders, loads>>
    BY <1>6 DEF Done
  <2> QED
    BY <2>1 DEF HInv, ZeroInv, HeldInv, CoverInv, SavedHeldInv, slotVars, indexVars
<1>7. CASE Save
  BY <1>7, HInvSave
<1>8. CASE Load
  BY <1>8, HInvLoad
<1>9. CASE UpdateLoaded
  BY <1>9, HInvUpdateLoaded
<1>10. CASE UNCHANGED vars
  BY <1>10 DEF HInv, ZeroInv, HeldInv, CoverInv, SavedHeldInv, vars, slotVars, indexVars
<1> QED
  BY <1>1, <1>2, <1>3, <1>4, <1>5, <1>6, <1>7, <1>8, <1>9, <1>10 DEF Next

LEMMA HInvAlways == Spec /\ [][SeesAll]_vars => []HInv
<1>1. CInv /\ CInv' /\ HInv /\ [Next]_vars /\ [SeesAll]_vars => HInv'
  <2> SUFFICES ASSUME CInv, CInv', HInv, [Next]_vars, [SeesAll]_vars PROVE HInv'
    OBVIOUS
  <2>1. CASE SeesAll
    BY <2>1, HInvNext
  <2>2. CASE UNCHANGED vars
    BY <2>2 DEF HInv, ZeroInv, HeldInv, CoverInv, SavedHeldInv, vars, slotVars, indexVars
  <2> QED
    BY <2>1, <2>2
<1> QED
  BY <1>1, HInvInit, CInvAlways, PTL DEF Spec

(* The style index of an element denotes the style it was last given,       *)
(* through renderings, saving and loading, as long as the loops over the    *)
(* parts of the element list reach every element                            *)
(* (tinyNodeCollection::setNodeStyle, clearNodeStyle, saveStylesData,       *)
(* loadStylesData).                                                         *)
THEOREM StyleAlwaysGiven == Spec /\ [][SeesAll]_vars => []StyleIsGiven
<1>1. HInv => StyleIsGiven
  BY DEF HInv, HeldInv, StyleIsGiven
<1> QED
  BY <1>1, HInvAlways, PTL

(* Under the same condition, while references are given up no style has     *)
(* fewer of them than elements (LVIndexedRefCache::cache(indexholder,       *)
(* style), release).                                                        *)
THEOREM RefsAlwaysCoverHolders == Spec /\ [][SeesAll]_vars => []RefsCoverHolders
<1>1. CInv /\ HInv => RefsCoverHolders
  <2> SUFFICES ASSUME CInv, HInv, phase \in {"building", "styling"},
                      NEW i \in 1..Len(styles.item), Present(styles, i)
               PROVE  styles.refs[i] >= Cardinality({n \in live : styleIdx[n] = i})
    BY DEF RefsCoverHolders
  <2>1. i \in Nat \ {0}
    BY CacheShape DEF CInv, CacheOK
  <2>2. Refs(styles, i) >= Count(live, styleIdx, i)
    BY <2>1 DEF HInv, CoverInv, Covers
  <2> QED
    BY <2>2 DEF Refs, Count, HoldersOf
<1> QED
  BY <1>1, HInvAlways, CInvAlways, PTL

-----------------------------------------------------------------------------
(* The fonts *)

\* An element that was not styled yet, or whose index was dropped, finds the
\* font of its style, and no font is given up.
LEMMA FontFoundFor ==
    ASSUME NEW map, NEW cache, NEW i, NEW s \in Styles, CacheOK(cache, Fonts),
           \A j \in DOMAIN map : map[j] \in Nat,
           i \in DOMAIN map => Get(cache, map[i]) = FontFor[s],
           NEW found, found = FontFound(map, cache, 0, i, s)
    PROVE  /\ Get(found.cache, found.index) = FontFor[s]
           /\ \A m : Get(cache, m) # NoRef => Get(found.cache, m) = Get(cache, m)
           /\ DOMAIN found.map = DOMAIN map \union {i}
           /\ found.map[i] = found.index
           /\ \A j \in DOMAIN map : j # i => found.map[j] = map[j]
<1>1. FontFor[s] \in Fonts /\ NoRef \notin Fonts
  BY Constants
<1>2. CASE FontAt(map, i) # 0
  <2> DEFINE n == FontAt(map, i)
  <2>1. n = map[i] /\ i \in DOMAIN map
    BY <1>2 DEF FontAt
  <2>2. found.index = n /\ found.map = map /\ found.cache = AddIndexRef(cache, n)
    BY <1>2 DEF FontFound
  <2> HIDE DEF n
  <2>3. Added(cache, AddIndexRef(cache, n), n)
    BY AddIndexRefOK
  <2>4. \A m : Get(found.cache, m) = Get(cache, m)
    BY <2>2, <2>3 DEF Added, OthersAlone
  <2> QED
    BY <2>1, <2>2, <2>4
<1>3. CASE FontAt(map, i) = 0
  <2> DEFINE v == FontFor[s]
             e == Cached(cache, v).cache
             n == Cached(cache, v).index
  <2>1. /\ found.index = n
        /\ found.map = [j \in DOMAIN map \union {i} |-> IF j = i THEN n ELSE map[j]]
        /\ found.cache = e
    BY <1>3 DEF FontFound
  <2>2. v \in Fonts
    BY <1>1
  <2> HIDE DEF v
  <2>3. Taken(cache, e, n, v)
    BY <1>1, <2>2, CachedOK
  <2> HIDE DEF e, n
  <2>4. Get(found.cache, found.index) = v
    BY <2>1, <2>3 DEF Taken
  <2>5. \A m : Get(cache, m) # NoRef => Get(found.cache, m) = Get(cache, m)
    BY <2>1, <2>3 DEF Taken, OthersAlone
  <2>6. DOMAIN found.map = DOMAIN map \union {i} /\ found.map[i] = found.index
    BY <2>1
  <2>7. \A j \in DOMAIN map : j # i => found.map[j] = map[j]
    BY <2>1
  <2> QED
    BY <2>4, <2>5, <2>6, <2>7 DEF v
<1> QED
  BY <1>2, <1>3

\* A style in the font map has a reference beyond those of its holders, which
\* getStyle took; it is never given up while the map is in use.
FontsHeld ==
    \A n \in live \ pending : fontIdx[n] # 0 =>
        given[n] # NoRef /\ Get(fonts, fontIdx[n]) = FontFor[given[n]]

MapHeld ==
    \A i \in DOMAIN fontMap :
        /\ i \in Nat \ {0} /\ Get(styles, i) # NoRef
        /\ Get(fonts, fontMap[i]) = FontFor[Get(styles, i)]

MapCovered ==
    phase \in {"building", "styling"} => Covers(styles, live, styleIdx, DOMAIN fontMap)

FInv == once => FontsHeld /\ MapHeld /\ MapCovered

LEMMA FInvInit == Init => FInv
<1> SUFFICES ASSUME Init PROVE FInv
  OBVIOUS
<1>1. live \subseteq Slots
  BY Constants DEF Init, Slots, Root
<1>2. DOMAIN fontMap = {}
  BY DEF Init
<1>3. FontsHeld /\ MapHeld
  BY <1>1, <1>2 DEF Init, FontsHeld, MapHeld
<1>4. MapCovered
  BY <1>2, HInvInit DEF HInv, CoverInv, MapCovered, Init
<1> QED
  BY <1>3, <1>4 DEF FInv

LEMMA FInvCreate ==
    ASSUME CInv, CInv', HInv, FInv, Create
    PROVE  FInv'
<1> SUFFICES ASSUME once PROVE FontsHeld' /\ MapHeld' /\ MapCovered'
  BY DEF FInv, Create
<1>1. UNCHANGED <<phase, indexVars, pending, given, once, saved, renders, loads>>
  BY DEF Create
<1>2. PICK n \in Slots \ live : live' = live \union {n}
  BY CreateSlot
<1>3. styleIdx[n] = 0 /\ fontIdx[n] = 0
  BY <1>2 DEF HInv, ZeroInv
<1>4. FontsHeld /\ MapHeld /\ MapCovered
  BY DEF FInv
<1>5. FontsHeld' /\ MapHeld'
  BY <1>1, <1>2, <1>3, <1>4 DEF FontsHeld, MapHeld, indexVars
<1>6. MapCovered'
  BY <1>1, <1>2, <1>3, <1>4, CreatedCovers DEF MapCovered, indexVars
<1> QED
  BY <1>5, <1>6

LEMMA FInvInitNodeStyle ==
    ASSUME CInv, CInv', HInv, FInv, NEW n \in live, NEW s \in Styles, InitNodeStyle(n, s)
    PROVE  FInv'
<1> DEFINE k == Recached(styles, styleIdx[n], s).index
           found == FontFound(fontMap, fonts, fontIdx[n], k, s)
<1>1. /\ styleIdx' = [styleIdx EXCEPT ![n] = k] /\ fontIdx' = [fontIdx EXCEPT ![n] = found.index]
      /\ fonts' = found.cache /\ fontMap' = found.map
      /\ given' = [given EXCEPT ![n] = s]
      /\ pending' = pending \ {n} /\ live' = live /\ phase' = phase
      /\ phase \in {"building", "styling"}
      /\ once' = (once /\ (styleIdx[n] = 0 \/ n \in pending))
  BY DEF InitNodeStyle, StyleNode, slotVars
<1> SUFFICES ASSUME once' PROVE FontsHeld' /\ MapHeld' /\ MapCovered'
  BY DEF FInv
<1>2. once /\ (styleIdx[n] = 0 \/ n \in pending)
  BY <1>1
<1>3. styleIdx[n] = 0 /\ fontIdx[n] = 0
  BY <1>1, <1>2 DEF HInv, ZeroInv
<1>4. FontsHeld /\ MapHeld /\ Covers(styles, live, styleIdx, DOMAIN fontMap)
  BY <1>1, <1>2 DEF FInv, MapCovered
<1>5. /\ k \in Nat \ {0} /\ Get(styles, k) \in {s, NoRef} /\ Get(styles', k) = s
      /\ Covers(styles', live, styleIdx', DOMAIN fontMap \union {k})
      /\ \A i \in DOMAIN fontMap : i \in Nat \ {0} => Get(styles', i) = Get(styles, i)
  BY <1>4, StyleNodeStyles
<1>6. found = FontFound(fontMap, fonts, 0, k, s)
  BY <1>3
<1> HIDE DEF k, found
<1>7. /\ \A j \in DOMAIN fontMap : fontMap[j] \in Nat
      /\ CacheOK(fonts, Fonts)
  BY DEF CInv, IndexOK
<1>8. k \in DOMAIN fontMap => Get(fonts, fontMap[k]) = FontFor[s]
  BY <1>4, <1>5 DEF MapHeld
<1>9. /\ Get(found.cache, found.index) = FontFor[s]
      /\ \A m : Get(fonts, m) # NoRef => Get(found.cache, m) = Get(fonts, m)
      /\ DOMAIN found.map = DOMAIN fontMap \union {k}
      /\ found.map[k] = found.index
      /\ \A j \in DOMAIN fontMap : j # k => found.map[j] = fontMap[j]
  BY <1>6, <1>7, <1>8, FontFoundFor
<1>10. FontFor \in [Styles -> Fonts] /\ NoRef \notin Styles /\ NoRef \notin Fonts
       /\ live \subseteq Slots /\ given \in [Slots -> Styles \union {NoRef}]
       /\ fontIdx \in [Slots -> Nat]
  BY Constants, LiveFinite DEF CInv, RestOK, IndexOK
<1>11. FontsHeld'
  <2> SUFFICES ASSUME NEW m \in live, m \notin pending \ {n}, fontIdx'[m] # 0
               PROVE  given'[m] # NoRef /\ Get(fonts', fontIdx'[m]) = FontFor[given'[m]]
    BY <1>1 DEF FontsHeld
  <2>1. CASE m = n
    <3>1. given'[m] = s /\ fontIdx'[m] = found.index
      BY <1>1, <1>10, <2>1
    <3> QED
      BY <1>1, <1>9, <1>10, <3>1
  <2>2. CASE m # n
    <3>1. given'[m] = given[m] /\ fontIdx'[m] = fontIdx[m] /\ m \in live \ pending
      BY <1>1, <1>10, <2>2
    <3>2. given[m] # NoRef /\ Get(fonts, fontIdx[m]) = FontFor[given[m]]
      BY <1>4, <3>1 DEF FontsHeld
    <3>3. FontFor[given[m]] # NoRef
      BY <1>10, <3>2
    <3> QED
      BY <1>1, <1>9, <3>1, <3>2, <3>3
  <2> QED
    BY <2>1, <2>2
<1>12. MapHeld'
  <2> SUFFICES ASSUME NEW i \in DOMAIN fontMap \union {k}
               PROVE  /\ i \in Nat \ {0} /\ Get(styles', i) # NoRef
                      /\ Get(fonts', fontMap'[i]) = FontFor[Get(styles', i)]
    BY <1>1, <1>9 DEF MapHeld
  <2>1. CASE i = k
    BY <1>1, <1>5, <1>9, <1>10, <2>1
  <2>2. CASE i # k
    <3>1. /\ i \in DOMAIN fontMap /\ i \in Nat \ {0} /\ Get(styles, i) # NoRef
          /\ Get(fonts, fontMap[i]) = FontFor[Get(styles, i)]
      BY <1>4, <2>2 DEF MapHeld
    <3>2. Get(styles', i) = Get(styles, i) /\ fontMap'[i] = fontMap[i]
      BY <1>1, <1>5, <1>9, <2>2, <3>1
    <3>3. FontFor[Get(styles, i)] # NoRef
      <4>1. Get(styles, i) \in Styles
        BY <3>1, GetTyped DEF CInv
      <4> QED
        BY <1>10, <4>1
    <3> QED
      BY <1>1, <1>9, <3>1, <3>2, <3>3
  <2> QED
    BY <2>1, <2>2
<1>13. MapCovered'
  BY <1>1, <1>5, <1>9 DEF MapCovered
<1> QED
  BY <1>11, <1>12, <1>13

LEMMA FInvSetStyle ==
    ASSUME CInv, CInv', HInv, FInv, NEW n \in live, NEW s \in Styles, SetStyle(n, s)
    PROVE  FInv'
<1> DEFINE k == Recached(styles, styleIdx[n], s).index
<1>1. /\ given' = [given EXCEPT ![n] = s] /\ phase = "styling"
      /\ FontFor[s] = FontFor[given[n]]
      /\ live' = live /\ UNCHANGED <<phase, fontIdx, fonts, fontMap, pending, once>>
  BY DEF SetStyle, slotVars
<1> SUFFICES ASSUME once PROVE FontsHeld' /\ MapHeld' /\ MapCovered'
  BY <1>1 DEF FInv
<1>2. FontsHeld /\ MapHeld /\ Covers(styles, live, styleIdx, DOMAIN fontMap)
  BY <1>1 DEF FInv, MapCovered
<1>3. /\ Covers(styles', live, styleIdx', DOMAIN fontMap)
      /\ \A i \in DOMAIN fontMap : i \in Nat \ {0} => Get(styles', i) = Get(styles, i)
  BY <1>2, SetStyleStyles
<1>4. NoRef \notin Styles /\ live \subseteq Slots /\ given \in [Slots -> Styles \union {NoRef}]
  BY Constants, LiveFinite DEF CInv, RestOK
<1>5. FontsHeld'
  BY <1>1, <1>2, <1>4 DEF FontsHeld
<1>6. MapHeld'
  BY <1>1, <1>2, <1>3 DEF MapHeld
<1>7. MapCovered'
  BY <1>1, <1>3 DEF MapCovered
<1> QED
  BY <1>5, <1>6, <1>7

LEMMA FInvDropStyles ==
    ASSUME CInv, CInv', HInv, DropStyles, SeesAll
    PROVE  FInv'
<1>1. /\ fontMap' = [i \in {} |-> 0] /\ live' = live /\ pending' = live
  BY DEF DropStyles, slotVars
<1>2. DOMAIN fontMap' = {}
  BY <1>1
<1>3. HInv'
  BY HInvDropStyles
<1>4. FontsHeld' /\ MapHeld'
  BY <1>1, <1>2 DEF FontsHeld, MapHeld
<1>5. MapCovered'
  BY <1>2, <1>3 DEF HInv, CoverInv, MapCovered
<1> QED
  BY <1>4, <1>5 DEF FInv

LEMMA FInvLoad ==
    ASSUME CInv, CInv', HInv, Load, SeesAll
    PROVE  FInv'
<1>1. phase' = "loading" /\ fontMap' = [i \in {} |-> 0]
  BY DEF Load
<1>2. DOMAIN fontMap' = {}
  BY <1>1
<1>3. pending' = live'
  BY HInvLoad
<1> QED
  BY <1>1, <1>2, <1>3 DEF FInv, FontsHeld, MapHeld, MapCovered

LEMMA FInvUpdateLoaded ==
    ASSUME CInv, CInv', HInv, FInv, UpdateLoaded
    PROVE  FInv'
<1> DEFINE n == Min(pending)
           i == styleIdx[n]
           s == Get(styles, i)
           found == FontFound(fontMap, fonts, 0, i, s)
<1>1. /\ pending' = pending \ {n} /\ pending # {} /\ phase = "loading"
      /\ UNCHANGED <<phase, slotVars, styles, given, once>>
      /\ \/ /\ s = NoRef
            /\ fontIdx' = [fontIdx EXCEPT ![n] = 0] /\ fonts' = fonts /\ fontMap' = fontMap
         \/ /\ s # NoRef
            /\ fontIdx' = [fontIdx EXCEPT ![n] = found.index]
            /\ fonts' = found.cache /\ fontMap' = found.map
  BY DEF UpdateLoaded
<1> SUFFICES ASSUME once PROVE FontsHeld' /\ MapHeld' /\ MapCovered'
  BY <1>1 DEF FInv
<1>2. n \in pending /\ pending \subseteq live /\ live \subseteq Slots /\ live' = live
  BY <1>1, NextVisited, LiveFinite DEF CInv, RestOK, slotVars
<1>3. FontFor \in [Styles -> Fonts] /\ NoRef \notin Styles /\ NoRef \notin Fonts
      /\ given \in [Slots -> Styles \union {NoRef}] /\ fontIdx \in [Slots -> Nat]
  BY Constants DEF CInv, RestOK, IndexOK
<1>4. FontsHeld /\ MapHeld
  BY DEF FInv
<1>5. MapCovered'
  BY <1>1 DEF MapCovered
<1>6. CASE s = NoRef
  <2> HIDE DEF n, s, found
  <2>1. FontsHeld'
    BY <1>1, <1>2, <1>3, <1>4, <1>6 DEF FontsHeld
  <2>2. MapHeld'
    BY <1>1, <1>4, <1>6 DEF MapHeld
  <2> QED
    BY <1>5, <2>1, <2>2
<1>7. CASE s # NoRef
  <2>1. i \in Nat \ {0} /\ s \in Styles /\ s = given[n]
    <3>1. s \in Styles
      BY <1>7, GetTyped DEF CInv
    <3>2. i \in Nat
      BY <1>2 DEF CInv, IndexOK
    <3>3. i # 0
      BY <1>7 DEF Get, Present
    <3>4. s = given[n]
      BY <1>2, <1>7, <3>3 DEF HInv, HeldInv
    <3> QED
      BY <3>1, <3>2, <3>3, <3>4
  <2>2. /\ \A j \in DOMAIN fontMap : fontMap[j] \in Nat
        /\ CacheOK(fonts, Fonts)
    BY DEF CInv, IndexOK
  <2>3. i \in DOMAIN fontMap => Get(fonts, fontMap[i]) = FontFor[s]
    BY <1>4 DEF MapHeld
  <2> DEFINE t == s
  <2>4. found = FontFound(fontMap, fonts, 0, i, t)
    OBVIOUS
  <2>5. Get(styles, i) = t /\ t \in Styles /\ t = given[n]
    BY <2>1
  <2> HIDE DEF found, n, t
  <2>6. /\ Get(found.cache, found.index) = FontFor[t]
        /\ \A m : Get(fonts, m) # NoRef => Get(found.cache, m) = Get(fonts, m)
        /\ DOMAIN found.map = DOMAIN fontMap \union {i}
        /\ found.map[i] = found.index
        /\ \A j \in DOMAIN fontMap : j # i => found.map[j] = fontMap[j]
    BY <2>2, <2>3, <2>4, <2>5, FontFoundFor
  <2>7. /\ fontIdx' = [fontIdx EXCEPT ![n] = found.index]
        /\ fonts' = found.cache /\ fontMap' = found.map
    BY <1>1, <1>7
  <2>8. FontsHeld'
    <3> SUFFICES ASSUME NEW m \in live, m \notin pending \ {n}, fontIdx'[m] # 0
                 PROVE  given[m] # NoRef /\ Get(fonts', fontIdx'[m]) = FontFor[given[m]]
      BY <1>1, <1>2 DEF FontsHeld
    <3>1. CASE m = n
      <4>1. fontIdx'[m] = found.index
        BY <1>2, <1>3, <2>7, <3>1
      <4> QED
        BY <1>3, <2>5, <2>6, <2>7, <3>1, <4>1
    <3>2. CASE m # n
      <4>1. fontIdx'[m] = fontIdx[m] /\ m \in live \ pending
        BY <1>2, <1>3, <2>7, <3>2
      <4>2. given[m] # NoRef /\ Get(fonts, fontIdx[m]) = FontFor[given[m]]
        BY <1>4, <4>1 DEF FontsHeld
      <4>3. FontFor[given[m]] # NoRef
        BY <1>2, <1>3, <4>2
      <4> QED
        BY <2>6, <2>7, <4>1, <4>2, <4>3
    <3> QED
      BY <3>1, <3>2
  <2>9. MapHeld'
    <3> SUFFICES ASSUME NEW j \in DOMAIN fontMap \union {i}
                 PROVE  /\ j \in Nat \ {0} /\ Get(styles, j) # NoRef
                        /\ Get(fonts', fontMap'[j]) = FontFor[Get(styles, j)]
      BY <1>1, <2>6, <2>7 DEF MapHeld
    <3>1. CASE j = i
      BY <1>3, <2>1, <2>5, <2>6, <2>7, <3>1
    <3>2. CASE j # i
      <4>1. /\ j \in DOMAIN fontMap /\ j \in Nat \ {0} /\ Get(styles, j) # NoRef
            /\ Get(fonts, fontMap[j]) = FontFor[Get(styles, j)]
        BY <1>4, <3>2 DEF MapHeld
      <4>2. FontFor[Get(styles, j)] # NoRef
        <5>1. Get(styles, j) \in Styles
          BY <4>1, GetTyped DEF CInv
        <5> QED
          BY <1>3, <5>1
      <4> QED
        BY <2>6, <2>7, <3>2, <4>1, <4>2
    <3> QED
      BY <3>1, <3>2
  <2> QED
    BY <1>5, <2>8, <2>9
<1> QED
  BY <1>6, <1>7

LEMMA FInvNext ==
    ASSUME CInv, CInv', HInv, HInv', FInv, [Next]_vars, SeesAll
    PROVE  FInv'
<1>1. CASE Create
  BY <1>1, FInvCreate
<1>2. ASSUME NEW n \in live, NEW s \in Styles, InitNodeStyle(n, s) PROVE FInv'
  BY <1>2, FInvInitNodeStyle
<1>3. ASSUME NEW n \in live, NEW s \in Styles, SetStyle(n, s) PROVE FInv'
  BY <1>3, FInvSetStyle
<1>4. ASSUME NEW n \in live, Destroy(n) PROVE FInv'
  BY <1>4 DEF Destroy, FInv
<1>5. CASE DropStyles
  BY <1>5, FInvDropStyles
<1>6. CASE Done \/ Save
  <2>1. /\ phase' = "idle"
        /\ UNCHANGED <<slotVars, indexVars, pending, given, once>>
    BY <1>6 DEF Done, Save
  <2> QED
    BY <2>1 DEF FInv, FontsHeld, MapHeld, MapCovered, slotVars, indexVars
<1>7. CASE Load
  BY <1>7, FInvLoad
<1>8. CASE UpdateLoaded
  BY <1>8, FInvUpdateLoaded
<1>9. CASE UNCHANGED vars
  BY <1>9 DEF FInv, FontsHeld, MapHeld, MapCovered, vars, slotVars, indexVars
<1> QED
  BY <1>1, <1>2, <1>3, <1>4, <1>5, <1>6, <1>7, <1>8, <1>9 DEF Next

(* Under the same condition the font index of an element denotes the font   *)
(* of its style, as long as the font map cannot hold an index that was      *)
(* given up (ldomNode::initNodeFont, updateLoadedStyles).                   *)
THEOREM FontAlwaysOfStyle == Spec /\ [][SeesAll]_vars => []FontIsOfStyle
<1>1. CInv /\ CInv' /\ HInv /\ HInv' /\ FInv /\ [Next]_vars /\ [SeesAll]_vars => FInv'
  <2> SUFFICES ASSUME CInv, CInv', HInv, HInv', FInv, [Next]_vars, [SeesAll]_vars PROVE FInv'
    OBVIOUS
  <2>1. CASE SeesAll
    BY <2>1, FInvNext
  <2>2. CASE UNCHANGED vars
    BY <2>2 DEF FInv, FontsHeld, MapHeld, MapCovered, vars, slotVars, indexVars
  <2> QED
    BY <2>1, <2>2
<1>2. FInv => FontIsOfStyle
  BY DEF FInv, FontsHeld, FontIsOfStyle
<1> QED
  BY <1>1, <1>2, FInvInit, CInvAlways, HInvAlways, PTL DEF Spec

=============================================================================
