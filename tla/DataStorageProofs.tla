-------------------------- MODULE DataStorageProofs --------------------------
(***************************************************************************)
(* Proofs about the storage of texts, elements, rectangles and styles, for *)
(* any records, sizes of chunks and limits of memory.                      *)
(*                                                                         *)
(* The operations pass on a state; what holds of the storage is said of    *)
(* such states, so that it can be followed from one part of an operation   *)
(* to the next.  First sums and the recursive functions of the module,     *)
(* then what each operator does to a state, then the invariants.           *)
(***************************************************************************)
EXTENDS DataStorage, FiniteSetTheorems, SequenceTheorems, WellFoundedInduction, TLAPS

-----------------------------------------------------------------------------
(* Induction and sums *)

\* A set that holds 0, and with each number below n the next one.
LEMMA UpTo ==
    ASSUME NEW n \in Nat, NEW G, 0 \in G, \A m \in 0..(n - 1) : m \in G => m + 1 \in G
    PROVE  \A m \in 0..n : m \in G
<1> DEFINE T == (0..n) \ G
<1> SUFFICES ASSUME T # {} PROVE FALSE
  OBVIOUS
<1>1. \E m \in T : \A k \in T : <<k, m>> \notin OpToRel(<, Nat)
  <2>1. T \subseteq Nat /\ T # {}
    OBVIOUS
  <2> QED
    BY <2>1, NatLessThanWellFounded, WFMin
<1>2. PICK m \in T : \A k \in T : <<k, m>> \notin OpToRel(<, Nat)
  BY <1>1
<1>3. m # 0 /\ m \in 0..n
  BY <1>2
<1>4. m - 1 \in 0..(n - 1) /\ m - 1 < m /\ (m - 1) + 1 = m /\ <<m - 1, m>> \in Nat \X Nat
  BY <1>3
<1>5. m - 1 \notin T
  BY <1>2, <1>4 DEF OpToRel
<1>6. m - 1 \in G
  BY <1>4, <1>5
<1>7. m \in G
  BY <1>4, <1>6
<1> QED
  BY <1>2, <1>7

\* The partial sums of f.
IsSum(s, f, n) == s = [i \in 0..n |-> IF i = 0 THEN 0 ELSE s[i - 1] + f[i]]

LEMMA SumStart == ASSUME NEW f PROVE \E s : IsSum(s, f, 0)
<1> DEFINE s == [i \in 0..0 |-> 0]
<1>1. s = [i \in 0..0 |-> IF i = 0 THEN 0 ELSE s[i - 1] + f[i]]
  OBVIOUS
<1> QED
  BY <1>1 DEF IsSum

LEMMA SumNext ==
    ASSUME NEW f, NEW n \in Nat, NEW s, IsSum(s, f, n)
    PROVE  \E t : IsSum(t, f, n + 1) /\ t[n] = s[n] /\ t[n + 1] = s[n] + f[n + 1]
<1> DEFINE t == [i \in 0..(n + 1) |-> IF i = n + 1 THEN s[n] + f[n + 1] ELSE s[i]]
<1>1. \A i \in 0..n : s[i] = IF i = 0 THEN 0 ELSE s[i - 1] + f[i]
  BY DEF IsSum
<1>2. t[n] = s[n] /\ t[n + 1] = s[n] + f[n + 1]
  OBVIOUS
<1>3. ASSUME NEW i \in 0..(n + 1) PROVE t[i] = IF i = 0 THEN 0 ELSE t[i - 1] + f[i]
  <2>1. CASE i = n + 1
    BY <1>2, <2>1
  <2>2. CASE i # n + 1 /\ i # 0
    <3>1. i \in 0..n /\ i - 1 \in 0..n /\ i - 1 # n + 1 /\ i - 1 \in 0..(n + 1)
      BY <2>2
    <3> QED
      BY <1>1, <2>2, <3>1
  <2>3. CASE i = 0
    BY <1>1, <2>3
  <2> QED
    BY <2>1, <2>2, <2>3
<1>4. t = [i \in 0..(n + 1) |-> t[i]]
  OBVIOUS
<1> HIDE DEF t
<1>5. IsSum(t, f, n + 1)
  BY <1>3, <1>4 DEF IsSum
<1> QED
  BY <1>2, <1>5

LEMMA SumThere == ASSUME NEW f, NEW n \in Nat PROVE \E s : IsSum(s, f, n)
<1> DEFINE G == {m \in Nat : \E s : IsSum(s, f, m)}
<1>1. 0 \in G
  BY SumStart
<1>2. ASSUME NEW m \in 0..(n - 1), m \in G PROVE m + 1 \in G
  BY <1>2, SumNext
<1> HIDE DEF G
<1>3. \A m \in 0..n : m \in G
  BY <1>1, <1>2, UpTo
<1> QED
  BY <1>3 DEF G

LEMMA SumOne ==
    ASSUME NEW f, NEW n \in Nat, NEW s, NEW t, IsSum(s, f, n), IsSum(t, f, n)
    PROVE  s[n] = t[n]
<1>1. \A i \in 0..n : /\ s[i] = IF i = 0 THEN 0 ELSE s[i - 1] + f[i]
                      /\ t[i] = IF i = 0 THEN 0 ELSE t[i - 1] + f[i]
  BY DEF IsSum
<1> DEFINE G == {m \in 0..n : s[m] = t[m]}
<1>2. 0 \in G
  BY <1>1
<1>3. ASSUME NEW m \in 0..(n - 1), m \in G PROVE m + 1 \in G
  <2>1. m + 1 \in 0..n /\ m + 1 # 0 /\ (m + 1) - 1 = m
    OBVIOUS
  <2> QED
    BY <1>1, <1>3, <2>1
<1> HIDE DEF G
<1>4. \A m \in 0..n : m \in G
  BY <1>2, <1>3, UpTo
<1> QED
  BY <1>4 DEF G

LEMMA SumIs == ASSUME NEW f, NEW n \in Nat PROVE \E s : IsSum(s, f, n) /\ SumOf(f, n) = s[n]
<1> DEFINE s == CHOOSE x : IsSum(x, f, n)
<1>1. IsSum(s, f, n)
  BY SumThere
<1>2. SumOf(f, n) = s[n]
  BY DEF SumOf, IsSum
<1> QED
  BY <1>1, <1>2

\* A sum is what its definition says, step by step.
LEMMA SumSteps ==
    ASSUME NEW f
    PROVE  /\ SumOf(f, 0) = 0
           /\ \A n \in Nat : SumOf(f, n + 1) = SumOf(f, n) + f[n + 1]
<1>1. SumOf(f, 0) = 0
  <2>1. PICK s : IsSum(s, f, 0) /\ SumOf(f, 0) = s[0]
    BY SumIs
  <2> QED
    BY <2>1 DEF IsSum
<1>2. ASSUME NEW n \in Nat PROVE SumOf(f, n + 1) = SumOf(f, n) + f[n + 1]
  <2>1. PICK s : IsSum(s, f, n) /\ SumOf(f, n) = s[n]
    BY SumIs
  <2>2. PICK t : IsSum(t, f, n + 1) /\ t[n + 1] = s[n] + f[n + 1]
    BY <2>1, SumNext, SMTT(30)
  <2>3. PICK u : IsSum(u, f, n + 1) /\ SumOf(f, n + 1) = u[n + 1]
    BY SumIs
  <2>4. u[n + 1] = t[n + 1]
    BY <2>2, <2>3, SumOne
  <2> QED
    BY <2>1, <2>2, <2>3, <2>4
<1> QED
  BY <1>1, <1>2

LEMMA SumTyped ==
    ASSUME NEW n \in Nat, NEW f, \A i \in 1..n : f[i] \in Nat
    PROVE  SumOf(f, n) \in Nat
<1> DEFINE G == {m \in 0..n : SumOf(f, m) \in Nat}
<1>1. 0 \in G
  BY SumSteps
<1>2. ASSUME NEW m \in 0..(n - 1), m \in G PROVE m + 1 \in G
  <2>1. m \in Nat /\ m + 1 \in 1..n /\ m + 1 \in 0..n
    OBVIOUS
  <2>2. SumOf(f, m + 1) = SumOf(f, m) + f[m + 1]
    BY <2>1, SumSteps
  <2> QED
    BY <1>2, <2>1, <2>2
<1> HIDE DEF G
<1>3. \A m \in 0..n : m \in G
  BY <1>1, <1>2, UpTo
<1> QED
  BY <1>3 DEF G

\* The sums of numbers, and of others where each is what the first has and a third.
LEMMA SumAdds ==
    ASSUME NEW n \in Nat, NEW f, NEW g, NEW h,
           \A i \in 1..n : f[i] \in Nat /\ g[i] \in Nat /\ h[i] = f[i] + g[i]
    PROVE  SumOf(h, n) = SumOf(f, n) + SumOf(g, n)
<1> DEFINE G == {m \in 0..n : /\ SumOf(f, m) \in Nat /\ SumOf(g, m) \in Nat
                              /\ SumOf(h, m) = SumOf(f, m) + SumOf(g, m)}
<1>1. 0 \in G
  BY SumSteps
<1>2. ASSUME NEW m \in 0..(n - 1), m \in G PROVE m + 1 \in G
  <2>1. m \in Nat /\ m + 1 \in 1..n /\ m + 1 \in 0..n
    OBVIOUS
  <2>2. /\ SumOf(f, m + 1) = SumOf(f, m) + f[m + 1]
        /\ SumOf(g, m + 1) = SumOf(g, m) + g[m + 1]
        /\ SumOf(h, m + 1) = SumOf(h, m) + h[m + 1]
    BY <2>1, SumSteps
  <2>3. f[m + 1] \in Nat /\ g[m + 1] \in Nat /\ h[m + 1] = f[m + 1] + g[m + 1]
    BY <2>1
  <2> QED
    BY <1>2, <2>1, <2>2, <2>3
<1> HIDE DEF G
<1>3. \A m \in 0..n : m \in G
  BY <1>1, <1>2, UpTo
<1> QED
  BY <1>3 DEF G

LEMMA SumZero ==
    ASSUME NEW n \in Nat, NEW f, \A i \in 1..n : f[i] = 0
    PROVE  SumOf(f, n) = 0
<1> DEFINE G == {m \in 0..n : SumOf(f, m) = 0}
<1>1. 0 \in G
  BY SumSteps
<1>2. ASSUME NEW m \in 0..(n - 1), m \in G PROVE m + 1 \in G
  <2>1. m \in Nat /\ m + 1 \in 1..n /\ m + 1 \in 0..n
    OBVIOUS
  <2>2. SumOf(f, m + 1) = SumOf(f, m) + f[m + 1]
    BY <2>1, SumSteps
  <2> QED
    BY <1>2, <2>1, <2>2
<1> HIDE DEF G
<1>3. \A m \in 0..n : m \in G
  BY <1>1, <1>2, UpTo
<1> QED
  BY <1>3 DEF G

LEMMA SumSame ==
    ASSUME NEW n \in Nat, NEW f, NEW g, \A i \in 1..n : f[i] \in Nat /\ g[i] = f[i]
    PROVE  SumOf(g, n) = SumOf(f, n)
<1> DEFINE z == [i \in 1..n |-> 0]
<1>1. SumOf(g, n) = SumOf(f, n) + SumOf(z, n)
  <2>1. \A i \in 1..n : f[i] \in Nat /\ z[i] \in Nat /\ g[i] = f[i] + z[i]
    OBVIOUS
  <2> HIDE DEF z
  <2> QED
    BY <2>1, SumAdds
<1>2. SumOf(z, n) = 0
  <2>1. \A i \in 1..n : z[i] = 0
    OBVIOUS
  <2> HIDE DEF z
  <2> QED
    BY <2>1, SumZero
<1>3. SumOf(f, n) \in Nat
  BY SumTyped
<1> HIDE DEF z
<1> QED
  BY <1>1, <1>2, <1>3

\* All but one are 0.
LEMMA SumSingle ==
    ASSUME NEW n \in Nat, NEW f, NEW k \in 1..n, NEW x \in Nat,
           f[k] = x, \A i \in 1..n : i # k => f[i] = 0
    PROVE  SumOf(f, n) = x
<1> DEFINE G == {m \in 0..n : SumOf(f, m) = IF m >= k THEN x ELSE 0}
<1>1. 0 \in G
  BY SumSteps
<1>2. ASSUME NEW m \in 0..(n - 1), m \in G PROVE m + 1 \in G
  <2>1. m \in Nat /\ m + 1 \in 1..n /\ m + 1 \in 0..n
    OBVIOUS
  <2>2. SumOf(f, m + 1) = SumOf(f, m) + f[m + 1]
    BY <2>1, SumSteps
  <2>3. f[m + 1] = IF m + 1 = k THEN x ELSE 0
    BY <2>1
  <2> QED
    BY <1>2, <2>1, <2>2, <2>3
<1> HIDE DEF G
<1>3. \A m \in 0..n : m \in G
  BY <1>1, <1>2, UpTo
<1>4. n \in 0..n /\ n >= k
  OBVIOUS
<1> QED
  BY <1>3, <1>4 DEF G

\* One of the first n numbers is raised by x.
Raised(f, g, n, k, x) ==
    /\ n \in Nat /\ k \in 1..n /\ x \in Nat /\ g[k] = f[k] + x
    /\ \A i \in 1..n : f[i] \in Nat
    /\ \A i \in 1..n : i # k => g[i] = f[i]

LEMMA SumRaised ==
    ASSUME NEW n, NEW f, NEW g, NEW k, NEW x, Raised(f, g, n, k, x)
    PROVE  SumOf(g, n) = SumOf(f, n) + x
<1> USE DEF Raised
<1> DEFINE z == [i \in 1..n |-> IF i = k THEN x ELSE 0]
<1>1. SumOf(g, n) = SumOf(f, n) + SumOf(z, n)
  <2>1. \A i \in 1..n : f[i] \in Nat /\ z[i] \in Nat /\ g[i] = f[i] + z[i]
    OBVIOUS
  <2> HIDE DEF z
  <2> QED
    BY <2>1, SumAdds
<1>2. SumOf(z, n) = x
  <2>1. z[k] = x /\ \A i \in 1..n : i # k => z[i] = 0
    OBVIOUS
  <2> HIDE DEF z
  <2> QED
    BY <2>1, SumSingle
<1> HIDE DEF z
<1> QED
  BY <1>1, <1>2

-----------------------------------------------------------------------------
(* Records and their room *)

RecordSet == [value : Values \union RawValues \union {Freed}, room : Nat]
RecordLists == Seq(RecordSet)

LEMMA Constants ==
    /\ Sizes \subseteq Nat \ {0} /\ IsFiniteSet(Sizes)
    /\ ChunkSize \in Nat \ {0} /\ MaxSize \in Nat \ {0} /\ MaxChunks \in Nat
    /\ Plenty \in Nat /\ Plenty >= MaxSize
    /\ Zero \in RawValues /\ NoBlock \notin RecordLists
BY DataStorageAssumption DEF RecordSet, RecordLists

\* The room of each place determines the room of all.
LEMMA RoomIs ==
    ASSUME NEW recs \in RecordLists, NEW f, \A k \in 1..Len(recs) : f[k] = recs[k].room
    PROVE  Room(recs) \in Nat /\ Room(recs) = SumOf(f, Len(recs))
<1> DEFINE n == Len(recs)
           g == [k \in DOMAIN recs |-> recs[k].room]
<1>1. n \in Nat /\ DOMAIN recs = 1..n /\ \A k \in 1..n : recs[k] \in RecordSet
  BY LenProperties, ElementOfSeq DEF RecordLists
<1>2. \A k \in 1..n : g[k] \in Nat /\ f[k] = g[k]
  BY <1>1 DEF RecordSet
<1>3. Room(recs) = SumOf(g, n)
  BY DEF Room
<1> HIDE DEF g, n
<1>4. SumOf(g, n) \in Nat
  BY <1>1, <1>2, SumTyped
<1>5. SumOf(f, n) = SumOf(g, n)
  BY <1>1, <1>2, SumSame
<1> QED
  BY <1>3, <1>4, <1>5 DEF n

LEMMA RoomEmpty == << >> \in RecordLists /\ Room(<< >>) = 0
<1>1. << >> \in RecordLists /\ Len(<< >>) = 0
  BY EmptySeq DEF RecordLists
<1> DEFINE f == [k \in 1..0 |-> 0]
<1>2. \A k \in 1..Len(<< >>) : f[k] = << >>[k].room
  BY <1>1
<1> HIDE DEF f
<1>3. Room(<< >>) = SumOf(f, Len(<< >>))
  BY <1>1, <1>2, RoomIs
<1> QED
  BY <1>1, <1>3, SumSteps

LEMMA RoomAppended ==
    ASSUME NEW recs \in RecordLists, NEW rec \in RecordSet
    PROVE  /\ Append(recs, rec) \in RecordLists
           /\ Room(Append(recs, rec)) = Room(recs) + rec.room
<1> DEFINE n == Len(recs)
           all == Append(recs, rec)
           f == [k \in 1..(n + 1) |-> all[k].room]
<1>1. n \in Nat /\ all \in RecordLists /\ Len(all) = n + 1
  BY AppendProperties, LenProperties DEF RecordLists
<1>2. /\ \A k \in 1..n : all[k] = recs[k]
      /\ all[n + 1] = rec
  BY <1>1, AppendProperties DEF RecordLists
<1>3. /\ \A k \in 1..Len(all) : f[k] = all[k].room
      /\ \A k \in 1..n : f[k] = recs[k].room
      /\ f[n + 1] = rec.room
  BY <1>1, <1>2
<1> HIDE DEF f, all
<1>4. Room(all) = SumOf(f, n + 1) /\ Room(recs) = SumOf(f, n)
  BY <1>1, <1>3, RoomIs
<1>5. SumOf(f, n + 1) = SumOf(f, n) + f[n + 1]
  BY <1>1, SumSteps
<1> QED
  BY <1>1, <1>3, <1>4, <1>5 DEF all

LEMMA RoomRevalued ==
    ASSUME NEW recs \in RecordLists, NEW k \in 1..Len(recs),
           NEW v \in Values \union RawValues \union {Freed}
    PROVE  /\ Revalued(recs, k, v) \in RecordLists
           /\ Room(Revalued(recs, k, v)) = Room(recs)
           /\ recs[k].value = v => Revalued(recs, k, v) = recs
<1> DEFINE n == Len(recs)
           all == Revalued(recs, k, v)
           r == Record(v, recs[k].room)
           f == [j \in 1..n |-> all[j].room]
<1>1. n \in Nat /\ DOMAIN recs = 1..n /\ \A j \in 1..n : recs[j] \in RecordSet
  BY LenProperties, ElementOfSeq DEF RecordLists
<1>2. r \in RecordSet /\ r.room = recs[k].room
  BY <1>1 DEF Record, RecordSet
<1>3. all = [recs EXCEPT ![k] = r]
  BY DEF Revalued
<1> HIDE DEF r
<1>4. all \in RecordLists /\ Len(all) = n
  BY <1>1, <1>2, <1>3, ExceptSeq DEF RecordLists
<1>5. \A j \in 1..n : all[j] = IF j = k THEN r ELSE recs[j]
  BY <1>1, <1>3
<1>6. \A j \in 1..n : f[j] = all[j].room /\ f[j] = recs[j].room
  BY <1>2, <1>5
<1> HIDE DEF f, all
<1>7. Room(all) = SumOf(f, n) /\ Room(recs) = SumOf(f, n)
  BY <1>1, <1>4, <1>6, RoomIs
<1>8. ASSUME recs[k].value = v PROVE all = recs
  <2>1. r = recs[k]
    BY <1>1, <1>8 DEF r, Record, RecordSet
  <2>2. recs = [j \in 1..n |-> recs[j]]
    BY <1>1 DEF RecordLists
  <2> QED
    BY <1>1, <1>3, <2>1, <2>2
<1> QED
  BY <1>4, <1>7, <1>8 DEF all

LEMMA RoomZero ==
    /\ ZeroRecords \in RecordLists /\ Len(ZeroRecords) = ChunkSize
    /\ Room(ZeroRecords) = ChunkSize
<1> DEFINE f == [k \in 1..ChunkSize |-> 1]
           r == Record(Zero, 1)
<1>1. r \in RecordSet /\ r.room = 1
  BY Constants DEF Record, RecordSet
<1> HIDE DEF r
<1>2. ZeroRecords = [k \in 1..ChunkSize |-> r]
  BY DEF ZeroRecords, r
<1>3. ZeroRecords \in RecordLists /\ Len(ZeroRecords) = ChunkSize
  BY <1>1, <1>2, Constants, IsASeq, LenProperties DEF RecordLists
<1>4. \A k \in 1..Len(ZeroRecords) : f[k] = ZeroRecords[k].room
  BY <1>1, <1>2, <1>3
<1>5. Room(ZeroRecords) = SumOf(f, ChunkSize)
  <2> HIDE DEF f
  <2> QED
    BY <1>3, <1>4, RoomIs
<1>6. SumOf(f, ChunkSize) = ChunkSize
  <2> DEFINE G == {m \in 0..ChunkSize : SumOf(f, m) = m}
  <2>1. 0 \in G
    BY Constants, SumSteps
  <2>2. ASSUME NEW m \in 0..(ChunkSize - 1), m \in G PROVE m + 1 \in G
    <3>1. m \in Nat /\ m + 1 \in 1..ChunkSize /\ m + 1 \in 0..ChunkSize
      BY Constants
    <3>2. f[m + 1] = 1
      BY <3>1
    <3>3. SumOf(f, m + 1) = SumOf(f, m) + f[m + 1]
      BY <3>1, SumSteps
    <3> QED
      BY <2>2, <3>1, <3>2, <3>3
  <2> HIDE DEF G
  <2>3. \A m \in 0..ChunkSize : m \in G
    BY <2>1, <2>2, Constants, UpTo
  <2> QED
    BY <2>3, Constants DEF G
<1> QED
  BY <1>3, <1>5, <1>6

-----------------------------------------------------------------------------
(* Chunks and their buffers *)

ChunkSet == [recs : RecordLists, loaded : BOOLEAN, size : Nat, used : Nat, saved : BOOLEAN]
ChunkLists == Seq(ChunkSet)

LEMMA ChunkListIs ==
    ASSUME NEW cs \in ChunkLists
    PROVE  /\ Len(cs) \in Nat /\ DOMAIN cs = 1..Len(cs)
           /\ \A i \in 1..Len(cs) : cs[i] \in ChunkSet /\ cs[i].size \in Nat
<1>1. \A i \in 1..Len(cs) : cs[i] \in ChunkSet
  BY ElementOfSeq DEF ChunkLists
<1> QED
  BY <1>1, LenProperties DEF ChunkLists, ChunkSet

\* The buffers counted for each chunk determine the size.
LEMMA SizeIs ==
    ASSUME NEW cs \in ChunkLists, NEW S, NEW f,
           \A i \in 1..Len(cs) : f[i] = IF i \in S THEN cs[i].size ELSE 0
    PROVE  SizeOf(cs, S) \in Nat /\ SizeOf(cs, S) = SumOf(f, Len(cs))
<1> DEFINE n == Len(cs)
           g == [i \in DOMAIN cs |-> IF i \in S THEN cs[i].size ELSE 0]
<1>1. n \in Nat /\ \A i \in 1..n : g[i] \in Nat /\ f[i] = g[i]
  BY ChunkListIs
<1>2. SizeOf(cs, S) = SumOf(g, n)
  BY DEF SizeOf
<1> HIDE DEF g, n
<1>3. SumOf(g, n) \in Nat /\ SumOf(f, n) = SumOf(g, n)
  BY <1>1, SumTyped, SumSame
<1> QED
  BY <1>2, <1>3 DEF n

\* What is counted of one list is what is counted of two others.
LEMMA SizeAdds ==
    ASSUME NEW cs \in ChunkLists, NEW S, NEW ds \in ChunkLists, NEW T,
           NEW es \in ChunkLists, NEW U, Len(ds) = Len(cs), Len(es) = Len(cs),
           \A i \in 1..Len(cs) : (IF i \in S THEN cs[i].size ELSE 0)
                 = (IF i \in T THEN ds[i].size ELSE 0) + (IF i \in U THEN es[i].size ELSE 0)
    PROVE  SizeOf(cs, S) = SizeOf(ds, T) + SizeOf(es, U)
<1> DEFINE n == Len(cs)
           h == [i \in 1..n |-> IF i \in S THEN cs[i].size ELSE 0]
           f == [i \in 1..n |-> IF i \in T THEN ds[i].size ELSE 0]
           g == [i \in 1..n |-> IF i \in U THEN es[i].size ELSE 0]
<1>1. n \in Nat /\ \A i \in 1..n : cs[i].size \in Nat /\ ds[i].size \in Nat /\ es[i].size \in Nat
  BY ChunkListIs
<1>2. \A i \in 1..n : f[i] \in Nat /\ g[i] \in Nat /\ h[i] = f[i] + g[i]
  BY <1>1
<1>3. /\ \A i \in 1..Len(cs) : h[i] = IF i \in S THEN cs[i].size ELSE 0
      /\ \A i \in 1..Len(ds) : f[i] = IF i \in T THEN ds[i].size ELSE 0
      /\ \A i \in 1..Len(es) : g[i] = IF i \in U THEN es[i].size ELSE 0
  OBVIOUS
<1> HIDE DEF f, g, h
<1>4. SumOf(h, n) = SumOf(f, n) + SumOf(g, n)
  BY ONLY <1>1, <1>2, SumAdds
<1>5. SizeOf(cs, S) = SumOf(h, n) /\ SizeOf(ds, T) = SumOf(f, n) /\ SizeOf(es, U) = SumOf(g, n)
  BY <1>3, SizeIs
<1> QED
  BY <1>4, <1>5

LEMMA SizeNone ==
    ASSUME NEW cs \in ChunkLists, NEW S, \A i \in 1..Len(cs) : i \in S => cs[i].size = 0
    PROVE  SizeOf(cs, S) = 0
<1> DEFINE f == [i \in 1..Len(cs) |-> IF i \in S THEN cs[i].size ELSE 0]
<1>1. /\ \A i \in 1..Len(cs) : f[i] = IF i \in S THEN cs[i].size ELSE 0
      /\ \A i \in 1..Len(cs) : f[i] = 0
  OBVIOUS
<1> HIDE DEF f
<1> QED
  BY <1>1, SizeIs, SumZero, ChunkListIs

\* What is counted is what is left of it without the chunks of S, and these.
LEMMA SizeSplit ==
    ASSUME NEW cs \in ChunkLists, NEW ds \in ChunkLists, Len(ds) = Len(cs), NEW S,
           \A i \in 1..Len(cs) : ds[i].size = IF i \in S THEN 0 ELSE cs[i].size
    PROVE  SizeOf(cs, DOMAIN cs) = SizeOf(ds, DOMAIN ds) + SizeOf(cs, S)
<1> DEFINE n == Len(cs)
           h == [i \in 1..n |-> cs[i].size]
           f == [i \in 1..n |-> ds[i].size]
           g == [i \in 1..n |-> IF i \in S THEN cs[i].size ELSE 0]
<1>1. /\ n \in Nat /\ DOMAIN cs = 1..n /\ DOMAIN ds = 1..n /\ Len(ds) = n
      /\ \A i \in 1..n : cs[i].size \in Nat /\ ds[i].size \in Nat
  BY ChunkListIs
<1>2. \A i \in 1..n : f[i] \in Nat /\ g[i] \in Nat /\ h[i] = f[i] + g[i]
  BY <1>1
<1>3. /\ \A i \in 1..Len(cs) : h[i] = IF i \in DOMAIN cs THEN cs[i].size ELSE 0
      /\ \A i \in 1..Len(ds) : f[i] = IF i \in DOMAIN ds THEN ds[i].size ELSE 0
      /\ \A i \in 1..Len(cs) : g[i] = IF i \in S THEN cs[i].size ELSE 0
  BY <1>1
<1> HIDE DEF f, g, h
<1>4. SumOf(h, n) = SumOf(f, n) + SumOf(g, n)
  BY ONLY <1>1, <1>2, SumAdds
<1>5. SizeOf(cs, DOMAIN cs) = SumOf(h, n) /\ SizeOf(cs, S) = SumOf(g, n)
  BY <1>3, SizeIs
<1>6. SizeOf(ds, DOMAIN ds) = SumOf(f, n)
  BY <1>1, <1>3, SizeIs
<1> QED
  BY <1>4, <1>5, <1>6

\* Chunks that take room are in the one set or in the other.
Parts(cs, T, U) ==
    \A i \in 1..Len(cs) : (i \in T => i \notin U) /\ (i \notin T /\ i \notin U => cs[i].size = 0)

LEMMA SizeParts ==
    ASSUME NEW cs \in ChunkLists, NEW T, NEW U, Parts(cs, T, U)
    PROVE  SizeOf(cs, DOMAIN cs) = SizeOf(cs, T) + SizeOf(cs, U)
<1> DEFINE n == Len(cs)
           h == [i \in 1..n |-> cs[i].size]
           f == [i \in 1..n |-> IF i \in T THEN cs[i].size ELSE 0]
           g == [i \in 1..n |-> IF i \in U THEN cs[i].size ELSE 0]
<1>1. n \in Nat /\ DOMAIN cs = 1..n /\ \A i \in 1..n : cs[i].size \in Nat
  BY ChunkListIs
<1>2. \A i \in 1..n : f[i] \in Nat /\ g[i] \in Nat /\ h[i] = f[i] + g[i]
  BY <1>1 DEF Parts
<1>3. /\ \A i \in 1..Len(cs) : h[i] = IF i \in DOMAIN cs THEN cs[i].size ELSE 0
      /\ \A i \in 1..Len(cs) : f[i] = IF i \in T THEN cs[i].size ELSE 0
      /\ \A i \in 1..Len(cs) : g[i] = IF i \in U THEN cs[i].size ELSE 0
  BY <1>1
<1> HIDE DEF f, g, h
<1>4. SumOf(h, n) = SumOf(f, n) + SumOf(g, n)
  BY ONLY <1>1, <1>2, SumAdds
<1>5. /\ SizeOf(cs, DOMAIN cs) = SumOf(h, n)
      /\ SizeOf(cs, T) = SumOf(f, n) /\ SizeOf(cs, U) = SumOf(g, n)
  BY <1>3, SizeIs
<1> QED
  BY <1>4, <1>5

LEMMA SizeTyped == ASSUME NEW cs \in ChunkLists, NEW S PROVE SizeOf(cs, S) \in Nat
<1> DEFINE f == [i \in 1..Len(cs) |-> IF i \in S THEN cs[i].size ELSE 0]
<1>1. \A i \in 1..Len(cs) : f[i] = IF i \in S THEN cs[i].size ELSE 0
  OBVIOUS
<1> HIDE DEF f
<1> QED
  BY <1>1, SizeIs

\* One chunk more is counted, or is larger by x.
LEMMA SizeRaised ==
    ASSUME NEW cs \in ChunkLists, NEW S, NEW ds \in ChunkLists, NEW T, Len(ds) = Len(cs),
           NEW k \in 1..Len(cs), NEW x \in Nat,
           k \in T, ds[k].size = (IF k \in S THEN cs[k].size ELSE 0) + x,
           \A i \in 1..Len(cs) : i # k => (i \in T <=> i \in S) /\ ds[i].size = cs[i].size
    PROVE  SizeOf(ds, T) = SizeOf(cs, S) + x
<1> DEFINE n == Len(cs)
           f == [i \in 1..n |-> IF i \in S THEN cs[i].size ELSE 0]
           g == [i \in 1..n |-> IF i \in T THEN ds[i].size ELSE 0]
<1>0. k \in 1..n /\ x \in Nat
  OBVIOUS
<1>1. n \in Nat /\ \A i \in 1..n : cs[i].size \in Nat /\ ds[i].size \in Nat
  BY ChunkListIs
<1>2. Raised(f, g, n, k, x)
  BY <1>0, <1>1 DEF Raised
<1>3. /\ \A i \in 1..Len(cs) : f[i] = IF i \in S THEN cs[i].size ELSE 0
      /\ \A i \in 1..Len(ds) : g[i] = IF i \in T THEN ds[i].size ELSE 0
  OBVIOUS
<1> HIDE DEF f, g, n
<1>4. SumOf(g, n) = SumOf(f, n) + x
  BY <1>2, SumRaised
<1>5. SizeOf(cs, S) = SumOf(f, n) /\ SizeOf(ds, T) = SumOf(g, n)
  BY <1>3, SizeIs DEF n
<1> QED
  BY <1>4, <1>5

\* The one set has one member more than the other.
Joins(cs, S, T, k) ==
    /\ k \in 1..Len(cs) /\ k \in T /\ k \notin S
    /\ \A i : i # k => (i \in T <=> i \in S)

LEMMA SizeJoined ==
    ASSUME NEW cs \in ChunkLists, NEW S, NEW T, NEW k, Joins(cs, S, T, k)
    PROVE  SizeOf(cs, T) = SizeOf(cs, S) + cs[k].size
<1> DEFINE n == Len(cs)
           f == [i \in 1..n |-> IF i \in S THEN cs[i].size ELSE 0]
           g == [i \in 1..n |-> IF i \in T THEN cs[i].size ELSE 0]
<1>1. n \in Nat /\ \A i \in 1..n : cs[i].size \in Nat
  BY ChunkListIs
<1>2. Raised(f, g, n, k, cs[k].size)
  BY <1>1 DEF Raised, Joins
<1>3. /\ \A i \in 1..Len(cs) : f[i] = IF i \in S THEN cs[i].size ELSE 0
      /\ \A i \in 1..Len(cs) : g[i] = IF i \in T THEN cs[i].size ELSE 0
  OBVIOUS
<1> HIDE DEF f, g, n
<1>4. SumOf(g, n) = SumOf(f, n) + cs[k].size
  BY <1>2, SumRaised
<1>5. SizeOf(cs, S) = SumOf(f, n) /\ SizeOf(cs, T) = SumOf(g, n)
  BY <1>3, SizeIs DEF n
<1> QED
  BY <1>4, <1>5

LEMMA SizeAppended ==
    ASSUME NEW cs \in ChunkLists, NEW c \in ChunkSet
    PROVE  /\ Append(cs, c) \in ChunkLists /\ Len(Append(cs, c)) = Len(cs) + 1
           /\ \A i \in 1..Len(cs) : Append(cs, c)[i] = cs[i]
           /\ Append(cs, c)[Len(cs) + 1] = c
           /\ SizeOf(Append(cs, c), DOMAIN Append(cs, c)) = SizeOf(cs, DOMAIN cs) + c.size
<1> DEFINE n == Len(cs)
           ds == Append(cs, c)
           f == [i \in 1..(n + 1) |-> ds[i].size]
<1>1. n \in Nat /\ ds \in ChunkLists /\ Len(ds) = n + 1
  BY AppendProperties, LenProperties DEF ChunkLists
<1>2. (\A i \in 1..n : ds[i] = cs[i]) /\ ds[n + 1] = c
  BY <1>1, AppendProperties DEF ChunkLists
<1>3. DOMAIN ds = 1..(n + 1) /\ DOMAIN cs = 1..n
  BY <1>1, ChunkListIs
<1>4. /\ \A i \in 1..Len(ds) : f[i] = IF i \in DOMAIN ds THEN ds[i].size ELSE 0
      /\ \A i \in 1..Len(cs) : f[i] = IF i \in DOMAIN cs THEN cs[i].size ELSE 0
      /\ f[n + 1] = c.size
  BY <1>1, <1>2, <1>3
<1> HIDE DEF f, ds
<1>5. SizeOf(ds, DOMAIN ds) = SumOf(f, n + 1) /\ SizeOf(cs, DOMAIN cs) = SumOf(f, n)
  BY <1>1, <1>4, SizeIs
<1>6. SumOf(f, n + 1) = SumOf(f, n) + f[n + 1]
  BY <1>1, SumSteps
<1> QED
  BY <1>1, <1>2, <1>4, <1>5, <1>6 DEF ds

-----------------------------------------------------------------------------
(* The recency list *)

\* A list that names nothing twice.
Distinct(list) ==
    /\ list \in Seq(Nat)
    /\ \A j, k \in 1..Len(list) : list[j] = list[k] => j = k

Listed(list, i) == \E j \in 1..Len(list) : list[j] = i

LEMMA ListIs ==
    ASSUME NEW list \in Seq(Nat)
    PROVE  /\ Len(list) \in Nat /\ DOMAIN list = 1..Len(list)
           /\ \A j \in 1..Len(list) : list[j] \in Nat
BY LenProperties, ElementOfSeq

LEMMA PlaceIs ==
    ASSUME NEW list \in Seq(Nat), NEW i
    PROVE  /\ Place(list, i) \in 1..(Len(list) + 1)
           /\ Place(list, i) <= Len(list) => list[Place(list, i)] = i
           /\ Place(list, i) = Len(list) + 1 => \A j \in 1..Len(list) : list[j] # i
BY ListIs DEF Place

\* What is put in front is there, and what was there is somewhere.
LEMMA ToFrontIs ==
    ASSUME NEW list, Distinct(list), NEW i \in Nat
    PROVE  /\ Distinct(ToFront(list, i))
           /\ Len(ToFront(list, i)) >= 1 /\ ToFront(list, i)[1] = i
           /\ \A x : Listed(ToFront(list, i), x) <=> x = i \/ Listed(list, x)
<1> DEFINE p == Place(list, i)
           n == Len(list)
           m == IF p > n THEN p ELSE n
           new == ToFront(list, i)
<1>1. /\ list \in Seq(Nat) /\ n \in Nat /\ \A j \in 1..n : list[j] \in Nat
      /\ \A j, k \in 1..n : list[j] = list[k] => j = k
  BY ListIs DEF Distinct
<1>2. /\ p \in 1..(n + 1) /\ (p <= n => list[p] = i)
      /\ p = n + 1 => \A j \in 1..n : list[j] # i
  BY <1>1, PlaceIs
<1>3. new = [j \in 1..m |-> IF j = 1 THEN i ELSE IF j <= p THEN list[j - 1] ELSE list[j]]
  BY DEF ToFront
<1> HIDE DEF p, n, new
<1>4. m \in Nat /\ m >= 1 /\ m >= n /\ m <= n + 1 /\ (p <= n => m = n)
  BY <1>1, <1>2
<1>5. \A j \in 1..m : (j # 1 /\ j <= p => j - 1 \in 1..n) /\ (j > p => j \in 1..n)
  BY <1>1, <1>2, <1>4
<1>6. \A j \in 1..m : new[j] = IF j = 1 THEN i ELSE IF j <= p THEN list[j - 1] ELSE list[j]
  BY <1>3
<1>7. \A j \in 1..m : new[j] \in Nat
  BY <1>1, <1>2, <1>4, <1>5, <1>6
<1>8. new \in Seq(Nat) /\ Len(new) = m
  <2>1. new = [j \in 1..m |-> new[j]]
    BY <1>3
  <2>2. DOMAIN new = 1..m
    BY <1>3
  <2> HIDE DEF m
  <2>3. new \in [1..m -> Nat]
    BY <1>7, <2>1
  <2>4. new \in Seq(Nat)
    BY <1>4, <2>3
  <2> QED
    BY <1>4, <2>2, <2>4, LenProperties
<1>9. ASSUME NEW j \in 1..m, NEW k \in 1..m, new[j] = new[k], j < k PROVE FALSE
  <2>1. CASE j = 1
    <3>1. new[k] = i /\ k # 1
      BY <1>6, <1>9, <2>1
    <3>2. CASE k <= p
      <4>1. k - 1 \in 1..n /\ list[k - 1] = i /\ k - 1 # p
        BY <1>5, <1>6, <3>1, <3>2, <1>2
      <4> QED
        BY <1>1, <1>2, <4>1
    <3>3. CASE k > p
      <4>1. k \in 1..n /\ list[k] = i /\ k # p
        BY <1>2, <1>5, <1>6, <3>1, <3>3
      <4> QED
        BY <1>1, <1>2, <4>1
    <3> QED
      BY <1>2, <3>2, <3>3
  <2>2. CASE j # 1 /\ k <= p
    <3>1. j - 1 \in 1..n /\ k - 1 \in 1..n /\ list[j - 1] = list[k - 1] /\ j - 1 # k - 1
      BY <1>2, <1>5, <1>6, <1>9, <2>2
    <3> QED
      BY <1>1, <3>1
  <2>3. CASE j # 1 /\ j <= p /\ k > p
    <3>1. j - 1 \in 1..n /\ k \in 1..n /\ list[j - 1] = list[k] /\ j - 1 # k
      BY <1>2, <1>5, <1>6, <1>9, <2>3
    <3> QED
      BY <1>1, <3>1
  <2>4. CASE j > p
    <3>1. j \in 1..n /\ k \in 1..n /\ list[j] = list[k] /\ j # k /\ j # 1 /\ k # 1
      BY <1>2, <1>5, <1>6, <1>9, <2>4
    <3> QED
      BY <1>1, <3>1
  <2> QED
    BY <1>2, <2>1, <2>2, <2>3, <2>4
<1>10. \A j, k \in 1..m : new[j] = new[k] => j = k
  <2> SUFFICES ASSUME NEW j \in 1..m, NEW k \in 1..m, new[j] = new[k] PROVE j = k
    OBVIOUS
  <2>1. ~(j < k)
    BY <1>9
  <2>2. ~(k < j)
    BY <1>9
  <2> QED
    BY <1>4, <2>1, <2>2
<1>11. Distinct(new) /\ Len(new) >= 1 /\ new[1] = i
  BY <1>4, <1>6, <1>8, <1>10 DEF Distinct
<1>12. ASSUME NEW x, Listed(new, x) PROVE x = i \/ Listed(list, x)
  <2>1. PICK j \in 1..m : new[j] = x
    BY <1>8, <1>12 DEF Listed
  <2> QED
    BY <1>5, <1>6, <2>1 DEF Listed, n
<1>13. ASSUME NEW x, Listed(list, x), x # i PROVE Listed(new, x)
  <2>1. PICK j \in 1..n : list[j] = x
    BY <1>13 DEF Listed, n
  <2>2. CASE j < p
    <3>1. j + 1 \in 1..m /\ j + 1 # 1 /\ j + 1 <= p /\ (j + 1) - 1 = j
      BY <1>2, <1>4, <1>1, <2>2
    <3>2. new[j + 1] = x
      BY <1>6, <2>1, <3>1
    <3> QED
      BY <1>8, <3>1, <3>2 DEF Listed
  <2>3. CASE j > p
    <3>1. j \in 1..m /\ j # 1 /\ ~(j <= p)
      BY <1>2, <1>4, <1>1, <2>3
    <3>2. new[j] = x
      BY <1>6, <2>1, <3>1
    <3> QED
      BY <1>8, <3>1, <3>2 DEF Listed
  <2>4. j # p
    BY <1>1, <1>2, <1>13, <2>1
  <2> QED
    BY <1>1, <1>2, <2>2, <2>3, <2>4
<1>14. Listed(new, i)
  BY <1>4, <1>8, <1>11 DEF Listed
<1> QED
  BY <1>11, <1>12, <1>13, <1>14 DEF new

\* The beginning of a list.
Begins(h, list) ==
    /\ h \in Seq(Nat) /\ Len(h) <= Len(list)
    /\ \A j \in 1..Len(h) : h[j] = list[j]

\* A beginning stays one when both put the same in front.
LEMMA ToFrontBegins ==
    ASSUME NEW list, Distinct(list), NEW h, Begins(h, list), NEW i \in Nat
    PROVE  Begins(ToFront(h, i), ToFront(list, i))
<1> DEFINE p == Place(list, i)
           q == Place(h, i)
           n == Len(list)
           l == Len(h)
           m == IF p > n THEN p ELSE n
           o == IF q > l THEN q ELSE l
           new == ToFront(list, i)
           front == ToFront(h, i)
<1>1. /\ list \in Seq(Nat) /\ n \in Nat /\ \A j \in 1..n : list[j] \in Nat
      /\ \A j, k \in 1..n : list[j] = list[k] => j = k
      /\ h \in Seq(Nat) /\ l \in Nat /\ \A j \in 1..l : h[j] = list[j]
      /\ l <= n
  BY ListIs DEF Distinct, Begins
<1>2. /\ p \in 1..(n + 1) /\ (p <= n => list[p] = i)
      /\ p = n + 1 => \A j \in 1..n : list[j] # i
      /\ q \in 1..(l + 1) /\ (q <= l => h[q] = i)
      /\ q = l + 1 => \A j \in 1..l : h[j] # i
  BY <1>1, PlaceIs
<1>3. /\ new = [j \in 1..m |-> IF j = 1 THEN i ELSE IF j <= p THEN list[j - 1] ELSE list[j]]
      /\ front = [j \in 1..o |-> IF j = 1 THEN i ELSE IF j <= q THEN h[j - 1] ELSE h[j]]
  BY DEF ToFront
<1> HIDE DEF p, q, n, l, new, front
<1>4. (q <= l => p = q) /\ (q > l => p > l /\ q = l + 1)
  BY <1>1, <1>2
<1>5. /\ m \in Nat /\ o \in Nat /\ o <= m /\ o <= l + 1
      /\ \A j \in 1..o : /\ j \in 1..m
                         /\ j # 1 /\ j <= q => j - 1 \in 1..l
                         /\ j > q => j \in 1..l
                         /\ j <= q <=> j <= p
  BY <1>1, <1>2, <1>4
<1>6. \A j \in 1..o : front[j] = new[j]
  <2> HIDE DEF m, o
  <2> SUFFICES ASSUME NEW j \in 1..o PROVE front[j] = new[j]
    OBVIOUS
  <2>1. /\ front[j] = IF j = 1 THEN i ELSE IF j <= q THEN h[j - 1] ELSE h[j]
        /\ new[j] = IF j = 1 THEN i ELSE IF j <= p THEN list[j - 1] ELSE list[j]
    BY <1>3, <1>5
  <2>2. CASE j = 1
    BY <2>1, <2>2
  <2>3. CASE j # 1 /\ j <= q
    <3>1. j - 1 \in 1..l /\ j <= p
      BY <1>5, <2>3
    <3>2. h[j - 1] = list[j - 1]
      BY <1>1, <3>1
    <3> QED
      BY <2>1, <2>3, <3>1, <3>2
  <2>4. CASE j # 1 /\ ~(j <= q)
    <3>1. j > q
      BY <1>2, <1>5, <2>4
    <3>2. j \in 1..l /\ ~(j <= p)
      BY <1>5, <2>4, <3>1
    <3>3. h[j] = list[j]
      BY <1>1, <3>2
    <3> QED
      BY <2>1, <2>4, <3>2, <3>3
  <2> QED
    BY <2>2, <2>3, <2>4
<1>7. Distinct(new) /\ DOMAIN new = 1..m /\ DOMAIN front = 1..o
  BY <1>3, ToFrontIs DEF new
<1>8. new \in Seq(Nat) /\ Len(new) = m /\ \A j \in 1..m : new[j] \in Nat
  BY <1>5, <1>7, LenProperties, ListIs DEF Distinct
<1>9. front \in Seq(Nat) /\ Len(front) = o
  <2>1. \A j \in 1..o : front[j] \in Nat
    BY <1>5, <1>6, <1>8
  <2>2. front = [j \in 1..o |-> front[j]]
    BY <1>3
  <2> HIDE DEF o
  <2>3. front \in [1..o -> Nat]
    BY <2>1, <2>2
  <2>4. front \in Seq(Nat)
    BY <1>5, <2>3
  <2> QED
    BY <1>5, <1>7, <2>4, LenProperties
<1> QED
  BY <1>5, <1>6, <1>8, <1>9 DEF Begins, new, front

-----------------------------------------------------------------------------
(* States *)

Blocks == [1..MaxChunks -> RecordLists \union {NoBlock}]
CacheSet == [open : BOOLEAN, blocks : Blocks]
StateSet == [chunks : ChunkLists, recent : Seq(Nat), active : Nat, total : Int, cache : CacheSet]

\* A chunk that holds the records r, in memory or in the block b of the cache file, in a
\* buffer no larger than big.
Holds(c, b, r, big) ==
    /\ r \in RecordLists /\ c.used = Room(r) /\ Room(r) <= big
    /\ c.loaded => c.recs = r /\ Room(r) <= c.size /\ c.size <= big
    /\ c.loaded /\ c.saved => b = r
    /\ ~c.loaded => c.recs = << >> /\ c.size = 0
    /\ ~c.loaded /\ c.saved => b = r

\* A chunk that got no buffer yet.
Fresh(c) == ~c.loaded /\ ~c.saved

ChunksHold(st, con, big) ==
    /\ con \in Seq(RecordLists) /\ Len(con) = Len(st.chunks) /\ Len(con) <= MaxChunks
    /\ \A i \in 1..Len(con) : Holds(st.chunks[i], st.cache.blocks[i], con[i], big)
    /\ \A i \in 1..Len(con) : Fresh(st.chunks[i]) => i = st.active /\ con[i] = << >>

\* What is in memory is in the recency list.
RecentSound(st) ==
    /\ Distinct(st.recent)
    /\ \A j \in 1..Len(st.recent) : st.recent[j] \in 1..Len(st.chunks)
    /\ \A i \in 1..Len(st.chunks) : st.chunks[i].loaded => Listed(st.recent, i)
    /\ st.active <= Len(st.chunks)

TotalExact(st) == st.total = SizeOf(st.chunks, DOMAIN st.chunks)

Sound(st, con, big) ==
    /\ st \in StateSet /\ big \in Nat
    /\ ChunksHold(st, con, big) /\ RecentSound(st) /\ TotalExact(st)

LEMMA StateIs ==
    ASSUME NEW st, st \in StateSet
    PROVE  /\ st.chunks \in ChunkLists /\ st.recent \in Seq(Nat) /\ st.active \in Nat
           /\ st.total \in Int /\ st.cache \in CacheSet
           /\ st.cache.open \in BOOLEAN /\ st.cache.blocks \in Blocks
           /\ Len(st.chunks) \in Nat /\ DOMAIN st.chunks = 1..Len(st.chunks)
           /\ \A i \in 1..Len(st.chunks) :
                 /\ st.chunks[i] \in ChunkSet
                 /\ st.chunks[i].recs \in RecordLists /\ st.chunks[i].size \in Nat
                 /\ st.chunks[i].used \in Nat
                 /\ st.chunks[i].loaded \in BOOLEAN /\ st.chunks[i].saved \in BOOLEAN
<1>1. /\ st.chunks \in ChunkLists /\ st.recent \in Seq(Nat) /\ st.active \in Nat
      /\ st.total \in Int /\ st.cache \in CacheSet
  BY DEF StateSet
<1>2. st.cache.open \in BOOLEAN /\ st.cache.blocks \in Blocks
  BY <1>1 DEF CacheSet
<1>3. /\ Len(st.chunks) \in Nat /\ DOMAIN st.chunks = 1..Len(st.chunks)
      /\ \A i \in 1..Len(st.chunks) : st.chunks[i] \in ChunkSet
  BY <1>1, ChunkListIs
<1>4. \A c \in ChunkSet : /\ c.recs \in RecordLists /\ c.size \in Nat /\ c.used \in Nat
                          /\ c.loaded \in BOOLEAN /\ c.saved \in BOOLEAN
  BY DEF ChunkSet
<1> QED
  BY <1>1, <1>2, <1>3, <1>4

\* A list of chunks with every chunk replaced.
LEMMA ChunksMapped ==
    ASSUME NEW cs \in ChunkLists, NEW ds, DOMAIN ds = DOMAIN cs,
           ds = [i \in DOMAIN ds |-> ds[i]],
           \A i \in 1..Len(cs) : ds[i] \in ChunkSet
    PROVE  ds \in ChunkLists /\ Len(ds) = Len(cs)
<1>1. Len(cs) \in Nat /\ DOMAIN ds = 1..Len(cs)
  BY ChunkListIs
<1>2. ds \in [1..Len(cs) -> ChunkSet]
  BY <1>1
<1>3. ds \in Seq(ChunkSet)
  BY <1>1, <1>2
<1> QED
  BY <1>1, <1>3, LenProperties DEF ChunkLists

Chosen(st, S) == S \subseteq 1..Len(st.chunks)

\* The chunks of S that are written to the cache file.
Out(st, S) == {i \in S : st.chunks[i].loaded /\ ~st.chunks[i].saved /\ st.cache.open}

LEMMA WrittenOutIs ==
    ASSUME NEW st, st \in StateSet, NEW S, Chosen(st, S)
    PROVE  /\ WrittenOut(st, S) \in StateSet
           /\ WrittenOut(st, S).recent = st.recent /\ WrittenOut(st, S).active = st.active
           /\ WrittenOut(st, S).total = st.total
           /\ WrittenOut(st, S).cache.open = st.cache.open
           /\ Len(WrittenOut(st, S).chunks) = Len(st.chunks)
           /\ \A i \in 1..Len(st.chunks) :
                 /\ WrittenOut(st, S).chunks[i].recs = st.chunks[i].recs
                 /\ WrittenOut(st, S).chunks[i].size = st.chunks[i].size
                 /\ WrittenOut(st, S).chunks[i].used = st.chunks[i].used
                 /\ WrittenOut(st, S).chunks[i].loaded = st.chunks[i].loaded
                 /\ i \in Out(st, S) => WrittenOut(st, S).chunks[i].saved
                 /\ i \notin Out(st, S) => WrittenOut(st, S).chunks[i] = st.chunks[i]
           /\ \A i \in 1..MaxChunks :
                 WrittenOut(st, S).cache.blocks[i] =
                    IF i \in Out(st, S) THEN st.chunks[i].recs ELSE st.cache.blocks[i]
<1> DEFINE out == Out(st, S)
           new == WrittenOut(st, S)
           cs == [i \in DOMAIN st.chunks |->
                    IF i \in out THEN [st.chunks[i] EXCEPT !.saved = TRUE] ELSE st.chunks[i]]
           bs == [i \in DOMAIN st.cache.blocks |->
                    IF i \in out THEN st.chunks[i].recs ELSE st.cache.blocks[i]]
           ca == [open |-> st.cache.open, blocks |-> bs]
<1>1. new = [st EXCEPT !.chunks = cs, !.cache = ca]
  BY DEF WrittenOut, Out
<1>2. /\ DOMAIN cs = DOMAIN st.chunks /\ cs = [i \in DOMAIN cs |-> cs[i]]
      /\ \A i \in 1..Len(st.chunks) :
            cs[i] = IF i \in out THEN [st.chunks[i] EXCEPT !.saved = TRUE] ELSE st.chunks[i]
  BY StateIs
<1>3. ASSUME NEW c \in ChunkSet
      PROVE  /\ [c EXCEPT !.saved = TRUE] \in ChunkSet
             /\ [c EXCEPT !.saved = TRUE].recs = c.recs
             /\ [c EXCEPT !.saved = TRUE].size = c.size
             /\ [c EXCEPT !.saved = TRUE].used = c.used
             /\ [c EXCEPT !.saved = TRUE].loaded = c.loaded
             /\ [c EXCEPT !.saved = TRUE].saved
  <2>1. [c EXCEPT !.saved = TRUE] \in ChunkSet
    BY DEF ChunkSet
  <2>2. /\ [c EXCEPT !.saved = TRUE].recs = c.recs
        /\ [c EXCEPT !.saved = TRUE].size = c.size
        /\ [c EXCEPT !.saved = TRUE].used = c.used
        /\ [c EXCEPT !.saved = TRUE].saved
    BY DEF ChunkSet
  <2>3. [c EXCEPT !.saved = TRUE].loaded = c.loaded
    BY DEF ChunkSet
  <2> QED
    BY <2>1, <2>2, <2>3
<1>4. DOMAIN st.cache.blocks = 1..MaxChunks
  BY StateIs DEF Blocks
<1>5. \A i \in 1..MaxChunks :
          bs[i] = IF i \in out THEN st.chunks[i].recs ELSE st.cache.blocks[i]
  BY <1>4
<1> HIDE DEF cs, bs
<1>6. \A i \in 1..Len(st.chunks) : cs[i] \in ChunkSet
  <2> SUFFICES ASSUME NEW i \in 1..Len(st.chunks) PROVE cs[i] \in ChunkSet
    OBVIOUS
  <2>1. st.chunks[i] \in ChunkSet
    BY StateIs
  <2>2. cs[i] = [st.chunks[i] EXCEPT !.saved = TRUE] \/ cs[i] = st.chunks[i]
    BY <1>2
  <2> QED
    BY <1>3, <2>1, <2>2
<1>7. cs \in ChunkLists /\ Len(cs) = Len(st.chunks)
  BY <1>2, <1>6, StateIs, ChunksMapped
<1>8. bs \in Blocks
  <2>1. \A i \in 1..MaxChunks : bs[i] \in RecordLists \union {NoBlock}
    BY <1>5, StateIs DEF Out, Blocks, Chosen
  <2>2. bs = [i \in 1..MaxChunks |-> bs[i]]
    BY <1>4 DEF bs
  <2> QED
    BY <2>1, <2>2 DEF Blocks
<1>9. ca \in CacheSet /\ ca.open = st.cache.open /\ ca.blocks = bs
  <2>1. st.cache.open \in BOOLEAN
    BY StateIs
  <2>2. ca \in CacheSet
    BY <1>8, <2>1 DEF CacheSet
  <2> QED
    BY <2>1, <2>2
<1> HIDE DEF ca, out
<1>10. new \in StateSet
  BY <1>1, <1>7, <1>9, Zenon DEF StateSet
<1>11. /\ new.chunks = cs /\ new.recent = st.recent /\ new.active = st.active
       /\ new.total = st.total /\ new.cache = ca
  BY <1>1 DEF StateSet
<1> HIDE DEF new
<1>12. ASSUME NEW i \in 1..Len(st.chunks)
       PROVE  /\ new.chunks[i].recs = st.chunks[i].recs
              /\ new.chunks[i].size = st.chunks[i].size
              /\ new.chunks[i].used = st.chunks[i].used
              /\ new.chunks[i].loaded = st.chunks[i].loaded
              /\ i \in out => new.chunks[i].saved
              /\ i \notin out => new.chunks[i] = st.chunks[i]
  <2>1. st.chunks[i] \in ChunkSet
    BY StateIs
  <2>2. CASE i \in out
    <3>1. new.chunks[i] = [st.chunks[i] EXCEPT !.saved = TRUE]
      BY <1>2, <1>11, <2>2
    <3> QED
      BY <1>3, <2>1, <2>2, <3>1
  <2>3. CASE i \notin out
    BY <1>2, <1>11, <2>3
  <2> QED
    BY <2>2, <2>3
<1>13. new.cache.open = st.cache.open /\ Len(new.chunks) = Len(st.chunks)
  BY <1>7, <1>9, <1>11
<1>14. \A i \in 1..MaxChunks :
          new.cache.blocks[i] = IF i \in out THEN st.chunks[i].recs ELSE st.cache.blocks[i]
  BY <1>5, <1>9, <1>11
<1> QED
  BY <1>10, <1>11, <1>12, <1>13, <1>14 DEF new, out

\* What is written is what is in memory.
LEMMA WrittenOutSound ==
    ASSUME NEW st, NEW con, NEW big, Sound(st, con, big), NEW S, Chosen(st, S)
    PROVE  Sound(WrittenOut(st, S), con, big)
<1> DEFINE new == WrittenOut(st, S)
           n == Len(st.chunks)
<1>1. st \in StateSet /\ ChunksHold(st, con, big) /\ RecentSound(st) /\ TotalExact(st) /\ big \in Nat
  BY DEF Sound
<1>2. /\ new \in StateSet /\ new.recent = st.recent /\ new.active = st.active
      /\ new.total = st.total /\ Len(new.chunks) = n
      /\ \A i \in 1..n :
            /\ new.chunks[i].recs = st.chunks[i].recs /\ new.chunks[i].size = st.chunks[i].size
            /\ new.chunks[i].used = st.chunks[i].used
            /\ new.chunks[i].loaded = st.chunks[i].loaded
            /\ i \in Out(st, S) => new.chunks[i].saved
            /\ i \notin Out(st, S) => new.chunks[i] = st.chunks[i]
      /\ \A i \in 1..MaxChunks :
            new.cache.blocks[i] =
               IF i \in Out(st, S) THEN st.chunks[i].recs ELSE st.cache.blocks[i]
  BY <1>1, WrittenOutIs
<1>3. n \in Nat /\ n = Len(con) /\ n <= MaxChunks
  BY <1>1, StateIs DEF ChunksHold
<1> HIDE DEF new, n
<1>4. ASSUME NEW i \in 1..n
      PROVE  /\ Holds(new.chunks[i], new.cache.blocks[i], con[i], big)
             /\ Fresh(new.chunks[i]) => Fresh(st.chunks[i])
  <2>1. i \in 1..MaxChunks /\ Holds(st.chunks[i], st.cache.blocks[i], con[i], big)
    BY <1>1, <1>3, Constants DEF ChunksHold
  <2>2. CASE i \in Out(st, S)
    <3>1. st.chunks[i].loaded /\ new.chunks[i].loaded /\ new.chunks[i].saved
      BY <1>2, <2>2 DEF Out
    <3>2. new.cache.blocks[i] = st.chunks[i].recs
      BY <1>2, <2>1, <2>2
    <3> QED
      BY <1>2, <2>1, <3>1, <3>2 DEF Holds, Fresh
  <2>3. CASE i \notin Out(st, S)
    BY <1>2, <2>1, <2>3
  <2> QED
    BY <2>2, <2>3
<1>5. ChunksHold(new, con, big)
  BY <1>1, <1>2, <1>3, <1>4 DEF ChunksHold
<1>6. RecentSound(new)
  <2>1. \A i \in 1..n : new.chunks[i].loaded => Listed(st.recent, i)
    BY <1>1, <1>2 DEF RecentSound, n
  <2> QED
    BY <1>1, <1>2, <2>1 DEF RecentSound, n
<1>7. TotalExact(new)
  <2>1. /\ st.chunks \in ChunkLists /\ new.chunks \in ChunkLists
        /\ DOMAIN st.chunks = 1..n /\ DOMAIN new.chunks = 1..n
    BY <1>1, <1>2, StateIs DEF n
  <2>2. SizeOf(new.chunks, DOMAIN new.chunks) = SizeOf(st.chunks, DOMAIN st.chunks) + SizeOf(st.chunks, {})
    <3>1. \A i \in 1..n : st.chunks[i].size \in Nat /\ new.chunks[i].size = st.chunks[i].size
      BY <1>1, <1>2, StateIs DEF n
    <3>2. \A i \in 1..Len(new.chunks) :
             (IF i \in DOMAIN new.chunks THEN new.chunks[i].size ELSE 0)
               = (IF i \in DOMAIN st.chunks THEN st.chunks[i].size ELSE 0)
                 + (IF i \in {} THEN st.chunks[i].size ELSE 0)
      BY <1>2, <2>1, <3>1
    <3> QED
      BY <1>2, <2>1, <3>2, SizeAdds DEF n
  <2>3. SizeOf(st.chunks, {}) = 0 /\ SizeOf(st.chunks, DOMAIN st.chunks) \in Nat
    BY <2>1, SizeNone, SizeTyped
  <2> QED
    BY <1>1, <1>2, <2>2, <2>3 DEF TotalExact
<1> QED
  BY <1>1, <1>2, <1>5, <1>6, <1>7 DEF Sound, new

LEMMA UnloadedIs ==
    ASSUME NEW c \in ChunkSet
    PROVE  /\ Unloaded(c) \in ChunkSet
           /\ Unloaded(c).recs = << >> /\ Unloaded(c).size = 0 /\ Unloaded(c).used = c.used
           /\ ~Unloaded(c).loaded
           /\ Unloaded(c).saved <=> c.saved
<1>1. << >> \in RecordLists
  BY RoomEmpty
<1>2. Unloaded(c) \in ChunkSet
  BY <1>1 DEF Unloaded, ChunkSet
<1>3. Unloaded(c).recs = << >> /\ Unloaded(c).size = 0 /\ Unloaded(c).used = c.used
  BY DEF Unloaded, ChunkSet
<1>4. ~Unloaded(c).loaded
  BY DEF Unloaded, ChunkSet
<1>5. Unloaded(c).saved <=> c.saved
  BY DEF Unloaded, ChunkSet
<1> QED
  BY <1>2, <1>3, <1>4, <1>5

LEMMA SwappedIs ==
    ASSUME NEW st, st \in StateSet, NEW S, Chosen(st, S)
    PROVE  /\ Swapped(st, S) \in StateSet
           /\ Swapped(st, S).recent = st.recent /\ Swapped(st, S).active = st.active
           /\ Swapped(st, S).total = st.total - SizeOf(st.chunks, S)
           /\ Swapped(st, S).cache = WrittenOut(st, S).cache
           /\ Len(Swapped(st, S).chunks) = Len(st.chunks)
           /\ \A i \in 1..Len(st.chunks) :
                 /\ i \notin S => Swapped(st, S).chunks[i] = st.chunks[i]
                 /\ i \in S => Swapped(st, S).chunks[i] = Unloaded(WrittenOut(st, S).chunks[i])
<1> DEFINE out == WrittenOut(st, S)
           new == Swapped(st, S)
           n == Len(st.chunks)
           cs == [i \in DOMAIN out.chunks |->
                    IF i \in S THEN Unloaded(out.chunks[i]) ELSE out.chunks[i]]
           t == st.total - SizeOf(st.chunks, S)
<1>1. /\ out \in StateSet /\ out.recent = st.recent /\ out.active = st.active
      /\ out.total = st.total /\ Len(out.chunks) = n
      /\ \A i \in 1..n : i \notin Out(st, S) => out.chunks[i] = st.chunks[i]
  BY WrittenOutIs
<1>2. DOMAIN out.chunks = 1..n /\ \A i \in 1..n : out.chunks[i] \in ChunkSet
  BY <1>1, StateIs
<1>3. t \in Int
  <2>1. st.chunks \in ChunkLists /\ st.total \in Int
    BY StateIs
  <2>2. SizeOf(st.chunks, S) \in Nat
    BY <2>1, SizeTyped
  <2> QED
    BY <2>1, <2>2
<1>4. new = [out EXCEPT !.chunks = cs, !.total = t]
  BY <1>1 DEF Swapped
<1>5. cs \in ChunkLists /\ Len(cs) = n
  <2>1. out.chunks \in ChunkLists
    BY <1>1, StateIs
  <2>2. \A i \in 1..Len(out.chunks) : cs[i] \in ChunkSet
    BY <1>1, <1>2, UnloadedIs
  <2>3. DOMAIN cs = DOMAIN out.chunks /\ cs = [i \in DOMAIN cs |-> cs[i]]
    OBVIOUS
  <2> HIDE DEF cs
  <2> QED
    BY <1>1, <2>1, <2>2, <2>3, ChunksMapped
<1>6. \A i \in 1..n : cs[i] = IF i \in S THEN Unloaded(out.chunks[i]) ELSE out.chunks[i]
  BY <1>2
<1> HIDE DEF cs, t
<1>7. new \in StateSet
  BY <1>1, <1>3, <1>4, <1>5, Zenon DEF StateSet
<1>8. /\ new.chunks = cs /\ new.recent = st.recent /\ new.active = st.active
      /\ new.total = t /\ new.cache = out.cache
  BY <1>1, <1>4 DEF StateSet
<1>9. ASSUME NEW i \in 1..n
      PROVE  /\ i \notin S => new.chunks[i] = st.chunks[i]
             /\ i \in S => new.chunks[i] = Unloaded(out.chunks[i])
  BY <1>1, <1>6, <1>8 DEF Out
<1> QED
  BY <1>5, <1>7, <1>8, <1>9 DEF t

\* What leaves memory is in the cache file.
LEMMA SwappedSound ==
    ASSUME NEW st, NEW con, NEW big, Sound(st, con, big), st.cache.open, NEW S, Chosen(st, S)
    PROVE  Sound(Swapped(st, S), con, big)
<1> DEFINE out == WrittenOut(st, S)
           new == Swapped(st, S)
           n == Len(st.chunks)
<1>1. /\ Sound(out, con, big) /\ st \in StateSet /\ big \in Nat /\ TotalExact(st)
  BY WrittenOutSound DEF Sound
<1>2. /\ out \in StateSet /\ out.recent = st.recent /\ out.active = st.active
      /\ Len(out.chunks) = n
      /\ ChunksHold(out, con, big) /\ RecentSound(out)
      /\ \A i \in 1..n : /\ out.chunks[i].loaded = st.chunks[i].loaded
                         /\ i \in Out(st, S) => out.chunks[i].saved
                         /\ i \notin Out(st, S) => out.chunks[i] = st.chunks[i]
  BY <1>1, WrittenOutIs DEF Sound
<1>3. /\ new \in StateSet /\ new.recent = st.recent /\ new.active = st.active
      /\ new.total = st.total - SizeOf(st.chunks, S)
      /\ new.cache = out.cache /\ Len(new.chunks) = n
      /\ \A i \in 1..n : /\ i \notin S => new.chunks[i] = st.chunks[i]
                         /\ i \in S => new.chunks[i] = Unloaded(out.chunks[i])
  BY <1>1, SwappedIs
<1>4. n \in Nat /\ n = Len(con) /\ con \in Seq(RecordLists) /\ n <= MaxChunks
  BY <1>1, <1>2, StateIs DEF ChunksHold
<1> HIDE DEF new, out, n
<1>5. ASSUME NEW i \in 1..n, i \in S
      PROVE  /\ Holds(new.chunks[i], new.cache.blocks[i], con[i], big)
             /\ ~new.chunks[i].loaded /\ new.chunks[i].size = 0
             /\ Fresh(new.chunks[i]) => Fresh(out.chunks[i])
  <2>1. Holds(out.chunks[i], out.cache.blocks[i], con[i], big)
    BY <1>2, <1>4 DEF ChunksHold
  <2>2. out.chunks[i] \in ChunkSet
    BY <1>2, StateIs
  <2>3. /\ new.chunks[i].recs = << >> /\ new.chunks[i].size = 0
        /\ new.chunks[i].used = out.chunks[i].used
        /\ ~new.chunks[i].loaded
        /\ new.chunks[i].saved <=> out.chunks[i].saved
    BY <1>3, <1>5, <2>2, UnloadedIs
  <2>4. out.chunks[i].loaded => out.chunks[i].saved
    <3>1. CASE i \in Out(st, S)
      BY <1>2, <3>1
    <3>2. CASE i \notin Out(st, S)
      <4>1. out.chunks[i] = st.chunks[i]
        BY <1>2, <3>2
      <4> QED
        BY <1>5, <3>2, <4>1 DEF Out
    <3> QED
      BY <3>1, <3>2
  <2>5. Holds(new.chunks[i], out.cache.blocks[i], con[i], big)
    BY <2>1, <2>3, <2>4 DEF Holds
  <2> QED
    BY <1>3, <2>3, <2>4, <2>5 DEF Fresh
<1>6. ASSUME NEW i \in 1..n, i \notin S
      PROVE  /\ new.chunks[i] = out.chunks[i]
             /\ Holds(new.chunks[i], new.cache.blocks[i], con[i], big)
             /\ Fresh(new.chunks[i]) => Fresh(out.chunks[i])
  <2>1. i \notin Out(st, S)
    BY <1>6 DEF Out
  <2>2. new.chunks[i] = out.chunks[i]
    BY <1>2, <1>3, <1>6, <2>1
  <2>3. Holds(out.chunks[i], out.cache.blocks[i], con[i], big)
    BY <1>2, <1>4 DEF ChunksHold
  <2> QED
    BY <1>3, <2>2, <2>3
<1>7. ChunksHold(new, con, big)
  <2>1. \A i \in 1..n : Holds(new.chunks[i], new.cache.blocks[i], con[i], big)
    BY <1>5, <1>6
  <2>2. \A i \in 1..n : Fresh(new.chunks[i]) => i = new.active /\ con[i] = << >>
    BY <1>2, <1>3, <1>4, <1>5, <1>6 DEF ChunksHold
  <2> QED
    BY <1>3, <1>4, <2>1, <2>2 DEF ChunksHold
<1>8. RecentSound(new)
  <2>1. \A i \in 1..n : new.chunks[i].loaded => Listed(st.recent, i)
    BY <1>2, <1>5, <1>6 DEF RecentSound
  <2> QED
    BY <1>2, <1>3, <2>1 DEF RecentSound
<1>9. TotalExact(new)
  <2>1. /\ st.chunks \in ChunkLists /\ new.chunks \in ChunkLists
        /\ DOMAIN st.chunks = 1..n /\ DOMAIN new.chunks = 1..n
        /\ st.total \in Int /\ Len(st.chunks) = n
    BY <1>1, <1>3, StateIs DEF n
  <2>2. \A i \in 1..n : /\ st.chunks[i].size \in Nat
                        /\ new.chunks[i].size = IF i \in S THEN 0 ELSE st.chunks[i].size
    BY <1>1, <1>3, <1>5, StateIs DEF n
  <2>4. SizeOf(st.chunks, DOMAIN st.chunks)
          = SizeOf(new.chunks, DOMAIN new.chunks) + SizeOf(st.chunks, S)
    BY <1>3, <2>1, <2>2, SizeSplit, SMTT(30)
  <2>5. SizeOf(st.chunks, S) \in Nat /\ SizeOf(new.chunks, DOMAIN new.chunks) \in Nat
    BY <2>1, SizeTyped
  <2> QED
    BY <1>1, <1>3, <2>1, <2>4, <2>5 DEF TotalExact
<1> QED
  BY <1>1, <1>3, <1>7, <1>8, <1>9 DEF Sound, new

Opened(st) == [st EXCEPT !.cache = [@ EXCEPT !.open = TRUE]]

LEMMA OpenedIs ==
    ASSUME NEW st, st \in StateSet
    PROVE  /\ Opened(st) \in StateSet
           /\ Opened(st).chunks = st.chunks /\ Opened(st).recent = st.recent
           /\ Opened(st).active = st.active /\ Opened(st).total = st.total
           /\ Opened(st).cache.open /\ Opened(st).cache.blocks = st.cache.blocks
<1> DEFINE ca == [st.cache EXCEPT !.open = TRUE]
<1>1. ca \in CacheSet /\ ca.open /\ ca.blocks = st.cache.blocks
  BY StateIs DEF CacheSet
<1>2. Opened(st) = [st EXCEPT !.cache = ca]
  BY DEF Opened
<1> HIDE DEF ca
<1>3. Opened(st) \in StateSet
  BY <1>1, <1>2, Zenon DEF StateSet
<1>4. /\ Opened(st).chunks = st.chunks /\ Opened(st).recent = st.recent
      /\ Opened(st).active = st.active /\ Opened(st).total = st.total
      /\ Opened(st).cache = ca
  BY <1>2 DEF StateSet
<1> QED
  BY <1>1, <1>3, <1>4

LEMMA OpenedSound ==
    ASSUME NEW st, NEW con, NEW big, Sound(st, con, big)
    PROVE  Sound(Opened(st), con, big)
<1>1. /\ Opened(st) \in StateSet
      /\ Opened(st).chunks = st.chunks /\ Opened(st).recent = st.recent
      /\ Opened(st).active = st.active /\ Opened(st).total = st.total
      /\ Opened(st).cache.blocks = st.cache.blocks
  BY OpenedIs DEF Sound
<1>2. ChunksHold(Opened(st), con, big)
  BY <1>1 DEF Sound, ChunksHold
<1>3. RecentSound(Opened(st))
  BY <1>1 DEF Sound, RecentSound
<1>4. TotalExact(Opened(st))
  BY <1>1 DEF Sound, TotalExact
<1> QED
  BY <1>1, <1>2, <1>3, <1>4 DEF Sound

\* The active and the excluded chunk stay.
LEMMA SwapsAre ==
    ASSUME NEW st, st \in StateSet, RecentSound(st), NEW reserved, NEW excluded
    PROVE  /\ Chosen(st, Swaps(st, reserved, excluded))
           /\ st.active \notin Swaps(st, reserved, excluded)
           /\ excluded \notin Swaps(st, reserved, excluded)
<1> DEFINE sum == Staying(st, reserved, excluded)
<1>1. DOMAIN st.recent = 1..Len(st.recent)
  BY StateIs, ListIs
<1>2. Swaps(st, reserved, excluded) =
        {st.recent[j] : j \in {k \in 1..Len(st.recent) : ~Stays(st, k, sum[k - 1], excluded)}}
  BY <1>1 DEF Swaps
<1> HIDE DEF sum
<1>3. ASSUME NEW i \in Swaps(st, reserved, excluded)
      PROVE  i \in 1..Len(st.chunks) /\ i # st.active /\ i # excluded
  <2>1. PICK k \in 1..Len(st.recent) : st.recent[k] = i /\ ~Stays(st, k, sum[k - 1], excluded)
    BY <1>2, <1>3
  <2> QED
    BY <2>1 DEF RecentSound, Stays
<1> QED
  BY <1>3 DEF Chosen

\* Compaction leaves alone what it does not swap out.
LEMMA CompactedIs ==
    ASSUME NEW st, st \in StateSet, RecentSound(st), NEW reserved, NEW excluded
    PROVE  /\ Compacted(st, reserved, excluded) \in StateSet
           /\ Compacted(st, reserved, excluded).recent = st.recent
           /\ Compacted(st, reserved, excluded).active = st.active
           /\ Len(Compacted(st, reserved, excluded).chunks) = Len(st.chunks)
           /\ \A i \in 1..Len(st.chunks) : i \notin Swaps(st, reserved, excluded) =>
                 Compacted(st, reserved, excluded).chunks[i] = st.chunks[i]
<1> DEFINE S == Swaps(st, reserved, excluded)
           op == Opened(st)
<1>1. Chosen(st, S)
  BY SwapsAre
<1>2. /\ op \in StateSet /\ op.chunks = st.chunks /\ op.recent = st.recent
      /\ op.active = st.active
  BY OpenedIs
<1> HIDE DEF S, op
<1>3. Chosen(op, S)
  BY <1>1, <1>2 DEF Chosen
<1>4. Compacted(st, reserved, excluded) = st \/ Compacted(st, reserved, excluded) = Swapped(op, S)
  BY DEF Compacted, Opened, S, op
<1>5. /\ Swapped(op, S) \in StateSet
      /\ Swapped(op, S).recent = st.recent /\ Swapped(op, S).active = st.active
      /\ Len(Swapped(op, S).chunks) = Len(st.chunks)
      /\ \A i \in 1..Len(st.chunks) : i \notin S => Swapped(op, S).chunks[i] = st.chunks[i]
  BY <1>2, <1>3, SwappedIs
<1> QED
  BY <1>4, <1>5 DEF S

LEMMA CompactedSound ==
    ASSUME NEW st, NEW con, NEW big, Sound(st, con, big), NEW reserved, NEW excluded
    PROVE  Sound(Compacted(st, reserved, excluded), con, big)
<1> DEFINE S == Swaps(st, reserved, excluded)
           op == Opened(st)
<1>1. st \in StateSet /\ RecentSound(st)
  BY DEF Sound
<1>2. Sound(op, con, big) /\ op.cache.open /\ op.chunks = st.chunks
  BY <1>1, OpenedIs, OpenedSound
<1>3. Chosen(op, S)
  BY <1>1, <1>2, SwapsAre DEF Chosen
<1>4. Compacted(st, reserved, excluded) = st \/ Compacted(st, reserved, excluded) = Swapped(op, S)
  BY DEF Compacted, Opened
<1> HIDE DEF S, op
<1> QED
  BY <1>2, <1>3, <1>4, SwappedSound

-----------------------------------------------------------------------------
(* Access to a chunk *)

LEMMA MovedFirstIs ==
    ASSUME NEW st, st \in StateSet, RecentSound(st), NEW i \in 1..Len(st.chunks)
    PROVE  /\ MovedFirst(st, i) \in StateSet
           /\ MovedFirst(st, i).recent = ToFront(st.recent, i)
           /\ MovedFirst(st, i).chunks = st.chunks /\ MovedFirst(st, i).active = st.active
           /\ MovedFirst(st, i).total = st.total /\ MovedFirst(st, i).cache = st.cache
           /\ RecentSound(MovedFirst(st, i))
           /\ Listed(ToFront(st.recent, i), i)
<1> DEFINE r == ToFront(st.recent, i)
           new == MovedFirst(st, i)
<1>1. Distinct(st.recent) /\ i \in Nat /\ Len(st.chunks) \in Nat
  BY StateIs DEF RecentSound
<1>2. Distinct(r) /\ \A x : Listed(r, x) <=> x = i \/ Listed(st.recent, x)
  BY <1>1, ToFrontIs
<1>3. r \in Seq(Nat)
  BY <1>2 DEF Distinct
<1>4. new = [st EXCEPT !.recent = r]
  BY DEF MovedFirst
<1> HIDE DEF r
<1>5. new \in StateSet
  BY <1>3, <1>4, Zenon DEF StateSet
<1>6. /\ new.recent = r /\ new.chunks = st.chunks /\ new.active = st.active
      /\ new.total = st.total /\ new.cache = st.cache
  BY <1>4 DEF StateSet
<1>7. ASSUME NEW j \in 1..Len(r) PROVE r[j] \in 1..Len(st.chunks)
  <2>1. Listed(r, r[j])
    BY DEF Listed
  <2>2. r[j] = i \/ Listed(st.recent, r[j])
    BY <1>2, <2>1
  <2> QED
    BY <2>2 DEF Listed, RecentSound
<1>8. RecentSound(new)
  BY <1>2, <1>6, <1>7 DEF RecentSound
<1> QED
  BY <1>2, <1>5, <1>6, <1>8 DEF r

LEMMA MovedFirstSound ==
    ASSUME NEW st, NEW con, NEW big, Sound(st, con, big), NEW i \in 1..Len(st.chunks)
    PROVE  Sound(MovedFirst(st, i), con, big)
<1>1. /\ st \in StateSet /\ RecentSound(st) /\ ChunksHold(st, con, big)
      /\ TotalExact(st) /\ big \in Nat
  BY DEF Sound
<1>2. /\ MovedFirst(st, i) \in StateSet /\ RecentSound(MovedFirst(st, i))
      /\ MovedFirst(st, i).chunks = st.chunks /\ MovedFirst(st, i).active = st.active
      /\ MovedFirst(st, i).total = st.total /\ MovedFirst(st, i).cache = st.cache
  BY <1>1, MovedFirstIs
<1>3. ChunksHold(MovedFirst(st, i), con, big)
  BY <1>1, <1>2 DEF ChunksHold
<1>4. TotalExact(MovedFirst(st, i))
  BY <1>1, <1>2 DEF TotalExact
<1> QED
  BY <1>1, <1>2, <1>3, <1>4 DEF Sound

\* One chunk is replaced by another, whose buffer is larger by x.
Put(st, new, i, d, x) ==
    /\ i \in 1..Len(st.chunks) /\ d \in ChunkSet /\ x \in Nat
    /\ d.size = st.chunks[i].size + x
    /\ new = [st EXCEPT !.chunks = [st.chunks EXCEPT ![i] = d], !.total = st.total + x]

LEMMA PutIs ==
    ASSUME NEW st, st \in StateSet, NEW new, NEW i, NEW d, NEW x, Put(st, new, i, d, x)
    PROVE  /\ new \in StateSet /\ new.recent = st.recent /\ new.active = st.active
           /\ new.cache = st.cache /\ new.total = st.total + x
           /\ Len(new.chunks) = Len(st.chunks)
           /\ new.chunks[i] = d
           /\ \A j \in 1..Len(st.chunks) : j # i => new.chunks[j] = st.chunks[j]
<1> DEFINE n == Len(st.chunks)
           cs == [st.chunks EXCEPT ![i] = d]
           t == st.total + x
<1>1. /\ i \in 1..n /\ d \in ChunkSet /\ n \in Nat /\ DOMAIN st.chunks = 1..n
      /\ st.chunks \in ChunkLists /\ t \in Int
  BY StateIs DEF Put
<1>2. cs \in ChunkLists /\ Len(cs) = n
  BY <1>1, ExceptSeq DEF ChunkLists
<1>3. cs[i] = d /\ \A j \in 1..n : j # i => cs[j] = st.chunks[j]
  BY <1>1
<1>4. new = [st EXCEPT !.chunks = cs, !.total = t]
  BY DEF Put
<1> HIDE DEF cs, t
<1>5. new \in StateSet
  BY <1>1, <1>2, <1>4, Zenon DEF StateSet
<1>6. /\ new.chunks = cs /\ new.recent = st.recent /\ new.active = st.active
      /\ new.cache = st.cache /\ new.total = t
  BY <1>4 DEF StateSet
<1> QED
  BY <1>2, <1>3, <1>5, <1>6 DEF t

LEMMA PutSound ==
    ASSUME NEW st, NEW con, NEW big, Sound(st, con, big),
           NEW new, NEW i, NEW d, NEW x, Put(st, new, i, d, x),
           NEW r, Holds(d, st.cache.blocks[i], r, big), ~Fresh(d), Listed(st.recent, i)
    PROVE  Sound(new, [con EXCEPT ![i] = r], big)
<1> DEFINE n == Len(st.chunks)
           own == [con EXCEPT ![i] = r]
<1>1. /\ st \in StateSet /\ ChunksHold(st, con, big) /\ RecentSound(st) /\ TotalExact(st)
      /\ big \in Nat
  BY DEF Sound
<1>2. /\ new \in StateSet /\ new.recent = st.recent /\ new.active = st.active
      /\ new.cache = st.cache /\ new.total = st.total + x
      /\ Len(new.chunks) = n
      /\ new.chunks[i] = d
      /\ \A j \in 1..n : j # i => new.chunks[j] = st.chunks[j]
  BY <1>1, PutIs
<1>3. /\ i \in 1..n /\ d \in ChunkSet /\ x \in Nat /\ d.size = st.chunks[i].size + x
      /\ n \in Nat /\ r \in RecordLists
  BY <1>1, StateIs DEF Put, Holds
<1>4. con \in Seq(RecordLists) /\ Len(con) = n /\ n <= MaxChunks
  BY <1>1 DEF ChunksHold
<1>5. own \in Seq(RecordLists) /\ Len(own) = n
  BY <1>3, <1>4, ExceptSeq
<1>6. own[i] = r /\ \A j \in 1..n : j # i => own[j] = con[j]
  <2>1. DOMAIN con = 1..n
    BY <1>4, LenProperties
  <2> QED
    BY <1>3, <2>1
<1> HIDE DEF own, n
<1>7. ChunksHold(new, own, big)
  <2>1. ASSUME NEW j \in 1..n
        PROVE  /\ Holds(new.chunks[j], new.cache.blocks[j], own[j], big)
               /\ Fresh(new.chunks[j]) => j = new.active /\ own[j] = << >>
    <3>1. CASE j = i
      BY <1>2, <1>6, <3>1
    <3>2. CASE j # i
      BY <1>1, <1>2, <1>4, <1>6, <3>2 DEF ChunksHold
    <3> QED
      BY <3>1, <3>2
  <2> QED
    BY <1>2, <1>4, <1>5, <2>1 DEF ChunksHold
<1>8. RecentSound(new)
  <2>1. ASSUME NEW j \in 1..n, new.chunks[j].loaded PROVE Listed(st.recent, j)
    <3>1. CASE j = i
      BY <3>1
    <3>2. CASE j # i
      BY <1>1, <1>2, <2>1, <3>2 DEF RecentSound, n
    <3> QED
      BY <3>1, <3>2
  <2>2. \A j \in 1..Len(st.recent) : st.recent[j] \in 1..n
    BY <1>1 DEF RecentSound, n
  <2> QED
    BY <1>1, <1>2, <2>1, <2>2 DEF RecentSound, n
<1>9. TotalExact(new)
  <2> DEFINE S == DOMAIN st.chunks
             T == DOMAIN new.chunks
  <2>1. /\ st.chunks \in ChunkLists /\ new.chunks \in ChunkLists
        /\ S = 1..n /\ T = 1..n /\ Len(st.chunks) = n /\ st.total \in Int
    BY <1>1, <1>2, StateIs DEF n
  <2> HIDE DEF S, T
  <2>2. SizeOf(new.chunks, T) = SizeOf(st.chunks, S) + x
    <3>1. i \in T /\ new.chunks[i].size = (IF i \in S THEN st.chunks[i].size ELSE 0) + x
      BY <1>2, <1>3, <2>1
    <3>2. \A j \in 1..Len(st.chunks) :
             j # i => (j \in T <=> j \in S) /\ new.chunks[j].size = st.chunks[j].size
      BY <1>2, <2>1
    <3> QED
      BY <1>2, <1>3, <2>1, <3>1, <3>2, SizeRaised, SMTT(30)
  <2> QED
    BY <1>1, <1>2, <2>2 DEF TotalExact, S, T
<1> QED
  BY <1>1, <1>2, <1>7, <1>8, <1>9 DEF Sound, own

\* Every chunk got a buffer once.
NoFresh(st) == \A i \in 1..Len(st.chunks) : ~Fresh(st.chunks[i])

LEMMA CompactedNoFresh ==
    ASSUME NEW st, NEW con, NEW big, Sound(st, con, big), NoFresh(st),
           NEW reserved, NEW excluded
    PROVE  NoFresh(Compacted(st, reserved, excluded))
<1> DEFINE new == Compacted(st, reserved, excluded)
<1>1. st \in StateSet /\ RecentSound(st)
  BY DEF Sound
<1>2. /\ new.active = st.active /\ Len(new.chunks) = Len(st.chunks)
      /\ \A i \in 1..Len(st.chunks) :
            i \notin Swaps(st, reserved, excluded) => new.chunks[i] = st.chunks[i]
  BY <1>1, CompactedIs
<1>3. ChunksHold(new, con, big) /\ Len(con) = Len(st.chunks)
  <2>1. Sound(new, con, big)
    BY CompactedSound
  <2> HIDE DEF new
  <2> QED
    BY <2>1 DEF Sound, ChunksHold
<1> HIDE DEF new
<1>4. ASSUME NEW i \in 1..Len(st.chunks), Fresh(new.chunks[i]) PROVE FALSE
  <2>1. i = st.active
    BY <1>2, <1>3, <1>4 DEF ChunksHold
  <2>2. new.chunks[i] = st.chunks[i]
    BY <1>1, <1>2, <2>1, SwapsAre
  <2> QED
    BY <1>4, <2>2 DEF NoFresh
<1> QED
  BY <1>2, <1>4 DEF NoFresh, new

\* A chunk is restored to what it held.
LEMMA RestoredSound ==
    ASSUME NEW st, NEW con, NEW big, Sound(st, con, big), NEW i \in 1..Len(st.chunks),
           ~st.chunks[i].loaded, st.chunks[i].saved, Listed(st.recent, i)
    PROVE  /\ Sound(Restored(st, i), con, big)
           /\ Restored(st, i).recent = st.recent /\ Restored(st, i).active = st.active
           /\ Len(Restored(st, i).chunks) = Len(st.chunks)
           /\ Restored(st, i).chunks[i].loaded
           /\ Restored(st, i).chunks[i].size <= big
           /\ \A j \in 1..Len(st.chunks) : j # i => Restored(st, i).chunks[j] = st.chunks[j]
<1> DEFINE recs == st.cache.blocks[i]
           d == [st.chunks[i] EXCEPT !.recs = recs, !.loaded = TRUE, !.size = Room(recs)]
           new == Restored(st, i)
           x == Room(recs)
<1>1. /\ st \in StateSet /\ ChunksHold(st, con, big) /\ big \in Nat
      /\ con \in Seq(RecordLists) /\ Len(con) = Len(st.chunks)
      /\ st.chunks[i] \in ChunkSet /\ st.chunks[i].size \in Nat
  BY StateIs DEF Sound, ChunksHold
<1>2. Holds(st.chunks[i], st.cache.blocks[i], con[i], big)
  BY <1>1 DEF ChunksHold
<1>3. /\ recs = con[i] /\ con[i] \in RecordLists /\ st.chunks[i].size = 0
      /\ st.chunks[i].used = Room(con[i]) /\ Room(con[i]) <= big
  BY <1>2 DEF Holds
<1>4. recs \in RecordLists /\ x \in Nat /\ x <= big
  <2> DEFINE f == [k \in 1..Len(con[i]) |-> con[i][k].room]
  <2>1. \A k \in 1..Len(con[i]) : f[k] = con[i][k].room
    OBVIOUS
  <2> HIDE DEF f
  <2>2. Room(con[i]) \in Nat
    BY <1>3, <2>1, RoomIs
  <2> QED
    BY <1>3, <2>2
<1>5. new = [st EXCEPT !.chunks = [st.chunks EXCEPT ![i] = d], !.total = st.total + x]
  BY DEF Restored
<1> HIDE DEF recs, x
<1>6. d \in ChunkSet
  BY <1>1, <1>4 DEF ChunkSet, x
<1>7. /\ d.recs = recs /\ d.loaded /\ d.size = x /\ d.used = st.chunks[i].used
  BY <1>1 DEF ChunkSet, x
<1>8. d.saved <=> st.chunks[i].saved
  BY <1>1 DEF ChunkSet
<1> HIDE DEF d, new
<1>9. Put(st, new, i, d, x)
  BY <1>1, <1>3, <1>4, <1>5, <1>6, <1>7 DEF Put
<1>10. Holds(d, st.cache.blocks[i], con[i], big) /\ ~Fresh(d)
  BY <1>1, <1>3, <1>4, <1>7, <1>8 DEF Holds, Fresh, x, recs
<1>11. Sound(new, [con EXCEPT ![i] = con[i]], big)
  BY <1>9, <1>10, PutSound
<1>12. [con EXCEPT ![i] = con[i]] = con
  BY <1>1
<1>13. /\ new.recent = st.recent /\ new.active = st.active /\ new.chunks[i] = d
       /\ Len(new.chunks) = Len(st.chunks)
       /\ \A j \in 1..Len(st.chunks) : j # i => new.chunks[j] = st.chunks[j]
  BY <1>1, <1>9, PutIs
<1> QED
  BY <1>4, <1>7, <1>11, <1>12, <1>13 DEF new

\* The chunk is found in memory, the rest is as it was or in the cache file.
LEMMA FetchedSound ==
    ASSUME NEW st, NEW con, NEW big, Sound(st, con, big), NEW i \in 1..Len(st.chunks),
           NoFresh(st)
    PROVE  /\ Sound(Fetched(st, i), con, big) /\ NoFresh(Fetched(st, i))
           /\ Fetched(st, i).recent = ToFront(st.recent, i)
           /\ Fetched(st, i).active = st.active
           /\ Len(Fetched(st, i).chunks) = Len(st.chunks)
           /\ Fetched(st, i).chunks[i].loaded
<1> DEFINE mid == MovedFirst(st, i)
           full == Restored(mid, i)
           new == Compacted(full, 0, i)
<1>1. st \in StateSet /\ RecentSound(st) /\ st.chunks[i].loaded \in BOOLEAN
  BY StateIs DEF Sound
<1>2. /\ mid \in StateSet /\ mid.recent = ToFront(st.recent, i)
      /\ mid.chunks = st.chunks /\ mid.active = st.active
      /\ Listed(mid.recent, i)
  BY <1>1, MovedFirstIs
<1>3. Sound(mid, con, big) /\ NoFresh(mid)
  BY <1>2, MovedFirstSound DEF NoFresh
<1>4. CASE st.chunks[i].loaded
  <2>1. Fetched(st, i) = mid
    BY <1>4 DEF Fetched
  <2> HIDE DEF mid
  <2> QED
    BY <1>2, <1>3, <1>4, <2>1
<1>5. CASE ~st.chunks[i].loaded
  <2>1. st.chunks[i].saved
    BY <1>5 DEF NoFresh, Fresh
  <2>2. Fetched(st, i) = new
    BY <1>5, <2>1 DEF Fetched
  <2> HIDE DEF mid
  <2>3. /\ Sound(full, con, big)
        /\ full.recent = mid.recent /\ full.active = mid.active
        /\ Len(full.chunks) = Len(mid.chunks) /\ full.chunks[i].loaded
        /\ \A j \in 1..Len(mid.chunks) : j # i => full.chunks[j] = mid.chunks[j]
    BY <1>2, <1>3, <1>5, <2>1, RestoredSound
  <2>4. NoFresh(full)
    BY <1>2, <1>3, <2>3 DEF NoFresh, Fresh
  <2> HIDE DEF full
  <2>5. full \in StateSet /\ RecentSound(full)
    BY <2>3 DEF Sound
  <2>6. Sound(new, con, big) /\ NoFresh(new)
    BY <2>3, <2>4, CompactedSound, CompactedNoFresh
  <2>7. /\ new.recent = full.recent /\ new.active = full.active
        /\ Len(new.chunks) = Len(full.chunks)
        /\ new.chunks[i] = full.chunks[i]
    <3>1. i \notin Swaps(full, 0, i)
      BY <2>5, SwapsAre
    <3>2. i \in 1..Len(full.chunks)
      BY <1>2, <2>3
    <3> QED
      BY <2>5, <3>1, <3>2, CompactedIs
  <2> HIDE DEF new
  <2> QED
    BY <1>2, <2>2, <2>3, <2>6, <2>7
<1> QED
  BY <1>1, <1>4, <1>5

-----------------------------------------------------------------------------
(* A chunk is added *)

\* The state in which room is made for a new chunk.
Extended(st, c) ==
    MovedFirst([st EXCEPT !.chunks = Append(@, c), !.total = @ + c.size], Len(st.chunks) + 1)

LEMMA ExtendedIs ==
    ASSUME NEW st, st \in StateSet, NEW c \in ChunkSet, Distinct(st.recent)
    PROVE  /\ Extended(st, c) \in StateSet
           /\ Extended(st, c).chunks = Append(st.chunks, c)
           /\ Extended(st, c).recent = ToFront(st.recent, Len(st.chunks) + 1)
           /\ Extended(st, c).active = st.active /\ Extended(st, c).cache = st.cache
           /\ Extended(st, c).total = st.total + c.size
<1> DEFINE cs == Append(st.chunks, c)
           t == st.total + c.size
           r == ToFront(st.recent, Len(st.chunks) + 1)
           mid == [st EXCEPT !.chunks = cs, !.total = t]
           new == Extended(st, c)
<1>1. /\ st.chunks \in ChunkLists /\ st.total \in Int /\ Len(st.chunks) + 1 \in Nat
      /\ c.size \in Nat
  BY StateIs DEF ChunkSet
<1>2. cs \in ChunkLists /\ t \in Int
  BY <1>1, SizeAppended
<1>3. Distinct(r)
  BY <1>1, ToFrontIs
<1>4. r \in Seq(Nat)
  BY <1>3 DEF Distinct
<1>5. new = [mid EXCEPT !.recent = ToFront(mid.recent, Len(st.chunks) + 1)]
  BY DEF Extended, MovedFirst
<1> HIDE DEF cs, t, new
<1>6. mid \in StateSet
  BY <1>2, Zenon DEF StateSet
<1>7. /\ mid.chunks = cs /\ mid.recent = st.recent /\ mid.active = st.active
      /\ mid.total = t /\ mid.cache = st.cache
  BY DEF StateSet
<1> HIDE DEF mid
<1>8. new = [mid EXCEPT !.recent = r]
  BY <1>5, <1>7
<1> HIDE DEF r
<1>9. new \in StateSet
  BY <1>4, <1>6, <1>8, Zenon DEF StateSet
<1>10. /\ new.chunks = cs /\ new.recent = r /\ new.active = st.active
       /\ new.total = t /\ new.cache = st.cache
  BY <1>6, <1>7, <1>8 DEF StateSet
<1> QED
  BY <1>9, <1>10 DEF new, cs, r, t

\* The new chunk c, which holds r, is added to a sound state, to be the active one or not.
LEMMA ExtendedSound ==
    ASSUME NEW st, NEW con, NEW big, NEW old, Sound(old, con, big),
           st \in StateSet, st.chunks = old.chunks, st.recent = old.recent,
           st.total = old.total, st.cache = old.cache,
           st.active = old.active \/ (st.active = Len(st.chunks) + 1 /\ NoFresh(st)),
           NEW c \in ChunkSet, NEW r, ~c.saved,
           Holds(c, NoBlock, r, big), Fresh(c) => st.active = Len(st.chunks) + 1 /\ r = << >>,
           Len(st.chunks) + 1 <= MaxChunks
    PROVE  Sound(Extended(st, c), Append(con, r), big)
<1> DEFINE n == Len(st.chunks)
           new == Extended(st, c)
           own == Append(con, r)
<1>1. /\ ChunksHold(old, con, big) /\ RecentSound(old) /\ TotalExact(old)
      /\ big \in Nat /\ r \in RecordLists
  BY DEF Sound, Holds
<1>2. /\ new \in StateSet /\ new.chunks = Append(st.chunks, c)
      /\ new.recent = ToFront(st.recent, n + 1)
      /\ new.active = st.active /\ new.cache = st.cache /\ new.total = st.total + c.size
  BY <1>1, ExtendedIs DEF RecentSound
<1>3. /\ n \in Nat /\ st.chunks \in ChunkLists
      /\ Len(new.chunks) = n + 1
      /\ \A i \in 1..n : new.chunks[i] = st.chunks[i]
      /\ new.chunks[n + 1] = c
      /\ SizeOf(new.chunks, DOMAIN new.chunks) = SizeOf(st.chunks, DOMAIN st.chunks) + c.size
  <2>1. n \in Nat /\ st.chunks \in ChunkLists
    BY StateIs
  <2>2. new.chunks = Append(st.chunks, c)
    BY <1>2
  <2> HIDE DEF new
  <2> QED
    BY <2>1, <2>2, SizeAppended
<1>4. con \in Seq(RecordLists) /\ Len(con) = n
  BY <1>1 DEF ChunksHold
<1>5. /\ own \in Seq(RecordLists) /\ Len(own) = n + 1 /\ own[n + 1] = r
      /\ \A i \in 1..n : own[i] = con[i]
  BY <1>1, <1>4, AppendProperties
<1> HIDE DEF new, own
<1>6. ASSUME NEW i \in 1..(n + 1)
      PROVE  /\ Holds(new.chunks[i], new.cache.blocks[i], own[i], big)
             /\ Fresh(new.chunks[i]) => i = new.active /\ own[i] = << >>
  <2>1. CASE i = n + 1
    <3>1. new.chunks[i] = c /\ own[i] = r
      BY <1>3, <1>5, <2>1
    <3>2. Holds(c, new.cache.blocks[i], r, big)
      BY DEF Holds
    <3> QED
      BY <1>2, <2>1, <3>1, <3>2
  <2>2. CASE i # n + 1
    <3>1. i \in 1..n
      BY <1>3, <2>2
    <3>2. /\ new.chunks[i] = old.chunks[i] /\ own[i] = con[i]
          /\ new.cache.blocks[i] = old.cache.blocks[i]
      BY <1>2, <1>3, <1>5, <3>1
    <3>3. /\ Holds(old.chunks[i], old.cache.blocks[i], con[i], big)
          /\ Fresh(old.chunks[i]) => i = old.active /\ con[i] = << >>
      BY <1>1, <1>4, <3>1 DEF ChunksHold
    <3>4. Fresh(old.chunks[i]) => st.active = old.active
      BY <3>1 DEF NoFresh
    <3> QED
      BY <1>2, <3>2, <3>3, <3>4
  <2> QED
    BY <2>1, <2>2
<1>7. ChunksHold(new, own, big)
  BY <1>3, <1>5, <1>6 DEF ChunksHold
<1>8. RecentSound(new)
  <2>1. /\ Distinct(new.recent)
        /\ \A x : Listed(new.recent, x) <=> x = n + 1 \/ Listed(st.recent, x)
    BY <1>1, <1>2, <1>3, ToFrontIs DEF RecentSound
  <2>2. ASSUME NEW j \in 1..Len(new.recent) PROVE new.recent[j] \in 1..(n + 1)
    <3>1. Listed(new.recent, new.recent[j])
      BY DEF Listed
    <3>2. new.recent[j] = n + 1 \/ Listed(old.recent, new.recent[j])
      BY <2>1, <3>1
    <3>3. Listed(old.recent, new.recent[j]) => new.recent[j] \in 1..n
      BY <1>1 DEF Listed, RecentSound
    <3> QED
      BY <1>3, <3>2, <3>3
  <2>3. ASSUME NEW i \in 1..(n + 1), new.chunks[i].loaded PROVE Listed(new.recent, i)
    <3>1. CASE i = n + 1
      BY <2>1, <3>1
    <3>2. CASE i # n + 1
      <4>1. i \in 1..Len(old.chunks) /\ old.chunks[i].loaded
        BY <1>3, <2>3, <3>2
      <4> QED
        BY <1>1, <2>1, <4>1 DEF RecentSound
    <3> QED
      BY <3>1, <3>2
  <2>4. new.active <= n + 1
    BY <1>1, <1>2, <1>3, StateIs DEF RecentSound
  <2> QED
    BY <1>3, <2>1, <2>2, <2>3, <2>4 DEF RecentSound
<1>9. TotalExact(new)
  BY <1>1, <1>2, <1>3 DEF TotalExact
<1> QED
  BY <1>1, <1>2, <1>7, <1>8, <1>9 DEF Sound, new, own

LEMMA NewChunkIs ==
    ASSUME NEW big \in Nat
    PROVE  /\ NewChunk \in ChunkSet /\ ~NewChunk.saved /\ ~NewChunk.loaded
           /\ NewChunk.size = 0 /\ NewChunk.used = 0 /\ NewChunk.recs = << >>
           /\ Holds(NewChunk, NoBlock, << >>, big)
<1>1. << >> \in RecordLists /\ Room(<< >>) = 0
  BY RoomEmpty
<1>2. /\ NewChunk \in ChunkSet /\ ~NewChunk.saved /\ ~NewChunk.loaded
      /\ NewChunk.size = 0 /\ NewChunk.used = 0 /\ NewChunk.recs = << >>
  BY <1>1 DEF NewChunk, ChunkSet
<1> QED
  BY <1>1, <1>2 DEF Holds

LEMMA NewRawChunkIs ==
    ASSUME NEW big \in Nat, ChunkSize <= big
    PROVE  /\ NewRawChunk \in ChunkSet /\ ~NewRawChunk.saved /\ NewRawChunk.loaded
           /\ NewRawChunk.size = ChunkSize
           /\ Holds(NewRawChunk, NoBlock, ZeroRecords, big)
<1>1. ZeroRecords \in RecordLists /\ Room(ZeroRecords) = ChunkSize /\ ChunkSize \in Nat
  BY RoomZero, Constants
<1>2. /\ NewRawChunk \in ChunkSet /\ ~NewRawChunk.saved /\ NewRawChunk.loaded
      /\ NewRawChunk.size = ChunkSize /\ NewRawChunk.used = ChunkSize
      /\ NewRawChunk.recs = ZeroRecords
  BY <1>1 DEF NewRawChunk, ChunkSet
<1> QED
  BY <1>1, <1>2 DEF Holds

LEMMA AddedIs ==
    ASSUME NEW st, NEW c \in ChunkSet
    PROVE  Added(st, c) = Compacted(Extended(st, c), 0, 0)
BY DEF Added, Extended

\* A chunk is added to the array.
LEMMA AddedRawSound ==
    ASSUME NEW st, NEW con, NEW big, Sound(st, con, big), NoFresh(st),
           ChunkSize <= big, Len(st.chunks) + 1 <= MaxChunks
    PROVE  /\ Sound(Added(st, NewRawChunk), Append(con, ZeroRecords), big)
           /\ NoFresh(Added(st, NewRawChunk))
           /\ Added(st, NewRawChunk).recent = ToFront(st.recent, Len(st.chunks) + 1)
           /\ Added(st, NewRawChunk).active = st.active
           /\ Len(Added(st, NewRawChunk).chunks) = Len(st.chunks) + 1
<1> DEFINE c == NewRawChunk
           mid == Extended(st, c)
           own == Append(con, ZeroRecords)
           n == Len(st.chunks)
<1>1. st \in StateSet /\ big \in Nat /\ Distinct(st.recent) /\ n \in Nat
      /\ st.chunks \in ChunkLists
  BY StateIs DEF Sound, RecentSound
<1>2. /\ c \in ChunkSet /\ ~c.saved /\ c.loaded /\ Holds(c, NoBlock, ZeroRecords, big)
  BY <1>1, NewRawChunkIs
<1>3. Added(st, c) = Compacted(mid, 0, 0)
  BY <1>2, AddedIs
<1> HIDE DEF c
<1>4. Sound(mid, own, big)
  BY <1>1, <1>2, ExtendedSound DEF Fresh
<1>5. /\ mid.chunks = Append(st.chunks, c) /\ mid.recent = ToFront(st.recent, n + 1)
      /\ mid.active = st.active
  BY <1>1, <1>2, ExtendedIs
<1>6. /\ Len(mid.chunks) = n + 1 /\ mid.chunks[n + 1] = c
      /\ \A i \in 1..n : mid.chunks[i] = st.chunks[i]
  <2> HIDE DEF mid
  <2> QED
    BY <1>1, <1>2, <1>5, SizeAppended
<1>7. NoFresh(mid)
  <2>1. ASSUME NEW i \in 1..(n + 1) PROVE ~Fresh(mid.chunks[i])
    <3>1. CASE i = n + 1
      BY <1>2, <1>6, <3>1 DEF Fresh
    <3>2. CASE i # n + 1
      <4>1. i \in 1..n
        BY <1>1, <3>2
      <4> QED
        BY <1>6, <4>1 DEF NoFresh
    <3> QED
      BY <3>1, <3>2
  <2> QED
    BY <1>6, <2>1 DEF NoFresh
<1> HIDE DEF mid, own
<1>8. Sound(Compacted(mid, 0, 0), own, big) /\ NoFresh(Compacted(mid, 0, 0))
  BY <1>4, <1>7, CompactedSound, CompactedNoFresh
<1>9. /\ Compacted(mid, 0, 0).recent = mid.recent /\ Compacted(mid, 0, 0).active = mid.active
      /\ Len(Compacted(mid, 0, 0).chunks) = Len(mid.chunks)
  BY <1>4, CompactedIs DEF Sound
<1> QED
  BY <1>3, <1>5, <1>6, <1>8, <1>9 DEF c, own

\* There is a new active chunk, the only one without a buffer.
LEMMA ActivatedSound ==
    ASSUME NEW st, NEW con, NEW big, Sound(st, con, big), NoFresh(st),
           Len(st.chunks) + 1 <= MaxChunks
    PROVE  /\ Sound(Activated(st), Append(con, << >>), big)
           /\ Activated(st).recent = ToFront(st.recent, Len(st.chunks) + 1)
           /\ Activated(st).active = Len(st.chunks) + 1
           /\ Len(Activated(st).chunks) = Len(st.chunks) + 1
           /\ Activated(st).chunks[Len(st.chunks) + 1] = NewChunk
<1> DEFINE c == NewChunk
           n == Len(st.chunks)
           pre == [st EXCEPT !.active = n + 1]
           mid == Extended(pre, c)
           own == Append(con, << >>)
<1>1. st \in StateSet /\ big \in Nat /\ Distinct(st.recent) /\ n \in Nat /\ n + 1 \in Nat
      /\ st.chunks \in ChunkLists
  BY StateIs DEF Sound, RecentSound
<1>2. /\ c \in ChunkSet /\ ~c.saved /\ Holds(c, NoBlock, << >>, big)
  BY <1>1, NewChunkIs
<1>3. pre \in StateSet
  <2> HIDE DEF n
  <2> QED
    BY <1>1, Zenon DEF StateSet
<1>4. /\ pre.chunks = st.chunks /\ pre.recent = st.recent /\ pre.active = n + 1
      /\ pre.total = st.total /\ pre.cache = st.cache
  BY <1>1 DEF StateSet
<1>5. Activated(st) = Compacted(mid, 0, 0)
  <2>1. Added(pre, c) = Compacted(mid, 0, 0)
    BY <1>2, AddedIs
  <2> QED
    BY <2>1 DEF Activated
<1> HIDE DEF c, pre
<1>6. Sound(mid, own, big)
  <2>1. NoFresh(pre)
    BY <1>4 DEF NoFresh
  <2> QED
    BY <1>1, <1>2, <1>3, <1>4, <2>1, ExtendedSound
<1>7. /\ mid.chunks = Append(st.chunks, c) /\ mid.recent = ToFront(st.recent, n + 1)
      /\ mid.active = n + 1
  BY <1>1, <1>2, <1>3, <1>4, ExtendedIs
<1>8. Len(mid.chunks) = n + 1 /\ mid.chunks[n + 1] = c
  <2> HIDE DEF mid
  <2> QED
    BY <1>1, <1>2, <1>7, SizeAppended
<1> HIDE DEF mid, own
<1>9. Sound(Compacted(mid, 0, 0), own, big)
  BY <1>6, CompactedSound
<1>10. /\ Compacted(mid, 0, 0).recent = mid.recent /\ Compacted(mid, 0, 0).active = mid.active
       /\ Len(Compacted(mid, 0, 0).chunks) = Len(mid.chunks)
       /\ Compacted(mid, 0, 0).chunks[n + 1] = mid.chunks[n + 1]
  <2>1. mid \in StateSet /\ RecentSound(mid)
    BY <1>6 DEF Sound
  <2>2. n + 1 \notin Swaps(mid, 0, 0)
    BY <1>7, <2>1, SwapsAre
  <2>3. n + 1 \in 1..Len(mid.chunks)
    BY <1>1, <1>8
  <2> QED
    BY <2>1, <2>2, <2>3, CompactedIs
<1> QED
  BY <1>5, <1>7, <1>8, <1>9, <1>10 DEF c, own

-----------------------------------------------------------------------------
(* Records *)

\* A record fits into the active chunk, which was not written since.
Fits(st, rec, big) ==
    /\ rec \in RecordSet /\ rec.room <= big /\ ChunkSize <= big
    /\ st.active \in 1..Len(st.chunks) /\ ~st.chunks[st.active].saved
    /\ Listed(st.recent, st.active) /\ HasRoom(st, rec)

\* The buffer of the active chunk.
ActiveSize(st) == IF st.active = 0 THEN 0 ELSE st.chunks[st.active].size

Limit == MaxSize + MaxSize \div 10

\* The count is within its limit, but for the active chunk.
Bounded(st) == st.total <= Limit + ActiveSize(st)

\* A state has one record more than another.
OneMore(st, new, con, rec, big) ==
    /\ Sound(new, [con EXCEPT ![st.active] = Append(con[st.active], rec)], big)
    /\ NoFresh(new)
    /\ new.recent = st.recent /\ new.active = st.active
    /\ Len(new.chunks) = Len(st.chunks)
    /\ new.chunks[st.active].loaded
    /\ \A j \in 1..Len(st.chunks) : j # st.active => new.chunks[j] = st.chunks[j]
    /\ Bounded(st) => Bounded(new)

LEMMA AppendedSound ==
    ASSUME NEW st, NEW con, NEW big, Sound(st, con, big), NEW rec, Fits(st, rec, big)
    PROVE  OneMore(st, Appended(st, rec), con, rec, big)
<1> USE DEF Fits
<1> DEFINE i == st.active
           c == st.chunks[i]
           n == Len(st.chunks)
           fresh == IF c.loaded THEN 0
                    ELSE IF ChunkSize > rec.room THEN ChunkSize ELSE rec.room
           d == [c EXCEPT !.recs = Append(@, rec), !.loaded = TRUE,
                          !.size = @ + fresh, !.used = @ + rec.room]
           new == Appended(st, rec)
           r == Append(con[i], rec)
<1>1. /\ st \in StateSet /\ ChunksHold(st, con, big) /\ RecentSound(st) /\ big \in Nat
      /\ st.total \in Int /\ i \in 1..n /\ n \in Nat
      /\ Len(con) = n /\ con \in Seq(RecordLists)
  BY StateIs DEF Sound, ChunksHold
<1>2. /\ c \in ChunkSet /\ c.recs \in RecordLists /\ c.size \in Nat /\ c.used \in Nat
      /\ c.loaded \in BOOLEAN /\ rec.room \in Nat /\ ChunkSize \in Nat
  BY <1>1, StateIs, Constants DEF RecordSet
<1>3. fresh \in Nat /\ fresh <= big /\ (c.loaded => fresh = 0)
      /\ (~c.loaded => fresh >= rec.room)
  BY <1>1, <1>2
<1>4. new = [st EXCEPT !.chunks = [st.chunks EXCEPT ![i] = d], !.total = st.total + fresh]
  BY DEF Appended
<1>5. /\ Holds(c, st.cache.blocks[i], con[i], big)
      /\ Fresh(c) => con[i] = << >>
  BY <1>1 DEF ChunksHold
<1>6. /\ con[i] \in RecordLists /\ c.recs = con[i]
      /\ c.used = Room(con[i])
      /\ c.loaded => c.size <= big /\ c.used + rec.room <= c.size
      /\ ~c.loaded => c.size = 0 /\ c.used = 0
  <2>1. c.loaded => c.size - c.used >= rec.room
    BY DEF HasRoom
  <2>2. /\ con[i] \in RecordLists /\ c.used = Room(con[i])
        /\ c.loaded => c.recs = con[i] /\ c.size <= big
        /\ ~c.loaded => c.recs = << >> /\ c.size = 0 /\ con[i] = << >>
    BY <1>5 DEF Holds, Fresh
  <2> QED
    BY <1>2, <2>1, <2>2, RoomEmpty
<1>7. r \in RecordLists /\ Room(r) = c.used + rec.room
  BY <1>6, RoomAppended
<1> HIDE DEF c, fresh, i, r
<1>8. d \in ChunkSet
  <2>1. Append(c.recs, rec) \in RecordLists
    BY <1>2, RoomAppended
  <2>2. c.size + fresh \in Nat /\ c.used + rec.room \in Nat
    BY <1>2, <1>3
  <2> QED
    BY <1>2, <2>1, <2>2, Zenon DEF ChunkSet
<1>9. /\ d.recs = Append(c.recs, rec) /\ d.loaded /\ d.size = c.size + fresh
      /\ d.used = c.used + rec.room
  BY <1>2 DEF ChunkSet
<1>10. ~d.saved
  BY <1>2 DEF ChunkSet, c, i
<1> HIDE DEF d, new
<1>11. Put(st, new, i, d, fresh)
  BY <1>1, <1>3, <1>4, <1>8, <1>9 DEF Put, c
<1>12. Holds(d, st.cache.blocks[i], r, big) /\ ~Fresh(d)
  <2>1. d.recs = r
    BY <1>6, <1>9 DEF r
  <2>2. Room(r) <= d.size /\ d.size <= big
    BY <1>1, <1>2, <1>3, <1>6, <1>7, <1>9, SMTT(30)
  <2>3. Room(r) <= big
    <3>1. Room(r) \in Nat /\ d.size \in Nat
      BY <1>2, <1>3, <1>7, <1>9
    <3> QED
      BY <1>1, <2>2, <3>1
  <2> QED
    BY <1>7, <1>9, <1>10, <2>1, <2>2, <2>3 DEF Holds, Fresh
<1>13. Sound(new, [con EXCEPT ![i] = r], big)
  BY <1>11, <1>12, PutSound DEF i
<1>14. /\ new.recent = st.recent /\ new.active = st.active /\ new.total = st.total + fresh
       /\ Len(new.chunks) = n /\ new.chunks[i] = d
       /\ \A j \in 1..n : j # i => new.chunks[j] = st.chunks[j]
  BY <1>1, <1>11, PutIs
<1>15. NoFresh(new)
  <2>1. ASSUME NEW j \in 1..n PROVE ~Fresh(new.chunks[j])
    <3>1. CASE j = i
      BY <1>12, <1>14, <3>1
    <3>2. CASE j # i
      BY <1>1, <1>14, <3>2 DEF ChunksHold, i
    <3> QED
      BY <3>1, <3>2
  <2> QED
    BY <1>14, <2>1 DEF NoFresh
<1>16. Bounded(st) => Bounded(new)
  <2>1. ActiveSize(st) = c.size /\ ActiveSize(new) = c.size + fresh
    BY <1>1, <1>9, <1>14 DEF ActiveSize, i, c
  <2>2. Limit \in Nat
    BY Constants DEF Limit
  <2> QED
    BY <1>1, <1>2, <1>3, <1>14, <2>1, <2>2 DEF Bounded
<1> QED
  BY <1>9, <1>13, <1>14, <1>15, <1>16 DEF OneMore, i, c, new, r

\* The state new is st, except that chunk i holds r, which takes the same room.
Replaces(st, new, con, i, r, big) ==
    /\ Sound(new, [con EXCEPT ![i] = r], big) /\ NoFresh(new)
    /\ new.recent = st.recent /\ new.active = st.active /\ new.total = st.total
    /\ Len(new.chunks) = Len(st.chunks)
    /\ \A j \in 1..Len(st.chunks) :
          /\ st.chunks[j].loaded => new.chunks[j].loaded
          /\ new.chunks[j].size = st.chunks[j].size

\* A record of a chunk in memory is replaced by one that takes the same room.
LEMMA ReplacedSound ==
    ASSUME NEW st, NEW con, NEW big, Sound(st, con, big), NoFresh(st),
           NEW i \in 1..Len(st.chunks), st.chunks[i].loaded,
           NEW k \in 1..Len(con[i]), NEW v \in Values \union RawValues \union {Freed}
    PROVE  Replaces(st, Replaced(st, i, k, v), con, i, Revalued(con[i], k, v), big)
<1> DEFINE c == st.chunks[i]
           n == Len(st.chunks)
           r == Revalued(con[i], k, v)
           d == [c EXCEPT !.recs = Revalued(c.recs, k, v), !.saved = FALSE]
           new == Replaced(st, i, k, v)
           put == [st EXCEPT !.chunks = [st.chunks EXCEPT ![i] = d], !.total = st.total + 0]
<1>1. /\ st \in StateSet /\ ChunksHold(st, con, big) /\ RecentSound(st) /\ big \in Nat
      /\ st.total \in Int /\ Len(con) = n /\ con \in Seq(RecordLists) /\ n \in Nat
      /\ c \in ChunkSet /\ c.size \in Nat /\ c.used \in Nat
  BY StateIs DEF Sound, ChunksHold
<1>2. Holds(c, st.cache.blocks[i], con[i], big)
  BY <1>1 DEF ChunksHold
<1>3. /\ con[i] \in RecordLists /\ c.recs = con[i] /\ c.used = Room(con[i])
      /\ Room(con[i]) <= big /\ Room(con[i]) <= c.size /\ c.size <= big
  BY <1>2 DEF Holds
<1>4. /\ r \in RecordLists /\ Room(r) = Room(con[i])
      /\ con[i][k].value = v => r = con[i]
  BY <1>3, RoomRevalued
<1>5. CASE con[i][k].value = v
  <2>1. new = st
    BY <1>3, <1>5 DEF Replaced
  <2>2. [con EXCEPT ![i] = r] = con
    BY <1>1, <1>4, <1>5
  <2> HIDE DEF new, r
  <2> QED
    BY <2>1, <2>2 DEF Replaces, new, r
<1>6. CASE con[i][k].value # v
  <2>1. new = [st EXCEPT !.chunks = [st.chunks EXCEPT ![i] = d]]
    BY <1>3, <1>6 DEF Replaced
  <2>2. new = put
    <3>1. st.total + 0 = st.total
      BY <1>1
    <3>2. \A cs : [st EXCEPT !.chunks = cs] = [st EXCEPT !.chunks = cs, !.total = st.total]
      BY <1>1, Zenon DEF StateSet
    <3> QED
      BY <2>1, <3>1, <3>2
  <2>3. d.recs = r /\ d.size = c.size /\ d.used = c.used
    BY <1>1, <1>3 DEF ChunkSet
  <2>4. d.loaded /\ ~d.saved
    BY <1>1 DEF ChunkSet
  <2>5. d \in ChunkSet
    BY <1>1, <1>3, <1>4 DEF ChunkSet
  <2> HIDE DEF d, c, r, new
  <2>6. Put(st, new, i, d, 0)
    BY <1>1, <2>2, <2>3, <2>5 DEF Put, c
  <2>7. Holds(d, st.cache.blocks[i], r, big) /\ ~Fresh(d)
    BY <1>3, <1>4, <2>3, <2>4 DEF Holds, Fresh
  <2>8. Listed(st.recent, i)
    BY <1>1 DEF RecentSound
  <2>9. Sound(new, [con EXCEPT ![i] = r], big)
    BY <2>6, <2>7, <2>8, PutSound
  <2>10. /\ new.recent = st.recent /\ new.active = st.active /\ new.total = st.total + 0
         /\ Len(new.chunks) = n /\ new.chunks[i] = d
         /\ \A j \in 1..n : j # i => new.chunks[j] = st.chunks[j]
    BY <1>1, <2>6, PutIs
  <2>11. \A j \in 1..n : /\ st.chunks[j].loaded => new.chunks[j].loaded
                         /\ new.chunks[j].size = st.chunks[j].size
                         /\ ~Fresh(new.chunks[j])
    BY <2>3, <2>4, <2>7, <2>10 DEF NoFresh, c
  <2> QED
    <3>1. Replaces(st, new, con, i, r, big)
      BY <1>1, <2>9, <2>10, <2>11 DEF NoFresh, Replaces
    <3> QED
      BY <3>1 DEF new, r
<1> QED
  BY <1>5, <1>6

\* A record is added to the active chunk, if there is one in which it fits.
LEMMA AllocatedHere ==
    ASSUME NEW st, NEW con, NEW big, Sound(st, con, big), NoFresh(st),
           NEW rec \in RecordSet, rec.room <= big, ChunkSize <= big,
           st.active # 0, ~st.chunks[st.active].saved, HasRoom(st, rec)
    PROVE  /\ Sound(Allocated(st, rec),
                    [con EXCEPT ![st.active] = Append(con[st.active], rec)], big)
           /\ NoFresh(Allocated(st, rec))
           /\ Allocated(st, rec).recent = st.recent /\ Allocated(st, rec).active = st.active
           /\ Len(Allocated(st, rec).chunks) = Len(st.chunks)
           /\ st.active \in 1..Len(st.chunks)
           /\ Allocated(st, rec).chunks[st.active].loaded
           /\ \A j \in 1..Len(st.chunks) :
                 j # st.active => Allocated(st, rec).chunks[j] = st.chunks[j]
           /\ Bounded(st) => Bounded(Allocated(st, rec))
<1>1. Allocated(st, rec) = Appended(st, rec)
  BY DEF Allocated
<1>2. st.active \in 1..Len(st.chunks) /\ RecentSound(st)
  <2>1. st \in StateSet /\ RecentSound(st)
    BY DEF Sound
  <2>2. st.active \in Nat /\ Len(st.chunks) \in Nat
    BY <2>1, StateIs
  <2>3. st.active <= Len(st.chunks)
    BY <2>1 DEF RecentSound
  <2> QED
    BY <2>1, <2>2, <2>3
<1>3. st.chunks[st.active].loaded
  BY <1>2 DEF NoFresh, Fresh
<1>4. Listed(st.recent, st.active)
  BY <1>2, <1>3 DEF RecentSound
<1>5. OneMore(st, Appended(st, rec), con, rec, big)
  <2>1. Fits(st, rec, big)
    BY <1>2, <1>4 DEF Fits
  <2> QED
    BY <2>1, AppendedSound
<1> QED
  BY <1>1, <1>2, <1>3, <1>5 DEF OneMore

\* Or else it starts the next chunk.
LEMMA AllocatedNext ==
    ASSUME NEW st, NEW con, NEW big, Sound(st, con, big), NoFresh(st),
           NEW rec \in RecordSet, rec.room <= big, ChunkSize <= big,
           st.active = 0 \/ ~HasRoom(st, rec), Len(st.chunks) + 1 <= MaxChunks
    PROVE  /\ Sound(Allocated(st, rec), Append(con, <<rec>>), big)
           /\ NoFresh(Allocated(st, rec))
           /\ Allocated(st, rec).recent = ToFront(st.recent, Len(st.chunks) + 1)
           /\ Allocated(st, rec).active = Len(st.chunks) + 1
           /\ Len(Allocated(st, rec).chunks) = Len(st.chunks) + 1
           /\ Allocated(st, rec).chunks[Len(st.chunks) + 1].loaded
           /\ \A j \in 1..Len(st.chunks) :
                 Allocated(st, rec).chunks[j] = Activated(st).chunks[j]
           /\ Bounded(Activated(st)) => Bounded(Allocated(st, rec))
<1> DEFINE n == Len(st.chunks)
           mid == Activated(st)
           own == Append(con, << >>)
           new == Appended(mid, rec)
<1>1. /\ Sound(mid, own, big) /\ mid.recent = ToFront(st.recent, n + 1)
      /\ mid.active = n + 1 /\ Len(mid.chunks) = n + 1
      /\ mid.chunks[n + 1] = NewChunk
  BY ActivatedSound
<1>2. /\ n \in Nat /\ Distinct(st.recent) /\ con \in Seq(RecordLists) /\ Len(con) = n
      /\ big \in Nat
  BY StateIs DEF Sound, RecentSound, ChunksHold
<1> HIDE DEF mid
<1>3. ~mid.chunks[n + 1].loaded /\ ~mid.chunks[n + 1].saved
  BY <1>1, <1>2, NewChunkIs
<1>4. HasRoom(mid, rec)
  BY <1>1, <1>3 DEF HasRoom
<1>5. Allocated(st, rec) = new
  BY <1>4 DEF Allocated, mid
<1>6. Listed(mid.recent, n + 1) /\ n + 1 \in 1..Len(mid.chunks)
  BY <1>1, <1>2, ToFrontIs
<1>7. /\ Sound(new, [own EXCEPT ![n + 1] = Append(own[n + 1], rec)], big)
      /\ NoFresh(new)
      /\ new.recent = mid.recent /\ new.active = n + 1
      /\ Len(new.chunks) = n + 1 /\ new.chunks[n + 1].loaded
      /\ \A j \in 1..(n + 1) : j # n + 1 => new.chunks[j] = mid.chunks[j]
      /\ Bounded(mid) => Bounded(new)
  <2>1. Fits(mid, rec, big)
    BY <1>1, <1>3, <1>4, <1>6 DEF Fits
  <2>2. OneMore(mid, new, own, rec, big)
    BY <1>1, <2>1, AppendedSound
  <2> HIDE DEF new, own
  <2> QED
    BY <1>1, <2>2 DEF OneMore
<1> HIDE DEF new
<1>8. [own EXCEPT ![n + 1] = Append(own[n + 1], rec)] = Append(con, <<rec>>)
  <2>1. << >> \in RecordLists /\ Append(<< >>, rec) = <<rec>> /\ <<rec>> \in RecordLists
    <3>1. << >> \in RecordLists /\ <<rec>> \in RecordLists
      BY RoomEmpty DEF RecordLists
    <3>2. Append(<< >>, rec) = <<rec>>
      OBVIOUS
    <3> QED
      BY <3>1, <3>2
  <2>2. /\ own \in Seq(RecordLists) /\ Len(own) = n + 1 /\ own[n + 1] = << >>
        /\ \A j \in 1..n : own[j] = con[j]
    BY <1>2, <2>1, AppendProperties
  <2>3. /\ Append(con, <<rec>>) \in Seq(RecordLists) /\ Len(Append(con, <<rec>>)) = n + 1
        /\ Append(con, <<rec>>)[n + 1] = <<rec>>
        /\ \A j \in 1..n : Append(con, <<rec>>)[j] = con[j]
    BY <1>2, <2>1, AppendProperties
  <2> DEFINE up == [own EXCEPT ![n + 1] = <<rec>>]
  <2> HIDE DEF own
  <2>4. up \in Seq(RecordLists) /\ Len(up) = n + 1
    BY <1>2, <2>1, <2>2, ExceptSeq
  <2>5. DOMAIN own = 1..(n + 1)
    BY <2>2, LenProperties
  <2>6. up[n + 1] = <<rec>> /\ \A j \in 1..n : up[j] = con[j]
    BY <1>2, <2>2, <2>5
  <2> HIDE DEF up
  <2>7. \A j \in 1..(n + 1) : up[j] = Append(con, <<rec>>)[j]
    <3> SUFFICES ASSUME NEW j \in 1..(n + 1) PROVE up[j] = Append(con, <<rec>>)[j]
      OBVIOUS
    <3>1. j = n + 1 \/ j \in 1..n
      BY <1>2
    <3> QED
      BY <2>3, <2>6, <3>1
  <2>8. up = Append(con, <<rec>>)
    BY <2>3, <2>4, <2>7, SeqEqual
  <2> QED
    BY <2>1, <2>2, <2>8 DEF up
<1> QED
  <2>1. \A j \in 1..n : j \in 1..(n + 1) /\ j # n + 1
    BY <1>2
  <2>2. \A j \in 1..n : new.chunks[j] = mid.chunks[j]
    BY <1>7, <2>1
  <2> QED
    BY <1>1, <1>5, <1>7, <1>8, <2>2 DEF mid

-----------------------------------------------------------------------------
(* What stays in memory *)

\* The room taken by those that stay among the first n.
IsStaying(s, st, reserved, excluded, n) ==
    s = [j \in 0..n |->
           IF j = 0 THEN reserved
           ELSE s[j - 1] + (IF Stays(st, j, s[j - 1], excluded) THEN SizeAt(st, j) ELSE 0)]

LEMMA StayingNext ==
    ASSUME NEW st, NEW reserved, NEW excluded, NEW n \in Nat,
           NEW s, IsStaying(s, st, reserved, excluded, n)
    PROVE  \E t : IsStaying(t, st, reserved, excluded, n + 1)
<1> DEFINE next(x, j) == x + (IF Stays(st, j, x, excluded) THEN SizeAt(st, j) ELSE 0)
           t == [j \in 0..(n + 1) |-> IF j = n + 1 THEN next(s[n], n + 1) ELSE s[j]]
<1>1. \A j \in 0..n : s[j] = IF j = 0 THEN reserved ELSE next(s[j - 1], j)
  BY DEF IsStaying
<1> HIDE DEF next
<1>2. t[n] = s[n] /\ t[n + 1] = next(s[n], n + 1)
  OBVIOUS
<1>3. ASSUME NEW j \in 0..(n + 1)
      PROVE  t[j] = IF j = 0 THEN reserved ELSE next(t[j - 1], j)
  <2>1. CASE j = n + 1
    BY <1>2, <2>1
  <2>2. CASE j # n + 1 /\ j # 0
    <3>1. j \in 0..n /\ j - 1 \in 0..n /\ j - 1 # n + 1 /\ j - 1 \in 0..(n + 1)
      BY <2>2
    <3> QED
      BY <1>1, <2>2, <3>1
  <2>3. CASE j = 0
    BY <1>1, <2>3
  <2> QED
    BY <2>1, <2>2, <2>3
<1>4. t = [j \in 0..(n + 1) |-> t[j]]
  OBVIOUS
<1> HIDE DEF t
<1>5. IsStaying(t, st, reserved, excluded, n + 1)
  BY <1>3, <1>4 DEF IsStaying, next
<1> QED
  BY <1>5

LEMMA StayingIs ==
    ASSUME NEW st, st \in StateSet, NEW reserved \in Nat, NEW excluded,
           \A j \in 1..Len(st.recent) : st.recent[j] \in 1..Len(st.chunks)
    PROVE  /\ Staying(st, reserved, excluded)[0] = reserved
           /\ \A j \in 0..Len(st.recent) : Staying(st, reserved, excluded)[j] \in Nat
           /\ \A j \in 1..Len(st.recent) :
                 /\ SizeAt(st, j) \in Nat
                 /\ Staying(st, reserved, excluded)[j] =
                       Staying(st, reserved, excluded)[j - 1]
                       + (IF Stays(st, j, Staying(st, reserved, excluded)[j - 1], excluded)
                          THEN SizeAt(st, j) ELSE 0)
<1> DEFINE n == Len(st.recent)
           s == Staying(st, reserved, excluded)
           G == {m \in Nat : \E t : IsStaying(t, st, reserved, excluded, m)}
<1>1. n \in Nat /\ DOMAIN st.recent = 1..n
  BY StateIs, ListIs
<1>2. 0 \in G
  <2> DEFINE t == [j \in 0..0 |-> reserved]
  <2>1. IsStaying(t, st, reserved, excluded, 0)
    BY DEF IsStaying
  <2> QED
    BY <2>1
<1>3. ASSUME NEW m \in 0..(n - 1), m \in G PROVE m + 1 \in G
  <2>1. PICK t : IsStaying(t, st, reserved, excluded, m)
    BY <1>3
  <2>2. m \in Nat /\ m + 1 \in Nat
    BY <1>1
  <2>3. \E u : IsStaying(u, st, reserved, excluded, m + 1)
    BY <2>1, <2>2, StayingNext
  <2> QED
    BY <2>2, <2>3
<1> HIDE DEF G
<1>4. \A m \in 0..n : m \in G
  BY <1>1, <1>2, <1>3, UpTo
<1>5. \E t : IsStaying(t, st, reserved, excluded, n)
  BY <1>1, <1>4 DEF G
<1>6. s = CHOOSE t : IsStaying(t, st, reserved, excluded, n)
  BY DEF Staying, IsStaying
<1>7. IsStaying(s, st, reserved, excluded, n)
  BY <1>5, <1>6
<1> HIDE DEF s
<1>8. /\ s[0] = reserved
      /\ \A j \in 1..n : s[j] =
            s[j - 1] + (IF Stays(st, j, s[j - 1], excluded) THEN SizeAt(st, j) ELSE 0)
  <2>1. \A j \in 0..n : s[j] =
           IF j = 0 THEN reserved
           ELSE s[j - 1] + (IF Stays(st, j, s[j - 1], excluded) THEN SizeAt(st, j) ELSE 0)
    BY <1>7, Zenon DEF IsStaying
  <2>2. 0 \in 0..n /\ \A j \in 1..n : j \in 0..n /\ j # 0
    BY <1>1
  <2> QED
    BY <2>1, <2>2
<1>9. \A j \in 1..n : SizeAt(st, j) \in Nat
  BY StateIs DEF SizeAt
<1>10. \A j \in 0..n : s[j] \in Nat
  <2> DEFINE H == {m \in 0..n : s[m] \in Nat}
  <2>1. 0 \in H
    BY <1>1, <1>8
  <2>2. ASSUME NEW m \in 0..(n - 1), m \in H PROVE m + 1 \in H
    <3>1. m + 1 \in 1..n /\ m + 1 \in 0..n /\ (m + 1) - 1 = m
      BY <1>1
    <3>2. s[m + 1] = s[m] + (IF Stays(st, m + 1, s[m], excluded) THEN SizeAt(st, m + 1) ELSE 0)
      BY <1>8, <3>1
    <3>3. SizeAt(st, m + 1) \in Nat
      BY <1>9, <3>1
    <3> QED
      BY <2>2, <3>1, <3>2, <3>3
  <2> HIDE DEF H
  <2>3. \A m \in 0..n : m \in H
    BY <1>1, <2>1, <2>2, UpTo
  <2> QED
    BY <2>3 DEF H
<1> QED
  BY <1>8, <1>9, <1>10 DEF s

LEMMA SizesBounded ==
    ASSUME NEW st, NEW con, NEW big, Sound(st, con, big)
    PROVE  /\ st \in StateSet /\ big \in Nat /\ Distinct(st.recent)
           /\ Len(st.recent) \in Nat /\ Len(st.chunks) \in Nat
           /\ DOMAIN st.recent = 1..Len(st.recent)
           /\ \A j \in 1..Len(st.recent) : st.recent[j] \in 1..Len(st.chunks)
           /\ \A i \in 1..Len(st.chunks) : st.chunks[i].size \in Nat /\ st.chunks[i].size <= big
<1>1. st \in StateSet /\ big \in Nat /\ RecentSound(st) /\ ChunksHold(st, con, big)
  BY DEF Sound
<1>2. ASSUME NEW i \in 1..Len(st.chunks)
      PROVE  st.chunks[i].size \in Nat /\ st.chunks[i].size <= big
  <2>1. Holds(st.chunks[i], st.cache.blocks[i], con[i], big)
    BY <1>1 DEF ChunksHold
  <2>2. st.chunks[i].size \in Nat
    BY <1>1, StateIs
  <2> QED
    BY <1>1, <2>1, <2>2 DEF Holds
<1> QED
  BY <1>1, <1>2, StateIs, ListIs DEF RecentSound

\* The first l of the recency list stay in memory, if l of the largest buffers fit.
LEMMA SwapsFirst ==
    ASSUME NEW st, NEW con, NEW big, Sound(st, con, big), NEW excluded,
           NEW l \in 0..Len(st.recent), l * big < MaxSize
    PROVE  \A j \in 1..l : st.recent[j] \notin Swaps(st, 0, excluded)
<1> DEFINE n == Len(st.recent)
           s == Staying(st, 0, excluded)
<1>1. /\ st \in StateSet /\ big \in Nat /\ n \in Nat /\ DOMAIN st.recent = 1..n
      /\ \A j \in 1..n : st.recent[j] \in 1..Len(st.chunks)
      /\ \A j, k \in 1..n : st.recent[j] = st.recent[k] => j = k
  BY SizesBounded DEF Distinct
<1>2. /\ s[0] = 0 /\ \A j \in 0..n : s[j] \in Nat
      /\ \A j \in 1..n : /\ SizeAt(st, j) \in Nat
                         /\ s[j] = s[j - 1] + (IF Stays(st, j, s[j - 1], excluded)
                                               THEN SizeAt(st, j) ELSE 0)
  BY <1>1, StayingIs
<1>3. Swaps(st, 0, excluded) =
        {st.recent[j] : j \in {k \in 1..n : ~Stays(st, k, s[k - 1], excluded)}}
  BY <1>1 DEF Swaps
<1> HIDE DEF s, n
<1>4. \A j \in 1..n : SizeAt(st, j) <= big
  BY <1>1, SizesBounded DEF SizeAt
<1>5. \A m \in 0..n : s[m] <= m * big
  <2> DEFINE G == {m \in 0..n : s[m] <= m * big}
  <2>1. 0 \in G
    BY <1>1, <1>2
  <2>2. ASSUME NEW m \in 0..(n - 1), m \in G PROVE m + 1 \in G
    <3>1. m \in Nat /\ m + 1 \in 1..n /\ m + 1 \in 0..n /\ (m + 1) - 1 = m
      BY <1>1
    <3>2. s[m] \in Nat /\ s[m] <= m * big /\ m * big \in Nat
      BY <1>1, <1>2, <2>2, <3>1
    <3>3. s[m + 1] \in Nat /\ s[m + 1] <= s[m] + big
      <4>1. /\ s[m + 1] \in Nat /\ SizeAt(st, m + 1) \in Nat /\ SizeAt(st, m + 1) <= big
            /\ s[m + 1] = s[m] + (IF Stays(st, m + 1, s[m], excluded)
                                  THEN SizeAt(st, m + 1) ELSE 0)
        BY <1>2, <1>4, <3>1
      <4> QED
        BY <1>1, <3>2, <4>1
    <3>4. (m + 1) * big = m * big + big
      BY <1>1, <3>1
    <3> QED
      BY <1>1, <3>1, <3>2, <3>3, <3>4
  <2> HIDE DEF G
  <2>3. \A m \in 0..n : m \in G
    BY <1>1, <2>1, <2>2, UpTo
  <2> QED
    BY <2>3 DEF G
<1>6. ASSUME NEW j \in 1..l, st.recent[j] \in Swaps(st, 0, excluded) PROVE FALSE
  <2>1. PICK k \in 1..n : st.recent[k] = st.recent[j] /\ ~Stays(st, k, s[k - 1], excluded)
    BY <1>3, <1>6
  <2>2. j \in 1..n /\ j - 1 \in 0..n /\ j - 1 \in Nat /\ l \in Nat
    BY <1>1 DEF n
  <2>3. k = j
    BY <1>1, <2>1, <2>2
  <2>4. s[j - 1] \in Nat /\ s[j - 1] <= (j - 1) * big /\ SizeAt(st, j) \in Nat /\ SizeAt(st, j) <= big
    BY <1>2, <1>4, <1>5, <2>2
  <2>5. (j - 1) * big + big = j * big /\ j * big <= l * big
    <3>1. j * big = (j - 1) * big + big
      BY <1>1, <2>2
    <3>2. l * big = j * big + (l - j) * big
      BY <1>1, <2>2
    <3>3. (l - j) * big \in Nat /\ j * big \in Nat
      BY <1>1, <2>2
    <3> QED
      BY <3>1, <3>2, <3>3
  <2>6. (j - 1) * big \in Nat /\ j * big \in Nat /\ l * big \in Nat /\ MaxSize \in Nat
    BY <1>1, <2>2, Constants
  <2>7. SizeAt(st, j) + s[j - 1] < MaxSize
    <3> DEFINE p == (j - 1) * big
               q == j * big
               u == l * big
    <3>1. /\ p \in Nat /\ q \in Nat /\ u \in Nat /\ p + big = q /\ q <= u /\ u < MaxSize
          /\ s[j - 1] <= p
      BY <1>1, <2>2, <2>4, <2>5, <2>6
    <3> HIDE DEF p, q, u
    <3> QED
      BY <1>1, <2>4, <2>6, <3>1, SMTT(30)
  <2> QED
    BY <2>1, <2>3, <2>7 DEF Stays
<1> QED
  BY <1>6

\* Those of the first m of the recency list that stay.
KeptOf(st, reserved, excluded, m) ==
    {i \in Nat : \E k \in 1..m :
        st.recent[k] = i /\ Stays(st, k, Staying(st, reserved, excluded)[k - 1], excluded)}

\* The sum compact() forms is what those take that stay.
LEMMA KeptSum ==
    ASSUME NEW st, NEW con, NEW big, Sound(st, con, big), NEW reserved \in Nat, NEW excluded
    PROVE  Staying(st, reserved, excluded)[Len(st.recent)]
             = reserved + SizeOf(st.chunks, KeptOf(st, reserved, excluded, Len(st.recent)))
<1> DEFINE n == Len(st.recent)
           s == Staying(st, reserved, excluded)
           K(m) == KeptOf(st, reserved, excluded, m)
           G == {m \in 0..n : s[m] = reserved + SizeOf(st.chunks, K(m))}
<1>1. /\ st \in StateSet /\ n \in Nat /\ Len(st.chunks) \in Nat
      /\ \A j \in 1..n : st.recent[j] \in 1..Len(st.chunks)
      /\ \A j, k \in 1..n : st.recent[j] = st.recent[k] => j = k
      /\ st.chunks \in ChunkLists
  BY SizesBounded, StateIs DEF Distinct
<1>2. /\ s[0] = reserved /\ \A j \in 0..n : s[j] \in Nat
      /\ \A j \in 1..n : /\ SizeAt(st, j) \in Nat
                         /\ s[j] = s[j - 1] + (IF Stays(st, j, s[j - 1], excluded)
                                               THEN SizeAt(st, j) ELSE 0)
  BY <1>1, StayingIs
<1>3. \A m : K(m) = {i \in Nat : \E k \in 1..m : st.recent[k] = i /\ Stays(st, k, s[k - 1], excluded)}
  BY DEF KeptOf
<1> HIDE DEF s, n, K
<1>4. 0 \in G
  <2>1. K(0) = {}
    BY <1>3
  <2>2. SizeOf(st.chunks, K(0)) = 0
    BY <1>1, <2>1, SizeNone
  <2> QED
    BY <1>1, <1>2, <2>2
<1>5. ASSUME NEW m \in 0..(n - 1), m \in G PROVE m + 1 \in G
  <2>1. m \in Nat /\ m + 1 \in 1..n /\ m + 1 \in 0..n /\ (m + 1) - 1 = m
    BY <1>1
  <2>2. s[m] = reserved + SizeOf(st.chunks, K(m)) /\ SizeOf(st.chunks, K(m)) \in Nat
    BY <1>1, <1>5, SizeTyped
  <2>3. CASE Stays(st, m + 1, s[m], excluded)
    <3> DEFINE k == st.recent[m + 1]
    <3>1. k \in 1..Len(st.chunks) /\ k \in Nat /\ st.chunks[k].size = SizeAt(st, m + 1)
      BY <1>1, <2>1 DEF SizeAt
    <3>2. k \in K(m + 1)
      BY <1>3, <2>1, <2>3, <3>1
    <3>3. k \notin K(m)
      <4> SUFFICES ASSUME NEW j \in 1..m, st.recent[j] = k PROVE FALSE
        BY <1>3
      <4>1. j \in 1..n /\ j # m + 1
        BY <1>1, <2>1
      <4> QED
        BY <1>1, <2>1, <4>1
    <3>4. \A i : i # k => (i \in K(m + 1) <=> i \in K(m))
      <4>1. ASSUME NEW i, i # k, i \in K(m + 1) PROVE i \in K(m)
        <5>1. i \in Nat
          BY <1>3, <4>1
        <5>2. PICK j \in 1..(m + 1) : st.recent[j] = i /\ Stays(st, j, s[j - 1], excluded)
          BY <1>3, <4>1
        <5>3. j \in 1..m
          BY <2>1, <4>1, <5>2
        <5> QED
          BY <1>3, <5>1, <5>2, <5>3
      <4>2. ASSUME NEW i, i \in K(m) PROVE i \in K(m + 1)
        <5>1. i \in Nat
          BY <1>3, <4>2
        <5>2. PICK j \in 1..m : st.recent[j] = i /\ Stays(st, j, s[j - 1], excluded)
          BY <1>3, <4>2
        <5>3. j \in 1..(m + 1)
          BY <2>1
        <5> QED
          BY <1>3, <5>1, <5>2, <5>3
      <4> QED
        BY <4>1, <4>2
    <3> HIDE DEF k
    <3>5. SizeAt(st, m + 1) \in Nat
      BY <1>2, <2>1
    <3>6. Joins(st.chunks, K(m), K(m + 1), k)
      BY <3>1, <3>2, <3>3, <3>4 DEF Joins
    <3>8. SizeOf(st.chunks, K(m + 1)) = SizeOf(st.chunks, K(m)) + SizeAt(st, m + 1)
      BY <1>1, <3>1, <3>6, SizeJoined
    <3>9. s[m + 1] = s[m] + SizeAt(st, m + 1)
      BY <1>2, <2>1, <2>3
    <3> QED
      BY <2>1, <2>2, <3>5, <3>8, <3>9
  <2>4. CASE ~Stays(st, m + 1, s[m], excluded)
    <3>1. K(m + 1) = K(m)
      <4>1. ASSUME NEW i \in K(m + 1) PROVE i \in K(m)
        <5>1. i \in Nat
          BY <1>3, <4>1
        <5>2. PICK j \in 1..(m + 1) : st.recent[j] = i /\ Stays(st, j, s[j - 1], excluded)
          BY <1>3, <4>1
        <5>3. j # m + 1
          BY <2>1, <2>4, <5>2
        <5>4. j \in 1..m
          BY <2>1, <5>3
        <5> QED
          BY <1>3, <5>1, <5>2, <5>4
      <4>2. ASSUME NEW i \in K(m) PROVE i \in K(m + 1)
        <5>1. i \in Nat
          BY <1>3, <4>2
        <5>2. PICK j \in 1..m : st.recent[j] = i /\ Stays(st, j, s[j - 1], excluded)
          BY <1>3, <4>2
        <5>3. j \in 1..(m + 1)
          BY <2>1
        <5> QED
          BY <1>3, <5>1, <5>2, <5>3
      <4> QED
        BY <4>1, <4>2
    <3>2. s[m + 1] = s[m] + 0
      BY <1>2, <2>1, <2>4
    <3> QED
      BY <2>1, <2>2, <3>1, <3>2
  <2> QED
    BY <2>3, <2>4
<1> HIDE DEF G
<1>6. \A m \in 0..n : m \in G
  BY <1>1, <1>4, <1>5, UpTo
<1> QED
  BY <1>1, <1>6 DEF G, s, n, K

\* What is excluded from compaction was used last.
Excludes(st, excluded) == excluded = 0 \/ (Len(st.recent) >= 1 /\ st.recent[1] = excluded)

\* What stays is no more than the maximum and the active chunk.
LEMMA StayingBounded ==
    ASSUME NEW st, NEW con, NEW big, Sound(st, con, big), big <= MaxSize,
           NEW reserved \in Nat, NEW excluded, Excludes(st, excluded)
    PROVE  /\ ActiveSize(st) \in Nat
           /\ Staying(st, reserved, excluded)[Len(st.recent)] <= reserved + MaxSize + ActiveSize(st)
<1> DEFINE n == Len(st.recent)
           s == Staying(st, reserved, excluded)
<1>1. /\ st \in StateSet /\ big \in Nat /\ n \in Nat /\ Len(st.chunks) \in Nat
      /\ \A j \in 1..n : st.recent[j] \in 1..Len(st.chunks)
      /\ \A j, k \in 1..n : st.recent[j] = st.recent[k] => j = k
      /\ \A i \in 1..Len(st.chunks) : st.chunks[i].size \in Nat /\ st.chunks[i].size <= big
      /\ MaxSize \in Nat
  BY SizesBounded, Constants DEF Distinct
<1>2. /\ s[0] = reserved /\ \A j \in 0..n : s[j] \in Nat
      /\ \A j \in 1..n : /\ SizeAt(st, j) \in Nat
                         /\ s[j] = s[j - 1] + (IF Stays(st, j, s[j - 1], excluded)
                                               THEN SizeAt(st, j) ELSE 0)
  <2>1. /\ st \in StateSet /\ reserved \in Nat
        /\ \A j \in 1..Len(st.recent) : st.recent[j] \in 1..Len(st.chunks)
    BY <1>1
  <2> QED
    BY ONLY <2>1, StayingIs
<1>3. ActiveSize(st) \in Nat
  <2>1. st.active \in Nat /\ st.active <= Len(st.chunks)
    BY <1>1, StateIs DEF Sound, RecentSound
  <2> QED
    BY <1>1, <2>1 DEF ActiveSize
<1>4. \A j \in 1..n : SizeAt(st, j) <= big
  BY <1>1 DEF SizeAt
<1> HIDE DEF s, n
<1> DEFINE Seen(m) == \E k \in 1..m : st.recent[k] = st.active
           G == {m \in 0..n : s[m] <= reserved + MaxSize + (IF Seen(m) THEN ActiveSize(st) ELSE 0)}
<1>5. 0 \in G
  BY <1>1, <1>2, <1>3
<1>6. ASSUME NEW m \in 0..(n - 1), m \in G PROVE m + 1 \in G
  <2>1. m \in Nat /\ m + 1 \in 1..n /\ m + 1 \in 0..n /\ (m + 1) - 1 = m /\ m \in 0..n
    BY <1>1
  <2>2. /\ s[m] \in Nat /\ s[m + 1] \in Nat /\ SizeAt(st, m + 1) \in Nat
        /\ SizeAt(st, m + 1) <= big
        /\ s[m + 1] = s[m] + (IF Stays(st, m + 1, s[m], excluded) THEN SizeAt(st, m + 1) ELSE 0)
    BY <1>2, <1>4, <2>1
  <2>3. s[m] <= reserved + MaxSize + (IF Seen(m) THEN ActiveSize(st) ELSE 0)
    BY <1>6
  <2>4. Seen(m) => Seen(m + 1)
    BY <2>1
  <2>5. CASE st.recent[m + 1] = st.active
    <3>1. Seen(m + 1)
      BY <2>1, <2>5
    <3>2. ~Seen(m)
      BY <1>1, <2>1, <2>5
    <3>3. SizeAt(st, m + 1) = ActiveSize(st)
      BY <1>1, <2>1, <2>5 DEF SizeAt, ActiveSize
    <3> HIDE DEF Seen
    <3>4. s[m + 1] <= s[m] + ActiveSize(st)
      BY <1>3, <2>2, <3>3
    <3>5. s[m] <= reserved + MaxSize
      BY <1>1, <2>3, <3>2
    <3>6. s[m + 1] <= reserved + MaxSize + ActiveSize(st)
      BY <1>1, <1>3, <2>2, <3>4, <3>5
    <3> QED
      BY <2>1, <3>1, <3>6
  <2>6. CASE st.recent[m + 1] # st.active
    <3> HIDE DEF Seen
    <3>1. CASE SizeAt(st, m + 1) + s[m] < MaxSize
      <4>1. s[m + 1] <= reserved + MaxSize
        BY <1>1, <2>2, <3>1
      <4> QED
        BY <1>1, <1>3, <2>1, <2>2, <4>1
    <3>2. CASE ~(SizeAt(st, m + 1) + s[m] < MaxSize) /\ st.recent[m + 1] = excluded
      <4>1. excluded \in 1..Len(st.chunks) /\ excluded # 0
        BY <1>1, <2>1, <3>2
      <4>2. st.recent[1] = excluded /\ 1 \in 1..n
        BY <1>1, <4>1 DEF Excludes, n
      <4>3. m = 0
        BY <1>1, <2>1, <3>2, <4>2
      <4>4. s[m + 1] <= reserved + MaxSize
        BY <1>1, <1>2, <2>2, <4>3
      <4> QED
        BY <1>1, <1>3, <2>1, <2>2, <4>4
    <3>3. CASE ~(SizeAt(st, m + 1) + s[m] < MaxSize) /\ st.recent[m + 1] # excluded
      <4>1. ~Stays(st, m + 1, s[m], excluded)
        BY <2>6, <3>3 DEF Stays
      <4>2. s[m + 1] = s[m]
        BY <2>2, <4>1
      <4> QED
        BY <1>1, <1>3, <2>1, <2>2, <2>3, <2>4, <4>2
    <3> QED
      BY <3>1, <3>2, <3>3
  <2> QED
    BY <2>5, <2>6
<1> HIDE DEF G
<1>7. \A m \in 0..n : m \in G
  BY <1>1, <1>5, <1>6, UpTo
<1> HIDE DEF Seen
<1>8. s[n] <= reserved + MaxSize + (IF Seen(n) THEN ActiveSize(st) ELSE 0)
  BY <1>1, <1>7 DEF G
<1>9. s[n] \in Nat
  BY <1>1, <1>2
<1>10. s[n] <= reserved + MaxSize + ActiveSize(st)
  BY <1>1, <1>3, <1>8, <1>9
<1> QED
  BY <1>3, <1>10 DEF s, n

LEMMA CompactedBounded ==
    ASSUME NEW st, NEW con, NEW big, Sound(st, con, big), big <= MaxSize,
           NEW reserved \in Nat, NEW excluded, Excludes(st, excluded)
    PROVE  Bounded(Compacted(st, reserved, excluded))
<1> DEFINE S == Swaps(st, reserved, excluded)
           K == KeptOf(st, reserved, excluded, Len(st.recent))
           op == Opened(st)
           s == Staying(st, reserved, excluded)
           n == Len(st.recent)
           new == Compacted(st, reserved, excluded)
<1>1. /\ st \in StateSet /\ RecentSound(st) /\ ChunksHold(st, con, big) /\ TotalExact(st)
      /\ st.total \in Int /\ st.chunks \in ChunkLists
  BY StateIs DEF Sound
<1>2. /\ n \in Nat /\ Len(st.chunks) \in Nat /\ DOMAIN st.recent = 1..n
      /\ \A j \in 1..n : st.recent[j] \in 1..Len(st.chunks)
      /\ \A j, k \in 1..n : st.recent[j] = st.recent[k] => j = k
  BY SizesBounded DEF Distinct
<1>3. S = {st.recent[j] : j \in {k \in 1..n : ~Stays(st, k, s[k - 1], excluded)}}
  BY <1>2 DEF Swaps
<1>4. K = {i \in Nat : \E k \in 1..n : st.recent[k] = i /\ Stays(st, k, s[k - 1], excluded)}
  BY DEF KeptOf
<1>5. ActiveSize(st) \in Nat /\ s[n] <= reserved + MaxSize + ActiveSize(st)
  BY StayingBounded
<1>6. s[n] = reserved + SizeOf(st.chunks, K)
  BY KeptSum
<1>7. /\ new.active = st.active
      /\ \A i \in 1..Len(st.chunks) : i \notin S => new.chunks[i] = st.chunks[i]
  BY <1>1, CompactedIs
<1>8. st.active \notin S /\ Chosen(st, S)
  BY <1>1, SwapsAre
<1> HIDE DEF s, n, K, S
<1>9. ActiveSize(new) = ActiveSize(st)
  <2>1. st.active \in Nat /\ st.active <= Len(st.chunks)
    BY <1>1, StateIs DEF RecentSound
  <2> QED
    BY <1>2, <1>7, <1>8, <2>1 DEF ActiveSize
<1>10. Parts(st.chunks, K, S)
  <2>1. ASSUME NEW i \in 1..Len(st.chunks), i \in K, i \in S PROVE FALSE
    <3>1. PICK j \in 1..n : st.recent[j] = i /\ Stays(st, j, s[j - 1], excluded)
      BY <1>4, <2>1
    <3>2. PICK k \in 1..n : st.recent[k] = i /\ ~Stays(st, k, s[k - 1], excluded)
      BY <1>3, <2>1
    <3> QED
      BY <1>2, <3>1, <3>2
  <2>2. ASSUME NEW i \in 1..Len(st.chunks), i \notin K, i \notin S PROVE st.chunks[i].size = 0
    <3>1. ~Listed(st.recent, i)
      <4> SUFFICES ASSUME NEW j \in 1..n, st.recent[j] = i PROVE FALSE
        BY DEF Listed, n
      <4>1. i \in Nat
        BY <1>2
      <4> QED
        BY <1>3, <1>4, <2>2, <4>1
    <3>2. ~st.chunks[i].loaded
      BY <1>1, <3>1 DEF RecentSound
    <3>3. Holds(st.chunks[i], st.cache.blocks[i], con[i], big)
      BY <1>1 DEF ChunksHold
    <3> QED
      BY <3>2, <3>3 DEF Holds
  <2> QED
    BY <2>1, <2>2 DEF Parts
<1>11. st.total = SizeOf(st.chunks, K) + SizeOf(st.chunks, S)
  BY <1>1, <1>10, SizeParts DEF TotalExact
<1>12. /\ SizeOf(st.chunks, K) \in Nat /\ SizeOf(st.chunks, S) \in Nat
       /\ SizeOf(st.chunks, K) <= MaxSize + ActiveSize(st)
  <2>1. SizeOf(st.chunks, K) \in Nat /\ SizeOf(st.chunks, S) \in Nat /\ MaxSize \in Nat
    BY <1>1, SizeTyped, Constants
  <2> QED
    BY <1>5, <1>6, <2>1
<1>13. Limit \in Nat /\ Limit >= MaxSize /\ MaxSize \in Nat
  BY Constants DEF Limit
<1>14. CASE st.total + reserved <= Limit
  <2>1. new = st
    BY <1>14 DEF Compacted, Limit
  <2>2. st.total <= Limit
    BY <1>1, <1>13, <1>14
  <2> HIDE DEF new
  <2> QED
    BY <1>1, <1>5, <1>13, <2>1, <2>2 DEF Bounded, new
<1>15. CASE S = {}
  <2>1. new = st
    BY <1>15 DEF Compacted, S
  <2>2. SizeOf(st.chunks, S) = 0
    BY <1>1, <1>15, SizeNone
  <2>3. st.total <= MaxSize + ActiveSize(st)
    BY <1>11, <1>12, <2>2
  <2> HIDE DEF new
  <2> QED
    BY <1>1, <1>5, <1>13, <2>1, <2>3 DEF Bounded, new
<1>16. CASE ~(st.total + reserved <= Limit) /\ S # {}
  <2>1. new = Swapped(op, S)
    BY <1>16 DEF Compacted, Limit, S, Opened
  <2>2. op \in StateSet /\ op.chunks = st.chunks /\ op.total = st.total
    BY <1>1, OpenedIs
  <2>3. Chosen(op, S)
    BY <1>8, <2>2 DEF Chosen
  <2> HIDE DEF op, new
  <2>4. Swapped(op, S).total = st.total - SizeOf(st.chunks, S)
    BY <2>2, <2>3, SwappedIs
  <2>5. new.total <= MaxSize + ActiveSize(st)
    BY <1>1, <1>11, <1>12, <2>1, <2>4
  <2>6. new.total \in Int
    BY <1>1, <1>12, <2>1, <2>4
  <2> QED
    BY <1>5, <1>9, <1>13, <2>5, <2>6 DEF Bounded, new
<1> QED
  BY <1>14, <1>15, <1>16

\* The first l of a list are in memory, except that i need not be.
Warm(st, list, l, i) ==
    /\ l \in 0..Len(list)
    /\ \A j \in 1..l : list[j] # i => st.chunks[list[j]].loaded

LEMMA CompactedWarm ==
    ASSUME NEW st, NEW con, NEW big, Sound(st, con, big), NEW excluded,
           NEW l, NEW i, Warm(st, st.recent, l, i), l * big < MaxSize
    PROVE  Warm(Compacted(st, 0, excluded), st.recent, l, i)
<1> DEFINE new == Compacted(st, 0, excluded)
<1>1. st \in StateSet /\ RecentSound(st) /\ l \in 0..Len(st.recent) /\ Len(st.recent) \in Nat
  BY SizesBounded DEF Sound, Warm
<1>2. \A j \in 1..l : st.recent[j] \notin Swaps(st, 0, excluded)
  BY <1>1, SwapsFirst
<1>3. \A x \in 1..Len(st.chunks) : x \notin Swaps(st, 0, excluded) => new.chunks[x] = st.chunks[x]
  BY <1>1, CompactedIs
<1> HIDE DEF new
<1>4. ASSUME NEW j \in 1..l PROVE new.chunks[st.recent[j]] = st.chunks[st.recent[j]]
  <2>1. j \in 1..Len(st.recent)
    BY <1>1
  <2>2. st.recent[j] \in 1..Len(st.chunks)
    BY <2>1, SizesBounded
  <2> QED
    BY <1>2, <1>3, <2>2
<1> QED
  BY <1>1, <1>4 DEF Warm, new

\* A fetch keeps within the limit and what was used before it in memory.
LEMMA FetchedKeeps ==
    ASSUME NEW st, NEW con, NEW big, Sound(st, con, big), NoFresh(st),
           NEW i \in 1..Len(st.chunks)
    PROVE  /\ big <= MaxSize /\ Bounded(st) => Bounded(Fetched(st, i))
           /\ \A l : Warm(st, ToFront(st.recent, i), l, i) /\ l * big < MaxSize
                       => Warm(Fetched(st, i), ToFront(st.recent, i), l, 0)
<1> DEFINE mid == MovedFirst(st, i)
           full == Restored(mid, i)
           new == Compacted(full, 0, i)
           r == ToFront(st.recent, i)
<1>1. /\ st \in StateSet /\ RecentSound(st) /\ st.chunks[i].loaded \in BOOLEAN
      /\ Distinct(st.recent) /\ i \in Nat
  BY StateIs DEF Sound, RecentSound
<1>2. /\ mid \in StateSet /\ mid.recent = r
      /\ mid.chunks = st.chunks /\ mid.active = st.active /\ mid.total = st.total
      /\ Listed(mid.recent, i)
  BY <1>1, MovedFirstIs
<1>3. Sound(mid, con, big)
  BY MovedFirstSound
<1>4. CASE st.chunks[i].loaded
  <2>1. Fetched(st, i) = mid
    BY <1>4 DEF Fetched
  <2> HIDE DEF mid
  <2>2. Bounded(st) => Bounded(mid)
    BY <1>2 DEF Bounded, ActiveSize
  <2>3. ASSUME NEW l, Warm(st, r, l, i) PROVE Warm(mid, r, l, 0)
    BY <1>2, <1>4, <2>3 DEF Warm
  <2> QED
    BY <2>1, <2>2, <2>3
<1>5. CASE ~st.chunks[i].loaded
  <2>1. st.chunks[i].saved
    BY <1>5 DEF NoFresh, Fresh
  <2>2. Fetched(st, i) = new
    BY <1>5, <2>1 DEF Fetched
  <2> HIDE DEF mid
  <2>3. /\ Sound(full, con, big)
        /\ full.recent = r /\ Len(full.chunks) = Len(mid.chunks)
        /\ full.chunks[i].loaded
        /\ \A j \in 1..Len(mid.chunks) : j # i => full.chunks[j] = mid.chunks[j]
    BY <1>2, <1>3, <1>5, <2>1, RestoredSound
  <2> HIDE DEF full
  <2>4. Excludes(full, i)
    <3>1. Len(r) >= 1 /\ r[1] = i
      BY <1>1, ToFrontIs
    <3> QED
      BY <2>3, <3>1 DEF Excludes
  <2>5. big <= MaxSize => Bounded(new)
    BY <2>3, <2>4, CompactedBounded
  <2>6. ASSUME NEW l, Warm(st, r, l, i), l * big < MaxSize PROVE Warm(new, r, l, 0)
    <3>1. \A j \in 1..Len(r) : r[j] \in 1..Len(mid.chunks)
      BY <2>3, SizesBounded
    <3>2. l \in 0..Len(r) /\ Len(r) \in Nat
      BY <2>3, <2>6, SizesBounded DEF Warm
    <3>3. ASSUME NEW j \in 1..l PROVE full.chunks[r[j]].loaded
      <4>1. r[j] \in 1..Len(mid.chunks)
        BY <3>1, <3>2
      <4>2. r[j] # i => st.chunks[r[j]].loaded
        BY <2>6 DEF Warm
      <4> QED
        BY <1>2, <2>3, <4>1, <4>2
    <3>4. Warm(full, full.recent, l, 0)
      BY <2>3, <3>2, <3>3 DEF Warm
    <3>5. Warm(new, full.recent, l, 0)
      BY <2>3, <2>6, <3>4, CompactedWarm
    <3> QED
      BY <2>3, <3>5
  <2> HIDE DEF new
  <2> QED
    BY <2>2, <2>5, <2>6
<1> QED
  BY <1>1, <1>4, <1>5

\* So does a chunk that is added to the array,
LEMMA AddedRawKeeps ==
    ASSUME NEW st, NEW con, NEW big, Sound(st, con, big), NoFresh(st),
           ChunkSize <= big, Len(st.chunks) + 1 <= MaxChunks
    PROVE  /\ big <= MaxSize => Bounded(Added(st, NewRawChunk))
           /\ \A l : Warm(st, ToFront(st.recent, Len(st.chunks) + 1), l, Len(st.chunks) + 1)
                     /\ l * big < MaxSize
                  => Warm(Added(st, NewRawChunk), ToFront(st.recent, Len(st.chunks) + 1), l, 0)
<1> DEFINE c == NewRawChunk
           mid == Extended(st, c)
           n == Len(st.chunks)
           r == ToFront(st.recent, n + 1)
           own == Append(con, ZeroRecords)
           new == Compacted(mid, 0, 0)
<1>1. st \in StateSet /\ big \in Nat /\ Distinct(st.recent) /\ n \in Nat /\ st.chunks \in ChunkLists
  BY StateIs DEF Sound, RecentSound
<1>2. c \in ChunkSet /\ ~c.saved /\ c.loaded /\ Holds(c, NoBlock, ZeroRecords, big)
  BY <1>1, NewRawChunkIs
<1>3. Added(st, c) = new
  BY <1>2, AddedIs
<1> HIDE DEF c
<1>4. Sound(mid, own, big)
  BY <1>1, <1>2, ExtendedSound DEF Fresh
<1>5. mid.chunks = Append(st.chunks, c) /\ mid.recent = r
  BY <1>1, <1>2, ExtendedIs
<1> HIDE DEF mid, own
<1>6. /\ Len(mid.chunks) = n + 1 /\ mid.chunks[n + 1] = c
      /\ \A i \in 1..n : mid.chunks[i] = st.chunks[i]
  BY <1>1, <1>2, <1>5, SizeAppended
<1>7. big <= MaxSize => Bounded(new)
  <2>1. Excludes(mid, 0)
    BY DEF Excludes
  <2> QED
    BY <1>4, <2>1, CompactedBounded
<1>8. ASSUME NEW l, Warm(st, r, l, n + 1), l * big < MaxSize PROVE Warm(new, r, l, 0)
  <2>1. /\ \A j \in 1..Len(r) : r[j] \in 1..(n + 1)
        /\ l \in 0..Len(r) /\ Len(r) \in Nat
    BY <1>4, <1>5, <1>6, <1>8, SizesBounded DEF Warm
  <2>2. ASSUME NEW j \in 1..l PROVE mid.chunks[r[j]].loaded
    <3>1. r[j] \in 1..(n + 1)
      BY <2>1
    <3>2. CASE r[j] = n + 1
      BY <1>2, <1>6, <3>2
    <3>3. CASE r[j] # n + 1
      <4>1. r[j] \in 1..n
        BY <1>1, <3>1, <3>3
      <4> QED
        BY <1>6, <1>8, <3>3, <4>1 DEF Warm
    <3> QED
      BY <3>2, <3>3
  <2>3. Warm(mid, mid.recent, l, 0)
    BY <1>5, <2>1, <2>2 DEF Warm
  <2>4. Warm(new, mid.recent, l, 0)
    BY <1>4, <1>8, <2>3, CompactedWarm
  <2> QED
    BY <1>5, <2>4
<1> HIDE DEF new, r
<1>9. \A l : Warm(st, r, l, n + 1) /\ l * big < MaxSize => Warm(new, r, l, 0)
  BY <1>8
<1> QED
  BY <1>3, <1>7, <1>9 DEF c, r

\* and a new active chunk,
LEMMA ActivatedKeeps ==
    ASSUME NEW st, NEW con, NEW big, Sound(st, con, big), NoFresh(st),
           Len(st.chunks) + 1 <= MaxChunks
    PROVE  /\ big <= MaxSize => Bounded(Activated(st))
           /\ \A l : Warm(st, ToFront(st.recent, Len(st.chunks) + 1), l, Len(st.chunks) + 1)
                     /\ l * big < MaxSize
                  => Warm(Activated(st), ToFront(st.recent, Len(st.chunks) + 1), l,
                          Len(st.chunks) + 1)
<1> DEFINE c == NewChunk
           n == Len(st.chunks)
           pre == [st EXCEPT !.active = n + 1]
           mid == Extended(pre, c)
           r == ToFront(st.recent, n + 1)
           own == Append(con, << >>)
           new == Compacted(mid, 0, 0)
<1>1. st \in StateSet /\ big \in Nat /\ Distinct(st.recent) /\ n \in Nat /\ n + 1 \in Nat
      /\ st.chunks \in ChunkLists
  BY StateIs DEF Sound, RecentSound
<1>2. /\ c \in ChunkSet /\ ~c.saved /\ Holds(c, NoBlock, << >>, big)
  BY <1>1, NewChunkIs
<1>3. pre \in StateSet
  <2> HIDE DEF n
  <2> QED
    BY <1>1, Zenon DEF StateSet
<1>4. /\ pre.chunks = st.chunks /\ pre.recent = st.recent /\ pre.active = n + 1
      /\ pre.total = st.total /\ pre.cache = st.cache
  BY <1>1 DEF StateSet
<1>5. Activated(st) = new
  <2>1. Added(pre, c) = new
    BY <1>2, AddedIs
  <2> QED
    BY <2>1 DEF Activated
<1> HIDE DEF c, pre
<1>6. Sound(mid, own, big)
  <2>1. NoFresh(pre)
    BY <1>4 DEF NoFresh
  <2> QED
    BY <1>1, <1>2, <1>3, <1>4, <2>1, ExtendedSound
<1>7. mid.chunks = Append(st.chunks, c) /\ mid.recent = r
  BY <1>1, <1>2, <1>3, <1>4, ExtendedIs
<1> HIDE DEF mid, own
<1>8. /\ Len(mid.chunks) = n + 1
      /\ \A i \in 1..n : mid.chunks[i] = st.chunks[i]
  BY <1>1, <1>2, <1>7, SizeAppended
<1>9. big <= MaxSize => Bounded(new)
  <2>1. Excludes(mid, 0)
    BY DEF Excludes
  <2> QED
    BY <1>6, <2>1, CompactedBounded
<1>10. ASSUME NEW l, Warm(st, r, l, n + 1), l * big < MaxSize PROVE Warm(new, r, l, n + 1)
  <2>1. /\ \A j \in 1..Len(r) : r[j] \in 1..(n + 1)
        /\ l \in 0..Len(r) /\ Len(r) \in Nat
    BY <1>6, <1>7, <1>8, <1>10, SizesBounded DEF Warm
  <2>2. ASSUME NEW j \in 1..l, r[j] # n + 1 PROVE mid.chunks[r[j]].loaded
    <3>1. r[j] \in 1..(n + 1)
      BY <2>1
    <3>2. r[j] \in 1..n
      BY <1>1, <2>2, <3>1
    <3> QED
      BY <1>8, <1>10, <2>2, <3>2 DEF Warm
  <2>3. Warm(mid, mid.recent, l, n + 1)
    BY <1>7, <2>1, <2>2 DEF Warm
  <2>4. Warm(new, mid.recent, l, n + 1)
    BY <1>6, <1>10, <2>3, CompactedWarm
  <2> QED
    BY <1>7, <2>4
<1> HIDE DEF new, r
<1>11. \A l : Warm(st, r, l, n + 1) /\ l * big < MaxSize => Warm(new, r, l, n + 1)
  BY <1>10
<1> QED
  BY <1>5, <1>9, <1>11 DEF r

\* once it got its record.
LEMMA AllocatedNextKeeps ==
    ASSUME NEW st, NEW con, NEW big, Sound(st, con, big), NoFresh(st),
           NEW rec \in RecordSet, rec.room <= big, ChunkSize <= big,
           st.active = 0 \/ ~HasRoom(st, rec), Len(st.chunks) + 1 <= MaxChunks
    PROVE  /\ big <= MaxSize => Bounded(Allocated(st, rec))
           /\ \A l : Warm(st, ToFront(st.recent, Len(st.chunks) + 1), l, Len(st.chunks) + 1)
                     /\ l * big < MaxSize
                  => Warm(Allocated(st, rec), ToFront(st.recent, Len(st.chunks) + 1), l, 0)
<1> DEFINE n == Len(st.chunks)
           r == ToFront(st.recent, n + 1)
           mid == Activated(st)
           new == Allocated(st, rec)
<1>1. /\ Sound(new, Append(con, <<rec>>), big)
      /\ new.recent = r /\ Len(new.chunks) = n + 1
      /\ new.chunks[n + 1].loaded
      /\ \A j \in 1..n : new.chunks[j] = mid.chunks[j]
      /\ Bounded(mid) => Bounded(new)
  BY AllocatedNext
<1>2. /\ big <= MaxSize => Bounded(mid)
      /\ \A l : Warm(st, r, l, n + 1) /\ l * big < MaxSize => Warm(mid, r, l, n + 1)
  BY ActivatedKeeps
<1>3. n \in Nat
  BY StateIs DEF Sound
<1> HIDE DEF r, mid, new, n
<1>4. ASSUME NEW l, Warm(st, r, l, n + 1), l * big < MaxSize PROVE Warm(new, r, l, 0)
  <2>1. Warm(mid, r, l, n + 1)
    BY <1>2, <1>4
  <2>2. /\ \A j \in 1..Len(r) : r[j] \in 1..(n + 1)
        /\ l \in 0..Len(r) /\ Len(r) \in Nat
    BY <1>1, <2>1, SizesBounded DEF Warm
  <2>3. ASSUME NEW j \in 1..l PROVE new.chunks[r[j]].loaded
    <3>1. r[j] \in 1..(n + 1)
      BY <2>2
    <3>2. CASE r[j] = n + 1
      BY <1>1, <3>2
    <3>3. CASE r[j] # n + 1
      <4>1. r[j] \in 1..n
        BY <1>3, <3>1, <3>3
      <4> QED
        BY <1>1, <2>1, <3>3, <4>1 DEF Warm
    <3> QED
      BY <3>2, <3>3
  <2> QED
    BY <2>2, <2>3 DEF Warm
<1>5. \A l : Warm(st, r, l, n + 1) /\ l * big < MaxSize => Warm(new, r, l, 0)
  BY <1>4
<1> QED
  BY <1>1, <1>2, <1>5 DEF r, n, mid, new

-----------------------------------------------------------------------------
(* The constants of the invariants *)

\* A finite set of numbers has a largest one.
LEMMA MaxIs ==
    ASSUME NEW S, S \subseteq Nat, IsFiniteSet(S), S # {}
    PROVE  Max(S) \in S /\ \A x \in S : Max(S) >= x
<1>1. PICK n \in Nat : ExistsSurjection(1..n, S)
  BY FS_NatSurjection
<1>2. PICK f \in [1..n -> S] : \A x \in S : \E j \in 1..n : f[j] = x
  BY <1>1 DEF ExistsSurjection, Surjection
<1> DEFINE G == {m \in Nat : m = 0 \/ \E j \in 1..m : \A k \in 1..m : f[k] <= f[j]}
<1>3. 0 \in G
  OBVIOUS
<1>4. ASSUME NEW m \in 0..(n - 1), m \in G PROVE m + 1 \in G
  <2>1. \A k \in 1..(m + 1) : k \in 1..n /\ f[k] \in Nat
    <3>1. \A k \in 1..n : f[k] \in Nat
      BY <1>2
    <3> HIDE DEF G
    <3>2. \A k \in 1..(m + 1) : k \in 1..n
      BY <1>2, n \in Nat
    <3> QED
      BY <3>1, <3>2
  <2>2. CASE m = 0
    <3>1. 1 \in 1..(m + 1) /\ \A k \in 1..(m + 1) : f[k] <= f[1]
      BY <2>1, <2>2
    <3> QED
      BY <3>1
  <2>3. CASE m # 0
    <3>1. PICK j \in 1..m : \A k \in 1..m : f[k] <= f[j]
      BY <1>4, <2>3
    <3>2. j \in 1..(m + 1) /\ m + 1 \in 1..(m + 1)
      OBVIOUS
    <3>3. \/ \A k \in 1..(m + 1) : f[k] <= f[j]
          \/ \A k \in 1..(m + 1) : f[k] <= f[m + 1]
      <4>1. CASE f[m + 1] <= f[j]
        BY <3>1, <4>1
      <4>2. CASE ~(f[m + 1] <= f[j])
        <5>1. \A k \in 1..m : k \in 1..(m + 1) /\ f[k] <= f[m + 1]
          BY <2>1, <3>1, <3>2, <4>2
        <5> QED
          BY <2>1, <5>1
      <4> QED
        BY <4>1, <4>2
    <3> QED
      BY <3>2, <3>3
  <2> QED
    BY <2>2, <2>3
<1> HIDE DEF G
<1>5. \A m \in 0..n : m \in G
  <2>1. \A m \in 0..(n - 1) : m \in G => m + 1 \in G
    BY <1>4
  <2> QED
    BY <1>3, <2>1, UpTo
<1>6. n # 0
  <2>1. PICK x \in S : TRUE
    OBVIOUS
  <2>2. PICK j \in 1..n : f[j] = x
    BY <1>2, <2>1
  <2> QED
    BY <2>2
<1>7. PICK j \in 1..n : \A k \in 1..n : f[k] <= f[j]
  <2>1. n \in G
    BY <1>5
  <2> QED
    BY <1>6, <2>1 DEF G
<1>8. f[j] \in S /\ \A x \in S : f[j] >= x
  BY <1>2, <1>7
<1> QED
  BY <1>8 DEF Max

AtMost(a, b) == IF a <= b THEN a ELSE b

LEMMA MinIs ==
    ASSUME NEW a \in Nat, NEW b \in Nat
    PROVE  Min({a, b}) = AtMost(a, b)
<1>1. AtMost(a, b) \in {a, b} /\ \A y \in {a, b} : AtMost(a, b) <= y
  BY DEF AtMost
<1>2. \A x \in {a, b} : (\A y \in {a, b} : x <= y) => x = AtMost(a, b)
  BY DEF AtMost
<1> QED
  BY <1>1, <1>2 DEF Min

LEMMA TimesAtMost ==
    ASSUME NEW a \in Nat, NEW b \in Nat, NEW c \in Nat, a <= b
    PROVE  a * c <= b * c
<1>1. PICK d \in Nat : b = a + d
  BY b - a \in Nat
<1>2. b * c = a * c + d * c /\ d * c \in Nat /\ a * c \in Nat
  BY <1>1
<1> QED
  BY <1>2

\* No buffer is larger than Biggest; as many as Fitting fit.
LEMMA BiggestIs ==
    /\ Biggest \in Nat \ {0} /\ ChunkSize <= Biggest
    /\ ~raw => \A n \in Sizes : n <= Biggest
    /\ Fitting \in Nat /\ Fitting * Biggest < MaxSize
    /\ (ChunkSize <= MaxSize /\ \A n \in Sizes : n <= MaxSize) => Biggest <= MaxSize
<1>1. /\ Sizes \union {ChunkSize} \subseteq Nat \ {0} /\ IsFiniteSet(Sizes \union {ChunkSize})
      /\ ChunkSize \in Nat \ {0} /\ MaxSize \in Nat \ {0}
  BY Constants, FS_AddElement
<1>2. /\ Max(Sizes \union {ChunkSize}) \in Sizes \union {ChunkSize}
      /\ \A x \in Sizes \union {ChunkSize} : Max(Sizes \union {ChunkSize}) >= x
  BY <1>1, MaxIs
<1>3. Biggest \in Nat \ {0} /\ ChunkSize <= Biggest
  BY <1>1, <1>2 DEF Biggest
<1>4. ~raw => \A n \in Sizes : n <= Biggest
  BY <1>1, <1>2 DEF Biggest
<1>5. (ChunkSize <= MaxSize /\ \A n \in Sizes : n <= MaxSize) => Biggest <= MaxSize
  BY <1>1, <1>2 DEF Biggest
<1>6. \A b \in Nat \ {0}, m \in Nat : m \div b \in Nat /\ (m \div b) * b <= m
  OBVIOUS
<1>7. Fitting \in Nat /\ Fitting * Biggest <= MaxSize - 1
  BY <1>1, <1>3, <1>6 DEF Fitting
<1>8. Fitting * Biggest \in Nat
  BY <1>3, <1>7
<1> QED
  BY <1>1, <1>3, <1>4, <1>5, <1>7, <1>8

-----------------------------------------------------------------------------
(* What is held stays in memory *)

\* The chunks h were used last; as many of them as fit are in memory.
Kept(st, h, fit) ==
    /\ Begins(h, st.recent)
    /\ Warm(st, st.recent, AtMost(Len(h), fit), 0)

\* A use puts a chunk in front of both.
LEMMA UsedWarm ==
    ASSUME NEW st, NEW list, Distinct(list), \A j \in 1..Len(list) : list[j] # 0,
           NEW h, Begins(h, list), NEW fit \in Nat,
           Warm(st, list, AtMost(Len(h), fit), 0), NEW i \in Nat
    PROVE  /\ Begins(ToFront(h, i), ToFront(list, i))
           /\ Warm(st, ToFront(list, i), AtMost(Len(ToFront(h, i)), fit), i)
<1> DEFINE q == Place(h, i)
           l == Len(h)
           front == ToFront(h, i)
           o == IF q > l THEN q ELSE l
           new == ToFront(list, i)
           m == AtMost(o, fit)
<1>1. /\ h \in Seq(Nat) /\ l \in Nat /\ \A j \in 1..l : h[j] = list[j] /\ h[j] \in Nat
  BY ListIs DEF Begins
<1>2. q \in 1..(l + 1)
  BY <1>1, PlaceIs
<1>3. /\ front = [j \in 1..o |-> IF j = 1 THEN i ELSE IF j <= q THEN h[j - 1] ELSE h[j]]
      /\ o \in Nat /\ o >= l /\ q <= o
  BY <1>1, <1>2 DEF ToFront
<1>4. Begins(front, new)
  BY ToFrontBegins
<1>5. Len(front) = o
  BY <1>3, <1>4, LenProperties DEF Begins
<1>6. \A j \in 1..o : new[j] = IF j = 1 THEN i ELSE IF j <= q THEN h[j - 1] ELSE h[j]
  BY <1>3, <1>4, <1>5 DEF Begins
<1>7. Len(new) \in Nat /\ o <= Len(new)
  BY <1>4, <1>5, ToFrontIs, ListIs DEF Begins, Distinct
<1>8. m \in 0..Len(new) /\ m <= o /\ m <= fit
  BY <1>3, <1>7 DEF AtMost
<1>9. \A j \in 1..AtMost(l, fit) : st.chunks[h[j]].loaded
  <2>1. \A j \in 1..AtMost(l, fit) : j \in 1..l /\ list[j] # 0
    BY <1>1, ListIs DEF AtMost, Begins, Distinct
  <2> QED
    BY <1>1, <2>1 DEF Warm
<1> HIDE DEF m, new, front, q, o, l
<1>10. ASSUME NEW j \in 1..m, new[j] # i
       PROVE  \E k \in 1..AtMost(l, fit) : new[j] = h[k]
  <2>1. j # 1 /\ j \in 1..o /\ j <= fit
    BY <1>3, <1>6, <1>8, <1>10
  <2>2. CASE j <= q
    <3>1. j - 1 \in 1..AtMost(l, fit)
      BY <1>1, <1>2, <2>1, <2>2 DEF AtMost
    <3> QED
      BY <1>6, <2>1, <2>2, <3>1
  <2>3. CASE ~(j <= q)
    <3>1. o = l
      BY <1>1, <1>2, <2>1, <2>3 DEF o
    <3>2. j \in 1..AtMost(l, fit)
      BY <1>1, <2>1, <3>1 DEF AtMost
    <3> QED
      BY <1>6, <2>1, <2>3, <3>2
  <2> QED
    BY <2>2, <2>3
<1>11. Warm(st, new, m, i)
  BY <1>8, <1>9, <1>10 DEF Warm
<1> QED
  BY <1>4, <1>5, <1>11 DEF m, new, front

LEMMA UsedKept ==
    ASSUME NEW st, NEW con, NEW big, Sound(st, con, big), NEW h, NEW fit \in Nat,
           Kept(st, h, fit), fit * big < MaxSize, NEW i \in Nat
    PROVE  /\ Begins(ToFront(h, i), ToFront(st.recent, i))
           /\ Warm(st, ToFront(st.recent, i), AtMost(Len(ToFront(h, i)), fit), i)
           /\ AtMost(Len(ToFront(h, i)), fit) * big < MaxSize
<1> DEFINE m == AtMost(Len(ToFront(h, i)), fit)
<1>1. /\ big \in Nat /\ Distinct(st.recent) /\ Len(st.recent) \in Nat
      /\ \A j \in 1..Len(st.recent) : st.recent[j] # 0
  <2>1. \A j \in 1..Len(st.chunks) : j # 0
    OBVIOUS
  <2> QED
    BY <2>1, SizesBounded
<1>2. Begins(h, st.recent) /\ Warm(st, st.recent, AtMost(Len(h), fit), 0)
  BY DEF Kept
<1>3. /\ Begins(ToFront(h, i), ToFront(st.recent, i))
      /\ Warm(st, ToFront(st.recent, i), m, i)
  BY <1>1, <1>2, UsedWarm
<1>4. m \in Nat /\ m <= fit
  <2>1. Len(ToFront(h, i)) \in Nat
    BY <1>3, LenProperties DEF Begins
  <2> QED
    BY <2>1 DEF AtMost
<1> HIDE DEF m
<1>5. m * big <= fit * big /\ m * big \in Nat /\ fit * big \in Nat
  BY <1>1, <1>4, TimesAtMost
<1>6. m * big < MaxSize
  BY <1>5, Constants
<1> QED
  BY <1>3, <1>6 DEF m

LEMMA FetchedKept ==
    ASSUME NEW st, NEW con, NEW big, Sound(st, con, big), NoFresh(st),
           NEW h, NEW fit \in Nat, Kept(st, h, fit), fit * big < MaxSize,
           NEW i \in 1..Len(st.chunks)
    PROVE  Kept(Fetched(st, i), ToFront(h, i), fit)
<1>1. /\ Begins(ToFront(h, i), ToFront(st.recent, i))
      /\ Warm(st, ToFront(st.recent, i), AtMost(Len(ToFront(h, i)), fit), i)
      /\ AtMost(Len(ToFront(h, i)), fit) * big < MaxSize
  BY UsedKept
<1>2. Warm(Fetched(st, i), ToFront(st.recent, i), AtMost(Len(ToFront(h, i)), fit), 0)
  BY <1>1, FetchedKeeps
<1>3. Fetched(st, i).recent = ToFront(st.recent, i)
  BY FetchedSound
<1> QED
  BY <1>1, <1>2, <1>3 DEF Kept

LEMMA AddedRawKept ==
    ASSUME NEW st, NEW con, NEW big, Sound(st, con, big), NoFresh(st),
           NEW h, NEW fit \in Nat, Kept(st, h, fit), fit * big < MaxSize,
           ChunkSize <= big, Len(st.chunks) + 1 <= MaxChunks
    PROVE  Kept(Added(st, NewRawChunk), ToFront(h, Len(st.chunks) + 1), fit)
<1> DEFINE i == Len(st.chunks) + 1
           new == Added(st, NewRawChunk)
<1>0. i \in Nat
  BY SizesBounded
<1>1. /\ Begins(ToFront(h, i), ToFront(st.recent, i))
      /\ Warm(st, ToFront(st.recent, i), AtMost(Len(ToFront(h, i)), fit), i)
      /\ AtMost(Len(ToFront(h, i)), fit) * big < MaxSize
  BY <1>0, UsedKept
<1>2. Warm(new, ToFront(st.recent, i), AtMost(Len(ToFront(h, i)), fit), 0)
  BY <1>1, AddedRawKeeps
<1>3. new.recent = ToFront(st.recent, i)
  BY AddedRawSound
<1> QED
  BY <1>1, <1>2, <1>3 DEF Kept

LEMMA AllocatedNextKept ==
    ASSUME NEW st, NEW con, NEW big, Sound(st, con, big), NoFresh(st),
           NEW h, NEW fit \in Nat, Kept(st, h, fit), fit * big < MaxSize,
           NEW rec \in RecordSet, rec.room <= big, ChunkSize <= big,
           st.active = 0 \/ ~HasRoom(st, rec), Len(st.chunks) + 1 <= MaxChunks
    PROVE  Kept(Allocated(st, rec), ToFront(h, Len(st.chunks) + 1), fit)
<1> DEFINE i == Len(st.chunks) + 1
           new == Allocated(st, rec)
<1>0. i \in Nat
  BY SizesBounded
<1>1. /\ Begins(ToFront(h, i), ToFront(st.recent, i))
      /\ Warm(st, ToFront(st.recent, i), AtMost(Len(ToFront(h, i)), fit), i)
      /\ AtMost(Len(ToFront(h, i)), fit) * big < MaxSize
  BY <1>0, UsedKept
<1>2. Warm(new, ToFront(st.recent, i), AtMost(Len(ToFront(h, i)), fit), 0)
  BY <1>1, AllocatedNextKeeps
<1>3. new.recent = ToFront(st.recent, i)
  BY AllocatedNext
<1> QED
  BY <1>1, <1>2, <1>3 DEF Kept

\* Nothing that is in memory leaves it.
LEMMA KeptSame ==
    ASSUME NEW st, NEW con, NEW big, Sound(st, con, big), NEW h, NEW fit \in Nat,
           Kept(st, h, fit), NEW new, new.recent = st.recent,
           \A j \in 1..Len(st.chunks) : st.chunks[j].loaded => new.chunks[j].loaded
    PROVE  Kept(new, h, fit)
<1> DEFINE m == AtMost(Len(h), fit)
<1>1. /\ Begins(h, st.recent) /\ m \in 0..Len(st.recent) /\ Len(st.recent) \in Nat
      /\ \A j \in 1..m : st.recent[j] # 0 => st.chunks[st.recent[j]].loaded
  BY SizesBounded DEF Kept, Warm
<1> HIDE DEF m
<1>2. \A j \in 1..m : st.recent[j] \in 1..Len(st.chunks)
  <2>1. \A j \in 1..m : j \in 1..Len(st.recent)
    BY <1>1
  <2> QED
    BY <2>1, SizesBounded
<1>3. Warm(new, st.recent, m, 0)
  BY <1>1, <1>2 DEF Warm
<1> QED
  BY <1>1, <1>3 DEF Kept, m

LEMMA LenIs ==
    ASSUME NEW m \in Nat, NEW S, NEW g \in Seq(S), DOMAIN g = 1..m
    PROVE  Len(g) = m
<1>1. Len(g) \in Nat /\ DOMAIN g = 1..Len(g)
  BY LenProperties
<1> QED
  BY <1>1

\* As many as fit are counted.
LEMMA KeptCut ==
    ASSUME NEW st, NEW con, NEW big, Sound(st, con, big), NEW h, NEW fit \in Nat,
           Kept(st, h, fit), NEW g, g = [j \in 1..Min({Len(h), fit}) |-> h[j]]
    PROVE  Kept(st, g, fit) /\ Len(g) <= fit
<1> DEFINE m == AtMost(Len(h), fit)
<1>1. /\ h \in Seq(Nat) /\ Len(h) \in Nat /\ Len(h) <= Len(st.recent)
      /\ \A j \in 1..Len(h) : h[j] = st.recent[j] /\ h[j] \in Nat
      /\ Warm(st, st.recent, m, 0)
  BY ListIs DEF Kept, Begins
<1>2. m \in Nat /\ m <= fit /\ m <= Len(h) /\ Min({Len(h), fit}) = m
  BY <1>1, MinIs DEF AtMost
<1> HIDE DEF m
<1>3. \A j \in 1..m : j \in 1..Len(h)
  BY <1>1, <1>2
<1>4. g = [j \in 1..m |-> h[j]]
  BY <1>2
<1>5. g \in Seq(Nat) /\ Len(g) = m /\ \A j \in 1..m : g[j] = h[j]
  <2>1. g \in [1..m -> Nat]
    BY <1>1, <1>3, <1>4
  <2>2. DOMAIN g = 1..m /\ \A j \in 1..m : g[j] = h[j]
    BY <1>4
  <2>3. \A f \in [1..m -> Nat] : f \in Seq(Nat)
    BY <1>2, Zenon, SeqDef
  <2>4. g \in Seq(Nat)
    BY <2>1, <2>3
  <2>5. Len(g) = m
    BY <1>2, <2>2, <2>4, LenIs
  <2> QED
    BY <2>2, <2>4, <2>5
<1>6. AtMost(m, fit) = m /\ m <= Len(st.recent)
  BY <1>1, <1>2, SizesBounded DEF AtMost
<1>7. Begins(g, st.recent)
  BY <1>1, <1>3, <1>5, <1>6 DEF Begins
<1> QED
  BY <1>1, <1>2, <1>5, <1>6, <1>7 DEF Kept

\* What is not in a list is put before it; what is first stays.
LEMMA ToFrontNew ==
    ASSUME NEW list \in Seq(Nat), NEW i \in Nat, \A j \in 1..Len(list) : list[j] # i
    PROVE  ToFront(list, i) = [j \in 1..(Len(list) + 1) |-> IF j = 1 THEN i ELSE list[j - 1]]
<1>1. Place(list, i) = Len(list) + 1 /\ Len(list) \in Nat
  BY ListIs DEF Place
<1> QED
  BY <1>1 DEF ToFront

LEMMA ToFrontFirst ==
    ASSUME NEW list, Distinct(list), NEW i \in Nat, Len(list) >= 1, list[1] = i
    PROVE  ToFront(list, i) = list
<1>1. list \in Seq(Nat) /\ Len(list) \in Nat /\ DOMAIN list = 1..Len(list)
  BY ListIs DEF Distinct
<1>2. Place(list, i) \in 1..Len(list) /\ list[Place(list, i)] = i
  BY <1>1, PlaceIs
<1>3. Place(list, i) = 1
  BY <1>1, <1>2 DEF Distinct
<1>4. ToFront(list, i) = [j \in 1..Len(list) |-> IF j = 1 THEN i ELSE IF j <= 1 THEN list[j - 1] ELSE list[j]]
  BY <1>1, <1>3 DEF ToFront
<1>5. \A j \in 1..Len(list) : (IF j = 1 THEN i ELSE IF j <= 1 THEN list[j - 1] ELSE list[j]) = list[j]
  OBVIOUS
<1>6. list = [j \in 1..Len(list) |-> list[j]]
  BY <1>1
<1> QED
  BY <1>4, <1>5, <1>6

-----------------------------------------------------------------------------
(* The array *)

\* The states in which an array grows, up to chunk c.
IsGrown(g, st, c) ==
    g = [i \in 0..c |-> IF i <= Len(st.chunks) THEN st ELSE Added(g[i - 1], NewRawChunk)]

LEMMA GrownNext ==
    ASSUME NEW st, Len(st.chunks) \in Nat, NEW m \in Nat, NEW g, IsGrown(g, st, m)
    PROVE  \E t : IsGrown(t, st, m + 1)
<1> DEFINE next(x, j) == IF j <= Len(st.chunks) THEN st ELSE Added(x, NewRawChunk)
           t == [j \in 0..(m + 1) |-> IF j = m + 1 THEN next(g[m], m + 1) ELSE g[j]]
<1>1. \A j \in 0..m : g[j] = next(g[j - 1], j)
  BY DEF IsGrown
<1>2. \A x, y : next(x, 0) = next(y, 0)
  OBVIOUS
<1> HIDE DEF next
<1>3. t[m] = g[m] /\ t[m + 1] = next(g[m], m + 1)
  OBVIOUS
<1>4. ASSUME NEW j \in 0..(m + 1) PROVE t[j] = next(t[j - 1], j)
  <2>1. CASE j = m + 1
    BY <1>3, <2>1
  <2>2. CASE j # m + 1 /\ j # 0
    <3>1. j \in 0..m /\ j - 1 \in 0..m /\ j - 1 # m + 1 /\ j - 1 \in 0..(m + 1)
      BY <2>2
    <3> QED
      BY <1>1, <2>2, <3>1
  <2>3. CASE j = 0
    <3>1. t[0] = g[0] /\ g[0] = next(g[0 - 1], 0)
      BY <1>1
    <3> HIDE DEF t
    <3> QED
      BY <1>2, <2>3, <3>1
  <2> QED
    BY <2>1, <2>2, <2>3
<1>5. t = [j \in 0..(m + 1) |-> t[j]]
  OBVIOUS
<1> HIDE DEF t
<1>6. IsGrown(t, st, m + 1)
  BY <1>4, <1>5 DEF IsGrown, next
<1> QED
  BY <1>6

LEMMA GrownIs ==
    ASSUME NEW st, Len(st.chunks) \in Nat, NEW c \in Nat
    PROVE  \E g : IsGrown(g, st, c) /\ Grown(st, c) = g[c]
<1> DEFINE G == {m \in Nat : \E t : IsGrown(t, st, m)}
<1>1. 0 \in G
  <2> DEFINE t == [j \in 0..0 |-> st]
  <2>1. IsGrown(t, st, 0)
    BY DEF IsGrown
  <2> QED
    BY <2>1
<1>2. ASSUME NEW m \in 0..(c - 1), m \in G PROVE m + 1 \in G
  <2>1. PICK t : IsGrown(t, st, m)
    BY <1>2
  <2>2. m \in Nat /\ m + 1 \in Nat
    OBVIOUS
  <2>3. \E u : IsGrown(u, st, m + 1)
    BY <2>1, <2>2, GrownNext
  <2> QED
    BY <2>2, <2>3
<1> HIDE DEF G
<1>3. \A m \in 0..c : m \in G
  BY <1>1, <1>2, UpTo
<1>4. \E t : IsGrown(t, st, c)
  BY <1>3 DEF G
<1> DEFINE g == CHOOSE t : IsGrown(t, st, c)
<1>5. IsGrown(g, st, c)
  BY <1>4
<1>6. Grown(st, c) = g[c]
  BY DEF Grown, IsGrown
<1> QED
  BY <1>5, <1>6

\* The records of the array, and what is held of it, once it has m chunks.
GrownTo(con, m) ==
    [i \in 1..(IF m > Len(con) THEN m ELSE Len(con)) |->
       IF i <= Len(con) THEN con[i] ELSE ZeroRecords]

GrownHeld(h, n, m) ==
    [j \in 1..(m - n + Len(h)) |-> IF j <= m - n THEN m + 1 - j ELSE h[j - (m - n)]]

LEMMA GrownToIs ==
    ASSUME NEW con \in Seq(RecordLists), NEW m \in Nat
    PROVE  /\ m <= Len(con) => GrownTo(con, m) = con
           /\ m >= Len(con) => GrownTo(con, m + 1) = Append(GrownTo(con, m), ZeroRecords)
           /\ GrownTo(con, m) \in Seq(RecordLists)
           /\ Len(GrownTo(con, m)) = (IF m > Len(con) THEN m ELSE Len(con))
<1> DEFINE n == Len(con)
           most(k) == IF k > n THEN k ELSE n
<1>1. n \in Nat /\ DOMAIN con = 1..n /\ \A i \in 1..n : con[i] \in RecordLists
  BY LenProperties, ElementOfSeq
<1>2. ZeroRecords \in RecordLists
  BY RoomZero
<1>3. con = [i \in 1..n |-> con[i]]
  BY <1>1
<1>4. \A k \in Nat : /\ GrownTo(con, k) = [i \in 1..most(k) |-> IF i <= n THEN con[i] ELSE ZeroRecords]
                     /\ most(k) \in Nat
  BY <1>1 DEF GrownTo
<1>5. m <= n => GrownTo(con, m) = con
  <2>1. ASSUME m <= n PROVE GrownTo(con, m) = [i \in 1..n |-> con[i]]
    <3>1. most(m) = n
      <4>1. ~(m > n)
        BY <1>1, <2>1
      <4> QED
        BY <4>1
    <3>2. \A i \in 1..n : (IF i <= n THEN con[i] ELSE ZeroRecords) = con[i]
      BY <1>1
    <3> QED
      BY <1>4, <3>1, <3>2
  <2> QED
    BY <1>3, <2>1
<1> HIDE DEF most, n
<1>6. ASSUME NEW k \in Nat
      PROVE  GrownTo(con, k) \in Seq(RecordLists) /\ Len(GrownTo(con, k)) = most(k)
  <2>1. GrownTo(con, k) \in [1..most(k) -> RecordLists]
    <3>1. \A i \in 1..most(k) : (IF i <= n THEN con[i] ELSE ZeroRecords) \in RecordLists
      BY <1>1, <1>2
    <3> QED
      BY <1>4, <3>1
  <2>2. most(k) \in Nat /\ DOMAIN GrownTo(con, k) = 1..most(k)
    BY <1>4
  <2>3. GrownTo(con, k) \in Seq(RecordLists)
    BY <2>1, <2>2, SeqDef, Zenon
  <2> QED
    BY <2>2, <2>3, LenIs
<1>7. ASSUME m >= n PROVE GrownTo(con, m + 1) = Append(GrownTo(con, m), ZeroRecords)
  <2> DEFINE a == GrownTo(con, m)
             b == GrownTo(con, m + 1)
             d == Append(a, ZeroRecords)
  <2>1. most(m) = m /\ most(m + 1) = m + 1 /\ m + 1 \in Nat
    BY <1>1, <1>7 DEF most
  <2>2. /\ a \in Seq(RecordLists) /\ Len(a) = m
        /\ b \in Seq(RecordLists) /\ Len(b) = m + 1
    BY <1>6, <2>1
  <2>3. /\ \A i \in 1..m : a[i] = IF i <= n THEN con[i] ELSE ZeroRecords
        /\ \A i \in 1..(m + 1) : b[i] = IF i <= n THEN con[i] ELSE ZeroRecords
    BY <1>4, <2>1
  <2> HIDE DEF a, b
  <2>4. /\ d \in Seq(RecordLists) /\ Len(d) = m + 1 /\ d[m + 1] = ZeroRecords
        /\ \A i \in 1..m : d[i] = a[i]
    BY <1>2, <2>2, AppendProperties
  <2> HIDE DEF d
  <2>5. \A i \in 1..(m + 1) : b[i] = d[i]
    <3> SUFFICES ASSUME NEW i \in 1..(m + 1) PROVE b[i] = d[i]
      OBVIOUS
    <3>1. CASE i = m + 1
      BY <1>1, <1>7, <2>3, <2>4, <3>1
    <3>2. CASE i # m + 1
      BY <2>3, <2>4, <3>2
    <3> QED
      BY <3>1, <3>2
  <2>6. b = d
    BY <2>2, <2>4, <2>5, SeqEqual
  <2> QED
    BY <2>6 DEF a, b, d
<1> QED
  BY <1>5, <1>6, <1>7 DEF most, n

\* Each chunk in turn is used.
LEMMA GrownHeldIs ==
    ASSUME NEW h \in Seq(Nat), NEW n \in Nat, NEW m \in Nat, m >= n,
           GrownHeld(h, n, m) \in Seq(Nat),
           \A j \in 1..Len(GrownHeld(h, n, m)) : GrownHeld(h, n, m)[j] # m + 1
    PROVE  /\ GrownHeld(h, n, n) = h
           /\ GrownHeld(h, n, m + 1) = ToFront(GrownHeld(h, n, m), m + 1)
           /\ m > n => GrownHeld(h, n, m)[1] = m /\ Len(GrownHeld(h, n, m)) >= 1
<1> DEFINE H == GrownHeld(h, n, m)
           l == m - n + Len(h)
<1>1. Len(h) \in Nat /\ DOMAIN h = 1..Len(h)
  BY LenProperties
<1>2. GrownHeld(h, n, n) = h
  <2>1. n - n + Len(h) = Len(h) /\ \A j \in 1..Len(h) : ~(j <= n - n) /\ j - (n - n) = j
    BY <1>1
  <2>2. GrownHeld(h, n, n) = [j \in 1..Len(h) |-> h[j]]
    BY <2>1 DEF GrownHeld
  <2> QED
    BY <1>1, <2>2
<1>3. H = [j \in 1..l |-> IF j <= m - n THEN m + 1 - j ELSE h[j - (m - n)]] /\ l \in Nat
  BY <1>1 DEF GrownHeld
<1>4. Len(H) = l
  BY <1>3, LenIs
<1>5. m > n => H[1] = m /\ Len(H) >= 1
  BY <1>1, <1>3, <1>4
<1>6. GrownHeld(h, n, m + 1) = ToFront(H, m + 1)
  <2>1. ToFront(H, m + 1) = [j \in 1..(l + 1) |-> IF j = 1 THEN m + 1 ELSE H[j - 1]]
    <3>1. H \in Seq(Nat) /\ m + 1 \in Nat /\ \A j \in 1..Len(H) : H[j] # m + 1
      OBVIOUS
    <3> HIDE DEF H, l
    <3>2. ToFront(H, m + 1) = [j \in 1..(Len(H) + 1) |-> IF j = 1 THEN m + 1 ELSE H[j - 1]]
      BY <3>1, ToFrontNew
    <3> QED
      BY <1>4, <3>2
  <2>2. \A j \in 1..(l + 1) :
           (IF j = 1 THEN m + 1 ELSE H[j - 1])
             = IF j <= m + 1 - n THEN m + 1 + 1 - j ELSE h[j - (m + 1 - n)]
    <3> SUFFICES ASSUME NEW j \in 1..(l + 1)
                 PROVE  (IF j = 1 THEN m + 1 ELSE H[j - 1])
                          = IF j <= m + 1 - n THEN m + 1 + 1 - j ELSE h[j - (m + 1 - n)]
      OBVIOUS
    <3>1. CASE j = 1
      BY <3>1
    <3>2. CASE j # 1
      <4>1. j - 1 \in 1..l
        BY <1>3, <3>2
      <4>2. H[j - 1] = IF j - 1 <= m - n THEN m + 1 - (j - 1) ELSE h[(j - 1) - (m - n)]
        BY <1>3, <4>1
      <4>3. (j - 1) - (m - n) = j - (m + 1 - n) /\ m + 1 - (j - 1) = m + 1 + 1 - j
        OBVIOUS
      <4> HIDE DEF H, l
      <4> QED
        BY <3>2, <4>1, <4>2, <4>3
    <3> QED
      BY <3>1, <3>2
  <2>3. m + 1 - n + Len(h) = l + 1
    BY <1>1
  <2> HIDE DEF H, l
  <2>4. GrownHeld(h, n, m + 1) =
           [j \in 1..(l + 1) |-> IF j <= m + 1 - n THEN m + 1 + 1 - j ELSE h[j - (m + 1 - n)]]
    BY <2>3 DEF GrownHeld
  <2> QED
    BY <2>1, <2>2, <2>4
<1> QED
  BY <1>2, <1>5, <1>6

\* A state of an array that has grown to m chunks.
Grows(st, con, big, h, fit, g, m) ==
    /\ Sound(g, GrownTo(con, m), big) /\ NoFresh(g)
    /\ g.active = st.active /\ Len(g.chunks) = m
    /\ Kept(g, GrownHeld(h, Len(con), m), fit)
    /\ big <= MaxSize => Bounded(g)

LEMMA GrownStep ==
    ASSUME NEW st, NEW con \in Seq(RecordLists), NEW big, NEW h \in Seq(Nat), NEW fit \in Nat,
           fit * big < MaxSize, ChunkSize <= big, NEW g, NEW m \in Nat, m >= Len(con),
           Grows(st, con, big, h, fit, g, m), m + 1 <= MaxChunks
    PROVE  Grows(st, con, big, h, fit, Added(g, NewRawChunk), m + 1)
<1> DEFINE n == Len(con)
           H == GrownHeld(h, n, m)
           next == Added(g, NewRawChunk)
           old == GrownTo(con, m)
<1>1. /\ Sound(g, old, big) /\ NoFresh(g) /\ g.active = st.active /\ Len(g.chunks) = m
      /\ Kept(g, H, fit) /\ n \in Nat
  BY LenProperties DEF Grows
<1>2. GrownTo(con, m + 1) = Append(old, ZeroRecords)
  BY GrownToIs
<1> HIDE DEF next, old
<1>3. /\ Sound(next, Append(old, ZeroRecords), big) /\ NoFresh(next)
      /\ next.active = g.active /\ Len(next.chunks) = m + 1
  BY <1>1, AddedRawSound DEF next
<1>4. big <= MaxSize => Bounded(next)
  BY <1>1, AddedRawKeeps DEF next
<1>5. H \in Seq(Nat) /\ \A j \in 1..Len(H) : H[j] # m + 1
  <2>1. Begins(H, g.recent)
    BY <1>1 DEF Kept
  <2>2. /\ Len(g.recent) \in Nat /\ \A j \in 1..Len(g.recent) : g.recent[j] \in 1..m
    BY <1>1, SizesBounded
  <2> HIDE DEF H
  <2>3. H \in Seq(Nat) /\ Len(H) \in Nat
    BY <2>1, LenProperties DEF Begins
  <2>4. \A j \in 1..Len(H) : j \in 1..Len(g.recent) /\ H[j] = g.recent[j]
    BY <2>1, <2>2, <2>3 DEF Begins
  <2>5. \A x \in 1..m : x # m + 1
    OBVIOUS
  <2> QED
    BY <2>2, <2>3, <2>4, <2>5
<1>6. GrownHeld(h, n, m + 1) = ToFront(H, m + 1)
  BY <1>1, <1>5, GrownHeldIs
<1>7. Kept(next, ToFront(H, m + 1), fit)
  <2> HIDE DEF H
  <2> QED
    BY <1>1, AddedRawKept DEF next
<1> QED
  BY <1>1, <1>2, <1>3, <1>4, <1>6, <1>7 DEF Grows, next

\* The array grows up to a chunk it does not have.
LEMMA GrownSound ==
    ASSUME NEW st, NEW con, NEW big, Sound(st, con, big), NoFresh(st),
           big <= MaxSize => Bounded(st),
           NEW h, NEW fit \in Nat, Kept(st, h, fit), fit * big < MaxSize, ChunkSize <= big,
           NEW c \in 1..MaxChunks, c > Len(con)
    PROVE  Grows(st, con, big, h, fit, Grown(st, c), c)
<1> DEFINE n == Len(con)
<1>1. /\ con \in Seq(RecordLists) /\ n \in Nat /\ Len(st.chunks) = n /\ h \in Seq(Nat)
      /\ c \in Nat /\ c <= MaxChunks /\ MaxChunks \in Nat
  BY LenProperties, Constants DEF Sound, ChunksHold, Kept, Begins
<1>2. PICK g : IsGrown(g, st, c) /\ Grown(st, c) = g[c]
  BY <1>1, GrownIs
<1>3. \A i \in 0..c : g[i] = IF i <= n THEN st ELSE Added(g[i - 1], NewRawChunk)
  BY <1>1, <1>2 DEF IsGrown
<1> DEFINE G == {m \in Nat : m < n \/ Grows(st, con, big, h, fit, g[m], m)}
<1>4. Grows(st, con, big, h, fit, st, n)
  <2>1. GrownTo(con, n) = con
    BY <1>1, GrownToIs
  <2>2. GrownHeld(h, n, n) = h
    <3>1. n - n + Len(h) = Len(h) /\ \A j \in 1..Len(h) : ~(j <= n - n) /\ j - (n - n) = j
      BY <1>1, LenProperties
    <3>2. GrownHeld(h, n, n) = [j \in 1..Len(h) |-> h[j]]
      BY <3>1 DEF GrownHeld
    <3> QED
      BY <1>1, <3>2, LenProperties
  <2> QED
    BY <1>1, <2>1, <2>2 DEF Grows
<1>5. n \in 0..c /\ g[n] = st
  BY <1>1, <1>3
<1>6. 0 \in G
  <2>1. CASE n = 0
    BY <1>4, <1>5, <2>1
  <2>2. CASE n # 0
    BY <1>1, <2>2
  <2> QED
    BY <2>1, <2>2
<1>7. ASSUME NEW m \in 0..(c - 1), m \in G PROVE m + 1 \in G
  <2>1. m \in Nat /\ m + 1 \in 0..c /\ m + 1 \in Nat /\ (m + 1) - 1 = m
    BY <1>1
  <2>2. CASE m < n
    <3>1. m + 1 < n \/ m + 1 = n
      BY <1>1, <2>1, <2>2
    <3>2. m + 1 = n => Grows(st, con, big, h, fit, g[m + 1], m + 1)
      BY <1>4, <1>5
    <3> QED
      BY <2>1, <3>1, <3>2
  <2>3. CASE ~(m < n)
    <3>1. Grows(st, con, big, h, fit, g[m], m) /\ m >= n
      BY <1>1, <1>7, <2>1, <2>3
    <3>2. g[m + 1] = Added(g[m], NewRawChunk)
      <4>1. ~(m + 1 <= n)
        BY <1>1, <2>1, <2>3
      <4> QED
        BY <1>3, <2>1, <4>1
    <3>3. m + 1 <= MaxChunks
      BY <1>1, <2>1
    <3>4. Grows(st, con, big, h, fit, Added(g[m], NewRawChunk), m + 1)
      BY <1>1, <2>1, <3>1, <3>3, GrownStep
    <3> QED
      BY <2>1, <3>2, <3>4
  <2> QED
    BY <2>2, <2>3
<1> HIDE DEF G
<1>8. \A m \in 0..c : m \in G
  BY <1>1, <1>6, <1>7, UpTo
<1>9. c \in G
  BY <1>1, <1>8
<1>10. Grows(st, con, big, h, fit, g[c], c)
  BY <1>1, <1>9 DEF G
<1> QED
  BY <1>2, <1>10

LEMMA GrownHere ==
    ASSUME NEW st, Len(st.chunks) \in Nat, NEW c \in Nat, c <= Len(st.chunks)
    PROVE  Grown(st, c) = st
<1>1. PICK g : IsGrown(g, st, c) /\ Grown(st, c) = g[c]
  BY GrownIs
<1> QED
  BY <1>1 DEF IsGrown

-----------------------------------------------------------------------------
(* What every operation keeps *)

\* The chunks of an array are full from the start.
RawLists(con) == \A i \in 1..Len(con) : Len(con[i]) = ChunkSize

\* A state with the records con, of which the chunks h were used last.
Good(st, con, h) ==
    /\ Sound(st, con, Biggest) /\ NoFresh(st)
    /\ raw => st.active = 0 /\ RawLists(con)
    /\ Kept(st, h, Fitting)
    /\ Biggest <= MaxSize => Bounded(st)

LEMMA FetchedGood ==
    ASSUME NEW st, NEW con, NEW h, Good(st, con, h), NEW i \in 1..Len(con)
    PROVE  /\ Good(Fetched(st, i), con, ToFront(h, i))
           /\ Fetched(st, i).chunks[i].loaded
<1>1. /\ Sound(st, con, Biggest) /\ NoFresh(st) /\ Kept(st, h, Fitting)
      /\ Len(con) = Len(st.chunks) /\ i \in 1..Len(st.chunks)
      /\ Fitting \in Nat /\ Fitting * Biggest < MaxSize
  BY BiggestIs DEF Good, Sound, ChunksHold
<1>2. /\ Sound(Fetched(st, i), con, Biggest) /\ NoFresh(Fetched(st, i))
      /\ Fetched(st, i).active = st.active /\ Fetched(st, i).chunks[i].loaded
  BY <1>1, FetchedSound
<1>3. Biggest <= MaxSize => Bounded(Fetched(st, i))
  BY <1>1, FetchedKeeps DEF Good
<1>4. Kept(Fetched(st, i), ToFront(h, i), Fitting)
  BY <1>1, FetchedKept
<1> QED
  BY <1>2, <1>3, <1>4 DEF Good

LEMMA ReplacedGood ==
    ASSUME NEW st, NEW con, NEW h, Good(st, con, h), NEW i \in 1..Len(con),
           st.chunks[i].loaded, NEW k \in 1..Len(con[i]),
           NEW v \in Values \union RawValues \union {Freed}
    PROVE  Good(Replaced(st, i, k, v), [con EXCEPT ![i] = Revalued(con[i], k, v)], h)
<1> DEFINE new == Replaced(st, i, k, v)
           r == Revalued(con[i], k, v)
           own == [con EXCEPT ![i] = r]
<1>1. /\ Sound(st, con, Biggest) /\ NoFresh(st) /\ Kept(st, h, Fitting)
      /\ Len(con) = Len(st.chunks) /\ i \in 1..Len(st.chunks)
      /\ con \in Seq(RecordLists) /\ Fitting \in Nat
  BY BiggestIs DEF Good, Sound, ChunksHold
<1> HIDE DEF new, own, r
<1>2. /\ Sound(new, own, Biggest) /\ NoFresh(new) /\ new.recent = st.recent
      /\ new.active = st.active /\ new.total = st.total /\ Len(new.chunks) = Len(st.chunks)
      /\ \A j \in 1..Len(st.chunks) : /\ st.chunks[j].loaded => new.chunks[j].loaded
                                      /\ new.chunks[j].size = st.chunks[j].size
  <2>1. Replaces(st, new, con, i, r, Biggest)
    BY <1>1, ReplacedSound DEF new, r
  <2> QED
    BY <2>1 DEF Replaces, own
<1>3. Kept(new, h, Fitting)
  BY <1>1, <1>2, KeptSame
<1>4. Bounded(st) => Bounded(new)
  <2>1. st.active \in Nat /\ st.active <= Len(st.chunks) /\ Len(st.chunks) \in Nat
    BY <1>1, StateIs DEF Sound, RecentSound
  <2>2. ActiveSize(new) = ActiveSize(st)
    BY <1>2, <2>1 DEF ActiveSize
  <2> QED
    BY <1>2, <2>2 DEF Bounded
<1>5. RawLists(con) => RawLists(own)
  <2>1. Len(r) = Len(con[i]) /\ DOMAIN con = 1..Len(con)
    <3>1. con[i] \in RecordLists
      BY <1>1, ElementOfSeq
    <3>2. DOMAIN r = DOMAIN con[i] /\ DOMAIN con[i] = 1..Len(con[i]) /\ Len(con[i]) \in Nat
      BY <3>1, LenProperties DEF RecordLists, Revalued, r
    <3>3. r \in RecordLists
      BY <3>1, RoomRevalued DEF r
    <3> QED
      BY <1>1, <3>2, <3>3, LenProperties, LenIs DEF RecordLists
  <2>2. Len(own) = Len(con) /\ \A j \in 1..Len(con) : own[j] = IF j = i THEN r ELSE con[j]
    <3>1. \A j \in 1..Len(con) : own[j] = IF j = i THEN r ELSE con[j]
      BY <2>1 DEF own
    <3>2. own \in Seq(RecordLists) /\ Len(own) = Len(new.chunks)
      BY <1>2 DEF Sound, ChunksHold
    <3> QED
      BY <1>1, <1>2, <3>1, <3>2
  <2> QED
    BY <2>1, <2>2 DEF RawLists
<1>6. Good(new, own, h)
  BY <1>2, <1>3, <1>4, <1>5 DEF Good
<1> QED
  BY <1>6 DEF new, own, r

\* A chunk is used, after those before it that there are not yet.
Used(h, n, i) == IF i <= n THEN ToFront(h, i) ELSE GrownHeld(h, n, i)

LEMMA GrownGood ==
    ASSUME NEW st, NEW con, NEW h, Good(st, con, h), NEW i \in 1..MaxChunks, raw
    PROVE  /\ Good(Fetched(Grown(st, i), i), GrownTo(con, i), Used(h, Len(con), i))
           /\ Fetched(Grown(st, i), i).chunks[i].loaded
           /\ i \in 1..Len(GrownTo(con, i))
<1> DEFINE n == Len(con)
           H == GrownHeld(h, n, i)
           g == Grown(st, i)
           own == GrownTo(con, i)
<1>1. /\ Sound(st, con, Biggest) /\ NoFresh(st) /\ Kept(st, h, Fitting)
      /\ con \in Seq(RecordLists) /\ n \in Nat /\ n = Len(st.chunks)
      /\ h \in Seq(Nat) /\ st.active = 0 /\ RawLists(con)
  BY LenProperties DEF Good, Sound, ChunksHold, Kept, Begins
<1>2. /\ Fitting \in Nat /\ Fitting * Biggest < MaxSize /\ ChunkSize <= Biggest
      /\ i \in Nat /\ i <= MaxChunks
  BY BiggestIs, Constants
<1>3. CASE i <= n
  <2>1. g = st /\ own = con /\ i \in 1..n
    BY <1>1, <1>2, <1>3, GrownHere, GrownToIs
  <2> HIDE DEF g, own
  <2>2. Good(Fetched(g, i), own, ToFront(h, i)) /\ Fetched(g, i).chunks[i].loaded
    BY <2>1, FetchedGood
  <2> QED
    BY <1>3, <2>1, <2>2 DEF Used, g, own
<1>4. CASE ~(i <= n)
  <2>1. Grows(st, con, Biggest, h, Fitting, g, i)
    BY <1>1, <1>2, <1>4, GrownSound DEF Good
  <2>2. /\ Sound(g, own, Biggest) /\ NoFresh(g) /\ g.active = 0 /\ Len(g.chunks) = i
        /\ Kept(g, H, Fitting)
        /\ Biggest <= MaxSize => Bounded(g)
    BY <1>1, <2>1 DEF Grows
  <2>3. RawLists(own)
    <3>1. own = [j \in 1..i |-> IF j <= n THEN con[j] ELSE ZeroRecords]
      BY <1>1, <1>2, <1>4 DEF GrownTo
    <3>2. Len(own) = i
      BY <2>2 DEF Sound, ChunksHold
    <3>3. Len(ZeroRecords) = ChunkSize
      BY Constants DEF ZeroRecords
    <3> HIDE DEF own
    <3>4. ASSUME NEW j \in 1..i PROVE Len(own[j]) = ChunkSize
      <4>1. CASE j <= n
        BY <1>1, <3>1, <4>1 DEF RawLists
      <4>2. CASE ~(j <= n)
        BY <3>1, <3>3, <4>2
      <4> QED
        BY <4>1, <4>2
    <3> QED
      BY <3>2, <3>4 DEF RawLists
  <2>4. Good(g, own, H)
    BY <2>2, <2>3 DEF Good
  <2>5. Len(own) = i
    BY <2>2 DEF Sound, ChunksHold
  <2>6. ToFront(H, i) = H
    <3>1. /\ Begins(H, g.recent) /\ Distinct(g.recent)
      BY <2>2, SizesBounded DEF Kept
    <3>2. Distinct(H)
      <4> HIDE DEF H
      <4>1. H \in Seq(Nat) /\ Len(H) \in Nat /\ Len(H) <= Len(g.recent) /\ Len(g.recent) \in Nat
            /\ \A j \in 1..Len(H) : H[j] = g.recent[j]
        BY <3>1, ListIs DEF Begins, Distinct
      <4>2. \A j \in 1..Len(H) : j \in 1..Len(g.recent)
        BY <4>1
      <4> QED
        BY <3>1, <4>1, <4>2 DEF Distinct
    <3>3. H[1] = i /\ Len(H) >= 1
      <4>1. Len(h) \in Nat
        BY <1>1, LenProperties
      <4>2. H = [j \in 1..(i - n + Len(h)) |-> IF j <= i - n THEN i + 1 - j ELSE h[j - (i - n)]]
            /\ i - n + Len(h) \in Nat
        BY <1>1, <1>2, <1>4, <4>1 DEF GrownHeld
      <4>3. H \in Seq(Nat) /\ DOMAIN H = 1..(i - n + Len(h))
        BY <3>1, <4>2 DEF Begins
      <4>4. Len(H) = i - n + Len(h)
        <5> HIDE DEF H
        <5> QED
          BY <4>2, <4>3, LenIs
      <4>5. 1 \in 1..(i - n + Len(h)) /\ 1 <= i - n
        BY <1>1, <1>2, <1>4, <4>1
      <4> QED
        BY <1>2, <4>2, <4>4, <4>5
    <3> HIDE DEF H
    <3> QED
      BY <1>2, <3>2, <3>3, ToFrontFirst
  <2> HIDE DEF g, own, H
  <2>7. Good(Fetched(g, i), own, ToFront(H, i)) /\ Fetched(g, i).chunks[i].loaded
    BY <2>4, <2>5, FetchedGood
  <2> QED
    BY <1>4, <2>5, <2>6, <2>7 DEF Used, g, own, H
<1> QED
  BY <1>3, <1>4

LEMMA AllocatedHereGood ==
    ASSUME NEW st, NEW con, NEW h, Good(st, con, h), ~raw,
           NEW rec \in RecordSet, rec.room <= Biggest,
           st.active # 0, ~st.chunks[st.active].saved, HasRoom(st, rec)
    PROVE  /\ Good(Allocated(st, rec),
                   [con EXCEPT ![st.active] = Append(con[st.active], rec)], h)
           /\ Allocated(st, rec).active = st.active /\ st.active \in 1..Len(con)
<1> DEFINE new == Allocated(st, rec)
           own == [con EXCEPT ![st.active] = Append(con[st.active], rec)]
<1>1. /\ Sound(st, con, Biggest) /\ NoFresh(st) /\ Kept(st, h, Fitting)
      /\ Len(con) = Len(st.chunks) /\ Fitting \in Nat /\ ChunkSize <= Biggest
  BY BiggestIs DEF Good, Sound, ChunksHold
<1> HIDE DEF new, own
<1>2. /\ Sound(new, own, Biggest) /\ NoFresh(new)
      /\ new.recent = st.recent /\ new.active = st.active /\ st.active \in 1..Len(st.chunks)
      /\ new.chunks[st.active].loaded
      /\ \A j \in 1..Len(st.chunks) : j # st.active => new.chunks[j] = st.chunks[j]
      /\ Bounded(st) => Bounded(new)
  BY <1>1, AllocatedHere DEF new, own
<1>3. \A j \in 1..Len(st.chunks) : st.chunks[j].loaded => new.chunks[j].loaded
  BY <1>2
<1>4. Kept(new, h, Fitting)
  BY <1>1, <1>2, <1>3, KeptSame
<1>5. Good(new, own, h)
  BY <1>2, <1>4 DEF Good
<1> QED
  BY <1>1, <1>2, <1>5 DEF new, own

LEMMA AllocatedNextGood ==
    ASSUME NEW st, NEW con, NEW h, Good(st, con, h), ~raw,
           NEW rec \in RecordSet, rec.room <= Biggest,
           st.active = 0 \/ ~HasRoom(st, rec), Len(con) + 1 <= MaxChunks
    PROVE  /\ Good(Allocated(st, rec), Append(con, <<rec>>), ToFront(h, Len(con) + 1))
           /\ Allocated(st, rec).active = Len(con) + 1
<1> DEFINE new == Allocated(st, rec)
           own == Append(con, <<rec>>)
<1>1. /\ Sound(st, con, Biggest) /\ NoFresh(st) /\ Kept(st, h, Fitting)
      /\ Len(con) = Len(st.chunks) /\ ChunkSize <= Biggest
      /\ Fitting \in Nat /\ Fitting * Biggest < MaxSize
  BY BiggestIs DEF Good, Sound, ChunksHold
<1> HIDE DEF new, own
<1>2. Sound(new, own, Biggest) /\ NoFresh(new) /\ new.active = Len(con) + 1
  BY <1>1, AllocatedNext DEF new, own
<1>3. Biggest <= MaxSize => Bounded(new)
  BY <1>1, AllocatedNextKeeps DEF new
<1>4. Kept(new, ToFront(h, Len(con) + 1), Fitting)
  BY <1>1, AllocatedNextKept DEF new
<1>5. Good(new, own, ToFront(h, Len(con) + 1))
  BY <1>2, <1>3, <1>4 DEF Good
<1> QED
  BY <1>2, <1>5 DEF new, own

\* Nothing is held.
LEMMA KeptNone ==
    ASSUME NEW st, st.recent \in Seq(Nat), NEW fit \in Nat
    PROVE  Kept(st, << >>, fit)
<1>1. << >> \in Seq(Nat) /\ Len(<< >>) = 0 /\ Len(st.recent) \in Nat
  BY LenProperties
<1>2. AtMost(Len(<< >>), fit) = 0
  BY <1>1 DEF AtMost
<1>3. Begins(<< >>, st.recent)
  BY <1>1 DEF Begins
<1>4. Warm(st, st.recent, 0, 0)
  BY <1>1 DEF Warm
<1> QED
  BY <1>2, <1>3, <1>4 DEF Kept

LEMMA CompactedGood ==
    ASSUME NEW st, NEW con, NEW h, Good(st, con, h)
    PROVE  Good(Compacted(st, Plenty, 0), con, << >>)
<1> DEFINE new == Compacted(st, Plenty, 0)
<1>1. Sound(st, con, Biggest) /\ NoFresh(st) /\ Plenty \in Nat /\ Excludes(st, 0)
  BY Constants DEF Good, Excludes
<1>2. Sound(new, con, Biggest) /\ NoFresh(new)
  BY <1>1, CompactedSound, CompactedNoFresh
<1>3. Biggest <= MaxSize => Bounded(new)
  BY <1>1, CompactedBounded
<1>4. new.active = st.active
  BY <1>1, CompactedIs DEF Sound
<1>5. Kept(new, << >>, Fitting)
  <2>1. new.recent \in Seq(Nat) /\ Fitting \in Nat
    BY <1>2, BiggestIs, StateIs DEF Sound
  <2> HIDE DEF new
  <2> QED
    BY <2>1, KeptNone
<1> QED
  BY <1>2, <1>3, <1>4, <1>5 DEF Good

LEMMA SavedGood ==
    ASSUME NEW st, NEW con, NEW h, Good(st, con, h), NEW m \in 0..Len(st.chunks)
    PROVE  Good(Saved(st, m), con, h)
<1> DEFINE new == Saved(st, m)
           n == Len(st.chunks)
<1>1. /\ Sound(st, con, Biggest) /\ NoFresh(st) /\ st \in StateSet /\ n \in Nat
      /\ Kept(st, h, Fitting) /\ Fitting \in Nat /\ Chosen(st, 1..m)
  BY StateIs, BiggestIs DEF Good, Sound, Chosen
<1> HIDE DEF new
<1>2. Sound(new, con, Biggest)
  BY <1>1, WrittenOutSound DEF new, Saved
<1>3. /\ new.recent = st.recent /\ new.active = st.active /\ new.total = st.total
      /\ Len(new.chunks) = n
      /\ \A i \in 1..n : /\ new.chunks[i].loaded = st.chunks[i].loaded
                         /\ new.chunks[i].size = st.chunks[i].size
                         /\ i \in Out(st, 1..m) => new.chunks[i].saved
                         /\ i \notin Out(st, 1..m) => new.chunks[i] = st.chunks[i]
  BY <1>1, WrittenOutIs DEF new, Saved
<1>4. NoFresh(new)
  BY <1>1, <1>3 DEF NoFresh, Fresh
<1>5. Bounded(st) => Bounded(new)
  <2>1. st.active \in Nat /\ st.active <= n
    BY <1>1, StateIs DEF Sound, RecentSound
  <2>2. ActiveSize(new) = ActiveSize(st)
    BY <1>1, <1>3, <2>1 DEF ActiveSize
  <2> QED
    BY <1>3, <2>2 DEF Bounded
<1>6. Kept(new, h, Fitting)
  BY <1>1, <1>3, KeptSame
<1>7. Good(new, con, h)
  BY <1>2, <1>3, <1>4, <1>5, <1>6 DEF Good
<1> QED
  BY <1>7 DEF new

-----------------------------------------------------------------------------
(* The cache file of a complete save *)

\* An index and a cache file from which the records con can be loaded.
Loadable(index, con, blocks) ==
    /\ con \in Seq(RecordLists) /\ Len(con) <= MaxChunks
    /\ raw => RawLists(con)
    /\ DOMAIN index = 1..Len(con)
    /\ \A i \in 1..Len(con) :
          index[i] = Room(con[i]) /\ Room(con[i]) <= Biggest /\ blocks[i] = con[i]

LEMMA SavedLoadable ==
    ASSUME NEW st, NEW con, NEW h, Good(st, con, h), st.cache.open
    PROVE  Loadable(Index(Saved(st, Len(st.chunks))), con, Saved(st, Len(st.chunks)).cache.blocks)
<1> DEFINE n == Len(st.chunks)
           new == Saved(st, n)
<1>1. st \in StateSet /\ n \in Nat /\ n \in 0..n /\ Chosen(st, 1..n)
  BY StateIs DEF Good, Sound, Chosen
<1>2. Good(new, con, h)
  BY <1>1, SavedGood
<1>3. /\ new \in StateSet /\ Len(new.chunks) = n
      /\ \A i \in 1..n : /\ new.chunks[i].loaded = st.chunks[i].loaded
                         /\ i \in Out(st, 1..n) => new.chunks[i].saved
                         /\ i \notin Out(st, 1..n) => new.chunks[i] = st.chunks[i]
  BY <1>1, WrittenOutIs DEF Saved
<1> HIDE DEF new
<1>4. /\ con \in Seq(RecordLists) /\ Len(con) = n /\ n <= MaxChunks
      /\ \A i \in 1..n : Holds(new.chunks[i], new.cache.blocks[i], con[i], Biggest)
      /\ \A i \in 1..n : ~Fresh(new.chunks[i])
      /\ raw => RawLists(con)
  BY <1>2, <1>3 DEF Good, Sound, ChunksHold, NoFresh
<1>5. DOMAIN Index(new) = 1..n /\ \A i \in 1..n : Index(new)[i] = new.chunks[i].used
  <2>1. DOMAIN new.chunks = 1..n
    BY <1>3, StateIs
  <2> QED
    BY <2>1 DEF Index
<1>6. ASSUME NEW i \in 1..n PROVE new.chunks[i].saved
  <2>1. CASE i \in Out(st, 1..n)
    BY <1>3, <2>1
  <2>2. CASE i \notin Out(st, 1..n)
    <3>1. new.chunks[i] = st.chunks[i]
      BY <1>3, <2>2
    <3>2. ~st.chunks[i].loaded \/ st.chunks[i].saved
      BY <2>2 DEF Out
    <3> QED
      BY <1>4, <3>1, <3>2 DEF Fresh
  <2> QED
    BY <2>1, <2>2
<1>7. ASSUME NEW i \in 1..n
      PROVE  /\ Index(new)[i] = Room(con[i]) /\ Room(con[i]) <= Biggest
             /\ new.cache.blocks[i] = con[i]
  BY <1>4, <1>5, <1>6 DEF Holds
<1> QED
  BY <1>4, <1>5, <1>7 DEF Loadable, new

LEMMA LoadedGood ==
    ASSUME NEW st, st \in StateSet, st.chunks = << >>, st.total = 0, complete # NoBlock,
           Loadable(complete.index, complete.content, st.cache.blocks)
    PROVE  Good(Loaded(st), complete.content, << >>)
<1> DEFINE con == complete.content
           index == complete.index
           n == Len(con)
           cs == [i \in DOMAIN index |-> SavedChunk(index[i])]
           new == Loaded(st)
<1>1. /\ con \in Seq(RecordLists) /\ n \in Nat /\ n <= MaxChunks
      /\ raw => RawLists(con)
      /\ DOMAIN index = 1..n
      /\ \A i \in 1..n : /\ index[i] = Room(con[i]) /\ Room(con[i]) <= Biggest
                         /\ st.cache.blocks[i] = con[i] /\ con[i] \in RecordLists
                         /\ Room(con[i]) \in Nat
  <2>1. /\ con \in Seq(RecordLists) /\ n <= MaxChunks
        /\ raw => RawLists(con)
    BY DEF Loadable
  <2>2. n \in Nat /\ \A i \in 1..n : con[i] \in RecordLists
    BY <2>1, LenProperties, ElementOfSeq
  <2>3. \A i \in 1..n : Room(con[i]) \in Nat
    <3>1. ASSUME NEW r \in RecordLists PROVE Room(r) \in Nat
      <4> DEFINE f == [k \in 1..Len(r) |-> r[k].room]
      <4>1. \A k \in 1..Len(r) : f[k] = r[k].room
        OBVIOUS
      <4> QED
        BY <4>1, RoomIs
    <3> QED
      BY <2>2, <3>1
  <2> QED
    BY <2>1, <2>2, <2>3 DEF Loadable
<1> HIDE DEF con, index, n
<1>2. ASSUME NEW used \in Nat
      PROVE  /\ SavedChunk(used) \in ChunkSet /\ SavedChunk(used).recs = << >>
             /\ ~SavedChunk(used).loaded /\ SavedChunk(used).size = 0
             /\ SavedChunk(used).used = used /\ SavedChunk(used).saved
  BY RoomEmpty DEF SavedChunk, NewChunk, ChunkSet
<1>3. /\ \A i \in 1..n : cs[i] = SavedChunk(index[i]) /\ cs[i] \in ChunkSet
      /\ DOMAIN cs = 1..n
  BY <1>1, <1>2
<1>4. cs \in ChunkLists /\ Len(cs) = n
  <2>1. cs \in [1..n -> ChunkSet]
    BY <1>1, <1>3
  <2> HIDE DEF cs
  <2>2. cs \in Seq(ChunkSet)
    BY <1>1, <2>1, SeqDef, Zenon
  <2> QED
    BY <1>1, <1>3, <2>2, LenIs DEF ChunkLists
<1> HIDE DEF cs
<1>5. SizeOf(st.chunks, DOMAIN st.chunks) = 0 /\ SizeOf(cs, DOMAIN cs) = 0
  <2>1. \A ds \in ChunkLists : (\A i \in 1..Len(ds) : ds[i].size = 0) => SizeOf(ds, DOMAIN ds) = 0
    <3> SUFFICES ASSUME NEW ds \in ChunkLists, \A i \in 1..Len(ds) : ds[i].size = 0
                 PROVE  SizeOf(ds, DOMAIN ds) = 0
      OBVIOUS
    <3> DEFINE f == [i \in DOMAIN ds |-> IF i \in DOMAIN ds THEN ds[i].size ELSE 0]
    <3>1. Len(ds) \in Nat /\ DOMAIN ds = 1..Len(ds)
      BY ChunkListIs
    <3>2. \A i \in 1..Len(ds) : f[i] = 0
      BY <3>1
    <3>3. SizeOf(ds, DOMAIN ds) = SumOf(f, Len(ds))
      BY DEF SizeOf
    <3> HIDE DEF f
    <3> QED
      BY <3>1, <3>2, <3>3, SumZero
  <2>2. st.chunks \in ChunkLists /\ Len(st.chunks) = 0
    BY StateIs
  <2>3. \A i \in 1..n : cs[i].size = 0
    BY <1>1, <1>2, <1>3
  <2> QED
    BY <1>4, <2>1, <2>2, <2>3
<1> DEFINE t == st.total - SizeOf(st.chunks, DOMAIN st.chunks)
<1>6. t = 0
  BY <1>5
<1>7. new = [st EXCEPT !.chunks = cs, !.recent = << >>, !.active = 0, !.total = t]
  BY DEF Loaded, cs, index
<1> HIDE DEF new, t
<1>8. new \in StateSet
  <2>1. t \in Int /\ << >> \in Seq(Nat) /\ 0 \in Nat
    BY <1>6
  <2> QED
    BY <1>4, <1>7, <2>1, Zenon DEF StateSet
<1>9. /\ new.chunks = cs /\ new.recent = << >> /\ new.active = 0 /\ new.total = 0
      /\ new.cache = st.cache
  BY <1>6, <1>7 DEF StateSet
<1>10. \A i \in 1..n : /\ Holds(cs[i], st.cache.blocks[i], con[i], Biggest)
                       /\ ~Fresh(cs[i]) /\ ~cs[i].loaded
  <2> SUFFICES ASSUME NEW i \in 1..n
               PROVE  /\ Holds(cs[i], st.cache.blocks[i], con[i], Biggest)
                      /\ ~Fresh(cs[i]) /\ ~cs[i].loaded
    OBVIOUS
  <2>1. /\ cs[i].recs = << >> /\ ~cs[i].loaded /\ cs[i].size = 0
        /\ cs[i].used = Room(con[i]) /\ cs[i].saved
    BY <1>1, <1>2, <1>3
  <2> QED
    BY <1>1, <2>1 DEF Holds, Fresh
<1>11. ChunksHold(new, con, Biggest)
  BY <1>1, <1>4, <1>9, <1>10 DEF ChunksHold, n
<1>12. RecentSound(new)
  <2>1. Distinct(<< >>)
    BY DEF Distinct
  <2>2. Len(<< >>) = 0 /\ 0 <= n
    BY <1>1
  <2> QED
    BY <1>4, <1>9, <1>10, <2>1, <2>2 DEF RecentSound
<1>13. TotalExact(new)
  BY <1>5, <1>9 DEF TotalExact
<1>14. Sound(new, con, Biggest) /\ NoFresh(new)
  BY <1>4, <1>8, <1>9, <1>10, <1>11, <1>12, <1>13, BiggestIs DEF Sound, NoFresh
<1>15. Kept(new, << >>, Fitting)
  <2>1. new.recent \in Seq(Nat) /\ Fitting \in Nat
    BY <1>9, BiggestIs
  <2> QED
    BY <2>1, KeptNone
<1>16. Bounded(new)
  BY <1>9, Constants DEF Bounded, ActiveSize, Limit
<1> QED
  BY <1>1, <1>9, <1>14, <1>15, <1>16 DEF Good, new, con

-----------------------------------------------------------------------------
(* The inductive invariant *)

CompleteSound ==
    complete # NoBlock => Loadable(complete.index, complete.content, cache.blocks)

IInv ==
    /\ raw \in BOOLEAN
    /\ Good(State, content, held)
    /\ Len(held) <= Fitting
    /\ CompleteSound

\* A state is its five parts.
LEMMA StateParts ==
    ASSUME NEW st, st \in StateSet
    PROVE  st = [chunks |-> st.chunks, recent |-> st.recent, active |-> st.active,
                 total |-> st.total, cache |-> st.cache]
BY Zenon DEF StateSet

LEMMA GoodNext ==
    ASSUME NEW st, NEW con, NEW h, Good(st, con, h), Len(h) <= Fitting,
           raw \in BOOLEAN, raw' = raw,
           Becomes(st), content' = con, held' = h, CompleteSound'
    PROVE  IInv'
<1>1. State' = [chunks |-> st.chunks, recent |-> st.recent, active |-> st.active,
                total |-> st.total, cache |-> st.cache]
  BY DEF State, Becomes
<1>2. State' = st
  BY <1>1, StateParts DEF Good, Sound
<1>3. Biggest' = Biggest /\ Fitting' = Fitting
  BY DEF Biggest, Fitting
<1>4. Good(State, content, held)'
  BY <1>2, <1>3 DEF Good
<1> QED
  BY <1>3, <1>4 DEF IInv

LEMMA CompleteKept ==
    ASSUME IInv, Keep
    PROVE  raw \in BOOLEAN /\ raw' = raw /\ CompleteSound'
<1>1. raw \in BOOLEAN /\ raw' = raw /\ CompleteSound
  BY DEF IInv, Keep
<1>2. CASE cache' = cache
  <2>1. complete' = complete /\ Biggest' = Biggest
    BY <1>1, <1>2 DEF Keep, Biggest
  <2> QED
    BY <1>1, <1>2, <2>1 DEF CompleteSound, Loadable
<1>3. CASE cache' # cache
  <2>1. complete' = NoBlock
    BY <1>3 DEF Keep
  <2> QED
    BY <1>1, <2>1 DEF CompleteSound
<1> QED
  BY <1>2, <1>3, <1>1

LEMMA ContentIs ==
    ASSUME IInv
    PROVE  /\ State \in StateSet /\ content \in Seq(RecordLists)
           /\ Len(content) \in Nat /\ DOMAIN content = 1..Len(content)
           /\ \A i \in 1..Len(content) : /\ content[i] \in RecordLists
                                         /\ Len(content[i]) \in Nat
                                         /\ DOMAIN content[i] = 1..Len(content[i])
           /\ Len(content) = Len(chunks) /\ Len(content) <= MaxChunks
           /\ held \in Seq(Nat)
<1>1. /\ State \in StateSet /\ content \in Seq(RecordLists)
      /\ Len(content) = Len(State.chunks) /\ Len(content) <= MaxChunks
      /\ held \in Seq(Nat)
  BY DEF IInv, Good, Sound, ChunksHold, Kept, Begins
<1>2. /\ Len(content) \in Nat /\ DOMAIN content = 1..Len(content)
      /\ \A i \in 1..Len(content) : content[i] \in RecordLists
  BY <1>1, LenProperties, ElementOfSeq
<1>3. \A r \in RecordLists : Len(r) \in Nat /\ DOMAIN r = 1..Len(r)
  BY LenProperties DEF RecordLists
<1>4. State.chunks = chunks
  BY DEF State
<1> QED
  BY <1>1, <1>2, <1>3, <1>4

\* Nothing is held but what fits.
LEMMA CutGood ==
    ASSUME IInv, Keep, NEW st, NEW con, NEW h, Good(st, con, h),
           Becomes(st), content' = con, held' = [j \in 1..Min({Len(h), Fitting}) |-> h[j]]
    PROVE  IInv'
<1>1. Kept(st, held', Fitting) /\ Len(held') <= Fitting
  <2>1. Sound(st, con, Biggest) /\ Kept(st, h, Fitting) /\ Fitting \in Nat
    BY BiggestIs DEF Good
  <2> QED
    BY <2>1, KeptCut
<1>2. Good(st, con, held')
  BY <1>1 DEF Good
<1> QED
  BY <1>1, <1>2, CompleteKept, GoodNext

LEMMA UseGood ==
    ASSUME IInv, Keep, NEW i \in Nat \ {0}, Use(i),
           NEW st, NEW con, Good(st, con, Used(held, Len(content), i)),
           Becomes(st), content' = con
    PROVE  IInv'
<1>1. held' = [j \in 1..Min({Len(Used(held, Len(content), i)), Fitting}) |->
                 Used(held, Len(content), i)[j]]
  <2>1. i \in DOMAIN content <=> i <= Len(content)
    BY ContentIs
  <2> DEFINE used == IF i \in DOMAIN content THEN ToFront(held, i)
                     ELSE [j \in 1..(i - Len(content) + Len(held)) |->
                             IF j <= i - Len(content) THEN i + 1 - j
                             ELSE held[j - (i - Len(content))]]
  <2>2. held' = [j \in 1..Min({Len(used), Fitting}) |-> used[j]]
    BY DEF Use
  <2>3. used = Used(held, Len(content), i)
    BY <2>1 DEF Used, GrownHeld
  <2> HIDE DEF used
  <2> QED
    BY <2>2, <2>3
<1> QED
  BY <1>1, CutGood

LEMMA StateFields ==
    /\ State.chunks = chunks /\ State.recent = recent /\ State.active = active
    /\ State.total = total /\ State.cache = cache
BY DEF State

\* The chunk after all others is put in front of what is held.
LEMMA UsedNext ==
    ASSUME IInv
    PROVE  Used(held, Len(content), Len(content) + 1) = ToFront(held, Len(content) + 1)
<1> DEFINE n == Len(content)
<1>1. n \in Nat /\ held \in Seq(Nat) /\ ~(n + 1 <= n)
  BY ContentIs
<1>2. \A j \in 1..Len(held) : held[j] # n + 1
  <2>1. Begins(held, State.recent) /\ Sound(State, content, Biggest)
    BY DEF IInv, Good, Kept
  <2>2. /\ Len(State.recent) \in Nat /\ Len(State.chunks) = n
        /\ \A j \in 1..Len(State.recent) : State.recent[j] \in 1..Len(State.chunks)
    BY <2>1, SizesBounded, ContentIs, StateFields
  <2>3. /\ Len(held) \in Nat /\ Len(held) <= Len(State.recent)
        /\ \A j \in 1..Len(held) : held[j] = State.recent[j]
    BY <1>1, <2>1, LenProperties DEF Begins
  <2> HIDE DEF n
  <2>4. \A j \in 1..Len(held) : held[j] \in 1..n
    BY <2>2, <2>3
  <2> QED
    BY <1>1, <2>4
<1>3. GrownHeld(held, n, n) = held
  <2>1. Len(held) \in Nat /\ held = [j \in 1..Len(held) |-> held[j]]
    BY <1>1, LenProperties
  <2>2. n - n + Len(held) = Len(held) /\ \A j \in 1..Len(held) : ~(j <= n - n) /\ j - (n - n) = j
    BY <1>1, <2>1
  <2>3. GrownHeld(held, n, n) = [j \in 1..Len(held) |-> held[j]]
    BY <2>2 DEF GrownHeld
  <2> QED
    BY <2>1, <2>3
<1> HIDE DEF n
<1>4. GrownHeld(held, n, n + 1) = ToFront(GrownHeld(held, n, n), n + 1)
  BY <1>1, <1>2, <1>3, GrownHeldIs
<1> QED
  BY <1>1, <1>3, <1>4 DEF Used, n

LEMMA AllocStep ==
    ASSUME IInv, ~AppendsToSaved, NEW v \in Values, NEW n \in Sizes, Alloc(Record(v, n))
    PROVE  IInv'
<1> DEFINE rec == Record(v, n)
           st == Allocated(State, rec)
<1>1. /\ Good(State, content, held) /\ ~raw /\ Becomes(st) /\ Keep
      /\ active # 0 => ~chunks[active].saved
      /\ Len(chunks) < MaxChunks \/ (active # 0 /\ HasRoom(State, rec))
      /\ content' = IF st.active \in DOMAIN content
                    THEN [content EXCEPT ![st.active] = Append(@, rec)]
                    ELSE Append(content, <<rec>>)
      /\ IF st.active \in DOMAIN content THEN UNCHANGED held ELSE Use(st.active)
  BY DEF IInv, Alloc
<1>2. rec \in RecordSet /\ rec.room <= Biggest
  <2>1. n \in Nat /\ n <= Biggest
    BY <1>1, Constants, BiggestIs
  <2> QED
    BY <2>1 DEF Record, RecordSet
<1>3. raw \in BOOLEAN /\ raw' = raw /\ CompleteSound'
  BY <1>1, CompleteKept
<1>4. /\ Len(content) \in Nat /\ DOMAIN content = 1..Len(content) /\ Len(content) = Len(chunks)
      /\ Len(held) <= Fitting
  BY ContentIs DEF IInv
<1> HIDE DEF rec, st
<1>5. CASE active # 0 /\ HasRoom(State, rec)
  <2>1. State.active # 0 /\ ~State.chunks[State.active].saved
    BY <1>1, <1>5, StateFields
  <2> DEFINE own == [content EXCEPT ![State.active] = Append(content[State.active], rec)]
  <2>2. Good(st, own, held) /\ st.active = State.active /\ State.active \in 1..Len(content)
    BY <1>1, <1>2, <1>5, <2>1, AllocatedHereGood DEF st
  <2>3. content' = own /\ held' = held
    BY <1>1, <1>4, <2>2
  <2> HIDE DEF own
  <2> QED
    BY <1>1, <1>3, <1>4, <2>2, <2>3, GoodNext
<1>6. CASE ~(active # 0 /\ HasRoom(State, rec))
  <2>1. /\ State.active = 0 \/ ~HasRoom(State, rec)
        /\ Len(content) + 1 <= MaxChunks
    BY <1>1, <1>4, <1>6, StateFields, Constants
  <2>2. /\ Good(st, Append(content, <<rec>>), ToFront(held, Len(content) + 1))
        /\ st.active = Len(content) + 1
    BY <1>1, <1>2, <2>1, AllocatedNextGood DEF st
  <2>3. /\ content' = Append(content, <<rec>>) /\ Use(Len(content) + 1)
        /\ Len(content) + 1 \in Nat \ {0}
    BY <1>1, <1>4, <2>2
  <2>4. Good(st, Append(content, <<rec>>), Used(held, Len(content), Len(content) + 1))
    BY <2>2, UsedNext
  <2> QED
    BY <1>1, <2>3, <2>4, UseGood
<1> QED
  BY <1>5, <1>6

LEMMA GetStep ==
    ASSUME IInv, NEW i \in 1..MaxChunks, Get(i)
    PROVE  IInv'
<1> DEFINE st == Fetched(State, i)
<1>1. /\ Good(State, content, held) /\ i \in DOMAIN content /\ Becomes(st)
      /\ content' = content /\ Use(i) /\ Keep
  BY DEF IInv, Get
<1>2. i \in 1..Len(content) /\ i \in Nat \ {0} /\ i <= Len(content)
  BY <1>1, ContentIs
<1> HIDE DEF st
<1>3. Good(st, content, ToFront(held, i))
  BY <1>1, <1>2, FetchedGood DEF st
<1>4. Good(st, content, Used(held, Len(content), i))
  BY <1>2, <1>3 DEF Used
<1> QED
  BY <1>1, <1>2, <1>4, UseGood

LEMMA ChangeStep ==
    ASSUME IInv, NEW p \in Places, NEW v \in Values \union {Freed}, Change(p[1], p[2], v)
    PROVE  IInv'
<1> DEFINE i == p[1]
           k == p[2]
           mid == Fetched(State, i)
           st == Replaced(mid, i, k, v)
           own == [content EXCEPT ![i] = Revalued(content[i], k, v)]
<1>1. /\ Good(State, content, held) /\ Becomes(st)
      /\ content' = own /\ Use(i) /\ Keep
  BY DEF IInv, Change
<1>2. /\ i \in 1..Len(content) /\ i \in Nat \ {0} /\ i <= Len(content)
      /\ k \in 1..Len(content[i]) /\ v \in Values \union RawValues \union {Freed}
  BY ContentIs DEF Places
<1> HIDE DEF st, mid, i, k, own
<1>3. Good(mid, content, ToFront(held, i)) /\ mid.chunks[i].loaded
  BY <1>1, <1>2, FetchedGood DEF mid
<1>4. Good(st, own, ToFront(held, i))
  BY <1>2, <1>3, ReplacedGood DEF st, own
<1>5. Good(st, own, Used(held, Len(content), i))
  BY <1>2, <1>4 DEF Used
<1> QED
  BY <1>1, <1>2, <1>5, UseGood

LEMMA GetRawStep ==
    ASSUME IInv, NEW i \in 1..MaxChunks, GetRaw(i)
    PROVE  IInv'
<1> DEFINE st == Fetched(Grown(State, i), i)
<1>1. /\ Good(State, content, held) /\ raw /\ Becomes(st)
      /\ content' = GrownTo(content, i) /\ Use(i) /\ Keep
  BY DEF IInv, GetRaw, GrownContent, GrownTo
<1>2. i \in Nat \ {0}
  BY Constants
<1> HIDE DEF st
<1>3. Good(st, GrownTo(content, i), Used(held, Len(content), i))
  BY <1>1, GrownGood DEF st
<1> QED
  BY <1>1, <1>2, <1>3, UseGood

LEMMA SetRawStep ==
    ASSUME IInv, NEW i \in 1..MaxChunks, NEW k \in 1..ChunkSize, NEW v \in RawValues,
           SetRaw(i, k, v)
    PROVE  IInv'
<1> DEFINE mid == Fetched(Grown(State, i), i)
           st == Replaced(mid, i, k, v)
           con == GrownTo(content, i)
           own == [con EXCEPT ![i] = Revalued(con[i], k, v)]
           h == Used(held, Len(content), i)
<1>1. /\ Good(State, content, held) /\ raw /\ Becomes(st)
      /\ content' = own /\ Use(i) /\ Keep
  BY DEF IInv, SetRaw, GrownContent, GrownTo
<1>2. i \in Nat \ {0}
  BY Constants
<1> HIDE DEF st, mid, con, own, h
<1>3. Good(mid, con, h) /\ mid.chunks[i].loaded /\ i \in 1..Len(con)
  BY <1>1, GrownGood DEF mid, con, h
<1>4. k \in 1..Len(con[i]) /\ v \in Values \union RawValues \union {Freed}
  BY <1>1, <1>3 DEF Good, RawLists
<1>5. Good(st, own, h)
  BY <1>3, <1>4, ReplacedGood DEF st, own
<1> QED
  BY <1>1, <1>2, <1>5, UseGood DEF h

LEMMA CompactAllStep ==
    ASSUME IInv, CompactAll
    PROVE  IInv'
<1> DEFINE st == Compacted(State, Plenty, 0)
<1>1. Good(State, content, held) /\ Becomes(st) /\ held' = << >> /\ content' = content /\ Keep
  BY DEF IInv, CompactAll
<1> HIDE DEF st
<1>2. Good(st, content, << >>)
  BY <1>1, CompactedGood DEF st
<1>3. Len(<< >>) <= Fitting
  BY BiggestIs
<1> QED
  BY <1>1, <1>2, <1>3, CompleteKept, GoodNext

LEMMA SetCacheStep ==
    ASSUME IInv, SetCache
    PROVE  IInv'
<1> DEFINE st == Opened(State)
<1>1. /\ Good(State, content, held) /\ Len(held) <= Fitting /\ Keep
      /\ cache' = [cache EXCEPT !.open = TRUE]
      /\ chunks' = chunks /\ recent' = recent /\ active' = active /\ total' = total
      /\ content' = content /\ held' = held
  BY DEF IInv, SetCache
<1>2. State \in StateSet /\ Sound(State, content, Biggest)
  BY <1>1 DEF Good, Sound
<1>3. /\ st.chunks = chunks /\ st.recent = recent /\ st.active = active /\ st.total = total
      /\ st.cache = [cache EXCEPT !.open = TRUE]
  BY DEF Opened, State
<1>4. Becomes(st)
  BY <1>1, <1>3 DEF Becomes
<1>5. Sound(st, content, Biggest)
  BY <1>2, OpenedSound
<1> HIDE DEF st
<1>6. Good(st, content, held)
  <2>1. NoFresh(st) /\ (Bounded(State) => Bounded(st)) /\ Kept(st, held, Fitting)
    BY <1>1, <1>3, StateFields DEF Good, NoFresh, Bounded, ActiveSize, Kept, Warm
  <2>2. st.active = State.active
    BY <1>3, StateFields
  <2> QED
    BY <1>1, <1>5, <2>1, <2>2 DEF Good
<1> QED
  BY <1>1, <1>4, <1>6, CompleteKept, GoodNext

LEMMA SaveStep ==
    ASSUME IInv, Save
    PROVE  IInv'
<1> DEFINE st == Saved(State, Len(chunks))
           index == Index(st)
<1>1. /\ Good(State, content, held) /\ raw \in BOOLEAN /\ Len(held) <= Fitting
      /\ cache.open /\ Becomes(st) /\ complete' = [index |-> index, content |-> content]
      /\ raw' = raw /\ content' = content /\ held' = held
  BY DEF IInv, Save
<1>2. Len(State.chunks) = Len(chunks) /\ Len(chunks) \in Nat /\ State.cache.open
  BY <1>1, ContentIs, StateFields
<1>3. Good(st, content, held)
  BY <1>1, <1>2, SavedGood
<1>4. Loadable(index, content, st.cache.blocks)
  BY <1>1, <1>2, SavedLoadable
<1> HIDE DEF st, index
<1>5. /\ complete'.index = index /\ complete'.content = content /\ cache' = st.cache
      /\ Biggest' = Biggest
  BY <1>1 DEF Becomes, Biggest
<1>6. CompleteSound'
  BY <1>1, <1>4, <1>5 DEF CompleteSound, Loadable
<1> QED
  BY <1>1, <1>3, <1>6, GoodNext

LEMMA SaveExpiresStep ==
    ASSUME IInv, SaveExpires
    PROVE  IInv'
<1>1. /\ Good(State, content, held) /\ Len(held) <= Fitting
      /\ content' = content /\ held' = held /\ Keep
  BY DEF IInv, SaveExpires
<1>2. PICK m \in 1..Len(chunks) : Becomes(Saved(State, m))
  BY DEF SaveExpires
<1>3. m \in 0..Len(State.chunks)
  BY ContentIs, StateFields
<1>4. Good(Saved(State, m), content, held)
  BY <1>1, <1>3, SavedGood
<1> QED
  BY <1>1, <1>2, <1>4, CompleteKept, GoodNext

LEMMA LoadStep ==
    ASSUME IInv, ~LoadTouches, Load
    PROVE  IInv'
<1> DEFINE st == Loaded(Empty)
<1>1. /\ complete # NoBlock /\ Becomes(st) /\ content' = complete.content
      /\ held' = << >> /\ Keep
      /\ Loadable(complete.index, complete.content, cache.blocks)
  BY DEF IInv, Load, Touched, CompleteSound
<1>2. cache \in CacheSet
  BY ContentIs, StateIs, StateFields
<1>3. /\ Empty \in StateSet /\ Empty.chunks = << >> /\ Empty.total = 0 /\ Empty.cache = cache
  <2>1. << >> \in ChunkLists /\ << >> \in Seq(Nat)
    BY DEF ChunkLists
  <2> QED
    BY <1>2, <2>1 DEF Empty, StateSet
<1> HIDE DEF st
<1>4. Good(st, complete.content, << >>)
  BY <1>1, <1>3, LoadedGood DEF st
<1>5. Len(<< >>) <= Fitting
  BY BiggestIs
<1> QED
  BY <1>1, <1>4, <1>5, CompleteKept, GoodNext

LEMMA InitSound ==
    ASSUME Init
    PROVE  IInv
<1>1. /\ raw \in BOOLEAN /\ chunks = << >> /\ recent = << >> /\ active = 0 /\ total = 0
      /\ cache = [open |-> FALSE, blocks |-> [i \in 1..MaxChunks |-> NoBlock]]
      /\ content = << >> /\ complete = NoBlock /\ held = << >>
  BY DEF Init
<1>2. cache \in CacheSet
  BY <1>1 DEF CacheSet, Blocks
<1>3. State \in StateSet
  <2>1. << >> \in ChunkLists /\ << >> \in Seq(Nat)
    BY DEF ChunkLists
  <2> QED
    BY <1>1, <1>2, <2>1 DEF State, StateSet
<1>4. Len(<< >>) = 0 /\ << >> \in Seq(RecordLists) /\ << >> \in Seq(Nat)
  OBVIOUS
<1>5. ChunksHold(State, content, Biggest)
  BY <1>1, <1>4, StateFields, Constants DEF ChunksHold
<1>6. RecentSound(State) /\ NoFresh(State)
  <2>1. \A list : list = << >> => Distinct(list)
    BY <1>4 DEF Distinct
  <2> QED
    BY <1>1, <1>4, <2>1, StateFields DEF RecentSound, NoFresh
<1>7. TotalExact(State)
  <2>1. << >> \in ChunkLists
    BY DEF ChunkLists
  <2>2. SizeOf(<< >>, {}) = 0
    BY <2>1, SizeNone
  <2>3. DOMAIN << >> = {}
    BY <2>1, ChunkListIs
  <2> QED
    BY <1>1, <2>2, <2>3, StateFields DEF TotalExact
<1>8. Kept(State, << >>, Fitting)
  BY <1>1, <1>4, StateFields, BiggestIs, KeptNone
<1>9. Bounded(State)
  BY <1>1, StateFields, Constants DEF Bounded, ActiveSize, Limit
<1>10. Sound(State, content, Biggest)
  BY <1>3, <1>5, <1>6, <1>7, BiggestIs DEF Sound
<1>11. Good(State, content, held)
  BY <1>1, <1>4, <1>6, <1>8, <1>9, <1>10, StateFields DEF Good, RawLists
<1>12. Len(held) <= Fitting
  BY <1>1, <1>4, BiggestIs
<1> QED
  BY <1>1, <1>11, <1>12 DEF IInv, CompleteSound

LEMMA NextSound ==
    ASSUME ~AppendsToSaved, ~LoadTouches, IInv, [Next]_vars
    PROVE  IInv'
<1>1. CASE \E v \in Values, n \in Sizes : Alloc(Record(v, n))
  BY <1>1, AllocStep
<1>2. CASE \E p \in Places : \E v \in Values \union {Freed} : Change(p[1], p[2], v)
  BY <1>2, ChangeStep
<1>3. CASE \E i \in 1..MaxChunks :
             Get(i) \/ GetRaw(i) \/ \E k \in 1..ChunkSize, v \in RawValues : SetRaw(i, k, v)
  BY <1>3, GetStep, GetRawStep, SetRawStep
<1>4. CASE CompactAll \/ SetCache \/ Save \/ SaveExpires \/ Load
  BY <1>4, CompactAllStep, SetCacheStep, SaveStep, SaveExpiresStep, LoadStep
<1>5. CASE UNCHANGED vars
  <2>1. State' = State /\ Biggest' = Biggest /\ Fitting' = Fitting
    BY <1>5 DEF vars, State, Biggest, Fitting
  <2>2. raw' = raw /\ content' = content /\ held' = held /\ complete' = complete /\ cache' = cache
    BY <1>5 DEF vars
  <2>3. Good(State, content, held)'
    BY <2>1, <2>2 DEF IInv, Good
  <2>4. CompleteSound'
    BY <2>1, <2>2 DEF IInv, CompleteSound, Loadable
  <2> QED
    BY <2>1, <2>2, <2>3, <2>4 DEF IInv
<1> QED
  BY <1>1, <1>2, <1>3, <1>4, <1>5 DEF Next

\* What is held is in memory, and every chunk holds its records there or in the file.
LEMMA InvariantMeans ==
    ASSUME IInv
    PROVE  ReadsContent /\ HeldStay
<1> DEFINE n == Len(content)
<1>1. /\ \A i \in 1..n : Holds(chunks[i], cache.blocks[i], content[i], Biggest)
      /\ \A i \in 1..n : ~Fresh(chunks[i])
      /\ DOMAIN chunks = 1..n /\ DOMAIN content = 1..n
  <2>1. n = Len(chunks) /\ DOMAIN State.chunks = 1..Len(State.chunks)
    BY ContentIs, StateIs
  <2> QED
    BY <2>1, ContentIs, StateFields DEF IInv, Good, Sound, ChunksHold, NoFresh
<1>2. ASSUME NEW i \in 1..n PROVE Found(i) = content[i]
  BY <1>1 DEF Holds, Fresh, Found
<1>3. ReadsContent
  BY <1>1, <1>2 DEF ReadsContent
<1>4. HeldStay
  <2>1. /\ Begins(held, recent) /\ Len(held) <= Fitting /\ Fitting \in Nat
        /\ Warm(State, recent, AtMost(Len(held), Fitting), 0)
        /\ held \in Seq(Nat)
    BY BiggestIs, ContentIs, StateFields DEF IInv, Good, Kept
  <2>2. Len(held) \in Nat /\ DOMAIN held = 1..Len(held) /\ AtMost(Len(held), Fitting) = Len(held)
    BY <2>1, LenProperties DEF AtMost
  <2>3. \A j \in 1..Len(held) : held[j] = recent[j] /\ (recent[j] # 0 => chunks[recent[j]].loaded)
    BY <2>1, <2>2, StateFields DEF Begins, Warm
  <2>4. \A j \in 1..Len(held) : recent[j] # 0
    <3>1. /\ Len(recent) \in Nat
          /\ \A j \in 1..Len(recent) : recent[j] \in 1..Len(chunks)
      BY SizesBounded, StateFields DEF IInv, Good
    <3>2. \A j \in 1..Len(held) : j \in 1..Len(recent)
      BY <2>1, <2>2, <3>1 DEF Begins
    <3> QED
      BY <3>1, <3>2
  <2> QED
    BY <2>2, <2>3, <2>4 DEF HeldStay
<1> QED
  BY <1>3, <1>4

\* The memory is what is counted, and is bounded.
LEMMA InvariantBounds ==
    ASSUME IInv, ChunkSize <= MaxSize, \A n \in Sizes : n <= MaxSize
    PROVE  MemorySound
<1> DEFINE n == Len(chunks)
<1>1. /\ Sound(State, content, Biggest) /\ NoFresh(State) /\ Bounded(State)
      /\ (raw => active = 0) /\ raw \in BOOLEAN
      /\ Biggest \in Nat
  BY BiggestIs, StateFields DEF IInv, Good
<1>2. /\ State \in StateSet /\ RecentSound(State) /\ TotalExact(State)
      /\ n \in Nat /\ DOMAIN chunks = 1..n /\ n <= MaxChunks /\ active \in Nat
      /\ \A i \in 1..n : Holds(chunks[i], cache.blocks[i], content[i], Biggest)
      /\ \A i \in 1..n : ~Fresh(chunks[i])
      /\ \A i \in 1..n : chunks[i].size \in Nat /\ chunks[i].size <= Biggest
  <2>1. State \in StateSet /\ RecentSound(State) /\ TotalExact(State)
    BY <1>1 DEF Sound
  <2>2. n \in Nat /\ DOMAIN chunks = 1..n /\ active \in Nat
    BY <2>1, StateIs, StateFields
  <2>3. n = Len(content) /\ n <= MaxChunks
    BY ContentIs
  <2>4. /\ \A i \in 1..n : Holds(chunks[i], cache.blocks[i], content[i], Biggest)
        /\ \A i \in 1..n : ~Fresh(chunks[i])
    BY <1>1, <2>3, StateFields DEF Sound, ChunksHold, NoFresh
  <2>5. \A i \in 1..n : chunks[i].size \in Nat /\ chunks[i].size <= Biggest
    BY <1>1, SizesBounded, StateFields
  <2> QED
    BY <2>1, <2>2, <2>3, <2>4, <2>5
<1>3. /\ DOMAIN recent = 1..Len(recent) /\ Len(recent) \in Nat
      /\ \A i, j \in 1..Len(recent) : recent[i] = recent[j] => i = j
      /\ active <= n
      /\ \A i \in 1..n : chunks[i].loaded => \E j \in 1..Len(recent) : recent[j] = i
  BY <1>1, <1>2, SizesBounded, StateFields DEF RecentSound, Distinct, Listed
<1>4. TypeOK
  <2>1. ASSUME NEW i \in 1..n
        PROVE  /\ chunks[i].loaded => /\ chunks[i].used = Room(chunks[i].recs)
                                      /\ chunks[i].used <= chunks[i].size
                                      /\ i \in {recent[j] : j \in DOMAIN recent}
               /\ ~chunks[i].loaded => chunks[i].recs = << >> /\ chunks[i].size = 0
               /\ ~chunks[i].loaded => chunks[i].saved /\ cache.blocks[i] # NoBlock
    <3>1. Holds(chunks[i], cache.blocks[i], content[i], Biggest) /\ ~Fresh(chunks[i])
      BY <1>2
    <3>2. chunks[i].loaded => i \in {recent[j] : j \in DOMAIN recent}
      BY <1>3
    <3>3. chunks[i].loaded => /\ chunks[i].used = Room(chunks[i].recs)
                              /\ chunks[i].used <= chunks[i].size
      BY <3>1 DEF Holds
    <3>4. ~chunks[i].loaded => chunks[i].recs = << >> /\ chunks[i].size = 0
      BY <3>1 DEF Holds
    <3>5. ~chunks[i].loaded => chunks[i].saved /\ cache.blocks[i] # NoBlock
      BY <3>1, Constants DEF Holds, Fresh
    <3> QED
      BY <3>2, <3>3, <3>4, <3>5
  <2>2. active \in 0..n /\ \A i, j \in DOMAIN recent : recent[i] = recent[j] => i = j
    BY <1>2, <1>3
  <2> HIDE DEF n
  <2>3. \A i \in DOMAIN chunks :
           /\ chunks[i].loaded => /\ chunks[i].used = Room(chunks[i].recs)
                                  /\ chunks[i].used <= chunks[i].size
                                  /\ i \in {recent[j] : j \in DOMAIN recent}
           /\ ~chunks[i].loaded => chunks[i].recs = << >> /\ chunks[i].size = 0
           /\ ~chunks[i].loaded => chunks[i].saved /\ cache.blocks[i] # NoBlock
    BY <1>2, <2>1
  <2> QED
    BY <1>1, <1>2, <2>2, <2>3, Zenon DEF TypeOK, n
<1>5. TotalIsExact
  BY <1>2, StateFields DEF TotalExact, TotalIsExact
<1>6. MemoryBounded
  <2>1. total <= Limit + ActiveSize(State) /\ total \in Int
    BY <1>1, <1>2, StateIs, StateFields DEF Bounded
  <2>2. CASE active = 0
    <3>1. ActiveSize(State) = 0
      BY <2>2, StateFields DEF ActiveSize
    <3> QED
      BY <1>1, <2>1, <3>1, Constants DEF MemoryBounded, Limit
  <2>3. CASE active # 0
    <3>1. ~raw /\ active \in 1..n
      BY <1>1, <1>2, <1>3, <2>3
    <3>2. ActiveSize(State) = chunks[active].size
      BY <2>3, StateFields DEF ActiveSize
    <3>3. ActiveSize(State) \in Nat /\ ActiveSize(State) <= Biggest
      BY <1>2, <3>1, <3>2
    <3> QED
      BY <1>1, <2>1, <3>1, <3>3, Constants DEF MemoryBounded, Limit
  <2> QED
    BY <2>2, <2>3
<1> QED
  BY <1>4, <1>5, <1>6 DEF MemorySound

-----------------------------------------------------------------------------
(* The theorems *)

\* The inductive invariant holds of a storage that appends to no chunk after it was saved
\* and is not used before it is loaded.
THEOREM StorageAlwaysSound ==
    ASSUME ~AppendsToSaved, ~LoadTouches
    PROVE  Spec => []IInv
<1>1. Init => IInv
  BY InitSound
<1>2. IInv /\ [Next]_vars => IInv'
  BY NextSound
<1> QED
  BY <1>1, <1>2, PTL DEF Spec

\* Whatever is swapped out, saved, restored and loaded in between, and whichever chunks
\* compact() chooses, getText, getElem and getRaw read what was last written.
THEOREM AlwaysReadsContent ==
    ASSUME ~AppendsToSaved, ~LoadTouches
    PROVE  Spec => []ReadsContent
<1>1. IInv => ReadsContent
  BY InvariantMeans
<1> QED
  BY <1>1, StorageAlwaysSound, PTL

\* compact() takes no chunk from memory that was among the last ones getChunk was called
\* for, as many as fit whatever their size.
THEOREM HeldAlwaysStay ==
    ASSUME ~AppendsToSaved, ~LoadTouches
    PROVE  Spec => []HeldStay
<1>1. IInv => HeldStay
  BY InvariantMeans
<1> QED
  BY <1>1, StorageAlwaysSound, PTL

\* _uncompressedSize is what the chunks in memory take, and is bounded, if no record and
\* no chunk is larger than the maximum.
THEOREM MemoryAlwaysSound ==
    ASSUME ~AppendsToSaved, ~LoadTouches,
           ChunkSize <= MaxSize, \A n \in Sizes : n <= MaxSize
    PROVE  Spec => []MemorySound
<1>1. IInv => MemorySound
  BY InvariantBounds
<1> QED
  BY <1>1, StorageAlwaysSound, PTL

=============================================================================
