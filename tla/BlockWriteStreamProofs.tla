----------------------- MODULE BlockWriteStreamProofs -----------------------
(***************************************************************************)
(* Proofs about the write cache of aligned blocks, for any size and number *)
(* of blocks and any headers and blocks of the cache file above.           *)
(*                                                                         *)
(* The operations pass on a state; what holds of the stream is said of     *)
(* such states, over the content it stands for, so that it can be followed *)
(* from one piece of a read or a write to the next.  First the places of   *)
(* blocks and pieces, then what each operator does to a state, then the    *)
(* invariants and the refinement.                                          *)
(***************************************************************************)
EXTENDS BlockWriteStream, FiniteSetTheorems, SequenceTheorems, WellFoundedInduction, TLAPS

-----------------------------------------------------------------------------
(* Numbers, and the places of blocks *)

\* A set that holds 0, and with each number below n the next one.
LEMMA UpTo ==
    ASSUME NEW n \in Nat, NEW G, 0 \in G, \A m \in 0..(n - 1) : m \in G => m + 1 \in G
    PROVE  \A m \in 0..n : m \in G
<1> DEFINE T == (0..n) \ G
<1> SUFFICES ASSUME T # {} PROVE FALSE
  OBVIOUS
<1>1. \E m \in T : \A k \in T : <<k, m>> \notin OpToRel(<, Nat)
  <2>1. T \subseteq Nat /\ T # {}
    OBVIOUS
  <2> QED
    BY <2>1, NatLessThanWellFounded, WFMin
<1>2. PICK m \in T : \A k \in T : <<k, m>> \notin OpToRel(<, Nat)
  BY <1>1
<1>3. m # 0 /\ m \in 0..n
  BY <1>2
<1>4. m - 1 \in 0..(n - 1) /\ m - 1 < m /\ (m - 1) + 1 = m /\ <<m - 1, m>> \in Nat \X Nat
  BY <1>3
<1>5. m - 1 \notin T
  BY <1>2, <1>4 DEF OpToRel
<1>6. m - 1 \in G
  BY <1>4, <1>5
<1>7. m \in G
  BY <1>4, <1>6
<1> QED
  BY <1>2, <1>7

\* The constants, as the steps below need them.
LEMMA Constants ==
    /\ BlockSize \in Nat /\ BlockSize >= 1 /\ BlockCount \in Nat /\ BlockCount >= 1
    /\ Limit \in Nat /\ MaxCount \in Nat /\ Beyond \notin Bytes
    /\ Zero \in Bytes /\ Pad \in Bytes /\ Pad # Zero
BY BlockWriteStreamAssumption

\* Where a block may start.
Aligned(a) == \E d \in Nat : a = d * BlockSize

\* Multiples of the block size are a block apart at least.
LEMMA Times ==
    ASSUME NEW d \in Nat, NEW e \in Nat, d < e
    PROVE  /\ d * BlockSize \in Nat /\ e * BlockSize \in Nat
           /\ d * BlockSize + BlockSize <= e * BlockSize
<1>1. PICK k \in Nat : e = d + 1 + k
  <2>1. e - d - 1 \in Nat /\ e = d + 1 + (e - d - 1)
    OBVIOUS
  <2> QED
    BY <2>1
<1> DEFINE x == d * BlockSize
           y == k * BlockSize
<1>2. x \in Nat /\ y \in Nat
  BY Constants
<1>3. e * BlockSize = x + BlockSize + y
  BY <1>1, Constants
<1> HIDE DEF x, y
<1> QED
  BY <1>2, <1>3, Constants DEF x

\* Blocks that differ do not overlap.
LEMMA AlignedApart ==
    ASSUME NEW a, NEW c, Aligned(a), Aligned(c)
    PROVE  /\ a \in Nat /\ c \in Nat
           /\ a + BlockSize <= c \/ c + BlockSize <= a \/ a = c
<1>1. PICK d \in Nat : a = d * BlockSize
  BY DEF Aligned
<1>2. PICK e \in Nat : c = e * BlockSize
  BY DEF Aligned
<1>3. a \in Nat /\ c \in Nat
  BY <1>1, <1>2, Constants
<1>4. CASE d < e
  BY <1>1, <1>2, <1>3, <1>4, Times
<1>5. CASE e < d
  BY <1>1, <1>2, <1>3, <1>5, Times
<1> QED
  BY <1>1, <1>2, <1>3, <1>4, <1>5

\* The number of the block around a place.
LEMMA BlockOf ==
    ASSUME NEW p \in Nat
    PROVE  /\ p \div BlockSize \in Nat
           /\ (p \div BlockSize) * BlockSize \in Nat
           /\ (p \div BlockSize) * BlockSize <= p
           /\ p < (p \div BlockSize) * BlockSize + BlockSize
           /\ Aligned((p \div BlockSize) * BlockSize)
<1>1. /\ p \div BlockSize \in Nat
      /\ (p \div BlockSize) * BlockSize <= p
      /\ p < (p \div BlockSize) * BlockSize + BlockSize
  BY Constants
<1>2. (p \div BlockSize) * BlockSize \in Nat
  BY <1>1, Constants
<1>3. Aligned((p \div BlockSize) * BlockSize)
  BY <1>1, Zenon DEF Aligned
<1> QED
  BY <1>1, <1>2, <1>3

\* As the type invariant says it.
LEMMA AlignedMod == ASSUME NEW a, Aligned(a) PROVE a % BlockSize = 0
<1>1. PICK d \in Nat : a = d * BlockSize
  BY DEF Aligned
<1> DEFINE e == a \div BlockSize
<1>2. /\ a \in Nat /\ e \in Nat
      /\ e * BlockSize <= a /\ a < e * BlockSize + BlockSize
  BY <1>1, BlockOf, Constants
<1>3. a % BlockSize = a - e * BlockSize
  BY <1>2, Constants
<1> HIDE DEF e
<1>4. e = d
  <2>1. CASE e < d
    BY <1>1, <1>2, <2>1, Times, Constants
  <2>2. CASE d < e
    BY <1>1, <1>2, <2>2, Times, Constants
  <2> QED
    BY <1>1, <1>2, <2>1, <2>2
<1> QED
  BY <1>1, <1>2, <1>3, <1>4, Constants

\* What the pieces of a range are: they follow each other, each within a block.
LEMMA PieceIs ==
    ASSUME NEW p \in Nat, NEW n \in Nat, NEW k \in 1..PieceCount(p, n)
    PROVE  /\ PieceFrom(p, k) \in Nat /\ PieceTo(p, n, k) \in Nat
           /\ p <= PieceFrom(p, k) /\ PieceFrom(p, k) < PieceTo(p, n, k)
           /\ PieceTo(p, n, k) <= p + n
           /\ \E a : /\ Aligned(a) /\ a <= PieceFrom(p, k)
                     /\ PieceTo(p, n, k) <= a + BlockSize
           /\ k = 1 => PieceFrom(p, k) = p
           /\ k < PieceCount(p, n) => PieceFrom(p, k + 1) = PieceTo(p, n, k)
           /\ k = PieceCount(p, n) => PieceTo(p, n, k) = p + n
           /\ k <= PieceTo(p, n, k) - p
<1> DEFINE d == p \div BlockSize
           e == (p + n - 1) \div BlockSize
           a == (d + k - 1) * BlockSize
           c == (d + k) * BlockSize
<1>1. n # 0
  BY DEF PieceCount
<1>2. /\ d \in Nat /\ d * BlockSize \in Nat
      /\ d * BlockSize <= p /\ p < d * BlockSize + BlockSize
  BY BlockOf
<1>3. /\ e \in Nat /\ e * BlockSize \in Nat
      /\ e * BlockSize <= p + n - 1 /\ p + n - 1 < e * BlockSize + BlockSize
  <2>1. p + n - 1 \in Nat
    BY <1>1
  <2> QED
    BY <2>1, BlockOf
<1>4. PieceCount(p, n) = e - d + 1
  BY <1>1 DEF PieceCount
<1>5. PieceFrom(p, k) = (IF k = 1 THEN p ELSE a) /\ PieceTo(p, n, k) = Lower(p + n, c)
  BY DEF PieceFrom, PieceTo
<1>6. k < PieceCount(p, n) => PieceFrom(p, k + 1) = c
  <2>1. (d + (k + 1) - 1) * BlockSize = c
    BY <1>2, Constants
  <2> QED
    BY <2>1 DEF PieceFrom
<1>7. a \in Nat /\ c \in Nat /\ c = a + BlockSize /\ (k = 1 => a = d * BlockSize)
  <2> DEFINE f == d + k - 1
  <2>1. f \in Nat /\ d + k = f + 1 /\ (k = 1 => f = d)
    BY <1>2
  <2> HIDE DEF f
  <2>2. f * BlockSize \in Nat /\ (f + 1) * BlockSize = f * BlockSize + BlockSize
    BY <2>1, Constants
  <2>3. a = f * BlockSize /\ c = (f + 1) * BlockSize
    BY <2>1 DEF f
  <2>4. k = 1 => a = d * BlockSize
    BY <2>1, <2>3
  <2> HIDE DEF a, c
  <2> QED
    BY <2>2, <2>3, <2>4, Constants
<1>8. Aligned(a)
  <2>1. d + k - 1 \in Nat
    BY <1>2
  <2> QED
    BY <2>1 DEF Aligned
<1> HIDE DEF d, e, a, c
<1>9. k - 1 <= a - d * BlockSize /\ (k > 1 => p < a /\ k - 1 <= a - p)
  <2>1. CASE k = 1
    BY <1>2, <1>7, <2>1
  <2>2. CASE k > 1
    <3> DEFINE f == d * BlockSize
               g == (k - 2) * BlockSize
    <3>1. k - 2 \in Nat /\ g \in Nat /\ g >= k - 2
      BY <2>2, Constants
    <3>2. a = f + BlockSize + g
      BY <1>2, <2>2, Constants DEF a
    <3> HIDE DEF f, g
    <3> QED
      BY <1>2, <1>7, <2>2, <3>1, <3>2, Constants DEF f
  <2> QED
    BY <2>1, <2>2
<1>10. d <= e
  <2> SUFFICES ASSUME e < d PROVE FALSE
    BY <1>2, <1>3
  <2> DEFINE x == d * BlockSize
             y == e * BlockSize
  <2>1. y + BlockSize <= x
    BY <1>2, <1>3, Times
  <2>2. x \in Nat /\ y \in Nat /\ x <= p /\ p + n - 1 < y + BlockSize
    BY <1>2, <1>3
  <2> HIDE DEF x, y
  <2> QED
    BY <1>1, <2>1, <2>2, Constants
<1>11. k < PieceCount(p, n) => c <= e * BlockSize
  <2> SUFFICES ASSUME k < PieceCount(p, n) PROVE c <= e * BlockSize
    OBVIOUS
  <2>1. d + k \in Nat /\ (d + k < e \/ d + k = e)
    BY <1>2, <1>3, <1>4
  <2> QED
    BY <1>3, <1>7, <2>1, Times, Constants DEF c
<1>12. k = PieceCount(p, n) => c = e * BlockSize + BlockSize
  <2> SUFFICES ASSUME k = PieceCount(p, n) PROVE c = e * BlockSize + BlockSize
    OBVIOUS
  <2>1. d + k = e + 1
    BY <1>2, <1>3, <1>4
  <2> QED
    BY <1>3, <2>1, Constants DEF c
<1>13. k < PieceCount(p, n) \/ k = PieceCount(p, n)
  BY <1>2, <1>3, <1>4, <1>10
<1>14. a <= p + n - 1
  <2>1. CASE k = 1
    BY <1>1, <1>2, <1>7, <2>1
  <2>2. CASE k > 1
    BY <1>3, <1>7, <1>11, <1>12, <1>13, <2>2, Constants
  <2> QED
    BY <2>1, <2>2
<1>15. /\ PieceFrom(p, k) \in Nat /\ PieceTo(p, n, k) \in Nat
       /\ p <= PieceFrom(p, k) /\ PieceFrom(p, k) < PieceTo(p, n, k)
       /\ PieceTo(p, n, k) <= p + n /\ k <= PieceTo(p, n, k) - p
       /\ a <= PieceFrom(p, k) /\ PieceTo(p, n, k) <= a + BlockSize
  BY <1>1, <1>2, <1>3, <1>5, <1>7, <1>9, <1>14, Constants DEF Lower
<1>16. /\ k < PieceCount(p, n) => PieceTo(p, n, k) = c
       /\ k = PieceCount(p, n) => PieceTo(p, n, k) = p + n
  BY <1>3, <1>5, <1>7, <1>11, <1>12, Constants DEF Lower
<1> QED
  BY <1>5, <1>6, <1>8, <1>15, <1>16

\* A range has no more pieces than bytes, and one unless it is empty.
LEMMA PieceCountIs ==
    ASSUME NEW p \in Nat, NEW n \in Nat
    PROVE  PieceCount(p, n) \in 0..n /\ (n # 0 => PieceCount(p, n) >= 1)
<1>1. CASE n = 0
  BY <1>1 DEF PieceCount
<1>2. CASE n # 0
  <2> DEFINE d == p \div BlockSize
             e == (p + n - 1) \div BlockSize
  <2>1. /\ d \in Nat /\ d * BlockSize \in Nat
        /\ d * BlockSize <= p /\ p < d * BlockSize + BlockSize
    BY BlockOf
  <2>2. /\ e \in Nat /\ e * BlockSize \in Nat
        /\ e * BlockSize <= p + n - 1 /\ p + n - 1 < e * BlockSize + BlockSize
    <3>1. p + n - 1 \in Nat
      BY <1>2
    <3> QED
      BY <3>1, BlockOf
  <2>3. PieceCount(p, n) = e - d + 1
    BY <1>2 DEF PieceCount
  <2> HIDE DEF d, e
  <2>4. d <= e
    <3> SUFFICES ASSUME e < d PROVE FALSE
      BY <2>1, <2>2
    <3> DEFINE x == d * BlockSize
               y == e * BlockSize
    <3>1. y + BlockSize <= x
      BY <2>1, <2>2, Times
    <3>2. x \in Nat /\ y \in Nat /\ x <= p /\ p + n - 1 < y + BlockSize
      BY <2>1, <2>2
    <3> HIDE DEF x, y
    <3> QED
      BY <1>2, <3>1, <3>2, Constants
  <2>5. PieceCount(p, n) \in Nat /\ PieceCount(p, n) >= 1
    BY <2>1, <2>2, <2>3, <2>4
  <2>6. PieceTo(p, n, PieceCount(p, n)) = p + n
        /\ PieceCount(p, n) <= PieceTo(p, n, PieceCount(p, n)) - p
    <3> DEFINE k == PieceCount(p, n)
    <3>1. k \in 1..PieceCount(p, n)
      BY <2>5
    <3> HIDE DEF k
    <3>2. /\ k = PieceCount(p, n) => PieceTo(p, n, k) = p + n
          /\ k <= PieceTo(p, n, k) - p
      BY <3>1, PieceIs
    <3> QED
      BY <3>2 DEF k
  <2> QED
    BY <1>2, <2>5, <2>6
<1> QED
  BY <1>1, <1>2
-----------------------------------------------------------------------------
(* Blocks *)

BlockType ==
    [start : Nat, end : Nat, mstart : Int, mend : Int, buf : [1 .. BlockSize -> Bytes]]

\* What a block has modified.
Covers(b, q) == b.mstart <= q /\ q < b.mend

\* The block c is b once the first n bytes of data are saved in it, at p: what is
\* modified only grows, and what is not covered by it is as it was.
SavedTo(b, c, p, data, n) ==
    /\ c \in BlockType /\ c.start = b.start
    /\ \A k \in 1 .. BlockSize :
          c.buf[k] = IF p < b.start + k /\ b.start + k <= p + n
                     THEN data[b.start + k - p] ELSE b.buf[k]
    /\ \/ c.mstart = Unset /\ c.mend = Unset
       \/ b.start <= c.mstart /\ c.mstart < c.mend /\ c.mend <= Upper(b.mend, p + n)
    /\ b.end <= c.end /\ c.end <= Upper(b.end, p + n)
    /\ \A k \in 1 .. BlockSize :
          ~Covers(c, b.start + k - 1) =>
             ~Covers(b, b.start + k - 1) /\ c.buf[k] = b.buf[k]
    /\ b.mstart # Unset => c.mstart # Unset /\ c.mstart <= b.mstart /\ b.mend <= c.mend

\* The byte is there already, and not past the end.
ByteKept(b, p, byte) == p <= b.end /\ b.buf[p - b.start + 1] = byte

\* The byte is put there, and the modified range grows; the end follows unless the byte
\* is the first one modified.
BytePut(b, c, p, byte) ==
    /\ c \in BlockType /\ c.start = b.start
    /\ \A k \in 1 .. BlockSize :
          c.buf[k] = IF k = p - b.start + 1 THEN byte ELSE b.buf[k]
    /\ \/ /\ b.mstart = Unset
          /\ c.mstart = p /\ c.mend = p + 1 /\ c.end = b.end
       \/ /\ b.mstart # Unset
          /\ c.mstart = Lower(b.mstart, p) /\ c.mend = Upper(b.mend, p + 1)
          /\ c.end = Upper(b.end, p + 1)

\* Block::save of one byte.
LEMMA ByteSavedIs ==
    ASSUME NEW b \in BlockType, NEW p \in Nat, NEW byte \in Bytes,
           b.start <= p, p < b.start + BlockSize
    PROVE  LET c == ByteSaved(b, p, byte)
           IN /\ p - b.start + 1 \in 1 .. BlockSize
              /\ (c = b /\ ByteKept(b, p, byte)) \/ BytePut(b, c, p, byte)
<1> DEFINE c == ByteSaved(b, p, byte)
           at == p - b.start + 1
           bf == [b.buf EXCEPT ![at] = byte]
           d == [b EXCEPT !.buf = bf]
<1>1. /\ b.start \in Nat /\ b.end \in Nat /\ b.mstart \in Int /\ b.mend \in Int
      /\ b.buf \in [1 .. BlockSize -> Bytes] /\ at \in 1 .. BlockSize
  BY Constants DEF BlockType
<1>2. /\ bf \in [1 .. BlockSize -> Bytes]
      /\ \A k \in 1 .. BlockSize : bf[k] = IF k = at THEN byte ELSE b.buf[k]
  BY <1>1
<1> HIDE DEF at
<1> HIDE DEF bf
<1>3. /\ d \in BlockType /\ d.start = b.start /\ d.end = b.end /\ d.buf = bf
      /\ d.mstart = b.mstart /\ d.mend = b.mend
  BY <1>1, <1>2 DEF BlockType
<1> HIDE DEF d
<1>4. d = [b EXCEPT !.buf[at] = byte]
  BY <1>1 DEF d, bf, BlockType
<1>5. CASE ~(p > b.end \/ b.buf[at] # byte)
  <2>1. c = b
    BY <1>5 DEF ByteSaved, at
  <2> QED
    BY <1>1, <1>5, <2>1 DEF at, ByteKept
<1>6. CASE (p > b.end \/ b.buf[at] # byte) /\ b.mstart = Unset
  <2>1. c = [d EXCEPT !.mstart = p, !.mend = p + 1]
    BY <1>4, <1>6 DEF ByteSaved, at
  <2>2. /\ c \in BlockType /\ c.start = b.start /\ c.end = b.end /\ c.buf = bf
        /\ c.mstart = p /\ c.mend = p + 1
    <3>1. p \in Int /\ p + 1 \in Int
      OBVIOUS
    <3> HIDE DEF c
    <3> QED
      BY <1>3, <2>1, <3>1 DEF BlockType
  <2> HIDE DEF c
  <2> QED
    BY <1>1, <1>2, <1>6, <2>2 DEF at, c, BytePut
<1>7. CASE (p > b.end \/ b.buf[at] # byte) /\ b.mstart # Unset
  <2>1. c = [d EXCEPT !.mstart = Lower(b.mstart, p), !.mend = Upper(b.mend, p + 1),
                      !.end = Upper(b.end, p + 1)]
    BY <1>3, <1>4, <1>7 DEF ByteSaved, at
  <2>2. /\ Lower(b.mstart, p) \in Int /\ Upper(b.mend, p + 1) \in Int
        /\ Upper(b.end, p + 1) \in Nat
    BY <1>1 DEF Lower, Upper
  <2>3. /\ c \in BlockType /\ c.start = b.start /\ c.buf = bf
        /\ c.mstart = Lower(b.mstart, p) /\ c.mend = Upper(b.mend, p + 1)
        /\ c.end = Upper(b.end, p + 1)
    BY <1>3, <2>1, <2>2 DEF BlockType
  <2> HIDE DEF c
  <2> QED
    BY <1>1, <1>2, <1>7, <2>2, <2>3 DEF at, c, BytePut
<1> QED
  BY <1>5, <1>6, <1>7

\* A byte more: from the block with n bytes saved to the one with n + 1.
LEMMA SavedNext ==
    ASSUME NEW b \in BlockType, NEW c, NEW p \in Nat, NEW data \in Seq(Bytes), NEW n \in Nat,
           SavedTo(b, c, p, data, n), n < Len(data),
           b.start <= p, p + Len(data) <= b.start + BlockSize
    PROVE  LET d == ByteSaved(c, p + n, data[n + 1])
           IN /\ SavedTo(b, d, p, data, n + 1)
              /\ \/ d = c /\ ByteKept(c, p + n, data[n + 1])
                 \/ BytePut(c, d, p + n, data[n + 1])
<1> DEFINE x == data[n + 1]
           q == p + n
           at == q - b.start + 1
           d == ByteSaved(c, q, x)
<1>1. /\ x \in Bytes /\ q \in Nat /\ b.start <= q /\ q < b.start + BlockSize
      /\ b.start \in Nat /\ b.end \in Nat /\ b.mstart \in Int /\ b.mend \in Int
      /\ at \in 1 .. BlockSize /\ Len(data) \in Nat
  BY Constants, SMTT(30) DEF BlockType
<1>2. /\ c \in BlockType /\ c.start = b.start /\ c.end \in Nat
      /\ c.mstart \in Int /\ c.mend \in Int
      /\ \A k \in 1 .. BlockSize :
            c.buf[k] = IF p < b.start + k /\ b.start + k <= q
                       THEN data[b.start + k - p] ELSE b.buf[k]
      /\ \/ c.mstart = Unset /\ c.mend = Unset
         \/ b.start <= c.mstart /\ c.mstart < c.mend /\ c.mend <= Upper(b.mend, q)
      /\ b.end <= c.end /\ c.end <= Upper(b.end, q)
      /\ \A k \in 1 .. BlockSize :
            ~Covers(c, b.start + k - 1) =>
               ~Covers(b, b.start + k - 1) /\ c.buf[k] = b.buf[k]
      /\ b.mstart # Unset => c.mstart # Unset /\ c.mstart <= b.mstart /\ b.mend <= c.mend
  BY DEF SavedTo, BlockType
<1>3. (d = c /\ ByteKept(c, q, x)) \/ BytePut(c, d, q, x)
  <2>1. c.start <= q /\ q < c.start + BlockSize
    BY <1>1, <1>2
  <2> HIDE DEF x, q, at
  <2> QED
    BY <1>1, <1>2, <2>1, ByteSavedIs, SMTT(30)
<1>4. \/ d = c /\ q <= c.end /\ c.buf[at] = x
      \/ /\ d \in BlockType /\ d.start = c.start
         /\ \A k \in 1 .. BlockSize : d.buf[k] = IF k = at THEN x ELSE c.buf[k]
         /\ \/ /\ c.mstart = Unset
               /\ d.mstart = q /\ d.mend = q + 1 /\ d.end = c.end
            \/ /\ c.mstart # Unset
               /\ d.mstart = Lower(c.mstart, q) /\ d.mend = Upper(c.mend, q + 1)
               /\ d.end = Upper(c.end, q + 1)
  <2> HIDE DEF x, q, d
  <2> QED
    BY <1>2, <1>3 DEF ByteKept, BytePut
<1>5. x = data[b.start + at - p]
  BY <1>1
<1> HIDE DEF x, at, d
<1>6. /\ at \in Int /\ q = b.start + at - 1
      /\ \A k \in 1 .. BlockSize : b.start + k <= q + 1 <=> b.start + k <= q \/ k = at
      /\ p < b.start + at
  BY <1>1, SMTT(30) DEF at
<1>7. \A k \in 1 .. BlockSize :
         d.buf[k] = IF p < b.start + k /\ b.start + k <= q + 1
                    THEN data[b.start + k - p] ELSE b.buf[k]
  <2> TAKE k \in 1 .. BlockSize
  <2>1. d.buf[k] = IF k = at THEN x ELSE c.buf[k]
    BY <1>1, <1>4
  <2> QED
    BY <1>2, <1>5, <1>6, <2>1
<1>8. d \in BlockType /\ d.start = b.start
  BY <1>2, <1>4
<1> HIDE DEF q
<1>9. /\ \/ d.mstart = Unset /\ d.mend = Unset
         \/ b.start <= d.mstart /\ d.mstart < d.mend /\ d.mend <= Upper(b.mend, q + 1)
      /\ b.end <= d.end /\ d.end <= Upper(b.end, q + 1)
      /\ b.mstart # Unset => d.mstart # Unset /\ d.mstart <= b.mstart /\ b.mend <= d.mend
  <2>1. CASE d = c
    BY <1>1, <1>2, <2>1, SMTT(30) DEF Upper
  <2>2. CASE c.mstart = Unset /\ d.mstart = q /\ d.mend = q + 1 /\ d.end = c.end
    BY <1>1, <1>2, <2>2, SMTT(30) DEF Upper
  <2>3. CASE /\ c.mstart # Unset
             /\ d.mstart = Lower(c.mstart, q) /\ d.mend = Upper(c.mend, q + 1)
             /\ d.end = Upper(c.end, q + 1)
    <3>1. b.start <= c.mstart /\ c.mstart < c.mend /\ c.mend <= Upper(b.mend, q)
      BY <1>2, <2>3
    <3>2. b.start <= d.mstart /\ d.mstart < d.mend /\ d.mend <= Upper(b.mend, q + 1)
      BY <1>1, <1>2, <2>3, <3>1, SMTT(30) DEF Upper, Lower
    <3>3. b.end <= d.end /\ d.end <= Upper(b.end, q + 1)
      BY <1>1, <1>2, <2>3, SMTT(30) DEF Upper
    <3>4. d.mstart # Unset /\ d.mstart <= c.mstart /\ c.mend <= d.mend
      BY <1>1, <1>2, <2>3, <3>1, SMTT(30) DEF Upper, Lower, Unset
    <3>5. b.mstart # Unset => d.mstart <= b.mstart /\ b.mend <= d.mend
      BY <1>1, <1>2, <1>8, <3>4, SMTT(30) DEF BlockType
    <3> QED
      BY <3>2, <3>3, <3>4, <3>5
  <2> QED
    BY <1>4, <2>1, <2>2, <2>3
<1>10. \A k \in 1 .. BlockSize :
          ~Covers(d, b.start + k - 1) =>
             ~Covers(b, b.start + k - 1) /\ d.buf[k] = b.buf[k]
  <2> SUFFICES ASSUME NEW k \in 1 .. BlockSize, ~Covers(d, b.start + k - 1)
               PROVE  ~Covers(b, b.start + k - 1) /\ d.buf[k] = b.buf[k]
    OBVIOUS
  <2>1. CASE d = c
    BY <1>2, <2>1
  <2>2. CASE /\ \A j \in 1 .. BlockSize : d.buf[j] = IF j = at THEN x ELSE c.buf[j]
             /\ c.mstart = Unset /\ d.mstart = q /\ d.mend = q + 1
    <3>1. ~Covers(c, b.start + k - 1)
      BY <1>1, <1>2, <2>2, SMTT(30) DEF Covers, Unset
    <3>2. k # at
      BY <1>1, <1>6, <2>2 DEF Covers
    <3>3. d.buf[k] = c.buf[k]
      BY <2>2, <3>2
    <3> QED
      BY <1>2, <3>1, <3>3
  <2>3. CASE /\ \A j \in 1 .. BlockSize : d.buf[j] = IF j = at THEN x ELSE c.buf[j]
             /\ c.mstart # Unset
             /\ d.mstart = Lower(c.mstart, q) /\ d.mend = Upper(c.mend, q + 1)
    <3>1. ~Covers(c, b.start + k - 1)
      BY <1>1, <1>2, <2>3, SMTT(30) DEF Covers, Lower, Upper
    <3>2. k # at
      BY <1>1, <1>2, <1>6, <2>3, SMTT(30) DEF Covers, Lower, Upper
    <3>3. d.buf[k] = c.buf[k]
      BY <2>3, <3>2
    <3> QED
      BY <1>2, <3>1, <3>3
  <2> QED
    BY <1>4, <2>1, <2>2, <2>3
<1>11. p + (n + 1) = q + 1
  BY DEF q
<1>12. SavedTo(b, d, p, data, n + 1)
  BY <1>7, <1>8, <1>9, <1>10, <1>11 DEF SavedTo
<1> QED
  BY <1>3, <1>12 DEF d, x, q

\* How the end of the block follows what is saved: a byte that is new there is below
\* it, unless it is the last; with three bytes from the end on, that one is too.
EndTo(b, c, p, data, n) ==
    /\ c.mstart = Unset => c.end = b.end /\ (n = 0 \/ p + n - 1 <= b.end)
    /\ c.end = b.end \/ c.end <= c.mend
    /\ n = 0 \/ p + n <= c.mend \/ p + n - 1 <= c.end
    /\ \A k \in 1 .. BlockSize :
          p < b.start + k /\ b.start + k < p + n /\ c.end < b.start + k =>
             data[b.start + k - p] = b.buf[k]
    /\ n >= 3 /\ b.end <= p =>
          \/ p + n <= c.end
          \/ p + n - 1 <= c.end /\ data[n] = b.buf[p + n - b.start]

\* A byte more, and the end.
LEMMA EndNext ==
    ASSUME NEW b \in BlockType, NEW c, NEW d, NEW p \in Nat, NEW data \in Seq(Bytes),
           NEW n \in Nat, SavedTo(b, c, p, data, n), n < Len(data),
           b.start <= p, p + Len(data) <= b.start + BlockSize, EndTo(b, c, p, data, n),
           (d = c /\ ByteKept(c, p + n, data[n + 1])) \/ BytePut(c, d, p + n, data[n + 1])
    PROVE  EndTo(b, d, p, data, n + 1)
<1> DEFINE x == data[n + 1]
           q == p + n
<1>1. /\ q \in Nat /\ b.start \in Nat /\ b.end \in Nat /\ Len(data) \in Nat
      /\ q - b.start + 1 \in 1 .. BlockSize /\ BlockSize \in Nat
  BY Constants, SMTT(30) DEF BlockType
<1>2. /\ c \in BlockType /\ c.start = b.start /\ c.end \in Nat
      /\ c.mstart \in Int /\ c.mend \in Int /\ b.end <= c.end
      /\ c.mstart = Unset => c.mend = Unset
      /\ \A k \in 1 .. BlockSize :
            c.buf[k] = IF p < b.start + k /\ b.start + k <= q
                       THEN data[b.start + k - p] ELSE b.buf[k]
      /\ \A k \in 1 .. BlockSize : ~Covers(c, b.start + k - 1) => c.buf[k] = b.buf[k]
  BY <1>1, SMTT(30) DEF SavedTo, BlockType, Unset
<1>3. d \in BlockType /\ d.end \in Nat /\ d.mstart \in Int /\ d.mend \in Int
  BY <1>2 DEF BytePut, BlockType
<1>4. /\ c.mstart = Unset => c.end = b.end /\ (n = 0 \/ q - 1 <= b.end)
      /\ c.end = b.end \/ c.end <= c.mend
      /\ \A k \in 1 .. BlockSize :
            p < b.start + k /\ b.start + k < q /\ c.end < b.start + k =>
               data[b.start + k - p] = b.buf[k]
  BY DEF EndTo
<1>5. \/ d = c /\ q <= c.end /\ c.buf[q - b.start + 1] = x
      \/ c.mstart = Unset /\ d.mstart = q /\ d.mend = q + 1 /\ d.end = c.end
      \/ /\ c.mstart # Unset /\ d.mstart = Lower(c.mstart, q)
         /\ d.mend = Upper(c.mend, q + 1) /\ d.end = Upper(c.end, q + 1)
  BY <1>2 DEF ByteKept, BytePut
<1>6. d.mstart = Unset => d = c /\ q <= c.end
  <2>1. CASE c.mstart = Unset /\ d.mstart = q
    BY <1>1, <2>1 DEF Unset
  <2>2. CASE c.mstart # Unset /\ d.mstart = Lower(c.mstart, q)
    BY <1>1, <1>2, <2>2 DEF Unset, Lower
  <2> QED
    BY <1>5, <2>1, <2>2
<1>7. d.end = c.end \/ (d.end = q + 1 /\ q + 1 <= d.mend)
  BY <1>1, <1>2, <1>5, SMTT(30) DEF Upper
<1>8. c.mstart # Unset => q <= d.end
  BY <1>1, <1>2, <1>5, SMTT(30) DEF Upper
<1>9. q <= c.end \/ q + 1 <= d.mend
  BY <1>1, <1>2, <1>5, SMTT(30) DEF Upper
<1>10. c.end <= d.end /\ c.mend <= d.mend
  BY <1>1, <1>2, <1>5, SMTT(30) DEF Upper, Unset
<1>11. \/ d.end >= q + 1
       \/ c.mstart = Unset
       \/ q <= c.end /\ c.buf[q - b.start + 1] = x
  BY <1>1, <1>2, <1>5, SMTT(30) DEF Upper
<1> HIDE DEF q
<1>12. d.mstart = Unset => d.end = b.end /\ q <= b.end
  BY <1>4, <1>6
<1>13. d.end = b.end \/ d.end <= d.mend
  BY <1>1, <1>2, <1>3, <1>4, <1>7, <1>10, SMTT(30)
<1>14. q + 1 <= d.mend \/ q <= d.end
  BY <1>1, <1>2, <1>3, <1>9, <1>10
<1>15. ASSUME NEW k \in 1 .. BlockSize, p < b.start + k, b.start + k < q + 1, d.end < b.start + k
       PROVE  data[b.start + k - p] = b.buf[k]
  <2>1. CASE b.start + k < q
    <3>1. c.end < b.start + k
      <4>1. c.end \in Int /\ d.end \in Int /\ b.start + k \in Int
        BY <1>2, <1>3, Constants, SMTT(30) DEF BlockType
      <4> QED
        BY <1>10, <1>15, <4>1
    <3> QED
      BY <1>4, <1>15, <2>1, <3>1
  <2>2. CASE b.start + k = q
    <3>1. c.mstart = Unset
      BY <1>1, <1>3, <1>8, <1>15, <2>2, SMTT(30)
    <3>2. ~Covers(c, b.start + k - 1)
      BY <1>1, <1>2, <3>1 DEF Covers, Unset
    <3>3. c.buf[k] = b.buf[k]
      BY <1>2, <3>2
    <3> QED
      BY <1>1, <1>2, <1>15, <2>2, <3>3, SMTT(30)
  <2>3. b.start \in Int /\ q \in Int /\ k \in Int
    BY <1>1
  <2>4. b.start + k < q \/ b.start + k = q
    BY <1>15, <2>3
  <2> QED
    BY <2>1, <2>2, <2>4
<1>16. ASSUME n + 1 >= 3, b.end <= p
       PROVE  \/ q + 1 <= d.end
              \/ q <= d.end /\ data[n + 1] = b.buf[q + 1 - b.start]
  <2>1. c.mstart # Unset
    BY <1>1, <1>4, <1>16 DEF q
  <2>2. ~(b.start + (q - b.start + 1) <= q) /\ q - b.start + 1 = q + 1 - b.start
    BY <1>1
  <2>3. c.buf[q - b.start + 1] = b.buf[q + 1 - b.start]
    BY <1>1, <1>2, <2>2
  <2> QED
    BY <1>1, <1>8, <1>11, <2>1, <2>3
<1>17. /\ p + (n + 1) = q + 1 /\ p + (n + 1) - 1 = q /\ p + (n + 1) - b.start = q + 1 - b.start
  <2>1. b.start \in Int
    BY <1>1
  <2> QED
    BY <2>1 DEF q
<1> QED
  BY <1>12, <1>13, <1>14, <1>15, <1>16, <1>17 DEF EndTo

\* The recursion of Saved, up to the byte n.
IsSaved(s, b, p, data, n) ==
    s = [i \in 0 .. n |-> IF i = 0 THEN b ELSE ByteSaved(s[i - 1], p + i - 1, data[i])]

\* The recursion of Saved, as a function that is there.
LEMMA SavedThere ==
    ASSUME NEW b, NEW p \in Nat, NEW data, NEW n \in Nat
    PROVE  \E s : IsSaved(s, b, p, data, n)
<1> DEFINE G == {m \in Nat : \E s : IsSaved(s, b, p, data, m)}
<1>1. 0 \in G
  <2> DEFINE s == [i \in 0 .. 0 |-> b]
  <2>1. s = [i \in 0 .. 0 |-> IF i = 0 THEN b ELSE ByteSaved(s[i - 1], p + i - 1, data[i])]
    OBVIOUS
  <2> QED
    BY <2>1 DEF IsSaved
<1>2. ASSUME NEW m \in 0..(n - 1), m \in G PROVE m + 1 \in G
  <2>1. PICK s : IsSaved(s, b, p, data, m)
    BY <1>2
  <2> DEFINE e == ByteSaved(s[m], p + (m + 1) - 1, data[m + 1])
             t == [i \in 0 .. (m + 1) |-> IF i = m + 1 THEN e ELSE s[i]]
  <2>2. \A i \in 0 .. m :
           s[i] = IF i = 0 THEN b ELSE ByteSaved(s[i - 1], p + i - 1, data[i])
    BY <2>1 DEF IsSaved
  <2>3. ASSUME NEW i \in 0 .. (m + 1)
        PROVE  t[i] = IF i = 0 THEN b ELSE ByteSaved(t[i - 1], p + i - 1, data[i])
    <3>1. CASE i = m + 1
      <4>1. i # 0 /\ i - 1 = m /\ i - 1 \in 0 .. (m + 1) /\ i - 1 # m + 1
        BY <3>1
      <4> QED
        BY <3>1, <4>1
    <3>2. CASE i # m + 1 /\ i # 0
      <4>1. i \in 0 .. m /\ i - 1 \in 0 .. (m + 1) /\ i - 1 # m + 1
        BY <3>2
      <4>2. t[i] = s[i] /\ t[i - 1] = s[i - 1]
        BY <3>2, <4>1
      <4> HIDE DEF t
      <4> QED
        BY <2>2, <3>2, <4>1, <4>2
    <3>3. CASE i = 0
      BY <2>2, <3>3
    <3> QED
      BY <3>1, <3>2, <3>3
  <2>4. t = [i \in 0 .. (m + 1) |-> t[i]]
    OBVIOUS
  <2> HIDE DEF t
  <2>5. IsSaved(t, b, p, data, m + 1)
    BY <2>3, <2>4 DEF IsSaved
  <2> QED
    BY <2>5
<1> HIDE DEF G
<1>3. \A m \in 0..n : m \in G
  BY <1>1, <1>2, UpTo
<1> QED
  BY <1>3 DEF G

\* Block::save of the whole data.
LEMMA SavedIs ==
    ASSUME NEW b \in BlockType, NEW p \in Nat, NEW data \in Seq(Bytes),
           \/ b.mstart = Unset /\ b.mend = Unset
           \/ b.start <= b.mstart /\ b.mstart < b.mend,
           b.start <= p, p + Len(data) <= b.start + BlockSize
    PROVE  /\ SavedTo(b, Saved(b, p, data), p, data, Len(data))
           /\ EndTo(b, Saved(b, p, data), p, data, Len(data))
<1> DEFINE n == Len(data)
           s == CHOOSE x : IsSaved(x, b, p, data, n)
           G == {m \in 0..n : SavedTo(b, s[m], p, data, m) /\ EndTo(b, s[m], p, data, m)}
<1>1. n \in Nat
  OBVIOUS
<1>2. IsSaved(s, b, p, data, n)
  BY <1>1, SavedThere
<1>3. Saved(b, p, data) = s[n]
  BY DEF Saved, IsSaved
<1> HIDE DEF s
<1>4. s[0] = b /\ \A m \in 0..(n - 1) : s[m + 1] = ByteSaved(s[m], p + m, data[m + 1])
  <2>1. \A i \in 0..n : s[i] = IF i = 0 THEN b ELSE ByteSaved(s[i - 1], p + i - 1, data[i])
    BY <1>2 DEF IsSaved
  <2>2. s[0] = b
    BY <1>1, <2>1
  <2>3. ASSUME NEW m \in 0..(n - 1) PROVE s[m + 1] = ByteSaved(s[m], p + m, data[m + 1])
    <3>1. m + 1 \in 0..n /\ m + 1 # 0 /\ (m + 1) - 1 = m /\ p + (m + 1) - 1 = p + m
      BY <1>1
    <3> QED
      BY <2>1, <3>1
  <2> QED
    BY <2>2, <2>3
<1>5. SavedTo(b, b, p, data, 0) /\ EndTo(b, b, p, data, 0)
  <2>1. b.start \in Nat /\ b.end \in Nat /\ b.mstart \in Int /\ b.mend \in Int
    BY DEF BlockType
  <2>2. \A k \in 1 .. BlockSize : /\ ~(p < b.start + k /\ b.start + k <= p + 0)
                                 /\ ~(p < b.start + k /\ b.start + k < p + 0)
    BY <2>1
  <2>3. b.end <= Upper(b.end, p + 0) /\ b.mend <= Upper(b.mend, p + 0)
    BY <2>1 DEF Upper
  <2>4. SavedTo(b, b, p, data, 0)
    BY <2>1, <2>2, <2>3 DEF SavedTo
  <2> QED
    BY <2>1, <2>2, <2>4 DEF EndTo
<1> HIDE DEF n
<1>6. 0 \in G
  BY <1>1, <1>4, <1>5
<1>7. ASSUME NEW m \in 0..(n - 1), m \in G PROVE m + 1 \in G
  <2>1. m \in Nat /\ m < Len(data) /\ m + 1 \in 0..n
    BY <1>1 DEF n
  <2>2. SavedTo(b, s[m], p, data, m) /\ EndTo(b, s[m], p, data, m)
    BY <1>7
  <2>3. /\ SavedTo(b, s[m + 1], p, data, m + 1)
        /\ \/ s[m + 1] = s[m] /\ ByteKept(s[m], p + m, data[m + 1])
           \/ BytePut(s[m], s[m + 1], p + m, data[m + 1])
    BY <1>4, <2>1, <2>2, SavedNext
  <2>4. EndTo(b, s[m + 1], p, data, m + 1)
    BY <2>1, <2>2, <2>3, EndNext
  <2> QED
    BY <2>1, <2>3, <2>4
<1> HIDE DEF G
<1>8. n \in G
  <2>1. \A m \in 0..n : m \in G
    BY <1>1, <1>6, <1>7, UpTo
  <2> QED
    BY <1>1, <2>1
<1> QED
  BY <1>3, <1>8 DEF n, G

-----------------------------------------------------------------------------
(* The file below *)

FileType == [data : Seq(Bytes), size : Nat, pos : Nat]

\* Asking for the size of the file changes only the size it takes itself to have.
LEMMA Stretches ==
    ASSUME NEW f \in FileType
    PROVE  /\ Stretched(f) \in FileType /\ Stretched(f).data = f.data
           /\ Stretched(f).pos = f.pos /\ Stretched(f).size = Upper(f.size, f.pos)
<1>1. f.size \in Nat /\ f.pos \in Nat /\ Upper(f.size, f.pos) \in Nat
  BY DEF FileType, Upper
<1>2. Stretched(f) = [f EXCEPT !.size = Upper(f.size, f.pos)]
  BY DEF Stretched
<1> QED
  BY <1>1, <1>2 DEF FileType

\* The file h is f with bytes written at p.
IsWritten(h, f, p, bytes) ==
    LET end == p + Len(bytes)
    IN /\ h \in FileType /\ h.pos = end /\ h.size = Upper(f.size, end)
       /\ Len(h.data) = Upper(Len(f.data), end)
       /\ \A i \in 1 .. Len(h.data) :
             h.data[i] = IF p < i /\ i <= end THEN bytes[i - p]
                         ELSE IF i <= Len(f.data) THEN f.data[i] ELSE Zero

\* Bytes written to the file, cell by cell.
LEMMA FileWrittenIs ==
    ASSUME NEW f \in FileType, NEW p \in Nat, NEW bytes \in Seq(Bytes)
    PROVE  IsWritten(FileWritten(f, p, bytes), f, p, bytes)
<1> DEFINE end == p + Len(bytes)
           n == Upper(Len(f.data), end)
           d == [i \in 1 .. n |-> IF p < i /\ i <= end THEN bytes[i - p]
                                  ELSE IF i <= Len(f.data) THEN f.data[i] ELSE Zero]
           g == FileWritten(f, p, bytes)
<1>1. /\ f.data \in Seq(Bytes) /\ f.size \in Nat /\ Len(f.data) \in Nat /\ Len(bytes) \in Nat
      /\ end \in Nat /\ n \in Nat /\ Zero \in Bytes /\ Upper(f.size, end) \in Nat
  BY Constants DEF FileType, Upper
<1>2. g = [data |-> d, size |-> Upper(f.size, end), pos |-> end]
  BY DEF FileWritten
<1>3. \A i \in 1 .. n : (IF p < i /\ i <= end THEN bytes[i - p]
                         ELSE IF i <= Len(f.data) THEN f.data[i] ELSE Zero) \in Bytes
  <2> TAKE i \in 1 .. n
  <2>1. CASE p < i /\ i <= end
    <3>1. i - p \in 1 .. Len(bytes)
      BY <1>1, <2>1
    <3> QED
      BY <2>1, <3>1
  <2>2. CASE ~(p < i /\ i <= end) /\ i <= Len(f.data)
    BY <1>1, <2>2
  <2> QED
    BY <1>1, <2>1, <2>2
<1> HIDE DEF n, end
<1>4. d \in Seq(Bytes) /\ Len(d) = n /\ DOMAIN d = 1 .. n
  BY <1>1, <1>3
<1>5. \A i \in 1 .. n : d[i] = IF p < i /\ i <= end THEN bytes[i - p]
                               ELSE IF i <= Len(f.data) THEN f.data[i] ELSE Zero
  OBVIOUS
<1> HIDE DEF d
<1>6. g \in FileType /\ g.data = d /\ g.size = Upper(f.size, end) /\ g.pos = end
  BY <1>1, <1>2, <1>4 DEF FileType
<1> HIDE DEF g
<1> QED
  BY <1>4, <1>5, <1>6 DEF IsWritten, g, n, end

\* A cell of the file; past its end there is Zero, until something else goes there.
FileCell(f, q) == IF q < Len(f.data) THEN f.data[q + 1] ELSE Zero

\* The file g is f once some cells of one of two contents went to it.
FileFollows(f, g, old, new) ==
    /\ Len(f.data) <= Len(g.data)
    /\ \A q \in 0 .. Len(g.data) - 1 :
          \/ q < Len(f.data) /\ g.data[q + 1] = f.data[q + 1]
          \/ g.data[q + 1] \in {old[q], new[q]}
          \/ q >= Len(f.data) /\ g.data[q + 1] = Zero

\* A file follows itself.
LEMMA FollowsSame ==
    ASSUME NEW f \in FileType, NEW g \in FileType, g.data = f.data, NEW old, NEW new
    PROVE  FileFollows(f, g, old, new)
BY DEF FileFollows, FileType

\* What follows a file that follows another follows that one.
LEMMA FollowsOn ==
    ASSUME NEW f \in FileType, NEW g \in FileType, NEW h \in FileType, NEW old, NEW new,
           FileFollows(f, g, old, new), FileFollows(g, h, old, new)
    PROVE  FileFollows(f, h, old, new)
<1>1. Len(f.data) \in Nat /\ Len(g.data) \in Nat /\ Len(h.data) \in Nat
  BY DEF FileType
<1>2. Len(f.data) <= Len(g.data) /\ Len(g.data) <= Len(h.data)
  BY DEF FileFollows
<1>3. ASSUME NEW q \in 0 .. Len(h.data) - 1
      PROVE  \/ q < Len(f.data) /\ h.data[q + 1] = f.data[q + 1]
             \/ h.data[q + 1] \in {old[q], new[q]}
             \/ q >= Len(f.data) /\ h.data[q + 1] = Zero
  <2>1. \/ q < Len(g.data) /\ h.data[q + 1] = g.data[q + 1]
        \/ h.data[q + 1] \in {old[q], new[q]}
        \/ q >= Len(g.data) /\ h.data[q + 1] = Zero
    BY DEF FileFollows
  <2>2. q < Len(g.data) => \/ q < Len(f.data) /\ g.data[q + 1] = f.data[q + 1]
                           \/ g.data[q + 1] \in {old[q], new[q]}
                           \/ q >= Len(f.data) /\ g.data[q + 1] = Zero
    BY <1>1 DEF FileFollows
  <2> QED
    BY <1>1, <1>2, <2>1, <2>2
<1> QED
  BY <1>1, <1>2, <1>3 DEF FileFollows

\* A cell that is as the content says stays so.
LEMMA CellKept ==
    ASSUME NEW f \in FileType, NEW g \in FileType, NEW con, FileFollows(f, g, con, con),
           NEW q \in Nat, FileCell(f, q) = con[q]
    PROVE  FileCell(g, q) = con[q]
<1>1. Len(f.data) \in Nat /\ Len(g.data) \in Nat
  BY DEF FileType
<1>2. Len(f.data) <= Len(g.data)
  BY DEF FileFollows
<1>3. CASE q < Len(g.data)
  <2>1. q \in 0 .. Len(g.data) - 1
    BY <1>1, <1>3
  <2>2. \/ q < Len(f.data) /\ g.data[q + 1] = f.data[q + 1]
        \/ g.data[q + 1] \in {con[q], con[q]}
        \/ q >= Len(f.data) /\ g.data[q + 1] = Zero
    BY <2>1 DEF FileFollows
  <2> QED
    BY <1>1, <1>3, <2>2 DEF FileCell
<1> QED
  BY <1>1, <1>2, <1>3 DEF FileCell

-----------------------------------------------------------------------------
(* States *)

StateType == [base : FileType, blocks : Seq(BlockType), size : Nat, count : Nat]

\* The content of a stream of n bytes.
ContentOf(con, n) ==
    /\ con \in [0 .. Limit - 1 -> Bytes \union {Beyond}] /\ n \in 0 .. Limit
    /\ \A q \in 0 .. Limit - 1 : q < n <=> con[q] # Beyond

\* What a block of a stream of n bytes has modified lies within it and the stream.
Marked(b, n) ==
    \/ b.mstart = Unset /\ b.mend = Unset
    \/ /\ b.start <= b.mstart /\ b.mstart < b.mend
       /\ b.mend <= b.start + BlockSize /\ b.mend <= n

\* A cached block of a stream of n bytes: its buffer is the content, and then fill
\* bytes.  It may take itself to end before the stream does.
BlockOK(b, con, n) ==
    /\ Aligned(b.start) /\ b.start < n
    /\ b.end <= b.start + BlockSize /\ b.end <= n /\ Marked(b, n)
    /\ \A k \in 1 .. BlockSize :
          b.buf[k] = IF b.start + k <= n THEN con[b.start + k - 1] ELSE Zero

\* The file is no longer than the stream, and the position within it.
FileWithin(st) ==
    /\ Len(st.base.data) <= st.base.size
    /\ st.base.size <= st.size /\ st.base.pos <= st.size

Apart(bs) == \A i, j \in DOMAIN bs : bs[i].start = bs[j].start => i = j

\* The cache is no larger than the count of blocks says, nor than it was made for.
Bounded(st) ==
    Len(st.blocks) <= st.count /\ Len(st.blocks) <= Upper(BlockCount - 1, 2)

\* The blocks of the state st are of the content con.
Sound(st, con) ==
    /\ st \in StateType /\ ContentOf(con, st.size) /\ FileWithin(st)
    /\ \A i \in DOMAIN st.blocks : BlockOK(st.blocks[i], con, st.size)
    /\ Apart(st.blocks) /\ Bounded(st)

\* A cell comes to the file with a block that is cached, or is as the file has it.
Kept(st, con, q) ==
    \/ \E i \in DOMAIN st.blocks : Covers(st.blocks[i], q)
    \/ FileCell(st.base, q) = con[q]

\* The file reaches to the end of the block at a, or comes to reach it with a cached
\* block, but for a last byte.
Reached(st, a) ==
    LET end == Lower(a + BlockSize, st.size)
    IN \/ end - 1 <= Len(st.base.data)
       \/ \E i \in DOMAIN st.blocks : /\ st.blocks[i].start = a
                                     /\ end - 1 <= st.blocks[i].mend

\* The state st stands for the content con.
Good(st, con) ==
    /\ Sound(st, con)
    /\ \A q \in 0 .. st.size - 1 : Kept(st, con, q)
    /\ \A a \in Nat : Aligned(a) /\ a < st.size => Reached(st, a)

\* The state st stands for the content con once padding follows, in the block last
\* written to: until then its last byte, or the one before that, may be lost.
Pending(st, con) ==
    /\ Sound(st, con) /\ st.blocks # << >> /\ Contains(st.blocks[1], st.size)
    /\ \A q \in 0 .. st.size - 1 :
          Kept(st, con, q) \/ (q = st.size - 1 /\ st.blocks[1].mstart # Unset)
    /\ \A a \in Nat :
          Aligned(a) /\ a < st.size /\ a # st.blocks[1].start => Reached(st, a)

\* The types of the parts of a state.
LEMMA StateIs ==
    ASSUME NEW st \in StateType
    PROVE  /\ st.base \in FileType /\ st.base.data \in Seq(Bytes) /\ Len(st.base.data) \in Nat
           /\ st.base.size \in Nat /\ st.base.pos \in Nat
           /\ st.blocks \in Seq(BlockType) /\ Len(st.blocks) \in Nat
           /\ DOMAIN st.blocks = 1 .. Len(st.blocks)
           /\ \A i \in DOMAIN st.blocks : st.blocks[i] \in BlockType
           /\ st.size \in Nat /\ st.count \in Nat
BY DEF StateType, FileType

\* A state of its parts.
LEMMA StateMade ==
    ASSUME NEW f \in FileType, NEW bs \in Seq(BlockType), NEW z \in Nat, NEW k \in Nat
    PROVE  [base |-> f, blocks |-> bs, size |-> z, count |-> k] \in StateType
BY DEF StateType

\* The types of the parts of a block.
LEMMA BlockIs ==
    ASSUME NEW b \in BlockType
    PROVE  /\ b.start \in Nat /\ b.end \in Nat /\ b.mstart \in Int /\ b.mend \in Int
           /\ b.buf \in [1 .. BlockSize -> Bytes]
BY DEF BlockType

\* What the block has modified is in the file.
Written(b, f, con) ==
    b.mend <= Len(f.data) /\ \A q \in Nat : Covers(b, q) => FileCell(f, q) = con[q]

\* There it stays.
LEMMA WrittenOn ==
    ASSUME NEW f \in FileType, NEW g \in FileType, NEW con, FileFollows(f, g, con, con),
           NEW b \in BlockType, Written(b, f, con)
    PROVE  Written(b, g, con)
<1>1. Len(f.data) \in Nat /\ Len(g.data) \in Nat /\ b.mend \in Int
  BY DEF FileType, BlockType
<1>2. Len(f.data) <= Len(g.data)
  BY DEF FileFollows
<1>3. b.mend <= Len(g.data)
  BY <1>1, <1>2 DEF Written
<1> QED
  BY <1>3, CellKept DEF Written

\* A block goes to the file.
LEMMA BlockWrittenIs ==
    ASSUME NEW st, NEW con, Sound(st, con), NEW b \in BlockType, BlockOK(b, con, st.size)
    PROVE  LET new == BlockWritten(st, b)
           IN /\ new \in StateType /\ new.blocks = st.blocks /\ new.size = st.size
              /\ new.count = st.count
              /\ FileWithin(new) /\ FileFollows(st.base, new.base, con, con)
              /\ Written(b, new.base, con)
<1> DEFINE new == BlockWritten(st, b)
           f == st.base
<1>1. /\ st \in StateType /\ f \in FileType /\ f.data \in Seq(Bytes) /\ Len(f.data) \in Nat
      /\ f.size \in Nat /\ f.pos \in Nat /\ st.size \in Nat
      /\ Len(f.data) <= f.size /\ f.size <= st.size /\ f.pos <= st.size
  BY StateIs DEF Sound, FileWithin
<1>2. /\ b.start \in Nat /\ b.end \in Nat /\ b.mstart \in Int /\ b.mend \in Int
      /\ b.buf \in [1 .. BlockSize -> Bytes]
      /\ b.mstart < b.mend => /\ b.start <= b.mstart /\ b.mend <= b.start + BlockSize
                              /\ b.mend <= st.size
      /\ ~(b.mstart < b.mend) => b.mstart = Unset /\ b.mend = Unset
      /\ \A k \in 1 .. BlockSize :
            b.start + k <= st.size => b.buf[k] = con[b.start + k - 1]
  <2>1. /\ b.start \in Nat /\ b.end \in Nat /\ b.mstart \in Int /\ b.mend \in Int
        /\ b.buf \in [1 .. BlockSize -> Bytes]
    BY BlockIs
  <2>2. /\ b.mstart < b.mend => /\ b.start <= b.mstart /\ b.mend <= b.start + BlockSize
                                /\ b.mend <= st.size
        /\ ~(b.mstart < b.mend) => b.mstart = Unset /\ b.mend = Unset
    BY DEF BlockOK, Marked, Unset
  <2>3. \A k \in 1 .. BlockSize :
           b.start + k <= st.size => b.buf[k] = con[b.start + k - 1]
    BY DEF BlockOK
  <2> QED
    BY <2>1, <2>2, <2>3
<1>3. CASE ~(b.mstart < b.mend)
  <2>1. new = st
    BY <1>3 DEF BlockWritten
  <2>2. Written(b, st.base, con)
    BY <1>1, <1>2, <1>3 DEF Covers, Written, Unset
  <2>3. FileFollows(st.base, st.base, con, con)
    BY <1>1, FollowsSame
  <2> QED
    BY <1>1, <2>1, <2>2, <2>3 DEF Sound
<1>4. CASE b.mstart < b.mend
  <2> DEFINE lo == b.mstart - b.start + 1
             hi == b.mend - b.start
             bytes == SubSeq(b.buf, lo, hi)
             g == FileWritten(f, b.mstart, bytes)
  <2>0. /\ b.start <= b.mstart /\ b.mstart < b.mend
        /\ b.mend <= b.start + BlockSize /\ b.mend <= st.size
        /\ b.start \in Int /\ b.mstart \in Int /\ b.mend \in Int
    BY <1>2, <1>4
  <2>1. lo \in 1 .. BlockSize /\ hi \in 1 .. BlockSize /\ lo <= hi
    BY <2>0, Constants
  <2>2. /\ bytes \in Seq(Bytes) /\ Len(bytes) = hi - lo + 1
        /\ \A i \in 1 .. (hi - lo + 1) : bytes[i] = b.buf[lo + i - 1]
    <3> HIDE DEF lo, hi
    <3>1. \A i \in lo .. hi : b.buf[i] \in Bytes
      BY <1>2, <2>1, Constants
    <3> QED
      BY <2>1, <3>1, SubSeqProperties
  <2>3. b.mstart \in Nat /\ b.mstart + Len(bytes) = b.mend
    <3>1. Len(bytes) = (b.mend - b.start) - (b.mstart - b.start + 1) + 1
      BY <2>2
    <3> HIDE DEF bytes
    <3> QED
      BY <1>2, <2>0, <3>1
  <2>4. new = [st EXCEPT !.base = g, !.size = Upper(st.size, b.mend)]
    <3>1. ~(b.mend > st.size)
      BY <1>1, <1>2, <1>4
    <3> QED
      BY <1>4, <3>1 DEF BlockWritten
  <2>5. Upper(st.size, b.mend) = st.size
    BY <1>1, <1>2, <1>4 DEF Upper
  <2> HIDE DEF bytes
  <2>6. /\ g \in FileType /\ g.pos = b.mend /\ g.size = Upper(f.size, b.mend)
        /\ Len(g.data) = Upper(Len(f.data), b.mend)
        /\ \A i \in 1 .. Len(g.data) :
              g.data[i] = IF b.mstart < i /\ i <= b.mend THEN bytes[i - b.mstart]
                          ELSE IF i <= Len(f.data) THEN f.data[i] ELSE Zero
    <3>1. f \in FileType /\ b.mstart \in Nat /\ bytes \in Seq(Bytes)
      BY <1>1, <2>2, <2>3
    <3>2. IsWritten(g, f, b.mstart, bytes)
      BY <3>1, FileWrittenIs
    <3> HIDE DEF g
    <3> QED
      BY <2>3, <3>2 DEF IsWritten
  <2> HIDE DEF g
  <2>7. /\ new \in StateType /\ new.blocks = st.blocks /\ new.size = st.size
        /\ new.count = st.count /\ new.base = g
    BY <1>1, <2>4, <2>5, <2>6 DEF StateType
  <2>8. FileWithin(new)
    BY <1>1, <1>2, <1>4, <2>6, <2>7 DEF FileWithin, Upper
  <2>9. ASSUME NEW q \in 0 .. st.size - 1, b.mstart <= q, q < b.mend
        PROVE  bytes[(q + 1) - b.mstart] = con[q]
    <3> DEFINE k == (q - b.start) + 1
               i == (q + 1) - b.mstart
    <3>0. q \in Int /\ q < st.size /\ b.mstart <= q /\ q < b.mend
      BY <1>1, <2>9
    <3>1. i \in 1 .. (hi - lo + 1) /\ lo + i - 1 = k
      BY <2>0, <3>0
    <3>2. k \in 1 .. BlockSize /\ b.start + k <= st.size /\ b.start + k - 1 = q
      <4>1. BlockSize \in Int /\ st.size \in Int
        BY <1>1, Constants
      <4> QED
        BY <2>0, <3>0, <4>1
    <3> HIDE DEF lo, hi, k, i
    <3>3. bytes[i] = b.buf[k]
      BY <2>2, <3>1
    <3>4. b.buf[k] = con[q]
      BY <1>2, <3>2
    <3> QED
      BY <3>3, <3>4 DEF i
  <2>10. /\ Len(g.data) \in Nat /\ Len(f.data) <= Len(g.data) /\ b.mend <= Len(g.data)
         /\ Len(g.data) <= st.size
    BY <1>1, <1>2, <1>4, <2>6 DEF Upper
  <2>11. \A q \in 0 .. Len(g.data) - 1 :
            g.data[q + 1] = IF b.mstart <= q /\ q < b.mend THEN con[q]
                            ELSE IF q < Len(f.data) THEN f.data[q + 1] ELSE Zero
    <3> TAKE q \in 0 .. Len(g.data) - 1
    <3>1. q + 1 \in 1 .. Len(g.data) /\ q \in 0 .. st.size - 1
      BY <1>1, <2>10
    <3>2. (b.mstart < q + 1 /\ q + 1 <= b.mend) <=> (b.mstart <= q /\ q < b.mend)
      BY <1>2, <2>10
    <3>3. g.data[q + 1] = IF b.mstart <= q /\ q < b.mend THEN bytes[(q + 1) - b.mstart]
                          ELSE IF q + 1 <= Len(f.data) THEN f.data[q + 1] ELSE Zero
      BY <2>6, <3>1, <3>2
    <3> QED
      BY <1>1, <2>9, <3>1, <3>3
  <2>12. FileFollows(f, g, con, con)
    <3>1. \A q \in 0 .. Len(g.data) - 1 :
             \/ q < Len(f.data) /\ g.data[q + 1] = f.data[q + 1]
             \/ g.data[q + 1] \in {con[q], con[q]}
             \/ q >= Len(f.data) /\ g.data[q + 1] = Zero
      BY <1>1, <2>10, <2>11
    <3> QED
      BY <2>10, <3>1 DEF FileFollows
  <2>13. Written(b, g, con)
    <3> SUFFICES ASSUME NEW q \in Nat, Covers(b, q) PROVE FileCell(g, q) = con[q]
      BY <2>10 DEF Written
    <3>1. b.mstart <= q /\ q < b.mend /\ q \in 0 .. Len(g.data) - 1 /\ q < Len(g.data)
      BY <2>0, <2>10 DEF Covers
    <3> QED
      BY <2>11, <3>1 DEF FileCell
  <2> HIDE DEF new
  <2> QED
    BY <2>7, <2>8, <2>12, <2>13 DEF new
<1> QED
  BY <1>3, <1>4

\* The state new has some of the blocks of st, at other places; what the others had
\* modified is in the file.
Keeps(st, new, con) ==
    /\ new \in StateType /\ new.size = st.size
    /\ FileWithin(new) /\ Apart(new.blocks) /\ Bounded(new)
    /\ FileFollows(st.base, new.base, con, con)
    /\ \A j \in DOMAIN new.blocks :
          \E i \in DOMAIN st.blocks : new.blocks[j] = st.blocks[i]
    /\ \A i \in DOMAIN st.blocks :
          \/ \E j \in DOMAIN new.blocks : new.blocks[j] = st.blocks[i]
          \/ Written(st.blocks[i], new.base, con)

\* It stands for the same content.
LEMMA Fewer ==
    ASSUME NEW st, NEW con, Good(st, con), NEW new, Keeps(st, new, con)
    PROVE  Good(new, con)
<1>0. /\ new \in StateType /\ new.size = st.size
      /\ FileWithin(new) /\ Apart(new.blocks) /\ Bounded(new)
      /\ FileFollows(st.base, new.base, con, con)
      /\ \A j \in DOMAIN new.blocks :
            \E i \in DOMAIN st.blocks : new.blocks[j] = st.blocks[i]
      /\ \A i \in DOMAIN st.blocks :
            \/ \E j \in DOMAIN new.blocks : new.blocks[j] = st.blocks[i]
            \/ Written(st.blocks[i], new.base, con)
  BY DEF Keeps
<1>1. /\ st.base \in FileType /\ new.base \in FileType /\ st.size \in Nat
      /\ Len(st.base.data) \in Nat /\ Len(new.base.data) \in Nat
      /\ \A i \in DOMAIN st.blocks : st.blocks[i] \in BlockType
  BY <1>0, StateIs DEF Good, Sound
<1>2. Sound(new, con)
  <2>1. \A i \in DOMAIN new.blocks : BlockOK(new.blocks[i], con, new.size)
    BY <1>0 DEF Good, Sound
  <2> QED
    BY <1>0, <2>1 DEF Good, Sound
<1>3. ASSUME NEW q \in 0 .. new.size - 1 PROVE Kept(new, con, q)
  <2>1. Kept(st, con, q) /\ q \in Nat
    BY <1>0, <1>1 DEF Good
  <2>2. CASE FileCell(st.base, q) = con[q]
    BY <1>0, <1>1, <2>1, <2>2, CellKept DEF Kept
  <2>3. CASE \E i \in DOMAIN st.blocks : Covers(st.blocks[i], q)
    <3>1. PICK i \in DOMAIN st.blocks : Covers(st.blocks[i], q)
      BY <2>3
    <3> QED
      BY <1>0, <2>1, <3>1 DEF Kept, Written
  <2> QED
    BY <2>1, <2>2, <2>3 DEF Kept
<1>4. ASSUME NEW a \in Nat, Aligned(a), a < new.size PROVE Reached(new, a)
  <2> DEFINE end == Lower(a + BlockSize, st.size)
  <2>1. end \in Int
    BY <1>1, Constants DEF Lower
  <2>2. \/ end - 1 <= Len(st.base.data)
        \/ \E i \in DOMAIN st.blocks : /\ st.blocks[i].start = a
                                      /\ end - 1 <= st.blocks[i].mend
    BY <1>0, <1>4 DEF Good, Reached
  <2> HIDE DEF end
  <2>3. CASE end - 1 <= Len(st.base.data)
    <3>1. end - 1 <= Len(new.base.data)
      BY <1>0, <1>1, <2>1, <2>3 DEF FileFollows
    <3> QED
      BY <1>0, <3>1 DEF Reached, end
  <2>4. ASSUME NEW i \in DOMAIN st.blocks, st.blocks[i].start = a,
               end - 1 <= st.blocks[i].mend
        PROVE  Reached(new, a)
    <3>1. CASE \E j \in DOMAIN new.blocks : new.blocks[j] = st.blocks[i]
      BY <1>0, <2>4, <3>1 DEF Reached, end
    <3>2. CASE Written(st.blocks[i], new.base, con)
      <4>1. st.blocks[i].mend \in Int
        BY <1>1, BlockIs
      <4>2. end - 1 <= Len(new.base.data)
        BY <1>1, <2>1, <2>4, <3>2, <4>1 DEF Written
      <4> QED
        BY <1>0, <4>2 DEF Reached, end
    <3> QED
      BY <1>0, <2>4, <3>1, <3>2
  <2> QED
    BY <2>2, <2>3, <2>4
<1> QED
  BY <1>2, <1>3, <1>4 DEF Good

\* The least recently used block is dropped, or there is room.
LEMMA DroppedIs ==
    ASSUME NEW st, NEW con, Good(st, con)
    PROVE  LET new == Dropped(st)
           IN /\ Good(new, con) /\ new.size = st.size /\ new.count \in 0 .. st.count
              /\ FileFollows(st.base, new.base, con, con)
              /\ Len(new.blocks) + 1 <= Upper(BlockCount - 1, 2)
              /\ \A i \in DOMAIN new.blocks :
                    i \in DOMAIN st.blocks /\ new.blocks[i] = st.blocks[i]
<1> DEFINE n == Len(st.blocks)
           new == Dropped(st)
           put == BlockWritten(st, st.blocks[n])
           bs == SubSeq(st.blocks, 1, n - 1)
<1>1. /\ st \in StateType /\ n \in Nat /\ st.count \in Nat /\ st.blocks \in Seq(BlockType)
      /\ DOMAIN st.blocks = 1 .. n /\ \A i \in 1 .. n : st.blocks[i] \in BlockType
      /\ st.base \in FileType /\ st.size \in Nat
  BY StateIs DEF Good, Sound
<1>2. n <= st.count /\ n <= Upper(BlockCount - 1, 2) /\ BlockCount \in Nat
  BY Constants DEF Good, Sound, Bounded
<1>3. CASE st.count < BlockCount - 1 \/ n < 2
  <2>1. new = st
    BY <1>3 DEF Dropped
  <2>2. n + 1 <= Upper(BlockCount - 1, 2)
    BY <1>1, <1>2, <1>3 DEF Upper
  <2>3. FileFollows(st.base, st.base, con, con)
    BY <1>1, FollowsSame
  <2> QED
    BY <1>1, <2>1, <2>2, <2>3
<1>4. CASE ~(st.count < BlockCount - 1 \/ n < 2)
  <2>1. n \in 1 .. n /\ st.blocks[n] \in BlockType /\ BlockOK(st.blocks[n], con, st.size)
    BY <1>1, <1>4 DEF Good, Sound
  <2>2. /\ put \in StateType /\ put.blocks = st.blocks /\ put.size = st.size
        /\ put.count = st.count
        /\ FileWithin(put) /\ FileFollows(st.base, put.base, con, con)
        /\ Written(st.blocks[n], put.base, con)
    BY <2>1, BlockWrittenIs DEF Good
  <2>3. new = [put EXCEPT !.blocks = SubSeq(put.blocks, 1, n - 1), !.count = put.count - 1]
    BY <1>4 DEF Dropped
  <2> HIDE DEF put
  <2>4. /\ bs \in Seq(BlockType) /\ Len(bs) = n - 1 /\ DOMAIN bs = 1 .. (n - 1)
        /\ \A i \in 1 .. (n - 1) : bs[i] = st.blocks[i]
    <3>1. \A i \in 1 .. (n - 1) : st.blocks[i] \in BlockType
      BY <1>1
    <3>2. /\ bs \in Seq(BlockType) /\ Len(bs) = IF 1 <= n - 1 THEN (n - 1) - 1 + 1 ELSE 0
          /\ \A i \in 1 .. ((n - 1) - 1 + 1) : bs[i] = st.blocks[1 + i - 1]
      BY <1>1, <3>1, SubSeqProperties
    <3>3. Len(bs) = n - 1
      BY <1>1, <1>4, <3>2
    <3> HIDE DEF bs
    <3> QED
      BY <1>1, <1>4, <3>2, <3>3
  <2> HIDE DEF bs
  <2>5. /\ new \in StateType /\ new.blocks = bs /\ new.size = st.size
        /\ new.count = st.count - 1 /\ new.base = put.base
    <3>1. st.count - 1 \in Nat /\ new = [put EXCEPT !.blocks = bs, !.count = st.count - 1]
      BY <1>1, <1>2, <1>4, <2>2, <2>3 DEF bs
    <3> HIDE DEF new
    <3> QED
      BY <2>2, <2>4, <3>1 DEF StateType
  <2> HIDE DEF new
  <2>6. FileWithin(new)
    BY <2>2, <2>5 DEF FileWithin
  <2>7. Apart(new.blocks)
    <3>1. \A i, j \in 1 .. n : st.blocks[i].start = st.blocks[j].start => i = j
      BY <1>1 DEF Good, Sound, Apart
    <3>2. \A i, j \in 1 .. (n - 1) : bs[i].start = bs[j].start => i = j
      BY <1>1, <2>4, <3>1, SMTT(30)
    <3> QED
      BY <2>4, <2>5, <3>2 DEF Apart
  <2>8. Bounded(new) /\ Len(new.blocks) + 1 <= Upper(BlockCount - 1, 2)
    BY <1>1, <1>2, <1>4, <2>4, <2>5 DEF Bounded, Upper
  <2>9. \A i \in DOMAIN st.blocks :
           \/ \E j \in DOMAIN new.blocks : new.blocks[j] = st.blocks[i]
           \/ Written(st.blocks[i], new.base, con)
    <3> TAKE i \in DOMAIN st.blocks
    <3>1. CASE i = n
      BY <2>2, <2>5, <3>1
    <3>2. CASE i # n
      <4>1. i \in DOMAIN bs /\ bs[i] = st.blocks[i]
        BY <1>1, <2>4, <3>2
      <4> QED
        BY <2>5, <4>1
    <3> QED
      BY <3>1, <3>2
  <2>10. \A i \in DOMAIN new.blocks :
            i \in DOMAIN st.blocks /\ new.blocks[i] = st.blocks[i]
    BY <1>1, <2>4, <2>5
  <2>11. Good(new, con)
    BY <2>2, <2>5, <2>6, <2>7, <2>8, <2>9, <2>10, Fewer DEF Keeps
  <2>12. new.count \in 0 .. st.count
    BY <1>1, <1>2, <1>4, <2>5
  <2> QED
    BY <2>2, <2>5, <2>8, <2>10, <2>11, <2>12 DEF new
<1> QED
  BY <1>3, <1>4

\* A cached block is written and stays.
LEMMA WrittenGood ==
    ASSUME NEW st, NEW con, Good(st, con), NEW i \in DOMAIN st.blocks
    PROVE  LET new == BlockWritten(st, st.blocks[i])
           IN /\ Good(new, con) /\ new.blocks = st.blocks /\ new.size = st.size
              /\ new.count = st.count /\ FileFollows(st.base, new.base, con, con)
              /\ Written(st.blocks[i], new.base, con)
<1> DEFINE new == BlockWritten(st, st.blocks[i])
<1>1. /\ st.blocks[i] \in BlockType /\ BlockOK(st.blocks[i], con, st.size)
      /\ Sound(st, con)
  BY StateIs DEF Good, Sound
<1>2. /\ new \in StateType /\ new.blocks = st.blocks /\ new.size = st.size
      /\ new.count = st.count
      /\ FileWithin(new) /\ FileFollows(st.base, new.base, con, con)
      /\ Written(st.blocks[i], new.base, con)
  BY <1>1, BlockWrittenIs
<1> HIDE DEF new
<1>3. Apart(new.blocks) /\ Bounded(new)
  BY <1>1, <1>2 DEF Sound, Bounded
<1>4. Good(new, con)
  BY <1>2, <1>3, Fewer DEF Keeps
<1> QED
  BY <1>2, <1>4 DEF new

\* The recursion of Flushed, up to the block m.
IsFlushed(s, st, m) ==
    s = [i \in 0 .. m |-> IF i = 0 THEN st ELSE BlockWritten(s[i - 1], st.blocks[i])]

\* The recursion of Flushed, as a function that is there.
LEMMA FlushedThere == ASSUME NEW st, NEW n \in Nat PROVE \E s : IsFlushed(s, st, n)
<1> DEFINE G == {m \in Nat : \E s : IsFlushed(s, st, m)}
<1>1. 0 \in G
  <2> DEFINE s == [i \in 0 .. 0 |-> st]
  <2>1. s = [i \in 0 .. 0 |-> IF i = 0 THEN st ELSE BlockWritten(s[i - 1], st.blocks[i])]
    OBVIOUS
  <2> QED
    BY <2>1 DEF IsFlushed
<1>2. ASSUME NEW m \in 0..(n - 1), m \in G PROVE m + 1 \in G
  <2>1. PICK s : IsFlushed(s, st, m)
    BY <1>2
  <2> DEFINE e == BlockWritten(s[m], st.blocks[m + 1])
             t == [i \in 0 .. (m + 1) |-> IF i = m + 1 THEN e ELSE s[i]]
  <2>2. \A i \in 0 .. m : s[i] = IF i = 0 THEN st ELSE BlockWritten(s[i - 1], st.blocks[i])
    BY <2>1 DEF IsFlushed
  <2>3. ASSUME NEW i \in 0 .. (m + 1)
        PROVE  t[i] = IF i = 0 THEN st ELSE BlockWritten(t[i - 1], st.blocks[i])
    <3>1. CASE i = m + 1
      <4>1. i # 0 /\ i - 1 = m /\ i - 1 \in 0 .. (m + 1) /\ i - 1 # m + 1
        BY <3>1
      <4> QED
        BY <3>1, <4>1
    <3>2. CASE i # m + 1 /\ i # 0
      <4>1. i \in 0 .. m /\ i - 1 \in 0 .. (m + 1) /\ i - 1 # m + 1
        BY <3>2
      <4>2. t[i] = s[i] /\ t[i - 1] = s[i - 1]
        BY <3>2, <4>1
      <4> HIDE DEF t
      <4> QED
        BY <2>2, <3>2, <4>1, <4>2
    <3>3. CASE i = 0
      BY <2>2, <3>3
    <3> QED
      BY <3>1, <3>2, <3>3
  <2>4. t = [i \in 0 .. (m + 1) |-> t[i]]
    OBVIOUS
  <2> HIDE DEF t
  <2>5. IsFlushed(t, st, m + 1)
    BY <2>3, <2>4 DEF IsFlushed
  <2> QED
    BY <2>5
<1> HIDE DEF G
<1>3. \A m \in 0..n : m \in G
  BY <1>1, <1>2, UpTo
<1> QED
  BY <1>3 DEF G

\* The first blocks are written and dropped: what they modified is in the file.
LEMMA FlushedIs ==
    ASSUME NEW st, NEW con, Good(st, con), NEW m \in 0 .. Len(st.blocks)
    PROVE  LET new == Flushed(st, m)
           IN /\ Good(new, con) /\ new.size = st.size /\ new.count = st.count
              /\ FileFollows(st.base, new.base, con, con)
              /\ Len(new.blocks) = Len(st.blocks) - m
              /\ \A i \in 1 .. Len(new.blocks) : new.blocks[i] = st.blocks[m + i]
<1> DEFINE n == Len(st.blocks)
           s == CHOOSE x : IsFlushed(x, st, m)
           new == Flushed(st, m)
           bs == SubSeq(st.blocks, m + 1, n)
           Wrote(i) == /\ Good(s[i], con) /\ s[i].blocks = st.blocks
                      /\ s[i].size = st.size /\ s[i].count = st.count
                      /\ FileFollows(st.base, s[i].base, con, con)
                      /\ \A j \in 1 .. i : Written(st.blocks[j], s[i].base, con)
           G == {i \in 0 .. m : Wrote(i)}
<1>1. /\ st \in StateType /\ n \in Nat /\ st.count \in Nat /\ st.blocks \in Seq(BlockType)
      /\ DOMAIN st.blocks = 1 .. n /\ \A i \in 1 .. n : st.blocks[i] \in BlockType
      /\ st.base \in FileType /\ st.size \in Nat
  BY StateIs DEF Good, Sound
<1>2. m \in Nat /\ IsFlushed(s, st, m)
  <2>1. m \in Nat
    BY <1>1
  <2> QED
    BY <2>1, FlushedThere
<1>3. new = [s[m] EXCEPT !.blocks = SubSeq(s[m].blocks, m + 1, Len(s[m].blocks))]
  BY DEF Flushed, IsFlushed
<1> HIDE DEF s
<1>4. s[0] = st /\ \A i \in 0..(m - 1) : s[i + 1] = BlockWritten(s[i], st.blocks[i + 1])
  <2>1. \A i \in 0..m : s[i] = IF i = 0 THEN st ELSE BlockWritten(s[i - 1], st.blocks[i])
    BY <1>2 DEF IsFlushed
  <2>2. ASSUME NEW i \in 0..(m - 1) PROVE s[i + 1] = BlockWritten(s[i], st.blocks[i + 1])
    <3>1. i + 1 \in 0..m /\ i + 1 # 0 /\ (i + 1) - 1 = i
      BY <1>1
    <3> QED
      BY <2>1, <3>1
  <2> QED
    BY <1>1, <2>1, <2>2
<1>5. Wrote(0)
  BY <1>1, <1>4, FollowsSame
<1>6. ASSUME NEW i \in 0..(m - 1), Wrote(i) PROVE Wrote(i + 1)
  <2>1. i + 1 \in 1 .. n /\ i + 1 \in DOMAIN s[i].blocks
    BY <1>1, <1>6
  <2>2. s[i + 1] = BlockWritten(s[i], s[i].blocks[i + 1])
    BY <1>4, <1>6
  <2>3. LET w == BlockWritten(s[i], s[i].blocks[i + 1])
        IN /\ Good(w, con) /\ w.blocks = s[i].blocks /\ w.size = s[i].size
           /\ w.count = s[i].count /\ FileFollows(s[i].base, w.base, con, con)
           /\ Written(s[i].blocks[i + 1], w.base, con)
    BY <1>6, <2>1, WrittenGood
  <2>4. /\ Good(s[i + 1], con) /\ s[i + 1].blocks = st.blocks /\ s[i + 1].size = st.size
        /\ s[i + 1].count = st.count /\ FileFollows(s[i].base, s[i + 1].base, con, con)
        /\ Written(st.blocks[i + 1], s[i + 1].base, con)
    BY <1>6, <2>2, <2>3
  <2>5. s[i].base \in FileType /\ s[i + 1].base \in FileType
    BY <1>6, <2>4, StateIs DEF Good, Sound
  <2>6. FileFollows(st.base, s[i + 1].base, con, con)
    BY <1>1, <1>6, <2>4, <2>5, FollowsOn
  <2>7. \A j \in 1 .. (i + 1) : j \in 1 .. i \/ j = i + 1
    BY <1>1
  <2>8. \A j \in 1 .. (i + 1) : Written(st.blocks[j], s[i + 1].base, con)
    <3> TAKE j \in 1 .. (i + 1)
    <3>1. CASE j \in 1 .. i
      <4>1. st.blocks[j] \in BlockType /\ Written(st.blocks[j], s[i].base, con)
        BY <1>1, <1>6, <3>1
      <4> QED
        BY <2>4, <2>5, <4>1, WrittenOn
    <3> QED
      BY <2>4, <2>7, <3>1
  <2> QED
    BY <2>4, <2>6, <2>8
<1>7. Wrote(m)
  <2>1. 0 \in G
    BY <1>1, <1>5
  <2>2. ASSUME NEW i \in 0..(m - 1), i \in G PROVE i + 1 \in G
    <3>1. Wrote(i) /\ i + 1 \in 0 .. m
      BY <1>1, <2>2
    <3>2. Wrote(i + 1)
      BY <1>6, <3>1
    <3> QED
      BY <3>1, <3>2
  <2> HIDE DEF G
  <2>3. \A i \in 0..m : i \in G
    BY <1>2, <2>1, <2>2, UpTo
  <2> QED
    BY <1>2, <2>3 DEF G
<1>8. /\ bs \in Seq(BlockType) /\ Len(bs) = n - m /\ DOMAIN bs = 1 .. (n - m)
      /\ \A i \in 1 .. (n - m) : bs[i] = st.blocks[m + i]
  <2>1. \A i \in (m + 1) .. n : st.blocks[i] \in BlockType
    BY <1>1
  <2>2. /\ bs \in Seq(BlockType) /\ Len(bs) = IF m + 1 <= n THEN n - (m + 1) + 1 ELSE 0
        /\ \A i \in 1 .. (n - (m + 1) + 1) : bs[i] = st.blocks[(m + 1) + i - 1]
    BY <1>1, <2>1, SubSeqProperties
  <2>3. Len(bs) = n - m /\ n - (m + 1) + 1 = n - m
    BY <1>1, <2>2
  <2>4. \A i \in 1 .. (n - m) : (m + 1) + i - 1 = m + i
    BY <1>1
  <2> HIDE DEF bs
  <2>5. \A i \in 1 .. (n - m) : bs[i] = st.blocks[m + i]
    <3> TAKE i \in 1 .. (n - m)
    <3>1. bs[i] = st.blocks[(m + 1) + i - 1] /\ (m + 1) + i - 1 = m + i
      BY <2>2, <2>3, <2>4
    <3> QED
      BY <3>1
  <2>6. DOMAIN bs = 1 .. (n - m)
    BY <2>2, <2>3
  <2> HIDE DEF n
  <2> QED
    BY <2>2, <2>3, <2>5, <2>6
<1>9. new = [s[m] EXCEPT !.blocks = bs]
  BY <1>3, <1>7
<1> HIDE DEF bs, new
<1>10. /\ new \in StateType /\ new.blocks = bs /\ new.size = st.size
       /\ new.count = st.count /\ new.base = s[m].base
  BY <1>7, <1>8, <1>9 DEF Good, Sound, StateType
<1>11. FileWithin(new)
  BY <1>7, <1>10 DEF Good, Sound, FileWithin
<1>12. Apart(new.blocks)
  <2>1. \A i, j \in 1 .. n : st.blocks[i].start = st.blocks[j].start => i = j
    BY <1>1 DEF Good, Sound, Apart
  <2>2. \A i, j \in 1 .. (n - m) : bs[i].start = bs[j].start => i = j
    <3> SUFFICES ASSUME NEW i \in 1 .. (n - m), NEW j \in 1 .. (n - m),
                        bs[i].start = bs[j].start
                 PROVE  i = j
      OBVIOUS
    <3>1. m + i \in 1 .. n /\ m + j \in 1 .. n
      BY <1>1
    <3>2. m + i = m + j
      BY <1>8, <2>1, <3>1
    <3> QED
      BY <3>2
  <2> QED
    BY <1>8, <1>10, <2>2 DEF Apart
<1>13. Bounded(new)
  <2>1. n <= st.count /\ n <= Upper(BlockCount - 1, 2) /\ n - m <= n
    BY <1>1 DEF Good, Sound, Bounded
  <2>2. Upper(BlockCount - 1, 2) \in Nat
    BY Constants DEF Upper
  <2> QED
    BY <1>1, <1>8, <1>10, <2>1, <2>2 DEF Bounded
<1>14. \A j \in DOMAIN new.blocks : \E i \in DOMAIN st.blocks : new.blocks[j] = st.blocks[i]
  <2> TAKE j \in DOMAIN new.blocks
  <2>1. m + j \in DOMAIN st.blocks /\ new.blocks[j] = st.blocks[m + j]
    BY <1>1, <1>8, <1>10, SMTT(30)
  <2> QED
    BY <2>1
<1>15. \A i \in DOMAIN st.blocks :
          \/ \E j \in DOMAIN new.blocks : new.blocks[j] = st.blocks[i]
          \/ Written(st.blocks[i], new.base, con)
  <2> TAKE i \in DOMAIN st.blocks
  <2>1. CASE i \in 1 .. m
    BY <1>7, <1>10, <2>1
  <2>2. CASE i \notin 1 .. m
    <3>1. i - m \in DOMAIN bs /\ m + (i - m) = i /\ i - m \in 1 .. (n - m)
      BY <1>1, <1>8, <2>2
    <3>2. bs[i - m] = st.blocks[i]
      BY <1>8, <3>1
    <3> QED
      BY <1>10, <3>1, <3>2
  <2> QED
    BY <2>1, <2>2
<1>16. Good(new, con)
  BY <1>7, <1>10, <1>11, <1>12, <1>13, <1>14, <1>15, Fewer DEF Keeps
<1> QED
  BY <1>7, <1>8, <1>10, <1>16 DEF new

-----------------------------------------------------------------------------
(* Finding a block *)

\* What a block has modified lies within it, and within the stream.
LEMMA CoversWithin ==
    ASSUME NEW b \in BlockType, NEW con, NEW n \in Nat, BlockOK(b, con, n),
           NEW q \in Nat, Covers(b, q)
    PROVE  b.start <= q /\ q < b.start + BlockSize /\ q < n
<1>1. b.start \in Nat /\ b.mstart \in Int /\ b.mend \in Int
  BY BlockIs
<1>2. /\ b.start <= b.mstart /\ b.mstart < b.mend
      /\ b.mend <= b.start + BlockSize /\ b.mend <= n
  BY <1>1 DEF BlockOK, Marked, Covers, Unset
<1> QED
  BY <1>1, <1>2, Constants DEF Covers

\* The block around a place starts at the one multiple of the block size there is.
LEMMA SameBlock ==
    ASSUME NEW a, Aligned(a), NEW b, Aligned(b), NEW q \in Nat,
           a <= q, q < a + BlockSize, b <= q, q < b + BlockSize
    PROVE  a = b
<1>1. /\ a \in Nat /\ b \in Nat
      /\ a + BlockSize <= b \/ b + BlockSize <= a \/ a = b
  BY AlignedApart
<1> QED
  BY <1>1, Constants

\* What is in no cached block is in the file, as far as that reaches.
LEMMA Uncached ==
    ASSUME NEW st, NEW con, Good(st, con), NEW p \in Nat, Found(st.blocks, p) = {},
           NEW a, Aligned(a), a <= p, p < a + BlockSize
    PROVE  /\ \A i \in DOMAIN st.blocks : st.blocks[i].start # a
           /\ \A q \in Nat : a <= q /\ q < a + BlockSize /\ q < st.size =>
                 FileCell(st.base, q) = con[q]
           /\ a < st.size => Lower(a + BlockSize, st.size) - 1 <= Len(st.base.data)
<1>1. st.size \in Nat /\ \A i \in DOMAIN st.blocks : st.blocks[i] \in BlockType
  BY StateIs DEF Good, Sound
<1>2. \A i \in DOMAIN st.blocks : st.blocks[i].start # a
  BY DEF Found, Contains
<1>3. ASSUME NEW q \in Nat, a <= q, q < a + BlockSize, q < st.size
      PROVE  FileCell(st.base, q) = con[q]
  <2>1. ASSUME NEW i \in DOMAIN st.blocks, Covers(st.blocks[i], q) PROVE FALSE
    <3> DEFINE b == st.blocks[i]
    <3>1. b \in BlockType /\ BlockOK(b, con, st.size) /\ Covers(b, q) /\ b.start # a
      BY <1>1, <1>2, <2>1 DEF Good, Sound
    <3> HIDE DEF b
    <3>2. b.start <= q /\ q < b.start + BlockSize /\ Aligned(b.start)
      BY <1>1, <3>1, CoversWithin DEF BlockOK
    <3> QED
      BY <1>3, <3>1, <3>2, SameBlock
  <2>2. q \in 0 .. st.size - 1
    BY <1>1, <1>3
  <2> QED
    BY <2>1, <2>2 DEF Good, Kept
<1>4. ASSUME a < st.size PROVE Lower(a + BlockSize, st.size) - 1 <= Len(st.base.data)
  <2>1. a \in Nat
    BY AlignedApart
  <2>2. Reached(st, a)
    BY <1>4, <2>1 DEF Good
  <2> QED
    BY <1>2, <2>2 DEF Reached
<1> QED
  BY <1>2, <1>3, <1>4

\* Where the block comes from that is at place j once that at i is in front.
From(i, j) == IF j = 1 THEN i ELSE IF j <= i THEN j - 1 ELSE j

\* All places come from one.
LEMMA FromIs ==
    ASSUME NEW n \in Nat, NEW i \in 1 .. n
    PROVE  /\ \A j \in 1 .. n : From(i, j) \in 1 .. n
           /\ \A j, k \in 1 .. n : From(i, j) = From(i, k) => j = k
           /\ \A k \in 1 .. n : \E j \in 1 .. n : From(i, j) = k
<1>1. \A j \in 1 .. n : From(i, j) \in 1 .. n
  BY DEF From
<1>2. \A j, k \in 1 .. n : From(i, j) = From(i, k) => j = k
  BY DEF From
<1>3. \A k \in 1 .. n : \E j \in 1 .. n : From(i, j) = k
  <2> TAKE k \in 1 .. n
  <2>1. CASE k = i
    BY <2>1 DEF From
  <2>2. CASE k < i
    <3>1. k + 1 \in 1 .. n /\ k + 1 # 1 /\ k + 1 <= i /\ (k + 1) - 1 = k
      BY <2>2
    <3> QED
      BY <3>1 DEF From
  <2>3. CASE k > i
    <3>1. k # 1 /\ ~(k <= i)
      BY <2>3
    <3> QED
      BY <3>1 DEF From
  <2> QED
    BY <2>1, <2>2, <2>3
<1> QED
  BY <1>1, <1>2, <1>3

\* findBlock: what is at each place once a block is in front.
LEMMA FrontIs ==
    ASSUME NEW S, NEW bs \in Seq(S), NEW i \in 1 .. Len(bs)
    PROVE  /\ ToFront(bs, i) \in Seq(S) /\ Len(ToFront(bs, i)) = Len(bs)
           /\ \A j \in 1 .. Len(bs) : ToFront(bs, i)[j] = bs[From(i, j)]
<1> DEFINE n == Len(bs)
           x == <<bs[i]>>
           y == SubSeq(bs, 1, i - 1)
           z == SubSeq(bs, i + 1, n)
           r == ToFront(bs, i)
<1>1. n \in Nat /\ i \in 1 .. n /\ \A j \in 1 .. n : bs[j] \in S
  OBVIOUS
<1>2. x \in Seq(S) /\ Len(x) = 1 /\ x[1] = bs[i]
  BY <1>1
<1>3. y \in Seq(S) /\ Len(y) = i - 1 /\ \A j \in 1 .. (i - 1) : y[j] = bs[j]
  <2>1. \A j \in 1 .. (i - 1) : bs[j] \in S
    BY <1>1
  <2>2. /\ y \in Seq(S) /\ Len(y) = IF 1 <= i - 1 THEN (i - 1) - 1 + 1 ELSE 0
        /\ \A j \in 1 .. ((i - 1) - 1 + 1) : y[j] = bs[1 + j - 1]
    BY <1>1, <2>1, SubSeqProperties
  <2> HIDE DEF y
  <2>3. Len(y) = i - 1 /\ (i - 1) - 1 + 1 = i - 1
    BY <1>1, <2>2
  <2>4. \A j \in 1 .. (i - 1) : 1 + j - 1 = j
    BY <1>1
  <2> QED
    BY <2>2, <2>3, <2>4
<1>4. z \in Seq(S) /\ Len(z) = n - i /\ \A j \in 1 .. (n - i) : z[j] = bs[i + j]
  <2>1. \A j \in (i + 1) .. n : bs[j] \in S
    BY <1>1
  <2>2. /\ z \in Seq(S) /\ Len(z) = IF i + 1 <= n THEN n - (i + 1) + 1 ELSE 0
        /\ \A j \in 1 .. (n - (i + 1) + 1) : z[j] = bs[(i + 1) + j - 1]
    BY <1>1, <2>1, SubSeqProperties
  <2> HIDE DEF z
  <2>3. Len(z) = n - i /\ n - (i + 1) + 1 = n - i
    BY <1>1, <2>2
  <2>4. \A j \in 1 .. (n - i) : (i + 1) + j - 1 = i + j
    BY <1>1
  <2>5. ASSUME NEW j \in 1 .. (n - i) PROVE z[j] = bs[i + j]
    BY <2>2, <2>3, <2>4
  <2> QED
    BY <2>2, <2>3, <2>5
<1>5. r = x \o y \o z
  BY DEF ToFront
<1> DEFINE w == x \o y
<1> HIDE DEF x, y, z, r, n
<1>6. /\ w \in Seq(S) /\ Len(w) = i
      /\ \A j \in 1 .. i : w[j] = IF j = 1 THEN bs[i] ELSE bs[j - 1]
  <2>1. /\ w \in Seq(S) /\ Len(w) = Len(x) + Len(y)
        /\ \A j \in 1 .. (Len(x) + Len(y)) : w[j] = IF j <= Len(x) THEN x[j] ELSE y[j - Len(x)]
    BY <1>2, <1>3, ConcatProperties
  <2> HIDE DEF w
  <2>2. Len(w) = i /\ Len(x) + Len(y) = i
    BY <1>1, <1>2, <1>3, <2>1
  <2>3. ASSUME NEW j \in 1 .. i PROVE w[j] = IF j = 1 THEN bs[i] ELSE bs[j - 1]
    <3>1. w[j] = IF j <= 1 THEN x[j] ELSE y[j - 1]
      BY <1>2, <2>1, <2>2
    <3>2. CASE j = 1
      BY <1>2, <3>1, <3>2
    <3>3. CASE j # 1
      <4>1. j - 1 \in 1 .. (i - 1) /\ ~(j <= 1)
        BY <1>1, <3>3
      <4> QED
        BY <1>3, <3>1, <3>3, <4>1
    <3> QED
      BY <3>2, <3>3
  <2> QED
    BY <2>1, <2>2, <2>3
<1> HIDE DEF w
<1>7. /\ r \in Seq(S) /\ Len(r) = n
      /\ \A j \in 1 .. n : r[j] = IF j <= i THEN w[j] ELSE z[j - i]
  <2>1. r = w \o z
    BY <1>5 DEF w
  <2>2. /\ r \in Seq(S) /\ Len(r) = Len(w) + Len(z)
        /\ \A j \in 1 .. (Len(w) + Len(z)) : r[j] = IF j <= Len(w) THEN w[j] ELSE z[j - Len(w)]
    <3>1. w \in Seq(S) /\ z \in Seq(S)
      BY <1>4, <1>6
    <3> DEFINE t == w \o z
    <3> HIDE DEF w, z
    <3>2. /\ t \in Seq(S) /\ Len(t) = Len(w) + Len(z)
          /\ \A j \in 1 .. (Len(w) + Len(z)) : t[j] = IF j <= Len(w) THEN w[j] ELSE z[j - Len(w)]
      BY <3>1, ConcatProperties
    <3> HIDE DEF t, r
    <3>3. r = t
      BY <2>1 DEF t
    <3> QED
      BY <3>2, <3>3
  <2>3. Len(w) = i /\ Len(w) + Len(z) = n
    BY <1>1, <1>4, <1>6
  <2> QED
    BY <2>2, <2>3
<1>8. ASSUME NEW j \in 1 .. n PROVE From(i, j) \in 1 .. n /\ r[j] = bs[From(i, j)]
  <2>1. CASE j = 1
    BY <1>1, <1>6, <1>7, <2>1 DEF From
  <2>2. CASE j # 1 /\ j <= i
    <3>1. j \in 1 .. i /\ j - 1 \in 1 .. n
      BY <1>1, <2>2
    <3> QED
      BY <1>6, <1>7, <2>2, <3>1 DEF From
  <2>3. CASE ~(j <= i)
    <3>1. j # 1 /\ j - i \in 1 .. (n - i) /\ i + (j - i) = j
      BY <1>1, <2>3
    <3> QED
      BY <1>4, <1>7, <2>3, <3>1 DEF From
  <2> QED
    BY <2>1, <2>2, <2>3
<1> QED
  BY <1>7, <1>8 DEF n, r

\* A block is moved to the front.
LEMMA FrontGood ==
    ASSUME NEW st, NEW con, Good(st, con), NEW i \in DOMAIN st.blocks,
           NEW new, new = [st EXCEPT !.blocks = ToFront(st.blocks, i)]
    PROVE  /\ Good(new, con) /\ new.base = st.base
           /\ new.size = st.size /\ new.count = st.count
<1> DEFINE n == Len(st.blocks)
           bs == ToFront(st.blocks, i)
<1>1. /\ st \in StateType /\ n \in Nat /\ st.blocks \in Seq(BlockType)
      /\ DOMAIN st.blocks = 1 .. n /\ i \in 1 .. n
  BY StateIs DEF Good, Sound
<1>2. /\ bs \in Seq(BlockType) /\ Len(bs) = n
      /\ \A j \in 1 .. n : From(i, j) \in 1 .. n /\ bs[j] = st.blocks[From(i, j)]
      /\ \A j, k \in 1 .. n : From(i, j) = From(i, k) => j = k
      /\ \A k \in 1 .. n : \E j \in 1 .. n : From(i, j) = k
  <2>1. /\ bs \in Seq(BlockType) /\ Len(bs) = n
        /\ \A j \in 1 .. n : bs[j] = st.blocks[From(i, j)]
    BY <1>1, FrontIs
  <2> HIDE DEF bs, n
  <2>2. /\ \A j \in 1 .. n : From(i, j) \in 1 .. n
        /\ \A j, k \in 1 .. n : From(i, j) = From(i, k) => j = k
        /\ \A k \in 1 .. n : \E j \in 1 .. n : From(i, j) = k
    <3>1. n \in Nat /\ i \in 1 .. n
      BY <1>1
    <3> QED
      BY <3>1, FromIs, Zenon
  <2> QED
    BY <2>1, <2>2, Zenon
<1> HIDE DEF bs
<1>3. DOMAIN bs = 1 .. n
  BY <1>1, <1>2
<1>4. /\ new \in StateType /\ new.blocks = bs /\ new.base = st.base
      /\ new.size = st.size /\ new.count = st.count
  BY <1>1, <1>2 DEF StateType, bs
<1>5. FileWithin(new) /\ Bounded(new)
  BY <1>2, <1>4 DEF Good, Sound, FileWithin, Bounded
<1>6. Apart(new.blocks)
  <2>1. \A j, k \in 1 .. n : st.blocks[j].start = st.blocks[k].start => j = k
    BY <1>1 DEF Good, Sound, Apart
  <2>2. ASSUME NEW j \in 1 .. n, NEW k \in 1 .. n, bs[j].start = bs[k].start
        PROVE  j = k
    <3>1. From(i, j) = From(i, k)
      <4> DEFINE u == From(i, j)
                 v == From(i, k)
      <4>1. u \in 1 .. n /\ v \in 1 .. n /\ bs[j] = st.blocks[u] /\ bs[k] = st.blocks[v]
        BY <1>2
      <4> HIDE DEF u, v
      <4>2. u = v
        BY <2>1, <2>2, <4>1
      <4> QED
        BY <4>2 DEF u, v
    <3> QED
      BY <1>2, <3>1
  <2> QED
    BY <1>3, <1>4, <2>2 DEF Apart
<1>7. \A j \in DOMAIN new.blocks : \E k \in DOMAIN st.blocks : new.blocks[j] = st.blocks[k]
  BY <1>1, <1>2, <1>3, <1>4
<1>8. \A k \in DOMAIN st.blocks : \E j \in DOMAIN new.blocks : new.blocks[j] = st.blocks[k]
  <2> TAKE k \in DOMAIN st.blocks
  <2>1. k \in 1 .. n
    BY <1>1
  <2>2. PICK j \in 1 .. n : From(i, j) = k
    BY <1>2, <2>1
  <2>3. j \in DOMAIN bs /\ bs[j] = st.blocks[k]
    BY <1>2, <1>3, <2>2
  <2> QED
    BY <1>4, <2>3
<1>9. FileFollows(st.base, new.base, con, con)
  BY <1>1, <1>4, StateIs, FollowsSame
<1>10. Keeps(st, new, con)
  BY <1>4, <1>5, <1>6, <1>7, <1>8, <1>9 DEF Keeps
<1>11. Good(new, con)
  BY <1>10, Fewer
<1> QED
  BY <1>4, <1>11

\* Only the position or the size of the file below is another.
LEMMA FileGood ==
    ASSUME NEW st, NEW con, Good(st, con), NEW f \in FileType, f.data = st.base.data,
           Len(f.data) <= f.size, f.size <= st.size, f.pos <= st.size,
           NEW new, new = [st EXCEPT !.base = f]
    PROVE  /\ Good(new, con) /\ new.base = f /\ new.blocks = st.blocks
           /\ new.size = st.size /\ new.count = st.count
<1>1. st \in StateType
  BY DEF Good, Sound
<1>2. /\ new \in StateType /\ new.base = f /\ new.blocks = st.blocks
      /\ new.size = st.size /\ new.count = st.count
  BY <1>1 DEF StateType
<1>3. FileWithin(new) /\ Bounded(new) /\ Apart(new.blocks)
  BY <1>2 DEF FileWithin, Bounded, Good, Sound
<1>4. FileFollows(st.base, new.base, con, con)
  BY <1>1, <1>2, StateIs, FollowsSame
<1>5. Good(new, con)
  BY <1>2, <1>3, <1>4, Fewer DEF Keeps
<1> QED
  BY <1>2, <1>5

\* The file is asked for its size.
LEMMA StretchGood ==
    ASSUME NEW st, NEW con, Good(st, con),
           NEW new, new = [st EXCEPT !.base = Stretched(st.base)]
    PROVE  /\ Good(new, con) /\ new.base = Stretched(st.base) /\ new.blocks = st.blocks
           /\ new.size = st.size /\ new.count = st.count
<1>1. /\ st.base \in FileType /\ st.base.size \in Nat /\ st.base.pos \in Nat
      /\ st.size \in Nat /\ Len(st.base.data) \in Nat
      /\ Len(st.base.data) <= st.base.size /\ st.base.size <= st.size
      /\ st.base.pos <= st.size
  BY StateIs DEF Good, Sound, FileWithin
<1> DEFINE f == Stretched(st.base)
<1>2. f \in FileType /\ f.data = st.base.data /\ f.pos = st.base.pos
      /\ f.size = Upper(st.base.size, st.base.pos)
  BY <1>1, Stretches
<1> HIDE DEF f
<1>3. Len(f.data) <= f.size /\ f.size <= st.size /\ f.pos <= st.size
  BY <1>1, <1>2 DEF Upper
<1>4. new = [st EXCEPT !.base = f]
  BY DEF f
<1> QED
  BY <1>2, <1>3, <1>4, FileGood DEF f
-----------------------------------------------------------------------------
(* Reads *)

\* Where a block ends the next may start.
LEMMA AlignedNext == ASSUME NEW a, Aligned(a) PROVE Aligned(a + BlockSize)
<1>1. PICK d \in Nat : a = d * BlockSize
  BY DEF Aligned
<1>2. d + 1 \in Nat /\ (d + 1) * BlockSize = d * BlockSize + BlockSize
  BY Constants
<1> QED
  BY <1>1, <1>2 DEF Aligned

\* The cells of a content from p on.
Cells(con, p, n) == [i \in 1 .. n |-> con[p + i - 1]]

\* A cell the file may lack: a Zero that ends a block, or the stream of z bytes.
Lacks(con, z, q) == con[q] = Zero /\ (q + 1 = z \/ Aligned(q + 1))

\* The data is of the n cells from p on, all or those before one the file lacks.
CellsUpTo(data, con, z, p, n) ==
    \/ data = Cells(con, p, n)
    \/ \E m \in 0 .. n - 1 : data = Cells(con, p, m) /\ Lacks(con, z, p + m)

\* A piece of a read: the state stands for the same content, of which the piece is a
\* part, wherever it comes from.
LEMMA FetchedIs ==
    ASSUME NEW st, NEW con, Good(st, con), NEW p \in Nat, NEW n \in Nat, n >= 1,
           NEW a, Aligned(a), a <= p, p + n <= a + BlockSize, p + n <= st.size
    PROVE  LET r == Fetched(st, p, n)
           IN /\ Good(r.st, con) /\ r.st.size = st.size /\ r.st.count = st.count
              /\ FileFollows(st.base, r.st.base, con, con)
              /\ CellsUpTo(r.data, con, st.size, p, n)
<1> DEFINE r == Fetched(st, p, n)
<1>1. /\ st \in StateType /\ st.base \in FileType /\ st.size \in Nat /\ st.base.size \in Nat
      /\ \A i \in DOMAIN st.blocks : st.blocks[i] \in BlockType
  BY StateIs DEF Good, Sound
<1>2. CASE Found(st.blocks, p) # {}
  <2> DEFINE i == CHOOSE j \in Found(st.blocks, p) : TRUE
             b == st.blocks[i]
             lo == (p - b.start) + 1
             hi == (p - b.start) + n
             new == [st EXCEPT !.blocks = ToFront(st.blocks, i)]
             got == SubSeq(b.buf, lo, hi)
  <2>1. i \in Found(st.blocks, p)
    BY <1>2
  <2>2. r = [st |-> new, data |-> got]
    <3>1. SubSeq(b.buf, p - b.start + 1, p - b.start + n) = got
      OBVIOUS
    <3> QED
      BY <1>2 DEF Fetched
  <2> HIDE DEF i
  <2>3. i \in DOMAIN st.blocks /\ Contains(b, p)
    BY <2>1 DEF Found
  <2>4. /\ Good(new, con) /\ new.base = st.base /\ new.size = st.size
        /\ new.count = st.count
    BY <2>3, FrontGood
  <2>5. FileFollows(st.base, st.base, con, con)
    BY <1>1, FollowsSame
  <2>6. b \in BlockType /\ BlockOK(b, con, st.size)
    BY <1>1, <2>3 DEF Good, Sound
  <2> HIDE DEF b, new
  <2>7. /\ b.start \in Nat /\ b.start <= p /\ p < b.start + BlockSize
        /\ b.buf \in [1 .. BlockSize -> Bytes]
        /\ \A k \in 1 .. BlockSize :
              b.buf[k] = IF b.start + k <= st.size THEN con[b.start + k - 1] ELSE Zero
    BY <2>3, <2>6, BlockIs DEF BlockOK, Contains
  <2>8. a = b.start
    <3>1. a \in Nat
      BY AlignedApart
    <3>2. a + BlockSize <= b.start \/ b.start + BlockSize <= a \/ a = b.start
      BY <2>6, AlignedApart DEF BlockOK
    <3> QED
      BY <2>7, <3>1, <3>2, Constants
  <2> DEFINE at == b.start
  <2>9. /\ at \in Nat /\ at <= p /\ p + n <= at + BlockSize /\ p + n <= st.size
         /\ BlockSize \in Nat /\ st.size \in Nat
    BY <1>1, <2>7, <2>8, Constants
  <2>10. at = b.start
    OBVIOUS
  <2>11. lo = (p - at) + 1 /\ hi = (p - at) + n
    OBVIOUS
  <2> HIDE DEF at
  <2>12. lo \in 1 .. BlockSize /\ hi \in 1 .. BlockSize /\ lo <= hi /\ hi - lo + 1 = n
        /\ lo \in Int /\ hi \in Int
    <3> HIDE DEF lo, hi
    <3> QED
      BY <2>9, <2>11
  <2>13. /\ got \in Seq(Bytes) /\ Len(got) = n
         /\ \A k \in 1 .. n : got[k] = b.buf[lo + k - 1]
    <3> HIDE DEF lo, hi
    <3>1. \A k \in lo .. hi : b.buf[k] \in Bytes
      BY <2>7, <2>12, Constants
    <3>2. /\ got \in Seq(Bytes) /\ Len(got) = IF lo <= hi THEN hi - lo + 1 ELSE 0
          /\ \A k \in 1 .. (hi - lo + 1) : got[k] = b.buf[lo + k - 1]
      BY <2>12, <3>1, SubSeqProperties
    <3> QED
      BY <2>12, <3>2
  <2>14. ASSUME NEW k \in 1 .. n PROVE got[k] = con[p + k - 1]
    <3> DEFINE j == lo + k - 1
    <3>1. j \in 1 .. BlockSize /\ at + j <= st.size /\ at + j - 1 = p + k - 1
      <4> HIDE DEF lo
      <4> QED
        BY <2>9, <2>11
    <3>2. got[k] = b.buf[j]
      BY <2>13
    <3> HIDE DEF j, got
    <3> QED
      BY <2>7, <2>10, <3>1, <3>2
  <2> HIDE DEF got
  <2>15. got = Cells(con, p, n)
    BY <2>13, <2>14 DEF Cells
  <2> QED
    BY <2>2, <2>4, <2>5, <2>15 DEF CellsUpTo
<1>3. CASE Found(st.blocks, p) = {}
  <2> DEFINE seen == [st EXCEPT !.base = Stretched(st.base)]
             up == IF p + n > seen.base.size /\ seen.base.size < seen.size
                   THEN FlushedAll(seen) ELSE seen
             got == FileBytes(up.base, p, n)
             f == [up.base EXCEPT !.pos = p + Len(got)]
             new == [up EXCEPT !.base = f]
  <2>1. r = [st |-> new, data |-> got]
    <3>1. [up EXCEPT !.base.pos = p + Len(got)] = new
      OBVIOUS
    <3> QED
      BY <1>3 DEF Fetched
  <2>2. /\ Good(seen, con) /\ seen.base = Stretched(st.base) /\ seen.blocks = st.blocks
        /\ seen.size = st.size /\ seen.count = st.count
    BY StretchGood
  <2>3. FileFollows(st.base, seen.base, con, con)
    BY <1>1, <2>2, Stretches, FollowsSame
  <2> HIDE DEF seen
  <2>4. /\ Good(up, con) /\ up.size = st.size /\ up.count = st.count
        /\ FileFollows(seen.base, up.base, con, con)
        /\ Found(up.blocks, p) = {}
    <3>1. CASE up = seen
      <4>1. FileFollows(seen.base, seen.base, con, con)
        BY <2>2, StateIs, FollowsSame DEF Good, Sound
      <4> QED
        BY <1>3, <2>2, <3>1, <4>1
    <3>2. CASE up = FlushedAll(seen)
      <4> DEFINE m == Len(seen.blocks)
                 w == Flushed(seen, m)
      <4>1. m \in Nat /\ seen.blocks \in Seq(BlockType)
        BY <2>2, StateIs DEF Good, Sound
      <4>2. m \in 0 .. Len(seen.blocks)
        BY <4>1
      <4> HIDE DEF m
      <4>3. /\ Good(w, con) /\ w.size = seen.size /\ w.count = seen.count
            /\ FileFollows(seen.base, w.base, con, con)
            /\ Len(w.blocks) = Len(seen.blocks) - m
        BY <2>2, <4>2, FlushedIs
      <4>4. up = w
        BY <3>2 DEF FlushedAll, m
      <4> HIDE DEF w
      <4>5. Len(w.blocks) = 0 /\ w.blocks \in Seq(BlockType)
        BY <4>1, <4>3, StateIs DEF Good, Sound, m
      <4>6. Found(w.blocks, p) = {}
        BY <4>5 DEF Found
      <4> HIDE DEF up
      <4> QED
        BY <2>2, <4>3, <4>4, <4>6
    <3> QED
      BY <3>1, <3>2
  <2> HIDE DEF up
  <2>5. /\ up \in StateType /\ up.base \in FileType /\ up.base.data \in Seq(Bytes)
        /\ Len(up.base.data) \in Nat /\ seen.base \in FileType
        /\ Len(up.base.data) <= up.base.size /\ up.base.size <= st.size
    BY <2>2, <2>4, StateIs DEF Good, Sound, FileWithin
  <2>6. a \in Nat
    BY AlignedApart
  <2> DEFINE l == Len(up.base.data)
             m == Lower(p + n, l) - p
  <2>7. /\ \A q \in Nat : a <= q /\ q < a + BlockSize /\ q < st.size =>
              FileCell(up.base, q) = con[q]
        /\ Lower(a + BlockSize, st.size) - 1 <= l
    <3>1. p < a + BlockSize /\ a < up.size
      BY <1>1, <2>4, <2>6, Constants
    <3> HIDE DEF l
    <3> QED
      BY <2>4, <3>1, Uncached DEF l
  <2>8. /\ m \in 0 .. n /\ p + m <= l /\ Lower(p + n, l) = p + m /\ l \in Nat
        /\ m = n \/ (m = n - 1 /\ l = p + m /\ p + n = Lower(a + BlockSize, st.size))
    <3>1. l \in Nat /\ a + BlockSize \in Nat
      BY <2>5, <2>6, Constants
    <3> HIDE DEF l
    <3> QED
      BY <1>1, <2>7, <3>1, SMTT(30) DEF Lower
  <2>9. got = SubSeq(up.base.data, p + 1, p + m)
    BY <2>8 DEF FileBytes
  <2> HIDE DEF l, m
  <2>10. /\ got \in Seq(Bytes) /\ Len(got) = m
         /\ \A k \in 1 .. m : got[k] = con[p + k - 1]
    <3> HIDE DEF got
    <3>0. m \in Nat
      BY <2>8
    <3>1. \A k \in (p + 1) .. (p + m) : up.base.data[k] \in Bytes
      BY <2>5, <2>8 DEF l
    <3>2. /\ got \in Seq(Bytes)
          /\ Len(got) = IF p + 1 <= p + m THEN p + m - (p + 1) + 1 ELSE 0
          /\ \A k \in 1 .. (p + m - (p + 1) + 1) : got[k] = up.base.data[(p + 1) + k - 1]
      BY <2>9, <3>0, <3>1, SubSeqProperties
    <3>3. p + m - (p + 1) + 1 = m /\ (~(p + 1 <= p + m) => m = 0)
      BY <3>0
    <3>4. ASSUME NEW k \in 1 .. m PROVE got[k] = con[p + k - 1]
      <4> DEFINE q == p + k - 1
      <4>1. /\ q \in Nat /\ a <= q /\ q < a + BlockSize /\ q < st.size /\ q < l
            /\ (p + 1) + k - 1 = q + 1
        BY <1>1, <2>6, <2>8, <3>0, Constants
      <4> HIDE DEF q
      <4>2. got[k] = up.base.data[q + 1]
        BY <3>2, <3>3, <4>1
      <4>3. FileCell(up.base, q) = up.base.data[q + 1]
        BY <4>1 DEF FileCell, l
      <4> QED
        BY <2>7, <4>1, <4>2, <4>3 DEF q
    <3> QED
      BY <3>2, <3>3, <3>4
  <2> HIDE DEF got
  <2>11. CellsUpTo(got, con, st.size, p, n)
    <3>1. got = Cells(con, p, m)
      BY <2>10 DEF Cells
    <3>2. CASE m = n
      BY <3>1, <3>2 DEF CellsUpTo
    <3>3. CASE m # n
      <4>1. /\ m = n - 1 /\ l = p + m /\ p + n = Lower(a + BlockSize, st.size)
            /\ m \in 0 .. n - 1
        BY <2>8, <3>3
      <4> DEFINE q == p + m
      <4>2. /\ q \in Nat /\ a <= q /\ q < a + BlockSize /\ q < st.size /\ q = l
            /\ q + 1 = p + n
        BY <1>1, <2>6, <4>1, Constants
      <4> HIDE DEF q
      <4>3. con[q] = Zero
        <5>1. FileCell(up.base, q) = Zero
          BY <2>8, <4>2 DEF FileCell, l
        <5> QED
          BY <2>7, <4>2, <5>1
      <4>4. q + 1 = st.size \/ q + 1 = a + BlockSize
        BY <4>1, <4>2 DEF Lower
      <4>5. Lacks(con, st.size, q)
        BY <4>3, <4>4, AlignedNext DEF Lacks
      <4> QED
        BY <3>1, <4>1, <4>5 DEF CellsUpTo, q
    <3> QED
      BY <3>2, <3>3
  <2>12. /\ f \in FileType /\ f.data = up.base.data /\ f.size = up.base.size
         /\ f.pos = p + m /\ f.pos <= st.size
    <3>1. p + Len(got) = p + m /\ p + m \in Nat /\ p + m <= st.size
      BY <1>1, <2>8, <2>10
    <3> QED
      BY <2>5, <3>1 DEF FileType
  <2> HIDE DEF f
  <2>13. /\ Good(new, con) /\ new.base = f
         /\ new.size = st.size /\ new.count = st.count
    BY <2>4, <2>5, <2>12, FileGood
  <2>14. FileFollows(up.base, f, con, con)
    BY <2>5, <2>12, FollowsSame
  <2>15. FileFollows(st.base, new.base, con, con)
    BY <1>1, <2>3, <2>4, <2>5, <2>12, <2>13, <2>14, FollowsOn
  <2> HIDE DEF new
  <2> QED
    BY <2>1, <2>11, <2>13, <2>15
<1> QED
  BY <1>2, <1>3

\* A part of the content is a sequence of bytes.
LEMMA CellsIs ==
    ASSUME NEW con, NEW end, ContentOf(con, end), NEW p \in Nat, NEW n \in Nat, p + n <= end
    PROVE  Cells(con, p, n) \in Seq(Bytes) /\ Len(Cells(con, p, n)) = n
<1>1. \A i \in 1 .. n : con[p + i - 1] \in Bytes
  <2> TAKE i \in 1 .. n
  <2>1. p + i - 1 \in 0 .. Limit - 1 /\ p + i - 1 < end
    BY Constants DEF ContentOf
  <2> QED
    BY <2>1 DEF ContentOf
<1> QED
  BY <1>1 DEF Cells

\* Two parts that follow each other are one.
LEMMA CellsOn ==
    ASSUME NEW con, NEW end, ContentOf(con, end), NEW p \in Nat, NEW m \in Nat, NEW n \in Nat,
           p + m + n <= end
    PROVE  Cells(con, p, m) \o Cells(con, p + m, n) = Cells(con, p, m + n)
<1> DEFINE x == Cells(con, p, m)
           y == Cells(con, p + m, n)
           z == Cells(con, p, m + n)
<1>1. end \in Int
  BY DEF ContentOf
<1>2. /\ x \in Seq(Bytes) /\ Len(x) = m /\ y \in Seq(Bytes) /\ Len(y) = n
      /\ z \in Seq(Bytes) /\ Len(z) = m + n
  <2>1. p + m \in Nat /\ p + m <= end /\ m + n \in Nat /\ p + (m + n) <= end
        /\ (p + m) + n <= end
    BY <1>1
  <2> QED
    BY <2>1, CellsIs
<1>3. /\ \A i \in 1 .. m : x[i] = con[p + i - 1]
      /\ \A i \in 1 .. n : y[i] = con[(p + m) + i - 1]
      /\ \A i \in 1 .. (m + n) : z[i] = con[p + i - 1]
  BY DEF Cells
<1> HIDE DEF x, y, z
<1>4. /\ x \o y \in Seq(Bytes) /\ Len(x \o y) = Len(x) + Len(y)
      /\ \A i \in 1 .. (Len(x) + Len(y)) :
            (x \o y)[i] = IF i <= Len(x) THEN x[i] ELSE y[i - Len(x)]
  BY <1>2, ConcatProperties
<1> DEFINE w == x \o y
<1> HIDE DEF w
<1>5. w \in Seq(Bytes) /\ Len(w) = m + n
  BY <1>2, <1>4 DEF w
<1>6. ASSUME NEW i \in 1 .. (m + n) PROVE w[i] = z[i]
  <2>1. w[i] = IF i <= m THEN x[i] ELSE y[i - m]
    BY <1>2, <1>4 DEF w
  <2>2. CASE i <= m
    BY <1>3, <2>1, <2>2
  <2>3. CASE ~(i <= m)
    <3>1. i - m \in 1 .. n /\ (p + m) + (i - m) - 1 = p + i - 1
      BY <2>3
    <3> QED
      BY <1>3, <2>1, <2>3, <3>1
  <2> QED
    BY <2>2, <2>3
<1>7. w = z
  BY <1>2, <1>5, <1>6
<1> QED
  BY <1>7 DEF w, z, x, y

\* A piece more, unless the one before came up short.
GotNext(g, p, all, k) ==
    LET from == PieceFrom(p, k)
        piece == Fetched(g.st, from, PieceTo(p, all, k) - from)
    IN IF p + Len(g.data) < from THEN g
       ELSE [st |-> piece.st, data |-> g.data \o piece.data]

\* The recursion of Got, up to the piece m.
IsGot(g, st, p, all, m) ==
    g = [k \in 0 .. m |-> IF k = 0 THEN [st |-> st, data |-> << >>]
                          ELSE GotNext(g[k - 1], p, all, k)]

\* The recursion of Got, as a function that is there.
LEMMA GotThere == ASSUME NEW st, NEW p, NEW all, NEW n \in Nat PROVE \E g : IsGot(g, st, p, all, n)
<1> DEFINE none == [st |-> st, data |-> << >>]
           G == {m \in Nat : \E g : IsGot(g, st, p, all, m)}
<1>1. 0 \in G
  <2> DEFINE g == [k \in 0 .. 0 |-> none]
  <2>1. g = [k \in 0 .. 0 |-> IF k = 0 THEN none ELSE GotNext(g[k - 1], p, all, k)]
    OBVIOUS
  <2> QED
    BY <2>1 DEF IsGot
<1>2. ASSUME NEW m \in 0..(n - 1), m \in G PROVE m + 1 \in G
  <2>1. PICK g : IsGot(g, st, p, all, m)
    BY <1>2
  <2> HIDE DEF none
  <2> DEFINE e == GotNext(g[m], p, all, m + 1)
             t == [k \in 0 .. (m + 1) |-> IF k = m + 1 THEN e ELSE g[k]]
  <2>2. \A k \in 0 .. m : g[k] = IF k = 0 THEN none ELSE GotNext(g[k - 1], p, all, k)
    BY <2>1 DEF IsGot, none
  <2>3. ASSUME NEW k \in 0 .. (m + 1)
        PROVE  t[k] = IF k = 0 THEN none ELSE GotNext(t[k - 1], p, all, k)
    <3>1. CASE k = m + 1
      <4>1. k # 0 /\ k - 1 = m /\ k - 1 \in 0 .. (m + 1) /\ k - 1 # m + 1
        BY <3>1
      <4> QED
        BY <3>1, <4>1
    <3>2. CASE k # m + 1 /\ k # 0
      <4>1. k \in 0 .. m /\ k - 1 \in 0 .. (m + 1) /\ k - 1 # m + 1
        BY <3>2
      <4>2. t[k] = g[k] /\ t[k - 1] = g[k - 1]
        BY <3>2, <4>1
      <4> HIDE DEF t
      <4> QED
        BY <2>2, <3>2, <4>1, <4>2
    <3>3. CASE k = 0
      BY <2>2, <3>3
    <3> QED
      BY <3>1, <3>2, <3>3
  <2>4. t = [k \in 0 .. (m + 1) |-> t[k]]
    OBVIOUS
  <2> HIDE DEF t
  <2>5. IsGot(t, st, p, all, m + 1)
    BY <2>3, <2>4 DEF IsGot, none
  <2> QED
    BY <2>5
<1> HIDE DEF G
<1>3. \A m \in 0..n : m \in G
  BY <1>1, <1>2, UpTo
<1> QED
  BY <1>3 DEF G

\* A whole read, within the stream.
LEMMA GotIs ==
    ASSUME NEW st, NEW con, Good(st, con), NEW p \in Nat, NEW n \in Nat, p <= st.size
    PROVE  LET r == Got(st, p, n)
           IN /\ Good(r.st, con) /\ r.st.size = st.size /\ r.st.count = st.count
              /\ FileFollows(st.base, r.st.base, con, con)
              /\ CellsUpTo(r.data, con, st.size, p, Lower(n, st.size - p))
<1> DEFINE all == Lower(n, st.size - p)
           c == PieceCount(p, all)
           g == CHOOSE x : IsGot(x, st, p, all, c)
           Upto(k) == IF k = 0 THEN 0 ELSE PieceTo(p, all, k) - p
           Fits(k) == /\ Good(g[k].st, con) /\ g[k].st.size = st.size
                      /\ g[k].st.count = st.count
                      /\ FileFollows(st.base, g[k].st.base, con, con)
                      /\ CellsUpTo(g[k].data, con, st.size, p, Upto(k))
           G == {k \in 0 .. c : Fits(k)}
<1>1. /\ st.size \in Nat /\ st.base \in FileType /\ ContentOf(con, st.size)
  BY StateIs DEF Good, Sound
<1>2. all \in Nat /\ p + all <= st.size
  BY <1>1 DEF Lower
<1> HIDE DEF all
<1>3. c \in Nat /\ (all # 0 => c >= 1) /\ (all = 0 => c = 0)
  BY <1>2, PieceCountIs, SMTT(30)
<1>4. IsGot(g, st, p, all, c)
  BY <1>3, GotThere
<1>5. Got(st, p, n) = g[c]
  <2>1. ~(p > st.size)
    BY <1>1
  <2> QED
    BY <2>1 DEF Got, IsGot, GotNext, all
<1> HIDE DEF g, c
<1>6. /\ g[0] = [st |-> st, data |-> << >>]
      /\ \A k \in 0..(c - 1) : g[k + 1] = GotNext(g[k], p, all, k + 1)
  <2>1. \A k \in 0..c : g[k] = IF k = 0 THEN [st |-> st, data |-> << >>]
                               ELSE GotNext(g[k - 1], p, all, k)
    BY <1>4 DEF IsGot
  <2>2. ASSUME NEW k \in 0..(c - 1) PROVE g[k + 1] = GotNext(g[k], p, all, k + 1)
    <3>1. k + 1 \in 0..c /\ k + 1 # 0 /\ (k + 1) - 1 = k
      BY <1>3
    <3> QED
      BY <2>1, <3>1
  <2> QED
    BY <1>3, <2>1, <2>2
<1>7. Fits(0)
  <2>1. Cells(con, p, 0) = << >>
    <3>1. Cells(con, p, 0) \in Seq(Bytes) /\ Len(Cells(con, p, 0)) = 0
      BY <1>1, <1>2, CellsIs
    <3> QED
      BY <3>1
  <2>2. FileFollows(st.base, st.base, con, con)
    BY <1>1, FollowsSame
  <2>3. g[0].st = st /\ g[0].data = << >> /\ Upto(0) = 0
    BY <1>6
  <2> HIDE DEF Upto
  <2> QED
    BY <2>1, <2>2, <2>3 DEF CellsUpTo
<1>8. ASSUME NEW k \in 0..(c - 1), Fits(k) PROVE Fits(k + 1)
  <2> DEFINE from == PieceFrom(p, k + 1)
             to == PieceTo(p, all, k + 1)
             piece == Fetched(g[k].st, from, to - from)
  <2>1. k + 1 \in 1 .. PieceCount(p, all) /\ k \in Nat
    BY <1>3 DEF c
  <2>2. /\ from \in Nat /\ to \in Nat /\ p <= from /\ from < to /\ to <= p + all
        /\ \E a : Aligned(a) /\ a <= from /\ to <= a + BlockSize
        /\ k + 1 = 1 => from = p
    BY <1>2, <2>1, PieceIs
  <2>3. from = p + Upto(k) /\ Upto(k) \in Nat
    <3>1. CASE k = 0
      BY <2>2, <3>1
    <3>2. CASE k # 0
      <4>1. k \in 1 .. PieceCount(p, all) /\ k < PieceCount(p, all)
        BY <1>3, <2>1, <3>2 DEF c
      <4>2. PieceFrom(p, k + 1) = PieceTo(p, all, k)
        BY <1>2, <4>1, PieceIs
      <4>3. Upto(k) = from - p
        BY <3>2, <4>2
      <4> HIDE DEF from, Upto
      <4> QED
        BY <2>2, <4>3
    <3> QED
      BY <3>1, <3>2
  <2>4. Upto(k + 1) = to - p
    BY <2>1
  <2> HIDE DEF from, to, Upto
  <2>5. PICK a : Aligned(a) /\ a <= from /\ to <= a + BlockSize
    BY <2>2
  <2>6. to - from \in Nat /\ to - from >= 1 /\ from + (to - from) = to /\ to <= st.size
    BY <1>1, <1>2, <2>2
  <2>7. p + Upto(k) <= st.size /\ Upto(k + 1) \in Nat /\ Upto(k) < Upto(k + 1)
    BY <1>1, <1>2, <2>2, <2>3, <2>4
  <2>8. CASE g[k].data = Cells(con, p, Upto(k))
    <3>1. /\ Good(piece.st, con) /\ piece.st.size = g[k].st.size
          /\ piece.st.count = g[k].st.count
          /\ FileFollows(g[k].st.base, piece.st.base, con, con)
          /\ CellsUpTo(piece.data, con, st.size, from, to - from)
      BY <1>8, <2>2, <2>5, <2>6, FetchedIs
    <3>2. Len(g[k].data) = Upto(k)
      BY <1>1, <2>3, <2>7, <2>8, CellsIs
    <3>3. ~(p + Len(g[k].data) < from)
      BY <2>2, <2>3, <3>2
    <3>4. g[k + 1] = [st |-> piece.st, data |-> g[k].data \o piece.data]
      BY <1>6, <3>3 DEF GotNext, from, to
    <3> HIDE DEF piece
    <3>5. g[k + 1].st = piece.st /\ g[k + 1].data = g[k].data \o piece.data
      <4> DEFINE u == piece.st
                 v == g[k].data \o piece.data
      <4>1. g[k + 1] = [st |-> u, data |-> v]
        BY <3>4
      <4> HIDE DEF u, v
      <4>2. g[k + 1].st = u /\ g[k + 1].data = v
        BY <4>1
      <4> QED
        BY <4>2 DEF u, v
    <3>6. ASSUME NEW j \in 0 .. (to - from), piece.data = Cells(con, from, j)
          PROVE  g[k].data \o piece.data = Cells(con, p, Upto(k) + j)
      <4> DEFINE u == Upto(k)
      <4>1. /\ u \in Nat /\ j \in Nat /\ p + u + j <= st.size /\ from = p + u
            /\ ContentOf(con, st.size)
        BY <1>1, <2>2, <2>3, <2>6
      <4> HIDE DEF u
      <4>2. Cells(con, p, u) \o Cells(con, p + u, j) = Cells(con, p, u + j)
        BY <4>1, CellsOn
      <4> QED
        BY <2>8, <3>6, <4>1, <4>2 DEF u
    <3>7. CellsUpTo(g[k].data \o piece.data, con, st.size, p, Upto(k + 1))
      <4>1. CASE piece.data = Cells(con, from, to - from)
        <5>1. to - from \in 0 .. (to - from) /\ Upto(k) + (to - from) = Upto(k + 1)
          BY <2>2, <2>3, <2>4, <2>6
        <5> QED
          BY <3>6, <4>1, <5>1 DEF CellsUpTo
      <4>2. ASSUME NEW m \in 0 .. (to - from) - 1, piece.data = Cells(con, from, m),
                   Lacks(con, st.size, from + m)
            PROVE  CellsUpTo(g[k].data \o piece.data, con, st.size, p, Upto(k + 1))
        <5>1. /\ m \in 0 .. (to - from) /\ Upto(k) + m \in 0 .. Upto(k + 1) - 1
              /\ from + m = p + (Upto(k) + m)
          BY <2>2, <2>3, <2>4, <2>6
        <5>2. g[k].data \o piece.data = Cells(con, p, Upto(k) + m)
          BY <3>6, <4>2, <5>1
        <5> QED
          BY <4>2, <5>1, <5>2 DEF CellsUpTo
      <4> QED
        BY <3>1, <4>1, <4>2 DEF CellsUpTo
    <3>8. g[k].st.base \in FileType /\ piece.st.base \in FileType
      BY <1>8, <3>1, StateIs DEF Good, Sound
    <3>9. FileFollows(st.base, piece.st.base, con, con)
      BY <1>1, <1>8, <3>1, <3>8, FollowsOn
    <3> QED
      BY <1>8, <3>1, <3>5, <3>7, <3>9
  <2>9. ASSUME NEW m \in 0 .. Upto(k) - 1, g[k].data = Cells(con, p, m),
               Lacks(con, st.size, p + m)
        PROVE  Fits(k + 1)
    <3>1. m \in Nat /\ p + m <= st.size /\ m \in 0 .. Upto(k + 1) - 1
      BY <1>1, <2>3, <2>7
    <3>2. Len(g[k].data) = m
      BY <1>1, <2>9, <3>1, CellsIs
    <3>3. p + Len(g[k].data) < from
      BY <2>3, <2>9, <3>2
    <3>4. g[k + 1] = g[k]
      BY <1>6, <3>3 DEF GotNext, from, to
    <3>5. CellsUpTo(g[k].data, con, st.size, p, Upto(k + 1))
      BY <2>9, <3>1 DEF CellsUpTo
    <3> QED
      BY <1>8, <3>4, <3>5
  <2> QED
    BY <1>8, <2>8, <2>9 DEF CellsUpTo
<1>9. Fits(c)
  <2>1. 0 \in G
    BY <1>3, <1>7
  <2>2. ASSUME NEW k \in 0..(c - 1), k \in G PROVE k + 1 \in G
    <3>1. Fits(k) /\ k + 1 \in 0 .. c
      BY <1>3, <2>2
    <3>2. Fits(k + 1)
      BY <1>8, <3>1
    <3> QED
      BY <3>1, <3>2
  <2> HIDE DEF G
  <2>3. \A k \in 0..c : k \in G
    BY <1>3, <2>1, <2>2, UpTo
  <2> QED
    BY <1>3, <2>3 DEF G
<1>10. Upto(c) = all
  <2>1. CASE all = 0
    BY <1>3, <2>1
  <2>2. CASE all # 0
    <3>1. c \in 1 .. PieceCount(p, all) /\ c = PieceCount(p, all)
      BY <1>3, <2>2 DEF c
    <3>2. PieceTo(p, all, c) = p + all
      BY <1>2, <3>1, PieceIs
    <3> QED
      BY <1>2, <1>3, <3>1, <3>2
  <2> QED
    BY <2>1, <2>2
<1> HIDE DEF Upto
<1> QED
  BY <1>5, <1>9, <1>10 DEF all
-----------------------------------------------------------------------------
(* Writes *)
\* The content after a write that starts within it or at its end.
LEMMA PatchedIs ==
    ASSUME NEW con, NEW z, ContentOf(con, z), NEW p \in Nat, p <= z,
           NEW data \in Seq(Bytes), p + Len(data) <= Limit
    PROVE  /\ ContentOf(Patched(con, p, data), Upper(z, p + Len(data)))
           /\ \A q \in 0 .. Limit - 1 :
                 Patched(con, p, data)[q] = IF p <= q /\ q < p + Len(data)
                                            THEN data[(q - p) + 1] ELSE con[q]
<1> DEFINE n == Len(data)
           new == Patched(con, p, data)
<1>1. /\ n \in Nat /\ z \in 0 .. Limit /\ Limit \in Nat
      /\ con \in [0 .. Limit - 1 -> Bytes \union {Beyond}]
      /\ \A q \in 0 .. Limit - 1 : q < z <=> con[q] # Beyond
  BY Constants DEF ContentOf
<1>2. \A q \in 0 .. Limit - 1 : p <= q /\ q < p + n => data[(q - p) + 1] \in Bytes
  <2> TAKE q \in 0 .. Limit - 1
  <2> HAVE p <= q /\ q < p + n
  <2>1. (q - p) + 1 \in 1 .. n
    BY <1>1
  <2> QED
    BY <2>1
<1>3. \A q \in 0 .. Limit - 1 :
         new[q] = IF p <= q /\ q < p + n THEN data[(q - p) + 1] ELSE con[q]
  <2> TAKE q \in 0 .. Limit - 1
  <2>1. ~(q < p /\ con[q] = Beyond)
    BY <1>1
  <2>2. new[q] = IF p <= q /\ q < p + n THEN data[q - p + 1]
                 ELSE IF q < p /\ con[q] = Beyond /\ data # << >> THEN Zero ELSE con[q]
    BY DEF Patched
  <2> QED
    BY <2>1, <2>2
<1>4. new = [q \in 0 .. Limit - 1 |-> new[q]]
  BY DEF Patched
<1> HIDE DEF new
<1>5. Upper(z, p + n) \in 0 .. Limit
  BY <1>1 DEF Upper
<1>6. \A q \in 0 .. Limit - 1 : new[q] \in Bytes \union {Beyond}
  BY <1>1, <1>2, <1>3
<1>7. new \in [0 .. Limit - 1 -> Bytes \union {Beyond}]
  BY <1>4, <1>6
<1>8. \A q \in 0 .. Limit - 1 : q < Upper(z, p + n) <=> new[q] # Beyond
  <2> TAKE q \in 0 .. Limit - 1
  <2>1. CASE p <= q /\ q < p + n
    BY <1>1, <1>2, <1>3, <2>1, Constants DEF Upper
  <2>2. CASE ~(p <= q /\ q < p + n)
    BY <1>1, <1>3, <2>2 DEF Upper
  <2> QED
    BY <2>1, <2>2
<1> QED
  BY <1>3, <1>5, <1>7, <1>8 DEF ContentOf, new

\* A piece of a write: it lies in one block, and starts within the stream of z bytes
\* or at its end.
PieceOK(a, p, data, z) ==
    /\ Aligned(a) /\ a <= p /\ p <= z /\ p + Len(data) <= a + BlockSize
    /\ p + Len(data) <= Limit /\ Len(data) >= 1

\* The buffer has the content of a stream of z bytes, and then fill bytes.
Buffered(b, con, z) ==
    \A k \in 1 .. BlockSize :
        b.buf[k] = IF b.start + k <= z THEN con[b.start + k - 1] ELSE Zero

\* A piece is saved in its block: the block is of the content written, and a cell that
\* it does not cover was there before.
LEMMA SavedBlock ==
    ASSUME NEW con, NEW z, ContentOf(con, z), NEW b \in BlockType, Buffered(b, con, z),
           Marked(b, z), NEW p \in Nat, NEW data \in Seq(Bytes),
           PieceOK(b.start, p, data, z),
           b.end <= b.start + BlockSize, b.end <= Upper(z, p + Len(data)),
           NEW c, SavedTo(b, c, p, data, Len(data))
    PROVE  LET con2 == Patched(con, p, data)
           IN /\ BlockOK(c, con2, Upper(z, p + Len(data)))
              /\ \A q \in Nat :
                    /\ b.start <= q /\ q < b.start + BlockSize
                    /\ q < Upper(z, p + Len(data)) /\ ~Covers(c, q)
                    => ~Covers(b, q) /\ con2[q] = IF q < z THEN con[q] ELSE Zero
<1> DEFINE n == Len(data)
           con2 == Patched(con, p, data)
           z2 == Upper(z, p + n)
           a == b.start
<1>1. /\ n \in Nat /\ n >= 1 /\ a \in Nat /\ b.end \in Nat /\ z \in Nat
      /\ z <= Limit /\ Limit \in Nat /\ p + n <= Limit /\ Aligned(a)
      /\ a <= p /\ p <= z /\ p + n <= a + BlockSize /\ BlockSize \in Nat
      /\ b.mstart \in Int /\ b.mend \in Int
  BY Constants, BlockIs, SMTT(30) DEF PieceOK, ContentOf
<1>2. \A q \in 0 .. Limit - 1 :
         con2[q] = IF p <= q /\ q < p + n THEN data[(q - p) + 1] ELSE con[q]
  BY <1>1, PatchedIs
<1>z. /\ z2 \in Nat /\ z2 <= Limit /\ z <= z2 /\ p + n <= z2
      /\ z2 = IF p + n > z THEN p + n ELSE z
  BY <1>1 DEF Upper
<1>4. \A k \in 1 .. BlockSize :
         b.buf[k] = IF a + k <= z THEN con[(a + k) - 1] ELSE Zero
  <2> TAKE k \in 1 .. BlockSize
  <2>1. (a + k) - 1 = a + k - 1
    BY <1>1
  <2> QED
    BY <2>1 DEF Buffered
<1> HIDE DEF con2, z2
<1>5. /\ c \in BlockType /\ c.start = a /\ c.end \in Nat /\ c.mstart \in Int /\ c.mend \in Int
      /\ \A k \in 1 .. BlockSize :
            c.buf[k] = IF p < a + k /\ a + k <= p + n THEN data[(a + k) - p] ELSE b.buf[k]
      /\ \/ c.mstart = Unset /\ c.mend = Unset
         \/ a <= c.mstart /\ c.mstart < c.mend /\ c.mend <= Upper(b.mend, p + n)
      /\ c.end <= Upper(b.end, p + n)
      /\ \A k \in 1 .. BlockSize :
            ~Covers(c, (a + k) - 1) => ~Covers(b, (a + k) - 1) /\ c.buf[k] = b.buf[k]
  <2>1. \A k \in 1 .. BlockSize : (a + k) - 1 = a + k - 1 /\ (a + k) - p = a + k - p
    BY <1>1, SMTT(30)
  <2>2. c \in BlockType
    BY DEF SavedTo
  <2> QED
    BY <2>1, <2>2, BlockIs DEF SavedTo
<1> HIDE DEF n, a
<1>6. b.end <= z2 /\ b.end <= a + BlockSize
  BY DEF z2, n, a
<1>7. c.end <= a + BlockSize /\ c.end <= z2
  BY <1>1, <1>z, <1>5, <1>6 DEF Upper
<1>8. Marked(c, z2)
  <2>1. \/ b.mstart = Unset /\ b.mend = Unset
        \/ a <= b.mstart /\ b.mstart < b.mend /\ b.mend <= a + BlockSize /\ b.mend <= z
    BY DEF Marked, a
  <2>2. Upper(b.mend, p + n) <= a + BlockSize /\ Upper(b.mend, p + n) <= z2
    BY <1>1, <1>z, <2>1 DEF Upper, Unset
  <2>3. Upper(b.mend, p + n) \in Int
    BY <1>1 DEF Upper
  <2> QED
    BY <1>1, <1>z, <1>5, <2>2, <2>3 DEF Marked
<1>9. \A k \in 1 .. BlockSize : c.buf[k] = IF a + k <= z2 THEN con2[(a + k) - 1] ELSE Zero
  <2> TAKE k \in 1 .. BlockSize
  <2>1. (a + k) - 1 \in 0 .. Limit - 1 \/ a + k > z2
    BY <1>1, <1>z
  <2>2. CASE p < a + k /\ a + k <= p + n
    <3>1. a + k <= z2 /\ (a + k) - 1 \in 0 .. Limit - 1 /\ p <= (a + k) - 1
      BY <1>1, <1>z, <2>2
    <3>2. (((a + k) - 1) - p) + 1 = (a + k) - p /\ (a + k) - 1 < p + n
      BY <1>1, <1>z, <2>2
    <3> QED
      BY <1>2, <1>5, <2>2, <3>1, <3>2
  <2>3. CASE ~(p < a + k /\ a + k <= p + n)
    <3>1. c.buf[k] = b.buf[k] /\ (a + k <= z <=> a + k <= z2)
      BY <1>1, <1>z, <1>5, <2>3, SMTT(30)
    <3>2. ASSUME a + k <= z2 PROVE con2[(a + k) - 1] = con[(a + k) - 1]
      <4>1. (a + k) - 1 \in 0 .. Limit - 1 /\ ~(p <= (a + k) - 1 /\ (a + k) - 1 < p + n)
        BY <1>1, <1>z, <2>1, <2>3, <3>2
      <4> QED
        BY <1>2, <4>1
    <3> QED
      BY <1>4, <3>1, <3>2
  <2> QED
    BY <2>2, <2>3
<1>10. BlockOK(c, con2, z2)
  <2>1. Aligned(c.start) /\ c.start < z2
    BY <1>1, <1>z, <1>5
  <2>2. \A k \in 1 .. BlockSize : (a + k) - 1 = a + k - 1
    BY <1>1
  <2> QED
    BY <1>5, <1>7, <1>8, <1>9, <2>1, <2>2 DEF BlockOK
<1>11. ASSUME NEW q \in Nat, a <= q, q < a + BlockSize, q < z2, ~Covers(c, q)
       PROVE  ~Covers(b, q) /\ con2[q] = IF q < z THEN con[q] ELSE Zero
  <2> DEFINE k == (q - a) + 1
  <2>1. k \in 1 .. BlockSize /\ (a + k) - 1 = q /\ a + k <= z2 /\ (a + k <= z <=> q < z)
    BY <1>1, <1>z, <1>11
  <2> HIDE DEF k
  <2>2. ~Covers(b, q) /\ c.buf[k] = b.buf[k] /\ con2[q] = c.buf[k]
    BY <1>5, <1>9, <1>11, <2>1
  <2>3. b.buf[k] = IF q < z THEN con[q] ELSE Zero
    BY <1>4, <2>1
  <2> QED
    BY <2>2, <2>3
<1> QED
  BY <1>10, <1>11 DEF con2, n, a, z2

\* Another block is not touched by the piece, even if it extends the stream.
LEMMA OtherBlock ==
    ASSUME NEW con, NEW z, ContentOf(con, z), NEW b \in BlockType, BlockOK(b, con, z),
           NEW a, NEW p \in Nat, NEW data \in Seq(Bytes), PieceOK(a, p, data, z), b.start # a
    PROVE  BlockOK(b, Patched(con, p, data), Upper(z, p + Len(data)))
<1> DEFINE n == Len(data)
           con2 == Patched(con, p, data)
           z2 == Upper(z, p + n)
<1>1. /\ n \in Nat /\ n >= 1 /\ a \in Nat /\ b.start \in Nat /\ b.end \in Nat
      /\ z \in Nat /\ z <= Limit /\ Limit \in Nat /\ p + n <= Limit
      /\ a <= p /\ p <= z /\ p + n <= a + BlockSize /\ BlockSize \in Nat /\ BlockSize >= 1
      /\ b.start < z
      /\ b.start + BlockSize <= a \/ a + BlockSize <= b.start
  <2>1. /\ Aligned(a) /\ a <= p /\ p <= z /\ p + n <= a + BlockSize
        /\ p + n <= Limit /\ n >= 1 /\ n \in Nat
    BY DEF PieceOK
  <2>2. Aligned(b.start) /\ b.start < z
    BY DEF BlockOK
  <2>3. z \in 0 .. Limit
    BY DEF ContentOf
  <2> HIDE DEF n
  <2>4. /\ a \in Nat /\ b.start \in Nat
        /\ a + BlockSize <= b.start \/ b.start + BlockSize <= a \/ a = b.start
    BY <2>1, <2>2, AlignedApart
  <2> QED
    BY <2>1, <2>2, <2>3, <2>4, BlockIs, Constants
<1>2. \A q \in 0 .. Limit - 1 :
         con2[q] = IF p <= q /\ q < p + n THEN data[(q - p) + 1] ELSE con[q]
  BY <1>1, PatchedIs
<1> HIDE DEF con2, n
<1>3. \A q \in Nat : b.start <= q /\ q < b.start + BlockSize /\ q < Limit => con2[q] = con[q]
  <2> TAKE q \in Nat
  <2> HAVE b.start <= q /\ q < b.start + BlockSize /\ q < Limit
  <2>1. q \in 0 .. Limit - 1 /\ ~(p <= q /\ q < p + n)
    BY <1>1
  <2> QED
    BY <1>2, <2>1
<1>4. z2 \in Nat /\ z <= z2 /\ z2 <= Limit /\ (z2 # z => b.start + BlockSize <= z)
  BY <1>1 DEF Upper
<1> HIDE DEF z2
<1>5. \A k \in 1 .. BlockSize : b.buf[k] = IF b.start + k <= z2 THEN con2[b.start + k - 1] ELSE Zero
  <2> TAKE k \in 1 .. BlockSize
  <2>1. b.buf[k] = IF b.start + k <= z THEN con[b.start + k - 1] ELSE Zero
    BY DEF BlockOK
  <2>2. (b.start + k <= z) <=> (b.start + k <= z2)
    BY <1>1, <1>4
  <2>3. b.start + k <= z => con2[b.start + k - 1] = con[b.start + k - 1]
    <3> HAVE b.start + k <= z
    <3>1. /\ b.start + k - 1 \in Nat /\ b.start <= b.start + k - 1
          /\ b.start + k - 1 < b.start + BlockSize /\ b.start + k - 1 < Limit
      BY <1>1, SMTT(30)
    <3> QED
      BY <1>3, <3>1
  <2> QED
    BY <2>1, <2>2, <2>3
<1>6. b.end \in Nat /\ b.mstart \in Int /\ b.mend \in Int
  BY BlockIs
<1>7. BlockOK(b, con2, z2)
  <2>1. b.end <= z /\ Marked(b, z) /\ Aligned(b.start) /\ b.end <= b.start + BlockSize
    BY DEF BlockOK
  <2>2. b.end <= z2 /\ b.start < z2
    BY <1>1, <1>4, <1>6, <2>1
  <2>3. Marked(b, z2)
    BY <1>1, <1>4, <1>6, <2>1 DEF Marked
  <2> QED
    BY <1>5, <2>1, <2>2, <2>3 DEF BlockOK
<1> QED
  BY <1>7 DEF con2, z2, n

\* The blocks cs are those of bs, in any order, and c in the place of that at a.
Replaced(bs, cs, a, c) ==
    /\ \A j \in DOMAIN cs :
          \/ cs[j] = c
          \/ \E i \in DOMAIN bs : cs[j] = bs[i] /\ bs[i].start # a
    /\ \E j \in DOMAIN cs : cs[j] = c
    /\ \A i \in DOMAIN bs : bs[i].start # a => \E j \in DOMAIN cs : cs[j] = bs[i]


\* From st to new, once data is cached in the block at a: what was kept stays so, and
\* the other blocks of the file are reached as before.  All but one cell that is lost,
\* or Unset.
Carried(st, con, new, con2, a, lost) ==
    /\ Sound(new, con2)
    /\ \A q \in 0 .. new.size - 1 :
          q # lost /\ (q < st.size => Kept(st, con, q)) => Kept(new, con2, q)
    /\ \A d \in Nat :
          Aligned(d) /\ d < new.size /\ d # a =>
             d < st.size /\ (Reached(st, d) => Reached(new, d))

\* A cell of the block at a that c does not cover, and that is not lost, was there before.
Uncovers(st, con, a, c, con2, z2, lost) ==
    \A q \in Nat :
        a <= q /\ q < a + BlockSize /\ q < z2 /\ q # lost /\ ~Covers(c, q) =>
            /\ \A i \in DOMAIN st.blocks : st.blocks[i].start = a => ~Covers(st.blocks[i], q)
            /\ con2[q] = IF q < st.size THEN con[q] ELSE Zero

\* The state new is st with the block c for that at a.
Takes(st, new, a, c, z2) ==
    /\ new \in StateType /\ new.base = st.base /\ new.size = z2
    /\ Bounded(new) /\ Apart(new.blocks) /\ Replaced(st.blocks, new.blocks, a, c)

\* The piece's block c and the other blocks are of the content written.
LEMMA CachedSound ==
    ASSUME NEW st, NEW con, Sound(st, con), NEW a, NEW p \in Nat, NEW data \in Seq(Bytes),
           PieceOK(a, p, data, st.size), NEW c \in BlockType, c.start = a,
           BlockOK(c, Patched(con, p, data), Upper(st.size, p + Len(data))),
           NEW lost,
           Uncovers(st, con, a, c, Patched(con, p, data), Upper(st.size, p + Len(data)), lost),
           NEW new, Takes(st, new, a, c, Upper(st.size, p + Len(data)))
    PROVE  Carried(st, con, new, Patched(con, p, data), a, lost)
<1> DEFINE n == Len(data)
           con2 == Patched(con, p, data)
           z == st.size
           z2 == Upper(z, p + n)
<1>1. /\ n \in Nat /\ n >= 1 /\ a \in Nat /\ z \in Nat /\ z <= Limit /\ Limit \in Nat
      /\ p + n <= Limit /\ a <= p /\ p <= z /\ p + n <= a + BlockSize /\ BlockSize \in Nat
      /\ ContentOf(con, z) /\ st \in StateType /\ Aligned(a)
  <2>1. /\ Aligned(a) /\ a <= p /\ p <= z /\ p + n <= a + BlockSize
        /\ p + n <= Limit /\ n >= 1 /\ n \in Nat
    BY DEF PieceOK
  <2>2. ContentOf(con, z) /\ st \in StateType
    BY DEF Sound
  <2>3. z \in 0 .. Limit
    BY <2>2 DEF ContentOf
  <2> HIDE DEF n
  <2>4. a \in Nat
    BY <2>1, AlignedApart
  <2> QED
    BY <2>1, <2>2, <2>3, <2>4, Constants
<1>2. /\ ContentOf(con2, z2)
      /\ \A q \in 0 .. Limit - 1 :
            con2[q] = IF p <= q /\ q < p + n THEN data[(q - p) + 1] ELSE con[q]
  BY <1>1, PatchedIs
<1>3. /\ z2 \in Nat /\ z <= z2 /\ z2 <= Limit /\ z2 = IF p + n > z THEN p + n ELSE z
  BY <1>1 DEF Upper
<1>4. \A i \in DOMAIN st.blocks : st.blocks[i].start # a => BlockOK(st.blocks[i], con2, z2)
  <2> TAKE i \in DOMAIN st.blocks
  <2> HAVE st.blocks[i].start # a
  <2>1. st.blocks[i] \in BlockType /\ BlockOK(st.blocks[i], con, z)
    BY <1>1, StateIs DEF Sound
  <2> QED
    BY <1>1, <2>1, OtherBlock
<1>5. /\ BlockOK(c, con2, z2) /\ Uncovers(st, con, a, c, con2, z2, lost)
      /\ new \in StateType /\ new.base = st.base /\ new.size = z2
      /\ Bounded(new) /\ Apart(new.blocks) /\ Replaced(st.blocks, new.blocks, a, c)
  BY DEF Takes
<1> HIDE DEF con2, z2, n
<1>6. \A j \in DOMAIN new.blocks : BlockOK(new.blocks[j], con2, z2)
  BY <1>4, <1>5 DEF Replaced
<1>7. FileWithin(new)
  <2>1. st.base.size \in Nat /\ st.base.pos \in Nat
    BY <1>1, StateIs
  <2> QED
    BY <1>1, <1>3, <1>5, <2>1 DEF FileWithin, Sound
<1>8. Sound(new, con2)
  BY <1>2, <1>5, <1>6, <1>7 DEF Sound
<1>9. ASSUME NEW q \in 0 .. z2 - 1, q # lost, q < z => Kept(st, con, q)
      PROVE  Kept(new, con2, q)
  <2>1. q \in Nat /\ q < z2 /\ q \in 0 .. Limit - 1
    BY <1>1, <1>3
  <2>2. PICK m \in DOMAIN new.blocks : new.blocks[m] = c
    BY <1>5 DEF Replaced
  <2>3. CASE Covers(c, q)
    BY <2>2, <2>3 DEF Kept
  <2>4. CASE a <= q /\ q < a + BlockSize /\ ~Covers(c, q)
    <3>1. /\ \A i \in DOMAIN st.blocks : st.blocks[i].start = a => ~Covers(st.blocks[i], q)
          /\ con2[q] = IF q < z THEN con[q] ELSE Zero
      BY <1>5, <1>9, <2>1, <2>4 DEF Uncovers
    <3>2. ASSUME NEW i \in DOMAIN st.blocks, Covers(st.blocks[i], q) PROVE FALSE
      <4> DEFINE b == st.blocks[i]
      <4>1. b \in BlockType /\ BlockOK(b, con, z) /\ Covers(b, q) /\ b.start # a
        BY <1>1, <3>1, <3>2, StateIs DEF Sound
      <4> HIDE DEF b
      <4>2. b.start <= q /\ q < b.start + BlockSize /\ Aligned(b.start)
        BY <1>1, <2>1, <4>1, CoversWithin DEF BlockOK
      <4> QED
        BY <1>1, <2>1, <2>4, <4>1, <4>2, SameBlock
    <3>3. CASE q < z
      <4>1. FileCell(st.base, q) = con[q]
        BY <1>9, <3>2, <3>3 DEF Kept
      <4> QED
        BY <1>5, <3>1, <3>3, <4>1 DEF Kept
    <3>4. CASE ~(q < z)
      <4>1. Len(st.base.data) \in Nat /\ st.base.size \in Nat
        BY <1>1, StateIs
      <4>2. Len(st.base.data) <= st.base.size /\ st.base.size <= z
        BY DEF Sound, FileWithin
      <4>3. ~(q < Len(st.base.data))
        BY <1>1, <2>1, <3>4, <4>1, <4>2
      <4> QED
        BY <1>5, <3>1, <3>4, <4>3 DEF Kept, FileCell
    <3> QED
      BY <3>3, <3>4
  <2>5. CASE ~(a <= q /\ q < a + BlockSize)
    <3>1. ~(p <= q /\ q < p + n) /\ q < z
      BY <1>1, <1>3, <2>1, <2>5
    <3>2. con2[q] = con[q]
      BY <1>2, <2>1, <3>1
    <3>3. Kept(st, con, q)
      BY <1>9, <3>1
    <3>4. CASE FileCell(st.base, q) = con[q]
      BY <1>5, <3>2, <3>4 DEF Kept
    <3>5. ASSUME NEW i \in DOMAIN st.blocks, Covers(st.blocks[i], q)
          PROVE  Kept(new, con2, q)
      <4>1. st.blocks[i] \in BlockType /\ BlockOK(st.blocks[i], con, z)
        BY <1>1, StateIs DEF Sound
      <4>2. st.blocks[i].start <= q /\ q < st.blocks[i].start + BlockSize
        BY <1>1, <2>1, <3>5, <4>1, CoversWithin
      <4>3. st.blocks[i].start # a
        BY <2>5, <4>2
      <4> QED
        BY <1>5, <3>5, <4>3 DEF Kept, Replaced
    <3> QED
      BY <3>3, <3>4, <3>5 DEF Kept
  <2> QED
    BY <2>3, <2>4, <2>5
<1>10. ASSUME NEW d \in Nat, Aligned(d), d < z2, d # a
       PROVE  d < z /\ (Reached(st, d) => Reached(new, d))
  <2>1. a + BlockSize <= d \/ d + BlockSize <= a
    BY <1>1, <1>10, AlignedApart
  <2>2. d < z /\ Lower(d + BlockSize, z) = Lower(d + BlockSize, z2)
    BY <1>1, <1>3, <1>10, <2>1, Constants, SMTT(30) DEF Lower
  <2>3. ASSUME NEW i \in DOMAIN st.blocks, st.blocks[i].start = d
        PROVE  \E j \in DOMAIN new.blocks : new.blocks[j] = st.blocks[i]
    BY <1>5, <1>10, <2>3 DEF Replaced
  <2>4. Reached(st, d) => Reached(new, d)
    BY <1>5, <2>2, <2>3 DEF Reached
  <2> QED
    BY <2>2, <2>4
<1>11. Carried(st, con, new, con2, a, lost)
  BY <1>5, <1>8, <1>9, <1>10 DEF Carried
<1> QED
  BY <1>11 DEF con2

\* A piece whose block is cached.
BlockPut(st, i, p, data) ==
    [st EXCEPT !.blocks = ToFront([st.blocks EXCEPT ![i] = Saved(st.blocks[i], p, data)], i),
               !.size = Upper(st.size, p + Len(data))]

\* The state t is st once data is saved in its block b, that at a, which is in front.
IsPutIn(t, b, st, con, p, data, a) ==
    /\ Carried(st, con, t, Patched(con, p, data), a, Unset)
    /\ t.base = st.base /\ t.size = Upper(st.size, p + Len(data))
    /\ t.count = st.count /\ t.blocks # << >>
    /\ b \in BlockType /\ BlockOK(b, con, st.size) /\ b.start = a
    /\ SavedTo(b, t.blocks[1], p, data, Len(data))
    /\ EndTo(b, t.blocks[1], p, data, Len(data))

\* The block comes to the front with the piece.
LEMMA PutInBlock ==
    ASSUME NEW st, NEW con, Sound(st, con), NEW a, NEW p \in Nat, NEW data \in Seq(Bytes),
           PieceOK(a, p, data, st.size),
           NEW i \in DOMAIN st.blocks, Contains(st.blocks[i], p)
    PROVE  IsPutIn(BlockPut(st, i, p, data), st.blocks[i], st, con, p, data, a)
<1> DEFINE new == BlockPut(st, i, p, data)
           n == Len(st.blocks)
           b == st.blocks[i]
           z == st.size
           c == Saved(b, p, data)
           con2 == Patched(con, p, data)
           z2 == Upper(z, p + Len(data))
           bs1 == [st.blocks EXCEPT ![i] = c]
           bs == ToFront(bs1, i)
<1>1. /\ st \in StateType /\ n \in Nat /\ st.blocks \in Seq(BlockType)
      /\ DOMAIN st.blocks = 1 .. n /\ i \in 1 .. n
      /\ \A j \in 1 .. n : st.blocks[j] \in BlockType
      /\ st.base \in FileType /\ Len(st.base.data) \in Nat /\ z \in Nat
      /\ ContentOf(con, z) /\ BlockOK(b, con, z) /\ b \in BlockType
  BY StateIs DEF Sound
<1>2. b.start = a /\ a \in Nat
  <2>1. Aligned(a) /\ Aligned(b.start) /\ a <= p /\ p < a + BlockSize
    <3>1. Aligned(b.start)
      BY <1>1 DEF BlockOK
    <3>2. Aligned(a) /\ a <= p /\ p + Len(data) <= a + BlockSize /\ Len(data) >= 1
      BY DEF PieceOK
    <3>3. a \in Nat
      BY <3>2, AlignedApart
    <3> QED
      BY <3>1, <3>2, <3>3, Constants
  <2>2. b.start <= p /\ p < b.start + BlockSize
    BY DEF Contains
  <2> QED
    BY <2>1, <2>2, SameBlock, AlignedApart
<1>3. /\ PieceOK(b.start, p, data, z) /\ b.end \in Nat
      /\ b.end <= b.start + BlockSize /\ b.end <= z2 /\ Marked(b, z) /\ Buffered(b, con, z)
  <2>1. b.end \in Nat /\ Len(data) \in Nat
    BY <1>1, BlockIs
  <2>2. b.end <= z /\ b.end <= b.start + BlockSize /\ Marked(b, z) /\ Buffered(b, con, z)
    BY <1>1 DEF BlockOK, Buffered
  <2>3. b.end <= z2
    BY <1>1, <2>1, <2>2 DEF Upper
  <2> QED
    BY <1>2, <2>1, <2>2, <2>3
<1>4. SavedTo(b, c, p, data, Len(data)) /\ EndTo(b, c, p, data, Len(data))
  <2>1. b.start <= p /\ p + Len(data) <= b.start + BlockSize
    BY <1>3 DEF PieceOK
  <2>2. (b.mstart = Unset /\ b.mend = Unset) \/ (b.start <= b.mstart /\ b.mstart < b.mend)
    BY <1>3 DEF Marked
  <2> QED
    BY <1>1, <2>1, <2>2, SavedIs
<1> HIDE DEF c
<1>5. c \in BlockType /\ c.start = a
  BY <1>2, <1>4 DEF SavedTo
<1>6. /\ BlockOK(c, con2, z2)
      /\ \A q \in Nat :
            b.start <= q /\ q < b.start + BlockSize /\ q < z2 /\ ~Covers(c, q)
            => ~Covers(b, q) /\ con2[q] = IF q < z THEN con[q] ELSE Zero
  BY <1>1, <1>3, <1>4, SavedBlock
<1>7. Uncovers(st, con, a, c, con2, z2, Unset)
  <2>1. \A j \in DOMAIN st.blocks : st.blocks[j].start = a => st.blocks[j] = b
    BY <1>2 DEF Sound, Apart
  <2> HIDE DEF b, con2, z2
  <2> QED
    BY <1>2, <1>6, <2>1 DEF Uncovers
<1>8. /\ bs1 \in Seq(BlockType) /\ Len(bs1) = n
      /\ \A j \in 1 .. n : bs1[j] = IF j = i THEN c ELSE st.blocks[j]
  BY <1>1, <1>5
<1> HIDE DEF bs1
<1>9. /\ bs \in Seq(BlockType) /\ Len(bs) = n /\ DOMAIN bs = 1 .. n
      /\ \A j \in 1 .. n : bs[j] = bs1[From(i, j)]
  BY <1>1, <1>8, FrontIs
<1> HIDE DEF bs, n
<1>10. /\ \A j \in 1 .. n : From(i, j) \in 1 .. n
       /\ \A j, k \in 1 .. n : From(i, j) = From(i, k) => j = k
       /\ \A k \in 1 .. n : \E j \in 1 .. n : From(i, j) = k
  <2>1. n \in Nat /\ i \in 1 .. n
    BY <1>1
  <2> QED
    BY <2>1, FromIs, Zenon
<1>11. z2 \in Nat
  BY <1>1 DEF Upper
<1>12. /\ new \in StateType /\ new.blocks = bs /\ new.base = st.base
       /\ new.size = z2 /\ new.count = st.count
  <2>1. new = [st EXCEPT !.blocks = bs, !.size = z2]
    BY DEF bs, bs1, c, BlockPut
  <2> HIDE DEF z2, new
  <2> QED
    BY <1>1, <1>9, <1>11, <2>1 DEF StateType
<1> HIDE DEF new
<1>13. Bounded(new)
  BY <1>9, <1>12 DEF Sound, Bounded, n
<1>14. Apart(new.blocks)
  <2>1. \A j, k \in 1 .. n : st.blocks[j].start = st.blocks[k].start => j = k
    BY <1>1 DEF Sound, Apart
  <2>2. \A j \in 1 .. n : bs1[j].start = st.blocks[j].start
    BY <1>2, <1>5, <1>8
  <2>3. ASSUME NEW j \in 1 .. n, NEW k \in 1 .. n, bs[j].start = bs[k].start
        PROVE  j = k
    <3>1. From(i, j) = From(i, k)
      <4>1. From(i, j) \in 1 .. n /\ From(i, k) \in 1 .. n
        BY <1>10
      <4>2. bs[j].start = st.blocks[From(i, j)].start /\ bs[k].start = st.blocks[From(i, k)].start
        BY <1>9, <2>2, <4>1
      <4> QED
        BY <2>1, <2>3, <4>1, <4>2
    <3> QED
      BY <1>10, <3>1
  <2> QED
    BY <1>9, <1>12, <2>3 DEF Apart
<1>15. \A j \in 1 .. n : j # i => st.blocks[j].start # a
  BY <1>1, <1>2 DEF Sound, Apart
<1>16. \A j \in DOMAIN new.blocks :
          \/ new.blocks[j] = c
          \/ \E k \in DOMAIN st.blocks :
                new.blocks[j] = st.blocks[k] /\ st.blocks[k].start # a
  <2> TAKE j \in DOMAIN new.blocks
  <2>1. j \in 1 .. n /\ From(i, j) \in 1 .. n /\ bs[j] = bs1[From(i, j)]
    BY <1>9, <1>10, <1>12
  <2> QED
    BY <1>1, <1>8, <1>12, <1>15, <2>1
<1>17. \A k \in 1 .. n : \E j \in DOMAIN new.blocks : new.blocks[j] = bs1[k]
  <2> TAKE k \in 1 .. n
  <2>1. PICK j \in 1 .. n : From(i, j) = k
    BY <1>10
  <2> QED
    BY <1>9, <1>12, <2>1
<1>18. /\ \E j \in DOMAIN new.blocks : new.blocks[j] = c
       /\ \A k \in DOMAIN st.blocks :
             st.blocks[k].start # a => \E j \in DOMAIN new.blocks : new.blocks[j] = st.blocks[k]
  BY <1>1, <1>2, <1>8, <1>17
<1>19. Takes(st, new, a, c, z2)
  BY <1>12, <1>13, <1>14, <1>16, <1>18 DEF Takes, Replaced
<1>20. Carried(st, con, new, con2, a, Unset)
  BY <1>2, <1>3, <1>5, <1>6, <1>7, <1>19, CachedSound
<1>21. new.blocks # << >> /\ new.blocks[1] = c
  <2>1. 1 \in 1 .. n /\ From(i, 1) = i
    BY <1>1 DEF From
  <2>2. bs[1] = c
    BY <1>1, <1>8, <1>9, <2>1
  <2> QED
    BY <1>9, <1>12, <2>1, <2>2
<1> HIDE DEF new, c
<1> QED
  BY <1>1, <1>2, <1>4, <1>12, <1>20, <1>21 DEF IsPutIn, new, b, z, z2, con2

\* The state t is st once data is cached at p, in the block at a, which is in front: it
\* stands for the content written, unless a byte or two extend the stream within a
\* block; and if padding follows there, it does so with that.
IsCached(t, st, con, p, data, a) ==
    LET con2 == Patched(con, p, data)
        end == p + Len(data)
    IN /\ t \in StateType
       /\ t.size = Upper(st.size, end) /\ t.count \in Nat /\ t.count <= st.count + 1
       /\ FileFollows(st.base, t.base, con, con)
       /\ t.blocks # << >> /\ t.blocks[1].start = a
       /\ end <= st.size \/ Len(data) >= 3 \/ p = a => Good(t, con2)
       /\ p = st.size /\ end < a + BlockSize => Pending(t, con2)

\* It does, as far as the block itself is reached and nothing is lost.
Stands(t, con2, z, a, p, data, lost) ==
    /\ Reached(t, a) /\ lost = Unset => Good(t, con2)
    /\ /\ p = z /\ p + Len(data) < a + BlockSize
       /\ lost = Unset \/ (lost = t.size - 1 /\ t.blocks[1].mstart # Unset)
       => Pending(t, con2)

LEMMA CachedIs ==
    ASSUME NEW st, NEW con, NEW a, NEW p \in Nat, NEW data \in Seq(Bytes),
           PieceOK(a, p, data, st.size), NEW t, NEW con2, NEW lost,
           Good(st, con), Carried(st, con, t, con2, a, lost),
           t.size = Upper(st.size, p + Len(data)), t.blocks # << >>, t.blocks[1].start = a
    PROVE  Stands(t, con2, st.size, a, p, data, lost)
<1>1. /\ Sound(t, con2) /\ st.size \in Nat /\ t.size \in Nat
      /\ \A q \in 0 .. t.size - 1 : q # lost => Kept(t, con2, q)
      /\ \A d \in Nat : Aligned(d) /\ d < t.size /\ d # a => Reached(t, d)
  <2>1. Sound(t, con2) /\ st \in StateType /\ t \in StateType
    BY DEF Carried, Good, Sound
  <2>2. st.size \in Nat /\ t.size \in Nat
    BY <2>1, StateIs
  <2>3. ASSUME NEW q \in 0 .. t.size - 1, q # lost PROVE Kept(t, con2, q)
    <3>1. q < st.size => q \in 0 .. st.size - 1
      BY <2>2
    <3>2. q < st.size => Kept(st, con, q)
      BY <3>1 DEF Good
    <3> QED
      BY <2>3, <3>2 DEF Carried
  <2>4. ASSUME NEW d \in Nat, Aligned(d), d < t.size, d # a PROVE Reached(t, d)
    <3>1. d < st.size /\ (Reached(st, d) => Reached(t, d))
      BY <2>4 DEF Carried
    <3> QED
      BY <2>4, <3>1 DEF Good
  <2> QED
    BY <2>1, <2>2, <2>3, <2>4
<1>2. Reached(t, a) /\ lost = Unset => Good(t, con2)
  <2> SUFFICES ASSUME Reached(t, a), lost = Unset PROVE Good(t, con2)
    OBVIOUS
  <2>1. \A d \in Nat : Aligned(d) /\ d < t.size => Reached(t, d)
    BY <1>1
  <2>2. \A q \in 0 .. t.size - 1 : Kept(t, con2, q)
    BY <1>1 DEF Unset
  <2> QED
    BY <1>1, <2>1, <2>2 DEF Good
<1>3. ASSUME p = st.size, p + Len(data) < a + BlockSize,
             lost = Unset \/ (lost = t.size - 1 /\ t.blocks[1].mstart # Unset)
      PROVE  Pending(t, con2)
  <2>1. Len(data) \in Nat /\ a <= p /\ Len(data) >= 1
    BY DEF PieceOK
  <2>2. t.size = p + Len(data)
    BY <1>3, <2>1 DEF Upper
  <2>3. a \in Nat
    BY AlignedApart DEF PieceOK
  <2>4. Contains(t.blocks[1], t.size)
    BY <1>3, <2>1, <2>2, <2>3 DEF Contains
  <2>5. \A q \in 0 .. t.size - 1 :
           Kept(t, con2, q) \/ (q = t.size - 1 /\ t.blocks[1].mstart # Unset)
    BY <1>1, <1>3 DEF Unset
  <2> QED
    BY <1>1, <2>4, <2>5 DEF Pending
<1> QED
  BY <1>2, <1>3 DEF Stands

\* The piece's block is reached to its end, or but for a byte.
LEMMA ReachedPut ==
    ASSUME NEW st, NEW con, Sound(st, con), NEW a, NEW p \in Nat, NEW data \in Seq(Bytes),
           PieceOK(a, p, data, st.size), a < st.size => Reached(st, a),
           NEW i \in DOMAIN st.blocks, NEW b, b = st.blocks[i], b.start = a,
           b \in BlockType, BlockOK(b, con, st.size),
           NEW t \in StateType, t.base = st.base, t.size = Upper(st.size, p + Len(data)), t.blocks # << >>,
           SavedTo(b, t.blocks[1], p, data, Len(data)),
           EndTo(b, t.blocks[1], p, data, Len(data)),
           p + Len(data) <= st.size \/ (p = st.size /\ Len(data) >= 2)
    PROVE  Reached(t, a)
<1> DEFINE c == t.blocks[1]
           n == Len(data)
           z == st.size
           len == Len(st.base.data)
<1>1. /\ n \in Nat /\ n >= 1 /\ a \in Nat /\ z \in Nat /\ len \in Nat /\ a < z
      /\ a <= p /\ p <= z /\ p + n <= a + BlockSize /\ BlockSize \in Nat
      /\ b.mstart \in Int /\ b.mend \in Int /\ b.end \in Nat
      /\ b.end <= z
  <2>1. st \in StateType
    BY DEF Sound
  <2>2. z \in Nat /\ len \in Nat
    BY <2>1, StateIs
  <2>3. a < z /\ b.end <= z
    BY DEF BlockOK
  <2> QED
    BY <2>2, <2>3, BlockIs, AlignedApart, Constants DEF PieceOK
<1>2. /\ c \in BlockType /\ c.start = a /\ c.end \in Nat /\ c.mend \in Int
      /\ b.mstart # Unset => b.mend <= c.mend
      /\ b.mstart = Unset => b.mend = Unset
      /\ c.end = b.end \/ c.end <= c.mend
      /\ p + n <= c.mend \/ p + n - 1 <= c.end
  <2>1. c \in BlockType /\ c.start = a /\ (b.mstart # Unset => b.mend <= c.mend)
    BY DEF SavedTo
  <2>2. b.mstart = Unset => b.mend = Unset
    BY <1>1 DEF BlockOK, Marked, Unset
  <2>3. c.end = b.end \/ c.end <= c.mend
    BY DEF EndTo
  <2>4. p + n <= c.mend \/ p + n - 1 <= c.end
    BY <1>1 DEF EndTo
  <2> QED
    BY <2>1, <2>2, <2>3, <2>4, BlockIs
<1>3. 1 \in DOMAIN t.blocks
  BY StateIs
<1> HIDE DEF c, n, len
<1>4. CASE p + n <= z
  <2> DEFINE end == Lower(a + BlockSize, z)
  <2>1. t.size = z /\ end \in Nat /\ end >= 1
    BY <1>1, <1>4 DEF Upper, Lower, n
  <2>2. Reached(st, a)
    BY <1>1
  <2> HIDE DEF end
  <2>3. CASE end - 1 <= len
    BY <2>1, <2>3 DEF Reached, end, len
  <2>4. ASSUME NEW j \in DOMAIN st.blocks, st.blocks[j].start = a, end - 1 <= st.blocks[j].mend
        PROVE  Reached(t, a)
    <3>1. st.blocks[j] = b
      BY <2>4 DEF Sound, Apart
    <3>2. end - 1 <= b.mend
      BY <2>4, <3>1
    <3>3. end - 1 <= c.mend
      BY <1>1, <1>2, <2>1, <3>2 DEF Unset
    <3> QED
      BY <1>2, <1>3, <2>1, <3>3 DEF Reached, end, c
  <2> QED
    BY <2>2, <2>3, <2>4 DEF Reached, end, len
<1>5. CASE p = z /\ n >= 2
  <2>1. t.size = p + n /\ Lower(a + BlockSize, t.size) = p + n
    BY <1>1, <1>5 DEF Upper, Lower, n
  <2>2. (p + n) - 1 <= c.mend
    <3>1. p \in Nat /\ c.end \in Nat /\ c.mend \in Int /\ b.end \in Nat /\ n \in Nat
          /\ p = z /\ n >= 2 /\ b.end <= z
      BY <1>1, <1>2, <1>5
    <3>2. c.end = b.end \/ c.end <= c.mend
      BY <1>2
    <3>3. p + n <= c.mend \/ p + n - 1 <= c.end
      BY <1>2
    <3> HIDE DEF z
    <3> QED
      BY <3>1, <3>2, <3>3
  <2> QED
    BY <1>2, <1>3, <2>1, <2>2 DEF Reached, c
<1> QED
  BY <1>4, <1>5 DEF n

\* A piece whose block is cached.
LEMMA FoundPut ==
    ASSUME NEW st, NEW con, Good(st, con), NEW a, NEW p \in Nat, NEW data \in Seq(Bytes),
           PieceOK(a, p, data, st.size),
           NEW i \in DOMAIN st.blocks, Contains(st.blocks[i], p),
           p + Len(data) <= st.size \/ p = st.size
    PROVE  IsCached(BlockPut(st, i, p, data), st, con, p, data, a)
<1> DEFINE t == BlockPut(st, i, p, data)
           b == st.blocks[i]
           c == t.blocks[1]
           con2 == Patched(con, p, data)
           z2 == Upper(st.size, p + Len(data))
<1>1. Sound(st, con) /\ st \in StateType /\ st.count \in Nat /\ st.base \in FileType
  BY StateIs DEF Good, Sound
<1>2. /\ Carried(st, con, t, con2, a, Unset) /\ t.base = st.base /\ t.size = z2
      /\ t.count = st.count /\ t.blocks # << >>
      /\ b \in BlockType /\ BlockOK(b, con, st.size) /\ b.start = a
      /\ SavedTo(b, c, p, data, Len(data)) /\ EndTo(b, c, p, data, Len(data))
  <2>1. IsPutIn(t, b, st, con, p, data, a)
    BY <1>1, PutInBlock
  <2> QED
    BY <2>1 DEF IsPutIn
<1> HIDE DEF t, c, con2
<1>3. t \in StateType /\ c.start = a /\ c = t.blocks[1]
  BY <1>2 DEF Carried, Sound, SavedTo, c
<1>4. /\ Reached(t, a) => Good(t, con2)
      /\ p = st.size /\ p + Len(data) < a + BlockSize => Pending(t, con2)
  <2>1. Stands(t, con2, st.size, a, p, data, Unset)
    BY <1>2, <1>3, CachedIs
  <2> QED
    BY <2>1 DEF Stands
<1>5. a < st.size /\ a <= p /\ a \in Nat /\ st.size \in Nat /\ Aligned(a)
  BY <1>1, <1>2, StateIs, AlignedApart DEF BlockOK, PieceOK
<1>6. Reached(st, a)
  BY <1>5 DEF Good
<1>7. p + Len(data) <= st.size \/ Len(data) >= 3 \/ p = a => Reached(t, a)
  <2> SUFFICES ASSUME p + Len(data) <= st.size \/ Len(data) >= 3 \/ p = a
               PROVE  Reached(t, a)
    OBVIOUS
  <2>1. Len(data) \in Nat
    OBVIOUS
  <2>2. p + Len(data) <= st.size \/ (p = st.size /\ Len(data) >= 2)
    BY <1>5, <2>1
  <2> HIDE DEF z2, b
  <2>3. t.size = Upper(st.size, p + Len(data)) /\ b = st.blocks[i]
    BY <1>2 DEF z2, b
  <2> QED
    BY <1>1, <1>2, <1>3, <1>6, <2>2, <2>3, ReachedPut
<1>8. FileFollows(st.base, t.base, con, con)
  BY <1>1, <1>2, FollowsSame
<1>9. t.count \in Nat /\ t.count <= st.count + 1
  BY <1>1, <1>2
<1> QED
  BY <1>2, <1>3, <1>4, <1>7, <1>8, <1>9 DEF IsCached, t, con2

NoZero(data) == \A k \in 1 .. Len(data) : data[k] # Zero

\* The state t is st once data is cached at its end, in the block at a, which is in front.
IsPadded(t, st, con, p, data, a) ==
    /\ t.size = Upper(st.size, p + Len(data)) /\ t.count = st.count
    /\ FileFollows(st.base, t.base, con, con)
    /\ t.blocks # << >> /\ t.blocks[1].start = a
    /\ Good(t, Patched(con, p, data))

\* Padding that follows in the block in front: its bytes are no fill bytes.
LEMMA PadPut ==
    ASSUME NEW st, NEW con, Pending(st, con), NEW a, NEW p \in Nat, NEW data \in Seq(Bytes),
           PieceOK(a, p, data, st.size), p = st.size, NoZero(data)
    PROVE  IsPadded(BlockPut(st, 1, p, data), st, con, p, data, a)
<1> DEFINE t == BlockPut(st, 1, p, data)
           b == st.blocks[1]
           c == t.blocks[1]
           n == Len(data)
           z == st.size
           con2 == Patched(con, p, data)
           z2 == Upper(z, p + n)
<1>1. /\ Sound(st, con) /\ st \in StateType /\ st.base \in FileType /\ z \in Nat
      /\ 1 \in DOMAIN st.blocks /\ Contains(b, p)
  <2>1. Sound(st, con) /\ st \in StateType /\ st.blocks # << >> /\ Contains(b, p)
    BY DEF Pending, Sound
  <2>2. st.blocks \in Seq(BlockType) /\ st.base \in FileType /\ z \in Nat
    BY <2>1, StateIs
  <2> QED
    BY <2>1, <2>2
<1>2. /\ Carried(st, con, t, con2, a, Unset) /\ t.base = st.base /\ t.size = z2
      /\ t.count = st.count /\ t.blocks # << >>
      /\ b \in BlockType /\ BlockOK(b, con, z) /\ b.start = a
      /\ SavedTo(b, c, p, data, n) /\ EndTo(b, c, p, data, n)
  <2>1. IsPutIn(t, b, st, con, p, data, a)
    BY <1>1, PutInBlock
  <2> QED
    BY <2>1 DEF IsPutIn
<1> HIDE DEF t, c, con2
<1>3. /\ n \in Nat /\ n >= 1 /\ a \in Nat /\ a < z /\ a <= p /\ p + n <= a + BlockSize
      /\ BlockSize \in Nat /\ b.mstart \in Int /\ b.mend \in Int
      /\ p + n <= Limit /\ Limit \in Nat
  BY <1>1, <1>2, BlockIs, AlignedApart, Constants DEF BlockOK, PieceOK
<1>4. /\ c \in BlockType /\ c.start = a /\ c = t.blocks[1] /\ t \in StateType
      /\ c.mstart \in Int /\ c.mend \in Int /\ 1 \in DOMAIN t.blocks
  <2>1. c \in BlockType /\ c.start = a
    BY <1>2 DEF SavedTo
  <2>2. t \in StateType
    BY <1>2 DEF Carried, Sound
  <2>3. t.blocks \in Seq(BlockType)
    BY <2>2, StateIs
  <2> QED
    BY <1>2, <2>1, <2>2, <2>3, BlockIs DEF c
<1>5. t.size = p + n
  BY <1>1, <1>2, <1>3 DEF Upper
<1> HIDE DEF n, b, z
<1>6. p + n <= c.mend
  <2> DEFINE k == (p + n) - a
  <2>1. /\ k \in 1 .. BlockSize /\ a + k = p + n /\ p < a + k /\ (a + k) - p = n
        /\ n \in 1 .. n
    <3>1. /\ n \in Nat /\ n >= 1 /\ a \in Nat /\ a <= p /\ p + n <= a + BlockSize
          /\ BlockSize \in Nat
      BY <1>3
    <3> QED
      BY <3>1
  <2>2. /\ c.buf[k] = data[n]
        /\ ~Covers(c, (p + n) - 1) => c.buf[k] = b.buf[k]
    <3>1. /\ c.buf[k] = IF p < a + k /\ a + k <= p + n THEN data[a + k - p] ELSE b.buf[k]
          /\ ~Covers(c, a + k - 1) => c.buf[k] = b.buf[k]
      <4> HIDE DEF k
      <4> QED
        BY <1>2, <2>1 DEF SavedTo, n
    <3>2. a + k - 1 = (p + n) - 1 /\ a + k <= p + n
      BY <1>3
    <3> HIDE DEF k
    <3>3. p < a + k /\ a + k - p = n
      <4>1. k \in Int /\ a \in Int /\ (a + k) - p = n
        BY <1>3, <2>1
      <4> QED
        BY <2>1, <4>1
    <3>4. c.buf[k] = data[n]
      BY <3>1, <3>2, <3>3, Zenon
    <3> QED
      BY <3>1, <3>2, <3>4, Zenon
  <2>3. b.buf[k] = Zero
    <3>1. ~(b.start + k <= z)
      BY <1>1, <1>2, <1>3, <2>1 DEF z
    <3> HIDE DEF k
    <3> QED
      BY <1>2, <2>1, <3>1 DEF BlockOK
  <2>4. data[n] # Zero
    BY <2>1 DEF NoZero, n
  <2>5. Covers(c, (p + n) - 1)
    BY <2>2, <2>3, <2>4
  <2> QED
    BY <1>3, <1>4, <2>5 DEF Covers
<1>7. Reached(t, a)
  <2>1. Lower(a + BlockSize, t.size) = p + n
    BY <1>3, <1>5 DEF Lower
  <2>2. (p + n) - 1 <= c.mend
    BY <1>3, <1>4, <1>6
  <2> QED
    BY <1>4, <2>1, <2>2 DEF Reached
<1>8. ASSUME NEW q \in 0 .. t.size - 1 PROVE Kept(t, con2, q)
  <2>1. q \in 0 .. z - 1 \/ ~(q < z)
    BY <1>1
  <2>2. CASE q < z => Kept(st, con, q)
    <3>1. q # Unset
      BY <1>5, <1>3, <1>1 DEF Unset
    <3> QED
      BY <1>2, <2>2, <3>1 DEF Carried, z
  <2>3. CASE q \in 0 .. z - 1 /\ ~Kept(st, con, q)
    <3>1. q = z - 1 /\ b.mstart # Unset
      BY <2>3 DEF Pending, z, b
    <3>2. b.mstart < b.mend /\ b.mend <= z /\ c.mstart <= b.mstart
      BY <1>2, <3>1 DEF BlockOK, Marked, SavedTo
    <3>3. Covers(c, q)
      <4>1. z \in Nat /\ p = z
        BY <1>1 DEF z
      <4> QED
        BY <1>3, <1>4, <1>6, <3>1, <3>2, <4>1 DEF Covers
    <3> QED
      BY <1>4, <3>3 DEF Kept
  <2> QED
    BY <2>1, <2>2, <2>3
<1>9. ASSUME NEW d \in Nat, Aligned(d), d < t.size PROVE Reached(t, d)
  <2>1. CASE d = a
    BY <1>7, <2>1
  <2>2. CASE d # a
    <3>1. d < z /\ (Reached(st, d) => Reached(t, d))
      BY <1>9, <2>2, <1>2 DEF Carried, z
    <3>2. Reached(st, d)
      BY <1>2, <1>9, <2>2, <3>1 DEF Pending, z, b
    <3> QED
      BY <3>1, <3>2
  <2> QED
    BY <2>1, <2>2
<1>10. Good(t, con2)
  BY <1>2, <1>8, <1>9 DEF Good, Carried
<1>11. FileFollows(st.base, t.base, con, con)
  BY <1>1, <1>2, FollowsSame
<1> QED
  BY <1>2, <1>4, <1>10, <1>11 DEF IsPadded, t, con2, z, n
\* The block around p is that at a.
LEMMA BlockAround ==
    ASSUME NEW a, Aligned(a), NEW p \in Nat, a <= p, p < a + BlockSize
    PROVE  (p \div BlockSize) * BlockSize = a
<1> DEFINE d == (p \div BlockSize) * BlockSize
<1>1. d \in Nat /\ d <= p /\ p < d + BlockSize /\ Aligned(d)
  BY BlockOf
<1> HIDE DEF d
<1>2. a \in Nat /\ (a + BlockSize <= d \/ d + BlockSize <= a \/ a = d)
  BY <1>1, AlignedApart
<1>3. a = d
  BY <1>1, <1>2, Constants
<1> QED
  BY <1>3 DEF d

\* A block just read has the content of a stream of z bytes, and is not modified; it
\* ends where the piece of n bytes at p does, if the file has nothing of it.
Fresh(b, con, z, a, p, n) ==
    /\ b \in BlockType /\ b.start = a /\ b.mstart = Unset /\ b.mend = Unset
    /\ Buffered(b, con, z)
    /\ b.end <= a + BlockSize /\ b.end <= Upper(z, p + n)
    /\ b.end = p + n \/ (a < b.end /\ b.end <= z)

\* The file f is that of st once a block was read from it.
ReadFrom(f, st) ==
    /\ f \in FileType /\ f.data = st.base.data
    /\ Len(f.data) <= f.size /\ f.size <= st.size /\ f.pos <= st.size

\* The block read for a piece that no cached block has.
LEMMA NewBlockIs ==
    ASSUME NEW st, NEW con, Good(st, con), NEW a, NEW p \in Nat, NEW data \in Seq(Bytes),
           PieceOK(a, p, data, st.size), Found(st.blocks, p) = {}
    PROVE  LET read == BlockRead(st.base, NewBlock(p, Len(data)))
           IN /\ ReadFrom(read.base, st)
              /\ Fresh(read.block, con, st.size, a, p, Len(data))
<1> DEFINE read == BlockRead(st.base, NewBlock(p, Len(data)))
           n == Len(data)
           z == st.size
           f == Stretched(st.base)
           b0 == NewBlock(p, n)
           end == Lower(a + BlockSize, f.size)
           buf0 == [k \in 1 .. BlockSize |-> Zero]
           Is(b, g) == ReadFrom(g, st) /\ Fresh(b, con, z, a, p, n)
<1>read. read = BlockRead(st.base, NewBlock(p, Len(data)))
  OBVIOUS
<1> HIDE DEF read
<1> USE <1>read
<1>1. /\ st.base \in FileType /\ st.base.size \in Nat /\ st.base.pos \in Nat
      /\ z \in Nat /\ Len(st.base.data) \in Nat
      /\ Len(st.base.data) <= st.base.size /\ st.base.size <= z /\ st.base.pos <= z
  <2>1. st \in StateType /\ FileWithin(st)
    BY DEF Good, Sound
  <2> QED
    BY <2>1, StateIs DEF FileWithin
<1>2. /\ Aligned(a) /\ a <= p /\ p <= z /\ p + n <= a + BlockSize
      /\ n >= 1 /\ n \in Nat /\ a \in Nat /\ p < a + BlockSize
  <2>1. /\ Aligned(a) /\ a <= p /\ p <= z /\ p + n <= a + BlockSize
        /\ n >= 1 /\ n \in Nat
    BY DEF PieceOK
  <2>2. a \in Nat
    BY <2>1, AlignedApart
  <2> HIDE DEF n
  <2> QED
    BY <2>1, <2>2, Constants
<1>3. /\ f \in FileType /\ f.data = st.base.data /\ f.pos = st.base.pos
      /\ f.size = Upper(st.base.size, st.base.pos) /\ f.data \in Seq(Bytes)
  BY <1>1, Stretches DEF FileType
<1>4. /\ f.size \in Nat /\ Len(f.data) \in Nat /\ Len(f.data) <= f.size /\ f.size <= z
      /\ f.pos <= z
  BY <1>1, <1>3 DEF Upper
<1>5. b0 = [start |-> a, end |-> p + n, mstart |-> Unset, mend |-> Unset, buf |-> buf0]
  <2>1. (p \div BlockSize) * BlockSize = a
    BY <1>2, BlockAround
  <2> QED
    BY <2>1 DEF NewBlock
<1>6. /\ b0.start = a /\ b0.end = p + n /\ b0.mstart = Unset /\ b0.mend = Unset
      /\ b0.buf = buf0 /\ \A k \in 1 .. BlockSize : buf0[k] = Zero
  BY <1>5
<1>7. b0 \in BlockType
  <2>1. buf0 \in [1 .. BlockSize -> Bytes]
    BY Constants
  <2> HIDE DEF buf0, n
  <2> QED
    BY <1>2, <1>5, <2>1 DEF BlockType, Unset
<1>r. read = BlockRead(st.base, b0)
  OBVIOUS
<1> HIDE DEF b0, n
<1>8. \A q \in Nat : a <= q /\ q < a + BlockSize /\ q < z => FileCell(f, q) = con[q]
  <2>1. \A q \in Nat : a <= q /\ q < a + BlockSize /\ q < z => FileCell(st.base, q) = con[q]
    BY <1>2, Uncached
  <2> QED
    BY <1>3, <2>1 DEF FileCell
<1>9. end \in Nat /\ end <= a + BlockSize /\ end <= f.size
      /\ (end = a + BlockSize \/ end = f.size)
  BY <1>2, <1>4, Constants DEF Lower
<1> HIDE DEF Is
<1>10. ASSUME end <= a PROVE Is(read.block, read.base)
  <2>1. read.base = f /\ read.block = b0
    BY <1>r, <1>6, <1>10 DEF BlockRead
  <2>2. \A k \in 1 .. BlockSize : buf0[k] = IF a + k <= z THEN con[a + k - 1] ELSE Zero
    <3> TAKE k \in 1 .. BlockSize
    <3> SUFFICES ASSUME a + k <= z PROVE con[a + k - 1] = Zero
      BY <1>6
    <3>1. /\ a + k - 1 \in Nat /\ a <= a + k - 1 /\ a + k - 1 < a + BlockSize
          /\ a + k - 1 < z
      BY <1>1, <1>2, Constants
    <3>2. ~(a + k - 1 < Len(f.data))
      <4>1. f.size <= a
        BY <1>2, <1>9, <1>10, Constants
      <4> QED
        BY <1>2, <1>4, <3>1, <4>1
    <3> QED
      BY <1>8, <3>1, <3>2 DEF FileCell
  <2>3. Buffered(b0, con, z)
    BY <1>6, <2>2 DEF Buffered
  <2>4. b0.end = p + n /\ b0.end <= a + BlockSize /\ b0.end <= Upper(z, p + n)
    BY <1>1, <1>2, <1>6 DEF Upper
  <2>5. Fresh(b0, con, z, a, p, n)
    BY <1>6, <1>7, <2>3, <2>4 DEF Fresh
  <2> HIDE DEF f
  <2> QED
    BY <1>3, <1>4, <2>1, <2>5 DEF Is, ReadFrom
<1>11. ASSUME end > a PROVE Is(read.block, read.base)
  <2> DEFINE got == FileBytes(f, a, end - a)
             to == Lower(end, Len(f.data))
             buf == [k \in 1 .. BlockSize |-> IF k <= Len(got) THEN got[k] ELSE Zero]
             g == [f EXCEPT !.pos = a + Len(got)]
             c == [b0 EXCEPT !.end = end, !.buf = buf]
  <2>1. read.base = g /\ read.block = c
    BY <1>r, <1>2, <1>6, <1>9, <1>11 DEF BlockRead
  <2>2. to \in Nat /\ to <= end /\ to <= Len(f.data) /\ (to = end \/ to = Len(f.data))
    BY <1>4, <1>9 DEF Lower
  <2>3. /\ got \in Seq(Bytes) /\ Len(got) = IF a + 1 <= to THEN to - a ELSE 0
        /\ \A k \in 1 .. (to - a) : got[k] = f.data[a + k]
    <3>1. got = SubSeq(f.data, a + 1, to)
      <4>1. a + (end - a) = end
        BY <1>2, <1>9
      <4> HIDE DEF end
      <4> QED
        BY <4>1 DEF FileBytes
    <3> HIDE DEF got, to
    <3>2. \A k \in (a + 1) .. to : f.data[k] \in Bytes
      BY <1>2, <1>3, <1>4, <2>2
    <3>3. /\ got \in Seq(Bytes) /\ Len(got) = IF a + 1 <= to THEN to - (a + 1) + 1 ELSE 0
          /\ \A k \in 1 .. (to - (a + 1) + 1) : got[k] = f.data[(a + 1) + k - 1]
      <4>1. a + 1 \in Int /\ to \in Int
        BY <1>2, <2>2
      <4> QED
        BY <1>3, <3>1, <3>2, <4>1, SubSeqProperties, SMTT(30)
    <3>4. to - (a + 1) + 1 = to - a
      BY <1>2, <2>2
    <3>5. ASSUME NEW k \in 1 .. (to - a) PROVE got[k] = f.data[a + k]
      <4>1. (a + 1) + k - 1 = a + k
        BY <1>2, <2>2
      <4> QED
        BY <3>3, <3>4, <3>5, <4>1
    <3> QED
      BY <3>3, <3>4, <3>5
  <2> HIDE DEF got, end, to
  <2>4. \A k \in 1 .. BlockSize : buf[k] = IF a + k <= z THEN con[a + k - 1] ELSE Zero
    <3> TAKE k \in 1 .. BlockSize
    <3>1. (k <= Len(got)) <=> (a + k <= Len(f.data))
      BY <1>2, <1>4, <1>9, <2>2, <2>3, Constants
    <3>2. CASE a + k <= z
      <4>1. a + k - 1 \in Nat /\ a <= a + k - 1
            /\ a + k - 1 < a + BlockSize /\ a + k - 1 < z /\ (a + k - 1) + 1 = a + k
        BY <1>1, <1>2, <3>2, Constants
      <4>2. FileCell(f, a + k - 1) = con[a + k - 1]
        BY <1>8, <4>1
      <4>3. a + k - 1 < Len(f.data) <=> a + k <= Len(f.data)
        BY <1>2, <1>4
      <4>4. CASE a + k <= Len(f.data)
        <5>1. k \in 1 .. (to - a)
          BY <1>2, <1>4, <1>9, <2>2, <4>4, Constants
        <5>2. got[k] = f.data[a + k]
          BY <2>3, <5>1
        <5> QED
          BY <3>1, <3>2, <4>1, <4>2, <4>3, <4>4, <5>2 DEF FileCell
      <4>5. CASE ~(a + k <= Len(f.data))
        BY <3>1, <3>2, <4>2, <4>3, <4>5 DEF FileCell
      <4> QED
        BY <4>4, <4>5
    <3>3. CASE ~(a + k <= z)
      <4>1. ~(a + k <= Len(f.data))
        BY <1>1, <1>2, <1>4, <3>3
      <4> QED
        BY <3>1, <3>3, <4>1
    <3> QED
      BY <3>2, <3>3
  <2>5. buf \in [1 .. BlockSize -> Bytes]
    <3>1. \A k \in 1 .. BlockSize : k <= Len(got) => got[k] \in Bytes
      BY <2>3, Constants
    <3> QED
      BY <3>1, Constants
  <2> HIDE DEF buf
  <2>6. /\ c \in BlockType /\ c.start = a /\ c.end = end /\ c.buf = buf
        /\ c.mstart = Unset /\ c.mend = Unset
    BY <1>6, <1>7, <1>9, <2>5 DEF BlockType
  <2> HIDE DEF c
  <2>7. Fresh(c, con, z, a, p, n)
    <3>1. Buffered(c, con, z)
      BY <2>4, <2>6 DEF Buffered
    <3>2. end <= z /\ end <= Upper(z, p + n)
      BY <1>1, <1>2, <1>4, <1>9 DEF Upper
    <3> QED
      BY <1>9, <1>11, <2>6, <3>1, <3>2 DEF Fresh
  <2>8. /\ g \in FileType /\ g.data = f.data /\ g.size = f.size /\ g.pos = a + Len(got)
    <3>1. a + Len(got) \in Nat
      BY <1>2, <2>3
    <3> QED
      BY <1>3, <3>1 DEF FileType
  <2>9. g.pos <= z
    BY <1>1, <1>2, <1>4, <2>2, <2>3, <2>8
  <2> HIDE DEF g, f, z
  <2>10. ReadFrom(g, st)
    BY <1>3, <1>4, <2>8, <2>9 DEF ReadFrom, z
  <2> QED
    BY <2>1, <2>7, <2>10 DEF Is
<1>12. Is(read.block, read.base)
  BY <1>2, <1>9, <1>10, <1>11
<1> QED
  BY <1>12 DEF Is, n, z, read

\* A piece saved in the block just read; if it extends the stream then the block is
\* taken to be modified from its start to its end.
NewSaved(b, p, data, z) ==
    LET c == Saved(b, p, data)
    IN IF p + Len(data) > z THEN [c EXCEPT !.mstart = c.start, !.mend = c.end] ELSE c

\* The cell that is lost if one or two bytes extend the stream within a block.
Lost(a, p, n, z) ==
    IF p + n <= z \/ n >= 3 \/ p = a THEN Unset ELSE (p + n) - 1

\* The block new of the content written, at a; where it does not cover a cell of the
\* block that is not lost, that was there before.
IsNewSaved(new, con, z, a, p, data) ==
    LET con2 == Patched(con, p, data)
        z2 == Upper(z, p + Len(data))
        lost == Lost(a, p, Len(data), z)
    IN /\ new \in BlockType /\ new.start = a /\ BlockOK(new, con2, z2)
       /\ \A q \in Nat :
             a <= q /\ q < a + BlockSize /\ q < z2 /\ q # lost /\ ~Covers(new, q)
             => con2[q] = IF q < z THEN con[q] ELSE Zero
       /\ p + Len(data) > z =>
             new.mstart # Unset /\ (lost = Unset => (p + Len(data)) - 1 <= new.mend)

\* A piece saved in the block read for it.
LEMMA NewBlockSaved ==
    ASSUME NEW con, NEW z, ContentOf(con, z), NEW a, NEW p \in Nat, NEW data \in Seq(Bytes),
           PieceOK(a, p, data, z), p + Len(data) <= z \/ p = z,
           NEW b, Fresh(b, con, z, a, p, Len(data)),
           NEW new, new = NewSaved(b, p, data, z)
    PROVE  IsNewSaved(new, con, z, a, p, data)
<1> DEFINE c == Saved(b, p, data)
           n == Len(data)
           con2 == Patched(con, p, data)
           z2 == Upper(z, p + n)
           lost == Lost(a, p, n, z)
<1>1. /\ n \in Nat /\ n >= 1 /\ a \in Nat /\ z \in Nat
      /\ z <= Limit /\ Limit \in Nat /\ p + n <= Limit /\ Aligned(a)
      /\ a <= p /\ p <= z /\ p + n <= a + BlockSize /\ BlockSize \in Nat
  BY Constants, AlignedApart, SMTT(30) DEF PieceOK, ContentOf
<1>2. /\ b \in BlockType /\ b.start = a /\ b.mstart = Unset /\ b.mend = Unset
      /\ Buffered(b, con, z) /\ b.end \in Nat
      /\ b.end <= a + BlockSize /\ b.end <= z2
      /\ b.end = p + n \/ (a < b.end /\ b.end <= z)
  BY BlockIs DEF Fresh
<1>z. /\ z2 \in Nat /\ z <= z2 /\ p + n <= z2 /\ z2 = IF p + n > z THEN p + n ELSE z
  BY <1>1 DEF Upper
<1>3. SavedTo(b, c, p, data, n) /\ EndTo(b, c, p, data, n)
  BY <1>1, <1>2, SavedIs
<1> HIDE DEF c, lost
<1>4. /\ BlockOK(c, con2, z2)
      /\ \A q \in Nat :
            b.start <= q /\ q < b.start + BlockSize /\ q < z2 /\ ~Covers(c, q)
            => ~Covers(b, q) /\ con2[q] = IF q < z THEN con[q] ELSE Zero
  <2>1. Marked(b, z) /\ PieceOK(b.start, p, data, z)
    BY <1>2 DEF Marked
  <2> QED
    BY <1>2, <1>3, <2>1, SavedBlock
<1>5. c \in BlockType /\ c.start = a /\ c.end \in Nat
  BY <1>2, <1>3, BlockIs DEF SavedTo
<1>6. CASE p + n <= z
  <2>1. new = c
    BY <1>1, <1>6 DEF NewSaved, c
  <2>2. ~(p + n > z)
    BY <1>1, <1>6
  <2> HIDE DEF n, con2, z2
  <2> QED
    BY <1>2, <1>4, <1>5, <2>1, <2>2 DEF IsNewSaved, n, con2, z2
<1>7. CASE p + n > z
  <2>1. new = [c EXCEPT !.mstart = c.start, !.mend = c.end]
    BY <1>7 DEF NewSaved, c
  <2>2. /\ new \in BlockType /\ new.start = a /\ new.end = c.end /\ new.buf = c.buf
        /\ new.mstart = a /\ new.mend = c.end
    <3> DEFINE e == c.end
    <3>1. a \in Int /\ e \in Int
      BY <1>1, <1>5
    <3>2. new = [c EXCEPT !.mstart = a, !.mend = e]
      BY <1>5, <2>1
    <3> HIDE DEF e
    <3>3. /\ new \in BlockType /\ new.start = c.start /\ new.end = c.end
          /\ new.buf = c.buf /\ new.mstart = a /\ new.mend = e
      BY <1>5, <3>1, <3>2 DEF BlockType
    <3> QED
      BY <1>5, <3>3 DEF e
  <2>3. p = z /\ z2 = p + n
    BY <1>1, <1>z, <1>7
  <2>4. /\ b.end <= c.end /\ c.end <= Upper(b.end, p + n)
        /\ \A k \in 1 .. BlockSize :
              p < a + k /\ a + k < p + n /\ c.end < a + k => data[a + k - p] = b.buf[k]
        /\ n >= 3 /\ b.end <= p =>
              \/ p + n <= c.end
              \/ p + n - 1 <= c.end /\ data[n] = b.buf[p + n - a]
    BY <1>2, <1>3 DEF SavedTo, EndTo
  <2>5. a < c.end
    BY <1>1, <1>2, <1>5, <2>4
  <2>6. BlockOK(new, con2, z2)
    <3>1. c.end <= a + BlockSize /\ c.end <= z2
      BY <1>4, <1>5 DEF BlockOK
    <3>2. Marked(new, z2)
      BY <1>1, <2>2, <2>5, <3>1 DEF Marked
    <3> QED
      BY <1>4, <1>5, <2>2, <3>2 DEF BlockOK
  <2>7. \A k \in 1 .. BlockSize : a + k > z => b.buf[k] = Zero
    BY <1>1, <1>2 DEF Buffered
  <2>8. \A q \in 0 .. Limit - 1 :
           con2[q] = IF p <= q /\ q < p + n THEN data[(q - p) + 1] ELSE con[q]
    BY <1>1, PatchedIs
  <2> HIDE DEF con2
  <2>9. ASSUME NEW q \in Nat, a <= q, q < a + BlockSize, q < z2, q # lost, ~Covers(new, q)
        PROVE  con2[q] = IF q < z THEN con[q] ELSE Zero
    <3>1. c.end <= q
      BY <1>1, <1>5, <2>2, <2>9 DEF Covers
    <3>2. CASE q < z
      <4>1. q \in 0 .. Limit - 1 /\ ~(p <= q)
        BY <1>1, <2>3, <3>2
      <4> QED
        BY <2>8, <3>2, <4>1
    <3>3. CASE ~(q < z)
      <4> DEFINE k == (q - a) + 1
                 m == (q - p) + 1
      <4>1. /\ k \in 1 .. BlockSize /\ a + k = q + 1 /\ m \in 1 .. n /\ a + k - p = m
            /\ q \in 0 .. Limit - 1 /\ p <= q /\ q < p + n
        BY <1>1, <2>3, <2>9, <3>3
      <4>2. con2[q] = data[m]
        BY <2>8, <4>1
      <4>3. b.buf[k] = Zero
        <5>1. a + k > z
          BY <1>1, <3>3, <4>1
        <5> HIDE DEF k
        <5> QED
          BY <2>7, <4>1, <5>1
      <4> HIDE DEF k, m
      <4>4. CASE q + 1 < p + n
        <5>1. p < a + k /\ a + k < p + n /\ c.end < a + k
          BY <1>5, <3>1, <4>1, <4>4
        <5> QED
          BY <2>4, <3>3, <4>1, <4>2, <4>3, <5>1
      <4>5. CASE q + 1 = p + n
        <5>1. lost = Unset
          BY <1>1, <2>9, <4>5 DEF Lost, lost
        <5>2. n >= 3 \/ p = a
          BY <1>1, <1>7, <5>1 DEF Lost, lost, Unset
        <5>3. n >= 3 /\ b.end <= p
          BY <1>1, <1>2, <1>5, <2>3, <2>4, <3>1, <4>5, <5>2
        <5>4. data[n] = b.buf[p + n - a]
          BY <1>1, <1>5, <2>4, <3>1, <4>5, <5>3
        <5>5. p + n - a = k /\ m = n
          BY <1>1, <4>5 DEF k, m
        <5> QED
          BY <3>3, <4>2, <4>3, <5>4, <5>5
      <4>6. q \in Nat /\ p \in Nat /\ n \in Nat /\ q < p + n
        BY <1>1, <4>1
      <4>7. q + 1 < p + n \/ q + 1 = p + n
        BY <4>6
      <4> QED
        BY <4>4, <4>5, <4>7
    <3> QED
      BY <3>2, <3>3
  <2>10. new.mstart # Unset
    BY <1>1, <2>2 DEF Unset
  <2>11. ASSUME lost = Unset PROVE (p + n) - 1 <= new.mend
    <3>1. n >= 3 \/ p = a
      BY <1>1, <1>7, <2>11 DEF Lost, lost, Unset
    <3> QED
      BY <1>1, <1>2, <1>5, <2>2, <2>3, <2>4, <3>1
  <2> HIDE DEF n, z2
  <2> QED
    BY <2>2, <2>6, <2>9, <2>10, <2>11 DEF IsNewSaved, n, con2, z2, lost
<1> QED
  BY <1>1, <1>6, <1>7

\* A piece whose block is read from the file, for which room was made.
NewBlockPut(st, p, data) ==
    LET read == BlockRead(st.base, NewBlock(p, Len(data)))
    IN [base |-> read.base, blocks |-> <<NewSaved(read.block, p, data, st.size)>> \o st.blocks,
        size |-> Upper(st.size, p + Len(data)), count |-> st.count + 1]

\* A piece cached in a new block.
LEMMA PutInNewBlock ==
    ASSUME NEW st, NEW con, Good(st, con), NEW a, NEW p \in Nat, NEW data \in Seq(Bytes),
           PieceOK(a, p, data, st.size), p + Len(data) <= st.size \/ p = st.size,
           Found(st.blocks, p) = {}, Len(st.blocks) + 1 <= Upper(BlockCount - 1, 2)
    PROVE  IsCached(NewBlockPut(st, p, data), st, con, p, data, a)
<1> DEFINE read == BlockRead(st.base, NewBlock(p, Len(data)))
           b == NewSaved(read.block, p, data, st.size)
           new == NewBlockPut(st, p, data)
           n == Len(st.blocks)
           z == st.size
           con2 == Patched(con, p, data)
           z2 == Upper(z, p + Len(data))
           lost == Lost(a, p, Len(data), z)
           g == read.base
           bs == <<b>> \o st.blocks
           seen == [st EXCEPT !.base = g]
<1>n. new = [base |-> read.base, blocks |-> <<b>> \o st.blocks,
             size |-> Upper(st.size, p + Len(data)), count |-> st.count + 1]
  BY DEF NewBlockPut
<1>b. b = NewSaved(read.block, p, data, st.size)
  OBVIOUS
<1>r. read = BlockRead(st.base, NewBlock(p, Len(data)))
  OBVIOUS
<1> HIDE DEF new, b, read, lost
<1>1. /\ st \in StateType /\ n \in Nat /\ st.blocks \in Seq(BlockType)
      /\ DOMAIN st.blocks = 1 .. n /\ \A j \in 1 .. n : st.blocks[j] \in BlockType
      /\ st.base \in FileType /\ z \in Nat /\ st.count \in Nat /\ ContentOf(con, z)
      /\ Sound(st, con)
  BY StateIs DEF Good, Sound
<1>2. ReadFrom(g, st) /\ Fresh(read.block, con, z, a, p, Len(data))
  BY NewBlockIs DEF read
<1> HIDE DEF g
<1>3. Good(seen, con) /\ seen.base = g /\ seen.blocks = st.blocks
      /\ seen.size = z /\ seen.count = st.count
  <2>1. /\ g \in FileType /\ g.data = st.base.data /\ Len(g.data) <= g.size
        /\ g.size <= st.size /\ g.pos <= st.size /\ seen = [st EXCEPT !.base = g]
    BY <1>2 DEF ReadFrom
  <2> HIDE DEF seen
  <2> QED
    BY <2>1, FileGood
<1>4. /\ Aligned(a) /\ a <= p /\ p < a + BlockSize /\ a \in Nat /\ p <= z
      /\ p + Len(data) <= a + BlockSize /\ Len(data) \in Nat /\ Len(data) >= 1
  <2>1. Aligned(a) /\ a <= p /\ p + Len(data) <= a + BlockSize /\ Len(data) >= 1 /\ p <= z
    BY DEF PieceOK
  <2>2. a \in Nat
    BY <2>1, AlignedApart
  <2>3. Len(data) \in Nat
    OBVIOUS
  <2> QED
    BY <2>1, <2>2, <2>3, Constants
<1>5. /\ b \in BlockType /\ b.start = a /\ BlockOK(b, con2, z2)
      /\ \A q \in Nat :
            a <= q /\ q < a + BlockSize /\ q < z2 /\ q # lost /\ ~Covers(b, q)
            => con2[q] = IF q < z THEN con[q] ELSE Zero
      /\ p + Len(data) > z =>
            b.mstart # Unset /\ (lost = Unset => (p + Len(data)) - 1 <= b.mend)
  <2> DEFINE d == read.block
  <2>1. /\ b = NewSaved(d, p, data, z) /\ Fresh(d, con, z, a, p, Len(data))
        /\ ContentOf(con, z) /\ PieceOK(a, p, data, z)
        /\ p + Len(data) <= z \/ p = z
    BY <1>b, <1>1, <1>2
  <2> HIDE DEF d, z
  <2>2. IsNewSaved(b, con, z, a, p, data)
    BY <2>1, NewBlockSaved
  <2> QED
    BY <2>2 DEF IsNewSaved, lost
<1>6. \A j \in 1 .. n : st.blocks[j].start # a
  <2> SUFFICES ASSUME NEW j \in 1 .. n, st.blocks[j].start = a PROVE FALSE
    OBVIOUS
  <2>1. Contains(st.blocks[j], p)
    BY <1>4 DEF Contains
  <2> QED
    BY <1>1, <2>1 DEF Found
<1>7. /\ bs \in Seq(BlockType) /\ Len(bs) = n + 1 /\ DOMAIN bs = 1 .. (n + 1)
      /\ bs[1] = b /\ \A j \in 1 .. n : bs[j + 1] = st.blocks[j]
  <2>1. <<b>> \in Seq(BlockType) /\ Len(<<b>>) = 1
    BY <1>5
  <2>2. /\ bs \in Seq(BlockType) /\ Len(bs) = 1 + n
        /\ \A j \in 1 .. (1 + n) : bs[j] = IF j <= 1 THEN <<b>>[j] ELSE st.blocks[j - 1]
    BY <1>1, <2>1, ConcatProperties
  <2> HIDE DEF bs
  <2>3. \A j \in 1 .. n : bs[j + 1] = st.blocks[j]
    <3> TAKE j \in 1 .. n
    <3>1. j + 1 \in 1 .. (1 + n) /\ ~(j + 1 <= 1) /\ (j + 1) - 1 = j
      BY <1>1
    <3> QED
      BY <2>2, <3>1
  <2>4. bs[1] = b
    BY <1>1, <2>2, SMTT(30)
  <2>5. 1 + n = n + 1
    BY <1>1
  <2>6. Len(bs) = n + 1 /\ bs \in Seq(BlockType)
    BY <2>2, <2>5
  <2>7. DOMAIN bs = 1 .. (n + 1)
    BY <2>6
  <2> QED
    BY <2>3, <2>4, <2>6, <2>7
<1>8. z2 \in Nat
  <2>1. Len(data) \in Nat
    OBVIOUS
  <2> QED
    BY <1>1, <2>1 DEF Upper
<1>9. new = [base |-> g, blocks |-> bs, size |-> z2, count |-> st.count + 1]
  BY <1>n DEF g
<1> HIDE DEF bs, z2, con2, n, z, seen
<1>10. /\ new \in StateType /\ new.blocks = bs /\ new.base = g
       /\ new.size = z2 /\ new.count = st.count + 1
  <2>1. g \in FileType /\ bs \in Seq(BlockType) /\ z2 \in Nat /\ st.count + 1 \in Nat
    BY <1>1, <1>2, <1>7, <1>8 DEF ReadFrom
  <2> DEFINE m == st.count + 1
  <2>2. new = [base |-> g, blocks |-> bs, size |-> z2, count |-> m] /\ m \in Nat
    BY <1>9, <2>1
  <2> HIDE DEF m
  <2>3. new.blocks = bs /\ new.base = g /\ new.size = z2 /\ new.count = m
    BY <2>2
  <2>4. new \in StateType
    <3>1. [base |-> g, blocks |-> bs, size |-> z2, count |-> m] \in StateType
      BY <2>1, <2>2, StateMade
    <3> QED
      BY <2>2, <3>1
  <2> QED
    BY <2>3, <2>4 DEF m
<1>11. Bounded(new)
  <2>1. n <= st.count
    BY <1>1 DEF Sound, Bounded, n
  <2>2. n + 1 <= Upper(BlockCount - 1, 2)
    BY DEF n
  <2> QED
    BY <1>1, <1>7, <1>10, <2>1, <2>2 DEF Bounded
<1>12. \A j \in 1 .. (n + 1) : j = 1 \/ \E k \in 1 .. n : j = k + 1
  <2> TAKE j \in 1 .. (n + 1)
  <2>1. j = 1 \/ (j - 1 \in 1 .. n /\ j = (j - 1) + 1)
    BY <1>1
  <2> QED
    BY <2>1
<1>13. Apart(new.blocks)
  <2>1. \A j, k \in 1 .. n : st.blocks[j].start = st.blocks[k].start => j = k
    BY <1>1 DEF Sound, Apart
  <2>2. ASSUME NEW j \in 1 .. (n + 1), NEW k \in 1 .. (n + 1), bs[j].start = bs[k].start
        PROVE  j = k
    <3>1. ASSUME NEW i \in 1 .. n PROVE bs[i + 1].start = st.blocks[i].start /\ bs[i + 1].start # a
      BY <1>7, <1>6
    <3>2. bs[1].start = a
      BY <1>5, <1>7
    <3>3. CASE j = 1 /\ k = 1
      BY <3>3
    <3>4. CASE j = 1 /\ k # 1
      BY <1>12, <2>2, <3>1, <3>2, <3>4
    <3>5. CASE j # 1 /\ k = 1
      BY <1>12, <2>2, <3>1, <3>2, <3>5
    <3>6. CASE j # 1 /\ k # 1
      <4>1. PICK i \in 1 .. n : j = i + 1
        BY <1>12, <3>6
      <4>2. PICK l \in 1 .. n : k = l + 1
        BY <1>12, <3>6
      <4> QED
        BY <2>1, <2>2, <3>1, <4>1, <4>2
    <3> QED
      BY <3>3, <3>4, <3>5, <3>6
  <2> QED
    BY <1>7, <1>10, <2>2 DEF Apart
<1>14. Replaced(seen.blocks, new.blocks, a, b)
  <2>1. \A j \in DOMAIN bs : \/ bs[j] = b
                             \/ \E i \in DOMAIN st.blocks :
                                   bs[j] = st.blocks[i] /\ st.blocks[i].start # a
    <3> TAKE j \in DOMAIN bs
    <3>1. CASE j = 1
      BY <1>7, <3>1
    <3>2. CASE j # 1
      <4>1. PICK k \in 1 .. n : j = k + 1
        BY <1>7, <1>12, <3>2
      <4>2. k \in DOMAIN st.blocks /\ bs[j] = st.blocks[k] /\ st.blocks[k].start # a
        BY <1>1, <1>7, <1>6, <4>1
      <4> QED
        BY <4>2
    <3> QED
      BY <3>1, <3>2
  <2>2. 1 \in DOMAIN bs /\ bs[1] = b
    BY <1>1, <1>7
  <2>3. \A i \in DOMAIN st.blocks : \E j \in DOMAIN bs : bs[j] = st.blocks[i]
    <3> TAKE i \in DOMAIN st.blocks
    <3>1. i + 1 \in DOMAIN bs /\ bs[i + 1] = st.blocks[i]
      <4>1. i \in 1 .. n /\ n \in Nat
        BY <1>1
      <4>2. i + 1 \in 1 .. (n + 1)
        BY <4>1
      <4> QED
        BY <1>7, <4>1, <4>2
    <3> QED
      BY <3>1
  <2> QED
    <3>1. seen.blocks = st.blocks /\ new.blocks = bs
      BY <1>3, <1>10
    <3>2. Replaced(st.blocks, bs, a, b)
      BY <2>1, <2>2, <2>3, ZenonT(30) DEF Replaced
    <3> QED
      BY <3>1, <3>2
<1>15. Uncovers(seen, con, a, b, con2, z2, lost)
  <2>1. \A i \in DOMAIN seen.blocks : seen.blocks[i].start # a
    BY <1>1, <1>3, <1>6
  <2> QED
    BY <1>3, <1>5, <2>1 DEF Uncovers
<1>16. Takes(seen, new, a, b, z2)
  BY <1>3, <1>10, <1>11, <1>13, <1>14 DEF Takes
<1>17. Carried(seen, con, new, con2, a, lost)
  <2>1. PieceOK(a, p, data, seen.size) /\ Sound(seen, con)
    BY <1>3 DEF Good, z
  <2>2. con2 = Patched(con, p, data) /\ z2 = Upper(seen.size, p + Len(data))
    BY <1>3 DEF con2, z2
  <2> QED
    BY <1>5, <1>15, <1>16, <2>1, <2>2, CachedSound
<1>18. new.blocks # << >> /\ new.blocks[1] = b
  <2>1. 1 \in 1 .. (n + 1)
    BY <1>1
  <2> QED
    BY <1>7, <1>10, <2>1
<1>19. /\ Reached(new, a) /\ lost = Unset => Good(new, con2)
       /\ /\ p = z /\ p + Len(data) < a + BlockSize
          /\ lost = Unset \/ (lost = new.size - 1 /\ b.mstart # Unset)
          => Pending(new, con2)
  <2>1. PieceOK(a, p, data, seen.size) /\ new.size = Upper(seen.size, p + Len(data))
    BY <1>3, <1>10 DEF z, z2
  <2>2. new.blocks # << >> /\ new.blocks[1].start = a
    BY <1>5, <1>18
  <2>3. Stands(new, con2, seen.size, a, p, data, lost)
    BY <1>3, <1>17, <2>1, <2>2, CachedIs
  <2> QED
    BY <1>3, <1>18, <2>3 DEF Stands
<1>20. lost = Unset => Reached(new, a)
  <2> SUFFICES ASSUME lost = Unset PROVE Reached(new, a)
    OBVIOUS
  <2>1. CASE p + Len(data) > z
    <3>1. z2 = p + Len(data) /\ Lower(a + BlockSize, z2) = p + Len(data)
      BY <1>1, <1>4, <2>1, Constants DEF Upper, Lower, z2
    <3>2. (p + Len(data)) - 1 <= b.mend /\ b.start = a
      BY <1>5, <2>1
    <3>3. 1 \in DOMAIN new.blocks
      BY <1>1, <1>7, <1>10
    <3> QED
      BY <1>10, <1>18, <3>1, <3>2, <3>3 DEF Reached
  <2>2. CASE ~(p + Len(data) > z)
    <3>1. z2 = z /\ a < z
      BY <1>1, <1>4, <2>2 DEF Upper, z2
    <3>2. Lower(a + BlockSize, z) - 1 <= Len(st.base.data)
      BY <1>4, <3>1, Uncached DEF z
    <3>3. g.data = st.base.data
      BY <1>2 DEF ReadFrom
    <3> QED
      BY <1>10, <3>1, <3>2, <3>3 DEF Reached
  <2> QED
    BY <2>1, <2>2
<1>21. p + Len(data) <= z \/ Len(data) >= 3 \/ p = a => Good(new, con2)
  BY <1>19, <1>20 DEF Lost, lost
<1>22. p = z /\ p + Len(data) < a + BlockSize => Pending(new, con2)
  <2> SUFFICES ASSUME p = z, p + Len(data) < a + BlockSize PROVE Pending(new, con2)
    OBVIOUS
  <2>1. p + Len(data) > z /\ new.size = p + Len(data)
    BY <1>1, <1>4, <1>10 DEF Upper, z2
  <2>2. lost = Unset \/ (lost = new.size - 1 /\ b.mstart # Unset)
    BY <1>5, <2>1 DEF Lost, lost
  <2> QED
    BY <1>19, <2>2
<1>23. FileFollows(st.base, new.base, con, con)
  BY <1>1, <1>2, <1>10, FollowsSame DEF ReadFrom
<1>24. /\ new.size = Upper(st.size, p + Len(data))
       /\ new.count \in Nat /\ new.count <= st.count + 1
       /\ new.blocks # << >> /\ new.blocks[1].start = a
  BY <1>1, <1>5, <1>10, <1>18 DEF z2, z
<1>25. new \in StateType /\ con2 = Patched(con, p, data) /\ z = st.size
  BY <1>10 DEF con2, z
<1> QED
  BY <1>21, <1>22, <1>23, <1>24, <1>25 DEF IsCached, new

\* A piece, whether its block is cached or not.
LEMMA ToCacheIs ==
    ASSUME NEW st, NEW con, Good(st, con), NEW a, NEW p \in Nat, NEW data \in Seq(Bytes),
           PieceOK(a, p, data, st.size), p + Len(data) <= st.size \/ p = st.size
    PROVE  IsCached(ToCache(st, p, data), st, con, p, data, a)
<1> DEFINE n == Len(data)
           new == ToCache(st, p, data)
           con2 == Patched(con, p, data)
<1>1. st \in StateType /\ st.base \in FileType /\ st.count \in Nat
  BY StateIs DEF Good, Sound
<1>2. CASE Found(st.blocks, p) # {}
  <2> DEFINE i == CHOOSE j \in Found(st.blocks, p) : TRUE
             put == BlockPut(st, i, p, data)
  <2>1. i \in Found(st.blocks, p)
    BY <1>2
  <2>2. i \in DOMAIN st.blocks /\ Contains(st.blocks[i], p)
    BY <2>1 DEF Found
  <2>3. new = put
    BY <1>2 DEF ToCache, BlockPut
  <2> HIDE DEF i
  <2>4. IsCached(put, st, con, p, data, a)
    BY <2>2, FoundPut
  <2> HIDE DEF put, new
  <2> QED
    BY <2>3, <2>4 DEF new
<1>3. CASE Found(st.blocks, p) = {}
  <2> DEFINE room == Dropped(st)
             put == NewBlockPut(room, p, data)
  <2>1. /\ Good(room, con) /\ room.size = st.size /\ room.count \in 0 .. st.count
        /\ FileFollows(st.base, room.base, con, con)
        /\ Len(room.blocks) + 1 <= Upper(BlockCount - 1, 2)
        /\ \A i \in DOMAIN room.blocks :
              i \in DOMAIN st.blocks /\ room.blocks[i] = st.blocks[i]
    BY DroppedIs
  <2>2. new = put
    BY <1>3 DEF ToCache, NewBlockPut, NewSaved
  <2> HIDE DEF room
  <2>3. Found(room.blocks, p) = {}
    BY <1>3, <2>1 DEF Found
  <2>4. PieceOK(a, p, data, room.size) /\ (p + Len(data) <= room.size \/ p = room.size)
    BY <2>1
  <2>5. IsCached(put, room, con, p, data, a)
    BY <2>1, <2>3, <2>4, PutInNewBlock
  <2> HIDE DEF put, new
  <2>6. /\ put \in StateType /\ put.size = Upper(room.size, p + n) /\ put.count \in Nat
        /\ put.count <= room.count + 1 /\ FileFollows(room.base, put.base, con, con)
        /\ put.blocks # << >> /\ put.blocks[1].start = a
        /\ p + n <= room.size \/ n >= 3 \/ p = a => Good(put, con2)
        /\ p = room.size /\ p + n < a + BlockSize => Pending(put, con2)
    BY <2>5 DEF IsCached
  <2>7. put.base \in FileType /\ room.base \in FileType
    BY <2>1, <2>6, StateIs DEF Good, Sound
  <2>8. FileFollows(st.base, put.base, con, con)
    BY <1>1, <2>1, <2>6, <2>7, FollowsOn
  <2>9. put.count <= st.count + 1
    BY <1>1, <2>1, <2>6
  <2> HIDE DEF con2, n
  <2> QED
    BY <2>1, <2>2, <2>6, <2>8, <2>9 DEF IsCached, new, con2, n
<1> QED
  BY <1>2, <1>3
\* Between other contents, each cell of the one being a cell of one of the others.
LEMMA FollowsWider ==
    ASSUME NEW f \in FileType, NEW g \in FileType, Len(g.data) <= Limit,
           NEW c, NEW d, NEW old, NEW new, FileFollows(f, g, c, d),
           \A q \in 0 .. Limit - 1 : c[q] \in {old[q], new[q]} /\ d[q] \in {old[q], new[q]}
    PROVE  FileFollows(f, g, old, new)
<1>1. Len(g.data) \in Nat /\ Limit \in Nat
  BY Constants DEF FileType
<1>2. \A q \in 0 .. Len(g.data) - 1 : q \in 0 .. Limit - 1
  BY <1>1
<1> QED
  BY <1>2 DEF FileFollows

\* The recursion of Put, up to the piece m.
PutNext(s, p, data, k) ==
    ToCache(s, PieceFrom(p, k),
            SubSeq(data, PieceFrom(p, k) - p + 1, PieceTo(p, Len(data), k) - p))

IsPut(s, st, p, data, m) ==
    s = [k \in 0 .. m |-> IF k = 0 THEN st ELSE PutNext(s[k - 1], p, data, k)]

\* The recursion of Put, as a function that is there.
LEMMA PutThere == ASSUME NEW st, NEW p, NEW data, NEW n \in Nat PROVE \E s : IsPut(s, st, p, data, n)
<1> DEFINE none == st
           G == {m \in Nat : \E s : IsPut(s, st, p, data, m)}
<1>1. 0 \in G
  <2> DEFINE s == [k \in 0 .. 0 |-> none]
  <2>1. s = [k \in 0 .. 0 |-> IF k = 0 THEN none ELSE PutNext(s[k - 1], p, data, k)]
    OBVIOUS
  <2> QED
    BY <2>1 DEF IsPut
<1>2. ASSUME NEW m \in 0..(n - 1), m \in G PROVE m + 1 \in G
  <2>1. PICK s : IsPut(s, st, p, data, m)
    BY <1>2
  <2> HIDE DEF none
  <2> DEFINE e == PutNext(s[m], p, data, m + 1)
             t == [k \in 0 .. (m + 1) |-> IF k = m + 1 THEN e ELSE s[k]]
  <2>2. \A k \in 0 .. m : s[k] = IF k = 0 THEN none ELSE PutNext(s[k - 1], p, data, k)
    BY <2>1 DEF IsPut, none
  <2>3. ASSUME NEW k \in 0 .. (m + 1)
        PROVE  t[k] = IF k = 0 THEN none ELSE PutNext(t[k - 1], p, data, k)
    <3>1. CASE k = m + 1
      <4>1. k # 0 /\ k - 1 = m /\ k - 1 \in 0 .. (m + 1) /\ k - 1 # m + 1
        BY <3>1
      <4> QED
        BY <3>1, <4>1
    <3>2. CASE k # m + 1 /\ k # 0
      <4>1. k \in 0 .. m /\ k - 1 \in 0 .. (m + 1) /\ k - 1 # m + 1
        BY <3>2
      <4>2. t[k] = s[k] /\ t[k - 1] = s[k - 1]
        BY <3>2, <4>1
      <4> HIDE DEF t
      <4> QED
        BY <2>2, <3>2, <4>1, <4>2
    <3>3. CASE k = 0
      BY <2>2, <3>3
    <3> QED
      BY <3>1, <3>2, <3>3
  <2>4. t = [k \in 0 .. (m + 1) |-> t[k]]
    OBVIOUS
  <2> HIDE DEF t
  <2>5. IsPut(t, st, p, data, m + 1)
    BY <2>3, <2>4 DEF IsPut, none
  <2> QED
    BY <2>5
<1> HIDE DEF G
<1>3. \A m \in 0..n : m \in G
  BY <1>1, <1>2, UpTo
<1> QED
  BY <1>3 DEF G

\* Functions that agree everywhere are the same.
LEMMA SameFunction ==
    ASSUME NEW D, NEW R, NEW f \in [D -> R], NEW g \in [D -> R], \A q \in D : f[q] = g[q]
    PROVE  f = g
OBVIOUS

\* A part of the data.
LEMMA Part ==
    ASSUME NEW data \in Seq(Bytes), NEW lo \in Nat, NEW hi \in Nat, lo <= hi, hi <= Len(data)
    PROVE  /\ SubSeq(data, lo + 1, hi) \in Seq(Bytes)
           /\ Len(SubSeq(data, lo + 1, hi)) = hi - lo
           /\ \A i \in 1 .. (hi - lo) : SubSeq(data, lo + 1, hi)[i] = data[lo + i]
<1> DEFINE s == SubSeq(data, lo + 1, hi)
<1>1. \A i \in (lo + 1) .. hi : data[i] \in Bytes
  OBVIOUS
<1>2. /\ s \in Seq(Bytes) /\ Len(s) = IF lo + 1 <= hi THEN hi - (lo + 1) + 1 ELSE 0
      /\ \A i \in 1 .. (hi - (lo + 1) + 1) : s[i] = data[(lo + 1) + i - 1]
  <2>1. lo + 1 \in Int /\ hi \in Int
    OBVIOUS
  <2> QED
    BY <1>1, <2>1, SubSeqProperties
<1> HIDE DEF s
<1>3. Len(s) = hi - lo
  BY <1>2
<1>4. \A i \in 1 .. (hi - lo) : s[i] = data[lo + i]
  BY <1>2
<1> QED
  BY <1>2, <1>3, <1>4 DEF s

\* The first m bytes of the data, written at p.
Begun(con, p, data, m) == Patched(con, p, SubSeq(data, 1, m))

\* The content once the first m bytes are written.
LEMMA BegunIs ==
    ASSUME NEW con, NEW z, ContentOf(con, z), NEW p \in Nat, p <= z,
           NEW data \in Seq(Bytes), p + Len(data) <= Limit, NEW m \in 0 .. Len(data)
    PROVE  /\ ContentOf(Begun(con, p, data, m), Upper(z, p + m))
           /\ Begun(con, p, data, m) \in [0 .. Limit - 1 -> Bytes \union {Beyond}]
           /\ \A q \in 0 .. Limit - 1 :
                 Begun(con, p, data, m)[q] = IF p <= q /\ q < p + m
                                             THEN data[(q - p) + 1] ELSE con[q]
<1> DEFINE s == SubSeq(data, 1, m)
<1>1. Limit \in Nat /\ m \in Nat /\ m <= Len(data) /\ Len(data) \in Nat
  BY Constants
<1>2. s \in Seq(Bytes) /\ Len(s) = m /\ \A i \in 1 .. m : s[i] = data[i]
  <2>1. /\ SubSeq(data, 0 + 1, m) \in Seq(Bytes) /\ Len(SubSeq(data, 0 + 1, m)) = m - 0
        /\ \A i \in 1 .. (m - 0) : SubSeq(data, 0 + 1, m)[i] = data[0 + i]
    BY <1>1, Part
  <2>2. 0 + 1 = 1 /\ m - 0 = m /\ \A i \in 1 .. m : 0 + i = i
    BY <1>1
  <2> QED
    BY <2>1, <2>2
<1> HIDE DEF s
<1>3. p + Len(s) <= Limit
  BY <1>1, <1>2
<1>4. /\ ContentOf(Patched(con, p, s), Upper(z, p + Len(s)))
      /\ \A q \in 0 .. Limit - 1 :
            Patched(con, p, s)[q] = IF p <= q /\ q < p + Len(s) THEN s[(q - p) + 1] ELSE con[q]
  BY <1>2, <1>3, PatchedIs
<1> DEFINE new == Patched(con, p, s)
<1>5. new = Begun(con, p, data, m)
  BY DEF Begun, s
<1> HIDE DEF new
<1>6. \A q \in 0 .. Limit - 1 :
         new[q] = IF p <= q /\ q < p + m THEN data[(q - p) + 1] ELSE con[q]
  <2> TAKE q \in 0 .. Limit - 1
  <2>1. p <= q /\ q < p + m => (q - p) + 1 \in 1 .. m
    BY <1>1
  <2>2. new[q] = IF p <= q /\ q < p + m THEN s[(q - p) + 1] ELSE con[q]
    BY <1>2, <1>4 DEF new
  <2> QED
    BY <1>2, <2>1, <2>2
<1>7. ContentOf(new, Upper(z, p + m))
  BY <1>2, <1>4 DEF new
<1> QED
  BY <1>5, <1>6, <1>7 DEF ContentOf

\* Some more bytes are written after the first.
LEMMA BegunOn ==
    ASSUME NEW con, NEW z, ContentOf(con, z), NEW p \in Nat, p <= z,
           NEW data \in Seq(Bytes), p + Len(data) <= Limit,
           NEW m \in 0 .. Len(data), NEW k \in m .. Len(data)
    PROVE  Patched(Begun(con, p, data, m), p + m, SubSeq(data, m + 1, k))
              = Begun(con, p, data, k)
<1> DEFINE c == Begun(con, p, data, m)
           y == Upper(z, p + m)
           d == Begun(con, p, data, k)
           s == SubSeq(data, m + 1, k)
           e == Patched(c, p + m, s)
<1>1. /\ m \in Nat /\ k \in Nat /\ m <= k /\ k <= Len(data) /\ Len(data) \in Nat
      /\ Limit \in Nat /\ p + m \in Nat /\ k \in 0 .. Len(data)
  BY Constants
<1>2. /\ ContentOf(c, y) /\ d \in [0 .. Limit - 1 -> Bytes \union {Beyond}]
      /\ \A q \in 0 .. Limit - 1 :
            /\ c[q] = IF p <= q /\ q < p + m THEN data[(q - p) + 1] ELSE con[q]
            /\ d[q] = IF p <= q /\ q < p + k THEN data[(q - p) + 1] ELSE con[q]
  BY <1>1, BegunIs
<1>3. s \in Seq(Bytes) /\ Len(s) = k - m /\ \A i \in 1 .. (k - m) : s[i] = data[m + i]
  BY <1>1, Part
<1>4. p + m <= y
  <2>1. z \in Nat
    BY DEF ContentOf
  <2> QED
    BY <1>1, <2>1 DEF Upper
<1> HIDE DEF c, d, s, y
<1>5. (p + m) + Len(s) <= Limit
  BY <1>1, <1>3
<1>6. /\ ContentOf(e, Upper(y, (p + m) + Len(s)))
      /\ \A q \in 0 .. Limit - 1 :
            e[q] = IF p + m <= q /\ q < (p + m) + Len(s) THEN s[(q - (p + m)) + 1] ELSE c[q]
  <2> DEFINE l == p + m
             t == Patched(c, l, s)
  <2>1. /\ ContentOf(c, y) /\ l \in Nat /\ l <= y /\ s \in Seq(Bytes)
        /\ l + Len(s) <= Limit /\ e = t
    BY <1>1, <1>2, <1>3, <1>4, <1>5
  <2> HIDE DEF l, e
  <2>2. /\ ContentOf(t, Upper(y, l + Len(s)))
        /\ \A q \in 0 .. Limit - 1 :
              t[q] = IF l <= q /\ q < l + Len(s) THEN s[(q - l) + 1] ELSE c[q]
    BY <2>1, PatchedIs
  <2> HIDE DEF t
  <2> QED
    BY <2>1, <2>2 DEF l
<1>7. e \in [0 .. Limit - 1 -> Bytes \union {Beyond}]
  BY <1>6 DEF ContentOf
<1> HIDE DEF e
<1>8. ASSUME NEW q \in 0 .. Limit - 1 PROVE e[q] = d[q]
  <2>1. (p + m) + Len(s) = p + k
    BY <1>1, <1>3
  <2>2. CASE p + m <= q /\ q < p + k
    <3>1. (q - (p + m)) + 1 \in 1 .. (k - m) /\ m + ((q - (p + m)) + 1) = (q - p) + 1
      BY <1>1, <2>2
    <3>2. e[q] = data[(q - p) + 1]
      BY <1>3, <1>6, <2>1, <2>2, <3>1
    <3>3. p <= q
      BY <1>1, <2>2
    <3> QED
      BY <1>2, <2>2, <3>2, <3>3
  <2>3. CASE ~(p + m <= q /\ q < p + k)
    <3>1. e[q] = c[q]
      BY <1>6, <2>1, <2>3
    <3>2. (p <= q /\ q < p + m) <=> (p <= q /\ q < p + k)
      BY <1>1, <2>3
    <3> QED
      BY <1>2, <3>1, <3>2
  <2> QED
    BY <2>2, <2>3
<1>9. e = d
  <2> DEFINE D == 0 .. Limit - 1
             R == Bytes \union {Beyond}
  <2>1. e \in [D -> R]
    BY <1>7
  <2>2. d \in [D -> R]
    BY <1>2
  <2>3. \A q \in D : e[q] = d[q]
    BY <1>8
  <2> HIDE DEF D, R
  <2> QED
    BY <2>1, <2>2, <2>3, SameFunction
<1> QED
  BY <1>9 DEF c, d, e, s
\* How much of the data the first k pieces hold.
PutTo(p, n, k) == IF k = 0 THEN 0 ELSE PieceTo(p, n, k) - p

\* The pieces follow each other through the data.
LEMMA PutToIs ==
    ASSUME NEW p \in Nat, NEW n \in Nat, NEW k \in 0 .. PieceCount(p, n)
    PROVE  /\ PutTo(p, n, k) \in 0 .. n /\ k <= PutTo(p, n, k)
           /\ k = PieceCount(p, n) => PutTo(p, n, k) = n
           /\ k < PieceCount(p, n) =>
                 /\ PieceFrom(p, k + 1) = p + PutTo(p, n, k)
                 /\ PieceTo(p, n, k + 1) = p + PutTo(p, n, k + 1)
                 /\ PutTo(p, n, k + 1) \in 0 .. n
                 /\ PutTo(p, n, k) < PutTo(p, n, k + 1)
                 /\ \E a : /\ Aligned(a) /\ a <= p + PutTo(p, n, k)
                           /\ p + PutTo(p, n, k + 1) <= a + BlockSize
                 /\ k # 0 => Aligned(p + PutTo(p, n, k))
<1> DEFINE c == PieceCount(p, n)
           x == PutTo(p, n, k)
           y == PutTo(p, n, k + 1)
<1>1. c \in Nat /\ k \in Nat /\ (n # 0 => c >= 1) /\ k <= c /\ (n = 0 => c = 0)
  BY PieceCountIs
<1>2. x \in 0 .. n /\ k <= x /\ (k = c => x = n)
  <2>1. CASE k = 0
    <3>1. x = 0
      BY <2>1 DEF PutTo
    <3> HIDE DEF x, c
    <3> QED
      BY <1>1, <2>1, <3>1
  <2>2. CASE k # 0
    <3>1. k \in 1 .. PieceCount(p, n)
      BY <1>1, <2>2
    <3>2. /\ PieceFrom(p, k) \in Nat /\ PieceTo(p, n, k) \in Nat
          /\ p <= PieceFrom(p, k) /\ PieceFrom(p, k) < PieceTo(p, n, k)
          /\ PieceTo(p, n, k) <= p + n /\ k <= PieceTo(p, n, k) - p
          /\ k = PieceCount(p, n) => PieceTo(p, n, k) = p + n
      BY <3>1, PieceIs
    <3>3. x = PieceTo(p, n, k) - p
      BY <2>2 DEF PutTo
    <3> HIDE DEF x
    <3> QED
      BY <1>1, <3>2, <3>3
  <2> QED
    BY <2>1, <2>2
<1>3. ASSUME k < c
      PROVE  /\ PieceFrom(p, k + 1) = p + x /\ PieceTo(p, n, k + 1) = p + y
             /\ y \in 0 .. n /\ x < y
             /\ \E a : Aligned(a) /\ a <= p + x /\ p + y <= a + BlockSize
  <2> DEFINE from == PieceFrom(p, k + 1)
             to == PieceTo(p, n, k + 1)
  <2>1. k + 1 \in 1 .. PieceCount(p, n) /\ k + 1 # 0
    BY <1>1, <1>3
  <2>2. /\ from \in Nat /\ to \in Nat /\ p <= from /\ from < to /\ to <= p + n
        /\ \E a : Aligned(a) /\ a <= from /\ to <= a + BlockSize
        /\ k + 1 = 1 => from = p
    BY <2>1, PieceIs
  <2>3. y = to - p
    BY <2>1 DEF PutTo
  <2>4. x = from - p
    <3>1. CASE k = 0
      <4>1. x = 0 /\ from = p
        BY <2>2, <3>1 DEF PutTo
      <4> QED
        BY <4>1
    <3>2. CASE k # 0
      <4>1. k \in 1 .. PieceCount(p, n) /\ k < PieceCount(p, n)
        BY <1>1, <1>3, <3>2
      <4>2. from = PieceTo(p, n, k)
        BY <4>1, PieceIs
      <4> QED
        BY <3>2, <4>2 DEF PutTo
    <3> QED
      BY <3>1, <3>2
  <2> HIDE DEF from, to, x, y
  <2>5. from = p + x /\ to = p + y /\ y \in 0 .. n /\ x < y
    BY <2>2, <2>3, <2>4
  <2> QED
    BY <2>2, <2>5 DEF from, to
<1>4. ASSUME k < c, k # 0 PROVE Aligned(p + x)
  <2>1. PieceFrom(p, k + 1) = p + x
    BY <1>3, <1>4
  <2>2. k + 1 # 1 /\ p \div BlockSize \in Nat
    BY <1>1, <1>4, BlockOf
  <2> DEFINE d == p \div BlockSize
             e == (d + (k + 1)) - 1
  <2>3. e \in Nat /\ d + (k + 1) - 1 = e
    BY <1>1, <2>2
  <2>4. PieceFrom(p, k + 1) = e * BlockSize
    <3> HIDE DEF e
    <3> QED
      BY <2>2, <2>3 DEF PieceFrom
  <2> HIDE DEF d, e, x
  <2> QED
    BY <2>1, <2>3, <2>4, Zenon DEF Aligned
<1> QED
  BY <1>2, <1>3, <1>4

\* A write at a sector's start: its first piece holds all of it, or the sector.
LEMMA FirstPiece ==
    ASSUME NEW p \in Nat, p % SectorSize = 0, NEW n \in Nat, n >= 1
    PROVE  PutTo(p, n, 1) \in 1 .. n /\ (PutTo(p, n, 1) = n \/ PutTo(p, n, 1) >= 3)
<1> DEFINE d == p \div BlockSize
           f == p \div SectorSize
           e == BlockSize \div SectorSize
           end == (d + 1) * BlockSize
<1>1. /\ SectorSize \in Nat /\ SectorSize >= 3 /\ BlockSize \in Nat /\ BlockSize >= 1
      /\ BlockSize % SectorSize = 0
  BY BlockWriteStreamAssumption
<1>2. d \in Nat /\ d * BlockSize <= p /\ p < d * BlockSize + BlockSize
  BY BlockOf
<1>3. f \in Nat /\ e \in Nat /\ p = f * SectorSize /\ BlockSize = e * SectorSize
  BY <1>1
<1> HIDE DEF d, f, e
<1>4. end \in Nat /\ p < end /\ end = ((d + 1) * e) * SectorSize /\ (d + 1) * e \in Nat
  <2>1. end = d * BlockSize + BlockSize /\ end \in Nat
    BY <1>1, <1>2
  <2>2. (d + 1) * e \in Nat
    BY <1>2, <1>3
  <2>3. (d + 1) * (e * SectorSize) = ((d + 1) * e) * SectorSize
    BY <1>1, <1>2, <1>3
  <2> QED
    BY <1>2, <1>3, <2>1, <2>2, <2>3
<1> DEFINE g == (d + 1) * e
<1> HIDE DEF end, g
<1>5. end - p >= SectorSize
  <2>1. g \in Nat /\ end = g * SectorSize
    BY <1>4 DEF g
  <2>2. f < g
    <3>1. CASE g <= f
      <4>1. g * SectorSize <= f * SectorSize
        BY <1>1, <1>3, <2>1, <3>1
      <4> QED
        BY <1>3, <1>4, <2>1, <4>1
    <3> QED
      BY <1>3, <2>1, <3>1
  <2>3. (f + 1) * SectorSize <= g * SectorSize /\ (f + 1) * SectorSize = f * SectorSize + SectorSize
    BY <1>1, <1>3, <2>1, <2>2
  <2> QED
    BY <1>1, <1>3, <1>4, <2>1, <2>3
<1>6. PutTo(p, n, 1) = Lower(p + n, end) - p
  BY DEF PutTo, PieceTo, end, d
<1> QED
  BY <1>1, <1>4, <1>5, <1>6 DEF Lower

\* In a write of data at p that is to be cached, the piece after the first k, in the
\* block at a, which begins with it unless it is the first.
IsPiece(p, data, k, a, piece) ==
    LET n == Len(data)
        x == PutTo(p, n, k)
        y == PutTo(p, n, k + 1)
    IN /\ Aligned(a) /\ a <= p + x /\ p + y <= a + BlockSize
       /\ x \in 0 .. n /\ y \in 0 .. n /\ x < y
       /\ k # 0 => p + x = a
       /\ piece \in Seq(Bytes) /\ Len(piece) = y - x
       /\ \A i \in 1 .. (y - x) : piece[i] = data[x + i]
       /\ piece = SubSeq(data, x + 1, y)

\* It is what Put goes on with.
GoesOn(s, p, data, k) ==
    \E a, piece :
        /\ IsPiece(p, data, k, a, piece)
        /\ PutNext(s, p, data, k + 1) = ToCache(s, p + PutTo(p, Len(data), k), piece)

LEMMA PieceThere ==
    ASSUME NEW p \in Nat, NEW data \in Seq(Bytes), NEW k \in Nat, k < PieceCount(p, Len(data)),
           NEW s
    PROVE  GoesOn(s, p, data, k)
<1> DEFINE n == Len(data)
           x == PutTo(p, n, k)
           y == PutTo(p, n, k + 1)
           piece == SubSeq(data, x + 1, y)
<1>1. n \in Nat /\ BlockSize \in Nat /\ BlockSize >= 1
  BY Constants
<1>2. /\ x \in 0 .. n /\ y \in 0 .. n /\ x < y
      /\ PieceFrom(p, k + 1) = p + x /\ PieceTo(p, n, k + 1) = p + y
      /\ \E a : Aligned(a) /\ a <= p + x /\ p + y <= a + BlockSize
      /\ k # 0 => Aligned(p + x)
  <2>1. PieceCount(p, n) \in Nat /\ k < PieceCount(p, n)
    <3>1. PieceCount(p, n) \in 0 .. n
      BY <1>1, PieceCountIs
    <3> DEFINE c == PieceCount(p, n)
    <3> HIDE DEF n, c
    <3>2. c \in Nat
      BY <1>1, <3>1 DEF c
    <3> QED
      BY <3>2 DEF c, n
  <2>2. k \in 0 .. PieceCount(p, n)
    <3> DEFINE c == PieceCount(p, n)
    <3> HIDE DEF c
    <3> QED
      BY <2>1 DEF c
  <2> QED
    BY <1>1, <2>1, <2>2, PutToIs
<1>3. PICK a : Aligned(a) /\ a <= p + x /\ p + y <= a + BlockSize
  BY <1>2
<1>4. piece \in Seq(Bytes) /\ Len(piece) = y - x /\ \A i \in 1 .. (y - x) : piece[i] = data[x + i]
  <2>1. x \in Nat /\ y \in Nat /\ x <= y /\ y <= n
    BY <1>1, <1>2
  <2> QED
    BY <2>1, Part
<1>5. PutNext(s, p, data, k + 1) = ToCache(s, p + x, piece)
  <2>1. (p + x) - p + 1 = x + 1 /\ (p + y) - p = y
    BY <1>2
  <2> QED
    BY <1>2, <2>1 DEF PutNext
<1>6. ASSUME k # 0 PROVE p + x = a
  <2> DEFINE l == p + x
  <2>1. Aligned(l)
    BY <1>2, <1>6
  <2>2. l \in Nat /\ a \in Nat /\ (l + BlockSize <= a \/ a + BlockSize <= l \/ l = a)
    BY <1>3, <2>1, AlignedApart
  <2>3. a <= l /\ l < a + BlockSize
    <3>1. p + y <= a + BlockSize /\ x \in Nat /\ y \in Nat /\ x < y /\ a <= p + x
      BY <1>1, <1>2, <1>3
    <3> HIDE DEF x, y
    <3> QED
      BY <1>1, <2>2, <3>1
  <2> HIDE DEF l
  <2>4. l = a
    BY <1>1, <2>2, <2>3
  <2> QED
    BY <2>4 DEF l
<1> HIDE DEF n, x, y, piece
<1>7. IsPiece(p, data, k, a, piece)
  BY <1>2, <1>3, <1>4, <1>6 DEF IsPiece, n, x, y, piece
<1> QED
  BY <1>5, <1>7 DEF GoesOn, n, x

\* The state s is st once the first k pieces of a write are cached: if the write extends
\* the stream, padding may follow where they end within a block.
IsBegun(s, st, con, p, data, k) ==
    LET m == PutTo(p, Len(data), k)
        new == Begun(con, p, data, m)
    IN /\ s \in StateType /\ s.size = Upper(st.size, p + m)
       /\ s.count \in Nat /\ s.count <= st.count + k
       /\ FileFollows(st.base, s.base, con, new)
       /\ k # 0 /\ p = st.size /\ ~Aligned(p + m) => Pending(s, new)

\* It stands for what is written by then.
GoodBegun(s, con, p, data, k) == Good(s, Begun(con, p, data, PutTo(p, Len(data), k)))

\* A write within the stream, or at its end; one that goes on in a block there has three
\* bytes for it, or begins with the block.
Follows(z, p, data) == p <= z /\ p + Len(data) <= Limit /\ (p + Len(data) <= z \/ p = z)

Long(z, p, data) ==
    p + Len(data) <= z \/ Aligned(p) \/ PutTo(p, Len(data), 1) >= 3

\* The file of a state is no longer than the stream may be.
LEMMA FileShort ==
    ASSUME NEW st, NEW con, Sound(st, con)
    PROVE  /\ st.base \in FileType /\ Len(st.base.data) \in Nat
           /\ Len(st.base.data) <= st.size /\ st.size \in Nat /\ st.size <= Limit
           /\ Len(st.base.data) <= Limit
<1>1. /\ st.base \in FileType /\ Len(st.base.data) \in Nat /\ st.base.size \in Nat
      /\ st.size \in Nat
  BY StateIs DEF Sound
<1>2. Len(st.base.data) <= st.base.size /\ st.base.size <= st.size /\ st.size \in 0 .. Limit
  BY DEF Sound, FileWithin, ContentOf
<1>3. Limit \in Nat
  BY Constants
<1> QED
  BY <1>1, <1>2, <1>3

\* Where two parts of the write meet, the content of the first is of the old or the new.
LEMMA BegunCells ==
    ASSUME NEW con, NEW z, ContentOf(con, z), NEW p \in Nat, NEW data \in Seq(Bytes),
           p <= z, p + Len(data) <= Limit,
           NEW x \in 0 .. Len(data), NEW y \in 0 .. Len(data), x <= y,
           NEW q \in 0 .. Limit - 1
    PROVE  Begun(con, p, data, x)[q] \in {con[q], Begun(con, p, data, y)[q]}
<1>1. /\ Begun(con, p, data, x)[q] = IF p <= q /\ q < p + x THEN data[(q - p) + 1] ELSE con[q]
      /\ Begun(con, p, data, y)[q] = IF p <= q /\ q < p + y THEN data[(q - p) + 1] ELSE con[q]
  BY BegunIs
<1>2. q < p + x => q < p + y
  BY Constants
<1> QED
  BY <1>1, <1>2

\* The file still follows once a piece more is written.
LEMMA BegunFollows ==
    ASSUME NEW f \in FileType, NEW g \in FileType, NEW h \in FileType,
           Len(g.data) <= Limit, Len(h.data) <= Limit,
           NEW con, NEW z, ContentOf(con, z), NEW p \in Nat, NEW data \in Seq(Bytes),
           p <= z, p + Len(data) <= Limit,
           NEW x \in 0 .. Len(data), NEW y \in 0 .. Len(data), x <= y,
           FileFollows(f, g, con, Begun(con, p, data, x)),
           FileFollows(g, h, Begun(con, p, data, x), Begun(con, p, data, x))
    PROVE  FileFollows(f, h, con, Begun(con, p, data, y))
<1> DEFINE con1 == Begun(con, p, data, x)
           con2 == Begun(con, p, data, y)
<1>1. \A q \in 0 .. Limit - 1 : con1[q] \in {con[q], con2[q]}
  BY BegunCells
<1> HIDE DEF con1, con2
<1>2. FileFollows(f, g, con, con1) /\ FileFollows(g, h, con1, con1)
  BY DEF con1
<1>3. FileFollows(f, g, con, con2)
  <2>1. \A q \in 0 .. Limit - 1 : con[q] \in {con[q], con2[q]} /\ con1[q] \in {con[q], con2[q]}
    BY <1>1
  <2> QED
    BY <1>2, <2>1, FollowsWider
<1>4. FileFollows(g, h, con, con2)
  <2>1. \A q \in 0 .. Limit - 1 : con1[q] \in {con[q], con2[q]} /\ con1[q] \in {con[q], con2[q]}
    BY <1>1
  <2> QED
    BY <1>2, <2>1, FollowsWider
<1>5. FileFollows(f, h, con, con2)
  BY <1>3, <1>4, FollowsOn
<1> QED
  BY <1>5 DEF con2

\* A piece more.
LEMMA BegunMore ==
    ASSUME NEW st \in StateType, NEW con, ContentOf(con, st.size), NEW p \in Nat,
           NEW data \in Seq(Bytes), Follows(st.size, p, data),
           NEW k \in Nat, k < PieceCount(p, Len(data)),
           NEW s, IsBegun(s, st, con, p, data, k), GoodBegun(s, con, p, data, k),
           \/ k # 0 \/ Long(st.size, p, data)
           \/ ~Aligned(p + PutTo(p, Len(data), k + 1))
    PROVE  /\ IsBegun(PutNext(s, p, data, k + 1), st, con, p, data, k + 1)
           /\ k # 0 \/ Long(st.size, p, data) =>
                 GoodBegun(PutNext(s, p, data, k + 1), con, p, data, k + 1)
<1>0. GoesOn(s, p, data, k)
  BY PieceThere
<1> DEFINE n == Len(data)
           z == st.size
           x == PutTo(p, n, k)
           y == PutTo(p, n, k + 1)
           con1 == Begun(con, p, data, x)
           con2 == Begun(con, p, data, y)
<1>1. PICK a, piece : IsPiece(p, data, k, a, piece)
                      /\ PutNext(s, p, data, k + 1) = ToCache(s, p + x, piece)
  BY <1>0 DEF GoesOn
<1> DEFINE new == ToCache(s, p + x, piece)
<1>2. /\ Aligned(a) /\ a <= p + x /\ p + y <= a + BlockSize
      /\ x \in 0 .. n /\ y \in 0 .. n /\ x < y
      /\ k # 0 => p + x = a
      /\ piece \in Seq(Bytes) /\ Len(piece) = y - x
      /\ piece = SubSeq(data, x + 1, y)
  BY <1>1 DEF IsPiece
<1>3. /\ z \in Nat /\ st.count \in Nat /\ st.base \in FileType /\ n \in Nat /\ Limit \in Nat
      /\ BlockSize \in Nat /\ p <= z /\ p + n <= Limit /\ (p + n <= z \/ p = z)
  BY StateIs, Constants DEF Follows
<1>4. /\ s \in StateType /\ Good(s, con1) /\ s.size = Upper(z, p + x)
      /\ s.count \in Nat /\ s.count <= st.count + k /\ FileFollows(st.base, s.base, con, con1)
  BY DEF IsBegun, GoodBegun
<1>5. Patched(con1, p + x, piece) = con2
  <2>1. y \in x .. n
    BY <1>2, <1>3
  <2> QED
    BY <1>2, <1>3, <2>1, BegunOn
<1>6. k = 0 => x = 0 /\ k + 1 = 1
  BY DEF PutTo
<1> HIDE DEF n, z, x, y, con1, con2, new
<1>7. /\ p + x \in Nat /\ (p + x) + Len(piece) = p + y /\ Len(piece) >= 1
      /\ p + x <= s.size /\ p + y <= Limit
      /\ (p + x) + Len(piece) <= s.size \/ p + x = s.size
      /\ Upper(s.size, p + y) = Upper(z, p + y)
      /\ p + n <= z => p + y <= s.size
      /\ p = z => p + x = s.size
  <2>1. /\ x \in Nat /\ y \in Nat /\ x < y /\ y <= n
        /\ (p + x) + (y - x) = p + y /\ y - x >= 1
    BY <1>2, <1>3
  <2>2. p + n <= z \/ p = z
    BY <1>3
  <2> QED
    BY <1>2, <1>3, <1>4, <2>1, <2>2 DEF Upper
<1>8. PieceOK(a, p + x, piece, s.size)
  BY <1>2, <1>7 DEF PieceOK
<1>9. IsCached(new, s, con1, p + x, piece, a)
  <2> DEFINE l == p + x
  <2>1. l \in Nat /\ PieceOK(a, l, piece, s.size) /\ (l + Len(piece) <= s.size \/ l = s.size)
    BY <1>7, <1>8
  <2> HIDE DEF l
  <2>2. IsCached(ToCache(s, l, piece), s, con1, l, piece, a)
    BY <1>2, <1>4, <2>1, ToCacheIs
  <2> QED
    BY <2>2 DEF l, new
<1>10. /\ new \in StateType /\ new.size = Upper(s.size, p + y)
       /\ new.count \in Nat /\ new.count <= s.count + 1
       /\ FileFollows(s.base, new.base, con1, con1)
       /\ p + y <= s.size \/ Len(piece) >= 3 \/ p + x = a => Good(new, con2)
       /\ p + x = s.size /\ p + y < a + BlockSize => Pending(new, con2)
  BY <1>5, <1>7, <1>9 DEF IsCached
<1>11. new.size = Upper(z, p + y) /\ new.count <= st.count + (k + 1)
  <2>1. new.size = Upper(z, p + y)
    BY <1>7, <1>10
  <2>2. s.count \in Nat /\ new.count \in Nat /\ st.count \in Nat
    BY <1>3, <1>4, <1>10
  <2>3. s.count <= st.count + k /\ new.count <= s.count + 1
    BY <1>4, <1>10
  <2>4. new.count <= st.count + (k + 1)
    BY <2>2, <2>3, SMTT(30)
  <2> QED
    BY <2>1, <2>4
<1>12. p = z /\ ~Aligned(p + y) => Pending(new, con2)
  <2> SUFFICES ASSUME p = z, ~Aligned(p + y) PROVE Pending(new, con2)
    OBVIOUS
  <2>1. p + y # a + BlockSize
    BY <1>2, AlignedNext
  <2>2. a \in Nat
    BY <1>2, AlignedApart
  <2>3. p + y < a + BlockSize
    BY <1>2, <1>3, <2>1, <2>2
  <2> QED
    BY <1>7, <1>10, <2>3
<1>13. k # 0 \/ Long(z, p, data) => Good(new, con2)
  <2>1. CASE k # 0
    BY <1>2, <1>10, <2>1
  <2>2. CASE k = 0 /\ p + n <= z
    BY <1>7, <1>10, <2>2
  <2>3. CASE k = 0 /\ Aligned(p)
    <3>1. x = 0 /\ p + x = p /\ a <= p /\ p < a + BlockSize /\ a \in Nat
      <4>1. x = 0 /\ a \in Nat
        BY <1>2, <1>6, <2>3, AlignedApart
      <4> QED
        BY <1>2, <1>3, <4>1
    <3>2. p + BlockSize <= a \/ a + BlockSize <= p \/ p = a
      BY <1>2, <2>3, AlignedApart
    <3>3. p = a
      BY <1>3, <3>1, <3>2
    <3> QED
      BY <1>10, <3>1, <3>3
  <2>4. CASE k = 0 /\ y >= 3
    <3>1. Len(piece) >= 3
      BY <1>2, <1>3, <1>6, <2>4
    <3> QED
      BY <1>10, <3>1
  <2>5. k = 0 => y = PutTo(p, n, 1)
    BY <1>6 DEF y
  <2> QED
    BY <2>1, <2>2, <2>3, <2>4, <2>5 DEF Long, n
<1>14. FileFollows(st.base, new.base, con, con2)
  <2>1. s.base \in FileType /\ Len(s.base.data) <= Limit
    BY <1>4, FileShort DEF Good
  <2>2. new.base \in FileType /\ Len(new.base.data) <= Limit
    <3>1. Good(new, con2) \/ Pending(new, con2)
      <4>1. k # 0 \/ Long(z, p, data) \/ ~Aligned(p + y)
        BY DEF z, y, n
      <4>2. Long(z, p, data) \/ p = z
        BY <1>3 DEF Long, n
      <4> QED
        BY <1>12, <1>13, <4>1, <4>2
    <3>2. Sound(new, con2)
      BY <3>1 DEF Good, Pending
    <3> QED
      BY <3>2, FileShort
  <2>3. x \in 0 .. Len(data) /\ y \in 0 .. Len(data) /\ x <= y
    BY <1>2, <1>3 DEF n
  <2>4. p <= st.size /\ p + Len(data) <= Limit /\ st.base \in FileType
    BY <1>3 DEF z, n
  <2>5. /\ FileFollows(st.base, s.base, con, con1)
        /\ FileFollows(s.base, new.base, con1, con1)
    BY <1>4, <1>10
  <2> HIDE DEF x, y
  <2>6. FileFollows(st.base, new.base, con, Begun(con, p, data, y))
    BY <2>1, <2>2, <2>3, <2>4, <2>5, BegunFollows DEF con1
  <2> QED
    BY <2>6 DEF con2
<1>15. PutNext(s, p, data, k + 1) = new
  BY <1>1 DEF new, x, n
<1> QED
  BY <1>10, <1>11, <1>12, <1>13, <1>14, <1>15
     DEF IsBegun, GoodBegun, con2, y, n, z

\* No piece yet.
LEMMA BegunNone ==
    ASSUME NEW st, NEW con, Good(st, con), NEW p \in Nat,
           NEW data \in Seq(Bytes), Follows(st.size, p, data)
    PROVE  IsBegun(st, st, con, p, data, 0) /\ GoodBegun(st, con, p, data, 0)
<1>1. /\ st \in StateType /\ st.size \in Nat /\ st.base \in FileType /\ st.count \in Nat
      /\ ContentOf(con, st.size) /\ Limit \in Nat
      /\ p <= st.size /\ p + Len(data) <= Limit
  BY StateIs, Constants DEF Good, Sound, Follows
<1>2. PutTo(p, Len(data), 0) = 0
  BY DEF PutTo
<1> DEFINE con0 == Begun(con, p, data, 0)
<1>3. /\ con0 \in [0 .. Limit - 1 -> Bytes \union {Beyond}]
      /\ \A q \in 0 .. Limit - 1 :
            con0[q] = IF p <= q /\ q < p + 0 THEN data[(q - p) + 1] ELSE con[q]
  <2>1. 0 \in 0 .. Len(data)
    OBVIOUS
  <2> QED
    BY <1>1, <2>1, BegunIs
<1> HIDE DEF con0
<1>4. con0 = con
  <2> DEFINE D == 0 .. Limit - 1
             R == Bytes \union {Beyond}
  <2>1. con0 \in [D -> R]
    BY <1>3
  <2>2. con \in [D -> R]
    BY <1>1 DEF ContentOf
  <2>3. \A q \in D : con0[q] = con[q]
    <3> TAKE q \in D
    <3>1. q \in 0 .. Limit - 1 /\ ~(p <= q /\ q < p + 0)
      OBVIOUS
    <3> QED
      BY <1>3, <3>1
  <2> HIDE DEF D, R
  <2> QED
    BY <2>1, <2>2, <2>3, SameFunction
<1>5. st.size = Upper(st.size, p + 0) /\ st.count <= st.count + 0
  BY <1>1 DEF Upper
<1>6. FileFollows(st.base, st.base, con, con)
  BY <1>1, FollowsSame
<1> QED
  BY <1>1, <1>2, <1>4, <1>5, <1>6 DEF IsBegun, GoodBegun, con0

\* Put, piece by piece.
PutBy(s, st, p, data, m) ==
    /\ Put(st, p, data, m) = s[m] /\ s[0] = st
    /\ \A k \in 0 .. m - 1 : s[k + 1] = PutNext(s[k], p, data, k + 1)

LEMMA PutSteps ==
    ASSUME NEW st, NEW p, NEW data, NEW m \in Nat
    PROVE  \E s : PutBy(s, st, p, data, m)
<1> DEFINE s == CHOOSE x : IsPut(x, st, p, data, m)
<1>1. IsPut(s, st, p, data, m)
  BY PutThere
<1>2. Put(st, p, data, m) = s[m]
  BY DEF Put, IsPut, PutNext
<1> HIDE DEF s
<1>3. \A k \in 0 .. m : s[k] = IF k = 0 THEN st ELSE PutNext(s[k - 1], p, data, k)
  BY <1>1 DEF IsPut
<1>4. s[0] = st
  BY <1>3
<1>5. ASSUME NEW k \in 0 .. m - 1 PROVE s[k + 1] = PutNext(s[k], p, data, k + 1)
  <2>1. k + 1 \in 0 .. m /\ k + 1 # 0 /\ (k + 1) - 1 = k
    OBVIOUS
  <2> QED
    BY <1>3, <2>1
<1> QED
  BY <1>2, <1>4, <1>5 DEF PutBy

\* Its first piece, and none.
LEMMA PutFirst ==
    ASSUME NEW st, NEW p, NEW data
    PROVE  Put(st, p, data, 0) = st /\ Put(st, p, data, 1) = PutNext(st, p, data, 1)
<1>1. Put(st, p, data, 0) = st
  BY PutSteps DEF PutBy
<1>2. PICK s : /\ Put(st, p, data, 1) = s[1] /\ s[0] = st
               /\ \A k \in 0 .. 1 - 1 : s[k + 1] = PutNext(s[k], p, data, k + 1)
  BY PutSteps DEF PutBy
<1>3. 0 \in 0 .. 1 - 1 /\ 0 + 1 = 1
  OBVIOUS
<1>4. s[1] = PutNext(s[0], p, data, 1)
  BY <1>2, <1>3
<1> QED
  BY <1>1, <1>2, <1>4

\* Once the first piece stands, so do the others.
LEMMA PutOn ==
    ASSUME NEW st \in StateType, NEW con, ContentOf(con, st.size), NEW p \in Nat,
           NEW data \in Seq(Bytes), Follows(st.size, p, data),
           IsBegun(PutNext(st, p, data, 1), st, con, p, data, 1),
           GoodBegun(PutNext(st, p, data, 1), con, p, data, 1),
           NEW m \in 1 .. PieceCount(p, Len(data))
    PROVE  /\ IsBegun(Put(st, p, data, m), st, con, p, data, m)
           /\ GoodBegun(Put(st, p, data, m), con, p, data, m)
<1> DEFINE c == PieceCount(p, Len(data))
<1>1. m \in Nat /\ m >= 1 /\ \A k \in 0 .. m - 1 : k \in Nat /\ k < c
  <2>1. c \in 0 .. Len(data)
    BY PieceCountIs
  <2>2. m \in 1 .. c
    OBVIOUS
  <2> HIDE DEF c
  <2>3. c \in Nat
    BY <2>1
  <2> QED
    BY <2>2, <2>3
<1>2. PICK s : /\ Put(st, p, data, m) = s[m] /\ s[0] = st
               /\ \A k \in 0 .. m - 1 : s[k + 1] = PutNext(s[k], p, data, k + 1)
  <2>1. \E s : PutBy(s, st, p, data, m)
    BY <1>1, PutSteps
  <2> QED
    BY <2>1 DEF PutBy
<1> DEFINE Stood(k) == IsBegun(s[k], st, con, p, data, k) /\ GoodBegun(s[k], con, p, data, k)
           G == {k \in 0 .. m : k = 0 \/ Stood(k)}
<1>3. 0 \in G
  BY <1>1
<1>4. ASSUME NEW k \in 0 .. (m - 1), k \in G PROVE k + 1 \in G
  <2>1. k + 1 \in 0 .. m /\ k \in Nat /\ k < c /\ s[k + 1] = PutNext(s[k], p, data, k + 1)
    BY <1>1, <1>2
  <2>2. CASE k = 0
    <3>1. k + 1 = 1 /\ s[1] = PutNext(st, p, data, 1)
      BY <1>2, <2>1, <2>2
    <3>2. Stood(k + 1)
      BY <3>1
    <3> QED
      BY <2>1, <3>2
  <2>3. CASE k # 0
    <3>1. IsBegun(s[k], st, con, p, data, k) /\ GoodBegun(s[k], con, p, data, k)
      BY <1>4, <2>3
    <3> DEFINE t == s[k]
               u == s[k + 1]
    <3>2. /\ IsBegun(t, st, con, p, data, k) /\ GoodBegun(t, con, p, data, k)
          /\ u = PutNext(t, p, data, k + 1) /\ k < PieceCount(p, Len(data))
      BY <2>1, <3>1
    <3> HIDE DEF t, u, c
    <3>3. IsBegun(u, st, con, p, data, k + 1) /\ GoodBegun(u, con, p, data, k + 1)
      BY <2>1, <2>3, <3>2, BegunMore
    <3>4. Stood(k + 1)
      BY <3>3 DEF u
    <3> QED
      BY <2>1, <3>4
  <2> QED
    BY <2>2, <2>3
<1> HIDE DEF G
<1>5. \A k \in 0 .. m : k \in G
  BY <1>1, <1>3, <1>4, UpTo
<1>6. m \in G /\ m # 0
  BY <1>1, <1>5
<1>7. Stood(m)
  BY <1>6 DEF G
<1> QED
  BY <1>2, <1>7

\* The first m pieces of a write from a state that stands for its content.
LEMMA PutGood ==
    ASSUME NEW st, NEW con, Good(st, con), NEW p \in Nat,
           NEW data \in Seq(Bytes), Follows(st.size, p, data), Long(st.size, p, data),
           NEW m \in 0 .. PieceCount(p, Len(data))
    PROVE  /\ IsBegun(Put(st, p, data, m), st, con, p, data, m)
           /\ GoodBegun(Put(st, p, data, m), con, p, data, m)
<1>1. st \in StateType /\ ContentOf(con, st.size)
  BY DEF Good, Sound
<1>2. IsBegun(st, st, con, p, data, 0) /\ GoodBegun(st, con, p, data, 0)
  BY BegunNone
<1>3. CASE m = 0
  BY <1>2, <1>3, PutFirst
<1>4. CASE m # 0
  <2> DEFINE c == PieceCount(p, Len(data))
  <2>1. m \in 1 .. c /\ 0 < c
    <3>1. c \in 0 .. Len(data) /\ m \in 0 .. c
      BY PieceCountIs
    <3> HIDE DEF c
    <3> QED
      BY <1>4, <3>1
  <2> HIDE DEF c
  <2>2. 0 \in Nat /\ 0 < PieceCount(p, Len(data)) /\ 0 + 1 = 1
    BY <2>1 DEF c
  <2>3. /\ IsBegun(PutNext(st, p, data, 0 + 1), st, con, p, data, 0 + 1)
        /\ GoodBegun(PutNext(st, p, data, 0 + 1), con, p, data, 0 + 1)
    BY <1>1, <1>2, <2>2, BegunMore
  <2>4. /\ IsBegun(PutNext(st, p, data, 1), st, con, p, data, 1)
        /\ GoodBegun(PutNext(st, p, data, 1), con, p, data, 1)
    BY <2>2, <2>3
  <2> QED
    BY <1>1, <2>1, <2>4, PutOn DEF c
<1> QED
  BY <1>3, <1>4

\* A byte or two that end within a block: padding may follow.
LEMMA PutShort ==
    ASSUME NEW st, NEW con, Good(st, con), NEW p \in Nat,
           NEW data \in Seq(Bytes), Follows(st.size, p, data),
           PieceCount(p, Len(data)) = 1, ~Aligned(p + Len(data))
    PROVE  IsBegun(Put(st, p, data, 1), st, con, p, data, 1)
<1>1. st \in StateType /\ ContentOf(con, st.size)
  BY DEF Good, Sound
<1>2. IsBegun(st, st, con, p, data, 0) /\ GoodBegun(st, con, p, data, 0)
  BY BegunNone
<1>3. 0 \in Nat /\ 0 < PieceCount(p, Len(data)) /\ 0 + 1 = 1
  OBVIOUS
<1>4. PutTo(p, Len(data), 0 + 1) = Len(data)
  <2>1. 1 \in 0 .. PieceCount(p, Len(data)) /\ Len(data) \in Nat
    OBVIOUS
  <2> QED
    BY <1>3, <2>1, PutToIs
<1>5. IsBegun(PutNext(st, p, data, 0 + 1), st, con, p, data, 0 + 1)
  BY <1>1, <1>2, <1>3, <1>4, BegunMore
<1> QED
  BY <1>3, <1>5, PutFirst

\* A state that stands for its content: padding may follow in the block in front.
LEMMA GoodPending ==
    ASSUME NEW t, NEW con, Good(t, con), t.blocks # << >>, Contains(t.blocks[1], t.size)
    PROVE  Pending(t, con)
BY DEF Good, Pending

\* The block around the end is the one in front.
LEMMA FrontFound ==
    ASSUME NEW st, NEW con, Pending(st, con), NEW i \in Found(st.blocks, st.size)
    PROVE  i = 1
<1>1. /\ Sound(st, con) /\ st \in StateType /\ st.blocks # << >>
      /\ Contains(st.blocks[1], st.size)
  BY DEF Pending, Sound
<1>2. st.size \in Nat /\ 1 \in DOMAIN st.blocks /\ i \in DOMAIN st.blocks
      /\ Contains(st.blocks[i], st.size)
  <2>1. st.size \in Nat /\ st.blocks \in Seq(BlockType)
    BY <1>1, StateIs
  <2> QED
    BY <1>1, <2>1 DEF Found
<1>3. Aligned(st.blocks[1].start) /\ Aligned(st.blocks[i].start)
  BY <1>1, <1>2 DEF Sound, BlockOK
<1>4. st.blocks[1].start = st.blocks[i].start
  <2> DEFINE a == st.blocks[1].start
             b == st.blocks[i].start
  <2>1. Aligned(a) /\ Aligned(b) /\ a <= st.size /\ st.size < a + BlockSize
        /\ b <= st.size /\ st.size < b + BlockSize
    BY <1>1, <1>2, <1>3 DEF Contains
  <2> HIDE DEF a, b
  <2>2. a = b
    BY <1>2, <2>1, SameBlock
  <2> QED
    BY <2>2 DEF a, b
<1> QED
  BY <1>1, <1>2, <1>4 DEF Sound, Apart

\* The first piece of padding that follows at the end.
LEMMA PadFirst ==
    ASSUME NEW st, NEW con, Pending(st, con), NEW p \in Nat, p = st.size,
           NEW data \in Seq(Bytes), Follows(st.size, p, data), Len(data) >= 1,
           NoZero(data)
    PROVE  /\ IsBegun(PutNext(st, p, data, 1), st, con, p, data, 1)
           /\ GoodBegun(PutNext(st, p, data, 1), con, p, data, 1)
<1> DEFINE n == Len(data)
           y == PutTo(p, n, 1)
           con2 == Begun(con, p, data, y)
<1>1. /\ Sound(st, con) /\ st \in StateType /\ st.base \in FileType /\ st.count \in Nat
      /\ st.size \in Nat /\ n \in Nat /\ n >= 1 /\ p + n <= Limit /\ Limit \in Nat
      /\ ContentOf(con, p) /\ BlockSize \in Nat
  <2>1. Sound(st, con) /\ st \in StateType /\ ContentOf(con, p)
    BY DEF Pending, Sound
  <2>2. st.base \in FileType /\ st.count \in Nat /\ st.size \in Nat
    BY <2>1, StateIs
  <2>3. n \in Nat /\ n >= 1 /\ p + n <= Limit /\ Limit \in Nat /\ BlockSize \in Nat
    BY Constants DEF Follows
  <2> QED
    BY <2>1, <2>2, <2>3
<1>2. GoesOn(st, p, data, 0)
  <2>1. 0 < PieceCount(p, Len(data))
    <3> DEFINE c == PieceCount(p, Len(data))
    <3>1. n \in Nat /\ n # 0
      BY <1>1
    <3> HIDE DEF n
    <3>2. PieceCount(p, n) \in 0 .. n /\ PieceCount(p, n) >= 1
      BY <3>1, PieceCountIs
    <3>3. c \in 0 .. n /\ c >= 1
      BY <3>2 DEF n
    <3> HIDE DEF c
    <3>4. 0 < c
      BY <3>1, <3>3
    <3> QED
      BY <3>4 DEF c
  <2> QED
    BY <2>1, PieceThere
<1>3. PICK a, piece : /\ IsPiece(p, data, 0, a, piece)
                      /\ PutNext(st, p, data, 0 + 1) = ToCache(st, p + PutTo(p, Len(data), 0), piece)
  BY <1>2 DEF GoesOn
<1>4. PutTo(p, n, 0) = 0 /\ 0 + 1 = 1 /\ p + 0 = p
  BY DEF PutTo
<1>5. /\ Aligned(a) /\ a <= p /\ p + y <= a + BlockSize
      /\ y \in 0 .. n /\ 0 < y
      /\ piece \in Seq(Bytes) /\ Len(piece) = y
      /\ \A i \in 1 .. y : piece[i] = data[i]
      /\ piece = SubSeq(data, 1, y)
  <2>1. /\ Aligned(a) /\ a <= p + 0 /\ p + y <= a + BlockSize
        /\ y \in 0 .. n /\ 0 < y
        /\ piece \in Seq(Bytes) /\ Len(piece) = y - 0
        /\ \A i \in 1 .. (y - 0) : piece[i] = data[0 + i]
        /\ piece = SubSeq(data, 0 + 1, y)
    BY <1>3, <1>4 DEF IsPiece
  <2> HIDE DEF y
  <2>2. y \in Nat /\ y - 0 = y /\ \A i \in 1 .. y : 0 + i = i
    BY <1>1, <2>1
  <2> QED
    BY <1>4, <2>1, <2>2
<1> DEFINE t == BlockPut(st, 1, p, piece)
<1>6. PutNext(st, p, data, 1) = t
  <2> DEFINE i == CHOOSE j \in Found(st.blocks, p) : TRUE
  <2>1. 1 \in Found(st.blocks, p)
    <3>1. st.blocks \in Seq(BlockType) /\ st.blocks # << >> /\ Contains(st.blocks[1], p)
      BY <1>1, StateIs DEF Pending
    <3> QED
      BY <3>1 DEF Found
  <2>2. i \in Found(st.blocks, p)
    BY <2>1
  <2> HIDE DEF i
  <2>3. i = 1
    BY <2>2, FrontFound
  <2>4. ToCache(st, p, piece) = BlockPut(st, i, p, piece)
    BY <2>1 DEF ToCache, BlockPut, i
  <2> QED
    BY <1>3, <1>4, <2>3, <2>4
<1>7. con2 = Patched(con, p, piece)
  BY <1>5 DEF Begun
<1> HIDE DEF t, n, y, con2
<1>8. PieceOK(a, p, piece, st.size)
  <2>1. p + y <= Limit /\ y >= 1
    BY <1>1, <1>5
  <2> QED
    BY <1>1, <1>5, <2>1 DEF PieceOK
<1>9. NoZero(piece)
  <2>1. \A k \in 1 .. y : k \in 1 .. Len(data)
    BY <1>1, <1>5 DEF n
  <2> QED
    BY <1>5, <2>1 DEF NoZero
<1>10. /\ t.size = Upper(st.size, p + y) /\ t.count = st.count
       /\ FileFollows(st.base, t.base, con, con)
       /\ t.blocks # << >> /\ t.blocks[1].start = a
       /\ Good(t, con2)
  <2>1. piece \in Seq(Bytes)
    BY <1>5
  <2>2. IsPadded(t, st, con, p, piece, a)
    BY <1>8, <1>9, <2>1, PadPut DEF t
  <2> QED
    BY <1>5, <1>7, <2>2 DEF IsPadded
<1>11. t \in StateType /\ t.base \in FileType /\ Len(t.base.data) <= Limit
  BY <1>10, FileShort DEF Good, Sound
<1>12. FileFollows(st.base, t.base, con, con2)
  <2>1. \A q \in 0 .. Limit - 1 : con[q] \in {con[q], con2[q]}
    OBVIOUS
  <2> QED
    BY <1>1, <1>10, <1>11, <2>1, FollowsWider
<1>13. ~Aligned(p + y) => Pending(t, con2)
  <2> SUFFICES ASSUME ~Aligned(p + y) PROVE Pending(t, con2)
    OBVIOUS
  <2>1. p + y # a + BlockSize
    BY <1>5, AlignedNext
  <2>2. a \in Nat
    BY <1>5, AlignedApart
  <2>3. a <= p + y /\ p + y < a + BlockSize /\ t.size = p + y
    <3>1. y \in Nat /\ 0 < y /\ a <= p /\ p + y <= a + BlockSize
      BY <1>1, <1>5
    <3>2. t.size = Upper(p, p + y)
      BY <1>10
    <3>3. a <= p + y /\ p + y < a + BlockSize
      <4>1. BlockSize \in Nat
        BY Constants
      <4> QED
        BY <2>1, <2>2, <3>1, <4>1
    <3>4. Upper(p, p + y) = p + y
      BY <3>1 DEF Upper
    <3> QED
      BY <3>2, <3>3, <3>4
  <2>4. Contains(t.blocks[1], t.size)
    BY <1>10, <2>3 DEF Contains
  <2> QED
    BY <1>10, <2>4, GoodPending
<1>14. t.count \in Nat /\ t.count <= st.count + 1
  BY <1>1, <1>10
<1> QED
  BY <1>6, <1>10, <1>11, <1>12, <1>13, <1>14 DEF IsBegun, GoodBegun, con2, y, n

\* The padding.
LEMMA PutPads ==
    ASSUME NEW st, NEW con, Pending(st, con), NEW p \in Nat, p = st.size,
           NEW data \in Seq(Bytes), Follows(st.size, p, data), Len(data) >= 1,
           NoZero(data),
           NEW m \in 1 .. PieceCount(p, Len(data))
    PROVE  /\ IsBegun(Put(st, p, data, m), st, con, p, data, m)
           /\ GoodBegun(Put(st, p, data, m), con, p, data, m)
<1>1. st \in StateType /\ ContentOf(con, st.size)
  BY DEF Pending, Sound
<1>2. /\ IsBegun(PutNext(st, p, data, 1), st, con, p, data, 1)
      /\ GoodBegun(PutNext(st, p, data, 1), con, p, data, 1)
  BY PadFirst
<1> QED
  BY <1>1, <1>2, PutOn

-----------------------------------------------------------------------------
(* The file below, and the stream over it *)

\* How the cells of the file follow.
LEMMA CellsFollow ==
    ASSUME NEW f \in FileType, NEW g \in FileType, NEW old, NEW new,
           FileFollows(f, g, old, new), NEW q \in 0 .. Limit - 1
    PROVE  \/ FileContent(g)[q] \in {FileContent(f)[q], old[q], new[q]}
           \/ FileContent(f)[q] = Beyond /\ FileContent(g)[q] = Zero
<1>1. Len(f.data) \in Nat /\ Len(g.data) \in Nat /\ Len(f.data) <= Len(g.data) /\ q \in Nat
  BY Constants DEF FileType, FileFollows
<1>2. /\ FileContent(f)[q] = IF q < Len(f.data) THEN f.data[q + 1] ELSE Beyond
      /\ FileContent(g)[q] = IF q < Len(g.data) THEN g.data[q + 1] ELSE Beyond
  BY DEF FileContent
<1>3. CASE q < Len(g.data)
  <2>1. q \in 0 .. Len(g.data) - 1
    BY <1>1, <1>3
  <2>2. \/ q < Len(f.data) /\ g.data[q + 1] = f.data[q + 1]
        \/ g.data[q + 1] \in {old[q], new[q]}
        \/ q >= Len(f.data) /\ g.data[q + 1] = Zero
    BY <2>1 DEF FileFollows
  <2>3. q >= Len(f.data) => ~(q < Len(f.data))
    BY <1>1
  <2> QED
    BY <1>2, <1>3, <2>2, <2>3
<1>4. CASE ~(q < Len(g.data))
  <2>1. ~(q < Len(f.data))
    BY <1>1, <1>4
  <2> QED
    BY <1>2, <1>4, <2>1
<1> QED
  BY <1>3, <1>4

\* With nothing cached the file is level with what the program reads.
LEMMA AllLevel ==
    ASSUME NEW st, NEW con, Good(st, con), st.blocks = << >>
    PROVE  Promised!Level(FileContent(st.base), con)
<1> DEFINE len == Len(st.base.data)
           z == st.size
<1>1. /\ st.base \in FileType /\ len \in Nat /\ len <= z /\ z \in Nat /\ z <= Limit
      /\ Limit \in Nat /\ BlockSize \in Nat
  BY FileShort, Constants DEF Good
<1>2. \A q \in 0 .. Limit - 1 : q < z <=> con[q] # Beyond
  BY DEF Good, Sound, ContentOf
<1>3. \A q \in 0 .. z - 1 : FileCell(st.base, q) = con[q]
  <2>1. DOMAIN st.blocks = {}
    OBVIOUS
  <2> QED
    BY <2>1 DEF Good, Kept
<1>4. z - 1 <= len
  <2>1. CASE z = 0
    BY <1>1, <2>1
  <2>2. CASE z # 0
    <3> DEFINE a == ((z - 1) \div BlockSize) * BlockSize
    <3>1. z - 1 \in Nat
      BY <1>1, <2>2
    <3>2. a \in Nat /\ Aligned(a) /\ a <= z - 1 /\ z - 1 < a + BlockSize
      BY <3>1, BlockOf
    <3> HIDE DEF a
    <3>3. Lower(a + BlockSize, z) = z /\ a < z
      BY <1>1, <3>2 DEF Lower
    <3>4. Reached(st, a)
      BY <3>2, <3>3 DEF Good
    <3>5. DOMAIN st.blocks = {}
      OBVIOUS
    <3> QED
      BY <3>3, <3>4, <3>5 DEF Reached
  <2> QED
    BY <2>1, <2>2
<1> HIDE DEF len, z
<1>5. ASSUME NEW q \in 0 .. Limit - 1
      PROVE  \/ FileContent(st.base)[q] = con[q]
             \/ /\ FileContent(st.base)[q] = Beyond /\ con[q] = Zero
                /\ q + 1 \in 0 .. Limit - 1 => con[q + 1] = Beyond
  <2>1. FileContent(st.base)[q] = IF q < len THEN st.base.data[q + 1] ELSE Beyond
    BY DEF FileContent, len
  <2>2. q \in Nat
    OBVIOUS
  <2>3. CASE q < len
    <3>1. q \in 0 .. z - 1
      BY <1>1, <2>2, <2>3
    <3>2. FileCell(st.base, q) = con[q]
      BY <1>3, <3>1
    <3> QED
      BY <2>1, <2>3, <3>2 DEF FileCell, len
  <2>4. CASE ~(q < len) /\ ~(q < z)
    BY <1>2, <2>1, <2>4
  <2>5. CASE ~(q < len) /\ q < z
    <3>1. q \in 0 .. z - 1 /\ ~(q + 1 < z)
      BY <1>1, <1>4, <2>2, <2>5
    <3>2. FileCell(st.base, q) = con[q]
      BY <1>3, <3>1
    <3>3. con[q] = Zero
      BY <2>5, <3>2 DEF FileCell, len
    <3>4. q + 1 \in 0 .. Limit - 1 => con[q + 1] = Beyond
      BY <1>2, <3>1
    <3> QED
      BY <2>1, <2>5, <3>3, <3>4
  <2> QED
    BY <2>3, <2>4, <2>5
<1> QED
  BY <1>5 DEF Promised!Level, Promised!Last, Promised!Places

\* A stream opened over a file stands for what the file holds.
LEMMA OpenedGood ==
    ASSUME NEW data \in Seq(Bytes), Len(data) <= Limit, NEW f, f.data = data
    PROVE  /\ Good(Opened(data), FileContent(f))
           /\ FileContent(Opened(data).base) = FileContent(f)
           /\ Opened(data).blocks = << >> /\ Opened(data).count = 0
           /\ Opened(data).base.data = data /\ Opened(data).base.pos = 0
<1> DEFINE st == Opened(data)
           con == FileContent(f)
           n == Len(data)
<1>1. n \in Nat /\ Limit \in Nat /\ n <= Limit /\ Beyond \notin Bytes /\ BlockCount \in Nat
  BY Constants
<1>2. /\ st = [base |-> st.base, blocks |-> << >>, size |-> n, count |-> 0]
      /\ st.base = [data |-> data, size |-> n, pos |-> 0]
      /\ st.base.data = data /\ st.base.size = n /\ st.base.pos = 0
      /\ st.blocks = << >> /\ st.size = n /\ st.count = 0
  BY DEF Opened
<1> HIDE DEF st
<1>3. st.base \in FileType /\ st \in StateType
  <2>1. st.base \in FileType
    BY <1>1, <1>2 DEF FileType
  <2>2. << >> \in Seq(BlockType) /\ 0 \in Nat
    OBVIOUS
  <2> QED
    BY <1>1, <1>2, <2>1, <2>2, StateMade
<1>4. \A q \in 0 .. Limit - 1 : con[q] = IF q < n THEN data[q + 1] ELSE Beyond
  BY DEF FileContent
<1>5. con = [q \in 0 .. Limit - 1 |-> con[q]]
  BY DEF FileContent
<1>6. FileContent(st.base) = con
  BY <1>2 DEF FileContent
<1> HIDE DEF con
<1>7. \A q \in 0 .. Limit - 1 : q < n => data[q + 1] \in Bytes
  BY <1>1
<1>8. ContentOf(con, n)
  <2>1. \A q \in 0 .. Limit - 1 : con[q] \in Bytes \union {Beyond}
    BY <1>4, <1>7
  <2>2. con \in [0 .. Limit - 1 -> Bytes \union {Beyond}]
    BY <1>5, <2>1
  <2>3. \A q \in 0 .. Limit - 1 : q < n <=> con[q] # Beyond
    BY <1>1, <1>4, <1>7
  <2> QED
    BY <1>1, <2>2, <2>3 DEF ContentOf
<1>9. FileWithin(st)
  BY <1>1, <1>2 DEF FileWithin
<1>10. DOMAIN st.blocks = {} /\ Len(st.blocks) = 0
  BY <1>2
<1>11. Bounded(st)
  <2>1. 0 <= Upper(BlockCount - 1, 2)
    BY <1>1 DEF Upper
  <2> QED
    BY <1>2, <1>10, <2>1 DEF Bounded
<1>12. \A q \in 0 .. st.size - 1 : Kept(st, con, q)
  <2> TAKE q \in 0 .. st.size - 1
  <2>1. q \in 0 .. Limit - 1 /\ q < n
    BY <1>1, <1>2
  <2> QED
    BY <1>2, <1>4, <2>1 DEF Kept, FileCell
<1>13. ASSUME NEW a \in Nat, Aligned(a), a < st.size PROVE Reached(st, a)
  <2>1. Lower(a + BlockSize, n) - 1 <= n
    BY <1>1, Constants DEF Lower
  <2> QED
    BY <1>2, <2>1 DEF Reached
<1>14. Sound(st, con)
  BY <1>2, <1>3, <1>8, <1>9, <1>10, <1>11 DEF Sound, Apart
<1>15. Good(st, con)
  BY <1>12, <1>13, <1>14 DEF Good
<1> QED
  BY <1>2, <1>6, <1>15 DEF st, con

-----------------------------------------------------------------------------
(* The inductive invariant, and what a step does *)

\* What padding is due fits, and goes on within the stream or at its end.
DueOK(due, z) ==
    /\ due \in [left : Nat, pos : Nat]
    /\ due.left = 0 => due = Done
    /\ due.left # 0 => /\ due.pos + due.left <= Limit /\ due.pos <= z
                       /\ due.pos + due.left <= z \/ due.pos = z

\* The state st stands for the content con; or does once the padding that is due, at
\* its end, follows.  The count of blocks has not outgrown its bound.
Holds(st, con, due) ==
    /\ DueOK(due, st.size) /\ st.count + due.left <= MaxCount + Limit
    /\ \/ Good(st, con) /\ (due.left # 0 /\ due.pos = st.size => Aligned(due.pos))
       \/ Pending(st, con) /\ due.left # 0 /\ due.pos = st.size

IInv == Holds(State, content, padding)

\* The state st is one the stream may step to when the content becomes con.
Leads(st, con, due) == Holds(st, con, due) /\ FileFollows(base, st.base, content, con)

\* The parts of the state.
LEMMA StateOf ==
    /\ State.base = base /\ State.blocks = blocks /\ State.size = size /\ State.count = count
BY DEF State

\* Between two operations the stream stands for its content.
LEMMA QuietGood == ASSUME IInv, Quiet PROVE Good(State, content) /\ count <= MaxCount + Limit
<1>1. padding.left = 0
  BY DEF Quiet, Done, Due
<1>2. State.count \in Nat
  BY StateIs DEF IInv, Holds, Good, Pending, Sound
<1> QED
  BY <1>1, <1>2, StateOf DEF IInv, Holds

\* At any time its blocks are of the content.
LEMMA AlwaysSound == ASSUME IInv PROVE Sound(State, content)
BY DEF IInv, Holds, Good, Pending

\* Padding that is due, or none.
LEMMA DueIs ==
    ASSUME NEW p \in Nat, NEW n \in Nat
    PROVE  /\ Due(p, n) \in [left : Nat, pos : Nat] /\ Due(p, n).left = n
           /\ n = 0 => Due(p, n) = Done
           /\ n # 0 => Due(p, n).pos = p
           /\ Done.left = 0
BY DEF Due, Done

\* A step to a state it leads to keeps the invariant, and the file follows.
LEMMA StepIs ==
    ASSUME IInv, NEW st, NEW con, NEW due, Leads(st, con, due), Becomes(st, due), content' = con
    PROVE  IInv' /\ Promised!Follows
<1> DEFINE f == IF due.left = 0 THEN [st.base EXCEPT !.pos = 0] ELSE st.base
           new == [st EXCEPT !.base = f]
<1>1. /\ base \in FileType /\ Sound(st, con) /\ FileFollows(base, st.base, content, con)
      /\ Holds(st, con, due) /\ (Good(st, con) \/ due.left # 0)
  BY StateIs, StateOf, AlwaysSound DEF Leads, Holds, Sound, Good, Pending
<1>2. /\ st.base \in FileType /\ Len(st.base.data) \in Nat /\ st.base.size \in Nat
      /\ st.size \in Nat /\ Len(st.base.data) <= st.base.size /\ st.base.size <= st.size
      /\ st \in StateType
  BY <1>1, StateIs DEF Sound, FileWithin
<1>3. f \in FileType /\ f.data = st.base.data /\ f.size = st.base.size
      /\ (due.left = 0 => f.pos = 0) /\ (due.left # 0 => f = st.base)
  BY <1>2 DEF FileType
<1>4. base' = f /\ blocks' = st.blocks /\ size' = st.size /\ count' = st.count /\ padding' = due
  BY DEF Becomes
<1> HIDE DEF f
<1>5. /\ Holds(new, con, due) /\ new.base = f /\ new.blocks = st.blocks
      /\ new.size = st.size /\ new.count = st.count
  <2>1. CASE due.left = 0
    <3>1. Len(f.data) <= f.size /\ f.size <= st.size /\ f.pos <= st.size
      BY <1>2, <1>3, <2>1
    <3>2. /\ Good(new, con) /\ new.base = f /\ new.blocks = st.blocks
          /\ new.size = st.size /\ new.count = st.count
      BY <1>1, <1>3, <2>1, <3>1, FileGood
    <3> HIDE DEF new
    <3> QED
      BY <1>1, <2>1, <3>2 DEF Holds
  <2>2. CASE due.left # 0
    <3>1. new = st
      BY <1>2, <1>3, <2>2 DEF StateType
    <3> HIDE DEF new
    <3> QED
      BY <1>1, <1>3, <2>2, <3>1
  <2> QED
    BY <2>1, <2>2
<1>6. new = [base |-> f, blocks |-> st.blocks, size |-> st.size, count |-> st.count]
  BY <1>2 DEF StateType
<1> HIDE DEF new
<1>7. State' = new
  BY <1>4, <1>6 DEF State
<1>8. IInv'
  BY <1>4, <1>5, <1>7 DEF IInv
<1>9. FileFollows(base, f, content, con)
  BY <1>1, <1>3 DEF FileFollows
<1>10. \A q \in Promised!Places :
          \/ FileContent(base)'[q] \in {FileContent(base)[q], content[q], content'[q]}
          \/ FileContent(base)[q] = Beyond /\ FileContent(base)'[q] = Zero
  <2> TAKE q \in Promised!Places
  <2>1. q \in 0 .. Limit - 1
    BY DEF Promised!Places
  <2>2. \/ FileContent(f)[q] \in {FileContent(base)[q], content[q], con[q]}
        \/ FileContent(base)[q] = Beyond /\ FileContent(f)[q] = Zero
    BY <1>1, <1>3, <1>9, <2>1, CellsFollow
  <2>3. FileContent(base)' = FileContent(f)
    BY <1>4 DEF FileContent
  <2> QED
    BY <2>2, <2>3
<1>11. blocks' = << >> => Promised!Level(FileContent(base)', content')
  <2> SUFFICES ASSUME blocks' = << >> PROVE Promised!Level(FileContent(base)', content')
    OBVIOUS
  <2>1. new.blocks = << >>
    BY <1>4, <1>5
  <2>2. Good(new, con)
    BY <1>5, <2>1 DEF Holds, Pending
  <2>3. Promised!Level(FileContent(new.base), con)
    BY <2>1, <2>2, AllLevel
  <2>4. FileContent(base)' = FileContent(f)
    BY <1>4 DEF FileContent
  <2> QED
    BY <1>5, <2>3, <2>4
<1>12. Promised!Follows
  BY <1>10, <1>11 DEF Promised!Follows, Promised!Moves
<1> QED
  BY <1>8, <1>12

\* SetPos within the stream.
LEMMA AtIs ==
    ASSUME Good(State, content), NEW p \in Nat, p <= size
    PROVE  /\ Good(At(p), content) /\ At(p).blocks = blocks /\ At(p).size = size
           /\ At(p).count = count /\ At(p).base \in FileType /\ base \in FileType
           /\ FileFollows(base, At(p).base, content, content)
<1> DEFINE f == [base EXCEPT !.pos = p]
<1>1. /\ base \in FileType /\ State \in StateType /\ size \in Nat
      /\ Len(base.data) \in Nat /\ base.size \in Nat
      /\ Len(base.data) <= base.size /\ base.size <= size
  BY StateIs, StateOf DEF Good, Sound, FileWithin
<1>2. f \in FileType /\ f.data = base.data /\ f.size = base.size /\ f.pos = p
  BY <1>1 DEF FileType
<1>3. At(p) = [State EXCEPT !.base = f]
  BY DEF At, State
<1> HIDE DEF f
<1> DEFINE new == At(p)
<1>4. new = [State EXCEPT !.base = f]
  BY <1>3
<1> HIDE DEF new
<1>5. /\ Good(new, content) /\ new.base = f /\ new.blocks = State.blocks
      /\ new.size = State.size /\ new.count = State.count
  <2>1. /\ f \in FileType /\ f.data = State.base.data /\ Len(f.data) <= f.size
        /\ f.size <= State.size /\ f.pos <= State.size
    BY <1>1, <1>2, StateOf
  <2> QED
    BY <1>1, <1>4, <2>1, FileGood
<1>6. FileFollows(base, f, content, content)
  BY <1>1, <1>2, FollowsSame
<1> QED
  BY <1>1, <1>2, <1>5, <1>6, StateOf DEF new

-----------------------------------------------------------------------------
(* Writes *)

\* A write goes from st, which is the stream but for the position of the file.
Begins(st) ==
    /\ st \in StateType /\ st.size = size /\ st.count = count
    /\ FileFollows(base, st.base, content, content)

\* There is room for a write of n bytes at p, and for the padding after it.
Fits(p, n, left) ==
    /\ count + n + left <= MaxCount + Limit
    /\ left # 0 => /\ n # 0 /\ p + n + left <= Limit
                   /\ p + n + left <= size \/ p = size

\* The first m pieces of a write are cached in s, and the file follows.
IsPutTo(s, p, data, m) ==
    LET k == PutTo(p, Len(data), m)
    IN /\ k \in 0 .. Len(data) /\ m \in 0 .. Len(data)
       /\ s.size = Upper(size, p + k) /\ s.count \in Nat /\ s.count <= count + Len(data)
       /\ Sound(s, Begun(content, p, data, k)) =>
             FileFollows(base, s.base, content, Begun(content, p, data, k))

LEMMA PutLeads ==
    ASSUME IInv, NEW st, Begins(st), NEW p \in Nat, NEW data \in Seq(Bytes),
           Follows(size, p, data), NEW m \in 0 .. PieceCount(p, Len(data)),
           NEW s, IsBegun(s, st, content, p, data, m)
    PROVE  IsPutTo(s, p, data, m)
<1> DEFINE n == Len(data)
           c == PieceCount(p, n)
           k == PutTo(p, n, m)
           con == Begun(content, p, data, k)
<1>1. n \in Nat /\ k \in 0 .. n
  BY PutToIs
<1>2. m \in 0 .. n
  <2>1. c \in 0 .. n /\ m \in 0 .. c
    BY PieceCountIs
  <2> HIDE DEF c, n
  <2> QED
    BY <1>1, <2>1
<1>3. /\ s \in StateType /\ s.size = Upper(size, p + k) /\ s.count \in Nat
      /\ s.count <= count + m /\ FileFollows(st.base, s.base, content, con)
  BY DEF IsBegun, Begins
<1>4. /\ base \in FileType /\ st.base \in FileType /\ s.base \in FileType /\ count \in Nat
      /\ FileFollows(base, st.base, content, content) /\ Len(base.data) <= Limit
  BY <1>3, StateIs, StateOf, AlwaysSound, FileShort DEF Begins, Sound
<1> HIDE DEF n, k, con
<1>5. s.count <= count + n
  BY <1>1, <1>2, <1>3, <1>4
<1>6. ASSUME Sound(s, con) PROVE FileFollows(base, s.base, content, con)
  <2>1. Len(s.base.data) <= Limit /\ Len(s.base.data) \in Nat /\ Len(st.base.data) \in Nat
    BY <1>4, <1>6, FileShort DEF FileType
  <2>2. Len(st.base.data) <= Limit
    <3>1. Len(st.base.data) <= Len(s.base.data)
      BY <1>3 DEF FileFollows
    <3> QED
      BY <2>1, <3>1, Constants
  <2>3. \A q \in 0 .. Limit - 1 : content[q] \in {content[q], con[q]}
    OBVIOUS
  <2>4. FileFollows(base, st.base, content, con)
    BY <1>4, <2>2, <2>3, FollowsWider
  <2> QED
    BY <1>3, <1>4, <2>4, FollowsOn
<1> QED
  BY <1>1, <1>2, <1>3, <1>5, <1>6 DEF IsPutTo, n, k, con

\* A write that ends: it stands for the content written, unless padding is due where it
\* ends within a block.
LEMMA PutsIs ==
    ASSUME IInv, NEW st, Begins(st), NEW p \in Nat, NEW data \in Seq(Bytes), NEW left \in Nat,
           Follows(size, p, data), Fits(p, Len(data), left), Puts(st, p, data, left),
           IsBegun(PutAll(st, p, data), st, content, p, data, PieceCount(p, Len(data))),
           \/ left # 0 /\ p = size /\ ~Aligned(p + Len(data))
           \/ GoodBegun(PutAll(st, p, data), content, p, data, PieceCount(p, Len(data)))
    PROVE  /\ IInv' /\ Promised!Follows
           /\ content' = Begun(content, p, data, Len(data))
<1> DEFINE n == Len(data)
           c == PieceCount(p, n)
           s == PutAll(st, p, data)
           con == Begun(content, p, data, n)
           due == Due(p + n, left)
<1>1. n \in Nat /\ c \in 0 .. n /\ c \in 0 .. c /\ (n # 0 => c # 0) /\ PutTo(p, n, c) = n
  <2>1. n \in Nat
    OBVIOUS
  <2> HIDE DEF n
  <2>2. c \in 0 .. n /\ (n # 0 => c >= 1)
    BY <2>1, PieceCountIs
  <2>3. c \in 0 .. c
    <3> HIDE DEF c
    <3> QED
      BY <2>1, <2>2
  <2> QED
    BY <2>1, <2>2, <2>3, PutToIs
<1>2. Becomes(s, due) /\ content' = con
  <2>1. SubSeq(data, 1, n) = data
    OBVIOUS
  <2> QED
    BY <2>1 DEF Puts, Begun
<1>3. IsBegun(s, st, content, p, data, c)
      /\ ((left # 0 /\ p = size /\ ~Aligned(p + n)) \/ GoodBegun(s, content, p, data, c))
  OBVIOUS
<1>4. /\ size \in Nat /\ count \in Nat /\ Limit \in Nat /\ MaxCount \in Nat
      /\ p <= size /\ p + n <= Limit /\ Fits(p, n, left) /\ st.size = size
  BY StateIs, StateOf, Constants, AlwaysSound DEF Sound, Follows, Begins
<1> HIDE DEF s
<1>5. /\ s.size = Upper(size, p + n) /\ s.count \in Nat /\ s.count <= count + n
      /\ Sound(s, con) => FileFollows(base, s.base, content, con)
  <2>1. IsPutTo(s, p, data, c)
    BY <1>1, <1>3, PutLeads
  <2> QED
    BY <1>1, <2>1 DEF IsPutTo
<1>6. c # 0 /\ p = size /\ ~Aligned(p + n) => Pending(s, con)
  BY <1>1, <1>3, <1>4 DEF IsBegun
<1>7. GoodBegun(s, content, p, data, c) => Good(s, con)
  BY <1>1 DEF GoodBegun
<1> HIDE DEF c, con, due, n
<1>8. p + n \in Nat
  BY <1>1
<1>9. /\ due \in [left : Nat, pos : Nat] /\ due.left = left
      /\ (left = 0 => due = Done) /\ (left # 0 => due.pos = p + n)
  BY <1>8, DueIs DEF due
<1>10. DueOK(due, s.size)
  <2> SUFFICES ASSUME left # 0
               PROVE  /\ p + n + left <= Limit /\ p + n <= s.size
                      /\ p + n + left <= s.size \/ p + n = s.size
    BY <1>9 DEF DueOK
  <2>1. p + n + left <= Limit /\ (p + n + left <= size \/ p = size)
    BY <1>4 DEF Fits
  <2> QED
    BY <1>1, <1>4, <1>5, <2>1 DEF Upper
<1>11. s.count + due.left <= MaxCount + Limit
  <2>1. count + n + left <= MaxCount + Limit
    BY <1>4 DEF Fits
  <2> QED
    BY <1>1, <1>4, <1>5, <1>9, <2>1
<1>12. left # 0 /\ p + n = s.size => p = size
  <2> SUFFICES ASSUME left # 0, p + n = s.size PROVE p = size
    OBVIOUS
  <2>1. p + n + left <= size \/ p = size
    BY <1>4 DEF Fits
  <2>2. size <= p + n
    BY <1>1, <1>4, <1>5 DEF Upper
  <2> QED
    BY <1>1, <1>4, <2>1, <2>2
<1>13. \/ Good(s, con) /\ (due.left # 0 /\ due.pos = s.size => Aligned(due.pos))
       \/ Pending(s, con) /\ due.left # 0 /\ due.pos = s.size
  <2>1. CASE left # 0 /\ p = size /\ ~Aligned(p + n)
    <3>1. n # 0
      BY <1>4, <2>1 DEF Fits
    <3>2. Pending(s, con)
      BY <1>1, <1>6, <2>1, <3>1
    <3>3. s.size = p + n
      BY <1>1, <1>4, <1>5, <2>1 DEF Upper
    <3> QED
      BY <1>9, <2>1, <3>2, <3>3
  <2>2. CASE ~(left # 0 /\ p = size /\ ~Aligned(p + n))
    <3>1. Good(s, con)
      BY <1>3, <1>7, <2>2
    <3>2. left # 0 /\ p + n = s.size => Aligned(p + n)
      BY <1>12, <2>2
    <3> QED
      BY <1>9, <3>1, <3>2
  <2> QED
    BY <2>1, <2>2
<1>14. Sound(s, con)
  BY <1>13 DEF Good, Pending
<1>15. Leads(s, con, due)
  BY <1>5, <1>10, <1>11, <1>13, <1>14 DEF Leads, Holds
<1>16. IInv' /\ Promised!Follows
  BY <1>2, <1>15, StepIs
<1> QED
  BY <1>2, <1>16 DEF con, n

\* Where a write may stop, after its first m pieces: they stand, and padding that is due
\* begins with a block.
Stops(st, p, data, left, m) ==
    LET s == Put(st, p, data, m)
    IN Found(s.blocks, PieceFrom(p, m + 1)) = {} =>
          /\ IsBegun(s, st, content, p, data, m) /\ GoodBegun(s, content, p, data, m)
          /\ m = 0 /\ left # 0 /\ p = size => Aligned(p)

\* A write that stops at a block that cannot be read: it stands for what precedes it.
LEMMA PutFailsIs ==
    ASSUME IInv, NEW st, Begins(st), NEW p \in Nat, NEW data \in Seq(Bytes), NEW left \in Nat,
           Follows(size, p, data), Fits(p, Len(data), left), PutFails(st, p, data, left),
           \A m \in 0 .. PieceCount(p, Len(data)) - 1 : Stops(st, p, data, left, m)
    PROVE  /\ IInv' /\ Promised!Follows
           /\ \E k \in 0 .. Len(data) : content' = Begun(content, p, data, k)
<1> DEFINE n == Len(data)
           c == PieceCount(p, n)
<1>1. PICK m \in 0 .. c - 1 :
         LET put == Put(st, p, data, m)
             stop == PieceFrom(p, m + 1)
         IN /\ Found(put.blocks, stop) = {}
            /\ Becomes([Dropped(put) EXCEPT !.base = Stretched(@)], Due(stop, left))
            /\ content' = Patched(content, p, SubSeq(data, 1, stop - p))
  BY DEF PutFails
<1>2. n \in Nat /\ m \in 0 .. c /\ m < c /\ m \in Nat
  <2>1. n \in Nat
    OBVIOUS
  <2> HIDE DEF n
  <2>2. c \in 0 .. n
    BY <2>1, PieceCountIs
  <2> HIDE DEF c
  <2> QED
    BY <2>1, <2>2
<1> DEFINE s == Put(st, p, data, m)
           k == PutTo(p, n, m)
           con == Begun(content, p, data, k)
           room == Dropped(s)
           new == [room EXCEPT !.base = Stretched(room.base)]
           due == Due(p + k, left)
<1>3. k \in 0 .. n /\ PieceFrom(p, m + 1) = p + k /\ (m # 0 => Aligned(p + k))
  BY <1>2, PutToIs
<1>4. (p + k) - p = k
  <2> HIDE DEF k
  <2> QED
    BY <1>2, <1>3
<1>5. Becomes(new, due) /\ content' = con
  BY <1>1, <1>3, <1>4 DEF Begun
<1>6. /\ IsBegun(s, st, content, p, data, m) /\ GoodBegun(s, content, p, data, m)
      /\ m = 0 /\ left # 0 /\ p = size => Aligned(p)
  BY <1>1 DEF Stops
<1>7. Good(s, con)
  BY <1>6 DEF GoodBegun
<1>8. /\ size \in Nat /\ count \in Nat /\ Limit \in Nat /\ MaxCount \in Nat
      /\ p <= size /\ p + n <= Limit /\ Fits(p, n, left)
  BY StateIs, StateOf, Constants, AlwaysSound DEF Sound, Follows
<1>9. m = 0 => p + k = p
  BY DEF PutTo
<1> HIDE DEF s
<1>10. /\ s.size = Upper(size, p + k) /\ s.count \in Nat /\ s.count <= count + n
       /\ FileFollows(base, s.base, content, con)
  <2>1. IsPutTo(s, p, data, m)
    BY <1>2, <1>6, PutLeads
  <2> QED
    BY <1>7, <2>1 DEF IsPutTo, Good
<1> HIDE DEF c, con, due, n, k
<1>11. /\ Good(room, con) /\ room.size = s.size /\ room.count \in 0 .. s.count
       /\ FileFollows(s.base, room.base, con, con)
  BY <1>7, DroppedIs
<1> HIDE DEF room
<1>12. /\ Good(new, con) /\ new.base = Stretched(room.base)
       /\ new.size = room.size /\ new.count = room.count
  BY <1>11, StretchGood
<1> HIDE DEF new
<1>13. /\ due \in [left : Nat, pos : Nat] /\ due.left = left
       /\ (left = 0 => due = Done) /\ (left # 0 => due.pos = p + k)
  <2>1. p + k \in Nat
    BY <1>2, <1>3
  <2> QED
    BY <2>1, DueIs DEF due
<1>14. new.size = Upper(size, p + k) /\ new.count \in Nat /\ new.count <= count + n
  BY <1>8, <1>2, <1>10, <1>11, <1>12
<1>15. DueOK(due, new.size)
  <2> SUFFICES ASSUME left # 0
               PROVE  /\ p + k + left <= Limit /\ p + k <= new.size
                      /\ p + k + left <= new.size \/ p + k = new.size
    BY <1>13 DEF DueOK
  <2>1. p + n + left <= Limit /\ (p + n + left <= size \/ p = size)
    BY <1>8 DEF Fits
  <2> QED
    BY <1>2, <1>3, <1>8, <1>14, <2>1 DEF Upper
<1>16. new.count + due.left <= MaxCount + Limit
  <2>1. count + n + left <= MaxCount + Limit
    BY <1>8 DEF Fits
  <2> QED
    BY <1>2, <1>8, <1>13, <1>14, <2>1
<1>17. due.left # 0 /\ due.pos = new.size => Aligned(due.pos)
  <2> SUFFICES ASSUME left # 0, p + k = new.size PROVE Aligned(p + k)
    BY <1>13
  <2>1. CASE m # 0
    BY <1>3, <2>1
  <2>2. CASE m = 0
    <3>1. p = size
      BY <1>8, <1>9, <1>14, <2>2 DEF Upper
    <3> QED
      BY <1>6, <1>9, <2>2, <3>1
  <2> QED
    BY <2>1, <2>2
<1>18. FileFollows(base, new.base, content, con)
  <2>1. /\ base \in FileType /\ s.base \in FileType /\ room.base \in FileType
        /\ new.base \in FileType /\ Len(new.base.data) <= Limit
    BY <1>7, <1>11, <1>12, AlwaysSound, FileShort, StateOf DEF Good
  <2>2. FileFollows(room.base, new.base, con, con)
    BY <1>12, <2>1, FollowsSame, Stretches
  <2>3. FileFollows(s.base, new.base, con, con)
    BY <1>11, <2>1, <2>2, FollowsOn
  <2>4. FileFollows(s.base, new.base, content, con)
    <3>1. \A q \in 0 .. Limit - 1 : con[q] \in {content[q], con[q]}
      OBVIOUS
    <3> QED
      BY <2>1, <2>3, <3>1, FollowsWider
  <2> QED
    BY <1>10, <2>1, <2>4, FollowsOn
<1>19. Leads(new, con, due)
  BY <1>12, <1>15, <1>16, <1>17, <1>18 DEF Leads, Holds
<1>20. IInv' /\ Promised!Follows
  BY <1>5, <1>19, StepIs
<1>21. content' = Begun(content, p, data, k) /\ k \in 0 .. Len(data)
  BY <1>3, <1>5 DEF con, n
<1> QED
  BY <1>20, <1>21

\* The invariant is kept, the file follows, and some of the data is written.
Writes(p, data) ==
    /\ IInv' /\ Promised!Follows
    /\ \E k \in 0 .. Len(data) : content' = Begun(content, p, data, k)

\* A write from a stream that stands for its content.
LEMMA WriteGood ==
    ASSUME IInv, NEW st, Begins(st), Good(st, content), NEW p \in Nat, NEW data \in Seq(Bytes),
           NEW left \in Nat, Follows(size, p, data), Fits(p, Len(data), left),
           Long(size, p, data),
           \/ Puts(st, p, data, left)
           \/ PutFails(st, p, data, left) /\ (left # 0 /\ p = size => Aligned(p))
    PROVE  Writes(p, data)
<1> DEFINE c == PieceCount(p, Len(data))
<1>1. c \in Nat /\ c \in 0 .. c /\ \A m \in 0 .. c - 1 : m \in 0 .. c
  <2>1. c \in 0 .. Len(data)
    BY PieceCountIs
  <2> HIDE DEF c
  <2> QED
    BY <2>1
<1>2. ASSUME NEW m \in 0 .. c
      PROVE  /\ IsBegun(Put(st, p, data, m), st, content, p, data, m)
             /\ GoodBegun(Put(st, p, data, m), content, p, data, m)
  <2>1. Follows(st.size, p, data) /\ Long(st.size, p, data)
    BY DEF Begins
  <2> QED
    BY <2>1, PutGood
<1>3. CASE Puts(st, p, data, left)
  <2>1. /\ IsBegun(PutAll(st, p, data), st, content, p, data, c)
        /\ GoodBegun(PutAll(st, p, data), content, p, data, c)
    BY <1>1, <1>2 DEF PutAll
  <2>2. IInv' /\ Promised!Follows /\ content' = Begun(content, p, data, Len(data))
    BY <1>3, <2>1, PutsIs
  <2>3. Len(data) \in 0 .. Len(data)
    OBVIOUS
  <2> QED
    BY <2>2, <2>3 DEF Writes
<1>4. CASE PutFails(st, p, data, left) /\ (left # 0 /\ p = size => Aligned(p))
  <2>1. \A m \in 0 .. c - 1 : Stops(st, p, data, left, m)
    BY <1>1, <1>2, <1>4 DEF Stops
  <2> QED
    BY <1>4, <2>1, PutFailsIs DEF Writes
<1> QED
  BY <1>3, <1>4

\* SetPos before a write.
LEMMA AtBegins ==
    ASSUME IInv, Quiet, NEW p \in Nat, p <= size
    PROVE  Begins(At(p)) /\ Good(At(p), content)
<1>1. /\ Good(At(p), content) /\ At(p).size = size /\ At(p).count = count
      /\ FileFollows(base, At(p).base, content, content)
  BY QuietGood, AtIs
<1> DEFINE st == At(p)
<1> HIDE DEF st
<1>2. Good(st, content) => st \in StateType
  BY DEF Good, Sound
<1> QED
  BY <1>1, <1>2 DEF Begins, st

\* What the abstract stream takes for written.
LEMMA AsPromised ==
    ASSUME NEW r \in Asked, Writes(r.pos, r.data)
    PROVE  IInv' /\ Promised!Write
<1>1. PICK k \in 0 .. Len(r.data) : content' = Begun(content, r.pos, r.data, k)
  BY DEF Writes
<1>2. content' = Promised!Patched(content, r.pos, SubSeq(r.data, 1, k))
  BY <1>1 DEF Begun, Patched, Promised!Patched, Promised!Places
<1> QED
  BY <1>2 DEF Writes, Promised!Write

\* The first sector of the file.
LEMMA CreateIs == ASSUME IInv, Create PROVE IInv' /\ Promised!Write
<1> DEFINE data == Sector0
<1>1. /\ SectorSize \in Nat /\ Zero \in Bytes /\ Limit \in Nat /\ MaxCount \in Nat
      /\ BlockSize \in Nat
  BY BlockWriteStreamAssumption
<1>2. data \in Seq(Bytes) /\ Len(data) = SectorSize
  BY <1>1 DEF Sector0
<1>3. [pos |-> 0, data |-> data] \in Asked
  BY DEF Asked
<1>4. /\ Quiet /\ count < MaxCount /\ size = 0 /\ SectorSize <= Limit
      /\ Puts(At(0), 0, data, 0)
  BY DEF Create, Room
<1> HIDE DEF data
<1>5. count \in Nat
  BY StateIs, StateOf, AlwaysSound DEF Sound
<1>6. Follows(size, 0, data) /\ Fits(0, Len(data), 0)
  BY <1>1, <1>2, <1>4, <1>5 DEF Follows, Fits
<1>7. Long(size, 0, data)
  <2>1. 0 = 0 * BlockSize
    BY <1>1
  <2>2. Aligned(0)
    BY <2>1 DEF Aligned
  <2> QED
    BY <2>2 DEF Long
<1>8. Begins(At(0)) /\ Good(At(0), content)
  BY <1>4, AtBegins
<1>9. Writes(0, data)
  BY <1>2, <1>4, <1>6, <1>7, <1>8, WriteGood
<1> QED
  BY <1>3, <1>9, AsPromised

\* The header goes into the first sector.
LEMMA HeaderIs ==
    ASSUME IInv, NEW h \in Headers, WriteHeader(h) \/ WriteHeaderFails(h)
    PROVE  IInv' /\ Promised!Write
<1>1. /\ SectorSize \in Nat /\ h \in Seq(Bytes) /\ Len(h) <= SectorSize
      /\ Limit \in Nat /\ MaxCount \in Nat
  BY BlockWriteStreamAssumption
<1>2. [pos |-> 0, data |-> h] \in Asked
  BY DEF Asked
<1>3. /\ Quiet /\ count < MaxCount /\ size >= SectorSize
      /\ Puts(At(0), 0, h, 0) \/ PutFails(At(0), 0, h, 0)
  BY DEF WriteHeader, WriteHeaderFails, HeaderAllowed, Room
<1>4. count \in Nat /\ size \in Nat /\ size <= Limit
  BY StateIs, StateOf, AlwaysSound, FileShort DEF Sound
<1>5. Len(h) \in Nat /\ Len(h) <= size
  BY <1>1, <1>3, <1>4
<1>6. Follows(size, 0, h) /\ Fits(0, Len(h), 0) /\ Long(size, 0, h)
  BY <1>1, <1>3, <1>4, <1>5 DEF Follows, Fits, Long
<1>7. Begins(At(0)) /\ Good(At(0), content)
  BY <1>3, <1>4, AtBegins
<1>8. Writes(0, h)
  BY <1>1, <1>3, <1>6, <1>7, WriteGood
<1> QED
  BY <1>2, <1>8, AsPromised

\* A few bytes from a sector's start do not reach the end of a block.
LEMMA WithinSector ==
    ASSUME NEW p \in Nat, p % SectorSize = 0, NEW n \in Nat, n >= 1, n < 3
    PROVE  ~Aligned(p + n) /\ PieceCount(p, n) = 1
<1>1. SectorSize \in Nat /\ SectorSize >= 3 /\ BlockSize \in Nat /\ BlockSize % SectorSize = 0
  BY BlockWriteStreamAssumption
<1>2. ~Aligned(p + n)
  <2> SUFFICES ASSUME NEW d \in Nat, p + n = d * BlockSize PROVE FALSE
    BY DEF Aligned
  <2> DEFINE e == BlockSize \div SectorSize
             f == p \div SectorSize
             g == d * e
  <2>1. e \in Nat /\ f \in Nat /\ BlockSize = e * SectorSize /\ p = f * SectorSize
    BY <1>1
  <2> HIDE DEF e, f
  <2>2. g \in Nat /\ g * SectorSize = d * BlockSize
    <3>1. d * (e * SectorSize) = (d * e) * SectorSize /\ d * e \in Nat
      BY <1>1, <2>1
    <3> QED
      BY <2>1, <3>1
  <2> HIDE DEF g
  <2>3. g * SectorSize = f * SectorSize + n
    BY <2>1, <2>2
  <2>4. CASE g <= f
    <3>1. g * SectorSize <= f * SectorSize
      BY <1>1, <2>1, <2>2, <2>4
    <3>2. g * SectorSize \in Nat /\ f * SectorSize \in Nat
      BY <1>1, <2>1, <2>2
    <3> QED
      BY <2>3, <3>1, <3>2
  <2>5. CASE g > f
    <3>1. (f + 1) * SectorSize <= g * SectorSize
      BY <1>1, <2>1, <2>2, <2>5
    <3>2. (f + 1) * SectorSize = f * SectorSize + SectorSize /\ f * SectorSize \in Nat
          /\ g * SectorSize \in Nat
      BY <1>1, <2>1, <2>2
    <3> QED
      BY <1>1, <2>3, <3>1, <3>2
  <2> QED
    BY <2>1, <2>2, <2>4, <2>5
<1>3. PieceCount(p, n) = 1
  <2> DEFINE c == PieceCount(p, n)
  <2>1. c \in 0 .. n /\ c >= 1
    BY PieceCountIs
  <2>2. PutTo(p, n, 1) = n \/ PutTo(p, n, 1) >= 3
    BY FirstPiece
  <2>3. ASSUME 1 < c PROVE FALSE
    <3>1. 1 \in 0 .. PieceCount(p, n) /\ 1 < PieceCount(p, n)
      <4> HIDE DEF c
      <4>1. 1 \in 0 .. c
        BY <2>1, <2>3
      <4> QED
        BY <2>3, <4>1 DEF c
    <3>2. /\ PutTo(p, n, 1) \in 0 .. n /\ PutTo(p, n, 1 + 1) \in 0 .. n
          /\ PutTo(p, n, 1) < PutTo(p, n, 1 + 1)
      BY <3>1, PutToIs
    <3> DEFINE x == PutTo(p, n, 1)
               y == PutTo(p, n, 1 + 1)
    <3> HIDE DEF x, y
    <3>3. x \in 0 .. n /\ y \in 0 .. n /\ x < y /\ (x = n \/ x >= 3)
      BY <2>2, <3>2 DEF x, y
    <3> QED
      BY <3>3
  <2> HIDE DEF c
  <2>4. c = 1
    BY <2>1, <2>3
  <2> QED
    BY <2>4 DEF c
<1> QED
  BY <1>2, <1>3

\* What a request to write a block is.
LEMMA RequestIs ==
    ASSUME NEW r \in Requests
    PROVE  /\ r.pos \in Nat /\ r.room \in Nat /\ r.data \in Seq(Bytes) /\ Len(r.data) \in Nat
           /\ Len(r.data) >= 1 /\ Len(r.data) <= r.room
           /\ r.pos % SectorSize = 0 /\ r.room % SectorSize = 0
           /\ SectorSize \in Nat /\ SectorSize >= 3 /\ Limit \in Nat /\ MaxCount \in Nat
           /\ [pos |-> r.pos, data |-> r.data] \in Asked
<1>1. /\ r.pos \in Nat /\ r.room \in Nat /\ r.data \in Seq(Bytes)
      /\ r.pos % SectorSize = 0 /\ r.room % SectorSize = 0 /\ Len(r.data) \in 1 .. r.room
      /\ SectorSize \in Nat /\ SectorSize >= 3 /\ Limit \in Nat /\ MaxCount \in Nat
  BY BlockWriteStreamAssumption
<1>2. [pos |-> r.pos, data |-> r.data] \in Asked
  BY DEF Asked
<1> QED
  BY <1>1, <1>2

\* Where padding follows, it goes up to the end of the block; the block fits.
LEMMA BlockFits ==
    ASSUME IInv, NEW r \in Requests, BlockAllowed(r)
    PROVE  /\ Follows(size, r.pos, r.data) /\ PaddingSize(r) \in Nat
           /\ Fits(r.pos, Len(r.data), 0) /\ Fits(r.pos, Len(r.data), PaddingSize(r))
           /\ r.pos = size => PaddingSize(r) = r.room - Len(r.data)
<1> DEFINE p == r.pos
           n == Len(r.data)
           room == r.room
           left == PaddingSize(r)
<1>1. /\ p \in Nat /\ n \in Nat /\ n >= 1 /\ room \in Nat /\ n <= room
      /\ SectorSize \in Nat /\ Limit \in Nat /\ MaxCount \in Nat
  BY RequestIs
<1>2. /\ count < MaxCount /\ p + room <= Limit /\ (p + room <= size \/ p = size)
  BY DEF BlockAllowed, Room
<1>3. count \in Nat /\ size \in Nat
  BY StateIs, StateOf, AlwaysSound DEF Sound
<1>4. /\ left = 0 \/ left = room - n
      /\ p + n >= Upper(size, p + n) - SectorSize => left = room - n
  BY DEF PaddingSize
<1> HIDE DEF p, n, room, left
<1>5. left \in Nat /\ n + left <= room /\ (left # 0 => p + n + left = p + room)
  BY <1>1, <1>4
<1>6. p = size => left = room - n
  BY <1>1, <1>3, <1>4 DEF Upper
<1>7. Follows(size, p, r.data)
  BY <1>1, <1>2, <1>3 DEF Follows, n
<1>8. Fits(p, n, left)
  BY <1>1, <1>2, <1>3, <1>5 DEF Fits
<1>9. Fits(p, n, 0)
  BY <1>1, <1>2, <1>3 DEF Fits
<1> QED
  BY <1>5, <1>6, <1>7, <1>8, <1>9 DEF p, n, room, left

\* The data of a block.
LEMMA BlockIsWritten ==
    ASSUME IInv, NEW r \in Requests, WriteBlock(r) \/ WriteBlockFails(r)
    PROVE  IInv' /\ Promised!Write
<1> DEFINE p == r.pos
           data == r.data
           n == Len(data)
           left == PaddingSize(r)
           st == At(p)
<1>1. /\ BlockAllowed(r) /\ Quiet
      /\ Puts(st, p, data, left) \/ PutFails(st, p, data, 0)
  BY DEF WriteBlock, WriteBlockFails, BlockAllowed
<1>2. /\ p \in Nat /\ data \in Seq(Bytes) /\ n \in Nat /\ n >= 1 /\ p % SectorSize = 0
      /\ n <= r.room /\ r.room \in Nat /\ r.room % SectorSize = 0
      /\ SectorSize \in Nat /\ SectorSize >= 3
      /\ [pos |-> p, data |-> data] \in Asked
  BY RequestIs
<1>3. /\ Follows(size, p, data) /\ left \in Nat /\ Fits(p, n, 0) /\ Fits(p, n, left)
      /\ p = size => left = r.room - n
  BY <1>1, BlockFits
<1>4. size \in Nat /\ p <= size /\ (p + n <= size \/ p = size)
  BY <1>3, StateIs, StateOf, AlwaysSound DEF Follows, Sound
<1>5. Begins(st) /\ Good(st, content) /\ 0 \in Nat
  BY <1>1, <1>2, <1>4, AtBegins
<1> HIDE DEF st, left, data, p
<1>6. CASE p + n <= size \/ n >= 3
  <2>1. Long(size, p, data)
    <3>1. n >= 3 => PutTo(p, n, 1) >= 3
      <4> DEFINE x == PutTo(p, n, 1)
      <4>1. x = n \/ x >= 3
        <5> HIDE DEF n
        <5> QED
          BY <1>2, FirstPiece
      <4> HIDE DEF x, n
      <4>2. n >= 3 => x >= 3
        BY <1>2, <4>1
      <4> QED
        BY <4>2 DEF x
    <3> QED
      BY <1>6, <3>1 DEF Long
  <2>2. Writes(p, data)
    BY <1>1, <1>2, <1>3, <1>5, <2>1, WriteGood
  <2>3. [pos |-> p, data |-> data] \in Asked
    BY <1>2
  <2> QED
    BY <2>2, <2>3, AsPromised
<1>7. CASE ~(p + n <= size) /\ n < 3
  <2>1. p = size /\ left = r.room - n
    BY <1>3, <1>4, <1>7
  <2>2. ~Aligned(p + n) /\ PieceCount(p, n) = 1
    BY <1>2, <1>7, WithinSector
  <2>3. left # 0
    <3>1. n % SectorSize = n
      BY <1>2, <1>7
    <3>2. n # r.room
      BY <1>2, <1>7, <3>1
    <3> QED
      BY <1>2, <2>1, <3>2
  <2>4. Follows(st.size, p, data)
    BY <1>3, <1>5 DEF Begins
  <2>5. CASE Puts(st, p, data, left)
    <3>1. IsBegun(Put(st, p, data, 1), st, content, p, data, 1)
      BY <1>2, <1>5, <2>2, <2>4, PutShort
    <3>2. IsBegun(PutAll(st, p, data), st, content, p, data, PieceCount(p, Len(data)))
      BY <2>2, <3>1 DEF PutAll
    <3>3. IInv' /\ Promised!Follows /\ content' = Begun(content, p, data, Len(data))
      BY <1>2, <1>3, <1>5, <2>1, <2>2, <2>3, <2>5, <3>2, PutsIs
    <3>4. Len(data) \in 0 .. Len(data)
      BY <1>2
    <3> QED
      BY <1>2, <3>3, <3>4, AsPromised DEF Writes
  <2>6. CASE PutFails(st, p, data, 0)
    <3>1. Put(st, p, data, 0) = st
      BY PutFirst
    <3>2. IsBegun(st, st, content, p, data, 0) /\ GoodBegun(st, content, p, data, 0)
      BY <1>2, <1>5, <2>4, BegunNone
    <3>3. \A m \in 0 .. PieceCount(p, Len(data)) - 1 : m = 0
      BY <2>2
    <3>4. \A m \in 0 .. PieceCount(p, Len(data)) - 1 : Stops(st, p, data, 0, m)
      BY <3>1, <3>2, <3>3 DEF Stops
    <3>5. Writes(p, data)
      BY <1>2, <1>3, <1>5, <2>6, <3>4, PutFailsIs DEF Writes
    <3> QED
      BY <1>2, <3>5, AsPromised
  <2> QED
    BY <1>1, <2>5, <2>6
<1> QED
  BY <1>2, <1>6, <1>7

\* A call for the padding: what it writes fits.
LEMMA PadsIs ==
    ASSUME IInv, ~Quiet
    PROVE  /\ padding.pos \in Nat /\ padding.left \in Nat /\ padding.left - Chunk \in Nat
           /\ Pads(Chunk) \in Seq(Bytes) /\ Len(Pads(Chunk)) = Chunk /\ Chunk >= 1
           /\ NoZero(Pads(Chunk))
           /\ Follows(size, padding.pos, Pads(Chunk))
           /\ Fits(padding.pos, Chunk, padding.left - Chunk)
           /\ [pos |-> padding.pos, data |-> Pads(Chunk)] \in Asked
<1> DEFINE p == padding.pos
           l == padding.left
           n == Chunk
<1>1. /\ l \in Nat /\ p \in Nat /\ l # 0
      /\ p + l <= Limit /\ p <= size /\ (p + l <= size \/ p = size)
      /\ count + l <= MaxCount + Limit
  <2>1. State.size = size /\ State.count = count
    BY StateOf
  <2> QED
    BY <2>1 DEF Quiet, IInv, Holds, DueOK
<1>2. /\ BlockSize \in Nat /\ BlockSize >= 1 /\ Limit \in Nat /\ MaxCount \in Nat
      /\ Pad \in Bytes /\ Pad # Zero
  BY Constants
<1>3. count \in Nat /\ size \in Nat
  BY StateIs, StateOf, AlwaysSound DEF Sound
<1>4. n \in Nat /\ n >= 1 /\ n <= l /\ n <= BlockSize
  BY <1>1, <1>2 DEF Chunk, Lower
<1> HIDE DEF n, l, p
<1>5. l - n \in Nat /\ count + n + (l - n) <= MaxCount + Limit /\ p + n + (l - n) = p + l
  BY <1>1, <1>2, <1>3, <1>4
<1>6. Pads(n) \in Seq(Bytes) /\ Len(Pads(n)) = n /\ NoZero(Pads(n))
  <2>1. Pads(n) \in Seq(Bytes) /\ Len(Pads(n)) = n
    BY <1>2, <1>4 DEF Pads
  <2>2. \A k \in 1 .. n : Pads(n)[k] # Zero
    BY <1>2 DEF Pads
  <2> QED
    BY <2>1, <2>2 DEF NoZero
<1>7. Follows(size, p, Pads(n))
  BY <1>1, <1>2, <1>3, <1>4, <1>6 DEF Follows
<1>8. Fits(p, n, l - n)
  BY <1>1, <1>4, <1>5 DEF Fits
<1>9. [pos |-> p, data |-> Pads(n)] \in Asked
  <2>1. p \in 0 .. Limit /\ n \in 0 .. BlockSize
    BY <1>1, <1>2, <1>3, <1>4
  <2> QED
    BY <2>1 DEF Asked
<1> QED
  BY <1>1, <1>4, <1>5, <1>6, <1>7, <1>8, <1>9 DEF n, l, p

\* The padding after a block.
LEMMA PaddingIsWritten ==
    ASSUME IInv, WritePadding \/ WritePaddingFails
    PROVE  IInv' /\ Promised!Write
<1> DEFINE p == padding.pos
           data == Pads(Chunk)
           left == padding.left - Chunk
           c == PieceCount(p, Len(data))
<1>1. /\ ~Quiet
      /\ Puts(State, p, data, left) \/ PutFails(State, p, data, left)
  BY DEF WritePadding, WritePaddingFails
<1>2. /\ p \in Nat /\ padding.left \in Nat /\ left \in Nat
      /\ data \in Seq(Bytes) /\ Len(data) = Chunk /\ Len(data) >= 1 /\ NoZero(data)
      /\ Follows(size, p, data) /\ Fits(p, Len(data), left)
      /\ [pos |-> p, data |-> data] \in Asked
  BY <1>1, PadsIs
<1>3. /\ Begins(State) /\ State.size = size /\ Sound(State, content) /\ size \in Nat
  <2>1. Sound(State, content) /\ base \in FileType
    BY StateIs, StateOf, AlwaysSound DEF Sound
  <2>2. FileFollows(base, base, content, content)
    BY <2>1, FollowsSame
  <2> QED
    BY <2>1, <2>2, StateIs, StateOf DEF Begins, Sound
<1>4. \/ Good(State, content) /\ (p = size => Aligned(p))
      \/ Pending(State, content) /\ p = size
  <2>1. padding.left # 0
    BY <1>1, <1>2 DEF IInv, Holds, DueOK, Quiet
  <2> QED
    BY <1>3, <2>1 DEF IInv, Holds
<1> HIDE DEF p, data, left
<1>5. CASE Good(State, content) /\ (p = size => Aligned(p))
  <2>1. Long(size, p, data)
    BY <1>2, <1>5 DEF Follows, Long
  <2>2. Writes(p, data)
    BY <1>1, <1>2, <1>3, <1>5, <2>1, WriteGood
  <2> QED
    BY <1>2, <2>2, AsPromised
<1>6. CASE Pending(State, content) /\ p = size
  <2>1. c \in Nat /\ c >= 1
    <3>1. Len(data) \in Nat /\ Len(data) # 0
      BY <1>2
    <3>2. c \in 0 .. Len(data) /\ c >= 1
      BY <1>2, <3>1, PieceCountIs
    <3> HIDE DEF c
    <3> QED
      BY <3>1, <3>2
  <2>2. ASSUME NEW m \in 1 .. c
        PROVE  /\ IsBegun(Put(State, p, data, m), State, content, p, data, m)
               /\ GoodBegun(Put(State, p, data, m), content, p, data, m)
    BY <1>2, <1>3, <1>6, PutPads
  <2>3. c \in 1 .. c
    <3> HIDE DEF c
    <3> QED
      BY <2>1
  <2>4. CASE Puts(State, p, data, left)
    <3>1. /\ IsBegun(PutAll(State, p, data), State, content, p, data, c)
          /\ GoodBegun(PutAll(State, p, data), content, p, data, c)
      BY <2>2, <2>3 DEF PutAll
    <3>2. IInv' /\ Promised!Follows /\ content' = Begun(content, p, data, Len(data))
      BY <1>2, <1>3, <2>4, <3>1, PutsIs
    <3>3. Len(data) \in 0 .. Len(data)
      BY <1>2
    <3> QED
      BY <1>2, <3>2, <3>3, AsPromised DEF Writes
  <2>5. CASE PutFails(State, p, data, left)
    <3>1. ASSUME NEW m \in 0 .. c - 1 PROVE Stops(State, p, data, left, m)
      <4>1. CASE m # 0
        <5>1. m \in 1 .. c
          <6> HIDE DEF c
          <6> QED
            BY <2>1, <3>1, <4>1
        <5> QED
          BY <2>2, <4>1, <5>1 DEF Stops
      <4>2. CASE m = 0
        <5>1. Put(State, p, data, 0) = State /\ PieceFrom(p, 0 + 1) = p
          BY PutFirst DEF PieceFrom
        <5>2. 1 \in Found(State.blocks, p)
          <6>1. State.blocks \in Seq(BlockType) /\ State.blocks # << >>
                /\ Contains(State.blocks[1], p)
            BY <1>3, <1>6, StateIs DEF Pending, Sound
          <6> QED
            BY <6>1 DEF Found
        <5> QED
          BY <4>2, <5>1, <5>2 DEF Stops
      <4> QED
        BY <4>1, <4>2
    <3>2. Writes(p, data)
      BY <1>2, <1>3, <2>5, <3>1, PutFailsIs DEF Writes
    <3> QED
      BY <1>2, <3>2, AsPromised
  <2> QED
    BY <1>1, <2>4, <2>5
<1> QED
  BY <1>4, <1>5, <1>6

-----------------------------------------------------------------------------
(* The other steps *)

\* A read, or a flush: nothing that can be read is another.
LEMMA Same ==
    ASSUME IInv, NEW st, Good(st, content), st.count <= MaxCount + Limit,
           FileFollows(base, st.base, content, content), Becomes(st, Done), content' = content
    PROVE  IInv' /\ Promised!ReadOrFlush
<1>1. Done = [left |-> 0, pos |-> 0] /\ st.count \in Nat
  BY StateIs DEF Done, Due, Good, Sound
<1>2. DueOK(Done, st.size)
  BY <1>1 DEF DueOK
<1>3. Done.left = 0 /\ st.count + Done.left <= MaxCount + Limit
  BY <1>1
<1>4. Leads(st, content, Done)
  BY <1>2, <1>3 DEF Leads, Holds
<1>5. IInv' /\ Promised!Follows
  BY <1>4, StepIs
<1> QED
  BY <1>5 DEF Promised!ReadOrFlush

LEMMA ReadIs ==
    ASSUME IInv, NEW r \in Reads, Read(r) PROVE IInv' /\ Promised!ReadOrFlush
<1> DEFINE p == r.pos
           got == Got(At(p), p, r.length)
<1>1. p \in Nat /\ r.length \in Nat
  BY BlockWriteStreamAssumption
<1>2. Quiet /\ Becomes(got.st, Done) /\ content' = content
  BY DEF Read
<1>3. Good(State, content) /\ base \in FileType /\ size \in Nat /\ count <= MaxCount + Limit
      /\ State \in StateType
  BY <1>2, QuietGood, StateIs, StateOf DEF Good, Sound
<1>4. CASE p <= size
  <2>1. /\ Good(At(p), content) /\ At(p).size = size /\ At(p).count = count
        /\ At(p).base \in FileType /\ FileFollows(base, At(p).base, content, content)
    BY <1>1, <1>3, <1>4, AtIs
  <2>2. /\ Good(got.st, content) /\ got.st.count = At(p).count
        /\ FileFollows(At(p).base, got.st.base, content, content)
    BY <1>1, <1>4, <2>1, GotIs
  <2> HIDE DEF got
  <2>3. FileFollows(base, got.st.base, content, content)
    <3>1. got.st.base \in FileType
      BY <2>2, FileShort DEF Good
    <3> QED
      BY <1>3, <2>1, <2>2, <3>1, FollowsOn
  <2> DEFINE new == got.st
  <2>4. Good(new, content) /\ new.count <= MaxCount + Limit
        /\ FileFollows(base, new.base, content, content) /\ Becomes(new, Done)
    BY <1>2, <1>3, <2>1, <2>2, <2>3
  <2> HIDE DEF new
  <2> QED
    BY <1>2, <2>4, Same
<1>5. CASE ~(p <= size)
  <2>1. At(p).size = size
    BY DEF At, State
  <2>2. got.st = At(p)
    <3> DEFINE st == At(p)
    <3>1. p > st.size
      BY <1>1, <1>3, <1>5, <2>1
    <3> HIDE DEF st
    <3>2. Got(st, p, r.length) = [st |-> st, data |-> << >>]
      BY <3>1 DEF Got
    <3>3. Got(st, p, r.length).st = st
      BY <3>2
    <3> QED
      BY <3>3 DEF st
  <2>3. Becomes(State, Done)
    <3>1. /\ At(p).base = [base EXCEPT !.pos = p] /\ At(p).blocks = blocks
          /\ At(p).size = size /\ At(p).count = count
      BY DEF At, State
    <3>2. [At(p).base EXCEPT !.pos = 0] = [base EXCEPT !.pos = 0]
      BY <1>3, <3>1 DEF FileType
    <3>3. Done.left = 0
      BY DEF Done, Due
    <3> QED
      BY <1>2, <2>2, <3>1, <3>2, <3>3, StateOf DEF Becomes
  <2>4. FileFollows(base, State.base, content, content)
    BY <1>3, FollowsSame, StateOf
  <2> QED
    BY <1>2, <1>3, <2>3, <2>4, Same, StateOf
<1> QED
  BY <1>4, <1>5

\* A flush of some of the blocks.
LEMMA FlushedLeads ==
    ASSUME IInv, Quiet, NEW m \in 0 .. Len(blocks)
    PROVE  LET new == Flushed(State, m)
           IN /\ Good(new, content) /\ new.count <= MaxCount + Limit
              /\ FileFollows(base, new.base, content, content)
              /\ Len(new.blocks) = Len(blocks) - m
<1>1. Good(State, content) /\ count <= MaxCount + Limit /\ m \in 0 .. Len(State.blocks)
  BY QuietGood, StateOf
<1> DEFINE new == Flushed(State, m)
<1>2. /\ Good(new, content) /\ new.count = State.count
      /\ FileFollows(State.base, new.base, content, content)
      /\ Len(new.blocks) = Len(State.blocks) - m
  BY <1>1, FlushedIs
<1> HIDE DEF new
<1> QED
  BY <1>1, <1>2, StateOf DEF new

\* Flush, whole or cut short by the time.
LEMMA FlushIs ==
    ASSUME IInv, Flush \/ FlushTimedOut PROVE IInv' /\ Promised!ReadOrFlush
<1>1. Len(blocks) \in Nat /\ Quiet
  BY StateIs, StateOf, AlwaysSound DEF Sound, Flush, FlushTimedOut
<1>2. PICK m \in 0 .. Len(blocks) : Becomes(Flushed(State, m), Done) /\ content' = content
  <2>1. CASE Flush
    <3>1. Len(blocks) \in 0 .. Len(blocks)
      BY <1>1
    <3> QED
      BY <2>1, <3>1, StateOf DEF Flush, FlushedAll
  <2>2. CASE FlushTimedOut
    <3>1. PICK m \in 1 .. Len(blocks) - 1 : Becomes(Flushed(State, m), Done) /\ content' = content
      BY <2>2 DEF FlushTimedOut
    <3>2. m \in 0 .. Len(blocks)
      BY <1>1
    <3> QED
      BY <3>1, <3>2
  <2> QED
    BY <2>1, <2>2
<1> DEFINE new == Flushed(State, m)
<1>3. /\ Good(new, content) /\ new.count <= MaxCount + Limit
      /\ FileFollows(base, new.base, content, content)
  BY <1>1, FlushedLeads
<1> HIDE DEF new
<1>4. Becomes(new, Done)
  BY <1>2 DEF new
<1> QED
  BY <1>2, <1>3, <1>4, Same

\* A stream opened over what the file holds stands for that.
LEMMA OpensIs ==
    ASSUME NEW data \in Seq(Bytes), Len(data) <= Limit, Opens(data),
           NEW f, f.data = data
    PROVE  /\ IInv' /\ content' = FileContent(f) /\ FileContent(base)' = FileContent(f)
           /\ blocks' = << >>
<1> DEFINE new == Opened(data)
           con == FileContent(f)
<1>1. /\ Good(new, con) /\ FileContent(new.base) = con
      /\ new.blocks = << >> /\ new.count = 0 /\ new.base.pos = 0
  BY OpenedGood
<1>2. Becomes(new, Done) /\ content' = con
  <2>1. Becomes(new, Done) /\ content' = FileContent(new.base)
    BY DEF Opens
  <2> QED
    BY <1>1, <2>1
<1> HIDE DEF new, con
<1>3. new \in StateType /\ new.base \in FileType
  <2>1. new \in StateType
    BY <1>1 DEF Good, Sound
  <2> QED
    BY <2>1, StateIs
<1>4. Done = [left |-> 0, pos |-> 0]
  BY DEF Done, Due
<1>5. [new.base EXCEPT !.pos = 0] = new.base
  BY <1>1, <1>3 DEF FileType
<1>6. /\ base' = new.base /\ blocks' = new.blocks /\ size' = new.size /\ count' = new.count
      /\ padding' = Done
  BY <1>2, <1>4, <1>5 DEF Becomes
<1>7. new = [base |-> new.base, blocks |-> new.blocks, size |-> new.size, count |-> new.count]
  BY <1>3 DEF StateType
<1>8. State' = new
  BY <1>6, <1>7 DEF State
<1>9. Holds(new, con, Done)
  <2>1. DueOK(Done, new.size)
    BY <1>4 DEF DueOK
  <2>2. Done.left = 0
    BY <1>4
  <2>3. new.count + Done.left <= MaxCount + Limit
    BY <1>1, <2>2, Constants
  <2> QED
    BY <1>1, <2>1, <2>2, <2>3 DEF Holds
<1>10. IInv'
  BY <1>2, <1>6, <1>8, <1>9 DEF IInv
<1>11. FileContent(base)' = FileContent(new.base)
  BY <1>6 DEF FileContent
<1> QED
  BY <1>1, <1>2, <1>6, <1>10, <1>11 DEF con

\* The stream is closed, and opened again over what it flushed.
LEMMA ReopenIs == ASSUME IInv, Reopen PROVE IInv' /\ Promised!Reopen
<1> DEFINE st == FlushedAll(State)
<1>1. Quiet /\ Opens(st.base.data)
  BY DEF Reopen
<1>2. /\ Good(st, content) /\ FileFollows(base, st.base, content, content)
      /\ Len(st.blocks) = 0
  <2>1. Len(blocks) \in Nat
    BY StateIs, StateOf, AlwaysSound DEF Sound
  <2>2. Len(blocks) \in 0 .. Len(blocks) /\ Len(blocks) - Len(blocks) = 0
    BY <2>1
  <2>3. LET new == Flushed(State, Len(blocks))
        IN /\ Good(new, content) /\ FileFollows(base, new.base, content, content)
           /\ Len(new.blocks) = Len(blocks) - Len(blocks)
    BY <1>1, <2>2, FlushedLeads
  <2>4. st = Flushed(State, Len(blocks))
    BY StateOf DEF FlushedAll
  <2> QED
    BY <2>2, <2>3, <2>4
<1> HIDE DEF st
<1>3. st.blocks = << >>
  <2>1. st.blocks \in Seq(BlockType)
    BY <1>2, StateIs DEF Good, Sound
  <2> QED
    BY <1>2, <2>1
<1>4. /\ st.base \in FileType /\ base \in FileType
      /\ st.base.data \in Seq(Bytes) /\ Len(st.base.data) <= Limit
  BY <1>2, StateIs, StateOf, AlwaysSound, FileShort DEF Good, Sound, FileType
<1> DEFINE f == st.base
<1>5. /\ IInv' /\ content' = FileContent(f) /\ FileContent(base)' = FileContent(f)
      /\ blocks' = << >>
  BY <1>1, <1>4, OpensIs
<1>6. Promised!Level(FileContent(f), content)
  BY <1>2, <1>3, AllLevel
<1>7. ASSUME NEW q \in Promised!Places
      PROVE  \/ FileContent(f)[q] \in {FileContent(base)[q], content[q], content[q]}
             \/ FileContent(base)[q] = Beyond /\ FileContent(f)[q] = Zero
  <2>1. q \in 0 .. Limit - 1
    BY DEF Promised!Places
  <2> QED
    BY <1>2, <1>4, <2>1, CellsFollow
<1> HIDE DEF f
<1>8. Promised!Moves(content, content)
  BY <1>5, <1>7 DEF Promised!Moves
<1>9. ~(blocks # << >>)'
  BY <1>5
<1> QED
  BY <1>5, <1>6, <1>8, <1>9 DEF Promised!Reopen

\* The program is stopped, and the stream opened over what the file holds.
LEMMA KillIs == ASSUME IInv, Kill PROVE IInv' /\ Promised!Kill
<1>1. base \in FileType /\ base.data \in Seq(Bytes) /\ Len(base.data) <= Limit
  BY FileShort, StateOf, AlwaysSound DEF FileType
<1>2. /\ IInv' /\ content' = FileContent(base) /\ FileContent(base)' = FileContent(base)
      /\ blocks' = << >>
  BY <1>1, OpensIs DEF Kill
<1> QED
  BY <1>2 DEF Promised!Kill

\* The cells of an empty file.
LEMMA NoCells == ASSUME NEW f, f.data = << >> PROVE FileContent(f) = Promised!Empty
<1>1. \A q \in 0 .. Limit - 1 : ~(q < Len(f.data))
  OBVIOUS
<1> QED
  BY <1>1 DEF FileContent, Promised!Empty, Promised!Places

\* The file is deleted, and an empty one opened.
LEMMA CreateNewIs == ASSUME IInv, CreateNew PROVE IInv' /\ Promised!CreateNew
<1> DEFINE f == [data |-> << >>]
<1>1. << >> \in Seq(Bytes) /\ Len(<< >>) <= Limit /\ f.data = << >>
  BY Constants
<1>2. FileContent(f) = Promised!Empty
  BY <1>1, NoCells
<1> HIDE DEF f
<1>3. /\ IInv' /\ content' = FileContent(f) /\ FileContent(base)' = FileContent(f)
      /\ blocks' = << >>
  BY <1>1, OpensIs DEF CreateNew
<1> QED
  BY <1>2, <1>3 DEF Promised!CreateNew

\* The first stream, over an empty file.
LEMMA InitIs == ASSUME Init PROVE IInv /\ Promised!Init
<1> DEFINE st == Opened(<< >>)
           con == FileContent(base)
<1>1. /\ base = st.base /\ blocks = st.blocks /\ size = st.size /\ count = st.count
      /\ content = con /\ padding = Done
  BY DEF Init
<1>2. << >> \in Seq(Bytes) /\ Len(<< >>) <= Limit /\ base.data = << >>
  BY <1>1, Constants DEF Opened
<1>3. Good(st, con) /\ st.blocks = << >> /\ st.count = 0
  BY <1>2, OpenedGood
<1>4. State = st
  BY <1>1 DEF State, Opened
<1> HIDE DEF st
<1>5. Done = [left |-> 0, pos |-> 0]
  BY DEF Done, Due
<1>6. DueOK(Done, st.size) /\ st.count + Done.left <= MaxCount + Limit
  BY <1>3, <1>5, Constants DEF DueOK
<1>7. IInv
  BY <1>1, <1>3, <1>4, <1>5, <1>6 DEF IInv, Holds
<1>8. con = Promised!Empty
  BY <1>2, NoCells
<1> QED
  BY <1>1, <1>3, <1>7, <1>8 DEF Promised!Init

-----------------------------------------------------------------------------
(* Every step *)

PromisedVars == <<content, FileContent(base), blocks # << >> >>

\* Every step keeps the invariant, and is one the promise allows.
LEMMA NextIs ==
    ASSUME IInv, [Next]_vars PROVE IInv' /\ [Promised!Next]_PromisedVars
<1>1. CASE Create
  BY <1>1, CreateIs DEF Promised!Next
<1>2. ASSUME NEW h \in Headers, WriteHeader(h) \/ WriteHeaderFails(h)
      PROVE  IInv' /\ Promised!Next
  BY <1>2, HeaderIs DEF Promised!Next
<1>3. ASSUME NEW r \in Requests, WriteBlock(r) \/ WriteBlockFails(r)
      PROVE  IInv' /\ Promised!Next
  BY <1>3, BlockIsWritten DEF Promised!Next
<1>4. CASE WritePadding \/ WritePaddingFails
  BY <1>4, PaddingIsWritten DEF Promised!Next
<1>5. ASSUME NEW r \in Reads, Read(r) PROVE IInv' /\ Promised!Next
  BY <1>5, ReadIs DEF Promised!Next
<1>6. CASE Flush \/ FlushTimedOut
  BY <1>6, FlushIs DEF Promised!Next
<1>7. CASE Reopen
  BY <1>7, ReopenIs DEF Promised!Next
<1>8. CASE Kill
  BY <1>8, KillIs DEF Promised!Next
<1>9. CASE CreateNew
  BY <1>9, CreateNewIs DEF Promised!Next
<1>10. CASE UNCHANGED vars
  <2>1. /\ base' = base /\ blocks' = blocks /\ size' = size /\ count' = count
        /\ padding' = padding /\ content' = content
    BY <1>10 DEF vars
  <2>2. State' = State
    BY <2>1 DEF State
  <2>3. IInv'
    BY <2>1, <2>2 DEF IInv
  <2>4. PromisedVars' = PromisedVars
    BY <2>1 DEF PromisedVars, FileContent
  <2> QED
    BY <2>3, <2>4
<1> QED
  BY <1>1, <1>2, <1>3, <1>4, <1>5, <1>6, <1>7, <1>8, <1>9, <1>10 DEF Next

\* After every step the stream stands for its content, or will once the padding that
\* is due has followed.
THEOREM StandsForContent == Spec => []IInv
<1>1. Init => IInv
  BY InitIs
<1>2. IInv /\ [Next]_vars => IInv'
  BY NextIs
<1> QED
  BY <1>1, <1>2, PTL DEF Spec

-----------------------------------------------------------------------------
(* The results *)

\* However the count of blocks has drifted: the cache holds no more blocks than
\* writeToCache makes room for, aligned and apart, and what each has modified lies
\* within it.
THEOREM CacheIsSound == Spec => []CacheSound
<1>1. ASSUME IInv PROVE CacheSound
  <2>1. Sound(State, content)
    BY <1>1, AlwaysSound
  <2>2. /\ base \in FileType /\ base.data \in Seq(Bytes) /\ base.size \in Nat
        /\ base.pos \in Nat /\ size \in 0 .. Limit /\ count \in Nat
        /\ \A i \in DOMAIN blocks : blocks[i] \in BlockType
    BY <2>1, StateIs, StateOf DEF Sound, ContentOf
  <2>3. /\ Len(base.data) <= base.size /\ base.size <= size /\ base.pos <= size
        /\ \A i \in DOMAIN blocks : BlockOK(blocks[i], content, size)
        /\ Apart(blocks) /\ Len(blocks) <= Upper(BlockCount - 1, 2)
    BY <2>1, StateOf DEF Sound, FileWithin, Bounded
  <2>4. base.size \in 0 .. size /\ base.pos \in 0 .. Limit
    BY <2>2, <2>3, Constants
  <2>5. count \in 0 .. MaxCount + Limit /\ padding.left \in 0 .. Limit /\ padding.pos \in 0 .. size
    <3>1. DueOK(padding, size) /\ count + padding.left <= MaxCount + Limit
      BY <1>1, StateOf DEF IInv, Holds
    <3>2. Done.left = 0 /\ Done.pos = 0
      BY DEF Done, Due
    <3>3. padding.left \in Nat /\ padding.pos \in Nat
      BY <3>1 DEF DueOK
    <3>4. CASE padding.left = 0
      BY <2>2, <3>1, <3>2, <3>3, <3>4, Constants DEF DueOK
    <3>5. CASE padding.left # 0
      <4>1. padding.pos + padding.left <= Limit /\ padding.pos <= size
        BY <3>1, <3>5 DEF DueOK
      <4> QED
        BY <2>2, <3>1, <3>3, <4>1, Constants
    <3> QED
      BY <3>4, <3>5
  <2>6. ASSUME NEW i \in DOMAIN blocks
        PROVE  LET b == blocks[i]
               IN /\ b.start % BlockSize = 0 /\ b.end <= b.start + BlockSize
                  /\ b.buf \in [1 .. BlockSize -> Bytes]
                  /\ \/ b.mstart = Unset /\ b.mend = Unset
                     \/ b.start <= b.mstart /\ b.mstart < b.mend /\ b.mend <= b.start + BlockSize
                  /\ \A j \in DOMAIN blocks : blocks[j].start = b.start => i = j
    <3> DEFINE b == blocks[i]
    <3>1. BlockOK(b, content, size) /\ b \in BlockType
      BY <2>2, <2>3
    <3>2. \A j \in DOMAIN blocks : blocks[j].start = b.start => i = j
      BY <2>3 DEF Apart
    <3> HIDE DEF b
    <3>3. b.start % BlockSize = 0
      BY <3>1, AlignedMod DEF BlockOK
    <3>4. /\ b.end <= b.start + BlockSize
          /\ \/ b.mstart = Unset /\ b.mend = Unset
             \/ b.start <= b.mstart /\ b.mstart < b.mend /\ b.mend <= b.start + BlockSize
      BY <3>1 DEF BlockOK, Marked
    <3> QED
      BY <3>1, <3>2, <3>3, <3>4, BlockIs DEF b
  <2>7. TypeOK
    BY <2>2, <2>3, <2>4, <2>5, <2>6 DEF TypeOK
  <2> QED
    BY <2>3, <2>7 DEF CacheSound, CacheBounded
<1> QED
  BY <1>1, StandsForContent, PTL

\* A read from any position to the end, in pieces from the cache and from the file,
\* flushing midway if it has to, returns what was last written there, and the stream
\* ends where that ends; it comes up short only before a Zero that ends a block or the
\* stream, which Block::save may have taken for unmodified.
THEOREM ReadsReturnContent == Spec => []ReadsContent
<1>1. ASSUME IInv, Quiet
      PROVE  /\ \A q \in 0 .. Limit - 1 : q < size <=> content[q] # Beyond
             /\ \A p \in 0 .. size - 1 :
                 LET stop == p + Len(ToEnd(p))
                 IN /\ ToEnd(p) = [i \in 1 .. stop - p |-> content[p + i - 1]]
                    /\ stop < size => /\ content[stop] = Zero
                                      /\ stop + 1 = size \/ (stop + 1) % BlockSize = 0
  <2>1. Good(State, content) /\ size \in Nat /\ ContentOf(content, size)
    BY <1>1, QuietGood, StateIs, StateOf DEF Good, Sound
  <2>2. \A q \in 0 .. Limit - 1 : q < size <=> content[q] # Beyond
    BY <2>1 DEF ContentOf
  <2>3. ASSUME NEW p \in 0 .. size - 1
        PROVE  LET stop == p + Len(ToEnd(p))
               IN /\ ToEnd(p) = [i \in 1 .. stop - p |-> content[p + i - 1]]
                  /\ stop < size => /\ content[stop] = Zero
                                    /\ stop + 1 = size \/ (stop + 1) % BlockSize = 0
    <3> DEFINE n == size - p
               st == At(p)
               data == Got(st, p, n).data
    <3>1. p \in Nat /\ p <= size /\ n \in Nat /\ p + n = size
      BY <2>1
    <3>2. Good(st, content) /\ st.size = size
      BY <2>1, <3>1, AtIs
    <3>3. Lower(n, st.size - p) = n
      BY <3>1, <3>2 DEF Lower
    <3> HIDE DEF st, n
    <3>4. CellsUpTo(data, content, size, p, n)
      BY <3>1, <3>2, <3>3, GotIs
    <3> HIDE DEF data
    <3>5. PICK m \in 0 .. n : /\ data = Cells(content, p, m)
                              /\ m = n \/ (m < n /\ Lacks(content, size, p + m))
      BY <3>1, <3>4 DEF CellsUpTo
    <3>6. m \in Nat /\ p + m \in Nat /\ p + m <= size
      BY <3>1, <3>5
    <3>7. Len(data) = m
      BY <2>1, <3>1, <3>5, <3>6, CellsIs
    <3>8. data = [i \in 1 .. (p + m) - p |-> content[p + i - 1]]
      <4>1. (p + m) - p = m
        BY <3>1, <3>6
      <4> QED
        BY <3>5, <4>1 DEF Cells
    <3>9. p + m < size => /\ content[p + m] = Zero
                          /\ p + m + 1 = size \/ (p + m + 1) % BlockSize = 0
      <4>1. p + m < size => Lacks(content, size, p + m)
        BY <3>1, <3>5, <3>6
      <4>2. Aligned(p + m + 1) => (p + m + 1) % BlockSize = 0
        BY AlignedMod
      <4> QED
        BY <4>1, <4>2 DEF Lacks
    <3>10. ToEnd(p) = data
      BY DEF ToEnd, data, st, n
    <3> QED
      BY <3>7, <3>8, <3>9, <3>10
  <2> QED
    BY <2>2, <2>3
<1>2. IInv => ReadsContent
  BY <1>1 DEF ReadsContent
<1> QED
  BY <1>2, StandsForContent, PTL

\* Whatever is cached, dropped, flushed in part or cut short, each cell of the file is
\* what it was, or what the program reads there before or after the step, or the filling
\* of a gap; once nothing is cached the file is as the program reads it, but for a Zero
\* at the very end.
THEOREM FollowsFileStream == Spec => ImplementsFileStream
<1>1. Init => Promised!Init
  BY InitIs
<1>2. IInv /\ [Next]_vars => [Promised!Next]_<<content, FileContent(base), blocks # << >> >>
  BY NextIs DEF PromisedVars
<1> QED
  BY <1>1, <1>2, StandsForContent, PTL DEF Spec, Promised!Spec, ImplementsFileStream
=============================================================================
