--------------------------- MODULE CacheFileProofs ---------------------------
(***************************************************************************)
(* Proofs about the cache file, for every value of its constants.          *)
(*                                                                         *)
(* The dirty flag protocol is proved from an invariant that says, for each *)
(* phase of the operations, what the disk may hold: while the in-memory    *)
(* flag is up no header on the disk can say clean, and while it is down    *)
(* nothing is pending but the header.                                      *)
(*                                                                         *)
(* The blocks are followed in the session that created the file.  They     *)
(* stay apart because an allocation takes a free block or the end of the   *)
(* file; so every key reads as it was stored; so what flush(true) wrote is *)
(* what a crash leaves; so the file implements the map of BlockStore.      *)
(* Each of these results rests on the one before it.  After a reopening    *)
(* the first no longer holds: writeIndex copies the items before write()   *)
(* may move the index into a block that the copy calls free.               *)
(***************************************************************************)
EXTENDS CacheFile, SequenceTheorems, WellFoundedInduction, TLAPS

\* A header that a next session would trust to find the index.
Trusted(h) == IsClean(h) /\ h.index # NoItem

\* The header the process reads is among those the disk may hold.
HeaderPending == header \in hdrOnDisk

\* Between sessions the disk holds what the process would read.
ClosedSettled == phase = "closed" => hdrOnDisk = {header} /\ synced = cells

\* While the flag is up in memory, and the header that raises it has been
\* synced, the disk cannot hold a trusted header.
DirtyDistrusted ==
    phase \in {"idle", "storing", "syncing", "cleaning"} /\ dirty
        => \A h \in hdrOnDisk : ~Trusted(h)

\* While the flag is down in memory every cell is on the disk; so it is while
\* the flag is being raised or lowered.
CleanSettled ==
    phase \in {"dirtying", "cleaning", "closing"} \/ ~dirty => synced = cells

\* Blocks are written, and flushed, only with the flag up.
WritingDirty == phase \in {"storing", "syncing", "cleaning"} => dirty

\* While the flag is being raised the process already reads a dirty header.
RaisingDistrusted == phase = "dirtying" => dirty /\ ~Trusted(header)

\* The flag is down at the end of a flush, and else only between operations.
DownWhenIdle ==
    /\ ~dirty => phase \in {"idle", "closing"}
    /\ phase = "closing" => ~dirty

ProtocolInv ==
    lostSyncs = 0 =>
        /\ HeaderPending
        /\ ClosedSettled
        /\ DirtyDistrusted
        /\ CleanSettled
        /\ WritingDirty
        /\ DownWhenIdle
        /\ RaisingDistrusted

-----------------------------------------------------------------------------

\* The initial state satisfies the invariant: nothing has been written.
LEMMA ProtocolInit == Init => ProtocolInv
BY DEF Init, ProtocolInv, HeaderPending, ClosedSettled, DirtyDistrusted,
       CleanSettled, WritingDirty, DownWhenIdle, RaisingDistrusted, Trusted, IsClean

\* A sync leaves the header the process reads, and every cell, on the disk; or it
\* loses writes and is counted.
LEMMA SyncSettles ==
    ASSUME lostSyncs \in Nat, Sync, lostSyncs' = 0
    PROVE  /\ lostSyncs = 0
           /\ header' = header /\ hdrOnDisk' = {header}
           /\ synced' = cells'
BY DEF Sync, Synced, faults

\* Every step keeps the invariant.
LEMMA ProtocolStep ==
    ASSUME ProtocolInv, lostSyncs \in Nat, [Next]_vars
    PROVE  ProtocolInv'
<1> USE DEF HeaderPending, ClosedSettled, DirtyDistrusted, CleanSettled,
            WritingDirty, DownWhenIdle, RaisingDistrusted, Trusted, IsClean
<1> SUFFICES ASSUME lostSyncs' = 0
             PROVE  /\ HeaderPending' /\ ClosedSettled' /\ DirtyDistrusted'
                    /\ CleanSettled' /\ WritingDirty' /\ DownWhenIdle'
             /\ RaisingDistrusted'
  BY DEF ProtocolInv
<1>1. CASE Create
  BY <1>1 DEF Create
<1>2. CASE Open
  BY <1>2 DEF Open, Accepted, disk, faults, ProtocolInv
<1>3. ASSUME NEW k \in Keys, NEW c \in Contents, WriteSame(k, c)
      PROVE  /\ HeaderPending' /\ ClosedSettled' /\ DirtyDistrusted'
             /\ CleanSettled' /\ WritingDirty' /\ DownWhenIdle'
             /\ RaisingDistrusted'
  BY <1>3 DEF WriteSame, memory, disk, faults, ProtocolInv
<1>4. ASSUME NEW r, Begin(r), phase = "idle"
      PROVE  /\ HeaderPending' /\ ClosedSettled' /\ DirtyDistrusted'
             /\ CleanSettled' /\ WritingDirty' /\ DownWhenIdle'
             /\ RaisingDistrusted'
  <2>1. lostSyncs = 0
    BY <1>4 DEF Begin, faults
  <2>2. CASE dirty
    BY <2>1, <2>2, <1>4 DEF Begin, memory, disk, ProtocolInv
  <2>3. CASE ~dirty
    BY <2>1, <2>3, <1>4 DEF Begin, WriteHeader, Flagged, ProtocolInv
  <2> QED
    BY <2>2, <2>3
<1>5. ASSUME NEW k \in Keys, NEW c \in Contents, Write(k, c)
      PROVE  /\ HeaderPending' /\ ClosedSettled' /\ DirtyDistrusted'
             /\ CleanSettled' /\ WritingDirty' /\ DownWhenIdle'
             /\ RaisingDistrusted'
  <2>1. phase = "idle" /\ Begin([key |-> k, content |-> c])
    BY <1>5 DEF Write
  <2> QED
    BY <1>4, <2>1
<1>6. CASE SyncDirty
  BY <1>6, SyncSettles DEF SyncDirty, memory, ProtocolInv
<1>7. CASE Store
  <2>1. /\ phase = "storing" /\ phase' = "idle"
        /\ UNCHANGED <<dirty, header, hdrOnDisk, synced, lostSyncs>>
    BY <1>7 DEF Store, faults
  <2> QED
    BY <2>1 DEF ProtocolInv
<1>8. CASE StoreFails
  BY <1>8 DEF StoreFails, ProtocolInv
<1>9. CASE FlushIndex
  BY <1>9, <1>4 DEF FlushIndex
<1>10. CASE FlushUnchanged
  BY <1>10 DEF FlushUnchanged, memory, disk, faults, ProtocolInv
<1>11. CASE StoreIndex
  <2>1. /\ phase = "storing" /\ phase' = "syncing"
        /\ UNCHANGED <<dirty, synced, faults>>
    BY <1>11, Zenon DEF StoreIndex
  <2>2. \E f, x : WriteHeader([dirty |-> dirty, fsize |-> f, index |-> x])
    <3>1. PICK p, t :
            p \in Prepared /\ t \in IndexTargets(p) /\
            LET s == Snapshot(p.items)
                n == Len(s) * ItemSize
                old == p.items[CHOOSE i \in Find(p.items, INDEX) : TRUE]
                same == old.hash = s /\ old.dsize = n
                items == IF same THEN p.items ELSE [t.items EXCEPT ![t.at].hash = s]
            IN /\ index' = items
               /\ size' = IF same THEN p.end ELSE t.end
               /\ cells' = IF same THEN cells ELSE Written(cells, t.items[t.at], s, n)
               /\ WriteHeader([dirty |-> dirty, fsize |-> size',
                               index |-> items[CHOOSE i \in Find(items, INDEX) : TRUE]])
      BY <1>11, ZenonT(30) DEF StoreIndex
    <3> QED
      BY <3>1, Zenon
  <2> QED
    BY <2>1, <2>2 DEF WriteHeader, faults, ProtocolInv
<1>18. CASE StoreIndexFails
  <2>1. /\ phase = "storing" /\ phase' = "idle"
        /\ UNCHANGED <<dirty, header, hdrOnDisk, synced, lostSyncs>>
    BY <1>18, Zenon DEF StoreIndexFails
  <2> QED
    BY <2>1 DEF ProtocolInv
<1>12. CASE SyncData
  BY <1>12, SyncSettles DEF SyncData, memory, ProtocolInv
<1>13. CASE WriteClean
  <2>1. /\ phase = "cleaning" /\ phase' = "closing" /\ dirty' = FALSE
        /\ cells' = cells /\ synced' = synced /\ lostSyncs' = lostSyncs
    BY <1>13 DEF WriteClean, faults
  <2>2. header' \in hdrOnDisk'
    BY <1>13 DEF WriteClean, WriteHeader
  <2>3. lostSyncs = 0 /\ synced = cells
    BY <2>1 DEF ProtocolInv
  <2>4. ClosedSettled' /\ DirtyDistrusted' /\ WritingDirty' /\ RaisingDistrusted'
    BY <2>1
  <2>5. CleanSettled'
    BY <2>1, <2>3
  <2>6. DownWhenIdle'
    BY <2>1
  <2> QED
    BY <2>2, <2>4, <2>5, <2>6
<1>14. CASE SyncClean
  BY <1>14, SyncSettles DEF SyncClean, memory, ProtocolInv
<1>15. CASE Close
  BY <1>15, SyncSettles DEF Close, Forget, Synced, faults, ProtocolInv
<1>16. CASE Crash
  BY <1>16 DEF Crash, Forget, Synced, faults, ProtocolInv
<1>17. CASE UNCHANGED vars
  BY <1>17 DEF vars, memory, disk, faults, ProtocolInv
<1> QED
  BY <1>1, <1>2, <1>3, <1>5, <1>6, <1>7, <1>8, <1>9, <1>10, <1>11, <1>12,
     <1>13, <1>14, <1>15, <1>16, <1>17, <1>18 DEF Next

\* The phase is one of those listed.
LEMMA PhaseTyped == Spec => [](phase \in Phases)
<1>1. Init => phase \in Phases
  BY DEF Init, Phases
<1>2. phase \in Phases /\ [Next]_vars => (phase \in Phases)'
  BY DEF Phases, Next, vars, Create, Open, WriteSame, Begin, Write, SyncDirty,
         Store, StoreFails, FlushIndex, FlushUnchanged, StoreIndex, StoreIndexFails, SyncData,
         WriteClean, SyncClean, Close, Crash, Forget
<1> QED
  BY <1>1, <1>2, PTL DEF Spec

\* The number of lost syncs is a natural number, so that zero means none.
LEMMA LostSyncsTyped == Spec => [](lostSyncs \in Nat)
<1>1. Init => lostSyncs \in Nat
  BY DEF Init
<1>2. lostSyncs \in Nat /\ [Next]_vars => (lostSyncs \in Nat)'
  <2> SUFFICES ASSUME lostSyncs \in Nat, [Next]_vars PROVE lostSyncs' \in Nat
    OBVIOUS
  <2>1. ASSUME Sync PROVE lostSyncs' \in Nat
    BY <2>1 DEF Sync, faults
  <2>2. ASSUME NEW r, Begin(r) PROVE lostSyncs' \in Nat
    BY <2>2 DEF Begin, faults
  <2> QED
    BY <2>1, <2>2, CacheFileAssumption
       DEF Next, vars, faults, Create, Open, WriteSame, Write, SyncDirty, Store,
           StoreFails, FlushIndex, FlushUnchanged, StoreIndex, StoreIndexFails, SyncData,
           WriteClean, SyncClean, Close, Crash
<1> QED
  BY <1>1, <1>2, PTL DEF Spec

\* The invariant of the dirty flag protocol holds in every reachable state.
LEMMA ProtocolHolds == Spec => []ProtocolInv
<1>1. lostSyncs \in Nat /\ ProtocolInv /\ [Next]_vars => ProtocolInv'
  BY ProtocolStep
<1> QED
  BY ProtocolInit, LostSyncsTyped, <1>1, PTL DEF Spec

\* A header that would be trusted leaves nothing pending.
LEMMA Settled ==
    ASSUME phase \in Phases, ProtocolInv, lostSyncs = 0, NEW h \in hdrOnDisk, Trusted(h)
    PROVE  synced = cells
<1>1. CASE phase = "closed"
  BY <1>1 DEF ProtocolInv, ClosedSettled
<1>2. CASE phase \in {"dirtying", "cleaning", "closing"} \/ ~dirty
  BY <1>2 DEF ProtocolInv, CleanSettled
<1>3. CASE phase \in {"idle", "storing", "syncing", "cleaning"} /\ dirty
  BY <1>3 DEF ProtocolInv, DirtyDistrusted
<1> QED
  BY <1>1, <1>2, <1>3 DEF Phases

\* A header that a next session would trust is never on the disk before every
\* cell written ahead of it: setDirtyFlag() syncs at the right places, for any
\* sizes of sectors, items and contents and any sequence of operations.
THEOREM CleanOnlyWhenSynced == Spec => []CleanMeansSynced
<1>1. phase \in Phases /\ ProtocolInv => CleanMeansSynced
  BY Settled DEF CleanMeansSynced, Trusted
<1> QED
  BY <1>1, PhaseTyped, ProtocolHolds, PTL

-----------------------------------------------------------------------------
(* Type correctness *)

\* A set of natural numbers that is not empty has a least element.
LEMMA LeastNatural ==
    ASSUME NEW T \in SUBSET Nat, T # {}
    PROVE  \E n \in T : \A m \in T : n <= m
<1>1. \E n \in T : \A m \in T : <<m, n>> \notin OpToRel(<, Nat)
  BY NatLessThanWellFounded, WFMin
<1>2. PICK n \in T : \A m \in T : <<m, n>> \notin OpToRel(<, Nat)
  BY <1>1
<1>3. ASSUME NEW m \in T PROVE n <= m
  <2>1. m \in Nat /\ n \in Nat /\ <<m, n>> \in Nat \X Nat
    OBVIOUS
  <2>2. ~(m < n)
    BY <1>2, <2>1 DEF OpToRel
  <2> QED
    BY <2>1, <2>2
<1> QED
  BY <1>3

\* The sizes the cache file computes are natural numbers.
LEMMA RoundSectorTyped == \A n \in Nat : RoundSector(n) \in Nat
<1> SUFFICES ASSUME NEW n \in Nat PROVE RoundSector(n) \in Nat
  OBVIOUS
<1>1. \A x \in Nat, d \in Nat \ {0} : x \div d \in Nat
  OBVIOUS
<1>2. \A x, y \in Nat : x * y \in Nat
  OBVIOUS
<1> QED
  BY <1>1, <1>2, CacheFileAssumption DEF RoundSector

\* The end of a stream: the least size past which there are only holes.
LEMMA StreamSizeIs ==
    ASSUME NEW f
    PROVE  /\ StreamSize(f) \in SectorSize .. FileLimit
           /\ \A u \in Cells : u >= StreamSize(f) => f[u] = Hole
           /\ StreamSize(f) > SectorSize => f[StreamSize(f) - 1] # Hole
<1> DEFINE Ends == {n \in SectorSize .. FileLimit : \A u \in Cells : u >= n => f[u] = Hole}
<1>1. FileLimit \in Ends /\ Ends \in SUBSET Nat
  BY CacheFileAssumption DEF Cells
<1>2. PICK n \in Ends : \A m \in Ends : n <= m
  BY <1>1, LeastNatural
<1>3. n > SectorSize => f[n - 1] # Hole
  <2> SUFFICES ASSUME n > SectorSize, f[n - 1] = Hole PROVE FALSE
    OBVIOUS
  <2>1. n - 1 \in Ends
    BY CacheFileAssumption DEF Cells
  <2> QED
    BY <2>1, <1>2, CacheFileAssumption
<1> HIDE DEF Ends
<1>4. n \in SectorSize .. FileLimit /\ \A u \in Cells : u >= n => f[u] = Hole
  BY DEF Ends
<1> QED
  BY <1>3, <1>4 DEF StreamSize

LEMMA StreamSizeTyped == \A f : StreamSize(f) \in Nat
BY StreamSizeIs, CacheFileAssumption

\* A function on an initial segment of the naturals is a sequence of its values.
LEMMA SeqOfFunction ==
    ASSUME NEW n \in Nat, NEW S, NEW t \in [1 .. n -> S]
    PROVE  t \in Seq({t[j] : j \in DOMAIN t})
<1>1. t \in [1 .. n -> {t[j] : j \in DOMAIN t}]
  OBVIOUS
<1> QED
  BY <1>1

\* An index stays one when an item is replaced, appended, or all are mapped.
LEMMA IndexShape ==
    ASSUME NEW s, IsIndex(s)
    PROVE  /\ Len(s) \in Nat /\ DOMAIN s = 1 .. Len(s)
           /\ s \in [1 .. Len(s) -> {s[j] : j \in DOMAIN s}]
BY DEF IsIndex

LEMMA IndexOf ==
    ASSUME NEW n \in Nat, NEW S, NEW t \in [1 .. n -> S],
           \A j \in 1 .. n : IsItem(t[j])
    PROVE  IsIndex(t)
BY SeqOfFunction DEF IsIndex

LEMMA IndexExcept ==
    ASSUME NEW s, IsIndex(s), NEW i \in DOMAIN s, NEW it, IsItem(it)
    PROVE  IsIndex([s EXCEPT ![i] = it])
<1> DEFINE S == {s[j] : j \in DOMAIN s} \union {it}
<1>1. Len(s) \in Nat /\ DOMAIN s = 1 .. Len(s) /\ s \in [1 .. Len(s) -> S]
  BY IndexShape
<1>2. it \in S
  OBVIOUS
<1> HIDE DEF S
<1>3. [s EXCEPT ![i] = it] \in [1 .. Len(s) -> S]
  BY <1>1, <1>2
<1>4. \A j \in 1 .. Len(s) : IsItem([s EXCEPT ![i] = it][j])
  BY <1>1 DEF IsIndex
<1> QED
  BY <1>1, <1>3, <1>4, IndexOf

LEMMA IndexAppend ==
    ASSUME NEW s, IsIndex(s), NEW it, IsItem(it)
    PROVE  IsIndex(Append(s, it))
<1> DEFINE S == {s[j] : j \in DOMAIN s} \union {it}
<1>1. Len(s) \in Nat /\ s \in Seq(S) /\ it \in S
  BY DEF IsIndex
<1> HIDE DEF S
<1>2. /\ Append(s, it) \in [1 .. Len(s) + 1 -> S]
      /\ \A j \in 1 .. Len(s) + 1 :
            Append(s, it)[j] = IF j <= Len(s) THEN s[j] ELSE it
  <2>1. Append(s, it) \in Seq(S) /\ Len(Append(s, it)) = Len(s) + 1
    BY <1>1
  <2>2. Append(s, it) \in [1 .. Len(s) + 1 -> S]
    <3>1. Append(s, it) \in [1 .. Len(Append(s, it)) -> S]
      BY <2>1, LenProperties
    <3> QED
      BY <2>1, <3>1
  <2>3. ASSUME NEW j \in 1 .. Len(s) + 1
        PROVE  Append(s, it)[j] = IF j <= Len(s) THEN s[j] ELSE it
    BY <1>1
  <2> QED
    BY <2>2, <2>3
<1>3. \A j \in 1 .. Len(s) + 1 : IsItem(Append(s, it)[j])
  BY <1>1, <1>2, IndexShape DEF IsIndex
<1>4. Len(s) + 1 \in Nat
  BY <1>1
<1> HIDE DEF IsIndex
<1> QED
  BY <1>2, <1>3, <1>4, IndexOf

\* An item keeps its shape when a field gets a value of its type.
LEMMA ItemExcept ==
    ASSUME NEW it, IsItem(it)
    PROVE  /\ \A k \in BlockKeys, n \in Nat :
                IsItem([it EXCEPT !.key = k, !.dsize = n])
           /\ \A n \in Nat : IsItem([it EXCEPT !.dsize = n])
           /\ \A h : IsItem([it EXCEPT !.hash = h])
           /\ \A n \in Nat : \A h : IsItem([it EXCEPT !.dsize = n, !.hash = h])
BY DEF IsItem

\* freeBlock() keeps the index an index.
LEMMA FreedTyped ==
    ASSUME NEW s, IsIndex(s), NEW i \in DOMAIN s
    PROVE  IsIndex(Freed(s, i))
<1> DEFINE it == Item(FREE, s[i].pos, s[i].bsize, 0,
                      IF s[i].key = INDEX THEN NoHash ELSE s[i].hash)
<1>1. IsItem(s[i])
  BY DEF IsIndex
<1>2. IsItem(it)
  BY <1>1 DEF IsItem, Item, BlockKeys
<1>3. Freed(s, i) = [s EXCEPT ![i] = it]
  BY DEF Freed
<1> HIDE DEF it
<1>4. IsIndex([s EXCEPT ![i] = it])
  BY <1>2, IndexExcept
<1> QED
  BY <1>3, <1>4

\* What allocBlock() and write() return: an index, an item of it, an end of file.
IsPlace(t, k) ==
    /\ IsIndex(t.items)
    /\ t.at \in DOMAIN t.items
    /\ t.items[t.at].key = k
    /\ t.end \in Nat
    /\ t.moved \in BOOLEAN

LEMMA PlaceOf ==
    ASSUME NEW s, IsIndex(s), NEW i \in DOMAIN s, NEW end \in Nat,
           NEW m \in BOOLEAN, NEW k, s[i].key = k
    PROVE  IsPlace([items |-> s, at |-> i, end |-> end, moved |-> m], k)
BY DEF IsPlace

\* An item of an index may be given a key and a data size.
LEMMA PlaceReused ==
    ASSUME NEW s, IsIndex(s), NEW i \in DOMAIN s, NEW end \in Nat,
           NEW k \in BlockKeys, NEW n \in Nat, NEW m \in BOOLEAN
    PROVE  /\ IsPlace([items |-> [s EXCEPT ![i] = [s[i] EXCEPT !.key = k, !.dsize = n]],
                       at |-> i, end |-> end, moved |-> m], k)
           /\ s[i].key = k =>
                IsPlace([items |-> [s EXCEPT ![i] = [s[i] EXCEPT !.dsize = n]],
                         at |-> i, end |-> end, moved |-> m], k)
<1>1. IsItem(s[i])
  BY DEF IsIndex
<1>2. ASSUME NEW it, IsItem(it), it.key = k
      PROVE  IsPlace([items |-> [s EXCEPT ![i] = it],
                      at |-> i, end |-> end, moved |-> m], k)
  <2>1. IsIndex([s EXCEPT ![i] = it])
    BY <1>2, IndexExcept
  <2>2. i \in DOMAIN [s EXCEPT ![i] = it] /\ [s EXCEPT ![i] = it][i] = it
    OBVIOUS
  <2>3. [s EXCEPT ![i] = it][i].key = k
    BY <2>2, <1>2
  <2> QED
    BY <2>1, <2>2, <2>3, PlaceOf
<1>3. IsItem([s[i] EXCEPT !.key = k, !.dsize = n])
      /\ [s[i] EXCEPT !.key = k, !.dsize = n].key = k
  BY <1>1, ItemExcept DEF IsItem
<1>4. IsItem([s[i] EXCEPT !.dsize = n])
      /\ (s[i].key = k => [s[i] EXCEPT !.dsize = n].key = k)
  BY <1>1, ItemExcept DEF IsItem
<1> QED
  BY <1>2, <1>3, <1>4

LEMMA AllocationsTyped ==
    ASSUME NEW s, IsIndex(s), NEW end \in Nat, NEW k \in BlockKeys, NEW n \in Nat
    PROVE  \A t \in Allocations(s, end, k, n) : IsPlace(t, k)
<1>1. CASE BestFit(s, n) # {}
  <2> SUFFICES ASSUME NEW t \in Allocations(s, end, k, n) PROVE IsPlace(t, k)
    OBVIOUS
  <2>1. PICK i \in BestFit(s, n) :
          t = [items |-> [s EXCEPT ![i] = [s[i] EXCEPT !.key = k, !.dsize = n]],
               at |-> i, end |-> end, moved |-> TRUE]
    BY <1>1 DEF Allocations
  <2>2. i \in DOMAIN s
    BY DEF BestFit, Find
  <2>3. IsPlace([items |-> [s EXCEPT ![i] = [s[i] EXCEPT !.key = k, !.dsize = n]],
                 at |-> i, end |-> end, moved |-> TRUE], k)
    BY <2>2, PlaceReused
  <2> QED
    BY <2>1, <2>3
<1>2. CASE BestFit(s, n) = {}
  <2> DEFINE it == Item(k, end, RoundSector(n), n, NoHash)
  <2>1. IsItem(it) /\ it.key = k
    BY RoundSectorTyped DEF IsItem, Item
  <2>2. IsIndex(Append(s, it))
    <3> HIDE DEF it
    <3> QED
      BY <2>1, IndexAppend
  <2>3. Len(s) \in Nat /\ Len(s) + 1 \in DOMAIN Append(s, it)
        /\ Append(s, it)[Len(s) + 1] = it
    BY DEF IsIndex
  <2>4. end + RoundSector(n) \in Nat
    BY RoundSectorTyped
  <2>5. Allocations(s, end, k, n) =
          {[items |-> Append(s, it), at |-> Len(s) + 1,
            end |-> end + RoundSector(n), moved |-> TRUE]}
    BY <1>2 DEF Allocations
  <2> HIDE DEF it
  <2>6. IsPlace([items |-> Append(s, it), at |-> Len(s) + 1,
                 end |-> end + RoundSector(n), moved |-> TRUE], k)
    BY <2>1, <2>2, <2>3, <2>4, PlaceOf
  <2> QED
    BY <2>5, <2>6
<1> QED
  BY <1>1, <1>2

LEMMA TargetsTyped ==
    ASSUME NEW s, IsIndex(s), NEW end \in Nat, NEW k \in BlockKeys, NEW n \in Nat
    PROVE  \A t \in Targets(s, end, k, n) : IsPlace(t, k)
<1>1. CASE Find(s, k) = {}
  BY <1>1, AllocationsTyped DEF Targets
<1>2. CASE Find(s, k) # {}
  <2> DEFINE i == CHOOSE j \in Find(s, k) : TRUE
             t == [items |-> [s EXCEPT ![i] = [s[i] EXCEPT !.dsize = n]],
                   at |-> i, end |-> end, moved |-> FALSE]
  <2>1. i \in DOMAIN s /\ s[i].key = k
    BY <1>2 DEF Find
  <2>2. Targets(s, end, k, n) =
          IF s[i].dsize >= n THEN {t} ELSE Allocations(Freed(s, i), end, k, n)
    BY <1>2 DEF Targets
  <2>3. IsPlace(t, k)
    <3> HIDE DEF i
    <3> QED
      BY <2>1, PlaceReused
  <2> HIDE DEF i, t
  <2>4. \A u \in Allocations(Freed(s, i), end, k, n) : IsPlace(u, k)
    BY <2>1, FreedTyped, AllocationsTyped
  <2> QED
    BY <2>2, <2>3, <2>4
<1> QED
  BY <1>1, <1>2

\* Replacing an item by one whose key no other item has.
LEMMA UniqueExcept ==
    ASSUME NEW s, KeysUnique(s), NEW i \in DOMAIN s, NEW it,
           \A j \in DOMAIN s : j # i => s[j].key # it.key \/ it.key = FREE
    PROVE  KeysUnique([s EXCEPT ![i] = it])
BY DEF KeysUnique

LEMMA UniqueAllocations ==
    ASSUME NEW s, IsIndex(s), KeysUnique(s), NEW end, NEW k, NEW n, Find(s, k) = {}
    PROVE  \A t \in Allocations(s, end, k, n) : KeysUnique(t.items)
<1> SUFFICES ASSUME NEW t \in Allocations(s, end, k, n) PROVE KeysUnique(t.items)
  OBVIOUS
<1>1. \A j \in DOMAIN s : s[j].key # k
  BY DEF Find
<1>2. CASE BestFit(s, n) # {}
  <2>1. PICK i \in BestFit(s, n) :
          t = [items |-> [s EXCEPT ![i] = [s[i] EXCEPT !.key = k, !.dsize = n]],
               at |-> i, end |-> end, moved |-> TRUE]
    BY <1>2 DEF Allocations
  <2>2. i \in DOMAIN s
    BY DEF BestFit, Find
  <2>3. IsItem(s[i])
    BY <2>2 DEF IsIndex
  <2>4. [s[i] EXCEPT !.key = k, !.dsize = n].key = k
    BY <2>3 DEF IsItem
  <2>5. KeysUnique([s EXCEPT ![i] = [s[i] EXCEPT !.key = k, !.dsize = n]])
    BY <2>2, <2>4, <1>1, UniqueExcept
  <2> QED
    BY <2>1, <2>5
<1>3. CASE BestFit(s, n) = {}
  <2> DEFINE it == Item(k, end, RoundSector(n), n, NoHash)
  <2>1. t.items = Append(s, it)
    BY <1>3 DEF Allocations
  <2>2. it.key = k
    BY DEF Item
  <2> HIDE DEF it
  <2>3. Len(s) \in Nat /\ DOMAIN s = 1 .. Len(s) /\ s \in Seq({s[j] : j \in DOMAIN s} \union {it})
    BY DEF IsIndex
  <2>4. /\ DOMAIN Append(s, it) = 1 .. Len(s) + 1
        /\ \A j \in 1 .. Len(s) + 1 :
              Append(s, it)[j] = IF j <= Len(s) THEN s[j] ELSE it
    BY <2>3
  <2>5. KeysUnique(Append(s, it))
    BY <2>2, <2>3, <2>4, <1>1 DEF KeysUnique
  <2> QED
    BY <2>1, <2>5
<1> QED
  BY <1>2, <1>3

LEMMA UniqueTargets ==
    ASSUME NEW s, IsIndex(s), KeysUnique(s), NEW end, NEW k, k # FREE, NEW n
    PROVE  \A t \in Targets(s, end, k, n) : KeysUnique(t.items)
<1>1. CASE Find(s, k) = {}
  BY <1>1, UniqueAllocations DEF Targets
<1>2. CASE Find(s, k) # {}
  <2> DEFINE i == CHOOSE j \in Find(s, k) : TRUE
             it == [s[i] EXCEPT !.dsize = n]
             free == Item(FREE, s[i].pos, s[i].bsize, 0,
                          IF s[i].key = INDEX THEN NoHash ELSE s[i].hash)
  <2>1. i \in DOMAIN s /\ s[i].key = k
    BY <1>2 DEF Find
  <2>2. Targets(s, end, k, n) =
          IF s[i].dsize >= n
          THEN {[items |-> [s EXCEPT ![i] = it], at |-> i, end |-> end, moved |-> FALSE]}
          ELSE Allocations(Freed(s, i), end, k, n)
    BY <1>2 DEF Targets
  <2>3. Freed(s, i) = [s EXCEPT ![i] = free] /\ free.key = FREE
    BY DEF Freed, Item
  <2> HIDE DEF i
  <2>4. \A j \in DOMAIN s : j # i => s[j].key # k
    BY <2>1 DEF KeysUnique
  <2>5. it.key = k
    <3>1. IsItem(s[i])
      BY <2>1 DEF IsIndex
    <3> QED
      BY <2>1, <3>1 DEF IsItem
  <2> HIDE DEF it, free
  <2>6. KeysUnique([s EXCEPT ![i] = it])
    BY <2>1, <2>4, <2>5, UniqueExcept
  <2>7. KeysUnique(Freed(s, i)) /\ IsIndex(Freed(s, i))
    <3>1. KeysUnique([s EXCEPT ![i] = free])
      BY <2>1, <2>3, UniqueExcept
    <3> QED
      BY <2>1, <2>3, <3>1, FreedTyped
  <2>8. Find(Freed(s, i), k) = {}
    BY <2>1, <2>3, <2>4 DEF Find
  <2> QED
    BY <2>2, <2>6, <2>7, <2>8, UniqueAllocations
<1> QED
  BY <1>1, <1>2

\* The copy of the items that goes to the file is an index of the same length.
LEMMA SnapshotTyped ==
    ASSUME NEW s, IsIndex(s), KeysUnique(s)
    PROVE  IsIndex(Snapshot(s)) /\ KeysUnique(Snapshot(s)) /\ Len(Snapshot(s)) \in Nat
<1>1. Len(s) \in Nat /\ DOMAIN s = 1 .. Len(s) /\ \A i \in DOMAIN s : IsItem(s[i])
  BY DEF IsIndex
<1>2. ASSUME NEW i \in DOMAIN s
      PROVE  IsItem(Snapshot(s)[i]) /\ Snapshot(s)[i].key = s[i].key
  <2>1. IsItem([s[i] EXCEPT !.dsize = 0, !.hash = NoHash])
        /\ [s[i] EXCEPT !.dsize = 0, !.hash = NoHash].key = s[i].key
    BY <1>1, ItemExcept DEF IsItem
  <2>2. Snapshot(s)[i] = IF s[i].key = INDEX
          THEN [s[i] EXCEPT !.dsize = 0, !.hash = NoHash] ELSE s[i]
    BY DEF Snapshot
  <2> QED
    BY <1>1, <2>1, <2>2
<1>3. DOMAIN Snapshot(s) = DOMAIN s
  BY DEF Snapshot
<1>4. Snapshot(s) \in [1 .. Len(s) -> {Snapshot(s)[i] : i \in DOMAIN s}]
  BY <1>1 DEF Snapshot
<1>5. IsIndex(Snapshot(s))
  BY <1>1, <1>2, <1>4, IndexOf
<1>6. KeysUnique(Snapshot(s))
  BY <1>2, <1>3 DEF KeysUnique
<1>7. Len(Snapshot(s)) \in Nat
  BY <1>5, IndexShape
<1> QED
  BY <1>5, <1>6, <1>7

\* A header the disk may hold, and the index it names.
HeaderTyped(h) ==
    IsHeader(h) /\ (h # NoHeader /\ h.index # NoItem => KeysUnique(h.index.hash))

\* readIndex() builds an index.
LEMMA LoadedTyped ==
    ASSUME NEW h, HeaderTyped(h), h # NoHeader
    PROVE  IsIndex(Loaded(h)) /\ KeysUnique(Loaded(h))
<1>1. CASE h.index = NoItem
  <2>1. IsIndex(<< >>) /\ KeysUnique(<< >>)
    BY DEF IsIndex, KeysUnique
  <2> QED
    BY <1>1, <2>1 DEF Loaded
<1>2. CASE h.index # NoItem
  <2> DEFINE s == h.index.hash
  <2>1. IsItem(h.index) /\ h.index.key = INDEX /\ IsIndex(s) /\ KeysUnique(s)
    BY <1>2 DEF HeaderTyped, IsHeader
  <2>2. Len(s) \in Nat /\ DOMAIN s = 1 .. Len(s) /\ \A i \in DOMAIN s : IsItem(s[i])
    BY <2>1 DEF IsIndex
  <2>3. Loaded(h) = [i \in DOMAIN s |-> IF s[i].key = INDEX THEN h.index ELSE s[i]]
    BY <1>2 DEF Loaded
  <2> HIDE DEF s
  <2>4. \A i \in DOMAIN s : IsItem(Loaded(h)[i]) /\ Loaded(h)[i].key = s[i].key
    BY <2>1, <2>2, <2>3
  <2>5. Loaded(h) \in [1 .. Len(s) -> {Loaded(h)[i] : i \in DOMAIN s}]
    BY <2>2, <2>3
  <2>6. IsIndex(Loaded(h))
    BY <2>2, <2>4, <2>5, IndexOf
  <2>7. KeysUnique(Loaded(h))
    BY <2>1, <2>3, <2>4 DEF KeysUnique
  <2> QED
    BY <2>6, <2>7
<1> QED
  BY <1>1, <1>2

\* What a session reads is, for each key, a content, nothing or a damaged block.
LEMMA ContainedTyped ==
    \A items, f : Contained(items, f) \in [Keys -> Contents \union {Nothing, Unknown}]
BY DEF Contained, ReadBlock, DataMatches

IndexTyped == IsIndex(index) /\ KeysUnique(index) /\ size \in Nat

HeadersTyped == header \in hdrOnDisk /\ \A h \in hdrOnDisk : HeaderTyped(h)

CellsTyped == DOMAIN cells = Cells /\ DOMAIN synced = Cells

RequestTyped ==
    /\ phase \in Phases
    /\ request \in [key : BlockKeys, content : Contents \union {Nothing}]
    /\ request.key \in Keys => request.content \in Contents

FlagsTyped == indexChanged \in BOOLEAN /\ dirty \in BOOLEAN

HistoryTyped ==
    /\ stored \in [Keys -> Contents \union {Nothing, Unknown}]
    /\ lostSyncs \in 0 .. MaxLostSyncs
    /\ failedWrites \in 0 .. MaxFailedWrites

TypeInv == /\ IndexTyped /\ HeadersTyped /\ CellsTyped
           /\ RequestTyped /\ FlagsTyped /\ HistoryTyped

LEMMA TypeInvMeaning == TypeInv <=> TypeOK /\ OneBlockPerKey
BY DEF TypeInv, TypeOK, OneBlockPerKey, IndexTyped, HeadersTyped, HeaderTyped,
       CellsTyped, RequestTyped, FlagsTyped, HistoryTyped

LEMMA TypeInit == Init => TypeInv
<1> SUFFICES ASSUME Init PROVE TypeInv
  OBVIOUS
<1>1. IsIndex(<< >>) /\ KeysUnique(<< >>)
  BY DEF IsIndex, KeysUnique
<1>2. IndexTyped
  BY <1>1, CacheFileAssumption DEF Init, IndexTyped
<1>3. HeadersTyped
  BY DEF Init, HeadersTyped, HeaderTyped, IsHeader
<1>4. CellsTyped
  BY DEF Init, CellsTyped
<1>5. RequestTyped
  BY CacheFileAssumption DEF Init, RequestTyped, Phases, NoRequest, BlockKeys
<1>6. FlagsTyped
  BY DEF Init, FlagsTyped
<1>7. HistoryTyped
  BY CacheFileAssumption DEF Init, HistoryTyped, Empty
<1> QED
  BY <1>2, <1>3, <1>4, <1>5, <1>6, <1>7 DEF TypeInv

\* A sync leaves on the disk one of the headers it could hold.
LEMMA SyncTyped ==
    ASSUME HeadersTyped, CellsTyped, lostSyncs \in 0 .. MaxLostSyncs, Sync
    PROVE  /\ HeadersTyped' /\ CellsTyped'
           /\ lostSyncs' \in 0 .. MaxLostSyncs /\ failedWrites' = failedWrites
<1>1. ASSUME NEW h \in hdrOnDisk, NEW f, DOMAIN f = Cells, Synced(h, f)
      PROVE  HeadersTyped' /\ CellsTyped'
  BY <1>1 DEF Synced, HeadersTyped, CellsTyped
<1>2. CASE Synced(header, cells) /\ UNCHANGED faults
  <2>1. header \in hdrOnDisk /\ DOMAIN cells = Cells
    BY DEF HeadersTyped, CellsTyped
  <2> QED
    BY <1>1, <1>2, <2>1 DEF faults
<1>3. ASSUME lostSyncs < MaxLostSyncs, NEW h \in hdrOnDisk, NEW lost \in SUBSET Unsynced,
             Synced(h, Without(lost)), lostSyncs' = lostSyncs + 1, UNCHANGED failedWrites
      PROVE  HeadersTyped' /\ CellsTyped' /\ lostSyncs' \in 0 .. MaxLostSyncs
  <2>1. DOMAIN Without(lost) = Cells
    BY DEF Without
  <2>2. HeadersTyped' /\ CellsTyped'
    BY <1>1, <1>3, <2>1
  <2>3. lostSyncs' \in 0 .. MaxLostSyncs
    BY <1>3, CacheFileAssumption
  <2> QED
    BY <2>2, <2>3
<1> QED
  BY <1>2, <1>3 DEF Sync, faults

\* Writing a well-formed header keeps the headers well-formed.
LEMMA WriteHeaderTyped ==
    ASSUME HeadersTyped, NEW h, HeaderTyped(h), WriteHeader(h)
    PROVE  HeadersTyped'
BY DEF HeadersTyped, WriteHeader

LEMMA FlaggedTyped ==
    ASSUME HeadersTyped, NEW d \in BOOLEAN
    PROVE  HeaderTyped(Flagged(d))
<1>1. HeaderTyped(header)
  BY DEF HeadersTyped
<1> QED
  BY <1>1 DEF Flagged, HeaderTyped, IsHeader

\* Raising the dirty flag.
LEMMA BeginTyped ==
    ASSUME TypeInv, NEW r \in [key : BlockKeys, content : Contents \union {Nothing}],
           r.key \in Keys => r.content \in Contents, Begin(r)
    PROVE  TypeInv'
<1> USE DEF TypeInv
<1>1. IndexTyped' /\ CellsTyped' /\ HistoryTyped' /\ FlagsTyped'
  BY DEF Begin, memory, disk, faults, IndexTyped, CellsTyped, HistoryTyped, FlagsTyped
<1>2. HeadersTyped'
  <2>1. CASE dirty
    BY <2>1 DEF Begin, disk, HeadersTyped
  <2>2. CASE ~dirty
    BY <2>2, FlaggedTyped, WriteHeaderTyped DEF Begin
  <2> QED
    BY <2>1, <2>2
<1>3. RequestTyped'
  BY DEF Begin, RequestTyped, Phases
<1> QED
  BY <1>1, <1>2, <1>3

\* The keys of data blocks, and their lengths.
LEMMA KeysAreBlockKeys ==
    /\ \A k \in Keys : k \in BlockKeys /\ k # FREE /\ k # INDEX
    /\ FREE \in BlockKeys /\ INDEX \in BlockKeys /\ FREE # INDEX
    /\ \A c \in Contents : Size[c] \in Nat
BY CacheFileAssumption DEF BlockKeys

LEMMA NoRequestTyped == phase' \in Phases /\ request' = NoRequest => RequestTyped'
BY CacheFileAssumption DEF RequestTyped, NoRequest, BlockKeys

\* Giving the item of a written block its new hash.
LEMMA HashedTyped ==
    ASSUME NEW t, NEW k, IsPlace(t, k), KeysUnique(t.items), NEW h
    PROVE  /\ IsIndex([t.items EXCEPT ![t.at].hash = h])
           /\ KeysUnique([t.items EXCEPT ![t.at].hash = h])
           /\ [t.items EXCEPT ![t.at].hash = h][t.at].key = k
           /\ [t.items EXCEPT ![t.at].hash = h][t.at].hash = h
           /\ t.at \in DOMAIN [t.items EXCEPT ![t.at].hash = h]
<1> DEFINE s == t.items
           i == t.at
           it == [s[i] EXCEPT !.hash = h]
<1>1. IsIndex(s) /\ i \in DOMAIN s /\ s[i].key = k
  BY DEF IsPlace
<1>2. IsItem(s[i])
  BY <1>1 DEF IsIndex
<1>3. IsItem(it) /\ it.key = k /\ it.hash = h
  BY <1>1, <1>2, ItemExcept DEF IsItem
<1>4. [t.items EXCEPT ![t.at].hash = h] = [s EXCEPT ![i] = it]
  OBVIOUS
<1>5. \A j \in DOMAIN s : j # i => s[j].key # k \/ k = FREE
  BY <1>1 DEF KeysUnique
<1> HIDE DEF it
<1>6. IsIndex([s EXCEPT ![i] = it])
  BY <1>1, <1>3, IndexExcept
<1>7. KeysUnique([s EXCEPT ![i] = it])
  BY <1>1, <1>3, <1>5, UniqueExcept
<1>8. i \in DOMAIN [s EXCEPT ![i] = it] /\ [s EXCEPT ![i] = it][i] = it
  BY <1>1
<1> QED
  BY <1>3, <1>4, <1>6, <1>7, <1>8

\* A block stored.
LEMMA StoreTyped == ASSUME TypeInv, Store PROVE TypeInv'
<1> USE DEF TypeInv
<1> DEFINE k == request.key
           c == request.content
<1>1. k \in Keys /\ c \in Contents /\ k \in BlockKeys /\ k # FREE /\ Size[c] \in Nat
  BY KeysAreBlockKeys DEF Store, RequestTyped
<1>2. PICK t \in Targets(index, size, k, Size[c]) :
        /\ index' = [t.items EXCEPT ![t.at].hash = c]
        /\ size' = t.end
        /\ cells' = Written(cells, t.items[t.at], c, Size[c])
        /\ stored' = [stored EXCEPT ![k] = c]
  BY DEF Store
<1>3. IsPlace(t, k) /\ KeysUnique(t.items)
  BY <1>1, TargetsTyped, UniqueTargets DEF IndexTyped
<1>4. IndexTyped'
  BY <1>2, <1>3, HashedTyped DEF IndexTyped, IsPlace
<1>5. CellsTyped'
  BY <1>2 DEF Store, Written, CellsTyped
<1>6. HeadersTyped' /\ FlagsTyped'
  BY DEF Store, HeadersTyped, FlagsTyped
<1>7. RequestTyped'
  BY NoRequestTyped DEF Store, Phases
<1>8. HistoryTyped'
  BY <1>1, <1>2 DEF Store, faults, HistoryTyped
<1> QED
  BY <1>4, <1>5, <1>6, <1>7, <1>8

\* A write that came up short.
LEMMA StoreFailsTyped == ASSUME TypeInv, StoreFails PROVE TypeInv'
<1> USE DEF TypeInv
<1> DEFINE k == request.key
           c == request.content
<1>1. k \in Keys /\ c \in Contents /\ k \in BlockKeys /\ k # FREE /\ Size[c] \in Nat
  BY KeysAreBlockKeys DEF StoreFails, RequestTyped
<1>2. PICK t \in Targets(index, size, k, Size[c]) :
        /\ index' = t.items
        /\ size' = t.end
        /\ indexChanged' = (indexChanged \/ t.moved)
        /\ DOMAIN cells' = Cells
        /\ stored' = [stored EXCEPT ![k] = Unknown]
  BY DEF StoreFails, WrittenInPart
<1>3. IsPlace(t, k) /\ KeysUnique(t.items)
  BY <1>1, TargetsTyped, UniqueTargets DEF IndexTyped
<1>4. IndexTyped'
  BY <1>2, <1>3 DEF IndexTyped, IsPlace
<1>5. CellsTyped'
  BY <1>2 DEF StoreFails, CellsTyped
<1>6. HeadersTyped' /\ FlagsTyped'
  BY <1>2, <1>3 DEF StoreFails, HeadersTyped, FlagsTyped, IsPlace
<1>7. RequestTyped'
  BY NoRequestTyped DEF StoreFails, Phases
<1>8. HistoryTyped'
  BY <1>1, <1>2, CacheFileAssumption DEF StoreFails, HistoryTyped
<1> QED
  BY <1>4, <1>5, <1>6, <1>7, <1>8

\* The index, with a block for itself.
LEMMA PreparedTyped ==
    ASSUME IndexTyped, NEW p \in Prepared
    PROVE  /\ IsIndex(p.items) /\ KeysUnique(p.items) /\ p.end \in Nat
           /\ Find(p.items, INDEX) # {}
<1> DEFINE n == ItemSize * (Len(index) * 2 + IndexSlack)
<1>1. CASE Find(index, INDEX) # {}
  BY <1>1 DEF Prepared, IndexTyped
<1>2. CASE Find(index, INDEX) = {}
  <2>1. p \in Allocations(index, size, INDEX, n)
    BY <1>2 DEF Prepared
  <2>2. n \in Nat
    <3>1. Len(index) \in Nat
      BY IndexShape DEF IndexTyped
    <3> QED
      BY <3>1, CacheFileAssumption
  <2> HIDE DEF n
  <2>3. IsPlace(p, INDEX) /\ KeysUnique(p.items)
    BY <1>2, <2>1, <2>2, KeysAreBlockKeys, AllocationsTyped, UniqueAllocations DEF IndexTyped
  <2> QED
    BY <2>3 DEF IsPlace, Find
<1> QED
  BY <1>1, <1>2

\* The index stored, and the header pointed to it.
LEMMA StoreIndexTyped == ASSUME TypeInv, StoreIndex PROVE TypeInv'
<1> USE DEF TypeInv
<1>1. PICK p, t :
        p \in Prepared /\ t \in IndexTargets(p) /\
        LET s == Snapshot(p.items)
            n == Len(s) * ItemSize
            old == p.items[CHOOSE i \in Find(p.items, INDEX) : TRUE]
            same == old.hash = s /\ old.dsize = n
            items == IF same THEN p.items ELSE [t.items EXCEPT ![t.at].hash = s]
        IN /\ index' = items
           /\ size' = IF same THEN p.end ELSE t.end
           /\ cells' = IF same THEN cells ELSE Written(cells, t.items[t.at], s, n)
           /\ WriteHeader([dirty |-> dirty, fsize |-> size',
                           index |-> items[CHOOSE i \in Find(items, INDEX) : TRUE]])
  BY DEF StoreIndex
<1> DEFINE s == Snapshot(p.items)
           top(items) == items[CHOOSE i \in Find(items, INDEX) : TRUE]
<1>2. /\ IsIndex(p.items) /\ KeysUnique(p.items) /\ p.end \in Nat
      /\ Find(p.items, INDEX) # {}
  BY <1>1, PreparedTyped
<1>3. IsIndex(s) /\ KeysUnique(s) /\ Len(s) \in Nat
  BY <1>2, SnapshotTyped
<1>4. IsPlace(t, INDEX) /\ KeysUnique(t.items)
  <2>1. Len(p.items) * ItemSize \in Nat
    BY <1>2, IndexShape, CacheFileAssumption
  <2>2. t \in Targets(p.items, p.end, INDEX, Len(p.items) * ItemSize)
    BY <1>1 DEF IndexTargets
  <2> QED
    BY <1>2, <2>1, <2>2, KeysAreBlockKeys, TargetsTyped, UniqueTargets
<1>5. ASSUME NEW items, IsIndex(items), KeysUnique(items), Find(items, INDEX) # {},
             \E i \in DOMAIN items : items[i].key = INDEX /\ items[i].hash = s
      PROVE  IsItem(top(items)) /\ top(items).key = INDEX /\ top(items).hash = s
  <2>1. PICK i \in DOMAIN items : items[i].key = INDEX /\ items[i].hash = s
    BY <1>5
  <2>2. Find(items, INDEX) = {i}
    BY <2>1, <1>5, KeysAreBlockKeys DEF Find, KeysUnique
  <2>3. top(items) = items[i]
    BY <2>2
  <2> HIDE DEF top, s
  <2> QED
    BY <2>1, <2>3, <1>5 DEF IsIndex
<1>6. /\ IsIndex(index') /\ KeysUnique(index') /\ Find(index', INDEX) # {}
      /\ \E i \in DOMAIN index' : index'[i].key = INDEX /\ index'[i].hash = s
      /\ size' \in Nat
      /\ DOMAIN cells' = Cells
      /\ WriteHeader([dirty |-> dirty, fsize |-> size', index |-> top(index')])
  <2> DEFINE n == Len(s) * ItemSize
             old == top(p.items)
             hashed == [t.items EXCEPT ![t.at].hash = s]
  <2>1. CASE old.hash = s /\ old.dsize = n
    <3>1. index' = p.items /\ size' = p.end /\ cells' = cells
          /\ WriteHeader([dirty |-> dirty, fsize |-> size', index |-> top(index')])
      BY <1>1, <2>1
    <3>2. PICK i \in Find(p.items, INDEX) : old = p.items[i]
      BY <1>2
    <3>3. i \in DOMAIN p.items /\ p.items[i].key = INDEX /\ p.items[i].hash = s
      BY <2>1, <3>2 DEF Find
    <3> HIDE DEF s, top
    <3> QED
      BY <1>2, <3>1, <3>3 DEF CellsTyped
  <2>2. CASE ~(old.hash = s /\ old.dsize = n)
    <3>1. index' = hashed /\ size' = t.end /\ cells' = Written(cells, t.items[t.at], s, n)
          /\ WriteHeader([dirty |-> dirty, fsize |-> size', index |-> top(index')])
      BY <1>1, <2>2
    <3>2. IsIndex(hashed) /\ KeysUnique(hashed) /\ t.at \in DOMAIN hashed
          /\ hashed[t.at].key = INDEX /\ hashed[t.at].hash = s
      BY <1>4, HashedTyped
    <3>3. DOMAIN cells' = Cells
      BY <3>1 DEF Written
    <3>4. t.end \in Nat
      BY <1>4 DEF IsPlace
    <3>5. t.at \in Find(hashed, INDEX)
      BY <3>2 DEF Find
    <3> HIDE DEF s, top, hashed, n
    <3> QED
      BY <3>1, <3>2, <3>3, <3>4, <3>5
  <2> QED
    BY <2>1, <2>2
<1>7. IsItem(top(index')) /\ top(index').key = INDEX /\ top(index').hash = s
  BY <1>5, <1>6
<1> HIDE DEF s, top
<1>8. HeadersTyped'
  <2> DEFINE h == [dirty |-> dirty, fsize |-> size', index |-> top(index')]
  <2>1. HeaderTyped(h)
    BY <1>3, <1>6, <1>7 DEF HeaderTyped, IsHeader, FlagsTyped
  <2> HIDE DEF h
  <2> QED
    BY <1>6, <2>1, WriteHeaderTyped DEF h
<1>9. IndexTyped'
  BY <1>6 DEF IndexTyped
<1>10. CellsTyped'
  BY <1>6 DEF StoreIndex, CellsTyped
<1>11. RequestTyped'
  BY NoRequestTyped DEF StoreIndex, Phases
<1>12. FlagsTyped' /\ HistoryTyped'
  BY DEF StoreIndex, faults, FlagsTyped, HistoryTyped
<1> QED
  BY <1>8, <1>9, <1>10, <1>11, <1>12

\* The index, of which only a part was written.
LEMMA StoreIndexFailsTyped == ASSUME TypeInv, StoreIndexFails PROVE TypeInv'
<1> USE DEF TypeInv
<1>1. PICK p \in Prepared : \E t \in IndexTargets(p) :
        /\ index' = t.items /\ size' = t.end /\ DOMAIN cells' = Cells
  BY DEF StoreIndexFails, WrittenInPart
<1>2. PICK t \in IndexTargets(p) :
        /\ index' = t.items /\ size' = t.end /\ DOMAIN cells' = Cells
  BY <1>1
<1>3. IsPlace(t, INDEX) /\ KeysUnique(t.items)
  <2>1. IsIndex(p.items) /\ KeysUnique(p.items) /\ p.end \in Nat
    BY PreparedTyped
  <2>2. Len(p.items) * ItemSize \in Nat
    BY <2>1, IndexShape, CacheFileAssumption
  <2>3. t \in Targets(p.items, p.end, INDEX, Len(p.items) * ItemSize)
    BY DEF IndexTargets
  <2> QED
    BY <2>1, <2>2, <2>3, KeysAreBlockKeys, TargetsTyped, UniqueTargets
<1>4. IndexTyped'
  BY <1>2, <1>3 DEF IndexTyped, IsPlace
<1>5. CellsTyped'
  BY <1>2 DEF StoreIndexFails, CellsTyped
<1>6. HeadersTyped' /\ FlagsTyped'
  BY <1>2, <1>3 DEF StoreIndexFails, HeadersTyped, FlagsTyped, IsPlace
<1>7. RequestTyped'
  BY NoRequestTyped DEF StoreIndexFails, Phases
<1>8. HistoryTyped'
  BY CacheFileAssumption DEF StoreIndexFails, HistoryTyped
<1> QED
  BY <1>4, <1>5, <1>6, <1>7, <1>8

\* Every step keeps the type invariant.
LEMMA TypeStep == TypeInv /\ [Next]_vars => TypeInv'
<1> SUFFICES ASSUME TypeInv, [Next]_vars PROVE TypeInv'
  OBVIOUS
<1> USE DEF TypeInv
<1>1. CASE Create
  <2>1. IndexTyped'
    <3>1. IsIndex(<< >>) /\ KeysUnique(<< >>)
      BY DEF IsIndex, KeysUnique
    <3> QED
      BY <1>1, <3>1, CacheFileAssumption DEF Create, IndexTyped
  <2>2. HeadersTyped'
    BY <1>1, CacheFileAssumption DEF Create, HeadersTyped, HeaderTyped, IsHeader
  <2>3. CellsTyped' /\ RequestTyped' /\ FlagsTyped'
    BY <1>1 DEF Create, CellsTyped, RequestTyped, FlagsTyped, Phases
  <2>4. HistoryTyped'
    BY <1>1 DEF Create, HistoryTyped, Empty, faults
  <2> QED
    BY <2>1, <2>2, <2>3, <2>4
<1>2. CASE Open
  <2>1. HeaderTyped(header) /\ header # NoHeader
    BY <1>2 DEF Open, Accepted, HeadersTyped
  <2>2. IndexTyped'
    BY <1>2, <2>1, LoadedTyped, StreamSizeTyped DEF Open, IndexTyped
  <2>3. HeadersTyped' /\ CellsTyped' /\ RequestTyped' /\ FlagsTyped'
    BY <1>2 DEF Open, disk, HeadersTyped, CellsTyped, RequestTyped, FlagsTyped, Phases
  <2>4. HistoryTyped'
    BY <1>2, ContainedTyped DEF Open, faults, HistoryTyped
  <2> QED
    BY <2>2, <2>3, <2>4
<1>3. ASSUME NEW k \in Keys, NEW c \in Contents, WriteSame(k, c) PROVE TypeInv'
  <2>1. IndexTyped' /\ HeadersTyped' /\ CellsTyped' /\ RequestTyped' /\ FlagsTyped'
    BY <1>3 DEF WriteSame, memory, disk, IndexTyped, HeadersTyped, CellsTyped,
                RequestTyped, FlagsTyped
  <2>2. HistoryTyped'
    BY <1>3 DEF WriteSame, faults, HistoryTyped
  <2> QED
    BY <2>1, <2>2
<1>4. ASSUME NEW k \in Keys, NEW c \in Contents, Write(k, c) PROVE TypeInv'
  <2> DEFINE r == [key |-> k, content |-> c]
  <2>1. r \in [key : BlockKeys, content : Contents \union {Nothing}]
        /\ r.content \in Contents /\ Begin(r)
    BY <1>4, KeysAreBlockKeys DEF Write
  <2> HIDE DEF r
  <2> QED
    BY <2>1, BeginTyped
<1>5. CASE SyncDirty
  <2>1. IndexTyped' /\ RequestTyped' /\ FlagsTyped'
    BY <1>5 DEF SyncDirty, memory, IndexTyped, RequestTyped, FlagsTyped, Phases
  <2>2. HeadersTyped' /\ CellsTyped' /\ HistoryTyped'
    BY <1>5, SyncTyped DEF SyncDirty, HistoryTyped
  <2> QED
    BY <2>1, <2>2
<1>6. CASE Store
  BY <1>6, StoreTyped
<1>7. CASE StoreFails
  BY <1>7, StoreFailsTyped
<1>8. CASE FlushIndex
  <2> DEFINE r == [key |-> INDEX, content |-> Nothing]
  <2>1. r \in [key : BlockKeys, content : Contents \union {Nothing}]
        /\ r.key \notin Keys /\ Begin(r)
    BY <1>8, KeysAreBlockKeys DEF FlushIndex
  <2> HIDE DEF r
  <2> QED
    BY <2>1, BeginTyped
<1>9. CASE FlushUnchanged
  BY <1>9 DEF FlushUnchanged, memory, disk, faults, IndexTyped, HeadersTyped,
              CellsTyped, RequestTyped, FlagsTyped, HistoryTyped, Phases
<1>10. CASE StoreIndex
  BY <1>10, StoreIndexTyped
<1>19. CASE StoreIndexFails
  BY <1>19, StoreIndexFailsTyped
<1>11. CASE SyncData
  <2>1. IndexTyped' /\ RequestTyped' /\ FlagsTyped'
    BY <1>11 DEF SyncData, memory, IndexTyped, RequestTyped, FlagsTyped, Phases
  <2>2. HeadersTyped' /\ CellsTyped' /\ HistoryTyped'
    BY <1>11, SyncTyped DEF SyncData, HistoryTyped
  <2> QED
    BY <2>1, <2>2
<1>12. CASE WriteClean
  <2>1. IndexTyped' /\ CellsTyped' /\ RequestTyped' /\ FlagsTyped' /\ HistoryTyped'
    BY <1>12 DEF WriteClean, faults, IndexTyped, CellsTyped, RequestTyped,
                 FlagsTyped, HistoryTyped, Phases
  <2>2. HeadersTyped'
    BY <1>12, FlaggedTyped, WriteHeaderTyped DEF WriteClean
  <2> QED
    BY <2>1, <2>2
<1>13. CASE SyncClean
  <2>1. IndexTyped' /\ RequestTyped' /\ FlagsTyped'
    BY <1>13 DEF SyncClean, memory, IndexTyped, RequestTyped, FlagsTyped, Phases
  <2>2. HeadersTyped' /\ CellsTyped' /\ HistoryTyped'
    BY <1>13, SyncTyped DEF SyncClean, HistoryTyped
  <2> QED
    BY <2>1, <2>2
<1>14. ASSUME Forget
       PROVE  IndexTyped' /\ RequestTyped' /\ FlagsTyped'
              /\ stored' \in [Keys -> Contents \union {Nothing, Unknown}]
  <2>1. IsIndex(<< >>) /\ KeysUnique(<< >>)
    BY DEF IsIndex, KeysUnique
  <2>2. IndexTyped' /\ FlagsTyped'
    BY <1>14, <2>1, CacheFileAssumption DEF Forget, IndexTyped, FlagsTyped
  <2>3. RequestTyped'
    BY <1>14, NoRequestTyped DEF Forget, Phases
  <2> QED
    BY <1>14, <2>2, <2>3 DEF Forget, Empty
<1>15. ASSUME NEW h \in hdrOnDisk, NEW f, DOMAIN f = Cells, Synced(h, f)
       PROVE  HeadersTyped' /\ CellsTyped'
  BY <1>15 DEF Synced, HeadersTyped, CellsTyped
<1>16. CASE Close
  <2>1. CASE IsClean(header)
    BY <1>14, <1>16, <2>1, SyncTyped DEF Close, HistoryTyped
  <2>2. CASE ~IsClean(header)
    <3>1. header \in hdrOnDisk
      BY DEF HeadersTyped
    <3> QED
      BY <1>14, <1>15, <1>16, <2>2, <3>1 DEF Close, HistoryTyped, faults
  <2> QED
    BY <2>1, <2>2
<1>17. CASE Crash
  <2>1. PICK h \in hdrOnDisk : \E f \in CrashCells(h) : Synced(h, f)
    BY <1>17 DEF Crash
  <2>2. PICK f \in CrashCells(h) : Synced(h, f)
    BY <2>1
  <2>3. DOMAIN f = Cells
    BY DEF CrashCells, Without
  <2> QED
    BY <1>14, <1>15, <1>17, <2>2, <2>3 DEF Crash, HistoryTyped, faults
<1>18. CASE UNCHANGED vars
  BY <1>18 DEF vars, memory, disk, faults, IndexTyped, HeadersTyped, CellsTyped,
               RequestTyped, FlagsTyped, HistoryTyped
<1> QED
  BY <1>1, <1>2, <1>3, <1>4, <1>5, <1>6, <1>7, <1>8, <1>9, <1>10, <1>11, <1>12,
     <1>13, <1>16, <1>17, <1>18, <1>19 DEF Next

LEMMA TypeInvHolds == Spec => []TypeInv
BY TypeInit, TypeStep, PTL DEF Spec

\* The state keeps its type: every item of the index, and of every index a header
\* on the disk names, has a key, a place, two sizes and a hash, through any reuse,
\* move, reload, failed write and crash.
THEOREM TypeCorrect == Spec => []TypeOK
BY TypeInvHolds, TypeInvMeaning, PTL

\* write(), writeIndex() and readIndex() never give one key two blocks.
THEOREM OneBlockPerKeyAlways == Spec => []OneBlockPerKey
BY TypeInvHolds, TypeInvMeaning, PTL

-----------------------------------------------------------------------------
(* Where blocks lie *)

LEMMA RoundSectorCovers == \A n \in Nat : n <= RoundSector(n)
<1> SUFFICES ASSUME NEW n \in Nat PROVE n <= RoundSector(n)
  OBVIOUS
<1> DEFINE m == n + SectorSize - 1
           q == m \div SectorSize
<1>1. SectorSize \in Nat \ {0} /\ m \in Nat
  BY CacheFileAssumption
<1>2. \A d \in Nat \ {0}, x \in Nat : x < d * (x \div d) + d /\ x \div d \in Nat
  OBVIOUS
<1>3. m < SectorSize * q + SectorSize /\ q \in Nat
  BY <1>1, <1>2
<1>4. RoundSector(n) = q * SectorSize
  BY DEF RoundSector
<1> HIDE DEF q
<1>5. \A x, y \in Nat : x * y = y * x /\ x * y \in Nat
  OBVIOUS
<1>6. SectorSize * q = q * SectorSize /\ q * SectorSize \in Nat
  BY <1>1, <1>3, <1>5
<1> QED
  BY <1>1, <1>3, <1>4, <1>6

\* A block within a file of that size, with room for its data; blocks without a common
\* cell; an index of such blocks.
Placed(it, end) ==
    it.pos >= SectorSize /\ it.dsize <= it.bsize /\ it.pos + it.bsize <= end

Apart(it, other) ==
    it.pos + it.bsize <= other.pos \/ other.pos + other.bsize <= it.pos

Laid(items, end) ==
    /\ end >= SectorSize
    /\ \A i \in DOMAIN items : Placed(items[i], end)
    /\ \A i, j \in DOMAIN items : i # j => Apart(items[i], items[j])

\* A block that is used for something else stays where it is.
LEMMA LaidExcept ==
    ASSUME NEW s, NEW end, Laid(s, end), NEW i \in DOMAIN s, NEW it,
           it.pos = s[i].pos, it.bsize = s[i].bsize, it.dsize <= it.bsize
    PROVE  Laid([s EXCEPT ![i] = it], end)
BY DEF Laid, Placed, Apart

\* A block at the end of the file.
LEMMA LaidAppend ==
    ASSUME NEW s, IsIndex(s), NEW end \in Nat, Laid(s, end),
           NEW it, IsItem(it), it.pos = end, it.dsize <= it.bsize
    PROVE  Laid(Append(s, it), end + it.bsize)
<1>1. Len(s) \in Nat /\ DOMAIN s = 1 .. Len(s) /\ s \in Seq({s[j] : j \in DOMAIN s} \union {it})
  BY DEF IsIndex
<1>2. /\ DOMAIN Append(s, it) = 1 .. Len(s) + 1
      /\ \A j \in 1 .. Len(s) + 1 :
            Append(s, it)[j] = IF j <= Len(s) THEN s[j] ELSE it
  BY <1>1
<1>3. \A j \in 1 .. Len(s) + 1 : j \in DOMAIN s \/ j = Len(s) + 1
  BY <1>1
<1>4. \A j \in DOMAIN s : IsItem(s[j])
  BY DEF IsIndex
<1>5. it.bsize \in Nat /\ it.dsize \in Nat /\ end >= SectorSize /\ SectorSize \in Nat
  BY CacheFileAssumption DEF IsItem, Laid
<1>6. \A j \in DOMAIN s : /\ s[j].pos \in Nat /\ s[j].bsize \in Nat
                          /\ Placed(s[j], end) /\ j <= Len(s) /\ Append(s, it)[j] = s[j]
  BY <1>1, <1>2, <1>4 DEF IsItem, Laid
<1>7. Append(s, it)[Len(s) + 1] = it
  BY <1>1, <1>2
<1> DEFINE r == Append(s, it)
<1>8. \A j \in 1 .. Len(s) + 1 : Placed(r[j], end + it.bsize)
  <2> SUFFICES ASSUME NEW j \in 1 .. Len(s) + 1 PROVE Placed(r[j], end + it.bsize)
    OBVIOUS
  <2>1. CASE j \in DOMAIN s
    BY <2>1, <1>5, <1>6 DEF Placed
  <2>2. CASE j = Len(s) + 1
    BY <2>2, <1>5, <1>7 DEF Placed
  <2> QED
    BY <2>1, <2>2, <1>3
<1>9. ASSUME NEW i \in 1 .. Len(s) + 1, NEW j \in 1 .. Len(s) + 1, i # j
      PROVE  Apart(r[i], r[j])
  <2>1. CASE i \in DOMAIN s /\ j \in DOMAIN s
    BY <2>1, <1>6, <1>9 DEF Laid
  <2>2. CASE i \in DOMAIN s /\ j = Len(s) + 1
    BY <2>2, <1>5, <1>6, <1>7 DEF Apart, Placed
  <2>3. CASE i = Len(s) + 1 /\ j \in DOMAIN s
    BY <2>3, <1>5, <1>6, <1>7 DEF Apart, Placed
  <2> QED
    BY <2>1, <2>2, <2>3, <1>3, <1>9
<1>10. end + it.bsize >= SectorSize
  BY <1>5
<1> QED
  BY <1>2, <1>8, <1>9, <1>10 DEF Laid

\* The block chosen for n cells of key k: the other blocks are as they were, but for the
\* old block of the key, which may have been freed.
Chosen(t, s, k, n) ==
    /\ t.at \in DOMAIN t.items /\ t.items[t.at].dsize = n
    /\ t.items[t.at].key = k
    /\ t.at \in DOMAIN s => s[t.at].key \in {k, FREE}
    /\ DOMAIN s \subseteq DOMAIN t.items
    /\ \A j \in DOMAIN t.items :
          \/ j = t.at
          \/ j \in DOMAIN s /\ t.items[j] = s[j]
          \/ j \in DOMAIN s /\ s[j].key = k /\ t.items[j].key = FREE

LEMMA LaidAllocations ==
    ASSUME NEW s, IsIndex(s), NEW end \in Nat, Laid(s, end), NEW k \in BlockKeys,
           NEW n \in Nat, NEW t \in Allocations(s, end, k, n)
    PROVE  /\ Laid(t.items, t.end) /\ t.end >= end
           /\ Chosen(t, s, k, n)
           /\ \A j \in DOMAIN t.items : j = t.at \/ (j \in DOMAIN s /\ t.items[j] = s[j])
<1>1. CASE BestFit(s, n) # {}
  <2>1. PICK i \in BestFit(s, n) :
          t = [items |-> [s EXCEPT ![i] = [s[i] EXCEPT !.key = k, !.dsize = n]],
               at |-> i, end |-> end, moved |-> TRUE]
    BY <1>1 DEF Allocations
  <2>2. i \in DOMAIN s /\ s[i].key = FREE /\ s[i].bsize >= n
    BY DEF BestFit, Find
  <2> DEFINE it == [s[i] EXCEPT !.key = k, !.dsize = n]
  <2>3. it.pos = s[i].pos /\ it.bsize = s[i].bsize /\ it.dsize = n /\ it.key = k
    BY <2>2 DEF IsIndex, IsItem
  <2>4. t.items = [s EXCEPT ![i] = it] /\ t.at = i /\ t.end = end
    BY <2>1
  <2>5. it.dsize <= it.bsize
    BY <2>2, <2>3
  <2> HIDE DEF it
  <2>6. Laid(t.items, t.end)
    BY <2>2, <2>3, <2>4, <2>5, LaidExcept
  <2>7. /\ DOMAIN t.items = DOMAIN s /\ t.items[t.at] = it
        /\ \A j \in DOMAIN s : j # i => t.items[j] = s[j]
    BY <2>2, <2>4
  <2> QED
    BY <2>2, <2>3, <2>4, <2>6, <2>7 DEF Chosen
<1>2. CASE BestFit(s, n) = {}
  <2> DEFINE it == Item(k, end, RoundSector(n), n, NoHash)
  <2>1. /\ IsItem(it) /\ it.key = k /\ it.pos = end /\ it.dsize = n
        /\ it.bsize = RoundSector(n) /\ it.dsize <= it.bsize
    BY RoundSectorTyped, RoundSectorCovers DEF IsItem, Item
  <2>2. t.items = Append(s, it) /\ t.at = Len(s) + 1 /\ t.end = end + it.bsize
    <3>1. t.items = Append(s, it) /\ t.at = Len(s) + 1 /\ t.end = end + RoundSector(n)
      BY <1>2 DEF Allocations
    <3> HIDE DEF it
    <3> QED
      BY <2>1, <3>1
  <2> HIDE DEF it
  <2>3. Laid(t.items, t.end)
    BY <2>1, <2>2, LaidAppend
  <2>4. Len(s) \in Nat /\ DOMAIN s = 1 .. Len(s) /\ s \in Seq({s[j] : j \in DOMAIN s} \union {it})
    BY DEF IsIndex
  <2>5. /\ DOMAIN t.items = 1 .. Len(s) + 1
        /\ \A j \in 1 .. Len(s) + 1 : t.items[j] = IF j <= Len(s) THEN s[j] ELSE it
    BY <2>2, <2>4
  <2>6. t.items[t.at] = it /\ t.at \in DOMAIN t.items /\ t.at \notin DOMAIN s
    BY <2>2, <2>4, <2>5
  <2>7. DOMAIN s \subseteq DOMAIN t.items
    BY <2>4, <2>5
  <2>8. \A j \in DOMAIN t.items : j = t.at \/ (j \in DOMAIN s /\ t.items[j] = s[j])
    BY <2>2, <2>4, <2>5
  <2>9. t.end >= end
    <3>1. it.bsize \in Nat
      BY <2>1 DEF IsItem
    <3> QED
      BY <2>2, <3>1
  <2> QED
    BY <2>1, <2>3, <2>6, <2>7, <2>8, <2>9 DEF Chosen
<1> QED
  BY <1>1, <1>2

LEMMA LaidTargets ==
    ASSUME NEW s, IsIndex(s), KeysUnique(s), NEW end \in Nat, Laid(s, end),
           NEW k \in BlockKeys, k # FREE,
           NEW n \in Nat, NEW t \in Targets(s, end, k, n)
    PROVE  Laid(t.items, t.end) /\ t.end >= end /\ Chosen(t, s, k, n)
<1>1. CASE Find(s, k) = {}
  BY <1>1, LaidAllocations DEF Targets
<1>2. CASE Find(s, k) # {}
  <2> DEFINE i == CHOOSE j \in Find(s, k) : TRUE
             it == [s[i] EXCEPT !.dsize = n]
             free == Item(FREE, s[i].pos, s[i].bsize, 0,
                          IF s[i].key = INDEX THEN NoHash ELSE s[i].hash)
  <2>1. i \in DOMAIN s /\ s[i].key = k
    BY <1>2 DEF Find
  <2>2. Targets(s, end, k, n) =
          IF s[i].dsize >= n
          THEN {[items |-> [s EXCEPT ![i] = it], at |-> i, end |-> end, moved |-> FALSE]}
          ELSE Allocations(Freed(s, i), end, k, n)
    BY <1>2 DEF Targets
  <2>3. Freed(s, i) = [s EXCEPT ![i] = free]
    BY DEF Freed, Item
  <2> HIDE DEF i
  <2>4. IsItem(s[i]) /\ Placed(s[i], end)
    BY <2>1 DEF IsIndex, Laid
  <2>5. CASE s[i].dsize >= n
    <3>1. /\ it.pos = s[i].pos /\ it.bsize = s[i].bsize /\ it.dsize = n /\ it.key = k
          /\ it.dsize <= it.bsize
      BY <2>1, <2>4, <2>5 DEF IsItem, Placed
    <3>2. t.items = [s EXCEPT ![i] = it] /\ t.at = i /\ t.end = end
      BY <2>2, <2>5
    <3> HIDE DEF it
    <3>3. Laid(t.items, t.end)
      BY <2>1, <3>1, <3>2, LaidExcept
    <3>4. /\ DOMAIN t.items = DOMAIN s /\ t.items[t.at] = it
          /\ \A j \in DOMAIN s : j # i => t.items[j] = s[j]
      BY <2>1, <3>2
    <3> QED
      BY <2>1, <3>1, <3>2, <3>3, <3>4 DEF Chosen
  <2>6. CASE ~(s[i].dsize >= n)
    <3>1. /\ free.pos = s[i].pos /\ free.bsize = s[i].bsize /\ free.dsize = 0
          /\ free.key = FREE /\ free.dsize <= free.bsize
      BY <2>4 DEF Item, IsItem
    <3> HIDE DEF free
    <3> DEFINE r == Freed(s, i)
    <3>2. Laid(r, end)
      <4>1. Laid([s EXCEPT ![i] = free], end)
        BY <2>1, <3>1, LaidExcept
      <4> QED
        BY <2>3, <4>1
    <3>3. /\ DOMAIN r = DOMAIN s /\ r[i] = free
          /\ \A j \in DOMAIN s : j # i => r[j] = s[j]
      BY <2>1, <2>3
    <3>4. IsIndex(r)
      BY <2>1, FreedTyped
    <3>5. t \in Allocations(r, end, k, n)
      BY <2>2, <2>6
    <3> HIDE DEF r
    <3>6. /\ Laid(t.items, t.end) /\ t.end >= end
          /\ Chosen(t, r, k, n)
          /\ \A j \in DOMAIN t.items : j = t.at \/ (j \in DOMAIN r /\ t.items[j] = r[j])
      BY <3>2, <3>4, <3>5, LaidAllocations
    <3>7. t.at \in DOMAIN s => s[t.at].key \in {k, FREE}
      BY <2>1, <3>3, <3>6 DEF Chosen
    <3> QED
      BY <2>1, <3>1, <3>3, <3>6, <3>7 DEF Chosen
  <2> QED
    BY <2>5, <2>6
<1> QED
  BY <1>1, <1>2

-----------------------------------------------------------------------------
(* What a write leaves alone *)

\* The cells of a block are the same in f and g.
SameBlock(f, g, it) ==
    \A u \in Cells : it.pos <= u /\ u < it.pos + it.bsize => g[u] = f[u]

LEMMA WrittenApart ==
    ASSUME NEW f, NEW end \in Nat, NEW it, IsItem(it), Placed(it, end), NEW c, NEW n \in Nat,
           n <= it.bsize, NEW other, IsItem(other), Apart(it, other)
    PROVE  SameBlock(f, Written(f, it, c, n), other)
<1> SUFFICES ASSUME NEW u \in Cells, other.pos <= u, u < other.pos + other.bsize
             PROVE  Written(f, it, c, n)[u] = f[u]
  BY DEF SameBlock
<1>1. /\ it.pos \in Nat /\ it.bsize \in Nat /\ other.pos \in Nat /\ other.bsize \in Nat
      /\ u \in Int
  BY CacheFileAssumption DEF IsItem, Cells
<1>2. ~(it.pos <= u /\ u < it.pos + n) /\ ~(it.pos + n <= u /\ u < it.pos + it.bsize)
  BY <1>1 DEF Apart
<1> QED
  BY <1>2 DEF Written

LEMMA SameData ==
    ASSUME NEW f, NEW g, NEW it, IsItem(it), it.dsize <= it.bsize, SameBlock(f, g, it)
    PROVE  DataMatches(g, it) <=> DataMatches(f, it)
<1>1. /\ it.pos \in Nat /\ it.bsize \in Nat /\ it.dsize \in Nat
      /\ \A c \in Contents : Size[c] \in Nat
  BY KeysAreBlockKeys DEF IsItem
<1>2. ASSUME NEW n \in Nat, it.dsize = n PROVE HashMatches(g, it, n) <=> HashMatches(f, it, n)
  <2>1. \A i \in 0 .. n - 1 : it.pos + i \in Cells => g[it.pos + i] = f[it.pos + i]
    BY <1>1, <1>2 DEF SameBlock
  <2> QED
    BY <2>1 DEF HashMatches
<1>3. \A n \in Nat : HashMatches(g, it, n) <=> HashMatches(f, it, n)
  BY <1>2 DEF HashMatches
<1> QED
  BY <1>1, <1>3 DEF DataMatches

\* What was written can be read, from the item it was written for or one in its place.
LEMMA WrittenReads ==
    ASSUME NEW f, NEW it, IsItem(it), Placed(it, FileLimit), NEW c, NEW n \in Nat, n <= it.bsize,
           NEW r, r.pos = it.pos, r.dsize = n, r.hash = c
    PROVE  HashMatches(Written(f, it, c, n), r, n)
<1> SUFFICES ASSUME NEW i \in 0 .. n - 1
             PROVE  /\ it.pos + i \in Cells
                    /\ Written(f, it, c, n)[it.pos + i] = Cell(c, i)
  BY DEF HashMatches
<1>1. it.pos \in Nat /\ it.bsize \in Nat /\ i \in Nat /\ i < n
  BY DEF IsItem
<1>2. it.pos + i \in Cells
  BY <1>1, CacheFileAssumption DEF Cells, Placed
<1> DEFINE u == it.pos + i
<1>3. u \in Cells /\ it.pos <= u /\ u < it.pos + n /\ u - it.pos = i
  BY <1>1, <1>2
<1> HIDE DEF u
<1>4. Written(f, it, c, n)[u] = Cell(c, u - it.pos)
  BY <1>3 DEF Written
<1> QED
  BY <1>2, <1>3, <1>4 DEF u

\* Reading a key whose item, and whose cells, are as they were.
LEMMA ReadSame ==
    ASSUME NEW s, NEW r, NEW f, NEW g, NEW k, Find(r, k) = Find(s, k),
           \A j \in Find(s, k) : /\ r[j] = s[j]
                                 /\ DataMatches(g, s[j]) <=> DataMatches(f, s[j])
    PROVE  ReadBlock(r, g, k) = ReadBlock(s, f, k)
<1>1. CASE Find(s, k) = {}
  BY <1>1 DEF ReadBlock
<1>2. CASE Find(s, k) # {}
  <2> DEFINE i == CHOOSE j \in Find(s, k) : TRUE
  <2>1. i \in Find(s, k)
    BY <1>2
  <2>2. r[i] = s[i] /\ (DataMatches(g, r[i]) <=> DataMatches(f, s[i]))
    BY <2>1
  <2>3. /\ ReadBlock(s, f, k) = IF DataMatches(f, s[i]) THEN s[i].hash ELSE Unknown
        /\ ReadBlock(r, g, k) = IF DataMatches(g, r[i]) THEN r[i].hash ELSE Unknown
    BY <1>2 DEF ReadBlock
  <2> HIDE DEF i
  <2> QED
    BY <2>2, <2>3
<1> QED
  BY <1>1, <1>2

\* Reading a key that has one item.
LEMMA ReadIs ==
    ASSUME NEW s, KeysUnique(s), NEW i \in DOMAIN s, s[i].key # FREE, NEW f, DataMatches(f, s[i])
    PROVE  ReadBlock(s, f, s[i].key) = s[i].hash
<1>1. Find(s, s[i].key) = {i}
  BY DEF Find, KeysUnique
<1> QED
  BY <1>1 DEF ReadBlock

\* The other keys read the same after a block was chosen and written, or only chosen.
LEMMA ChosenReads ==
    ASSUME NEW s, IsIndex(s), NEW t, IsIndex(t.items), NEW end \in Nat, Laid(t.items, end),
           NEW k \in BlockKeys, NEW n \in Nat, Chosen(t, s, k, n), k # FREE,
           NEW r, DOMAIN r = DOMAIN t.items, r[t.at].key = k,
           \A j \in DOMAIN r : j # t.at => r[j] = t.items[j],
           NEW h, NEW key \in Keys, key # k, NEW f, NEW g,
           g = f \/ g = Written(f, t.items[t.at], h, n)
    PROVE  ReadBlock(r, g, key) = ReadBlock(s, f, key)
<1>1. t.at \in DOMAIN t.items
  BY DEF Chosen
<1>2. key # FREE /\ key # k
  BY CacheFileAssumption
<1>3. \A j \in DOMAIN r : r[j].key = key =>
         j \in DOMAIN s /\ j # t.at /\ r[j] = s[j] /\ t.items[j] = s[j]
  BY <1>1, <1>2 DEF Chosen
<1>4. \A j \in DOMAIN s : s[j].key = key =>
         j \in DOMAIN r /\ j # t.at /\ r[j] = s[j] /\ t.items[j] = s[j]
  BY <1>1, <1>2 DEF Chosen
<1>5. Find(r, key) = Find(s, key)
  BY <1>3, <1>4 DEF Find
<1>6. ASSUME NEW j \in Find(s, key)
      PROVE  r[j] = s[j] /\ (DataMatches(g, s[j]) <=> DataMatches(f, s[j]))
  <2>1. j \in DOMAIN t.items /\ j # t.at /\ r[j] = s[j] /\ t.items[j] = s[j]
    BY <1>1, <1>4 DEF Find
  <2>2. /\ IsItem(t.items[j]) /\ IsItem(t.items[t.at])
        /\ Placed(t.items[t.at], end) /\ Placed(t.items[j], end)
        /\ Apart(t.items[t.at], t.items[j])
    BY <1>1, <2>1 DEF IsIndex, Laid
  <2>3. n <= t.items[t.at].bsize /\ t.items[j].dsize <= t.items[j].bsize
    BY <2>2 DEF Chosen, Placed
  <2>4. SameBlock(f, g, t.items[j])
    <3>1. CASE g = f
      BY <3>1 DEF SameBlock
    <3>2. CASE g = Written(f, t.items[t.at], h, n)
      BY <2>2, <2>3, <3>2, WrittenApart
    <3> QED
      BY <3>1, <3>2
  <2>5. DataMatches(g, t.items[j]) <=> DataMatches(f, t.items[j])
    BY <2>2, <2>3, <2>4, SameData
  <2> QED
    BY <2>1, <2>5
<1> QED
  BY <1>5, <1>6, ReadSame

-----------------------------------------------------------------------------
(* The invariant of the session that created the file *)

\* A request was found to fit before it began.
RequestFits ==
    phase \in {"dirtying", "storing"} =>
        /\ request.key \in Keys =>
              \A t \in Targets(index, size, request.key, Size[request.content]) : Fits(t)
        /\ request.key = INDEX => IndexFits

\* Nothing failed since the file was created, and it was not opened again.
FirstSession == opens = 0 /\ lostSyncs = 0 /\ failedWrites = 0

\* Outside the index block, a block remembers a content or nothing.
HashesKnown(items) ==
    \A i \in DOMAIN items : items[i].key # INDEX => items[i].hash \in Contents \union {NoHash}

BlocksInv ==
    /\ opens \in Nat
    /\ opens = 0 => /\ RequestFits
                    /\ Laid(index, size) /\ size <= FileLimit
                    /\ HashesKnown(index)

\* Every key reads as it was stored.
ReadsStored == \A k \in Keys : stored[k] # Unknown /\ ReadBlock(index, cells, k) = stored[k]

ReadInv == FirstSession => ReadsStored

\* Cells are functions on the cells.
IsCells(f) == f = [u \in Cells |-> f[u]]

CellsInv == IsCells(cells) /\ IsCells(synced)

\* The file ends where the next new block goes.
EndsAtSize == phase # "closed" => size = StreamSize(cells)

\* The index block can be read.
IndexReads ==
    \A i \in DOMAIN index :
        index[i].key = INDEX => HashMatches(cells, index[i], index[i].dsize)

\* While the flag is up no header on the disk says clean.
DirtyUnclean ==
    /\ phase \in {"idle", "storing", "syncing", "cleaning"} /\ dirty
          => \A h \in hdrOnDisk : ~IsClean(h)
    /\ phase = "dirtying" => ~IsClean(header)

\* A file that is dirty and whose index has not changed is as it was created.
UnchangedEmpty ==
    phase = "idle" /\ dirty /\ ~indexChanged =>
        /\ index = << >> /\ stored = Empty
        /\ header # NoHeader /\ header.index = NoItem /\ header.fsize <= SectorSize

\* Header h, over the cells f, would be accepted and give c.
Keeps(h, f, c) ==
    IF h.index = NoItem THEN h.fsize <= SectorSize /\ c = Empty
    ELSE Accepted(h, f) /\ Contained(Loaded(h), f) = c

CommitKept == \A h \in hdrOnDisk : IsClean(h) => Keeps(h, cells, commits.last)

\* What is about to be committed.
CommitReady ==
    phase \in {"syncing", "cleaning"} =>
        header # NoHeader /\ Keeps(Flagged(FALSE), cells, stored)

\* Once created, the process reads a header.
HeaderThere == phase # "closed" => header # NoHeader

FileInv ==
    /\ EndsAtSize /\ IndexReads /\ DirtyUnclean /\ UnchangedEmpty
    /\ CommitKept /\ CommitReady /\ HeaderThere

CommitInv == CellsInv /\ (FirstSession => FileInv)

-----------------------------------------------------------------------------
(* Blocks stay apart *)

LEMMA KnownAllocations ==
    ASSUME NEW s, IsIndex(s), HashesKnown(s), NEW end, NEW k, NEW n,
           NEW t \in Allocations(s, end, k, n)
    PROVE  HashesKnown(t.items) /\ t.items[t.at].hash \in Contents \union {NoHash}
<1>1. CASE BestFit(s, n) # {}
  <2>1. PICK i \in BestFit(s, n) :
          t = [items |-> [s EXCEPT ![i] = [s[i] EXCEPT !.key = k, !.dsize = n]],
               at |-> i, end |-> end, moved |-> TRUE]
    BY <1>1 DEF Allocations
  <2>2. i \in DOMAIN s /\ s[i].key = FREE
    BY DEF BestFit, Find
  <2> DEFINE it == [s[i] EXCEPT !.key = k, !.dsize = n]
  <2>3. it.hash = s[i].hash
    BY <2>2 DEF IsIndex, IsItem
  <2>4. it.hash \in Contents \union {NoHash}
    BY <2>2, <2>3, CacheFileAssumption DEF HashesKnown
  <2>5. t.items = [s EXCEPT ![i] = it] /\ t.at = i
    BY <2>1
  <2> HIDE DEF it
  <2> QED
    BY <2>2, <2>4, <2>5 DEF HashesKnown
<1>2. CASE BestFit(s, n) = {}
  <2> DEFINE it == Item(k, end, RoundSector(n), n, NoHash)
  <2>1. t.items = Append(s, it) /\ t.at = Len(s) + 1
    BY <1>2 DEF Allocations
  <2>2. it.hash = NoHash
    BY DEF Item
  <2> HIDE DEF it
  <2>3. Len(s) \in Nat /\ DOMAIN s = 1 .. Len(s) /\ s \in Seq({s[j] : j \in DOMAIN s} \union {it})
    BY DEF IsIndex
  <2>4. /\ DOMAIN t.items = 1 .. Len(s) + 1
        /\ \A j \in 1 .. Len(s) + 1 : t.items[j] = IF j <= Len(s) THEN s[j] ELSE it
    BY <2>1, <2>3
  <2>5. \A j \in 1 .. Len(s) + 1 : t.items[j] = it \/ (j \in DOMAIN s /\ t.items[j] = s[j])
    BY <2>3, <2>4
  <2>6. t.items[t.at] = it
    BY <2>1, <2>3, <2>4
  <2> QED
    BY <2>2, <2>4, <2>5, <2>6 DEF HashesKnown
<1> QED
  BY <1>1, <1>2

LEMMA KnownTargets ==
    ASSUME NEW s, IsIndex(s), HashesKnown(s), NEW end, NEW k, NEW n,
           NEW t \in Targets(s, end, k, n)
    PROVE  HashesKnown(t.items)
<1>1. CASE Find(s, k) = {}
  BY <1>1, KnownAllocations DEF Targets
<1>2. CASE Find(s, k) # {}
  <2> DEFINE i == CHOOSE j \in Find(s, k) : TRUE
             it == [s[i] EXCEPT !.dsize = n]
             free == Item(FREE, s[i].pos, s[i].bsize, 0,
                          IF s[i].key = INDEX THEN NoHash ELSE s[i].hash)
  <2>1. i \in DOMAIN s /\ s[i].key = k
    BY <1>2 DEF Find
  <2>2. Targets(s, end, k, n) =
          IF s[i].dsize >= n
          THEN {[items |-> [s EXCEPT ![i] = it], at |-> i, end |-> end, moved |-> FALSE]}
          ELSE Allocations(Freed(s, i), end, k, n)
    BY <1>2 DEF Targets
  <2>3. Freed(s, i) = [s EXCEPT ![i] = free]
    BY DEF Freed, Item
  <2> HIDE DEF i
  <2>4. IsItem(s[i])
    BY <2>1 DEF IsIndex
  <2>5. CASE s[i].dsize >= n
    <3>1. it.hash = s[i].hash /\ it.key = s[i].key
      BY <2>4 DEF IsItem
    <3>2. t.items = [s EXCEPT ![i] = it]
      BY <2>2, <2>5
    <3> HIDE DEF it
    <3> QED
      BY <2>1, <3>1, <3>2 DEF HashesKnown
  <2>6. CASE ~(s[i].dsize >= n)
    <3>1. free.hash \in Contents \union {NoHash}
      BY <2>1 DEF Item, HashesKnown
    <3> HIDE DEF free
    <3>2. HashesKnown(Freed(s, i)) /\ IsIndex(Freed(s, i))
      BY <2>1, <2>3, <3>1, FreedTyped DEF HashesKnown
    <3> QED
      BY <2>2, <2>6, <3>2, KnownAllocations
  <2> QED
    BY <2>5, <2>6
<1> QED
  BY <1>1, <1>2

\* The item that was chosen gets its hash.
LEMMA LaidHashed ==
    ASSUME NEW s, IsIndex(s), NEW end, Laid(s, end), NEW i \in DOMAIN s, NEW h
    PROVE  LET r == [s EXCEPT ![i].hash = h]
           IN /\ Laid(r, end) /\ DOMAIN r = DOMAIN s /\ \A j \in DOMAIN s : j # i => r[j] = s[j]
              /\ r[i].key = s[i].key /\ r[i].pos = s[i].pos /\ r[i].bsize = s[i].bsize
              /\ r[i].dsize = s[i].dsize /\ r[i].hash = h
              /\ (h \in Contents \union {NoHash} \/ s[i].key = INDEX) /\ HashesKnown(s)
                    => HashesKnown(r)
<1> DEFINE it == [s[i] EXCEPT !.hash = h]
           r == [s EXCEPT ![i].hash = h]
<1>1. /\ it.pos = s[i].pos /\ it.bsize = s[i].bsize /\ it.dsize = s[i].dsize
      /\ it.key = s[i].key /\ it.hash = h
  BY DEF IsIndex, IsItem
<1>2. r = [s EXCEPT ![i] = it]
  OBVIOUS
<1>3. it.dsize <= it.bsize
  BY <1>1 DEF Laid, Placed
<1> HIDE DEF it, r
<1>4. Laid([s EXCEPT ![i] = it], end)
  BY <1>1, <1>3, LaidExcept
<1>5. DOMAIN r = DOMAIN s /\ r[i] = it /\ \A j \in DOMAIN s : j # i => r[j] = s[j]
  BY <1>2
<1>6. Laid(r, end)
  BY <1>2, <1>4
<1>7. (h \in Contents \union {NoHash} \/ s[i].key = INDEX) /\ HashesKnown(s) => HashesKnown(r)
  BY <1>1, <1>5 DEF HashesKnown
<1> QED
  BY <1>1, <1>5, <1>6, <1>7 DEF r

\* The index with a block for itself.
LEMMA LaidPrepared ==
    ASSUME IndexTyped, Laid(index, size), HashesKnown(index), NEW p \in Prepared
    PROVE  /\ Laid(p.items, p.end) /\ p.end >= size /\ HashesKnown(p.items)
           /\ \/ p.items = index /\ p.end = size /\ Find(index, INDEX) # {}
              \/ /\ Find(index, INDEX) = {}
                 /\ p \in Allocations(index, size, INDEX,
                                      ItemSize * (Len(index) * 2 + IndexSlack))
                 /\ ItemSize * (Len(index) * 2 + IndexSlack) \in Nat
<1> DEFINE n == ItemSize * (Len(index) * 2 + IndexSlack)
<1>1. CASE Find(index, INDEX) # {}
  BY <1>1 DEF Prepared, IndexTyped
<1>2. CASE Find(index, INDEX) = {}
  <2>1. p \in Allocations(index, size, INDEX, n)
    BY <1>2 DEF Prepared
  <2>2. n \in Nat
    <3>1. Len(index) \in Nat
      BY IndexShape DEF IndexTyped
    <3> QED
      BY <3>1, CacheFileAssumption
  <2> HIDE DEF n
  <2>3. Laid(p.items, p.end) /\ p.end >= size
    BY <2>1, <2>2, KeysAreBlockKeys, LaidAllocations DEF IndexTyped
  <2>4. HashesKnown(p.items)
    BY <2>1, KnownAllocations DEF IndexTyped
  <2> QED
    BY <1>2, <2>1, <2>2, <2>3, <2>4 DEF n
<1> QED
  BY <1>1, <1>2

\* The item of the index block.
Top(items) == items[CHOOSE i \in Find(items, INDEX) : TRUE]

LEMMA TopIs ==
    ASSUME NEW items, KeysUnique(items), NEW i \in DOMAIN items, items[i].key = INDEX
    PROVE  Find(items, INDEX) = {i} /\ Top(items) = items[i]
<1>1. Find(items, INDEX) = {i}
  BY KeysAreBlockKeys DEF Find, KeysUnique
<1> QED
  BY <1>1 DEF Top

\* How writeIndex stores the copy of the items: p has a block for it, which t moves or keeps.
IndexKept(p, s, n) ==
    /\ Top(p.items).hash = s /\ Top(p.items).dsize = n
    /\ index' = p.items /\ size' = p.end /\ cells' = cells

IndexStored(p, t, s, n) ==
    /\ ~(Top(p.items).hash = s /\ Top(p.items).dsize = n)
    /\ index' = [t.items EXCEPT ![t.at].hash = s] /\ size' = t.end
    /\ cells' = Written(cells, t.items[t.at], s, n)

IndexWrites(p, t, s, n) ==
    /\ IsIndex(p.items) /\ KeysUnique(p.items) /\ p.end \in Nat
    /\ Laid(p.items, p.end) /\ HashesKnown(p.items)
    /\ p.end >= size
    /\ n \in Nat /\ t \in Targets(p.items, p.end, INDEX, n)
    /\ IsPlace(t, INDEX) /\ KeysUnique(t.items)
    /\ Laid(t.items, t.end) /\ t.end >= p.end /\ t.end <= FileLimit
    /\ Chosen(t, p.items, INDEX, n) /\ HashesKnown(t.items)
    /\ IsIndex(s) /\ Len(s) = Len(p.items)
    /\ IndexKept(p, s, n) \/ IndexStored(p, t, s, n)
    /\ WriteHeader([dirty |-> dirty, fsize |-> size', index |-> Top(index')])

LEMMA StoreIndexIs ==
    ASSUME TypeInv, BlocksInv, opens = 0, StoreIndex
    PROVE  \E p \in Prepared : \E t \in IndexTargets(p) :
              IndexWrites(p, t, Snapshot(p.items), Len(p.items) * ItemSize)
<1>1. PICK p \in Prepared : \E t \in IndexTargets(p) :
        LET s == Snapshot(p.items)
            n == Len(s) * ItemSize
            old == Top(p.items)
            same == old.hash = s /\ old.dsize = n
            items == IF same THEN p.items ELSE [t.items EXCEPT ![t.at].hash = s]
        IN /\ index' = items
           /\ size' = IF same THEN p.end ELSE t.end
           /\ cells' = IF same THEN cells ELSE Written(cells, t.items[t.at], s, n)
           /\ WriteHeader([dirty |-> dirty, fsize |-> size', index |-> Top(items)])
  BY DEF StoreIndex, Top
<1>2. PICK t \in IndexTargets(p) :
        LET s == Snapshot(p.items)
            n == Len(s) * ItemSize
            old == Top(p.items)
            same == old.hash = s /\ old.dsize = n
            items == IF same THEN p.items ELSE [t.items EXCEPT ![t.at].hash = s]
        IN /\ index' = items
           /\ size' = IF same THEN p.end ELSE t.end
           /\ cells' = IF same THEN cells ELSE Written(cells, t.items[t.at], s, n)
           /\ WriteHeader([dirty |-> dirty, fsize |-> size', index |-> Top(items)])
  BY <1>1
<1> DEFINE s == Snapshot(p.items)
           n == Len(p.items) * ItemSize
<1>3. IndexTyped /\ Laid(index, size) /\ HashesKnown(index) /\ size \in Nat
  BY DEF TypeInv, BlocksInv, IndexTyped
<1>4. /\ IsIndex(p.items) /\ KeysUnique(p.items) /\ p.end \in Nat
  BY <1>3, PreparedTyped
<1>5. /\ Laid(p.items, p.end) /\ p.end >= size /\ HashesKnown(p.items)
  BY <1>3, LaidPrepared
<1>6. IsIndex(s) /\ Len(s) = Len(p.items)
  <2>1. IsIndex(s) /\ DOMAIN s = DOMAIN p.items
    BY <1>4, SnapshotTyped DEF Snapshot
  <2> HIDE DEF s
  <2>2. /\ Len(s) \in Nat /\ DOMAIN s = 1 .. Len(s)
        /\ Len(p.items) \in Nat /\ DOMAIN p.items = 1 .. Len(p.items)
    BY <1>4, <2>1, IndexShape
  <2>3. \A a, b \in Nat : 1 .. a = 1 .. b => a = b
    OBVIOUS
  <2> QED
    BY <2>1, <2>2, <2>3
<1>7. n \in Nat /\ t \in Targets(p.items, p.end, INDEX, n)
  <2>1. t \in Targets(p.items, p.end, INDEX, n)
    BY DEF IndexTargets
  <2>2. Len(p.items) \in Nat /\ ItemSize \in Nat
    BY <1>4, IndexShape, CacheFileAssumption
  <2> QED
    BY <2>1, <2>2
<1> HIDE DEF n
<1>8. IsPlace(t, INDEX) /\ KeysUnique(t.items)
  BY <1>4, <1>7, KeysAreBlockKeys, TargetsTyped, UniqueTargets
<1>9. Laid(t.items, t.end) /\ t.end >= p.end /\ Chosen(t, p.items, INDEX, n)
  BY <1>4, <1>5, <1>7, KeysAreBlockKeys, LaidTargets
<1>10. HashesKnown(t.items)
  BY <1>4, <1>5, <1>7, KnownTargets
<1>11. t.end <= FileLimit
  <2>1. phase = "storing" /\ request.key = INDEX
    BY DEF StoreIndex
  <2>2. IndexFits
    BY <2>1 DEF BlocksInv, RequestFits
  <2> QED
    BY <2>2 DEF IndexFits, Fits
<1>12. Len(s) * ItemSize = n
  BY <1>6 DEF n
<1>13. IndexKept(p, s, n) \/ IndexStored(p, t, s, n)
  <2>1. CASE Top(p.items).hash = s /\ Top(p.items).dsize = n
    BY <1>2, <1>12, <2>1 DEF IndexKept
  <2>2. CASE ~(Top(p.items).hash = s /\ Top(p.items).dsize = n)
    BY <1>2, <1>12, <2>2 DEF IndexStored
  <2> QED
    BY <2>1, <2>2
<1>14. WriteHeader([dirty |-> dirty, fsize |-> size', index |-> Top(index')])
  BY <1>2
<1> HIDE DEF s
<1>15. IndexWrites(p, t, s, n)
  BY <1>4, <1>5, <1>6, <1>7, <1>8, <1>9, <1>10, <1>11, <1>13, <1>14 DEF IndexWrites
<1> QED
  BY <1>15 DEF s, n

LEMMA BlocksInit == Init => BlocksInv
<1> SUFFICES ASSUME Init PROVE BlocksInv
  OBVIOUS
<1>1. DOMAIN << >> = {}
  OBVIOUS
<1> QED
  BY <1>1, CacheFileAssumption DEF Init, BlocksInv, RequestFits, Laid, HashesKnown

\* A request is taken up.
LEMMA BeginBlocks ==
    ASSUME BlocksInv, NEW r, Begin(r),
           r.key \in Keys => \A t \in Targets(index, size, r.key, Size[r.content]) : Fits(t),
           r.key = INDEX => IndexFits
    PROVE  BlocksInv'
<1>1. UNCHANGED <<index, size, opens>> /\ request' = r
  BY DEF Begin, memory
<1>2. IndexFits' <=> IndexFits
  BY <1>1 DEF IndexFits, Prepared, IndexTargets
<1>3. RequestFits'
  BY <1>1, <1>2 DEF RequestFits
<1> QED
  BY <1>1, <1>3 DEF BlocksInv

\* What is not a write leaves the blocks alone.
LEMMA SameBlocks ==
    ASSUME BlocksInv, UNCHANGED <<index, size, opens>>,
           phase' \in {"dirtying", "storing"} =>
               phase \in {"dirtying", "storing"} /\ request' = request
    PROVE  BlocksInv'
<1>1. IndexFits' <=> IndexFits
  BY DEF IndexFits, Prepared, IndexTargets
<1>2. opens = 0 => RequestFits'
  BY <1>1 DEF BlocksInv, RequestFits
<1> QED
  BY <1>2 DEF BlocksInv

\* Nothing is in memory.
LEMMA ForgotBlocks ==
    ASSUME BlocksInv, Forget, opens' = opens PROVE BlocksInv'
<1>1. DOMAIN << >> = {}
  OBVIOUS
<1> QED
  BY <1>1, CacheFileAssumption DEF Forget, BlocksInv, RequestFits, Laid, HashesKnown

LEMMA StoreBlocks == ASSUME TypeInv, BlocksInv, Store PROVE BlocksInv'
<1> DEFINE k == request.key
           c == request.content
<1>1. /\ k \in Keys /\ c \in Contents /\ k \in BlockKeys /\ k # FREE /\ Size[c] \in Nat
      /\ phase = "storing" /\ phase' = "idle" /\ opens' = opens
      /\ IsIndex(index) /\ KeysUnique(index) /\ size \in Nat
  BY KeysAreBlockKeys DEF Store, TypeInv, RequestTyped, IndexTyped
<1>2. PICK t \in Targets(index, size, k, Size[c]) :
        index' = [t.items EXCEPT ![t.at].hash = c] /\ size' = t.end
  BY DEF Store
<1> SUFFICES ASSUME opens = 0
             PROVE  /\ RequestFits'
                    /\ Laid(index', size') /\ size' <= FileLimit /\ HashesKnown(index')
  BY <1>1 DEF BlocksInv
<1>3. Laid(index, size) /\ HashesKnown(index) /\ RequestFits
  BY DEF BlocksInv
<1>4. IsPlace(t, k)
  BY <1>1, TargetsTyped
<1>5. Laid(t.items, t.end) /\ t.at \in DOMAIN t.items
  BY <1>1, <1>3, LaidTargets DEF Chosen
<1>6. HashesKnown(t.items)
  BY <1>1, <1>3, KnownTargets
<1>7. Laid(index', size') /\ HashesKnown(index')
  BY <1>1, <1>2, <1>4, <1>5, <1>6, LaidHashed DEF IsPlace
<1>8. size' <= FileLimit
  BY <1>1, <1>2, <1>3 DEF RequestFits, Fits
<1>9. RequestFits'
  BY <1>1 DEF RequestFits
<1> QED
  BY <1>7, <1>8, <1>9

LEMMA StoreFailsBlocks == ASSUME TypeInv, BlocksInv, StoreFails PROVE BlocksInv'
<1> DEFINE k == request.key
           c == request.content
<1>1. /\ k \in Keys /\ c \in Contents /\ k \in BlockKeys /\ k # FREE /\ Size[c] \in Nat
      /\ phase = "storing" /\ phase' = "idle" /\ opens' = opens
      /\ IsIndex(index) /\ KeysUnique(index) /\ size \in Nat
  BY KeysAreBlockKeys DEF StoreFails, TypeInv, RequestTyped, IndexTyped
<1>2. PICK t \in Targets(index, size, k, Size[c]) : index' = t.items /\ size' = t.end
  BY DEF StoreFails
<1> SUFFICES ASSUME opens = 0
             PROVE  /\ RequestFits'
                    /\ Laid(index', size') /\ size' <= FileLimit /\ HashesKnown(index')
  BY <1>1 DEF BlocksInv
<1>3. Laid(index, size) /\ HashesKnown(index) /\ RequestFits
  BY DEF BlocksInv
<1>4. Laid(t.items, t.end)
  BY <1>1, <1>3, LaidTargets
<1>5. HashesKnown(t.items)
  BY <1>1, <1>3, KnownTargets
<1>6. t.end <= FileLimit
  BY <1>1, <1>3 DEF RequestFits, Fits
<1>7. RequestFits'
  BY <1>1 DEF RequestFits
<1> QED
  BY <1>2, <1>4, <1>5, <1>6, <1>7

LEMMA StoreIndexFailsBlocks == ASSUME TypeInv, BlocksInv, StoreIndexFails PROVE BlocksInv'
<1>1. opens' = opens /\ phase = "storing" /\ phase' = "idle" /\ request.key = INDEX
  BY DEF StoreIndexFails
<1>2. PICK p \in Prepared : \E t \in IndexTargets(p) : index' = t.items /\ size' = t.end
  BY DEF StoreIndexFails
<1>3. PICK t \in IndexTargets(p) : index' = t.items /\ size' = t.end
  BY <1>2
<1> SUFFICES ASSUME opens = 0
             PROVE  /\ RequestFits'
                    /\ Laid(index', size') /\ size' <= FileLimit /\ HashesKnown(index')
  BY <1>1 DEF BlocksInv
<1>4. /\ IndexTyped /\ Laid(index, size) /\ HashesKnown(index) /\ size \in Nat
      /\ RequestFits
  BY DEF TypeInv, BlocksInv, IndexTyped
<1>5. IsIndex(p.items) /\ KeysUnique(p.items) /\ p.end \in Nat
  BY <1>4, PreparedTyped
<1>6. Laid(p.items, p.end) /\ HashesKnown(p.items)
  BY <1>4, LaidPrepared
<1> DEFINE n == Len(p.items) * ItemSize
<1>7. n \in Nat /\ t \in Targets(p.items, p.end, INDEX, n)
  <2>1. Len(p.items) \in Nat /\ ItemSize \in Nat
    BY <1>5, IndexShape, CacheFileAssumption
  <2> QED
    BY <2>1 DEF IndexTargets
<1> HIDE DEF n
<1>8. Laid(t.items, t.end)
  BY <1>5, <1>6, <1>7, KeysAreBlockKeys, LaidTargets
<1>9. HashesKnown(t.items)
  BY <1>5, <1>6, <1>7, KnownTargets
<1>10. t.end <= FileLimit
  BY <1>1, <1>4 DEF RequestFits, IndexFits, Fits
<1>11. RequestFits'
  BY <1>1 DEF RequestFits
<1> QED
  BY <1>3, <1>8, <1>9, <1>10, <1>11

LEMMA StoreIndexBlocks == ASSUME TypeInv, BlocksInv, StoreIndex PROVE BlocksInv'
<1>1. opens' = opens /\ phase' = "syncing"
  BY DEF StoreIndex
<1> SUFFICES ASSUME opens = 0
             PROVE  /\ RequestFits'
                    /\ Laid(index', size') /\ size' <= FileLimit /\ HashesKnown(index')
  BY <1>1 DEF BlocksInv
<1>2. RequestFits'
  BY <1>1 DEF RequestFits
<1>0. PICK p, t, s, n : IndexWrites(p, t, s, n)
  BY StoreIndexIs
<1>3. /\ p.end \in Nat /\ Laid(p.items, p.end) /\ HashesKnown(p.items)
      /\ IsPlace(t, INDEX)
      /\ Laid(t.items, t.end) /\ t.end >= p.end /\ t.end <= FileLimit
      /\ HashesKnown(t.items)
      /\ IndexKept(p, s, n) \/ IndexStored(p, t, s, n)
  BY <1>0 DEF IndexWrites
<1>4. CASE IndexKept(p, s, n)
  <2>1. p.end <= FileLimit
    BY <1>3, CacheFileAssumption DEF IsPlace
  <2> QED
    BY <1>2, <1>3, <1>4, <2>1 DEF IndexKept
<1>5. CASE IndexStored(p, t, s, n)
  <2>1. /\ index' = [t.items EXCEPT ![t.at].hash = s] /\ size' = t.end
        /\ IsIndex(t.items) /\ t.at \in DOMAIN t.items /\ t.items[t.at].key = INDEX
    BY <1>3, <1>5 DEF IndexStored, IsPlace
  <2>2. Laid(index', size') /\ HashesKnown(index')
    BY <1>3, <2>1, LaidHashed
  <2> QED
    BY <1>2, <1>3, <2>1, <2>2
<1> QED
  BY <1>3, <1>4, <1>5

LEMMA BlocksStep == TypeInv /\ BlocksInv /\ [Next]_vars => BlocksInv'
<1> SUFFICES ASSUME TypeInv, BlocksInv, [Next]_vars PROVE BlocksInv'
  OBVIOUS
<1>1. CASE Create
  <2>1. /\ opens' = 0 /\ phase' = "idle" /\ index' = << >> /\ size' = SectorSize
    BY <1>1 DEF Create
  <2>2. DOMAIN << >> = {}
    OBVIOUS
  <2> QED
    BY <2>1, <2>2, CacheFileAssumption DEF BlocksInv, RequestFits, Laid, HashesKnown
<1>2. CASE Open
  <2>1. opens \in Nat /\ opens' = opens + 1
    BY <1>2 DEF Open, BlocksInv
  <2> QED
    BY <2>1 DEF BlocksInv
<1>3. ASSUME NEW k \in Keys, NEW c \in Contents, WriteSame(k, c) PROVE BlocksInv'
  BY <1>3, SameBlocks DEF WriteSame, memory
<1>4. ASSUME NEW k \in Keys, NEW c \in Contents, Write(k, c) PROVE BlocksInv'
  <2> DEFINE r == [key |-> k, content |-> c]
  <2>1. r.key = k /\ r.content = c /\ k # INDEX
    BY CacheFileAssumption
  <2>2. Begin(r) /\ \A t \in Targets(index, size, k, Size[c]) : Fits(t)
    BY <1>4 DEF Write
  <2> HIDE DEF r
  <2> QED
    BY <2>1, <2>2, BeginBlocks
<1>5. CASE SyncDirty
  BY <1>5, SameBlocks DEF SyncDirty, memory
<1>6. CASE Store
  BY <1>6, StoreBlocks
<1>7. CASE StoreFails
  BY <1>7, StoreFailsBlocks
<1>8. CASE FlushIndex
  <2> DEFINE r == [key |-> INDEX, content |-> Nothing]
  <2>1. r.key = INDEX /\ r.key \notin Keys
    BY CacheFileAssumption
  <2>2. Begin(r) /\ IndexFits
    BY <1>8 DEF FlushIndex
  <2> HIDE DEF r
  <2> QED
    BY <2>1, <2>2, BeginBlocks
<1>9. CASE FlushUnchanged
  BY <1>9, SameBlocks DEF FlushUnchanged, memory
<1>10. CASE StoreIndex
  BY <1>10, StoreIndexBlocks
<1>17. CASE StoreIndexFails
  BY <1>17, StoreIndexFailsBlocks
<1>11. CASE SyncData
  BY <1>11, SameBlocks DEF SyncData, memory
<1>12. CASE WriteClean
  BY <1>12, SameBlocks DEF WriteClean
<1>13. CASE SyncClean
  BY <1>13, SameBlocks DEF SyncClean, memory
<1>14. CASE Close
  BY <1>14, ForgotBlocks DEF Close
<1>15. CASE Crash
  BY <1>15, ForgotBlocks DEF Crash
<1>16. CASE UNCHANGED vars
  BY <1>16, SameBlocks DEF vars, memory
<1> QED
  BY <1>1, <1>2, <1>3, <1>4, <1>5, <1>6, <1>7, <1>8, <1>9, <1>10, <1>11, <1>12,
     <1>13, <1>14, <1>15, <1>16, <1>17 DEF Next

LEMMA BlocksHold == Spec => []BlocksInv
BY BlocksInit, BlocksStep, TypeInvHolds, PTL DEF Spec

\* In the session that created the file no two blocks share a cell, whatever is written,
\* freed, reused, moved or fails (allocBlock, freeBlock, write, writeIndex).
THEOREM BlocksAlwaysDisjoint == Spec => [](opens = 0 => BlocksDisjoint)
<1>1. TypeInv /\ BlocksInv => (opens = 0 => BlocksDisjoint)
  <2> SUFFICES ASSUME TypeInv, BlocksInv, opens = 0, NEW i \in DOMAIN index,
                      NEW j \in DOMAIN index, i < j
               PROVE  Apart(index[i], index[j])
    BY DEF BlocksDisjoint, Apart
  <2>1. i # j
    BY IndexShape DEF TypeInv, IndexTyped
  <2> QED
    BY <2>1 DEF BlocksInv, Laid
<1> QED
  BY <1>1, BlocksHold, TypeInvHolds, PTL

-----------------------------------------------------------------------------
(* Reading gives what was stored *)

\* A key that reads has an item, whose data matches.
LEMMA ReadMatches ==
    ASSUME NEW s, KeysUnique(s), NEW i \in DOMAIN s, s[i].key # FREE,
           NEW f, ReadBlock(s, f, s[i].key) # Unknown
    PROVE  DataMatches(f, s[i]) /\ ReadBlock(s, f, s[i].key) = s[i].hash
<1>1. Find(s, s[i].key) = {i}
  BY DEF Find, KeysUnique
<1>2. ReadBlock(s, f, s[i].key) = IF DataMatches(f, s[i]) THEN s[i].hash ELSE Unknown
  BY <1>1 DEF ReadBlock
<1> QED
  BY <1>2

LEMMA ReadEmpty ==
    ASSUME NEW f, NEW k PROVE ReadBlock(<< >>, f, k) = Nothing
<1>1. Find(<< >>, k) = {}
  BY DEF Find
<1> QED
  BY <1>1 DEF ReadBlock

\* A sync that loses nothing leaves the cells as they are.
LEMMA SyncSame ==
    ASSUME lostSyncs \in Nat, Sync, lostSyncs' = 0
    PROVE  /\ cells' = cells /\ synced' = cells /\ header' = header /\ hdrOnDisk' = {header}
           /\ lostSyncs = 0 /\ failedWrites' = failedWrites
BY DEF Sync, Synced, faults

LEMMA SessionBefore ==
    ASSUME TypeInv, BlocksInv, [Next]_vars, FirstSession'
    PROVE  \/ FirstSession
           \/ Create
<1>1. lostSyncs \in Nat /\ failedWrites \in Nat /\ opens \in Nat
  BY CacheFileAssumption DEF TypeInv, HistoryTyped, BlocksInv
<1>2. lostSyncs' = 0 /\ failedWrites' = 0 /\ opens' = 0
  BY DEF FirstSession
<1>3. ASSUME Sync PROVE lostSyncs = 0 /\ failedWrites = 0
  BY <1>1, <1>2, <1>3, SyncSame
<1>4. CASE Open
  BY <1>1, <1>2, <1>4 DEF Open
<1>5. ASSUME NEW k \in Keys, NEW c \in Contents, WriteSame(k, c) \/ Write(k, c) PROVE FirstSession
  BY <1>2, <1>5 DEF WriteSame, Write, Begin, faults, FirstSession
<1>6. CASE SyncDirty \/ SyncData \/ SyncClean
  BY <1>2, <1>3, <1>6 DEF SyncDirty, SyncData, SyncClean, FirstSession
<1>7. CASE Store
  BY <1>2, <1>7 DEF Store, faults, FirstSession
<1>8. CASE StoreFails \/ StoreIndexFails
  BY <1>1, <1>2, <1>8 DEF StoreFails, StoreIndexFails
<1>9. CASE FlushIndex \/ FlushUnchanged \/ StoreIndex \/ WriteClean
  BY <1>2, <1>9 DEF FlushIndex, FlushUnchanged, StoreIndex, WriteClean, Begin, faults, FirstSession
<1>10. CASE Close
  BY <1>2, <1>3, <1>10 DEF Close, faults, FirstSession
<1>11. CASE Crash
  BY <1>2, <1>11 DEF Crash, faults, FirstSession
<1>12. CASE UNCHANGED vars
  BY <1>2, <1>12 DEF vars, faults, FirstSession
<1> QED
  BY <1>4, <1>5, <1>6, <1>7, <1>8, <1>9, <1>10, <1>11, <1>12 DEF Next

LEMMA ReadInit == Init => ReadInv
BY ReadEmpty, CacheFileAssumption DEF Init, ReadInv, ReadsStored, Empty

LEMMA StoreReads ==
    ASSUME TypeInv, BlocksInv, ReadsStored, opens = 0, Store
    PROVE  ReadsStored'
<1> DEFINE k == request.key
           c == request.content
           n == Size[c]
<1>1. /\ k \in Keys /\ c \in Contents /\ k \in BlockKeys /\ k # FREE /\ n \in Nat
      /\ phase = "storing"
      /\ IsIndex(index) /\ KeysUnique(index) /\ size \in Nat
      /\ stored \in [Keys -> Contents \union {Nothing, Unknown}]
  BY KeysAreBlockKeys DEF Store, TypeInv, RequestTyped, IndexTyped, HistoryTyped
<1>2. PICK t \in Targets(index, size, k, n) :
        /\ index' = [t.items EXCEPT ![t.at].hash = c] /\ size' = t.end
        /\ cells' = Written(cells, t.items[t.at], c, n)
        /\ stored' = [stored EXCEPT ![k] = c]
  BY DEF Store
<1> HIDE DEF n
<1>3. Laid(index, size)
  BY DEF BlocksInv
<1>4. IsPlace(t, k) /\ KeysUnique(t.items)
  BY <1>1, TargetsTyped, UniqueTargets
<1>5. Laid(t.items, t.end) /\ Chosen(t, index, k, n)
  BY <1>1, <1>3, LaidTargets
<1>6. t.end \in Nat /\ t.end <= FileLimit
  <2>1. Fits(t)
    BY <1>1 DEF BlocksInv, RequestFits, n
  <2> QED
    BY <1>4, <2>1 DEF Fits, IsPlace
<1> DEFINE it == t.items[t.at]
           r == index'[t.at]
<1>7. IsItem(it) /\ Placed(it, FileLimit) /\ n <= it.bsize /\ t.at \in DOMAIN t.items
  <2>1. IsItem(it) /\ Placed(it, t.end) /\ it.dsize = n /\ t.at \in DOMAIN t.items
    BY <1>4, <1>5 DEF Chosen, IsPlace, IsIndex, Laid
  <2> HIDE DEF it
  <2> QED
    BY <1>6, <2>1, CacheFileAssumption DEF Placed, IsItem
<1>8. /\ KeysUnique(index') /\ DOMAIN index' = DOMAIN t.items
      /\ \A j \in DOMAIN t.items : j # t.at => index'[j] = t.items[j]
      /\ r.key = k /\ r.pos = it.pos /\ r.dsize = n /\ r.hash = c
  <2>1. KeysUnique(index')
    BY <1>2, <1>4, HashedTyped
  <2>2. /\ IsIndex(t.items) /\ t.at \in DOMAIN t.items /\ t.items[t.at].key = k
        /\ t.items[t.at].dsize = n /\ index' = [t.items EXCEPT ![t.at].hash = c]
    BY <1>2, <1>4, <1>5 DEF IsPlace, Chosen
  <2>3. /\ DOMAIN index' = DOMAIN t.items
        /\ \A j \in DOMAIN t.items : j # t.at => index'[j] = t.items[j]
        /\ index'[t.at].key = t.items[t.at].key /\ index'[t.at].pos = t.items[t.at].pos
        /\ index'[t.at].dsize = t.items[t.at].dsize /\ index'[t.at].hash = c
    BY <1>5, <2>2, LaidHashed, SMTT(30)
  <2> QED
    BY <2>1, <2>2, <2>3
<1>9. ReadBlock(index', cells', k) = c
  <2>1. HashMatches(cells', r, n)
    <3> HIDE DEF r, it
    <3>1. cells' = Written(cells, it, c, n)
      BY <1>2 DEF it
    <3> QED
      BY <1>1, <1>7, <1>8, <3>1, WrittenReads
  <2>2. DataMatches(cells', r)
    BY <1>1, <1>8, <2>1 DEF DataMatches, n
  <2> QED
    BY <1>1, <1>7, <1>8, <2>2, ReadIs
<1>10. ASSUME NEW key \in Keys, key # k
       PROVE  ReadBlock(index', cells', key) = ReadBlock(index, cells, key)
  <2>1. /\ IsIndex(t.items) /\ IsIndex(index) /\ t.end \in Nat /\ Laid(t.items, t.end)
        /\ k \in BlockKeys /\ k # FREE /\ n \in Nat /\ Chosen(t, index, k, n)
    BY <1>1, <1>4, <1>5 DEF IsPlace
  <2>2. /\ DOMAIN index' = DOMAIN t.items /\ index'[t.at].key = k
        /\ \A j \in DOMAIN index' : j # t.at => index'[j] = t.items[j]
        /\ cells' = Written(cells, t.items[t.at], c, n)
    BY <1>2, <1>8
  <2> HIDE DEF it, r, c, k
  <2> QED
    BY <1>10, <2>1, <2>2, ChosenReads, SMTT(30)
<1>11. ASSUME NEW key \in Keys
       PROVE  stored'[key] # Unknown /\ ReadBlock(index', cells', key) = stored'[key]
  <2>1. CASE key = k
    <3>1. stored'[key] = c
      BY <1>1, <1>2, <2>1
    <3> QED
      BY <1>1, <1>9, <2>1, <3>1, CacheFileAssumption
  <2>2. CASE key # k
    <3>1. stored'[key] = stored[key]
      BY <1>1, <1>2, <2>2
    <3> QED
      BY <1>10, <2>2, <3>1 DEF ReadsStored
  <2> QED
    BY <2>1, <2>2
<1> QED
  BY <1>11 DEF ReadsStored

\* Only the index block was given a place.
LEMMA PreparedReads ==
    ASSUME IndexTyped, Laid(index, size), HashesKnown(index), NEW p \in Prepared,
           NEW key \in Keys, NEW f
    PROVE  ReadBlock(p.items, f, key) = ReadBlock(index, f, key)
<1> DEFINE n == ItemSize * (Len(index) * 2 + IndexSlack)
<1>1. CASE p.items = index
  BY <1>1
<1>2. CASE Find(index, INDEX) = {} /\ p \in Allocations(index, size, INDEX, n) /\ n \in Nat
  <2> HIDE DEF n
  <2>1. /\ Laid(p.items, p.end) /\ Chosen(p, index, INDEX, n) /\ IsPlace(p, INDEX)
    BY <1>2, KeysAreBlockKeys, LaidAllocations, AllocationsTyped DEF IndexTyped
  <2>2. /\ IsIndex(p.items) /\ p.end \in Nat /\ p.items[p.at].key = INDEX
        /\ key # INDEX /\ INDEX \in BlockKeys /\ INDEX # FREE /\ IsIndex(index)
    BY <2>1, KeysAreBlockKeys DEF IsPlace, IndexTyped
  <2> QED
    BY <1>2, <2>1, <2>2, ChosenReads
<1> QED
  BY <1>1, <1>2, LaidPrepared

\* The keys read the same after the index was stored, which the copy is in.
LEMMA StoreIndexReads ==
    ASSUME TypeInv, BlocksInv, NEW p \in Prepared, NEW t, NEW s, NEW n,
           IndexWrites(p, t, s, n), opens = 0, NEW key \in Keys
    PROVE  ReadBlock(index', cells', key) = ReadBlock(index, cells, key)
<1>1. /\ IndexTyped /\ Laid(index, size) /\ HashesKnown(index)
      /\ key # INDEX /\ INDEX \in BlockKeys /\ INDEX # FREE
  BY KeysAreBlockKeys DEF TypeInv, BlocksInv
<1>2. ReadBlock(p.items, cells, key) = ReadBlock(index, cells, key)
  BY <1>1, PreparedReads
<1>3. CASE IndexKept(p, s, n)
  BY <1>2, <1>3 DEF IndexKept
<1>4. CASE IndexStored(p, t, s, n)
  <2>1. /\ IsIndex(p.items) /\ IsIndex(t.items) /\ t.end \in Nat /\ Laid(t.items, t.end)
        /\ n \in Nat /\ Chosen(t, p.items, INDEX, n) /\ t.items[t.at].key = INDEX
        /\ t.at \in DOMAIN t.items
    BY DEF IndexWrites, IsPlace
  <2>2. index' = [t.items EXCEPT ![t.at].hash = s] /\ cells' = Written(cells, t.items[t.at], s, n)
    BY <1>4 DEF IndexStored
  <2>3. /\ DOMAIN index' = DOMAIN t.items /\ index'[t.at].key = INDEX
        /\ \A j \in DOMAIN t.items : j # t.at => index'[j] = t.items[j]
    BY <2>1, <2>2, LaidHashed
  <2>4. ReadBlock(index', cells', key) = ReadBlock(p.items, cells, key)
    BY <1>1, <2>1, <2>2, <2>3, ChosenReads
  <2> QED
    BY <1>2, <2>4
<1> QED
  BY <1>3, <1>4 DEF IndexWrites

\* What neither the index nor the cells see reads the same.
LEMMA SameReads ==
    ASSUME ReadsStored, UNCHANGED <<index, cells, stored>> PROVE ReadsStored'
BY DEF ReadsStored

LEMMA EmptyReads ==
    ASSUME index' = << >>, stored' = Empty PROVE ReadsStored'
BY ReadEmpty, CacheFileAssumption DEF ReadsStored, Empty

LEMMA ReadStep == TypeInv /\ BlocksInv /\ ReadInv /\ [Next]_vars => ReadInv'
<1> SUFFICES ASSUME TypeInv, BlocksInv, ReadInv, [Next]_vars, FirstSession' PROVE ReadsStored'
  BY DEF ReadInv
<1>0. lostSyncs' = 0 /\ lostSyncs \in Nat /\ opens' = 0
  BY CacheFileAssumption DEF FirstSession, TypeInv, HistoryTyped
<1>1. CASE Create
  BY <1>1, EmptyReads DEF Create
<1>2. CASE FirstSession
  <2>1. ReadsStored /\ opens = 0
    BY <1>2 DEF ReadInv, FirstSession
  <2>2. CASE Create \/ Open
    BY <1>0, <1>1, <2>1, <2>2 DEF Open
  <2>3. ASSUME NEW k \in Keys, NEW c \in Contents, WriteSame(k, c) PROVE ReadsStored'
    <3>1. PICK i \in Find(index, k) : index[i].hash = c
      BY <2>3 DEF WriteSame
    <3>2. /\ i \in DOMAIN index /\ index[i].key = k /\ k # FREE /\ KeysUnique(index)
          /\ stored \in [Keys -> Contents \union {Nothing, Unknown}]
      BY <3>1, KeysAreBlockKeys DEF Find, TypeInv, IndexTyped, HistoryTyped
    <3>3. stored[k] = c
      BY <2>1, <3>1, <3>2, ReadMatches DEF ReadsStored
    <3>4. /\ stored' = [stored EXCEPT ![k] = c] /\ UNCHANGED <<index, cells>>
      BY <2>3 DEF WriteSame, memory, disk
    <3>5. stored' = stored
      BY <3>2, <3>3, <3>4
    <3> QED
      BY <2>1, <3>4, <3>5, SameReads
  <2>4. ASSUME NEW r, Begin(r) PROVE ReadsStored'
    BY <2>1, <2>4, SameReads DEF Begin, memory, disk
  <2>5. ASSUME NEW k \in Keys, NEW c \in Contents, Write(k, c) PROVE ReadsStored'
    BY <2>4, <2>5 DEF Write
  <2>6. CASE SyncDirty
    BY <1>0, <2>1, <2>6, SyncSame, SameReads DEF SyncDirty, memory
  <2>7. CASE Store
    BY <2>1, <2>7, StoreReads
  <2>8. CASE StoreFails \/ StoreIndexFails
    <3>1. failedWrites \in Nat /\ failedWrites' = failedWrites + 1 /\ failedWrites' = 0
      BY <2>8, CacheFileAssumption DEF StoreFails, StoreIndexFails, FirstSession, TypeInv, HistoryTyped
    <3> QED
      BY <3>1
  <2>9. CASE FlushIndex
    BY <2>4, <2>9 DEF FlushIndex
  <2>10. CASE FlushUnchanged
    BY <2>1, <2>10, SameReads DEF FlushUnchanged, memory, disk
  <2>11. CASE StoreIndex
    <3>1. PICK p \in Prepared : \E t \in IndexTargets(p) :
             IndexWrites(p, t, Snapshot(p.items), Len(p.items) * ItemSize)
      BY <2>1, <2>11, StoreIndexIs
    <3>2. \A key \in Keys : ReadBlock(index', cells', key) = ReadBlock(index, cells, key)
      BY <2>1, <3>1, StoreIndexReads
    <3>3. stored' = stored
      BY <2>11 DEF StoreIndex
    <3> QED
      BY <2>1, <3>2, <3>3 DEF ReadsStored
  <2>12. CASE SyncData
    BY <1>0, <2>1, <2>12, SyncSame, SameReads DEF SyncData, memory
  <2>13. CASE WriteClean
    BY <2>1, <2>13, SameReads DEF WriteClean
  <2>14. CASE SyncClean
    BY <1>0, <2>1, <2>14, SyncSame, SameReads DEF SyncClean, memory
  <2>15. CASE Close \/ Crash
    BY <2>15, EmptyReads DEF Close, Crash, Forget
  <2>16. CASE UNCHANGED vars
    BY <2>1, <2>16, SameReads DEF vars, memory, disk
  <2> QED
    BY <2>2, <2>3, <2>5, <2>6, <2>7, <2>8, <2>9, <2>10, <2>11, <2>12, <2>13, <2>14,
       <2>15, <2>16 DEF Next
<1> QED
  BY <1>1, <1>2, SessionBefore

LEMMA ReadHolds == Spec => []ReadInv
BY ReadInit, ReadStep, BlocksHold, TypeInvHolds, PTL DEF Spec

\* In the session that created the file, as long as no write fails, every read gives what
\* was last written, whatever was freed, moved or flushed since (write, writeIndex, read).
THEOREM ReadsAlwaysBack == Spec => [](opens = 0 /\ failedWrites = 0 => ReadBack)
<1>1. ReadInv => (opens = 0 /\ failedWrites = 0 => ReadBack)
  BY DEF ReadInv, FirstSession, ReadsStored, ReadBack
<1> QED
  BY <1>1, ReadHolds, PTL

-----------------------------------------------------------------------------
(* A crash leaves the last commit *)

\* The marks of what is not there are none of what may be there: the checksum of a
\* content, or of nothing, is not that of an index.
Marks ==
    /\ Hole # Pad /\ \A c, i : Hole # Cell(c, i)
    /\ \A items : IsIndex(items) => items \notin Contents \union {NoHash}
    /\ ~IsItem(NoItem)
    /\ \A d, n, it : NoHeader # [dirty |-> d, fsize |-> n, index |-> it]

\* The end of a stream is where the holes begin.
LEMMA StreamSizeOf ==
    ASSUME NEW f, NEW n \in SectorSize .. FileLimit, \A u \in Cells : u >= n => f[u] = Hole,
           n > SectorSize => f[n - 1] # Hole
    PROVE  StreamSize(f) = n
<1> DEFINE m == StreamSize(f)
<1>1. /\ m \in SectorSize .. FileLimit
      /\ \A u \in Cells : u >= m => f[u] = Hole
      /\ m > SectorSize => f[m - 1] # Hole
  BY StreamSizeIs
<1> HIDE DEF m
<1>2. SectorSize \in Nat /\ FileLimit \in Nat /\ m \in Nat /\ n \in Nat
  BY <1>1, CacheFileAssumption
<1>3. CASE m < n
  <2>1. n - 1 \in Cells /\ n - 1 >= m /\ n > SectorSize
    BY <1>1, <1>2, <1>3 DEF Cells
  <2> QED
    BY <1>1, <2>1
<1>4. CASE n < m
  <2>1. m - 1 \in Cells /\ m - 1 >= n /\ m > SectorSize
    BY <1>1, <1>2, <1>4 DEF Cells
  <2> QED
    BY <1>1, <2>1
<1> QED
  BY <1>2, <1>3, <1>4 DEF m

\* A block written inside the file leaves its end, one at its end moves it: all its cells
\* are data or padding.
LEMMA SizeWritten ==
    ASSUME Marks, NEW f, NEW it, IsItem(it), NEW end \in Nat, NEW next \in Nat,
           Placed(it, next), next <= FileLimit, StreamSize(f) = end,
           next = end \/ (it.pos = end /\ next = end + it.bsize),
           NEW n \in Nat, n <= it.bsize, NEW c
    PROVE  StreamSize(Written(f, it, c, n)) = next
<1> DEFINE g == Written(f, it, c, n)
<1>1. /\ SectorSize \in Nat \ {0} /\ FileLimit \in Nat /\ it.pos \in Nat /\ it.bsize \in Nat
      /\ end \in SectorSize .. FileLimit
      /\ \A u \in Cells : u >= end => f[u] = Hole
      /\ end > SectorSize => f[end - 1] # Hole
  BY StreamSizeIs, CacheFileAssumption DEF IsItem
<1>2. next \in SectorSize .. FileLimit /\ next >= end
  BY <1>1 DEF Placed
<1>3. ASSUME NEW u \in Cells, u >= next PROVE g[u] = Hole
  <2>1. u \in Int /\ u >= end /\ ~(u < it.pos + n) /\ ~(u < it.pos + it.bsize)
    BY <1>1, <1>2, <1>3 DEF Cells, Placed
  <2>2. g[u] = f[u]
    BY <2>1 DEF Written
  <2> QED
    BY <1>1, <2>1, <2>2
<1>4. ASSUME NEW u \in Cells, f[u] # Hole PROVE g[u] # Hole
  BY <1>4 DEF Written, Marks
<1>5. ASSUME next > SectorSize PROVE g[next - 1] # Hole
  <2>1. next - 1 \in Cells
    BY <1>1, <1>2, <1>5 DEF Cells
  <2>2. CASE next = end
    BY <1>1, <1>4, <1>5, <2>1, <2>2
  <2>3. CASE it.pos = end /\ next = end + it.bsize /\ next # end
    <3> DEFINE u == next - 1
    <3>1. /\ u \in Cells /\ it.pos <= u /\ u < it.pos + it.bsize /\ u \in Int
          /\ it.pos + n >= StreamSize(f) - SectorSize
      BY <1>1, <2>1, <2>3
    <3> HIDE DEF u
    <3>2. u < it.pos + n \/ it.pos + n <= u
      BY <1>1, <3>1
    <3>3. g[u] = Cell(c, u - it.pos) \/ g[u] = Pad
      BY <3>1, <3>2 DEF Written
    <3> QED
      BY <3>3 DEF Marks, u
  <2> QED
    BY <2>2, <2>3
<1> HIDE DEF g
<1>6. StreamSize(g) = next
  BY <1>2, <1>3, <1>5, StreamSizeOf
<1> QED
  BY <1>6 DEF g

\* A new block is at the end of the file.
LEMMA EndsAllocations ==
    ASSUME NEW s, IsIndex(s), NEW end \in Nat, NEW k \in BlockKeys, NEW n \in Nat,
           NEW t \in Allocations(s, end, k, n)
    PROVE  \/ t.end = end
           \/ /\ t.items[t.at].pos = end /\ t.items[t.at].bsize = RoundSector(n)
              /\ t.end = end + RoundSector(n) /\ Len(t.items) = Len(s) + 1
<1>1. CASE BestFit(s, n) # {}
  <2>1. PICK i \in BestFit(s, n) :
          t = [items |-> [s EXCEPT ![i] = [s[i] EXCEPT !.key = k, !.dsize = n]],
               at |-> i, end |-> end, moved |-> TRUE]
    BY <1>1 DEF Allocations
  <2> QED
    BY <2>1
<1>2. CASE BestFit(s, n) = {}
  <2> DEFINE it == Item(k, end, RoundSector(n), n, NoHash)
  <2>1. t.items = Append(s, it) /\ t.at = Len(s) + 1 /\ t.end = end + RoundSector(n)
    BY <1>2 DEF Allocations
  <2>2. it.pos = end /\ it.bsize = RoundSector(n)
    BY DEF Item
  <2> HIDE DEF it
  <2>3. Len(s) \in Nat /\ s \in Seq({s[j] : j \in DOMAIN s} \union {it})
    BY DEF IsIndex
  <2>4. Append(s, it)[Len(s) + 1] = it /\ Len(Append(s, it)) = Len(s) + 1
    BY <2>3
  <2> QED
    BY <2>1, <2>2, <2>4
<1> QED
  BY <1>1, <1>2

LEMMA EndsTargets ==
    ASSUME NEW s, IsIndex(s), NEW end \in Nat, NEW k \in BlockKeys, NEW n \in Nat,
           NEW t \in Targets(s, end, k, n)
    PROVE  \/ t.end = end
           \/ /\ t.items[t.at].pos = end
              /\ t.end = end + t.items[t.at].bsize
<1>1. CASE Find(s, k) = {}
  BY <1>1, EndsAllocations DEF Targets
<1>2. CASE Find(s, k) # {}
  <2> DEFINE i == CHOOSE j \in Find(s, k) : TRUE
  <2>1. i \in DOMAIN s
    BY <1>2 DEF Find
  <2>2. t.end = end \/ t \in Allocations(Freed(s, i), end, k, n)
    BY <1>2 DEF Targets
  <2> HIDE DEF i
  <2> QED
    BY <2>1, <2>2, FreedTyped, EndsAllocations
<1> QED
  BY <1>1, <1>2

\* A block of no cells takes no room.
LEMMA RoundSectorZero == RoundSector(0) = 0
<1>1. \A d \in Nat \ {0} : (0 + d - 1) \div d = 0
  OBVIOUS
<1> QED
  BY <1>1, CacheFileAssumption DEF RoundSector

\* The block given to a new index has room for it, or none at all.
LEMMA IndexRoom ==
    ASSUME NEW len \in Nat,
           ItemSize * (len * 2 + IndexSlack) < (len + 1) * ItemSize
    PROVE  ItemSize * (len * 2 + IndexSlack) = 0
<1> DEFINE a == len * 2 + IndexSlack
<1>1. ItemSize \in Nat \ {0} /\ IndexSlack \in Nat /\ a \in Nat
  BY CacheFileAssumption
<1>2. \A x, y, z \in Nat : y <= z => x * y <= x * z /\ x * z = z * x /\ x * y \in Nat /\ x * z \in Nat
  OBVIOUS
<1>3. CASE a >= len + 1
  <2> HIDE DEF a
  <2>1. ItemSize * (len + 1) <= ItemSize * a /\ ItemSize * (len + 1) = (len + 1) * ItemSize
        /\ ItemSize * a \in Nat /\ (len + 1) * ItemSize \in Nat
    BY <1>1, <1>2, <1>3
  <2>2. ItemSize * a < (len + 1) * ItemSize
    BY DEF a
  <2> QED
    BY <2>1, <2>2
<1>4. CASE a = 0
  <2>1. ItemSize * a = 0
    BY <1>1, <1>4
  <2> QED
    BY <2>1
<1>5. a >= len + 1 \/ a = 0
  BY <1>1
<1> QED
  BY <1>3, <1>4, <1>5

\* The checksum of a new index block is none of an index.
LEMMA IndexFresh ==
    ASSUME Marks, TypeInv, BlocksInv, opens = 0, NEW p \in Prepared, NEW t, NEW s, NEW n,
           IndexWrites(p, t, s, n), IndexKept(p, s, n)
    PROVE  p.items = index /\ p.end = size
<1>1. IndexTyped /\ Laid(index, size) /\ HashesKnown(index) /\ IsIndex(index)
  BY DEF TypeInv, BlocksInv, IndexTyped
<1> DEFINE m == ItemSize * (Len(index) * 2 + IndexSlack)
<1>2. CASE p \in Allocations(index, size, INDEX, m) /\ m \in Nat
  <2> HIDE DEF m
  <2>1. p.items[p.at].hash \in Contents \union {NoHash}
    BY <1>1, <1>2, KnownAllocations
  <2>2. IsPlace(p, INDEX) /\ KeysUnique(p.items)
    BY <1>1, <1>2, KeysAreBlockKeys, AllocationsTyped DEF IndexWrites, IndexTyped
  <2>3. Top(p.items) = p.items[p.at]
    BY <2>2, TopIs DEF IsPlace
  <2>4. IsIndex(s) /\ Top(p.items).hash = s
    BY DEF IndexWrites, IndexKept
  <2> QED
    BY <2>1, <2>3, <2>4 DEF Marks
<1> QED
  BY <1>1, <1>2, LaidPrepared

\* Where the index is written, seen from the end of the file.
LEMMA IndexEnds ==
    ASSUME TypeInv, BlocksInv, opens = 0, NEW p \in Prepared, NEW t, NEW s,
           IndexWrites(p, t, s, Len(p.items) * ItemSize)
    PROVE  \/ t.end = size
           \/ t.items[t.at].pos = size /\ t.end = size + t.items[t.at].bsize
<1> DEFINE m == ItemSize * (Len(index) * 2 + IndexSlack)
           n == Len(p.items) * ItemSize
<1>1. IndexTyped /\ Laid(index, size) /\ HashesKnown(index) /\ IsIndex(index) /\ size \in Nat
  BY DEF TypeInv, BlocksInv, IndexTyped
<1>2. /\ IsIndex(p.items) /\ KeysUnique(p.items) /\ p.end \in Nat /\ n \in Nat
      /\ t \in Targets(p.items, p.end, INDEX, n) /\ INDEX \in BlockKeys
  BY KeysAreBlockKeys DEF IndexWrites
<1>3. t.end = p.end \/ (t.items[t.at].pos = p.end /\ t.end = p.end + t.items[t.at].bsize)
  <2> HIDE DEF n
  <2> QED
    BY <1>2, EndsTargets
<1>4. CASE p.end = size
  BY <1>3, <1>4
<1>5. CASE p \in Allocations(index, size, INDEX, m) /\ m \in Nat /\ p.end # size
  <2>1. /\ p.items[p.at].pos = size /\ p.items[p.at].bsize = RoundSector(m)
        /\ p.end = size + RoundSector(m) /\ Len(p.items) = Len(index) + 1
    <3> HIDE DEF m
    <3> QED
      BY <1>1, <1>2, <1>5, EndsAllocations
  <2>2. m >= n
    <3> SUFFICES ASSUME ~(m >= n) PROVE FALSE
      OBVIOUS
    <3>1. m = 0
      <4>1. Len(index) \in Nat /\ m < (Len(index) + 1) * ItemSize
        BY <1>1, <1>2, <1>5, <2>1, IndexShape
      <4> QED
        BY <4>1, IndexRoom
    <3> HIDE DEF m
    <3> QED
      BY <1>1, <1>5, <2>1, <3>1, RoundSectorZero
  <2> HIDE DEF m, n
  <2>3. IsPlace(p, INDEX) /\ Chosen(p, index, INDEX, m)
    BY <1>1, <1>2, <1>5, AllocationsTyped, LaidAllocations
  <2>4. p.at \in DOMAIN p.items /\ p.items[p.at].key = INDEX /\ p.items[p.at].dsize = m
    BY <2>3 DEF IsPlace, Chosen
  <2>5. Find(p.items, INDEX) = {p.at}
    BY <1>2, <2>4, TopIs
  <2>6. t = [items |-> [p.items EXCEPT ![p.at].dsize = n], at |-> p.at, end |-> p.end,
             moved |-> FALSE]
    <3>1. (CHOOSE j \in Find(p.items, INDEX) : TRUE) = p.at
      BY <2>5
    <3> QED
      BY <1>2, <2>2, <2>4, <2>5, <3>1 DEF Targets
  <2> DEFINE it == [p.items[p.at] EXCEPT !.dsize = n]
  <2>7. it.pos = p.items[p.at].pos /\ it.bsize = p.items[p.at].bsize
    BY <1>2, <2>4 DEF IsIndex, IsItem
  <2>8. t.items[t.at] = it /\ t.end = p.end
    BY <2>4, <2>6
  <2> HIDE DEF it
  <2> QED
    BY <2>1, <2>7, <2>8
<1> QED
  BY <1>1, <1>4, <1>5, LaidPrepared

\* A match of data depends on the cells of the block.
LEMMA SameHash ==
    ASSUME NEW f, NEW g, NEW it, IsItem(it), it.dsize <= it.bsize, SameBlock(f, g, it),
           HashMatches(f, it, it.dsize)
    PROVE  HashMatches(g, it, it.dsize)
<1>1. it.pos \in Nat /\ it.bsize \in Nat /\ it.dsize \in Nat
  BY DEF IsItem
<1>2. \A i \in 0 .. it.dsize - 1 : it.pos + i \in Cells => g[it.pos + i] = f[it.pos + i]
  BY <1>1 DEF SameBlock
<1> QED
  BY <1>2 DEF HashMatches

\* What was written into a block that was chosen, seen from its item.
Hashed(items, i, h) == [items EXCEPT ![i].hash = h]

LEMMA ChosenWritten ==
    ASSUME NEW t, NEW k, IsPlace(t, k), KeysUnique(t.items), Laid(t.items, t.end),
           t.end <= FileLimit, NEW n \in Nat, t.items[t.at].dsize = n, NEW h,
           NEW r, r = Hashed(t.items, t.at, h),
           NEW c, NEW f, f = Written(c, t.items[t.at], h, n)
    PROVE  /\ KeysUnique(r) /\ IsIndex(r) /\ DOMAIN r = DOMAIN t.items
           /\ r[t.at].key = k /\ r[t.at].hash = h /\ r[t.at].dsize = n
           /\ \A j \in DOMAIN r : j # t.at => r[j] = t.items[j]
           /\ HashMatches(f, r[t.at], n)
           /\ IsItem(t.items[t.at]) /\ Placed(t.items[t.at], t.end)
           /\ n <= t.items[t.at].bsize
<1> DEFINE it == t.items[t.at]
<1>1. IsIndex(t.items) /\ t.at \in DOMAIN t.items /\ t.items[t.at].key = k /\ t.end \in Nat
  BY DEF IsPlace
<1>2. /\ DOMAIN r = DOMAIN t.items /\ r[t.at].key = k /\ r[t.at].hash = h
      /\ r[t.at].dsize = n /\ r[t.at].pos = t.items[t.at].pos
      /\ \A j \in DOMAIN t.items : j # t.at => r[j] = t.items[j]
  <2> DEFINE s == t.items
             i == t.at
             q == [s EXCEPT ![i].hash = h]
  <2>1. IsIndex(s) /\ i \in DOMAIN s /\ s[i].key = k /\ s[i].dsize = n
    BY <1>1
  <2>2. r = q /\ q = [s EXCEPT ![i].hash = h]
    BY DEF Hashed
  <2>3. Laid(s, t.end)
    OBVIOUS
  <2> HIDE DEF s, i, q
  <2>4. /\ DOMAIN q = DOMAIN s /\ q[i].key = s[i].key /\ q[i].hash = h
        /\ q[i].dsize = s[i].dsize /\ q[i].pos = s[i].pos
        /\ \A j \in DOMAIN s : j # i => q[j] = s[j]
    BY <2>1, <2>2, <2>3, LaidHashed
  <2>5. /\ DOMAIN r = DOMAIN s /\ r[i].key = k /\ r[i].hash = h
        /\ r[i].dsize = n /\ r[i].pos = s[i].pos
        /\ \A j \in DOMAIN s : j # i => r[j] = s[j]
    BY <2>1, <2>2, <2>4
  <2> QED
    BY <2>5 DEF s, i
<1>3. IsIndex(r) /\ KeysUnique(r)
  BY HashedTyped DEF Hashed
<1>4. IsItem(it) /\ Placed(it, t.end) /\ it.dsize = n /\ it.pos = t.items[t.at].pos
  BY <1>1 DEF IsIndex, Laid
<1>5. f = Written(c, it, h, n)
  OBVIOUS
<1>6. it = t.items[t.at]
  OBVIOUS
<1> HIDE DEF it
<1>7. /\ it.pos \in Nat /\ it.bsize \in Nat /\ it.dsize \in Nat
  BY <1>4 DEF IsItem
<1>8. Placed(it, FileLimit) /\ n <= it.bsize
  BY <1>1, <1>4, <1>7, CacheFileAssumption DEF Placed
<1>9. HashMatches(Written(c, it, h, n), r[t.at], n)
  BY <1>2, <1>4, <1>8, WrittenReads
<1> QED
  BY <1>2, <1>3, <1>4, <1>5, <1>6, <1>8, <1>9

\* The file ends at _size, and the index can be read, after a block of a client is stored.
LEMMA StoreFile ==
    ASSUME Marks, TypeInv, BlocksInv, opens = 0, EndsAtSize, IndexReads, Store
    PROVE  EndsAtSize' /\ IndexReads'
<1> DEFINE k == request.key
           c == request.content
           n == Size[c]
<1>1. /\ k \in Keys /\ c \in Contents /\ k \in BlockKeys /\ k # FREE /\ k # INDEX /\ n \in Nat
      /\ phase = "storing" /\ phase' = "idle"
      /\ IsIndex(index) /\ KeysUnique(index) /\ size \in Nat /\ size = StreamSize(cells)
  BY KeysAreBlockKeys DEF Store, TypeInv, RequestTyped, IndexTyped, EndsAtSize
<1>2. PICK t \in Targets(index, size, k, n) :
        /\ index' = Hashed(t.items, t.at, c) /\ size' = t.end
        /\ cells' = Written(cells, t.items[t.at], c, n)
  BY DEF Store, Hashed
<1>3. Fits(t)
  BY <1>1 DEF BlocksInv, RequestFits
<1> HIDE DEF n, k, c
<1>4. Laid(index, size)
  BY DEF BlocksInv
<1>5. IsPlace(t, k) /\ KeysUnique(t.items)
  BY <1>1, TargetsTyped, UniqueTargets
<1>6. Laid(t.items, t.end) /\ Chosen(t, index, k, n)
  BY <1>1, <1>4, LaidTargets
<1>7. t.end \in Nat /\ t.end <= FileLimit /\ t.items[t.at].dsize = n
  BY <1>3, <1>5, <1>6 DEF Fits, IsPlace, Chosen
<1>8. /\ DOMAIN index' = DOMAIN t.items /\ index'[t.at].key = k
      /\ \A j \in DOMAIN index' : j # t.at => index'[j] = t.items[j]
      /\ IsItem(t.items[t.at]) /\ Placed(t.items[t.at], t.end) /\ n <= t.items[t.at].bsize
  BY <1>1, <1>2, <1>5, <1>6, <1>7, ChosenWritten
<1>9. EndsAtSize'
  <2>1. t.end = size \/ (t.items[t.at].pos = size /\ t.end = size + t.items[t.at].bsize)
    BY <1>1, EndsTargets
  <2>2. StreamSize(cells') = t.end
    BY <1>1, <1>2, <1>7, <1>8, <2>1, SizeWritten
  <2> QED
    BY <1>2, <2>2 DEF EndsAtSize
<1>10. IndexReads'
  <2> SUFFICES ASSUME NEW j \in DOMAIN index', index'[j].key = INDEX
               PROVE  HashMatches(cells', index'[j], index'[j].dsize)
    BY DEF IndexReads
  <2>1. j # t.at /\ j \in DOMAIN t.items /\ index'[j] = t.items[j]
    BY <1>1, <1>8
  <2>2. j \in DOMAIN index /\ t.items[j] = index[j]
    BY <1>1, <1>6, <2>1, KeysAreBlockKeys DEF Chosen
  <2>3. HashMatches(cells, index[j], index[j].dsize) /\ IsItem(index[j])
    BY <1>1, <2>1, <2>2 DEF IndexReads, IsIndex
  <2>4. Apart(t.items[t.at], t.items[j]) /\ Placed(t.items[j], t.end)
    BY <1>5, <1>6, <2>1 DEF Laid, IsPlace
  <2>5. SameBlock(cells, cells', index[j])
    BY <1>1, <1>2, <1>7, <1>8, <2>2, <2>3, <2>4, WrittenApart
  <2>6. index[j].dsize <= index[j].bsize
    BY <2>2, <2>4 DEF Placed
  <2> QED
    BY <2>1, <2>2, <2>3, <2>5, <2>6, SameHash
<1> QED
  BY <1>9, <1>10

\* The index as it is after the copy of the items was written into a block.
LEMMA IndexStoredIs ==
    ASSUME NEW p, NEW t, NEW s, NEW n, IndexWrites(p, t, s, n), IndexStored(p, t, s, n)
    PROVE  /\ KeysUnique(index') /\ IsIndex(index') /\ Laid(index', t.end)
           /\ DOMAIN index' = DOMAIN t.items /\ t.at \in DOMAIN index'
           /\ index'[t.at].key = INDEX /\ index'[t.at].hash = s /\ index'[t.at].dsize = n
           /\ HashMatches(cells', index'[t.at], n)
           /\ IsItem(t.items[t.at]) /\ Placed(t.items[t.at], t.end)
           /\ n <= t.items[t.at].bsize
           /\ \A key \in Keys : ReadBlock(index', cells', key) = ReadBlock(p.items, cells', key)
<1>1. /\ KeysUnique(t.items) /\ IsPlace(t, INDEX) /\ Laid(t.items, t.end)
      /\ t.end <= FileLimit /\ n \in Nat /\ Chosen(t, p.items, INDEX, n) /\ IsIndex(p.items)
  BY DEF IndexWrites
<1>2. /\ index' = Hashed(t.items, t.at, s)
      /\ cells' = Written(cells, t.items[t.at], s, n)
  BY DEF IndexStored, Hashed
<1>3. /\ t.items[t.at].dsize = n /\ t.at \in DOMAIN t.items /\ IsIndex(t.items)
      /\ t.end \in Nat /\ t.items[t.at].key = INDEX
  BY <1>1 DEF Chosen, IsPlace
<1>4. /\ KeysUnique(index') /\ IsIndex(index') /\ DOMAIN index' = DOMAIN t.items
      /\ index'[t.at].key = INDEX /\ index'[t.at].hash = s /\ index'[t.at].dsize = n
      /\ \A j \in DOMAIN index' : j # t.at => index'[j] = t.items[j]
      /\ HashMatches(cells', index'[t.at], n)
      /\ IsItem(t.items[t.at]) /\ Placed(t.items[t.at], t.end) /\ n <= t.items[t.at].bsize
  <2>1. KeysUnique(index') /\ IsIndex(index') /\ DOMAIN index' = DOMAIN t.items
    BY <1>1, <1>2, <1>3, ChosenWritten
  <2>2. index'[t.at].key = INDEX /\ index'[t.at].hash = s /\ index'[t.at].dsize = n
    BY <1>1, <1>2, <1>3, ChosenWritten
  <2>3. \A j \in DOMAIN index' : j # t.at => index'[j] = t.items[j]
    BY <1>1, <1>2, <1>3, ChosenWritten
  <2>4. HashMatches(cells', index'[t.at], n)
    BY <1>1, <1>2, <1>3, ChosenWritten
  <2>5. IsItem(t.items[t.at]) /\ Placed(t.items[t.at], t.end) /\ n <= t.items[t.at].bsize
    BY <1>1, <1>2, <1>3, ChosenWritten
  <2> QED
    BY <2>1, <2>2, <2>3, <2>4, <2>5
<1>5. Laid(index', t.end)
  BY <1>1, <1>2, <1>3, LaidHashed DEF Hashed
<1>6. ASSUME NEW key \in Keys
      PROVE  ReadBlock(index', cells', key) = ReadBlock(p.items, cells', key)
  <2>1. key # INDEX /\ INDEX \in BlockKeys /\ INDEX # FREE
    BY KeysAreBlockKeys
  <2> QED
    BY <1>1, <1>3, <1>4, <2>1, ChosenReads
<1> QED
  BY <1>3, <1>4, <1>5, <1>6

\* The file ends at _size, and the index can be read, after the index is stored; then its
\* item has the checksum of the copy.
LEMMA StoreIndexFile ==
    ASSUME Marks, TypeInv, BlocksInv, opens = 0, EndsAtSize, IndexReads, phase = "storing",
           NEW p \in Prepared, NEW t, NEW s, NEW n,
           n = Len(p.items) * ItemSize, IndexWrites(p, t, s, n)
    PROVE  /\ size' = StreamSize(cells') /\ IndexReads'
           /\ \E i \in DOMAIN index' :
                 /\ index'[i].key = INDEX /\ index'[i].hash = s /\ index'[i].dsize = n
                 /\ Top(index') = index'[i]
           /\ KeysUnique(index') /\ IsIndex(index')
           /\ Laid(index', size') /\ p.end <= size'
<1>1. size = StreamSize(cells) /\ KeysUnique(index) /\ IsIndex(index) /\ size \in Nat
      /\ Laid(index, size)
  BY DEF EndsAtSize, TypeInv, IndexTyped, BlocksInv
<1>2. /\ KeysUnique(p.items) /\ n \in Nat /\ IsPlace(t, INDEX) /\ KeysUnique(t.items)
      /\ Laid(t.items, t.end) /\ t.end <= FileLimit /\ t.end >= p.end
      /\ Chosen(t, p.items, INDEX, n)
      /\ IndexKept(p, s, n) \/ IndexStored(p, t, s, n)
  BY DEF IndexWrites
<1>3. CASE IndexKept(p, s, n)
  <2>1. p.items = index /\ p.end = size
    BY <1>3, IndexFresh
  <2>2. /\ index' = index /\ size' = size /\ cells' = cells
        /\ Top(index).hash = s /\ Top(index).dsize = n
    BY <1>3, <2>1 DEF IndexKept
  <2>3. Find(index, INDEX) # {}
    <3>1. IndexTyped
      BY DEF TypeInv
    <3> QED
      BY <2>1, <3>1, PreparedTyped
  <2>4. PICK i \in DOMAIN index : index[i].key = INDEX
    BY <2>3 DEF Find
  <2>5. Top(index) = index[i]
    BY <1>1, <2>4, TopIs
  <2> QED
    BY <1>1, <2>1, <2>2, <2>4, <2>5 DEF IndexReads
<1>4. CASE IndexStored(p, t, s, n)
  <2>1. /\ index' = [t.items EXCEPT ![t.at].hash = s] /\ size' = t.end
        /\ cells' = Written(cells, t.items[t.at], s, n)
    BY <1>4 DEF IndexStored
  <2>2. t.end \in Nat
    BY <1>2 DEF IsPlace
  <2>3. /\ KeysUnique(index') /\ IsIndex(index') /\ Laid(index', t.end)
        /\ t.at \in DOMAIN index'
        /\ index'[t.at].key = INDEX /\ index'[t.at].hash = s /\ index'[t.at].dsize = n
        /\ HashMatches(cells', index'[t.at], n)
        /\ IsItem(t.items[t.at]) /\ Placed(t.items[t.at], t.end) /\ n <= t.items[t.at].bsize
    BY <1>4, IndexStoredIs
  <2>4. size' = StreamSize(cells')
    <3>1. t.end = size \/ (t.items[t.at].pos = size /\ t.end = size + t.items[t.at].bsize)
      BY IndexEnds
    <3>2. StreamSize(Written(cells, t.items[t.at], s, n)) = t.end
      BY <1>1, <1>2, <2>2, <2>3, <3>1, SizeWritten
    <3> QED
      BY <2>1, <3>2
  <2>5. IndexReads'
    BY <2>2, <2>3, KeysAreBlockKeys DEF IndexReads, KeysUnique
  <2>6. Top(index') = index'[t.at]
    BY <2>2, <2>3, TopIs
  <2> QED
    BY <1>2, <2>1, <2>2, <2>3, <2>4, <2>5, <2>6
<1> QED
  BY <1>2, <1>3, <1>4

\* The items a session would read are those of the copy, with the item of the index block
\* the header names.
LEMMA LoadedIs ==
    ASSUME NEW items, IsIndex(items), NEW top, IsItem(top), top.key = INDEX,
           NEW h, h.index = top, top # NoItem, top.hash = Snapshot(items)
    PROVE  /\ DOMAIN Loaded(h) = DOMAIN items
           /\ \A i \in DOMAIN items :
                 Loaded(h)[i] = IF items[i].key = INDEX THEN top ELSE items[i]
           /\ \A key \in Keys : Find(Loaded(h), key) = Find(items, key)
           /\ Find(Loaded(h), INDEX) = Find(items, INDEX)
<1> DEFINE s == Snapshot(items)
<1>1. DOMAIN s = DOMAIN items
  BY DEF Snapshot
<1>2. ASSUME NEW i \in DOMAIN items
      PROVE  s[i].key = items[i].key /\ (items[i].key # INDEX => s[i] = items[i])
  <2>1. IsItem(items[i])
    BY DEF IsIndex
  <2>2. [items[i] EXCEPT !.dsize = 0, !.hash = NoHash].key = items[i].key
    BY <2>1 DEF IsItem
  <2> QED
    BY <2>2 DEF Snapshot
<1> HIDE DEF s
<1>3. Loaded(h) = [i \in DOMAIN s |-> IF s[i].key = INDEX THEN top ELSE s[i]]
  BY DEF Loaded, s
<1>4. /\ DOMAIN Loaded(h) = DOMAIN items
      /\ \A i \in DOMAIN items : Loaded(h)[i] = IF items[i].key = INDEX THEN top ELSE items[i]
  BY <1>1, <1>2, <1>3
<1>5. \A i \in DOMAIN items : Loaded(h)[i].key = items[i].key
  BY <1>4
<1> QED
  BY <1>4, <1>5 DEF Find

\* What is written is what a session would accept and read.
LEMMA StoreIndexKeeps ==
    ASSUME Marks, TypeInv, TypeInv', BlocksInv, opens = 0, EndsAtSize, IndexReads,
           phase = "storing", ReadsStored', stored' = stored,
           NEW p \in Prepared, NEW t, NEW s, NEW n, s = Snapshot(p.items),
           n = Len(p.items) * ItemSize, IndexWrites(p, t, s, n)
    PROVE  Keeps([dirty |-> FALSE, fsize |-> size', index |-> Top(index')], cells', stored')
<1> DEFINE h == [dirty |-> FALSE, fsize |-> size', index |-> Top(index')]
           top == Top(index')
<1>1. /\ size' = StreamSize(cells') /\ IndexReads'
      /\ KeysUnique(index') /\ IsIndex(index') /\ Laid(index', size') /\ p.end <= size'
  BY StoreIndexFile
<1>2. PICK i \in DOMAIN index' :
        /\ index'[i].key = INDEX /\ index'[i].hash = s /\ index'[i].dsize = n
        /\ Top(index') = index'[i]
  BY StoreIndexFile
<1>3. /\ IsItem(top) /\ top.key = INDEX /\ top.hash = s /\ top.dsize = n
      /\ Placed(top, size') /\ HashMatches(cells', top, n)
  BY <1>1, <1>2 DEF IsIndex, Laid, IndexReads
<1>4. top # NoItem
  BY <1>3 DEF Marks
<1>5. /\ h # NoHeader /\ h.dirty = FALSE /\ h.fsize = size' /\ h.index = top
  BY DEF Marks
<1> HIDE DEF h, top
<1>6. /\ IsIndex(p.items) /\ KeysUnique(p.items) /\ Laid(p.items, p.end) /\ p.end \in Nat
      /\ Len(s) = Len(p.items) /\ n \in Nat /\ IsIndex(s)
      /\ Chosen(t, p.items, INDEX, n) /\ IsPlace(t, INDEX) /\ Laid(t.items, t.end)
      /\ IndexKept(p, s, n) \/ IndexStored(p, t, s, n)
  BY DEF IndexWrites
<1>7. /\ DOMAIN Loaded(h) = DOMAIN p.items
      /\ \A j \in DOMAIN p.items :
            Loaded(h)[j] = IF p.items[j].key = INDEX THEN top ELSE p.items[j]
      /\ \A key \in Keys : Find(Loaded(h), key) = Find(p.items, key)
      /\ Find(Loaded(h), INDEX) = Find(p.items, INDEX)
  <2>1. top.hash = Snapshot(p.items)
    BY <1>3
  <2> QED
    BY <1>3, <1>4, <1>5, <1>6, <2>1, LoadedIs
<1>8. n > 0 /\ Find(p.items, INDEX) # {}
  <2>1. IndexTyped
    BY DEF TypeInv
  <2>2. Find(p.items, INDEX) # {}
    BY <2>1, PreparedTyped
  <2>3. Len(p.items) \in Nat \ {0}
    BY <1>6, <2>2, IndexShape DEF Find
  <2>4. \A x, y \in Nat \ {0} : x * y > 0
    OBVIOUS
  <2> QED
    BY <2>2, <2>3, <2>4, CacheFileAssumption
<1>9. size' \in Nat /\ SectorSize \in Nat \ {0} /\ stored' \in [Keys -> Contents \union {Nothing, Unknown}]
  BY CacheFileAssumption DEF TypeInv, IndexTyped, HistoryTyped
<1>10. \A key \in Keys : ReadBlock(p.items, cells', key) = ReadBlock(index', cells', key)
  <2>1. CASE IndexKept(p, s, n)
    BY <2>1 DEF IndexKept
  <2>2. CASE IndexStored(p, t, s, n)
    BY <2>2, IndexStoredIs
  <2> QED
    BY <1>6, <2>1, <2>2
<1>11. \A key \in Keys : ReadBlock(Loaded(h), cells', key) = ReadBlock(p.items, cells', key)
  <2> SUFFICES ASSUME NEW key \in Keys
               PROVE  ReadBlock(Loaded(h), cells', key) = ReadBlock(p.items, cells', key)
    OBVIOUS
  <2>1. \A j \in Find(p.items, key) : Loaded(h)[j] = p.items[j]
    BY <1>7, KeysAreBlockKeys DEF Find
  <2> QED
    BY <1>7, <2>1, ReadSame
<1>12. \A key \in Keys : /\ ReadBlock(Loaded(h), cells', key) = stored'[key]
                         /\ stored'[key] # Unknown
  BY <1>10, <1>11 DEF ReadsStored
<1>13. Contained(Loaded(h), cells') = stored'
  BY <1>9, <1>12 DEF Contained
<1>14. \A j \in DOMAIN Loaded(h) : ItemValid(Loaded(h)[j], StreamSize(cells'))
  <2> SUFFICES ASSUME NEW j \in DOMAIN p.items
               PROVE  ItemValid(Loaded(h)[j], size')
    BY <1>1, <1>7
  <2>1. ASSUME NEW it, IsItem(it), Placed(it, size') PROVE ItemValid(it, size')
    BY <1>9, <2>1 DEF ItemValid, IsItem, Placed
  <2>2. IsItem(p.items[j]) /\ Placed(p.items[j], size')
    <3>1. IsItem(p.items[j]) /\ Placed(p.items[j], p.end)
      BY <1>6 DEF IsIndex, Laid
    <3> QED
      BY <1>1, <1>6, <1>9, <3>1 DEF Placed, IsItem
  <2> QED
    BY <1>3, <1>7, <2>1, <2>2
<1>15. ASSUME NEW j \in DOMAIN Loaded(h), Loaded(h)[j].key \in Keys
       PROVE  DataMatches(cells', Loaded(h)[j])
  <2> DEFINE key == Loaded(h)[j].key
  <2>1. KeysUnique(Loaded(h))
    BY <1>3, <1>6, <1>7, KeysAreBlockKeys DEF KeysUnique
  <2>2. ReadBlock(Loaded(h), cells', key) # Unknown /\ key # FREE
    BY <1>12, <1>15, KeysAreBlockKeys
  <2> QED
    BY <2>1, <2>2, ReadMatches
<1>16. /\ top.pos < size' /\ top.pos + top.bsize <= size' + 4 * SectorSize - 1
       /\ size' <= StreamSize(cells') + 4 * SectorSize - 1
  BY <1>1, <1>3, <1>8, <1>9 DEF Placed, IsItem
<1>17. HashMatches(cells', top, Len(top.hash) * ItemSize)
  BY <1>3, <1>6
<1>18. Accepted(h, cells')
  BY <1>3, <1>5, <1>7, <1>8, <1>14, <1>15, <1>16, <1>17 DEF Accepted
<1>19. Keeps(h, cells', stored')
  BY <1>4, <1>5, <1>13, <1>18 DEF Keeps
<1> QED
  BY <1>19 DEF h

LEMMA CellsInit == Init => CellsInv
BY DEF Init, CellsInv, IsCells

\* Every step writes the cells as a whole.
LEMMA CellsStep == CellsInv /\ [Next]_vars => CellsInv'
<1> SUFFICES ASSUME CellsInv, [Next]_vars PROVE CellsInv'
  OBVIOUS
<1>1. \A f, it, c, n : IsCells(Written(f, it, c, n))
  BY DEF IsCells, Written
<1>2. \A lost : IsCells(Without(lost))
  BY DEF IsCells, Without
<1>3. ASSUME Sync PROVE CellsInv'
  BY <1>2, <1>3 DEF Sync, Synced, CellsInv
<1>4. ASSUME UNCHANGED <<cells, synced>> PROVE CellsInv'
  BY <1>4 DEF CellsInv
<1>5. CASE Create
  BY <1>5 DEF Create, CellsInv, IsCells
<1>6. CASE Open
  BY <1>4, <1>6 DEF Open, disk
<1>7. ASSUME NEW r, Begin(r) PROVE CellsInv'
  BY <1>4, <1>7 DEF Begin, disk
<1>8. ASSUME NEW k \in Keys, NEW c \in Contents, WriteSame(k, c) \/ Write(k, c) PROVE CellsInv'
  BY <1>4, <1>7, <1>8 DEF WriteSame, Write, disk
<1>9. CASE SyncDirty \/ SyncData \/ SyncClean
  BY <1>3, <1>9 DEF SyncDirty, SyncData, SyncClean
<1>10. CASE Store
  <2>1. \E it, c, n : cells' = Written(cells, it, c, n)
    BY <1>10 DEF Store
  <2>2. synced' = synced
    BY <1>10 DEF Store
  <2> QED
    BY <1>1, <2>1, <2>2 DEF CellsInv
<1>11. CASE StoreFails \/ StoreIndexFails
  <2>1. IsCells(cells')
    BY <1>11 DEF StoreFails, StoreIndexFails, WrittenInPart, IsCells
  <2>2. synced' = synced
    BY <1>11 DEF StoreFails, StoreIndexFails
  <2> QED
    BY <2>1, <2>2 DEF CellsInv
<1>12. CASE FlushIndex \/ FlushUnchanged \/ WriteClean
  BY <1>4, <1>7, <1>12 DEF FlushIndex, FlushUnchanged, WriteClean, disk
<1>13. CASE StoreIndex
  <2>1. cells' = cells \/ \E it, c, n : cells' = Written(cells, it, c, n)
    BY <1>13 DEF StoreIndex
  <2>2. synced' = synced
    BY <1>13 DEF StoreIndex
  <2> QED
    BY <1>1, <2>1, <2>2 DEF CellsInv
<1>14. CASE Close
  <2>1. CASE IsClean(header)
    BY <1>3, <1>14, <2>1 DEF Close
  <2>2. CASE ~IsClean(header)
    BY <1>14, <2>2 DEF Close, Synced, CellsInv, IsCells
  <2> QED
    BY <2>1, <2>2
<1>15. CASE Crash
  <2>1. PICK h \in hdrOnDisk : \E f \in CrashCells(h) : Synced(h, f)
    BY <1>15 DEF Crash
  <2>2. PICK f \in CrashCells(h) : Synced(h, f)
    BY <2>1
  <2>3. IsCells(f)
    BY <1>2 DEF CrashCells, IsCells
  <2> QED
    BY <2>2, <2>3 DEF Synced, CellsInv
<1>16. CASE UNCHANGED vars
  BY <1>4, <1>16 DEF vars, disk
<1> QED
  BY <1>5, <1>6, <1>8, <1>9, <1>10, <1>11, <1>12, <1>13, <1>14, <1>15, <1>16 DEF Next

\* What a crash leaves under a header that names an index, once every cell was synced.
LEMMA CrashKeepsCells ==
    ASSUME CellsInv, synced = cells, NEW h, Trusted(h), NEW f \in CrashCells(h)
    PROVE  f = cells
<1>1. Unsynced = {}
  BY DEF Unsynced
<1>2. PICK lost \in SUBSET Unsynced : f = Without(lost)
  BY DEF CrashCells, Trusted
<1>3. Without({}) = [u \in Cells |-> cells[u]]
  BY DEF Without
<1>4. lost = {}
  BY <1>1
<1> QED
  BY <1>2, <1>3, <1>4 DEF CellsInv, IsCells

\* So a clean header keeps over those cells what it keeps over those of the process.
LEMMA CrashKeeps ==
    ASSUME TypeInv, ProtocolInv, lostSyncs = 0, CellsInv, CommitKept,
           NEW h \in hdrOnDisk, IsClean(h), NEW f \in CrashCells(h)
    PROVE  Keeps(h, f, commits.last)
<1>1. Keeps(h, cells, commits.last)
  BY DEF CommitKept
<1>2. CASE h.index = NoItem
  BY <1>1, <1>2 DEF Keeps
<1>3. CASE h.index # NoItem
  <2>1. Trusted(h)
    BY <1>3 DEF Trusted
  <2>2. synced = cells
    BY <2>1, Settled DEF TypeInv, RequestTyped
  <2> QED
    BY <1>1, <2>1, <2>2, CrashKeepsCells
<1> QED
  BY <1>2, <1>3

LEMMA CommitInit == Init => CommitInv
BY CellsInit DEF Init, CommitInv, FileInv, EndsAtSize, IndexReads, DirtyUnclean,
   UnchangedEmpty, CommitKept, CommitReady, HeaderThere, IsClean

\* The steps that change neither the index, nor the cells, nor what was committed.
SameFile == /\ UNCHANGED <<index, size, cells, commits>>
            /\ phase # "closed" /\ phase' # "closed"

LEMMA SameFileKept ==
    ASSUME EndsAtSize, IndexReads, CommitKept, SameFile,
           \A h \in hdrOnDisk' : h \in hdrOnDisk \/ ~IsClean(h)
    PROVE  EndsAtSize' /\ IndexReads' /\ CommitKept'
BY DEF EndsAtSize, IndexReads, CommitKept, SameFile

\* What lies behind every step of the session that created the file.
StepInv ==
    /\ TypeInv /\ BlocksInv /\ ReadInv /\ ProtocolInv /\ CellsInv
    /\ FirstSession /\ FileInv

LEMMA StepFacts ==
    ASSUME StepInv
    PROVE  /\ lostSyncs = 0 /\ opens = 0 /\ phase \in Phases /\ header \in hdrOnDisk
           /\ EndsAtSize /\ IndexReads /\ DirtyUnclean /\ UnchangedEmpty
           /\ CommitKept /\ CommitReady /\ HeaderThere
           /\ WritingDirty /\ DownWhenIdle /\ dirty \in BOOLEAN /\ ReadsStored
BY DEF StepInv, FirstSession, FileInv, ProtocolInv, HeaderPending, TypeInv, RequestTyped,
       FlagsTyped, ReadInv

LEMMA BeginFile ==
    ASSUME Marks, StepInv, NEW r, Begin(r), phase = "idle"
    PROVE  FileInv'
<1> USE StepFacts
<1>1. CASE dirty
  <2>1. phase' = "storing" /\ UNCHANGED <<index, size, cells, commits, header, hdrOnDisk, dirty>>
    BY <1>1 DEF Begin, memory, disk
  <2>2. EndsAtSize' /\ IndexReads' /\ CommitKept'
    BY <2>1, SameFileKept DEF SameFile
  <2>3. DirtyUnclean'
    BY <1>1, <2>1 DEF DirtyUnclean
  <2>4. UnchangedEmpty' /\ CommitReady' /\ HeaderThere'
    BY <2>1 DEF UnchangedEmpty, CommitReady, HeaderThere
  <2> QED
    BY <2>2, <2>3, <2>4 DEF FileInv
<1>2. CASE ~dirty
  <2>1. /\ phase' = "dirtying" /\ UNCHANGED <<index, size, cells, commits>>
        /\ header' = Flagged(TRUE) /\ hdrOnDisk' = hdrOnDisk \union {Flagged(TRUE)}
    BY <1>2 DEF Begin, WriteHeader
  <2>2. ~IsClean(Flagged(TRUE)) /\ Flagged(TRUE) # NoHeader
    BY DEF IsClean, Flagged, Marks
  <2>3. EndsAtSize' /\ IndexReads' /\ CommitKept'
    BY <2>1, <2>2, SameFileKept DEF SameFile
  <2>4. DirtyUnclean'
    BY <2>1, <2>2 DEF DirtyUnclean
  <2>5. UnchangedEmpty' /\ CommitReady' /\ HeaderThere'
    BY <2>1, <2>2 DEF UnchangedEmpty, CommitReady, HeaderThere
  <2> QED
    BY <2>3, <2>4, <2>5 DEF FileInv
<1> QED
  BY <1>1, <1>2

\* A sync that loses nothing, in the middle of an operation.
LEMMA SyncFile ==
    ASSUME StepInv, Sync, lostSyncs' = 0, UNCHANGED <<memory, stored, commits>>,
           \/ phase = "dirtying" /\ phase' = "storing"
           \/ phase = "syncing" /\ phase' = "cleaning"
           \/ phase = "closing" /\ phase' = "idle"
    PROVE  FileInv'
<1> USE StepFacts
<1>1. /\ cells' = cells /\ header' = header /\ hdrOnDisk' = {header}
      /\ UNCHANGED <<index, size, dirty, stored, commits>>
  BY SyncSame DEF memory
<1>2. EndsAtSize' /\ IndexReads' /\ CommitKept'
  BY <1>1, SameFileKept DEF SameFile
<1>3. DirtyUnclean'
  BY <1>1 DEF DirtyUnclean, DownWhenIdle
<1>4. UnchangedEmpty'
  BY <1>1 DEF UnchangedEmpty, DownWhenIdle
<1>5. CommitReady'
  <2>1. Flagged(FALSE)' = Flagged(FALSE)
    BY <1>1 DEF Flagged
  <2> QED
    BY <1>1, <2>1 DEF CommitReady
<1>6. HeaderThere'
  BY <1>1 DEF HeaderThere
<1> QED
  BY <1>2, <1>3, <1>4, <1>5, <1>6 DEF FileInv

\* A session ends: the header on the disk keeps the last commit, or says dirty.
LEMMA ForgetFile ==
    ASSUME Forget, UNCHANGED commits, NEW h, header' = h, hdrOnDisk' = {h},
           IsClean(h) => Keeps(h, cells', commits.last)
    PROVE  FileInv'
<1>1. phase' = "closed" /\ index' = << >> /\ commits' = commits
  BY DEF Forget
<1>2. EndsAtSize' /\ IndexReads' /\ DirtyUnclean' /\ UnchangedEmpty' /\ CommitReady' /\ HeaderThere'
  BY <1>1 DEF EndsAtSize, IndexReads, DirtyUnclean, UnchangedEmpty, CommitReady, HeaderThere
<1>3. CommitKept'
  BY <1>1 DEF CommitKept
<1> QED
  BY <1>2, <1>3 DEF FileInv

LEMMA CreateFile == ASSUME Marks, Create PROVE FileInv'
<1>1. /\ phase' = "idle" /\ index' = << >> /\ size' = SectorSize /\ stored' = Empty
      /\ header' = [dirty |-> TRUE, fsize |-> SectorSize, index |-> NoItem]
      /\ hdrOnDisk' = {NoHeader, header'} /\ cells' = [u \in Cells |-> Hole]
  BY DEF Create
<1>2. header' # NoHeader /\ ~IsClean(header') /\ ~IsClean(NoHeader)
  BY <1>1 DEF Marks, IsClean
<1>3. EndsAtSize'
  <2>1. SectorSize \in SectorSize .. FileLimit
    BY CacheFileAssumption
  <2>2. StreamSize(cells') = SectorSize
    BY <1>1, <2>1, StreamSizeOf
  <2> QED
    BY <1>1, <2>2 DEF EndsAtSize
<1>4. DirtyUnclean' /\ CommitKept'
  BY <1>1, <1>2 DEF DirtyUnclean, CommitKept
<1>5. UnchangedEmpty'
  BY <1>1, <1>2, CacheFileAssumption DEF UnchangedEmpty
<1>6. IndexReads' /\ CommitReady' /\ HeaderThere'
  BY <1>1, <1>2 DEF IndexReads, CommitReady, HeaderThere
<1> QED
  BY <1>3, <1>4, <1>5, <1>6 DEF FileInv

LEMMA StoreKeepsFile == ASSUME Marks, StepInv, Store PROVE FileInv'
<1> USE StepFacts
<1>1. /\ phase = "storing" /\ phase' = "idle" /\ indexChanged' = TRUE
      /\ UNCHANGED <<dirty, header, hdrOnDisk, commits>>
  BY DEF Store
<1>2. EndsAtSize' /\ IndexReads'
  BY StoreFile DEF StepInv
<1>3. \A h \in hdrOnDisk' : ~IsClean(h)
  BY <1>1 DEF DirtyUnclean, WritingDirty
<1>4. DirtyUnclean' /\ CommitKept'
  BY <1>1, <1>3 DEF DirtyUnclean, CommitKept
<1>5. UnchangedEmpty' /\ CommitReady' /\ HeaderThere'
  BY <1>1 DEF UnchangedEmpty, CommitReady, HeaderThere
<1> QED
  BY <1>2, <1>4, <1>5 DEF FileInv

LEMMA StoreIndexKeepsFile ==
    ASSUME Marks, StepInv, TypeInv', ReadInv', FirstSession', StoreIndex
    PROVE  FileInv'
<1> USE StepFacts
<1>1. PICK p \in Prepared : \E t \in IndexTargets(p) :
        IndexWrites(p, t, Snapshot(p.items), Len(p.items) * ItemSize)
  BY StoreIndexIs DEF StepInv
<1>2. PICK t \in IndexTargets(p) :
        IndexWrites(p, t, Snapshot(p.items), Len(p.items) * ItemSize)
  BY <1>1
<1>3. /\ phase = "storing" /\ phase' = "syncing" /\ dirty' = dirty /\ stored' = stored
      /\ commits' = commits
  BY DEF StoreIndex
<1>4. dirty
  BY <1>3 DEF WritingDirty
<1> DEFINE h == [dirty |-> dirty, fsize |-> size', index |-> Top(index')]
<1>5. header' = h /\ hdrOnDisk' = hdrOnDisk \union {h}
  BY <1>2 DEF IndexWrites, WriteHeader
<1>6. h # NoHeader /\ ~IsClean(h)
  BY <1>4 DEF Marks, IsClean
<1>7. size' = StreamSize(cells') /\ IndexReads'
  BY <1>2, <1>3, StoreIndexFile DEF StepInv
<1>8. \A g \in hdrOnDisk' : ~IsClean(g)
  BY <1>3, <1>4, <1>5, <1>6 DEF DirtyUnclean
<1>9. DirtyUnclean' /\ CommitKept'
  BY <1>3, <1>8 DEF DirtyUnclean, CommitKept
<1>10. CommitReady'
  <2>1. Keeps([dirty |-> FALSE, fsize |-> size', index |-> Top(index')], cells', stored')
    <3>1. ReadsStored'
      BY DEF ReadInv
    <3> QED
      BY <1>2, <1>3, <3>1, StoreIndexKeeps DEF StepInv
  <2>2. Flagged(FALSE)' = [dirty |-> FALSE, fsize |-> size', index |-> Top(index')]
    BY <1>5, <1>6 DEF Flagged
  <2> HIDE DEF h
  <2> QED
    BY <1>5, <1>6, <2>1, <2>2 DEF CommitReady
<1>11. EndsAtSize' /\ UnchangedEmpty' /\ HeaderThere'
  BY <1>3, <1>5, <1>6, <1>7 DEF EndsAtSize, UnchangedEmpty, HeaderThere
<1> QED
  BY <1>7, <1>9, <1>10, <1>11 DEF FileInv

LEMMA WriteCleanFile == ASSUME Marks, StepInv, WriteClean PROVE FileInv'
<1> USE StepFacts
<1>1. /\ phase = "cleaning" /\ phase' = "closing"
      /\ commits' = [last |-> stored, before |-> commits.last]
      /\ header' = Flagged(FALSE) /\ hdrOnDisk' = hdrOnDisk \union {Flagged(FALSE)}
      /\ UNCHANGED <<index, size, cells>>
  BY DEF WriteClean, WriteHeader
<1>2. \A h \in hdrOnDisk : ~IsClean(h)
  BY <1>1 DEF DirtyUnclean, WritingDirty
<1>3. Keeps(Flagged(FALSE), cells, stored) /\ Flagged(FALSE) # NoHeader
  BY <1>1 DEF CommitReady, Flagged, Marks
<1>4. CommitKept'
  <2>1. commits'.last = stored
    BY <1>1
  <2> QED
    BY <1>1, <1>2, <1>3, <2>1 DEF CommitKept
<1>5. EndsAtSize' /\ IndexReads' /\ HeaderThere'
  BY <1>1, <1>3 DEF EndsAtSize, IndexReads, HeaderThere
<1>6. DirtyUnclean' /\ UnchangedEmpty' /\ CommitReady'
  BY <1>1 DEF DirtyUnclean, UnchangedEmpty, CommitReady
<1> QED
  BY <1>4, <1>5, <1>6 DEF FileInv

LEMMA FlushUnchangedFile == ASSUME Marks, StepInv, FlushUnchanged PROVE FileInv'
<1> USE StepFacts
<1>1. /\ phase = "idle" /\ ~indexChanged /\ dirty /\ phase' = "syncing"
      /\ UNCHANGED <<index, size, dirty, header, cells, hdrOnDisk, stored, commits>>
  BY DEF FlushUnchanged, memory, disk
<1>2. EndsAtSize' /\ IndexReads' /\ CommitKept'
  BY <1>1, SameFileKept DEF SameFile
<1>3. DirtyUnclean'
  BY <1>1 DEF DirtyUnclean
<1>4. CommitReady'
  <2>1. stored = Empty /\ header # NoHeader /\ header.index = NoItem /\ header.fsize <= SectorSize
    BY <1>1 DEF UnchangedEmpty
  <2>2. Flagged(FALSE)' = [dirty |-> FALSE, fsize |-> header.fsize, index |-> NoItem]
    BY <1>1, <2>1 DEF Flagged
  <2>3. Keeps([dirty |-> FALSE, fsize |-> header.fsize, index |-> NoItem], cells, stored)
    BY <2>1 DEF Keeps
  <2> QED
    BY <1>1, <2>1, <2>2, <2>3 DEF CommitReady
<1>5. UnchangedEmpty' /\ HeaderThere'
  BY <1>1 DEF UnchangedEmpty, HeaderThere
<1> QED
  BY <1>2, <1>3, <1>4, <1>5 DEF FileInv

LEMMA WriteSameFile ==
    ASSUME StepInv, NEW k \in Keys, NEW c \in Contents, WriteSame(k, c)
    PROVE  FileInv'
<1> USE StepFacts
<1>1. /\ phase = "idle" /\ phase' = phase /\ Find(index, k) # {}
      /\ UNCHANGED <<index, size, indexChanged, dirty, header, cells, hdrOnDisk, commits>>
  BY DEF WriteSame, memory, disk
<1>2. EndsAtSize' /\ IndexReads' /\ CommitKept'
  BY <1>1, SameFileKept DEF SameFile
<1>3. DirtyUnclean' /\ CommitReady' /\ HeaderThere'
  BY <1>1 DEF DirtyUnclean, CommitReady, HeaderThere
<1>4. UnchangedEmpty'
  <2>1. index # << >>
    BY <1>1 DEF Find
  <2> QED
    BY <1>1, <2>1 DEF UnchangedEmpty
<1> QED
  BY <1>2, <1>3, <1>4 DEF FileInv

LEMMA CloseFile == ASSUME StepInv, Close, lostSyncs' = 0 PROVE FileInv'
<1> USE StepFacts
<1>1. Forget /\ UNCHANGED commits
  BY DEF Close
<1>2. CASE IsClean(header)
  <2>1. cells' = cells /\ header' = header /\ hdrOnDisk' = {header}
    BY <1>2, SyncSame DEF Close
  <2> QED
    BY <1>1, <2>1, ForgetFile DEF CommitKept
<1>3. CASE ~IsClean(header)
  <2>1. header' = header /\ hdrOnDisk' = {header}
    BY <1>3 DEF Close, Synced
  <2> QED
    BY <1>1, <1>3, <2>1, ForgetFile
<1> QED
  BY <1>2, <1>3

LEMMA CrashFile == ASSUME StepInv, Crash PROVE FileInv'
<1> USE StepFacts
<1>1. Forget /\ UNCHANGED commits
  BY DEF Crash
<1>2. PICK h \in hdrOnDisk : \E f \in CrashCells(h) : Synced(h, f)
  BY DEF Crash
<1>3. PICK f \in CrashCells(h) : Synced(h, f)
  BY <1>2
<1>4. header' = h /\ hdrOnDisk' = {h} /\ cells' = f
  BY <1>3 DEF Synced
<1>5. IsClean(h) => Keeps(h, cells', commits.last)
  BY <1>4, CrashKeeps DEF StepInv
<1> QED
  BY <1>1, <1>4, <1>5, ForgetFile

\* Every step of the session keeps the invariant.
LEMMA FileStep ==
    ASSUME Marks, TypeInv, BlocksInv, ReadInv, ProtocolInv, CommitInv,
           TypeInv', ReadInv', [Next]_vars, FirstSession'
    PROVE  FileInv'
<1>1. lostSyncs' = 0 /\ failedWrites' = 0 /\ opens' = 0
      /\ opens \in Nat /\ failedWrites \in Nat
  BY CacheFileAssumption DEF FirstSession, TypeInv, HistoryTyped, BlocksInv
<1>2. CASE Create
  BY <1>2, CreateFile
<1>3. CASE FirstSession
  <2>1. StepInv
    BY <1>3 DEF StepInv, CommitInv
  <2>2. CASE Open
    BY <1>1, <2>2 DEF Open
  <2>3. ASSUME NEW k \in Keys, NEW c \in Contents, WriteSame(k, c) \/ Write(k, c) PROVE FileInv'
    BY <2>1, <2>3, WriteSameFile, BeginFile DEF Write
  <2>4. CASE SyncDirty \/ SyncData \/ SyncClean
    BY <1>1, <2>1, <2>4, SyncFile DEF SyncDirty, SyncData, SyncClean
  <2>5. CASE Store
    BY <2>1, <2>5, StoreKeepsFile
  <2>6. CASE StoreFails \/ StoreIndexFails
    BY <1>1, <2>6 DEF StoreFails, StoreIndexFails
  <2>7. CASE FlushIndex
    BY <2>1, <2>7, BeginFile DEF FlushIndex
  <2>8. CASE FlushUnchanged
    BY <2>1, <2>8, FlushUnchangedFile
  <2>9. CASE StoreIndex
    BY <2>1, <2>9, StoreIndexKeepsFile
  <2>10. CASE WriteClean
    BY <2>1, <2>10, WriteCleanFile
  <2>11. CASE Close
    BY <1>1, <2>1, <2>11, CloseFile
  <2>12. CASE Crash
    BY <2>1, <2>12, CrashFile
  <2>13. CASE UNCHANGED vars
    <3>1. FileInv
      BY <1>3 DEF CommitInv
    <3>2. UNCHANGED <<phase, index, size, indexChanged, dirty, header, cells, hdrOnDisk,
                      stored, commits>>
      BY <2>13 DEF vars, memory, disk
    <3>3. EndsAtSize' /\ IndexReads' /\ DirtyUnclean' /\ UnchangedEmpty'
      BY <3>1, <3>2 DEF FileInv, EndsAtSize, IndexReads, DirtyUnclean, UnchangedEmpty
    <3>4. CommitKept' /\ CommitReady' /\ HeaderThere'
      BY <3>1, <3>2 DEF FileInv, CommitKept, CommitReady, Flagged, HeaderThere
    <3> QED
      BY <3>3, <3>4 DEF FileInv
  <2>14. CASE Create
    BY <1>2, <2>14
  <2> QED
    BY <2>2, <2>3, <2>4, <2>5, <2>6, <2>7, <2>8, <2>9, <2>10, <2>11, <2>12, <2>13, <2>14
       DEF Next
<1> QED
  BY <1>2, <1>3, SessionBefore

\* What CrashLeavesLastCommit says is what the invariant keeps.
LEMMA KeepsCommit ==
    ASSUME NEW h, IsClean(h), h.fsize \in Nat, NEW f, NEW c, Keeps(h, f, c)
    PROVE  Accepted(h, f) /\ Contained(Loaded(h), f) = c
<1>1. CASE h.index # NoItem
  BY <1>1 DEF Keeps
<1>2. CASE h.index = NoItem
  <2>1. h.fsize <= SectorSize /\ c = Empty
    BY <1>2 DEF Keeps
  <2>2. StreamSize(f) \in SectorSize .. FileLimit
    BY StreamSizeIs
  <2>3. Contained(Loaded(h), f) = Empty
    BY <1>2, ReadEmpty DEF Contained, Loaded, Empty
  <2>4. h.fsize <= StreamSize(f) + 4 * SectorSize - 1
    BY <2>1, <2>2, CacheFileAssumption
  <2> QED
    BY <1>2, <2>1, <2>3, <2>4 DEF Accepted, IsClean
<1> QED
  BY <1>1, <1>2

\* What holds after every step, for values of the constants with Marks.
FileHolds == TypeInv /\ BlocksInv /\ ReadInv /\ ProtocolInv /\ CommitInv

LEMMA FileAlwaysHolds == ASSUME Marks PROVE Spec => []FileHolds
<1> DEFINE I == TypeInv /\ BlocksInv /\ ReadInv /\ ProtocolInv
<1>1. I /\ I' /\ CommitInv /\ [Next]_vars => CommitInv'
  BY CellsStep, FileStep DEF CommitInv
<1>2. Spec => []I
  BY TypeInvHolds, BlocksHold, ReadHolds, ProtocolHolds, PTL
<1>3. I /\ CommitInv => FileHolds
  BY DEF FileHolds
<1> HIDE DEF I
<1> QED
  BY <1>1, <1>2, <1>3, CommitInit, PTL DEF Spec

\* In the session that created the file, when no sync and no write fails, a crash at any
\* point of any operation leaves a file that open() rejects as dirty or that holds exactly
\* what the last completed flush(true) stored (setDirtyFlag, writeIndex, readIndex).
THEOREM CrashAlwaysLeavesLastCommit ==
    Marks => (Spec => [](opens = 0 => CrashLeavesLastCommit))
<1> SUFFICES ASSUME Marks PROVE Spec => [](opens = 0 => CrashLeavesLastCommit)
  OBVIOUS
<1>1. FileHolds => (opens = 0 => CrashLeavesLastCommit)
  <2> SUFFICES ASSUME FileHolds, opens = 0, lostSyncs = 0, failedWrites = 0,
                      NEW h \in hdrOnDisk, IsClean(h), NEW f \in CrashCells(h)
               PROVE  Accepted(h, f) /\ Contained(Loaded(h), f) = commits.last
    BY DEF CrashLeavesLastCommit
  <2>1. TypeInv /\ ProtocolInv /\ CellsInv /\ CommitKept
    BY DEF FileHolds, CommitInv, FirstSession, FileInv
  <2>2. h.fsize \in Nat
    BY <2>1 DEF TypeInv, HeadersTyped, HeaderTyped, IsHeader, IsClean
  <2> QED
    BY <2>1, <2>2, CrashKeeps, KeepsCommit
<1> QED
  BY <1>1, FileAlwaysHolds, PTL

-----------------------------------------------------------------------------
(* The file implements the map of BlockStore *)

\* The mark of a kept map that is lost is no map.
LostIsNoMap == Unknown \notin [Keys -> Contents \union {Nothing, Unknown}]

\* What BlockStore sees of the state.
PromisedVars == <<phase # "closed", Contained(index, cells), KeptContents>>

CleanThere == \E h \in hdrOnDisk : IsClean(h)

\* What is kept is the last commit, as long as a clean header is on the disk.
LEMMA KeptOf ==
    ASSUME NEW hs, NEW f, NEW c,
           \A h \in hs : IsClean(h) => h.fsize \in Nat /\ Keeps(h, f, c),
           \E h \in hs : IsClean(h)
    PROVE  Contained(Loaded(CHOOSE h \in hs : IsClean(h)), f) = c
<1> DEFINE g == CHOOSE h \in hs : IsClean(h)
<1>1. g \in hs /\ IsClean(g)
  OBVIOUS
<1> HIDE DEF g
<1>2. g.fsize \in Nat /\ Keeps(g, f, c)
  BY <1>1
<1>3. Contained(Loaded(g), f) = c
  BY <1>1, <1>2, KeepsCommit
<1> QED
  BY <1>3 DEF g

\* What the session reads is what was stored.
LEMMA ReadsAll ==
    ASSUME NEW items, NEW f, NEW s \in [Keys -> Contents \union {Nothing, Unknown}],
           \A k \in Keys : ReadBlock(items, f, k) = s[k]
    PROVE  Contained(items, f) = s
BY DEF Contained

\* The invariants before and after a step of the session that created the file.
AroundStep ==
    /\ StepInv
    /\ TypeInv' /\ ReadsStored' /\ CommitKept'

LEMMA AroundFacts ==
    ASSUME AroundStep
    PROVE  /\ KeptContents = IF CleanThere THEN commits.last ELSE Unknown
           /\ KeptContents' = IF CleanThere' THEN commits'.last ELSE Unknown
           /\ Contained(index, cells) = stored
           /\ Contained(index, cells)' = stored'
<1>1. /\ TypeInv /\ CommitKept /\ ReadsStored
      /\ TypeInv' /\ CommitKept' /\ ReadsStored'
  BY StepFacts DEF AroundStep, StepInv
<1>2. \A h \in hdrOnDisk : IsClean(h) => h.fsize \in Nat /\ Keeps(h, cells, commits.last)
  BY <1>1 DEF CommitKept, TypeInv, HeadersTyped, HeaderTyped, IsHeader, IsClean
<1>3. \A h \in hdrOnDisk' : IsClean(h) => h.fsize \in Nat /\ Keeps(h, cells', commits'.last)
  BY <1>1 DEF CommitKept, TypeInv, HeadersTyped, HeaderTyped, IsHeader, IsClean
<1>4. KeptContents = IF CleanThere THEN commits.last ELSE Unknown
  BY <1>2, KeptOf DEF KeptContents, CleanThere
<1>5. KeptContents' = IF CleanThere' THEN commits'.last ELSE Unknown
  BY <1>3, KeptOf DEF KeptContents, CleanThere
<1>6. Contained(index, cells) = stored
  BY <1>1, ReadsAll DEF TypeInv, HistoryTyped, ReadsStored
<1>7. Contained(index', cells') = stored'
  BY <1>1, ReadsAll DEF TypeInv, HistoryTyped, ReadsStored
<1> QED
  BY <1>4, <1>5, <1>6, <1>7

\* A step in the middle of a session that stores nothing and commits nothing: what
\* was kept is still kept, or is given up.
LEMMA InSession ==
    ASSUME AroundStep, phase # "closed", phase' # "closed", UNCHANGED <<stored, commits>>,
           CleanThere' => CleanThere
    PROVE  [Promised!Next]_PromisedVars
<1>1. /\ Contained(index, cells)' = Contained(index, cells)
      /\ KeptContents' \in {KeptContents, Unknown}
  BY AroundFacts
<1>2. CASE KeptContents' = KeptContents
  BY <1>1, <1>2 DEF PromisedVars
<1>3. CASE KeptContents' = Unknown
  BY <1>1, <1>3 DEF Promised!Next, Promised!Invalidate
<1> QED
  BY <1>1, <1>2, <1>3

\* The session ends: what was kept is still kept, or lost.
LEMMA LeavesSession ==
    ASSUME AroundStep, phase # "closed", Forget, UNCHANGED commits, CleanThere' => CleanThere
    PROVE  Promised!Next
<1>1. phase' = "closed" /\ stored' = Empty
  BY DEF Forget
<1>2. /\ Contained(index, cells)' = Empty
      /\ KeptContents' \in {KeptContents, Unknown}
  BY <1>1, AroundFacts
<1>3. Promised!Leave
  BY <1>1, <1>2 DEF Promised!Leave, Promised!Empty, Empty
<1> QED
  BY <1>3 DEF Promised!Next

\* A file is created: what was kept is lost.
LEMMA CreateFollows == ASSUME Marks, Create PROVE Promised!Next
<1>1. /\ phase = "closed" /\ phase' = "idle" /\ index' = << >>
      /\ header' = [dirty |-> TRUE, fsize |-> SectorSize, index |-> NoItem]
      /\ hdrOnDisk' = {NoHeader, header'}
  BY DEF Create
<1>2. \A h \in hdrOnDisk' : ~IsClean(h)
  BY <1>1 DEF IsClean
<1>3. KeptContents' = Unknown
  BY <1>2 DEF KeptContents
<1>4. Contained(index', cells') = [k \in Keys |-> Nothing]
  BY <1>1, ReadEmpty DEF Contained
<1>5. Promised!Create
  BY <1>1, <1>3, <1>4 DEF Promised!Create, Promised!Empty
<1> QED
  BY <1>5 DEF Promised!Next

\* A file is opened again: the session reads what was kept.
LEMMA OpenFollows ==
    ASSUME LostIsNoMap, ProtocolInv, lostSyncs = 0, Open PROVE Promised!Next
<1>1. /\ phase = "closed" /\ phase' = "idle" /\ Accepted(header, cells)
      /\ index' = Loaded(header) /\ UNCHANGED <<header, cells, hdrOnDisk>>
  BY DEF Open, disk
<1>2. hdrOnDisk = {header} /\ IsClean(header)
  BY <1>1 DEF ProtocolInv, ClosedSettled, Accepted, IsClean
<1>3. (CHOOSE h \in hdrOnDisk : IsClean(h)) = header
  BY <1>2
<1>4. KeptContents = Contained(Loaded(header), cells)
  BY <1>2, <1>3 DEF KeptContents
<1>5. KeptContents' = KeptContents
  BY <1>1 DEF KeptContents
<1>6. KeptContents # Unknown
  BY <1>4, ContainedTyped DEF LostIsNoMap
<1>7. Contained(index', cells') = KeptContents
  BY <1>1, <1>4
<1>8. Promised!Open
  BY <1>1, <1>5, <1>6, <1>7 DEF Promised!Open
<1> QED
  BY <1>8 DEF Promised!Next

\* A block is stored: one key of the map is written.
LEMMA StoreFollows == ASSUME AroundStep, Store PROVE Promised!Next
<1>1. /\ phase = "storing" /\ phase' = "idle" /\ request.key \in Keys
      /\ stored' = [stored EXCEPT ![request.key] = request.content]
      /\ UNCHANGED <<hdrOnDisk, commits>>
  BY DEF Store
<1>2. request.content \in Contents
  BY <1>1 DEF AroundStep, StepInv, TypeInv, RequestTyped
<1>3. KeptContents' = KeptContents
  BY <1>1, AroundFacts DEF CleanThere
<1>4. Promised!Write(request.key, request.content)
  BY <1>1, <1>3, AroundFacts DEF Promised!Write
<1> QED
  BY <1>1, <1>2, <1>4 DEF Promised!Next

\* The clean header is written: what the session reads is kept from now on.
LEMMA WriteCleanFollows == ASSUME Marks, AroundStep, WriteClean PROVE Promised!Next
<1>1. /\ phase = "cleaning" /\ phase' = "closing" /\ stored' = stored
      /\ commits'.last = stored /\ hdrOnDisk' = hdrOnDisk \union {Flagged(FALSE)}
  BY DEF WriteClean, WriteHeader
<1>2. CleanThere'
  <2>1. IsClean(Flagged(FALSE))
    BY DEF Flagged, IsClean, Marks
  <2> QED
    BY <1>1, <2>1 DEF CleanThere
<1>3. KeptContents' = stored
  BY <1>1, <1>2, AroundFacts
<1>4. Promised!Commit
  BY <1>1, <1>3, AroundFacts DEF Promised!Commit
<1> QED
  BY <1>4 DEF Promised!Next

\* A step of a session that created its file, its reopening included, when nothing
\* fails.
FollowsWhen == (opens = 0 \/ opens' = 0) /\ lostSyncs' = 0 /\ failedWrites' = 0

LEMMA StepFollows ==
    ASSUME Marks, LostIsNoMap, FollowsWhen, [Next]_vars,
           TypeInv, BlocksInv, ReadInv, ProtocolInv, CommitInv, TypeInv', ReadInv', CommitInv'
    PROVE  [Promised!Next]_PromisedVars
<1>1. /\ lostSyncs' = 0 /\ failedWrites' = 0
      /\ lostSyncs \in Nat /\ failedWrites \in Nat /\ opens \in Nat
  BY CacheFileAssumption DEF FollowsWhen, TypeInv, HistoryTyped, BlocksInv
<1>2. CASE Create
  BY <1>2, CreateFollows
<1>3. CASE Open
  <2>1. lostSyncs = 0
    BY <1>1, <1>3 DEF Open, faults
  <2> QED
    BY <1>3, <2>1, OpenFollows
<1>4. CASE ~Create /\ ~Open
  <2>1. opens' = opens
    <3>1. ASSUME NEW k \in Keys, NEW c \in Contents, WriteSame(k, c) \/ Write(k, c)
          PROVE  opens' = opens
      BY <3>1, Zenon DEF WriteSame, Write, Begin
    <3>2. CASE SyncDirty \/ SyncData \/ SyncClean
      BY <3>2 DEF SyncDirty, SyncData, SyncClean
    <3>3. CASE Store \/ StoreFails \/ StoreIndex \/ StoreIndexFails
      BY <3>3, Zenon DEF Store, StoreFails, StoreIndex, StoreIndexFails
    <3>4. CASE FlushIndex \/ FlushUnchanged \/ WriteClean
      BY <3>4 DEF FlushIndex, FlushUnchanged, WriteClean, Begin
    <3>5. CASE Close \/ Crash
      BY <3>5 DEF Close, Crash
    <3>6. CASE UNCHANGED vars
      BY <3>6 DEF vars
    <3> QED
      BY <1>4, <3>1, <3>2, <3>3, <3>4, <3>5, <3>6 DEF Next
  <2>2. FirstSession'
    BY <1>1, <2>1 DEF FollowsWhen, FirstSession
  <2>3. FirstSession
    BY <1>4, <2>2, SessionBefore
  <2>4. StepInv /\ ReadsStored' /\ CommitKept'
    BY <2>2, <2>3 DEF StepInv, CommitInv, ReadInv, FileInv
  <2>5. AroundStep
    BY <2>4 DEF AroundStep
  <2> USE <2>4, <2>5, StepFacts
  <2>6. ASSUME NEW k \in Keys, NEW c \in Contents, WriteSame(k, c)
        PROVE  [Promised!Next]_PromisedVars
    <3>1. /\ phase = "idle" /\ phase' = phase
          /\ UNCHANGED <<index, cells, hdrOnDisk>>
      BY <2>6 DEF WriteSame, memory, disk
    <3> QED
      BY <3>1 DEF PromisedVars, KeptContents
  <2>7. ASSUME NEW r, Begin(r), phase = "idle" PROVE [Promised!Next]_PromisedVars
    <3>1. /\ phase' # "closed" /\ UNCHANGED <<stored, commits>>
          /\ hdrOnDisk' = hdrOnDisk \/ hdrOnDisk' = hdrOnDisk \union {Flagged(TRUE)}
      BY <2>7 DEF Begin, disk, WriteHeader
    <3>2. ~IsClean(Flagged(TRUE))
      BY DEF IsClean, Flagged
    <3>3. CleanThere' => CleanThere
      BY <3>1, <3>2 DEF CleanThere
    <3> QED
      BY <2>7, <3>1, <3>3, InSession
  <2>8. ASSUME NEW k \in Keys, NEW c \in Contents, Write(k, c)
        PROVE  [Promised!Next]_PromisedVars
    BY <2>7, <2>8 DEF Write
  <2>9. CASE SyncDirty \/ SyncData \/ SyncClean
    <3>1. /\ Sync /\ phase # "closed" /\ phase' # "closed" /\ UNCHANGED <<stored, commits>>
      BY <2>9 DEF SyncDirty, SyncData, SyncClean
    <3>2. CleanThere' => CleanThere
      BY <1>1, <3>1, SyncSame DEF CleanThere
    <3> QED
      BY <3>1, <3>2, InSession
  <2>10. CASE Store
    BY <2>10, StoreFollows
  <2>11. CASE StoreFails \/ StoreIndexFails
    BY <1>1, <2>11 DEF StoreFails, StoreIndexFails
  <2>12. CASE FlushIndex
    BY <2>7, <2>12 DEF FlushIndex
  <2>13. CASE FlushUnchanged
    BY <2>13, InSession DEF FlushUnchanged, disk, CleanThere
  <2>14. CASE StoreIndex
    <3>1. /\ phase = "storing" /\ phase' = "syncing" /\ dirty
          /\ UNCHANGED <<stored, commits>>
      BY <2>14 DEF StoreIndex, WritingDirty
    <3>2. \E p, t, m, n : IndexWrites(p, t, m, n)
      BY <2>14, StoreIndexIs DEF StepInv
    <3>3. hdrOnDisk' = hdrOnDisk
                          \union {[dirty |-> dirty, fsize |-> size', index |-> Top(index')]}
      BY <3>2 DEF IndexWrites, WriteHeader
    <3>4. CleanThere' => CleanThere
      BY <3>1, <3>3 DEF CleanThere, IsClean
    <3> QED
      BY <3>1, <3>4, InSession
  <2>15. CASE WriteClean
    BY <2>15, WriteCleanFollows
  <2>16. CASE Close
    <3>1. phase # "closed" /\ Forget /\ UNCHANGED commits
      BY <2>16 DEF Close
    <3>2. hdrOnDisk' = {header}
      BY <1>1, <2>16, SyncSame DEF Close, Synced
    <3>3. CleanThere' => CleanThere
      BY <3>2 DEF CleanThere
    <3> QED
      BY <3>1, <3>3, LeavesSession
  <2>17. CASE Crash
    <3>1. phase # "closed" /\ Forget /\ UNCHANGED commits
          /\ \E h \in hdrOnDisk : hdrOnDisk' = {h}
      BY <2>17 DEF Crash, Synced
    <3>2. CleanThere' => CleanThere
      BY <3>1 DEF CleanThere
    <3> QED
      BY <3>1, <3>2, LeavesSession
  <2>18. CASE UNCHANGED vars
    <3>1. UNCHANGED <<phase, index, cells, hdrOnDisk>>
      BY <2>18 DEF vars, memory, disk
    <3> QED
      BY <3>1 DEF PromisedVars, KeptContents
  <2> QED
    BY <1>4, <2>6, <2>8, <2>9, <2>10, <2>11, <2>12, <2>13, <2>14, <2>15, <2>16, <2>17, <2>18
       DEF Next
<1> QED
  BY <1>2, <1>3, <1>4

\* Every step of a session that created its file, and the reopening of that file, is a
\* step of the map of BlockStore or leaves it as it is: a write changes one key, and what
\* the next session would find is what is read when the clean header is written, or lost,
\* never something else (create, open, write, flush, setDirtyFlag, ~CacheFile).
THEOREM StepsFollowBlockStore ==
    ASSUME Marks, LostIsNoMap
    PROVE  Spec => [][FollowsWhen => [Promised!Next]_PromisedVars]_vars
<1>1. FileHolds /\ FileHolds' /\ [Next]_vars
        => [FollowsWhen => [Promised!Next]_PromisedVars]_vars
  BY StepFollows DEF FileHolds
<1> QED
  BY <1>1, FileAlwaysHolds, PTL DEF Spec

\* So sessions that create their file, over and over, however they end, implement
\* BlockStore, as long as no sync and no write fails.
THEOREM SessionsImplementBlockStore ==
    ASSUME Marks, LostIsNoMap
    PROVE  Spec /\ []FirstSession => ImplementsBlockStore
<1>1. Init => Promised!Init
  <2> SUFFICES ASSUME Init PROVE Promised!Init
    OBVIOUS
  <2>1. phase = "closed" /\ index = << >> /\ hdrOnDisk = {NoHeader}
    BY DEF Init
  <2>2. KeptContents = Unknown
    BY <2>1 DEF KeptContents, IsClean
  <2>3. Contained(index, cells) = [k \in Keys |-> Nothing]
    BY <2>1, ReadEmpty DEF Contained
  <2> QED
    BY <2>1, <2>2, <2>3 DEF Promised!Init, Promised!Empty
<1>2. FileHolds /\ FileHolds' /\ FirstSession /\ FirstSession' /\ [Next]_vars
        => [Promised!Next]_<<phase # "closed", Contained(index, cells), KeptContents>>
  BY StepFollows DEF FileHolds, FollowsWhen, FirstSession, PromisedVars
<1> QED
  BY <1>1, <1>2, FileAlwaysHolds, PTL DEF Spec, Promised!Spec, ImplementsBlockStore

=============================================================================
