------------------------------ MODULE CacheFile ------------------------------
(***************************************************************************)
(* The document cache file: class CacheFile of                             *)
(* crengine/src/lvtinydom/cachefile.cpp.                                   *)
(*                                                                         *)
(* A cache file is a header sector followed by blocks.  Each block has an  *)
(* item in the in-memory index; the index itself is written to the file as *)
(* one more block, and the header names that block.  A dirty flag in the   *)
(* header is raised before the first block is written and lowered after    *)
(* everything has been flushed, so that a file left by a crash is rejected *)
(* by the next open.                                                       *)
(*                                                                         *)
(* Abstractions.  A block's bytes are cells: cell number `at` of the       *)
(* content `of`.  Checksums are perfect, so the hash of a content is the   *)
(* content.  The compressor is left out: Size gives the number of cells a  *)
(* content takes in the file.  _map and _freeIndex are the items with a    *)
(* given key and the items with key FREE; the source keeps them in step    *)
(* with the items' type fields at every assignment.                        *)
(*                                                                         *)
(* Between two Flush(true) the bytes written may reach the disk in any     *)
(* order or not at all: if the machine stops, a cell holds what `cells` or *)
(* what `synced` says, whatever its neighbours hold, and the header is one *)
(* of hdrOnDisk.  (A cell written twice between two syncs keeps its first  *)
(* or its last value: the values in between are left out.)                 *)
(***************************************************************************)
EXTENDS Integers, Sequences, FiniteSets

CONSTANTS
    Keys,        \* the (block type, block index) pairs of the clients
    Contents,    \* what a client may store in a block
    Size,        \* the number of cells each content takes
    FREE,        \* key of an unused block: CBT_FREE, index 0
    INDEX,       \* key of the block index: CBT_INDEX, index 0
    NoHash,      \* the hash of an item never written
    Hole,        \* a cell never written
    Pad,         \* a cell of 0xFF padding
    NoItem,      \* the header's index block before the first index write
    NoHeader,    \* the first sector before the header is written
    Nothing,     \* the content of a key that has no block
    Unknown,     \* the content of a key whose last write failed
    SectorSize,  \* _sectorSize, in cells
    ItemSize,    \* sizeof(CacheFileItem), in cells
    IndexSlack,  \* the spare items of a new index block (100 in the source)
    Validate,    \* _enableCacheFileContentsValidation
    FileLimit,   \* bound: cells of the file
    MaxItems,    \* bound: items of the index
    MaxOpens,    \* bound: times a file is opened again
    MaxLostSyncs,   \* bound: calls of Flush(true) that lose writes
    MaxFailedWrites \* bound: calls of Write that come up short

ASSUME CacheFileAssumption ==
    /\ SectorSize \in Nat \ {0}
    /\ ItemSize \in Nat \ {0}
    /\ IndexSlack \in Nat
    /\ FileLimit \in Nat /\ FileLimit >= SectorSize
    /\ MaxItems \in Nat /\ MaxOpens \in Nat
    /\ MaxLostSyncs \in Nat /\ MaxFailedWrites \in Nat
    /\ Validate \in BOOLEAN
    /\ Size \in [Contents -> Nat \ {0}]
    /\ FREE \notin Keys /\ INDEX \notin Keys /\ FREE # INDEX
    /\ NoHash \notin Contents /\ Nothing \notin Contents
    /\ Unknown \notin Contents /\ Unknown # Nothing

VARIABLES
    phase,        \* where the running operation stands
    request,      \* the key and content of the block being written
    index,        \* _index: the items, in creation order
    size,         \* _size: where the next new block goes
    indexChanged, \* _indexChanged
    dirty,        \* _dirty
    header,       \* the header as the process reads it
    cells,        \* the cells as the process reads them
    hdrOnDisk,    \* the headers a crash may leave
    synced,       \* the cells as the last Flush(true) left them on the disk
    stored,       \* history: what the clients stored, by key
    commits,      \* history: what was stored at the last two completed flushes
    opens,        \* history: times the file was opened since it was created
    lostSyncs,    \* history: number of syncs that lost writes
    failedWrites  \* history: number of writes that came up short

memory == <<index, size, indexChanged, dirty>>
disk == <<header, cells, hdrOnDisk, synced>>
faults == <<lostSyncs, failedWrites>>
vars == <<phase, request, memory, disk, stored, commits, opens, faults>>

Phases == {"closed", "idle", "dirtying", "storing",
           "syncing", "cleaning", "closing"}
Cells == SectorSize .. FileLimit - 1
NoRequest == [key |-> FREE, content |-> Nothing]

-----------------------------------------------------------------------------
(* Items, sizes and searches *)

Item(k, p, b, d, h) == [key |-> k, pos |-> p, bsize |-> b, dsize |-> d, hash |-> h]
Cell(c, i) == [of |-> c, at |-> i]

\* roundSector
RoundSector(n) == ((n + SectorSize - 1) \div SectorSize) * SectorSize

\* The size of the stream: just past the last cell ever written.
StreamSize(f) ==
    CHOOSE n \in SectorSize .. FileLimit :
        /\ \A u \in Cells : u >= n => f[u] = Hole
        /\ n > SectorSize => f[n - 1] # Hole

\* findBlock: the items of a key; at most one for every key but FREE.
Find(items, k) == {i \in DOMAIN items : items[i].key = k}

\* freeBlock.  The hash of a freed data block stays in its item.
Freed(items, i) ==
    [items EXCEPT ![i] = Item(FREE, @.pos, @.bsize, 0,
                              IF @.key = INDEX THEN NoHash ELSE @.hash)]

\* The smallest free blocks of at least n cells.
BestFit(items, n) ==
    LET fitting == {i \in Find(items, FREE) : items[i].bsize >= n}
    IN {i \in fitting : \A j \in fitting : items[i].bsize <= items[j].bsize}

\* Mutant: the end of the file is not advanced past a new block.
AllocationsNoAdvance(items, end, k, n) ==
    {[items |-> Append(items, Item(k, end, RoundSector(n), n, NoHash)),
      at |-> Len(items) + 1, end |-> end, moved |-> TRUE]}

\* allocBlock for a key without a block: the smallest free block that fits
\* (the source takes the first of equals), else a new one at the end.
Allocations(items, end, k, n) ==
    IF BestFit(items, n) # {}
    THEN {[items |-> [items EXCEPT ![i] = [@ EXCEPT !.key = k, !.dsize = n]],
           at |-> i, end |-> end, moved |-> TRUE] : i \in BestFit(items, n)}
    ELSE {[items |-> Append(items, Item(k, end, RoundSector(n), n, NoHash)),
           at |-> Len(items) + 1, end |-> end + RoundSector(n), moved |-> TRUE]}

\* Mutant: a block one cell too short is reused.
TargetsOffByOne(items, end, k, n) ==
    LET old == Find(items, k)
    IN IF old = {} THEN Allocations(items, end, k, n)
       ELSE LET i == CHOOSE j \in old : TRUE
            IN IF items[i].bsize + 1 >= n
               THEN {[items |-> [items EXCEPT ![i].dsize = n],
                      at |-> i, end |-> end, moved |-> FALSE]}
               ELSE Allocations(Freed(items, i), end, k, n)

\* Mutant: a block that has become too short is not freed.
TargetsNotFreed(items, end, k, n) ==
    LET old == Find(items, k)
    IN IF old = {} THEN Allocations(items, end, k, n)
       ELSE LET i == CHOOSE j \in old : TRUE
            IN IF items[i].dsize >= n
               THEN {[items |-> [items EXCEPT ![i].dsize = n],
                      at |-> i, end |-> end, moved |-> FALSE]}
               ELSE Allocations(items, end, k, n)

\* write: the block that receives n cells for key k.  A block is reused when
\* its last data was at least as long; else it is freed and another allocated.
Targets(items, end, k, n) ==
    LET old == Find(items, k)
    IN IF old = {} THEN Allocations(items, end, k, n)
       ELSE LET i == CHOOSE j \in old : TRUE
            IN IF items[i].dsize >= n
               THEN {[items |-> [items EXCEPT ![i].dsize = n],
                      at |-> i, end |-> end, moved |-> FALSE]}
               ELSE Allocations(Freed(items, i), end, k, n)

Fits(t) == t.end <= FileLimit /\ Len(t.items) <= MaxItems

\* writeIndex: the block of the index is allocated, with room to spare,
\* before the items are copied.
Prepared ==
    IF Find(index, INDEX) # {}
    THEN {[items |-> index, at |-> 0, end |-> size, moved |-> FALSE]}
    ELSE Allocations(index, size, INDEX, ItemSize * (Len(index) * 2 + IndexSlack))

\* The copy of the items that goes to the file.
Snapshot(items) ==
    [i \in DOMAIN items |->
        IF items[i].key = INDEX
        THEN [items[i] EXCEPT !.dsize = 0, !.hash = NoHash] ELSE items[i]]

IndexTargets(p) == Targets(p.items, p.end, INDEX, Len(p.items) * ItemSize)

\* The whole flush stays within the bounds.
IndexFits == \A p \in Prepared : \A t \in IndexTargets(p) : Fits(t)

-----------------------------------------------------------------------------
(* The stream *)

\* Mutant: the padding starts on the last cell of the data.
WrittenPadEarly(f, it, c, n) ==
    LET end == it.pos + n - 1
        atEnd == end + 1 >= StreamSize(f) - SectorSize
    IN [u \in Cells |->
          IF it.pos <= u /\ u < end THEN Cell(c, u - it.pos)
          ELSE IF atEnd /\ end <= u /\ u < it.pos + it.bsize THEN Pad
          ELSE f[u]]

\* Write n cells of content c into block it, then pad the block if it ends
\* within a sector of the end of the stream.
Written(f, it, c, n) ==
    LET end == it.pos + n
        atEnd == end >= StreamSize(f) - SectorSize
    IN [u \in Cells |->
          IF it.pos <= u /\ u < end THEN Cell(c, u - it.pos)
          ELSE IF atEnd /\ end <= u /\ u < it.pos + it.bsize THEN Pad
          ELSE f[u]]

\* The stream takes only the first n cells of content c.
WrittenInPart(f, it, c, n) ==
    [u \in Cells |->
        IF it.pos <= u /\ u < it.pos + n THEN Cell(c, u - it.pos) ELSE f[u]]

\* Mutant: the header is filled in and not written.
WriteHeaderNot(h) == header' = h /\ hdrOnDisk' = hdrOnDisk

WriteHeader(h) ==
    /\ header' = h
    /\ hdrOnDisk' = hdrOnDisk \union {h}

\* The header after only its first fields are rewritten (SimpleCacheFileHeader).
Flagged(d) ==
    IF header = NoHeader THEN [dirty |-> d, fsize |-> 0, index |-> NoItem]
    ELSE [dirty |-> d, fsize |-> header.fsize, index |-> header.index]

\* Everything written so far is on the disk.
Synced(h, f) ==
    /\ header' = h /\ hdrOnDisk' = {h}
    /\ cells' = f /\ synced' = f

\* The cells of which any may be lost.
Unsynced == {u \in Cells : synced[u] # cells[u]}

Without(lost) == [u \in Cells |-> IF u \in lost THEN synced[u] ELSE cells[u]]

IsClean(h) == h # NoHeader /\ ~h.dirty

\* The cells a crash may leave with header h, up to what no later step tells
\* apart: a dirty header is rejected whatever follows it, and under a header
\* that names no index only the size of the stream matters.
CrashCells(h) ==
    IF ~IsClean(h) THEN {[u \in Cells |-> Hole]}
    ELSE IF h.index = NoItem
         THEN {[u \in Cells |-> IF u < n THEN cells[u] ELSE Hole] :
                  n \in StreamSize(synced) .. StreamSize(cells)}
         ELSE {Without(lost) : lost \in SUBSET Unsynced}

\* Flush(true); its result is never looked at, so it may also lose writes.
Sync ==
    \/ Synced(header, cells) /\ UNCHANGED faults
    \/ /\ lostSyncs < MaxLostSyncs
       /\ \E h \in hdrOnDisk, lost \in SUBSET Unsynced : Synced(h, Without(lost))
       /\ lostSyncs' = lostSyncs + 1
       /\ UNCHANGED failedWrites

-----------------------------------------------------------------------------
(* Reading *)

\* The cells of item it, in f, have the checksum of a content of n cells.
HashMatches(f, it, n) ==
    /\ it.dsize = n
    /\ \A i \in 0 .. n - 1 : it.pos + i \in Cells /\ f[it.pos + i] = Cell(it.hash, i)

DataMatches(f, it) == it.hash \in Contents /\ HashMatches(f, it, Size[it.hash])

\* read: the content of key k, or Unknown when its checksum is wrong.
ReadBlock(items, f, k) ==
    IF Find(items, k) = {} THEN Nothing
    ELSE LET it == items[CHOOSE i \in Find(items, k) : TRUE]
         IN IF DataMatches(f, it) THEN it.hash ELSE Unknown

\* CacheFileItem::validate
ItemValid(it, end) ==
    it.dsize <= it.bsize /\ it.pos + it.dsize <= end /\ it.pos >= SectorSize

\* The items readIndex builds: the record of the index block comes from the
\* header, every other record from the copy in the file.
Loaded(h) ==
    IF h.index = NoItem THEN << >>
    ELSE [i \in DOMAIN h.index.hash |->
            IF h.index.hash[i].key = INDEX THEN h.index ELSE h.index.hash[i]]

\* Mutant: the contents are not validated.
AcceptedUnvalidated(h, f) ==
    /\ h # NoHeader
    /\ ~h.dirty
    /\ h.index # NoItem =>
        /\ h.index.pos < h.fsize
        /\ h.index.pos + h.index.bsize <= h.fsize + 4 * SectorSize - 1
        /\ HashMatches(f, h.index, Len(h.index.hash) * ItemSize)
        /\ \A i \in DOMAIN Loaded(h) : ItemValid(Loaded(h)[i], StreamSize(f))

\* readIndex and validateContents accept header h over the cells f.
Accepted(h, f) ==
    /\ h # NoHeader
    /\ ~h.dirty
    /\ h.fsize <= StreamSize(f) + 4 * SectorSize - 1
    /\ h.index # NoItem =>
        /\ h.index.pos < h.fsize
        /\ h.index.pos + h.index.bsize <= h.fsize + 4 * SectorSize - 1
        /\ HashMatches(f, h.index, Len(h.index.hash) * ItemSize)
        /\ \A i \in DOMAIN Loaded(h) : ItemValid(Loaded(h)[i], StreamSize(f))
        /\ Find(Loaded(h), INDEX) # {}
        /\ Validate => \A i \in DOMAIN Loaded(h) :
                          Loaded(h)[i].key \in Keys => DataMatches(f, Loaded(h)[i])

Contained(items, f) == [k \in Keys |-> ReadBlock(items, f, k)]

-----------------------------------------------------------------------------
(* Operations *)

Empty == [k \in Keys |-> Nothing]
NoCommits == [last |-> Empty, before |-> Empty]

\* A new CacheFile and create(): sector 0 is written with a dirty header.
\* The file of that name was deleted before.
Create ==
    /\ phase = "closed"
    /\ opens' = 0
    /\ phase' = "idle"
    /\ index' = << >> /\ size' = SectorSize
    /\ indexChanged' = FALSE /\ dirty' = TRUE
    /\ header' = [dirty |-> TRUE, fsize |-> SectorSize, index |-> NoItem]
    /\ hdrOnDisk' = {NoHeader, header'}
    /\ cells' = [u \in Cells |-> Hole]
    /\ synced' = cells'
    /\ stored' = Empty
    /\ commits' = NoCommits
    /\ UNCHANGED <<request, faults>>

\* A new CacheFile and open().  An empty index is accepted before the dirty
\* flag is taken from the header, so _dirty keeps its initial TRUE.
Open ==
    /\ phase = "closed"
    /\ Accepted(header, cells)
    /\ opens < MaxOpens /\ opens' = opens + 1
    /\ phase' = "idle"
    /\ index' = Loaded(header)
    /\ size' = StreamSize(cells)
    /\ indexChanged' = FALSE
    /\ dirty' = (header.index = NoItem)
    /\ stored' = Contained(Loaded(header), cells)
    /\ UNCHANGED <<request, disk, commits, faults>>

\* write() of what the block already holds, by size and checksum.
WriteSame(k, c) ==
    /\ phase = "idle"
    /\ \E i \in Find(index, k) : index[i].hash = c /\ index[i].dsize = Size[c]
    /\ stored' = [stored EXCEPT ![k] = c]
    /\ UNCHANGED <<phase, request, memory, disk, commits, opens, faults>>

\* Mutant: the dirty flag is not raised on the disk.
BeginUnflagged(r) ==
    /\ request' = r
    /\ phase' = "storing" /\ dirty' = TRUE
    /\ UNCHANGED <<index, size, indexChanged, disk, stored, commits, opens, faults>>

\* setDirtyFlag(true), up to its Flush; then the block is stored.
Begin(r) ==
    /\ request' = r
    /\ IF dirty
       THEN phase' = "storing" /\ UNCHANGED <<memory, disk>>
       ELSE /\ phase' = "dirtying"
            /\ dirty' = TRUE
            /\ WriteHeader(Flagged(TRUE))
            /\ UNCHANGED <<index, size, indexChanged, cells, synced>>
    /\ UNCHANGED <<stored, commits, opens, faults>>

\* write() of something else.
Write(k, c) ==
    /\ phase = "idle"
    /\ ~\E i \in Find(index, k) : index[i].hash = c /\ index[i].dsize = Size[c]
    /\ \A t \in Targets(index, size, k, Size[c]) : Fits(t)
    /\ Begin([key |-> k, content |-> c])

\* The Flush(true) of setDirtyFlag(true).
SyncDirty ==
    /\ phase = "dirtying"
    /\ Sync
    /\ phase' = "storing"
    /\ UNCHANGED <<request, memory, stored, commits, opens>>

\* The rest of write(): the block is chosen, written and padded.
Store ==
    /\ phase = "storing" /\ request.key \in Keys
    /\ LET k == request.key
           c == request.content
       IN \E t \in Targets(index, size, k, Size[c]) :
            /\ index' = [t.items EXCEPT ![t.at].hash = c]
            /\ size' = t.end
            /\ cells' = Written(cells, t.items[t.at], c, Size[c])
            /\ stored' = [stored EXCEPT ![k] = c]
    /\ indexChanged' = TRUE
    /\ phase' = "idle"
    /\ request' = NoRequest
    /\ UNCHANGED <<dirty, header, hdrOnDisk, synced, commits, opens, faults>>

\* The rest of write() when the stream takes only the first n cells: false
\* is returned and the item keeps the hash it had.
StoreFails ==
    /\ phase = "storing" /\ request.key \in Keys
    /\ failedWrites < MaxFailedWrites
    /\ LET k == request.key
           c == request.content
       IN \E t \in Targets(index, size, k, Size[c]), n \in 0 .. Size[c] - 1 :
            /\ index' = t.items
            /\ size' = t.end
            /\ indexChanged' = (indexChanged \/ t.moved)
            /\ cells' = WrittenInPart(cells, t.items[t.at], c, n)
            /\ stored' = [stored EXCEPT ![k] = Unknown]
    /\ phase' = "idle"
    /\ request' = NoRequest
    /\ failedWrites' = failedWrites + 1
    /\ UNCHANGED <<dirty, header, hdrOnDisk, synced, commits, opens, lostSyncs>>

\* flush(true) with a changed index, up to the write() of the index block.
FlushIndex ==
    /\ phase = "idle" /\ indexChanged
    /\ IndexFits
    /\ Begin([key |-> INDEX, content |-> Nothing])

\* writeIndex(): the copy of the items is taken, then written (which may move
\* the index block), then the header is pointed to it.
StoreIndex ==
    /\ phase = "storing" /\ request.key = INDEX
    /\ \E p \in Prepared : \E t \in IndexTargets(p) :
        LET s == Snapshot(p.items)
            n == Len(s) * ItemSize
            old == p.items[CHOOSE i \in Find(p.items, INDEX) : TRUE]
            same == old.hash = s /\ old.dsize = n
            items == IF same THEN p.items ELSE [t.items EXCEPT ![t.at].hash = s]
        IN /\ index' = items
           /\ size' = IF same THEN p.end ELSE t.end
           /\ cells' = IF same THEN cells ELSE Written(cells, t.items[t.at], s, n)
           /\ WriteHeader([dirty |-> dirty, fsize |-> size',
                           index |-> items[CHOOSE i \in Find(items, INDEX) : TRUE]])
    /\ indexChanged' = FALSE
    /\ phase' = "syncing"
    /\ request' = NoRequest
    /\ UNCHANGED <<dirty, synced, stored, commits, opens, faults>>

\* writeIndex() when the stream takes only the first n cells of the index: the
\* header is not pointed to it, and flush(true) ends here.
StoreIndexFails ==
    /\ phase = "storing" /\ request.key = INDEX
    /\ failedWrites < MaxFailedWrites
    /\ \E p \in Prepared : \E t \in IndexTargets(p) :
        LET s == Snapshot(p.items)
            old == p.items[CHOOSE i \in Find(p.items, INDEX) : TRUE]
        IN /\ ~(old.hash = s /\ old.dsize = Len(s) * ItemSize)
           /\ index' = t.items
           /\ size' = t.end
           /\ \E n \in 0 .. Len(s) * ItemSize - 1 :
                cells' = WrittenInPart(cells, t.items[t.at], s, n)
    /\ phase' = "idle"
    /\ request' = NoRequest
    /\ failedWrites' = failedWrites + 1
    /\ UNCHANGED <<indexChanged, dirty, header, hdrOnDisk, synced, stored, commits, opens, lostSyncs>>

\* flush(true) with an unchanged index goes straight to setDirtyFlag(false),
\* which does nothing when the flag is down.
FlushUnchanged ==
    /\ phase = "idle" /\ ~indexChanged /\ dirty
    /\ phase' = "syncing"
    /\ UNCHANGED <<request, memory, disk, stored, commits, opens, faults>>

\* Mutant: the data is not flushed before the flag is lowered.
SyncDataNot ==
    /\ phase = "syncing"
    /\ phase' = "cleaning"
    /\ UNCHANGED <<request, memory, disk, stored, commits, opens, faults>>

\* setDirtyFlag(false), its first Flush(true).
SyncData ==
    /\ phase = "syncing"
    /\ Sync
    /\ phase' = "cleaning"
    /\ UNCHANGED <<request, memory, stored, commits, opens>>

\* setDirtyFlag(false), the header: only its first fields are rewritten.
WriteClean ==
    /\ phase = "cleaning"
    /\ dirty' = FALSE
    /\ WriteHeader(Flagged(FALSE))
    /\ commits' = [last |-> stored, before |-> commits.last]
    /\ phase' = "closing"
    /\ UNCHANGED <<request, index, size, indexChanged, cells, synced, stored, opens, faults>>

\* setDirtyFlag(false), its second Flush(true).
SyncClean ==
    /\ phase = "closing"
    /\ Sync
    /\ phase' = "idle"
    /\ UNCHANGED <<request, memory, stored, commits, opens>>

Forget ==
    /\ phase' = "closed"
    /\ request' = NoRequest
    /\ index' = << >> /\ size' = SectorSize
    /\ indexChanged' = FALSE /\ dirty' = TRUE
    /\ stored' = Empty

\* ~CacheFile: the index is not written; the stream flushes what it holds.
Close ==
    /\ phase = "idle"
    /\ Forget
    /\ IF IsClean(header) THEN Sync
       ELSE Synced(header, [u \in Cells |-> Hole]) /\ UNCHANGED faults
    /\ UNCHANGED <<commits, opens>>

\* The machine stops at any point.
Crash ==
    /\ phase # "closed"
    /\ Forget
    /\ \E h \in hdrOnDisk : \E f \in CrashCells(h) : Synced(h, f)
    /\ UNCHANGED <<commits, opens, faults>>

Init ==
    /\ phase = "closed"
    /\ request = NoRequest
    /\ index = << >> /\ size = SectorSize
    /\ indexChanged = FALSE /\ dirty = TRUE
    /\ header = NoHeader /\ hdrOnDisk = {NoHeader}
    /\ cells = [u \in Cells |-> Hole]
    /\ synced = cells
    /\ stored = Empty
    /\ commits = NoCommits
    /\ opens = 0
    /\ lostSyncs = 0 /\ failedWrites = 0

Next ==
    \/ Create
    \/ Open
    \/ \E k \in Keys, c \in Contents : WriteSame(k, c) \/ Write(k, c)
    \/ SyncDirty
    \/ Store
    \/ StoreFails
    \/ FlushIndex
    \/ FlushUnchanged
    \/ StoreIndex
    \/ StoreIndexFails
    \/ SyncData
    \/ WriteClean
    \/ SyncClean
    \/ Close
    \/ Crash

Spec == Init /\ [][Next]_vars

-----------------------------------------------------------------------------
(* Properties *)

BlockKeys == Keys \union {FREE, INDEX}

IsItem(it) ==
    it \in [key : BlockKeys, pos : Nat, bsize : Nat, dsize : Nat, hash : {it.hash}]

IsIndex(items) ==
    /\ items \in Seq({items[i] : i \in DOMAIN items})
    /\ \A i \in DOMAIN items : IsItem(items[i])

IsHeader(h) ==
    h # NoHeader =>
        /\ h.dirty \in BOOLEAN
        /\ h.fsize \in Nat
        /\ h.index # NoItem =>
            IsItem(h.index) /\ h.index.key = INDEX /\ IsIndex(h.index.hash)

\* The type invariant: the shape of the index, of the headers and of the
\* histories, and the header the process reads is one the disk may hold.
TypeOK ==
    /\ phase \in Phases
    /\ request \in [key : BlockKeys, content : Contents \union {Nothing}]
    /\ request.key \in Keys => request.content \in Contents
    /\ IsIndex(index)
    /\ size \in Nat
    /\ indexChanged \in BOOLEAN /\ dirty \in BOOLEAN
    /\ header \in hdrOnDisk /\ \A h \in hdrOnDisk : IsHeader(h)
    /\ DOMAIN cells = Cells /\ DOMAIN synced = Cells
    /\ stored \in [Keys -> Contents \union {Nothing, Unknown}]
    /\ lostSyncs \in 0 .. MaxLostSyncs /\ failedWrites \in 0 .. MaxFailedWrites

\* A block key names one item, in the index and in every copy of it that a
\* header names: _map, which holds one item a key, never loses a block.
KeysUnique(items) ==
    \A i, j \in DOMAIN items :
        items[i].key = items[j].key /\ items[i].key # FREE => i = j

OneBlockPerKey ==
    /\ KeysUnique(index)
    /\ \A h \in hdrOnDisk :
          h # NoHeader /\ h.index # NoItem => KeysUnique(h.index.hash)

\* A free block is free and a used one is used once: no two items of the index
\* share a cell, whichever blocks were freed, reused, moved or reloaded.
BlocksDisjoint ==
    \A i, j \in DOMAIN index :
        i < j => \/ index[i].pos + index[i].bsize <= index[j].pos
                 \/ index[j].pos + index[j].bsize <= index[i].pos

\* Reading a block gives what was last written to it: no write, no move of the
\* index block and no reload of the index damages another block.
ReadBack ==
    lostSyncs = 0 =>
        \A k \in Keys : stored[k] # Unknown => ReadBlock(index, cells, k) = stored[k]

\* The dirty flag protocol: a header that says clean, and names an index, can be
\* on the disk only when every cell written before it is on the disk too.
CleanMeansSynced ==
    lostSyncs = 0 =>
        ((\E h \in hdrOnDisk : IsClean(h) /\ h.index # NoItem) => synced = cells)

\* A crash leaves a file that open() rejects as dirty, or accepts; then it holds
\* exactly what the last completed flush(true) stored, whatever was written since.
CrashLeavesLastCommit ==
    lostSyncs = 0 /\ failedWrites = 0 =>
        \A h \in hdrOnDisk : IsClean(h) =>
            \A f \in CrashCells(h) :
                Accepted(h, f) /\ Contained(Loaded(h), f) = commits.last

\* When a Flush(true) has lost writes unnoticed, or a write came up short, the
\* checksums still keep a mixture out: an accepted file, if its contents were
\* validated, is the whole of the last commit or of the one before.
AcceptedIsACommit ==
    Validate =>
        \A h \in hdrOnDisk : IsClean(h) =>
            \A f \in CrashCells(h) :
                Accepted(h, f) =>
                    \E c \in {commits.last, commits.before} : \A k \in Keys :
                        c[k] \in {Unknown, Contained(Loaded(h), f)[k]}

\* The header on the disk, if the disk can hold a clean one.
KeptContents ==
    IF \E h \in hdrOnDisk : IsClean(h)
    THEN Contained(Loaded(CHOOSE h \in hdrOnDisk : IsClean(h)), cells)
    ELSE Unknown

Promised == INSTANCE BlockStore WITH
    Lost <- Unknown,
    open <- (phase # "closed"),
    store <- Contained(index, cells),
    kept <- KeptContents

\* Every step of the cache file, from the header writes to a crash, is a step of
\* a map that is kept whole or lost: the file implements BlockStore.
ImplementsBlockStore == Promised!Spec

=============================================================================
