-------------------------- MODULE BlockWriteStream --------------------------
(***************************************************************************)
(* The write cache under every cache file: class LVBlockWriteStream of     *)
(* crengine/src/lvstream/lvblockwritestream.cpp, over the plain file       *)
(* stream of lvfilestream.cpp.                                             *)
(*                                                                         *)
(* The file is cached in aligned blocks, the most recently used first.  A  *)
(* block knows the range it has modified, which is written to the file     *)
(* when the block is dropped or flushed.                                   *)
(*                                                                         *)
(* Its one client is the cache file (cachefile.cpp), and what is written   *)
(* here is what that asks for, call by call: a sector of zero bytes, the   *)
(* header, the data of a block, and, by a call of its own, the padding     *)
(* after the data.  It seeks before each of them but the last.             *)
(***************************************************************************)
EXTENDS Integers, Sequences

CONSTANTS
    Zero,       \* the byte of a fresh buffer and of a gap in the file
    Pad,        \* the byte of the padding
    Bytes,      \* the bytes written
    Beyond,     \* what there is past the end of the file
    BlockSize,  \* _blockSize
    BlockCount, \* _blockCount
    SectorSize, \* CacheFile::_sectorSize
    Headers,    \* the headers of the cache file
    Requests,   \* the blocks of the cache file: where, which bytes, how much room
    Reads,      \* the reads: where, and how many bytes
    Limit,      \* bound: bytes of the file
    MaxCount    \* bound: _count when a write starts

\* The sectors divide the blocks of this cache, and are of three bytes at least (they
\* are of 1024, the blocks of 16384).  A block of the cache file is of whole sectors.
ASSUME BlockWriteStreamAssumption ==
    /\ BlockCount \in Nat \ {0} /\ Limit \in Nat /\ MaxCount \in Nat
    /\ SectorSize \in Nat /\ SectorSize >= 3
    /\ BlockSize \in Nat \ {0} /\ BlockSize % SectorSize = 0
    /\ Zero \in Bytes /\ Pad \in Bytes \ {Zero} /\ Beyond \notin Bytes
    /\ Headers \subseteq Seq(Bytes) /\ \A h \in Headers : Len(h) <= SectorSize
    /\ Requests \subseteq [pos : Nat, data : Seq(Bytes), room : Nat]
    /\ \A r \in Requests :
        /\ r.pos % SectorSize = 0 /\ r.room % SectorSize = 0
        /\ Len(r.data) \in 1 .. r.room
    /\ Reads \subseteq [pos : Nat, length : Nat]

VARIABLES
    base,   \* _baseStream: the bytes of the file, its m_size and its m_pos
    blocks, \* _firstBlock and its successors
    size,   \* _size
    count,  \* _count
    padding, \* paddingSize in CacheFile::write: how much is left, and where it goes
    content \* history: the cells as they were last written

vars == <<base, blocks, size, count, padding, content>>

Unset == -1
Lower(m, n) == IF m < n THEN m ELSE n
Upper(m, n) == IF m > n THEN m ELSE n

\* The state the operations pass along.
State == [base |-> base, blocks |-> blocks, size |-> size, count |-> count]

\* The position of the file below is forgotten where a seek comes next: before
\* everything but padding.
Becomes(st, due) ==
    /\ base' = IF due.left = 0 THEN [st.base EXCEPT !.pos = 0] ELSE st.base
    /\ blocks' = st.blocks /\ size' = st.size /\ count' = st.count
    /\ padding' = due

-----------------------------------------------------------------------------
(* The file below *)

\* LVFileStream::GetSize takes a position past the end for a longer file.
Stretched(f) == [f EXCEPT !.size = Upper(@, f.pos)]

\* The bytes of the file from p, n at most.
FileBytes(f, p, n) == SubSeq(f.data, p + 1, Lower(p + n, Len(f.data)))

\* Writing bytes at p; a gap is filled.
FileWritten(f, p, bytes) ==
    LET end == p + Len(bytes)
    IN [data |-> [i \in 1 .. Upper(Len(f.data), end) |->
                    IF p < i /\ i <= end THEN bytes[i - p]
                    ELSE IF i <= Len(f.data) THEN f.data[i] ELSE Zero],
        size |-> Upper(f.size, end),
        pos |-> end]

-----------------------------------------------------------------------------
(* Blocks *)

\* newBlock: a buffer for the block around p, taken to end with the data.
NewBlock(p, n) ==
    [start |-> (p \div BlockSize) * BlockSize, end |-> p + n,
     mstart |-> Unset, mend |-> Unset, buf |-> [i \in 1 .. BlockSize |-> Zero]]

Contains(b, p) == b.start <= p /\ p < b.start + BlockSize

\* Mutant: a byte further past the end is taken for unmodified.
ByteSavedLate(b, p, byte) ==
    IF ~(p > b.end + 1 \/ b.buf[p - b.start + 1] # byte) THEN b
    ELSE LET c == [b EXCEPT !.buf[p - b.start + 1] = byte]
         IN IF b.mstart = Unset
            THEN [c EXCEPT !.mstart = p, !.mend = p + 1]
            ELSE [c EXCEPT !.mstart = Lower(@, p), !.mend = Upper(@, p + 1),
                           !.end = Upper(@, p + 1)]

\* Block::save of one byte.
ByteSaved(b, p, byte) ==
    IF ~(p > b.end \/ b.buf[p - b.start + 1] # byte) THEN b
    ELSE LET c == [b EXCEPT !.buf[p - b.start + 1] = byte]
         IN IF b.mstart = Unset
            THEN [c EXCEPT !.mstart = p, !.mend = p + 1]
            ELSE [c EXCEPT !.mstart = Lower(@, p), !.mend = Upper(@, p + 1),
                           !.end = Upper(@, p + 1)]

\* Block::save
Saved(b, p, data) ==
    LET saved[i \in 0 .. Len(data)] ==
          IF i = 0 THEN b ELSE ByteSaved(saved[i - 1], p + i - 1, data[i])
    IN saved[Len(data)]

\* readBlock: the block takes what the file has of it.
BlockRead(f, b) ==
    LET g == Stretched(f)
        end == Lower(b.start + BlockSize, g.size)
        got == FileBytes(g, b.start, end - b.start)
    IN IF end <= b.start THEN [base |-> g, block |-> b]
       ELSE [base |-> [g EXCEPT !.pos = b.start + Len(got)],
             block |-> [b EXCEPT !.end = end,
                                 !.buf = [i \in 1 .. BlockSize |->
                                    IF i <= Len(got) THEN got[i] ELSE Zero]]]

\* Mutant: the last modified byte is not written.
BlockWrittenShort(st, b) ==
    IF ~(b.mstart < b.mend) THEN st
    ELSE [st EXCEPT !.base =
            FileWritten(@, b.mstart, SubSeq(b.buf, b.mstart - b.start + 1, b.mend - b.start - 1))]

\* writeBlock: the modified range goes to the file; it is forgotten even if the
\* file does not take it.
BlockWritten(st, b) ==
    IF ~(b.mstart < b.mend) THEN st
    ELSE LET end == IF b.mend > st.size THEN b.end ELSE b.mend
             bytes == SubSeq(b.buf, b.mstart - b.start + 1, end - b.start)
         IN [st EXCEPT !.base = FileWritten(@, b.mstart, bytes),
                       !.size = Upper(@, end)]

\* findBlock: the block around p is moved to the front.
Found(bs, p) == {i \in DOMAIN bs : Contains(bs[i], p)}

ToFront(bs, i) ==
    <<bs[i]>> \o SubSeq(bs, 1, i - 1) \o SubSeq(bs, i + 1, Len(bs))

\* Mutant: room is made one block too late.
DroppedLate(st) ==
    LET n == Len(st.blocks)
    IN IF st.count < BlockCount \/ n < 2 THEN st
       ELSE [BlockWritten(st, st.blocks[n]) EXCEPT
               !.blocks = SubSeq(@, 1, n - 1), !.count = @ - 1]

\* The least recently used block makes room, unless it is the only one.
Dropped(st) ==
    LET n == Len(st.blocks)
    IN IF st.count < BlockCount - 1 \/ n < 2 THEN st
       ELSE [BlockWritten(st, st.blocks[n]) EXCEPT
               !.blocks = SubSeq(@, 1, n - 1), !.count = @ - 1]

\* writeToCache
ToCache(st, p, data) ==
    LET n == Len(data)
        end == p + n
    IN IF Found(st.blocks, p) # {}
       THEN LET i == CHOOSE j \in Found(st.blocks, p) : TRUE
                b == Saved(st.blocks[i], p, data)
            IN [st EXCEPT !.blocks = ToFront([st.blocks EXCEPT ![i] = b], i),
                          !.size = Upper(@, end)]
       ELSE LET room == Dropped(st)
                read == BlockRead(room.base, NewBlock(p, n))
                b == Saved(read.block, p, data)
                new == IF end > room.size
                       THEN [b EXCEPT !.mstart = b.start, !.mend = b.end] ELSE b
            IN [base |-> read.base, blocks |-> <<new>> \o room.blocks,
                size |-> Upper(room.size, end), count |-> room.count + 1]

-----------------------------------------------------------------------------
(* Pieces: a read or write is cut where blocks end *)

PieceCount(p, n) ==
    IF n = 0 THEN 0 ELSE (p + n - 1) \div BlockSize - p \div BlockSize + 1

PieceFrom(p, k) == IF k = 1 THEN p ELSE (p \div BlockSize + k - 1) * BlockSize

PieceTo(p, n, k) == Lower(p + n, (p \div BlockSize + k) * BlockSize)

\* Write, its first m pieces.
Put(st, p, data, m) ==
    LET n == Len(data)
        put[k \in 0 .. m] ==
          IF k = 0 THEN st
          ELSE ToCache(put[k - 1], PieceFrom(p, k),
                       SubSeq(data, PieceFrom(p, k) - p + 1, PieceTo(p, n, k) - p))
    IN put[m]

PutAll(st, p, data) == Put(st, p, data, PieceCount(p, Len(data)))

\* Flush, its first m blocks; _count is not reset.
Flushed(st, m) ==
    LET flushed[i \in 0 .. m] ==
          IF i = 0 THEN st ELSE BlockWritten(flushed[i - 1], st.blocks[i])
    IN [flushed[m] EXCEPT !.blocks = SubSeq(@, m + 1, Len(@))]

FlushedAll(st) == Flushed(st, Len(st.blocks))

\* A piece of a Read: from its block, or from the file, which is flushed first
\* when it is too short.
Fetched(st, p, n) ==
    IF Found(st.blocks, p) # {}
    THEN LET i == CHOOSE j \in Found(st.blocks, p) : TRUE
             b == st.blocks[i]
         IN [st |-> [st EXCEPT !.blocks = ToFront(@, i)],
             data |-> SubSeq(b.buf, p - b.start + 1, p - b.start + n)]
    ELSE LET seen == [st EXCEPT !.base = Stretched(@)]
             up == IF p + n > seen.base.size /\ seen.base.size < seen.size
                   THEN FlushedAll(seen) ELSE seen
             got == FileBytes(up.base, p, n)
         IN [st |-> [up EXCEPT !.base.pos = p + Len(got)], data |-> got]

\* Read of n bytes; it stops at the end, and at a piece that comes up short.
Got(st, p, n) ==
    LET all == Lower(n, st.size - p)
        got[k \in 0 .. PieceCount(p, all)] ==
          IF k = 0 THEN [st |-> st, data |-> << >>]
          ELSE LET before == got[k - 1]
                   from == PieceFrom(p, k)
                   piece == Fetched(before.st, from, PieceTo(p, all, k) - from)
               IN IF p + Len(before.data) < from THEN before
                  ELSE [st |-> piece.st, data |-> before.data \o piece.data]
    IN IF p > st.size THEN [st |-> st, data |-> << >>] ELSE got[PieceCount(p, all)]

\* The cells of the file, and the cells after a write.
FileContent(f) ==
    [q \in 0 .. Limit - 1 |-> IF q < Len(f.data) THEN f.data[q + 1] ELSE Beyond]

Patched(c, p, data) ==
    [q \in 0 .. Limit - 1 |->
        IF p <= q /\ q < p + Len(data) THEN data[q - p + 1]
        ELSE IF q < p /\ c[q] = Beyond /\ data # << >> THEN Zero ELSE c[q]]

\* SetPos, which the file below follows.
At(p) == [State EXCEPT !.base.pos = p]

-----------------------------------------------------------------------------
(* Operations of the cache file *)

\* Padding of n bytes from p on; and none.
Due(p, n) == [left |-> n, pos |-> IF n = 0 THEN 0 ELSE p]
Done == Due(0, 0)

\* The cache file is between two operations, and may go on writing.
Quiet == padding = Done
Room == count < MaxCount

\* A Write of data at p, from state st on, that leaves padding to be written.
Puts(st, p, data, left) ==
    /\ Becomes(PutAll(st, p, data), Due(p + Len(data), left))
    /\ content' = Patched(content, p, data)

\* A Write that stops because a block cannot be read from the file: the pieces
\* before it are cached, and room was made for it.
PutFails(st, p, data, left) ==
    \E m \in 0 .. PieceCount(p, Len(data)) - 1 :
        LET put == Put(st, p, data, m)
            stop == PieceFrom(p, m + 1)
        IN /\ Found(put.blocks, stop) = {}
           /\ Becomes([Dropped(put) EXCEPT !.base = Stretched(@)], Due(stop, left))
           /\ content' = Patched(content, p, SubSeq(data, 1, stop - p))

\* CacheFile::create: a sector of zero bytes in a file that is empty.
Sector0 == [i \in 1 .. SectorSize |-> Zero]

Create ==
    /\ Quiet /\ Room /\ size = 0 /\ SectorSize <= Limit
    /\ Puts(At(0), 0, Sector0, 0)

\* updateHeader, setDirtyFlag, setDOMVersion: the header goes into the first sector.
HeaderAllowed == Quiet /\ Room /\ size >= SectorSize

WriteHeader(h) == HeaderAllowed /\ Puts(At(0), 0, h, 0)

WriteHeaderFails(h) == HeaderAllowed /\ PutFails(At(0), 0, h, 0)

\* CacheFile::write: the data of a block that is in the file, or comes next.  (A file
\* that a stop left within a block does not hold it: CacheFileItem::validate.)
BlockAllowed(r) ==
    /\ Quiet /\ Room
    /\ SectorSize <= r.pos /\ r.pos + r.room <= Limit
    /\ r.pos + r.room <= size \/ r.pos = size

\* A block near the end is padded up to its end, by further calls.
PaddingSize(r) ==
    LET end == r.pos + Len(r.data)
    IN IF end >= Upper(size, end) - SectorSize THEN r.room - Len(r.data) ELSE 0

WriteBlock(r) == BlockAllowed(r) /\ Puts(At(r.pos), r.pos, r.data, PaddingSize(r))

WriteBlockFails(r) == BlockAllowed(r) /\ PutFails(At(r.pos), r.pos, r.data, 0)

\* A call for the padding writes 16384 bytes at most, as many as a block here has.
Chunk == Lower(padding.left, BlockSize)
Pads(n) == [i \in 1 .. n |-> Pad]

WritePadding ==
    ~Quiet /\ Puts(State, padding.pos, Pads(Chunk), padding.left - Chunk)

\* Its failure is not looked at: the next call goes on where this one stopped.
WritePaddingFails ==
    ~Quiet /\ PutFails(State, padding.pos, Pads(Chunk), padding.left - Chunk)

Read(r) ==
    /\ Quiet
    /\ Becomes(Got(At(r.pos), r.pos, r.length).st, Done)
    /\ UNCHANGED content

\* Flush(true)
Flush ==
    /\ Quiet
    /\ Becomes(FlushedAll(State), Done)
    /\ UNCHANGED content

\* Flush(false), which looks at the time after each block.
FlushTimedOut ==
    /\ Quiet
    /\ \E m \in 1 .. Len(blocks) - 1 : Becomes(Flushed(State, m), Done)
    /\ UNCHANGED content

\* A stream opened over what the file holds.
Opened(data) ==
    [base |-> [data |-> data, size |-> Len(data), pos |-> 0],
     blocks |-> << >>, size |-> Len(data), count |-> 0]

Opens(data) ==
    /\ Becomes(Opened(data), Done)
    /\ content' = FileContent(Opened(data).base)

\* The destructor flushes; the file is opened again.
Reopen == Quiet /\ Opens(FlushedAll(State).base.data)

\* The program is stopped, between any two calls, and the file opened again.
Kill == Opens(base.data)

\* ldomDocCacheImpl::createNew: the file is deleted, and an empty one opened.
CreateNew == Quiet /\ Opens(<< >>)

Init ==
    LET st == Opened(<< >>)
    IN /\ base = st.base /\ blocks = st.blocks
       /\ size = st.size /\ count = st.count
       /\ padding = Done
       /\ content = FileContent(base)

Next ==
    \/ Create
    \/ \E h \in Headers : WriteHeader(h) \/ WriteHeaderFails(h)
    \/ \E r \in Requests : WriteBlock(r) \/ WriteBlockFails(r)
    \/ WritePadding \/ WritePaddingFails
    \/ \E r \in Reads : Read(r)
    \/ Flush \/ FlushTimedOut \/ Reopen \/ Kill \/ CreateNew

Spec == Init /\ [][Next]_vars

-----------------------------------------------------------------------------
(* Properties *)

\* The type invariant: the blocks are aligned and apart, and fit their buffers.
TypeOK ==
    /\ base.data \in Seq(Bytes) /\ Len(base.data) <= base.size
    /\ base.pos \in 0 .. Limit /\ base.size \in 0 .. size /\ size \in 0 .. Limit
    /\ \A i \in DOMAIN blocks :
        LET b == blocks[i]
        IN /\ b.start % BlockSize = 0 /\ b.end <= b.start + BlockSize
           /\ b.buf \in [1 .. BlockSize -> Bytes]
           /\ \/ b.mstart = Unset /\ b.mend = Unset
              \/ b.start <= b.mstart /\ b.mstart < b.mend /\ b.mend <= b.start + BlockSize
           /\ \A j \in DOMAIN blocks : blocks[j].start = b.start => i = j
    /\ count \in 0 .. MaxCount + Limit
    /\ padding.left \in 0 .. Limit /\ padding.pos \in 0 .. size

\* No more blocks are cached than there is room for.
CacheBounded == Len(blocks) <= Upper(BlockCount - 1, 2)

\* However the count of blocks has drifted (a flush does not reset it), the cache
\* holds no more blocks than it was made for (writeToCache); they are aligned and
\* apart, and what each has modified lies within it.
CacheSound == TypeOK /\ CacheBounded

\* What a read from p to the end of the stream finds.
ToEnd(p) == Got(At(p), p, size - p).data

\* A read from any position to the end, cut into pieces, some cached and some not,
\* and flushing midway if it has to, returns the cells as last written there, and
\* the stream ends where they end.  It comes up short only before a Zero that ends
\* a block or the stream: Block::save may take that one for unmodified, so that the
\* file is a byte short.
ReadsContent ==
    Quiet =>
        /\ \A q \in 0 .. Limit - 1 : q < size <=> content[q] # Beyond
        /\ \A p \in 0 .. size - 1 :
            LET stop == p + Len(ToEnd(p))
            IN /\ ToEnd(p) = [i \in 1 .. stop - p |-> content[p + i - 1]]
               /\ stop < size => /\ content[stop] = Zero
                                 /\ stop + 1 = size \/ (stop + 1) % BlockSize = 0

\* As tests_blockwritecache.cpp has it of its writes, the stream reads like the plain
\* file, which a read finds whole (line 220).
ReadsAll == Quiet => \A p \in 0 .. size - 1 : Len(ToEnd(p)) = size - p

\* The calls to Write.
Asked ==
    [pos : {0}, data : {Sector0} \union Headers]
        \union {[pos |-> r.pos, data |-> r.data] : r \in Requests}
        \union [pos : 0 .. Limit, data : {Pads(n) : n \in 0 .. BlockSize}]

Promised == INSTANCE FileStream WITH
    Requests <- Asked,
    file <- FileContent(base),
    cached <- (blocks # << >>)

\* Whatever is cached, dropped, flushed in part or cut short, the file below
\* follows the content as FileStream says, and a flush, or closing the stream,
\* brings it level, but for a Zero at the very end.
ImplementsFileStream == Promised!Spec
=============================================================================
