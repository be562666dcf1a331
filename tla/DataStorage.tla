----------------------------- MODULE DataStorage -----------------------------
(***************************************************************************)
(* The storage of texts, elements, rectangles and styles of a document:    *)
(* class ldomDataStorageManager of                                         *)
(* crengine/src/lvtinydom/ldomdatastoragemanager.cpp and its chunks,       *)
(* ldomtextstoragechunk.cpp.                                               *)
(*                                                                         *)
(* Records are kept in chunks.  A chunk is in memory, or in the cache file *)
(* when memory is short.  Texts and elements are appended to the active    *)
(* chunk; rectangles and styles are an array, cut into chunks which are    *)
(* allocated whole (raw).                                                  *)
(*                                                                         *)
(* The cache file is what BlockStore says: a map.  A write it refuses ends *)
(* the program (crFatalError) and is left out.  A complete save is taken   *)
(* to be committed at once, as the rest of ldomDocument::saveChanges does. *)
(***************************************************************************)
EXTENDS Integers, Sequences, FiniteSets, FiniteSetsExt

CONSTANTS
    Values,    \* what a text or an element may be
    RawValues, \* what a record of an array may hold
    Zero,      \* a record of a fresh array
    Freed,     \* a record that was freed
    Sizes,     \* how much room a record may take
    ChunkSize, \* _chunkSize, or the size of a chunk of the array
    MaxSize,   \* _maxUncompressedSize
    Plenty,    \* the space tinyNodeCollection::compact asks for
    NoBlock,   \* a block the cache file does not have
    AppendsToSaved, \* whether records are added to a chunk after it was saved
    LoadTouches,    \* whether the array is used before it is loaded
    MaxChunks  \* bound: chunks

ASSUME DataStorageAssumption ==
    /\ AppendsToSaved \in BOOLEAN /\ LoadTouches \in BOOLEAN
    /\ Sizes \subseteq Nat \ {0} /\ IsFiniteSet(Sizes)
    /\ ChunkSize \in Nat \ {0} /\ MaxSize \in Nat \ {0} /\ MaxChunks \in Nat
    /\ Plenty \in Nat /\ Plenty >= MaxSize
    /\ Zero \in RawValues /\ Freed \notin Values
    /\ NoBlock \notin Seq([value : Values \union RawValues \union {Freed}, room : Nat])

VARIABLES
    raw,      \* whether the storage is an array: of rectangles or of styles
    chunks,   \* _chunks
    recent,   \* _recentChunk and its successors
    active,   \* _activeChunk; 0 if there is none
    total,    \* _uncompressedSize
    cache,    \* what the cache file holds, and whether there is one
    content,  \* history: the records as last written, by chunk
    complete, \* the index of chunks in a cache file to which nothing was written
              \* since the last complete save, with content then as history
    held      \* history: the chunks getChunk was called for since compact() was last
              \* called from outside, the last one first, as many as fit whatever
              \* their size

vars == <<raw, chunks, recent, active, total, cache, content, complete, held>>

\* The state the operations pass along.
State == [chunks |-> chunks, recent |-> recent, active |-> active,
          total |-> total, cache |-> cache]

Becomes(st) ==
    /\ chunks' = st.chunks /\ recent' = st.recent /\ active' = st.active
    /\ total' = st.total /\ cache' = st.cache

Record(v, n) == [value |-> v, room |-> n]

\* The first n of some numbers, summed up.
SumOf(f, n) ==
    LET sum[i \in 0 .. n] == IF i = 0 THEN 0 ELSE sum[i - 1] + f[i]
    IN sum[n]

\* The room of a sequence of records.
Room(recs) == SumOf([k \in DOMAIN recs |-> recs[k].room], Len(recs))

\* The buffers of those chunks that are in S.
SizeOf(cs, S) == SumOf([i \in DOMAIN cs |-> IF i \in S THEN cs[i].size ELSE 0], Len(cs))

\* A chunk of the array.
ZeroRecords == [i \in 1 .. ChunkSize |-> Record(Zero, 1)]

-----------------------------------------------------------------------------
(* Chunks and the cache file *)

NewChunk == [recs |-> << >>, loaded |-> FALSE, size |-> 0, used |-> 0, saved |-> FALSE]

NewRawChunk == [recs |-> ZeroRecords, loaded |-> TRUE,
                size |-> ChunkSize, used |-> ChunkSize, saved |-> FALSE]

\* The chunk load() makes from its entry in the index.
SavedChunk(used) == [NewChunk EXCEPT !.used = used, !.saved = TRUE]

\* swapToCache of the chunks in S, the write: what is in memory and not saved.
WrittenOut(st, S) ==
    LET out == {i \in S : st.chunks[i].loaded /\ ~st.chunks[i].saved /\ st.cache.open}
    IN [st EXCEPT
          !.chunks = [i \in DOMAIN @ |-> IF i \in out THEN [@[i] EXCEPT !.saved = TRUE] ELSE @[i]],
          !.cache = [open |-> @.open,
                     blocks |-> [i \in DOMAIN @.blocks |->
                                   IF i \in out THEN st.chunks[i].recs ELSE @.blocks[i]]]]

\* setunpacked: a chunk without its buffer.
Unloaded(chunk) == [chunk EXCEPT !.recs = << >>, !.loaded = FALSE, !.size = 0]

\* Mutant: the memory of a chunk swapped out stays counted.
SwappedCounted(st, S) ==
    [WrittenOut(st, S) EXCEPT
        !.chunks = [i \in DOMAIN @ |-> IF i \in S THEN Unloaded(@[i]) ELSE @[i]]]

\* swapToCache and setunpacked
Swapped(st, S) ==
    [WrittenOut(st, S) EXCEPT
        !.chunks = [i \in DOMAIN @ |-> IF i \in S THEN Unloaded(@[i]) ELSE @[i]],
        !.total = @ - SizeOf(st.chunks, S)]

SizeAt(st, j) == st.chunks[st.recent[j]].size

\* compact, its choice: from the most to the least recently used, a chunk stays
\* while all that stay fit.  The active and the excluded chunk stay in any case
\* (no caller reserves the 0xFFFFFFF at which the active chunk would go).
Stays(st, j, sum, excluded) ==
    SizeAt(st, j) + sum < MaxSize \/ st.recent[j] \in {st.active, excluded}

\* The room taken by those that stay, up to each place.
Staying(st, reserved, excluded) ==
    LET sum[j \in 0 .. Len(st.recent)] ==
          IF j = 0 THEN reserved
          ELSE sum[j - 1] + (IF Stays(st, j, sum[j - 1], excluded) THEN SizeAt(st, j) ELSE 0)
    IN sum

Swaps(st, reserved, excluded) ==
    LET sum == Staying(st, reserved, excluded)
    IN {st.recent[j] : j \in {k \in DOMAIN st.recent : ~Stays(st, k, sum[k - 1], excluded)}}

\* compact: beyond a tenth more than the maximum, chunks are swapped out, to a
\* cache file that is created if there is none.
Compacted(st, reserved, excluded) ==
    LET out == Swaps(st, reserved, excluded)
    IN IF st.total + reserved <= MaxSize + MaxSize \div 10 \/ out = {} THEN st
       ELSE Swapped([st EXCEPT !.cache = [@ EXCEPT !.open = TRUE]], out)

\* Where i is in a list, or else the place after its end.
Place(list, i) ==
    IF \E j \in DOMAIN list : list[j] = i THEN CHOOSE j \in DOMAIN list : list[j] = i
    ELSE Len(list) + 1

\* The list with i in front, where it is taken from its place.
ToFront(list, i) ==
    LET p == Place(list, i)
    IN [j \in 1 .. (IF p > Len(list) THEN p ELSE Len(list)) |->
          IF j = 1 THEN i ELSE IF j <= p THEN list[j - 1] ELSE list[j]]

\* Mutant: a chunk keeps the place it has in the recency list.
MovedFirstOnce(st, i) ==
    IF Place(st.recent, i) <= Len(st.recent) THEN st
    ELSE [st EXCEPT !.recent = ToFront(@, i)]

\* getChunk, the recency list.
MovedFirst(st, i) == [st EXCEPT !.recent = ToFront(@, i)]

\* restoreFromCache
Restored(st, i) ==
    LET recs == st.cache.blocks[i]
    IN [st EXCEPT !.chunks[i] = [@ EXCEPT !.recs = recs, !.loaded = TRUE, !.size = Room(recs)],
                  !.total = @ + Room(recs)]

\* getChunk and ensureUnpacked
Fetched(st, i) ==
    IF st.chunks[i].loaded \/ ~st.chunks[i].saved THEN MovedFirst(st, i)
    ELSE Compacted(Restored(MovedFirst(st, i), i), 0, i)

\* A new chunk is appended, used and room is made.
Added(st, chunk) ==
    LET i == Len(st.chunks) + 1
    IN Compacted(MovedFirst([st EXCEPT !.chunks = Append(@, chunk),
                                  !.total = @ + chunk.size], i), 0, 0)

-----------------------------------------------------------------------------
(* Records: texts and elements *)

\* addText, addElem: a fresh buffer has room for a chunk, or for the record.
Appended(st, rec) ==
    LET chunk == st.chunks[st.active]
        fresh == IF chunk.loaded THEN 0
                 ELSE IF ChunkSize > rec.room THEN ChunkSize ELSE rec.room
        longer == [chunk EXCEPT !.recs = Append(@, rec), !.loaded = TRUE,
                                !.size = @ + fresh, !.used = @ + rec.room]
    IN [st EXCEPT !.chunks[st.active] = longer, !.total = @ + fresh]

HasRoom(st, rec) ==
    LET chunk == st.chunks[st.active]
    IN ~chunk.loaded \/ chunk.size - chunk.used >= rec.room

\* The storage with a new active chunk.
Activated(st) == Added([st EXCEPT !.active = Len(st.chunks) + 1], NewChunk)

\* allocText, allocElem: a record that does not fit starts a chunk.
Allocated(st, rec) ==
    LET some == IF st.active = 0 THEN Activated(st) ELSE st
    IN IF HasRoom(some, rec) THEN Appended(some, rec)
       ELSE Appended(Activated(some), rec)

\* The records with another value in the k-th.
Revalued(recs, k, v) == [recs EXCEPT ![k] = Record(v, @.room)]

\* Mutant: a changed record does not mark its chunk.
ReplacedUnmarked(st, i, k, v) ==
    [st EXCEPT !.chunks[i].recs = Revalued(@, k, v)]

\* setRaw, setParent, freeNode, or a change through getElem and modified():
\* a record of a chunk in memory is replaced, which marks it if it changes.
Replaced(st, i, k, v) ==
    LET recs == st.chunks[i].recs
    IN IF recs[k].value = v THEN st
       ELSE [st EXCEPT !.chunks[i] = [@ EXCEPT !.recs = Revalued(recs, k, v), !.saved = FALSE]]

\* getStyleData, getRendRectData: the array grows up to chunk c.
Grown(st, c) ==
    LET n == Len(st.chunks)
        grown[i \in 0 .. c] ==
          IF i <= n THEN st ELSE Added(grown[i - 1], NewRawChunk)
    IN grown[c]

GrownContent(c) ==
    [i \in 1 .. (IF c > Len(content) THEN c ELSE Len(content)) |->
       IF i <= Len(content) THEN content[i] ELSE ZeroRecords]

-----------------------------------------------------------------------------
(* Saving and loading *)

\* save, its first m chunks.
Saved(st, m) == WrittenOut(st, 1 .. m)

\* save, the index of the chunks.
Index(st) == [i \in DOMAIN st.chunks |-> st.chunks[i].used]

Empty == [chunks |-> << >>, recent |-> << >>, active |-> 0, total |-> 0, cache |-> cache]

\* tinyNodeCollection::loadNodeData sets the font of every node to 0, which
\* is what fresh records of the style array hold.
Touched == IF LoadTouches THEN Grown(Empty, Len(complete.index)) ELSE Empty

\* load: the chunks there were are deleted.
Loaded(st) ==
    [st EXCEPT !.chunks = [i \in DOMAIN complete.index |-> SavedChunk(complete.index[i])],
               !.recent = << >>, !.active = 0,
               !.total = @ - SizeOf(st.chunks, DOMAIN st.chunks)]

-----------------------------------------------------------------------------
(* Operations *)

Places == {p \in (1 .. MaxChunks) \X (1 .. ChunkSize) :
             p[1] \in DOMAIN content /\ p[2] \in DOMAIN content[p[1]]}

\* The largest buffer a chunk may have, and how many of them fit.
Biggest == IF raw THEN ChunkSize ELSE Max(Sizes \union {ChunkSize})
Fitting == (MaxSize - 1) \div Biggest

\* getChunk is called for chunk i, after the chunks up to it that there are not yet.
Use(i) ==
    LET fresh == i - Len(content)
        used == IF i \in DOMAIN content THEN ToFront(held, i)
                ELSE [j \in 1 .. fresh + Len(held) |->
                        IF j <= fresh THEN i + 1 - j ELSE held[j - fresh]]
    IN held' = [j \in 1 .. Min({Len(used), Fitting}) |-> used[j]]

Keep ==
    /\ complete' = IF cache' = cache THEN complete ELSE NoBlock
    /\ UNCHANGED raw

\* allocText, allocElem
Alloc(rec) ==
    LET st == Allocated(State, rec)
        i == st.active
    IN /\ ~raw
       /\ active # 0 /\ ~AppendsToSaved => ~chunks[active].saved
       /\ Len(chunks) < MaxChunks \/ (active # 0 /\ HasRoom(State, rec))
       /\ Becomes(st)
       /\ content' = IF i \in DOMAIN content THEN [content EXCEPT ![i] = Append(@, rec)]
                     ELSE Append(content, <<rec>>)
       /\ IF i \in DOMAIN content THEN UNCHANGED held ELSE Use(i)
       /\ Keep

\* getText, getElem and getParent of a record.
Get(i) ==
    /\ ~raw /\ i \in DOMAIN content
    /\ Becomes(Fetched(State, i))
    /\ UNCHANGED content
    /\ Use(i)
    /\ Keep

\* A change of a record, or freeNode.
Change(i, k, v) ==
    /\ ~raw
    /\ content[i][k].value # Freed
    /\ Becomes(Replaced(Fetched(State, i), i, k, v))
    /\ content' = [content EXCEPT ![i] = Revalued(@, k, v)]
    /\ Use(i)
    /\ Keep

\* getStyleData, getRendRectData
GetRaw(i) ==
    /\ raw
    /\ Becomes(Fetched(Grown(State, i), i))
    /\ content' = GrownContent(i)
    /\ Use(i)
    /\ Keep

\* setStyleData, setRendRectData
SetRaw(i, k, v) ==
    /\ raw
    /\ Becomes(Replaced(Fetched(Grown(State, i), i), i, k, v))
    /\ content' = [GrownContent(i) EXCEPT ![i] = Revalued(@, k, v)]
    /\ Use(i)
    /\ Keep

\* tinyNodeCollection::compact
CompactAll ==
    /\ chunks # << >>
    /\ Becomes(Compacted(State, Plenty, 0))
    /\ held' = << >>
    /\ UNCHANGED content
    /\ Keep

\* setCache: the document has created its cache file.
SetCache ==
    /\ ~cache.open
    /\ cache' = [cache EXCEPT !.open = TRUE]
    /\ UNCHANGED <<chunks, recent, active, total, content, held>>
    /\ Keep

\* save without a time limit, or in time.
Save ==
    /\ cache.open /\ chunks # << >>
    /\ LET st == Saved(State, Len(chunks))
       IN Becomes(st) /\ complete' = [index |-> Index(st), content |-> content]
    /\ UNCHANGED <<raw, content, held>>

\* save that runs out of time after some chunk.
SaveExpires ==
    /\ cache.open
    /\ \E m \in 1 .. Len(chunks) : Becomes(Saved(State, m))
    /\ UNCHANGED <<content, held>>
    /\ Keep

\* The document is opened again from a cache file to which nothing was written
\* since it was complete.
Load ==
    /\ complete # NoBlock
    /\ Becomes(Loaded(Touched))
    /\ content' = complete.content
    /\ held' = << >>
    /\ Keep

Init ==
    /\ raw \in BOOLEAN
    /\ chunks = << >> /\ recent = << >> /\ active = 0 /\ total = 0
    /\ cache = [open |-> FALSE, blocks |-> [i \in 1 .. MaxChunks |-> NoBlock]]
    /\ content = << >> /\ complete = NoBlock
    /\ held = << >>

Next ==
    \/ \E v \in Values, n \in Sizes : Alloc(Record(v, n))
    \/ \E p \in Places : \E v \in Values \union {Freed} : Change(p[1], p[2], v)
    \/ \E i \in 1 .. MaxChunks :
         Get(i) \/ GetRaw(i) \/ \E k \in 1 .. ChunkSize, v \in RawValues : SetRaw(i, k, v)
    \/ CompactAll \/ SetCache \/ Save \/ SaveExpires \/ Load

Spec == Init /\ [][Next]_vars

-----------------------------------------------------------------------------
(* Properties *)

\* The type invariant: chunks, recency list and cache file fit together.
TypeOK ==
    /\ raw \in BOOLEAN
    /\ Len(chunks) <= MaxChunks /\ active \in 0 .. Len(chunks)
    /\ \A i, j \in DOMAIN recent : recent[i] = recent[j] => i = j
    /\ \A i \in DOMAIN chunks :
        LET c == chunks[i]
        IN /\ c.loaded => c.used = Room(c.recs) /\ c.used <= c.size /\ i \in {recent[j] : j \in DOMAIN recent}
           /\ ~c.loaded => c.recs = << >> /\ c.size = 0
           /\ ~c.loaded => c.saved /\ cache.blocks[i] # NoBlock

\* A chunk as the next access finds it.
Found(i) == IF chunks[i].loaded THEN chunks[i].recs ELSE cache.blocks[i]

\* Every record reads as it was last written, whichever chunks were swapped out,
\* saved, restored or loaded from the cache file in between.
ReadsContent ==
    /\ DOMAIN chunks = DOMAIN content
    /\ \A i \in DOMAIN chunks : Found(i) = content[i]

\* The count is the sum of the buffers.
TotalIsExact ==
    total = SizeOf(chunks, DOMAIN chunks)

\* The count is bounded.
MemoryBounded ==
    total <= MaxSize + MaxSize \div 10 + (IF raw THEN 0 ELSE Biggest)

\* _uncompressedSize, by which chunks are swapped out, is what is in memory, through
\* every swap, restore and load.  It never exceeds the maximum by more than the tenth
\* that is allowed and, where records are added, the active chunk, which gets its
\* buffer after room is made; and no chunk leaves memory without a copy in the file.
MemorySound == TypeOK /\ TotalIsExact /\ MemoryBounded

\* What a caller got a pointer into stays in memory while it uses other chunks,
\* as long as all of them fit: getElem's pointers survive nested accesses.
HeldStay == \A j \in DOMAIN held : chunks[held[j]].loaded
=============================================================================
