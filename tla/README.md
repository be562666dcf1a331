# TLA+ verification of crengine-ng

crengine-ng is the engine of a book reader.  It parses a book into a tree of
nodes (a DOM), applies style sheets, lays the tree out and cuts it into pages.
Because this is slow, everything it has computed is kept in a *cache file* on
the disk, and the next time the book is opened the cache file is loaded instead
of the book.  The core of the program that is hard to get right is the state
behind this: the cache file and the write cache under it, the memory manager
that moves nodes, texts and styles between RAM and the cache file, and the
protocol by which a document is saved bit by bit while the reader goes on.

This directory holds TLA+ models of that core, the TLC configurations that check
them and proofs checked by TLAPS.  `PROJECT.json` maps each definition to the
lines it models.

## 1. The system: parts, state, operations

All paths are below `crengine/`; `lvtinydom` stands for `src/lvtinydom`.

| Part | State it keeps | Operations | What makes it correct |
|------|----------------|------------|-----------------------|
| **Cache file** (`lvtinydom/cachefile*.{h,cpp}`) | index of blocks, free list, header, dirty flag, end of file | `create`, `open`, `write`, `read`, `flush`, `setDirtyFlag` | blocks never overlap; a block reads as last written; after a crash the file is whole or rejected |
| **Block write stream** (`src/lvstream/lvblockwritestream.*` over `lvfilestream.cpp`) | list of cached blocks with their modified ranges, the size | `Read`, `Write`, `Flush(sync, timeout)` | it reads like a plain file (it does not quite, see section 3); the file catches up at a flush; the cache stays bounded |
| **Data storage** (`lvtinydom/ldomdatastoragemanager.*`, `ldomtextstoragechunk.*`) | chunks in RAM or swapped out, the list of recently used ones, uncompressed total | `compact`, `swapToCache`, `ensureUnpacked`, `save`, `getRaw`/`setRaw`, `addText`, `addElem` | a record reads as last written, whatever was swapped; the total stays near its cap |
| **Node collection** (`lvtinydom/lvtinynodecollection.cpp`, `include/lvrefcache.h`) | node parts, free lists, interned styles and fonts with reference counts | `allocTinyElement`, `recycleTinyNode`, `saveNodeData`, `loadNodeData`, style and font indexing | ids stay unique across a save and a load; a counted style lives as long as it is used |
| **Document saving** (`lvtinydom/ldomdocument.cpp`) | saving stage, map saved flag, render state | `saveChanges`, `updateMap`, `swapToCache`, `openFromCache`, `checkRenderContext`, `updateRenderContext` | a staged save that is interrupted and resumed leaves in the cache what the document holds |
| **Cache directory** (`lvtinydom/ldomdoccacheimpl.*`, `ldomdoccache.cpp`) | list of cache files and their sizes, on disk and in memory | `init`, `openExisting`, `createNew`, `reserve`, `clear` | the sum of the files is bounded; no file is listed that is gone |
| **Blob cache** (`lvtinydom/ldomblobcache.*`) | list of blobs, in RAM or in the cache file | `addBlob`, `getBlob`, `saveToCache`, `saveIndex`, `loadIndex` | a blob reads as added, and its index matches what was saved |
| **Page splitter** (`src/lvpagesplitter.cpp`, `include/lvpagesplitter.h`) | the page being filled, the split it may go back to, the notes of the page, the pages | `AddLine`, footnotes, `Finalize`, `FindNearestPage` | pages cover the document in order and without gaps, and are no higher than the screen; what belongs together stays together |
| **Glyph cache** (`src/lvfont/lvfontglyphcache.*`) | a list of all glyphs in order of use over the tables of the fonts, their size | `get`, `put`, `remove`, `clear`, eviction | list and tables hold the same items; the limit is kept; what is used stays |
| **Thread executor** (`src/crconcurrent.cpp`, `include/lvqueue.h`) | queue of tasks, the stop flag, the worker | `execute`, `stop`, `run` | tasks run in order and none after `stop`; neither a task nor `stop` waits for ever |
| Layout and styles (`src/lvrend.cpp`, `lvtextfm.cpp`, `lvstsheet.cpp`, ...) | computation over the tree | layout, style matching | lines cover the text |
| View and history (`src/lvdocview.cpp`, `crhist.cpp`, `src/lvnavigationhistory.h`) | position, bookmarks, history of jumps | navigation, saving the history | going back and forth returns to the same places |
| Parsers and formats (`src/lvxml`, `lvstream`, `epubfmt.cpp`, ...) | position in an input | parsing a book into DOM events | nothing of the input is lost |
| Fonts, drawing, images (`src/lvfont`, `lvdrawbuf`, `lvimg`) | the fonts in use | matching fonts, drawing | a missing glyph is found in a fallback |

### How the parts interact

The engine is single threaded: an application calls it from one thread, and within
it there are calls and no interleavings.  (The thread executor, a helper for
applications, is the exception.)  What interleaves is *time*: nearly every slow operation takes a
`CRTimerUtil` and returns `CR_TIMEOUT` half-way, and is called again later with
reads, edits and layout in between; and the process may be killed, or the
machine stopped, at any point of it.

* The **document** drives a save: it asks the **data storages**, the **node
  collection**, the **style cache** and the **blob cache** in turn to write what
  they have modified, each as blocks of the **cache file**.
* Data storages write chunks to the cache file by themselves too, when they are
  short of memory, which may happen inside any access to a node.
* The cache file writes through the **block write stream**, which holds writes
  back in memory; `Flush(true)` is the only ordering it has.
* The **cache directory** names cache files, and deletes those least recently
  used to make room for a new one.
* The **blob cache** keeps the pictures of a document in memory until there is a
  cache file, and is one stage of its save.
* The renderer hands its lines to the **page splitter**; drawing asks the fonts for
  glyphs, and these the **glyph cache**.

### What is hard here

1. *Crash consistency.*  Only the order of header writes and of flushes decides
   whether a file left by a crash can be trusted.
2. *Partial operations.*  A time limit ends an operation between any two blocks,
   and what was saved before may be modified before the rest is.
3. *Unchecked results.*  `Flush` and some header writes are not checked.
4. *Reuse of space.*  Blocks of the file, buffers, nodes and styles are freed
   and reused; one stale copy of an index is enough to use something twice.
5. *Limits.*  Caches that swap out the least recently used entry while a caller
   still holds a pointer into another one.
6. *Going back.*  The page splitter takes back decisions when a later line does not
   fit, with notes and slices of tall lines in between.
7. *Wake-ups.*  The worker thread tests a flag, then waits.

## 2. Modules

| Module | What it is | Sources |
|--------|------------|---------|
| `BlockStore` | abstract: a cache file is a map that the next session finds whole, as committed, or not at all | what `CacheFile` promises |
| `CacheFile` | the cache file: index, reuse of blocks, dirty flag, flush, crash, reopen | `cachefile.cpp`, `cachefileheader.*` |
| `FileStream` | abstract: a file whose writes may be held back | what `BlockWriteStream` promises |
| `BlockWriteStream` | the write cache of aligned blocks | `lvblockwritestream.cpp` |
| `DataStorage` | chunks of records, swapped to the cache file; one module for both kinds of storage, told apart by `raw` | `ldomdatastoragemanager.cpp`, `ldomtextstoragechunk.cpp` |
| `DocumentSave` | the staged save, resumed or interrupted, and what the next session accepts | `ldomdocument.cpp`, `lvtinynodecollection.cpp` |
| `RefCache` | the indexed, reference-counted cache of styles and fonts, as operators on a record | `lvrefcache.h` |
| `NodeStyles` | elements in recycled slots that share styles and fonts of two `RefCache`s, through rendering, saving and loading | `lvtinynodecollection.cpp`, `ldomnode.cpp` |
| `DocCache` | the directory of cache files: list, index file, deletions and creations one step each, kills between any two | `ldomdoccacheimpl.cpp`, `ldomdoccache.cpp` |
| `BlobCache` | blobs in memory or in the cache file, their save and their list, over sessions | `ldomblobcache.cpp`, `ldomblobitem.h`, `ldomdocument.cpp` |
| `PageSplitter` | lines and footnotes cut into pages, as functions on the splitter's state; finding a page | `lvpagesplitter.cpp`, `lvpagesplitter.h` |
| `GlyphCache` | the global list of glyphs with its pointers, over the tables of the fonts | `lvfontglyphcache.*`, `lvfreetypeface.cpp`, `lvfreetypefontman.cpp` |
| `ThreadExecutor` | the worker thread, the threads that give it tasks, and the one that stops it | `crconcurrent.cpp`, `lvqueue.h` |
| `...Proofs` | theorems about the module of that name, with their proofs | |
| `MC...` | the values of constants for TLC | |

`CacheFile` is shown to implement `BlockStore` and `BlockWriteStream` to implement
`FileStream`; the layers above are modelled over those promises.  `DataStorage`
and `DocumentSave` use a cache file that is a map with a commit, which is
`BlockStore`, and so does `BlobCache`; `CacheFile` uses cells that are level with the disk after a flush
and otherwise hold an older or a newer value, which is `FileStream` but for one case:
there a zero at the very end of the stream may be missing from the file after a flush, and
in `CacheFile` it is not.

### Correspondence with the code

* **CacheFile.**  A call is a few actions, cut where a crash makes a difference:
  raising the flag (`Begin`, `SyncDirty`), storing the block (`Store`), flushing
  (`FlushIndex`, `StoreIndex`, `SyncData`, `WriteClean`, `SyncClean`).  Between
  two syncs a cell holds its old or its new value and the header is one of those
  written (`hdrOnDisk`).  Sizes are in cells, a hash is the content it stands for.
  Modelled as the code has them although they are odd: a file with an empty index
  stays dirty after `open`; a new index block is made with room for more items
  but `write()` compares sizes with what was used, so that room is not used; the
  results of `Flush(true)` and of header writes are ignored (`MaxLostSyncs`).  A write that
  the stream takes in part ends with the item resized and its old hash kept, for a block
  (`StoreFails`) as for the index (`StoreIndexFails`), after which the header is not
  pointed to the index and the flag stays up.
  Left out: `setDOMVersion`, compression, the check of a wrong pointer in
  `create`.
* **BlockWriteStream.**  The state is the record of base file, block list, size and
  counter, and each public call is one action on it, made as `CacheFile` makes it: a
  sector of zeros in an empty file (`Create`), the header (`WriteHeader`), the data of a
  block (`WriteBlock`) and after it, call by call, the padding (`WritePadding`; `padding`
  is what is left of it), reads, flushes with and without a time limit, the destructor
  (`Reopen`) and the deletion of a file that is refused (`CreateNew`).  The client seeks
  before each call but the padding, so the position is a parameter there and part of
  `base` between the data and the padding.  Reads and writes are cut into pieces at block
  ends.  A read of a block that fails ends a write between two pieces (`PutFails`).
  `_count` is not reset by `Flush`, as in the code.  The program may be stopped between
  any two calls (`Kill`).  The blocks asked for lie on sectors, in the file or right after
  it; where they lie is any choice of the allocation in `CacheFile`, and the header may be
  written at any time once there is a first sector, both more than the client does.
  The header's content is any of `Headers`.  Left out: a kill
  within a call (amid a flush it leaves what `FlushTimedOut` does); errors of the file
  below other than a block it cannot read; the cache file's own idea of its size, which
  runs ahead of the stream after a write that fails; a file opened again a byte short and
  accepted all the same, whose next block would not be on a sector; `SetSize`, which
  nobody calls.
* **DataStorage.**  `recent` is the linked list of chunks in use; every access
  restores the chunk and moves it to the front, then compacts; adding a record to the
  active chunk is not such an access.  `held` is history: the chunks `getChunk` was
  called for.  A fatal error on a refused write is left out because it ends the program, and so
  is a cache file that cannot be created (`ldomdatastoragemanager.cpp:316`): then nothing is
  swapped, every record stays in memory, and nothing bounds the memory.
* **DocumentSave.**  The document is a version for each of its parts, and a stage
  of `saveChanges` writes the parts of that stage.  Stages are numbered 0 to 14 in
  the order in which the code runs them, where the code has the case labels 1, 2,
  3, 41, 4, 5, ...  `mode` says, once for all, how the application saves: in whole
  (`infinite` limits), with a time limit and the document left alone until the save is
  through (`steady`), or with a time limit and changes in between (`timed`).  Blocks of one part are written at once; a part torn by a kill
  is in a file that is still dirty.  Left out: comparing the file with the
  document by CRC and settings, and the render hashes.
* **NodeStyles.**  Slots are numbered as in `_elemList`; `Parts` is the expression
  of the code, with its rounding.  `getNodeStyle` takes a reference that nobody
  gives back; `lvrend`'s `setNodeStyle` calls it on every element it styles, so
  in practice styles outlive their elements while fonts do not.  Free indices are
  the linked list of the code, kept in the counters of unused entries.  A load takes
  the saved elements and styles over at once and then, in the phase `loading`, gives the
  elements their fonts one by one, as `updateLoadedStyles` does.  A table whose one entry
  is the unused index 0 is not indexed beyond its end, as it could be in C++.
* **DocCache.**  `at` is where the call under way stands (`reserve`, `create`, `index`,
  `write`, `sweep`, `clear`, `rekeep`); each of its steps changes the disk once.  The
  index is truncated when it is opened (`IndexOpened`) and written after
  (`IndexWritten`), so a kill in between leaves a torn one.  `old` stands for the
  size and CRC the code keeps of the index: the list they were computed from.  Files
  grow by themselves while a document has them open (`Grow`); the user renames files
  to `.keep` (`Rename`).  A document has one cache file name; how it is made from
  the book's name, CRC and flags is left out.
* **BlobCache.**  A blob is stored under its place in the list.  `SaveExpires` and
  `SaveEnds` are the two ways through the loop of `saveToCache`; `failing` are the
  places whose write fails, and a blob after the first failure stays in memory even if
  it was written, as the accumulated result in the code has it.  `given` remembers what
  was added.  Blobs are not empty.
* **PageSplitter.**  The state is a record with the fields of `PageSplitState`, each
  method an operator from state to state, in the order of the code's assignments.
  One action gives a line and then the notes it links, as a round of `split()`; `kind`
  says, once for all, which lines the document may have.  The loop that slices a tall line is a division.  Line pointers are line records.
* **GlyphCache.**  Pointers are kept as they are (`head`, `tail`, `next`, `prev`), since
  what could go wrong is in them; the tables of the fonts are one set of items.  The
  variant of the tables with lists, which no build selects, is left out, and so
  are the locks.
* **ThreadExecutor.**  What the code does under the guard is one step, except that a
  wait gives the guard up; the test at the head of the loop is a step of its own.

## 3. What is checked

Several invariants of one component are joined under one name: `CacheSound`,
`MemorySound`, `StaleSound`, `IndexSound`, `BlobsSound`, `PagesSound` and `TasksSound` each
conjoin the module's `TypeOK` with what its comment says, and TLC or a proof may take
the parts one by one.

Runs that pass:

| Run | Shows | Bounds |
|-----|-------|--------|
| `cache_file` | keys have one block; blocks and free blocks are disjoint; reads return the last write; a clean header is never ahead of the data; after a crash the file is the last commit or rejected; every step is a step of `BlockStore` | 2 keys, 2 lengths, sectors of 2 cells so that blocks are padded and partly used, 5 items, 20 cells, 2 reopenings |
| `cache_file_faults` | an accepted and validated file is one of the last two commits although a sync lost writes and a write, of a block or of the index, came up short | 1 key, one fault of each kind |
| `block_stream` | under the calls of a cache file, reads return what was written, but for a zero that ends a block or the stream; the cache is bounded; the file follows (`FileStream`) | a file of 15 bytes in 3 blocks of two sectors of 3 bytes, 2 blocks cached; 6 blocks of the cache file: full, nearly empty, ending and beginning in zeros, across two cached blocks, with padding of more than one call; a header; `_count` up to 3 when a write starts |
| `data_storage` | texts, elements and arrays read as last written; the count of memory is exact and bounded; what was used last stays in memory | 3 chunks, room for 2 of the common size, records of 1 and 3, arrays of 2 records a chunk |
| `document_save` | an accepted file is the document of one moment; a document that counts as saved is; a rejected file stays rejected; timed saves of a document left alone come to an end | 2 versions after the first, 1 failure, 2 storages that swap, modes `whole` and `steady` |
| `node_styles` | elements keep the style they were given; caches and their free lists are sound; no style has fewer references than holders when references are given up; font indices denote the font of the style until an element is restyled or removed | 3 elements, 3 styles, 2 fonts, one rendering, one reload |
| `doc_cache` | the index lists what the program lists; the file opened last survives kills and starts; files the user keeps stay; after a start the directory holds what the index lists, within the limit | 3 files, one size above the limit and one below, 1 failure, 1 file kept at a time, any number of kills |
| `blob_cache` | a blob reads as added first, in memory and from the file; an accepted file lists and holds every blob; saves end | 3 blobs, 2 names, 2 contents, 2 failing writes, any number of sessions |
| `page_splitter` | no row is lost; none is shown twice; pages with their notes fit the screen; forced and avoided splits are kept; notes are whole and near their link; every row is found | pages of 4 rows, every document of up to 5 lines, of 11 shapes of text with 2 notes, or of 9 shapes of table cells |
| `glyph_cache` | list and tables agree; the limit is kept; items are evicted in order of use; the count is exact but where the list is emptied | 2 fonts, 3 glyphs of sizes 1 to 3, limit 8, a count at most 8 too high |
| `thread_executor` | tasks run once, in order, and not after `stop`; every task is run or deleted; `stop` returns | 4 tasks, one stop |

Why these bounds.  The case distinctions of what is modelled are reached: a block reused
with room left, one that must be new, one at the end of the file; a first, a
changed and an unchanged index; chunks that fit, fill up and exceed the limit; an
index taken from the free list and a new one.  In `page_splitter` five lines suffice for a
line, a candidate, a chain of lines that stay together, and a line after them that
overflows the page, with notes at any of them; the shapes of text include each flag,
a line of two pages, and one that reaches back; those of table cells also reach back by
more, and end above the last line, which has them ignored (`lvpagesplitter.cpp:489`).
The documents with such cells (`Kinds`) have neither notes nor margins that may be
discarded: after a page ended by notes, or where a margin was
discarded, what a line is measured against is not what was shown last, and rows are shown
twice or lost there.  In `block_stream`
sectors are of three bytes so that a block can end in two zeros or in one, blocks of the
cache file begin at and between the ends of cached blocks, and the third block of the file
makes one be dropped.  In `glyph_cache` the limit holds
three to five items, so one put evicts none, one or several, of both fonts.  Two keys or chunks are enough for
one to damage another, and two sessions for one to mislead the next.  `PartLen` is
larger than the number of elements in `node_styles`, so that it does not meet the
multiple of the part length of which the table below tells; in the program the part
length is 4096.  `MaxRefs` limits only styling that is not forced by a rendering.
`MaxExtra` ends `glyph_cache` where the leaked size has used up the limit.  Deadlock
checking is off in `page_splitter`, where the document ends, and in
`thread_executor`, where the executor is stopped.  Not reached are the cases left out in
section 2 and those in the table of changes below.

Fairness is assumed in three runs.  In `document_save` the steps of a running save are
taken (a call that started goes on), and an unfinished timed save is called again and
gets through at least one stage before its time is up.  The view calls `updateMap`
again after `CR_TIMEOUT`, as the comment on `saveChanges` asks
(`ldomdocument.cpp:1602`); that a call has time for one stage is an assumption on the
time limits the program gives.  In `blob_cache` the save is called again likewise, and
has the time to write one blob that is in memory, or else the index; the run shows
that the loop, which starts from the first blob each time, gets on.  In
`thread_executor` the worker's thread and a `join` that can return are scheduled and
tasks end.  No fairness is assumed of a wait that ends without `notify`, of `execute`
or of `stop`.

A run in which TLC finds what the code does against what it says:

| Run | What happens |
|-----|--------------|
| `save_resumed` | a timed save goes on after a rendering where it stopped before it, and commits a mixture (`ldomdocument.cpp:1622`) |

More divergences are known and have no run of their own.  Each is seen by changing
what the first column says of a passing run, which TLC then refutes:

| Change | What happens |
|--------|--------------|
| `IndexSlack = 0`, contents as long as an index (`MCLongSize`) and sectors and items of one cell in `cache_file` | `BlocksDisjoint`: `writeIndex()` copies the items before `write()` may move the index into a freed data block (`cachefile.cpp:335`); after a reopening two blocks overlap |
| `ReadsAll` as an invariant in `block_stream` | a block of the cache file that fills its sectors and ends in a zero: the stream counts the zero, `Block::save` takes it for unmodified (`lvblockwritestream.cpp:64`), after a flush the file is a byte short, and so is a read to the end; a plain file has the byte, and `tests_blockwritecache.cpp:220` compares the two, over other writes |
| cells beside notes or margins in one kind of `page_splitter` (`MCText` with a line of 1 that reaches back by 2) | `NothingLost`: after a page ended by notes, or a discarded margin, a cell is ignored whose rows were not shown (`lvpagesplitter.cpp:489`) |
| `AppendsToSaved = TRUE` in `data_storage` | `ReadsContent`: a record added to a saved chunk does not make it unsaved, and swapping it out loses the record (`ldomtextstoragechunk.cpp:170`) |
| `PartLen` that divides the number of elements, with `StylesPresent` as an invariant, in `node_styles` | dropping styles misses the last element when their number is a multiple of 4096 (`lvtinynodecollection.cpp:811`) |
| `MaxFailedWrites = 1` and two contents of one length, 2, in `cache_file` | `ReadBack`: a write that fails leaves the old hash in the item, and writing the old data again is skipped as unchanged (`cachefile.cpp:624`) |
| `LoadTouches = TRUE` in `data_storage` | `ReadsContent`: the style array is used before it is loaded, and its fresh chunks are swapped out over the saved ones (`lvtinynodecollection.cpp:546`) |
| `Modes = {"timed"}` in `document_save` | `StaleSound`: a timed save after a finished one writes nothing and reports the document saved (`ldomdocument.cpp:1853`) |
| `LoadSwaps = TRUE` in `document_save` | `StaleSound`: a load under memory pressure leaves the file dirty and the document counted as saved (`ldomdocument.cpp:1368`) |
| `FontIsOfStyle` without its `once` in `node_styles` | the map from styles to fonts, whose entries hold no references, hands out a font index that was freed (`ldomnode.cpp:3412`) |
| `IndexTold` without `~failed` in `doc_cache` | after a failed write the index stays torn, and is not rewritten when the list returns to what was written last (`ldomdoccacheimpl.cpp:89`) |
| `WishedStay` with `wished` kept by `Kill` in `doc_cache` | a kill while a `.keep` file is made again loses it (`ldomdoccacheimpl.cpp:345`) |
| `ReadsFirst` without `unwritten` in `blob_cache` | a blob whose write failed is listed and cannot be read (`ldomblobcache.cpp:111`) |
| `PagesFit` in `page_splitter` | the rest of a sliced line, "as it fits on a page", does not fit with the notes that waited for it (`lvpagesplitter.cpp:439`) |
| `BreaksKept` without `~TooTall` in `page_splitter` | a forced break before a line taller than a page is ignored (`lvpagesplitter.cpp:549`), against "force_pb will force a page break before and after the fragment" (`lvrend.cpp:7012`) |
| `PagesInOrder` without its second case in `page_splitter` | after a page ended by notes, a line that reaches back is not cropped and its rows are shown again (`lvpagesplitter.cpp:453`) |
| `Extra = 0` as an invariant in `glyph_cache` | removing the last item leaves its size in the count (`lvfontglyphcache.cpp:72`): each `clear()` makes the cache smaller, in the end to one glyph |
| `ByRecency` for the whole list in `glyph_cache` | `refresh`, "move to head", leaves the last item last, and it is evicted next although it was just used (`lvfontglyphcache.cpp:29`) |
| `StopReturns` without `late` in `thread_executor` | a `stop` between the worker's test of `_stopped` and its wait is missed: the worker waits, `join` never returns (`crconcurrent.cpp:67`) |

Passing runs stay clear of all these by a constant that names the condition
(`AppendsToSaved`, `LoadTouches`, `LoadSwaps`, `Modes`, `PartLen`,
`IndexSlack`, `MaxFailedWrites`) or a condition of the property, so what they show
holds under that condition.

Seen while modelling, and part of the models as they are: room for a new cache file
is made for a tenth of the book, and its whole size recorded; `createNew` looks its
path up in a list of bare names (`ldomdoccacheimpl.cpp:356`), which never matches; an
index that cannot be read leaves the files of the directory until a later start;
a cropped line keeps only its `avoid` before; note fragments as high as a page are
dropped; after a page of notes the height of the page still counts the last text line
(`lvpagesplitter.cpp:675`).

## 4. What is proved

The theorems hold for every value of the constants that the module's assumption
allows, any number of steps and without the bounds of section 3.  Conditions beyond the
assumption are part of the theorem.  No invariant above is inductive as it stands;
each proof module states the one it rests on, conjunct by conjunct, and has
one step for each action.

**`CacheFileProofs`.**

* `CleanOnlyWhenSynced`: `Spec => []CleanMeansSynced`.  As long as no sync lost
  writes, a header a next session would trust is on the disk only when every
  cell is.  The property speaks of the headers a crash may
  leave, and nothing in it says which phase wrote them.  `ProtocolInv` adds, for
  each phase, what the disk may hold: while the flag is up in memory and its
  header synced, no header on the disk is trusted (`DirtyDistrusted`); while it is
  down everything is synced (`CleanSettled`); blocks are stored with the flag up
  (`WritingDirty`).
* `TypeCorrect`: `Spec => []TypeOK`, and `OneBlockPerKeyAlways`:
  `Spec => []OneBlockPerKey`.  `TypeInv` strengthens both: indices written to the
  disk, in any header a crash may leave, also have the type of an index and
  unique keys, since the next session loads them.  The lemmas before it say what
  each operator on the index (search, reuse, insertion, load) returns.
* `BlocksAlwaysDisjoint` and `ReadsAlwaysBack`, for the session that created the file
  (`opens = 0`), the second as long as no write fails.  `BlocksInv` says of every block
  where it lies (`Laid`), and that the index, while it is stored, still fits where
  it was given room.
* `CrashAlwaysLeavesLastCommit`, for the same session with no failing sync or write, any
  operation under way and any choice of what reached the disk.  `CommitInv` says
  that every clean header on the disk describes, over the cells, the last commit, and
  that what `syncing` and `cleaning` are about to commit is what is stored.  The proof
  needs `Marks`: the values that stand for a hole, padding, no item and no header are none
  of the real ones, which in the code are different fields.
* `StepsFollowBlockStore`: with nothing failing, each step of a session that created its
  file, and the step that opens that file again, is a step of `BlockStore` or
  leaves its map as it is.  `SessionsImplementBlockStore`: so
  `Spec /\ []FirstSession => ImplementsBlockStore`, for behaviours that create their
  file anew as often as they like and end sessions in any way, crashes included.  By
  `CommitInv` what is kept is the last commit while a clean header is on the disk, else
  lost (`KeptOf`), so a step changes it in no other way than `Commit`, `Invalidate`,
  `Create` and `Leave` do.  `LostIsNoMap` is needed besides `Marks`: the value that
  stands for a lost map is not a map.

  Later sessions are not covered, and not by accident: from a file that was opened again
  these results fail for some sizes, by the first of the changes in section 3
  (`cachefile.cpp:335`).  TLC checks reopenings where the index fits.

**`DocumentSaveProofs`.**

* `AcceptedAlwaysOneDocument` and `StaleAlwaysSound`, for the modes `whole` and `steady`,
  the second without loads that swap.  `save_resumed` and the table of section 3 show
  that neither condition can be dropped.  The strengthening is `StagesDone`: while a save
  is under way, which includes the time between two calls of a timed one, the file has
  every part of a finished stage as the document has it; so the stage that commits
  finds all of it.
* `TypeAlwaysOK` and `RejectedAlwaysOut`, an action property, in every mode.

**`NodeStylesProofs`.**

* `CachesAlwaysSound`: free lists end, hold each free index once, no value has two
  indices, slots for reuse are empty.  `CInv` types the rest of the state with them.
* `StyleAlwaysGiven`, `RefsAlwaysCoverHolders` and `FontAlwaysOfStyle`, under `SeesAll`:
  no full rendering or load happens while the number of slots is a multiple of the
  part length.  This is the divergence of `lvtinynodecollection.cpp:811` and nothing
  else: `VisitedAll` proves that at any other number the loops reach every element.
  The heart is `Covers`: a style has at least as many references as elements hold it, and
  one more for each key of the font map.  `Count` is a cardinality, and a style two
  elements share survives when one of them gives it up.  While elements are
  loaded one by one, those not yet visited may hold an index that denotes nothing
  (`HeldInv`), and what is saved says what its indices denote (`SavedHeldInv`).

**`DocCacheProofs`.**  `IndexAlwaysSound`, `LastAlwaysSurvives`, `WishedAlwaysStay`.
`LastInFront` says where the file opened last stands in the index on the disk,
`LastReserved` where it stands in the list while a start reads and makes room;
`OldTold` that what the program remembers of the index is on the disk until a write
fails; `ReservedThere` what `reserve` has gone over; `WishedKept` that only the `.keep`
file being made again may be missing.

**`BlobCacheProofs`.**  `BlobsAlwaysSound`: a blob of the list is in memory as it was
given or the cache file has it at its place (`ListHolds`), and a list that need not
be saved is in the cache file whole (`SavedWhole`), which is what a commit keeps.

**`ThreadExecutorProofs`.**  `TasksAlwaysSound`: the accepted tasks are, place by place,
those that ran, the one in hand and the queue (`PlaceByPlace`), and from `stop` on the
untaken ones are those deleted (`DeletedAtStop`).

**`DataStorageProofs`**, for `~AppendsToSaved` and `~LoadTouches`, the conditions of the
table of section 3.

* `AlwaysReadsContent`: every record reads as it was last written, however many chunks,
  whatever their sizes and the limit of memory.
* `HeldAlwaysStay`: `compact` never takes one of the chunks `getChunk` was called for
  last, as many as fit whatever their size (`Fitting`).  The attempt to prove it corrected
  the property: it used to count adding a record to the active chunk as a use, but
  `allocText` and `allocElem` do not call `getChunk` for a chunk they have, so it keeps its place
  in the recency list; with more room than the run has TLC shows it swapped out.
* `MemoryAlwaysSound`, if neither a record nor a chunk is larger than the maximum: the
  count is the sum of the buffers, and exceeds the maximum by at most a tenth and the
  active chunk.

An operation passes a state from one helper to the next, so the lemmas speak of states:
`Good(st, con, h)` says that `st` holds the records `con`, in memory or in the
cache file, and used the chunks `h` last, and there is one lemma for each of
`WrittenOut`, `Swapped`, `Compacted`, `Fetched`, `Added`, `Appended`, `Replaced`, `Grown`
and `Loaded`.  The invariant is `Good` of the state at hand, and `Loadable`
of the last complete save.  Needed beyond the properties: what is in memory is in the
recency list, a saved chunk equals its block, and a chunk that was never filled
is the active one.  That `compact` keeps the first chunks and leaves no more than the
maximum is shown over the running sum of its loop, as a recursive function of the place
in the list: induction on a number (`UpTo`) is a fact about sets, which the provers can use.

**`BlockWriteStreamProofs`**, for any number and size of blocks and sectors, any headers, any
blocks of the cache file and any reads, with every failure and kill of the module.

* `CacheIsSound`: the cache holds no more blocks than it makes room for, although `_count`
  drifts; blocks are aligned and apart.
* `ReadsReturnContent`: reads from any position return what was last written, and the
  stream ends where that ends; a read comes up short only before a zero that ends a block
  or the stream.
* `FollowsFileStream`: `Spec => ImplementsFileStream`, every step is one of the abstract
  file or leaves it as it is.

The invariant (`IInv`) is `Holds` of the state at hand, its content and the padding that is
due.  With none due that is `Good(st, con)`: each cached buffer equals the content `con` as far as that
goes and is zero after it (`BlockOK`); each cell is in the range some cached block has
modified or as the file has it, a cell past the end of the file counting as a zero
(`Kept`); and the file reaches to the end of each block, or comes to with a cached one,
but for a last byte (`Reached`).  While padding at the end of the stream is due,
`Pending(st, con)` says the same but for the block last written, which is at the front: its
last byte may be in no modified range yet.  This is where the order of the calls matters.
`save` does not move the end of a block for the first byte it changes, and `writeToCache`
takes that end for the end of what was modified in a new block, so that a write of a byte
or two that goes on in a block could lose more than a zero; the padding of
`CacheFile::write` brings every extension to a whole sector, and the lemmas for padding
show that it makes good what was pending.  There is one lemma for each operator that
passes a state on (`Saved`, `BlockRead`, `BlockWritten`, `Dropped`, `ToCache`, `Flushed`,
`Fetched`, `Got`, `Put`) and one for each call.  The pieces of a read or a write are followed
by induction on their number (`UpTo`), and each changes the file only as `FileFollows` says,
which is what `FileStream` allows.

Model-checked only:

* Liveness (`TimedSavesFinish`, `SavesFinish`, `AcceptedEnds`, `StopReturns`): fairness and
  `ENABLED` are out of the prover's reach.
* `AcceptedIsACommit`, the claim about a lost sync together with a short write, and
  `ImplementsBlockStore` for the sessions after a reopening.
* `PageSplitter`, `GlyphCache` and `StartAgrees` of `DocCache`, whose operators fold
  over lines or lists: what a fold computes for every input needs induction over data,
  and the library's induction theorems cannot be instantiated here.  Functions recursive in a number, as in
  `DataStorage` and `BlockWriteStream`, are within reach.

## 5. Plan

What is left to model, in this order:

1. `RangeList` (splitting and merging of marked ranges) and `History` (moving
   back and forward).
2. `Engine`: `DocumentSave` composed with `DataStorage` chunks, so that a part is
   torn at a chunk.
3. The numbers of flows in `PageSplitter`, and the locks of `GlyphCache` with several
   threads.

Left to prove: `AcceptedIsACommit`, for a bounded number of faults, and the sessions after
a reopening, for sizes with which the block of the index never moves.

## 6. Not modelled

Layout, style sheets, font matching, drawing, images, hyphenation, parsers and format
importers: functions of large inputs with little state, where a small instance
would say nothing.  Exporters, skins, translation, logging, string and property
utilities, tables generated from data, third-party code.  The view
(`lvdocview.cpp`) is modelled by the calls it makes into saving.  After a load
that fails, the storages keep what they had loaded; only its effect on the cache
file is modelled.  The 16-bit width of style indices (`lvrefcache.h:239`) needs 65536 styles to
matter and is left out; so is the limit of 16 million slots, which slots that were free
at a save count against in every later session (`lvtinynodecollection.cpp:721`), and
the order of the locks of the glyph caches, which clearing takes from the global cache
down and getting a glyph from the font up (`lvfontglyphcache.cpp:83`): they belong to
the application.  `PROJECT.json` lists each part with its status.
