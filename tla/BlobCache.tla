------------------------------- MODULE BlobCache -------------------------------
(***************************************************************************)
(* The binary objects of a document (pictures, mostly): ldomBlobCache,     *)
(* crengine/src/lvtinydom/ldomblobcache.cpp and ldomblobitem.h, with the   *)
(* callers in ldomdocument.cpp and lvtinynodecollection.cpp.               *)
(*                                                                         *)
(* Blobs are added while the document is parsed: to memory, or to the      *)
(* cache file once there is one.  A save writes the blobs that are in      *)
(* memory, then the list of names; it may run out of time after each blob  *)
(* and is called again.  The cache file below is a BlockStore: what it     *)
(* keeps is lost with the first write and whole again at the commit.       *)
(*                                                                         *)
(* A blob is stored under its place in the list, so the list needs to say  *)
(* only whether it is in memory.                                           *)
(***************************************************************************)
EXTENDS Naturals, Sequences, FiniteSets

CONSTANTS
    Names,    \* the names of blobs
    Contents, \* what a blob may hold
    Stored,   \* of a blob that is not in memory
    Nothing,  \* what a read gives that fails
    Lost,     \* the cache file must be made anew
    MaxBlobs, \* bound: blobs of a document
    MaxFails  \* bound: writes that fail

ASSUME BlobCacheAssumption ==
    /\ MaxBlobs \in Nat /\ MaxFails \in Nat
    /\ Stored \notin Contents /\ Nothing \notin Contents /\ Stored # Nothing
    /\ Nothing \notin Seq(Names)

VARIABLES
    phase,    \* "none", "parsing" or "loaded"
    list,     \* _list
    changed,  \* _changed
    attached, \* _cacheFile is there
    blocks,   \* the blobs in the cache file, by place
    names,    \* the index in the cache file; Nothing when it is not there
    turn,     \* flips with each call of the save, so that each is a step
    passed,   \* the save went on to the parts of the document after the blobs
    kept,     \* what the next session finds in the cache file, or Lost; with the
              \* histories below as they were at the commit
    fails,    \* bound: writes that failed
    given,    \* history: what was added at each place
    unwritten \* history: the places whose write at addBlob failed

session == <<phase, list, changed, attached, blocks, names, turn, passed,
             given, unwritten>>
vars == <<session, kept, fails>>

Places == 1..MaxBlobs
NoBlocks == [i \in Places |-> Nothing]
Blob(n, c) == [name |-> n, data |-> c]

-----------------------------------------------------------------------------
(* Reading *)

PlacesOf(n) == {i \in DOMAIN list : list[i].name = n}

\* getBlob: the first of the name.
GetBlob(n) ==
    IF PlacesOf(n) = {} THEN Nothing
    ELSE LET i == CHOOSE i \in PlacesOf(n) : \A j \in PlacesOf(n) : i <= j
         IN IF list[i].data # Stored THEN list[i].data ELSE blocks[i]

-----------------------------------------------------------------------------
(* saveToCache *)

InMemory(items) == {i \in DOMAIN items : items[i].data # Stored}

\* Mutant: a blob leaves memory whether it was written or not.
LeavesAlways(i, failing) == TRUE

\* Mutant: a blob stays in memory although it was written.
LeavesNever(i, failing) == FALSE

\* A blob leaves memory once it is written and so was every blob before it.
Leaves(i, failing) == \A j \in failing : j > i

\* The blobs up to place k are gone through, of which those of `failing` cannot
\* be written.
Gone(k, failing) ==
    [i \in DOMAIN list |->
        IF i <= k /\ i \in InMemory(list) /\ Leaves(i, failing)
        THEN [list[i] EXCEPT !.data = Stored] ELSE list[i]]

BlocksAfter(k, failing) ==
    [i \in Places |->
        IF i \in InMemory(list) \ failing /\ i <= k THEN list[i].data ELSE blocks[i]]

NothingToSave == list = << >> \/ ~changed

\* The time is up after place k, which may have been written before.
SaveExpires(k, failing) ==
    /\ ~NothingToSave
    /\ k \in DOMAIN list /\ failing \subseteq InMemory(list) \cap (1..k)
    /\ list' = Gone(k, failing) /\ blocks' = BlocksAfter(k, failing)
    /\ fails' = fails + Cardinality(failing)
    /\ UNCHANGED <<names, changed>>

ListNames == [i \in DOMAIN list |-> list[i].name]

\* saveIndex
IndexAfter(indexFails) == IF indexFails THEN names ELSE ListNames

\* The save runs to its end; `good` is its result.
SaveEnds(failing, indexFails, good) ==
    IF NothingToSave
    THEN failing = {} /\ ~indexFails /\ good /\ UNCHANGED <<list, blocks, names, changed, fails>>
    ELSE /\ failing \subseteq InMemory(list)
         /\ good = (failing = {} /\ ~indexFails)
         /\ list' = Gone(Len(list), failing) /\ blocks' = BlocksAfter(Len(list), failing)
         /\ names' = IndexAfter(indexFails)
         /\ changed' = ~good
         /\ fails' = fails + Cardinality(failing) + (IF indexFails THEN 1 ELSE 0)

-----------------------------------------------------------------------------
(* The document *)

\* There is no cache file that could be opened.
NewDocument ==
    /\ phase = "none" /\ kept = Lost
    /\ phase' = "parsing"
    /\ UNCHANGED <<list, changed, attached, blocks, names, turn, passed, kept, fails, given,
                   unwritten>>

InList(c) == IF attached THEN Stored ELSE c

\* addBlob: nobody looks whether the write failed.
AddBlob(n, c) ==
    /\ phase = "parsing" /\ Len(list) < MaxBlobs
    /\ list' = Append(list, Blob(n, InList(c))) /\ changed' = TRUE
    /\ given' = Append(given, Blob(n, c))
    /\ \/ /\ attached /\ fails < MaxFails /\ fails' = fails + 1
          /\ unwritten' = unwritten \union {Len(list) + 1} /\ UNCHANGED blocks
       \/ /\ blocks' = IF attached THEN [blocks EXCEPT ![Len(list) + 1] = c] ELSE blocks
          /\ UNCHANGED <<fails, unwritten>>
    /\ kept' = IF attached THEN Lost ELSE kept
    /\ UNCHANGED <<phase, attached, names, turn, passed>>

Parsed ==
    /\ phase = "parsing" /\ phase' = "loaded"
    /\ UNCHANGED <<list, changed, attached, blocks, names, turn, passed, kept, fails, given,
                   unwritten>>

\* createCacheFile: the file is new, and setCacheFile saves to it what there is;
\* nobody looks at the result.
CreateCacheFile ==
    /\ phase # "none" /\ ~attached
    /\ attached' = TRUE /\ kept' = Lost
    /\ \E failing \in SUBSET DOMAIN list, indexFails, good \in BOOLEAN :
          SaveEnds(failing, indexFails, good)
    /\ fails' <= MaxFails
    /\ UNCHANGED <<phase, turn, passed, given, unwritten>>

\* saveChanges, its stage of the blobs, when the time is up at one of the places
\* `ends' or not at all: an error ends the save, and the time that is up leaves it at
\* this stage.
SaveStage(ends) ==
    /\ phase = "loaded" /\ attached /\ ~passed
    /\ turn' = ~turn
    /\ \/ \E k \in ends, failing \in SUBSET DOMAIN list :
            SaveExpires(k, failing) /\ UNCHANGED passed
       \/ \E failing \in SUBSET DOMAIN list, indexFails, good \in BOOLEAN :
            SaveEnds(failing, indexFails, good) /\ passed' \in {FALSE, good}
    /\ fails' <= MaxFails
    /\ kept' = IF <<blocks, names>>' = <<blocks, names>> THEN kept ELSE Lost
    /\ UNCHANGED <<phase, attached, given, unwritten>>

Save == SaveStage(DOMAIN list)

\* The save comes to its end and flushes the cache file.
Commit ==
    /\ phase = "loaded" /\ passed
    /\ kept' = [blocks |-> blocks, names |-> names, given |-> given, unwritten |-> unwritten]
    /\ passed' = FALSE
    /\ UNCHANGED <<phase, list, changed, attached, blocks, names, turn, fails, given,
                   unwritten>>

\* loadIndex; a file without an index holds no blobs.
LoadIndex ==
    list' = IF kept.names = Nothing THEN << >>
            ELSE [i \in DOMAIN kept.names |-> Blob(kept.names[i], Stored)]

\* openFromCache.  When the rest of the file cannot be loaded the document is
\* parsed, with the blobs of the file in the list.
OpenFromCache ==
    /\ phase = "none" /\ kept # Lost
    /\ phase' \in {"loaded", "parsing"}
    /\ LoadIndex
    /\ attached' = TRUE
    /\ blocks' = kept.blocks /\ names' = kept.names
    /\ given' = kept.given /\ unwritten' = kept.unwritten
    /\ UNCHANGED <<changed, turn, passed, kept, fails>>

\* The document is closed, or the program killed.
Leave ==
    /\ phase # "none"
    /\ phase' = "none" /\ list' = << >> /\ changed' = FALSE /\ attached' = FALSE
    /\ blocks' = NoBlocks /\ names' = Nothing /\ passed' = FALSE /\ turn' = FALSE
    /\ given' = << >> /\ unwritten' = {}
    /\ UNCHANGED <<kept, fails>>

Init ==
    /\ phase = "none" /\ list = << >> /\ changed = FALSE /\ attached = FALSE
    /\ blocks = NoBlocks /\ names = Nothing /\ passed = FALSE /\ turn = FALSE
    /\ kept = Lost /\ fails = 0 /\ given = << >> /\ unwritten = {}

Next ==
    \/ NewDocument \/ Parsed \/ CreateCacheFile \/ Save \/ Commit \/ OpenFromCache \/ Leave
    \/ \E n \in Names, c \in Contents : AddBlob(n, c)

Spec == Init /\ [][Next]_vars

\* A save that ran out of time or failed is called again, and has the time to write
\* one blob that is still in memory, or else the index.
FairSpec ==
    Spec /\ WF_vars(SaveStage({k \in DOMAIN list : \E i \in InMemory(list) : i <= k}))

-----------------------------------------------------------------------------
(* Properties *)

\* The type invariant.  The list and its history go together; a blob that is not
\* in memory has a cache file to be read from.
TypeOK ==
    /\ phase \in {"none", "parsing", "loaded"}
    /\ list \in Seq([name : Names, data : Contents \union {Stored}])
    /\ blocks \in [Places -> Contents \union {Nothing}]
    /\ ListNames = [i \in DOMAIN given |-> given[i].name]
    /\ attached \/ InMemory(list) = DOMAIN list

\* The first blob of a name is read.
ReadsFirst ==
    \A i \in DOMAIN given :
        /\ i \notin unwritten
        /\ \A j \in 1..(i - 1) : given[j].name # given[i].name
        => GetBlob(given[i].name) = given[i].data

\* A committed file has all blobs.
KeptWhole ==
    kept # Lost =>
        /\ (IF kept.names = Nothing THEN << >> ELSE kept.names)
             = [i \in DOMAIN kept.given |-> kept.given[i].name]
        /\ \A i \in DOMAIN kept.given \ kept.unwritten :
              kept.blocks[i] = kept.given[i].data

\* What was added first under a name is read under it, while it is in memory, after
\* it left memory for the cache file, and in the sessions that find it there,
\* whatever failed, unless it was its own write in addBlob.  A cache file that is
\* accepted lists every blob of the document that saved it, and holds those that
\* addBlob wrote or left to the save (saveToCache, loadIndex).
BlobsSound == TypeOK /\ ReadsFirst /\ KeptWhole

\* A save that is called again whenever its time was up comes to its end, though
\* it goes through the list from the start each time.
SavesFinish ==
    (phase = "loaded" /\ attached /\ changed) ~> (~changed \/ phase = "none")
=============================================================================
