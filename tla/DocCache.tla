------------------------------- MODULE DocCache -------------------------------
(***************************************************************************)
(* The directory of cache files: ldomDocCacheImpl and ldomDocCache,        *)
(* crengine/src/lvtinydom/ldomdoccacheimpl.cpp and ldomdoccache.cpp.       *)
(*                                                                         *)
(* The files of the documents opened last are kept, most recent first, up  *)
(* to a total size; an index file tells the next session which.  Every     *)
(* change of the disk is a step of its own, since the program may be       *)
(* killed between any two: a file is deleted, the index is truncated, then *)
(* written.                                                                *)
(*                                                                         *)
(* A document's cache file is a name (makeFileName).  The user may rename  *)
(* it to .keep, which takes it out of the index for good.                  *)
(***************************************************************************)
EXTENDS Integers, Sequences, SequencesExt, FiniteSets

CONSTANTS
    Names,     \* the cache files there may be
    MaxSize,   \* _maxSize
    DocSizes,  \* the sizes documents have
    FileSizes, \* the sizes cache files grow to
    Torn,      \* an index that does not pass its checks, or none
    Unknown,   \* of _oldStreamCRC: the index on the disk was not looked at
    None,      \* no file
    MaxFails,  \* bound: operations on the disk that fail
    MaxKept    \* bound: files renamed to .keep at a time

ASSUME DocCacheAssumption ==
    /\ MaxSize \in Nat /\ MaxFails \in Nat /\ MaxKept \in Nat
    /\ DocSizes \subseteq Nat /\ FileSizes \subseteq Nat
    /\ None \notin Names
    /\ Torn # Unknown /\ {Torn, Unknown} \cap Seq([name : Names, size : Nat]) = {}

VARIABLES
    dir,    \* the .cr3 files and their sizes
    kept,   \* the names with a .keep file
    index,  \* the index file
    on,     \* _cacheInstance is there
    files,  \* _files
    old,    \* what _oldStreamSize and _oldStreamCRC stand for
    at,     \* the operation under way
    held,   \* the cache files documents have open
    fails,  \* bound: failures so far
    failed, \* history: something failed, or the user renamed, since the last start
    last,   \* history: the file in front when the index was last written whole
    wished  \* history: the files the user renamed to .keep, less those whose making
            \* again was cut short

disk == <<dir, kept, index>>
ghosts == <<failed, last, wished>>
vars == <<disk, on, files, old, at, held, fails, ghosts>>

Item(n, s) == [name |-> n, size |-> s]
NamesOf(list) == {list[i].name : i \in DOMAIN list}
Total(list) == FoldSeq(LAMBDA item, sum : sum + item.size, 0, list)
Without(f, S) == [n \in DOMAIN f \ S |-> f[n]]
With(f, n, s) == [m \in DOMAIN f \union {n} |-> IF m = n THEN s ELSE f[m]]

\* The operation: where it stands, what it is part of, the file it makes and the
\* document's size, the place in the list and the size counted before it, and the
\* files that could not be deleted.
Idle == [op |-> "idle", goal |-> "none", name |-> None, size |-> 0, i |-> 1, used |-> 0,
         left |-> {}]

Init ==
    /\ dir = << >> /\ kept = {} /\ index = Torn
    /\ on = FALSE /\ files = << >> /\ old = Unknown /\ at = Idle /\ held = {}
    /\ fails = 0 /\ failed = FALSE /\ last = None /\ wished = {}

\* One more operation on the disk fails.
Fail == fails < MaxFails /\ fails' = fails + 1 /\ failed' = TRUE

-----------------------------------------------------------------------------
(* reserve: from the front of the list, a file that does not fit with those *)
(* before it is deleted, and one that is not there forgotten.  The file in  *)
(* front stays, however large, unless there is room to be made.             *)

\* Mutant: the file in front goes as well when it is too large.
TooMuchAny(i, used, alloc) == alloc + used + files[i].size > MaxSize

TooMuch(i, used, alloc) == (i > 1 \/ alloc > 0) /\ alloc + used + files[i].size > MaxSize

\* Mutant: the file is forgotten and stays on the disk.
DroppedLeft(n) == dir' = dir /\ UNCHANGED <<fails, failed>>

Dropped(n) == dir' = Without(dir, {n}) /\ UNCHANGED <<fails, failed>>

ReserveStep ==
    LET i == at.i
        counted == [at EXCEPT !.i = i + 1, !.used = at.used + files[i].size]
    IN
    /\ at.op = "reserve" /\ i <= Len(files)
    /\ \/ /\ files[i].name \notin DOMAIN dir
          /\ files' = RemoveAt(files, i) /\ at' = at
          /\ UNCHANGED <<dir, fails, failed>>
       \/ /\ files[i].name \in DOMAIN dir /\ TooMuch(i, at.used, at.size \div 10)
          /\ \/ Dropped(files[i].name) /\ files' = RemoveAt(files, i) /\ at' = at
             \/ Fail /\ at' = counted /\ UNCHANGED <<dir, files>>
       \/ /\ files[i].name \in DOMAIN dir /\ ~TooMuch(i, at.used, at.size \div 10)
          /\ at' = counted /\ UNCHANGED <<dir, files, fails, failed>>
    /\ UNCHANGED <<kept, index, on, old, held, last, wished>>

ReserveDone ==
    /\ at.op = "reserve" /\ at.i > Len(files)
    /\ at' = [at EXCEPT !.op = IF at.goal = "create" THEN "create" ELSE "index"]
    /\ UNCHANGED <<disk, on, files, old, held, fails, ghosts>>

-----------------------------------------------------------------------------
(* writeIndex: not when the file is the same; else truncated, then written. *)

FrontName == IF files = << >> THEN None ELSE Head(files).name

\* What is known of the file: at the first writeIndex it is read.
Known == IF old = Unknown /\ index # Torn THEN index ELSE old

\* Mutant: only the sizes are compared.
SameLength(list) == Known \notin {Unknown, Torn} /\ Len(Known) = Len(list)

SameIndex(list) == Known = list

\* init gives the cache up when its index cannot be written; the other
\* operations do not ask.
Finished(ok) ==
    /\ at' = Idle
    /\ on' = (ok \/ at.goal \notin {"start", "startover"})

IndexSame ==
    /\ at.op = "index" /\ SameIndex(files)
    /\ old' = Known /\ Finished(TRUE)
    /\ last' = IF index = files THEN FrontName ELSE None
    /\ UNCHANGED <<disk, files, held, fails, failed, wished>>

IndexOpened ==
    /\ at.op = "index" /\ ~SameIndex(files)
    /\ old' = Known
    /\ \/ /\ index' = Torn /\ last' = None /\ at' = [at EXCEPT !.op = "write"]
          /\ UNCHANGED <<on, fails, failed>>
       \/ Fail /\ Finished(FALSE) /\ UNCHANGED <<index, last>>
    /\ UNCHANGED <<dir, kept, files, held, wished>>

IndexWritten ==
    /\ at.op = "write"
    /\ \/ /\ index' = files /\ old' = files /\ last' = FrontName
          /\ Finished(TRUE) /\ UNCHANGED <<fails, failed>>
       \/ Fail /\ Finished(FALSE) /\ UNCHANGED <<index, old, last>>
    /\ UNCHANGED <<dir, kept, files, held, wished>>

-----------------------------------------------------------------------------
(* init: a new instance reads the index.  Files it does not list are        *)
(* deleted, but only when it could be read; the list is cut to the limit    *)
(* and written back.                                                        *)

Start ==
    /\ at = Idle
    /\ old' = Unknown /\ on' = FALSE /\ failed' = FALSE
    /\ IF index # Torn
       THEN files' = index /\ at' = [Idle EXCEPT !.op = "sweep", !.goal = "start"]
       ELSE files' = << >> /\ at' = [Idle EXCEPT !.op = "reserve", !.goal = "startover"]
    /\ UNCHANGED <<disk, held, fails, last, wished>>

Unlisted == DOMAIN dir \ NamesOf(files)

\* Mutant: the files the index does not list stay.
ExtraNone == {}

\* removeExtraFiles looks at each file once.
Extra == Unlisted \ at.left

SweepStep ==
    /\ at.op = "sweep"
    /\ \/ \E n \in Extra : Dropped(n) /\ at' = at
       \/ \E n \in Extra :
            Fail /\ dir' = dir /\ at' = [at EXCEPT !.left = @ \union {n}]
       \/ Extra = {} /\ at' = [at EXCEPT !.op = "reserve", !.left = {}]
          /\ UNCHANGED <<dir, fails, failed>>
    /\ UNCHANGED <<kept, index, on, files, old, held, last, wished>>

-----------------------------------------------------------------------------
(* moveFileToTop, openExisting and createNew *)

\* findFileIndex of a file that is listed: the first of the name.
FileIndex(n) ==
    CHOOSE i \in DOMAIN files :
        files[i].name = n /\ \A j \in 1..(i - 1) : files[j].name # n

Others(n) == IF n \in NamesOf(files) THEN RemoveAt(files, FileIndex(n)) ELSE files

ToTop(n, s) == <<Item(n, s)>> \o Others(n)

Opened(n) == held' = held \union {n}

\* A .keep file is taken before the list is looked at.
OpenKept(n) ==
    /\ on /\ at = Idle /\ n \in kept
    /\ Opened(n)
    /\ UNCHANGED <<disk, on, files, old, at, fails, ghosts>>

\* Opening to append creates the file when it is not there.
OpenExisting(n) ==
    /\ on /\ at = Idle /\ n \in NamesOf(files)
    /\ n \in kept => fails < MaxFails
    /\ fails' = IF n \in kept THEN fails + 1 ELSE fails
    /\ failed' = (failed \/ n \in kept)
    /\ Opened(n)
    /\ dir' = IF n \in DOMAIN dir THEN dir ELSE With(dir, n, 0)
    /\ files' = ToTop(n, dir'[n])
    /\ at' = [Idle EXCEPT !.op = "index", !.goal = "open"]
    /\ UNCHANGED <<kept, index, on, old, last, wished>>

\* createNew: a .keep file is deleted, with the file it stands for, and made
\* again; else room is made for a tenth of the document.
Create(n, s) ==
    /\ on /\ at = Idle
    /\ last' = None
    /\ IF n \in kept
       THEN /\ kept' = kept \ {n} /\ dir' = Without(dir, {n})
            /\ at' = [Idle EXCEPT !.op = "rekeep", !.goal = "create", !.name = n, !.size = s]
       ELSE /\ UNCHANGED <<kept, dir>>
            /\ at' = [Idle EXCEPT !.op = "reserve", !.goal = "create", !.name = n, !.size = s]
    /\ UNCHANGED <<index, on, files, old, held, fails, failed, wished>>

\* Mutant: the file is made again as one the cache looks after.
RekeptPlain(n) == dir' = With(dir, n, 0) /\ kept' = kept

Rekept(n) == kept' = kept \union {n} /\ dir' = dir

Rekeep ==
    /\ at.op = "rekeep"
    /\ \/ Rekept(at.name) /\ Opened(at.name) /\ at' = Idle
          /\ UNCHANGED <<fails, failed, wished>>
       \/ Fail /\ at' = [at EXCEPT !.op = "reserve"] /\ wished' = wished \ {at.name}
          /\ UNCHANGED <<dir, kept, held>>
    /\ UNCHANGED <<index, on, files, old, last>>

\* The old file is deleted and a new one opened, or not; in the list it is as
\* large as the document.
CreateFile ==
    /\ at.op = "create"
    /\ \/ /\ dir' = With(dir, at.name, 0) /\ Opened(at.name)
          /\ files' = ToTop(at.name, at.size)
          /\ at' = [at EXCEPT !.op = "index"] /\ UNCHANGED <<fails, failed>>
       \/ /\ Fail /\ dir' = Without(dir, {at.name}) /\ at' = Idle
          /\ UNCHANGED <<files, held>>
    /\ UNCHANGED <<kept, index, on, old, last, wished>>

-----------------------------------------------------------------------------
(* clear deletes the listed files, then writes an empty list. *)

Clear ==
    /\ on /\ at = Idle
    /\ at' = [Idle EXCEPT !.op = "clear", !.goal = "clear"] /\ last' = None
    /\ UNCHANGED <<disk, on, files, old, held, fails, failed, wished>>

ClearStep ==
    /\ at.op = "clear"
    /\ \/ /\ at.i <= Len(files)
          /\ \/ Dropped(files[at.i].name)
             \/ files[at.i].name \in DOMAIN dir /\ Fail /\ dir' = dir
          /\ at' = [at EXCEPT !.i = at.i + 1] /\ files' = files
       \/ /\ at.i > Len(files)
          /\ files' = << >> /\ at' = [at EXCEPT !.op = "index"]
          /\ UNCHANGED <<dir, fails, failed>>
    /\ UNCHANGED <<kept, index, on, old, held, last, wished>>

-----------------------------------------------------------------------------
(* The documents, the user and the machine *)

Grow(n, s) ==
    /\ at = Idle /\ n \in held /\ n \in DOMAIN dir /\ s > dir[n]
    /\ dir' = [dir EXCEPT ![n] = s]
    /\ UNCHANGED <<kept, index, on, files, old, at, held, fails, ghosts>>

CloseDocument(n) ==
    /\ at = Idle /\ n \in held /\ held' = held \ {n}
    /\ UNCHANGED <<disk, on, files, old, at, fails, ghosts>>

\* The user renames a file nobody has open.
Rename(n) ==
    /\ n \in DOMAIN dir /\ n \notin held /\ at = Idle
    /\ Cardinality(kept) < MaxKept
    /\ dir' = Without(dir, {n}) /\ kept' = kept \union {n}
    /\ wished' = wished \union {n} /\ failed' = TRUE
    /\ UNCHANGED <<index, on, files, old, at, held, fails, last>>

\* The program is stopped, or closes the cache when nothing is under way.
Kill ==
    /\ on \/ at # Idle
    /\ on' = FALSE /\ files' = << >> /\ old' = Unknown /\ at' = Idle /\ held' = {}
    /\ failed' = TRUE
    /\ wished' = IF at.op = "rekeep" THEN wished \ {at.name} ELSE wished
    /\ UNCHANGED <<disk, fails, last>>

Step ==
    \/ ReserveStep \/ ReserveDone \/ IndexSame \/ IndexOpened \/ IndexWritten
    \/ SweepStep \/ Rekeep \/ CreateFile \/ ClearStep

Next ==
    \/ Step \/ Start \/ Clear \/ Kill
    \/ \E n \in Names :
         \/ OpenKept(n) \/ OpenExisting(n) \/ CloseDocument(n) \/ Rename(n)
         \/ \E s \in DocSizes : Create(n, s)
         \/ \E s \in FileSizes : Grow(n, s)

Spec == Init /\ [][Next]_vars

-----------------------------------------------------------------------------
(* Properties *)

(* The list names each file once, over moves to its front, reserves that    *)
(* take items out, and index files read back.                               *)
TypeOK ==
    /\ DOMAIN dir \subseteq Names /\ kept \subseteq Names /\ held \subseteq Names
    /\ wished \subseteq Names /\ last \in Names \union {None}
    /\ index = Torn \/ NamesOf(index) \subseteq Names
    /\ on \in BOOLEAN /\ failed \in BOOLEAN /\ fails \in 0..MaxFails
    /\ \A i, j \in DOMAIN files : i # j => files[i].name # files[j].name

(* The index file and the list are the same.                                *)
IndexTold ==
    on /\ at = Idle /\ ~failed => index = files /\ NamesOf(files) \subseteq DOMAIN dir \union kept

(* Between two operations the index on the disk lists what the program      *)
(* lists, and each file of the list is there, as long as no operation on    *)
(* the disk failed: writeIndex leaves the index alone when it has not       *)
(* changed, and every way through the operations ends in it.                *)
IndexSound == TypeOK /\ IndexTold

(* The file of the document opened last stays through any number of kills   *)
(* and starts, however large it is, until another file is made or the index *)
(* is lost half written.                                                    *)
LastSurvives ==
    at = Idle /\ last # None => last \in DOMAIN dir \union kept

(* A cache file the user renamed to .keep is there after every operation,   *)
(* whatever failed and whenever the program was stopped, unless it was in   *)
(* the middle of a createNew of its own document.                           *)
WishedStay ==
    at = Idle => wished \subseteq kept

(* A start that reads the index leaves in the directory what it lists and   *)
(* nothing else, and all but the first of them within the limit.            *)
StartAgrees ==
    [][ at.goal = "start" /\ at'.op = "idle" /\ on' /\ ~failed' =>
          /\ DOMAIN dir' = NamesOf(files')
          /\ Len(files') > 1 => Total(Tail(files')) <= MaxSize ]_vars
=============================================================================
