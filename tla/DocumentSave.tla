---------------------------- MODULE DocumentSave ----------------------------
(***************************************************************************)
(* How a document gets into its cache file and back: saveChanges,          *)
(* swapToCache, updateMap, openFromCache and the destructor of             *)
(* ldomDocument, crengine/src/lvtinydom/ldomdocument.cpp, with             *)
(* createCacheFile and openCacheFile of lvtinynodecollection.cpp.          *)
(*                                                                         *)
(* A save goes through stages, each of which writes some part of the       *)
(* document.  With a time limit it stops between two stages and goes on    *)
(* there the next time; the document may change meanwhile, and parts of it *)
(* are swapped out at any time (DataStorage).  The program may be killed   *)
(* between any two steps.                                                  *)
(*                                                                         *)
(* The cache file is what BlockStore says: its header says dirty before    *)
(* anything is written to it, and a file that is dirty is not opened.      *)
(***************************************************************************)
EXTENDS Integers, Sequences, FiniteSets

CONSTANTS
    Nothing,   \* what a part is that is not there
    Broken,    \* nodes saved while some were not persistent
    Modes,     \* the ways the program above saves documents: see mode
    LoadSwaps, \* whether memory is short while a document is loaded
    SwappedOut, \* bound: the storages that memory may be short for
    MaxVersion, \* bound: changes of the document
    MaxFails    \* bound: operations on the cache file that fail

ASSUME DocumentSaveAssumption ==
    /\ Modes \subseteq {"whole", "steady", "timed"} /\ LoadSwaps \in BOOLEAN
    /\ MaxVersion \in Nat \ {0} /\ MaxFails \in Nat
    /\ SwappedOut \subseteq {"elements", "texts", "rects", "nodeStyles"}
    /\ Nothing # Broken /\ {Nothing, Broken} \cap Nat = {}

VARIABLES
    mode,     \* "whole": no save has a time limit; "timed": saves may have one;
              \* "steady": so they may, and the document is left alone once one began
    session,  \* "none", "running", "saving" or "closing" (the destructor saves)
    doc,      \* the version of each part of the document
    mutable,  \* some nodes are not persistent
    mapped,   \* _mapped
    stale,    \* _cacheFileStale
    rejected, \* _cacheFileLeaveAsDirty
    maperror, \* _maperror
    stage,    \* _mapSavingStage, counted from 0 in the order of the stages
    call,     \* the save that is running
    file,     \* the cache file
    opened,   \* _cacheFile is there
    versions, \* bound: versions of the document so far
    fails,    \* bound: failures so far
    docs      \* history: the documents there were

memory == <<doc, mutable, mapped, stale, rejected, maperror, stage, opened>>
vars == <<mode, session, memory, call, file, versions, fails, docs>>

Timed == mode # "whole"
Steady == mode = "steady"

\* The parts each stage writes.  Stage 0 makes the nodes persistent.
Stages ==
    << {"elements"}, {"texts"}, {"rects"}, {"blobs"}, {"nodeStyles"}, {"props"},
       {"maps"}, {"pages"}, {"nodes"}, {"header", "toc", "pageMap"}, {"styles"},
       {"fonts"} >>

Parts == UNION {Stages[k] : k \in DOMAIN Stages}

FlushStage == Len(Stages) + 1
DoneStage == Len(Stages) + 2

\* What a new rendering makes anew.
RenderedParts == Parts \ {"texts", "blobs", "props", "fonts"}

NoFile == [exists |-> FALSE, dirty |-> TRUE, blocks |-> [p \in Parts |-> Nothing]]

\* createNew and create: an empty file, which is dirty.
NewFile == [NoFile EXCEPT !.exists = TRUE]

NoCall == [timed |-> FALSE, swaps |-> FALSE, moved |-> FALSE]

\* What is written of part p.
Content(p) == IF p = "nodes" /\ mutable THEN Broken ELSE doc[p]

\* The file after some parts are written: a block that is the same is not.
Written(parts) ==
    LET blocks == [p \in Parts |-> IF p \in parts THEN Content(p) ELSE file.blocks[p]]
    IN [file EXCEPT !.blocks = blocks, !.dirty = @ \/ blocks # file.blocks]

-----------------------------------------------------------------------------
(* The document *)

\* The document becomes d.
DocIs(d) ==
    /\ doc' = d
    /\ docs' = docs \union {d}

Changed(parts) ==
    /\ versions < MaxVersion
    /\ versions' = versions + 1
    /\ DocIs([p \in Parts |-> IF p \in parts THEN versions + 1 ELSE doc[p]])

\* What a change leaves alone.
ChangeOnly ==
    /\ session = "running"
    /\ Steady => stage = 0
    /\ UNCHANGED <<session, mapped, rejected, maperror, stage, call, file, opened, fails>>

\* Mutant: a new rendering does not make the cache file stale.
RenderFresh ==
    /\ ChangeOnly
    /\ Changed(RenderedParts)
    /\ mutable' \in {mutable, TRUE}
    /\ UNCHANGED stale

\* render, and the changes to nodes that lead to it.
Render ==
    /\ ChangeOnly
    /\ Changed(RenderedParts)
    /\ mutable' \in {mutable, TRUE}
    /\ stale' = TRUE

\* addBlob
AddBlob ==
    /\ ChangeOnly
    /\ Changed({"blobs"})
    /\ UNCHANGED mutable
    /\ stale' = TRUE

\* buildAlternativeToc
BuildAlternativeToc ==
    /\ ChangeOnly
    /\ Changed({"toc"})
    /\ UNCHANGED mutable
    /\ stale' = TRUE

\* invalidateCacheFile
InvalidateCacheFile ==
    /\ session = "running"
    /\ rejected' = TRUE
    /\ UNCHANGED <<session, doc, mutable, mapped, stale, maperror, stage, call, file,
                   opened, versions, fails, docs>>

\* ldomDataStorageManager::compact: chunks of a storage are swapped out, to a
\* cache file that is created if there is none.  Some may need no write.
SwapOut(p) ==
    /\ session = "running"
    /\ opened' = TRUE /\ mapped' = (mapped \/ ~opened)
    /\ stale' = TRUE
    /\ file' \in (IF opened THEN {file, Written({p})}
                  ELSE {NewFile, [NewFile EXCEPT !.blocks[p] = doc[p]]})
    /\ UNCHANGED <<session, doc, mutable, rejected, maperror, stage, call, versions,
                   fails, docs>>

-----------------------------------------------------------------------------
(* Saving *)

\* What the steps of a save leave alone.
SaveOnly == UNCHANGED <<mode, doc, mapped, rejected, opened, versions, docs>>

\* Mutant: every save goes on where the last one stopped.
BeganAt(limited) == stage

\* saveChanges, which stage it begins with.
Began(limited) == IF limited THEN stage ELSE 0

Begin(limited, swapping, next) ==
    /\ session' = next
    /\ call' = [timed |-> limited, swaps |-> swapping, moved |-> FALSE]
    /\ stage' = Began(limited)
    /\ stale' = TRUE

\* updateMap: saves what changed to a cache file there is.
UpdateMap(limited) ==
    /\ session = "running" /\ (limited => Timed)
    /\ opened /\ mapped /\ ~rejected /\ stale
    /\ Begin(limited, FALSE, "saving")
    /\ UNCHANGED <<mutable, maperror, file, fails>>
    /\ SaveOnly

\* updateMap of a document that asked for its cache file not to be used again.
UpdateRejected ==
    /\ session = "running"
    /\ opened /\ mapped /\ rejected
    /\ file' = [file EXCEPT !.dirty = TRUE]
    /\ UNCHANGED <<session, mutable, stale, maperror, stage, call, fails>>
    /\ SaveOnly

\* swapToCache with a time limit: the cache file is created, nothing is saved.
SwapLater ==
    /\ session = "running" /\ Timed
    /\ ~maperror /\ ~mapped
    /\ mapped' = TRUE /\ opened' = TRUE
    /\ IF opened THEN UNCHANGED <<file, stale>> ELSE file' = NewFile /\ stale' = TRUE
    /\ UNCHANGED <<session, doc, mutable, rejected, maperror, stage, call, versions,
                   fails, docs>>

\* swapToCache without a time limit.
SwapToCache ==
    /\ session = "running" /\ ~maperror
    /\ Begin(FALSE, TRUE, "saving")
    /\ mapped' = TRUE /\ opened' = TRUE
    /\ file' = IF opened THEN file ELSE NewFile
    /\ UNCHANGED <<doc, mutable, rejected, maperror, versions, fails, docs>>

\* swapToCache, when the cache file cannot be created.
SwapFails ==
    /\ session = "running" /\ ~maperror /\ ~mapped /\ ~opened
    /\ fails < MaxFails /\ fails' = fails + 1
    /\ maperror' = TRUE
    /\ UNCHANGED <<session, mutable, stale, stage, call, file>>
    /\ SaveOnly

InSave == session \in {"saving", "closing"}

\* The save returns to the running session.
Returned == session' = "running" /\ call' = NoCall

\* The document is gone, and what it kept in memory.
Gone ==
    /\ session' = "none" /\ call' = NoCall
    /\ doc' = [p \in Parts |-> Nothing] /\ mutable' = FALSE
    /\ mapped' = FALSE /\ stale' = TRUE /\ rejected' = FALSE /\ maperror' = FALSE
    /\ stage' = 0 /\ opened' = FALSE
    /\ UNCHANGED <<mode, versions, docs>>

\* Stage 0: persist.
Persist ==
    /\ InSave /\ stage = 0
    /\ mutable' = FALSE
    /\ stage' = 1
    /\ call' = [call EXCEPT !.moved = TRUE]
    /\ UNCHANGED <<session, stale, maperror, file, fails>>
    /\ SaveOnly

\* A stage that writes.
SaveStage ==
    /\ InSave /\ stage \in DOMAIN Stages
    /\ file' = Written(Stages[stage])
    /\ stage' = stage + 1
    /\ call' = [call EXCEPT !.moved = TRUE]
    /\ UNCHANGED <<session, mutable, stale, maperror, fails>>
    /\ SaveOnly

\* The stage that commits: flush(true).
FlushAll ==
    /\ InSave /\ stage = FlushStage
    /\ file' = [file EXCEPT !.dirty = FALSE]
    /\ stage' = DoneStage
    /\ call' = [call EXCEPT !.moved = TRUE]
    /\ UNCHANGED <<session, mutable, stale, maperror, fails>>
    /\ SaveOnly

\* The last stage.
Done ==
    /\ session = "saving" /\ stage = DoneStage
    /\ stale' = FALSE
    /\ Returned
    /\ UNCHANGED <<mutable, maperror, stage, file, fails>>
    /\ SaveOnly

DoneClosing ==
    /\ session = "closing" /\ stage = DoneStage
    /\ Gone
    /\ UNCHANGED <<file, fails>>

\* Mutant: the next save starts from the beginning.
NextStageFirst(k) == 0

\* Where the next save with a time limit goes on: the stage that expired.
NextStage(k) == k

\* The time is up after a stage, of which all or nothing may be written.  The
\* style sheets are written without a look at the time.  The caller gives a save
\* enough time for one stage at least.
Expire ==
    /\ InSave /\ call.timed /\ call.moved
    /\ stage # DoneStage /\ (stage \in DOMAIN Stages => Stages[stage] # {"styles"})
    /\ mutable' \in {mutable, mutable /\ stage # 0}
    /\ file' \in CASE stage = 0 -> {file}
                   [] stage \in DOMAIN Stages -> {Written({}), Written(Stages[stage])}
                   [] stage = FlushStage -> {[file EXCEPT !.dirty = FALSE]}
    /\ stage' = NextStage(stage)
    /\ Returned
    /\ UNCHANGED <<stale, maperror, fails>>
    /\ SaveOnly

\* A stage fails: some of its parts may be written, and the file is dirty.
StageFails ==
    /\ stage \in 1 .. FlushStage
    /\ fails < MaxFails /\ fails' = fails + 1
    /\ file' \in (IF stage = FlushStage THEN {[file EXCEPT !.dirty = TRUE]}
                  ELSE {[Written(some) EXCEPT !.dirty = TRUE] : some \in SUBSET Stages[stage]})

Fail ==
    /\ session = "saving" /\ StageFails
    /\ maperror' = (maperror \/ call.swaps)
    /\ Returned
    /\ UNCHANGED <<mutable, stale, stage>>
    /\ SaveOnly

FailClosing == session = "closing" /\ StageFails /\ Gone

-----------------------------------------------------------------------------
(* Sessions *)

\* A new object.
Fresh ==
    /\ session' = "running"
    /\ rejected' = FALSE /\ maperror' = FALSE /\ stage' = 0 /\ call' = NoCall

\* The document is made from its source, which is version 0, and not rendered yet.
Parsed ==
    /\ UNCHANGED versions
    /\ DocIs([p \in Parts |-> IF p = "pages" THEN Nothing ELSE 0])
    /\ mutable' = TRUE
    /\ mapped' = FALSE /\ stale' = TRUE

Loadable == \A p \in Parts : file.blocks[p] \notin {Nothing, Broken}

\* Mutant: a cache file is opened whether it is dirty or not.
AcceptedDirty == file.exists

\* openCacheFile: what CacheFile::open accepts.
Accepted == file.exists /\ ~file.dirty

\* openFromCache.  Chunks that are changed while the document is loaded may be
\* swapped out.
OpenFromCache ==
    /\ session = "none" /\ Accepted /\ Loadable
    /\ Fresh
    /\ DocIs(file.blocks)
    /\ mutable' = FALSE
    /\ mapped' = TRUE /\ opened' = TRUE /\ stale' = FALSE
    /\ file' \in (IF LoadSwaps THEN {file, [file EXCEPT !.dirty = TRUE]} ELSE {file})
    /\ UNCHANGED <<versions, fails>>

\* There is no cache file, or one that is not accepted.
OpenSource ==
    /\ session = "none" /\ ~Accepted
    /\ Fresh /\ Parsed
    /\ opened' = FALSE
    /\ UNCHANGED <<file, fails>>

\* loadCacheFileContent fails: the document is made from its source, with the
\* cache file left open.
OpenUnloadable ==
    /\ session = "none" /\ Accepted /\ ~Loadable
    /\ Fresh /\ Parsed
    /\ opened' = TRUE
    /\ UNCHANGED <<file, fails>>

\* Mutant: a cache file that is not stale is left as it is before anything else.
ClosesFirst == IF ~stale THEN "as it is" ELSE IF rejected THEN "dirty" ELSE "saved"

\* updateMap, in which order it decides.
Closes == IF rejected THEN "dirty" ELSE IF ~stale THEN "as it is" ELSE "saved"

\* The destructor, when there is something to save.
CloseSaving ==
    /\ session = "running" /\ opened /\ mapped /\ Closes = "saved"
    /\ Begin(FALSE, FALSE, "closing")
    /\ UNCHANGED <<mutable, maperror, file, fails>>
    /\ SaveOnly

\* The destructor, when there is not.
CloseNow ==
    /\ session = "running"
    /\ opened /\ mapped => Closes # "saved"
    /\ file' = IF opened /\ mapped /\ Closes = "dirty"
               THEN [file EXCEPT !.dirty = TRUE] ELSE file
    /\ Gone
    /\ UNCHANGED fails

\* The program is killed.
Kill == session # "none" /\ Gone /\ UNCHANGED <<file, fails>>

Init ==
    /\ mode \in Modes
    /\ session = "none" /\ call = NoCall
    /\ doc = [p \in Parts |-> Nothing] /\ mutable = FALSE
    /\ mapped = FALSE /\ stale = TRUE /\ rejected = FALSE /\ maperror = FALSE
    /\ stage = 0 /\ opened = FALSE
    /\ file = NoFile
    /\ versions = 0 /\ fails = 0
    /\ docs = {}

Step ==
    \/ Render \/ AddBlob \/ BuildAlternativeToc \/ InvalidateCacheFile
    \/ \E p \in SwappedOut : SwapOut(p)
    \/ \E limited \in BOOLEAN : UpdateMap(limited)
    \/ UpdateRejected \/ SwapLater \/ SwapToCache \/ SwapFails
    \/ Persist \/ SaveStage \/ FlushAll \/ Done \/ DoneClosing
    \/ Expire \/ Fail \/ FailClosing
    \/ OpenFromCache \/ OpenSource \/ OpenUnloadable \/ CloseSaving \/ CloseNow \/ Kill

Next == Step /\ UNCHANGED mode

Spec == Init /\ [][Next]_vars

\* A save runs on, and one that timed out is called again.
Fairness ==
    /\ WF_vars(Persist) /\ WF_vars(SaveStage) /\ WF_vars(FlushAll) /\ WF_vars(Done)
    /\ WF_vars(DoneClosing)
    /\ WF_vars(UpdateMap(TRUE))

FairSpec == Spec /\ Fairness

-----------------------------------------------------------------------------
(* Properties *)

\* The type invariant: a save runs only with a cache file that counts as stale.
TypeOK ==
    /\ session \in {"none", "running", "saving", "closing"}
    /\ stage \in 0 .. DoneStage
    /\ doc \in [Parts -> 0 .. MaxVersion \union {Nothing}]
    /\ file.blocks \in [Parts -> 0 .. MaxVersion \union {Nothing, Broken}]
    /\ InSave => opened /\ mapped /\ stale
    /\ call.timed => Timed /\ session = "saving"

\* The cache file the next session accepts holds the document as it was at one
\* moment: never some parts from before a change and some from after it, nor
\* nodes that cannot be loaded.
AcceptedIsOneDocument == Accepted => file.blocks \in docs

\* What is not stale is in the cache file.
NotStaleMeansSaved ==
    session = "running" /\ mapped /\ ~stale /\ ~rejected => Accepted /\ file.blocks = doc

\* A document that counts as saved is saved: its cache file is accepted by the
\* next session and holds it.  It is closed without another look (updateMap).  One
\* that is being saved counts as stale until the save has come to its end.
StaleSound == TypeOK /\ NotStaleMeansSaved

\* A cache file that was asked to be left dirty is not accepted once the document
\* is closed, whatever was saved to it in between.
RejectedStaysOut ==
    [][session = "running" /\ rejected /\ mapped /\ opened /\ CloseNow => ~Accepted']_vars

\* Saves with a time limit, called again whenever they time out, come to an end.
TimedSavesFinish ==
    (Steady /\ session = "running" /\ mapped /\ stage > 0)
      ~> (stage = DoneStage \/ session = "none" \/ rejected)
=============================================================================
