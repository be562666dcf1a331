-------------------------- MODULE DocumentSaveProofs --------------------------
(***************************************************************************)
(* Proofs about saving and loading, for any number of changes and of       *)
(* failures and any storages that are swapped out.                         *)
(*                                                                         *)
(* While a save runs, and between the saves with a time limit of a         *)
(* document that is left alone, the cache file has every part whose stage  *)
(* is done as the document has it.  So the stage that commits finds the    *)
(* whole document in the file.                                             *)
(***************************************************************************)
EXTENDS DocumentSave, TLAPS

\* The document is left alone while a save is under way: all modes but "timed".
LeftAlone == mode # "timed"

\* The stages that are done still hold: a save runs, or the next one will go on.
UnderWay == InSave \/ Steady

\* The parts of the stages before stage k.
PartsBefore(k) == UNION {Stages[j] : j \in {i \in DOMAIN Stages : i < k}}

Blocks == [Parts -> 0 .. MaxVersion \union {Nothing, Broken}]

RestTyped ==
    /\ mode \in Modes
    /\ versions \in 0 .. MaxVersion
    /\ mutable \in BOOLEAN /\ mapped \in BOOLEAN /\ stale \in BOOLEAN
    /\ rejected \in BOOLEAN /\ maperror \in BOOLEAN /\ opened \in BOOLEAN
    /\ call \in [timed : BOOLEAN, swaps : BOOLEAN, moved : BOOLEAN]
    /\ file \in [exists : BOOLEAN, dirty : BOOLEAN, blocks : Blocks]

\* Without a document there is no save; one that began has its cache file.
StageSettled ==
    /\ session = "none" => stage = 0
    /\ stage > 0 => opened
    /\ opened => file.exists

\* Only a document with a cache file counts as saved.
StaleUnlessMapped == ~mapped => stale

DocKnown == session # "none" => doc \in docs

\* The parts whose stage is done are in the file as the document has them.
StagesDone ==
    LeftAlone /\ UnderWay /\ stage > 0 =>
        /\ ~mutable
        /\ \A p \in PartsBefore(stage) : file.blocks[p] = doc[p]

\* Once the last stage is reached the file stays committed.
DoneCommitted ==
    LeftAlone /\ stage = DoneStage /\ (InSave \/ (Steady /\ ~rejected)) => Accepted

AcceptedKnown == LeftAlone => AcceptedIsOneDocument

SavedKnown == LeftAlone /\ ~LoadSwaps => NotStaleMeansSaved

IInv ==
    /\ TypeOK /\ RestTyped /\ StageSettled /\ StaleUnlessMapped /\ DocKnown
    /\ StagesDone /\ DoneCommitted /\ AcceptedKnown /\ SavedKnown

-----------------------------------------------------------------------------
(* The stages *)

LEMMA StageNumbers ==
    /\ DOMAIN Stages = 1..12 /\ FlushStage = 13 /\ DoneStage = 14
    /\ \A k \in DOMAIN Stages : Stages[k] \subseteq Parts
<1>1. Len(Stages) = 12 /\ DOMAIN Stages = 1..12
  BY DEF Stages
<1>2. \A k \in DOMAIN Stages : Stages[k] \subseteq Parts
  BY DEF Parts
<1> QED
  BY <1>1, <1>2 DEF FlushStage, DoneStage

\* With each stage its parts are done, and after the last one all are.
LEMMA PartsBeforeIs ==
    /\ PartsBefore(1) = {}
    /\ \A k \in DOMAIN Stages : PartsBefore(k + 1) = PartsBefore(k) \union Stages[k]
    /\ PartsBefore(FlushStage) = Parts /\ PartsBefore(DoneStage) = Parts
    /\ \A k \in Nat : PartsBefore(k) \subseteq Parts
<1>1. PartsBefore(1) = {}
  BY StageNumbers DEF PartsBefore
<1>2. ASSUME NEW k \in DOMAIN Stages
      PROVE  PartsBefore(k + 1) = PartsBefore(k) \union Stages[k]
  <2>1. {i \in DOMAIN Stages : i < k + 1} = {i \in DOMAIN Stages : i < k} \union {k}
    BY StageNumbers
  <2> QED
    BY <2>1 DEF PartsBefore
<1>3. ASSUME NEW k \in {FlushStage, DoneStage} PROVE PartsBefore(k) = Parts
  <2>1. {i \in DOMAIN Stages : i < k} = DOMAIN Stages
    BY StageNumbers
  <2> QED
    BY <2>1 DEF PartsBefore, Parts
<1>4. \A k \in Nat : PartsBefore(k) \subseteq Parts
  BY StageNumbers DEF PartsBefore
<1> QED
  BY <1>1, <1>2, <1>3, <1>4

-----------------------------------------------------------------------------
(* What is written *)

LEMMA NewFileIs ==
    /\ NewFile \in [exists : BOOLEAN, dirty : BOOLEAN, blocks : Blocks]
    /\ NewFile.exists = TRUE /\ NewFile.dirty = TRUE
<1>1. [q \in Parts |-> Nothing] \in Blocks
  BY DEF Blocks
<1> QED
  BY <1>1 DEF NewFile, NoFile

\* A write leaves the file as it is, or makes it dirty.
LEMMA WrittenIs ==
    ASSUME IInv, NEW parts
    PROVE  LET w == Written(parts)
           IN /\ w \in [exists : BOOLEAN, dirty : BOOLEAN, blocks : Blocks]
              /\ w.exists = file.exists
              /\ \A p \in Parts : w.blocks[p] = IF p \in parts THEN Content(p)
                                                ELSE file.blocks[p]
              /\ w.dirty \/ w = file
<1> DEFINE b == [p \in Parts |-> IF p \in parts THEN Content(p) ELSE file.blocks[p]]
           w == [file EXCEPT !.blocks = b, !.dirty = @ \/ b # file.blocks]
<1>1. Written(parts) = w
  BY Zenon DEF Written
<1>2. /\ file \in [exists : BOOLEAN, dirty : BOOLEAN, blocks : Blocks]
      /\ doc \in [Parts -> 0 .. MaxVersion \union {Nothing}]
  BY DEF IInv, RestTyped, TypeOK
<1>3. \A p \in Parts : Content(p) \in 0 .. MaxVersion \union {Nothing, Broken}
  BY <1>2 DEF Content
<1>4. b \in Blocks
  BY <1>2, <1>3 DEF Blocks
<1> HIDE DEF b
<1>5. CASE b = file.blocks
  <2>1. (file.dirty \/ b # file.blocks) = file.dirty
    BY <1>2, <1>5
  <2>2. w = file
    BY <1>2, <1>5, <2>1
  <2> QED
    BY <1>1, <1>2, <1>5, <2>2 DEF b
<1>6. CASE b # file.blocks
  <2>1. (file.dirty \/ b # file.blocks) = TRUE
    BY <1>6
  <2>2. w = [file EXCEPT !.blocks = b, !.dirty = TRUE]
    BY <2>1
  <2>3. /\ w \in [exists : BOOLEAN, dirty : BOOLEAN, blocks : Blocks]
        /\ w.exists = file.exists /\ w.dirty = TRUE /\ w.blocks = b
    BY <1>2, <1>4, <2>2
  <2> QED
    BY <1>1, <2>3 DEF b
<1> QED
  BY <1>5, <1>6

\* Writing what the file has already changes nothing.
LEMMA WrittenAgain ==
    ASSUME IInv, NEW parts, \A p \in Parts \cap parts : file.blocks[p] = Content(p)
    PROVE  Written(parts) = file
<1> DEFINE b == [p \in Parts |-> IF p \in parts THEN Content(p) ELSE file.blocks[p]]
           w == [file EXCEPT !.blocks = b, !.dirty = @ \/ b # file.blocks]
<1>1. Written(parts) = w
  BY Zenon DEF Written
<1>2. file \in [exists : BOOLEAN, dirty : BOOLEAN, blocks : Blocks]
  BY DEF IInv, RestTyped
<1>3. b = file.blocks
  BY <1>2 DEF Blocks
<1> HIDE DEF b
<1>4. (file.dirty \/ b # file.blocks) = file.dirty
  BY <1>2, <1>3
<1> QED
  BY <1>1, <1>2, <1>3, <1>4

-----------------------------------------------------------------------------
(* The invariant *)

LEMMA IInvInit == Init => IInv
<1> SUFFICES ASSUME Init PROVE IInv
  OBVIOUS
<1>1. 0 \in 0 .. MaxVersion
  BY DocumentSaveAssumption
<1>2. NoFile \in [exists : BOOLEAN, dirty : BOOLEAN, blocks : Blocks] /\ NoFile.dirty = TRUE
  BY DEF NoFile, Blocks
<1>3. NoCall \in [timed : BOOLEAN, swaps : BOOLEAN, moved : BOOLEAN] /\ NoCall.timed = FALSE
  BY DEF NoCall
<1>4. TypeOK
  BY <1>1, <1>2, <1>3, StageNumbers DEF Init, TypeOK, InSave, Blocks
<1>5. RestTyped
  BY <1>1, <1>2, <1>3 DEF Init, RestTyped
<1> QED
  BY <1>2, <1>4, <1>5, StageNumbers
     DEF Init, IInv, StageSettled, StaleUnlessMapped, DocKnown, StagesDone, DoneCommitted,
         AcceptedKnown, AcceptedIsOneDocument, SavedKnown, NotStaleMeansSaved, Accepted, InSave

\* A change of the document: it counts as unsaved, and no save with a time limit began.
LEMMA ChangeKeeps ==
    ASSUME IInv, NEW parts, ChangeOnly, Changed(parts), mutable' \in BOOLEAN, stale' = TRUE,
           UNCHANGED mode
    PROVE  IInv'
<1>1. /\ session = "running" /\ (Steady => stage = 0)
      /\ UNCHANGED <<mode, session, mapped, rejected, maperror, stage, call, file, opened>>
      /\ versions < MaxVersion /\ versions' = versions + 1
      /\ doc' = [p \in Parts |-> IF p \in parts THEN versions + 1 ELSE doc[p]]
      /\ docs' = docs \union {doc'}
  BY DEF ChangeOnly, Changed, DocIs
<1>2. versions' \in 0 .. MaxVersion
  BY <1>1, DocumentSaveAssumption DEF IInv, RestTyped
<1>3. doc' \in [Parts -> 0 .. MaxVersion \union {Nothing}]
  BY <1>1, <1>2 DEF IInv, TypeOK
<1>4. TypeOK' /\ RestTyped'
  BY <1>1, <1>2, <1>3 DEF IInv, TypeOK, RestTyped, InSave, Timed
<1>5. StagesDone' /\ DoneCommitted'
  BY <1>1, StageNumbers DEF StagesDone, DoneCommitted, UnderWay, InSave, Steady
<1>6. AcceptedKnown' /\ SavedKnown'
  BY <1>1 DEF IInv, AcceptedKnown, AcceptedIsOneDocument, SavedKnown, NotStaleMeansSaved,
              LeftAlone, Accepted
<1> QED
  BY <1>1, <1>4, <1>5, <1>6 DEF IInv, StageSettled, StaleUnlessMapped, DocKnown

\* The document is gone, and left a file that is dirty or was accepted before.
LEMMA GoneKeeps ==
    ASSUME IInv, Gone, UNCHANGED mode,
           file' \in [exists : BOOLEAN, dirty : BOOLEAN, blocks : Blocks],
           LeftAlone => (Accepted' => file'.blocks \in docs)
    PROVE  IInv'
<1>1. /\ session' = "none" /\ call' = NoCall
      /\ doc' = [p \in Parts |-> Nothing] /\ mutable' = FALSE /\ mapped' = FALSE
      /\ stale' = TRUE /\ rejected' = FALSE /\ maperror' = FALSE
      /\ stage' = 0 /\ opened' = FALSE
      /\ UNCHANGED <<mode, versions, docs>>
  BY DEF Gone
<1>2. NoCall \in [timed : BOOLEAN, swaps : BOOLEAN, moved : BOOLEAN] /\ NoCall.timed = FALSE
  BY DEF NoCall
<1>3. TypeOK'
  BY <1>1, <1>2, StageNumbers DEF TypeOK, InSave, Blocks
<1>4. RestTyped'
  BY <1>1, <1>2 DEF IInv, RestTyped
<1> QED
  BY <1>1, <1>3, <1>4, StageNumbers
     DEF IInv, StageSettled, StaleUnlessMapped, DocKnown, StagesDone, DoneCommitted,
         AcceptedKnown, AcceptedIsOneDocument, SavedKnown, NotStaleMeansSaved, LeftAlone, InSave

\* A file as it was, or dirty, is not accepted unless it was.
LEMMA GoneDirtyKeeps ==
    ASSUME IInv, Gone, UNCHANGED mode, file' \in {file, [file EXCEPT !.dirty = TRUE]}
    PROVE  IInv'
<1>1. file \in [exists : BOOLEAN, dirty : BOOLEAN, blocks : Blocks]
  BY DEF IInv, RestTyped
<1>2. file' \in [exists : BOOLEAN, dirty : BOOLEAN, blocks : Blocks]
  BY <1>1
<1>3. LeftAlone => (Accepted' => file'.blocks \in docs)
  BY <1>1 DEF IInv, AcceptedKnown, AcceptedIsOneDocument, Accepted
<1> QED
  BY <1>2, <1>3, GoneKeeps

\* Memory is short: a storage is swapped out.
LEMMA SwapOutKeeps ==
    ASSUME IInv, NEW p \in SwappedOut, SwapOut(p), UNCHANGED mode
    PROVE  IInv'
<1>1. /\ session = "running" /\ session' = "running"
      /\ opened' = TRUE /\ mapped' = (mapped \/ ~opened) /\ stale' = TRUE
      /\ UNCHANGED <<mode, doc, mutable, rejected, maperror, stage, call, versions, docs>>
      /\ opened => file' \in {file, Written({p})}
      /\ ~opened => file' \in {NewFile, [NewFile EXCEPT !.blocks[p] = doc[p]]}
  BY DEF SwapOut
<1>2. /\ file \in [exists : BOOLEAN, dirty : BOOLEAN, blocks : Blocks]
      /\ doc \in [Parts -> 0 .. MaxVersion \union {Nothing}]
      /\ opened \in BOOLEAN /\ mapped \in BOOLEAN
  BY DEF IInv, RestTyped, TypeOK
<1>3. /\ file' \in [exists : BOOLEAN, dirty : BOOLEAN, blocks : Blocks]
      /\ file'.exists
      /\ file'.dirty \/ (opened /\ file' = file)
  <2>1. CASE opened
    BY <1>1, <1>2, <2>1, WrittenIs DEF IInv, StageSettled
  <2>2. CASE ~opened
    <3> DEFINE f == [NewFile EXCEPT !.blocks[p] = doc[p]]
    <3>1. [NewFile.blocks EXCEPT ![p] = doc[p]] \in Blocks
      BY <1>2, NewFileIs DEF Blocks
    <3>2. f = [NewFile EXCEPT !.blocks = [NewFile.blocks EXCEPT ![p] = doc[p]]]
      OBVIOUS
    <3>3. /\ f \in [exists : BOOLEAN, dirty : BOOLEAN, blocks : Blocks]
          /\ f.exists = TRUE /\ f.dirty = TRUE
      BY <3>1, <3>2, NewFileIs
    <3> QED
      BY <1>1, <2>2, <3>3, NewFileIs
  <2> QED
    BY <2>1, <2>2
<1>4. ASSUME LeftAlone, Steady, stage > 0
      PROVE  /\ \A q \in PartsBefore(stage) : file'.blocks[q] = file.blocks[q]
             /\ stage = DoneStage => file' = file
  <2>1. /\ opened /\ ~mutable /\ stage \in Nat
        /\ \A q \in PartsBefore(stage) : file.blocks[q] = Content(q)
    BY <1>4, StageNumbers DEF IInv, TypeOK, StageSettled, StagesDone, UnderWay, Content
  <2>2. PartsBefore(stage) \subseteq Parts
    BY <2>1, PartsBeforeIs
  <2>3. stage = DoneStage => Written({p}) = file
    BY <2>1, PartsBeforeIs, WrittenAgain
  <2> QED
    BY <1>1, <2>1, <2>2, <2>3, WrittenIs
<1>5. TypeOK'
  BY <1>1, <1>3 DEF IInv, TypeOK, InSave, Blocks, Timed
<1>6. RestTyped'
  BY <1>1, <1>2, <1>3 DEF IInv, RestTyped
<1>7. StagesDone' /\ DoneCommitted'
  <2>1. ~InSave /\ ~InSave'
    BY <1>1 DEF InSave
  <2>2. stage = DoneStage => stage > 0
    BY StageNumbers
  <2> QED
    BY <1>1, <1>4, <2>1, <2>2
       DEF IInv, StagesDone, DoneCommitted, UnderWay, Steady, LeftAlone, Accepted
<1>8. AcceptedKnown' /\ SavedKnown'
  BY <1>1, <1>3 DEF IInv, AcceptedKnown, AcceptedIsOneDocument, SavedKnown,
                    NotStaleMeansSaved, LeftAlone, Accepted
<1> QED
  BY <1>1, <1>3, <1>5, <1>6, <1>7, <1>8 DEF IInv, StageSettled, StaleUnlessMapped, DocKnown

\* A save begins: from the start, or, with a time limit, where the last one stopped.
LEMMA BeginKeeps ==
    ASSUME IInv, session = "running", UNCHANGED mode,
           NEW limited \in BOOLEAN, limited => Timed /\ opened /\ ~rejected,
           NEW swapping \in BOOLEAN, NEW next \in {"saving", "closing"},
           limited => next = "saving",
           Begin(limited, swapping, next),
           opened' = TRUE, mapped' = TRUE, file' = (IF opened THEN file ELSE NewFile),
           UNCHANGED <<doc, mutable, rejected, maperror, versions, docs>>
    PROVE  IInv'
<1>1. /\ session' = next /\ stale' = TRUE /\ session' # "running" /\ session' # "none"
      /\ call' = [timed |-> limited, swaps |-> swapping, moved |-> FALSE]
      /\ stage' = IF limited THEN stage ELSE 0
  BY DEF Begin, Began
<1>2. /\ file' \in [exists : BOOLEAN, dirty : BOOLEAN, blocks : Blocks]
      /\ file'.exists
      /\ file'.dirty \/ (opened /\ file' = file)
  BY NewFileIs DEF IInv, RestTyped, StageSettled
<1>3. TypeOK'
  BY <1>1, <1>2, StageNumbers DEF IInv, TypeOK, InSave, Blocks, Timed
<1>4. RestTyped'
  BY <1>1, <1>2 DEF IInv, RestTyped
<1>5. StagesDone' /\ DoneCommitted'
  <2>1. CASE limited
    <3>1. LeftAlone => Steady
      BY <2>1, DocumentSaveAssumption DEF LeftAlone, Timed, Steady, IInv, RestTyped
    <3>2. opened /\ ~rejected /\ stage' = stage /\ file' = file
      BY <1>1, <2>1
    <3> QED
      BY <3>1, <3>2 DEF IInv, StagesDone, DoneCommitted, UnderWay, Steady, LeftAlone, Accepted
  <2>2. CASE ~limited
    BY <1>1, <2>2, StageNumbers DEF StagesDone, DoneCommitted
  <2> QED
    BY <2>1, <2>2
<1>6. AcceptedKnown' /\ SavedKnown'
  BY <1>1, <1>2 DEF IInv, AcceptedKnown, AcceptedIsOneDocument, SavedKnown,
                    NotStaleMeansSaved, LeftAlone, Accepted
<1> QED
  BY <1>1, <1>2, <1>3, <1>4, <1>5, <1>6 DEF IInv, StageSettled, StaleUnlessMapped, DocKnown

LEMMA UpdateRejectedKeeps == ASSUME IInv, UpdateRejected, UNCHANGED mode PROVE IInv'
<1>1. /\ session = "running" /\ opened /\ mapped /\ rejected
      /\ file' = [file EXCEPT !.dirty = TRUE]
      /\ UNCHANGED <<session, mutable, stale, maperror, stage, call, fails, mode, doc, mapped,
                     rejected, opened, versions, docs>>
  BY DEF UpdateRejected, SaveOnly
<1>2. /\ file' \in [exists : BOOLEAN, dirty : BOOLEAN, blocks : Blocks]
      /\ file'.exists = file.exists /\ file'.dirty = TRUE /\ file'.blocks = file.blocks
  BY <1>1 DEF IInv, RestTyped
<1>3. TypeOK' /\ RestTyped'
  BY <1>1, <1>2 DEF IInv, TypeOK, RestTyped, InSave, Blocks, Timed
<1>4. StagesDone' /\ DoneCommitted'
  BY <1>1, <1>2 DEF IInv, StagesDone, DoneCommitted, UnderWay, Steady, LeftAlone, InSave
<1> QED
  BY <1>1, <1>2, <1>3, <1>4
     DEF IInv, StageSettled, StaleUnlessMapped, DocKnown, AcceptedKnown,
         AcceptedIsOneDocument, SavedKnown, NotStaleMeansSaved, LeftAlone, Accepted

\* The cache file is made, and saved to later.
LEMMA SwapLaterKeeps == ASSUME IInv, SwapLater, UNCHANGED mode PROVE IInv'
<1>1. /\ session = "running" /\ ~mapped /\ mapped' = TRUE /\ opened' = TRUE
      /\ UNCHANGED <<session, doc, mutable, rejected, maperror, stage, call, versions, docs,
                     mode>>
      /\ opened => UNCHANGED <<file, stale>>
      /\ ~opened => file' = NewFile /\ stale' = TRUE
  BY DEF SwapLater
<1>2. opened \in BOOLEAN /\ stale = TRUE /\ stale' = TRUE
  BY <1>1 DEF IInv, RestTyped, StaleUnlessMapped
<1>3. /\ file' \in [exists : BOOLEAN, dirty : BOOLEAN, blocks : Blocks]
      /\ file'.exists
      /\ file'.dirty \/ (opened /\ file' = file)
      /\ stage > 0 => file' = file
  BY <1>1, <1>2, NewFileIs DEF IInv, RestTyped, StageSettled
<1>4. TypeOK' /\ RestTyped'
  BY <1>1, <1>2, <1>3 DEF IInv, TypeOK, RestTyped, InSave, Blocks, Timed
<1>5. StagesDone' /\ DoneCommitted'
  BY <1>1, <1>3, StageNumbers
     DEF IInv, StagesDone, DoneCommitted, UnderWay, Steady, LeftAlone, InSave, Accepted
<1> QED
  BY <1>1, <1>2, <1>3, <1>4, <1>5
     DEF IInv, StageSettled, StaleUnlessMapped, DocKnown, AcceptedKnown,
         AcceptedIsOneDocument, SavedKnown, NotStaleMeansSaved, LeftAlone, Accepted

LEMMA PersistKeeps == ASSUME IInv, Persist, UNCHANGED mode PROVE IInv'
<1>1. /\ InSave /\ InSave' /\ stage = 0 /\ stage' = 1 /\ mutable' = FALSE
      /\ call' = [call EXCEPT !.moved = TRUE]
      /\ UNCHANGED <<session, stale, maperror, file, fails, mode, doc, mapped, rejected, opened,
                     versions, docs>>
  BY DEF Persist, SaveOnly, InSave
<1>2. /\ call' \in [timed : BOOLEAN, swaps : BOOLEAN, moved : BOOLEAN]
      /\ call'.timed = call.timed
  BY <1>1 DEF IInv, RestTyped
<1>3. TypeOK' /\ RestTyped'
  <2>1. RestTyped'
    BY <1>1, <1>2 DEF IInv, RestTyped
  <2>2. 1 \in 0 .. DoneStage
    BY StageNumbers
  <2>3. TypeOK'
    BY <1>1, <1>2, <2>2 DEF IInv, TypeOK, Timed
  <2> QED
    BY <2>1, <2>3
<1>4. StagesDone' /\ DoneCommitted'
  BY <1>1, PartsBeforeIs, StageNumbers DEF StagesDone, DoneCommitted
<1> QED
  BY <1>1, <1>3, <1>4
     DEF IInv, StageSettled, StaleUnlessMapped, DocKnown, AcceptedKnown, InSave, TypeOK,
         AcceptedIsOneDocument, SavedKnown, NotStaleMeansSaved, LeftAlone, Accepted

\* A stage writes its parts, and what it wrote stays.
LEMMA SaveStageKeeps == ASSUME IInv, SaveStage, UNCHANGED mode PROVE IInv'
<1>1. /\ InSave /\ InSave' /\ stage \in DOMAIN Stages /\ stage' = stage + 1
      /\ file' = Written(Stages[stage]) /\ call' = [call EXCEPT !.moved = TRUE]
      /\ UNCHANGED <<session, mutable, stale, maperror, fails, mode, doc, mapped, rejected,
                     opened, versions, docs>>
  BY DEF SaveStage, SaveOnly, InSave
<1>2. /\ call' \in [timed : BOOLEAN, swaps : BOOLEAN, moved : BOOLEAN]
      /\ call'.timed = call.timed
  BY <1>1 DEF IInv, RestTyped
<1>3. /\ file' \in [exists : BOOLEAN, dirty : BOOLEAN, blocks : Blocks]
      /\ file'.exists = file.exists
      /\ \A p \in Parts : file'.blocks[p] = IF p \in Stages[stage] THEN Content(p)
                                            ELSE file.blocks[p]
      /\ file'.dirty \/ file' = file
  BY <1>1, WrittenIs
<1>4. TypeOK' /\ RestTyped'
  BY <1>1, <1>2, <1>3, StageNumbers DEF IInv, TypeOK, RestTyped, Timed, Blocks
<1>5. StagesDone'
  <2> SUFFICES ASSUME LeftAlone
               PROVE  ~mutable /\ \A p \in PartsBefore(stage + 1) : file'.blocks[p] = doc[p]
    BY <1>1 DEF StagesDone, LeftAlone
  <2>1. ~mutable /\ \A p \in PartsBefore(stage) : file.blocks[p] = doc[p]
    BY <1>1, StageNumbers DEF IInv, StagesDone, UnderWay
  <2>2. /\ PartsBefore(stage + 1) = PartsBefore(stage) \union Stages[stage]
        /\ PartsBefore(stage) \subseteq Parts /\ Stages[stage] \subseteq Parts
    BY <1>1, PartsBeforeIs, StageNumbers
  <2>3. \A p \in Stages[stage] : Content(p) = doc[p]
    BY <2>1 DEF Content
  <2> QED
    BY <1>3, <2>1, <2>2, <2>3
<1>6. DoneCommitted'
  BY <1>1, StageNumbers DEF DoneCommitted
<1>7. AcceptedKnown' /\ SavedKnown'
  BY <1>1, <1>3 DEF IInv, AcceptedKnown, AcceptedIsOneDocument, SavedKnown,
                    NotStaleMeansSaved, LeftAlone, Accepted, InSave
<1> QED
  BY <1>1, <1>3, <1>4, <1>5, <1>6, <1>7, StageNumbers
     DEF IInv, StageSettled, StaleUnlessMapped, DocKnown, TypeOK, InSave

\* The file that is about to be committed holds the whole document.
LEMMA CommitsDocument ==
    ASSUME IInv, LeftAlone, InSave, stage \in {FlushStage, DoneStage}
    PROVE  file.blocks = doc /\ doc \in docs
<1>1. \A p \in Parts : file.blocks[p] = doc[p]
  BY StageNumbers, PartsBeforeIs DEF IInv, StagesDone, UnderWay
<1>2. /\ file.blocks \in [Parts -> 0 .. MaxVersion \union {Nothing, Broken}]
      /\ doc \in [Parts -> 0 .. MaxVersion \union {Nothing}]
  BY DEF IInv, TypeOK
<1>3. file.blocks = doc
  BY <1>1, <1>2
<1> QED
  BY <1>3 DEF IInv, DocKnown, InSave

LEMMA FlushAllKeeps == ASSUME IInv, FlushAll, UNCHANGED mode PROVE IInv'
<1>1. /\ InSave /\ InSave' /\ stage = FlushStage /\ stage' = DoneStage
      /\ file' = [file EXCEPT !.dirty = FALSE] /\ call' = [call EXCEPT !.moved = TRUE]
      /\ UNCHANGED <<session, mutable, stale, maperror, fails, mode, doc, mapped, rejected,
                     opened, versions, docs>>
  BY DEF FlushAll, SaveOnly, InSave
<1>2. /\ call' \in [timed : BOOLEAN, swaps : BOOLEAN, moved : BOOLEAN]
      /\ call'.timed = call.timed
  BY <1>1 DEF IInv, RestTyped
<1>3. /\ file' \in [exists : BOOLEAN, dirty : BOOLEAN, blocks : Blocks]
      /\ file'.exists = file.exists /\ file'.dirty = FALSE /\ file'.blocks = file.blocks
  BY <1>1 DEF IInv, RestTyped
<1>4. TypeOK' /\ RestTyped'
  BY <1>1, <1>2, <1>3, StageNumbers DEF IInv, TypeOK, RestTyped, Timed, Blocks
<1>5. LeftAlone => file.blocks = doc /\ doc \in docs
  BY <1>1, CommitsDocument
<1>6. Accepted'
  BY <1>1, <1>3 DEF Accepted, IInv, TypeOK, StageSettled
<1>7. StagesDone' /\ DoneCommitted'
  BY <1>1, <1>3, <1>6, PartsBeforeIs, StageNumbers
     DEF IInv, StagesDone, DoneCommitted, UnderWay, LeftAlone
<1>8. AcceptedKnown' /\ SavedKnown'
  BY <1>1, <1>3, <1>5 DEF AcceptedKnown, AcceptedIsOneDocument, SavedKnown,
                          NotStaleMeansSaved, LeftAlone, InSave
<1> QED
  BY <1>1, <1>3, <1>4, <1>7, <1>8, StageNumbers
     DEF IInv, StageSettled, StaleUnlessMapped, DocKnown, TypeOK, InSave

LEMMA DoneKeeps == ASSUME IInv, Done, UNCHANGED mode PROVE IInv'
<1>1. /\ session = "saving" /\ session' = "running" /\ stage = DoneStage /\ stale' = FALSE
      /\ call' = NoCall
      /\ UNCHANGED <<mutable, maperror, stage, file, fails, mode, doc, mapped, rejected, opened,
                     versions, docs>>
  BY DEF Done, SaveOnly, Returned
<1>2. NoCall \in [timed : BOOLEAN, swaps : BOOLEAN, moved : BOOLEAN] /\ NoCall.timed = FALSE
  BY DEF NoCall
<1>3. TypeOK' /\ RestTyped'
  BY <1>1, <1>2 DEF IInv, TypeOK, RestTyped, InSave
<1>4. InSave /\ mapped
  BY <1>1 DEF InSave, IInv, TypeOK
<1>5. StagesDone' /\ DoneCommitted'
  BY <1>1, <1>4 DEF IInv, StagesDone, DoneCommitted, UnderWay, LeftAlone, Accepted
<1>6. LeftAlone => Accepted /\ file.blocks = doc
  BY <1>1, <1>4, CommitsDocument DEF IInv, DoneCommitted
<1>7. AcceptedKnown' /\ SavedKnown'
  BY <1>1, <1>6 DEF IInv, AcceptedKnown, AcceptedIsOneDocument, SavedKnown,
                    NotStaleMeansSaved, LeftAlone, Accepted
<1> QED
  BY <1>1, <1>3, <1>4, <1>5, <1>7 DEF IInv, StageSettled, StaleUnlessMapped, DocKnown

\* The time is up: the save will go on at the stage that expired.
LEMMA ExpireKeeps == ASSUME IInv, Expire, UNCHANGED mode PROVE IInv'
<1>1. /\ InSave /\ call.timed /\ stage # DoneStage
      /\ mutable' \in {mutable, mutable /\ stage # 0}
      /\ session' = "running" /\ call' = NoCall /\ stage' = stage
      /\ UNCHANGED <<stale, maperror, fails, mode, doc, mapped, rejected, opened, versions,
                     docs>>
  BY DEF Expire, SaveOnly, Returned, NextStage
<1>2. NoCall \in [timed : BOOLEAN, swaps : BOOLEAN, moved : BOOLEAN] /\ NoCall.timed = FALSE
  BY DEF NoCall
<1>3. mutable' \in BOOLEAN /\ (~mutable => ~mutable') /\ mutable \in BOOLEAN
  BY <1>1 DEF IInv, RestTyped
<1>4. stage = 0 \/ stage \in DOMAIN Stages \/ stage = FlushStage
  BY <1>1, StageNumbers DEF IInv, TypeOK
<1>5. opened /\ mapped /\ stale /\ file.exists
  BY <1>1 DEF IInv, TypeOK, StageSettled
<1>6. /\ file' \in [exists : BOOLEAN, dirty : BOOLEAN, blocks : Blocks]
      /\ file'.exists = file.exists
      /\ LeftAlone /\ stage > 0 => \A p \in PartsBefore(stage) : file'.blocks[p] = doc[p]
      /\ LeftAlone => (Accepted' => file'.blocks \in docs)
  <2>1. CASE stage = 0
    <3>1. file' = file
      <4>1. stage \notin DOMAIN Stages /\ stage # FlushStage
        BY <2>1, StageNumbers
      <4>2. file' \in {file}
        BY <2>1, <4>1, Zenon DEF Expire
      <4> QED
        BY <4>2
    <3> QED
      BY <2>1, <3>1 DEF IInv, RestTyped, AcceptedKnown, AcceptedIsOneDocument, Accepted
  <2>2. CASE stage \in DOMAIN Stages
    <3>1. stage # 0 /\ stage > 0 /\ stage \in Nat /\ stage # FlushStage
      BY <2>2, StageNumbers
    <3>2. file' \in {Written({}), Written(Stages[stage])}
      BY <2>2, <3>1, Zenon DEF Expire
    <3>3. PICK parts : file' = Written(parts)
      BY <3>2
    <3>4. /\ file' \in [exists : BOOLEAN, dirty : BOOLEAN, blocks : Blocks]
          /\ file'.exists = file.exists
          /\ \A p \in Parts : file'.blocks[p] = IF p \in parts THEN Content(p)
                                                ELSE file.blocks[p]
          /\ file'.dirty \/ file' = file
      BY <3>3, WrittenIs
    <3>5. LeftAlone => \A p \in PartsBefore(stage) : file'.blocks[p] = doc[p]
      BY <1>1, <3>1, <3>4, PartsBeforeIs DEF IInv, StagesDone, UnderWay, Content
    <3> QED
      BY <3>4, <3>5 DEF IInv, AcceptedKnown, AcceptedIsOneDocument, Accepted
  <2>3. CASE stage = FlushStage
    <3>1. stage # 0 /\ stage > 0 /\ stage \notin DOMAIN Stages
      BY <2>3, StageNumbers
    <3>2. file' = [file EXCEPT !.dirty = FALSE]
      <4>1. file' \in {[file EXCEPT !.dirty = FALSE]}
        BY <2>3, <3>1, Zenon DEF Expire
      <4> QED
        BY <4>1
    <3>3. /\ file' \in [exists : BOOLEAN, dirty : BOOLEAN, blocks : Blocks]
          /\ file'.exists = file.exists /\ file'.blocks = file.blocks
      BY <3>2 DEF IInv, RestTyped
    <3> QED
      BY <1>1, <2>3, <3>1, <3>3, CommitsDocument
  <2> QED
    BY <1>4, <2>1, <2>2, <2>3
<1>7. TypeOK'
  BY <1>1, <1>2, <1>6 DEF IInv, TypeOK, InSave, Blocks
<1>8. RestTyped'
  BY <1>1, <1>2, <1>3, <1>6 DEF IInv, RestTyped
<1>9. StagesDone' /\ DoneCommitted'
  <2>1. LeftAlone /\ stage > 0 => ~mutable
    BY <1>1 DEF IInv, StagesDone, UnderWay
  <2> QED
    BY <1>1, <1>3, <1>6, <2>1 DEF StagesDone, DoneCommitted, LeftAlone
<1>10. AcceptedKnown' /\ SavedKnown'
  BY <1>1, <1>5, <1>6 DEF AcceptedKnown, AcceptedIsOneDocument, SavedKnown,
                          NotStaleMeansSaved, LeftAlone
<1> QED
  BY <1>1, <1>5, <1>6, <1>7, <1>8, <1>9, <1>10
     DEF IInv, StageSettled, StaleUnlessMapped, DocKnown, InSave

\* A stage that fails leaves a dirty file; what the stages before it wrote is still there.
LEMMA StageFailsLeaves ==
    ASSUME IInv, StageFails
    PROVE  /\ file' \in [exists : BOOLEAN, dirty : BOOLEAN, blocks : Blocks]
           /\ file'.exists = file.exists /\ file'.dirty = TRUE
           /\ \A p \in Parts : file'.blocks[p] \in {file.blocks[p], Content(p)}
<1>1. CASE stage = FlushStage
  <2>1. file' = [file EXCEPT !.dirty = TRUE]
    BY <1>1 DEF StageFails
  <2> QED
    BY <2>1 DEF IInv, RestTyped
<1>2. CASE stage # FlushStage
  <2>1. PICK some : file' = [Written(some) EXCEPT !.dirty = TRUE]
    BY <1>2 DEF StageFails
  <2>2. /\ Written(some) \in [exists : BOOLEAN, dirty : BOOLEAN, blocks : Blocks]
        /\ Written(some).exists = file.exists
        /\ \A p \in Parts : Written(some).blocks[p] \in {file.blocks[p], Content(p)}
    BY WrittenIs
  <2> QED
    BY <2>1, <2>2
<1> QED
  BY <1>1, <1>2

LEMMA FailKeeps == ASSUME IInv, Fail, UNCHANGED mode PROVE IInv'
<1>1. /\ session = "saving" /\ session' = "running" /\ StageFails
      /\ stage \in 1 .. FlushStage
      /\ call' = NoCall /\ maperror' = (maperror \/ call.swaps)
      /\ UNCHANGED <<mutable, stale, stage, mode, doc, mapped, rejected, opened, versions, docs>>
  BY DEF Fail, SaveOnly, Returned, StageFails
<1>2. NoCall \in [timed : BOOLEAN, swaps : BOOLEAN, moved : BOOLEAN] /\ NoCall.timed = FALSE
  BY DEF NoCall
<1>3. /\ file' \in [exists : BOOLEAN, dirty : BOOLEAN, blocks : Blocks]
      /\ file'.exists = file.exists /\ file'.dirty = TRUE
      /\ \A p \in Parts : file'.blocks[p] \in {file.blocks[p], Content(p)}
  BY <1>1, StageFailsLeaves
<1>4. InSave /\ stage > 0 /\ stage \in Nat /\ stage # DoneStage
  BY <1>1, StageNumbers DEF InSave
<1>5. opened /\ mapped /\ stale /\ file.exists
  BY <1>4 DEF IInv, TypeOK, StageSettled
<1>6. TypeOK'
  BY <1>1, <1>2, <1>3 DEF IInv, TypeOK, InSave, Blocks
<1>7. RestTyped'
  <2>1. maperror' \in BOOLEAN
    BY <1>1
  <2> QED
    BY <1>1, <1>2, <1>3, <2>1 DEF IInv, RestTyped
<1>8. StagesDone'
  <2>1. LeftAlone => ~mutable /\ \A p \in PartsBefore(stage) : file.blocks[p] = doc[p]
    BY <1>4 DEF IInv, StagesDone, UnderWay
  <2>2. LeftAlone => \A p \in PartsBefore(stage) : file'.blocks[p] = doc[p]
    BY <1>3, <1>4, <2>1, PartsBeforeIs DEF Content
  <2> QED
    BY <1>1, <2>1, <2>2 DEF StagesDone, LeftAlone
<1>9. DoneCommitted' /\ AcceptedKnown' /\ SavedKnown'
  BY <1>1, <1>3, <1>4, <1>5 DEF DoneCommitted, AcceptedKnown, AcceptedIsOneDocument,
                                SavedKnown, NotStaleMeansSaved, Accepted
<1> QED
  BY <1>1, <1>3, <1>5, <1>6, <1>7, <1>8, <1>9
     DEF IInv, StageSettled, StaleUnlessMapped, DocKnown

LEMMA FailClosingKeeps == ASSUME IInv, FailClosing, UNCHANGED mode PROVE IInv'
<1>1. StageFails /\ Gone
  BY DEF FailClosing
<1>2. /\ file' \in [exists : BOOLEAN, dirty : BOOLEAN, blocks : Blocks]
      /\ file'.dirty = TRUE
  BY <1>1, StageFailsLeaves
<1> QED
  BY <1>1, <1>2, GoneKeeps DEF Accepted

\* What a new object begins with.
LEMMA FreshIs ==
    ASSUME Fresh
    PROVE  /\ session' = "running" /\ rejected' = FALSE /\ maperror' = FALSE /\ stage' = 0
           /\ call' \in [timed : BOOLEAN, swaps : BOOLEAN, moved : BOOLEAN]
           /\ call'.timed = FALSE
BY DEF Fresh, NoCall

\* The document is made from its source, and counts as unsaved.
LEMMA ParsedKeeps ==
    ASSUME IInv, session = "none", Fresh, Parsed, opened' \in BOOLEAN,
           opened' => file.exists, UNCHANGED <<mode, file>>
    PROVE  IInv'
<1>1. /\ session' = "running" /\ rejected' = FALSE /\ maperror' = FALSE /\ stage' = 0
      /\ call' \in [timed : BOOLEAN, swaps : BOOLEAN, moved : BOOLEAN]
      /\ call'.timed = FALSE
  BY FreshIs
<1>2. /\ doc' = [p \in Parts |-> IF p = "pages" THEN Nothing ELSE 0]
      /\ docs' = docs \union {doc'} /\ versions' = versions /\ mutable' = TRUE
      /\ mapped' = FALSE /\ stale' = TRUE
  BY DEF Parsed, DocIs
<1>3. 0 \in 0 .. MaxVersion
  BY DocumentSaveAssumption
<1>4. TypeOK'
  BY <1>1, <1>2, <1>3, StageNumbers DEF IInv, TypeOK, InSave
<1>5. RestTyped'
  BY <1>1, <1>2 DEF IInv, RestTyped
<1>6. AcceptedKnown' /\ SavedKnown'
  BY <1>1, <1>2 DEF IInv, AcceptedKnown, AcceptedIsOneDocument, SavedKnown,
                    NotStaleMeansSaved, LeftAlone, Accepted
<1> QED
  BY <1>1, <1>2, <1>4, <1>5, <1>6, StageNumbers
     DEF IInv, StageSettled, StaleUnlessMapped, DocKnown, StagesDone, DoneCommitted

LEMMA OpenFromCacheKeeps == ASSUME IInv, OpenFromCache, UNCHANGED mode PROVE IInv'
<1>1. /\ session' = "running" /\ rejected' = FALSE /\ maperror' = FALSE /\ stage' = 0
      /\ call' \in [timed : BOOLEAN, swaps : BOOLEAN, moved : BOOLEAN]
      /\ call'.timed = FALSE
  BY FreshIs DEF OpenFromCache
<1>2. /\ doc' = file.blocks /\ docs' = docs \union {doc'} /\ versions' = versions
      /\ mutable' = FALSE /\ mapped' = TRUE /\ opened' = TRUE /\ stale' = FALSE
      /\ Accepted /\ Loadable
  BY DEF OpenFromCache, DocIs
<1>3. /\ file' = file \/ (LoadSwaps /\ file' = [file EXCEPT !.dirty = TRUE])
  BY DocumentSaveAssumption DEF OpenFromCache
<1>4. /\ file' \in [exists : BOOLEAN, dirty : BOOLEAN, blocks : Blocks]
      /\ file'.exists /\ file'.blocks = file.blocks
      /\ ~LoadSwaps => file' = file
  BY <1>2, <1>3 DEF IInv, RestTyped, Accepted
<1>5. doc' \in [Parts -> 0 .. MaxVersion \union {Nothing}]
  BY <1>2 DEF IInv, TypeOK, Loadable
<1>6. TypeOK'
  BY <1>1, <1>4, <1>5, StageNumbers DEF TypeOK, InSave, Blocks
<1>7. RestTyped'
  BY <1>1, <1>2, <1>4 DEF IInv, RestTyped
<1>8. AcceptedKnown' /\ SavedKnown'
  BY <1>1, <1>2, <1>4 DEF AcceptedKnown, AcceptedIsOneDocument, SavedKnown,
                          NotStaleMeansSaved, LeftAlone, Accepted
<1> QED
  BY <1>1, <1>2, <1>4, <1>6, <1>7, <1>8, StageNumbers
     DEF IInv, StageSettled, StaleUnlessMapped, DocKnown, StagesDone, DoneCommitted

\* Every step keeps the invariant.
LEMMA IInvStep == ASSUME IInv, [Next]_vars PROVE IInv'
<1>1. CASE UNCHANGED vars
  BY <1>1 DEF vars, memory, IInv, TypeOK, RestTyped, StageSettled, StaleUnlessMapped,
              DocKnown, StagesDone, DoneCommitted, AcceptedKnown, AcceptedIsOneDocument,
              SavedKnown, NotStaleMeansSaved, LeftAlone, UnderWay, InSave, Steady, Timed,
              Accepted
<1>2. ASSUME Step, UNCHANGED mode PROVE IInv'
  <2>0. opened \in BOOLEAN /\ mutable \in BOOLEAN
    BY DEF IInv, RestTyped
  <2>1. CASE Render \/ AddBlob \/ BuildAlternativeToc
    <3>1. ChangeOnly /\ mutable' \in BOOLEAN /\ stale' = TRUE
      BY <2>0, <2>1 DEF Render, AddBlob, BuildAlternativeToc
    <3>2. \E parts : Changed(parts)
      BY <2>1 DEF Render, AddBlob, BuildAlternativeToc
    <3> QED
      BY <1>2, <3>1, <3>2, ChangeKeeps
  <2>2. CASE InvalidateCacheFile
    BY <1>2, <2>2
       DEF InvalidateCacheFile, IInv, TypeOK, RestTyped, StageSettled, StaleUnlessMapped,
           DocKnown, StagesDone, DoneCommitted, AcceptedKnown, AcceptedIsOneDocument,
           SavedKnown, NotStaleMeansSaved, LeftAlone, UnderWay, InSave, Steady, Timed, Accepted
  <2>3. CASE \E p \in SwappedOut : SwapOut(p)
    BY <1>2, <2>3, SwapOutKeeps
  <2>4. CASE \E limited \in BOOLEAN : UpdateMap(limited)
    <3>1. PICK limited \in BOOLEAN : UpdateMap(limited)
      BY <2>4
    <3>2. /\ session = "running" /\ (limited => Timed) /\ opened = TRUE /\ mapped = TRUE
          /\ ~rejected /\ Begin(limited, FALSE, "saving")
          /\ UNCHANGED <<file, doc, mutable, mapped, opened, rejected, maperror, versions, docs>>
      BY <3>1 DEF UpdateMap, SaveOnly, IInv, RestTyped
    <3> QED
      BY <1>2, <3>2, BeginKeeps
  <2>5. CASE UpdateRejected
    BY <1>2, <2>5, UpdateRejectedKeeps
  <2>6. CASE SwapLater
    BY <1>2, <2>6, SwapLaterKeeps
  <2>7. CASE SwapToCache
    BY <1>2, <2>7, BeginKeeps DEF SwapToCache
  <2>8. CASE SwapFails
    BY <1>2, <2>8
       DEF SwapFails, SaveOnly, IInv, TypeOK, RestTyped, StageSettled, StaleUnlessMapped,
           DocKnown, StagesDone, DoneCommitted, AcceptedKnown, AcceptedIsOneDocument,
           SavedKnown, NotStaleMeansSaved, LeftAlone, UnderWay, InSave, Steady, Timed, Accepted
  <2>9. CASE Persist
    BY <1>2, <2>9, PersistKeeps
  <2>10. CASE SaveStage
    BY <1>2, <2>10, SaveStageKeeps
  <2>11. CASE FlushAll
    BY <1>2, <2>11, FlushAllKeeps
  <2>12. CASE Done
    BY <1>2, <2>12, DoneKeeps
  <2>13. CASE DoneClosing \/ Kill
    BY <1>2, <2>13, GoneDirtyKeeps DEF DoneClosing, Kill
  <2>14. CASE Expire
    BY <1>2, <2>14, ExpireKeeps
  <2>15. CASE Fail
    BY <1>2, <2>15, FailKeeps
  <2>16. CASE FailClosing
    BY <1>2, <2>16, FailClosingKeeps
  <2>17. CASE OpenFromCache
    BY <1>2, <2>17, OpenFromCacheKeeps
  <2>18. CASE OpenSource
    BY <1>2, <2>18, ParsedKeeps DEF OpenSource
  <2>19. CASE OpenUnloadable
    BY <1>2, <2>19, ParsedKeeps DEF OpenUnloadable, Accepted
  <2>20. CASE CloseSaving
    <3>1. /\ session = "running" /\ opened = TRUE /\ mapped = TRUE
          /\ Begin(FALSE, FALSE, "closing")
          /\ UNCHANGED <<file, doc, mutable, mapped, opened, rejected, maperror, versions, docs>>
      BY <2>20 DEF CloseSaving, SaveOnly, IInv, RestTyped
    <3> QED
      BY <1>2, <3>1, BeginKeeps
  <2>21. CASE CloseNow
    BY <1>2, <2>21, GoneDirtyKeeps DEF CloseNow
  <2> QED
    BY <1>2, <2>1, <2>2, <2>3, <2>4, <2>5, <2>6, <2>7, <2>8, <2>9, <2>10, <2>11, <2>12,
       <2>13, <2>14, <2>15, <2>16, <2>17, <2>18, <2>19, <2>20, <2>21 DEF Step
<1> QED
  BY <1>1, <1>2 DEF Next

-----------------------------------------------------------------------------
(* The theorems *)

LEMMA IInvAlways == Spec => []IInv
BY IInvInit, IInvStep, PTL DEF Spec

\* Whatever fails and whenever the program is killed: unless saves have a time limit and
\* the document changes between them, an accepted cache file holds the document as it was
\* at one moment (saveChanges, swapToCache, the destructor).
THEOREM AcceptedAlwaysOneDocument == Spec => [](mode # "timed" => AcceptedIsOneDocument)
<1>1. IInv => (mode # "timed" => AcceptedIsOneDocument)
  BY DEF IInv, AcceptedKnown, LeftAlone
<1> QED
  BY <1>1, IInvAlways, PTL

\* So does a document that counts as saved have its cache file, provided that memory does
\* not run short while it is loaded (updateMap, openFromCache).
THEOREM StaleAlwaysSound == Spec => [](mode # "timed" /\ ~LoadSwaps => StaleSound)
<1>1. IInv => (mode # "timed" /\ ~LoadSwaps => StaleSound)
  BY DEF IInv, SavedKnown, LeftAlone, StaleSound
<1> QED
  BY <1>1, IInvAlways, PTL

\* In every mode a save has a cache file, which counts as stale until the save is done,
\* and its stage is one there is (the type invariant).
THEOREM TypeAlwaysOK == Spec => []TypeOK
<1>1. IInv => TypeOK
  BY DEF IInv
<1> QED
  BY <1>1, IInvAlways, PTL

\* A document that asked for its cache file to be left dirty leaves it dirty when it is
\* closed (invalidateCacheFile, updateMap).
THEOREM RejectedAlwaysOut == Spec => RejectedStaysOut
<1>1. ASSUME IInv, [Next]_vars
      PROVE  [session = "running" /\ rejected /\ mapped /\ opened /\ CloseNow
                => ~Accepted']_vars
  <2> SUFFICES ASSUME rejected, mapped, opened, CloseNow PROVE ~Accepted'
    OBVIOUS
  <2>1. file' = [file EXCEPT !.dirty = TRUE]
    BY DEF CloseNow, Closes
  <2> QED
    BY <2>1 DEF Accepted, IInv, RestTyped
<1> QED
  BY <1>1, IInvAlways, PTL DEF Spec, RejectedStaysOut

=============================================================================
