---------------------------- MODULE BlobCacheProofs ----------------------------
(***************************************************************************)
(* Proofs about the blobs, for every set of names and contents and any     *)
(* number of blobs and of failed writes.                                   *)
(*                                                                         *)
(* A blob of the list is in memory as it was given, or the cache file has  *)
(* it at its place.  A list that need not be saved is in the cache file    *)
(* whole, index and blobs, and only such a list is committed.              *)
(***************************************************************************)
EXTENDS BlobCache, SequenceTheorems, TLAPS

ListItem == [name : Names, data : Contents \union {Stored}]
GivenItem == [name : Names, data : Contents]
KeptState ==
    [blocks : [Places -> Contents \union {Nothing}], names : Seq(Names) \union {Nothing},
     given : Seq(GivenItem), unwritten : SUBSET Nat]

Told(index) == IF index = Nothing THEN << >> ELSE index
NamesOf(items) == [i \in DOMAIN items |-> items[i].name]

HistoryOK ==
    /\ given \in Seq(GivenItem) /\ Len(list) = Len(given) /\ Len(list) <= MaxBlobs
    /\ names \in Seq(Names) \union {Nothing}
    /\ unwritten \in SUBSET Nat
    /\ changed \in BOOLEAN /\ passed \in BOOLEAN /\ attached \in BOOLEAN

\* A blob is held as it was given: in memory, or else in the cache file.
ListHolds ==
    \A i \in 1..Len(list) :
        /\ list[i].data # Stored => list[i].data = given[i].data
        /\ list[i].data = Stored /\ i \notin unwritten => blocks[i] = given[i].data

\* What need not be saved is saved.
SavedWhole == NothingToSave => Told(names) = ListNames /\ InMemory(list) = {}

\* The save went on from the blobs only when they need not be saved.
PassedSaved == passed => phase = "loaded" /\ attached /\ NothingToSave

\* Without a document there is nothing in memory.
NoneEmpty == phase = "none" => ~changed /\ ~passed /\ ~attached /\ list = << >>

\* What was committed is typed and listed no further than the bound.
KeptOK == kept # Lost => kept \in KeptState /\ Len(kept.given) <= MaxBlobs

IInv ==
    /\ TypeOK /\ HistoryOK /\ ListHolds /\ SavedWhole /\ PassedSaved /\ NoneEmpty
    /\ KeptOK /\ KeptWhole

-----------------------------------------------------------------------------

\* The list and its history, place by place.
LEMMA Places1 ==
    ASSUME IInv
    PROVE  /\ list \in Seq(ListItem) /\ given \in Seq(GivenItem)
           /\ Len(list) \in Nat /\ Len(given) = Len(list)
           /\ DOMAIN list = 1..Len(list) /\ DOMAIN given = 1..Len(list)
           /\ 1..Len(list) \subseteq Places
           /\ \A i \in 1..Len(list) : /\ list[i] \in ListItem /\ given[i] \in GivenItem
                                      /\ list[i].name = given[i].name
<1>1. list \in Seq(ListItem) /\ given \in Seq(GivenItem) /\ Len(list) = Len(given)
  BY DEF IInv, TypeOK, HistoryOK, ListItem
<1>2. /\ Len(list) \in Nat /\ DOMAIN list = 1..Len(list) /\ DOMAIN given = 1..Len(list)
      /\ \A i \in 1..Len(list) : list[i] \in ListItem /\ given[i] \in GivenItem
  BY <1>1, LenProperties, ElementOfSeq
<1>3. 1..Len(list) \subseteq Places
  BY <1>2, BlobCacheAssumption DEF Places, IInv, HistoryOK
<1>4. [i \in 1..Len(list) |-> list[i].name] = [i \in 1..Len(list) |-> given[i].name]
  BY <1>2 DEF IInv, TypeOK, ListNames
<1>5. \A i \in 1..Len(list) : list[i].name = given[i].name
  <2> DEFINE f == [i \in 1..Len(list) |-> list[i].name]
             g == [i \in 1..Len(list) |-> given[i].name]
  <2>1. \A i \in 1..Len(list) : f[i] = list[i].name /\ g[i] = given[i].name
    OBVIOUS
  <2>2. f = g
    BY <1>4
  <2> QED
    BY <2>1, <2>2
<1> QED
  BY <1>1, <1>2, <1>3, <1>5

\* The names of a list that has those of its history.
LEMMA NamesAgree ==
    ASSUME NEW s, NEW t, NEW n \in Nat, DOMAIN s = 1..n, DOMAIN t = 1..n,
           \A i \in 1..n : s[i].name = t[i].name
    PROVE  [i \in DOMAIN s |-> s[i].name] = [i \in DOMAIN t |-> t[i].name]
OBVIOUS

\* ListNames is a sequence of names, never the mark of a missing index.
LEMMA ListNamesIsSeq ==
    ASSUME IInv
    PROVE  ListNames \in Seq(Names) /\ Told(ListNames) = ListNames
<1>1. ListNames \in Seq(Names)
  <2>1. ListNames = [i \in 1..Len(list) |-> list[i].name]
    BY Places1 DEF ListNames
  <2>2. \A i \in 1..Len(list) : list[i].name \in Names
    BY Places1 DEF ListItem
  <2> QED
    BY <2>1, <2>2, Places1
<1> QED
  BY <1>1, BlobCacheAssumption DEF Told

\* What the save does to the list up to place k: nothing but mark blobs as stored.
LEMMA GoneIs ==
    ASSUME IInv, NEW k \in Nat, NEW failing
    PROVE  LET g == Gone(k, failing)
           IN /\ g \in Seq(ListItem) /\ Len(g) = Len(list) /\ DOMAIN g = 1..Len(list)
              /\ \A i \in 1..Len(list) :
                    /\ g[i] \in ListItem /\ g[i].name = list[i].name
                    /\ g[i].data = IF i <= k /\ list[i].data # Stored /\ Leaves(i, failing)
                                   THEN Stored ELSE list[i].data
<1> DEFINE g == Gone(k, failing)
<1>1. \A i \in 1..Len(list) : i \in InMemory(list) <=> list[i].data # Stored
  BY Places1 DEF InMemory
<1>2. /\ DOMAIN g = 1..Len(list)
      /\ \A i \in 1..Len(list) :
            g[i] = IF i <= k /\ list[i].data # Stored /\ Leaves(i, failing)
                   THEN [list[i] EXCEPT !.data = Stored] ELSE list[i]
  BY Places1, <1>1 DEF Gone
<1>3. \A i \in 1..Len(list) :
         /\ [list[i] EXCEPT !.data = Stored] \in ListItem
         /\ [list[i] EXCEPT !.data = Stored].name = list[i].name
         /\ [list[i] EXCEPT !.data = Stored].data = Stored
  BY Places1 DEF ListItem
<1>4. \A i \in 1..Len(list) :
         /\ g[i] \in ListItem /\ g[i].name = list[i].name
         /\ g[i].data = IF i <= k /\ list[i].data # Stored /\ Leaves(i, failing)
                        THEN Stored ELSE list[i].data
  BY <1>2, <1>3, Places1
<1>5. g = [i \in 1..Len(list) |-> g[i]]
  BY <1>2, Places1 DEF Gone
<1>6. g \in Seq(ListItem) /\ Len(g) = Len(list)
  <2> HIDE DEF g
  <2> QED
    BY <1>2, <1>4, <1>5, Places1
<1> QED
  BY <1>2, <1>4, <1>6

\* The blobs the save wrote.
LEMMA BlocksAfterIs ==
    ASSUME IInv, NEW k \in Nat, NEW failing
    PROVE  /\ BlocksAfter(k, failing) \in [Places -> Contents \union {Nothing}]
           /\ \A i \in 1..Len(list) :
                 BlocksAfter(k, failing)[i] =
                    IF list[i].data # Stored /\ i \notin failing /\ i <= k
                    THEN list[i].data ELSE blocks[i]
<1>1. \A i \in Places : i \in InMemory(list) <=> i \in 1..Len(list) /\ list[i].data # Stored
  BY Places1 DEF InMemory
<1>2. \A i \in 1..Len(list) : list[i].data # Stored => list[i].data \in Contents
  BY Places1 DEF ListItem
<1>3. blocks \in [Places -> Contents \union {Nothing}]
  BY DEF IInv, TypeOK
<1> QED
  BY <1>1, <1>2, <1>3, Places1 DEF BlocksAfter

\* However many writes failed and wherever the time was up, the blobs are still held as
\* they were given.
LEMMA SaveHolds ==
    ASSUME IInv, NEW k \in Nat, NEW failing,
           list' = Gone(k, failing), blocks' = BlocksAfter(k, failing),
           UNCHANGED <<given, unwritten>>
    PROVE  /\ ListHolds' /\ ListNames' = ListNames
           /\ list' \in Seq(ListItem) /\ Len(list') = Len(list)
           /\ DOMAIN list' = 1..Len(list)
           /\ blocks' \in [Places -> Contents \union {Nothing}]
           /\ ListNames' = [i \in DOMAIN given' |-> given'[i].name]
<1>1. \A i \in 1..Len(list) : Leaves(i, failing) => i \notin failing
  BY Places1 DEF Leaves
<1>2. /\ list' \in Seq(ListItem) /\ Len(list') = Len(list) /\ DOMAIN list' = 1..Len(list)
      /\ \A i \in 1..Len(list) : list'[i].name = list[i].name
  BY GoneIs
<1>3. ListHolds'
  <2> SUFFICES ASSUME NEW i \in 1..Len(list)
               PROVE  /\ list'[i].data # Stored => list'[i].data = given[i].data
                      /\ list'[i].data = Stored /\ i \notin unwritten
                            => blocks'[i] = given[i].data
    BY <1>2 DEF ListHolds
  <2>1. /\ list[i].data # Stored => list[i].data = given[i].data
        /\ list[i].data = Stored /\ i \notin unwritten => blocks[i] = given[i].data
    BY DEF IInv, ListHolds
  <2>2. list'[i].data = IF i <= k /\ list[i].data # Stored /\ Leaves(i, failing)
                        THEN Stored ELSE list[i].data
    BY GoneIs
  <2>3. blocks'[i] = IF list[i].data # Stored /\ i \notin failing /\ i <= k
                     THEN list[i].data ELSE blocks[i]
    BY BlocksAfterIs
  <2> QED
    BY <1>1, <2>1, <2>2, <2>3
<1>4. ListNames' = ListNames
  BY <1>2, Places1 DEF ListNames
<1> QED
  BY <1>2, <1>3, <1>4, BlocksAfterIs DEF IInv, TypeOK

\* What the steps of a save keep of the invariant, `kept' left aside.
SessionInv == TypeOK /\ HistoryOK /\ ListHolds /\ SavedWhole

\* A save that runs to its end keeps it, and leaves nothing to save when its result is
\* good.
LEMMA SaveEndsKeeps ==
    ASSUME IInv, phase # "none", UNCHANGED <<phase, given, unwritten>>, attached' = TRUE,
           passed' \in BOOLEAN,
           NEW failing \in SUBSET DOMAIN list, NEW indexFails \in BOOLEAN,
           NEW good \in BOOLEAN, SaveEnds(failing, indexFails, good)
    PROVE  SessionInv' /\ (good => NothingToSave')
<1>1. CASE NothingToSave
  <2>1. UNCHANGED <<list, blocks, names, changed>>
    BY <1>1 DEF SaveEnds
  <2> QED
    BY <1>1, <2>1 DEF IInv, SessionInv, TypeOK, HistoryOK, ListHolds, SavedWhole,
                      NothingToSave, ListNames, InMemory, Told
<1>2. CASE ~NothingToSave
  <2> DEFINE n == Len(list)
  <2>1. /\ list' = Gone(n, failing) /\ blocks' = BlocksAfter(n, failing)
        /\ names' = IndexAfter(indexFails) /\ changed' = ~good
        /\ good <=> (failing = {} /\ ~indexFails)
    BY <1>2, Zenon DEF SaveEnds
  <2>2. n \in Nat
    BY Places1
  <2>3. /\ ListHolds' /\ ListNames' = ListNames
        /\ list' \in Seq(ListItem) /\ Len(list') = n /\ DOMAIN list' = 1..n
        /\ blocks' \in [Places -> Contents \union {Nothing}]
        /\ ListNames' = [i \in DOMAIN given' |-> given'[i].name]
    BY <2>1, <2>2, SaveHolds
  <2>4. TypeOK'
    BY <2>3 DEF TypeOK, ListItem, IInv
  <2>5. names' \in Seq(Names) \union {Nothing} /\ (~indexFails => names' = ListNames)
    BY <2>1, ListNamesIsSeq DEF IndexAfter, IInv, HistoryOK
  <2>6. HistoryOK'
    BY <2>1, <2>3, <2>5 DEF IInv, HistoryOK
  <2>7. SavedWhole'
    <3> SUFFICES ASSUME NothingToSave'
                 PROVE  Told(names') = ListNames' /\ InMemory(list') = {}
      BY DEF SavedWhole
    <3>1. list' # << >>
      BY <1>2, <2>3, Places1 DEF NothingToSave
    <3>2. failing = {} /\ ~indexFails
      BY <2>1, <3>1 DEF NothingToSave
    <3>3. \A i \in 1..n : list'[i].data = Stored
      <4>1. \A i \in 1..n : Leaves(i, failing)
        BY <3>2 DEF Leaves
      <4> QED
        BY <2>1, <2>2, <4>1, GoneIs
    <3> QED
      BY <2>3, <2>5, <3>2, <3>3, ListNamesIsSeq DEF InMemory
  <2>8. good => NothingToSave'
    BY <2>1 DEF NothingToSave
  <2> QED
    BY <2>3, <2>4, <2>6, <2>7, <2>8 DEF SessionInv
<1> QED
  BY <1>1, <1>2

\* So does a save whose time is up.
LEMMA SaveExpiresKeeps ==
    ASSUME IInv, UNCHANGED <<phase, attached, given, unwritten>>, attached = TRUE,
           passed' \in BOOLEAN,
           NEW k \in DOMAIN list, NEW failing \in SUBSET DOMAIN list, SaveExpires(k, failing)
    PROVE  SessionInv'
<1>1. /\ ~NothingToSave /\ list' = Gone(k, failing) /\ blocks' = BlocksAfter(k, failing)
      /\ names' = names /\ changed' = changed
  BY DEF SaveExpires
<1>2. k \in Nat
  BY Places1
<1>3. /\ ListHolds' /\ ListNames' = ListNames
      /\ list' \in Seq(ListItem) /\ Len(list') = Len(list)
      /\ blocks' \in [Places -> Contents \union {Nothing}]
      /\ ListNames' = [i \in DOMAIN given' |-> given'[i].name]
  BY <1>1, <1>2, SaveHolds
<1>4. TypeOK'
  BY <1>3 DEF TypeOK, ListItem, IInv
<1>5. HistoryOK'
  BY <1>1, <1>3 DEF IInv, HistoryOK
<1>6. SavedWhole'
  <2>1. ~NothingToSave'
    BY <1>1, <1>3, Places1 DEF NothingToSave
  <2> QED
    BY <2>1 DEF SavedWhole
<1> QED
  BY <1>3, <1>4, <1>5, <1>6 DEF SessionInv

\* A step that leaves `kept', or loses it, keeps what is said of it.
LEMMA KeptKeeps ==
    ASSUME IInv, kept' = kept \/ kept' = Lost
    PROVE  KeptOK' /\ KeptWhole'
BY DEF IInv, KeptOK, KeptWhole

LEMMA IInvInit == Init => IInv
<1> SUFFICES ASSUME Init PROVE IInv
  OBVIOUS
<1>1. /\ << >> \in Seq(ListItem) /\ << >> \in Seq(GivenItem) /\ Len(<< >>) = 0
      /\ DOMAIN << >> = {}
  OBVIOUS
<1>2. ListNames = [i \in DOMAIN given |-> given[i].name]
  BY DEF Init, ListNames
<1>3. InMemory(list) = {} /\ ListNames = << >>
  BY <1>1 DEF Init, InMemory, ListNames
<1>4. TypeOK
  BY <1>1, <1>2, <1>3 DEF Init, TypeOK, NoBlocks, ListItem
<1>5. HistoryOK
  <2>1. 0 <= MaxBlobs
    BY BlobCacheAssumption
  <2>2. list = << >> /\ given = << >> /\ names = Nothing /\ unwritten = {}
    BY DEF Init
  <2> QED
    BY <1>1, <2>1, <2>2 DEF Init, HistoryOK
<1>6. ListHolds /\ SavedWhole
  BY <1>1, <1>3 DEF Init, ListHolds, SavedWhole, Told
<1> QED
  BY <1>4, <1>5, <1>6 DEF Init, IInv, PassedSaved, NoneEmpty, KeptOK, KeptWhole

LEMMA AddBlobKeeps ==
    ASSUME IInv, NEW n \in Names, NEW c \in Contents, AddBlob(n, c)
    PROVE  IInv'
<1> DEFINE m == Len(list) + 1
<1>1. /\ phase = "parsing" /\ phase' = "parsing" /\ Len(list) < MaxBlobs
      /\ list' = Append(list, Blob(n, InList(c))) /\ changed' = TRUE
      /\ given' = Append(given, Blob(n, c))
      /\ kept' = kept \/ kept' = Lost
      /\ UNCHANGED <<attached, names, passed>>
  BY DEF AddBlob
<1>2. Blob(n, InList(c)) \in ListItem /\ Blob(n, c) \in GivenItem
  BY DEF Blob, InList, ListItem, GivenItem
<1>3. /\ Len(list) \in Nat
      /\ list' \in Seq(ListItem) /\ Len(list') = m
      /\ \A i \in 1..Len(list) : list'[i] = list[i]
      /\ list'[m] = Blob(n, InList(c))
      /\ given' \in Seq(GivenItem) /\ Len(given') = m
      /\ \A i \in 1..Len(list) : given'[i] = given[i]
      /\ given'[m] = Blob(n, c)
  BY <1>1, <1>2, Places1, AppendProperties
<1>4. DOMAIN list' = 1..m /\ DOMAIN given' = 1..m /\ m \in Places /\ m \in Nat
  BY <1>1, <1>3, LenProperties, BlobCacheAssumption DEF Places
<1>5. \A i \in 1..m : i \in 1..Len(list) \/ i = m
  BY <1>3
<1>6. /\ unwritten' = unwritten \/ unwritten' = unwritten \union {m}
      /\ ~attached => blocks' = blocks /\ unwritten' = unwritten
      /\ attached => \/ unwritten' = unwritten \union {m} /\ blocks' = blocks
                     \/ unwritten' = unwritten /\ blocks' = [blocks EXCEPT ![m] = c]
  BY DEF AddBlob
<1>7. /\ blocks' \in [Places -> Contents \union {Nothing}]
      /\ \A i \in 1..Len(list) : blocks'[i] = blocks[i]
      /\ attached /\ m \notin unwritten' => blocks'[m] = c
  <2>1. blocks \in [Places -> Contents \union {Nothing}]
    BY DEF IInv, TypeOK
  <2>2. attached \in BOOLEAN
    BY DEF IInv, HistoryOK
  <2>3. 1..Len(list) \subseteq Places /\ m \notin 1..Len(list)
    BY Places1
  <2>4. CASE blocks' = blocks
    BY <1>6, <2>1, <2>4, <1>4
  <2>5. CASE blocks' = [blocks EXCEPT ![m] = c]
    BY <2>1, <2>3, <2>5, <1>4
  <2> QED
    BY <1>6, <2>2, <2>4, <2>5
<1>8. ListHolds'
  <2> SUFFICES ASSUME NEW i \in 1..m
               PROVE  /\ list'[i].data # Stored => list'[i].data = given'[i].data
                      /\ list'[i].data = Stored /\ i \notin unwritten'
                            => blocks'[i] = given'[i].data
    BY <1>3 DEF ListHolds
  <2>1. CASE i \in 1..Len(list)
    BY <2>1, <1>3, <1>6, <1>7 DEF IInv, ListHolds
  <2>2. CASE i = m
    <3>1. list'[i].data = InList(c) /\ given'[i].data = c
      BY <2>2, <1>3 DEF Blob
    <3> QED
      BY <2>2, <3>1, <1>7, BlobCacheAssumption DEF InList
  <2> QED
    BY <1>5, <2>1, <2>2
<1>9. TypeOK'
  <2>1. \A i \in 1..m : list'[i].name = given'[i].name
    BY <1>3, <1>5, Places1 DEF Blob
  <2>2. ListNames' = [i \in DOMAIN given' |-> given'[i].name]
    BY <1>4, <2>1 DEF ListNames
  <2>3. attached' \/ InMemory(list') = DOMAIN list'
    <3> SUFFICES ASSUME ~attached PROVE \A i \in 1..m : list'[i].data # Stored
      BY <1>1, <1>4 DEF InMemory
    <3>1. \A i \in 1..Len(list) : list[i].data # Stored
      BY Places1 DEF IInv, TypeOK, InMemory
    <3>2. list'[m].data # Stored
      BY <1>3, BlobCacheAssumption DEF Blob, InList
    <3> QED
      BY <1>3, <1>5, <3>1, <3>2
  <2> QED
    BY <1>1, <1>3, <1>7, <2>2, <2>3 DEF TypeOK, ListItem
<1>10. HistoryOK'
  <2>1. Len(list') <= MaxBlobs
    BY <1>3, <1>4, BlobCacheAssumption DEF Places
  <2>2. unwritten' \in SUBSET Nat
    BY <1>4, <1>6 DEF IInv, HistoryOK
  <2> QED
    BY <1>1, <1>3, <2>1, <2>2 DEF IInv, HistoryOK
<1>11. ~NothingToSave'
  BY <1>1, <1>3 DEF NothingToSave
<1>12. ~passed'
  BY <1>1 DEF IInv, PassedSaved
<1> QED
  BY <1>1, <1>8, <1>9, <1>10, <1>11, <1>12, KeptKeeps
     DEF IInv, SavedWhole, PassedSaved, NoneEmpty

LEMMA CreateCacheFileKeeps == ASSUME IInv, CreateCacheFile PROVE IInv'
<1>1. /\ phase # "none" /\ ~attached /\ attached' = TRUE /\ kept' = Lost
      /\ UNCHANGED <<phase, passed, given, unwritten>>
  BY DEF CreateCacheFile
<1>2. ~passed /\ passed' \in BOOLEAN
  BY <1>1 DEF IInv, PassedSaved, HistoryOK
<1>3. SessionInv'
  BY <1>1, <1>2, SaveEndsKeeps DEF CreateCacheFile
<1> QED
  BY <1>1, <1>2, <1>3, KeptKeeps DEF SessionInv, IInv, PassedSaved, NoneEmpty

LEMMA SaveKeeps == ASSUME IInv, Save PROVE IInv'
<1>1. /\ phase = "loaded" /\ attached = TRUE /\ ~passed
      /\ kept' = kept \/ kept' = Lost
      /\ UNCHANGED <<phase, attached, given, unwritten>>
      /\ passed \in BOOLEAN
  BY DEF Save, SaveStage, IInv, HistoryOK
<1>2. SessionInv' /\ (passed' => NothingToSave')
  <2>1. ASSUME NEW k \in DOMAIN list, NEW failing \in SUBSET DOMAIN list,
               SaveExpires(k, failing), passed' = passed
        PROVE  SessionInv' /\ ~passed'
    <3>1. passed' \in BOOLEAN /\ ~passed'
      BY <2>1, <1>1
    <3> QED
      BY <2>1, <3>1, <1>1, SaveExpiresKeeps
  <2>2. ASSUME NEW failing \in SUBSET DOMAIN list, NEW indexFails \in BOOLEAN,
               NEW good \in BOOLEAN, SaveEnds(failing, indexFails, good),
               passed' \in {FALSE, good}
        PROVE  SessionInv' /\ (passed' => NothingToSave')
    <3>1. passed' \in BOOLEAN /\ (passed' => good)
      <4>1. good \in BOOLEAN /\ (passed' = FALSE \/ passed' = good)
        BY <2>2
      <4>2. CASE passed' = FALSE
        BY <4>2
      <4>3. CASE passed' = good
        BY <4>1, <4>3, Zenon
      <4> QED
        BY <4>1, <4>2, <4>3, Zenon
    <3>2. phase # "none" /\ attached' = TRUE
      BY <1>1
    <3> QED
      BY <2>2, <3>1, <3>2, <1>1, SaveEndsKeeps
  <2> QED
    BY <2>1, <2>2 DEF Save, SaveStage
<1> QED
  BY <1>1, <1>2, KeptKeeps DEF SessionInv, IInv, PassedSaved, NoneEmpty

\* What is committed is whole: the save went on only when nothing was left to save.
LEMMA CommitKeeps == ASSUME IInv, Commit PROVE IInv'
<1>1. /\ phase = "loaded" /\ passed /\ passed' = FALSE
      /\ kept' = [blocks |-> blocks, names |-> names, given |-> given,
                  unwritten |-> unwritten]
      /\ UNCHANGED <<phase, list, changed, attached, blocks, names, given, unwritten>>
  BY DEF Commit
<1>2. SessionInv'
  BY <1>1 DEF IInv, SessionInv, TypeOK, HistoryOK, ListHolds, SavedWhole,
              NothingToSave, ListNames, InMemory, Told
<1>3. Told(names) = ListNames /\ InMemory(list) = {}
  BY <1>1 DEF IInv, PassedSaved, SavedWhole
<1>4. \A i \in 1..Len(list) : i \notin unwritten => blocks[i] = given[i].data
  <2>1. \A i \in 1..Len(list) : list[i].data = Stored
    BY <1>3, Places1 DEF InMemory
  <2> QED
    BY <2>1 DEF IInv, ListHolds
<1>5. KeptOK'
  BY <1>1 DEF KeptOK, KeptState, IInv, TypeOK, HistoryOK
<1>6. KeptWhole'
  <2>1. ListNames = [i \in DOMAIN given |-> given[i].name]
    BY DEF IInv, TypeOK
  <2>2. /\ kept'.names = names /\ kept'.given = given /\ kept'.blocks = blocks
        /\ kept'.unwritten = unwritten
    BY <1>1
  <2> QED
    BY <2>1, <2>2, <1>3, <1>4, Places1 DEF KeptWhole, Told
<1> QED
  BY <1>1, <1>2, <1>5, <1>6 DEF IInv, SessionInv, PassedSaved, NoneEmpty

\* What is loaded is listed as it was committed, and nothing of it is in memory.
LEMMA OpenFromCacheKeeps == ASSUME IInv, OpenFromCache PROVE IInv'
<1> DEFINE index == Told(kept.names)
           n == Len(kept.given)
<1>1. /\ phase = "none" /\ kept # Lost /\ phase' \in {"loaded", "parsing"}
      /\ attached' = TRUE /\ blocks' = kept.blocks /\ names' = kept.names
      /\ given' = kept.given /\ unwritten' = kept.unwritten
      /\ UNCHANGED <<changed, passed, kept>>
  BY DEF OpenFromCache
<1>2. /\ kept \in KeptState /\ Len(kept.given) <= MaxBlobs
      /\ index = [i \in DOMAIN kept.given |-> kept.given[i].name]
      /\ \A i \in DOMAIN kept.given \ kept.unwritten :
            kept.blocks[i] = kept.given[i].data
  BY <1>1 DEF IInv, KeptOK, KeptWhole, Told
<1>3. /\ kept.given \in Seq(GivenItem) /\ n \in Nat /\ DOMAIN kept.given = 1..n
      /\ \A i \in 1..n : kept.given[i] \in GivenItem /\ kept.given[i].name \in Names
  <2>1. kept.given \in Seq(GivenItem)
    BY <1>2 DEF KeptState
  <2>2. \A i \in 1..n : kept.given[i] \in GivenItem
    BY <2>1, ElementOfSeq
  <2> QED
    BY <2>1, <2>2, LenProperties DEF GivenItem
<1>4. /\ DOMAIN index = 1..n
      /\ \A i \in 1..n : index[i] = kept.given[i].name
  BY <1>2, <1>3
<1>5. list' = [i \in 1..n |-> Blob(kept.given[i].name, Stored)]
  <2>1. CASE kept.names = Nothing
    <3>1. index = << >> /\ list' = << >> /\ DOMAIN << >> = {}
      BY <2>1 DEF Told, OpenFromCache, LoadIndex
    <3>2. n = 0 /\ 1..n = {}
      BY <3>1, <1>3, <1>4
    <3>3. << >> = [i \in {} |-> Blob(kept.given[i].name, Stored)]
      OBVIOUS
    <3> QED
      BY <3>1, <3>2, <3>3
  <2>2. CASE kept.names # Nothing
    BY <2>2, <1>4 DEF Told, OpenFromCache, LoadIndex
  <2> QED
    BY <2>1, <2>2
<1>6. /\ list' \in Seq(ListItem) /\ Len(list') = n /\ DOMAIN list' = 1..n
      /\ \A i \in 1..n : /\ list'[i].name = kept.given[i].name
                         /\ list'[i].data = Stored
  BY <1>3, <1>5 DEF Blob, ListItem
<1>7. ListNames' = [i \in DOMAIN given' |-> given'[i].name]
  BY <1>1, <1>3, <1>6 DEF ListNames
<1>8. TypeOK'
  BY <1>1, <1>2, <1>6, <1>7 DEF TypeOK, ListItem, KeptState
<1>9. HistoryOK'
  BY <1>1, <1>2, <1>3, <1>6 DEF IInv, HistoryOK, KeptState
<1>10. ListHolds'
  BY <1>1, <1>2, <1>3, <1>6 DEF ListHolds
<1>11. SavedWhole'
  <2>1. InMemory(list') = {}
    BY <1>6 DEF InMemory
  <2>2. Told(names') = ListNames'
    BY <1>1, <1>2, <1>7
  <2> QED
    BY <2>1, <2>2 DEF SavedWhole
<1>12. PassedSaved' /\ NoneEmpty'
  BY <1>1 DEF IInv, PassedSaved, NoneEmpty
<1> QED
  BY <1>1, <1>8, <1>9, <1>10, <1>11, <1>12, KeptKeeps DEF IInv

LEMMA LeaveKeeps == ASSUME IInv, Leave PROVE IInv'
<1>1. /\ phase' = "none" /\ list' = << >> /\ changed' = FALSE /\ attached' = FALSE
      /\ blocks' = NoBlocks /\ names' = Nothing /\ passed' = FALSE
      /\ given' = << >> /\ unwritten' = {} /\ kept' = kept
  BY DEF Leave
<1>2. /\ << >> \in Seq(ListItem) /\ << >> \in Seq(GivenItem) /\ Len(<< >>) = 0
      /\ DOMAIN << >> = {}
  OBVIOUS
<1>3. InMemory(list') = {} /\ ListNames' = << >>
  BY <1>1, <1>2 DEF InMemory, ListNames
<1>4. ListNames' = [i \in DOMAIN given' |-> given'[i].name]
  BY <1>1, <1>2 DEF ListNames
<1>5. TypeOK'
  BY <1>1, <1>2, <1>3, <1>4 DEF TypeOK, NoBlocks, ListItem
<1>6. HistoryOK'
  <2>1. 0 <= MaxBlobs
    BY BlobCacheAssumption
  <2> QED
    BY <1>1, <1>2, <2>1 DEF HistoryOK
<1>7. ListHolds' /\ SavedWhole'
  BY <1>1, <1>2, <1>3 DEF ListHolds, SavedWhole, Told
<1> QED
  BY <1>1, <1>5, <1>6, <1>7, KeptKeeps DEF IInv, PassedSaved, NoneEmpty

\* Every step keeps the invariant.
LEMMA IInvStep == ASSUME IInv, [Next]_vars PROVE IInv'
<1> USE DEF TypeOK, HistoryOK, ListHolds, SavedWhole, PassedSaved, NoneEmpty,
            NothingToSave, ListNames, InMemory, Told
<1>1. CASE NewDocument
  BY <1>1, KeptKeeps DEF IInv, NewDocument
<1>2. CASE Parsed
  BY <1>2, KeptKeeps DEF IInv, Parsed
<1>3. CASE CreateCacheFile
  BY <1>3, CreateCacheFileKeeps
<1>4. CASE Save
  BY <1>4, SaveKeeps
<1>5. CASE Commit
  BY <1>5, CommitKeeps
<1>6. CASE OpenFromCache
  BY <1>6, OpenFromCacheKeeps
<1>7. CASE Leave
  BY <1>7, LeaveKeeps
<1>8. CASE \E n \in Names, c \in Contents : AddBlob(n, c)
  BY <1>8, AddBlobKeeps
<1>9. CASE UNCHANGED vars
  BY <1>9, KeptKeeps DEF IInv, vars, session
<1> QED
  BY <1>1, <1>2, <1>3, <1>4, <1>5, <1>6, <1>7, <1>8, <1>9 DEF Next

\* A read finds the least place of the name.
LEMMA GetBlobAt ==
    ASSUME IInv, NEW n, NEW k \in PlacesOf(n), \A j \in PlacesOf(n) : k <= j
    PROVE  GetBlob(n) = IF list[k].data # Stored THEN list[k].data ELSE blocks[k]
<1> DEFINE first == CHOOSE i \in PlacesOf(n) : \A j \in PlacesOf(n) : i <= j
<1>1. PlacesOf(n) \subseteq Nat
  BY Places1 DEF PlacesOf
<1>2. \A i \in PlacesOf(n) : (\A j \in PlacesOf(n) : i <= j) => i = k
  BY <1>1
<1>3. first = k
  BY <1>2
<1>4. GetBlob(n) = IF list[first].data # Stored THEN list[first].data ELSE blocks[first]
  BY Zenon DEF GetBlob
<1> QED
  BY <1>3, <1>4

\* The first blob of a name is found, and is as it was given.
LEMMA ReadsFirstHolds == IInv => ReadsFirst
<1> SUFFICES ASSUME IInv, NEW i \in 1..Len(list), i \notin unwritten,
                    \A j \in 1..(i - 1) : given[j].name # given[i].name
             PROVE  GetBlob(given[i].name) = given[i].data
  BY Places1 DEF ReadsFirst
<1>1. i \in PlacesOf(given[i].name)
  BY Places1 DEF PlacesOf
<1>2. \A j \in PlacesOf(given[i].name) : i <= j
  BY Places1 DEF PlacesOf
<1>3. GetBlob(given[i].name) = IF list[i].data # Stored THEN list[i].data ELSE blocks[i]
  BY <1>1, <1>2, GetBlobAt
<1> QED
  BY <1>3 DEF IInv, ListHolds

\* For any blobs, added before or after there is a cache file, and whatever writes fail:
\* the blob added first under a name is what is read, in this session and in those that
\* find it in a committed cache file, which is complete (addBlob, saveToCache, loadIndex
\* and getBlob of ldomBlobCache).
THEOREM BlobsAlwaysSound == Spec => []BlobsSound
<1>1. Init => IInv
  BY IInvInit
<1>2. IInv /\ [Next]_vars => IInv'
  BY IInvStep
<1>3. IInv => BlobsSound
  BY ReadsFirstHolds DEF BlobsSound, IInv
<1> QED
  BY <1>1, <1>2, <1>3, PTL DEF Spec

=============================================================================
