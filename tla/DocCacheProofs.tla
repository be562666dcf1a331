---------------------------- MODULE DocCacheProofs ----------------------------
(***************************************************************************)
(* Proofs about the directory of cache files, for any files, sizes and     *)
(* limits and any number of failures.                                      *)
(*                                                                         *)
(* That the file opened last survives rests on where it stands: in front   *)
(* of the index on the disk, of the list that a start reads from it, and   *)
(* of what a reserve keeps.  That the index on the disk is the list rests  *)
(* on what the program remembers of it, which is right until it fails to   *)
(* write it.                                                               *)
(***************************************************************************)
EXTENDS DocCache, SequenceTheorems, TLAPS

FileItem == [name : Names, size : Nat]

\* A list names each file once.
Distinct(list) ==
    \A i, j \in DOMAIN list : i # j => list[i].name # list[j].name
Listing(list) == list \in Seq(FileItem) /\ Distinct(list)

ListsOK ==
    /\ Listing(files)
    /\ index = Torn \/ Listing(index)
    /\ old = Unknown \/ Listing(old)
    /\ dir \in [DOMAIN dir -> Nat]

Ops == {"idle", "sweep", "reserve", "create", "rekeep", "clear", "index", "write"}
Goals == {"none", "start", "startover", "open", "create", "clear"}

AtOK ==
    /\ at \in [op : Ops, goal : Goals, name : Names \union {None}, size : Nat,
               i : Nat \ {0}, used : Nat, left : SUBSET Names]
    /\ at.op \in {"rekeep", "create"} => at.name \in Names
    /\ at.op = "reserve" /\ at.goal = "create" => at.name \in Names
    /\ at.op \in {"sweep", "rekeep"} => at.i = 1
    /\ at.op = "sweep" => at.goal = "start" /\ at.size = 0
    /\ at.op = "rekeep" => at.goal = "create"

\* The file opened last stands in front of the index, and is there.
LastInFront ==
    last # None =>
        /\ index # Torn /\ index # << >> /\ index[1].name = last
        /\ last \in DOMAIN dir \union kept

\* While a start reads, sweeps and reserves it stands in front of the list as well; the
\* operations that may lose it forget it first.
LastReserved ==
    /\ at.op \in {"clear", "create", "rekeep", "write"} => last = None
    /\ at.op = "reserve" /\ at.goal = "create" => last = None
    /\ at.op = "sweep" => files = index
    /\ at.op = "reserve" /\ last # None =>
          /\ at.size = 0
          /\ last \in DOMAIN dir => files # << >> /\ files[1].name = last

\* What a reserve went over is there.
ReservedThere ==
    /\ at.op = "reserve" =>
          /\ at.i <= Len(files) + 1
          /\ \A j \in 1..(at.i - 1) : files[j].name \in DOMAIN dir
    /\ at.op = "create" => NamesOf(files) \subseteq DOMAIN dir
    /\ at.op \in {"index", "write"} =>
          /\ files = << >> \/ files[1].name \in DOMAIN dir
          /\ ~failed => NamesOf(files) \subseteq DOMAIN dir \union kept

\* What is remembered of the index is on the disk.
OldTold == ~failed /\ old # Unknown /\ at.op # "write" => old = index

\* Between two operations, and while a .keep file is made again, the list is on the disk.
ListTold ==
    on /\ ~failed =>
        /\ at.op = "idle" => index = files /\ NamesOf(files) \subseteq DOMAIN dir \union kept
        /\ at.op = "rekeep" =>
              index = files /\ NamesOf(files) \subseteq DOMAIN dir \union kept \union {at.name}

\* Only the .keep file that is made again may be missing.
WishedKept == wished \subseteq kept \union (IF at.op = "rekeep" THEN {at.name} ELSE {})

IInv ==
    /\ TypeOK /\ ListsOK /\ AtOK /\ LastInFront /\ LastReserved /\ ReservedThere
    /\ OldTold /\ ListTold /\ WishedKept

-----------------------------------------------------------------------------
(* Lists *)

LEMMA ListingIs ==
    ASSUME NEW s, Listing(s)
    PROVE  /\ s \in Seq(FileItem) /\ Len(s) \in Nat /\ DOMAIN s = 1..Len(s)
           /\ \A i \in 1..Len(s) : s[i] \in FileItem /\ s[i].name \in Names /\ s[i].size \in Nat
           /\ NamesOf(s) = {s[i].name : i \in 1..Len(s)} /\ NamesOf(s) \subseteq Names
           /\ \A i, j \in 1..Len(s) : i # j => s[i].name # s[j].name
           /\ s = << >> <=> Len(s) = 0
<1>1. s \in Seq(FileItem) /\ Len(s) \in Nat /\ DOMAIN s = 1..Len(s)
  BY LenProperties DEF Listing
<1>2. \A i \in 1..Len(s) : s[i] \in FileItem
  BY <1>1, ElementOfSeq
<1>3. s = << >> <=> Len(s) = 0
  BY <1>1, EmptySeq
<1> QED
  BY <1>1, <1>2, <1>3 DEF FileItem, NamesOf, Listing, Distinct

LEMMA EmptyListing == Listing(<< >>) /\ NamesOf(<< >>) = {} /\ Len(<< >>) = 0
<1>1. << >> \in Seq(FileItem) /\ DOMAIN << >> = {} /\ Len(<< >>) = 0
  OBVIOUS
<1> QED
  BY <1>1 DEF Listing, Distinct, NamesOf

\* Without one of its items a list still names each file once.
LEMMA RemoveAtIs ==
    ASSUME NEW s, Listing(s), NEW i \in 1..Len(s)
    PROVE  LET r == RemoveAt(s, i)
           IN /\ Listing(r) /\ Len(r) = Len(s) - 1
              /\ \A j \in 1..(Len(s) - 1) : r[j] = IF j < i THEN s[j] ELSE s[j + 1]
              /\ NamesOf(r) = NamesOf(s) \ {s[i].name}
<1> DEFINE a == SubSeq(s, 1, i - 1)
           b == SubSeq(s, i + 1, Len(s))
           r == RemoveAt(s, i)
<1>1. /\ Len(s) \in Nat /\ s \in Seq(FileItem) /\ i \in Int
      /\ \A j \in 1..Len(s) : s[j] \in FileItem
  BY ListingIs
<1>2. /\ a \in Seq(FileItem) /\ Len(a) = i - 1
      /\ \A j \in 1..(i - 1) : a[j] = s[j]
  BY <1>1
<1>3. /\ b \in Seq(FileItem) /\ Len(b) = Len(s) - i
      /\ \A j \in 1..(Len(s) - i) : b[j] = s[i + j]
  BY <1>1
<1> HIDE DEF a, b
<1>4. r = a \o b
  BY DEF RemoveAt, a, b
<1>5. /\ r \in Seq(FileItem) /\ Len(r) = Len(a) + Len(b)
      /\ \A j \in 1..(Len(a) + Len(b)) : r[j] = IF j <= Len(a) THEN a[j] ELSE b[j - Len(a)]
  BY <1>2, <1>3, <1>4, ConcatProperties, SMTT(30)
<1> HIDE DEF r
<1>6. Len(r) = Len(s) - 1
  BY <1>1, <1>2, <1>3, <1>5
<1>7. \A j \in 1..(Len(s) - 1) : r[j] = IF j < i THEN s[j] ELSE s[j + 1]
  <2> SUFFICES ASSUME NEW j \in 1..(Len(s) - 1)
               PROVE  r[j] = IF j < i THEN s[j] ELSE s[j + 1]
    OBVIOUS
  <2>1. CASE j < i
    <3>1. j \in 1..(Len(a) + Len(b)) /\ j <= Len(a) /\ j \in 1..(i - 1)
      BY <1>1, <1>2, <1>3, <2>1
    <3>2. r[j] = a[j]
      BY <1>5, <3>1
    <3> QED
      BY <1>2, <2>1, <3>1, <3>2
  <2>2. CASE ~(j < i)
    <3>1. j - (i - 1) \in 1..(Len(s) - i) /\ i + (j - (i - 1)) = j + 1
      BY <1>1, <2>2
    <3> QED
      <4>1. /\ j \in 1..(Len(a) + Len(b)) /\ ~(j <= Len(a)) /\ j - Len(a) = j - (i - 1)
        BY <1>1, <1>2, <1>3, <2>2
      <4>2. r[j] = b[j - (i - 1)]
        BY <1>5, <4>1
      <4> QED
        BY <1>3, <2>2, <3>1, <4>2
  <2> QED
    BY <2>1, <2>2
<1>8. DOMAIN r = 1..(Len(s) - 1)
  BY <1>5, <1>6, LenProperties
<1>9. Listing(r)
  <2> SUFFICES ASSUME NEW j \in 1..(Len(s) - 1), NEW k \in 1..(Len(s) - 1), j # k
               PROVE  r[j].name # r[k].name
    BY <1>5, <1>8 DEF Listing, Distinct
  <2> DEFINE at1 == IF j < i THEN j ELSE j + 1
             at2 == IF k < i THEN k ELSE k + 1
  <2>1. at1 \in 1..Len(s) /\ at2 \in 1..Len(s) /\ at1 # at2
    BY <1>1
  <2>2. r[j] = s[at1] /\ r[k] = s[at2]
    BY <1>7
  <2> QED
    BY <2>1, <2>2, ListingIs
<1>10. NamesOf(r) = NamesOf(s) \ {s[i].name}
  <2>1. NamesOf(r) = {r[j].name : j \in 1..(Len(s) - 1)}
    BY <1>8 DEF NamesOf
  <2>2. \A j \in 1..(Len(s) - 1) :
           /\ (IF j < i THEN j ELSE j + 1) \in 1..Len(s) \ {i}
           /\ r[j] = s[IF j < i THEN j ELSE j + 1]
    BY <1>1, <1>7
  <2>3. \A k \in 1..Len(s) \ {i} :
           /\ (IF k < i THEN k ELSE k - 1) \in 1..(Len(s) - 1)
           /\ r[IF k < i THEN k ELSE k - 1] = s[k]
    BY <1>1, <1>7
  <2>4. NamesOf(r) = {s[k].name : k \in 1..Len(s) \ {i}}
    <3>1. \A j \in 1..(Len(s) - 1) : \E k \in 1..Len(s) \ {i} : r[j].name = s[k].name
      BY <2>2
    <3>2. \A k \in 1..Len(s) \ {i} : \E j \in 1..(Len(s) - 1) : r[j].name = s[k].name
      BY <2>3
    <3>3. \A x : x \in NamesOf(r) <=> \E j \in 1..(Len(s) - 1) : x = r[j].name
      BY <2>1
    <3>4. ASSUME NEW x \in NamesOf(r) PROVE x \in {s[k].name : k \in 1..Len(s) \ {i}}
      <4>1. PICK j \in 1..(Len(s) - 1) : x = r[j].name
        BY <3>3, <3>4
      <4>2. PICK k \in 1..Len(s) \ {i} : r[j].name = s[k].name
        BY <3>1
      <4> QED
        BY <4>1, <4>2
    <3>5. ASSUME NEW x \in {s[k].name : k \in 1..Len(s) \ {i}} PROVE x \in NamesOf(r)
      <4>1. PICK k \in 1..Len(s) \ {i} : x = s[k].name
        BY <3>5
      <4>2. PICK j \in 1..(Len(s) - 1) : r[j].name = s[k].name
        BY <3>2
      <4> QED
        BY <3>3, <4>1, <4>2
    <3> QED
      BY <3>4, <3>5
  <2>5. /\ NamesOf(s) = {s[k].name : k \in 1..Len(s)}
        /\ \A k \in 1..Len(s) \ {i} : s[k].name # s[i].name
    BY ListingIs
  <2> QED
    BY <2>4, <2>5
<1> QED
  BY <1>6, <1>7, <1>9, <1>10 DEF r

\* The file moved to the top, or put there, is in front; the others are as they were.
LEMMA ToTopIs ==
    ASSUME Listing(files), NEW n \in Names, NEW s \in Nat
    PROVE  LET t == ToTop(n, s)
           IN /\ Listing(t) /\ t # << >> /\ t[1].name = n
              /\ NamesOf(t) = NamesOf(files) \union {n}
<1> DEFINE others == Others(n)
           t == ToTop(n, s)
<1>1. Listing(others) /\ n \notin NamesOf(others) /\ NamesOf(others) = NamesOf(files) \ {n}
  <2>1. CASE n \in NamesOf(files)
    <3>1. PICK i \in 1..Len(files) : files[i].name = n
      BY <2>1, ListingIs
    <3>2. \A j \in 1..(i - 1) : j \in 1..Len(files) /\ j # i
      BY ListingIs
    <3>3. \A j \in 1..(i - 1) : files[j].name # n
      BY <3>1, <3>2, ListingIs
    <3>4. FileIndex(n) \in 1..Len(files) /\ files[FileIndex(n)].name = n
      BY <3>1, <3>3, ListingIs DEF FileIndex
    <3> QED
      BY <2>1, <3>4, RemoveAtIs DEF Others
  <2>2. CASE n \notin NamesOf(files)
    BY <2>2 DEF Others
  <2> QED
    BY <2>1, <2>2
<1>2. Item(n, s) \in FileItem /\ Item(n, s).name = n
  BY DEF Item, FileItem
<1> HIDE DEF others
<1>3. /\ others \in Seq(FileItem) /\ Len(others) \in Nat /\ DOMAIN others = 1..Len(others)
      /\ NamesOf(others) = {others[i].name : i \in 1..Len(others)}
      /\ \A i, j \in 1..Len(others) : i # j => others[i].name # others[j].name
  BY <1>1, ListingIs
<1>4. t = <<Item(n, s)>> \o others
  BY DEF ToTop, others
<1> HIDE DEF t
<1>5. /\ t \in Seq(FileItem) /\ Len(t) = Len(others) + 1 /\ DOMAIN t = 1..(Len(others) + 1)
      /\ t[1] = Item(n, s)
      /\ \A i \in 2..(Len(others) + 1) : t[i] = others[i - 1]
  <2>1. /\ <<Item(n, s)>> \in Seq(FileItem) /\ Len(<<Item(n, s)>>) = 1
        /\ <<Item(n, s)>>[1] = Item(n, s)
    BY <1>2
  <2>2. /\ t \in Seq(FileItem) /\ Len(t) = 1 + Len(others)
        /\ \A i \in 1..(1 + Len(others)) :
              t[i] = IF i <= 1 THEN <<Item(n, s)>>[i] ELSE others[i - 1]
    BY <1>3, <1>4, <2>1, ConcatProperties
  <2> QED
    <3>1. t[1] = Item(n, s) /\ Len(t) = Len(others) + 1
      BY <1>3, <2>1, <2>2
    <3>2. \A i \in 2..(Len(others) + 1) :
             i \in 1..(1 + Len(others)) /\ ~(i <= 1) /\ i - 1 \in 1..Len(others)
      BY <1>3
    <3>3. \A i \in 2..(Len(others) + 1) : t[i] = others[i - 1]
      BY <2>2, <3>2
    <3>4. DOMAIN t = 1..Len(t)
      BY <2>2, LenProperties
    <3> QED
      BY <2>2, <3>1, <3>3, <3>4
<1>6. \A i \in 1..(Len(others) + 1) :
         i = 1 \/ (i \in 2..(Len(others) + 1) /\ i - 1 \in 1..Len(others))
  BY <1>3
<1>7. Listing(t)
  <2> SUFFICES ASSUME NEW i \in 1..(Len(others) + 1), NEW j \in 1..(Len(others) + 1), i # j
               PROVE  t[i].name # t[j].name
    BY <1>5 DEF Listing, Distinct
  <2>0. \A k \in 2..(Len(others) + 1) : t[k].name # n
    <3>1. \A k \in 1..Len(others) : others[k].name # n
      BY <1>1, <1>3
    <3> QED
      BY <1>3, <1>5, <1>6, <3>1
  <2>1. CASE i = 1
    BY <2>0, <2>1, <1>2, <1>5, <1>6
  <2>2. CASE j = 1
    BY <2>0, <2>2, <1>2, <1>5, <1>6
  <2>3. CASE i # 1 /\ j # 1
    <3>1. i - 1 \in 1..Len(others) /\ j - 1 \in 1..Len(others) /\ i - 1 # j - 1
      BY <2>3, <1>6
    <3> QED
      BY <2>3, <3>1, <1>3, <1>5, <1>6
  <2> QED
    BY <2>1, <2>2, <2>3
<1>8. NamesOf(t) = NamesOf(others) \union {n}
  <2>1. NamesOf(t) = {t[i].name : i \in 1..(Len(others) + 1)}
    BY <1>5 DEF NamesOf
  <2>2. \A i \in 1..Len(others) : i + 1 \in 2..(Len(others) + 1) /\ t[i + 1] = others[i]
    BY <1>3, <1>5
  <2>3. \A i \in 2..(Len(others) + 1) : i - 1 \in 1..Len(others) /\ t[i] = others[i - 1]
    BY <1>3, <1>5
  <2>4. 1 \in 1..(Len(others) + 1) /\ t[1].name = n
    BY <1>2, <1>3, <1>5
  <2>5. 2..(Len(others) + 1) \subseteq 1..(Len(others) + 1)
    BY <1>3
  <2> QED
    BY <2>1, <2>2, <2>3, <2>4, <2>5, <1>3, <1>6
<1>9. NamesOf(t) = NamesOf(files) \union {n}
  BY <1>1, <1>8
<1>10. t # << >>
  BY <1>3, <1>5, EmptySeq
<1> QED
  BY <1>2, <1>5, <1>7, <1>9, <1>10 DEF t

-----------------------------------------------------------------------------
(* The invariant *)

LEMMA IInvInit == Init => IInv
<1> SUFFICES ASSUME Init PROVE IInv
  OBVIOUS
<1>1. DOMAIN << >> = {}
  OBVIOUS
<1>2. << >> \in [{} -> Nat]
  OBVIOUS
<1>3. ListsOK
  BY <1>1, <1>2, EmptyListing DEF Init, ListsOK
<1>4. AtOK
  BY DEF Init, AtOK, Idle, Ops, Goals
<1>5. at.op = "idle"
  BY DEF Init, Idle
<1>6. TypeOK
  <2>1. 0 \in 0..MaxFails
    BY DocCacheAssumption
  <2> QED
    BY <1>1, <2>1 DEF Init, TypeOK
<1>7. OldTold /\ ListTold /\ LastInFront
  BY DEF Init, OldTold, ListTold, LastInFront
<1>8. LastReserved /\ ReservedThere /\ WishedKept
  BY <1>5 DEF Init, LastReserved, ReservedThere, WishedKept
<1> QED
  BY <1>3, <1>4, <1>6, <1>7, <1>8 DEF IInv

\* What is said of a state in which no operation is under way, apart from the types.
LEMMA IdleIs ==
    ASSUME at = Idle
    PROVE  /\ at.op = "idle" /\ at.goal = "none" /\ at.i = 1
           /\ AtOK /\ LastReserved /\ ReservedThere
<1>1. /\ at.op = "idle" /\ at.goal = "none" /\ at.i = 1
      /\ at \in [op : Ops, goal : Goals, name : Names \union {None}, size : Nat,
                 i : Nat \ {0}, used : Nat, left : SUBSET Names]
  BY DEF Idle, Ops, Goals
<1> QED
  BY <1>1 DEF AtOK, LastReserved, ReservedThere

\* How an operation goes on, and what stays of it.
AtType ==
    [op : Ops, goal : Goals, name : Names \union {None}, size : Nat, i : Nat \ {0},
     used : Nat, left : SUBSET Names]

LEMMA AtIs == AtOK => at \in AtType
BY DEF AtOK, AtType

LEMMA AtOp ==
    ASSUME at \in AtType, NEW op \in Ops
    PROVE  LET a == [at EXCEPT !.op = op]
           IN /\ a \in AtType /\ a.op = op
              /\ a.i = at.i /\ a.size = at.size /\ a.name = at.name /\ a.goal = at.goal
BY DEF AtType

LEMMA AtCounted ==
    ASSUME at \in AtType, NEW k \in Nat \ {0}, NEW u \in Nat
    PROVE  LET a == [at EXCEPT !.i = k, !.used = u]
           IN /\ a \in AtType /\ a.i = k
              /\ a.op = at.op /\ a.size = at.size /\ a.name = at.name /\ a.goal = at.goal
BY DEF AtType

LEMMA AtNext ==
    ASSUME at \in AtType, NEW k \in Nat \ {0}
    PROVE  LET a == [at EXCEPT !.i = k]
           IN /\ a \in AtType /\ a.i = k
              /\ a.op = at.op /\ a.size = at.size /\ a.name = at.name /\ a.goal = at.goal
BY DEF AtType

LEMMA AtSwept ==
    ASSUME at \in AtType, NEW op \in Ops
    PROVE  LET a == [at EXCEPT !.op = op, !.left = {}]
           IN /\ a \in AtType /\ a.op = op
              /\ a.i = at.i /\ a.size = at.size /\ a.name = at.name /\ a.goal = at.goal
BY DEF AtType

\* How an operation begins.
LEMMA Begins ==
    ASSUME NEW op \in Ops, NEW goal \in Goals
    PROVE  LET a == [Idle EXCEPT !.op = op, !.goal = goal]
           IN a \in AtType /\ a.op = op /\ a.goal = goal /\ a.i = 1 /\ a.size = 0
<1>1. Idle \in AtType /\ Idle.i = 1 /\ Idle.size = 0
  BY DEF Idle, AtType, Ops, Goals
<1> QED
  BY <1>1 DEF AtType

LEMMA IdleType == Idle \in AtType /\ Idle.i = 1
BY DEF Idle, AtType, Ops, Goals

LEMMA WithoutIs ==
    ASSUME NEW f \in [DOMAIN dir -> Nat], NEW S
    PROVE  /\ DOMAIN Without(f, S) = DOMAIN dir \ S
           /\ Without(f, S) \in [DOMAIN Without(f, S) -> Nat]
BY DEF Without

LEMMA WithIs ==
    ASSUME NEW f \in [DOMAIN dir -> Nat], NEW n, NEW s \in Nat
    PROVE  /\ DOMAIN With(f, n, s) = DOMAIN dir \union {n}
           /\ With(f, n, s) \in [DOMAIN With(f, n, s) -> Nat]
           /\ With(f, n, s)[n] = s
BY DEF With

\* What went wrong is counted.
LEMMA FailIs ==
    ASSUME TypeOK, Fail
    PROVE  fails' \in 0..MaxFails /\ failed' = TRUE
BY DocCacheAssumption DEF TypeOK, Fail

\* A reserve takes files away behind the one in front, or makes room for a new one.
LEMMA ReserveStepKeeps == ASSUME IInv, ReserveStep PROVE IInv'
<1> DEFINE i == at.i
           name == files[i].name
           counted == [at EXCEPT !.i = i + 1, !.used = at.used + files[i].size]
<1>1. /\ at.op = "reserve" /\ i <= Len(files)
      /\ UNCHANGED <<kept, index, on, old, held, last, wished>>
  BY DEF ReserveStep
<1>2. /\ i \in 1..Len(files) /\ i \in Nat \ {0} /\ at.used + files[i].size \in Nat
      /\ Len(files) \in Nat /\ name \in Names
      /\ Listing(files) /\ dir \in [DOMAIN dir -> Nat]
  BY <1>1, ListingIs DEF IInv, ListsOK, AtOK
<1>3. /\ counted.op = at.op /\ counted.i = i + 1 /\ counted.size = at.size
      /\ counted.name = at.name /\ counted.goal = at.goal
      /\ counted \in AtType
  <2>1. at \in AtType /\ i + 1 \in Nat \ {0}
    BY <1>2, AtIs DEF IInv
  <2> QED
    BY <1>2, <2>1, AtCounted, ZenonT(30)
<1>4. fails' \in 0..MaxFails /\ failed' \in BOOLEAN /\ (failed => failed')
  <2>1. CASE Fail
    BY <2>1, FailIs DEF IInv
  <2>2. CASE UNCHANGED <<fails, failed>>
    BY <2>2 DEF IInv, TypeOK
  <2> QED
    BY <2>1, <2>2 DEF ReserveStep, Dropped
<1>5. CASE /\ files' = RemoveAt(files, i) /\ at' = at
           /\ name \notin DOMAIN dir' /\ DOMAIN dir' = DOMAIN dir \ {name}
           /\ dir' \in [DOMAIN dir' -> Nat]
           /\ name \notin DOMAIN dir \/ i > 1 \/ at.size \div 10 > 0
  <2>1. /\ Listing(files') /\ Len(files') = Len(files) - 1
        /\ \A j \in 1..(Len(files) - 1) : files'[j] = IF j < i THEN files[j] ELSE files[j + 1]
    BY <1>2, <1>5, RemoveAtIs
  <2>2. \A j \in 1..(i - 1) : files'[j] = files[j] /\ files[j].name # name /\ j \in 1..Len(files)
    <3>1. \A j \in 1..(i - 1) : /\ j \in 1..(Len(files) - 1) /\ j < i
                               /\ j \in 1..Len(files) /\ j # i
      BY <1>2
    <3>2. \A j, k \in 1..Len(files) : j # k => files[j].name # files[k].name
      BY <1>2, ListingIs
    <3> QED
      BY <1>2, <2>1, <3>1, <3>2
  <2>3. ListsOK' /\ AtOK'
    BY <1>1, <1>5, <2>1 DEF IInv, ListsOK, AtOK
  <2>4. TypeOK'
    BY <1>1, <1>4, <1>5, <2>1 DEF IInv, TypeOK, Listing, Distinct
  <2>5. ReservedThere'
    <3>1. \A j \in 1..(i - 1) : files'[j].name \in DOMAIN dir'
      BY <1>1, <1>5, <2>2 DEF IInv, ReservedThere
    <3>2. i <= Len(files') + 1
      BY <1>2, <2>1
    <3> QED
      BY <1>1, <1>5, <3>1, <3>2 DEF ReservedThere
  <2>6. ASSUME last # None
        PROVE  /\ last \in DOMAIN dir => last \in DOMAIN dir'
               /\ last \in DOMAIN dir' => files' # << >> /\ files'[1].name = last
    <3>1. at.size = 0 /\ ~(at.size \div 10 > 0)
      BY <1>1, <2>6 DEF IInv, LastReserved
    <3>2. CASE last \in DOMAIN dir
      <4>1. files # << >> /\ files[1].name = last
        BY <1>1, <2>6, <3>2 DEF IInv, LastReserved
      <4>2. i # 1 /\ name # last
        BY <1>2, <1>5, <3>1, <3>2, <4>1, ListingIs
      <4>3. 1 \in 1..(i - 1) /\ Len(files') >= 1
        BY <1>2, <2>1, <4>2
      <4> QED
        BY <1>5, <2>1, <2>2, <4>1, <4>2, <4>3, ListingIs
    <3>3. CASE last \notin DOMAIN dir
      BY <1>5, <3>3
    <3> QED
      BY <3>2, <3>3
  <2>7. LastInFront' /\ LastReserved'
    BY <1>1, <1>5, <2>6 DEF IInv, LastInFront, LastReserved
  <2>8. OldTold' /\ ListTold' /\ WishedKept'
    BY <1>1, <1>4, <1>5 DEF IInv, OldTold, ListTold, WishedKept
  <2> QED
    BY <2>3, <2>4, <2>5, <2>7, <2>8 DEF IInv
<1>6. CASE at' = counted /\ UNCHANGED <<dir, files>> /\ name \in DOMAIN dir
  <2>1. ListsOK' /\ AtOK' /\ TypeOK'
    BY <1>1, <1>3, <1>4, <1>6 DEF IInv, ListsOK, AtOK, TypeOK, AtType
  <2>2. ReservedThere'
    <3>1. \A j \in 1..(i + 1 - 1) : j \in 1..(i - 1) \/ j = i
      BY <1>2
    <3>2. i + 1 <= Len(files) + 1
      BY <1>2
    <3>3. \A j \in 1..(i - 1) : files[j].name \in DOMAIN dir
      BY <1>1 DEF IInv, ReservedThere
    <3>4. \A j \in 1..(i + 1 - 1) : files[j].name \in DOMAIN dir
      BY <1>6, <3>1, <3>3
    <3>5. /\ at'.op = "reserve" /\ at'.i = i + 1
          /\ dir' = dir /\ files' = files
      BY <1>1, <1>3, <1>6
    <3>6. at'.i - 1 = i + 1 - 1
      BY <1>2, <3>5
    <3>7. \A j \in 1..(at'.i - 1) : files'[j].name \in DOMAIN dir'
      BY <3>4, <3>5, <3>6
    <3> QED
      BY <3>2, <3>5, <3>7 DEF ReservedThere
  <2>3. LastInFront' /\ LastReserved' /\ OldTold' /\ ListTold' /\ WishedKept'
    BY <1>1, <1>3, <1>4, <1>6
       DEF IInv, LastInFront, LastReserved, OldTold, ListTold, WishedKept
  <2> QED
    BY <2>1, <2>2, <2>3 DEF IInv
<1>7. CASE name \notin DOMAIN dir /\ files' = RemoveAt(files, i) /\ at' = at /\ dir' = dir
  BY <1>2, <1>5, <1>7
<1>8. CASE name \in DOMAIN dir /\ TooMuch(i, at.used, at.size \div 10)
           /\ Dropped(name) /\ files' = RemoveAt(files, i) /\ at' = at
  <2>1. /\ DOMAIN dir' = DOMAIN dir \ {name}
        /\ dir' \in [DOMAIN dir' -> Nat]
    BY <1>2, <1>8, WithoutIs DEF Dropped
  <2>2. i > 1 \/ at.size \div 10 > 0
    BY <1>8 DEF TooMuch
  <2> QED
    BY <1>5, <1>8, <2>1, <2>2
<1> QED
  BY <1>6, <1>7, <1>8 DEF ReserveStep

\* A reserve is through: all files of the list are there.
LEMMA ReserveDoneKeeps == ASSUME IInv, ReserveDone PROVE IInv'
<1>1. /\ at.op = "reserve" /\ at.i > Len(files)
      /\ at' = [at EXCEPT !.op = IF at.goal = "create" THEN "create" ELSE "index"]
      /\ UNCHANGED <<dir, kept, index, on, files, old, held, fails, failed, last, wished>>
  BY DEF ReserveDone, disk, ghosts
<1>2. /\ at' \in AtType /\ at'.name = at.name /\ at'.i = at.i /\ at'.goal = at.goal
      /\ at'.op = IF at.goal = "create" THEN "create" ELSE "index"
  <2>1. "create" \in Ops /\ "index" \in Ops
    BY DEF Ops
  <2> QED
    BY <1>1, <2>1, AtIs, AtOp DEF IInv
<1>3. /\ Len(files) \in Nat /\ DOMAIN files = 1..Len(files)
      /\ NamesOf(files) = {files[j].name : j \in 1..Len(files)}
      /\ (files # << >> => Len(files) # 0)
  BY ListingIs DEF IInv, ListsOK
<1>4. NamesOf(files) \subseteq DOMAIN dir
  <2>1. at.i \in Nat
    BY DEF IInv, AtOK
  <2>2. \A j \in 1..Len(files) : files[j].name \in DOMAIN dir
    BY <1>1, <1>3, <2>1 DEF IInv, ReservedThere
  <2> QED
    BY <1>3, <2>2
<1>5. files = << >> \/ files[1].name \in DOMAIN dir
  BY <1>3, <1>4
<1>6. TypeOK' /\ ListsOK' /\ AtOK'
  BY <1>1, <1>2 DEF IInv, TypeOK, ListsOK, AtOK, AtType
<1>7. LastInFront' /\ OldTold' /\ ListTold' /\ WishedKept'
  BY <1>1, <1>2 DEF IInv, LastInFront, OldTold, ListTold, WishedKept
<1>8. ReservedThere'
  BY <1>1, <1>2, <1>4, <1>5 DEF ReservedThere
<1>9. LastReserved'
  BY <1>1, <1>2 DEF IInv, LastReserved
<1> QED
  BY <1>6, <1>7, <1>8, <1>9 DEF IInv

\* An operation ends: nothing is under way, and what it left agrees.
LEMMA FinishedKeeps ==
    ASSUME IInv, at.op \in {"index", "write"}, NEW ok, Finished(ok),
           UNCHANGED <<dir, kept, files, held, wished>>,
           on' \in BOOLEAN,
           fails' \in 0..MaxFails, failed' \in BOOLEAN,
           index' = Torn \/ Listing(index'), old' = Unknown \/ Listing(old'),
           LastInFront', last' \in Names \union {None},
           ~failed' => ~failed /\ index' = files /\ (old' # Unknown => old' = index')
    PROVE  IInv'
<1>1. at' = Idle
  BY DEF Finished
<1>2. /\ at'.op = "idle" /\ AtOK' /\ LastReserved' /\ ReservedThere'
  <2>1. Idle.op = "idle" /\ Idle \in AtType
    BY DEF Idle, AtType, Ops, Goals
  <2> QED
    BY <1>1, <2>1 DEF AtOK, AtType, LastReserved, ReservedThere
<1>3. ListsOK'
  BY DEF IInv, ListsOK
<1>4. TypeOK'
  <2>1. index' = Torn \/ NamesOf(index') \subseteq Names
    BY ListingIs
  <2>2. \A i, j \in DOMAIN files : i # j => files[i].name # files[j].name
    BY DEF IInv, TypeOK
  <2> QED
    BY <2>1, <2>2 DEF IInv, TypeOK
<1>5. ListTold'
  <2>1. ~failed => NamesOf(files) \subseteq DOMAIN dir \union kept
    BY DEF IInv, ReservedThere
  <2> QED
    BY <1>2, <2>1 DEF ListTold
<1>6. OldTold' /\ WishedKept'
  BY <1>2 DEF IInv, OldTold, WishedKept
<1> QED
  BY <1>2, <1>3, <1>4, <1>5, <1>6 DEF IInv

\* What is known of the index is a list, or nothing.
LEMMA KnownIs ==
    ASSUME IInv
    PROVE  /\ Known = Unknown \/ Listing(Known)
           /\ ~failed /\ Known # Unknown /\ at.op # "write" => Known = index
BY DEF IInv, ListsOK, OldTold, Known

\* A list is none of the marks.
LEMMA ListingNoMark ==
    ASSUME NEW s, Listing(s)
    PROVE  s # Torn /\ s # Unknown
BY DocCacheAssumption DEF Listing, FileItem

\* The front of a list that is on the disk.
LEMMA FrontIs ==
    ASSUME IInv, at.op \in {"index", "write"}, FrontName # None
    PROVE  /\ files # << >> /\ files[1].name = FrontName /\ FrontName \in Names
           /\ FrontName \in DOMAIN dir
<1>1. files # << >> /\ FrontName = Head(files).name
  BY DEF FrontName
<1>2. files \in Seq(FileItem) /\ Len(files) \in Nat \ {0}
  BY <1>1, EmptySeq DEF IInv, ListsOK, Listing
<1>3. Head(files) = files[1] /\ files[1] \in FileItem
  BY <1>2, ElementOfSeq
<1> QED
  BY <1>1, <1>3 DEF IInv, ReservedThere, FileItem

LEMMA IndexSameKeeps == ASSUME IInv, IndexSame PROVE IInv'
<1>1. /\ at.op = "index" /\ Known = files /\ old' = Known /\ Finished(TRUE)
      /\ last' = IF index = files THEN FrontName ELSE None
      /\ UNCHANGED <<dir, kept, index, files, held, fails, failed, wished>>
  BY DEF IndexSame, SameIndex, disk
<1>2. Listing(files) /\ files # Unknown /\ files # Torn
  BY ListingNoMark DEF IInv, ListsOK
<1>3. ~failed => index = files
  BY <1>1, <1>2, KnownIs
<1>4. LastInFront' /\ last' \in Names \union {None}
  BY <1>1, <1>2, FrontIs DEF LastInFront, FrontName
<1>5. on' \in BOOLEAN /\ failed \in BOOLEAN /\ fails \in 0..MaxFails
  BY <1>1 DEF Finished, IInv, TypeOK
<1>6. index = Torn \/ Listing(index)
  BY DEF IInv, ListsOK
<1> QED
  BY <1>1, <1>2, <1>3, <1>4, <1>5, <1>6, FinishedKeeps

LEMMA IndexOpenedKeeps == ASSUME IInv, IndexOpened PROVE IInv'
<1>1. /\ at.op = "index" /\ Known # files /\ old' = Known
      /\ UNCHANGED <<dir, kept, files, held, wished>>
  BY DEF IndexOpened, SameIndex
<1>2. CASE /\ index' = Torn /\ last' = None /\ at' = [at EXCEPT !.op = "write"]
           /\ UNCHANGED <<on, fails, failed>>
  <2>1. at' \in AtType /\ at'.op = "write" /\ at'.goal = at.goal /\ at'.name = at.name
    <3>1. "write" \in Ops
      BY DEF Ops
    <3> QED
      BY <1>2, <3>1, AtIs, AtOp DEF IInv
  <2>2. TypeOK' /\ ListsOK' /\ AtOK'
    BY <1>1, <1>2, <2>1, KnownIs DEF IInv, TypeOK, ListsOK, AtOK, AtType
  <2>3. /\ LastInFront' /\ LastReserved' /\ ReservedThere' /\ OldTold' /\ ListTold'
        /\ WishedKept'
    BY <1>1, <1>2, <2>1
       DEF IInv, LastInFront, LastReserved, ReservedThere, OldTold, ListTold, WishedKept
  <2> QED
    BY <2>2, <2>3 DEF IInv
<1>3. CASE Fail /\ Finished(FALSE) /\ UNCHANGED <<index, last>>
  <2>1. on' \in BOOLEAN /\ failed' = TRUE /\ fails' \in 0..MaxFails
    BY <1>3, FailIs DEF Finished, IInv
  <2>2. /\ index = Torn \/ Listing(index)
        /\ old' = Unknown \/ Listing(old')
        /\ LastInFront' /\ last \in Names \union {None}
    BY <1>1, <1>3, KnownIs DEF IInv, ListsOK, LastInFront, TypeOK
  <2> QED
    BY <1>1, <1>3, <2>1, <2>2, FinishedKeeps
<1> QED
  BY <1>2, <1>3 DEF IndexOpened

LEMMA IndexWrittenKeeps == ASSUME IInv, IndexWritten PROVE IInv'
<1>1. at.op = "write" /\ UNCHANGED <<dir, kept, files, held, wished>>
  BY DEF IndexWritten
<1>2. Listing(files) /\ files # Torn
  BY ListingNoMark DEF IInv, ListsOK
<1>3. failed \in BOOLEAN /\ fails \in 0..MaxFails
  BY DEF IInv, TypeOK
<1>4. CASE /\ index' = files /\ old' = files /\ last' = FrontName
           /\ Finished(TRUE) /\ UNCHANGED <<fails, failed>>
  <2>1. on' \in BOOLEAN
    BY <1>4 DEF Finished
  <2>2. LastInFront' /\ last' \in Names \union {None}
    BY <1>1, <1>2, <1>4, FrontIs DEF LastInFront
  <2> QED
    BY <1>1, <1>2, <1>3, <1>4, <2>1, <2>2, FinishedKeeps
<1>5. CASE Fail /\ Finished(FALSE) /\ UNCHANGED <<index, old, last>>
  <2>1. on' \in BOOLEAN /\ failed' = TRUE /\ fails' \in 0..MaxFails
    BY <1>5, FailIs DEF Finished, IInv
  <2>2. /\ index = Torn \/ Listing(index)
        /\ old = Unknown \/ Listing(old)
        /\ LastInFront' /\ last \in Names \union {None}
    BY <1>1, <1>5 DEF IInv, ListsOK, LastInFront, TypeOK
  <2> QED
    BY <1>1, <1>5, <2>1, <2>2, FinishedKeeps
<1> QED
  BY <1>4, <1>5 DEF IndexWritten

LEMMA StartKeeps == ASSUME IInv, Start PROVE IInv'
<1>1. /\ at = Idle /\ old' = Unknown /\ on' = FALSE /\ failed' = FALSE
      /\ UNCHANGED <<dir, kept, index, held, fails, last, wished>>
  BY DEF Start, disk
<1>2. CASE index # Torn
  <2>1. files' = index /\ at' = [Idle EXCEPT !.op = "sweep", !.goal = "start"]
    BY <1>2 DEF Start
  <2>2. /\ at' \in AtType /\ at'.op = "sweep" /\ at'.i = 1 /\ at'.goal = "start"
        /\ at'.size = 0
    <3> DEFINE a == [Idle EXCEPT !.op = "sweep", !.goal = "start"]
    <3>1. "sweep" \in Ops /\ "start" \in Goals
      BY DEF Ops, Goals
    <3>2. a \in AtType /\ a.op = "sweep" /\ a.goal = "start" /\ a.i = 1 /\ a.size = 0
      BY <3>1, Begins
    <3>3. at' = a
      BY <2>1
    <3> HIDE DEF a
    <3> QED
      BY <3>2, <3>3, Zenon
  <2>3. TypeOK' /\ ListsOK' /\ AtOK'
    <3>1. Listing(index)
      BY <1>2 DEF IInv, ListsOK
    <3>2. ListsOK'
      BY <1>1, <2>1, <3>1 DEF IInv, ListsOK
    <3>3. TypeOK'
      BY <1>1, <2>1, <3>1 DEF IInv, TypeOK, Listing, Distinct
    <3>4. AtOK'
      BY <2>2 DEF AtOK, AtType
    <3> QED
      BY <3>2, <3>3, <3>4
  <2>4. /\ LastInFront' /\ LastReserved' /\ ReservedThere' /\ OldTold' /\ ListTold'
        /\ WishedKept'
    BY <1>1, <2>1, <2>2, IdleIs
       DEF IInv, LastInFront, LastReserved, ReservedThere, OldTold, ListTold, WishedKept
  <2> QED
    BY <2>3, <2>4 DEF IInv
<1>3. CASE index = Torn
  <2>1. files' = << >> /\ at' = [Idle EXCEPT !.op = "reserve", !.goal = "startover"]
    BY <1>3 DEF Start
  <2>2. at' \in AtType /\ at'.op = "reserve" /\ at'.i = 1 /\ at'.goal = "startover"
    <3> DEFINE a == [Idle EXCEPT !.op = "reserve", !.goal = "startover"]
    <3>1. "reserve" \in Ops /\ "startover" \in Goals
      BY DEF Ops, Goals
    <3>2. a \in AtType /\ a.op = "reserve" /\ a.goal = "startover" /\ a.i = 1 /\ a.size = 0
      BY <3>1, Begins
    <3>3. at' = a
      BY <2>1
    <3> HIDE DEF a
    <3> QED
      BY <3>2, <3>3, Zenon
  <2>3. last = None
    BY <1>3 DEF IInv, LastInFront
  <2>4. TypeOK' /\ ListsOK' /\ AtOK'
    BY <1>1, <2>1, <2>2, EmptyListing, ZenonT(30)
       DEF IInv, TypeOK, ListsOK, AtOK, AtType, Listing, Distinct
  <2>5. ReservedThere'
    BY <2>1, <2>2, EmptyListing DEF ReservedThere
  <2>6. LastInFront' /\ LastReserved' /\ OldTold' /\ ListTold' /\ WishedKept'
    BY <1>1, <2>1, <2>2, <2>3, IdleIs
       DEF IInv, LastInFront, LastReserved, OldTold, ListTold, WishedKept
  <2> QED
    BY <2>4, <2>5, <2>6 DEF IInv
<1> QED
  BY <1>2, <1>3

\* A sweep takes away only what the list does not name.
LEMMA SweepStepKeeps == ASSUME IInv, SweepStep PROVE IInv'
<1>1. /\ at.op = "sweep" /\ at.i = 1 /\ files = index /\ at.goal = "start" /\ at.size = 0
      /\ UNCHANGED <<kept, index, on, files, old, held, last, wished>>
  BY DEF SweepStep, IInv, AtOK, LastReserved
<1>2. at \in AtType /\ dir \in [DOMAIN dir -> Nat]
  BY AtIs DEF IInv, ListsOK
<1>3. \A n \in Extra : n \in Names /\ n \notin NamesOf(files) /\ n \in DOMAIN dir
  BY DEF Extra, Unlisted, IInv, TypeOK
<1>4. last # None => files # << >> /\ files[1].name = last /\ last \in NamesOf(files)
  <2> SUFFICES ASSUME last # None PROVE files # << >> /\ files[1].name = last
                                        /\ last \in NamesOf(files)
    OBVIOUS
  <2>1. files # << >> /\ files[1].name = last
    BY <1>1 DEF IInv, LastInFront
  <2>2. 1 \in 1..Len(files)
    BY <2>1, ListingIs DEF IInv, ListsOK
  <2> QED
    BY <2>1, <2>2, ListingIs DEF IInv, ListsOK
<1>5. CASE \E n \in Extra : Dropped(n) /\ at' = at
  <2>1. PICK n \in Extra : Dropped(n) /\ at' = at
    BY <1>5
  <2>2. /\ DOMAIN dir' = DOMAIN dir \ {n} /\ dir' \in [DOMAIN dir' -> Nat]
        /\ UNCHANGED <<fails, failed>>
    BY <1>2, <2>1, WithoutIs DEF Dropped
  <2>3. TypeOK' /\ ListsOK' /\ AtOK'
    BY <1>1, <2>1, <2>2 DEF IInv, TypeOK, ListsOK, AtOK
  <2>4. LastInFront'
    BY <1>1, <1>3, <1>4, <2>2 DEF IInv, LastInFront
  <2>5. LastReserved' /\ ReservedThere' /\ OldTold' /\ ListTold' /\ WishedKept'
    BY <1>1, <2>1, <2>2 DEF IInv, LastReserved, ReservedThere, OldTold, ListTold, WishedKept
  <2> QED
    BY <2>3, <2>4, <2>5 DEF IInv
<1>6. CASE \E n \in Extra : Fail /\ dir' = dir /\ at' = [at EXCEPT !.left = @ \union {n}]
  <2>1. PICK n \in Extra : Fail /\ dir' = dir /\ at' = [at EXCEPT !.left = @ \union {n}]
    BY <1>6
  <2>2. at' \in AtType /\ at'.op = "sweep" /\ at'.i = 1 /\ at'.goal = at.goal /\ at'.size = at.size
    BY <1>1, <1>2, <1>3, <2>1 DEF AtType
  <2>3. failed' = TRUE /\ fails' \in 0..MaxFails
    BY <2>1, FailIs DEF IInv
  <2>4. TypeOK' /\ ListsOK' /\ AtOK'
    BY <1>1, <2>1, <2>2, <2>3 DEF IInv, TypeOK, ListsOK, AtOK, AtType
  <2>5. /\ LastInFront' /\ LastReserved' /\ ReservedThere' /\ OldTold' /\ ListTold'
        /\ WishedKept'
    BY <1>1, <2>1, <2>2, <2>3
       DEF IInv, LastInFront, LastReserved, ReservedThere, OldTold, ListTold, WishedKept
  <2> QED
    BY <2>4, <2>5 DEF IInv
<1>7. CASE /\ at' = [at EXCEPT !.op = "reserve", !.left = {}]
           /\ UNCHANGED <<dir, fails, failed>>
  <2>1. /\ at' \in AtType /\ at'.op = "reserve" /\ at'.i = 1 /\ at'.goal = at.goal
        /\ at'.size = at.size
    <3>1. "reserve" \in Ops
      BY DEF Ops
    <3> QED
      BY <1>1, <1>2, <1>7, <3>1, AtSwept
  <2>2. TypeOK' /\ ListsOK' /\ AtOK'
    BY <1>1, <1>7, <2>1 DEF IInv, TypeOK, ListsOK, AtOK, AtType
  <2>3. LastReserved'
    BY <1>1, <1>4, <2>1 DEF LastReserved
  <2>4. ReservedThere'
    <3>1. 1 <= Len(files) + 1
      BY ListingIs DEF IInv, ListsOK
    <3> QED
      BY <1>1, <2>1, <3>1 DEF ReservedThere
  <2>5. LastInFront' /\ OldTold' /\ ListTold' /\ WishedKept'
    BY <1>1, <1>7, <2>1 DEF IInv, LastInFront, OldTold, ListTold, WishedKept
  <2> QED
    BY <2>2, <2>3, <2>4, <2>5 DEF IInv
<1> QED
  BY <1>5, <1>6, <1>7 DEF SweepStep

\* A document is opened: its file is moved to the front of the list.
LEMMA OpenExistingKeeps ==
    ASSUME IInv, NEW n \in Names, OpenExisting(n)
    PROVE  IInv'
<1>1. /\ at = Idle /\ n \in NamesOf(files) /\ on
      /\ held' = held \union {n}
      /\ dir' = (IF n \in DOMAIN dir THEN dir ELSE With(dir, n, 0))
      /\ files' = ToTop(n, dir'[n])
      /\ at' = [Idle EXCEPT !.op = "index", !.goal = "open"]
      /\ UNCHANGED <<kept, index, on, old, last, wished>>
  BY DEF OpenExisting, Opened
<1>2. /\ at'.op = "index" /\ at' \in AtType
  <2>1. "index" \in Ops /\ "open" \in Goals
    BY DEF Ops, Goals
  <2> QED
    BY <1>1, <2>1, Begins
<1>3. at.op = "idle" /\ AtOK
  BY <1>1, IdleIs
<1>4. /\ fails' \in 0..MaxFails /\ failed' \in BOOLEAN /\ (~failed' => ~failed)
  <2>1. fails \in 0..MaxFails /\ MaxFails \in Nat /\ failed \in BOOLEAN
    BY DocCacheAssumption DEF IInv, TypeOK
  <2>2. /\ n \in kept => fails < MaxFails
        /\ fails' = IF n \in kept THEN fails + 1 ELSE fails
        /\ failed' = (failed \/ n \in kept)
    BY DEF OpenExisting
  <2>3. fails' \in 0..MaxFails
    BY <2>1, <2>2
  <2>4. failed' \in BOOLEAN /\ (~failed' => ~failed)
    BY <2>2
  <2> QED
    BY <2>3, <2>4
<1>5. /\ DOMAIN dir' = DOMAIN dir \union {n} /\ dir' \in [DOMAIN dir' -> Nat]
      /\ dir'[n] \in Nat
  <2>1. dir \in [DOMAIN dir -> Nat]
    BY DEF IInv, ListsOK
  <2>2. CASE n \in DOMAIN dir
    BY <1>1, <2>1, <2>2
  <2>3. CASE n \notin DOMAIN dir
    BY <1>1, <2>1, <2>3, WithIs
  <2> QED
    BY <2>2, <2>3
<1>6. /\ Listing(files') /\ files' # << >> /\ files'[1].name = n
      /\ NamesOf(files') = NamesOf(files) \union {n}
  BY <1>1, <1>5, ToTopIs DEF IInv, ListsOK
<1>7. TypeOK' /\ ListsOK'
  BY <1>1, <1>4, <1>5, <1>6 DEF IInv, TypeOK, ListsOK, Listing, Distinct
<1>8. AtOK' /\ LastReserved'
  BY <1>2 DEF AtOK, AtType, LastReserved
<1>9. ReservedThere'
  <2>1. ~failed' => NamesOf(files') \subseteq DOMAIN dir' \union kept'
    BY <1>1, <1>3, <1>4, <1>5, <1>6 DEF IInv, ListTold
  <2> QED
    BY <1>2, <1>5, <1>6, <2>1 DEF ReservedThere
<1>10. LastInFront' /\ OldTold' /\ ListTold' /\ WishedKept'
  BY <1>1, <1>2, <1>3, <1>4, <1>5 DEF IInv, LastInFront, OldTold, ListTold, WishedKept
<1> QED
  BY <1>7, <1>8, <1>9, <1>10 DEF IInv

\* A new file: a .keep file is taken away to be made again, or room is made.
LEMMA CreateKeeps ==
    ASSUME IInv, NEW n \in Names, NEW s \in DocSizes, Create(n, s)
    PROVE  IInv'
<1>0. s \in Nat
  BY DocCacheAssumption
<1>1. /\ on /\ at = Idle /\ last' = None
      /\ UNCHANGED <<index, on, files, old, held, fails, failed, wished>>
  BY DEF Create
<1>2. at.op = "idle"
  BY <1>1, IdleIs
<1>3. /\ "rekeep" \in Ops /\ "reserve" \in Ops /\ "create" \in Goals
  BY DEF Ops, Goals
<1>4. CASE n \in kept
  <2>1. /\ kept' = kept \ {n} /\ dir' = Without(dir, {n})
        /\ at' = [Idle EXCEPT !.op = "rekeep", !.goal = "create", !.name = n, !.size = s]
    BY <1>4 DEF Create
  <2>2. /\ at' \in AtType /\ at'.op = "rekeep" /\ at'.goal = "create" /\ at'.i = 1
        /\ at'.name = n
    <3> DEFINE a == [Idle EXCEPT !.op = "rekeep", !.goal = "create", !.name = n, !.size = s]
    <3>1. /\ a \in AtType /\ a.op = "rekeep" /\ a.goal = "create" /\ a.i = 1
          /\ a.name = n
      BY <1>0, <1>3, IdleType DEF AtType
    <3> HIDE DEF a
    <3>2. at' = a
      BY <2>1 DEF a
    <3> QED
      BY <3>1, <3>2
  <2>3. DOMAIN dir' = DOMAIN dir \ {n} /\ dir' \in [DOMAIN dir' -> Nat]
    BY <2>1, WithoutIs DEF IInv, ListsOK
  <2>4. TypeOK' /\ ListsOK'
    BY <1>1, <2>1, <2>3 DEF IInv, TypeOK, ListsOK
  <2>5. AtOK' /\ LastReserved' /\ ReservedThere'
    BY <1>1, <2>2 DEF AtOK, AtType, LastReserved, ReservedThere
  <2>6. ListTold'
    BY <1>1, <1>2, <2>1, <2>2, <2>3 DEF IInv, ListTold
  <2>7. LastInFront' /\ OldTold' /\ WishedKept'
    BY <1>1, <1>2, <2>1, <2>2 DEF IInv, LastInFront, OldTold, WishedKept
  <2> QED
    BY <2>4, <2>5, <2>6, <2>7 DEF IInv
<1>5. CASE n \notin kept
  <2>1. /\ UNCHANGED <<kept, dir>>
        /\ at' = [Idle EXCEPT !.op = "reserve", !.goal = "create", !.name = n, !.size = s]
    BY <1>5 DEF Create
  <2>2. /\ at' \in AtType /\ at'.op = "reserve" /\ at'.goal = "create" /\ at'.i = 1
        /\ at'.name = n
    <3> DEFINE a == [Idle EXCEPT !.op = "reserve", !.goal = "create", !.name = n, !.size = s]
    <3>1. /\ a \in AtType /\ a.op = "reserve" /\ a.goal = "create" /\ a.i = 1
          /\ a.name = n
      BY <1>0, <1>3, IdleType DEF AtType
    <3> HIDE DEF a
    <3>2. at' = a
      BY <2>1 DEF a
    <3> QED
      BY <3>1, <3>2
  <2>3. TypeOK' /\ ListsOK'
    BY <1>1, <2>1 DEF IInv, TypeOK, ListsOK
  <2>4. AtOK' /\ LastReserved'
    BY <1>1, <2>2 DEF AtOK, AtType, LastReserved
  <2>5. ReservedThere'
    <3>1. 1 <= Len(files) + 1
      BY ListingIs DEF IInv, ListsOK
    <3> QED
      BY <1>1, <2>2, <3>1 DEF ReservedThere
  <2>6. LastInFront' /\ OldTold' /\ ListTold' /\ WishedKept'
    BY <1>1, <1>2, <2>1, <2>2 DEF IInv, LastInFront, OldTold, ListTold, WishedKept
  <2> QED
    BY <2>3, <2>4, <2>5, <2>6 DEF IInv
<1> QED
  BY <1>4, <1>5

\* The .keep file is made again, or the user has lost it.
LEMMA RekeepKeeps == ASSUME IInv, Rekeep PROVE IInv'
<1>1. /\ at.op = "rekeep" /\ at.i = 1 /\ at.goal = "create" /\ at.name \in Names /\ last = None
      /\ UNCHANGED <<index, on, files, old, last>>
  BY DEF Rekeep, IInv, AtOK, LastReserved
<1>2. CASE /\ Rekept(at.name) /\ Opened(at.name) /\ at' = Idle
           /\ UNCHANGED <<fails, failed, wished>>
  <2>1. kept' = kept \union {at.name} /\ dir' = dir /\ held' = held \union {at.name}
    BY <1>2 DEF Rekept, Opened
  <2>2. at'.op = "idle" /\ at' \in AtType
    BY <1>2 DEF Idle, AtType, Ops, Goals
  <2>3. TypeOK' /\ ListsOK'
    BY <1>1, <1>2, <2>1 DEF IInv, TypeOK, ListsOK
  <2>4. AtOK' /\ LastReserved' /\ ReservedThere'
    BY <2>2 DEF AtOK, AtType, LastReserved, ReservedThere
  <2>5. LastInFront' /\ OldTold' /\ ListTold' /\ WishedKept'
    BY <1>1, <1>2, <2>1, <2>2 DEF IInv, LastInFront, OldTold, ListTold, WishedKept
  <2> QED
    BY <2>3, <2>4, <2>5 DEF IInv
<1>3. CASE /\ Fail /\ at' = [at EXCEPT !.op = "reserve"] /\ wished' = wished \ {at.name}
           /\ UNCHANGED <<dir, kept, held>>
  <2>1. /\ at' \in AtType /\ at'.op = "reserve" /\ at'.i = 1 /\ at'.name = at.name
        /\ at'.goal = "create"
    <3>1. "reserve" \in Ops
      BY DEF Ops
    <3> QED
      BY <1>1, <1>3, <3>1, AtIs, AtOp DEF IInv
  <2>2. failed' = TRUE /\ fails' \in 0..MaxFails
    BY <1>3, FailIs DEF IInv
  <2>3. TypeOK' /\ ListsOK'
    BY <1>1, <1>3, <2>2 DEF IInv, TypeOK, ListsOK
  <2>4. AtOK' /\ LastReserved'
    BY <1>1, <2>1 DEF AtOK, AtType, LastReserved
  <2>5. ReservedThere'
    <3>1. 1 <= Len(files) + 1
      BY ListingIs DEF IInv, ListsOK
    <3> QED
      BY <1>1, <2>1, <3>1 DEF ReservedThere
  <2>6. LastInFront' /\ OldTold' /\ ListTold' /\ WishedKept'
    BY <1>1, <1>3, <2>1, <2>2 DEF IInv, LastInFront, OldTold, ListTold, WishedKept
  <2> QED
    BY <2>3, <2>4, <2>5, <2>6 DEF IInv
<1> QED
  BY <1>2, <1>3 DEF Rekeep

\* The new file is put in front of the list, or it cannot be made.
LEMMA CreateFileKeeps == ASSUME IInv, CreateFile PROVE IInv'
<1>1. /\ at.op = "create" /\ at.name \in Names /\ at.size \in Nat /\ last = None
      /\ NamesOf(files) \subseteq DOMAIN dir /\ dir \in [DOMAIN dir -> Nat]
      /\ at \in AtType
      /\ UNCHANGED <<kept, index, on, old, last, wished>>
  BY AtIs DEF CreateFile, IInv, AtOK, LastReserved, ReservedThere, ListsOK
<1>2. CASE /\ dir' = With(dir, at.name, 0) /\ Opened(at.name)
           /\ files' = ToTop(at.name, at.size)
           /\ at' = [at EXCEPT !.op = "index"] /\ UNCHANGED <<fails, failed>>
  <2>1. at' \in AtType /\ at'.op = "index"
    <3>1. "index" \in Ops
      BY DEF Ops
    <3> QED
      BY <1>1, <1>2, <3>1, AtOp
  <2>2. DOMAIN dir' = DOMAIN dir \union {at.name} /\ dir' \in [DOMAIN dir' -> Nat]
    <3>1. dir' = With(dir, at.name, 0) /\ dir \in [DOMAIN dir -> Nat]
      BY <1>1, <1>2
    <3>2. /\ DOMAIN With(dir, at.name, 0) = DOMAIN dir \union {at.name}
          /\ With(dir, at.name, 0) \in [DOMAIN With(dir, at.name, 0) -> Nat]
      BY <3>1, WithIs, ZenonT(30)
    <3> QED
      BY <3>1, <3>2
  <2>3. /\ Listing(files') /\ files' # << >> /\ files'[1].name = at.name
        /\ NamesOf(files') = NamesOf(files) \union {at.name}
    BY <1>1, <1>2, ToTopIs DEF IInv, ListsOK
  <2>4. TypeOK' /\ ListsOK'
    BY <1>1, <1>2, <2>2, <2>3 DEF IInv, TypeOK, ListsOK, Opened, Listing, Distinct
  <2>5. AtOK' /\ LastReserved'
    BY <1>1, <2>1 DEF AtOK, AtType, LastReserved
  <2>6. ReservedThere'
    BY <1>1, <2>1, <2>2, <2>3 DEF ReservedThere
  <2>7. LastInFront' /\ OldTold' /\ ListTold' /\ WishedKept'
    BY <1>1, <1>2, <2>1 DEF IInv, LastInFront, OldTold, ListTold, WishedKept
  <2> QED
    BY <2>4, <2>5, <2>6, <2>7 DEF IInv
<1>3. CASE /\ Fail /\ dir' = Without(dir, {at.name}) /\ at' = Idle
           /\ UNCHANGED <<files, held>>
  <2>1. at'.op = "idle" /\ at' \in AtType
    BY <1>3 DEF Idle, AtType, Ops, Goals
  <2>2. DOMAIN dir' = DOMAIN dir \ {at.name} /\ dir' \in [DOMAIN dir' -> Nat]
    BY <1>1, <1>3, WithoutIs
  <2>3. failed' = TRUE /\ fails' \in 0..MaxFails
    BY <1>3, FailIs DEF IInv
  <2>4. TypeOK' /\ ListsOK'
    BY <1>1, <1>3, <2>2, <2>3 DEF IInv, TypeOK, ListsOK
  <2>5. AtOK' /\ LastReserved' /\ ReservedThere'
    BY <2>1 DEF AtOK, AtType, LastReserved, ReservedThere
  <2>6. LastInFront' /\ OldTold' /\ ListTold' /\ WishedKept'
    BY <1>1, <2>1, <2>3 DEF IInv, LastInFront, OldTold, ListTold, WishedKept
  <2> QED
    BY <2>4, <2>5, <2>6 DEF IInv
<1> QED
  BY <1>2, <1>3 DEF CreateFile

-----------------------------------------------------------------------------
(* clear, the documents, the user and the machine *)

LEMMA ClearKeeps == ASSUME IInv, Clear PROVE IInv'
<1>1. /\ on /\ at = Idle /\ last' = None
      /\ at' = [Idle EXCEPT !.op = "clear", !.goal = "clear"]
      /\ UNCHANGED <<dir, kept, index, on, files, old, held, fails, failed, wished>>
  BY DEF Clear, disk
<1>2. at.op = "idle"
  BY <1>1, IdleIs
<1>3. at' \in AtType /\ at'.op = "clear"
  <2>1. "clear" \in Ops /\ "clear" \in Goals
    BY DEF Ops, Goals
  <2> QED
    BY <1>1, <2>1, IdleType DEF AtType
<1>4. TypeOK' /\ ListsOK'
  BY <1>1 DEF IInv, TypeOK, ListsOK
<1>5. AtOK' /\ LastReserved' /\ ReservedThere'
  BY <1>1, <1>3 DEF AtOK, AtType, LastReserved, ReservedThere
<1>6. LastInFront' /\ OldTold' /\ ListTold' /\ WishedKept'
  BY <1>1, <1>2, <1>3 DEF IInv, LastInFront, OldTold, ListTold, WishedKept
<1> QED
  BY <1>4, <1>5, <1>6 DEF IInv

\* One listed file is deleted, or stays; after the last the list is empty.
LEMMA ClearStepKeeps == ASSUME IInv, ClearStep PROVE IInv'
<1>1. /\ at.op = "clear" /\ last = None /\ at \in AtType
      /\ UNCHANGED <<kept, index, on, old, held, last, wished>>
  BY AtIs DEF ClearStep, IInv, AtOK, LastReserved
<1>2. CASE /\ \/ Dropped(files[at.i].name)
              \/ files[at.i].name \in DOMAIN dir /\ Fail /\ dir' = dir
           /\ at' = [at EXCEPT !.i = at.i + 1] /\ files' = files
  <2>1. at' \in AtType /\ at'.op = "clear"
    <3>1. at.i + 1 \in Nat \ {0}
      BY <1>1 DEF AtType
    <3> QED
      BY <1>1, <1>2, <3>1, AtNext
  <2>2. /\ DOMAIN dir' \subseteq DOMAIN dir /\ dir' \in [DOMAIN dir' -> Nat]
        /\ fails' \in 0..MaxFails /\ failed' \in BOOLEAN /\ (~failed' => ~failed)
    <3>1. CASE Dropped(files[at.i].name)
      <4>1. /\ dir' = Without(dir, {files[at.i].name}) /\ UNCHANGED <<fails, failed>>
            /\ dir \in [DOMAIN dir -> Nat]
        BY <3>1 DEF Dropped, IInv, ListsOK
      <4>2. DOMAIN dir' \subseteq DOMAIN dir /\ dir' \in [DOMAIN dir' -> Nat]
        <5> DEFINE gone == {files[at.i].name}
        <5>1. dir' = Without(dir, gone)
          BY <4>1
        <5> HIDE DEF gone
        <5>2. /\ DOMAIN Without(dir, gone) = DOMAIN dir \ gone
              /\ Without(dir, gone) \in [DOMAIN Without(dir, gone) -> Nat]
          BY <4>1, WithoutIs
        <5> QED
          BY <5>1, <5>2, Zenon
      <4> QED
        BY <4>1, <4>2 DEF IInv, TypeOK
    <3>2. CASE Fail /\ dir' = dir
      BY <3>2, FailIs DEF IInv, ListsOK
    <3> QED
      BY <1>2, <3>1, <3>2
  <2>3. TypeOK' /\ ListsOK'
    BY <1>1, <1>2, <2>2 DEF IInv, TypeOK, ListsOK
  <2>4. AtOK' /\ LastReserved' /\ ReservedThere'
    BY <1>1, <2>1 DEF AtOK, AtType, LastReserved, ReservedThere
  <2>5. LastInFront' /\ OldTold' /\ ListTold' /\ WishedKept'
    BY <1>1, <2>1, <2>2 DEF IInv, LastInFront, OldTold, ListTold, WishedKept
  <2> QED
    BY <2>3, <2>4, <2>5 DEF IInv
<1>3. CASE /\ files' = << >> /\ at' = [at EXCEPT !.op = "index"]
           /\ UNCHANGED <<dir, fails, failed>>
  <2>1. at' \in AtType /\ at'.op = "index"
    <3>1. "index" \in Ops
      BY DEF Ops
    <3> QED
      BY <1>1, <1>3, <3>1, AtOp
  <2>2. Listing(files') /\ NamesOf(files') = {}
    BY <1>3, EmptyListing
  <2>3. TypeOK' /\ ListsOK'
    BY <1>1, <1>3, <2>2 DEF IInv, TypeOK, ListsOK, Listing, Distinct
  <2>4. AtOK' /\ LastReserved'
    BY <1>1, <2>1 DEF AtOK, AtType, LastReserved
  <2>5. ReservedThere'
    BY <1>3, <2>1, <2>2 DEF ReservedThere
  <2>6. LastInFront' /\ OldTold' /\ ListTold' /\ WishedKept'
    BY <1>1, <1>3, <2>1 DEF IInv, LastInFront, OldTold, ListTold, WishedKept
  <2> QED
    BY <2>3, <2>4, <2>5, <2>6 DEF IInv
<1> QED
  BY <1>2, <1>3 DEF ClearStep

\* A .keep file is opened, or a document closed: nothing the cache looks after changes.
LEMMA HeldKeeps ==
    ASSUME IInv, held' \subseteq Names,
           UNCHANGED <<disk, on, files, old, at, fails, ghosts>>
    PROVE  IInv'
<1>1. UNCHANGED <<dir, kept, index, on, files, old, at, fails, failed, last, wished>>
  BY DEF disk, ghosts
<1>2. TypeOK' /\ ListsOK' /\ AtOK'
  BY <1>1 DEF IInv, TypeOK, ListsOK, AtOK
<1>3. LastInFront' /\ LastReserved' /\ ReservedThere'
  BY <1>1 DEF IInv, LastInFront, LastReserved, ReservedThere
<1>4. OldTold' /\ ListTold' /\ WishedKept'
  BY <1>1 DEF IInv, OldTold, ListTold, WishedKept
<1> QED
  BY <1>2, <1>3, <1>4 DEF IInv

\* A cache file grows.
LEMMA GrowKeeps ==
    ASSUME IInv, NEW n \in Names, NEW s \in FileSizes, Grow(n, s) PROVE IInv'
<1>1. /\ at = Idle /\ dir' = [dir EXCEPT ![n] = s]
      /\ UNCHANGED <<kept, index, on, files, old, at, held, fails, failed, last, wished>>
  BY DEF Grow, ghosts
<1>2. DOMAIN dir' = DOMAIN dir /\ dir' \in [DOMAIN dir' -> Nat]
  BY <1>1, DocCacheAssumption DEF IInv, ListsOK
<1>3. TypeOK' /\ ListsOK' /\ AtOK'
  BY <1>1, <1>2 DEF IInv, TypeOK, ListsOK, AtOK
<1>4. LastInFront' /\ LastReserved' /\ ReservedThere'
  BY <1>1, <1>2 DEF IInv, LastInFront, LastReserved, ReservedThere
<1>5. OldTold' /\ ListTold' /\ WishedKept'
  BY <1>1, <1>2 DEF IInv, OldTold, ListTold, WishedKept
<1> QED
  BY <1>3, <1>4, <1>5 DEF IInv

\* The user renames a file; the cache finds it as a .keep file.
LEMMA RenameKeeps == ASSUME IInv, NEW n \in Names, Rename(n) PROVE IInv'
<1>1. /\ n \in DOMAIN dir /\ at = Idle /\ at' = at
      /\ dir' = Without(dir, {n}) /\ kept' = kept \union {n}
      /\ wished' = wished \union {n} /\ failed' = TRUE
      /\ UNCHANGED <<index, on, files, old, at, held, fails, last>>
  BY DEF Rename
<1>2. DOMAIN dir' = DOMAIN dir \ {n} /\ dir' \in [DOMAIN dir' -> Nat]
  <2>1. dir \in [DOMAIN dir -> Nat]
    BY DEF IInv, ListsOK
  <2>2. /\ DOMAIN Without(dir, {n}) = DOMAIN dir \ {n}
        /\ Without(dir, {n}) \in [DOMAIN Without(dir, {n}) -> Nat]
    BY <2>1, WithoutIs
  <2> QED
    BY <1>1, <2>2
<1>3. TypeOK' /\ ListsOK' /\ AtOK'
  BY <1>1, <1>2 DEF IInv, TypeOK, ListsOK, AtOK
<1>4. at'.op = "idle"
  BY <1>1, IdleIs
<1>5. LastReserved' /\ ReservedThere'
  BY <1>4 DEF LastReserved, ReservedThere
<1>6. LastInFront' /\ OldTold' /\ ListTold' /\ WishedKept'
  BY <1>1, <1>2, <1>4 DEF IInv, LastInFront, OldTold, ListTold, WishedKept
<1> QED
  BY <1>3, <1>5, <1>6 DEF IInv

\* The program ends at any point; what is on the disk stays.
LEMMA KillKeeps == ASSUME IInv, Kill PROVE IInv'
<1>1. /\ on' = FALSE /\ files' = << >> /\ old' = Unknown /\ at' = Idle /\ held' = {}
      /\ failed' = TRUE
      /\ wished' = IF at.op = "rekeep" THEN wished \ {at.name} ELSE wished
      /\ UNCHANGED <<dir, kept, index, fails, last>>
  BY DEF Kill, disk
<1>2. at' \in AtType /\ at'.op = "idle"
  BY <1>1, IdleType DEF Idle
<1>3. Listing(files')
  BY <1>1, EmptyListing
<1>4. wished' \subseteq wished
  BY <1>1
<1>5. TypeOK' /\ ListsOK'
  BY <1>1, <1>3, <1>4 DEF IInv, TypeOK, ListsOK, Listing, Distinct
<1>6. AtOK' /\ LastReserved' /\ ReservedThere'
  BY <1>2 DEF AtOK, AtType, LastReserved, ReservedThere
<1>7. LastInFront' /\ OldTold' /\ ListTold'
  BY <1>1 DEF IInv, LastInFront, OldTold, ListTold
<1>8. WishedKept'
  BY <1>1, <1>2 DEF IInv, WishedKept
<1> QED
  BY <1>5, <1>6, <1>7, <1>8 DEF IInv

-----------------------------------------------------------------------------
(* The specification *)

LEMMA IInvStep == IInv /\ [Next]_vars => IInv'
<1> SUFFICES ASSUME IInv, [Next]_vars PROVE IInv'
  OBVIOUS
<1>1. CASE Step
  BY <1>1, ReserveStepKeeps, ReserveDoneKeeps, IndexSameKeeps, IndexOpenedKeeps,
     IndexWrittenKeeps, SweepStepKeeps, RekeepKeeps, CreateFileKeeps, ClearStepKeeps DEF Step
<1>2. CASE Start
  BY <1>2, StartKeeps
<1>3. CASE Clear
  BY <1>3, ClearKeeps
<1>4. CASE Kill
  BY <1>4, KillKeeps
<1>5. ASSUME NEW n \in Names, OpenKept(n) PROVE IInv'
  <2>1. held' \subseteq Names /\ UNCHANGED <<disk, on, files, old, at, fails, ghosts>>
    BY <1>5 DEF OpenKept, Opened, IInv, TypeOK
  <2> QED
    BY <2>1, HeldKeeps
<1>6. ASSUME NEW n \in Names, OpenExisting(n) PROVE IInv'
  BY <1>6, OpenExistingKeeps
<1>7. ASSUME NEW n \in Names, CloseDocument(n) PROVE IInv'
  <2>1. held' \subseteq Names /\ UNCHANGED <<disk, on, files, old, at, fails, ghosts>>
    BY <1>7 DEF CloseDocument, IInv, TypeOK
  <2> QED
    BY <2>1, HeldKeeps
<1>8. ASSUME NEW n \in Names, Rename(n) PROVE IInv'
  BY <1>8, RenameKeeps
<1>9. ASSUME NEW n \in Names, NEW s \in DocSizes, Create(n, s) PROVE IInv'
  BY <1>9, CreateKeeps
<1>10. ASSUME NEW n \in Names, NEW s \in FileSizes, Grow(n, s) PROVE IInv'
  BY <1>10, GrowKeeps
<1>11. CASE UNCHANGED vars
  <2>1. held' \subseteq Names /\ UNCHANGED <<disk, on, files, old, at, fails, ghosts>>
    BY <1>11 DEF vars, IInv, TypeOK
  <2> QED
    BY <2>1, HeldKeeps
<1> QED
  BY <1>1, <1>2, <1>3, <1>4, <1>5, <1>6, <1>7, <1>8, <1>9, <1>10, <1>11 DEF Next

(* The invariant the properties of the cache of documents rest on.         *)
THEOREM IInvAlways == Spec => []IInv
<1> QED
  BY IInvInit, IInvStep, PTL DEF Spec

(* Whatever the files, their sizes and the limit, and wherever the program *)
(* was stopped: between two operations, with nothing failed since the last *)
(* start, the index on the disk lists what the program lists, and what it  *)
(* lists is there (writeIndex, init).                                      *)
THEOREM IndexAlwaysSound == Spec => []IndexSound
<1>1. IInv => IndexSound
  BY IdleIs DEF IInv, ListTold, IndexSound, IndexTold
<1> QED
  BY <1>1, IInvAlways, PTL

(* The file of the document opened last is there after any number of kills *)
(* and starts, however large it is (reserve, removeExtraFiles).            *)
THEOREM LastAlwaysSurvives == Spec => []LastSurvives
<1>1. IInv => LastSurvives
  BY DEF IInv, LastInFront, LastSurvives
<1> QED
  BY <1>1, IInvAlways, PTL

(* A file the user renamed to .keep is there after every operation,        *)
(* whatever failed (createNew, openExisting).                              *)
THEOREM WishedAlwaysStay == Spec => []WishedStay
<1>1. IInv => WishedStay
  BY IdleIs DEF IInv, WishedKept, WishedStay
<1> QED
  BY <1>1, IInvAlways, PTL

=============================================================================
