------------------------------ MODULE RefCache ------------------------------
(***************************************************************************)
(* LVIndexedRefCache (crengine/include/lvrefcache.h): a table that keeps   *)
(* one copy of each distinct value (a CSS style record, a font instance)   *)
(* under a small index, counts the references to it and reuses the indices *)
(* of the values nobody refers to any more.                                *)
(*                                                                         *)
(* A cache is a record:                                                    *)
(*   item   the value at each index 1..nextindex, NoRef where it is free   *)
(*   refs   the reference count of an index in use; of a free index, the   *)
(*          next free index (the union of LVRefCacheIndexRec::refcount)    *)
(*   free   head of that list, 0 when it is empty (freeindex)              *)
(*   cap    length of the index array, its entry 0 included (indexsize)    *)
(*   table  number of hash chains (size)                                   *)
(* The hash chains hold exactly the records the index holds, so a lookup   *)
(* by value is a lookup in the index.                                      *)
(***************************************************************************)
EXTENDS Naturals, Sequences, FiniteSetsExt

CONSTANT NoRef      \* the null reference

NewCache(size) == [item |-> <<>>, refs |-> <<>>, free |-> 0, cap |-> 0, table |-> size]

Present(c, n) == n \in 1..Len(c.item) /\ c.item[n] # NoRef

Get(c, n) == IF Present(c, n) THEN c.item[n] ELSE NoRef

IndicesOf(c, v) == {n \in 1..Len(c.item) : c.item[n] = v}

(* find: 0 when the value is not there. *)
Find(c, v) == IF IndicesOf(c, v) = {} THEN 0 ELSE Min(IndicesOf(c, v))

(* addIndexRef refuses an index that holds nothing, and its callers do not look. *)
AddIndexRef(c, n) == IF Present(c, n) THEN [c EXCEPT !.refs[n] = @ + 1] ELSE c

(* Mutants: the freed index does not keep the rest of the list; the index   *)
(* is freed one reference early.                                            *)
ReleaseUnlinked(c, n) ==
    IF ~Present(c, n) THEN c
    ELSE IF c.refs[n] > 1 THEN [c EXCEPT !.refs[n] = @ - 1]
    ELSE [c EXCEPT !.item[n] = NoRef, !.refs[n] = 0, !.free = n]

ReleaseEarly(c, n) ==
    IF ~Present(c, n) THEN c
    ELSE IF c.refs[n] > 2 THEN [c EXCEPT !.refs[n] = @ - 1]
    ELSE [c EXCEPT !.item[n] = NoRef, !.refs[n] = c.free, !.free = n]

(* release(int): the last reference puts the index in front of the free list. *)
Release(c, n) ==
    IF ~Present(c, n) THEN c
    ELSE IF c.refs[n] > 1 THEN [c EXCEPT !.refs[n] = @ - 1]
    ELSE [c EXCEPT !.item[n] = NoRef, !.refs[n] = c.free, !.free = n]

Grown(c, n) ==
    IF n < c.cap THEN c.cap ELSE IF c.cap = 0 THEN c.table \div 2 ELSE 2 * c.cap

(* indexItem: a free index first, a new one otherwise. *)
Placed(c, v) ==
    IF c.free # 0
    THEN [cache |-> [c EXCEPT !.item[c.free] = v, !.refs[c.free] = 1, !.free = c.refs[c.free]],
          index |-> c.free]
    ELSE [cache |-> [c EXCEPT !.item = Append(@, v), !.refs = Append(@, 1),
                              !.cap = Grown(c, Len(c.item) + 1)],
          index |-> Len(c.item) + 1]

(* Mutant: a value that is already there gets no reference for the caller.  *)
CachedUncounted(c, v) ==
    LET n == Find(c, v)
    IN IF n = 0 THEN Placed(c, v) ELSE [cache |-> c, index |-> n]

(* cache(style): the reference it takes belongs to the caller. *)
Cached(c, v) ==
    LET n == Find(c, v)
    IN IF n = 0 THEN Placed(c, v) ELSE [cache |-> AddIndexRef(c, n), index |-> n]

(* cache(indexholder, style): the holder's old reference is given up, and a *)
(* reference taken twice by the same holder is given back, unless it is the *)
(* only one.                                                                *)
Recached(c, holder, v) ==
    LET new == Cached(c, v)
    IN [index |-> new.index,
        cache |-> IF holder # new.index \/ new.cache.refs[holder] > 1
                  THEN Release(new.cache, holder) ELSE new.cache]

(* clear(-1): the hash table keeps its size. *)
Cleared(c) == NewCache(c.table)

(* getIndex: the values in index order over the whole array, its unused end *)
(* included, from index 1 on.                                               *)
Listed(c) == [n \in 1..Max({c.cap - 1, 0}) |-> Get(c, n)]

PowerOfTwoFrom(n) == Min({2^k : k \in 0..n} \ 0..(n - 1))

(* setIndex: each listed value gets one reference, each gap joins the free  *)
(* list, the last one in front.                                             *)
FromList(list) ==
    [item |-> list,
     refs |-> [n \in DOMAIN list |->
                  IF list[n] # NoRef THEN 1
                  ELSE Max({0} \union {m \in 1..(n - 1) : list[m] = NoRef})],
     free |-> Max({0} \union {n \in DOMAIN list : list[n] = NoRef}),
     cap |-> IF list = <<>> THEN 0 ELSE Len(list) + 1,
     table |-> IF list = <<>> THEN 32 ELSE PowerOfTwoFrom(Len(list) + 1)]

-----------------------------------------------------------------------------
(* The free list visits every free index once, nothing else, and ends: each *)
(* free index but the first follows exactly one other, the first follows    *)
(* none, and there is no cycle, in which each would follow one of them.     *)
FreeListSound(c) ==
    LET free == {n \in 1..Len(c.item) : c.item[n] = NoRef}
    IN /\ IF free = {} THEN c.free = 0 ELSE c.free \in free
       /\ \A n \in free : c.refs[n] \in (free \ {c.free}) \union {0}
       /\ \A m \in free \ {c.free} : \E n \in free : c.refs[n] = m
       /\ \A n, m \in free : c.refs[n] = c.refs[m] /\ c.refs[n] # 0 => n = m
       /\ \A S \in SUBSET free : S # {} => \E n \in S : \A m \in S : c.refs[m] # n

=============================================================================
