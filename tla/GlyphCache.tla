------------------------------ MODULE GlyphCache ------------------------------
(***************************************************************************)
(* The cache of rendered glyphs: LVFontGlobalGlyphCache and the local      *)
(* caches of the fonts over it, crengine/src/lvfont/lvfontglyphcache.cpp   *)
(* and .h, as LVFreeTypeFace::getGlyph, clearCache and                     *)
(* LVFreeTypeFontManager::clearGlyphCache use it, on one thread.           *)
(*                                                                         *)
(* A glyph of a font is an item.  It is in the table of its font (the      *)
(* variant with hash tables) and in one list of the items of all fonts,    *)
(* linked by pointers in the items, from the item put last to the one to   *)
(* be evicted first.  An item that is in no table was freed.               *)
(***************************************************************************)
EXTENDS Integers, Sequences, SequencesExt, FiniteSetsExt

CONSTANTS
    Fonts,    \* the fonts
    Glyphs,   \* their glyphs
    SizeOf,   \* the size of the item of each glyph
    MaxSize,  \* max_size
    Null,     \* the null pointer
    MaxExtra  \* bound: size counts at most so much that is not there

Items == Fonts \X Glyphs

ASSUME GlyphCacheAssumption ==
    /\ SizeOf \in [Glyphs -> Nat \ {0}] /\ MaxSize \in Nat /\ MaxExtra \in Nat
    /\ Null \notin Items

Size(item) == SizeOf[item[2]]
TotalOf(items) == MapThenSumSet(Size, items)

VARIABLES
    c,     \* the caches: head, tail and size of the list, next and prev of each
           \* item, and the items in the tables
    recent \* the cached items, the one used last first (no variable of the program)

vars == <<c, recent>>

-----------------------------------------------------------------------------
(* LVFontGlobalGlyphCache *)

\* Mutant: the tail is not moved.
UnlinkedKeepsTail(t, item) ==
    [t EXCEPT !.head = IF item = @ THEN t.next[item] ELSE @]

Unlinked(t, item) ==
    [t EXCEPT !.head = IF item = @ THEN t.next[item] ELSE @,
              !.tail = IF item = @ THEN t.prev[item] ELSE @]

Bypassed(t, item) ==
    LET prev == t.prev[item]
        next == t.next[item]
    IN [t EXCEPT !.next = [i \in Items |-> IF i = item THEN Null
                                           ELSE IF i = prev THEN next ELSE @[i]],
                 !.prev = [i \in Items |-> IF i = item THEN Null
                                           ELSE IF i = next THEN prev ELSE @[i]]]

\* Mutant: the size of what is removed is kept.
RemoveUncounted(t, item) ==
    LET u == Unlinked(t, item) IN IF Null \in {u.head, u.tail} THEN u ELSE Bypassed(u, item)

\* Of the last item the size is not taken off.
RemoveNoLock(t, item) ==
    LET u == Unlinked(t, item)
    IN IF Null \in {u.head, u.tail} THEN u
       ELSE [Bypassed(u, item) EXCEPT !.size = @ - Size(item)]

Free(t, item) == [t EXCEPT !.cached = @ \ {item}]

Room(t, sz) == sz + t.size <= MaxSize

\* Items are evicted from the tail until there is room or no item: after how many the
\* loop ends.
Evicted(t, sz) ==
    LET after[n \in 0 .. Cardinality(Items)] ==
            IF n = 0 THEN t
            ELSE IF after[n - 1].tail = Null \/ Room(after[n - 1], sz) THEN after[n - 1]
            ELSE Free(RemoveNoLock(after[n - 1], after[n - 1].tail), after[n - 1].tail)
    IN after[Cardinality(Items)]

PutNoLock(t, item) ==
    LET u == Evicted(t, Size(item))
    IN [u EXCEPT !.next[item] = u.head,
                 !.prev = IF u.head = Null THEN @ ELSE [@ EXCEPT ![u.head] = item],
                 !.head = item,
                 !.tail = IF @ = Null THEN item ELSE @,
                 !.size = @ + Size(item)]

\* Mutant: the item stays where it is.
RefreshNot(t, item) == t

\* "move to head": the item that is last stays last.
Refresh(t, item) == IF t.tail = item THEN t ELSE PutNoLock(RemoveNoLock(t, item), item)

-----------------------------------------------------------------------------
(* The fonts *)

NewItem(t, item) == [t EXCEPT !.next[item] = Null, !.prev[item] = Null]

\* A glyph is got, and rendered and put when it is not cached.
GetGlyph(item) ==
    /\ c' = IF item \in c.cached THEN Refresh(c, item)
            ELSE [PutNoLock(NewItem(c, item), item) EXCEPT !.cached = @ \union {item}]
    /\ recent' = SelectSeq(<<item>> \o Remove(recent, item), LAMBDA i : i \in c'.cached)

RemoveAll(t, items) == FoldLeft(LAMBDA u, item : Free(RemoveNoLock(u, item), item), t, items)

\* The table of a font is cleared, in the order of the table: clearCache, or the font
\* is dropped.
ClearLocal(font) ==
    /\ \E items \in SetToSeqs({item \in c.cached : item[1] = font}) : c' = RemoveAll(c, items)
    /\ recent' = SelectSeq(recent, LAMBDA item : item[1] # font)

\* The items from one on, along next.
Walk(next, first) ==
    LET item[n \in 1 .. Cardinality(Items) + 1] ==
            IF n = 1 THEN first ELSE IF item[n - 1] = Null THEN Null ELSE next[item[n - 1]]
    IN SelectSeq(item, LAMBDA i : i # Null)

\* clear(): from the head on.  clearCache of each font then finds nothing.
ClearGlyphCache ==
    /\ c' = RemoveAll(c, Walk(c.next, c.head))
    /\ recent' = << >>

Init ==
    /\ c = [head |-> Null, tail |-> Null, size |-> 0, cached |-> {},
            next |-> [i \in Items |-> Null], prev |-> [i \in Items |-> Null]]
    /\ recent = << >>

Extra == c.size - TotalOf(c.cached)

Next ==
    /\ \/ \E item \in Items : GetGlyph(item)
       \/ \E font \in Fonts : ClearLocal(font)
       \/ ClearGlyphCache
    /\ Extra' <= MaxExtra

Spec == Init /\ [][Next]_vars

-----------------------------------------------------------------------------
(* Properties *)

\* Type invariant.
TypeOK ==
    /\ {c.head, c.tail} \subseteq Items \union {Null}
    /\ c.next \in [Items -> Items \union {Null}] /\ c.prev \in [Items -> Items \union {Null}]
    /\ c.cached \subseteq Items /\ c.size \in Nat

List == Walk(c.next, c.head)

\* List and tables agree.
ListIsCached ==
    /\ ToSet(List) = c.cached /\ Len(List) = Cardinality(c.cached)
    /\ Walk(c.prev, c.tail) = Reverse(List)

\* The limit is kept.
WithinLimit == TotalOf(c.cached) <= MaxSize \/ Cardinality(c.cached) = 1

\* The pointers make one list of exactly the items in the tables, the same from both
\* ends: no freed item is reached from the list, a table or the other way round, and
\* none is missed by the eviction.  All items together are within max_size, unless
\* one alone is larger.
CacheSound == TypeOK /\ ListIsCached /\ WithinLimit

\* The size goes wrong only by a step that empties the list on its way, and then it
\* counts too much: as long as something stays cached the count is exact, and it never
\* falls below what is there.
WrongOnlyWhenEmptied ==
    [][Extra' # Extra =>
         Extra' > Extra /\ c.cached # {} /\ c.cached \intersect c'.cached = {}]_vars

\* Leaving the last item aside, which `refresh' does not move, the list is in order of
\* use: what is evicted is older than what stays.
ByRecency ==
    c.cached # {} =>
        Front(List) = SelectSeq(recent, LAMBDA i : i # c.tail)
===============================================================================
