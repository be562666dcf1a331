----------------------------- MODULE NodeStyles -----------------------------
(***************************************************************************)
(* The elements of a document and the styles and fonts they refer to       *)
(* (crengine/src/lvtinydom/lvtinynodecollection.cpp, ldomnode.cpp,         *)
(* lvrend.cpp).  An element is a slot of _elemList; its style and its font *)
(* are indices into _styles and _fonts, two caches of the same kind        *)
(* (RefCache).  The document lives through                                 *)
(*     building   the parser creates, styles and removes elements          *)
(*     styling    render() found a new context: all styles were dropped    *)
(*                and every element is being styled again                  *)
(*     idle       laid out; it may be saved, and loaded later by a new run *)
(*     loading    the new run goes over the elements, to give them fonts    *)
(***************************************************************************)
EXTENDS RefCache, Naturals, Sequences, SequencesExt, FiniteSets

CONSTANTS
    Styles,        \* style records
    Fonts,         \* font instances
    FontFor,       \* the font getFont() finds for a style
    PartLen,       \* slots in one part of _elemList (TNC_PART_LEN)
    TableSize,     \* hash table size a new document starts with
    MaxElems,      \* bound: slots ever allocated
    MaxRefs,       \* bound: references to one value before more are taken
    MaxRenders,    \* bound: full renderings
    MaxLoads       \* bound: reloads

ASSUME ConstantsAssumption ==
    /\ FontFor \in [Styles -> Fonts]
    /\ NoRef \notin Styles \union Fonts
    /\ PartLen \in Nat \ {0}
    /\ TableSize \in Nat \ {0, 1}
    /\ MaxElems \in Nat \ {0}
    /\ {MaxRefs, MaxRenders, MaxLoads} \subseteq Nat

VARIABLES
    phase,         \* "building", "styling", "idle" or "loading"
    elemCount,     \* slots allocated so far (_elemCount)
    live,          \* the slots that hold an element
    freeSlots,     \* slots for reuse, first the next one (_elemNextFree)
    styleIdx,      \* _styleIndex of each slot
    fontIdx,       \* _fontIndex of each slot
    styles,        \* _styles
    fonts,         \* _fonts
    fontMap,       \* _fontMap: style index to font index, 0 when unknown
    pending,       \* elements render() has yet to style again, or a load to visit
    given,         \* the style each element was last given, NoRef when none
    once,          \* history: since styles were last dropped or loaded, no
                   \* element was styled again or removed
    saved,         \* what the cache file holds of all this
    renders,       \* full renderings done
    loads          \* reloads done

slotVars  == <<elemCount, live, freeSlots>>
indexVars == <<styleIdx, fontIdx, styles, fonts, fontMap>>
vars == <<phase, slotVars, indexVars, pending, given, once, saved, renders, loads>>

Slots == 1..MaxElems
Root  == 1

-----------------------------------------------------------------------------
(* Every loop over the elements counts its parts from _elemCount, though    *)
(* the slots run from 1 to _elemCount and so fill _elemCount + 1 entries.   *)
Parts(count) == (count + PartLen - 1) \div PartLen

Visited == {n \in live : n \div PartLen < Parts(elemCount)}

Init ==
    /\ phase = "building"
    /\ elemCount = 1 /\ live = {Root} /\ freeSlots = <<>>
    /\ styleIdx = [n \in Slots |-> 0] /\ fontIdx = [n \in Slots |-> 0]
    /\ styles = NewCache(TableSize) /\ fonts = NewCache(TableSize)
    /\ fontMap = [i \in {} |-> 0]
    /\ pending = {} /\ given = [n \in Slots |-> NoRef] /\ once = TRUE
    /\ saved = [valid |-> FALSE]
    /\ renders = 0 /\ loads = 0

(* allocTinyElement: a recycled slot if there is one. *)
Create ==
    /\ phase \in {"building", "styling"}
    /\ IF freeSlots # <<>>
       THEN /\ live' = live \union {Head(freeSlots)}
            /\ freeSlots' = Tail(freeSlots)
            /\ UNCHANGED elemCount
       ELSE /\ elemCount < MaxElems
            /\ elemCount' = elemCount + 1
            /\ live' = live \union {elemCount + 1}
            /\ UNCHANGED freeSlots
    /\ UNCHANGED <<phase, indexVars, pending, given, once, saved, renders, loads>>

FontAt(map, i) == IF i \in DOMAIN map THEN map[i] ELSE 0

(* initNodeFont of an element that holds font and whose style has index i:  *)
(* a style seen before names its font by index, a new one asks the cache.   *)
FontFound(map, cache, font, i, s) ==
    IF FontAt(map, i) # 0
    THEN [index |-> FontAt(map, i), map |-> map,
          cache |-> IF font # FontAt(map, i) THEN AddIndexRef(cache, FontAt(map, i)) ELSE cache]
    ELSE LET new == Cached(cache, FontFor[s])
         IN [index |-> new.index,
             map |-> [j \in DOMAIN map \union {i} |-> IF j = i THEN new.index ELSE map[j]],
             cache |-> IF font \notin {0, new.index} THEN Release(new.cache, font)
                       ELSE new.cache]

(* lvrend's setNodeStyle: ldomNode::setStyle, then getStyle to see that it  *)
(* took, whose reference nobody gives back, then initNodeFont.              *)
StyleNode(n, s) ==
    LET new   == Recached(styles, styleIdx[n], s)
        found == FontFound(fontMap, fonts, fontIdx[n], new.index, s)
    IN /\ n \notin pending =>
              \A i \in 1..Len(styles.item) : Present(styles, i) => styles.refs[i] < MaxRefs
       /\ styleIdx' = [styleIdx EXCEPT ![n] = new.index]
       /\ styles' = AddIndexRef(new.cache, new.index)
       /\ fontIdx' = [fontIdx EXCEPT ![n] = found.index]
       /\ fonts' = found.cache
       /\ fontMap' = found.map
       /\ given' = [given EXCEPT ![n] = s]
       /\ pending' = pending \ {n}
       /\ once' = (once /\ (styleIdx[n] = 0 \/ n \in pending))
       /\ UNCHANGED <<phase, slotVars, saved, renders, loads>>

(* Parents come first, so the root is styled before any other element.  An  *)
(* element may be styled again while it is built (MathML).                  *)
InitNodeStyle(n, s) ==
    /\ phase \in {"building", "styling"}
    /\ n # Root => styleIdx[Root] # 0 /\ Root \notin pending
    /\ StyleNode(n, s)

(* ldomNode::setStyle alone: collapsed table borders, boxes that take over  *)
(* their child's display.  The font stays.                                  *)
SetStyle(n, s) ==
    /\ phase = "styling" /\ pending = {}
    /\ styleIdx[n] # 0
    /\ FontFor[s] = FontFor[given[n]]
    /\ LET new == Recached(styles, styleIdx[n], s)
       IN /\ styleIdx' = [styleIdx EXCEPT ![n] = new.index]
          /\ styles' = new.cache
          /\ given' = [given EXCEPT ![n] = s]
    /\ UNCHANGED <<phase, slotVars, fontIdx, fonts, fontMap, pending, once, saved, renders, loads>>

(* ldomNode::destroy of one element: clearNodeStyle, then recycleTinyNode.  *)
(* Autoboxing drops empty elements and boxes it does not need.              *)
Destroy(n) ==
    /\ phase \in {"building", "styling"}
    /\ phase = "styling" => pending = {}
    /\ n # Root
    /\ styles' = Release(styles, styleIdx[n])
    /\ fonts' = Release(fonts, fontIdx[n])
    /\ styleIdx' = [styleIdx EXCEPT ![n] = 0]
    /\ fontIdx' = [fontIdx EXCEPT ![n] = 0]
    /\ live' = live \ {n}
    /\ freeSlots' = <<n>> \o freeSlots
    /\ given' = [given EXCEPT ![n] = NoRef]
    /\ pending' = pending \ {n}
    /\ once' = FALSE
    /\ UNCHANGED <<phase, elemCount, fontMap, saved, renders, loads>>

(* Mutant: the fonts of the styles before are not forgotten.               *)
DropStylesKeptMap ==
    /\ phase \in {"building", "idle"}
    /\ renders < MaxRenders /\ renders' = renders + 1
    /\ phase' = "styling"
    /\ styles' = Cleared(styles) /\ fonts' = Cleared(fonts)
    /\ styleIdx' = [n \in Slots |-> IF n \in Visited THEN 0 ELSE styleIdx[n]]
    /\ fontIdx' = [n \in Slots |-> IF n \in Visited THEN 0 ELSE fontIdx[n]]
    /\ given' = [n \in Slots |-> NoRef]
    /\ pending' = live /\ once' = TRUE
    /\ UNCHANGED <<slotVars, fontMap, saved, loads>>

(* render() in a changed context: dropStyles, and initNodeStyleRecursive    *)
(* forgets the fonts of the styles before it styles the first element.      *)
DropStyles ==
    /\ phase \in {"building", "idle"}
    /\ renders < MaxRenders /\ renders' = renders + 1
    /\ phase' = "styling"
    /\ styles' = Cleared(styles) /\ fonts' = Cleared(fonts)
    /\ styleIdx' = [n \in Slots |-> IF n \in Visited THEN 0 ELSE styleIdx[n]]
    /\ fontIdx' = [n \in Slots |-> IF n \in Visited THEN 0 ELSE fontIdx[n]]
    /\ fontMap' = [i \in {} |-> 0]
    /\ given' = [n \in Slots |-> NoRef]
    /\ pending' = live /\ once' = TRUE
    /\ UNCHANGED <<slotVars, saved, loads>>

(* The end of render(), or of updateLoadedStyles.                           *)
Done ==
    /\ phase \in {"styling", "loading"} /\ pending = {}
    /\ phase' = "idle"
    /\ UNCHANGED <<slotVars, indexVars, pending, given, once, saved, renders, loads>>

(* The parts of saveChanges that write elements and styles: saveNodeData,   *)
(* the style storage, saveStylesData.                                       *)
Save ==
    /\ phase = "idle"
    /\ saved' = [valid |-> TRUE, elemCount |-> elemCount, live |-> live,
                 styleIdx |-> styleIdx, fontIdx |-> fontIdx,
                 styles |-> Listed(styles), given |-> given]
    /\ UNCHANGED <<phase, slotVars, indexVars, pending, given, once, renders, loads>>

(* A new run loads the document: loadNodeData, the style storage and        *)
(* loadStylesData, in this order.  The list of recycled slots is not in the *)
(* file.                                                                    *)
Load ==
    /\ saved.valid
    /\ loads < MaxLoads /\ loads' = loads + 1
    /\ phase' = "loading"
    /\ elemCount' = saved.elemCount /\ live' = saved.live /\ freeSlots' = <<>>
    /\ styles' = FromList(saved.styles) /\ fonts' = NewCache(TableSize)
    /\ fontMap' = [i \in {} |-> 0]
    /\ styleIdx' = saved.styleIdx /\ fontIdx' = saved.fontIdx
    /\ pending' = {n \in saved.live : n \div PartLen < Parts(saved.elemCount)}
    /\ given' = saved.given
    /\ once' = TRUE
    /\ UNCHANGED <<saved, renders>>

(* updateLoadedStyles at the next slot: an index the loaded styles do not   *)
(* have is set to 0, otherwise the element gets the font of its style.      *)
UpdateLoaded ==
    /\ phase = "loading" /\ pending # {}
    /\ LET n == Min(pending)
           i == styleIdx[n]
           s == Get(styles, i)
           found == FontFound(fontMap, fonts, 0, i, s)
       IN /\ pending' = pending \ {n}
          /\ IF s = NoRef
             THEN /\ styleIdx' = [styleIdx EXCEPT ![n] = 0]
                  /\ fontIdx' = [fontIdx EXCEPT ![n] = 0]
                  /\ UNCHANGED <<fonts, fontMap>>
             ELSE /\ fontIdx' = [fontIdx EXCEPT ![n] = found.index]
                  /\ fonts' = found.cache /\ fontMap' = found.map
                  /\ UNCHANGED styleIdx
    /\ UNCHANGED <<phase, slotVars, styles, given, once, saved, renders, loads>>

Next ==
    \/ Create
    \/ \E n \in live, s \in Styles : InitNodeStyle(n, s)
    \/ \E n \in live, s \in Styles : SetStyle(n, s)
    \/ \E n \in live : Destroy(n)
    \/ DropStyles
    \/ Done
    \/ Save
    \/ Load
    \/ UpdateLoaded

Spec == Init /\ [][Next]_vars

-----------------------------------------------------------------------------
CacheOf(Values) ==
    [item : Seq(Values \union {NoRef}), refs : Seq(Nat), free : Nat, cap : Nat, table : Nat]

TypeOK ==
    /\ phase \in {"building", "styling", "idle", "loading"}
    /\ elemCount \in Slots
    /\ Root \in live /\ live \subseteq 1..elemCount
    /\ ToSet(freeSlots) \subseteq (1..elemCount) \ live
    /\ styleIdx \in [Slots -> Nat] /\ fontIdx \in [Slots -> Nat]
    /\ styles \in CacheOf(Styles) /\ fonts \in CacheOf(Fonts)
    /\ pending \subseteq live
    /\ given \in [Slots -> Styles \union {NoRef}]

(* What the two caches promise at all times: the free list holds each free  *)
(* index once, and a value has one index (LVIndexedRefCache::indexItem,     *)
(* release, setIndex); a slot for reuse holds no element.                   *)
CachesSound ==
    /\ TypeOK
    /\ FreeListSound(styles) /\ FreeListSound(fonts)
    /\ \A v \in Styles : Cardinality(IndicesOf(styles, v)) <= 1
    /\ \A v \in Fonts : Cardinality(IndicesOf(fonts, v)) <= 1

(* The style index of an element denotes the style it was last given,       *)
(* through renderings, saving and loading, whatever happens to the others   *)
(* that share the cache (tinyNodeCollection::setNodeStyle, clearNodeStyle,  *)
(* saveStylesData, loadStylesData).                                         *)
StyleIsGiven ==
    \A n \in live \ pending : styleIdx[n] # 0 => Get(styles, styleIdx[n]) = given[n]

(* The font index of an element denotes the font of its style               *)
(* (ldomNode::initNodeFont, updateLoadedStyles), as long as the font map    *)
(* cannot hold an index that was given up.                                  *)
FontIsOfStyle ==
    once => \A n \in live \ pending :
        fontIdx[n] # 0 => given[n] # NoRef /\ Get(fonts, fontIdx[n]) = FontFor[given[n]]

(* While references are given up, no style has fewer of them than elements  *)
(* (LVIndexedRefCache::cache(indexholder, style), release).  A loaded       *)
(* document does not meet this, and only dropping all its styles makes it   *)
(* leave phase "idle".                                                      *)
RefsCoverHolders ==
    phase \in {"building", "styling"} =>
        \A i \in 1..Len(styles.item) :
            Present(styles, i) =>
                styles.refs[i] >= Cardinality({n \in live : styleIdx[n] = i})

(* validateDocument: "styleId!=0, but absent in cache for node".            *)
StylesPresent == \A n \in live : styleIdx[n] # 0 => Present(styles, styleIdx[n])
=============================================================================
