----------------------------- MODULE PageSplitter -----------------------------
(***************************************************************************)
(* How a rendered document is cut into pages: LVRendPageContext,           *)
(* PageSplitState and LVRendPageList,                                      *)
(* crengine/src/lvpagesplitter.cpp and include/lvpagesplitter.h.           *)
(*                                                                         *)
(* The rendering gives lines, slices of the document that are stacked into *)
(* pages: each says whether the page may end before and after it, and may  *)
(* link footnotes, whose lines go to the foot of the page.  A line may     *)
(* begin before the one given last ends (the cells of a table row).        *)
(*                                                                         *)
(* The state of the splitter is a record, changed as the code does it:     *)
(*   pages      the pages so far                                           *)
(*   pagestart, pageend, next, last   lines of the page being filled: its  *)
(*              first, the last before the candidate split, the one after  *)
(*              it, and the last given                                     *)
(*   lastpageend   where the last page ended                               *)
(*   footnotes, footheight   the notes' fragments of the page              *)
(*   shown      the notes that were begun on the page (page_footnotes)     *)
(*   footnote, footstart, footend, footlast   the note being added         *)
(* The number of the flow a page belongs to and the count of right-to-left *)
(* lines on it, which split nothing, are left out.                         *)
(***************************************************************************)
EXTENDS Integers, Sequences, SequencesExt, FiniteSets

CONSTANTS
    PageHeight, \* page_h
    Margin,     \* what is left free above the notes of a page
    Kinds,      \* the kinds of documents: the shapes their lines may have, with
                \* height, before, after, discard, back and links; back is how far
                \* the line reaches behind the end of those before it
    NoteLines,  \* the heights of the lines of each note
    NoLine,     \* the null line
    NoNote,     \* the null note
    MaxLines    \* bound: lines of the document

Auto == 0
Avoid == 1
Always == 2

ASSUME PageSplitterAssumption ==
    /\ PageHeight \in Nat \ {0} /\ Margin \in Nat /\ MaxLines \in Nat
    /\ \A shape \in UNION Kinds :
          /\ shape.height \in Nat \ {0} /\ shape.back \in Nat
          /\ {shape.before, shape.after} \subseteq {Auto, Avoid, Always}
          /\ \A i \in DOMAIN shape.links : shape.links[i] \in DOMAIN NoteLines
    /\ NoNote \notin DOMAIN NoteLines

VARIABLES
    s,     \* the splitter
    kind,  \* the kind of the document
    given, \* the lines given so far
    done   \* Finalize was called

vars == <<s, kind, given, done>>

Height(line) == line.end - line.start

\* The lines of a note, at places of their own.
LinesOf(note) ==
    LET heights == NoteLines[note]
        startOf[i \in 1 .. Len(heights) + 1] ==
            IF i = 1 THEN 0 ELSE startOf[i - 1] + heights[i - 1]
    IN [i \in DOMAIN heights |-> [start |-> startOf[i], end |-> startOf[i + 1]]]

-----------------------------------------------------------------------------
(* Pages *)

CalcSplitFlag(a, b) ==
    IF Avoid \in {a, b} THEN Avoid ELSE IF Always \in {a, b} THEN Always ELSE Auto

\* The height of the page up to a line, or up to the last line.
CurrentHeight(t, line) ==
    LET end == IF line = NoLine THEN t.last ELSE line
    IN (IF end = NoLine THEN 0
        ELSE IF t.pagestart # NoLine THEN end.end - t.pagestart.start ELSE Height(end))
       + (IF t.footheight > 0 THEN Margin + t.footheight ELSE 0)

StartPage(t, line) == [t EXCEPT !.pagestart = line, !.pageend = NoLine, !.next = NoLine]

\* The page ends at pageend.
AddToList(t) ==
    LET end    == IF t.pageend = NoLine THEN t.pagestart ELSE t.pageend
        start  == IF t.pagestart # NoLine THEN t.pagestart.start ELSE t.lastpageend
        height == IF t.pagestart # NoLine THEN end.end - start ELSE 0
    IN IF t.pagestart = NoLine /\ t.footnotes = << >> THEN [t EXCEPT !.pageend = end]
       ELSE [t EXCEPT
                !.pageend = end,
                !.pages = Append(@, [start |-> start, height |-> height,
                                     footnotes |-> t.footnotes]),
                !.lastpageend = start + height,
                !.footnotes = << >>, !.footheight = 0,
                !.shown = IF t.footnote = NoNote THEN {} ELSE {t.footnote}]

\* A line that is too tall is cut into pages of full height, from the beginning of
\* the page on; what is left of it is the first line of the next page.
SplitLineIfOverflowPage(t, line) ==
    LET from  == IF t.pagestart # NoLine THEN t.pagestart.start ELSE line.start
        count == (line.end - from - 1) \div PageHeight
        rest  == [line EXCEPT !.start = from + count * PageHeight]
        slice(i) == [start |-> from + (i - 1) * PageHeight, height |-> PageHeight,
                     footnotes |-> << >>]
    IN IF count <= 0 THEN t
       ELSE StartPage([t EXCEPT !.pages = @ \o [i \in 1..count |-> slice(i)],
                                !.lastpageend = rest.start, !.last = rest], rest)

\* The page ends before the line, and the next begins with it.
Broken(t, line) ==
    LET u == AddToList([t EXCEPT !.pageend = t.last])
    IN SplitLineIfOverflowPage(StartPage([u EXCEPT !.last = line], line), line)

\* The page ends before the line, which is not shown.
BrokenWithout(t) ==
    [StartPage(AddToList([t EXCEPT !.pageend = t.last]), NoLine) EXCEPT !.last = NoLine]

\* Mutant: a line behind the last one is added like any other.
BehindNever(t, line) == FALSE

\* The line, of another table cell, ends above the end of the last one: it is ignored.
Behind(t, line) == line.end < t.last.end

\* Mutant: the line is taken as it is.
CroppedNot(t, line) == line

\* What is below the last line, of a line that begins above its end.  Of the flags
\* only an `avoid' before the line is left.
Cropped(t, line) ==
    IF line.start >= t.last.end THEN line
    ELSE [line EXCEPT !.start = t.last.end, !.after = Auto, !.discard = FALSE,
                      !.before = IF @ = Avoid THEN Avoid ELSE Auto]

\* Mutant: the page is ended at the candidate without beginning the next with the
\* line after it.
SplitBackLoses(t) == StartPage(AddToList(t), t.last)

\* Back to the candidate split.
SplitBack(t) == StartPage(AddToList(t), t.next)

\* Mutant: the candidate is never gone back to.
GoesBackNever(t, line, split) == FALSE

\* The line does not fit and is to stay with the one before it.
GoesBack(t, line, split) ==
    /\ CurrentHeight(t, line) > PageHeight /\ split = Avoid
    /\ t.pageend # NoLine /\ t.next # NoLine /\ Height(line) <= PageHeight

\* Mutant: a forced split is looked at only when the line does not fit.
ForcedLate(split) == FALSE

Forced(split) == split = Always

\* AddLine, when there is a page.
AddToPage(t, given1) ==
    LET line  == Cropped(t, given1)
        split == CalcSplitFlag(t.last.after, line.before)
        u     == IF GoesBack(t, line, split) THEN SplitBack(t) ELSE t
        fits  == CurrentHeight(u, line) <= PageHeight
    IN CASE Behind(t, given1) -> t
         [] ~Behind(t, given1) /\ ~fits /\ Height(line) > PageHeight ->
              SplitLineIfOverflowPage(u, line)
         [] ~Behind(t, given1) /\ ~fits /\ Height(line) <= PageHeight ->
              IF split = Auto /\ line.discard THEN BrokenWithout(u) ELSE Broken(u, line)
         [] ~Behind(t, given1) /\ fits /\ Forced(split) -> Broken(u, line)
         [] ~Behind(t, given1) /\ fits /\ split = Auto ->
              [u EXCEPT !.pageend = u.last, !.next = line, !.last = line]
         [] OTHER -> [u EXCEPT !.last = line]

\* AddLine, when there is no page, or one with footnotes only.
AddToNewPage(t, line) ==
    LET u == IF CurrentHeight(t, NoLine) > 0
                /\ CurrentHeight(t, NoLine) + Height(line) > PageHeight
             THEN AddToList(t) ELSE t
    IN IF line.discard THEN u
       ELSE SplitLineIfOverflowPage(StartPage([u EXCEPT !.last = line], line), line)

AddLine(t, line) == IF t.pagestart = NoLine THEN AddToNewPage(t, line) ELSE AddToPage(t, line)

-----------------------------------------------------------------------------
(* Footnotes *)

StartFootNote(t, note) ==
    [t EXCEPT !.shown = @ \union {note}, !.footnote = note, !.footend = NoLine]

\* Mutant: the fragment ends at its first line.
FragmentEndFirst(t) == t.footstart

FragmentEnd(t) == IF t.footend = NoLine THEN t.footstart ELSE t.footend

\* A fragment as high as a page is dropped.
AddFootnoteFragmentToList(t) ==
    LET height == FragmentEnd(t).end - t.footstart.start
        fits   == height > 0 /\ height < PageHeight
    IN IF t.footstart = NoLine THEN t
       ELSE [t EXCEPT
                !.footheight = IF fits THEN @ + height ELSE @,
                !.footnotes = IF fits
                              THEN Append(@, [note |-> t.footnote, start |-> t.footstart.start,
                                              height |-> height])
                              ELSE @,
                !.footstart = NoLine, !.footend = NoLine]

EndFootNote(t) ==
    [AddFootnoteFragmentToList([t EXCEPT !.footend = t.footlast])
        EXCEPT !.footnote = NoNote, !.footlast = NoLine]

\* Mutant: the free space above the notes is not counted.
NoteHeightBare(t, line) ==
    line.end - (IF t.footstart # NoLine THEN t.footstart.start ELSE line.start)

NoteHeight(t, line) ==
    line.end - (IF t.footstart # NoLine THEN t.footstart.start ELSE line.start)
    + (IF t.footheight = 0 THEN Margin ELSE 0)

AddFootnoteLine(t, line) ==
    IF CurrentHeight(t, NoLine) + NoteHeight(t, line) > PageHeight
    THEN LET u == AddFootnoteFragmentToList(t)
         IN [StartPage(AddToList([u EXCEPT !.pageend = u.last]), NoLine)
                EXCEPT !.footstart = line, !.footlast = line, !.footend = NoLine]
    ELSE [t EXCEPT !.footstart = IF @ = NoLine THEN line ELSE @,
                   !.footend = line, !.footlast = line]

\* A note that was begun on this page is not repeated.
AddFootNote(t, note) ==
    IF note \in t.shown \/ NoteLines[note] = << >> THEN t
    ELSE EndFootNote(FoldLeft(AddFootnoteLine, StartFootNote(t, note), LinesOf(note)))

-----------------------------------------------------------------------------
(* LVRendPageContext *)

NewSplitter ==
    [pages |-> << >>, pagestart |-> NoLine, pageend |-> NoLine, next |-> NoLine,
     last |-> NoLine, lastpageend |-> 0, footnotes |-> << >>, footheight |-> 0,
     shown |-> {}, footnote |-> NoNote, footstart |-> NoLine, footend |-> NoLine,
     footlast |-> NoLine]

Init == s = NewSplitter /\ kind \in Kinds /\ given = << >> /\ done = FALSE

Bottom == IF given = << >> THEN 0 ELSE CHOOSE y \in {given[i].end : i \in DOMAIN given} :
                                           \A i \in DOMAIN given : given[i].end <= y

LineOf(shape) ==
    [start |-> Bottom - shape.back, end |-> Bottom - shape.back + shape.height,
     before |-> shape.before, after |-> shape.after, discard |-> shape.discard,
     links |-> shape.links]

\* One round of split(): a line, and the notes it links.
Line(shape) ==
    /\ ~done /\ Len(given) < MaxLines
    /\ shape.back <= Bottom
    /\ given' = Append(given, LineOf(shape))
    /\ s' = FoldLeft(AddFootNote, AddLine(s, LineOf(shape)), shape.links)
    /\ UNCHANGED <<kind, done>>

Finalize ==
    /\ ~done /\ done' = TRUE
    /\ s' = IF s.last = NoLine THEN s ELSE AddToList([s EXCEPT !.pageend = s.last])
    /\ UNCHANGED <<kind, given>>

Next == Finalize \/ \E shape \in kind : Line(shape)

Spec == Init /\ [][Next]_vars

-----------------------------------------------------------------------------
(* FindNearestPage: pages are counted from 0. *)

FindNearestPage(pages, y, direction) ==
    LET ends(i) == pages[i].start + pages[i].height
        hits == {i \in DOMAIN pages : y < pages[i].start \/ y < ends(i)}
        i == CHOOSE i \in hits : \A j \in hits : i <= j
        before == IF i = 1 \/ direction >= 0 THEN i - 1 ELSE i - 2
    IN IF pages = << >> THEN 0
       ELSE IF hits = {} THEN Len(pages) - 1
       ELSE IF y >= pages[i].start /\ i < Len(pages) /\ direction > 0 THEN i
       ELSE before

-----------------------------------------------------------------------------
(* Properties *)

Rows(piece) == piece.start .. piece.start + piece.height - 1
RowsOfLine(line) == line.start .. line.end - 1
Starts == {s.pages[p].start : p \in {q \in DOMAIN s.pages : s.pages[q].height > 0}}
Shown == UNION {Rows(s.pages[p]) : p \in DOMAIN s.pages}

\* The line begins above the end of one before it.
ReachesBack(i) == \E j \in 1 .. i - 1 : given[j].end > given[i].start

\* What the flags say of a split between a line and the one after it.
SplitAfter(i) == CalcSplitFlag(given[i].after, given[i + 1].before)

TooTall(line) == Height(line) > PageHeight

\* Type invariant: no page is higher than the screen, and a page being filled has a
\* last line, which AddLine and AddToList read.
TypeOK ==
    /\ done \in BOOLEAN
    /\ \A p \in DOMAIN s.pages : s.pages[p].height \in 0..PageHeight
    /\ s.pagestart # NoLine => s.last # NoLine

\* Every row of every line is on a page, the one FindNearestPage finds for it, but for
\* the margins that may be left out at the beginning of a page: whatever was split,
\* gone back to, cropped or sliced, no text is lost between two pages, and no page
\* without text is found in its place.
NothingLost ==
    done =>
      /\ \A i \in DOMAIN given : ~given[i].discard => RowsOfLine(given[i]) \subseteq Shown
      /\ \A y \in Shown : y \in Rows(s.pages[FindNearestPage(s.pages, y, 0) + 1])

\* A page begins where the one before it ends or below, so that no row is read twice:
\* what a line shares with those before it is cropped.  Only where notes ended the page
\* is there nothing to crop the line against.
PagesInOrder ==
    \A p \in 1 .. Len(s.pages) - 1 :
        \/ s.pages[p].start + s.pages[p].height <= s.pages[p + 1].start
        \/ /\ \E i \in DOMAIN given : ReachesBack(i) /\ given[i].start = s.pages[p + 1].start
           /\ s.pages[p].footnotes # << >> \/ s.pages[p + 1].footnotes # << >>

FootHeight(page) ==
    IF page.footnotes = << >> THEN 0
    ELSE Margin + FoldSeq(LAMBDA f, h : h + f.height, 0, page.footnotes)

Fits(page) == page.height + FootHeight(page) <= PageHeight

\* "as it fits on a page" (SplitLineIfOverflowPage): the text of a page, its notes and
\* the space between them are no higher than the screen.
PagesFit == \A p \in DOMAIN s.pages : Fits(s.pages[p])

\* The page begins within a line that was sliced.
BeginsInSlice(page) ==
    \E i \in DOMAIN given : TooTall(given[i]) /\ page.start \in given[i].start + 1 .. given[i].end - 1

\* A page fits the screen or begins within a sliced line.
PagesFitUnlessSliced ==
    \A p \in DOMAIN s.pages : Fits(s.pages[p]) \/ BeginsInSlice(s.pages[p])

\* They are, on every page that does not begin with what is left of a sliced line:
\* neither the lines, nor the notes, nor a return to the candidate can overflow it.
\* The lines alone never do, not even there.
PagesSound == TypeOK /\ PagesFitUnlessSliced

\* A line after a forced split begins a page, wherever the pages were split before it,
\* if it fits on one.
BreaksKept ==
    done => \A i \in 1 .. Len(given) - 1 :
        (/\ SplitAfter(i) = Always /\ ~TooTall(given[i + 1]) /\ ~given[i + 1].discard
         /\ ~ReachesBack(i) /\ ~ReachesBack(i + 1))
        => given[i + 1].start \in Starts

\* Lines i to j are joined by `avoid' and to no other line.
Chain(i, j) ==
    /\ \A k \in i .. j - 1 : SplitAfter(k) = Avoid
    /\ i > 1 => SplitAfter(i - 1) # Avoid
    /\ j < Len(given) => SplitAfter(j) # Avoid

\* Lines that are to stay together and fit on a page do, by going back to the
\* candidate split before the first of them; where there are no notes, no line that
\* reaches back and no margin among them.
AvoidKept ==
    (done /\ \A i \in DOMAIN given : given[i].links = << >> /\ ~ReachesBack(i)) =>
        \A j \in DOMAIN given : \A i \in 1 .. j - 1 :
            (/\ Chain(i, j) /\ given[j].end - given[i].start <= PageHeight
             /\ \A k \in i .. j : ~given[k].discard)
            => \A k \in i + 1 .. j : given[k].start \notin Starts

FragmentsOf(note, p) == {f \in ToSet(s.pages[p].footnotes) : f.note = note}

\* A note whose lines are lower than a page is shown whole, from its beginning, near the
\* line that links it.  It may begin on the page before: the line may have gone back to
\* the next page; and as many pages earlier as an earlier link began it, since it is
\* not begun again on a page it goes on.  It begins later only as the lines of the notes
\* before it push it, or on the page with the last slice of a line that is too tall.
NotesWhole ==
    done => \A i \in DOMAIN given : \A l \in DOMAIN given[i].links :
        LET note  == given[i].links[l]
            lines == LinesOf(note)
            ahead == 1 + FoldSeq(LAMBDA n, c : c + Len(NoteLines[n]), 0,
                                 SubSeq(given[i].links, 1, l - 1))
            near(p) == \E q \in DOMAIN s.pages :
                          /\ given[i].end - 1 \in Rows(s.pages[q]) /\ p >= q - Len(lines)
                          /\ p <= q + ahead \/ BeginsInSlice(s.pages[p])
            from(p) == UNION {UNION {Rows(f) : f \in FragmentsOf(note, q)} : q \in p .. Len(s.pages)}
        IN (\A k \in DOMAIN lines : Height(lines[k]) + Margin <= PageHeight) =>
           \E p \in DOMAIN s.pages :
              /\ near(p) /\ \E f \in FragmentsOf(note, p) : f.start = 0
              /\ \A k \in DOMAIN lines : RowsOfLine(lines[k]) \subseteq from(p)
=============================================================================
