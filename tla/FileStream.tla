------------------------------ MODULE FileStream ------------------------------
(***************************************************************************)
(* What a file stream with a write cache promises to the program above it: *)
(* the content is what was last written, cell by cell; the file below      *)
(* follows in any order, and is level with it when nothing is held back,   *)
(* but for a Zero that ends the content: the file may be without it.       *)
(*                                                                         *)
(* The cache file is modelled over this promise: its `cells` are the       *)
(* content and its `synced` cells the file at the last flush, level.       *)
(***************************************************************************)
EXTENDS Naturals, Sequences

CONSTANTS
    Requests, \* the writes: where, and which bytes
    Zero,     \* the byte that fills a gap
    Beyond,   \* a cell past the end
    Limit     \* bound: cells of the file

VARIABLES
    content, \* the cells, as the program reads them
    file,    \* the cells of the file below
    cached   \* whether anything is held back from the file

Places == 0 .. Limit - 1

Empty == [q \in Places |-> Beyond]

\* The cells once data is written at p; a gap before it is filled.
Patched(c, p, data) ==
    [q \in Places |->
        IF p <= q /\ q < p + Len(data) THEN data[q - p + 1]
        ELSE IF q < p /\ c[q] = Beyond /\ data # << >> THEN Zero ELSE c[q]]

Last(c, q) == q + 1 \in Places => c[q + 1] = Beyond

\* The file is level with the cells.
Level(f, c) ==
    \A q \in Places :
        \/ f[q] = c[q]
        \/ f[q] = Beyond /\ c[q] = Zero /\ Last(c, q)

\* A cell of the file is what it was, or one of what the program reads there before
\* and after the step, or the filling of a gap.
Moves(before, after) ==
    \A q \in Places :
        \/ file'[q] \in {file[q], before[q], after[q]}
        \/ file[q] = Beyond /\ file'[q] = Zero

\* The file follows, and is level when nothing is held back.
Follows ==
    /\ Moves(content, content')
    /\ cached' \in BOOLEAN
    /\ ~cached' => Level(file', content')

\* A write may come up short.
Write ==
    /\ \E r \in Requests : \E n \in 0 .. Len(r.data) :
         content' = Patched(content, r.pos, SubSeq(r.data, 1, n))
    /\ Follows

\* A read changes nothing that can be read; nor does a flush, which may run out
\* of time before nothing is held back.
ReadOrFlush == content' = content /\ Follows

\* The stream is closed and opened again: what is read then is the file.
Reopen ==
    /\ Moves(content, content) /\ Level(file', content)
    /\ content' = file' /\ ~cached'

\* The program is stopped: the next one reads what the file holds.
Kill == file' = file /\ content' = file /\ ~cached'

\* The file is deleted, and an empty one opened.
CreateNew == content' = Empty /\ file' = Empty /\ ~cached'

Init == content = Empty /\ file = Empty /\ ~cached

Next == ReadOrFlush \/ Reopen \/ Kill \/ CreateNew \/ Write

Spec == Init /\ [][Next]_<<content, file, cached>>
=============================================================================
