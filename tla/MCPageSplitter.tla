---------------------------- MODULE MCPageSplitter ----------------------------
(* Pages of four rows; the free space above the notes takes one. *)
EXTENDS PageSplitter

Plain(height, before, after) ==
    [height |-> height, before |-> before, after |-> after, discard |-> FALSE,
     back |-> 0, links |-> << >>]

\* Text with notes and margins.
MCText ==
    {Plain(1, Auto, Auto), Plain(2, Auto, Auto), Plain(3, Auto, Auto),
     Plain(1, Avoid, Auto), Plain(1, Auto, Always), Plain(6, Auto, Auto),
     [Plain(1, Auto, Auto) EXCEPT !.discard = TRUE],
     [Plain(3, Auto, Auto) EXCEPT !.back = 1],
     [Plain(1, Auto, Auto) EXCEPT !.links = <<"short">>],
     [Plain(2, Avoid, Auto) EXCEPT !.links = <<"long">>],
     [Plain(1, Auto, Auto) EXCEPT !.links = <<"short", "long">>]}

\* Table rows: cells beside each other, of which the later ones begin, or
\* begin and end, above the end of those before; no notes, and no margins.
MCCells ==
    {Plain(1, Auto, Auto), Plain(2, Avoid, Auto), Plain(3, Auto, Avoid),
     Plain(1, Auto, Always), Plain(6, Auto, Auto),
     [Plain(3, Auto, Auto) EXCEPT !.back = 1], [Plain(2, Avoid, Auto) EXCEPT !.back = 1],
     [Plain(1, Auto, Auto) EXCEPT !.back = 2], [Plain(1, Always, Auto) EXCEPT !.back = 3]}

MCKinds == {MCText, MCCells}

MCNoteLines == [note \in {"short", "long"} |-> IF note = "short" THEN <<1, 1>> ELSE <<2, 1, 1>>]
===============================================================================
