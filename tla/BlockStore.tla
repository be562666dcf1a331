----------------------------- MODULE BlockStore -----------------------------
(***************************************************************************)
(* What a cache file promises to its clients: a map from block keys to     *)
(* contents that a session changes, and that the next session finds again, *)
(* whole and as it was committed, or not at all.                           *)
(***************************************************************************)
CONSTANTS Keys, Contents, Nothing, Lost

VARIABLES
    open,  \* a session is running
    store, \* what the session reads, by key
    kept   \* what the next session would find; Lost if it must start over

Empty == [k \in Keys |-> Nothing]

\* A session starts over with an empty file.
Create ==
    /\ ~open /\ open' = TRUE
    /\ store' = Empty /\ kept' = Lost

\* A session finds what was kept.
Open ==
    /\ ~open /\ open' = TRUE
    /\ kept # Lost
    /\ store' = kept /\ kept' = kept

Write(k, c) ==
    /\ open /\ open' = TRUE
    /\ store' = [store EXCEPT ![k] = c] /\ kept' = kept

\* The session gives up what was kept, before it changes the file.
Invalidate ==
    /\ open /\ open' = TRUE
    /\ store' = store /\ kept' = Lost

\* What the session reads is kept from now on.
Commit ==
    /\ open /\ open' = TRUE
    /\ store' = store /\ kept' = store

\* The session ends or the machine stops.
Leave ==
    /\ open /\ open' = FALSE
    /\ store' = Empty /\ kept' \in {kept, Lost}

Init == open = FALSE /\ store = Empty /\ kept = Lost

Next ==
    \/ Create \/ Open \/ Invalidate \/ Commit \/ Leave
    \/ \E k \in Keys, c \in Contents : Write(k, c)

Spec == Init /\ [][Next]_<<open, store, kept>>
=============================================================================
