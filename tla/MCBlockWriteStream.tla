------------------------ MODULE MCBlockWriteStream ------------------------
(***************************************************************************)
(* Small instances of BlockWriteStream for TLC: three blocks of two        *)
(* sectors, of which two are cached at a time.                             *)
(***************************************************************************)
EXTENDS BlockWriteStream

MCHeaders == {<<1, 1>>}

Request(p, d, n) == [pos |-> p, data |-> d, room |-> n]

\* Blocks of one sector: full, and ending in one Zero or two, or nearly empty, and
\* beginning with one.  A block across two blocks of the cache.  And one with more
\* padding than a call writes.
MCRequests ==
    {Request(3, <<1, 1, 0>>, 3), Request(9, <<1, 0, 0>>, 3)}
        \union {Request(p, <<0, 1>>, 3) : p \in {3, 6}}
        \union {Request(9, <<1, 0, 1, 0>>, 6), Request(3, <<1>>, 12)}

\* One block, and all of them.
MCReads == [pos : {0, 6, 12}, length : {6, 18}]
=============================================================================
