---------------------------- MODULE MCCacheFile ----------------------------
(***************************************************************************)
(* Small instances of CacheFile for TLC.                                   *)
(***************************************************************************)
EXTENDS CacheFile, TLC

CONSTANTS k1, k2, a, b

\* One content of one cell and one of two: overwriting can shrink a block,
\* reuse it or move it.
MCSize == (a :> 1) @@ (b :> 2)

\* Contents that fill a sector of two cells in part.
MCSectorSize == (a :> 1) @@ (b :> 3)

\* Contents as long as an index of three and of four items: a freed block can
\* receive the index.
MCLongSize == (a :> 3) @@ (b :> 4)

\* The two keys are interchangeable: nothing orders them.
KeySymmetry == Permutations({k1, k2})
=============================================================================
