----------------------------- MODULE MCDocCache -----------------------------
(***************************************************************************)
(* Small instances of DocCache for TLC.                                    *)
(***************************************************************************)
EXTENDS DocCache, TLC

\* The cache files differ in nothing but their names.
NameSymmetry == Permutations(Names)
=============================================================================
