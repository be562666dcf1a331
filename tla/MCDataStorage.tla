--------------------------- MODULE MCDataStorage ---------------------------
(***************************************************************************)
(* Small instances of DataStorage for TLC.                                 *)
(***************************************************************************)
EXTENDS DataStorage
=============================================================================
