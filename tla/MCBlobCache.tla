----------------------------- MODULE MCBlobCache -----------------------------
(***************************************************************************)
(* Small instances of BlobCache for TLC.                                   *)
(***************************************************************************)
EXTENDS BlobCache
=============================================================================
