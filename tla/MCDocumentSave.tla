--------------------------- MODULE MCDocumentSave ---------------------------
(***************************************************************************)
(* Small instances of DocumentSave for TLC.                                *)
(***************************************************************************)
EXTENDS DocumentSave
=============================================================================
