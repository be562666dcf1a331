---------------------------- MODULE MCNodeStyles ----------------------------
EXTENDS NodeStyles, TLC

CONSTANTS s1, s2, s3, f1, f2

(* Two styles share a font, as styles that differ in margins or colour do. *)
MCFontFor == (s1 :> f1) @@ (s2 :> f2) @@ (s3 :> f1)
MCFontForTwo == (s1 :> f1) @@ (s2 :> f2)
=============================================================================
