---------------------------- MODULE MCGlyphCache ----------------------------
EXTENDS GlyphCache

MCSizeOf == [g \in Glyphs |-> CASE g = "thin" -> 1 [] g = "plain" -> 2 [] g = "wide" -> 3]
=============================================================================
