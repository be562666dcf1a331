SPECIFICATION Spec
CONSTANTS
    Fonts = {f1, f2}
    Glyphs = {"thin", "plain", "wide"}
    SizeOf <- MCSizeOf
    MaxSize = 8
    Null = Null
    MaxExtra = 8
INVARIANTS CacheSound ByRecency
PROPERTY WrongOnlyWhenEmptied
