SPECIFICATION Spec

CONSTANTS
    s1 = s1  s2 = s2  s3 = s3  f1 = f1  f2 = f2
    NoRef = NoRef
    Styles = {s1, s2, s3}
    Fonts = {f1, f2}
    FontFor <- MCFontFor
    PartLen = 8
    TableSize = 4
    MaxElems = 3
    MaxRefs = 3
    MaxRenders = 1
    MaxLoads = 1

INVARIANT CachesSound
INVARIANT StyleIsGiven
INVARIANT RefsCoverHolders
INVARIANT FontIsOfStyle
