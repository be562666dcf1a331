SPECIFICATION Spec
CONSTANTS
  Names = {a, b, c}
  MaxSize = 20
  DocSizes = {12}
  FileSizes = {30}
  Torn = Torn
  Unknown = Unknown
  None = None
  MaxFails = 1
  MaxKept = 1
  a = a
  b = b
  c = c
INVARIANTS IndexSound LastSurvives WishedStay
PROPERTY StartAgrees
SYMMETRY NameSymmetry
