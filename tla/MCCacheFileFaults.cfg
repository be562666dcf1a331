SPECIFICATION Spec
CONSTANTS
  k1 = k1
  k2 = k2
  a = a
  b = b
  Keys = {k1}
  Contents = {a, b}
  Size <- MCSize
  FREE = FREE
  INDEX = INDEX
  NoHash = NoHash
  Hole = Hole
  Pad = Pad
  NoItem = NoItem
  NoHeader = NoHeader
  Nothing = Nothing
  Unknown = Unknown
  SectorSize = 1
  ItemSize = 1
  IndexSlack = 0
  Validate = TRUE
  FileLimit = 9
  MaxItems = 4
  MaxOpens = 1
  MaxLostSyncs = 1
  MaxFailedWrites = 1
INVARIANTS AcceptedIsACommit
