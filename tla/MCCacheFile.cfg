SPECIFICATION Spec
CONSTANTS
  k1 = k1
  k2 = k2
  a = a
  b = b
  Keys = {k1, k2}
  Contents = {a, b}
  Size <- MCSectorSize
  FREE = FREE
  INDEX = INDEX
  NoHash = NoHash
  Hole = Hole
  Pad = Pad
  NoItem = NoItem
  NoHeader = NoHeader
  Nothing = Nothing
  Unknown = Unknown
  SectorSize = 2
  ItemSize = 2
  IndexSlack = 1
  Validate = TRUE
  FileLimit = 20
  MaxItems = 5
  MaxOpens = 2
  MaxLostSyncs = 0
  MaxFailedWrites = 0
SYMMETRY KeySymmetry
INVARIANTS TypeOK OneBlockPerKey BlocksDisjoint ReadBack CleanMeansSynced CrashLeavesLastCommit
PROPERTY ImplementsBlockStore
