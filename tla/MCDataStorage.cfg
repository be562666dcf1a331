SPECIFICATION Spec
CONSTANTS
  Values = {0}
  RawValues = {0, 1}
  Zero = 0
  Freed = Freed
  Sizes = {1, 3}
  ChunkSize = 2
  MaxSize = 5
  Plenty = 100
  NoBlock = NoBlock
  AppendsToSaved = FALSE
  LoadTouches = FALSE
  MaxChunks = 3
INVARIANTS ReadsContent MemorySound HeldStay
