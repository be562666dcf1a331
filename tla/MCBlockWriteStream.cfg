SPECIFICATION Spec
CONSTANTS
  Zero = 0
  Pad = 2
  Bytes = {0, 1, 2}
  Beyond = Beyond
  BlockSize = 6
  BlockCount = 3
  SectorSize = 3
  Headers <- MCHeaders
  Requests <- MCRequests
  Reads <- MCReads
  Limit = 15
  MaxCount = 3
INVARIANTS CacheSound ReadsContent
PROPERTY ImplementsFileStream
