SPECIFICATION FairSpec
CONSTANTS
  Names = {cover, photo}
  Contents = {x, y}
  Stored = Stored
  Nothing = Nothing
  Lost = Lost
  MaxBlobs = 3
  MaxFails = 2
  cover = cover
  photo = photo
  x = x
  y = y
INVARIANT BlobsSound
PROPERTY SavesFinish
