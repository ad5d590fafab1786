CONSTANTS
  NTracks = 4
  Limit = 3
  a1 = a1
  f1 = f1
  f2 = f2
  f3 = f3
  Albums = {a1}
  Files = {f1, f2, f3}
  AlbumKey <- MCAlbumKey
  Matches <- MCMatches
  NoAlbum = NoAlbum
  None = None
SPECIFICATION FairSpec
INVARIANTS
  NothingLostOrDoubled
  DistinctIDs
PROPERTIES
  HandsOutAlbums
  PoolDrains
