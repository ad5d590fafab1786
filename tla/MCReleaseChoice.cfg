CONSTANTS
  Answers <- Shelves
  Songs <- Albums
  Settings <- Choices
  Ceilings = {0}
  MostDirs = 2
  Retry = 1
SPECIFICATION Spec
CHECK_DEADLOCK FALSE
INVARIANTS
  SongIsQueued
  RightSizeWins
  FullNameWins
  AlbumComesWhole
  PreferredFirst
