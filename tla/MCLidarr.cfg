CONSTANTS
  Tracks = {t1, t2}
  Outsides <- AnyRoot
  MigrateDL = TRUE
  MaxGrabs = 1
  NoList = NoList
SPECIFICATION Spec
SYMMETRY Symmetry
CHECK_DEADLOCK FALSE
INVARIANTS
  SeenMeansLanded
  PlacedMeansCached
PROPERTIES
  CacheOutlivesWorkers
