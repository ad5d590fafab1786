CONSTANTS
  NTracks = 2
  Size <- Sizes
  s1 = s1
  s2 = s2
  Siblings = {s1, s2}
  Owner <- OwnedByFirst
  MonitorConfigs <- BothConfigs
  MigrateDownload = TRUE
  None = None
SPECIFICATION MCSpec
INVARIANTS
  PresentMeansLanded
  SiblingsSettled
  FallbackBounds
  MaxDurationBounds
PROPERTIES
  VerdictsStand
  MonitorEnds
