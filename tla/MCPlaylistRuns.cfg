SPECIFICATION MCSpec
CONSTANTS
    u1 = u1  u2 = u2  Owner = Owner  NoOne = NoOne  NoID = NoID  Bare = Bare
    j1 = j1  j2 = j2  t1 = t1  t2 = t2
    Jobs = {j1, j2}
    Users = {u1, u2}
    Single = u1
    ShareWith <- BothShare
    Tracks = {t1}
    Native = {}
    Configs <- EveryConfig
    MaxSlips = 1
SYMMETRY Symmetry
INVARIANTS OnlyServerIDs DuplicatesNeedFailures
PROPERTIES OthersKeepTheirPlaylists CopiesAreKept
CHECK_DEADLOCK FALSE
