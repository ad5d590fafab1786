SPECIFICATION Spec
CONSTANTS
    p1 = p1  p2 = p2  p3 = p3  k1 = k1  k2 = k2  u1 = u1  u2 = u2  a1 = a1  a2 = a2  a3 = a3
    server = server  child = child
    NoUser = NoUser  None = None
    Playlists = {p1}
    Users = {u1, u2}
    Actors = {a1, a3}
    Uploaders = {a3}
    Processes = {server, child}
    Proc <- ServerAndRun
    AtStart = {p1}
    FirstUsers <- OneUser
    Source <- OwnSources
    EnvKeys = {k1}
    EnvKey <- SharedKeys
PROPERTIES UpdatesAreWhole
CHECK_DEADLOCK FALSE
