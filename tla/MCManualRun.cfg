SPECIFICATION FairSpec
CONSTANTS
    r1 = r1  r2 = r2  s1 = s1  v1 = v1
    Runs = {r1, r2}
    Stops = {s1}
    Viewers = {v1}
    Cap = 1
    MaxRecords = 2
    Scenes <- BothScenes
    KillsGroup = TRUE
    None = None
INVARIANTS OneRunAtATime SendsToOpenChannels StreamIsFaithful NoStreamLeftOpen
PROPERTIES StopsTheRunItSaw GuardClears
