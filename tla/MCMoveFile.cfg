SPECIFICATION MoveSpec
CONSTANTS
    m1 = m1  m2 = m2  m3 = m3  m4 = m4  old = old
    d1 = d1  d2 = d2  d3 = d3  d4 = d4  l1 = l1  l2 = l2
    downloads = downloads  library = library  P1 = P1  P2 = P2
    NoSong = NoSong
    Moves <- FourMoves
    Processes = {P1}
    Proc <- SoloProcess
    Paths <- AllPaths
    Source <- From
    Target <- To
    Dirs <- BothDirs
    Dir <- DirOf
    Library <- Shelf
    Songs <- AllSongs
    KeepPerms = TRUE
    Tries = 2
INVARIANTS NeverLost
PROPERTIES OnlyUnseenErased MovedMeansThere
