----------------------------- MODULE MCMoveFile -----------------------------
(***************************************************************************)
(* Four downloads into one library: m1 and m2 have names that collide, m3  *)
(* has the name of a song the library holds, m4 already is in place.       *)
(***************************************************************************)
EXTENDS MoveFile, TLC

CONSTANTS m1, m2, m3, m4, old, d1, d2, d3, d4, l1, l2, downloads, library, P1, P2

FourMoves == {m1, m2, m3, m4}
AllPaths == {d1, d2, d3, d4, l1, l2}
AllSongs == FourMoves \cup {old}
BothDirs == {downloads, library}
DirOf == [p \in AllPaths |-> IF p \in {d1, d2, d3} THEN downloads ELSE library]
From == (m1 :> d1) @@ (m2 :> d2) @@ (m3 :> d3) @@ (m4 :> d4)
To == (m1 :> l1) @@ (m2 :> l1) @@ (m3 :> l2) @@ (m4 :> d4)
Shelf == [p \in AllPaths |-> IF p = l2 THEN old ELSE NoSong]
SoloProcess == [m \in FourMoves |-> P1]
TwoProcesses == [m \in FourMoves |-> IF m = m2 THEN P2 ELSE P1]
=============================================================================
