-------------------------- MODULE MCSharedRelease --------------------------
(* Small instances of SharedRelease for TLC. *)
EXTENDS SharedRelease

CONSTANTS a1, f1, f2, f3

\* Three tracks of one album and one of none, in playlist order; the last one
\* is only reached once a slot is free.
MCAlbumKey == <<a1, a1, NoAlbum, a1>>
MCMatches == {<<1, f1>>, <<2, f1>>, <<2, f2>>, <<3, f1>>, <<4, f2>>, <<4, f3>>} \cap (Tracks \X Files)
=============================================================================
