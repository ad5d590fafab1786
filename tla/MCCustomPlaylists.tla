-------------------------- MODULE MCCustomPlaylists --------------------------
(* Instances of CustomPlaylists for TLC. *)
EXTENDS CustomPlaylists, TLC

CONSTANTS p1, p2, p3, k1, k2, u1, u2, server, child, a1, a2, a3

Symmetry == Permutations(Actors \ Uploaders)

OneUser == <<u1>>
OneServer == [a \in Actors |-> server]
ServerAndRun == [a \in Actors |-> IF a \in Uploaders THEN child ELSE server]
OwnSources == [p \in Playlists |-> p]

\* The first and the second playlist have the same name.
SharedKeys == [p \in Playlists |-> IF p = p3 THEN k2 ELSE k1]
=============================================================================
