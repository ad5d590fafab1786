------------------------------ MODULE MCLidarr ------------------------------
(* Small instances of Lidarr for TLC. *)
EXTENDS Lidarr, TLC

Symmetry == Permutations(Tracks)

AnyRoot == SUBSET Tracks
=============================================================================
