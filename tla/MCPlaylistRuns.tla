--------------------------- MODULE MCPlaylistRuns ---------------------------
(* Instances of PlaylistRuns for TLC. *)
EXTENDS PlaylistRuns, TLC

CONSTANTS u1, u2, j1, j2, t1, t2

Symmetry == Permutations(Jobs)

BothShare == (u1 :> {u2}) @@ (u2 :> {u1})

\* The combinations of flags that differ, one at a time; Emby and Subsonic go
\* the same ways as Jellyfin, and Plex has the same ways with tracks, and the
\* same modes, as the others.
EveryConfig ==
    {c \in [system : {"plex", "jellyfin", "mpd"}, admin : BOOLEAN, mode : Modes, replace : BOOLEAN,
            excludeLocal : BOOLEAN, clean : BOOLEAN] :
        /\ c.mode # "normal" => c.replace /\ ~c.excludeLocal /\ ~c.clean
        /\ c.excludeLocal \/ c.clean => c.system # "plex" /\ ~(c.excludeLocal /\ c.clean)
        /\ c.admin => c.system = "plex"
        /\ c.system = "plex" => c.mode = "normal"}

\* The owner's playlist is there from the start where a run may find it: one that
\* can switch accounts never looks at it.
MCInit == Init /\ (cfg.admin => server = {})
MCSpec == MCInit /\ [][Next]_vars
=============================================================================
