--------------------------- MODULE PlaylistCatalog ---------------------------
(* What the server promises of its imported playlists: a catalog that changes *)
(* one whole edit at a time, whoever edits it, of what is there or, where that *)
(* cannot be read, of nothing.  CustomPlaylists implements it by rewriting    *)
(* custom-playlists.json under a mutex.                                       *)
CONSTANTS Playlists,  \* playlist IDs, as HandleImportCustomPlaylist draws them
          Users,      \* user IDs
          NoUser,     \* the empty user_id
          None        \* an ID that is not in the catalog

VARIABLE catalog

Owners == Users \cup {NoUser}
Entry == [owner : Owners, fetched : BOOLEAN, uploaded : BOOLEAN]

Imported(u) == [owner |-> u, fetched |-> FALSE, uploaded |-> FALSE]

(* The edits, as functions of the catalog they find. *)
WithImport(c, p, u) == [c EXCEPT ![p] = Imported(u)]
Without(c, p) == [c EXCEPT ![p] = None]
WithOwner(c, p, u) == IF c[p] = None THEN c ELSE [c EXCEPT ![p].owner = u]
WithFetch(c, p) == IF c[p] = None THEN c ELSE [c EXCEPT ![p].fetched = TRUE]
WithUpload(c, p) == IF c[p] = None THEN c ELSE [c EXCEPT ![p].uploaded = TRUE]
PassedOn(c, u, heir) ==
    [p \in Playlists |-> IF c[p] # None /\ c[p].owner = u
                         THEN [c[p] EXCEPT !.owner = heir]
                         ELSE c[p]]

Init == catalog \in [Playlists -> Entry \cup {None}]

Empty == [p \in Playlists |-> None]

Import(c, p, u) == c[p] = None /\ catalog' = WithImport(c, p, u)
Remove(c, p) == catalog' = Without(c, p)
Assign(c, p, u) == catalog' = WithOwner(c, p, u)
Fetch(c, p) == catalog' = WithFetch(c, p)
Upload(c, p) == catalog' = WithUpload(c, p)
PassOn(c, u, heir) == catalog' = PassedOn(c, u, heir)

Edit(c) ==
    \/ \E p \in Playlists :
        \/ Remove(c, p) \/ Fetch(c, p) \/ Upload(c, p)
        \/ \E u \in Owners : Import(c, p, u) \/ Assign(c, p, u)
    \/ \E u \in Users, heir \in Owners : PassOn(c, u, heir)

\* An edit of a catalog that cannot be read is one of nothing.
Next == Edit(catalog) \/ Edit(Empty)

Spec == Init /\ [][Next]_catalog
=============================================================================
