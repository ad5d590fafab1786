--------------------------- MODULE CustomPlaylists ---------------------------
(* The playlists users import by URL (web/backend/playlist) and the users who *)
(* own them (web/backend/users): requests of the web server, its refresh jobs *)
(* and its background downloads, all rewriting custom-playlists.json, and the *)
(* `explo` process that marks a playlist's artwork as uploaded.               *)
(*                                                                            *)
(* The steps of an update of custom-playlists.json are kept apart.  users.json*)
(* and .env are rewritten under mutexes of their own and replaced by rename,  *)
(* so an update of either is one step here; of a user only the place in       *)
(* users.json is kept, of the .env keys only a playlist's FLAGS, which the    *)
(* settings requests rewrite too.                                             *)
EXTENDS SequencesExt

CONSTANTS Playlists,    \* IDs HandleImportCustomPlaylist may draw
          Users,        \* user IDs (users.Slug of a name)
          Actors,       \* request goroutines, refresh jobs and `explo` runs
          Uploaders,    \* the runs among them
          Processes,
          Proc,         \* Proc[a]: the process actor a runs in
          AtStart,      \* playlists on disk when the server starts
          FirstUsers,   \* users.json when the server starts
          Source,       \* Source[p]: the source ID in p's URL
          EnvKeys,
          EnvKey,       \* EnvKey[p]: CustomEnvPrefix of p's name
          NoUser, None

ASSUME ActorAssumption ==
    None \notin Actors /\ Uploaders \subseteq Actors /\ Proc \in [Actors -> Processes]
ASSUME PlaylistAssumption ==
    /\ AtStart \subseteq Playlists
    /\ EnvKey \in [Playlists -> EnvKeys]
    /\ \A e \in [owner : Users \cup {NoUser}, fetched : BOOLEAN, uploaded : BOOLEAN] : e # None
ASSUME UserAssumption == FirstUsers \in Seq(Users) /\ NoUser \notin Users

VARIABLES users,      \* users.json, in file order
          list,       \* custom-playlists.json
          mu,         \* who holds each process's customPlaylistsMu
          copy,       \* the list each actor loaded last
          job,        \* what each actor is doing
          step,       \* how far it is
          drawn,      \* IDs drawn so far
          cache,      \* IDs with a cache/<id>.json
          covers,     \* playlists whose covers a goroutine is downloading
          flags,      \* the <prefix>_FLAGS keys of .env
          byHand      \* history: keys a settings request wrote after the last import that did

vars == <<users, list, mu, copy, job, step, drawn, cache, covers, flags, byHand>>

Catalog == INSTANCE PlaylistCatalog WITH catalog <- list

Owners == Users \cup {NoUser}
Lists == [Playlists -> Catalog!Entry \cup {None}]
Listed(p) == list[p] # None

Jobs == [op : {"import", "assign"}, id : Playlists, user : Owners]
          \cup [op : {"refresh", "delete", "mark"}, id : Playlists]
          \cup [op : {"deleteUser"}, user : Users, heir : Owners]

FirstOf(s) == IF s = <<>> THEN NoUser ELSE Head(s)

Init ==
    /\ users = FirstUsers
    /\ list = [p \in Playlists |->
                  IF p \in AtStart THEN Catalog!Imported(FirstOf(FirstUsers)) ELSE None]
    /\ mu = [q \in Processes |-> None]
    /\ copy = [a \in Actors |-> list]
    /\ job = [a \in Actors |-> None]
    /\ step = [a \in Actors |-> "idle"]
    /\ drawn = AtStart
    /\ cache = AtStart
    /\ covers = {}
    /\ flags \in [EnvKeys -> AtStart \cup {None}]
    /\ byHand = {}
    /\ \A x \in EnvKeys : flags[x] = None <=> \A p \in AtStart : EnvKey[p] # x
    /\ \A x \in EnvKeys : flags[x] # None => EnvKey[flags[x]] = x

Begin(a, j, s) ==
    /\ step[a] = "idle"
    /\ job' = [job EXCEPT ![a] = j]
    /\ step' = [step EXCEPT ![a] = s]

Advance(a, s) == step' = [step EXCEPT ![a] = s]

-----------------------------------------------------------------------------
(* updateCustomPlaylists *)

\* What a job's update function makes of the list it is given.
Edited(j, l) ==
    CASE j.op = "import" -> Catalog!WithImport(l, j.id, j.user)
      [] j.op = "delete" -> Catalog!Without(l, j.id)
      [] j.op = "assign" -> Catalog!WithOwner(l, j.id, j.user)
      [] j.op = "refresh" -> Catalog!WithFetch(l, j.id)
      [] j.op = "mark" -> Catalog!WithUpload(l, j.id)
      [] j.op = "deleteUser" -> Catalog!PassedOn(l, j.user, j.heir)

\* It returns errPlaylistNotFound and nothing is saved.
NotFound(j, l) == j.op \in {"delete", "assign"} /\ l[j.id] = None

\* Broken variant: an import is over once it is saved.
Onward_NoFlags(j) == IF j.op = "delete" THEN "uncache" ELSE "done"

Onward(j) == CASE j.op = "delete" -> "uncache" [] j.op = "import" -> "flag" [] OTHER -> "done"

\* What loading the file may return: one that cannot be read or parsed is taken
\* for an empty list.
Unread == [p \in Playlists |-> None]
Read == {list, Unread}

\* Broken variant: the mutex is taken for the save only.
Load_Unlocked(a) ==
    /\ step[a] = "update"
    /\ mu' = [mu EXCEPT ![Proc[a]] = a]
    /\ \E l \in Read : copy' = [copy EXCEPT ![a] = l]
    /\ Advance(a, "save")
    /\ UNCHANGED <<users, list, job, drawn, cache, covers, flags, byHand>>

Load(a) ==
    /\ step[a] = "update"
    /\ mu[Proc[a]] = None
    /\ mu' = [mu EXCEPT ![Proc[a]] = a]
    /\ \E l \in Read : copy' = [copy EXCEPT ![a] = l]
    /\ Advance(a, "save")
    /\ UNCHANGED <<users, list, job, drawn, cache, covers, flags, byHand>>

Save(a) ==
    /\ step[a] = "save"
    /\ ~NotFound(job[a], copy[a])
    /\ list' = Edited(job[a], copy[a])
    /\ mu' = [mu EXCEPT ![Proc[a]] = None]
    /\ Advance(a, Onward(job[a]))
    /\ UNCHANGED <<users, copy, job, drawn, cache, covers, flags, byHand>>

\* There is nothing to save, or it cannot be saved.
SaveFails(a) ==
    /\ step[a] = "save"
    /\ mu' = [mu EXCEPT ![Proc[a]] = None]
    /\ Advance(a, "failed")
    /\ UNCHANGED <<users, list, copy, job, drawn, cache, covers, flags, byHand>>

-----------------------------------------------------------------------------
(* Import and refresh *)

\* loadCustomPlaylists waits for the mutex too.
Readable(a) == mu[Proc[a]] = None

Duplicate(l, p) == \E q \in Playlists : l[q] # None /\ Source[q] = Source[p]

Import(a, p, u) ==
    /\ p \notin drawn
    /\ IF users = <<>> THEN u = NoUser ELSE u \in Range(users)
    /\ Readable(a) /\ \E l \in Read : ~Duplicate(l, p)
    /\ Begin(a, [op |-> "import", id |-> p, user |-> u], "fetch")
    /\ drawn' = drawn \cup {p}
    /\ UNCHANGED <<users, list, mu, copy, cache, covers, flags, byHand>>

\* On request; or by the job registered for p when the server started, which
\* keeps running once p is deleted.
Refresh(a, p) ==
    /\ Readable(a)
    /\ Listed(p) \/ p \in AtStart
    /\ Begin(a, [op |-> "refresh", id |-> p], "fetch")
    /\ UNCHANGED <<users, list, mu, copy, drawn, cache, covers, flags, byHand>>

\* Broken variant: the cache is left to the goroutine that downloads the covers.
Fetched_Later(a) ==
    /\ step[a] = "fetch"
    /\ covers' = covers \cup {job[a].id}
    /\ Advance(a, "update")
    /\ UNCHANGED <<users, list, mu, copy, job, drawn, cache, flags, byHand>>

\* The preliminary cache is written, the covers are downloaded in the background.
Fetched(a) ==
    /\ step[a] = "fetch"
    /\ cache' = cache \cup {job[a].id}
    /\ covers' = covers \cup {job[a].id}
    /\ Advance(a, "update")
    /\ UNCHANGED <<users, list, mu, copy, job, drawn, flags, byHand>>

\* The source cannot be fetched or the cache not written.
FetchFails(a) ==
    /\ step[a] = "fetch"
    /\ Advance(a, "failed")
    /\ UNCHANGED <<users, list, mu, copy, job, drawn, cache, covers, flags, byHand>>

\* downloadAndCacheCovers rewrites the cache whatever became of the playlist.
CoversCached(p) ==
    /\ p \in covers
    /\ covers' = covers \ {p}
    /\ cache' = cache \cup {p}
    /\ UNCHANGED <<users, list, mu, copy, job, step, drawn, flags, byHand>>

SetFlags(a) ==
    /\ step[a] = "flag"
    /\ flags' = [flags EXCEPT ![EnvKey[job[a].id]] = job[a].id]
    /\ byHand' = byHand \ {EnvKey[job[a].id]}
    /\ Advance(a, "done")
    /\ UNCHANGED <<users, list, mu, copy, job, drawn, cache, covers>>

-----------------------------------------------------------------------------
(* Delete, reassign, mark *)

Delete(a, p) ==
    /\ Begin(a, [op |-> "delete", id |-> p], "update")
    /\ UNCHANGED <<users, list, mu, copy, drawn, cache, covers, flags, byHand>>

Uncache(a) ==
    /\ step[a] = "uncache"
    /\ cache' = cache \ {job[a].id}
    /\ Advance(a, "unflag")
    /\ UNCHANGED <<users, list, mu, copy, job, drawn, covers, flags, byHand>>

ClearFlags(a) ==
    /\ step[a] = "unflag"
    /\ flags' = [flags EXCEPT ![EnvKey[job[a].id]] = None]
    /\ Advance(a, "done")
    /\ UNCHANGED <<users, list, mu, copy, job, drawn, cache, covers, byHand>>

\* A settings request switches a playlist off or on, or resets or replaces .env.
SaveSchedule(x) ==
    /\ \E f \in {None} \cup {p \in Playlists : EnvKey[p] = x} : flags' = [flags EXCEPT ![x] = f]
    /\ byHand' = byHand \cup {x}
    /\ UNCHANGED <<users, list, mu, copy, job, step, drawn, cache, covers>>

\* UpdateEnvKeys fails; neither handler looks.
FlagsFail(a) ==
    /\ step[a] \in {"flag", "unflag"}
    /\ Advance(a, "failed")
    /\ UNCHANGED <<users, list, mu, copy, job, drawn, cache, covers, flags, byHand>>

Reassign(a, p, u) ==
    /\ u \in Range(users)
    /\ Begin(a, [op |-> "assign", id |-> p, user |-> u], "update")
    /\ UNCHANGED <<users, list, mu, copy, drawn, cache, covers, flags, byHand>>

\* uploadCustomPlaylistArtwork, once the music app has taken the artwork.
MarkUploaded(a, p) ==
    /\ Readable(a)
    /\ Listed(p) /\ ~list[p].uploaded
    /\ Begin(a, [op |-> "mark", id |-> p], "update")
    /\ UNCHANGED <<users, list, mu, copy, drawn, cache, covers, flags, byHand>>

-----------------------------------------------------------------------------
(* Users *)

CreateUser(u) ==
    /\ u \notin Range(users)
    /\ users' = Append(users, u)
    /\ UNCHANGED <<list, mu, copy, job, step, drawn, cache, covers, flags, byHand>>

\* OnUserDeleted runs after the record is gone, with the users left then.
DeleteUser(a, u) ==
    /\ \E i \in DOMAIN users : users[i] = u /\ users' = RemoveAt(users, i)
    /\ Begin(a, [op |-> "deleteUser", user |-> u, heir |-> FirstOf(users')], "update")
    /\ UNCHANGED <<list, mu, copy, drawn, cache, covers, flags, byHand>>

-----------------------------------------------------------------------------

Requests(a) ==
    \/ \E p \in Playlists :
        \/ Refresh(a, p) \/ Delete(a, p)
        \/ \E u \in Owners : Import(a, p, u) \/ Reassign(a, p, u)
    \/ \E u \in Users : DeleteUser(a, u)

Works(a) ==
    \/ Load(a) \/ Save(a) \/ SaveFails(a) \/ Fetched(a) \/ FetchFails(a)
    \/ SetFlags(a) \/ Uncache(a) \/ ClearFlags(a) \/ FlagsFail(a)

Next ==
    \/ \E a \in Actors \ Uploaders : Requests(a)
    \/ \E a \in Uploaders, p \in Playlists : MarkUploaded(a, p)
    \/ \E a \in Actors : Works(a)
    \/ \E p \in Playlists : CoversCached(p)
    \/ \E u \in Users : CreateUser(u)
    \/ \E x \in EnvKeys : SaveSchedule(x)

Spec == Init /\ [][Next]_vars

-----------------------------------------------------------------------------
(* Properties *)

\* The files, the mutexes and the actors keep to their values.
TypeOK ==
    /\ users \in Seq(Users)
    /\ list \in Lists
    /\ mu \in [Processes -> Actors \cup {None}]
    /\ copy \in [Actors -> Lists]
    /\ job \in [Actors -> Jobs \cup {None}]
    /\ step \in [Actors -> {"idle", "fetch", "update", "save", "flag", "uncache", "unflag",
                            "done", "failed"}]
    /\ drawn \subseteq Playlists /\ cache \subseteq Playlists /\ covers \subseteq Playlists
    /\ flags \in [EnvKeys -> Playlists \cup {None}] /\ byHand \subseteq EnvKeys

\* customPlaylistsMu "serializes every load-modify-save" (custom_playlists.go:97):
\* every save is one edit of the list the save before left, or of an empty one
\* when the load failed, and of no older list; no writer drops another's change
\* or brings a deleted playlist back.
UpdatesAreWhole == Catalog!Spec

\* A playlist is only shown once its tracks are cached, and its cache is only
\* removed once it is no longer shown: import and delete order their steps so.
ListedHasCache == \A p \in Playlists : Listed(p) => p \in cache

Activated(a) == step[a] = "done" /\ job[a].op = "import" /\ Listed(job[a].id)
Active(p) == flags[EnvKey[p]] = p
Shared(p) == \E q \in drawn \ {p} : EnvKey[q] = EnvKey[p]

\* "Mark the playlist as active by writing FLAGS", "so the card is usable for
\* manual runs" (handlers.go:177-180), for a name no other import had: after an
\* import the FLAGS select the new playlist while it is listed, until a settings
\* request changes them.  The steps of import and delete, in whatever order they
\* come, never touch another name's keys.
OwnNameIsActive ==
    \A a \in Actors :
        Activated(a) => Active(job[a].id) \/ Shared(job[a].id) \/ EnvKey[job[a].id] \in byHand

\* Whoever holds a mutex is between its load and its save, and what it loaded is
\* still what the file holds, unless it could not be read: no path returns with
\* the mutex held, which would stop every later request.
LockedMeansUpdating ==
    \A q \in Processes :
        mu[q] # None => /\ step[mu[q]] = "save" /\ Proc[mu[q]] = q
                        /\ copy[mu[q]] \in Read
=============================================================================
