---------------------------- MODULE PlaylistRuns ----------------------------
(* What a scheduled run does to the playlists of a music server: main.go's    *)
(* steps, once per user (all_users.go), through client.go and its systems.    *)
(* Runs of one job exclude each other (explo-run.sh).                         *)
(*                                                                            *)
(* On Plex every user has an account, which runs work in when there is an     *)
(* admin client to switch with; the other systems serve one user.  A title is *)
(* the name of the job's playlist, alone (Bare) or after a user's name        *)
(* (ShareTitle).  Other people have playlists too, some with the job's name;  *)
(* those a server does not show to a run are left out.  So are covers, caches *)
(* and descriptions; how a download ends is chosen freely here (SharedRelease,*)
(* DownloadMonitor and MoveFile have its inside).                             *)
EXTENDS Integers, FiniteSets

CONSTANTS Jobs,       \* the runs, one after the other
          Users,      \* enabled users, with a ListenBrainz token
          Single,     \* the user served by a system without accounts
          Owner,      \* the account of the instance's own Plex token
          ShareWith,  \* ShareWith[u]: whom u shares with, as ApplyUser resolves it
          Tracks,
          Native,     \* tracks of the library that Explo did not download
          Configs,
          MaxSlips,   \* bound on slips
          NoOne, NoID, Bare

Systems == {"plex", "jellyfin", "emby", "subsonic", "mpd"}
Modes == {"normal", "skip", "force"}

ASSUME ConfigAssumption ==
    Configs \subseteq [system : Systems, admin : BOOLEAN, mode : Modes, replace : BOOLEAN,
                       excludeLocal : BOOLEAN, clean : BOOLEAN]
ASSUME UserAssumption ==
    /\ Single \in Users /\ Owner \notin Users /\ NoOne \notin Users /\ Bare \notin Users
    /\ ShareWith \in [Users -> SUBSET Users] /\ \A u \in Users : u \notin ShareWith[u]
ASSUME TrackAssumption == Native \subseteq Tracks /\ NoID \notin Nat /\ MaxSlips \in Nat

VARIABLES cfg,      \* the job's flags, the instance's system, is there a Plex admin client
          disk,     \* files in the library's folders
          library,  \* what the music system has indexed
          server,   \* its playlists
          fresh,    \* the next playlist ID it gives
          slips,    \* failures and playlists made by hand, which may leave a duplicate
          at,       \* where each run is
          todo,     \* users it has yet to run for
          user,     \* the one it runs for
          tracks,   \* that child's track list
          id,       \* its PlaylistID
          sharing,  \* recipients it has yet to serve
          copy      \* the recipient it serves, the new copy and the old one

run == <<todo, user, tracks, id, sharing, copy>>
vars == <<cfg, disk, library, server, fresh, slips, at, run>>

Accounts == Users \cup {Owner}
Playlist == [id : Nat, account : Accounts, title : Users \cup {Bare}, songs : SUBSET Tracks]
TrackList == [listed : SUBSET Tracks,   \* in the list
              present : SUBSET Tracks,  \* Present
              matched : SUBSET Tracks,  \* ID is a song of the server
              named : SUBSET Tracks]    \* File and ID come from a downloader
NoTracks == [listed |-> {}, present |-> {}, matched |-> {}, named |-> {}]
NoCopy == [to |-> NoOne, new |-> NoID, old |-> NoID]

\* The account whose token a run's playlist requests carry.
Account(j) == IF cfg.system = "plex" /\ ~cfg.admin THEN Owner ELSE user[j]

\* What a request of an account finds under a title.  Plex lists the account's
\* playlists; the others search with the instance's key, which is nobody's, list
\* what others made public, or look into one directory.
Named(a, t) == {p \in server : p.title = t /\ (cfg.system = "plex" => p.account = a)}

Init ==
    /\ cfg \in Configs
    /\ disk = Native /\ library = Native
    /\ server \in SUBSET {[id |-> 0, account |-> Owner, title |-> Bare, songs |-> Tracks]}
    /\ fresh = 1
    /\ slips = 0
    /\ at = [j \in Jobs |-> "idle"]
    /\ todo = [j \in Jobs |-> {}]
    /\ user = [j \in Jobs |-> NoOne]
    /\ tracks = [j \in Jobs |-> NoTracks]
    /\ id = [j \in Jobs |-> NoID]
    /\ sharing = [j \in Jobs |-> {}]
    /\ copy = [j \in Jobs |-> NoCopy]

Goto(j, s) == at' = [at EXCEPT ![j] = s]
Slip == slips < MaxSlips /\ slips' = slips + 1

-----------------------------------------------------------------------------
(* The order of main's steps *)

After(s) ==
    LET replacing == IF cfg.replace THEN "find" ELSE "refresh"
    IN CASE s = "setup" -> IF cfg.mode = "force" THEN "download" ELSE "check"
         [] s = "check" -> IF cfg.mode = "skip" THEN replacing ELSE "download"
         [] s = "download" -> replacing
         [] s = "delete" -> "refresh"

-----------------------------------------------------------------------------
(* One run after the other, one child per user *)

\* The users of the job; an imported playlist's job runs for its owner alone.
Served == IF cfg.system = "plex" THEN Users ELSE {Single}

\* The job's lock is free.
Start(j) ==
    /\ at[j] = "idle" /\ \A k \in Jobs : at[k] \in {"idle", "over"}
    /\ todo' = [todo EXCEPT ![j] = Served]
    /\ Goto(j, "next")
    /\ UNCHANGED <<cfg, disk, library, server, fresh, slips, user, tracks, id, sharing, copy>>

NextUser(j, u) ==
    /\ at[j] = "next" /\ u \in todo[j]
    /\ todo' = [todo EXCEPT ![j] = @ \ {u}]
    /\ user' = [user EXCEPT ![j] = u]
    /\ sharing' = [sharing EXCEPT ![j] = ShareWith[u]]
    /\ Goto(j, "discover")
    /\ UNCHANGED <<cfg, disk, library, server, fresh, slips, tracks, id, copy>>

\* A child's memory goes with it.
Forget(j) ==
    /\ user' = [user EXCEPT ![j] = NoOne]
    /\ tracks' = [tracks EXCEPT ![j] = NoTracks]
    /\ id' = [id EXCEPT ![j] = NoID]
    /\ sharing' = [sharing EXCEPT ![j] = {}]
    /\ copy' = [copy EXCEPT ![j] = NoCopy]

\* That a child failed does not stop the others.
ChildEnds(j) ==
    /\ at[j] \in {"exit", "done"}
    /\ Forget(j)
    /\ Goto(j, "next")
    /\ UNCHANGED <<cfg, disk, library, server, fresh, slips, todo>>

Over(j) ==
    /\ at[j] = "next" /\ todo[j] = {}
    /\ Goto(j, "over")
    /\ UNCHANGED <<cfg, disk, library, server, fresh, slips, run>>

\* Stopped, timed out, or the container is.
Killed(j) ==
    /\ at[j] \notin {"idle", "over"}
    /\ Slip
    /\ Forget(j)
    /\ todo' = [todo EXCEPT ![j] = {}]
    /\ Goto(j, "over")
    /\ UNCHANGED <<cfg, disk, library, server, fresh>>

-----------------------------------------------------------------------------
(* Tracks *)

\* The user, the discovery, the albums-only filter, the music system or a
\* download service fails.
ExitsEarly(j) ==
    /\ at[j] \in {"discover", "setup"}
    /\ Goto(j, "exit")
    /\ UNCHANGED <<cfg, disk, library, server, fresh, slips, run>>

Discover(j) ==
    /\ at[j] = "discover"
    /\ \E found \in SUBSET Tracks : tracks' = [tracks EXCEPT ![j].listed = found]
    /\ Goto(j, "setup")
    /\ UNCHANGED <<cfg, disk, library, server, fresh, slips, todo, user, id, sharing, copy>>

\* NewClient, NewDownloader and DeleteSongs.
Setup(j) ==
    /\ at[j] = "setup"
    /\ disk' = IF cfg.clean THEN Native ELSE disk
    /\ Goto(j, After("setup"))
    /\ UNCHANGED <<cfg, library, server, fresh, slips, run>>

Searchable(l) == l.listed \cap IF cfg.system = "mpd" THEN l.named \cap disk ELSE library

\* SearchSongs finds any of them, or stops at an error.
SearchSongs(j) ==
    \E hits \in SUBSET Searchable(tracks[j]) :
        tracks' = [tracks EXCEPT ![j].present = @ \cup hits, ![j].matched = @ \cup hits]

CheckTracks(j) ==
    /\ at[j] = "check"
    /\ SearchSongs(j)
    /\ Goto(j, After("check"))
    /\ UNCHANGED <<cfg, disk, library, server, fresh, slips, todo, user, id, sharing, copy>>

\* filterLocalTracks before and after a download.
Unavailable(l) == [l EXCEPT !.listed = @ \ l.present]

\* Broken variant: Present is not given back to the music system.
Available_StillPresent(l) == [l EXCEPT !.listed = @ \cap l.present]

Available(l) == [l EXCEPT !.listed = @ \cap l.present, !.present = {}]

Wanted(l) == IF cfg.excludeLocal THEN Unavailable(l) ELSE l

\* main exits when StartDownload leaves it no tracks.
Continue(j, l) ==
    /\ tracks' = [tracks EXCEPT ![j] = l]
    /\ Goto(j, IF l.listed = {} THEN "exit" ELSE After("download"))

StartDownload(j) ==
    /\ at[j] = "download"
    /\ LET l == Wanted(tracks[j])
       IN \E got \in SUBSET (l.listed \ l.present) :
            /\ disk' = disk \cup got
            /\ Continue(j, Available([l EXCEPT !.present = @ \cup got, !.named = @ \cup got]))
    /\ UNCHANGED <<cfg, library, server, fresh, slips, todo, user, id, sharing, copy>>

\* There is no download directory and none can be made.
DownloadReturns(j) ==
    /\ at[j] = "download"
    /\ Continue(j, Wanted(tracks[j]))
    /\ UNCHANGED <<cfg, disk, library, server, fresh, slips, todo, user, id, sharing, copy>>

\* The music system scans its folders, when asked to or by itself.
Scan(t) ==
    /\ t \in disk <=> t \notin library
    /\ library' = IF t \in disk THEN library \cup {t} ELSE library \ {t}
    /\ UNCHANGED <<cfg, disk, server, fresh, slips, at, run>>

\* Somebody makes a playlist that has the job's name, in whichever account.
MadeByHand(a) ==
    /\ cfg.system # "mpd"
    /\ Slip
    /\ server' = server \cup {[id |-> fresh, account |-> a, title |-> Bare, songs |-> Tracks]}
    /\ fresh' = fresh + 1
    /\ UNCHANGED <<cfg, disk, library, at, run>>

-----------------------------------------------------------------------------
(* Deleting the old playlist *)

Remember(j, p) == id' = [id EXCEPT ![j] = p]

\* Broken variant: when the user cannot be switched to, the instance's token is
\* used.
FindPlaylist_Fallback(j) ==
    /\ at[j] = "find"
    /\ \E a \in {Account(j), Owner} :
        IF Named(a, Bare) = {} THEN Goto(j, "refresh") /\ UNCHANGED id
        ELSE Goto(j, "delete") /\ \E p \in Named(a, Bare) : Remember(j, p.id)
    /\ UNCHANGED <<cfg, disk, library, server, fresh, slips, todo, user, tracks, sharing, copy>>

\* SearchPlaylist takes the first of that very name; finding none is an error
\* with some systems, which main only logs.
FindPlaylist(j) ==
    /\ at[j] = "find"
    /\ IF Named(Account(j), Bare) = {} THEN Goto(j, "refresh") /\ UNCHANGED id
       ELSE Goto(j, "delete") /\ \E p \in Named(Account(j), Bare) : Remember(j, p.id)
    /\ UNCHANGED <<cfg, disk, library, server, fresh, slips, todo, user, tracks, sharing, copy>>

FindFails(j) ==
    /\ at[j] = "find"
    /\ Slip
    /\ Goto(j, "refresh")
    /\ UNCHANGED <<cfg, disk, library, server, fresh, run>>

\* Broken variant: Emby's used to do nothing and say it did.
DeletePlaylist_NoOp(j) ==
    /\ at[j] = "delete"
    /\ Goto(j, After("delete"))
    /\ UNCHANGED <<cfg, disk, library, server, fresh, slips, run>>

DeletePlaylist(j) ==
    /\ at[j] = "delete"
    /\ server' = {p \in server : p.id # id[j]}
    /\ Goto(j, After("delete"))
    /\ UNCHANGED <<cfg, disk, library, fresh, slips, todo, user, tracks, id, sharing, copy>>

\* Or the server refuses it, as one that is somebody else's.
DeleteFails(j) ==
    /\ at[j] = "delete"
    /\ Slip
    /\ Goto(j, After("delete"))
    /\ UNCHANGED <<cfg, disk, library, server, fresh, run>>

-----------------------------------------------------------------------------
(* Creating the new one *)

RefreshLibrary(j) ==
    /\ at[j] = "refresh"
    /\ Goto(j, "match")
    /\ UNCHANGED <<cfg, disk, library, server, fresh, slips, run>>

MatchTracks(j) ==
    /\ at[j] = "match"
    /\ SearchSongs(j)
    /\ Goto(j, "create")
    /\ UNCHANGED <<cfg, disk, library, server, fresh, slips, todo, user, id, sharing, copy>>

\* The IDs formatJFSongs, formatEmbySongs and subsonicSongIDs put in the request.
Sent(l) == l.listed \cap l.present

\* Of which the server takes only its own.
Accepted(l) == cfg.system = "mpd" \/ Sent(l) \subseteq l.matched

New(a, t, s) == [id |-> fresh, account |-> a, title |-> t, songs |-> s]

\* One request with all songs; MPD truncates its file.
CreateWhole(j) ==
    /\ at[j] = "create" /\ cfg.system # "plex"
    /\ Accepted(tracks[j])
    /\ LET kept == IF cfg.system = "mpd" THEN server \ Named(Account(j), Bare) ELSE server
       IN server' = kept \cup {New(Account(j), Bare, Sent(tracks[j]))}
    /\ fresh' = fresh + 1
    /\ Remember(j, fresh)
    /\ Goto(j, "describe")
    /\ UNCHANGED <<cfg, disk, library, slips, todo, user, tracks, sharing, copy>>

\* Plex gets an empty playlist first.
CreateEmpty(j) ==
    /\ at[j] = "create" /\ cfg.system = "plex" /\ tracks[j].listed # {}
    /\ server' = server \cup {New(Account(j), Bare, {})}
    /\ fresh' = fresh + 1
    /\ Remember(j, fresh)
    /\ Goto(j, "fill")
    /\ UNCHANGED <<cfg, disk, library, slips, todo, user, tracks, sharing, copy>>

\* Every track with an ID is then added by a request of its own.
Addable(l) == l.listed \cap (l.matched \cup l.named)

Filled(p, s) == {IF q.id = p THEN [q EXCEPT !.songs = s] ELSE q : q \in server}

AddTracks(j) ==
    /\ at[j] = "fill"
    /\ \E added \in SUBSET (Addable(tracks[j]) \cap tracks[j].matched) :
        server' = Filled(id[j], added)
    /\ Goto(j, "describe")
    /\ UNCHANGED <<cfg, disk, library, fresh, slips, run>>

UpdatePlaylist(j) ==
    /\ at[j] = "describe"
    /\ Goto(j, "share")
    /\ UNCHANGED <<cfg, disk, library, server, fresh, slips, run>>

\* The refresh, the switch to the user or a request fails: main logs it and ends.
CreateFails(j) ==
    /\ at[j] \in {"refresh", "create", "describe"}
    /\ Goto(j, "done")
    /\ UNCHANGED <<cfg, disk, library, server, fresh, slips, run>>

\* The server created it and the answer was lost.
CreateUnanswered(j) ==
    /\ at[j] = "create" /\ cfg.system # "mpd"
    /\ tracks[j].listed # {} /\ Accepted(tracks[j])
    /\ server' = server \cup {New(Account(j), Bare, IF cfg.system = "plex" THEN {} ELSE Sent(tracks[j]))}
    /\ fresh' = fresh + 1
    /\ Goto(j, "done")
    /\ UNCHANGED <<cfg, disk, library, slips, run>>

-----------------------------------------------------------------------------
(* Sharing it: on Plex, with an admin client *)

Shareable(j) == cfg.system = "plex" /\ cfg.admin /\ Addable(tracks[j]) # {}

Serve(j, r, old) ==
    /\ sharing' = [sharing EXCEPT ![j] = @ \ {r}]
    /\ copy' = [copy EXCEPT ![j] = [to |-> r, new |-> NoID, old |-> old]]

\* The recipient's copy, if it has one, is found first.
ShareWithUser(j, r) ==
    /\ at[j] = "share" /\ Shareable(j) /\ r \in sharing[j]
    /\ IF Named(r, user[j]) = {} THEN Serve(j, r, NoID)
       ELSE \E p \in Named(r, user[j]) : Serve(j, r, p.id)
    /\ Goto(j, "copy")
    /\ UNCHANGED <<cfg, disk, library, server, fresh, slips, todo, user, tracks, id>>

\* The recipient cannot be switched to or its playlists not listed.
ShareFails(j, r) ==
    /\ at[j] = "share" /\ Shareable(j) /\ r \in sharing[j]
    /\ sharing' = [sharing EXCEPT ![j] = @ \ {r}]
    /\ UNCHANGED <<cfg, disk, library, server, fresh, slips, at, todo, user, tracks, id, copy>>

SharingEnds(j) ==
    /\ at[j] = "share"
    /\ sharing[j] = {} \/ ~Shareable(j)
    /\ Goto(j, "done")
    /\ UNCHANGED <<cfg, disk, library, server, fresh, slips, run>>

CreateCopy(j) ==
    /\ at[j] = "copy"
    /\ server' = server \cup {New(copy[j].to, user[j], {})}
    /\ fresh' = fresh + 1
    /\ copy' = [copy EXCEPT ![j].new = fresh]
    /\ Goto(j, "copyFill")
    /\ UNCHANGED <<cfg, disk, library, slips, todo, user, tracks, id, sharing>>

CopyFails(j) ==
    /\ at[j] = "copy"
    /\ Goto(j, "share")
    /\ UNCHANGED <<cfg, disk, library, server, fresh, slips, run>>

CopyUnanswered(j) ==
    /\ at[j] = "copy"
    /\ Slip
    /\ server' = server \cup {New(copy[j].to, user[j], {})}
    /\ fresh' = fresh + 1
    /\ Goto(j, "share")
    /\ UNCHANGED <<cfg, disk, library, run>>

\* Broken variant: the old copy goes although the new one stayed empty.
FillCopy_Unchecked(j) ==
    /\ at[j] = "copyFill"
    /\ \E added \in SUBSET (Addable(tracks[j]) \cap tracks[j].matched) :
        server' = Filled(copy[j].new, added)
    /\ Goto(j, IF copy[j].old = NoID THEN "share" ELSE "copyDelete")
    /\ UNCHANGED <<cfg, disk, library, fresh, slips, run>>

FillCopy(j) ==
    /\ at[j] = "copyFill"
    /\ \E added \in SUBSET (Addable(tracks[j]) \cap tracks[j].matched) :
        /\ added # {}
        /\ server' = Filled(copy[j].new, added)
    /\ Goto(j, IF copy[j].old = NoID THEN "share" ELSE "copyDelete")
    /\ UNCHANGED <<cfg, disk, library, fresh, slips, run>>

\* Nothing could be added: the new copy stays empty and the old one is kept.
FillFails(j) ==
    /\ at[j] = "copyFill"
    /\ Slip
    /\ Goto(j, "share")
    /\ UNCHANGED <<cfg, disk, library, server, fresh, run>>

DeleteCopy(j) ==
    /\ at[j] = "copyDelete"
    /\ server' = {p \in server : p.id # copy[j].old}
    /\ Goto(j, "share")
    /\ UNCHANGED <<cfg, disk, library, fresh, slips, run>>

DeleteCopyFails(j) ==
    /\ at[j] = "copyDelete"
    /\ Slip
    /\ Goto(j, "share")
    /\ UNCHANGED <<cfg, disk, library, server, fresh, run>>

-----------------------------------------------------------------------------

Runs(j) ==
    \/ Start(j) \/ ChildEnds(j) \/ Over(j) \/ Killed(j)
    \/ \E u \in Users : NextUser(j, u)
Prepares(j) ==
    \/ ExitsEarly(j) \/ Discover(j) \/ Setup(j) \/ CheckTracks(j)
    \/ StartDownload(j) \/ DownloadReturns(j)
Replaces(j) ==
    \/ FindPlaylist(j) \/ FindFails(j) \/ DeletePlaylist(j) \/ DeleteFails(j)
    \/ RefreshLibrary(j) \/ MatchTracks(j) \/ CreateWhole(j) \/ CreateEmpty(j)
    \/ AddTracks(j) \/ UpdatePlaylist(j) \/ CreateFails(j) \/ CreateUnanswered(j)
Shares(j) ==
    \/ \E r \in Users : ShareWithUser(j, r) \/ ShareFails(j, r)
    \/ SharingEnds(j) \/ CreateCopy(j) \/ CopyFails(j) \/ CopyUnanswered(j)
    \/ FillCopy(j) \/ FillFails(j) \/ DeleteCopy(j) \/ DeleteCopyFails(j)

Next ==
    \/ \E j \in Jobs : Runs(j) \/ Prepares(j) \/ Replaces(j) \/ Shares(j)
    \/ \E t \in Tracks : Scan(t)
    \/ \E a \in Accounts : MadeByHand(a)

Spec == Init /\ [][Next]_vars

-----------------------------------------------------------------------------
(* Properties *)

\* The values of the server's playlists, the files and the children's memories.
TypeOK ==
    /\ cfg \in Configs
    /\ disk \subseteq Tracks /\ library \subseteq Tracks
    /\ server \subseteq Playlist /\ fresh \in Nat /\ slips \in 0..MaxSlips
    /\ at \in [Jobs -> {"idle", "next", "discover", "setup", "check", "download", "find",
                        "delete", "refresh", "match", "create", "fill", "describe", "share",
                        "copy", "copyFill", "copyDelete", "done", "exit", "over"}]
    /\ todo \in [Jobs -> SUBSET Users] /\ user \in [Jobs -> Users \cup {NoOne}]
    /\ tracks \in [Jobs -> TrackList] /\ id \in [Jobs -> Nat \cup {NoID}]
    /\ sharing \in [Jobs -> SUBSET Users]
    /\ copy \in [Jobs -> [to : Users \cup {NoOne}, new : Nat \cup {NoID}, old : Nat \cup {NoID}]]

\* A run removes nothing but playlists that have the job's name, those of "a
\* different person, whose playlists a delete would then hit" (plex.go:290) never
\* where it can switch to its user; or the copy it has renewed for a recipient.
OthersKeepTheirPlaylists ==
    [][\A p \in server : (\A q \in server' : q.id # p.id) =>
           \E j \in Jobs :
               \/ /\ at[j] \in {"delete", "create"} /\ p.title = Bare
                  /\ cfg.system = "plex" => p.account = IF cfg.admin THEN user[j] ELSE Owner
               \/ at[j] = "copyDelete" /\ p.account = copy[j].to /\ p.title = user[j]]_vars

\* A song list names songs of the server only; one ID it does not know makes it
\* reject "the whole playlist creation" (subsonic.go:240).  Downloads leave IDs of
\* their own in the tracks, and Present until it is reset.
OnlyServerIDs ==
    \A j \in Jobs : at[j] = "create" /\ cfg.system \notin {"plex", "mpd"}
                    => Sent(tracks[j]) \subseteq tracks[j].matched

\* A recipient that has a copy with songs never goes without one: the previous
\* copy "is deleted only after the new copy has at least one track" (plex.go:799).
CopiesAreKept ==
    [][\A r, u \in Users : (\E p \in Named(r, u) : p.songs # {})
                           => \E p \in Named(r, u)' : p.songs # {}]_vars

\* Runs replace playlists and copies, they do not pile up: a second one that a
\* request finds under a name takes a failure to leave it there, or a hand to
\* make it, once no copy is being renewed.
DuplicatesNeedFailures ==
    \A a \in Accounts :
        /\ cfg.replace => Cardinality(Named(a, Bare)) <= 1 + slips
        /\ (\A j \in Jobs : at[j] \notin {"copyFill", "copyDelete"})
           => \A u \in Users : Cardinality(Named(a, u)) <= 1 + slips
=============================================================================
