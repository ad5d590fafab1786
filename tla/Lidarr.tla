------------------------------- MODULE Lidarr -------------------------------
(* One album in the hands of the Lidarr downloader: workers of StartDownload  *)
(* that each want a track of it (QueryTrack, GetTrack), the AlbumCache they   *)
(* share, and then the monitor's polls, moves and cancellations               *)
(* (GetDownloadStatus, MoveDownload, Cleanup).  Lidarr searches, downloads    *)
(* and imports at any moment in between; it is external.  What a monitor does *)
(* with a status is in DownloadMonitor; here its deadlines strike at any poll.*)
EXTENDS Integers, Sequences, FiniteSets

CONSTANTS Tracks,       \* the wanted tracks, all of one album
          Outsides,     \* which of them Lidarr may file outside Explo's root folder
          MigrateDL,
          MaxGrabs,     \* bound on the downloads Lidarr starts
          NoList        \* an entry's tracks before they are asked for

Lists == [known : SUBSET Tracks, filed : SUBSET Tracks]
NoTracks == [known |-> {}, filed |-> {}]

ASSUME LidarrAssumption ==
    /\ Outsides \subseteq SUBSET Tracks /\ MaxGrabs \in Nat /\ NoList \notin Lists
    /\ MigrateDL \in BOOLEAN

VARIABLES inLibrary, \* the album is in Lidarr's library
          outside,   \* tracks Lidarr files in another root folder than Explo's
          catalog,   \* tracks its release has under a title or ID that matches
          searched,  \* a search for it was asked for
          searches,  \* how its searches have ended
          download,  \* its item in Lidarr's queue
          grabs,     \* downloads started, which numbers the item
          hasFile,   \* tracks Lidarr has a file of
          imports,   \* tracks its history shows as imported; their files may be gone
          root,      \* tracks whose file is in Lidarr's folders
          library,   \* tracks whose file is in Explo's
          lists,     \* Tracks() of each AlbumMetadata made; the last is cached
          files,     \* its Files
          moved,     \* its Moved
          due,       \* history variable: its Files until it counts as moved
          pc, stage, \* where each track's worker is, and in which call
          holds,     \* the AlbumMetadata it has looked up
          named,     \* tracks with an ID
          placed,    \* tracks with an AlbumID
          verdict,   \* what has become of each track
          poll, left, \* where the monitor is, and the tracks left to look at
          record,    \* the queue item it saw
          status,    \* the statuses of its last poll
          misses     \* polls in a row that gave a track none

server == <<inLibrary, outside, catalog, searched, searches, download, grabs, hasFile, imports, root>>
cache == <<lists, files, moved, due>>
worker == <<pc, stage, holds>>
fields == <<named, placed, verdict>>
monitor == <<poll, left, record, status, misses>>
vars == <<server, library, cache, worker, fields, monitor>>

Cached == Len(lists) > 0
Present(t) == verdict[t] \in {"held", "arrived"}
WorkersDone == \A t \in Tracks : pc[t] = "done"

Init ==
    /\ inLibrary \in BOOLEAN /\ outside \in Outsides
    /\ catalog \in SUBSET Tracks
    /\ imports \in IF inLibrary THEN SUBSET catalog ELSE {{}}
    /\ hasFile \in SUBSET imports
    /\ root = hasFile
    /\ searched = FALSE /\ searches = {}
    /\ download = "none" /\ grabs = 0
    /\ library = {}
    /\ lists = <<>> /\ files = {} /\ moved = FALSE /\ due = {}
    /\ pc = [t \in Tracks |-> "start"]
    /\ stage = [t \in Tracks |-> "query"]
    /\ holds = [t \in Tracks |-> 0]
    /\ named = {} /\ placed = {}
    /\ verdict = [t \in Tracks |-> "none"]
    /\ poll = "missed" /\ left = {}
    /\ record = [state |-> "none", item |-> 0]
    /\ status = [t \in Tracks |-> "none"]
    /\ misses = [t \in Tracks |-> 0]

-----------------------------------------------------------------------------
(* Lidarr *)

SearchEnds ==
    /\ searched
    /\ \E how \in {"completed", "failed"} : searches' = searches \cup {how}
    /\ UNCHANGED <<download, grabs, hasFile, imports, root>>

Grab ==
    /\ searched /\ download = "none" /\ grabs < MaxGrabs
    /\ download' = "active" /\ grabs' = grabs + 1
    /\ UNCHANGED <<searches, hasFile, imports, root>>

DownloadEnds ==
    /\ download = "active"
    /\ download' \in {"complete", "failed"}
    /\ UNCHANGED <<searches, grabs, hasFile, imports, root>>

\* A download that is complete is imported file by file.
Import ==
    /\ download = "complete"
    /\ \E t \in catalog :
         /\ imports' = imports \cup {t}
         /\ hasFile' = hasFile \cup {t}
         /\ root' = root \cup {t}
    /\ download' = IF catalog \subseteq imports' THEN "none" ELSE download
    /\ UNCHANGED <<searches, grabs>>

Server == /\ SearchEnds \/ Grab \/ DownloadEnds \/ Import
          /\ UNCHANGED <<inLibrary, outside, catalog, searched, library, cache, worker, fields, monitor>>

-----------------------------------------------------------------------------
(* The workers *)

At(t, s, p) == pc[t] = p /\ stage[t] = s
Goto(t, p) == pc' = [pc EXCEPT ![t] = p] /\ UNCHANGED stage
Enter(t, s) == pc' = [pc EXCEPT ![t] = "start"] /\ stage' = [stage EXCEPT ![t] = s]

\* A new AlbumMetadata replaces the one there, with what it had learned.
cacheAlbum == lists' = Append(lists, NoList) /\ files' = {} /\ moved' = FALSE /\ due' = {}

\* Any call to Lidarr may fail, and the worker with it.
CallFails(t) ==
    /\ \/ At(t, "query", "start") /\ ~ Cached
       \/ pc[t] \in {"search", "add", "wait"}
    /\ Goto(t, "done")
    /\ UNCHANGED <<server, cache, holds, fields>>

\* populateFromCache: at the start of QueryTrack and GetTrack, and after the
\* album was added.
populateFromCache(t) ==
    /\ pc[t] = "start" /\ Cached
    /\ placed' = placed \cup {t}
    /\ Goto(t, "look")
    /\ UNCHANGED <<server, cache, holds, named, verdict>>

\* QueryTrack asks for the album by its release group.
QueryTrack(t) ==
    /\ At(t, "query", "start") /\ ~ Cached
    /\ IF inLibrary
       THEN placed' = placed \cup {t} /\ cacheAlbum /\ Goto(t, "look")
       ELSE Enter(t, "get") /\ UNCHANGED <<placed, cache>>
    /\ UNCHANGED <<server, holds, named, verdict>>

LookUp(t) ==
    /\ pc[t] = "look"
    /\ holds' = [holds EXCEPT ![t] = Len(lists)]
    /\ Goto(t, "find")
    /\ UNCHANGED <<server, cache, fields>>

\* getAlbumTracks: what Lidarr knows by now, or nothing once the retries fail.
\* The answer is kept for as long as the entry (sync.OnceValue).
Loaded(h) ==
    IF lists[h] # NoList THEN {lists[h]}
    ELSE {NoTracks} \cup (IF inLibrary THEN {[known |-> catalog, filed |-> hasFile]} ELSE {})

Identify(found, filed) ==
    /\ named' = named \cup found
    /\ verdict' = [t \in Tracks |-> IF t \in found \cap filed THEN "held" ELSE verdict[t]]
    /\ UNCHANGED placed

\* Tracks() of the entry looked up, which may no longer be the cached one.
findTrackID(t) ==
    /\ pc[t] = "find"
    /\ \E l \in Loaded(holds[t]) :
         LET found == {t} \cap l.known
             held == found \cap l.filed
         IN /\ lists' = [lists EXCEPT ![holds[t]] = l]
            /\ Identify(found, l.filed)
            /\ CASE stage[t] = "query" /\ found # {} /\ held = {} -> Enter(t, "get")
                 [] stage[t] = "get" /\ held = {} -> Goto(t, "search")
                 [] OTHER -> Goto(t, "done")
    /\ UNCHANGED <<server, files, moved, due, holds>>

GetTrack(t) ==
    /\ At(t, "get", "start") /\ ~ Cached
    /\ Goto(t, IF t \in placed THEN "search" ELSE "add")
    /\ UNCHANGED <<server, cache, holds, fields>>

triggerAlbumSearch(t) ==
    /\ pc[t] = "search"
    /\ searched' = TRUE
    /\ cacheAlbum
    /\ Goto(t, "wait")
    /\ UNCHANGED <<inLibrary, outside, catalog, searches, download, grabs, hasFile, imports, root, holds, fields>>

\* The answer to the POST may be lost after the album was added.
addNewAlbum(t) ==
    /\ pc[t] = "add" /\ ~ inLibrary
    /\ inLibrary' = TRUE /\ searched' = TRUE
    /\ \/ Goto(t, "accepted")
       \/ Goto(t, "done")
    /\ UNCHANGED <<outside, catalog, searches, download, grabs, hasFile, imports, root, cache, holds, fields>>

\* "got 409": another worker has added it, and has it in the cache or not yet.
AlreadyAdded(t) ==
    /\ pc[t] = "add" /\ inLibrary
    /\ IF Cached THEN Enter(t, "add") ELSE Goto(t, "done")
    /\ UNCHANGED <<server, cache, holds, fields>>

\* Broken variant: the album is cached once it has been searched for.
Accepted_NotCached(t) ==
    /\ pc[t] = "accepted"
    /\ placed' = placed \cup {t}
    /\ pc' = [pc EXCEPT ![t] = "wait"] /\ stage' = [stage EXCEPT ![t] = "add"]
    /\ UNCHANGED <<server, cache, holds, named, verdict>>

Accepted(t) ==
    /\ pc[t] = "accepted"
    /\ placed' = placed \cup {t}
    /\ cacheAlbum
    /\ pc' = [pc EXCEPT ![t] = "wait"] /\ stage' = [stage EXCEPT ![t] = "add"]
    /\ UNCHANGED <<server, holds, named, verdict>>

\* searchStatus looks at every search of the album, whoever asked for it; its
\* retries run out in CallFails.
searchStatus(t) ==
    /\ pc[t] = "wait"
    /\ \/ "completed" \in searches /\ Goto(t, IF stage[t] = "add" THEN "start" ELSE "done")
       \/ "failed" \in searches /\ Goto(t, "done")
    /\ UNCHANGED <<server, cache, holds, fields>>

Worker(t) ==
    /\ \/ CallFails(t) \/ populateFromCache(t) \/ QueryTrack(t) \/ LookUp(t) \/ findTrackID(t)
       \/ GetTrack(t) \/ triggerAlbumSearch(t) \/ addNewAlbum(t) \/ AlreadyAdded(t)
       \/ Accepted(t) \/ searchStatus(t)
    /\ UNCHANGED <<library, monitor>>

-----------------------------------------------------------------------------
(* The monitor: once per tick GetDownloadStatus, then each track in turn *)

Asked == {t \in named \cap placed : ~ Present(t)}
Watched == {t \in named : ~ Present(t) /\ verdict[t] # "skipped"}

\* Broken variant: the album is cached anew to look for the tracks without ID.
CheckMissed_Recached ==
    /\ WorkersDone /\ poll = "missed"
    /\ IF Cached THEN cacheAlbum ELSE UNCHANGED cache
    /\ poll' = "queue"
    /\ UNCHANGED <<left, record, status, misses, fields>>

\* "check the track cache for potentially missed tracks"
CheckMissed ==
    /\ WorkersDone /\ poll = "missed"
    /\ IF Cached /\ named # Tracks
       THEN \E l \in Loaded(Len(lists)) :
              /\ lists' = [lists EXCEPT ![Len(lists)] = l]
              /\ Identify(l.known \ named, l.filed)
       ELSE UNCHANGED <<lists, fields>>
    /\ poll' = "queue"
    /\ UNCHANGED <<files, moved, due, left, record, status, misses>>

\* A queue that cannot be read is only warned about.
PollQueue ==
    /\ poll = "queue"
    /\ record' \in {[state |-> download, item |-> grabs], [state |-> "none", item |-> 0]}
    /\ poll' = "history"
    /\ UNCHANGED <<left, status, misses, cache, fields>>

\* Neither is a history; what it shows as imported is a success, and the rest
\* of the album is as its queue item says.
PollHistory ==
    /\ poll = "history"
    /\ \E shown \in {imports, {}} :
         /\ files' = IF Cached /\ Asked # {} THEN files \cup shown ELSE files
         /\ due' = IF moved THEN due ELSE files'
         /\ status' = [t \in Tracks |-> IF t \notin Asked \/ ~ Cached THEN "none"
                                        ELSE IF t \in shown THEN "imported" ELSE record.state]
    /\ poll' = "tracks" /\ left' = Tracks
    /\ UNCHANGED <<lists, moved, record, misses, fields>>

Decide(t, v) == verdict' = [verdict EXCEPT ![t] = v] /\ UNCHANGED <<named, placed>>

Ignore(t) == t \notin Watched /\ UNCHANGED <<download, cache, fields, misses, root, library>>

NotInQueue(t) ==
    /\ t \in Watched /\ status[t] = "none"
    /\ misses' = [misses EXCEPT ![t] = @ + 1]
    /\ IF misses[t] + 1 >= 2 THEN Decide(t, "skipped") ELSE UNCHANGED fields
    /\ UNCHANGED <<download, cache, root, library>>

\* Cleanup of a track that has not arrived cancels the album's queue item, if
\* its status came from one.
Cleanup(t) ==
    \/ /\ status[t] # "imported" /\ record.item = grabs
       /\ download' = "none"
    \/ UNCHANGED download

Skip(t) == /\ Decide(t, "skipped")
           /\ Cleanup(t)
           /\ misses' = [misses EXCEPT ![t] = 0]

Complete(t) == t \in Watched /\ status[t] \in {"imported", "complete"}
Movable == files \ outside

\* MoveDownload: one track's arrival moves whatever the album has; the others
\* of the album then find it moved.
Arrives(t) ==
    /\ Complete(t)
    /\ IF MigrateDL /\ ~ moved
       THEN /\ files # {} /\ Movable \subseteq root
            /\ root' = root \ Movable /\ library' = library \cup Movable
            /\ moved' = TRUE
       ELSE UNCHANGED <<root, library, moved>>
    /\ Decide(t, "arrived")
    /\ misses' = [misses EXCEPT ![t] = 0]
    /\ UNCHANGED <<download, lists, files, due>>

\* Broken variant: an album whose move failed counts as moved.
MoveFails_MarkedMoved(t) ==
    /\ Complete(t) /\ MigrateDL /\ ~ moved
    /\ \E some \in SUBSET (Movable \cap root) :
         root' = root \ some /\ library' = library \cup some
    /\ Skip(t)
    /\ moved' = TRUE
    /\ UNCHANGED <<lists, files, due>>

\* Nothing recorded to move, or a move that fails after some of them.
MoveFails(t) ==
    /\ Complete(t) /\ MigrateDL /\ ~ moved
    /\ \E some \in SUBSET (Movable \cap root) :
         root' = root \ some /\ library' = library \cup some
    /\ Skip(t)
    /\ UNCHANGED cache

\* Lidarr's own words for a failure are none the monitor knows, so only a
\* deadline ends the wait.
StillWaiting(t) ==
    /\ t \in Watched /\ status[t] \in {"active", "failed"}
    /\ misses' = [misses EXCEPT ![t] = 0]
    /\ UNCHANGED <<download, cache, fields, root, library>>

GivenUp(t) ==
    /\ t \in Watched /\ status[t] \in {"active", "failed"}
    /\ Skip(t)
    /\ UNCHANGED <<cache, root, library>>

Visit(t) ==
    /\ poll = "tracks" /\ t \in left
    /\ left' = left \ {t}
    /\ Ignore(t) \/ NotInQueue(t) \/ Arrives(t) \/ MoveFails(t) \/ StillWaiting(t) \/ GivenUp(t)
    /\ UNCHANGED <<poll, record, status, inLibrary, outside, catalog, searched, searches, grabs, hasFile, imports, worker>>

\* The loop ends when every track it watches is decided.
EndOfTick ==
    /\ poll = "tracks" /\ left = {}
    /\ poll' = IF Watched = {} THEN "over" ELSE "missed"
    /\ UNCHANGED <<left, record, status, misses, cache, fields>>

Poll == /\ CheckMissed \/ PollQueue \/ PollHistory \/ EndOfTick
        /\ UNCHANGED <<server, library, worker>>

Next == Server \/ Poll \/ \E t \in Tracks : Worker(t) \/ Visit(t)

Spec == Init /\ [][Next]_vars

-----------------------------------------------------------------------------
(* Properties *)

Verdicts == {"none", "held", "arrived", "skipped"}
Items == {"none", "active", "failed", "complete"}

\* The values of Lidarr's answers, of the cache and of the tracks' fields.
TypeOK ==
    /\ inLibrary \in BOOLEAN /\ searched \in BOOLEAN /\ moved \in BOOLEAN
    /\ outside \subseteq Tracks /\ catalog \subseteq Tracks /\ hasFile \subseteq Tracks /\ imports \subseteq Tracks
    /\ root \subseteq Tracks /\ library \subseteq Tracks /\ files \subseteq Tracks
    /\ due \subseteq Tracks
    /\ searches \subseteq {"completed", "failed"}
    /\ download \in Items /\ grabs \in Nat
    /\ lists \in Seq(Lists \cup {NoList})
    /\ pc \in [Tracks -> {"start", "look", "find", "search", "add", "accepted", "wait", "done"}]
    /\ stage \in [Tracks -> {"query", "get", "add"}]
    /\ holds \in [Tracks -> 0..Len(lists)]
    /\ \A t \in Tracks : pc[t] = "find" => holds[t] > 0
    /\ named \subseteq Tracks /\ placed \subseteq Tracks
    /\ verdict \in [Tracks -> Verdicts]
    /\ poll \in {"missed", "queue", "history", "tracks", "over"} /\ left \subseteq Tracks
    /\ record \in [state : Items, item : Nat]
    /\ status \in [Tracks -> Items \cup {"imported"}]
    /\ misses \in [Tracks -> Nat]

\* A track that arrived, itself or with its album, is in the library if its import
\* was seen, in Explo's root folder, before the album counted as moved.
SeenMeansLanded ==
    MigrateDL => \A t \in due \ outside : verdict[t] = "arrived" => t \in library

\* A track that carries an AlbumID has its album cached, whichever of the racing
\* workers set it: GetDownloadStatus and MoveDownload give up on one that has not.
PlacedMeansCached == placed # {} => Cached

\* The workers are gone before the first poll, so that nothing resets Files and
\* Moved, by which an album is moved once, under the monitor.
CacheOutlivesWorkers ==
    [][WorkersDone => Len(lists') = Len(lists) /\ files \subseteq files' /\ (moved => moved')]_vars
=============================================================================
