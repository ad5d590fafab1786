# Explo: verification project

Explo discovers music for the users of a home music server: it asks ListenBrainz for
recommendations, downloads the tracks the server lacks (slskd, Lidarr, YouTube), lets the
server scan them and makes a playlist of them, once per user. A small web server with a
browser front end edits the settings, the users and the imported playlists and starts runs by
hand; cron starts the scheduled ones.

This directory holds TLA+ modules that model its concurrent and failure-prone parts, TLC
configurations that check them on small instances, and TLAPS proofs for every instance.
Paths below are relative to the repository's Go root (`src/src/` in `PROJECT.json`) unless
they start with `docker/` or `docs/`.

- `tlc -workers 2 -config MCx.cfg MCx` checks an instance (the table of runs below has the pairs).
- `tlapm XProofs.tla` checks a proof module.
- `PROJECT.json` ties every definition to the lines of source it stands for (`map`), every
  checked property to a plausible bug that breaks it (`mutants`), and every hazard to the
  properties aimed at it (`hazards`).

Operators whose names have an underscore (`Kill_ChildOnly`, `Stat_SourceOnly` and their like) are the
broken variants the mutants put in place of the definition after them; nothing else uses them.

## 1. Inventory

### The parts, and what each keeps

| Part | Source | State | Operations | Talks to |
|---|---|---|---|---|
| Run pipeline | `main/main.go` | one process's track list and music client | discover, check, download, delete, create, describe, share | discovery, downloaders, music system |
| Runs for all users | `main/all_users.go`, `config/user_overlay.go` | the users still to serve | one child process per user | run pipeline, `users.json` |
| Download clients | `downloader/downloader.go` | download and library directories | StartDownload, moveFile, MoveDownload, DeleteSongs | providers, file system |
| slskd client | `downloader/slskd.go`, `slskd_album.go` | searches and transfers at slskd | QueryTrack, GetTrack, GetDownloadStatus, Cleanup, MoveAlbumSiblings | slskd, registry |
| slskd shared-release registry | `downloader/slskd_shared_release.go` | releases, claims, roles, one `done` channel per release | claim, publish, fail, share | three pool workers |
| Download monitor | `downloader/monitor.go` | progress and pending releases of one phase | one loop over ticks | a provider, moveFile |
| Lidarr downloader | `downloader/lidarr.go` | `AlbumCache`, one entry per album; albums, queue and history at Lidarr | query, add and search an album, status, move, clean up | workers, monitor |
| YouTube | `downloader/youtube.go` | an external program | query, get | workers |
| Matching of tracks and releases | `downloader/slskd_album.go`, `preference.go`, `quality.go`, `original_release.go` | none | filter, trim, score, order | slskd |
| Discovery | `discovery/*.go` | none | HTTP, pure filters | run pipeline |
| Music systems | `client/*.go` | playlists and songs of a server, the account a token is for | search, delete, create, fill, describe, share, refresh | run pipeline |
| Manual run | `web/backend/run/*.go` | `manualRunState`, `runs.jsonl`, streams | start, stop, stream, finish | child process, browsers |
| Imported playlists | `web/backend/playlist/*.go` | `custom-playlists.json`, cache, covers, `.env` keys | import, refresh, delete, reassign, mark artwork | users, settings, `explo` |
| Playlist sources | `playlist/spotify.go`, `apple_music.go` | none | fetch and parse a page | imported playlists |
| Users | `web/backend/users/*.go` | `users.json` | create, update, delete | imported playlists, all-users run |
| Settings | `web/backend/settings/*.go` | `.env`, under `envFileMu` | decide on an edit, read-modify-write of the file | every other part, at its start |
| Sessions and tokens | `web/backend/auth/*.go` | sessions in memory, one mutex for the map and one per session | start, validate, migrate to a new ID, log in and out, collect | every request |
| Cron entry and lock | `docker/start.sh`, `docker/explo-run.sh` | one lock per job | run under the lock | `explo` |
| Cache trimming | `web/backend/jobs/jobs.go` | cache directories | delete old files | - |
| Configuration | `config/config.go`, `flags.go` | read once | defaulting | every part |
| Logging, notifications | `logging/*` | recent lines | output | - |
| Helpers, web wiring, diagnostics, front end, charts | `util/*`, `web/backend/{server,routes,handlers,diagnostics}.go`, `web/frontend/*`, `charts/*` | - | wiring, reports, rendering | - |

The processes are the web server (one, with a goroutine per request and per background job),
and one `explo` per scheduled or manual run, which starts one `explo` per user. They share
files only: `.env`, `users.json`, `custom-playlists.json`, caches, the library and download
directories. In-process mutexes do not reach across them. The one lock between processes is
that of `docker/explo-run.sh`, which keeps the runs of one job apart and lets different jobs
overlap ("not global", line 8).

### What is hard here

- **Blocking inside a bounded pool.** Followers of an album wait on a channel while each of
  them holds one of three pool slots; leaders fail, and the wait passes on.
- **Polling foreign transfers.** A snapshot is taken once per tick and used for the whole walk,
  while transfers go on; polls fail; deadlines and stalls are counted meanwhile.
- **Calls one by one on a file system** that may fail, or whose process may die, half way.
- **State read under a mutex and used after it**: a run's cancel function, its subscriber
  list, its history file, the list of imported playlists between its load and its save.
- **Processes that share a file without a lock** (`custom-playlists.json`, `.env`, the library).
- **A cache shared by workers**: each of Lidarr's workers looks an album up, caches it if the others
  have not, and fills in what the last one left; a monitor reads it afterwards.
- **Sessions whose ID changes in use**: a login renames a session that other calls hold, and a page
  keeps the token of one that may be over.
- **Calls whose error reads as an answer**: an `os.Stat` that fails reads as "no such file", a list that
  cannot be read as an empty one, a poll of Lidarr without the import as "complete".
- **Requests to a music server in a row**, each of which may fail or be carried out without an
  answer, against playlists that belong to several accounts.

Every hazard of this kind has an entry in `PROJECT.json` at the line where it bites, with the
properties aimed at it. Three have none, with the reason in a note.

### What makes each part correct

Names in code font are the properties the runs check; the rest of each line is what they are for.

- *Shared-release registry*: two tracks never follow one file (`ExclusiveFiles`); each file of a
  queued release is moved once (`NothingLostOrDoubled`); a channel is closed once (`ClosedOnce`); IDs
  are distinct (`DistinctIDs`); an album is queued once (`OneReleasePerAlbum`); it hands out albums as
  `AlbumHandout` says (`HandsOutAlbums`); the pool drains (`PoolDrains`).
- *Download monitor*: what is Present has landed (`PresentMeansLanded`); a sibling is listed, in the
  library, or lost to a failure at slskd (`SiblingsSettled`); verdicts are final (`VerdictsStand`);
  the limits bound the phase (`FallbackBounds`, `MaxDurationBounds`), which ends (`MonitorEnds`).
- *Moving into the library*: no song is lost (`NeverLost`) or erased but by a move that could not look
  (`OnlyUnseenErased`), and success means delivered (`MovedMeansThere`), whatever fails.
- *Manual run*: one run at a time (`OneRunAtATime`); a stop hits the run it saw
  (`StopsTheRunItSaw`); the guard is given back (`GuardClears`); streams are faithful
  (`StreamIsFaithful`), are closed (`NoStreamLeftOpen`) and never sent to once closed
  (`SendsToOpenChannels`).
- *Imported playlists and users*: whole edits in series (`UpdatesAreWhole`); what is listed has its
  tracks (`ListedHasCache`) and, after an import, its flags (`OwnNameIsActive`); the mutex comes
  back (`LockedMeansUpdating`).
- *Run pipeline, all users, music systems*: only the server's songs are sent (`OnlyServerIDs`);
  nothing is removed but playlists of the job's name, the user's own where there are accounts to
  switch to, and renewed copies (`OthersKeepTheirPlaylists`); copies have no gap (`CopiesAreKept`);
  nothing piles up (`DuplicatesNeedFailures`).
- *Settings*: an edit of `.env` changes the keys it is for and loses no other edit (`EditsAreWhole`);
  it undoes at most what was changed between its handler's read and its save (`OthersAsFound`).
- *Matching*: the song asked for is queued (`SongIsQueued`), in a release of a sensible size
  (`RightSizeWins`) and of the right album (`FullNameWins`), from which nothing of the album is
  trimmed (`AlbumComesWhole`); a single file is the best one no peer refuses (`PreferredFirst`).
- *Sessions*: a session is found under the ID it has (`FoundUnderItsID`), whoever was told it is
  logged in stays so (`LoginSticks`), a page's token is good for the next request
  (`TokenStaysGood`), and one that is refused is of a session that is over (`StaleMeansOver`).
- *Lidarr*: what is watched is cached (`PlacedMeansCached`), by workers that are gone before the first
  poll (`CacheOutlivesWorkers`); what arrived is in the library if its import was seen before
  the album's one move (`SeenMeansLanded`).
- *The rest*: no state whose correctness outlives a call.

## 2. Modules

```
AlbumHandout    <-refines-  SharedRelease    <-- SharedReleaseProofs
PlaylistCatalog <-refines-  CustomPlaylists  <-- CustomPlaylistsProofs
EnvStore        <-refines-  EnvFile          <--+
                            Sessions         <--+
                            WebServer        <--+ WebServerProofs
                            DownloadMonitor  <--+
                            MoveFile         <--+ DownloadProofs
                            ManualRun        <-- ManualRunProofs
                            ReleaseChoice    <-- ReleaseChoiceProofs
                            Lidarr           <-- LidarrProofs
                            PlaylistRuns     <-- PlaylistRunsProofs
```

`WebServer` composes `EnvFile` and `Sessions` with the restart that ends them together. Each module
that is checked has an `MC...` module with the constants of its instances. Along a run the modules
meet as follows. `PlaylistRuns` is the whole run and lets its download step end in any way.
`SharedRelease` is how that step queues the tracks over slskd, and `ReleaseChoice` what one worker
of it takes; `DownloadMonitor` is how the step waits for them; `Lidarr` is both for the other
downloader; `MoveFile` is how a track that arrived gets into the library. `ManualRun` is the process
around such a run when a browser starts it, `CustomPlaylists` the server's lists a run reads and
marks, `WebServer` the settings and the sessions behind every request. None of these models has to
see the inside of another: what crosses the boundary (a track is present or not, a move succeeded or
not, a child lives or not) is free in each of them.

### SharedRelease, and its abstract AlbumHandout

`StartDownload`'s pool (`errgroup` with a limit) and the registry. A worker is a program counter
`pc[t]`; each critical section of `releaseRegistry` is one action, and every HTTP request in between
is a step of its own that succeeds or fails. `claim` is `QueryAlone`, `ClaimAsLeader` or
`ClaimAsFollower` by what it finds in the table; `publish` is `Publish`; `fail` is `Fail`, a part of
`SearchFails` and `GetFails`, which close the channel and drop the entry in one section;
`RetryClaim` is what a follower does after a release that failed; `Share` and `FallBackToSingle` the
two ends of `share`. Which of a release's files a track may take is the constant `Matches`: the
scoring behind it is abstracted to which pairs it accepts, over any such relation; `ReleaseChoice`
has it.

`AlbumHandout` says what the registry is for with no workers or channels: an album has one holder,
who may step down only as long as nothing was handed out, and each file goes to one track.

### DownloadMonitor

One provider's phase of `MonitorDownloads`. `Monitor` is the loop: `TimePasses` is a part of the
poll that begins a tick, `PollFails`/`PollSucceeds` the poll, one `Visit(t)` per track with the
snapshot taken at the tick, `MigratePendingAlbums` (one pass over the open releases) and
`NextTick`/`Finish`/`FallBack`. `Peers` are the transfers at the provider, which go on between any
two of these. Times are ages in ticks that saturate just above every limit they are compared with
(`AgeCap`, `PhaseCap`), so the state space is finite and no comparison changes. The limits are a
record `cfg` chosen once from the constant `MonitorConfigs`, so that one run covers several
configurations. A sibling's move may fail before the copy or after it: `MoveAlbumSiblings` keeps
such a file in `albumFiles` either way, and chooses freely which of the files listed are in the
library then. Siblings are taken to have base names of their own.

### MoveFile

`moveTrack`, `moveFile` and `removeDirIfEmpty`, one action per system call
(`Stat`, `OpenSource`, `Create`, `Copy`, `Sync`, `Chmod`, `Remove`, `LookIntoDir`, `RemoveDir`). Every
one may fail (`CallFails`, `CopyFails`), the process may die (`Crash`) and be started again
(`Restart`); a failed or interrupted copy leaves a torso. A failing `os.Stat`, of the source or of the
destination, does not end the move: `StatErrs` goes on to `os.Create`, as the code does, and the history
variable `unseen` remembers which moves did. Each process moves one file at a time,
and the constant `Proc` says how many there are.

### ManualRun

`manual_run.go`, `events.go` and the handlers. Every critical section on `manualRunState` is one
action and everything between two is another: `ClaimRun`, `StartChild`, then the collector
(`ReadLine`, `Deliver` to each subscriber copied, `ReadEOF`, `Reap`) and `FinishRun`, followed by
the history file read and written (`ReadRecords`, `WriteRecords`) and the streams told (`Notify`).
`Stop` is a stop request in the two halves between which the mutex is free, `View` a browser's
stream from the snapshot to the unsubscription. The process tree is the child and a `stray`
descendant that keeps the pipe open; `KillsGroup` is the build's `procgroup_*.go`. The constant
`Scenes` says who takes part: which clients, whether there is a timeout, how many lines a run
prints.

### CustomPlaylists, and its abstract PlaylistCatalog

Requests, refresh jobs and `explo` as `Actors`, each in a process. The update of
`custom-playlists.json` is three steps (`Load` takes the process's mutex, `Save` writes the copy
back, `SaveFails` gives up); cache file, `.env` keys and covers are steps of their own, in the order
of the handlers: an import fetches, writes the cache (`Fetched`), lists the playlist (`Load`,
`Save`) and sets its flags (`SetFlags`); a deletion unlists it, removes the cache and clears the
flags. `users.json` and `.env` are replaced by rename under mutexes of their own, so an update of
either is one step. Any load may find a file it cannot read or parse and is then given an empty list
(`Unread`), which the update saves its edit of. `EnvKey` says which pair of `.env` keys a playlist's
name makes, and names may share one. `SaveSchedule` is any settings request that changes a
playlist's `FLAGS`, and the history variable `byHand` has the keys one wrote since the last import
did. `PlaylistCatalog` is a list that changes by one whole edit at a time, of what it was or, where
it could not be read, of nothing.

### ReleaseChoice

What slskd's worker takes for one track, from the search with its retries and its one wildcard
(`search`, `SearchPending`, `SearchEmpty`, `SearchCompleted`, `SearchFails`) to the requests that
queue it. In album mode `Consider` is one round of `CollectAlbumFiles`' loop over directories: trim to
the original album (`trimToOriginal`: extra discs, then bonus tracks), drop what is out of the quality
range (`qualityFiltered`), score (`Score`), keep the best and the best of a sensible size;
`queueAlbumDownload` or `QueueFails` ends it. For a single track it is `CollectFiles`, `filterFiles`
with the order `compareFiles`, and attempts in that order (`Accepted`, `Refused`). What the code parses
out of a name (a track number and its style, a disc, an extension) or compares (title, artist, album,
length, year) is a field of the file or of the directory; all that is decided with these fields is here.

### Lidarr

One album in the hands of `lidarr.go`: the workers' `QueryTrack` and `GetTrack`, each request a step
of its own (`LookUp`, `Identify`, `findTrackID`, `addNewAlbum`, `triggerAlbumSearch`,
`searchStatus`) that may fail (`CallFails`), around the shared `AlbumCache`; then the monitor's
polls (`CheckMissed`, `PollQueue`, `PollHistory`), one `Visit(t)` per track, the move of a whole
album by the first track that is complete (`Arrives`, `MoveFails`) and `Cleanup`. `Server` is
Lidarr, which searches, downloads and imports at any moment between. A pointer to an `AlbumMetadata`
is an index into `lists`: a worker that looked the album up before another replaced the entry goes
on with the old one (`holds`). Files are imported one by one (`Import`), each into Explo's root
folder or another (`outside`, chosen from `Outsides`), and the history may speak of files that are
gone. The history variable `due` has what the album's entry named by the time it counted as moved.
The monitor's deadlines are in `DownloadMonitor`; here they may strike at any poll.

### EnvFile, and its abstract EnvStore

The settings API. A request first decides on an edit (`Requested`), from the file as it is now where
its handler reads it (`Toggled`, `CleanEdits`, `Scheduling`), and then takes `envFileMu` (`Lock`),
reads, validates (`Rejected`), and writes by rename (`Rename`) or, whatever the error of the rename,
by cutting the file short and writing it in place (`Truncate`, `WriteInPlace`). A wizard step goes
on with the server's environment (`SetEnv`). A crash or a reset (`Restart`) may come between any two
steps. The history variable `aim` has the words of the file a request is about: a toggle of
`--replace-playlist=false` is about that flag of one playlist, the text editor about all of them; to
these come the words of its keys that others change while it waits for the mutex, with what it read
in hand. `EnvStore` is a map that changes by whole edits of their own keys, each applied to the map
as it is; a save that fails or is cut short leaves the map as it was, or blank.

### Sessions

The in-memory session store and its middleware, and the browsers with two calls at a time each. A
browser's side is `apiFetch` of the front end: a call that changes something needs the token of
`csrfToken`, fetches it where there is none (`ensureCSRF`), is sent (`Send`), and when it is
answered 403 drops the token, fetches another and is sent once more (`Retry`); the next answer
stands (`Receive`). One call may so take four requests, and the session may end between any two. A
request takes its session by the cookie it came with (`start`, `startNew`), is handled
(`HandleCSRF`, `RequireAuth`, `HandleLogin`, `HandleLogout`, or `Mismatch`), and is answered with a
cookie of the ID the session has by then (`Answer`). A login changes the ID under the session's
mutex and then takes the old entry out of the store and puts the new one in (`destroy`,
`writeWithID`), two steps between which other calls run. Sessions expire and are collected
(`Expire`, `gc`). IDs and tokens are drawn once; that a random one is not drawn twice is taken for
granted.

### WebServer

`EnvFile` and `Sessions` in one server process. They share nothing but its end: `HandleResetConfig`
and a crash drop every session and every request in progress, and keep the file.

### PlaylistRuns

`main.go` from the discovery to the sharing, for each user in turn (`NextUser`, `ChildEnds`), on a
server of playlists that carry an account, a title and songs. `After` is the order
of main's steps with the flags; `find`, `delete`, `refresh`, `match`, `create`, `fill`, `describe`,
`share`, `copy`, `copyFill` and `copyDelete` are the requests, each with its failure, and with the
case that the server did it and the answer was lost (`CreateUnanswered` and its like). The track
list keeps the two meanings of a track's `ID` and `Present` apart: `matched` are those whose ID is
the server's, `named` those whose ID is a downloader's.

What a request finds under a title is `Named`, and in whose name it is sent is `Account`. On Plex
with an admin client a run works in its user's account, on Plex without one in that of the
instance's own token (`plex.go:275`); the README asks for admin credentials when there are several
users, and the code does not check. Jellyfin and Emby search and delete with the instance's key and
no user (`jellyfin.go:201`), Subsonic lists what others made public: there a playlist of the job's
very name is found whoever made it. Other people do make such playlists (`MadeByHand`, and one may
be there at the start).

Limits of this model, all of them deliberate:

- Runs of one job exclude each other, as `docker/explo-run.sh` sees to. A manual run
  takes no such lock and may overlap a scheduled one; the design document calls this "not handled
  today" (`docs/superpowers/specs/2026-10-28-multi-user-design.md:228`) and so it is left out.
- Serving several users needs Plex (`README.md:53`); with another system one user is served.
- Titles are the job's playlist name alone or after a user's name. With `replace` off the code
  puts the date into the name, so nothing is replaced and nothing judged but the copies.
- Failures that may leave a playlist or a copy behind, and playlists made by hand, are counted in
  `slips`, up to `MaxSlips`: `DuplicatesNeedFailures` is about that number. All other failures are
  free.
- Covers, caches and the text of descriptions are left out; song matching (`BestMatch`) is a free
  choice of which tracks a search finds.

## 3. Runs

| Run | Instance | Question |
|---|---|---|
| `shared_release` | 4 tracks (3 of one album), 3 slots, 3 files; 22 thousand states | do claims, failures and shares keep files exclusive, and does the pool always drain? |
| `monitor` | 2 tracks with every limit on, and 1 track with 2 siblings, silent peers and refused cancellations; 1.2 million | are verdicts final and right, is the fallback threshold kept, does the phase end? |
| `move_file` | 1 process, 4 moves (same target, an existing song, in place), 2 tries; 955 thousand | is a song lost, or erased by a move that could look? |
| `move_file_overlap` | the same moves, 2 processes | *violation*: is a song erased, with every look a success, when jobs overlap? |
| `manual_run` | 2 runs, unix, a channel of 1: a stop request and a timeout, or a browser that watches; 550 thousand | does the guard hold, is it always given back, does a browser see its run, whole and once? |
| `playlists` | 3 playlists, 2 of one name, 3 actors, 1 user, one process; 1.0 million | are edits whole and lists usable? |
| `playlists_upload` | 1 playlist, server and `explo` process | *violation*: are edits whole across processes? |
| `playlist_runs` | 2 runs, 2 users sharing with each other, 1 track, 3 systems, Plex with and without an admin client, every flag; 1.9 million | do deletes keep to the name and the account, are copies kept, do playlists pile up? |
| `lidarr` | 2 tracks of an album, 1 download, any root folders; 2.3 million | is what is watched cached, and what was seen before the move in the library? |
| `release_choice` | every answer of at most 2 of 11 directories, 5 albums, every filter but a ceiling for albums; 496 thousand | is the song queued, in the right release, whole? |
| `release_choice_ceiling` | the same with a ceiling for albums | *violation*: is the song queued? |
| `web_server` | 2 requests, 2 playlists, 2 browsers (one waits for its answers), 3 calls, 3 sessions; 610 thousand | are edits whole, do they keep to their aim, and do logins and tokens stick? |

Why the bounds are enough to see what matters:

- `shared_release`. Four tracks over three slots are the fewest with a leader, two followers in
  the pool and one that starts only when a slot is free. `Matches` lets two tracks want one file and
  gives other tracks a choice of two; one track belongs to no album. Every position of
  a failing request is explored.
- `monitor`. The limits are one to three ticks, around the three failed polls after
  which the monitor gives up, so that all orders of stall, deadline, fallback and lost polls occur. One
  file has one byte and the other two, so that progress can be partial. Two tracks show that one's
  verdict leaves the other's alone; two siblings, that one can settle before the other. The
  configurations are `Bounded` and `Patient` of `MCDownloadMonitor`.
- `move_file`. The four moves are the ways a destination can be: free, taken by another download,
  taken by the library, and the source itself. `Tries` = 2 lets a failed or interrupted move be
  repeated over what it left.
- `manual_run`. Two runs are enough for one's finish to meet the other's start.
  Stop requests and streams share nothing but the run (one uses `cancel`, the other `subscribers`
  and `logs`), so they are checked apart: `Scenes` of `MCManualRun` has one scene for each. A channel of
  one event overflows at the second, here a line and the end of the run.
- `playlists`. One playlist is there at the start and two may be imported, by two actors at once,
  while a third marks artwork, here from inside the server; a user comes and goes freely. The two
  that share their keys are the one that is there and one that is imported.
- `playlist_runs`. Two runs show what one leaves to the next; two users who share with each other
  are the fewest for which an account holds its own playlist and another's copy. Emby and Subsonic
  take the same branches as Jellyfin. Of the instance's own account one playlist of the job's name
  may be there at the start, where a run may find it: with a Plex admin client no run looks at that
  account (`MCInit` of `MCPlaylistRuns`). Of the flags, `replace` is combined with `excludeLocal` and
  with `clean`, and the two other download modes are tried by themselves on Jellyfin and MPD. One
  slip (`MaxSlips`) at any place, or one playlist made by hand, leaves what the next run then meets.
  One track is enough for a song that is present or absent, listed, matched or downloaded; the
  theorems about songs and deletions hold for any number, and for every initial playlist.
- `lidarr`. Two tracks are the fewest of which one waits for what the other cached, and of which
  one's move brings the other's file. The album may be moved before the second file is imported, and
  any file may be imported into another root folder. One download may fail or be cancelled after it
  was seen.
- `release_choice`. The directories of `Shelf` differ in one respect each: lossless, in two discs,
  with bonus tracks, a single stray file, a dump of everything, unreadable numbers, files of too low
  a bitrate, a reissue, a keyword, a wrong length. All pairs show what wins against what, and all
  orders of the two.
- `web_server`. Two requests suffice for a decision that is stale when it is saved. The sessions get
  their calls beside a settings API that is idle, or has one request: the two share only the
  restart, so `MCInit` splits the budgets of both. Two calls of one session are what a migration
  needs to go wrong; the third sees the damage. A call that is refused twice takes three sessions;
  `Small` grants three to the first call, two to the second, and to the third two while one of the
  browsers has no call, else one.

`CHECK_DEADLOCK FALSE` is given for `CustomPlaylists`, `PlaylistRuns`, `Lidarr` and `ReleaseChoice`,
which really stop when there is nothing left to do. The others stutter explicitly once they are
through (`Finished`, `Returned`, `Served`), or can always be restarted (`MoveFile`, `WebServer`), so
a worker, monitor or collector that is stuck anywhere else is reported.

### The violations

Each is a promise of the repository's own comments that the code does not keep; `findings` in
`PROJECT.json` quotes them.

1. `move_file_overlap`. `os.Stat` and `os.Create` are apart: two overlapping jobs that move the same
   name both see it free, and the second truncates what the first delivered
   (`downloader/downloader.go:389`: "never erase an existing destination").
2. `playlists_upload`. The mutex that "serializes every load-modify-save" is one per process, and
   `explo` writes the file as well (`custom_playlists.go:97`, `main/main.go:323`).
3. `release_choice_ceiling`. `MAX_BITRATE` drops the wanted song itself from a release and keeps the
   rest (`slskd_album.go:163`); the first file that is left is then recorded as the track's, so the
   playlist gets another song ("Primary first: queueAlbumDownload and the monitor both rely on it",
   `slskd_album.go:244`).

### Comments that promise more than the code keeps

These are in the models as the code has them; the property named is what holds all the same.

- `downloader/downloader.go:389`, "never erase an existing destination". Any error of `os.Stat` is
  taken for "not there": where the destination exists and cannot be looked at, `os.Create` truncates
  the song, with one process. No other move does (`OnlyUnseenErased`, `NeverLost`).
- `custom_playlists.go:97-101`, by which the mutex keeps a save from having "wiped every playlist".
  A list that cannot be read or parsed is taken for empty, and the update saves its edit of that.
  `TODO.md` has BUG-06, of the same outcome, as done: what was fixed is the half-written file, not
  the load that returns nil. A save is an edit of the list, or of nothing, and never of an older
  list (`UpdatesAreWhole`).
- `playlist/handlers.go:177-180`, by which an import marks its playlist as active, "usable for
  manual runs". Playlists of one name, or of names that differ in punctuation only, share one pair
  of `.env` keys: deleting the one takes away the `FLAGS` of the other. A name no other import had
  keeps its own (`OwnNameIsActive`).
- `main/main.go:278-281`, by which "a failed run left nothing behind" is over. A run deletes the old
  playlist before it refreshes the library and creates the new one: failing in between, it leaves
  neither. Copies for others have no such gap (`CopiesAreKept`).
- `monitor.go:161`, "The song never landed in the library, so it must not be marked Present".
  Lidarr's album is moved once, with the files whose import the history showed by then; a track
  imported later, or outside the root folder, is marked Present without a move. What was seen by
  then has landed (`SeenMeansLanded`).
- `preference.go:136`, "A wrong-album FLAC must still lose to a right-album MP3". The points for
  artist, size and quality outweigh those for the album's name, where the right album's directory
  does not name the artist. Where it names both, it wins (`FullNameWins`).
- `settings.go:76`, by which without the mutex "the later write silently undid the earlier one's
  changes". `FLAGS` are read before `envFileMu` is taken (`settings/handlers.go:146`, `287`, `373`):
  of two saves about one playlist the later still undoes the earlier. It undoes nothing that was
  saved before its handler read (`OthersAsFound`), and loses no other key (`EditsAreWhole`).
- `monitor.go:250`, by which whatever a provider did not finish is cancelled: an abandoned track's
  siblings go on downloading. `DownloadMonitor` has it so; no property is about it.

## 4. Fairness

Liveness is checked of three models, with no more fairness than the code's scheduling gives.

- `SharedRelease!FairSpec`: weak fairness of `g.Go`, `g.Wait` and each worker. An HTTP call has a
  timeout and a search a number of polls, so a worker's next step comes; it may be a failure.
- `DownloadMonitor!Spec`: weak fairness of the loop only. A ticker ticks and a poll ends; peers have
  no fairness, they may be silent for ever.
- `ManualRun!FairSpec`: weak fairness of goroutines that can run, of a deadline that is set and of a
  kill that was sent. Nothing makes a child or its descendants exit by themselves, no request has to
  come and no browser to leave. `GuardClears` therefore rests on the timeout and the kill, as the
  comment it quotes says (`manual_run.go:78`), and is checked with a timeout and on unix.

The other models state safety only: their workers and requests are straight-line code with failures at
every step, and what they wait for is external.

## 5. Proofs

Every theorem holds for all values of the constants that satisfy the `ASSUME`s of its module: any
number of tracks, files, slots, users, playlists, runs and failures. The proofs share a scheme: a
typing lemma, an inductive invariant `I` with `Init => I` and `I /\ [Next]_vars => I'` shown one
action at a time, and a short temporal step.

**SharedReleaseProofs** (nine theorems, no further assumption). `RegistryInv` makes the safety
properties inductive: `Launches` (tracks start in order), `RoleStages` and `Leaders` (a role says
where its worker can be), `Entries` (an album's entry is a leader that has not failed), `Waiters`
(who waits, waits for a leader at work or for a closed channel), `Sharers` (who shares has a claimed
file of its release) and `PublishedReleases` (the books of a release balance). From it follow
`FilesAreExclusive`, `FilesAreAccountedFor`, `ChannelsCloseOnce`, `AlbumsAreQueuedOnce`,
`WaitersHaveLeaders` (the safety half of "the pool drains") and `PublishedStays`. `IDsAreDistinct`
needs `IDInv` besides: an ID made up by `share` counts the files claimed so far, and every share
claims one more, which uses that `Files` is finite. `RegistryImplementsHandout` is the refinement of
`AlbumHandout` under `holder <- releases` and `handed <- Handed`: `claim` maps to `Lead`, `fail` to
`Resign`, `publish` to `HandToHolder`, `share` to `HandToFollower`; everything else stutters.

**DownloadProofs** (ten), of `DownloadMonitor` and `MoveFile`.

- Moves: the hypothesis `OneProcess` says that all moves are made by one process;
  `move_file_overlap` shows that it is needed. The invariant says that one move is at work
  (`OneAtWork`), what each stage has done to source and destination (`Stages`), that a destination
  is free when it is created unless the move could not look at it, and that a download's path holds
  its song or nothing (`SourcesAreOwn`). It gives `NothingIsLost`, `SuccessMeansThere` and
  `LibraryIsSafe`; `MoveTypeCorrect` needs no hypothesis.
- The monitor, with no hypothesis but the module's `ASSUME`: `MonitorInv` says that the phase goes
  on as long as it has no outcome, and walks the tracks only after a poll that succeeded
  (`ControlInv`), that a track that arrived is no longer watched and one absent for the second time
  is skipped (`VerdictInv`), that what is Present is in the library (`PresentMeansLanded`), and that
  a sibling leaves its release's list only when it was moved or has failed at slskd, however its
  moves ended (`SiblingInv`). From it follow `PresentHasLanded`, `NoSiblingForgotten` and
  `VerdictsAreFinal`. The limits on a phase are `FallbackInv` and `TimeInv`: the age of the phase is
  bounded through the age of whatever it still waits for, one bound per track (`TrackDue`) and per
  open release (`AlbumDue`), both lengthened by the polls that may still fail (`Late`). A phase with
  nothing left to wait for ends with the walk that finds so, which gives `FallbackBoundsPhase` and
  `MaxDurationBoundsPhase`.

**ManualRunProofs** (seven, no further assumption). `RunInvAlways` is the invariant. `GuardInv`: the
guard is held from the claim to the finish, by the run that `runStarted` names, and the cancel
function kept is that run's; `ProcessInv` and `RecordInv`: where a run can still have a process, and
whose record it writes; `AimInv`: the cancel function a stop request has copied is of a run claimed
by then; `ToldInv`, `SubscriberInv` and `OpenInv`: a stream is on its run's list or subscribed
exactly until that run's end closes it, so nobody sends to it afterwards; `StreamInv`, `LogInv` and
`ShownInv`: what a browser was shown is the log it was given and then what its channel carried, in
order. Together they give `RunsDoNotOverlap`, `SendsMeetOpenChannels`, `StopsHitTheRunTheySaw`,
`StreamsAreClosed` and `StreamsAreFaithful`: a stream whose channel never overflowed has shown the
first lines of its run, each once, and after them at most the one event that is no line.

**CustomPlaylistsProofs** (five). `TypeCorrect` holds for any processes. The rest is under
`OneProcess`, which `playlists_upload` shows to be needed: an actor between load and save holds the
mutex, and its copy is the file, or empty where it could not be read (`MutexInv`). `Lifecycle` adds
that IDs are drawn once, that a playlist is listed only after its cache is written and loses the
cache only after it is unlisted: `ListedAreCached`. `ImportsStayActive` says that a listed playlist
whose import is over has the flags of its name unless another playlist drawn had that name or a
settings request wrote them; any names may be equal, and any number of settings requests come.
`UpdatesImplementCatalog` is the refinement of `PlaylistCatalog`, with its edits of nothing: a save
is one whole edit, everything else stutters.

**PlaylistRunsProofs** (five, no further assumption). `TypeInv` is the type invariant with `Serving`
(a child has its user, a copy its recipient) and `PresentAreMatched` (what runs see as Present is a
song of the server), which gives `SongListsAreTheServers`. The next two rest on `Alone` (one run of
a job at a time, from its lock), `UniqueIDs` (an ID names one playlist and is never given again) and
`Aimed` (at the stages that delete or fill, the ID held names a playlist that the run's account
finds under the job's name, or the copy in the recipient's account that is being renewed).
`DeletesStayHome`: nothing else is ever removed, and on Plex nothing of another account than the
run's. `CopiesStay`: a recipient with a copy that has songs never goes without one, because the old
copy goes only when the new one has songs. `DuplicatesAreFailures` is the fifth: with `replace`, an
account has at most as many playlists too many of a run's name as there were slips, and so with the
copies once none is being renewed. Its invariant `Few` counts them at every stage (`Counts`) and
says where a run still has room for the one it will add (`RoomAt`); a server's playlists are a
finite set, and three lemmas say how a cardinality changes when one is added (`OneMore`), removed
(`OneLess`) or replaced (`AsMany`).

**WebServerProofs** (ten), of `EnvFile`, `Sessions` and `WebServer`.

- Settings, with no further assumption: the invariant says that the mutex has the holder it should,
  who has read the file as it is (`MutexInv`), that a file being written in place is blank
  (`TornInv`), and that every edit in hand is one of the file's (`EditInv`). The refinement
  `SavesImplementStore` follows: a decision maps to `Ask`, the last step of a write to `Apply`, a
  failure to `Refuse`, a restart to `Crash`. A decision made from a stale read is an edit like any
  other to `EnvStore`; how far it may reach is `OthersAsFound`. `AimInv` has it for every request
  that waits or writes: what its edit changes of the file is within its aim, which is shown handler
  by handler for the edits they decide on (`RequestedChanges`), and remains so when another's save
  comes in between (`Later`). `SavesKeepToTheirAim` follows.
- Sessions, for constants as `SessionsConstants` has them: `Names` and `Findable` say that an ID is
  one session's for ever, so that no migration takes out another's entry, and give
  `MigrationKeepsSessions`. `LoginsStick`, `TokensStayGood` and `StaleTokensAreOver` are about the
  `Orderly` browsers, which wait for an answer before the next call. `Private` has functions from
  IDs and sessions to the browser they were made for, which no step changes: another browser's call
  never touches them. `Steady` says where such a browser's one call can be, and what its cookie,
  page and login then name, and `Tokens` of which sessions the token it carries and the one it was
  refused with are.
- The server: `ServerImplementsBoth` shows that the composition, with the restart both share,
  implements the two specifications it is made of; `ServerSafety` is what the run `web_server`
  checks, for every value of the constants.

**ReleaseChoiceProofs** (six). `RightSizedChosen`, `PreferredIsFirst` and `FullNamesWin` hold for
any answers, albums and settings; the second from the fact that the order of attempts is total and
transitive, the third from the scores: the invariant `BestScored` says that what is chosen scored no
less than any other candidate, and `ScoreBounds` that a directory that names album and artist has at
least 142 points, and one that does not name the album at most 110. `AlbumIsWhole` holds for any
settings too, `SongQueued` under the hypothesis `NoCeiling` (no ceiling in album mode), which
`release_choice_ceiling` shows to be needed. That the first of a set of file numbers exists
(`FirstIsLeast`) rests on the well-foundedness of the naturals; that no wanted file is trimmed, on
the pigeonhole principle: files that precede one in a disc have distinct numbers below its own
(`FewPrecede`).

**LidarrProofs** (four, no further assumption). `PlacedAreCached` and `CacheStays`, and
`SeenHaveLanded`: whatever the workers and Lidarr do, and wherever and in whatever order files are
imported, once an album counts as moved the files that were due and are in Explo's root folder are
in the library (`AlbumMoved`). What is not due is not promised.

Only model-checked are the three liveness properties, `PoolDrains`, `MonitorEnds` and `GuardClears`:
liveness and `ENABLED` are beyond the prover, as is induction over data. The safety behind the first
two is proved: `WaitersHaveLeaders` (nobody waits for a leader that is gone) and the two limits on a
phase. Every other property of the passing runs is stated by a theorem, and every module's type
invariant, which no run repeats, is proved as well. No module here declares a `RECURSIVE` operator,
so any of them can be proved about.

## 6. Not modelled

- Matching by name: normalisation of titles, `client.BestMatch`, `getReleaseGroupId`, Lidarr's title
  comparison. String work in one thread; the models take any outcome of it.
- YouTube: an external program in one thread, no state of its own that another part reads.
  Discovery, playlist sources, configuration: requests, parsing and defaulting in one thread; a
  success or failure in the models that call them.
- The template file of `settings/path_templates.go`, login with authentication disabled, and the
  diagnostics token of `auth/token.go`, issued and verified alone; random IDs are taken to be new
  each time.
- Cache trimming, logging, helpers, web wiring, routes, diagnostics, front end, charts: no state that
  another part reads. The order in which browsers send requests is free everywhere.

Read while modelling, contradicted by no document and so judged by no run: `--clean-downloads`
deletes files the library still lists, which are then taken for present; `skip` mode with no tracks
deletes the old Plex playlist and then has nothing to create; two runs that finish close together
may drop a record of `runs.jsonl`, which `manual_run.go:234` calls append-only; a move that fails
for good while slskd has all bytes gives the track up; a failed search may stay at slskd; and the
next provider's monitor watches a stale `track.ID` until it skips it.

## 7. Plan

What is left, most useful first.

1. `Providers`: the chain slskd, Lidarr, YouTube of `StartDownload` over the outcomes of
   `DownloadMonitor`; stale IDs, and duplicates between providers.
2. Safety halves of `MonitorEnds` and `GuardClears`: a measure of the loop, and of what a run must
   still do before it gives the guard back, that every fair step lessens.
3. An abstract specification of a manual run (one run, its record, its stream) for `ManualRun` to
   implement.
