--------------------------- MODULE SharedRelease ---------------------------
(***************************************************************************)
(* The slskd download pass in album mode: the worker pool of               *)
(* StartDownload and the releaseRegistry its workers share.  The first     *)
(* track of an album leads it and queues the release; the other tracks     *)
(* block on the release's done channel, each holding one of the pool's     *)
(* slots, and then take their own file out of it.                          *)
(*                                                                         *)
(* A release is named by the track that leads it: a track leads at most    *)
(* once, because a leader whose search fails returns from QueryTrack.      *)
(***************************************************************************)
EXTENDS Naturals, FiniteSets

CONSTANTS NTracks,   \* tracks not Present, in playlist order 1..NTracks
          Limit,     \* g.SetLimit
          Albums,    \* album keys
          Files,     \* file names a peer may offer
          AlbumKey,  \* albumKey(track); NoAlbum is the empty key
          Matches,   \* <<track, file>> pairs findPrimary accepts
          NoAlbum, None

Tracks == 1..NTracks

ASSUME PoolAssumption == NTracks \in Nat /\ Limit \in Nat \ {0}
ASSUME AlbumAssumption == NoAlbum \notin Albums /\ AlbumKey \in [Tracks -> Albums \cup {NoAlbum}]
ASSUME MatchAssumption == Matches \subseteq Tracks \X Files
ASSUME FilesAssumption == IsFiniteSet(Files)
ASSUME NoneAssumption == None \notin Tracks /\ None \notin Files

VARIABLES
    launched,   \* tracks 1..launched have been given to g.Go
    phase,      \* StartDownload: "pool" until g.Wait returns, then "monitor"
    pc,         \* where each worker is
    role,       \* releaseRegistry.tracks[t].role ("album" is also the zero entry)
    rel,        \* the release a worker leads, waits for or shares
    releases,   \* releaseRegistry.releases
    closed,     \* closed[l]: times the done channel of l's release was closed
    relFiles,   \* sharedRelease.files; {} is nil
    claimed,    \* sharedRelease.claimed
    id,         \* track.ID
    file,       \* track.File
    siblings    \* track.AlbumFiles

pool == <<launched, phase>>
registry == <<releases, closed, relFiles, claimed>>
trackFields == <<id, file, siblings>>
vars == <<pool, pc, role, rel, registry, trackFields>>

Roles == {"album", "leader", "shared", "single"}
Stages == {"pending", "query", "search", "wait", "get", "publish", "ended"}

\* A search's ID is unique to the track that made it; a shared ID is the
\* leader's with a counter behind it ("%s:shared:%d").
SearchID(t) == <<t, 0>>
SharedID_Leaders(l, n) == <<l, 0>>   \* broken: the shared track keeps its leader's ID
SharedID(l, n) == <<l, n>>
NoID == <<0, 0>>

Running == {t \in Tracks : pc[t] \notin {"pending", "ended"}}

Init == /\ launched = 0
        /\ phase = "pool"
        /\ pc = [t \in Tracks |-> "pending"]
        /\ role = [t \in Tracks |-> "album"]
        /\ rel = [t \in Tracks |-> None]
        /\ releases = [a \in Albums |-> None]
        /\ closed = [t \in Tracks |-> 0]
        /\ relFiles = [t \in Tracks |-> {}]
        /\ claimed = [t \in Tracks |-> {}]
        /\ id = [t \in Tracks |-> NoID]
        /\ file = [t \in Tracks |-> None]
        /\ siblings = [t \in Tracks |-> {}]

-----------------------------------------------------------------------------
(* StartDownload *)

\* g.Go starts the next worker once one of the Limit slots is free.
Launch(t) ==
    /\ phase = "pool"
    /\ t = launched + 1
    /\ Cardinality(Running) < Limit
    /\ launched' = t
    /\ pc' = [pc EXCEPT ![t] = "query"]
    /\ UNCHANGED <<registry, trackFields, phase, role, rel>>

\* g.Wait returns when every worker has, and the monitor takes over.
WaitAll ==
    /\ phase = "pool"
    /\ launched = NTracks
    /\ Running = {}
    /\ phase' = "monitor"
    /\ UNCHANGED <<registry, trackFields, launched, pc, role, rel>>

-----------------------------------------------------------------------------
(* queryAlbum *)

\* A track without an album key searches for itself and tells nobody.
QueryAlone(t) ==
    /\ pc[t] = "query"
    /\ AlbumKey[t] = NoAlbum
    /\ pc' = [pc EXCEPT ![t] = "search"]
    /\ UNCHANGED <<pool, registry, trackFields, role, rel>>

ClaimAsLeader(t) ==
    /\ pc[t] = "query"
    /\ AlbumKey[t] # NoAlbum
    /\ releases[AlbumKey[t]] = None
    /\ releases' = [releases EXCEPT ![AlbumKey[t]] = t]
    /\ role' = [role EXCEPT ![t] = "leader"]
    /\ rel' = [rel EXCEPT ![t] = t]
    /\ pc' = [pc EXCEPT ![t] = "search"]
    /\ UNCHANGED <<pool, trackFields, closed, relFiles, claimed>>

ClaimAsFollower(t) ==
    /\ pc[t] = "query"
    /\ AlbumKey[t] # NoAlbum
    /\ releases[AlbumKey[t]] # None
    /\ rel' = [rel EXCEPT ![t] = releases[AlbumKey[t]]]
    /\ pc' = [pc EXCEPT ![t] = "wait"]
    /\ UNCHANGED <<pool, registry, trackFields, role>>

\* releaseRegistry.fail: drop the claim if it is still the album's, then wake
\* the waiters, who see no files and claim again.
Fail(t) ==
    /\ releases' = IF releases[AlbumKey[t]] = t THEN [releases EXCEPT ![AlbumKey[t]] = None] ELSE releases
    /\ role' = [role EXCEPT ![t] = "album"]
    /\ closed' = [closed EXCEPT ![t] = @ + 1]

SearchSucceeds(t) ==
    /\ pc[t] = "search"
    /\ id' = [id EXCEPT ![t] = SearchID(t)]
    /\ pc' = [pc EXCEPT ![t] = "get"]
    /\ UNCHANGED <<pool, registry, role, rel, file, siblings>>

SearchFails(t) ==
    /\ pc[t] = "search"
    /\ IF role[t] = "leader" THEN Fail(t) ELSE UNCHANGED <<role, releases, closed>>
    /\ pc' = [pc EXCEPT ![t] = "ended"]
    /\ UNCHANGED <<pool, trackFields, rel, relFiles, claimed>>

\* <-rel.done returned, but the leader queued nothing: claim again.
RetryClaim(t) ==
    /\ pc[t] = "wait"
    /\ closed[rel[t]] > 0
    /\ relFiles[rel[t]] = {}
    /\ pc' = [pc EXCEPT ![t] = "query"]
    /\ UNCHANGED <<pool, registry, trackFields, role, rel>>

\* What findPrimary can pick for t among the files nobody has claimed.  Which
\* of several matches comes first is the peer's file order, left open here.
Candidates(t) == {f \in relFiles[rel[t]] \ claimed[rel[t]] : <<t, f>> \in Matches}

\* Broken variant: the file is not taken out of the leader's siblings.
Share_KeepSibling(t, f) ==
    /\ pc[t] = "wait"
    /\ closed[rel[t]] > 0
    /\ f \in Candidates(t)
    /\ claimed' = [claimed EXCEPT ![rel[t]] = @ \cup {f}]
    /\ id' = [id EXCEPT ![t] = SharedID(rel[t], Cardinality(claimed[rel[t]] \cup {f}))]
    /\ file' = [file EXCEPT ![t] = f]
    /\ role' = [role EXCEPT ![t] = "shared"]
    /\ pc' = [pc EXCEPT ![t] = "get"]
    /\ UNCHANGED <<pool, rel, releases, closed, relFiles, siblings>>

Share(t, f) ==
    /\ pc[t] = "wait"
    /\ closed[rel[t]] > 0
    /\ relFiles[rel[t]] # {}
    /\ f \in Candidates(t)
    /\ LET l == rel[t] IN
         /\ claimed' = [claimed EXCEPT ![l] = @ \cup {f}]
         /\ siblings' = [siblings EXCEPT ![l] = @ \ {f}]
         /\ id' = [id EXCEPT ![t] = SharedID(l, Cardinality(claimed[l] \cup {f}))]
    /\ file' = [file EXCEPT ![t] = f]
    /\ role' = [role EXCEPT ![t] = "shared"]
    /\ pc' = [pc EXCEPT ![t] = "get"]
    /\ UNCHANGED <<pool, rel, releases, closed, relFiles>>

\* The release lacks the track: it is searched for and fetched alone.
FallBackToSingle(t) ==
    /\ pc[t] = "wait"
    /\ closed[rel[t]] > 0
    /\ relFiles[rel[t]] # {}
    /\ Candidates(t) = {}
    /\ role' = [role EXCEPT ![t] = "single"]
    /\ pc' = [pc EXCEPT ![t] = "search"]
    /\ UNCHANGED <<pool, registry, trackFields, rel>>

-----------------------------------------------------------------------------
(* GetTrack *)

\* A shared track is already queued as part of another track's release.
GetShared(t) ==
    /\ pc[t] = "get"
    /\ role[t] = "shared"
    /\ pc' = [pc EXCEPT ![t] = "ended"]
    /\ UNCHANGED <<pool, registry, trackFields, role, rel>>

\* getSingle queues one file that CollectFiles accepted for the track.
GetSingle(t, f) ==
    /\ pc[t] = "get"
    /\ role[t] = "single"
    /\ <<t, f>> \in Matches
    /\ file' = [file EXCEPT ![t] = f]
    /\ pc' = [pc EXCEPT ![t] = "ended"]
    /\ UNCHANGED <<pool, registry, role, rel, id, siblings>>

\* queueAlbum: one request queues the whole directory F, the primary p first.
QueueRelease(t, p, F) ==
    /\ pc[t] = "get"
    /\ role[t] \in {"album", "leader"}
    /\ p \in F
    /\ <<t, p>> \in Matches
    /\ file' = [file EXCEPT ![t] = p]
    /\ siblings' = [siblings EXCEPT ![t] = F \ {p}]
    /\ pc' = [pc EXCEPT ![t] = IF role[t] = "leader" THEN "publish" ELSE "ended"]
    /\ UNCHANGED <<pool, registry, role, rel, id>>

\* Broken variants: the primary is not claimed, and the channel is not closed.
Publish_NoClaim(t) ==
    /\ pc[t] = "publish"
    /\ relFiles' = [relFiles EXCEPT ![t] = siblings[t] \cup {file[t]}]
    /\ closed' = [closed EXCEPT ![t] = @ + 1]
    /\ pc' = [pc EXCEPT ![t] = "ended"]
    /\ UNCHANGED <<pool, trackFields, role, rel, releases, claimed>>

Publish_NoClose(t) ==
    /\ pc[t] = "publish"
    /\ relFiles' = [relFiles EXCEPT ![t] = siblings[t] \cup {file[t]}]
    /\ claimed' = [claimed EXCEPT ![t] = @ \cup {file[t]}]
    /\ pc' = [pc EXCEPT ![t] = "ended"]
    /\ UNCHANGED <<pool, trackFields, role, rel, releases, closed>>

\* releaseRegistry.publish.  The files are the ones queueAlbum returned, which
\* are still exactly the leader's own: nobody else can see the release yet.
Publish(t) ==
    /\ pc[t] = "publish"
    /\ relFiles' = [relFiles EXCEPT ![t] = siblings[t] \cup {file[t]}]
    /\ claimed' = [claimed EXCEPT ![t] = @ \cup {file[t]}]
    /\ closed' = [closed EXCEPT ![t] = @ + 1]
    /\ pc' = [pc EXCEPT ![t] = "ended"]
    /\ UNCHANGED <<pool, trackFields, role, rel, releases>>

\* No usable result, or slskd refused the request.
GetFails(t) ==
    /\ pc[t] = "get"
    /\ role[t] # "shared"
    /\ IF role[t] = "leader" THEN Fail(t) ELSE UNCHANGED <<role, releases, closed>>
    /\ pc' = [pc EXCEPT ![t] = "ended"]
    /\ UNCHANGED <<pool, trackFields, rel, relFiles, claimed>>

-----------------------------------------------------------------------------

Worker(t) ==
    \/ QueryAlone(t) \/ ClaimAsLeader(t) \/ ClaimAsFollower(t)
    \/ SearchSucceeds(t) \/ SearchFails(t)
    \/ RetryClaim(t) \/ FallBackToSingle(t) \/ (\E f \in Files : Share(t, f))
    \/ GetShared(t) \/ (\E f \in Files : GetSingle(t, f))
    \/ (\E p \in Files, F \in SUBSET Files : QueueRelease(t, p, F))
    \/ Publish(t) \/ GetFails(t)

Finished == phase = "monitor" /\ UNCHANGED vars

Next == WaitAll \/ Finished \/ \E t \in Tracks : Launch(t) \/ Worker(t)

Spec == Init /\ [][Next]_vars

\* Every slskd call is bounded by the HTTP client's timeout and every search by
\* its poll count, so a worker that can take a step eventually does.
Fairness == /\ WF_vars(WaitAll)
            /\ \A t \in Tracks : WF_vars(Launch(t)) /\ WF_vars(Worker(t))

FairSpec == Spec /\ Fairness

-----------------------------------------------------------------------------
(* Properties *)

Published(l) == relFiles[l] # {}
Followers(l) == {t \in Tracks : role[t] = "shared" /\ rel[t] = l}

\* The values the registry's and the tracks' fields can have.
TypeOK ==
    /\ launched \in 0..NTracks
    /\ phase \in {"pool", "monitor"}
    /\ pc \in [Tracks -> Stages]
    /\ role \in [Tracks -> Roles]
    /\ rel \in [Tracks -> Tracks \cup {None}]
    /\ releases \in [Albums -> Tracks \cup {None}]
    /\ closed \in [Tracks -> Nat]
    /\ relFiles \in [Tracks -> SUBSET Files]
    /\ claimed \in [Tracks -> SUBSET Files]
    /\ id \in [Tracks -> Nat \X Nat]
    /\ file \in [Tracks -> Files \cup {None}]
    /\ siblings \in [Tracks -> SUBSET Files]

\* "two tracks can never be handed the same file" (sharedRelease.claimed): the
\* leader of a release and the tracks that share it all follow different files.
ExclusiveFiles ==
    \A l \in Tracks : Published(l) =>
        \A t, u \in Followers(l) \cup {l} : t # u => file[t] # file[u]

\* A queued release is accounted for exactly once: each of its files is either
\* some track's own or one of the leader's siblings, never both and never
\* neither, so MoveDownload and MoveAlbumSiblings together move each file once.
NothingLostOrDoubled ==
    \A l \in Tracks : Published(l) =>
        /\ siblings[l] \cup {file[t] : t \in Followers(l) \cup {l}} = relFiles[l]
        /\ \A t \in Followers(l) \cup {l} : file[t] \notin siblings[l]

\* A release's done channel is closed by publish or by fail, whichever comes,
\* and never again: a second close panics the process.
ClosedOnce == \A l \in Tracks : closed[l] <= 1

\* No two monitored tracks have the same ID: the monitor and slskd's status map
\* look a track up by it.
DistinctIDs == \A t, u \in Tracks : t # u /\ id[t] # NoID => id[t] # id[u]

\* An album's release is queued for one leader only, however many of its tracks
\* fail first or are started after it.
OneReleasePerAlbum ==
    \A l, m \in Tracks :
        /\ l # m
        /\ pc[l] = "publish" \/ Published(l)
        /\ pc[m] = "publish" \/ Published(m)
        => AlbumKey[l] # AlbumKey[m]

\* A worker that blocks on a release keeps its slot, so nobody may ever wait for
\* a release whose leader has returned without resolving it.
NobodyWaitsForever ==
    \A t \in Tracks : pc[t] = "wait" /\ closed[rel[t]] = 0 =>
        /\ rel[t] \in Running \ {t}
        /\ pc[rel[t]] \in {"search", "get", "publish"}

\* Once a release is out its files are fixed, no claim on it is ever taken back
\* and its album never changes hands, whoever fails later.
PublishedIsFinal ==
    [][\A l \in Tracks : Published(l) =>
          /\ relFiles'[l] = relFiles[l]
          /\ claimed[l] \subseteq claimed'[l]
          /\ releases'[AlbumKey[l]] = l]_vars

\* The pool drains whichever searches and requests fail: followers that block
\* while holding a slot never starve their own leader.
PoolDrains == <>(phase = "monitor")

\* Who follows which file of which album's release.
Handed == {h \in Albums \X Tracks \X Files :
             /\ releases[h[1]] # None
             /\ Published(releases[h[1]])
             /\ h[2] \in Followers(releases[h[1]]) \cup {releases[h[1]]}
             /\ h[3] = file[h[2]]}

Handout == INSTANCE AlbumHandout WITH holder <- releases, handed <- Handed

\* The registry implements the abstract handout: an album has one holder at a
\* time, only a holder that queued nothing steps down, and once the release is
\* out each of its files goes to one track.
HandsOutAlbums == Handout!HandoutSpec
=============================================================================
