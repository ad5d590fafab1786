-------------------------- MODULE DownloadMonitor --------------------------
(***************************************************************************)
(* MonitorDownloads: one provider's monitoring phase.  Each tick polls the *)
(* provider, walks the tracks in order with that snapshot, revisits the    *)
(* releases whose siblings are still downloading, and decides whether to   *)
(* stop.  Peers make progress, stop or fail at any moment in between.      *)
(*                                                                         *)
(* Time is counted in ticks (CheckInterval), kept as ages that stop        *)
(* counting once they have passed every limit they are compared with.      *)
(***************************************************************************)
EXTENDS Naturals, FiniteSets

CONSTANTS NTracks,        \* the tracks, in playlist order
          Size,           \* bytes of each track's file
          Siblings,       \* files of releases beyond the recommended tracks
          Owner,          \* the track each sibling was queued for
          MonitorConfigs, \* the durations it may be configured with
          MigrateDownload,
          None

maxPollFailures == 3
Tracks == 1..NTracks

ASSUME MonitorAssumption ==
    /\ NTracks \in Nat /\ Size \in [Tracks -> Nat \ {0}]
    /\ MonitorConfigs \subseteq [StallDuration : Nat, MaxDuration : Nat, FallbackAfter : Nat,
                                CleanupMayFail : BOOLEAN]
    /\ Owner \in [Siblings -> Tracks] /\ IsFiniteSet(Siblings) /\ Siblings \cap Tracks = {}
    /\ MigrateDownload \in BOOLEAN
    /\ None \notin [last : Nat, counter : Nat, idle : Nat, age : Nat, skipped : BOOLEAN]
    /\ None \notin [remaining : Nat, age : Nat, idle : Nat]

VARIABLES
    cfg,           \* MonitorConfig, and whether the provider may refuse a cancellation
    xfer,          \* the provider's transfer of each track; "none": never queued
    bytes,         \* bytes transferred so far
    sibling,       \* the provider's transfer of each sibling
    pc,            \* "tick", "tracks", "albums", "exit" or "returned"
    cursor,        \* the track the loop is at
    snapshot,      \* statuses: what the last successful poll returned
    pollFailures,
    phaseAge,      \* ticks since phaseStart
    tracker,       \* progressMap
    pendingAlbums, \* releases waiting for siblings
    hasID,         \* track.ID # ""
    present,       \* track.Present
    albumFiles,    \* track.AlbumFiles
    library,       \* tracks and siblings whose whole file is in the library
    outcome        \* how the phase ended: "running", "finished", "fallback", "gaveUp"

provider == <<xfer, bytes, sibling>>
control == <<pc, cursor, snapshot, pollFailures, phaseAge, outcome>>
results == <<tracker, pendingAlbums, hasID, present, albumFiles, library>>
vars == <<cfg, provider, control, results>>

StallDuration == cfg.StallDuration
MaxDuration == cfg.MaxDuration
FallbackAfter == cfg.FallbackAfter     \* 0: wait indefinitely
CleanupMayFail == cfg.CleanupMayFail

\* Ages stop one past the largest limit.
AgeCap == 1 + (IF MaxDuration > StallDuration THEN MaxDuration ELSE StallDuration)
PhaseCap == 2 * MaxDuration + FallbackAfter + 5 * maxPollFailures
Older(age) == IF age < AgeCap THEN age + 1 ELSE age

NewTracker == [last |-> 0, counter |-> 0, idle |-> 0, age |-> 0, skipped |-> FALSE]
Skipped(t) == tracker[t] # None /\ tracker[t].skipped
Missing == [state |-> "missing", bytes |-> 0]

Init == /\ cfg \in MonitorConfigs
        /\ hasID \in [Tracks -> BOOLEAN]
        /\ xfer \in [Tracks -> {"none", "active"}]
        /\ \A t \in Tracks : xfer[t] # "none" => hasID[t]
        /\ bytes = [t \in Tracks |-> 0]
        /\ sibling \in [Siblings -> {"none", "active"}]
        /\ \A s \in Siblings : sibling[s] # "none" => xfer[Owner[s]] # "none"
        /\ albumFiles = [t \in Tracks |-> {s \in Siblings : Owner[s] = t /\ sibling[s] # "none"}]
        /\ pc = "tick" /\ cursor = 1
        /\ snapshot = [t \in Tracks |-> Missing]
        /\ pollFailures = 0 /\ phaseAge = 0
        /\ tracker = [t \in Tracks |-> None]
        /\ pendingAlbums = [t \in Tracks |-> None]
        /\ present = [t \in Tracks |-> FALSE]
        /\ library = {}
        /\ outcome = "running"

-----------------------------------------------------------------------------
(* The provider: peers send, finish or fail whenever they like. *)

PeerSends(t) == /\ xfer[t] = "active" /\ bytes[t] < Size[t]
                /\ bytes' = [bytes EXCEPT ![t] = @ + 1]
                /\ UNCHANGED <<xfer, sibling>>

\* A transfer is reported complete only after its last byte, so between the two
\* the file has all its bytes but is not yet where the monitor looks for it.
PeerEnds(t) == /\ xfer[t] = "active"
               /\ \/ bytes[t] = Size[t] /\ xfer' = [xfer EXCEPT ![t] = "succeeded"]
                  \/ xfer' = [xfer EXCEPT ![t] = "errored"]
               /\ UNCHANGED <<bytes, sibling>>

SiblingEnds(s) == /\ sibling[s] = "active"
                  /\ \E end \in {"succeeded", "errored"} : sibling' = [sibling EXCEPT ![s] = end]
                  /\ UNCHANGED <<xfer, bytes>>

Peers == /\ \/ \E t \in Tracks : PeerSends(t) \/ PeerEnds(t)
            \/ \E s \in Siblings : SiblingEnds(s)
         /\ outcome = "running"
         /\ UNCHANGED <<cfg, control, results>>

\* Monitor.Cleanup cancels the track's own download if it is still running.
Cleanup(t) == /\ \/ xfer' = [xfer EXCEPT ![t] = IF @ = "active" THEN "cancelled" ELSE @]
                 \/ CleanupMayFail /\ UNCHANGED xfer
              /\ UNCHANGED <<bytes, sibling>>

-----------------------------------------------------------------------------
(* The tick *)

\* Every deadline is measured against the clock, whether the poll succeeds or not.
TimePasses ==
    /\ phaseAge' = IF phaseAge < PhaseCap THEN phaseAge + 1 ELSE phaseAge
    /\ tracker' = [t \in Tracks |-> IF tracker[t] = None THEN None
                     ELSE [tracker[t] EXCEPT !.idle = Older(@), !.age = Older(@)]]
    /\ pendingAlbums' = [t \in Tracks |-> IF pendingAlbums[t] = None THEN None
                     ELSE [pendingAlbums[t] EXCEPT !.idle = Older(@), !.age = Older(@)]]

PollFails ==
    /\ pc = "tick"
    /\ TimePasses
    /\ pollFailures' = pollFailures + 1
    /\ IF pollFailures + 1 >= maxPollFailures
       THEN pc' = "returned" /\ outcome' = "gaveUp"
       ELSE UNCHANGED <<pc, outcome>>
    /\ UNCHANGED <<provider, cursor, snapshot, hasID, present, albumFiles, library>>

\* The provider may not have surfaced a transfer yet, so any of them can be
\* absent from the answer.
PollSucceeds ==
    /\ pc = "tick"
    /\ TimePasses
    /\ pollFailures' = 0
    /\ \E seen \in SUBSET {t \in Tracks : xfer[t] # "none"} :
         snapshot' = [t \in Tracks |-> IF t \in seen THEN [state |-> xfer[t], bytes |-> bytes[t]]
                                       ELSE Missing]
    /\ pc' = (IF NTracks = 0 THEN "exit" ELSE "tracks") /\ cursor' = 1
    /\ UNCHANGED <<provider, outcome, hasID, present, albumFiles, library>>

-----------------------------------------------------------------------------
(* One track of the loop *)

\* The tracker the loop works on, created when the track is first looked at.
Tracker(t) == IF tracker[t] = None THEN NewTracker ELSE tracker[t]
Expired(t) == MaxDuration > 0 /\ Tracker(t).age > MaxDuration
Stalled(t) == Tracker(t).idle > StallDuration
Complete(t) == snapshot[t].state = "succeeded" \/ snapshot[t].bytes = Size[t]
Progressed(t) == snapshot[t].bytes > Tracker(t).last /\ ~ Expired(t)

At(t) == pc = "tracks" /\ cursor = t
Watched_Skipped(t) == At(t) /\ hasID[t] /\ ~ present[t]   \* broken: skipped tracks are looked at again
Watched(t) == At(t) /\ hasID[t] /\ ~ present[t] /\ ~ Skipped(t)
Advance == /\ IF cursor = NTracks THEN pc' = "albums" /\ cursor' = 1
                                   ELSE pc' = "tracks" /\ cursor' = cursor + 1
           /\ UNCHANGED <<snapshot, pollFailures, phaseAge, outcome>>

PassOver(t) == /\ At(t)
               /\ ~ hasID[t] \/ present[t] \/ Skipped(t)
               /\ Advance
               /\ UNCHANGED <<provider, results>>

\* Broken variant: an absent track is waited for for ever.
NotInQueue_Forever(t) ==
    /\ Watched(t)
    /\ snapshot[t].state = "missing"
    /\ tracker' = [tracker EXCEPT ![t] = Tracker(t)]
    /\ Advance
    /\ UNCHANGED <<provider, pendingAlbums, hasID, present, albumFiles, library>>

NotInQueue(t) ==
    /\ Watched(t)
    /\ snapshot[t].state = "missing"
    /\ tracker' = [tracker EXCEPT ![t] = [Tracker(t) EXCEPT !.counter = @ + 1,
                                                            !.skipped = Tracker(t).counter + 1 >= 2]]
    /\ Advance
    /\ UNCHANGED <<provider, pendingAlbums, hasID, present, albumFiles, library>>

\* Broken variant: whatever is there is moved, finished or not.
MoveAlbumSiblings_Partial(t, moved, there) ==
    /\ moved \subseteq there /\ there \subseteq albumFiles[t]
    /\ albumFiles' = [albumFiles EXCEPT ![t] = {s \in @ \ moved : sibling[s] # "errored"}]

\* MoveAlbumSiblings with slskd's current states: moved, files that finished and
\* whose moveFile succeeded, leave AlbumFiles with the ones slskd gave up on.  A
\* move that fails keeps the file pending, whether it failed before the copy or
\* after it (sync, permissions, removal of the source), so there, what the library
\* holds afterwards of the files listed, may be more than moved; it may be less
\* than before, when the destination cannot be looked at and the copy over it
\* fails.  A failed lookup drops nothing.
MoveAlbumSiblings(t, moved, there) ==
    \/ /\ moved \subseteq there
       /\ there \subseteq {s \in albumFiles[t] : sibling[s] = "succeeded"}
       /\ albumFiles' = [albumFiles EXCEPT ![t] = {s \in @ \ moved : sibling[s] # "errored"}]
    \/ moved = {} /\ there = library \cap albumFiles[t] /\ UNCHANGED albumFiles

LibraryWith(t, there) == (library \ albumFiles[t]) \cup there

\* trackAlbum: migrate what is there, remember the release if files are left.
TrackAlbum(t) ==
    pendingAlbums' = [pendingAlbums EXCEPT ![t] =
        IF albumFiles'[t] = {} THEN None
        ELSE [remaining |-> Cardinality(albumFiles'[t]), age |-> 0, idle |-> 0]]

\* Broken variant: the move's error is only logged.
MoveFails_StillPresent(t) ==
    /\ Watched(t)
    /\ Complete(t) /\ MigrateDownload
    /\ present' = [present EXCEPT ![t] = TRUE]
    /\ tracker' = [tracker EXCEPT ![t] = None]
    /\ Cleanup(t)
    /\ Advance
    /\ UNCHANGED <<pendingAlbums, hasID, albumFiles, library>>

\* MoveDownload reports an error before the file is in the library, or after
\* (source directory not removable, permissions not settable).
MoveFails(t) ==
    /\ Watched(t)
    /\ Complete(t) /\ MigrateDownload
    /\ \/ UNCHANGED library
       \/ xfer[t] = "succeeded" /\ library' = library \cup {t}
    /\ tracker' = [tracker EXCEPT ![t] = [Tracker(t) EXCEPT !.counter = 0, !.skipped = TRUE]]
    /\ Cleanup(t)
    /\ Advance
    /\ UNCHANGED <<pendingAlbums, hasID, present, albumFiles>>

Arrives(t, moved, there) ==
    /\ Watched(t)
    /\ Complete(t)
    /\ IF MigrateDownload
       THEN /\ xfer[t] = "succeeded"
            /\ library' = LibraryWith(t, there) \cup {t}
            /\ MoveAlbumSiblings(t, moved, there)
            /\ TrackAlbum(t)
       ELSE moved = {} /\ there = {} /\ UNCHANGED <<library, albumFiles, pendingAlbums>>
    /\ present' = [present EXCEPT ![t] = TRUE]
    /\ tracker' = [tracker EXCEPT ![t] = None]
    /\ Cleanup(t)
    /\ Advance
    /\ UNCHANGED hasID

Progresses(t) ==
    /\ Watched(t)
    /\ snapshot[t].state # "missing" /\ ~ Complete(t) /\ Progressed(t)
    /\ tracker' = [tracker EXCEPT ![t] = [Tracker(t) EXCEPT !.counter = 0, !.last = snapshot[t].bytes, !.idle = 0]]
    /\ Advance
    /\ UNCHANGED <<provider, pendingAlbums, hasID, present, albumFiles, library>>

GivenUp(t) ==
    /\ Watched(t)
    /\ snapshot[t].state # "missing" /\ ~ Complete(t) /\ ~ Progressed(t)
    /\ snapshot[t].state \in {"errored", "cancelled"} \/ Stalled(t) \/ Expired(t)
    /\ tracker' = [tracker EXCEPT ![t] = [Tracker(t) EXCEPT !.counter = 0, !.skipped = TRUE]]
    /\ Cleanup(t)
    /\ Advance
    /\ UNCHANGED <<pendingAlbums, hasID, present, albumFiles, library>>

StillWaiting(t) ==
    /\ Watched(t)
    /\ snapshot[t].state \notin {"missing", "errored", "cancelled"}
    /\ ~ Complete(t) /\ ~ Progressed(t) /\ ~ Stalled(t) /\ ~ Expired(t)
    /\ tracker' = [tracker EXCEPT ![t] = [Tracker(t) EXCEPT !.counter = 0]]
    /\ Advance
    /\ UNCHANGED <<provider, pendingAlbums, hasID, present, albumFiles, library>>

-----------------------------------------------------------------------------
(* After the loop *)

\* Broken variant: only a release that is complete is ever let go.
PendingAlbum_NoDeadline(t, moved, there) ==
    /\ MoveAlbumSiblings(t, moved, there)
    /\ library' = LibraryWith(t, there)
    /\ pendingAlbums' = [pendingAlbums EXCEPT ![t] =
         IF albumFiles'[t] = {} THEN None
         ELSE [remaining |-> Cardinality(albumFiles'[t]), age |-> pendingAlbums[t].age, idle |-> 0]]

\* migratePendingAlbums, one release at a time in cursor order; the map's order
\* does not matter because releases share no file.
PendingAlbum(t, moved, there) ==
    LET remaining == Cardinality(albumFiles'[t])
        album == pendingAlbums[t]
        idle == IF remaining < album.remaining THEN 0 ELSE album.idle
    IN /\ MoveAlbumSiblings(t, moved, there)
       /\ library' = LibraryWith(t, there)
       /\ pendingAlbums' = [pendingAlbums EXCEPT ![t] =
            IF \/ remaining = 0
               \/ idle > StallDuration
               \/ MaxDuration > 0 /\ album.age > MaxDuration
            THEN None
            ELSE [remaining |-> remaining, age |-> album.age, idle |-> idle]]

MigratePendingAlbums ==
    /\ pc = "albums"
    /\ IF pendingAlbums[cursor] = None
       THEN UNCHANGED <<albumFiles, library, pendingAlbums>>
       ELSE \E moved, there \in SUBSET albumFiles[cursor] : PendingAlbum(cursor, moved, there)
    /\ IF cursor = NTracks THEN pc' = "exit" /\ cursor' = 1
                           ELSE cursor' = cursor + 1 /\ UNCHANGED pc
    /\ UNCHANGED <<provider, snapshot, pollFailures, phaseAge, outcome, tracker, hasID, present>>

tracksProcessed == {t \in Tracks : ~ present[t] /\ tracker[t] # None /\ ~ tracker[t].skipped} = {}

Finish ==
    /\ pc = "exit"
    /\ tracksProcessed /\ \A t \in Tracks : pendingAlbums[t] = None
    /\ pc' = "returned" /\ outcome' = "finished"
    /\ UNCHANGED <<provider, cursor, snapshot, pollFailures, phaseAge, results>>

Open == ~ (tracksProcessed /\ \A t \in Tracks : pendingAlbums[t] = None)

\* abandonUnresolved cancels what the last poll saw of the undecided tracks.
FallBack ==
    /\ pc = "exit" /\ Open
    /\ FallbackAfter > 0 /\ phaseAge > FallbackAfter
    /\ LET unresolved == {t \in Tracks : ~ present[t] /\ ~ Skipped(t) /\ snapshot[t].state # "missing"} IN
         \E kept \in IF CleanupMayFail THEN SUBSET unresolved ELSE {{}} :
            xfer' = [t \in Tracks |-> IF t \in unresolved \ kept /\ xfer[t] = "active" THEN "cancelled" ELSE xfer[t]]
    /\ pc' = "returned" /\ outcome' = "fallback"
    /\ UNCHANGED <<bytes, sibling, cursor, snapshot, pollFailures, phaseAge, results>>

\* Broken variant: the budget is not looked at.
NextTick_NoBudget ==
    /\ pc = "exit" /\ Open
    /\ pc' = "tick"
    /\ UNCHANGED <<provider, cursor, snapshot, pollFailures, phaseAge, outcome, results>>

NextTick ==
    /\ pc = "exit" /\ Open
    /\ ~ (FallbackAfter > 0 /\ phaseAge > FallbackAfter)
    /\ pc' = "tick"
    /\ UNCHANGED <<provider, cursor, snapshot, pollFailures, phaseAge, outcome, results>>

-----------------------------------------------------------------------------

Visit(t) == \/ PassOver(t) \/ NotInQueue(t) \/ MoveFails(t) \/ Progresses(t) \/ GivenUp(t) \/ StillWaiting(t)
            \/ \E moved, there \in SUBSET albumFiles[t] : Arrives(t, moved, there)

Monitor == /\ UNCHANGED cfg
           /\ \/ PollFails \/ PollSucceeds
              \/ \E t \in Tracks : Visit(t)
              \/ MigratePendingAlbums \/ Finish \/ FallBack \/ NextTick

Returned == pc = "returned" /\ UNCHANGED vars

Next == Monitor \/ Peers \/ Returned

\* The ticker keeps firing and every provider call has a timeout, so the monitor
\* always takes its next step.  Peers owe nobody anything.
Spec == Init /\ [][Next]_vars /\ WF_vars(Monitor)

-----------------------------------------------------------------------------
(* Properties *)

Ages == 0..AgeCap
States == {"none", "active", "succeeded", "errored", "cancelled"}

\* The values of the monitor's maps, of the tracks' fields and of the transfers.
TypeOK ==
    /\ cfg \in MonitorConfigs
    /\ xfer \in [Tracks -> States]
    /\ bytes \in [Tracks -> Nat] /\ \A t \in Tracks : bytes[t] <= Size[t]
    /\ sibling \in [Siblings -> States]
    /\ pc \in {"tick", "tracks", "albums", "exit", "returned"}
    /\ cursor \in Tracks \cup {1} /\ (pc \in {"tracks", "albums"} => cursor \in Tracks)
    /\ snapshot \in [Tracks -> [state : States \cup {"missing"}, bytes : Nat]]
    /\ pollFailures \in 0..maxPollFailures
    /\ phaseAge \in 0..PhaseCap
    /\ tracker \in [Tracks -> [last : Nat, counter : 0..2, idle : Ages, age : Ages, skipped : BOOLEAN] \cup {None}]
    /\ pendingAlbums \in [Tracks -> [remaining : 1..Cardinality(Siblings), age : Ages, idle : Ages] \cup {None}]
    /\ hasID \in [Tracks -> BOOLEAN]
    /\ present \in [Tracks -> BOOLEAN]
    /\ albumFiles \in [Tracks -> SUBSET Siblings]
    /\ library \subseteq Tracks \cup Siblings
    /\ outcome \in {"running", "finished", "fallback", "gaveUp"}

\* "The song never landed in the library, so it must not be marked Present"
\* (MonitorDownloads): whatever the move reports, a track the playlist will be
\* built from has its file in the library.
PresentMeansLanded == MigrateDownload => \A t \in Tracks : present[t] => t \in library

\* "copying a partial file would put a truncated track in the library"
\* (MoveAlbumSiblings): only what the provider finished is ever there, and what
\* has left AlbumFiles is there or failed at the provider, however often its move
\* failed before.  (A file whose move failed after the copy is there and listed.)
SiblingsSettled ==
    \A s \in Siblings :
        /\ s \in library => sibling[s] = "succeeded"
        /\ s \notin albumFiles[Owner[s]] => s \in library \/ sibling[s] \in {"errored", "none"}

\* Within a phase a track is decided once: a track that has arrived is never
\* dropped or moved again, and one given up never comes back.
VerdictsStand ==
    [][\A t \in Tracks : /\ present[t] => present'[t] /\ tracker'[t] = None
                         /\ Skipped(t) => ~ present'[t] /\ tracker'[t].skipped]_vars

\* "FallbackAfter bounds the whole monitor phase for one provider"
\* (MonitorConfig): failed polls stretch the phase past it, but by no more than
\* the monitor would have waited to give up.
FallbackBounds ==
    FallbackAfter > 0 /\ outcome = "running" => phaseAge <= FallbackAfter + maxPollFailures

\* "the monitor cannot be held open by a peer that has gone away or slowed to a
\* crawl" (migratePendingAlbums): tracks and then releases are each cut off at
\* MaxDuration, give or take the polls that fail or miss the transfer.
MaxDurationBounds ==
    MaxDuration > 0 /\ outcome = "running" => phaseAge <= 2 * MaxDuration + 4 * maxPollFailures

\* The phase ends whatever the peers do.
MonitorEnds == <>(outcome # "running")
=============================================================================
