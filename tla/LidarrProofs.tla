---------------------------- MODULE LidarrProofs ----------------------------
(***************************************************************************)
(* What the Lidarr downloader guarantees for any number of tracks of an    *)
(* album: a track with an AlbumID finds its album in the cache, the cache  *)
(* outlives the workers that fill it, and a track that arrived has its     *)
(* file in the library if its import was seen before the album was moved.  *)
(***************************************************************************)
EXTENDS Lidarr, TLAPS

-----------------------------------------------------------------------------
(* Type correctness *)

Entries == Seq(Lists \cup {NoList})

LEMMA LoadedType ==
    ASSUME TypeOK, NEW h \in 1..Len(lists), NEW l \in Loaded(h)
    PROVE  /\ l \in Lists
           /\ [lists EXCEPT ![h] = l] \in Entries
           /\ Len([lists EXCEPT ![h] = l]) = Len(lists)
  <1>1. lists[h] \in Lists \cup {NoList}
    BY DEF TypeOK
  <1>2. NoTracks \in Lists
    BY DEF NoTracks, Lists
  <1>3. [known |-> catalog, filed |-> hasFile] \in Lists
    BY DEF TypeOK, Lists
  <1>4. l \in Lists
    BY <1>1, <1>2, <1>3 DEF Loaded
  <1> QED
    BY <1>4 DEF TypeOK, Entries

LEMMA CachedType ==
    ASSUME TypeOK, cacheAlbum
    PROVE  lists' \in Entries /\ Len(lists') = Len(lists) + 1 /\ files' = {} /\ moved' = FALSE /\ due' = {}
  BY DEF TypeOK, cacheAlbum, Entries

LEMMA TypeInit == Init => TypeOK
  <1> SUFFICES ASSUME Init PROVE TypeOK
    OBVIOUS
  <1>1. imports \subseteq Tracks /\ hasFile \subseteq Tracks /\ catalog \subseteq Tracks
        /\ outside \subseteq Tracks
    BY LidarrAssumption DEF Init
  <1>2. lists \in Seq(Lists \cup {NoList}) /\ Len(lists) = 0
    BY DEF Init
  <1>3. inLibrary \in BOOLEAN /\ searched \in BOOLEAN /\ moved \in BOOLEAN
    BY DEF Init
  <1>4. record \in [state : Items, item : Nat]
    BY DEF Init, Items
  <1>5. pc \in [Tracks -> {"start", "look", "find", "search", "add", "accepted", "wait", "done"}]
        /\ \A t \in Tracks : pc[t] = "start"
    BY DEF Init
  <1>6. /\ verdict \in [Tracks -> Verdicts]
        /\ status \in [Tracks -> Items \cup {"imported"}]
        /\ misses \in [Tracks -> Nat]
        /\ holds \in [Tracks -> 0..Len(lists)]
        /\ stage \in [Tracks -> {"query", "get", "add"}]
    BY <1>2 DEF Init, Verdicts, Items
  <1>7. /\ root \subseteq Tracks /\ library \subseteq Tracks /\ files \subseteq Tracks /\ due \subseteq Tracks
        /\ searches \subseteq {"completed", "failed"} /\ left \subseteq Tracks
        /\ named \subseteq Tracks /\ placed \subseteq Tracks
        /\ download \in Items /\ grabs \in Nat
        /\ poll \in {"missed", "queue", "history", "tracks", "over"}
    BY <1>1 DEF Init, Items
  <1> QED
    BY <1>1, <1>2, <1>3, <1>4, <1>5, <1>6, <1>7 DEF TypeOK

\* TypeOK in the parts that the steps disturb.
ServerType ==
    /\ inLibrary \in BOOLEAN /\ searched \in BOOLEAN
    /\ outside \subseteq Tracks
    /\ catalog \subseteq Tracks /\ hasFile \subseteq Tracks /\ imports \subseteq Tracks
    /\ searches \subseteq {"completed", "failed"}
    /\ download \in Items /\ grabs \in Nat
FilesType == root \subseteq Tracks /\ library \subseteq Tracks
CacheType ==
    /\ lists \in Seq(Lists \cup {NoList})
    /\ files \subseteq Tracks /\ due \subseteq Tracks /\ moved \in BOOLEAN
WorkerType ==
    /\ pc \in [Tracks -> {"start", "look", "find", "search", "add", "accepted", "wait", "done"}]
    /\ stage \in [Tracks -> {"query", "get", "add"}]
    /\ holds \in [Tracks -> 0..Len(lists)]
    /\ \A t \in Tracks : pc[t] = "find" => holds[t] > 0
FieldsType == named \subseteq Tracks /\ placed \subseteq Tracks /\ verdict \in [Tracks -> Verdicts]
MonitorType ==
    /\ poll \in {"missed", "queue", "history", "tracks", "over"} /\ left \subseteq Tracks
    /\ record \in [state : Items, item : Nat]
    /\ status \in [Tracks -> Items \cup {"imported"}]
    /\ misses \in [Tracks -> Nat]

LEMMA TypeParts ==
    TypeOK <=> ServerType /\ FilesType /\ CacheType /\ WorkerType /\ FieldsType /\ MonitorType
  BY DEF TypeOK, ServerType, FilesType, CacheType, WorkerType, FieldsType, MonitorType

LEMMA IdentifyType ==
    ASSUME TypeOK, NEW found, found \subseteq Tracks, NEW filed, Identify(found, filed)
    PROVE  FieldsType'
  BY DEF TypeOK, Identify, FieldsType, Verdicts

\* What a worker leaves alone, and the two ways in which it changes the cache.
Looks(t) == /\ pc[t] = "find"
            /\ \E l \in Loaded(holds[t]) :
                  /\ lists' = [lists EXCEPT ![holds[t]] = l]
                  /\ Identify({t} \cap l.known, l.filed)
            /\ UNCHANGED <<files, moved, due>>

LEMMA WorkerFrame ==
    ASSUME NEW t \in Tracks, Worker(t)
    PROVE  /\ UNCHANGED <<library, monitor>>
           /\ UNCHANGED <<outside, catalog, searches, download, grabs, hasFile, imports, root>>
           /\ inLibrary' = inLibrary \/ inLibrary' = TRUE
           /\ searched' = searched \/ searched' = TRUE
           /\ pc[t] # "done"
           /\ \/ UNCHANGED <<cache, named, verdict>>
              \/ cacheAlbum /\ UNCHANGED <<named, verdict>>
              \/ Looks(t)
           /\ placed' \in {placed, placed \cup {t}}
  <1> USE DEF Goto, Enter, At, server, cache, fields, monitor
  <1>0. UNCHANGED <<library, monitor>>
    BY DEF Worker
  <1>1. CASE CallFails(t)
    BY <1>0, <1>1 DEF CallFails
  <1>2. CASE populateFromCache(t)
    BY <1>0, <1>2 DEF populateFromCache
  <1>3. CASE QueryTrack(t)
    BY <1>0, <1>3 DEF QueryTrack
  <1>4. CASE LookUp(t)
    BY <1>0, <1>4 DEF LookUp
  <1>5. CASE findTrackID(t)
    <2>1. Looks(t)
      BY <1>5 DEF findTrackID, Looks
    <2> QED
      BY <1>0, <1>5, <2>1 DEF findTrackID, Identify
  <1>6. CASE GetTrack(t)
    BY <1>0, <1>6 DEF GetTrack
  <1>7. CASE triggerAlbumSearch(t)
    BY <1>0, <1>7 DEF triggerAlbumSearch
  <1>8. CASE addNewAlbum(t)
    BY <1>0, <1>8 DEF addNewAlbum
  <1>9. CASE AlreadyAdded(t)
    BY <1>0, <1>9 DEF AlreadyAdded
  <1>10. CASE Accepted(t)
    BY <1>0, <1>10 DEF Accepted
  <1>11. CASE searchStatus(t)
    BY <1>0, <1>11 DEF searchStatus
  <1> QED
    BY <1>1, <1>2, <1>3, <1>4, <1>5, <1>6, <1>7, <1>8, <1>9, <1>10, <1>11 DEF Worker

\* A worker is where it may be, and holds an entry when it is about to look.
LEMMA WorkerPlaces ==
    ASSUME TypeOK, NEW t \in Tracks, Worker(t), lists' \in Entries, Len(lists') >= Len(lists),
           pc[t] = "look" => Cached
    PROVE  WorkerType'
  <1> USE DEF Goto, Enter, At, server, cache, fields, Cached
  <1>1. WorkerType /\ Len(lists) \in Nat /\ Len(lists') \in Nat
    BY DEF TypeOK, WorkerType, Entries
  <1>2. CASE CallFails(t)
    BY <1>1, <1>2 DEF CallFails, WorkerType
  <1>3. CASE populateFromCache(t)
    BY <1>1, <1>3 DEF populateFromCache, WorkerType
  <1>4. CASE QueryTrack(t)
    BY <1>1, <1>4 DEF QueryTrack, WorkerType
  <1>5. CASE LookUp(t)
    BY <1>1, <1>5 DEF LookUp, WorkerType
  <1>6. CASE findTrackID(t)
    <2>1. PICK l \in Loaded(holds[t]) :
             CASE stage[t] = "query" /\ {t} \cap l.known # {} /\ ({t} \cap l.known) \cap l.filed = {} -> Enter(t, "get")
               [] stage[t] = "get" /\ ({t} \cap l.known) \cap l.filed = {} -> Goto(t, "search")
               [] OTHER -> Goto(t, "done")
      BY <1>6 DEF findTrackID
    <2>2. Enter(t, "get") \/ Goto(t, "search") \/ Goto(t, "done")
      BY <2>1
    <2>3. holds' = holds
      BY <1>6 DEF findTrackID
    <2> QED
      BY <1>1, <2>2, <2>3 DEF WorkerType
  <1>7. CASE GetTrack(t)
    BY <1>1, <1>7 DEF GetTrack, WorkerType
  <1>8. CASE triggerAlbumSearch(t)
    BY <1>1, <1>8 DEF triggerAlbumSearch, WorkerType
  <1>9. CASE addNewAlbum(t)
    BY <1>1, <1>9 DEF addNewAlbum, WorkerType
  <1>10. CASE AlreadyAdded(t)
    BY <1>1, <1>10 DEF AlreadyAdded, WorkerType
  <1>11. CASE Accepted(t)
    BY <1>1, <1>11 DEF Accepted, WorkerType
  <1>12. CASE searchStatus(t)
    BY <1>1, <1>12 DEF searchStatus, WorkerType
  <1> QED
    BY <1>2, <1>3, <1>4, <1>5, <1>6, <1>7, <1>8, <1>9, <1>10, <1>11, <1>12 DEF Worker

\* The album is cached before anyone is told to look at it.
CacheInv == /\ PlacedMeansCached
            /\ \A t \in Tracks : pc[t] = "look" => Cached

LEMMA WorkerStep ==
    ASSUME TypeOK, CacheInv, NEW t \in Tracks, Worker(t)
    PROVE  TypeOK' /\ CacheInv' /\ Len(lists') >= Len(lists)
  <1>1. lists' \in Entries /\ files' \subseteq Tracks /\ due' \subseteq Tracks /\ moved' \in BOOLEAN /\ FieldsType'
        /\ Len(lists') >= Len(lists) /\ Len(lists) \in Nat /\ Len(lists') \in Nat
    <2>0. FieldsType /\ lists \in Entries /\ Len(lists) \in Nat
          /\ files \subseteq Tracks /\ due \subseteq Tracks /\ moved \in BOOLEAN
      BY DEF TypeOK, FieldsType, Entries
    <2>1. placed' \subseteq Tracks
      BY <2>0, WorkerFrame DEF FieldsType
    <2>2. CASE UNCHANGED <<cache, named, verdict>>
      BY <2>0, <2>1, <2>2 DEF cache, FieldsType
    <2>3. CASE cacheAlbum /\ UNCHANGED <<named, verdict>>
      <3>1. lists' \in Entries /\ Len(lists') = Len(lists) + 1 /\ files' = {} /\ moved' = FALSE
            /\ due' = {}
        BY <2>3, CachedType
      <3>2. moved' \in BOOLEAN
        BY <3>1
      <3>3. FieldsType'
        BY <2>0, <2>1, <2>3 DEF FieldsType
      <3> QED
        BY <2>0, <3>1, <3>2, <3>3
    <2>4. CASE Looks(t)
      <3>1. PICK l \in Loaded(holds[t]) :
              /\ lists' = [lists EXCEPT ![holds[t]] = l]
              /\ Identify({t} \cap l.known, l.filed)
        BY <2>4 DEF Looks
      <3>2. holds[t] \in 1..Len(lists)
        BY <2>4 DEF Looks, TypeOK
      <3>3. lists' \in Entries /\ Len(lists') = Len(lists)
        BY <3>1, <3>2, LoadedType
      <3>4. FieldsType'
        BY <3>1, IdentifyType
      <3> QED
        BY <2>0, <2>4, <3>3, <3>4 DEF Looks
    <2> QED
      BY <2>2, <2>3, <2>4, WorkerFrame
  <1>2. WorkerType'
    BY <1>1, WorkerPlaces DEF CacheInv
  <1>3. ServerType' /\ FilesType'
    <2>1. ServerType /\ FilesType
      BY DEF TypeOK, ServerType, FilesType
    <2> QED
      BY <2>1, WorkerFrame DEF ServerType, FilesType
  <1>4. MonitorType'
    <2>1. MonitorType
      BY DEF TypeOK, MonitorType
    <2> QED
      BY <2>1, WorkerFrame DEF MonitorType, monitor
  <1>5. TypeOK'
    BY <1>1, <1>2, <1>3, <1>4
       DEF TypeOK, ServerType, FilesType, WorkerType, FieldsType, MonitorType, Entries
  <1>6. Cached => Cached'
    BY <1>1 DEF Cached
  <1>7. cacheAlbum => Cached'
    BY <1>1, CachedType DEF Cached
  <1>8. CacheInv'
    <2> USE DEF Goto, Enter, At, CacheInv, PlacedMeansCached, cache, fields
    <2>1. pc \in [Tracks -> {"start", "look", "find", "search", "add", "accepted", "wait", "done"}]
      BY DEF TypeOK
    <2>2. CASE populateFromCache(t)
      BY <1>6, <2>1, <2>2 DEF populateFromCache
    <2>3. CASE QueryTrack(t)
      BY <1>6, <1>7, <2>1, <2>3 DEF QueryTrack
    <2>4. CASE Accepted(t)
      BY <1>7, <2>1, <2>4 DEF Accepted
    <2>5. CASE CallFails(t) \/ LookUp(t) \/ GetTrack(t) \/ addNewAlbum(t) \/ AlreadyAdded(t) \/ searchStatus(t)
      BY <1>6, <2>1, <2>5 DEF CallFails, LookUp, GetTrack, addNewAlbum, AlreadyAdded, searchStatus
    <2>6. CASE triggerAlbumSearch(t)
      BY <1>7, <2>6 DEF triggerAlbumSearch
    <2>7. CASE findTrackID(t)
      <3>1. placed' = placed
        BY <2>7 DEF findTrackID, Identify
      <3>2. pc' \in {[pc EXCEPT ![t] = "start"], [pc EXCEPT ![t] = "search"], [pc EXCEPT ![t] = "done"]}
        BY <2>7 DEF findTrackID
      <3> QED
        BY <1>6, <2>1, <3>1, <3>2
    <2> QED
      BY <2>2, <2>3, <2>4, <2>5, <2>6, <2>7 DEF Worker
  <1> QED
    BY <1>1, <1>5, <1>8

LEMMA ServerStep == ASSUME TypeOK, Server PROVE TypeOK'
  <1>1. ServerType /\ root \subseteq Tracks /\ library \subseteq Tracks
    BY DEF TypeOK, ServerType
  <1>2. ServerType'
    <2> USE <1>1 DEF ServerType, Items
    <2>1. CASE SearchEnds
      BY <2>1 DEF Server, SearchEnds
    <2>2. CASE Grab
      BY <2>2 DEF Server, Grab
    <2>3. CASE DownloadEnds
      BY <2>3 DEF Server, DownloadEnds
    <2>4. CASE Import
      BY <2>4 DEF Server, Import
    <2> QED
      BY <2>1, <2>2, <2>3, <2>4 DEF Server
  <1>3. root' \subseteq Tracks
    BY <1>1 DEF Server, SearchEnds, Grab, DownloadEnds, Import, ServerType
  <1>4. UNCHANGED <<library, cache, worker, fields, monitor>>
    BY DEF Server
  <1> QED
    BY <1>1, <1>2, <1>3, <1>4 DEF TypeOK, ServerType, cache, worker, fields, monitor

\* What a poll leaves alone, and what it can make of the cache.
LEMMA PollFrame ==
    ASSUME TypeOK, Poll
    PROVE  /\ UNCHANGED <<server, library, worker, placed>>
           /\ lists' \in Entries /\ Len(lists') = Len(lists) /\ moved' = moved
           /\ files \subseteq files' /\ files' \subseteq Tracks /\ due' \subseteq Tracks
           /\ FieldsType'
  <1>0. FieldsType /\ lists \in Entries /\ files \subseteq Tracks
        /\ imports \subseteq Tracks /\ named \subseteq Tracks /\ due \subseteq Tracks
    BY DEF TypeOK, FieldsType, Entries
  <1>1. UNCHANGED <<server, library, worker>>
    BY DEF Poll
  <1>2. CASE CheckMissed
    <2>1. CASE Cached /\ named # Tracks
      <3>1. PICK l \in Loaded(Len(lists)) :
              /\ lists' = [lists EXCEPT ![Len(lists)] = l]
              /\ Identify(l.known \ named, l.filed)
        BY <1>2, <2>1 DEF CheckMissed
      <3>2. Len(lists) \in 1..Len(lists)
        BY <1>0, <2>1 DEF Cached, Entries
      <3>3. l \in Lists /\ lists' \in Entries /\ Len(lists') = Len(lists)
        BY <3>1, <3>2, LoadedType
      <3>4. l.known \ named \subseteq Tracks
        BY <3>3 DEF Lists
      <3>5. FieldsType' /\ placed' = placed
        BY <3>1, <3>4, IdentifyType DEF Identify
      <3> QED
        BY <1>0, <1>1, <1>2, <3>3, <3>5 DEF CheckMissed
    <2>2. CASE ~ (Cached /\ named # Tracks)
      BY <1>0, <1>1, <1>2, <2>2 DEF CheckMissed, fields, FieldsType
    <2> QED
      BY <2>1, <2>2
  <1>3. CASE PollQueue \/ EndOfTick
    BY <1>0, <1>1, <1>3 DEF PollQueue, EndOfTick, cache, fields, FieldsType
  <1>4. CASE PollHistory
    BY <1>0, <1>1, <1>4 DEF PollHistory, fields, FieldsType
  <1> QED
    BY <1>2, <1>3, <1>4 DEF Poll

LEMMA PollStep == ASSUME TypeOK, Poll PROVE TypeOK'
  <1>1. MonitorType /\ ServerType
    BY DEF TypeOK, MonitorType, ServerType
  <1>2. MonitorType'
    <2> USE <1>1 DEF MonitorType
    <2>1. CASE CheckMissed
      BY <2>1 DEF CheckMissed
    <2>2. CASE PollQueue
      BY <2>2 DEF PollQueue, ServerType, Items
    <2>3. CASE PollHistory
      <3>1. \A t \in Tracks : record.state \in Items
        OBVIOUS
      <3>2. status' \in [Tracks -> Items \cup {"imported"}]
        BY <2>3, <3>1 DEF PollHistory, Items
      <3> QED
        BY <2>3, <3>2 DEF PollHistory
    <2>4. CASE EndOfTick
      BY <2>4 DEF EndOfTick
    <2> QED
      BY <2>1, <2>2, <2>3, <2>4 DEF Poll
  <1>3. moved' \in BOOLEAN
    BY PollFrame DEF TypeOK
  <1> QED
    BY <1>2, <1>3, PollFrame DEF TypeOK, MonitorType, FieldsType, Entries, server, worker

\* What a look at one track leaves alone.
LEMMA VisitFrame ==
    ASSUME TypeOK, NEW t \in Tracks, Visit(t)
    PROVE  /\ UNCHANGED <<lists, files, due, worker, named, placed, poll, record, status>>
           /\ UNCHANGED <<inLibrary, outside, catalog, searched, searches, grabs, hasFile, imports>>
           /\ moved => moved'
           /\ library \subseteq library' /\ library' \subseteq Tracks /\ root' \subseteq Tracks
           /\ download' \in {download, "none"}
           /\ verdict' \in [Tracks -> Verdicts] /\ misses' \in [Tracks -> Nat] /\ moved' \in BOOLEAN
  <1>0. /\ verdict \in [Tracks -> Verdicts] /\ misses \in [Tracks -> Nat] /\ moved \in BOOLEAN
        /\ root \subseteq Tracks /\ library \subseteq Tracks /\ Movable \subseteq Tracks
    BY DEF TypeOK, Movable
  <1>1. UNCHANGED <<poll, record, status, inLibrary, outside, catalog, searched, searches, grabs, hasFile, imports, worker>>
    BY DEF Visit
  <1> USE DEF cache, fields, Decide, Verdicts
  <1>2. CASE Ignore(t)
    BY <1>0, <1>1, <1>2 DEF Ignore
  <1>3. CASE NotInQueue(t)
    BY <1>0, <1>1, <1>3 DEF NotInQueue
  <1>4. CASE Arrives(t)
    <2>1. moved' \in BOOLEAN
      BY <1>0, <1>4 DEF Arrives
    <2>2. moved => moved'
      BY <1>4 DEF Arrives
    <2> QED
      BY <1>0, <1>1, <1>4, <2>1, <2>2 DEF Arrives
  <1>5. CASE MoveFails(t)
    BY <1>0, <1>1, <1>5 DEF MoveFails, Skip, Cleanup
  <1>6. CASE StillWaiting(t)
    BY <1>0, <1>1, <1>6 DEF StillWaiting
  <1>7. CASE GivenUp(t)
    BY <1>0, <1>1, <1>7 DEF GivenUp, Skip, Cleanup
  <1> QED
    BY <1>2, <1>3, <1>4, <1>5, <1>6, <1>7 DEF Visit

LEMMA VisitStep == ASSUME TypeOK, NEW t \in Tracks, Visit(t) PROVE TypeOK'
  <1>1. left' \subseteq Tracks
    BY DEF Visit, TypeOK
  <1>2. download' \in Items
    BY VisitFrame DEF TypeOK, Items
  <1> QED
    BY <1>1, <1>2, VisitFrame DEF TypeOK, worker

\* Every value of the cache, the workers and the monitor is one of its type.
LEMMA TypeCacheStep == TypeOK /\ CacheInv /\ [Next]_vars => TypeOK' /\ CacheInv'
  <1> SUFFICES ASSUME TypeOK, CacheInv, [Next]_vars PROVE TypeOK' /\ CacheInv'
    OBVIOUS
  <1>1. ASSUME NEW t \in Tracks, Worker(t) PROVE TypeOK' /\ CacheInv'
    BY <1>1, WorkerStep
  <1>2. CASE Server
    <2>1. CacheInv'
      BY <1>2 DEF Server, cache, worker, fields, CacheInv, PlacedMeansCached, Cached
    <2> QED
      BY <1>2, <2>1, ServerStep
  <1>3. CASE Poll
    <2>1. CacheInv'
      BY <1>3, PollFrame DEF worker, CacheInv, PlacedMeansCached, Cached
    <2> QED
      BY <1>3, <2>1, PollStep
  <1>4. ASSUME NEW t \in Tracks, Visit(t) PROVE TypeOK' /\ CacheInv'
    <2>1. CacheInv'
      BY <1>4, VisitFrame DEF worker, CacheInv, PlacedMeansCached, Cached
    <2> QED
      BY <1>4, <2>1, VisitStep
  <1>5. CASE UNCHANGED vars
    BY <1>5 DEF vars, server, cache, worker, fields, monitor, TypeOK, CacheInv, PlacedMeansCached, Cached
  <1> QED
    BY <1>1, <1>2, <1>3, <1>4, <1>5 DEF Next

LEMMA TypeCacheInvariant == Spec => [](TypeOK /\ CacheInv)
  <1>1. Init => TypeOK /\ CacheInv
    BY TypeInit DEF Init, CacheInv, PlacedMeansCached
  <1> QED
    BY <1>1, TypeCacheStep, PTL DEF Spec

\* Lidarr's answers, the cache and the tracks' fields are what the model says.
THEOREM TypeCorrect == Spec => []TypeOK
  BY TypeCacheInvariant, PTL

\* GetDownloadStatus and MoveDownload never meet a track with an AlbumID whose
\* album is not cached, whichever of the racing workers set it.
THEOREM PlacedAreCached == Spec => []PlacedMeansCached
  <1>1. CacheInv => PlacedMeansCached
    BY DEF CacheInv
  <1> QED
    BY <1>1, TypeCacheInvariant, PTL

\* Nothing resets an album's Files and Moved once the monitor has started.
THEOREM CacheStays == Spec => CacheOutlivesWorkers
  <1> DEFINE Stays == WorkersDone => Len(lists') = Len(lists) /\ files \subseteq files' /\ (moved => moved')
  <1>1. ASSUME TypeOK, [Next]_vars PROVE [Stays]_vars
    <2>1. ASSUME NEW t \in Tracks, Worker(t) PROVE Stays
      BY <2>1, WorkerFrame DEF WorkersDone
    <2>2. CASE Server
      BY <2>2 DEF Server, cache
    <2>3. CASE Poll
      BY <1>1, <2>3, PollFrame
    <2>4. ASSUME NEW t \in Tracks, Visit(t) PROVE Stays
      BY <1>1, <2>4, VisitFrame
    <2> QED
      BY <1>1, <2>1, <2>2, <2>3, <2>4 DEF Next
  <1> QED
    BY <1>1, TypeCacheInvariant, PTL DEF Spec, CacheOutlivesWorkers

-----------------------------------------------------------------------------
(* Arrival *)

\* The monitor has decided nothing before the workers are done.
Early == WorkersDone \/ (poll = "missed" /\ ~ moved /\ \A t \in Tracks : verdict[t] # "arrived")

\* The first arrival moves all that is due, which is what the album's entry names.
AlbumMoved ==
    /\ MigrateDL /\ ~ moved => \A t \in Tracks : verdict[t] # "arrived"
    /\ moved \/ due = files
    /\ moved => due \ outside \subseteq library

Inv == TypeOK /\ CacheInv /\ Early /\ AlbumMoved

LEMMA InvInit == Init => Inv
  BY TypeInit DEF Init, Inv, CacheInv, PlacedMeansCached, Early, AlbumMoved

\* Whoever identifies tracks may find them held, and no more.
LEMMA IdentifyHolds ==
    ASSUME TypeOK, NEW found, NEW filed, Identify(found, filed)
    PROVE  \A t \in Tracks : verdict'[t] \in {verdict[t], "held"}
  BY DEF TypeOK, Identify

LEMMA WorkerKeeps ==
    ASSUME Inv, NEW t \in Tracks, Worker(t)
    PROVE  Early' /\ AlbumMoved'
  <1>1. ~ WorkersDone
    BY WorkerFrame DEF WorkersDone
  <1>2. poll = "missed" /\ ~ moved /\ \A u \in Tracks : verdict[u] # "arrived"
    BY <1>1 DEF Inv, Early
  <1>3. poll' = poll /\ due = files
    BY <1>2, WorkerFrame DEF monitor, Inv, AlbumMoved
  <1>4. ~ moved' /\ due' = files'
    BY <1>2, <1>3, WorkerFrame, CachedType DEF Looks, Inv, cache
  <1>5. \A u \in Tracks : verdict'[u] # "arrived"
    <2>1. CASE verdict' = verdict
      BY <1>2, <2>1
    <2>2. CASE Looks(t)
      <3>1. \A u \in Tracks : verdict'[u] \in {verdict[u], "held"}
        BY <2>2, IdentifyHolds DEF Looks, Inv
      <3> QED
        BY <1>2, <3>1
    <2> QED
      BY <2>1, <2>2, WorkerFrame
  <1> QED
    BY <1>2, <1>3, <1>4, <1>5 DEF Early, AlbumMoved

LEMMA ServerKeeps == ASSUME Inv, Server PROVE Early' /\ AlbumMoved'
  BY DEF Server, Inv, Early, AlbumMoved, WorkersDone, cache, worker, fields, monitor

LEMMA PollKeeps == ASSUME Inv, Poll PROVE Early' /\ AlbumMoved'
  <1>1. UNCHANGED <<server, library, worker>> /\ moved' = moved
    BY PollFrame DEF Inv
  <1>2. WorkersDone => WorkersDone'
    BY <1>1 DEF worker, WorkersDone
  <1>3. CASE CheckMissed
    <2>1. files' = files /\ due' = due
      BY <1>3 DEF CheckMissed
    <2>2. \A t \in Tracks : verdict'[t] \in {verdict[t], "held"}
      BY <1>3, IdentifyHolds DEF CheckMissed, fields, Inv
    <2> QED
      BY <1>1, <1>2, <1>3, <2>1, <2>2 DEF CheckMissed, Inv, Early, AlbumMoved, server
  <1>4. CASE PollQueue \/ EndOfTick
    <2>1. UNCHANGED <<cache, fields>> /\ WorkersDone
      BY <1>4 DEF PollQueue, EndOfTick, Inv, Early
    <2> QED
      BY <1>1, <1>2, <2>1 DEF Inv, Early, AlbumMoved, server, cache, fields
  <1>5. CASE PollHistory
    <2>1. verdict' = verdict /\ due' = (IF moved THEN due ELSE files') /\ WorkersDone
      BY <1>5 DEF PollHistory, fields, Inv, Early
    <2> QED
      BY <1>1, <1>2, <2>1 DEF Inv, Early, AlbumMoved, server
  <1> QED
    BY <1>3, <1>4, <1>5 DEF Poll

LEMMA VisitKeeps == ASSUME Inv, NEW t \in Tracks, Visit(t) PROVE Early' /\ AlbumMoved'
  <1>1. UNCHANGED <<files, due, pc, poll, outside>> /\ library \subseteq library'
    BY VisitFrame DEF Inv, worker
  <1>2. WorkersDone /\ WorkersDone'
    BY <1>1 DEF Visit, Inv, Early, WorkersDone
  <1>3. CASE Arrives(t)
    <2>1. CASE MigrateDL /\ ~ moved
      <3>1. moved' /\ library' = library \cup (due \ outside)
        BY <1>3, <2>1 DEF Arrives, Movable, Inv, AlbumMoved
      <3> QED
        BY <1>1, <1>2, <3>1 DEF Early, AlbumMoved
    <2>2. CASE ~ (MigrateDL /\ ~ moved)
      BY <1>1, <1>2, <1>3, <2>2 DEF Arrives, Inv, Early, AlbumMoved
    <2> QED
      BY <2>1, <2>2
  <1>4. CASE ~ Arrives(t)
    <2>1. /\ moved' = moved
          /\ verdict' = verdict \/ verdict' = [verdict EXCEPT ![t] = "skipped"]
      BY <1>4 DEF Visit, Ignore, NotInQueue, MoveFails, StillWaiting, GivenUp, Skip, Decide, fields, cache
    <2>2. \A u \in Tracks : verdict'[u] \in {verdict[u], "skipped"}
      BY <2>1 DEF Inv, TypeOK
    <2> QED
      BY <1>1, <1>2, <2>1, <2>2 DEF Inv, Early, AlbumMoved
  <1> QED
    BY <1>3, <1>4

LEMMA InvStep == Inv /\ [Next]_vars => Inv'
  <1> SUFFICES ASSUME Inv, [Next]_vars PROVE Inv'
    OBVIOUS
  <1>1. TypeOK' /\ CacheInv'
    BY TypeCacheStep DEF Inv
  <1>2. CASE UNCHANGED vars
    BY <1>1, <1>2 DEF vars, server, cache, worker, fields, monitor, Inv, Early, AlbumMoved, WorkersDone
  <1>3. CASE Next
    <2>1. Early' /\ AlbumMoved'
      BY <1>3, WorkerKeeps, ServerKeeps, PollKeeps, VisitKeeps DEF Next
    <2> QED
      BY <1>1, <2>1 DEF Inv
  <1> QED
    BY <1>2, <1>3

\* A track that arrived, by its own move or by finding the album moved, is in the
\* library if the history had shown its import, in Explo's root folder, by the time
\* the album counted as moved: MoveDownload's one move misses nothing it knew of,
\* in whatever pieces Lidarr imports and whichever moves failed before.
THEOREM SeenHaveLanded == Spec => []SeenMeansLanded
  <1>1. Inv => SeenMeansLanded
    BY DEF Inv, TypeOK, AlbumMoved, SeenMeansLanded
  <1> QED
    BY <1>1, InvInit, InvStep, PTL DEF Spec
=============================================================================
