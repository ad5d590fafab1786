------------------------ MODULE SharedReleaseProofs ------------------------
(***************************************************************************)
(* Proofs about SharedRelease, for any playlist, pool size and peers.      *)
(***************************************************************************)
EXTENDS SharedRelease, FiniteSetTheorems, TLAPS

-----------------------------------------------------------------------------
(* The inductive invariant *)

\* Workers start in playlist order.
Launches == \A t \in Tracks : pc[t] = "pending" <=> launched < t

\* A release exists only from its leader's claim on, and is unresolved until the
\* leader's worker returns.
Unresolved == \A t \in Tracks : pc[t] # "ended" =>
    closed[t] = 0 /\ relFiles[t] = {} /\ claimed[t] = {}

\* Roles go with the stages of the worker that can have them.
RoleStages == \A t \in Tracks :
    /\ pc[t] \in {"pending", "query", "wait"} => role[t] = "album"
    /\ pc[t] = "publish" => role[t] = "leader" /\ file[t] \in Files /\ file[t] \notin siblings[t]
    /\ role[t] = "shared" => pc[t] \in {"get", "ended"}

\* A leader is its album's entry in the registry, and a leader that has returned
\* has published.
Leaders == \A t \in Tracks : role[t] = "leader" =>
    /\ rel[t] = t
    /\ AlbumKey[t] \in Albums
    /\ releases[AlbumKey[t]] = t
    /\ pc[t] = "ended" => Published(t) /\ closed[t] # 0

Entries == \A a \in Albums : releases[a] # None =>
    AlbumKey[releases[a]] = a /\ role[releases[a]] = "leader"

\* A published release belongs to a leader, and its claimed files are exactly
\* those its tracks follow; the rest are the leader's siblings.
PublishedReleases == \A l \in Tracks : Published(l) =>
    /\ role[l] = "leader"
    /\ claimed[l] = {file[t] : t \in Followers(l) \cup {l}}
    /\ claimed[l] \subseteq relFiles[l]
    /\ siblings[l] = relFiles[l] \ claimed[l]

ClosedAtMostOnce == \A l \in Tracks : closed[l] \in {0, 1}

Waiters == \A t \in Tracks : pc[t] = "wait" =>
    /\ rel[t] \in Tracks \ {t}
    /\ AlbumKey[t] \in Albums
    /\ AlbumKey[rel[t]] = AlbumKey[t]
    /\ closed[rel[t]] = 0 => role[rel[t]] = "leader" /\ pc[rel[t]] # "ended"

Sharers == \A t \in Tracks : role[t] = "shared" =>
    /\ rel[t] \in Tracks \ {t}
    /\ Published(rel[t])
    /\ AlbumKey[t] = AlbumKey[rel[t]]

RegistryInv ==
    /\ Launches
    /\ Unresolved
    /\ RoleStages
    /\ Leaders
    /\ Entries
    /\ ClosedAtMostOnce
    /\ Waiters
    /\ Sharers
    /\ PublishedReleases
    /\ ExclusiveFiles

IDInv == \A t \in Tracks :
    /\ role[t] = "shared" => \E n \in 2..Cardinality(claimed[rel[t]]) : id[t] = SharedID(rel[t], n)
    /\ role[t] # "shared" => id[t] \in {NoID, SearchID(t)}

-----------------------------------------------------------------------------
(* Type correctness *)

LEMMA ClaimsAreFinite ==
    ASSUME TypeOK, NEW l \in Tracks
    PROVE  IsFiniteSet(claimed[l]) /\ Cardinality(claimed[l]) \in Nat
  BY FilesAssumption, FS_Subset, FS_CardinalityType DEF TypeOK

\* Types alone are not inductive: a waiting track's release must be a track's and
\* a release about to be published must have its primary.
TypeInv == /\ TypeOK
           /\ \A t \in Tracks : pc[t] = "wait" => rel[t] \in Tracks
           /\ \A t \in Tracks : pc[t] = "publish" => file[t] \in Files

LEMMA FailTypes ==
    ASSUME TypeOK, NEW t \in Tracks, Fail(t)
    PROVE  /\ releases' \in [Albums -> Tracks \cup {None}]
           /\ role' \in [Tracks -> Roles]
           /\ closed' \in [Tracks -> Nat]
  <1>1. releases' \in [Albums -> Tracks \cup {None}]
    BY DEF TypeOK, Fail
  <1>2. role' \in [Tracks -> Roles]
    BY DEF TypeOK, Fail, Roles
  <1>3. closed' \in [Tracks -> Nat]
    BY DEF TypeOK, Fail
  <1> QED
    BY <1>1, <1>2, <1>3

LEMMA TypeStep == TypeInv /\ [Next]_vars => TypeInv'
  <1> SUFFICES ASSUME TypeInv, [Next]_vars PROVE TypeInv'
    OBVIOUS
  <1> USE DEF TypeOK, TypeInv, Stages, Roles, pool, registry, trackFields
  <1>1. CASE UNCHANGED vars
    BY <1>1 DEF vars
  <1>2. CASE WaitAll
    BY <1>2 DEF WaitAll
  <1>3. ASSUME NEW t \in Tracks, Launch(t) PROVE TypeInv'
    <2>1. launched' \in 0..NTracks
      BY <1>3, PoolAssumption DEF Launch, Tracks
    <2> QED
      BY <1>3, <2>1 DEF Launch
  <1>4. ASSUME NEW t \in Tracks, QueryAlone(t) PROVE TypeInv'
    BY <1>4 DEF QueryAlone
  <1>5. ASSUME NEW t \in Tracks, ClaimAsLeader(t) PROVE TypeInv'
    BY <1>5, AlbumAssumption DEF ClaimAsLeader
  <1>6. ASSUME NEW t \in Tracks, ClaimAsFollower(t) PROVE TypeInv'
    BY <1>6, AlbumAssumption DEF ClaimAsFollower
  <1>7. ASSUME NEW t \in Tracks, SearchSucceeds(t) PROVE TypeInv'
    BY <1>7 DEF SearchSucceeds, SearchID, SharedID, Tracks, Candidates
  <1>8. ASSUME NEW t \in Tracks, SearchFails(t) PROVE TypeInv'
    <2>1. CASE role[t] = "leader"
      BY <1>8, <2>1, FailTypes DEF SearchFails
    <2>2. CASE role[t] # "leader"
      BY <1>8, <2>2 DEF SearchFails
    <2> QED
      BY <2>1, <2>2
  <1>9. ASSUME NEW t \in Tracks, RetryClaim(t) PROVE TypeInv'
    BY <1>9 DEF RetryClaim
  <1>10. ASSUME NEW t \in Tracks, FallBackToSingle(t) PROVE TypeInv'
    BY <1>10 DEF FallBackToSingle
  <1>11. ASSUME NEW t \in Tracks, NEW f \in Files, Share(t, f) PROVE TypeInv'
    <2>1. rel[t] \in Tracks /\ f \in Files
      BY <1>11 DEF Share, Candidates
    <2>2. Cardinality(claimed[rel[t]] \cup {f}) \in Nat
      BY <2>1, FilesAssumption, FS_Subset, FS_CardinalityType
    <2>3. id' \in [Tracks -> Nat \X Nat]
      BY <1>11, <2>1, <2>2 DEF Share, SharedID, Tracks
    <2> QED
      BY <1>11, <2>1, <2>3 DEF Share
  <1>12. ASSUME NEW t \in Tracks, GetShared(t) PROVE TypeInv'
    BY <1>12 DEF GetShared
  <1>13. ASSUME NEW t \in Tracks, NEW f \in Files, GetSingle(t, f) PROVE TypeInv'
    BY <1>13 DEF GetSingle
  <1>14. ASSUME NEW t \in Tracks, NEW p \in Files, NEW F \in SUBSET Files, QueueRelease(t, p, F) PROVE TypeInv'
    BY <1>14 DEF QueueRelease
  <1>15. ASSUME NEW t \in Tracks, Publish(t) PROVE TypeInv'
    BY <1>15 DEF Publish
  <1>16. ASSUME NEW t \in Tracks, GetFails(t) PROVE TypeInv'
    <2>1. CASE role[t] = "leader"
      BY <1>16, <2>1, FailTypes DEF GetFails
    <2>2. CASE role[t] # "leader"
      BY <1>16, <2>2 DEF GetFails
    <2> QED
      BY <2>1, <2>2
  <1> QED
    BY <1>1, <1>2, <1>3, <1>4, <1>5, <1>6, <1>7, <1>8, <1>9, <1>10, <1>11, <1>12, <1>13, <1>14, <1>15, <1>16 DEF
                    Next, Worker, Finished

\* Workers, releases, claims and channels stay within their types: no worker is
\* ever at a stage, or holds a file or role, that the code does not give it.
THEOREM TypeCorrect == Spec => []TypeOK
  <1>1. Init => TypeInv
    BY PoolAssumption DEF Init, TypeInv, TypeOK, Stages, Roles, NoID
  <1>2. TypeInv => TypeOK
    BY DEF TypeInv
  <1> QED
    BY <1>1, <1>2, TypeStep, PTL DEF Spec

-----------------------------------------------------------------------------
(* The registry's invariant *)

IInv == TypeInv /\ RegistryInv

\* Steps that leave roles, releases and files alone leave the holders alone.
LEMMA SameHolders ==
    ASSUME ExclusiveFiles, role' = role, rel' = rel, relFiles' = relFiles, file' = file
    PROVE  ExclusiveFiles'
  BY DEF ExclusiveFiles, Published, Followers

LEMMA RegistryStep == IInv /\ [Next]_vars => RegistryInv'
  <1> SUFFICES ASSUME TypeOK, TypeInv, RegistryInv, TypeInv', [Next]_vars PROVE RegistryInv'
    BY TypeStep DEF IInv, TypeInv
  <1> USE NoneAssumption, AlbumAssumption DEF TypeOK, TypeInv, Stages, Roles, pool, registry, trackFields, RegistryInv
  <1>1. CASE WaitAll
    <2>1. Launches' /\ Unresolved' /\ RoleStages' /\ Leaders' /\ Entries' /\
         ClosedAtMostOnce' /\ Waiters' /\ Sharers' /\ PublishedReleases'
      BY <1>1 DEF WaitAll, Launches, Unresolved, RoleStages, Leaders, Entries, ClosedAtMostOnce, Waiters,
                  Sharers, PublishedReleases, Published, Followers
    <2>2. ExclusiveFiles'
      BY <1>1, SameHolders DEF WaitAll
    <2> QED
      BY <2>1, <2>2
  <1>2. ASSUME NEW t \in Tracks, Launch(t) PROVE RegistryInv'
    <2>1. Launches' /\ Leaders' /\ Entries' /\ ClosedAtMostOnce'
      BY <1>2 DEF Launch, Launches, Leaders, Entries, ClosedAtMostOnce, Published, Tracks
    <2>2. Waiters' /\ Sharers' /\ PublishedReleases' /\ ExclusiveFiles'
      BY <1>2 DEF Launch, Waiters, Sharers, PublishedReleases, ExclusiveFiles, Published, Followers
    <2>3. Unresolved'
      BY <1>2 DEF Launch, Unresolved, Launches, Tracks
    <2>4. RoleStages'
      BY <1>2 DEF Launch, RoleStages, Launches, Tracks
    <2> QED
      BY <2>1, <2>2, <2>3, <2>4
  <1>3. ASSUME NEW t \in Tracks, QueryAlone(t) PROVE RegistryInv'
    <2>1. Launches' /\ Unresolved' /\ RoleStages' /\ Leaders' /\ Entries' /\
         ClosedAtMostOnce' /\ Waiters' /\ Sharers' /\ PublishedReleases'
      BY <1>3 DEF QueryAlone, Launches, Unresolved, RoleStages, Leaders, Entries, ClosedAtMostOnce,
                  Waiters, Sharers, PublishedReleases, Published, Followers
    <2>2. ExclusiveFiles'
      BY <1>3, SameHolders DEF QueryAlone
    <2> QED
      BY <2>1, <2>2
  <1>4. ASSUME NEW t \in Tracks, ClaimAsLeader(t) PROVE RegistryInv'
    <2>1. Launches' /\ Unresolved' /\ RoleStages' /\ Leaders' /\
         Entries' /\ ClosedAtMostOnce'
      BY <1>4 DEF ClaimAsLeader, Launches, Unresolved, RoleStages, Leaders, Entries, ClosedAtMostOnce,
                  Published
    <2>2. Waiters' /\ Sharers' /\ ExclusiveFiles'
      BY <1>4 DEF ClaimAsLeader, Waiters, Sharers, ExclusiveFiles, Published, Followers
    <2>3. PublishedReleases'
      BY <1>4 DEF ClaimAsLeader, PublishedReleases, Published, Followers, RoleStages, Unresolved
    <2> QED
      BY <2>1, <2>2, <2>3
  <1>5. ASSUME NEW t \in Tracks, ClaimAsFollower(t) PROVE RegistryInv'
    <2>1. Launches' /\ Unresolved' /\ RoleStages' /\ Leaders' /\
         Entries' /\ ClosedAtMostOnce'
      BY <1>5 DEF ClaimAsFollower, Launches, Unresolved, RoleStages, Leaders, Entries, ClosedAtMostOnce,
                  Published
    <2>2. Waiters'
      BY <1>5 DEF ClaimAsFollower, Waiters, RoleStages, Unresolved, Leaders, Entries, Published
    <2>3. Sharers'
      BY <1>5 DEF ClaimAsFollower, Sharers, Published, RoleStages, Unresolved
    <2>4. PublishedReleases'
      BY <1>5 DEF ClaimAsFollower, PublishedReleases, Published, Followers, RoleStages, Unresolved
    <2>5. ExclusiveFiles'
      BY <1>5, SMTT(30) DEF ClaimAsFollower, ExclusiveFiles, Published, Followers, RoleStages, Unresolved
    <2> QED
      BY <2>1, <2>2, <2>3, <2>4, <2>5
  <1>6. ASSUME NEW t \in Tracks, SearchSucceeds(t) PROVE RegistryInv'
    <2>1. Launches' /\ Unresolved' /\ RoleStages' /\ Leaders' /\ Entries' /\
         ClosedAtMostOnce' /\ Waiters' /\ Sharers' /\ PublishedReleases'
      BY <1>6 DEF SearchSucceeds, Launches, Unresolved, RoleStages, Leaders, Entries, ClosedAtMostOnce,
                  Waiters, Sharers, PublishedReleases, Published, Followers
    <2>2. ExclusiveFiles'
      BY <1>6, SameHolders DEF SearchSucceeds
    <2> QED
      BY <2>1, <2>2
  <1>7. ASSUME NEW t \in Tracks, SearchFails(t) PROVE RegistryInv'
    <2>1. Launches' /\ Unresolved' /\ RoleStages'
      BY <1>7 DEF SearchFails, Fail, Launches, Unresolved, RoleStages
    <2>2. Leaders'
      BY <1>7 DEF SearchFails, Fail, Leaders, Published
    <2>3. Entries'
      BY <1>7 DEF SearchFails, Fail, Entries
    <2>4. ClosedAtMostOnce'
      BY <1>7, SMTT(30) DEF SearchFails, Fail, ClosedAtMostOnce, RoleStages, Unresolved
    <2>5. Waiters'
      BY <1>7 DEF SearchFails, Fail, Waiters
    <2>6. Sharers'
      BY <1>7 DEF SearchFails, Fail, Sharers, Published
    <2>7. PublishedReleases'
      BY <1>7 DEF SearchFails, Fail, PublishedReleases, Published, Followers, RoleStages, Unresolved
    <2>8. ExclusiveFiles'
      BY <1>7, SMTT(30) DEF SearchFails, Fail, ExclusiveFiles, Published, Followers
    <2> QED
      BY <2>1, <2>2, <2>3, <2>4, <2>5, <2>6, <2>7, <2>8
  <1>8. ASSUME NEW t \in Tracks, RetryClaim(t) PROVE RegistryInv'
    <2>1. Launches' /\ Unresolved' /\ RoleStages' /\ Leaders' /\
         Entries' /\ ClosedAtMostOnce'
      BY <1>8 DEF RetryClaim, Launches, Unresolved, RoleStages, Leaders, Entries, ClosedAtMostOnce,
                  Published
    <2>2. Waiters'
      BY <1>8 DEF RetryClaim, Waiters
    <2>3. Sharers'
      BY <1>8 DEF RetryClaim, Sharers, Published
    <2>4. PublishedReleases'
      BY <1>8 DEF RetryClaim, PublishedReleases, Published, Followers
    <2>5. ExclusiveFiles'
      BY <1>8 DEF RetryClaim, ExclusiveFiles, Published, Followers
    <2> QED
      BY <2>1, <2>2, <2>3, <2>4, <2>5
  <1>9. ASSUME NEW t \in Tracks, FallBackToSingle(t) PROVE RegistryInv'
    <2>1. Launches' /\ Unresolved' /\ RoleStages' /\ Leaders' /\ ClosedAtMostOnce'
      BY <1>9 DEF FallBackToSingle, Candidates, Launches, Unresolved, RoleStages, Leaders,
                  ClosedAtMostOnce, Published
    <2>2. Entries'
      BY <1>9 DEF FallBackToSingle, Candidates, Entries, RoleStages, Unresolved
    <2>3. Waiters'
      BY <1>9 DEF FallBackToSingle, Candidates, Waiters, RoleStages, Unresolved
    <2>4. Sharers'
      BY <1>9 DEF FallBackToSingle, Candidates, Sharers, Published
    <2>5. PublishedReleases'
      BY <1>9 DEF FallBackToSingle, Candidates, PublishedReleases, Published, Followers, RoleStages,
                  Unresolved
    <2>6. ExclusiveFiles'
      BY <1>9 DEF FallBackToSingle, Candidates, ExclusiveFiles, Published, Followers
    <2> QED
      BY <2>1, <2>2, <2>3, <2>4, <2>5, <2>6
  <1>10. ASSUME NEW t \in Tracks, NEW f \in Files, Share(t, f) PROVE RegistryInv'
    <2>1. Launches' /\ Unresolved' /\ RoleStages' /\ Leaders' /\ ClosedAtMostOnce'
      BY <1>10 DEF Share, Candidates, Launches, Unresolved, RoleStages, Leaders, ClosedAtMostOnce, Published
    <2>2. Entries'
      BY <1>10 DEF Share, Candidates, Entries, RoleStages, Unresolved
    <2>3. Waiters'
      BY <1>10 DEF Share, Candidates, Waiters, RoleStages, Unresolved
    <2>4. Sharers'
      BY <1>10 DEF Share, Candidates, Sharers, Launches, Unresolved, RoleStages, Leaders, Entries,
                   ClosedAtMostOnce, Waiters, PublishedReleases, ExclusiveFiles, Published, Followers
    <2>5. PublishedReleases'
      BY <1>10 DEF Share, Candidates, PublishedReleases, Published, Followers, RoleStages, Unresolved
    <2>6. ExclusiveFiles'
      BY <1>10, SMTT(30) DEF Share, Candidates, ExclusiveFiles, Published, Followers, RoleStages,
                    Unresolved, Leaders, Sharers, PublishedReleases
    <2> QED
      BY <2>1, <2>2, <2>3, <2>4, <2>5, <2>6
  <1>11. ASSUME NEW t \in Tracks, GetShared(t) PROVE RegistryInv'
    <2>1. Launches' /\ Unresolved' /\ RoleStages' /\ Leaders' /\ Entries' /\
         ClosedAtMostOnce' /\ Waiters' /\ Sharers' /\ PublishedReleases'
      BY <1>11 DEF GetShared, Launches, Unresolved, RoleStages, Leaders, Entries, ClosedAtMostOnce,
                   Waiters, Sharers, PublishedReleases, Published, Followers
    <2>2. ExclusiveFiles'
      BY <1>11, SameHolders DEF GetShared
    <2> QED
      BY <2>1, <2>2
  <1>12. ASSUME NEW t \in Tracks, NEW f \in Files, GetSingle(t, f) PROVE RegistryInv'
    <2>1. Launches' /\ Unresolved' /\ RoleStages' /\ Leaders' /\ Entries' /\
         ClosedAtMostOnce' /\ Waiters' /\ Sharers' /\ PublishedReleases'
      BY <1>12 DEF GetSingle, Launches, Unresolved, RoleStages, Leaders, Entries, ClosedAtMostOnce,
                   Waiters, Sharers, PublishedReleases, Published, Followers
    <2>2. ExclusiveFiles'
      BY <1>12, SMTT(30) DEF GetSingle, ExclusiveFiles, Published, Followers, RoleStages, Unresolved
    <2> QED
      BY <2>1, <2>2
  <1>13. ASSUME NEW t \in Tracks, NEW p \in Files, NEW F \in SUBSET Files, QueueRelease(t, p, F) PROVE RegistryInv'
    <2>1. Launches' /\ Unresolved' /\ RoleStages' /\ Leaders' /\ Entries' /\
         ClosedAtMostOnce' /\ Waiters' /\ Sharers'
      BY <1>13 DEF QueueRelease, Launches, Unresolved, RoleStages, Leaders, Entries, ClosedAtMostOnce,
                   Waiters, Sharers, Published
    <2>2. PublishedReleases'
      BY <1>13 DEF QueueRelease, PublishedReleases, Published, Followers, RoleStages, Unresolved,
                   Leaders, Entries
    <2>3. ExclusiveFiles'
      BY <1>13 DEF QueueRelease, ExclusiveFiles, Published, Followers, RoleStages, Unresolved
    <2> QED
      BY <2>1, <2>2, <2>3
  <1>14. ASSUME NEW t \in Tracks, Publish(t) PROVE RegistryInv'
    <2>1. Launches' /\ Unresolved' /\ RoleStages' /\ Leaders' /\
         Entries' /\ Waiters' /\ Sharers'
      BY <1>14 DEF Publish, Launches, Unresolved, RoleStages, Leaders, Entries, Waiters, Sharers, Published
    <2>2. ClosedAtMostOnce'
      BY <1>14 DEF Publish, ClosedAtMostOnce, RoleStages, Unresolved
    <2>3. PublishedReleases'
      BY <1>14 DEF Publish, PublishedReleases, Published, Followers, RoleStages, Unresolved, Leaders,
                   Sharers
    <2>4. ExclusiveFiles'
      BY <1>14 DEF Publish, ExclusiveFiles, Published, Followers, RoleStages, Unresolved, Leaders,
                   Sharers, PublishedReleases
    <2> QED
      BY <2>1, <2>2, <2>3, <2>4
  <1>15. ASSUME NEW t \in Tracks, GetFails(t) PROVE RegistryInv'
    <2>1. Launches' /\ Unresolved' /\ RoleStages' /\ Leaders' /\ Entries'
      BY <1>15 DEF GetFails, Fail, Launches, Unresolved, RoleStages, Leaders, Entries, Published
    <2>2. ClosedAtMostOnce'
      BY <1>15 DEF GetFails, Fail, ClosedAtMostOnce, RoleStages, Unresolved
    <2>3. Waiters'
      BY <1>15 DEF GetFails, Fail, Waiters
    <2>4. Sharers'
      BY <1>15 DEF GetFails, Fail, Sharers, Published
    <2>5. PublishedReleases'
      BY <1>15 DEF GetFails, Fail, PublishedReleases, Published, Followers, RoleStages, Unresolved, Leaders
    <2>6. ExclusiveFiles'
      BY <1>15 DEF GetFails, Fail, ExclusiveFiles, Published, Followers
    <2> QED
      BY <2>1, <2>2, <2>3, <2>4, <2>5, <2>6
  <1>16. CASE UNCHANGED vars
    BY <1>16 DEF vars, Launches, Unresolved, RoleStages, Leaders, Entries, ClosedAtMostOnce, Waiters,
                 Sharers, PublishedReleases, ExclusiveFiles, Published, Followers
  <1> QED
    BY <1>1, <1>2, <1>3, <1>4, <1>5, <1>6, <1>7, <1>8, <1>9, <1>10, <1>11, <1>12, <1>13, <1>14, <1>15, <1>16 DEF
                    Next, Worker, Finished

LEMMA InductiveInvariant == Spec => []IInv
  <1>1. Init => IInv
    <2>1. Init => TypeInv
      BY PoolAssumption DEF Init, TypeInv, TypeOK, Stages, Roles, NoID
    <2>2. Init => RegistryInv
      BY DEF Init, RegistryInv, Launches, Unresolved, RoleStages, Leaders, Entries,
             ClosedAtMostOnce, Waiters, Sharers, PublishedReleases, ExclusiveFiles,
             Published, Followers, Tracks
    <2> QED
      BY <2>1, <2>2 DEF IInv
  <1>2. IInv /\ [Next]_vars => IInv'
    BY TypeStep, RegistryStep DEF IInv
  <1> QED
    BY <1>1, <1>2, PTL DEF Spec

-----------------------------------------------------------------------------
(* The properties *)

\* No two tracks are ever handed the same file of a release, whatever the
\* playlist, the pool size and the peers' answers.
THEOREM FilesAreExclusive == Spec => []ExclusiveFiles
  <1>1. IInv => ExclusiveFiles
    BY DEF IInv, RegistryInv
  <1> QED
    BY <1>1, InductiveInvariant, PTL

\* Every file of a queued release is moved once: by the track that follows it or
\* with the leader's siblings.
THEOREM FilesAreAccountedFor == Spec => []NothingLostOrDoubled
  <1>1. IInv => NothingLostOrDoubled
    BY DEF IInv, RegistryInv, PublishedReleases, NothingLostOrDoubled, Published, Followers
  <1> QED
    BY <1>1, InductiveInvariant, PTL

\* publish and fail together close a release's channel at most once.
THEOREM ChannelsCloseOnce == Spec => []ClosedOnce
  <1>1. IInv => ClosedOnce
    BY DEF IInv, RegistryInv, ClosedAtMostOnce, ClosedOnce
  <1> QED
    BY <1>1, InductiveInvariant, PTL

\* Two tracks never queue a release of the same album.
THEOREM AlbumsAreQueuedOnce == Spec => []OneReleasePerAlbum
  <1>1. IInv => OneReleasePerAlbum
    BY DEF IInv, RegistryInv, RoleStages, Leaders, PublishedReleases, Published, OneReleasePerAlbum
  <1> QED
    BY <1>1, InductiveInvariant, PTL

\* A worker blocked on a release always has a live leader ahead of it, however
\* few slots the pool has.
THEOREM WaitersHaveLeaders == Spec => []NobodyWaitsForever
  <1>1. IInv => NobodyWaitsForever
    <2> SUFFICES ASSUME IInv, NEW t \in Tracks, pc[t] = "wait", closed[rel[t]] = 0
                 PROVE  rel[t] \in Running \ {t} /\ pc[rel[t]] \in {"search", "get", "publish"}
      BY DEF NobodyWaitsForever
    <2>1. rel[t] \in Tracks \ {t} /\ role[rel[t]] = "leader" /\ pc[rel[t]] # "ended"
      BY DEF IInv, RegistryInv, Waiters
    <2>2. pc[rel[t]] \in {"search", "get", "publish"}
      BY <2>1 DEF IInv, TypeInv, TypeOK, Stages, RegistryInv, RoleStages
    <2> QED
      BY <2>1, <2>2 DEF Running
  <1> QED
    BY <1>1, InductiveInvariant, PTL

\* A published release keeps its files, its claims and its album.
THEOREM PublishedStays == Spec => PublishedIsFinal
  <1> DEFINE Keeps(l) == /\ relFiles'[l] = relFiles[l]
                         /\ claimed[l] \subseteq claimed'[l]
                         /\ releases'[AlbumKey[l]] = l
  <1>1. IInv /\ [Next]_vars => \A l \in Tracks : Published(l) => Keeps(l)
    <2> SUFFICES ASSUME IInv, [Next]_vars, NEW l \in Tracks, Published(l) PROVE Keeps(l)
      OBVIOUS
    <2>1. /\ TypeOK
          /\ releases[AlbumKey[l]] = l
          /\ AlbumKey[l] \in Albums
          /\ pc[l] = "ended"
      BY DEF IInv, TypeInv, RegistryInv, PublishedReleases, Leaders, Unresolved, Published
    <2> USE <2>1 DEF TypeOK, pool, registry, trackFields
    <2>2. CASE UNCHANGED vars \/ WaitAll
      BY <2>2 DEF vars, WaitAll
    <2>3. ASSUME NEW t \in Tracks, Launch(t) PROVE Keeps(l)
      BY <2>3 DEF Launch
    <2>4. ASSUME NEW t \in Tracks, QueryAlone(t) \/ ClaimAsFollower(t) \/ SearchSucceeds(t) PROVE Keeps(l)
      BY <2>4 DEF QueryAlone, ClaimAsFollower, SearchSucceeds
    <2>5. ASSUME NEW t \in Tracks, ClaimAsLeader(t) PROVE Keeps(l)
      BY <2>5, NoneAssumption DEF ClaimAsLeader
    <2>6. ASSUME NEW t \in Tracks, SearchFails(t) \/ GetFails(t) PROVE Keeps(l)
      <3>1. t # l
        BY <2>6 DEF SearchFails, GetFails
      <3>2. relFiles' = relFiles /\ claimed' = claimed
        BY <2>6 DEF SearchFails, GetFails
      <3>3. releases' = releases \/ Fail(t)
        BY <2>6 DEF SearchFails, GetFails
      <3> QED
        BY <3>1, <3>2, <3>3 DEF Fail
    <2>7. ASSUME NEW t \in Tracks, RetryClaim(t) \/ FallBackToSingle(t) \/ GetShared(t) PROVE Keeps(l)
      BY <2>7 DEF RetryClaim, FallBackToSingle, GetShared
    <2>8. ASSUME NEW t \in Tracks, NEW f \in Files, Share(t, f) \/ GetSingle(t, f) PROVE Keeps(l)
      BY <2>8 DEF Share, GetSingle
    <2>9. ASSUME NEW t \in Tracks, NEW p \in Files, NEW F \in SUBSET Files, QueueRelease(t, p, F) PROVE Keeps(l)
      BY <2>9 DEF QueueRelease
    <2>10. ASSUME NEW t \in Tracks, Publish(t) PROVE Keeps(l)
      BY <2>10 DEF Publish
    <2> QED
      BY <2>2, <2>3, <2>4, <2>5, <2>6, <2>7, <2>8, <2>9, <2>10 DEF Next, Worker, Finished, vars
  <1> QED
    BY <1>1, InductiveInvariant, PTL DEF Spec, PublishedIsFinal

-----------------------------------------------------------------------------
(* IDs *)

LEMMA IDStep == IInv /\ IDInv /\ DistinctIDs /\ [Next]_vars => IDInv' /\ DistinctIDs'
  <1> SUFFICES ASSUME IInv, IDInv, DistinctIDs, [Next]_vars PROVE IDInv' /\ DistinctIDs'
    OBVIOUS
  <1> USE DEF pool, registry, trackFields
  <1>1. TypeOK /\ RegistryInv
    BY DEF IInv, TypeInv
  <1>2. ASSUME id' = id, claimed' = claimed, rel' = rel,
               \A t \in Tracks : role'[t] = "shared" <=> role[t] = "shared"
        PROVE  IDInv' /\ DistinctIDs'
    BY <1>2 DEF IDInv, DistinctIDs, NoID, SearchID, SharedID
  <1>3. CASE UNCHANGED vars \/ WaitAll
    BY <1>2, <1>3 DEF vars, WaitAll
  <1>4. ASSUME NEW t \in Tracks, Launch(t) \/ QueryAlone(t) \/ GetShared(t) \/ RetryClaim(t)
        PROVE  IDInv' /\ DistinctIDs'
    BY <1>2, <1>4 DEF Launch, QueryAlone, GetShared, RetryClaim
  <1>5. ASSUME NEW t \in Tracks, FallBackToSingle(t)
        PROVE  IDInv' /\ DistinctIDs'
    <2>1. role[t] = "album"
      BY <1>1, <1>5 DEF RegistryInv, RoleStages, FallBackToSingle
    <2> QED
      BY <1>1, <1>2, <1>5, <2>1 DEF FallBackToSingle, TypeOK
  <1>6. ASSUME NEW t \in Tracks, ClaimAsLeader(t) \/ ClaimAsFollower(t)
        PROVE  IDInv' /\ DistinctIDs'
    <2>1. role[t] = "album" /\ role'[t] # "shared"
      BY <1>1, <1>6 DEF RegistryInv, RoleStages, TypeOK, ClaimAsLeader, ClaimAsFollower
    <2>2. /\ id' = id /\ claimed' = claimed
          /\ \A u \in Tracks \ {t} : rel'[u] = rel[u] /\ role'[u] = role[u]
      BY <1>1, <1>6 DEF TypeOK, ClaimAsLeader, ClaimAsFollower
    <2> QED
      BY <2>1, <2>2 DEF IDInv, DistinctIDs
  <1>7. ASSUME NEW t \in Tracks, SearchFails(t) \/ GetFails(t)
        PROVE  IDInv' /\ DistinctIDs'
    <2>1. role' = role \/ (role[t] = "leader" /\ role' = [role EXCEPT ![t] = "album"])
      BY <1>7 DEF SearchFails, GetFails, Fail
    <2>2. id' = id /\ claimed' = claimed /\ rel' = rel
      BY <1>7 DEF SearchFails, GetFails
    <2> QED
      BY <1>1, <1>2, <2>1, <2>2 DEF TypeOK
  <1>8. ASSUME NEW t \in Tracks, NEW f \in Files, GetSingle(t, f)
        PROVE  IDInv' /\ DistinctIDs'
    BY <1>2, <1>8 DEF GetSingle
  <1>9. ASSUME NEW t \in Tracks, NEW p \in Files, NEW F \in SUBSET Files, QueueRelease(t, p, F)
        PROVE  IDInv' /\ DistinctIDs'
    BY <1>2, <1>9 DEF QueueRelease
  <1>10. ASSUME NEW t \in Tracks, Publish(t)
         PROVE  IDInv' /\ DistinctIDs'
    <2>1. \A u \in Tracks : role[u] = "shared" => rel[u] # t
      BY <1>1, <1>10 DEF RegistryInv, Sharers, Published, Publish, Unresolved
    <2>2. /\ id' = id /\ role' = role /\ rel' = rel
          /\ \A l \in Tracks \ {t} : claimed'[l] = claimed[l]
      BY <1>1, <1>10 DEF TypeOK, Publish
    <2>3. IDInv'
      <3> SUFFICES ASSUME NEW u \in Tracks, role[u] = "shared"
                   PROVE  claimed'[rel[u]] = claimed[rel[u]]
        BY <2>2 DEF IDInv
      <3> QED
        BY <1>1, <2>1, <2>2 DEF RegistryInv, Sharers
    <2> QED
      BY <2>2, <2>3 DEF DistinctIDs
  <1>11. ASSUME NEW t \in Tracks, SearchSucceeds(t)
         PROVE  IDInv' /\ DistinctIDs'
    <2>1. role[t] # "shared"
      BY <1>1, <1>11 DEF RegistryInv, RoleStages, SearchSucceeds
    <2>2. /\ id' = [id EXCEPT ![t] = SearchID(t)]
          /\ role' = role /\ rel' = rel /\ claimed' = claimed
      BY <1>11 DEF SearchSucceeds
    <2>3. IDInv'
      BY <1>1, <2>1, <2>2 DEF TypeOK, IDInv
    <2>4. \A u \in Tracks \ {t} : id[u] # SearchID(t)
      BY <1>1 DEF IDInv, SearchID, SharedID, NoID, TypeOK, Tracks, RegistryInv, Sharers
    <2> QED
      BY <1>1, <2>2, <2>3, <2>4 DEF TypeOK, DistinctIDs, SearchID, NoID, Tracks
  <1>12. ASSUME NEW t \in Tracks, NEW f \in Files, Share(t, f)
         PROVE  IDInv' /\ DistinctIDs'
    <2> DEFINE l == rel[t]
               n == Cardinality(claimed[l])
    <2>1. /\ l \in Tracks \ {t} /\ role[t] = "album" /\ f \notin claimed[l]
          /\ role[l] = "leader" /\ claimed[l] # {}
      <3>1. l \in Tracks \ {t} /\ role[t] = "album" /\ f \notin claimed[l] /\ Published(l)
        BY <1>1, <1>12 DEF RegistryInv, Waiters, RoleStages, Published, Share, Candidates
      <3>2. role[l] = "leader" /\ file[l] \in claimed[l]
        BY <1>1, <3>1 DEF RegistryInv, PublishedReleases
      <3> QED
        BY <3>1, <3>2
    <2>2. IsFiniteSet(claimed[l]) /\ n \in Nat
      BY <1>1, <2>1, ClaimsAreFinite
    <2>3. n >= 1
      BY <2>1, <2>2, FS_EmptySet
    <2>4. Cardinality(claimed[l] \cup {f}) = n + 1
      BY <2>1, <2>2, FS_AddElement
    <2>5. /\ id' = [id EXCEPT ![t] = SharedID(l, n + 1)]
          /\ role' = [role EXCEPT ![t] = "shared"]
          /\ rel' = rel
          /\ claimed' = [claimed EXCEPT ![l] = @ \cup {f}]
      BY <1>12, <2>4 DEF Share
    <2>6. IDInv'
      <3>1. ASSUME NEW u \in Tracks, u # t, role[u] = "shared"
            PROVE  \E k \in 2..Cardinality(claimed'[rel[u]]) : id[u] = SharedID(rel[u], k)
        <4>1. PICK k \in 2..Cardinality(claimed[rel[u]]) : id[u] = SharedID(rel[u], k)
          BY <3>1 DEF IDInv
        <4>2. rel[u] \in Tracks
          BY <1>1, <3>1 DEF RegistryInv, Sharers
        <4>3. CASE rel[u] = l
          BY <1>1, <2>1, <2>2, <2>4, <2>5, <4>1, <4>3 DEF TypeOK
        <4>4. CASE rel[u] # l
          BY <1>1, <2>5, <4>1, <4>2, <4>4 DEF TypeOK
        <4> QED
          BY <4>3, <4>4
      <3>2. \E k \in 2..Cardinality(claimed'[rel[t]]) : id'[t] = SharedID(rel[t], k)
        <4>1. id'[t] = SharedID(l, n + 1) /\ claimed'[l] = claimed[l] \cup {f}
          BY <1>1, <2>1, <2>5 DEF TypeOK
        <4>2. n + 1 \in 2..Cardinality(claimed'[l])
          BY <2>2, <2>3, <2>4, <4>1
        <4> QED
          BY <4>1, <4>2
      <3>3. \A u \in Tracks \ {t} : id'[u] = id[u] /\ role'[u] = role[u] /\ rel'[u] = rel[u]
        BY <1>1, <2>5 DEF TypeOK
      <3>4. role'[t] = "shared" /\ rel'[t] = rel[t]
        BY <1>1, <2>5 DEF TypeOK
      <3>5. ASSUME NEW u \in Tracks
            PROVE  /\ role'[u] = "shared" =>
                        \E k \in 2..Cardinality(claimed'[rel'[u]]) : id'[u] = SharedID(rel'[u], k)
                   /\ role'[u] # "shared" => id'[u] \in {NoID, SearchID(u)}
        <4>1. CASE u = t
          BY <3>2, <3>4, <4>1
        <4>2. CASE u # t
          BY <3>1, <3>3, <4>2 DEF IDInv
        <4> QED
          BY <4>1, <4>2
      <3> QED
        BY <3>5 DEF IDInv
    <2>7. ASSUME NEW u \in Tracks, u # t PROVE id[u] # SharedID(l, n + 1)
      <3>1. CASE role[u] = "shared"
        BY <2>2, <3>1 DEF IDInv, SharedID
      <3>2. CASE role[u] # "shared"
        BY <2>1, <2>2, <3>2 DEF IDInv, SharedID, SearchID, NoID, Tracks
      <3> QED
        BY <3>1, <3>2
    <2>8. SharedID(l, n + 1) # NoID
      BY <2>1 DEF SharedID, NoID, Tracks
    <2> QED
      BY <1>1, <2>5, <2>6, <2>7, <2>8 DEF TypeOK, DistinctIDs
  <1> QED
    BY <1>3, <1>4, <1>5, <1>6, <1>7, <1>8, <1>9, <1>10, <1>11, <1>12 DEF Next, Worker, Finished

\* The IDs share makes up never collide with each other or with a search's, so
\* the monitor and slskd's status map can tell the tracks apart.
THEOREM IDsAreDistinct == Spec => []DistinctIDs
  <1>1. Init => IDInv /\ DistinctIDs
    BY DEF Init, IDInv, DistinctIDs
  <1> QED
    BY <1>1, InductiveInvariant, IDStep, PTL DEF Spec

-----------------------------------------------------------------------------
(* The registry implements the abstract handout *)

LEMMA HandedMember ==
    ASSUME NEW a \in Albums, NEW u \in Tracks, NEW f \in Files
    PROVE  <<a, u, f>> \in Handed <=>
             /\ releases[a] # None
             /\ Published(releases[a])
             /\ u \in Followers(releases[a]) \cup {releases[a]}
             /\ f = file[u]
  BY DEF Handed

LEMMA HandedStutters ==
    ASSUME IInv, releases' = releases, relFiles' = relFiles,
           \A u \in Tracks : role'[u] = "shared" <=> role[u] = "shared",
           \A u \in Tracks : role[u] = "shared" => rel'[u] = rel[u] /\ file'[u] = file[u],
           \A u \in Tracks : Published(u) => file'[u] = file[u]
    PROVE  Handed' = Handed
  <1>1. \A l \in Tracks : Published(l)' <=> Published(l)
    BY DEF Published
  <1>2. \A l \in Tracks : Followers(l)' = Followers(l)
    BY DEF Followers
  <1>3. ASSUME NEW h \in Albums \X Tracks \X Files
        PROVE  h \in Handed' <=> h \in Handed
    <2>1. releases[h[1]] # None => releases[h[1]] \in Tracks
      BY DEF IInv, TypeInv, TypeOK
    <2>2. h[2] \in Followers(releases[h[1]]) => file'[h[2]] = file[h[2]]
      BY DEF Followers
    <2> QED
      BY <1>1, <1>2, <2>1, <2>2 DEF Handed
  <1> QED
    BY <1>3 DEF Handed

LEMMA HandoutStep == IInv /\ IInv' /\ [Next]_vars => [Handout!HandoutNext]_<<releases, Handed>>
  <1> SUFFICES ASSUME IInv, IInv', [Next]_vars
               PROVE  Handout!HandoutNext \/ (releases' = releases /\ Handed' = Handed)
    OBVIOUS
  <1> USE DEF pool, registry, trackFields
  <1>0. TypeOK /\ TypeInv /\ RegistryInv
    BY DEF IInv, TypeInv
  <1>1. CASE UNCHANGED vars \/ WaitAll
    BY <1>1, HandedStutters DEF vars, WaitAll
  <1>2. ASSUME NEW t \in Tracks,
               Launch(t) \/ QueryAlone(t) \/ SearchSucceeds(t) \/ RetryClaim(t) \/ GetShared(t)
        PROVE  releases' = releases /\ Handed' = Handed
    BY <1>2, HandedStutters DEF Launch, QueryAlone, SearchSucceeds, RetryClaim, GetShared
  <1>3. ASSUME NEW t \in Tracks, ClaimAsFollower(t) \/ FallBackToSingle(t)
        PROVE  releases' = releases /\ Handed' = Handed
    <2>1. role[t] = "album"
      BY <1>0, <1>3 DEF RegistryInv, RoleStages, ClaimAsFollower, FallBackToSingle
    <2> QED
      BY <1>0, <1>3, <2>1, HandedStutters DEF TypeOK, ClaimAsFollower, FallBackToSingle
  <1>4. ASSUME NEW t \in Tracks, NEW f \in Files, GetSingle(t, f)
        PROVE  releases' = releases /\ Handed' = Handed
    <2>1. ~ Published(t)
      BY <1>0, <1>4 DEF RegistryInv, Unresolved, Published, GetSingle
    <2> QED
      BY <1>0, <1>4, <2>1, HandedStutters DEF TypeOK, GetSingle
  <1>5. ASSUME NEW t \in Tracks, NEW p \in Files, NEW F \in SUBSET Files, QueueRelease(t, p, F)
        PROVE  releases' = releases /\ Handed' = Handed
    <2>1. ~ Published(t)
      BY <1>0, <1>5 DEF RegistryInv, Unresolved, Published, QueueRelease
    <2> QED
      BY <1>0, <1>5, <2>1, HandedStutters DEF TypeOK, QueueRelease
  <1>6. ASSUME NEW t \in Tracks, ClaimAsLeader(t)
        PROVE  Handout!Lead(AlbumKey[t], t)
    <2>1. ~ Published(t) /\ AlbumKey[t] \in Albums
      BY <1>0, <1>6, AlbumAssumption DEF RegistryInv, Unresolved, Published, ClaimAsLeader
    <2>2. /\ relFiles' = relFiles /\ file' = file
          /\ releases' = [releases EXCEPT ![AlbumKey[t]] = t]
          /\ role[t] = "album"
          /\ role' = [role EXCEPT ![t] = "leader"] /\ rel' = [rel EXCEPT ![t] = t]
      BY <1>0, <1>6 DEF ClaimAsLeader, RegistryInv, RoleStages
    <2>3. \A l \in Tracks : Followers(l)' = Followers(l)
      BY <1>0, <2>2 DEF Followers, TypeOK
    <2>4. ASSUME NEW h \in Albums \X Tracks \X Files
          PROVE  h \in Handed' <=> h \in Handed
      <3>1. CASE h[1] = AlbumKey[t]
        BY <1>0, <1>6, <2>1, <2>2, <3>1 DEF Handed, Published, ClaimAsLeader, TypeOK
      <3>2. CASE h[1] # AlbumKey[t]
        BY <1>0, <2>1, <2>2, <2>3, <3>2 DEF Handed, Published, TypeOK
      <3> QED
        BY <3>1, <3>2
    <2>5. Handed' = Handed
      BY <2>4 DEF Handed
    <2> QED
      BY <1>6, <2>1, <2>2, <2>5 DEF Handout!Lead, ClaimAsLeader
  <1>7. ASSUME NEW t \in Tracks, SearchFails(t) \/ GetFails(t)
        PROVE  \/ releases' = releases /\ Handed' = Handed
               \/ AlbumKey[t] \in Albums /\ Handout!Resign(AlbumKey[t])
    <2>1. /\ relFiles' = relFiles /\ file' = file /\ rel' = rel
          /\ ~ Published(t)
      BY <1>0, <1>7 DEF SearchFails, GetFails, RegistryInv, Unresolved, Published
    <2>2. CASE role[t] # "leader"
      <3>1. releases' = releases /\ role' = role
        BY <1>7, <2>2 DEF SearchFails, GetFails
      <3> QED
        BY <2>1, <3>1, HandedStutters
    <2>3. CASE role[t] = "leader"
      <3>1. AlbumKey[t] \in Albums /\ releases[AlbumKey[t]] = t
        BY <1>0, <2>3 DEF RegistryInv, Leaders
      <3>2. /\ releases' = [releases EXCEPT ![AlbumKey[t]] = None]
            /\ role' = [role EXCEPT ![t] = "album"]
        BY <1>7, <2>3, <3>1 DEF SearchFails, GetFails, Fail
      <3>3. \A l \in Tracks : Followers(l)' = Followers(l)
        BY <1>0, <2>1, <2>3, <3>2 DEF Followers, TypeOK
      <3>4. ASSUME NEW h \in Albums \X Tracks \X Files
            PROVE  /\ h \in Handed' <=> h \in Handed
                   /\ h \in Handed => h[1] # AlbumKey[t]
        <4>1. CASE h[1] = AlbumKey[t]
          BY <1>0, <2>1, <3>1, <3>2, <4>1 DEF Handed, TypeOK
        <4>2. CASE h[1] # AlbumKey[t]
          BY <1>0, <2>1, <3>1, <3>2, <3>3, <4>2 DEF Handed, Published, TypeOK
        <4> QED
          BY <4>1, <4>2
      <3>5. Handed' = Handed /\ \A h \in Handed : h[1] # AlbumKey[t]
        BY <3>4 DEF Handed
      <3> QED
        BY <3>1, <3>2, <3>5, NoneAssumption DEF Handout!Resign
    <2> QED
      BY <2>2, <2>3
  <1>8. ASSUME NEW t \in Tracks, Publish(t)
        PROVE  AlbumKey[t] \in Albums /\ file[t] \in Files /\ Handout!HandToHolder(AlbumKey[t], file[t])
    <2> DEFINE a == AlbumKey[t]
    <2>1. /\ role[t] = "leader" /\ file[t] \in Files /\ ~ Published(t)
          /\ a \in Albums /\ releases[a] = t
      BY <1>0, <1>8 DEF Publish, RegistryInv, RoleStages, Leaders, Unresolved, Published
    <2>2. /\ releases' = releases /\ role' = role /\ rel' = rel /\ file' = file
          /\ relFiles' = [relFiles EXCEPT ![t] = siblings[t] \cup {file[t]}]
      BY <1>8 DEF Publish
    <2>3. Followers(t) = {}
      BY <1>0, <2>1 DEF RegistryInv, Sharers, Followers
    <2>4. \A l \in Tracks : Followers(l)' = Followers(l)
      BY <2>2 DEF Followers
    <2>5. Published(t)' /\ \A l \in Tracks \ {t} : Published(l)' <=> Published(l)
      BY <1>0, <2>2 DEF Published, TypeOK
    <2>6. ASSUME NEW h \in Albums \X Tracks \X Files
          PROVE  /\ h \in Handed' <=> h \in Handed \/ h = <<a, t, file[t]>>
                 /\ h \in Handed => h[1] # a
      <3>1. releases[h[1]] = t <=> h[1] = a
        BY <1>0, <2>1, NoneAssumption DEF RegistryInv, Entries
      <3>2. CASE h[1] = a
        <4>1. h \notin Handed
          BY <2>1, <3>2 DEF Handed
        <4>2. h \in Handed' <=> h[2] = t /\ h[3] = file[t]
          BY <2>1, <2>2, <2>3, <2>4, <2>5, <3>2, NoneAssumption DEF Handed
        <4> QED
          BY <3>2, <4>1, <4>2
      <3>3. CASE h[1] # a
        <4>1. releases[h[1]] # t
          BY <3>1, <3>3
        <4> QED
          BY <1>0, <2>2, <2>4, <2>5, <3>3, <4>1 DEF Handed, TypeOK
      <3> QED
        BY <3>2, <3>3
    <2>7. Handed' = Handed \cup {<<a, t, file[t]>>} /\ \A h \in Handed : h[1] # a
      BY <2>1, <2>6 DEF Handed
    <2> QED
      BY <2>1, <2>2, <2>7, NoneAssumption DEF Handout!HandToHolder
  <1>9. ASSUME NEW t \in Tracks, NEW f \in Files, Share(t, f)
        PROVE  AlbumKey[t] \in Albums /\ Handout!HandToFollower(AlbumKey[t], t, f)
    <2> DEFINE l == rel[t]
               a == AlbumKey[t]
    <2>1. /\ l \in Tracks \ {t} /\ Published(l) /\ role[l] = "leader" /\ f \notin claimed[l]
          /\ a \in Albums /\ AlbumKey[l] = a /\ role[t] = "album"
      BY <1>0, <1>9 DEF Share, Candidates, RegistryInv, Waiters, RoleStages, PublishedReleases, Published
    <2>2. releases[a] = l /\ releases' = releases /\ relFiles' = relFiles /\ rel' = rel
      BY <1>0, <1>9, <2>1 DEF Share, RegistryInv, Leaders
    <2>3. /\ role' = [role EXCEPT ![t] = "shared"]
          /\ file' = [file EXCEPT ![t] = f]
      BY <1>9 DEF Share
    <2>4. /\ Followers(l)' = Followers(l) \cup {t}
          /\ \A m \in Tracks \ {l} : Followers(m)' = Followers(m)
          /\ \A m \in Tracks : t \notin Followers(m)
      BY <1>0, <2>1, <2>2, <2>3 DEF Followers, TypeOK
    <2>5. /\ \A u \in Tracks \ {t} : file'[u] = file[u]
          /\ file'[t] = f
          /\ ~ Published(t)
      BY <1>0, <1>9, <2>3 DEF TypeOK, RegistryInv, Unresolved, Published, Share
    <2>6. \A u \in Followers(l) \cup {l} : file[u] \in claimed[l]
      BY <1>0, <2>1 DEF RegistryInv, PublishedReleases
    <2>7. ASSUME NEW h \in Albums \X Tracks \X Files
          PROVE  /\ h \in Handed' <=> h \in Handed \/ h = <<a, t, f>>
                 /\ h \in Handed /\ h[1] = a => h[2] # t /\ h[3] # f
      <3>1. releases[h[1]] = l <=> h[1] = a
        BY <1>0, <2>1, <2>2, NoneAssumption DEF RegistryInv, Entries
      <3>2. CASE h[1] = a
        <4>1. h \in Handed <=> h[2] \in Followers(l) \cup {l} /\ h[3] = file[h[2]]
          BY <2>1, <2>2, <3>2, NoneAssumption DEF Handed
        <4>2. h \in Handed' <=> h[2] \in Followers(l) \cup {l, t} /\ h[3] = file'[h[2]]
          BY <2>1, <2>2, <2>4, <3>2, NoneAssumption DEF Handed, Published
        <4>3. h[2] \in Followers(l) \cup {l} => h[2] # t /\ file[h[2]] # f
          BY <2>1, <2>4, <2>6
        <4> QED
          BY <2>5, <3>2, <4>1, <4>2, <4>3
      <3>3. CASE h[1] # a
        <4>1. releases[h[1]] # l
          BY <3>1, <3>3
        <4>2. h \in Handed => h[2] # t
          BY <1>0, <2>4, <2>5 DEF Handed, TypeOK
        <4>3. h \in Handed' => h[2] # t
          BY <1>0, <2>2, <2>4, <2>5, <4>1 DEF Handed, Published, TypeOK
        <4> QED
          BY <1>0, <2>2, <2>4, <2>5, <3>3, <4>1, <4>2, <4>3 DEF Handed, Published, TypeOK
      <3> QED
        BY <3>2, <3>3
    <2>8. Handed' = Handed \cup {<<a, t, f>>}
      BY <2>1, <2>7 DEF Handed
    <2>9. \A h \in Handed : h[1] = a => h[2] # t /\ h[3] # f
      BY <2>7 DEF Handed
    <2>10. \E g \in Files : <<a, releases[a], g>> \in Handed
      <3>1. file[l] \in Files
        BY <1>0, <2>1, <2>6 DEF TypeOK
      <3> QED
        BY <2>1, <2>2, <3>1, HandedMember, NoneAssumption
    <2> QED
      BY <2>1, <2>2, <2>8, <2>9, <2>10 DEF Handout!HandToFollower
  <1> QED
    <2>1. ASSUME NEW t \in Tracks, Worker(t)
          PROVE  Handout!HandoutNext \/ (releases' = releases /\ Handed' = Handed)
      <3>1. CASE ClaimAsLeader(t)
        BY <1>0, <1>6, <3>1, AlbumAssumption DEF Handout!HandoutNext, ClaimAsLeader
      <3>2. CASE SearchFails(t) \/ GetFails(t)
        BY <1>7, <3>2 DEF Handout!HandoutNext
      <3>3. CASE Publish(t)
        BY <1>8, <3>3 DEF Handout!HandoutNext
      <3>4. ASSUME NEW f \in Files, Share(t, f)
            PROVE  Handout!HandoutNext
        BY <1>9, <3>4 DEF Handout!HandoutNext
      <3> QED
        BY <2>1, <3>1, <3>2, <3>3, <3>4, <1>2, <1>3, <1>4, <1>5 DEF Worker
    <2> QED
      BY <1>1, <1>2, <2>1 DEF Next, Finished

\* The registry, its workers and its channels implement the abstract handout of
\* releases' files to tracks.
THEOREM RegistryImplementsHandout == Spec => HandsOutAlbums
  <1>1. Init => Handout!HandoutInit
    BY DEF Init, Handout!HandoutInit, Handed, Published
  <1>2. IInv /\ IInv' /\ [Next]_vars => [Handout!HandoutNext]_(Handout!handoutVars)
    BY HandoutStep DEF Handout!handoutVars
  <1> QED
    BY <1>1, <1>2, InductiveInvariant, PTL DEF Spec, HandsOutAlbums, Handout!HandoutSpec
=============================================================================
