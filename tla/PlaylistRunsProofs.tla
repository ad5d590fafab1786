------------------------- MODULE PlaylistRunsProofs -------------------------
(* Theorems of PlaylistRuns, for any users, share lists, flags and failures.  *)
EXTENDS PlaylistRuns, FiniteSetTheorems, TLAPS

Stages == {"idle", "next", "discover", "setup", "check", "download", "find", "delete",
           "refresh", "match", "create", "fill", "describe", "share", "copy", "copyFill",
           "copyDelete", "done", "exit", "over"}

\* A child has its user, and the renewal of a copy its recipient.
Serving ==
    \A j \in Jobs :
        /\ at[j] \notin {"idle", "next", "over"} => user[j] \in Users
        /\ at[j] \in {"copy", "copyFill", "copyDelete"} => copy[j].to \in Users

\* What runs see of tracks as Present has a song of the server.
PresentAreMatched == \A j \in Jobs : tracks[j].present \subseteq tracks[j].matched

TypeInv == TypeOK /\ Serving /\ PresentAreMatched

LEMMA TypeInit == Init => TypeInv
  <1> SUFFICES ASSUME Init PROVE TypeInv
    OBVIOUS
  <1> USE ConfigAssumption, UserAssumption, TrackAssumption DEF Init
  <1>1. NoTracks \in TrackList /\ NoCopy \in [to : Users \cup {NoOne}, new : Nat \cup {NoID}, old : Nat \cup {NoID}]
    BY DEF NoTracks, TrackList, NoCopy
  <1>2. server \subseteq Playlist
    <2>1. [id |-> 0, account |-> Owner, title |-> Bare, songs |-> Tracks] \in Playlist
      BY DEF Playlist, Accounts
    <2> QED BY <2>1
  <1>3. TypeOK
    BY <1>1, <1>2 DEF TypeOK
  <1>4. Serving /\ PresentAreMatched
    BY DEF Serving, PresentAreMatched, NoTracks
  <1> QED BY <1>3, <1>4 DEF TypeInv

\* Where a step leads.
LEMMA StagesOfAfter ==
    ASSUME ConfigAssumption, cfg \in Configs, NEW s \in {"setup", "check", "download", "delete"}
    PROVE  After(s) \in {"check", "download", "find", "refresh"}
  BY DEF After, Stages

LEMMA SearchKeepsTracks ==
    ASSUME TypeOK, PresentAreMatched, NEW j \in Jobs, SearchSongs(j)
    PROVE  tracks' \in [Jobs -> TrackList] /\ PresentAreMatched'
  <1>1. PICK hits \in SUBSET Searchable(tracks[j]) :
          tracks' = [tracks EXCEPT ![j].present = @ \cup hits, ![j].matched = @ \cup hits]
    BY DEF SearchSongs
  <1>2. tracks[j] \in TrackList /\ hits \subseteq Tracks
    BY DEF TypeOK, TrackList, Searchable
  <1>3. tracks' = [tracks EXCEPT ![j] = [tracks[j] EXCEPT !.present = @ \cup hits, !.matched = @ \cup hits]]
    BY <1>1, <1>2 DEF TypeOK, TrackList
  <1>4. [tracks[j] EXCEPT !.present = @ \cup hits, !.matched = @ \cup hits] \in TrackList
    BY <1>2 DEF TrackList
  <1>5. tracks'[j].present \subseteq tracks'[j].matched
    BY <1>2, <1>3 DEF PresentAreMatched, TypeOK, TrackList
  <1> QED BY <1>3, <1>4, <1>5 DEF PresentAreMatched, TypeOK

LEMMA RunsKeepTypes == ASSUME TypeInv, NEW j \in Jobs, Runs(j) PROVE TypeInv'
  <1> USE UserAssumption, TrackAssumption DEF TypeInv
  <1>0. NoTracks \in TrackList /\ NoCopy \in [to : Users \cup {NoOne}, new : Nat \cup {NoID}, old : Nat \cup {NoID}]
        /\ NoTracks.present \subseteq NoTracks.matched
    BY DEF NoTracks, TrackList, NoCopy
  <1>1. CASE Start(j)
    BY <1>1 DEF Start, Goto, Served, TypeOK, Serving, PresentAreMatched, run
  <1>2. ASSUME NEW u \in Users, NextUser(j, u) PROVE TypeInv'
    BY <1>2 DEF NextUser, Goto, TypeOK, Serving, PresentAreMatched, run
  <1>3. CASE ChildEnds(j)
    BY <1>0, <1>3 DEF ChildEnds, Forget, Goto, TypeOK, Serving, PresentAreMatched, run
  <1>4. CASE Over(j)
    BY <1>4 DEF Over, Goto, TypeOK, Serving, PresentAreMatched, run
  <1>5. CASE Killed(j)
    BY <1>0, <1>5 DEF Killed, Forget, Slip, Goto, TypeOK, Serving, PresentAreMatched, run
  <1> QED BY <1>1, <1>2, <1>3, <1>4, <1>5 DEF Runs

LEMMA PreparingKeepsTypes == ASSUME TypeInv, NEW j \in Jobs, Prepares(j) PROVE TypeInv'
  <1> USE ConfigAssumption, TrackAssumption DEF TypeInv
  <1>1. CASE ExitsEarly(j)
    BY <1>1 DEF ExitsEarly, Goto, TypeOK, Serving, PresentAreMatched, run
  <1>2. CASE Discover(j)
    <2>1. PICK found \in SUBSET Tracks : tracks' = [tracks EXCEPT ![j].listed = found]
      BY <1>2 DEF Discover
    <2>2. tracks[j] \in TrackList
      BY DEF TypeOK
    <2>3. tracks' = [tracks EXCEPT ![j] = [tracks[j] EXCEPT !.listed = found]]
      BY <2>1, <2>2 DEF TypeOK, TrackList
    <2>4. [tracks[j] EXCEPT !.listed = found] \in TrackList
      BY <2>2 DEF TrackList
    <2>5. [tracks[j] EXCEPT !.listed = found].present \subseteq [tracks[j] EXCEPT !.listed = found].matched
      BY <2>2 DEF PresentAreMatched, TrackList
    <2>6. tracks' \in [Jobs -> TrackList] /\ PresentAreMatched'
      BY <2>3, <2>4, <2>5 DEF PresentAreMatched, TypeOK
    <2> QED BY <1>2, <2>6 DEF Discover, Goto, TypeOK, Serving
  <1>3. CASE Setup(j)
    <2>1. After("setup") \in {"check", "download", "find", "refresh"}
      BY StagesOfAfter DEF TypeOK
    <2> QED BY <1>3, <2>1 DEF Setup, Goto, TypeOK, Serving, PresentAreMatched, Stages, run
  <1>4. CASE CheckTracks(j)
    <2>1. After("check") \in {"check", "download", "find", "refresh"}
      BY StagesOfAfter DEF TypeOK
    <2>2. tracks' \in [Jobs -> TrackList] /\ PresentAreMatched'
      BY <1>4, SearchKeepsTracks DEF CheckTracks
    <2> QED BY <1>4, <2>1, <2>2 DEF CheckTracks, Goto, TypeOK, Serving, Stages
  <1>5. ASSUME NEW l \in TrackList, l.present \subseteq l.matched, Continue(j, l)
        PROVE  /\ tracks' \in [Jobs -> TrackList] /\ PresentAreMatched'
               /\ at' \in [Jobs -> Stages]
               /\ \A k \in Jobs : k # j => at'[k] = at[k]
               /\ at'[j] \in {"exit", "find", "refresh"}
    <2>1. After("download") \in {"find", "refresh"}
      BY DEF After
    <2> QED BY <1>5, <2>1 DEF Continue, Goto, TypeOK, PresentAreMatched, Stages
  <1>6. Wanted(tracks[j]) \in TrackList /\ Wanted(tracks[j]).present \subseteq Wanted(tracks[j]).matched
    <2>1. tracks[j] \in TrackList /\ tracks[j].present \subseteq tracks[j].matched
      BY DEF TypeOK, PresentAreMatched
    <2> QED BY <2>1 DEF Wanted, Unavailable, TrackList
  <1>7. CASE StartDownload(j)
    <2>1. PICK got \in SUBSET (Wanted(tracks[j]).listed \ Wanted(tracks[j]).present) :
            /\ disk' = disk \cup got
            /\ Continue(j, Available([Wanted(tracks[j]) EXCEPT !.present = @ \cup got, !.named = @ \cup got]))
      BY <1>7 DEF StartDownload
    <2> DEFINE l == Available([Wanted(tracks[j]) EXCEPT !.present = @ \cup got, !.named = @ \cup got])
    <2>2. l \in TrackList /\ l.present \subseteq l.matched /\ got \subseteq Tracks
      BY <1>6 DEF Available, TrackList
    <2> QED BY <1>5, <1>7, <2>1, <2>2 DEF StartDownload, TypeOK, Serving, Stages
  <1>8. CASE DownloadReturns(j)
    BY <1>5, <1>6, <1>8 DEF DownloadReturns, TypeOK, Serving, Stages
  <1> QED BY <1>1, <1>2, <1>3, <1>4, <1>7, <1>8 DEF Prepares

\* Playlists a run makes or fills are playlists.
LEMMA MadeArePlaylists ==
    ASSUME TypeOK, NEW a \in Accounts, NEW t \in Users \cup {Bare}, NEW s \in SUBSET Tracks, NEW p
    PROVE  New(a, t, s) \in Playlist /\ Filled(p, s) \subseteq Playlist
  <1>1. New(a, t, s) \in Playlist
    BY DEF TypeOK, New, Playlist
  <1>2. ASSUME NEW q \in server PROVE (IF q.id = p THEN [q EXCEPT !.songs = s] ELSE q) \in Playlist
    BY DEF TypeOK, Playlist
  <1> QED BY <1>1, <1>2 DEF Filled

LEMMA ReplacingKeepsTypes == ASSUME TypeInv, NEW j \in Jobs, Replaces(j) PROVE TypeInv'
  <1> USE UserAssumption, TrackAssumption DEF TypeInv, TypeOK
  <1> USE DEF Goto, Remember, Slip, run
  <1>0. tracks[j] \in TrackList /\ After("delete") = "refresh"
    BY DEF After
  <1>1. /\ Sent(tracks[j]) \subseteq Tracks
        /\ at[j] \in {"create", "fill"} => Account(j) \in Accounts
    BY <1>0 DEF Sent, TrackList, Serving, Accounts, Account
  <1>2. CASE FindPlaylist(j)
    <2>1. \A p \in Named(Account(j), Bare) : p.id \in Nat
      BY DEF Named, Playlist
    <2>2. id' \in [Jobs -> Nat \cup {NoID}]
      <3>1. CASE Named(Account(j), Bare) = {}
        BY <1>2, <3>1 DEF FindPlaylist
      <3>2. CASE Named(Account(j), Bare) # {}
        <4>1. PICK p \in Named(Account(j), Bare) : id' = [id EXCEPT ![j] = p.id]
          BY ONLY <1>2, <3>2 DEF FindPlaylist, Remember
        <4>2. p.id \in Nat
          BY ONLY <2>1, <4>1
        <4>3. id \in [Jobs -> Nat \cup {NoID}]
          OBVIOUS
        <4> QED BY ONLY <4>1, <4>2, <4>3
      <3> QED BY <3>1, <3>2
    <2>3. at' = [at EXCEPT ![j] = "refresh"] \/ at' = [at EXCEPT ![j] = "delete"]
      BY ONLY <1>2 DEF FindPlaylist, Goto
    <2>4. Serving' /\ PresentAreMatched'
      BY <1>2, <2>3 DEF FindPlaylist, Serving, PresentAreMatched
    <2> QED BY <1>2, <2>2, <2>3, <2>4 DEF FindPlaylist, Stages
  <1>3. CASE FindFails(j)
    BY <1>3 DEF FindFails, Serving, PresentAreMatched
  <1>4. CASE DeletePlaylist(j)
    BY <1>0, <1>4 DEF DeletePlaylist, Serving, PresentAreMatched
  <1>5. CASE DeleteFails(j)
    BY <1>0, <1>5 DEF DeleteFails, Serving, PresentAreMatched
  <1>6. CASE RefreshLibrary(j)
    BY <1>6 DEF RefreshLibrary, Serving, PresentAreMatched
  <1>7. CASE MatchTracks(j)
    <2>1. tracks' \in [Jobs -> TrackList] /\ PresentAreMatched'
      BY <1>7, SearchKeepsTracks DEF MatchTracks
    <2> QED BY <1>7, <2>1 DEF MatchTracks, Serving
  <1>8. CASE CreateWhole(j)
    <2>1. New(Account(j), Bare, Sent(tracks[j])) \in Playlist
      BY <1>1, <1>8, MadeArePlaylists DEF CreateWhole
    <2> QED BY <1>8, <2>1 DEF CreateWhole, Serving, PresentAreMatched
  <1>9. CASE CreateEmpty(j)
    <2>1. New(Account(j), Bare, {}) \in Playlist
      BY <1>1, <1>9, MadeArePlaylists DEF CreateEmpty
    <2> QED BY <1>9, <2>1 DEF CreateEmpty, Serving, PresentAreMatched
  <1>10. CASE AddTracks(j)
    <2>1. PICK added \in SUBSET (Addable(tracks[j]) \cap tracks[j].matched) : server' = Filled(id[j], added)
      BY <1>10 DEF AddTracks
    <2>2. added \subseteq Tracks
      BY <1>0 DEF Addable, TrackList
    <2>3. server' \subseteq Playlist
      BY <1>1, <1>10, <2>1, <2>2, MadeArePlaylists DEF AddTracks
    <2> QED BY <1>10, <2>3 DEF AddTracks, Serving, PresentAreMatched
  <1>11. CASE UpdatePlaylist(j)
    BY <1>11 DEF UpdatePlaylist, Serving, PresentAreMatched
  <1>12. CASE CreateFails(j)
    BY <1>12 DEF CreateFails, Serving, PresentAreMatched
  <1>13. CASE CreateUnanswered(j)
    <2>1. \A s \in {{}, Sent(tracks[j])} : New(Account(j), Bare, s) \in Playlist
      BY <1>1, <1>13, MadeArePlaylists DEF CreateUnanswered
    <2> QED BY <1>13, <2>1 DEF CreateUnanswered, Serving, PresentAreMatched
  <1> QED BY <1>2, <1>3, <1>4, <1>5, <1>6, <1>7, <1>8, <1>9, <1>10, <1>11, <1>12, <1>13 DEF Replaces

LEMMA SharingKeepsTypes == ASSUME TypeInv, NEW j \in Jobs, Shares(j) PROVE TypeInv'
  <1> USE UserAssumption, TrackAssumption DEF TypeInv, TypeOK
  <1> USE DEF Goto, Slip, run
  <1>0. /\ at[j] \in {"copy", "copyFill"} => copy[j].to \in Accounts
        /\ at[j] \in {"copy", "copyFill"} => user[j] \in Users
        /\ Addable(tracks[j]) \subseteq Tracks
    BY DEF Serving, Accounts, Addable, TrackList
  <1>1. ASSUME NEW r \in Users, ShareWithUser(j, r) PROVE TypeInv'
    <2>1. PICK old \in Nat \cup {NoID} : Serve(j, r, old)
      BY <1>1 DEF ShareWithUser, Named, Playlist
    <2> QED BY <1>1, <2>1 DEF ShareWithUser, Serve, Serving, PresentAreMatched
  <1>2. ASSUME NEW r \in Users, ShareFails(j, r) PROVE TypeInv'
    BY <1>2 DEF ShareFails, Serving, PresentAreMatched
  <1>3. CASE SharingEnds(j)
    BY <1>3 DEF SharingEnds, Serving, PresentAreMatched
  <1>4. CASE CreateCopy(j)
    <2>1. New(copy[j].to, user[j], {}) \in Playlist
      BY <1>0, <1>4, MadeArePlaylists DEF CreateCopy
    <2> QED BY <1>4, <2>1 DEF CreateCopy, Serving, PresentAreMatched
  <1>5. CASE CopyFails(j)
    BY <1>5 DEF CopyFails, Serving, PresentAreMatched
  <1>6. CASE CopyUnanswered(j)
    <2>1. New(copy[j].to, user[j], {}) \in Playlist
      BY <1>0, <1>6, MadeArePlaylists DEF CopyUnanswered
    <2> QED BY <1>6, <2>1 DEF CopyUnanswered, Serving, PresentAreMatched
  <1>7. CASE FillCopy(j)
    <2>1. PICK added \in SUBSET (Addable(tracks[j]) \cap tracks[j].matched) : server' = Filled(copy[j].new, added)
      BY <1>7 DEF FillCopy
    <2>2. server' \subseteq Playlist
      BY <1>0, <1>7, <2>1, MadeArePlaylists DEF FillCopy
    <2> QED BY <1>7, <2>2 DEF FillCopy, Serving, PresentAreMatched
  <1>8. CASE FillFails(j)
    BY <1>8 DEF FillFails, Serving, PresentAreMatched
  <1>9. CASE DeleteCopy(j)
    BY <1>9 DEF DeleteCopy, Serving, PresentAreMatched
  <1>10. CASE DeleteCopyFails(j)
    BY <1>10 DEF DeleteCopyFails, Serving, PresentAreMatched
  <1> QED BY <1>1, <1>2, <1>3, <1>4, <1>5, <1>6, <1>7, <1>8, <1>9, <1>10 DEF Shares

LEMMA TypeStep == TypeInv /\ [Next]_vars => TypeInv'
  <1> SUFFICES ASSUME TypeInv, [Next]_vars PROVE TypeInv'
    OBVIOUS
  <1>1. CASE \E j \in Jobs : Runs(j) \/ Prepares(j) \/ Replaces(j) \/ Shares(j)
    BY <1>1, RunsKeepTypes, PreparingKeepsTypes, ReplacingKeepsTypes, SharingKeepsTypes
  <1>2. ASSUME NEW t \in Tracks, Scan(t) PROVE TypeInv'
    BY <1>2 DEF Scan, TypeInv, TypeOK, Serving, PresentAreMatched, run
  <1>3. ASSUME NEW a \in Accounts, MadeByHand(a) PROVE TypeInv'
    <2>1. [id |-> fresh, account |-> a, title |-> Bare, songs |-> Tracks] \in Playlist
      BY DEF Playlist, TypeInv, TypeOK
    <2> QED BY <1>3, <2>1, TrackAssumption
            DEF MadeByHand, Slip, TypeInv, TypeOK, Serving, PresentAreMatched, run
  <1>4. CASE UNCHANGED vars
    BY <1>4 DEF vars, run, TypeInv, TypeOK, Serving, PresentAreMatched
  <1> QED BY <1>1, <1>2, <1>3, <1>4 DEF Next

LEMMA TypesAreKept == Spec => []TypeInv
  BY TypeInit, TypeStep, PTL DEF Spec

\* Every value stays in its type: no run goes on without a user, no copy is
\* renewed without a recipient and every playlist has an account.
THEOREM TypeCorrect == Spec => []TypeOK
  <1>1. TypeInv => TypeOK
    BY DEF TypeInv
  <1> QED BY <1>1, TypesAreKept, PTL

\* A song list sent to a server names songs of the server only, whatever the
\* downloaders put into the tracks before.
THEOREM SongListsAreTheServers == Spec => []OnlyServerIDs
  <1>1. TypeInv => OnlyServerIDs
    BY DEF TypeInv, PresentAreMatched, OnlyServerIDs, Sent
  <1> QED BY <1>1, TypesAreKept, PTL

-----------------------------------------------------------------------------
(* What is whose *)

Active(j) == at[j] \notin {"idle", "over"}

\* One run at a time.
Alone == \A j, k \in Jobs : Active(j) /\ Active(k) => j = k

\* The server gives an ID once.
UniqueIDs ==
    /\ \A p \in server : p.id < fresh
    /\ \A p, q \in server : p.id = q.id => p = q

\* What a run deletes or fills is found by its account's requests under the job's
\* name, and what it renews, on Plex, is its recipient's; a copy is only deleted
\* once the new one has songs.
AimedAt(j) ==
    /\ at[j] \in {"delete", "fill"} =>
          /\ \A p \in server : p.id = id[j] => p \in Named(Account(j), Bare)
          /\ id[j] \in Nat /\ id[j] < fresh
    /\ at[j] \in {"copy", "copyFill", "copyDelete"} =>
          /\ cfg.system = "plex"
          /\ \A p \in server : p.id = copy[j].old => p \in Named(copy[j].to, user[j])
          /\ copy[j].old = NoID \/ copy[j].old < fresh
    /\ at[j] \in {"copyFill", "copyDelete"} =>
          /\ copy[j].new # copy[j].old
          /\ \E p \in Named(copy[j].to, user[j]) :
                p.id = copy[j].new /\ (at[j] = "copyDelete" => p.songs # {})

Aimed == \A j \in Jobs : AimedAt(j)

Inv == TypeInv /\ Alone /\ UniqueIDs /\ Aimed

LEMMA InvInit == Init => Inv
  <1> SUFFICES ASSUME Init PROVE Inv
    OBVIOUS
  <1>1. Alone /\ UniqueIDs /\ Aimed
    BY DEF Init, Alone, Active, UniqueIDs, Aimed, AimedAt
  <1> QED BY <1>1, TypeInit DEF Inv

\* Only these touch the server.
Makes(j) == CreateWhole(j) \/ CreateEmpty(j) \/ CreateUnanswered(j) \/ CreateCopy(j) \/ CopyUnanswered(j)
Fills(j) == AddTracks(j) \/ FillCopy(j)
Deletes(j) == DeletePlaylist(j) \/ DeleteCopy(j)

LEMMA WhatTouchesTheServer ==
    ASSUME [Next]_vars
    PROVE  \/ UNCHANGED <<server, fresh>>
           \/ \E j \in Jobs : Makes(j) \/ Fills(j) \/ Deletes(j)
           \/ \E a \in Accounts : MadeByHand(a)
  <1>1. ASSUME NEW j \in Jobs, Runs(j) PROVE UNCHANGED <<server, fresh>>
    BY <1>1 DEF Runs, Start, NextUser, ChildEnds, Over, Killed
  <1>2. ASSUME NEW j \in Jobs, Prepares(j) PROVE UNCHANGED <<server, fresh>>
    BY <1>2 DEF Prepares, ExitsEarly, Discover, Setup, CheckTracks, StartDownload, DownloadReturns
  <1>3. ASSUME NEW j \in Jobs, Replaces(j)
        PROVE  UNCHANGED <<server, fresh>> \/ Makes(j) \/ Fills(j) \/ Deletes(j)
    BY <1>3 DEF Replaces, Makes, Fills, Deletes, FindPlaylist, FindFails, DeleteFails, RefreshLibrary,
                MatchTracks, UpdatePlaylist, CreateFails
  <1>4. ASSUME NEW j \in Jobs, Shares(j)
        PROVE  UNCHANGED <<server, fresh>> \/ Makes(j) \/ Fills(j) \/ Deletes(j)
    BY <1>4 DEF Shares, Makes, Fills, Deletes, ShareWithUser, ShareFails, SharingEnds, CopyFails,
                FillFails, DeleteCopyFails
  <1>5. ASSUME NEW t \in Tracks, Scan(t) PROVE UNCHANGED <<server, fresh>>
    BY <1>5 DEF Scan
  <1> QED BY <1>1, <1>2, <1>3, <1>4, <1>5 DEF Next, vars

Step(j) == Runs(j) \/ Prepares(j) \/ Replaces(j) \/ Shares(j)

\* The flags and the system are the instance's.
LEMMA SystemStays == ASSUME [Next]_vars PROVE cfg' = cfg
  <1>1. ASSUME NEW j \in Jobs, Runs(j) PROVE cfg' = cfg
    BY <1>1 DEF Runs, Start, NextUser, ChildEnds, Over, Killed
  <1>2. ASSUME NEW j \in Jobs, Prepares(j) PROVE cfg' = cfg
    BY <1>2 DEF Prepares, ExitsEarly, Discover, Setup, CheckTracks, StartDownload, DownloadReturns
  <1>3. ASSUME NEW j \in Jobs, Replaces(j) PROVE cfg' = cfg
    BY <1>3 DEF Replaces, FindPlaylist, FindFails, DeletePlaylist, DeleteFails, RefreshLibrary, MatchTracks,
                CreateWhole, CreateEmpty, AddTracks, UpdatePlaylist, CreateFails, CreateUnanswered
  <1>4. ASSUME NEW j \in Jobs, Shares(j) PROVE cfg' = cfg
    BY <1>4 DEF Shares, ShareWithUser, ShareFails, SharingEnds, CreateCopy, CopyFails, CopyUnanswered,
                FillCopy, FillFails, DeleteCopy, DeleteCopyFails
  <1> QED BY <1>1, <1>2, <1>3, <1>4 DEF Next, Scan, MadeByHand, vars

\* Stages at which a playlist of the server is known by its ID.
Holding == {"delete", "fill", "copy", "copyFill", "copyDelete"}

Enters(j) ==
    \/ FindPlaylist(j) \/ CreateEmpty(j) \/ CreateCopy(j) \/ FillCopy(j)
    \/ \E r \in Users : ShareWithUser(j, r)

\* A step of one run leaves the others where they are, and only five of them
\* lead to a stage that holds an ID.
LEMMA OneMoves ==
    ASSUME TypeInv, NEW j \in Jobs, Step(j)
    PROVE  /\ at' \in [Jobs -> Stages]
           /\ \A k \in Jobs \ {j} : at'[k] = at[k]
           /\ Start(j) \/ Active(j)
           /\ at'[j] \in Holding => Enters(j)
  <1> USE DEF TypeInv, TypeOK, Goto, Active, Holding, Enters, Stages
  <1>1. CASE Runs(j)
    BY <1>1 DEF Runs, Start, NextUser, ChildEnds, Over, Killed
  <1>2. CASE Prepares(j)
    <2>1. After("setup") \in {"check", "download", "find", "refresh"}
          /\ After("check") \in {"check", "download", "find", "refresh"}
      BY StagesOfAfter, ConfigAssumption
    <2>2. After("download") \in {"find", "refresh"}
      BY DEF After
    <2>3. CASE ExitsEarly(j) \/ Discover(j) \/ Setup(j) \/ CheckTracks(j)
      <3>1. CASE ExitsEarly(j)
        BY <3>1 DEF ExitsEarly
      <3>2. CASE Discover(j)
        BY <3>2 DEF Discover
      <3>3. CASE Setup(j)
        BY <2>1, <3>3 DEF Setup
      <3>4. CASE CheckTracks(j)
        BY <2>1, <3>4 DEF CheckTracks
      <3> QED BY <2>3, <3>1, <3>2, <3>3, <3>4
    <2>4. CASE StartDownload(j) \/ DownloadReturns(j)
      <3>1. PICK l : Continue(j, l)
        BY <2>4 DEF StartDownload, DownloadReturns
      <3>2. at' = [at EXCEPT ![j] = "exit"] \/ at' = [at EXCEPT ![j] = After("download")]
        BY ONLY <3>1 DEF Continue, Goto
      <3>3. at[j] = "download"
        BY ONLY <2>4 DEF StartDownload, DownloadReturns
      <3>4. at \in [Jobs -> Stages]
        OBVIOUS
      <3>5. at'[j] \in {"exit", "find", "refresh"}
        BY ONLY <2>2, <3>2, <3>4
      <3>6. at' \in [Jobs -> Stages] /\ \A k \in Jobs \ {j} : at'[k] = at[k]
        BY ONLY <2>2, <3>2, <3>4 DEF Stages
      <3> QED BY ONLY <3>3, <3>5, <3>6 DEF Active, Holding, Stages
    <2> QED BY <1>2, <2>3, <2>4 DEF Prepares
  <1>3. CASE Replaces(j)
    <2>1. After("delete") = "refresh"
      BY DEF After
    <2>2. CASE FindPlaylist(j)
      BY <2>2 DEF FindPlaylist
    <2> QED BY <1>3, <2>1, <2>2
            DEF Replaces, FindFails, DeletePlaylist, DeleteFails, RefreshLibrary, MatchTracks, CreateWhole,
                CreateEmpty, AddTracks, UpdatePlaylist, CreateFails, CreateUnanswered
  <1>4. CASE Shares(j)
    <2>1. ASSUME NEW r \in Users, ShareFails(j, r)
          PROVE  at' = at /\ at[j] = "share"
      BY <2>1 DEF ShareFails
    <2> QED BY <1>4, <2>1 DEF Shares, ShareWithUser, SharingEnds, CreateCopy, CopyFails, CopyUnanswered, FillCopy,
                FillFails, DeleteCopy, DeleteCopyFails
  <1> QED BY <1>1, <1>2, <1>3, <1>4 DEF Step

LEMMA AloneStep == ASSUME TypeInv, Alone, [Next]_vars PROVE Alone'
  <1>1. ASSUME NEW j \in Jobs, Step(j) PROVE Alone'
    <2>1. CASE Start(j)
      BY <1>1, <2>1, OneMoves DEF Start, Alone, Active
    <2>2. CASE Active(j)
      BY <1>1, <2>2, OneMoves DEF Alone, Active
    <2> QED BY <1>1, <2>1, <2>2, OneMoves
  <1>2. CASE at' = at
    BY <1>2 DEF Alone, Active
  <1> QED BY <1>1, <1>2 DEF Next, Step, Scan, MadeByHand, vars

LEMMA UniqueStep == ASSUME TypeInv, UniqueIDs, [Next]_vars PROVE UniqueIDs'
  <1>0. fresh \in Nat /\ \A p \in server : p.id \in Nat
    BY DEF TypeInv, TypeOK, Playlist
  <1>1. ASSUME NEW j \in Jobs, Makes(j) PROVE UniqueIDs'
    <2>1. /\ fresh' = fresh + 1
          /\ \A p \in server' : p \in server \/ \E a, t, s : p = New(a, t, s)
          /\ \A p, q \in server' : p \notin server /\ q \notin server => p = q
      <3>1. CASE CreateWhole(j)
        BY <3>1 DEF CreateWhole
      <3>2. CASE CreateEmpty(j)
        BY <3>2 DEF CreateEmpty
      <3>3. CASE CreateUnanswered(j)
        BY <3>3 DEF CreateUnanswered
      <3>4. CASE CreateCopy(j)
        BY <3>4 DEF CreateCopy
      <3>5. CASE CopyUnanswered(j)
        BY <3>5 DEF CopyUnanswered
      <3> QED BY <1>1, <3>1, <3>2, <3>3, <3>4, <3>5 DEF Makes
    <2>2. \A p \in server' : p \in server \/ p.id = fresh
      BY <2>1 DEF New
    <2> QED BY <1>0, <2>1, <2>2 DEF UniqueIDs
  <1>2. ASSUME NEW j \in Jobs, Fills(j) PROVE UniqueIDs'
    <2>1. PICK p, s : server' = Filled(p, s)
      BY <1>2 DEF Fills, AddTracks, FillCopy
    <2>2. fresh' = fresh
      BY <1>2 DEF Fills, AddTracks, FillCopy
    <2>3. \A q \in server : (IF q.id = p THEN [q EXCEPT !.songs = s] ELSE q).id = q.id
      BY DEF TypeInv, TypeOK, Playlist
    <2> DEFINE F(q) == IF q.id = p THEN [q EXCEPT !.songs = s] ELSE q
    <2>4. \A r \in server' : \E q \in server : r = F(q)
      BY <2>1 DEF Filled
    <2>5. \A r \in server' : r.id < fresh'
      BY <2>2, <2>3, <2>4 DEF UniqueIDs
    <2>6. ASSUME NEW r1 \in server', NEW r2 \in server', r1.id = r2.id PROVE r1 = r2
      <3>1. PICK q1 \in server, q2 \in server : r1 = F(q1) /\ r2 = F(q2)
        BY <2>4
      <3>2. q1.id = q2.id
        BY <2>3, <2>6, <3>1
      <3> QED BY <3>1, <3>2 DEF UniqueIDs
    <2> QED BY <2>5, <2>6 DEF UniqueIDs
  <1>3. ASSUME NEW j \in Jobs, Deletes(j) PROVE UniqueIDs'
    BY <1>3 DEF Deletes, DeletePlaylist, DeleteCopy, UniqueIDs
  <1>4. CASE UNCHANGED <<server, fresh>>
    BY <1>4 DEF UniqueIDs
  <1>5. ASSUME NEW a \in Accounts, MadeByHand(a) PROVE UniqueIDs'
    BY <1>0, <1>5 DEF MadeByHand, UniqueIDs
  <1> QED BY <1>1, <1>2, <1>3, <1>4, <1>5, WhatTouchesTheServer

LEMMA AimedStep == ASSUME Inv, [Next]_vars PROVE Aimed'
  <1> USE DEF Inv
  <1>0. /\ fresh \in Nat /\ NoID \notin Nat /\ Bare \notin Users
        /\ \A p \in server : p \in Playlist /\ p.id \in Nat /\ p.id < fresh
    BY TrackAssumption, UserAssumption DEF TypeInv, TypeOK, Playlist, UniqueIDs
  <1>1. ASSUME NEW j \in Jobs, Step(j) PROVE Aimed'
    <2>1. ASSUME NEW k \in Jobs, k # j PROVE at'[k] \notin Holding
      BY <1>1, <2>1, OneMoves DEF Holding, Start, Alone, Active
    <2>2. ASSUME FindPlaylist(j) PROVE AimedAt(j)'
      <3>1. CASE at'[j] = "delete"
        <4>1. PICK p \in Named(Account(j), Bare) : id'[j] = p.id
          BY <2>2, <3>1 DEF FindPlaylist, Goto, Remember, TypeInv, TypeOK
        <4>2. p \in server /\ p.id \in Nat /\ p.id < fresh /\ UNCHANGED <<cfg, server, fresh, user>>
          BY <1>0, <2>2, <4>1 DEF FindPlaylist, Named, UniqueIDs
        <4> QED BY <3>1, <4>1, <4>2 DEF AimedAt, Named, Account, UniqueIDs
      <3> QED BY <2>2, <3>1 DEF FindPlaylist, Goto, AimedAt, TypeInv, TypeOK
    <2>3. ASSUME CreateEmpty(j) PROVE AimedAt(j)'
      <3>1. at'[j] = "fill" /\ id'[j] = fresh /\ user' = user /\ cfg' = cfg /\ fresh' = fresh + 1
        BY <2>3 DEF CreateEmpty, Goto, Remember, TypeInv, TypeOK
      <3>2. \A p \in server' : p.id = fresh => p = New(Account(j), Bare, {})
        BY <1>0, <2>3 DEF CreateEmpty
      <3> QED BY <1>0, <3>1, <3>2 DEF AimedAt, Named, New, Account
    <2>4. ASSUME NEW r \in Users, ShareWithUser(j, r) PROVE AimedAt(j)'
      <3>1. at'[j] = "copy" /\ UNCHANGED <<cfg, server, fresh, user>> /\ cfg.system = "plex"
        BY <2>4 DEF ShareWithUser, Shareable, Goto, TypeInv, TypeOK
      <3>2. copy'[j].to = r /\ (copy'[j].old = NoID \/ \E p \in Named(r, user[j]) : copy'[j].old = p.id)
        BY <2>4 DEF ShareWithUser, Serve, TypeInv, TypeOK
      <3> QED BY <1>0, <3>1, <3>2 DEF AimedAt, Named, UniqueIDs
    <2>5. ASSUME CreateCopy(j) PROVE AimedAt(j)'
      <3> DEFINE n == New(copy[j].to, user[j], {})
      <3>1. at[j] = "copy" /\ at'[j] = "copyFill" /\ user' = user /\ fresh' = fresh + 1 /\ server' = server \cup {n} /\ cfg' = cfg
        BY <2>5 DEF CreateCopy, Goto, TypeInv, TypeOK
      <3>2. copy'[j].to = copy[j].to /\ copy'[j].old = copy[j].old /\ copy'[j].new = fresh
        BY <2>5 DEF CreateCopy, TypeInv, TypeOK
      <3>3. n.id = fresh /\ n.account = copy[j].to /\ n.title = user[j]
        BY DEF New
      <3>4. /\ \A p \in server : p.id = copy[j].old => p.account = copy[j].to /\ p.title = user[j]
            /\ copy[j].old = NoID \/ copy[j].old < fresh
            /\ cfg.system = "plex"
        BY <3>1 DEF Aimed, AimedAt, Named
      <3>5. copy[j].old # fresh /\ (copy[j].old = NoID \/ copy[j].old < fresh + 1)
        BY <1>0, <3>4 DEF TypeInv, TypeOK
      <3>6. \A p \in server' : p.id = copy[j].old => p.account = copy[j].to /\ p.title = user[j]
        BY <1>0, <3>1, <3>3, <3>4, <3>5
      <3>7. n \in server' /\ n.account = copy'[j].to /\ n.title = user'[j]
        BY <3>1, <3>2, <3>3
      <3> QED BY <3>1, <3>2, <3>3, <3>4, <3>5, <3>6, <3>7 DEF AimedAt, Named
    <2>6. ASSUME FillCopy(j) PROVE AimedAt(j)'
      <3>1. PICK added : added # {} /\ server' = Filled(copy[j].new, added)
        BY <2>6 DEF FillCopy
      <3>2. at[j] = "copyFill" /\ at'[j] \in {"share", "copyDelete"} /\ UNCHANGED <<cfg, fresh, user, copy>>
        BY <2>6 DEF FillCopy, Goto, TypeInv, TypeOK, run
      <3>3. \A q \in server :
              LET f == IF q.id = copy[j].new THEN [q EXCEPT !.songs = added] ELSE q
              IN  /\ f \in server' /\ f.id = q.id /\ f.account = q.account /\ f.title = q.title
                  /\ q.id = copy[j].new => f.songs # {}
        BY <1>0, <3>1 DEF Filled, Playlist
      <3>4. \A p \in server' : \E q \in server : p.id = q.id /\ p.account = q.account /\ p.title = q.title
        BY <1>0, <3>1 DEF Filled, Playlist
      <3>5. /\ \A p \in server : p.id = copy[j].old => p.account = copy[j].to /\ p.title = user[j]
            /\ copy[j].old = NoID \/ copy[j].old < fresh
            /\ copy[j].new # copy[j].old /\ cfg.system = "plex"
        BY <3>2 DEF Aimed, AimedAt, Named
      <3>6. PICK q \in server : q.account = copy[j].to /\ q.title = user[j] /\ q.id = copy[j].new
        BY <3>2 DEF Aimed, AimedAt, Named
      <3>7. \E p \in server' : p.account = copy[j].to /\ p.title = user[j] /\ p.id = copy[j].new /\ p.songs # {}
        BY <3>3, <3>6
      <3>8. \A p \in server' : p.id = copy[j].old => p.account = copy[j].to /\ p.title = user[j]
        BY <3>4, <3>5
      <3> QED BY <3>2, <3>5, <3>7, <3>8 DEF AimedAt, Named
    <2>7. ASSUME at'[j] \notin Holding PROVE AimedAt(j)'
      BY <2>7 DEF AimedAt, Holding
    <2>8. AimedAt(j)'
      BY <1>1, <2>2, <2>3, <2>4, <2>5, <2>6, <2>7, OneMoves DEF Enters
    <2> QED BY <2>1, <2>8 DEF Aimed, AimedAt, Holding
  <1>2. CASE UNCHANGED <<cfg, at, server, fresh, run>>
    BY <1>2 DEF Aimed, AimedAt, Named, Account, run
  <1>3. ASSUME NEW a \in Accounts, MadeByHand(a) PROVE Aimed'
    <2> DEFINE n == [id |-> fresh, account |-> a, title |-> Bare, songs |-> Tracks]
    <2>1. server' = server \cup {n} /\ fresh' = fresh + 1 /\ UNCHANGED <<cfg, at, run>> /\ n.id = fresh
      BY <1>3 DEF MadeByHand
    <2> HIDE DEF n
    <2> SUFFICES ASSUME NEW j \in Jobs PROVE AimedAt(j)'
      BY DEF Aimed
    <2>2. AimedAt(j) /\ at'[j] = at[j] /\ id'[j] = id[j] /\ copy'[j] = copy[j] /\ user'[j] = user[j] /\ Account(j)' = Account(j)
      BY <2>1 DEF Aimed, Account, run
    <2>3. at[j] \in {"delete", "fill"} => id[j] < fresh
      BY <2>2 DEF AimedAt
    <2>4. at[j] \in {"delete", "fill"} => \A p \in server' : p.id = id[j] => p \in Named(Account(j), Bare)'
      BY <1>0, <2>1, <2>2, <2>3 DEF AimedAt, Named
    <2>5. at[j] \in {"copy", "copyFill", "copyDelete"} => copy[j].old # fresh
      BY <1>0, <2>2 DEF AimedAt
    <2>6. \A c, u : Named(c, u) \subseteq Named(c, u)'
      BY <2>1 DEF Named
    <2>7. at[j] \in {"copy", "copyFill", "copyDelete"} =>
             \A p \in server' : p.id = copy[j].old => p \in Named(copy[j].to, user[j])'
      BY <2>1, <2>2, <2>5, <2>6 DEF AimedAt
    <2>8. at[j] \in {"copyFill", "copyDelete"} =>
             \E p \in Named(copy[j].to, user[j])' : p.id = copy[j].new /\ (at[j] = "copyDelete" => p.songs # {})
      BY <2>1, <2>2 DEF AimedAt, Named
    <2>9. fresh' = fresh + 1 /\ cfg' = cfg
      BY <2>1
    <2>10. at[j] \in {"copy", "copyFill", "copyDelete"} =>
             /\ cfg.system = "plex"
             /\ copy[j].old = NoID \/ copy[j].old < fresh + 1
             /\ at[j] # "copy" => copy[j].new # copy[j].old
      <3>1. copy[j].old \in Nat \cup {NoID}
        BY DEF TypeInv, TypeOK
      <3> QED BY <1>0, <2>2, <3>1 DEF AimedAt
    <2>11. at[j] \in {"delete", "fill"} => id[j] \in Nat /\ id[j] < fresh + 1
      BY <1>0, <2>2 DEF AimedAt
    <2> QED BY <2>2, <2>4, <2>7, <2>8, <2>9, <2>10, <2>11 DEF AimedAt
  <1> QED BY <1>1, <1>2, <1>3 DEF Next, Step, Scan, vars

LEMMA InvIsKept == Spec => []Inv
  <1>1. Inv /\ [Next]_vars => Inv'
    BY TypeStep, AloneStep, UniqueStep, AimedStep DEF Inv
  <1> QED BY <1>1, InvInit, PTL DEF Spec

\* OthersKeepTheirPlaylists: what a run removes has the job's name or is the copy
\* it has renewed, and where it can switch to its user's account or a recipient's
\* it is theirs: an ID it holds keeps naming the playlist it was found for, since
\* no other run works and the server gives no ID twice, whoever else makes
\* playlists of that name meanwhile.
THEOREM DeletesStayHome == Spec => OthersKeepTheirPlaylists
  <1> DEFINE Mine(p, j) ==
                \/ /\ at[j] \in {"delete", "create"} /\ p.title = Bare
                   /\ cfg.system = "plex" => p.account = IF cfg.admin THEN user[j] ELSE Owner
                \/ at[j] = "copyDelete" /\ p.account = copy[j].to /\ p.title = user[j]
             Kept == \A p \in server : (\A q \in server' : q.id # p.id) => \E j \in Jobs : Mine(p, j)
  <1>1. ASSUME Inv, [Next]_vars PROVE Kept
    <2> SUFFICES ASSUME NEW p \in server, \A q \in server' : q.id # p.id,
                        NEW j \in Jobs, Makes(j) \/ Fills(j) \/ Deletes(j)
                 PROVE  Mine(p, j)
      BY <1>1, WhatTouchesTheServer DEF MadeByHand
    <2>1. p \notin server'
      OBVIOUS
    <2>2. CASE Makes(j)
      BY <2>1, <2>2
         DEF Makes, CreateWhole, CreateEmpty, CreateUnanswered, CreateCopy, CopyUnanswered, Named, Account
    <2>3. CASE Fills(j)
      <3>1. PICK k, s : server' = Filled(k, s)
        BY <2>3 DEF Fills, AddTracks, FillCopy
      <3>2. (IF p.id = k THEN [p EXCEPT !.songs = s] ELSE p).id = p.id
        BY <1>1 DEF Inv, TypeInv, TypeOK, Playlist
      <3> QED BY <3>1, <3>2 DEF Filled
    <2>4. CASE DeletePlaylist(j)
      BY <1>1, <2>1, <2>4 DEF DeletePlaylist, Inv, Aimed, AimedAt, Named, Account
    <2>5. CASE DeleteCopy(j)
      BY <1>1, <2>1, <2>5 DEF DeleteCopy, Inv, Aimed, AimedAt, Named
    <2> QED BY <2>2, <2>3, <2>4, <2>5 DEF Deletes
  <1>2. Inv /\ [Next]_vars => [Kept]_vars
    BY <1>1
  <1> QED BY <1>2, InvIsKept, PTL DEF Spec, OthersKeepTheirPlaylists

\* A recipient's copy is renewed without a gap: the old one goes when the new one
\* has songs, and no run's own playlist is ever mistaken for a copy.
THEOREM CopiesStay == Spec => CopiesAreKept
  <1> DEFINE Kept == \A r, u \in Users : (\E p \in Named(r, u) : p.songs # {})
                                         => \E p \in Named(r, u)' : p.songs # {}
  <1>1. ASSUME Inv, [Next]_vars PROVE Kept
    <2> SUFFICES ASSUME NEW r \in Users, NEW u \in Users, NEW p \in server,
                        cfg.system = "plex" => p.account = r, p.title = u, p.songs # {}
                 PROVE  \E q \in server' : /\ cfg.system = "plex" => q.account = r
                                           /\ q.title = u /\ q.songs # {}
      <3>1. cfg' = cfg
        BY <1>1, SystemStays
      <3> QED BY <3>1 DEF Named
    <2>0. p \in Playlist /\ u # Bare
      BY <1>1, UserAssumption DEF Inv, TypeInv, TypeOK
    <2>1. ASSUME NEW j \in Jobs, Makes(j) PROVE p \in server'
      BY <2>0, <2>1 DEF Makes, CreateWhole, CreateEmpty, CreateUnanswered, CreateCopy, CopyUnanswered, Named
    <2>2. ASSUME NEW j \in Jobs, AddTracks(j) PROVE p \in server'
      <3>1. p.id # id[j]
        BY <1>1, <2>0, <2>2 DEF AddTracks, Inv, Aimed, AimedAt, Named
      <3> QED BY <2>2, <3>1 DEF AddTracks, Filled
    <2>3. ASSUME NEW j \in Jobs, FillCopy(j)
          PROVE  \E q \in server' : /\ cfg.system = "plex" => q.account = r
                                    /\ q.title = u /\ q.songs # {}
      <3>1. PICK s : s # {} /\ server' = Filled(copy[j].new, s)
        BY <2>3 DEF FillCopy
      <3> DEFINE q == IF p.id = copy[j].new THEN [p EXCEPT !.songs = s] ELSE p
      <3>2. (cfg.system = "plex" => q.account = r) /\ q.title = u /\ q.songs # {}
        BY <2>0, <3>1 DEF Playlist
      <3> QED BY <3>1, <3>2 DEF Filled
    <2>4. ASSUME NEW j \in Jobs, DeletePlaylist(j) PROVE p \in server'
      BY <1>1, <2>0, <2>4 DEF DeletePlaylist, Inv, Aimed, AimedAt, Named
    <2>5. ASSUME NEW j \in Jobs, DeleteCopy(j)
          PROVE  \E q \in server' : /\ cfg.system = "plex" => q.account = r
                                    /\ q.title = u /\ q.songs # {}
      <3>1. CASE p.id # copy[j].old
        BY <2>5, <3>1 DEF DeleteCopy
      <3>2. CASE p.id = copy[j].old
        <4>1. r = copy[j].to /\ u = user[j] /\ cfg.system = "plex"
          BY <1>1, <2>5, <3>2 DEF DeleteCopy, Inv, Aimed, AimedAt, Named
        <4>2. \E q \in server : q.account = r /\ q.title = u /\ q.id # copy[j].old /\ q.songs # {}
          BY <1>1, <2>5, <4>1 DEF DeleteCopy, Inv, Aimed, AimedAt, Named
        <4> QED BY <2>5, <4>2 DEF DeleteCopy
      <3> QED BY <3>1, <3>2
    <2>6. ASSUME NEW a \in Accounts, MadeByHand(a) PROVE p \in server'
      BY <2>6 DEF MadeByHand
    <2> QED BY <1>1, <2>1, <2>2, <2>3, <2>4, <2>5, <2>6, WhatTouchesTheServer DEF Fills, Deletes
  <1>2. Inv /\ [Next]_vars => [Kept]_vars
    BY <1>1
  <1> QED BY <1>2, InvIsKept, PTL DEF Spec, CopiesAreKept

-----------------------------------------------------------------------------
(* How many there are *)

Count(a, t) == Cardinality(Named(a, t))

\* A recipient's old copy waits for the new one to be filled.
Renews(j, a, u) == /\ at[j] \in {"copyFill", "copyDelete"}
                   /\ copy[j].to = a /\ user[j] = u /\ copy[j].old # NoID

\* A copy that is being renewed is there twice; otherwise every second playlist
\* of a name was left by a failure.
Counts ==
    /\ IsFiniteSet(server)
    /\ cfg.replace => \A a \in Accounts : Count(a, Bare) <= 1 + slips
    /\ \A a \in Accounts, u \in Users :
          /\ Count(a, u) <= 2 + slips
          /\ (\A j \in Jobs : ~ Renews(j, a, u)) => Count(a, u) <= 1 + slips

\* Before a run creates a playlist or a copy there is room for it, and what it
\* is about to delete is there and has the same name.
RoomAt(j) ==
    /\ cfg.replace /\ at[j] \in {"refresh", "match", "create"} => Count(Account(j), Bare) <= slips
    /\ at[j] = "delete" => \E p \in Named(Account(j), Bare) : p.id = id[j]
    /\ at[j] \in {"copy", "copyFill", "copyDelete"} /\ copy[j].old # NoID =>
          \E p \in Named(copy[j].to, user[j]) : p.id = copy[j].old
    /\ at[j] = "copy" /\ copy[j].old = NoID => Named(copy[j].to, user[j]) = {}

Few == Counts /\ \A j \in Jobs : RoomAt(j)

LEMMA CountType ==
    ASSUME IsFiniteSet(server), NEW a, NEW t
    PROVE  IsFiniteSet(Named(a, t)) /\ Count(a, t) \in Nat
  <1>1. IsFiniteSet(Named(a, t))
    BY FS_Subset DEF Named
  <1> QED BY <1>1, FS_CardinalityType DEF Count

LEMMA OneMore ==
    ASSUME IsFiniteSet(server), NEW n, server' \subseteq server \cup {n}, cfg' = cfg
    PROVE  /\ IsFiniteSet(server')
           /\ \A a, t : /\ Count(a, t)' \in Nat /\ Count(a, t)' <= Count(a, t) + 1
                        /\ ~ (n.title = t /\ (cfg.system = "plex" => n.account = a)) => Count(a, t)' <= Count(a, t)
  <1>1. IsFiniteSet(server')
    <2>1. IsFiniteSet(server \cup {n})
      BY FS_AddElement
    <2> QED BY <2>1, FS_Subset
  <1>2. ASSUME NEW a, NEW t
        PROVE  /\ Count(a, t)' \in Nat /\ Count(a, t)' <= Count(a, t) + 1
               /\ ~ (n.title = t /\ (cfg.system = "plex" => n.account = a)) => Count(a, t)' <= Count(a, t)
    <2> DEFINE N == Named(a, t)
               M == {p \in server' : p.title = t /\ (cfg.system = "plex" => p.account = a)}
    <2>1. IsFiniteSet(N) /\ Cardinality(N) \in Nat
      BY CountType DEF Count
    <2>2. M \subseteq N \cup {n} /\ (~ (n.title = t /\ (cfg.system = "plex" => n.account = a)) => M \subseteq N)
      BY DEF Named
    <2>3. IsFiniteSet(M)
      BY <1>1, FS_Subset
    <2>4. Count(a, t) = Cardinality(N) /\ Count(a, t)' = Cardinality(M)
      BY DEF Count, Named
    <2> HIDE DEF N, M
    <2>5. Cardinality(M) \in Nat
      BY <2>3, FS_CardinalityType
    <2>6. IsFiniteSet(N \cup {n}) /\ Cardinality(N \cup {n}) <= Cardinality(N) + 1
      <3>1. /\ IsFiniteSet(N \cup {n})
            /\ Cardinality(N \cup {n}) = IF n \in N THEN Cardinality(N) ELSE Cardinality(N) + 1
        BY ONLY <2>1, FS_AddElement
      <3>2. Cardinality(N) \in Nat
        BY <2>1
      <3> QED BY ONLY <3>1, <3>2
    <2>7. Cardinality(M) <= Cardinality(N \cup {n})
      BY <2>2, <2>6, FS_Subset
    <2>8. Cardinality(N \cup {n}) \in Nat
      BY <2>6, FS_CardinalityType
    <2>9. M \subseteq N => Cardinality(M) <= Cardinality(N)
      BY <2>1, FS_Subset
    <2> QED BY <2>1, <2>2, <2>4, <2>5, <2>6, <2>7, <2>8, <2>9
  <1> QED BY <1>1, <1>2

LEMMA OneLess ==
    ASSUME IsFiniteSet(server), NEW k, server' = {p \in server : p.id # k}, cfg' = cfg
    PROVE  /\ IsFiniteSet(server')
           /\ \A a, t : /\ Count(a, t)' \in Nat /\ Count(a, t)' <= Count(a, t)
                        /\ (\E p \in Named(a, t) : p.id = k) => Count(a, t)' <= Count(a, t) - 1
  <1>1. IsFiniteSet(server')
    BY FS_Subset
  <1>2. ASSUME NEW a, NEW t
        PROVE  /\ Count(a, t)' \in Nat /\ Count(a, t)' <= Count(a, t)
               /\ (\E p \in Named(a, t) : p.id = k) => Count(a, t)' <= Count(a, t) - 1
    <2> DEFINE N == Named(a, t)
               M == {p \in server' : p.title = t /\ (cfg.system = "plex" => p.account = a)}
    <2>1. IsFiniteSet(N) /\ Cardinality(N) \in Nat
      BY CountType DEF Count
    <2>2. M \subseteq N /\ \A p \in N : p.id = k => M \subseteq N \ {p}
      BY DEF Named
    <2>3. Count(a, t) = Cardinality(N) /\ Count(a, t)' = Cardinality(M)
      BY DEF Count, Named
    <2> HIDE DEF N, M
    <2>4. IsFiniteSet(M) /\ Cardinality(M) \in Nat /\ Cardinality(M) <= Cardinality(N)
      BY <2>1, <2>2, FS_Subset, FS_CardinalityType
    <2>5. ASSUME NEW p \in N, p.id = k PROVE Cardinality(M) <= Cardinality(N) - 1
      <3>1. IsFiniteSet(N \ {p}) /\ Cardinality(N \ {p}) = Cardinality(N) - 1
        BY <2>1, FS_RemoveElement
      <3> QED BY <2>2, <2>5, <3>1, FS_Subset
    <2> QED BY <2>3, <2>4, <2>5 DEF N
  <1> QED BY <1>1, <1>2

LEMMA AsMany ==
    ASSUME TypeOK, IsFiniteSet(server), NEW k, NEW s, server' = Filled(k, s), cfg' = cfg
    PROVE  /\ IsFiniteSet(server')
           /\ \A a, t : /\ Count(a, t)' \in Nat /\ Count(a, t)' <= Count(a, t)
                        /\ \A p \in Named(a, t) : \E q \in Named(a, t)' : q.id = p.id
  <1> DEFINE F(q) == IF q.id = k THEN [q EXCEPT !.songs = s] ELSE q
  <1>1. \A q \in server : F(q).id = q.id /\ F(q).account = q.account /\ F(q).title = q.title
    BY DEF TypeOK, Playlist
  <1>2. server' = {F(q) : q \in server}
    BY DEF Filled
  <1> HIDE DEF F
  <1>3. IsFiniteSet(server')
    <2> DEFINE g == [q \in server |-> F(q)]
    <2>1. g \in Surjection(server, server')
      BY <1>2 DEF Surjection
    <2> HIDE DEF g
    <2> QED BY <2>1, FS_Surjection
  <1>4. ASSUME NEW a, NEW t
        PROVE  /\ Count(a, t)' \in Nat /\ Count(a, t)' <= Count(a, t)
               /\ \A p \in Named(a, t) : \E q \in Named(a, t)' : q.id = p.id
    <2> DEFINE N == Named(a, t)
               M == {p \in server' : p.title = t /\ (cfg.system = "plex" => p.account = a)}
               h == [q \in N |-> F(q)]
    <2>1. IsFiniteSet(N)
      BY CountType
    <2>2. N \subseteq server /\ (\A q \in N : q.title = t /\ (cfg.system = "plex" => q.account = a))
          /\ \A q \in server : q.title = t /\ (cfg.system = "plex" => q.account = a) => q \in N
      BY DEF Named
    <2>3. h \in Surjection(N, M)
      <3>1. \A q \in N : F(q) \in M
        BY <1>1, <1>2, <2>2
      <3>2. \A p \in M : \E q \in N : F(q) = p
        BY <1>1, <1>2, <2>2
      <3> HIDE DEF N, M
      <3> QED BY <3>1, <3>2 DEF Surjection
    <2>4. Count(a, t) = Cardinality(N) /\ Count(a, t)' = Cardinality(M) /\ Named(a, t)' = M
      BY DEF Count, Named
    <2>5. \A p \in N : F(p) \in M /\ F(p).id = p.id
      BY <1>1, <1>2, <2>2
    <2> HIDE DEF N, M, h
    <2>6. IsFiniteSet(M) /\ Cardinality(M) <= Cardinality(N) /\ Cardinality(M) \in Nat
      BY <2>1, <2>3, FS_Surjection, FS_CardinalityType
    <2> QED BY <2>4, <2>5, <2>6 DEF N
  <1> QED BY <1>3, <1>4

\* Only the run that moves can have anything in hand.
LEMMA OthersRest ==
    ASSUME TypeInv, Alone, NEW j \in Jobs, Step(j)
    PROVE  \A k \in Jobs \ {j} : at'[k] \in {"idle", "over"}
  BY OneMoves DEF Alone, Active, Start

LEMMA FewIf ==
    ASSUME NEW j \in Jobs, \A k \in Jobs \ {j} : at'[k] \in {"idle", "over"},
           Counts', RoomAt(j)'
    PROVE  Few'
  <1>1. ASSUME NEW k \in Jobs \ {j} PROVE RoomAt(k)'
    BY DEF RoomAt
  <1> QED BY <1>1 DEF Few

\* No copy is being renewed by a run that is elsewhere.
LEMMA NoneRenewed ==
    ASSUME Inv, NEW j \in Jobs, Step(j), at[j] \notin {"copyFill", "copyDelete"}
    PROVE  \A k \in Jobs : \A a, u : ~ Renews(k, a, u)
  BY OneMoves DEF Inv, Alone, Active, Start, Renews

Quiet == UNCHANGED <<cfg, server>>
InHand == {"refresh", "match", "create", "delete", "copy", "copyFill", "copyDelete"}

\* The steps that do not touch the server, by what they do to the room there is.
LEMMA QuietSteps ==
    ASSUME TypeInv, NEW j \in Jobs, Step(j), ~ Makes(j), ~ Fills(j), ~ Deletes(j)
    PROVE  /\ Quiet
           /\ \/ slips' = slips /\ at'[j] \notin InHand /\ at[j] \notin {"copyFill", "copyDelete"}
              \/ slips' = slips + 1 /\ at'[j] \notin InHand
              \/ slips' = slips /\ at'[j] = "refresh" /\ ~ cfg.replace /\ at[j] \notin {"copyFill", "copyDelete"}
              \/ RefreshLibrary(j) \/ MatchTracks(j)
              \/ FindPlaylist(j) \/ FindFails(j) \/ DeleteFails(j)
              \/ \E r \in Users : ShareWithUser(j, r)
  <1> USE DEF TypeInv, TypeOK, Goto, Slip, InHand, Quiet, run
  <1>1. CASE Runs(j)
    <2>1. CASE Start(j)
      BY <2>1 DEF Start
    <2>2. ASSUME NEW u \in Users, NextUser(j, u)
          PROVE  Quiet /\ slips' = slips /\ at'[j] \notin InHand /\ at[j] \notin {"copyFill", "copyDelete"}
      BY <2>2 DEF NextUser
    <2>3. CASE ChildEnds(j) \/ Over(j)
      BY <2>3 DEF ChildEnds, Over
    <2>4. CASE Killed(j)
      BY <2>4 DEF Killed
    <2> QED BY <1>1, <2>1, <2>2, <2>3, <2>4 DEF Runs
  <1>2. CASE Prepares(j)
    <2>0. \A s \in {"setup", "check", "download"} :
             After(s) \in {"check", "download", "find", "refresh"} /\ (After(s) = "refresh" => ~ cfg.replace)
      BY DEF After
    <2>1. CASE ExitsEarly(j) \/ Discover(j)
      BY <2>1 DEF ExitsEarly, Discover
    <2>2. CASE Setup(j) \/ CheckTracks(j)
      BY <2>0, <2>2 DEF Setup, CheckTracks
    <2>3. CASE StartDownload(j) \/ DownloadReturns(j)
      <3>1. PICK l : Continue(j, l)
        BY <2>3 DEF StartDownload, DownloadReturns
      <3>2. at' = [at EXCEPT ![j] = "exit"] \/ at' = [at EXCEPT ![j] = After("download")]
        BY ONLY <3>1 DEF Continue, Goto
      <3>3. at[j] = "download" /\ UNCHANGED <<cfg, server, slips>>
        BY ONLY <2>3 DEF StartDownload, DownloadReturns
      <3>4. at'[j] = "exit" \/ at'[j] = After("download")
        BY <3>2
      <3> QED BY <2>0, <3>3, <3>4
    <2> QED BY <1>2, <2>1, <2>2, <2>3 DEF Prepares
  <1>3. CASE Replaces(j)
    <2>1. CASE RefreshLibrary(j) \/ MatchTracks(j) \/ FindPlaylist(j) \/ FindFails(j) \/ DeleteFails(j)
      BY <2>1 DEF RefreshLibrary, MatchTracks, FindPlaylist, FindFails, DeleteFails
    <2>2. CASE UpdatePlaylist(j) \/ CreateFails(j)
      BY <2>2 DEF UpdatePlaylist, CreateFails
    <2> QED BY <1>3, <2>1, <2>2 DEF Replaces, Makes, Fills, Deletes
  <1>4. CASE Shares(j)
    <2>1. ASSUME NEW r \in Users, ShareWithUser(j, r) PROVE Quiet
      BY <2>1 DEF ShareWithUser
    <2>2. ASSUME NEW r \in Users, ShareFails(j, r)
          PROVE  Quiet /\ slips' = slips /\ at'[j] \notin InHand /\ at[j] \notin {"copyFill", "copyDelete"}
      BY <2>2 DEF ShareFails
    <2>3. CASE SharingEnds(j) \/ CopyFails(j)
      BY <2>3 DEF SharingEnds, CopyFails
    <2>4. CASE FillFails(j) \/ DeleteCopyFails(j)
      BY <2>4 DEF FillFails, DeleteCopyFails
    <2> QED BY <1>4, <2>1, <2>2, <2>3, <2>4 DEF Shares, Makes, Fills, Deletes
  <1> QED BY <1>1, <1>2, <1>3, <1>4 DEF Step

\* Counts and slips as numbers.
LEMMA Numbers ==
    ASSUME TypeOK, Counts
    PROVE  slips \in Nat /\ \A a, t : Count(a, t) \in Nat
  BY CountType, TrackAssumption DEF TypeOK, Counts

LEMMA QuietKeepsFew ==
    ASSUME Inv, Few, NEW j \in Jobs, Step(j), ~ Makes(j), ~ Fills(j), ~ Deletes(j)
    PROVE  Few'
  <1> USE DEF Inv, TypeInv
  <1>1. /\ cfg' = cfg /\ server' = server
        /\ \A k \in Jobs \ {j} : at'[k] \in {"idle", "over"}
        /\ slips \in Nat
        /\ \A a, t : Count(a, t)' = Count(a, t) /\ Named(a, t)' = Named(a, t) /\ Count(a, t) \in Nat
    <2>1. cfg' = cfg /\ server' = server
      BY QuietSteps DEF Quiet
    <2>2. \A k \in Jobs \ {j} : at'[k] \in {"idle", "over"}
      BY OthersRest
    <2>3. slips \in Nat /\ \A a, t : Count(a, t) \in Nat
      BY Numbers DEF Few
    <2>4. \A a, t : Named(a, t)' = Named(a, t)
      BY <2>1 DEF Named
    <2>5. \A a, t : Count(a, t)' = Count(a, t)
      BY <2>4 DEF Count
    <2> QED BY <2>1, <2>2, <2>3, <2>4, <2>5
  <1>2. ASSUME at[j] \notin {"copyFill", "copyDelete"}, slips' = slips PROVE Counts'
    <2>1. \A a \in Accounts, u \in Users : Count(a, u) <= 1 + slips
      BY <1>2, NoneRenewed DEF Few, Counts
    <2> QED BY <1>1, <1>2, <2>1 DEF Few, Counts
  <1>3. ASSUME slips' = slips + 1 PROVE Counts'
    BY <1>1, <1>3 DEF Few, Counts
  <1>4. RoomAt(j) /\ Counts
    BY DEF Few
  <1>5. CASE at'[j] \notin InHand
    <2>1. RoomAt(j)'
      BY <1>5 DEF RoomAt, InHand
    <2>2. Counts'
      <3>1. \/ slips' = slips /\ at[j] \notin {"copyFill", "copyDelete"}
            \/ slips' = slips + 1
        <4>1. \A r \in Users : ~ ShareWithUser(j, r)
          BY <1>5 DEF ShareWithUser, Goto, InHand, TypeOK
        <4>2. ~ RefreshLibrary(j) /\ ~ MatchTracks(j)
          BY <1>5 DEF RefreshLibrary, MatchTracks, Goto, InHand, TypeOK
        <4>3. ~ FindPlaylist(j) /\ ~ FindFails(j) /\ ~ DeleteFails(j)
          <5>1. After("delete") = "refresh"
            BY DEF After
          <5> QED BY <1>5, <5>1 DEF FindPlaylist, FindFails, DeleteFails, Goto, InHand, TypeOK
        <4> QED BY <1>5, <4>1, <4>2, <4>3, QuietSteps
      <3> QED BY <1>2, <1>3, <3>1
    <2> QED BY <1>1, <2>1, <2>2, FewIf
  <1>6. CASE slips' = slips /\ at'[j] = "refresh" /\ ~ cfg.replace /\ at[j] \notin {"copyFill", "copyDelete"}
    <2>1. RoomAt(j)'
      BY <1>1, <1>6 DEF RoomAt
    <2> QED BY <1>1, <1>2, <1>6, <2>1, FewIf
  <1>7. CASE RefreshLibrary(j) \/ MatchTracks(j)
    <2>1. /\ at[j] \in {"refresh", "match"} /\ at'[j] \in {"match", "create"}
          /\ slips' = slips /\ user' = user
      BY <1>7 DEF RefreshLibrary, MatchTracks, Goto, TypeOK, run
    <2>2. RoomAt(j)'
      BY <1>1, <1>4, <2>1 DEF RoomAt, Account
    <2> QED BY <1>1, <1>2, <2>1, <2>2, FewIf
  <1>8. CASE FindPlaylist(j)
    <2>1. at[j] = "find" /\ at'[j] \in {"refresh", "delete"} /\ slips' = slips /\ user' = user
      BY <1>8 DEF FindPlaylist, Goto, TypeOK
    <2>2. at'[j] = "delete" => \E p \in Named(Account(j), Bare) : p.id = id'[j]
      BY <1>8, <2>1 DEF FindPlaylist, Goto, Remember, TypeOK
    <2>3. at'[j] = "refresh" => Count(Account(j), Bare) = 0
      <3>1. at'[j] = "refresh" => Named(Account(j), Bare) = {}
        BY <1>8, <2>1 DEF FindPlaylist, Goto, TypeOK
      <3> QED BY <3>1, FS_EmptySet DEF Count
    <2>4. RoomAt(j)'
      BY <1>1, <2>1, <2>2, <2>3 DEF RoomAt, Account
    <2> QED BY <1>1, <1>2, <2>1, <2>4, FewIf
  <1>9. CASE FindFails(j) \/ DeleteFails(j)
    <2>0. After("delete") = "refresh"
      BY DEF After
    <2>1. at[j] \in {"find", "delete"} /\ at'[j] = "refresh" /\ slips' = slips + 1 /\ user' = user
      BY <1>9, <2>0 DEF FindFails, DeleteFails, Goto, Slip, TypeOK, run
    <2>2. Account(j) \in Accounts
      BY <2>1 DEF Serving, Accounts, Account
    <2>3. RoomAt(j)'
      BY <1>1, <1>4, <2>1, <2>2 DEF RoomAt, Counts, Account
    <2> QED BY <1>1, <1>3, <2>1, <2>3, FewIf
  <1>10. ASSUME NEW r \in Users, ShareWithUser(j, r) PROVE Few'
    <2>1. at[j] = "share" /\ at'[j] = "copy" /\ slips' = slips /\ user' = user
      BY <1>10 DEF ShareWithUser, Goto, TypeOK
    <2>2. copy'[j].to = r
      BY <1>10 DEF ShareWithUser, Serve, TypeOK
    <2>3. IF Named(r, user[j]) = {} THEN copy'[j].old = NoID
          ELSE \E p \in Named(r, user[j]) : copy'[j].old = p.id
      BY <1>10 DEF ShareWithUser, Serve, TypeOK
    <2>4. \A p \in Named(r, user[j]) : p.id # NoID
      BY TrackAssumption DEF Named, TypeOK, Playlist
    <2>5. RoomAt(j)'
      BY <1>1, <2>1, <2>2, <2>3, <2>4 DEF RoomAt
    <2> QED BY <1>1, <1>2, <2>1, <2>5, FewIf
  <1> QED BY <1>5, <1>6, <1>7, <1>8, <1>9, <1>10, QuietSteps

\* A playlist is created where there was room for it.
LEMMA CreatingKeepsFew ==
    ASSUME Inv, Few, NEW j \in Jobs, Step(j), CreateWhole(j) \/ CreateEmpty(j) \/ CreateUnanswered(j)
    PROVE  Few'
  <1> USE DEF Inv, TypeInv
  <1>1. PICK s : server' \subseteq server \cup {New(Account(j), Bare, s)}
    BY DEF CreateWhole, CreateEmpty, CreateUnanswered
  <1>2. at[j] = "create" /\ at'[j] \in {"describe", "fill", "done"} /\ slips' = slips /\ cfg' = cfg
    BY DEF CreateWhole, CreateEmpty, CreateUnanswered, Goto, TypeOK
  <1> DEFINE n == New(Account(j), Bare, s)
  <1>3. n.account = Account(j) /\ n.title = Bare
    BY DEF New
  <1> HIDE DEF n
  <1>4. /\ IsFiniteSet(server')
        /\ \A a, t : /\ Count(a, t)' \in Nat /\ Count(a, t)' <= Count(a, t) + 1
                     /\ ~ (Bare = t /\ (cfg.system = "plex" => Account(j) = a)) => Count(a, t)' <= Count(a, t)
    BY <1>1, <1>2, <1>3, OneMore DEF Few, Counts, n
  <1>5. slips \in Nat /\ \A a, t : Count(a, t) \in Nat
    BY Numbers DEF Few
  <1>6. \A a \in Accounts, u \in Users : Count(a, u) <= 1 + slips
    BY <1>2, NoneRenewed DEF Few, Counts
  <1>7. Counts'
    <2>1. cfg.replace => \A a \in Accounts : Count(a, Bare)' <= 1 + slips
      <3> SUFFICES ASSUME cfg.replace, NEW a \in Accounts PROVE Count(a, Bare)' <= 1 + slips
        OBVIOUS
      <3>1. Count(Account(j), Bare) <= slips /\ Count(a, Bare) <= 1 + slips
        BY <1>2 DEF Few, RoomAt, Counts
      <3>2. CASE Named(a, Bare) = Named(Account(j), Bare)
        <4>1. Count(a, Bare) <= slips
          BY <3>1, <3>2 DEF Count
        <4> QED BY <1>4, <1>5, <4>1
      <3>3. CASE cfg.system = "plex" /\ a # Account(j)
        <4>1. Count(a, Bare)' <= Count(a, Bare) /\ Count(a, Bare)' \in Nat
          BY <1>4, <3>3
        <4> QED BY <1>5, <3>1, <4>1
      <3> QED BY <3>2, <3>3 DEF Named
    <2>2. \A a \in Accounts, u \in Users : Count(a, u)' <= 1 + slips
      <3> SUFFICES ASSUME NEW a \in Accounts, NEW u \in Users PROVE Count(a, u)' <= 1 + slips
        OBVIOUS
      <3>1. u # Bare
        BY UserAssumption
      <3>2. Count(a, u)' <= Count(a, u) /\ Count(a, u)' \in Nat /\ Count(a, u) <= 1 + slips
        BY <1>4, <1>6, <3>1
      <3> QED BY <1>5, <3>2
    <2>3. \A a \in Accounts, u \in Users : Count(a, u)' <= 2 + slips
      BY <1>4, <1>5, <2>2
    <2> QED BY <1>2, <1>4, <2>1, <2>2, <2>3 DEF Counts
  <1>8. RoomAt(j)'
    BY <1>2 DEF RoomAt
  <1> QED BY <1>7, <1>8, OthersRest, FewIf

\* A second copy is one that is being renewed, or the answer was lost.
LEMMA CopyingKeepsFew ==
    ASSUME Inv, Few, NEW j \in Jobs, Step(j), CreateCopy(j) \/ CopyUnanswered(j)
    PROVE  Few'
  <1> USE DEF Inv, TypeInv
  <1> DEFINE n == New(copy[j].to, user[j], {})
  <1>1. /\ server' = server \cup {n} /\ cfg' = cfg /\ user' = user
        /\ n.account = copy[j].to /\ n.title = user[j]
    BY DEF CreateCopy, CopyUnanswered, New, run
  <1> HIDE DEF n
  <1>2. at[j] = "copy" /\ user[j] \in Users /\ copy[j].to \in Users /\ cfg.system = "plex"
    BY DEF CreateCopy, CopyUnanswered, Serving, Aimed, AimedAt
  <1>3. \/ slips' = slips /\ at'[j] = "copyFill" /\ copy'[j].to = copy[j].to /\ copy'[j].old = copy[j].old
        \/ slips' = slips + 1 /\ at'[j] = "share"
    BY DEF CreateCopy, CopyUnanswered, Goto, Slip, TypeOK
  <1>4. /\ IsFiniteSet(server')
        /\ \A a, t : /\ Count(a, t)' \in Nat /\ Count(a, t)' <= Count(a, t) + 1
                     /\ ~ (copy[j].to = a /\ user[j] = t) => Count(a, t)' <= Count(a, t)
    BY <1>1, <1>2, OneMore DEF Few, Counts
  <1>5. slips \in Nat /\ \A a, t : Count(a, t) \in Nat
    BY Numbers DEF Few
  <1>6. \A a \in Accounts, u \in Users : Count(a, u) <= 1 + slips
    BY <1>2, NoneRenewed DEF Few, Counts
  <1>7. RoomAt(j) /\ (cfg.replace => \A a \in Accounts : Count(a, Bare) <= 1 + slips)
    BY DEF Few, Counts
  <1>8. cfg'.replace => \A a \in Accounts : Count(a, Bare)' <= 1 + slips'
    <2>1. user[j] # Bare
      BY <1>2, UserAssumption
    <2>2. \A a : Count(a, Bare)' <= Count(a, Bare) /\ Count(a, Bare)' \in Nat
      BY <1>4, <2>1
    <2> QED BY <1>1, <1>3, <1>5, <1>7, <2>2
  <1>9. \A a \in Accounts, u \in Users : Count(a, u)' <= 2 + slips
    BY <1>4, <1>5, <1>6
  <1>10. ASSUME NEW a \in Accounts, NEW u \in Users, \A k \in Jobs : ~ Renews(k, a, u)'
         PROVE  Count(a, u)' <= 1 + slips'
    <2>1. CASE slips' = slips + 1
      BY <1>5, <1>9, <2>1
    <2>2. CASE ~ (copy[j].to = a /\ user[j] = u)
      <3>1. Count(a, u)' <= Count(a, u) /\ Count(a, u)' \in Nat /\ Count(a, u) <= 1 + slips
        BY <1>4, <1>6, <2>2
      <3> QED BY <1>3, <1>5, <3>1
    <2>3. CASE slips' = slips /\ at'[j] = "copyFill" /\ copy'[j].to = copy[j].to
               /\ copy'[j].old = copy[j].old /\ copy[j].to = a /\ user[j] = u
      <3>1. copy[j].old = NoID
        BY <1>1, <1>10, <2>3 DEF Renews
      <3>2. Named(a, u) = {}
        BY <1>2, <1>7, <2>3, <3>1 DEF RoomAt
      <3>3. Count(a, u) = 0
        BY <3>2, FS_EmptySet DEF Count
      <3> QED BY <1>4, <1>5, <2>3, <3>3
    <2> QED BY <1>3, <2>1, <2>2, <2>3
  <1>11. Counts'
    <2>1. \A a \in Accounts, u \in Users : Count(a, u)' <= 2 + slips'
      BY <1>3, <1>4, <1>5, <1>9
    <2> QED BY <1>4, <1>8, <1>10, <2>1 DEF Counts
  <1>12. RoomAt(j)'
    <2>1. CASE at'[j] = "share"
      BY <2>1 DEF RoomAt
    <2>2. CASE at'[j] = "copyFill" /\ copy'[j].to = copy[j].to /\ copy'[j].old = copy[j].old
      <3>1. copy[j].old # NoID => \E p \in Named(copy[j].to, user[j]) : p.id = copy[j].old
        BY <1>2, <1>7 DEF RoomAt
      <3>2. \A p \in Named(copy[j].to, user[j]) : p \in Named(copy[j].to, user[j])'
        BY <1>1, <2>2 DEF Named
      <3>3. copy[j].old # NoID => \E p \in Named(copy[j].to, user[j])' : p.id = copy'[j].old
        BY <2>2, <3>1, <3>2
      <3> QED BY <2>2, <3>3 DEF RoomAt
    <2> QED BY <1>3, <2>1, <2>2
  <1> QED BY <1>11, <1>12, OthersRest, FewIf

\* Filling a playlist makes none and takes none away.
LEMMA FillingKeepsFew ==
    ASSUME Inv, Few, NEW j \in Jobs, Step(j), Fills(j)
    PROVE  Few'
  <1> USE DEF Inv, TypeInv
  <1>1. PICK k, s : server' = Filled(k, s)
    BY DEF Fills, AddTracks, FillCopy
  <1>2. /\ slips' = slips /\ cfg' = cfg /\ user' = user /\ copy' = copy
        /\ \/ at[j] = "fill" /\ at'[j] = "describe"
           \/ at[j] = "copyFill" /\ copy[j].old = NoID /\ at'[j] = "share"
           \/ at[j] = "copyFill" /\ copy[j].old # NoID /\ at'[j] = "copyDelete"
    BY DEF Fills, AddTracks, FillCopy, Goto, TypeOK, run
  <1>3. /\ IsFiniteSet(server')
        /\ \A a, t : /\ Count(a, t)' \in Nat /\ Count(a, t)' <= Count(a, t)
                     /\ \A p \in Named(a, t) : \E q \in Named(a, t)' : q.id = p.id
    BY <1>1, <1>2, AsMany DEF Few, Counts
  <1>4. slips \in Nat /\ \A a, t : Count(a, t) \in Nat
    BY Numbers DEF Few
  <1>5. ASSUME NEW a, NEW u, \A i \in Jobs : ~ Renews(i, a, u)'
        PROVE  \A i \in Jobs : ~ Renews(i, a, u)
    <2>1. \A i \in Jobs \ {j} : at[i] \notin {"copyFill", "copyDelete"}
      BY <1>2 DEF Alone, Active
    <2>2. ~ Renews(j, a, u)
      BY <1>2, <1>5 DEF Renews
    <2> QED BY <2>1, <2>2 DEF Renews
  <1>6. Counts'
    <2>1. cfg'.replace => \A a \in Accounts : Count(a, Bare)' <= 1 + slips'
      <3>1. cfg.replace => \A a \in Accounts : Count(a, Bare) <= 1 + slips
        BY DEF Few, Counts
      <3> QED BY <1>2, <1>3, <1>4, <3>1
    <2>2. \A a \in Accounts, u \in Users : Count(a, u)' <= 2 + slips'
      <3>1. \A a \in Accounts, u \in Users : Count(a, u) <= 2 + slips
        BY DEF Few, Counts
      <3> QED BY <1>2, <1>3, <1>4, <3>1
    <2>3. ASSUME NEW a \in Accounts, NEW u \in Users, \A i \in Jobs : ~ Renews(i, a, u)'
          PROVE  Count(a, u)' <= 1 + slips'
      <3>1. Count(a, u) <= 1 + slips
        BY <1>5, <2>3 DEF Few, Counts
      <3> QED BY <1>2, <1>3, <1>4, <3>1
    <2> QED BY <1>3, <2>1, <2>2, <2>3 DEF Counts
  <1>7. RoomAt(j)'
    <2>1. CASE at'[j] \in {"describe", "share"}
      BY <2>1 DEF RoomAt
    <2>2. CASE at[j] = "copyFill" /\ copy[j].old # NoID /\ at'[j] = "copyDelete"
      <3>1. PICK p \in Named(copy[j].to, user[j]) : p.id = copy[j].old
        BY <2>2 DEF Few, RoomAt
      <3> DEFINE a == copy[j].to
                 u == user[j]
      <3>2. \E q \in {x \in server' : x.title = u /\ (cfg.system = "plex" => x.account = a)} : q.id = copy[j].old
        BY <1>2, <1>3, <3>1 DEF Named
      <3> QED BY <1>2, <2>2, <3>2 DEF RoomAt, Named
    <2> QED BY <1>2, <2>1, <2>2
  <1> QED BY <1>6, <1>7, OthersRest, FewIf

\* Deleting makes room: what goes has the name of what is created next, or is
\* the copy that was renewed.
LEMMA DeletingKeepsFew ==
    ASSUME Inv, Few, NEW j \in Jobs, Step(j), Deletes(j)
    PROVE  Few'
  <1> USE DEF Inv, TypeInv
  <1>1. slips' = slips /\ cfg' = cfg /\ user' = user
    BY DEF Deletes, DeletePlaylist, DeleteCopy, run
  <1>2. slips \in Nat /\ \A a, t : Count(a, t) \in Nat
    BY Numbers DEF Few
  <1>3. /\ cfg.replace => \A a \in Accounts : Count(a, Bare) <= 1 + slips
        /\ \A a \in Accounts, u \in Users : Count(a, u) <= 2 + slips
        /\ IsFiniteSet(server)
    BY DEF Few, Counts
  <1>4. ASSUME /\ IsFiniteSet(server') /\ \A a, t : Count(a, t)' \in Nat /\ Count(a, t)' <= Count(a, t)
               /\ \A a \in Accounts, u \in Users : Count(a, u)' <= 1 + slips
        PROVE  Counts'
    <2>1. cfg'.replace => \A a \in Accounts : Count(a, Bare)' <= 1 + slips'
      BY <1>1, <1>2, <1>3, <1>4
    <2>2. \A a \in Accounts, u \in Users : Count(a, u)' <= 1 + slips' /\ Count(a, u)' <= 2 + slips'
      BY <1>1, <1>2, <1>4
    <2> QED BY <1>4, <2>1, <2>2 DEF Counts
  <1>5. CASE DeletePlaylist(j)
    <2>0. After("delete") = "refresh"
      BY DEF After
    <2>1. at[j] = "delete" /\ at'[j] = "refresh" /\ server' = {p \in server : p.id # id[j]}
      BY <1>5, <2>0 DEF DeletePlaylist, Goto, TypeOK
    <2>2. /\ IsFiniteSet(server')
          /\ \A a, t : /\ Count(a, t)' \in Nat /\ Count(a, t)' <= Count(a, t)
                       /\ (\E p \in Named(a, t) : p.id = id[j]) => Count(a, t)' <= Count(a, t) - 1
      BY <1>1, <1>3, <2>1, OneLess
    <2>3. \A a \in Accounts, u \in Users : Count(a, u) <= 1 + slips
      BY <2>1, NoneRenewed DEF Few, Counts
    <2>4. \A a \in Accounts, u \in Users : Count(a, u)' <= 1 + slips
      BY <1>2, <2>2, <2>3
    <2>5. \E p \in Named(Account(j), Bare) : p.id = id[j]
      BY <2>1 DEF Few, RoomAt
    <2>6. Account(j) \in Accounts
      BY <2>1 DEF Serving, Accounts, Account
    <2>7. cfg.replace => Cardinality({p \in server' : p.title = Bare /\ (cfg.system = "plex" => p.account = Account(j))}) <= slips
      <3> DEFINE a == Account(j)
                 m == Cardinality({p \in server' : p.title = Bare /\ (cfg.system = "plex" => p.account = a)})
      <3>1. m \in Nat /\ m <= Count(a, Bare) - 1
        BY <1>1, <2>2, <2>5 DEF Count, Named
      <3>2. cfg.replace => Count(a, Bare) <= 1 + slips
        BY <1>3, <2>6
      <3> HIDE DEF m, a
      <3>3. cfg.replace => m <= slips
        BY <1>2, <3>1, <3>2
      <3> QED BY <3>3 DEF m, a
    <2>8. RoomAt(j)'
      BY <1>1, <2>1, <2>7 DEF RoomAt, Count, Named, Account
    <2> QED BY <1>4, <2>2, <2>4, <2>8, OthersRest, FewIf
  <1>6. CASE DeleteCopy(j)
    <2>1. at[j] = "copyDelete" /\ at'[j] = "share" /\ server' = {p \in server : p.id # copy[j].old}
      BY <1>6 DEF DeleteCopy, Goto, TypeOK
    <2>2. /\ IsFiniteSet(server')
          /\ \A a, t : /\ Count(a, t)' \in Nat /\ Count(a, t)' <= Count(a, t)
                       /\ (\E p \in Named(a, t) : p.id = copy[j].old) => Count(a, t)' <= Count(a, t) - 1
      BY <1>1, <1>3, <2>1, OneLess
    <2>3. ASSUME NEW a \in Accounts, NEW u \in Users PROVE Count(a, u)' <= 1 + slips
      <3>1. CASE Renews(j, a, u)
        <4>1. \E p \in Named(a, u) : p.id = copy[j].old
          BY <2>1, <3>1 DEF Few, RoomAt, Renews
        <4>2. Count(a, u)' <= Count(a, u) - 1 /\ Count(a, u)' \in Nat /\ Count(a, u) <= 2 + slips
          BY <1>3, <2>2, <4>1
        <4> QED BY <1>2, <4>2
      <3>2. CASE ~ Renews(j, a, u)
        <4>1. \A k \in Jobs : ~ Renews(k, a, u)
          BY <2>1, <3>2 DEF Renews, Alone, Active
        <4>2. Count(a, u) <= 1 + slips /\ Count(a, u)' <= Count(a, u) /\ Count(a, u)' \in Nat
          BY <2>2, <4>1 DEF Few, Counts
        <4> QED BY <1>2, <4>2
      <3> QED BY <3>1, <3>2
    <2>4. RoomAt(j)'
      BY <2>1 DEF RoomAt
    <2> QED BY <1>4, <2>2, <2>3, <2>4, OthersRest, FewIf
  <1> QED BY <1>5, <1>6 DEF Deletes

\* One made by hand is counted.
LEMMA HandsKeepFew ==
    ASSUME Inv, Few, NEW h \in Accounts, MadeByHand(h)
    PROVE  Few'
  <1> USE DEF Inv, TypeInv
  <1> DEFINE n == [id |-> fresh, account |-> h, title |-> Bare, songs |-> Tracks]
  <1>1. /\ server' = server \cup {n} /\ n.title = Bare
        /\ slips' = slips + 1 /\ UNCHANGED <<cfg, at, user, id, copy>>
    BY DEF MadeByHand, Slip, run
  <1> HIDE DEF n
  <1>2. /\ IsFiniteSet(server')
        /\ \A a, t : /\ Count(a, t)' \in Nat /\ Count(a, t)' <= Count(a, t) + 1
                     /\ t # Bare => Count(a, t)' <= Count(a, t)
    BY <1>1, OneMore DEF Few, Counts
  <1>3. slips \in Nat /\ \A a, t : Count(a, t) \in Nat
    BY Numbers DEF Few
  <1>4. \A j \in Jobs : \A a, u : Renews(j, a, u)' <=> Renews(j, a, u)
    BY <1>1 DEF Renews
  <1>5. Counts'
    <2>1. ASSUME NEW a \in Accounts, cfg.replace PROVE Count(a, Bare)' <= 1 + slips'
      BY <1>1, <1>2, <1>3, <2>1 DEF Few, Counts
    <2>2. ASSUME NEW a \in Accounts, NEW u \in Users
          PROVE  /\ Count(a, u)' <= 2 + slips'
                 /\ (\A j \in Jobs : ~ Renews(j, a, u)) => Count(a, u)' <= 1 + slips'
      <3>1. u # Bare
        BY UserAssumption
      <3>2. Count(a, u)' <= Count(a, u) /\ Count(a, u)' \in Nat /\ Count(a, u) \in Nat
        BY <1>2, <1>3, <3>1
      <3>3. /\ Count(a, u) <= 2 + slips
            /\ (\A j \in Jobs : ~ Renews(j, a, u)) => Count(a, u) <= 1 + slips
        BY DEF Few, Counts
      <3> QED BY <1>1, <1>3, <3>2, <3>3
    <2> QED BY <1>1, <1>2, <1>4, <2>1, <2>2 DEF Counts
  <1>6. ASSUME NEW j \in Jobs PROVE RoomAt(j)'
    <2>1. RoomAt(j) /\ Account(j)' = Account(j)
      BY <1>1 DEF Few, Account
    <2>2. \A a, t : Named(a, t) \subseteq Named(a, t)'
      BY <1>1 DEF Named
    <2>3. \A a, t : t # Bare => Named(a, t)' = Named(a, t)
      BY <1>1 DEF Named
    <2>4. cfg.replace /\ at[j] \in {"refresh", "match", "create"} => Count(Account(j), Bare)' <= slips'
      BY <1>1, <1>2, <1>3, <2>1 DEF RoomAt
    <2>5. at[j] = "copy" => user[j] # Bare
      BY UserAssumption DEF Serving
    <2>6. at[j] = "delete" => \E p \in Named(Account(j), Bare)' : p.id = id[j]
      BY <2>1, <2>2 DEF RoomAt
    <2>7. at[j] \in {"copy", "copyFill", "copyDelete"} /\ copy[j].old # NoID =>
             \E p \in Named(copy[j].to, user[j])' : p.id = copy[j].old
      BY <1>1, <2>1, <2>2 DEF RoomAt
    <2>8. at[j] = "copy" /\ copy[j].old = NoID => Named(copy[j].to, user[j])' = {}
      BY <1>1, <2>1, <2>3, <2>5 DEF RoomAt
    <2> QED BY <1>1, <2>1, <2>4, <2>6, <2>7, <2>8 DEF RoomAt, Count, Named, Account
  <1> QED BY <1>5, <1>6 DEF Few

LEMMA FewInit == Init => Few
  <1> SUFFICES ASSUME Init PROVE Few
    OBVIOUS
  <1> DEFINE p == [id |-> 0, account |-> Owner, title |-> Bare, songs |-> Tracks]
  <1>1. server \subseteq {p} /\ slips = 0
    BY DEF Init
  <1> HIDE DEF p
  <1>2. IsFiniteSet(server) /\ Cardinality(server) <= 1 /\ Cardinality(server) \in Nat
    <2>1. IsFiniteSet({p}) /\ Cardinality({p}) = 1
      BY FS_Singleton
    <2> QED BY <1>1, <2>1, FS_Subset, FS_CardinalityType
  <1>3. ASSUME NEW a, NEW t PROVE Count(a, t) \in Nat /\ Count(a, t) <= 1
    <2>1. Count(a, t) \in Nat
      BY <1>2, CountType
    <2>2. Named(a, t) \subseteq server
      BY DEF Named
    <2>3. Cardinality(Named(a, t)) <= Cardinality(server)
      BY <1>2, <2>2, FS_Subset
    <2> QED BY <1>2, <2>1, <2>3 DEF Count
  <1>4. Counts
    BY <1>1, <1>2, <1>3 DEF Counts
  <1>5. \A j \in Jobs : RoomAt(j)
    BY DEF Init, RoomAt
  <1> QED BY <1>4, <1>5 DEF Few

LEMMA FewNext == Inv /\ Few /\ [Next]_vars => Few'
  <1> SUFFICES ASSUME Inv, Few, [Next]_vars PROVE Few'
    OBVIOUS
  <1>1. ASSUME NEW j \in Jobs, Step(j) PROVE Few'
    BY <1>1, QuietKeepsFew, CreatingKeepsFew, CopyingKeepsFew, FillingKeepsFew, DeletingKeepsFew
       DEF Makes
  <1>2. CASE UNCHANGED <<cfg, server, slips, at, run>>
    <2>1. UNCHANGED <<cfg, server, slips, at, user, id, copy>>
      BY <1>2 DEF run
    <2>2. Counts'
      BY <2>1 DEF Few, Counts, Renews, Count, Named
    <2>3. \A j \in Jobs : RoomAt(j)'
      BY <2>1 DEF Few, RoomAt, Count, Named, Account
    <2> QED BY <2>2, <2>3 DEF Few
  <1>3. ASSUME NEW a \in Accounts, MadeByHand(a) PROVE Few'
    BY <1>3, HandsKeepFew
  <1> QED BY <1>1, <1>2, <1>3 DEF Next, Step, Scan, vars

\* DuplicatesNeedFailures: with replacement on, an account has at most one
\* playlist of the job's name more than there were failures, and but for a copy
\* that is being renewed the same holds of the copies of each user's playlist:
\* a run finds and deletes the old one before it creates, or creates a copy only
\* to replace the one it found.
THEOREM DuplicatesAreFailures == Spec => []DuplicatesNeedFailures
  <1>1. Few => DuplicatesNeedFailures
    <2> SUFFICES ASSUME Few, NEW a \in Accounts
                 PROVE  /\ cfg.replace => Cardinality(Named(a, Bare)) <= 1 + slips
                        /\ (\A j \in Jobs : at[j] \notin {"copyFill", "copyDelete"})
                           => \A u \in Users : Cardinality(Named(a, u)) <= 1 + slips
      BY DEF DuplicatesNeedFailures
    <2> QED BY DEF Few, Counts, Count, Renews
  <1> QED BY <1>1, FewInit, FewNext, InvIsKept, PTL DEF Spec
=============================================================================
