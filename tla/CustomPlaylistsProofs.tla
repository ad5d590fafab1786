------------------------ MODULE CustomPlaylistsProofs ------------------------
(***************************************************************************)
(* What customPlaylistsMu guarantees while every writer of the playlists   *)
(* runs in one process, for any playlists, users and requests: every save  *)
(* is one edit of the catalog, or of nothing when the file could not be    *)
(* read, and no request leaves the mutex locked.  A second process breaks  *)
(* it (see the run playlists_upload).                                      *)
(***************************************************************************)
EXTENDS CustomPlaylists, SequenceTheorems, TLAPS

OneProcess == \A a, b \in Actors : Proc[a] = Proc[b]

\* Between its load and its save an actor holds its process's mutex, and its
\* copy is the file, or empty.
Exclusive ==
    \A a \in Actors : step[a] = "save" => mu[Proc[a]] = a /\ copy[a] \in Read

\* What an actor is doing when its next step needs a playlist.
AtWork ==
    \A a \in Actors :
        /\ step[a] = "idle" \/ job[a] \in Jobs
        /\ step[a] = "fetch" => job[a].op \in {"import", "refresh"}
        /\ step[a] = "flag" => job[a].op = "import"
        /\ step[a] \in {"uncache", "unflag"} => job[a].op = "delete"

LEMMA FirstOfType == ASSUME NEW s \in Seq(Users) PROVE FirstOf(s) \in Owners
  BY DEF FirstOf, Owners

LEMMA JobFields ==
    ASSUME NEW j \in Jobs
    PROVE  /\ j.op \in {"import", "assign"} => j.id \in Playlists /\ j.user \in Owners
           /\ j.op \in {"refresh", "delete", "mark"} => j.id \in Playlists
           /\ j.op = "deleteUser" => j.user \in Users /\ j.heir \in Owners
           /\ j.op \in {"import", "assign", "refresh", "delete", "mark", "deleteUser"}
  BY DEF Jobs

LEMMA EntryEdits ==
    ASSUME NEW e \in Catalog!Entry
    PROVE  /\ [e EXCEPT !.fetched = TRUE] \in Catalog!Entry
           /\ [e EXCEPT !.uploaded = TRUE] \in Catalog!Entry
           /\ \A u \in Owners : [e EXCEPT !.owner = u] \in Catalog!Entry
  BY DEF Catalog!Entry, Catalog!Owners, Owners

LEMMA ListEntries ==
    ASSUME NEW l \in Lists, NEW p \in Playlists, l[p] # None
    PROVE  l[p] \in Catalog!Entry
  BY DEF Lists

\* Three of the edits put another entry where one is.
LEMMA ChangedEntry ==
    ASSUME NEW j \in Jobs, NEW l \in Lists, j.op \in {"assign", "refresh", "mark"}
    PROVE  \E x : /\ Edited(j, l) = IF l[j.id] = None THEN l ELSE [l EXCEPT ![j.id] = x]
                  /\ l[j.id] # None => x \in Catalog!Entry
  <1>1. l[j.id] # None => l[j.id] \in Catalog!Entry
    BY JobFields, ListEntries
  <1>2. CASE j.op = "assign"
    <2>1. Edited(j, l) = IF l[j.id] = None THEN l
                         ELSE [l EXCEPT ![j.id] = [l[j.id] EXCEPT !.owner = j.user]]
      BY <1>2 DEF Edited, Catalog!WithOwner
    <2>2. l[j.id] # None => [l[j.id] EXCEPT !.owner = j.user] \in Catalog!Entry
      BY <1>1, <1>2, EntryEdits, JobFields
    <2> QED
      BY <2>1, <2>2
  <1>3. CASE j.op = "refresh"
    <2>1. Edited(j, l) = IF l[j.id] = None THEN l
                         ELSE [l EXCEPT ![j.id] = [l[j.id] EXCEPT !.fetched = TRUE]]
      BY <1>3 DEF Edited, Catalog!WithFetch
    <2> QED
      BY <1>1, <2>1, EntryEdits
  <1>4. CASE j.op = "mark"
    <2>1. Edited(j, l) = IF l[j.id] = None THEN l
                         ELSE [l EXCEPT ![j.id] = [l[j.id] EXCEPT !.uploaded = TRUE]]
      BY <1>4 DEF Edited, Catalog!WithUpload
    <2> QED
      BY <1>1, <2>1, EntryEdits
  <1> QED
    BY <1>2, <1>3, <1>4

\* And one changes the owner of any number of entries.
LEMMA PassedOnEntry ==
    ASSUME NEW j \in Jobs, NEW l \in Lists, NEW p \in Playlists, j.op = "deleteUser"
    PROVE  /\ l[p] = None => Edited(j, l)[p] = None
           /\ l[p] # None => Edited(j, l)[p] \in Catalog!Entry
  <1>1. Edited(j, l)[p] = IF l[p] # None /\ l[p].owner = j.user
                          THEN [l[p] EXCEPT !.owner = j.heir] ELSE l[p]
    BY DEF Edited, Catalog!PassedOn
  <1>2. l[p] # None => [l[p] EXCEPT !.owner = j.heir] \in Catalog!Entry
    BY ListEntries, EntryEdits, JobFields
  <1> QED
    BY <1>1, <1>2, ListEntries

LEMMA EditedType ==
    ASSUME NEW j \in Jobs, NEW l \in Lists
    PROVE  Edited(j, l) \in Lists
  <1>1. CASE j.op = "import"
    <2>1. Catalog!Imported(j.user) \in Catalog!Entry
      BY <1>1, JobFields DEF Catalog!Imported, Catalog!Entry, Catalog!Owners, Owners
    <2> QED
      BY <1>1, <2>1, JobFields DEF Edited, Catalog!WithImport, Lists
  <1>2. CASE j.op = "delete"
    BY <1>2, JobFields DEF Edited, Catalog!Without, Lists
  <1>3. CASE j.op \in {"assign", "refresh", "mark"}
    <2>1. PICK x : /\ Edited(j, l) = IF l[j.id] = None THEN l ELSE [l EXCEPT ![j.id] = x]
                   /\ l[j.id] # None => x \in Catalog!Entry
      BY <1>3, ChangedEntry
    <2> QED
      BY <2>1, <1>3, JobFields DEF Lists
  <1>4. CASE j.op = "deleteUser"
    <2>1. Edited(j, l) = [p \in Playlists |-> Edited(j, l)[p]]
      BY <1>4 DEF Edited, Catalog!PassedOn
    <2>2. \A p \in Playlists : Edited(j, l)[p] \in Catalog!Entry \cup {None}
      BY <1>4, PassedOnEntry
    <2> QED
      BY <2>1, <2>2 DEF Lists
  <1> QED
    BY <1>1, <1>2, <1>3, <1>4, JobFields

-----------------------------------------------------------------------------
(* Type correctness *)

TypeInv == TypeOK /\ AtWork

LEMMA TypeInit == Init => TypeInv
  <1> SUFFICES ASSUME Init PROVE TypeInv
    OBVIOUS
  <1> USE DEF Init
  <1>1. users \in Seq(Users) /\ FirstOf(FirstUsers) \in Owners
    BY UserAssumption, FirstOfType
  <1>2. list \in Lists
    BY <1>1 DEF Lists, Catalog!Imported, Catalog!Entry, Catalog!Owners, Owners
  <1>3. flags \in [EnvKeys -> Playlists \cup {None}]
    BY PlaylistAssumption
  <1> QED
    BY <1>1, <1>2, <1>3, PlaylistAssumption DEF TypeInv, TypeOK, AtWork

\* A request is one of the jobs.
LEMMA PlaylistJobs ==
    ASSUME NEW p \in Playlists
    PROVE  /\ [op |-> "refresh", id |-> p] \in Jobs
           /\ [op |-> "delete", id |-> p] \in Jobs
           /\ [op |-> "mark", id |-> p] \in Jobs
           /\ \A u \in Owners : /\ [op |-> "import", id |-> p, user |-> u] \in Jobs
                                /\ [op |-> "assign", id |-> p, user |-> u] \in Jobs
  BY DEF Jobs

LEMMA UserJobs ==
    ASSUME NEW u \in Users, NEW heir \in Owners
    PROVE  [op |-> "deleteUser", user |-> u, heir |-> heir] \in Jobs
  BY DEF Jobs

\* Starting a job and going on with one keep the types of job and step.
Steps == {"idle", "fetch", "update", "save", "flag", "uncache", "unflag", "done", "failed"}

JobsOK == /\ job \in [Actors -> Jobs \cup {None}] /\ step \in [Actors -> Steps]
          /\ AtWork

LEMMA BeginKeeps ==
    ASSUME JobsOK, NEW a \in Actors, NEW j \in Jobs, NEW s \in {"fetch", "update"},
           s = "fetch" => j.op \in {"import", "refresh"}, Begin(a, j, s)
    PROVE  JobsOK'
  BY DEF JobsOK, AtWork, Begin, Steps

LEMMA AdvanceKeeps ==
    ASSUME JobsOK, NEW a \in Actors, step[a] # "idle", NEW s \in Steps, Advance(a, s), job' = job,
           s = "fetch" => job[a].op \in {"import", "refresh"},
           s = "flag" => job[a].op = "import",
           s \in {"uncache", "unflag"} => job[a].op = "delete"
    PROVE  JobsOK'
  BY DEF JobsOK, AtWork, Advance, Steps

LEMMA TypeStep == TypeInv /\ [Next]_vars => TypeInv'
  <1> SUFFICES ASSUME TypeInv, [Next]_vars PROVE TypeInv'
    OBVIOUS
  <1> DEFINE Rest == /\ users \in Seq(Users)
                     /\ list \in Lists
                     /\ mu \in [Processes -> Actors \cup {None}]
                     /\ copy \in [Actors -> Lists]
                     /\ drawn \subseteq Playlists /\ cache \subseteq Playlists
                     /\ covers \subseteq Playlists
                     /\ flags \in [EnvKeys -> Playlists \cup {None}] /\ byHand \subseteq EnvKeys
  <1>a. Rest /\ JobsOK
    BY DEF TypeInv, TypeOK, JobsOK, AtWork, Steps
  <1>b. SUFFICES Rest' /\ JobsOK'
    BY DEF TypeInv, TypeOK, JobsOK, AtWork, Steps
  <1>c. \A a \in Actors : step[a] # "idle" => job[a] \in Jobs
    BY <1>a DEF JobsOK, AtWork
  <1>1. ASSUME NEW a \in Actors, NEW p \in Playlists,
               Refresh(a, p) \/ Delete(a, p) \/ MarkUploaded(a, p)
        PROVE  Rest' /\ JobsOK'
    <2>1. Rest'
      BY <1>a, <1>1 DEF Refresh, Delete, MarkUploaded
    <2>2. CASE Refresh(a, p)
      <3>1. Begin(a, [op |-> "refresh", id |-> p], "fetch") /\ [op |-> "refresh", id |-> p] \in Jobs
        BY <2>2, PlaylistJobs DEF Refresh
      <3> HIDE DEF Rest
      <3> QED
        BY <1>a, <2>1, <3>1, BeginKeeps
    <2>3. CASE Delete(a, p)
      <3>1. Begin(a, [op |-> "delete", id |-> p], "update") /\ [op |-> "delete", id |-> p] \in Jobs
        BY <2>3, PlaylistJobs DEF Delete
      <3> HIDE DEF Rest
      <3> QED
        BY <1>a, <2>1, <3>1, BeginKeeps
    <2>4. CASE MarkUploaded(a, p)
      <3>1. Begin(a, [op |-> "mark", id |-> p], "update") /\ [op |-> "mark", id |-> p] \in Jobs
        BY <2>4, PlaylistJobs DEF MarkUploaded
      <3> HIDE DEF Rest
      <3> QED
        BY <1>a, <2>1, <3>1, BeginKeeps
    <2> QED
      BY <1>1, <2>1, <2>2, <2>3, <2>4
  <1>2. ASSUME NEW a \in Actors, NEW p \in Playlists, NEW u \in Owners,
               Import(a, p, u) \/ Reassign(a, p, u)
        PROVE  Rest' /\ JobsOK'
    <2>1. Rest'
      BY <1>a, <1>2 DEF Import, Reassign
    <2>2. CASE Import(a, p, u)
      <3>1. /\ Begin(a, [op |-> "import", id |-> p, user |-> u], "fetch")
            /\ [op |-> "import", id |-> p, user |-> u] \in Jobs
        BY <2>2, PlaylistJobs DEF Import
      <3> HIDE DEF Rest
      <3> QED
        BY <1>a, <2>1, <3>1, BeginKeeps
    <2>3. CASE Reassign(a, p, u)
      <3>1. /\ Begin(a, [op |-> "assign", id |-> p, user |-> u], "update")
            /\ [op |-> "assign", id |-> p, user |-> u] \in Jobs
        BY <2>3, PlaylistJobs DEF Reassign
      <3> HIDE DEF Rest
      <3> QED
        BY <1>a, <2>1, <3>1, BeginKeeps
    <2> QED
      BY <1>2, <2>1, <2>2, <2>3
  <1>3. ASSUME NEW a \in Actors, NEW u \in Users, DeleteUser(a, u)
        PROVE  Rest' /\ JobsOK'
    <2>1. users' \in Seq(Users)
      <3>1. PICK i \in DOMAIN users :
              users' = SubSeq(users, 1, i - 1) \o SubSeq(users, i + 1, Len(users))
        BY <1>3 DEF DeleteUser, RemoveAt
      <3>2. /\ SubSeq(users, 1, i - 1) \in Seq(Users)
            /\ SubSeq(users, i + 1, Len(users)) \in Seq(Users)
        <4>1. i \in 1..Len(users) /\ \A k \in 1..Len(users) : users[k] \in Users
          BY <1>a
        <4> QED
          BY <1>a, <4>1, SubSeqProperties
      <3> QED
        BY <3>1, <3>2, ConcatProperties
    <2>2. FirstOf(users') \in Owners
      BY <2>1, FirstOfType
    <2>3. /\ Begin(a, [op |-> "deleteUser", user |-> u, heir |-> FirstOf(users')], "update")
          /\ [op |-> "deleteUser", user |-> u, heir |-> FirstOf(users')] \in Jobs
      BY <1>3, <2>2, UserJobs DEF DeleteUser
    <2>4. JobsOK'
      BY <1>a, <2>3, BeginKeeps
    <2> QED
      BY <1>a, <1>3, <2>1, <2>4 DEF DeleteUser
  <1>4. ASSUME NEW a \in Actors, Load(a)
        PROVE  Rest' /\ JobsOK'
    <2>0. Read \subseteq Lists
      BY <1>a DEF Read, Unread, Lists
    <2>1. Rest'
      BY <1>a, <1>4, <2>0, ActorAssumption DEF Load
    <2>2. JobsOK'
      BY <1>a, <1>4, AdvanceKeeps DEF Load, Steps
    <2> QED
      BY <2>1, <2>2
  <1>5. ASSUME NEW a \in Actors, Save(a) \/ SaveFails(a)
        PROVE  Rest' /\ JobsOK'
    <2>1. job[a] \in Jobs /\ copy[a] \in Lists
      BY <1>a, <1>c, <1>5 DEF Save, SaveFails
    <2>2. Edited(job[a], copy[a]) \in Lists
      BY <2>1, EditedType
    <2>3. Rest'
      BY <1>a, <1>5, <2>2, ActorAssumption DEF Save, SaveFails
    <2>4. CASE Save(a)
      <3>1. Onward(job[a]) \in Steps /\ Onward(job[a]) \in {"uncache", "flag", "done"}
        BY DEF Onward, Steps
      <3>2. /\ Onward(job[a]) = "uncache" => job[a].op = "delete"
            /\ Onward(job[a]) = "flag" => job[a].op = "import"
        BY DEF Onward
      <3> QED
        BY <1>a, <2>4, <3>1, <3>2, <2>3, AdvanceKeeps DEF Save
    <2>5. CASE SaveFails(a)
      BY <1>a, <2>5, <2>3, AdvanceKeeps DEF SaveFails, Steps
    <2> QED
      BY <1>5, <2>4, <2>5
  <1>6. ASSUME NEW a \in Actors, Fetched(a) \/ FetchFails(a)
        PROVE  Rest' /\ JobsOK'
    <2>1. step[a] = "fetch" /\ job[a].id \in Playlists
      BY <1>a, <1>c, <1>6, JobFields DEF Fetched, FetchFails, JobsOK, AtWork
    <2>2. Rest'
      BY <1>a, <1>6, <2>1 DEF Fetched, FetchFails
    <2> QED
      BY <1>a, <1>6, <2>1, <2>2, AdvanceKeeps DEF Fetched, FetchFails, Steps
  <1>7. ASSUME NEW a \in Actors, SetFlags(a) \/ Uncache(a) \/ ClearFlags(a) \/ FlagsFail(a)
        PROVE  Rest' /\ JobsOK'
    <2>1. step[a] \in {"flag", "uncache", "unflag"} /\ job[a].id \in Playlists
      BY <1>a, <1>c, <1>7, JobFields DEF SetFlags, Uncache, ClearFlags, FlagsFail, JobsOK, AtWork
    <2>2. Rest'
      BY <1>a, <1>7, <2>1 DEF SetFlags, Uncache, ClearFlags, FlagsFail
    <2>3. CASE Uncache(a)
      <3>1. job[a].op = "delete"
        BY <1>a, <2>3 DEF Uncache, JobsOK, AtWork
      <3> QED
        BY <1>a, <2>3, <2>2, <3>1, AdvanceKeeps DEF Uncache, Steps
    <2>4. CASE SetFlags(a) \/ ClearFlags(a) \/ FlagsFail(a)
      BY <1>a, <2>4, <2>2, AdvanceKeeps DEF SetFlags, ClearFlags, FlagsFail, Steps
    <2> QED
      BY <1>7, <2>3, <2>4
  <1>8. ASSUME NEW p \in Playlists, CoversCached(p)
        PROVE  Rest' /\ JobsOK'
    BY <1>a, <1>8 DEF CoversCached, JobsOK, AtWork
  <1>9. ASSUME NEW u \in Users, CreateUser(u)
        PROVE  Rest' /\ JobsOK'
    BY <1>a, <1>9 DEF CreateUser, JobsOK, AtWork
  <1>13. ASSUME NEW x \in EnvKeys, SaveSchedule(x)
         PROVE  Rest' /\ JobsOK'
    BY <1>a, <1>13 DEF SaveSchedule, JobsOK, AtWork
  <1>10. CASE UNCHANGED vars
    BY <1>a, <1>10 DEF vars, JobsOK, AtWork
  <1> HIDE DEF Rest
  <1>11. ASSUME NEW a \in Actors, Requests(a) PROVE Rest' /\ JobsOK'
    BY <1>1, <1>2, <1>3, <1>11 DEF Requests
  <1>12. ASSUME NEW a \in Actors, Works(a) PROVE Rest' /\ JobsOK'
    BY <1>4, <1>5, <1>6, <1>7, <1>12 DEF Works
  <1> QED
    BY <1>1, <1>8, <1>9, <1>10, <1>11, <1>12, <1>13, ActorAssumption DEF Next

\* Every file, mutex and job keeps its type, for any playlists and requests.
THEOREM TypeCorrect == Spec => []TypeOK
  <1>1. TypeInv => TypeOK
    BY DEF TypeInv
  <1> QED
    BY <1>1, TypeInit, TypeStep, PTL DEF Spec

-----------------------------------------------------------------------------
(* The mutex *)

Held == \A q \in Processes : mu[q] # None => step[mu[q]] = "save" /\ Proc[mu[q]] = q

MutexInv == Exclusive /\ Held

\* Steps that neither take or give back the mutex nor save.
LEMMA OthersKeepMutex ==
    ASSUME TypeInv, MutexInv, UNCHANGED <<list, mu, copy>>,
           \A a \in Actors : step'[a] = step[a] \/ (step[a] # "save" /\ step'[a] # "save")
    PROVE  MutexInv'
  BY DEF MutexInv, Exclusive, Held, Read, Unread, TypeInv, TypeOK

LEMMA MutexStep ==
    ASSUME OneProcess, TypeInv, MutexInv, [Next]_vars
    PROVE  MutexInv'
  <1> USE DEF TypeInv, TypeOK
  <1>1. ASSUME NEW a \in Actors, Load(a) PROVE MutexInv'
    <2>1. \A b \in Actors : step[b] # "save"
      BY <1>1, ActorAssumption DEF OneProcess, MutexInv, Exclusive, Load
    <2>2. mu' = [mu EXCEPT ![Proc[a]] = a] /\ Read' = Read /\ copy'[a] \in Read
          /\ step'[a] = "save" /\ (\A b \in Actors \ {a} : step'[b] = step[b])
      BY <1>1 DEF Load, Advance, Read, Unread
    <2>3. Proc[a] \in Processes
      BY ActorAssumption
    <2>4. \A q \in Processes : mu[q] = None
      BY <2>1 DEF MutexInv, Held
    <2> QED
      BY <2>1, <2>2, <2>3, <2>4, ActorAssumption DEF MutexInv, Exclusive, Held
  <1>2. ASSUME NEW a \in Actors, Save(a) \/ SaveFails(a) PROVE MutexInv'
    <2>1. \A b \in Actors : step[b] = "save" => b = a
      BY <1>2 DEF OneProcess, MutexInv, Exclusive, Save, SaveFails
    <2>2. mu' = [mu EXCEPT ![Proc[a]] = None] /\ step'[a] # "save"
          /\ (\A b \in Actors \ {a} : step'[b] = step[b])
      BY <1>2 DEF Save, SaveFails, Advance, Onward
    <2>3. \A q \in Processes \ {Proc[a]} : mu[q] = None
      BY <2>1 DEF MutexInv, Held
    <2> QED
      BY <2>1, <2>2, <2>3, ActorAssumption DEF MutexInv, Exclusive, Held
  <1>3. ASSUME NEW a \in Actors, Requests(a) \/ \E p \in Playlists : MarkUploaded(a, p)
        PROVE  MutexInv'
    <2>1. UNCHANGED <<list, mu, copy>> /\ \E j, t : t # "save" /\ Begin(a, j, t)
      BY <1>3 DEF Requests, Refresh, Delete, MarkUploaded, Import, Reassign, DeleteUser
    <2> QED
      BY <2>1, OthersKeepMutex DEF Begin
  <1>4. ASSUME NEW a \in Actors,
               \/ Fetched(a) \/ FetchFails(a) \/ SetFlags(a) \/ Uncache(a) \/ ClearFlags(a)
               \/ FlagsFail(a)
        PROVE  MutexInv'
    <2>1. UNCHANGED <<list, mu, copy>> /\ step[a] # "save" /\ \E t : t # "save" /\ Advance(a, t)
      BY <1>4 DEF Fetched, FetchFails, SetFlags, Uncache, ClearFlags, FlagsFail
    <2> QED
      BY <2>1, OthersKeepMutex DEF Advance
  <1>5. ASSUME \/ \E p \in Playlists : CoversCached(p)
               \/ \E u \in Users : CreateUser(u)
               \/ \E x \in EnvKeys : SaveSchedule(x)
               \/ UNCHANGED vars
        PROVE  MutexInv'
    BY <1>5, OthersKeepMutex DEF CoversCached, CreateUser, SaveSchedule, vars
  <1> QED
    BY <1>1, <1>2, <1>3, <1>4, <1>5, ActorAssumption DEF Next, Works

LEMMA MutexInit == Init => MutexInv
  BY DEF Init, MutexInv, Exclusive, Held

\* In one process no path returns with the mutex held, and whoever holds it has
\* the file as it is, or an empty list when the file could not be read.
THEOREM MutexIsReleased == OneProcess /\ Spec => []LockedMeansUpdating
  <1>1. TypeInv /\ MutexInv => LockedMeansUpdating
    BY DEF TypeInv, TypeOK, MutexInv, Exclusive, Held, LockedMeansUpdating
  <1>2. ASSUME OneProcess PROVE Spec => []LockedMeansUpdating
    <2>1. TypeInv /\ MutexInv /\ [Next]_vars => (TypeInv /\ MutexInv)'
      BY <1>2, TypeStep, MutexStep
    <2> QED
      BY <1>1, <2>1, TypeInit, MutexInit, PTL DEF Spec
  <1> QED
    BY <1>2

-----------------------------------------------------------------------------
(* The life of a playlist *)

Imports(a) == step[a] # "idle" /\ job[a].op = "import"
Unsaved(a) == Imports(a) /\ step[a] \in {"fetch", "update", "save"}
Removes(a) == step[a] \in {"uncache", "unflag"}

\* An ID is drawn by one import, listed once that saved it, and not again after
\* a deletion took it away.
Lifecycle ==
    /\ \A p \in Playlists : Listed(p) => p \in drawn /\ p \in cache
    /\ \A a \in Actors : Imports(a) => job[a].id \in drawn
    /\ \A a, b \in Actors : Imports(a) /\ Imports(b) /\ job[a].id = job[b].id => a = b
    /\ \A a \in Actors : Unsaved(a) => ~Listed(job[a].id)
    /\ \A a \in Actors : Imports(a) /\ step[a] \in {"update", "save"} => job[a].id \in cache
    /\ \A a \in Actors : Removes(a) => job[a].id \in drawn /\ ~Listed(job[a].id)
    /\ \A a, b \in Actors : Removes(a) /\ Unsaved(b) => job[a].id # job[b].id

\* Of the edits only an import lists a playlist and only a deletion unlists one.
LEMMA EditedLists ==
    ASSUME NEW j \in Jobs, NEW l \in Lists, NEW p \in Playlists
    PROVE  /\ j.op = "import" => (Edited(j, l)[p] = None <=> l[p] = None /\ p # j.id)
           /\ j.op = "delete" => (Edited(j, l)[p] = None <=> l[p] = None \/ p = j.id)
           /\ j.op \notin {"import", "delete"} => (Edited(j, l)[p] = None <=> l[p] = None)
  <1>1. l \in [Playlists -> Catalog!Entry \cup {None}] /\ None \notin Catalog!Entry
    BY PlaylistAssumption DEF Lists, Catalog!Entry, Catalog!Owners
  <1>2. CASE j.op = "import"
    <2>1. Edited(j, l) = [l EXCEPT ![j.id] = Catalog!Imported(j.user)]
      BY <1>2 DEF Edited, Catalog!WithImport
    <2>2. Catalog!Imported(j.user) \in Catalog!Entry /\ j.id \in Playlists
      BY <1>2, JobFields DEF Catalog!Imported, Catalog!Entry, Catalog!Owners, Owners
    <2> QED
      BY <1>1, <1>2, <2>1, <2>2
  <1>3. CASE j.op = "delete"
    <2>1. Edited(j, l) = [l EXCEPT ![j.id] = None]
      BY <1>3 DEF Edited, Catalog!Without
    <2> QED
      BY <1>1, <1>3, <2>1, JobFields
  <1>4. CASE j.op \in {"assign", "refresh", "mark"}
    <2>1. PICK x : /\ Edited(j, l) = IF l[j.id] = None THEN l ELSE [l EXCEPT ![j.id] = x]
                   /\ l[j.id] # None => x \in Catalog!Entry
      BY <1>4, ChangedEntry
    <2> QED
      BY <1>1, <1>4, <2>1, JobFields
  <1>5. CASE j.op = "deleteUser"
    BY <1>1, <1>5, PassedOnEntry
  <1> QED
    BY <1>2, <1>3, <1>4, <1>5, JobFields

LEMMA LifecycleInit == Init => Lifecycle
  BY DEF Init, Lifecycle, Imports, Unsaved, Removes, Listed

\* Going on with a job that saves nothing and takes no cache away.
LEMMA AdvanceKeepsLifecycle ==
    ASSUME TypeInv, Lifecycle, NEW a \in Actors, NEW t, Advance(a, t), step[a] # "idle",
           UNCHANGED <<list, job, drawn>>, cache \subseteq cache',
           t \in {"fetch", "update", "save"} => step[a] \in {"fetch", "update", "save"},
           t \in {"update", "save"} => step[a] \in {"update", "save"} \/ job[a].id \in cache',
           t \in {"uncache", "unflag"} => Removes(a)
    PROVE  Lifecycle'
  BY DEF TypeInv, TypeOK, Lifecycle, Advance, Imports, Unsaved, Removes, Listed

LEMMA BeginKeepsLifecycle ==
    ASSUME TypeInv, Lifecycle, NEW a \in Actors, NEW j, j.op # "import",
           NEW t \in {"fetch", "update"},
           Begin(a, j, t), UNCHANGED <<list, drawn, cache>>
    PROVE  Lifecycle'
  BY DEF TypeInv, TypeOK, Lifecycle, Begin, Imports, Unsaved, Removes, Listed

LEMMA LifecycleStep ==
    ASSUME TypeInv, MutexInv, Lifecycle, [Next]_vars
    PROVE  Lifecycle'
  <1>1. ASSUME NEW a \in Actors, NEW p \in Playlists,
               Refresh(a, p) \/ Delete(a, p) \/ MarkUploaded(a, p)
        PROVE  Lifecycle'
    BY <1>1, BeginKeepsLifecycle DEF Refresh, Delete, MarkUploaded
  <1>2. ASSUME NEW a \in Actors, NEW p \in Playlists, NEW u \in Owners, Reassign(a, p, u)
        PROVE  Lifecycle'
    BY <1>2, BeginKeepsLifecycle DEF Reassign
  <1>3. ASSUME NEW a \in Actors, NEW u \in Users, DeleteUser(a, u)
        PROVE  Lifecycle'
    BY <1>3, BeginKeepsLifecycle DEF DeleteUser
  <1>4. ASSUME NEW a \in Actors, NEW p \in Playlists, NEW u \in Owners, Import(a, p, u)
        PROVE  Lifecycle'
    <2>1. /\ p \notin drawn /\ drawn' = drawn \cup {p} /\ UNCHANGED <<list, cache>>
          /\ step[a] = "idle" /\ step'[a] = "fetch" /\ job'[a].op = "import" /\ job'[a].id = p
          /\ \A b \in Actors \ {a} : job'[b] = job[b] /\ step'[b] = step[b]
      BY <1>4 DEF Import, Begin, TypeInv, TypeOK
    <2> QED
      BY <2>1 DEF Lifecycle, Imports, Unsaved, Removes, Listed
  <1>5. ASSUME NEW a \in Actors, Load(a) PROVE Lifecycle'
    BY <1>5, AdvanceKeepsLifecycle DEF Load
  <1>6. ASSUME NEW a \in Actors, SaveFails(a) PROVE Lifecycle'
    BY <1>6, AdvanceKeepsLifecycle DEF SaveFails
  <1>7. ASSUME NEW a \in Actors, Fetched(a) PROVE Lifecycle'
    BY <1>7, AdvanceKeepsLifecycle DEF Fetched
  <1>8. ASSUME NEW a \in Actors, FetchFails(a) \/ SetFlags(a) \/ ClearFlags(a) \/ FlagsFail(a)
        PROVE  Lifecycle'
    BY <1>8, AdvanceKeepsLifecycle DEF FetchFails, SetFlags, ClearFlags, FlagsFail
  <1>9. ASSUME NEW a \in Actors, Uncache(a) PROVE Lifecycle'
    <2>1. /\ Removes(a) /\ step'[a] = "unflag" /\ cache' = cache \ {job[a].id}
          /\ UNCHANGED <<list, job, drawn>>
          /\ \A b \in Actors \ {a} : step'[b] = step[b]
      BY <1>9 DEF Uncache, Advance, Removes, TypeInv, TypeOK
    <2> QED
      BY <2>1 DEF Lifecycle, Imports, Unsaved, Removes, Listed
  <1>10. ASSUME NEW a \in Actors, Save(a) PROVE Lifecycle'
    <2> DEFINE l == copy[a]
    <2>1. job[a] \in Jobs /\ l \in Lists /\ list' = Edited(job[a], l)
      BY <1>10 DEF Save, TypeInv, TypeOK, AtWork
    <2>0. \A p \in Playlists : l[p] # None => Listed(p)
      BY <1>10 DEF Save, MutexInv, Exclusive, Read, Unread, Listed
    <2> HIDE DEF l
    <2>2. /\ UNCHANGED <<job, drawn, cache>> /\ step[a] = "save" /\ step'[a] = Onward(job[a])
          /\ \A b \in Actors \ {a} : step'[b] = step[b]
      BY <1>10 DEF Save, Advance, TypeInv, TypeOK
    <2>3. CASE job[a].op = "import"
      <3>1. step'[a] = "flag" /\ \A p \in Playlists : Listed(p)' => Listed(p) \/ p = job[a].id
        BY <2>0, <2>1, <2>2, <2>3, EditedLists DEF Onward, Listed
      <3>2. Unsaved(a) /\ job[a].id \in drawn /\ job[a].id \in cache
        BY <2>2, <2>3 DEF Imports, Unsaved, Lifecycle
      <3>3. \A b \in Actors : Imports(b) \/ Removes(b) => job[b].id \in Playlists
        BY JobFields DEF Imports, Removes, TypeInv, AtWork
      <3>4. \A b \in Actors \ {a} : /\ Imports(b) => job[b].id # job[a].id
                                    /\ Removes(b) => job[b].id # job[a].id
        BY <3>2 DEF Lifecycle, Imports, Unsaved
      <3>5. /\ \A b \in Actors : Imports(b)' <=> Imports(b)
            /\ ~Unsaved(a)' /\ ~Removes(a)'
            /\ \A b \in Actors \ {a} : /\ Unsaved(b)' <=> Unsaved(b)
                                       /\ Removes(b)' <=> Removes(b)
        BY <2>2, <3>1, Zenon DEF Imports, Unsaved, Removes
      <3> QED
        BY <2>2, <3>1, <3>2, <3>3, <3>4, <3>5 DEF Lifecycle, Unsaved
    <2>4. CASE job[a].op = "delete"
      <3>1. step'[a] = "uncache" /\ \A p \in Playlists : Listed(p)' => Listed(p) /\ p # job[a].id
        BY <2>0, <2>1, <2>2, <2>4, EditedLists DEF Onward, Listed
      <3>2. Listed(job[a].id) /\ ~Imports(a) /\ job[a].id \in Playlists
        BY <1>10, <2>0, <2>1, <2>4, JobFields DEF Save, NotFound, Imports, l
      <3>3. \A b \in Actors : Imports(b) \/ Removes(b) => job[b].id \in Playlists
        BY JobFields DEF Imports, Removes, TypeInv, AtWork
      <3>4. /\ \A b \in Actors : Imports(b)' <=> Imports(b)
            /\ \A b \in Actors : Unsaved(b)' <=> Unsaved(b)
            /\ \A b \in Actors \ {a} : Removes(b)' <=> Removes(b)
        BY <2>2, <2>4, <3>1 DEF Imports, Unsaved, Removes
      <3>5. \A b \in Actors : Unsaved(b) => job[b].id # job[a].id
        BY <3>2 DEF Lifecycle
      <3> QED
        BY <2>2, <3>1, <3>2, <3>3, <3>4, <3>5 DEF Lifecycle, Unsaved
    <2>5. CASE job[a].op \notin {"import", "delete"}
      <3>1. step'[a] = "done" /\ \A p \in Playlists : Listed(p)' => Listed(p)
        BY <2>0, <2>1, <2>2, <2>5, EditedLists DEF Onward, Listed
      <3>2. \A b \in Actors : Imports(b) \/ Removes(b) => job[b].id \in Playlists
        BY JobFields DEF Imports, Removes, TypeInv, AtWork
      <3> QED
        BY <2>2, <2>5, <3>1, <3>2 DEF Lifecycle, Imports, Unsaved, Removes
    <2> QED
      BY <2>3, <2>4, <2>5
  <1>11. ASSUME \/ \E p \in Playlists : CoversCached(p)
                \/ \E u \in Users : CreateUser(u)
                \/ \E x \in EnvKeys : SaveSchedule(x)
                \/ UNCHANGED vars
         PROVE  Lifecycle'
    BY <1>11 DEF CoversCached, CreateUser, SaveSchedule, vars, Lifecycle, Imports, Unsaved, Removes, Listed
  <1> QED
    BY <1>1, <1>2, <1>3, <1>4, <1>5, <1>6, <1>7, <1>8, <1>9, <1>10, <1>11, ActorAssumption
       DEF Next, Requests, Works

-----------------------------------------------------------------------------
(* What it amounts to *)

Inv == TypeInv /\ MutexInv /\ Lifecycle

LEMMA Invariance == ASSUME OneProcess PROVE Spec => []Inv
  <1>1. Init => Inv
    BY TypeInit, MutexInit, LifecycleInit DEF Inv
  <1>2. Inv /\ [Next]_vars => Inv'
    BY TypeStep, MutexStep, LifecycleStep DEF Inv
  <1> QED
    BY <1>1, <1>2, PTL DEF Spec

\* While it is listed a playlist has its cached tracks.
THEOREM ListedAreCached == OneProcess /\ Spec => []ListedHasCache
  <1>1. Inv => ListedHasCache
    BY DEF Inv, Lifecycle, ListedHasCache
  <1>2. ASSUME OneProcess PROVE Spec => []ListedHasCache
    BY <1>1, <1>2, Invariance, PTL
  <1> QED
    BY <1>2

\* What keeps an import active, or tells why it is not.
Kept(p) == Active(p) \/ Shared(p) \/ EnvKey[p] \in byHand

Placed == Inv /\ OwnNameIsActive

\* An import that was over and listed is so before the step, and keeps its ID.
LEMMA StillListed ==
    ASSUME Inv, [Next]_vars, NEW b \in Actors, Activated(b)', step[b] = "done", job[b].op = "import"
    PROVE  Activated(b) /\ job'[b] = job[b] /\ job[b].id \in Playlists /\ job[b].id \in drawn
  <1> USE DEF Inv
  <1>1. job[b].id \in Playlists /\ job[b].id \in drawn /\ Imports(b)
    BY JobFields DEF TypeInv, AtWork, Lifecycle, Imports
  <1>2. job'[b] = job[b]
    BY DEF Next, Requests, Works, Import, Refresh, Delete, Reassign, DeleteUser, MarkUploaded, Begin,
           Load, Save, SaveFails, Fetched, FetchFails, SetFlags, Uncache, ClearFlags, FlagsFail,
           CoversCached, CreateUser, SaveSchedule, vars, TypeInv, TypeOK
  <1>3. CASE \E a \in Actors : Save(a)
    <2>1. PICK a \in Actors : Save(a)
      BY <1>3
    <2> DEFINE l == copy[a]
    <2>2. job[a] \in Jobs /\ l \in Lists /\ list' = Edited(job[a], l) /\ step[a] = "save"
      BY <2>1 DEF Save, TypeInv, TypeOK, AtWork
    <2>3. l[job[b].id] # None => Listed(job[b].id)
      BY <1>1, <2>1 DEF Save, MutexInv, Exclusive, Read, Unread, Listed
    <2>4. job[a].op = "import" => job[a].id # job[b].id
      BY <1>1, <2>2 DEF Lifecycle, Imports
    <2> HIDE DEF l
    <2>5. Edited(job[a], l)[job[b].id] # None
      BY <1>2, <2>2 DEF Activated, Listed
    <2>6. l[job[b].id] # None
      BY <1>1, <2>2, <2>4, <2>5, EditedLists
    <2> QED
      BY <1>1, <1>2, <2>3, <2>6 DEF Activated
  <1>4. CASE ~ \E a \in Actors : Save(a)
    <2>1. UNCHANGED list
      BY <1>4 DEF Next, Requests, Works, Import, Refresh, Delete, Reassign, DeleteUser, MarkUploaded,
             Load, SaveFails, Fetched, FetchFails, SetFlags, Uncache, ClearFlags, FlagsFail,
             CoversCached, CreateUser, SaveSchedule, vars
    <2> QED
      BY <1>1, <1>2, <2>1 DEF Activated, Listed
  <1> QED
    BY <1>3, <1>4

LEMMA PlacedStep == ASSUME Placed, [Next]_vars PROVE OwnNameIsActive'
  <1> USE DEF Placed, Inv
  <1>0. /\ flags \in [EnvKeys -> Playlists \cup {None}]
        /\ \A p \in Playlists : EnvKey[p] \in EnvKeys
    BY PlaylistAssumption DEF TypeInv, TypeOK
  <1>1. drawn \subseteq drawn'
    BY DEF Next, Requests, Works, Import, Refresh, Delete, Reassign, DeleteUser, MarkUploaded,
           Load, Save, SaveFails, Fetched, FetchFails, SetFlags, Uncache, ClearFlags, FlagsFail,
           CoversCached, CreateUser, SaveSchedule, vars
  <1>2. SUFFICES ASSUME NEW b \in Actors, Activated(b)' PROVE Kept(job[b].id)' /\ job'[b] = job[b]
    BY DEF OwnNameIsActive, Kept, Active, Shared
  <1> DEFINE p == job[b].id
  <1>3. ASSUME ~ (step[b] = "done" /\ job[b].op = "import") PROVE SetFlags(b)
    <2>1. step'[b] = "done" /\ job'[b].op = "import"
      BY <1>2 DEF Activated
    <2>2. ASSUME NEW a \in Actors, Requests(a) \/ \E q \in Playlists : MarkUploaded(a, q) PROVE FALSE
      <3>1. \E j, t : Begin(a, j, t) /\ t \in {"fetch", "update"}
        BY <2>2 DEF Requests, Import, Refresh, Delete, Reassign, DeleteUser, MarkUploaded
      <3> QED
        BY <1>3, <2>1, <3>1 DEF Begin, TypeInv, TypeOK
    <2>3. ASSUME NEW a \in Actors, Works(a) PROVE SetFlags(b)
      <3>1. UNCHANGED job /\ (a # b => step'[b] = step[b])
        BY <2>3 DEF Works, Load, Save, SaveFails, Fetched, FetchFails, SetFlags, Uncache, ClearFlags,
                    FlagsFail, Advance, TypeInv, TypeOK
      <3>2. a = b
        BY <1>3, <2>1, <3>1
      <3>3. job[b].op = "import" /\ step[b] # "done"
        BY <1>3, <2>1, <3>1
      <3>4. CASE Save(b)
        BY <2>1, <3>3, <3>4 DEF Save, Onward, Advance, TypeInv, TypeOK
      <3>5. CASE ClearFlags(b)
        BY <3>3, <3>5 DEF ClearFlags, TypeInv, AtWork
      <3> QED
        BY <2>1, <2>3, <3>2, <3>4, <3>5
           DEF Works, Load, SaveFails, Fetched, FetchFails, Uncache, FlagsFail, Advance, TypeInv, TypeOK
    <2>4. ASSUME \/ \E q \in Playlists : CoversCached(q)
                 \/ \E u \in Users : CreateUser(u)
                 \/ \E x \in EnvKeys : SaveSchedule(x)
                 \/ UNCHANGED vars
          PROVE  FALSE
      BY <1>3, <2>1, <2>4 DEF CoversCached, CreateUser, SaveSchedule, vars
    <2> QED
      BY <2>2, <2>3, <2>4, ActorAssumption DEF Next
  <1>4. CASE SetFlags(b)
    <2>1. p \in Playlists
      BY <1>4, JobFields DEF SetFlags, TypeInv, AtWork
    <2> QED
      BY <1>0, <1>4, <2>1 DEF SetFlags, Kept, Active
  <1>5. CASE step[b] = "done" /\ job[b].op = "import"
    <2>1. Activated(b) /\ job'[b] = job[b] /\ p \in Playlists /\ p \in drawn
      BY <1>2, <1>5, StillListed
    <2>2. Kept(p)
      BY <2>1 DEF OwnNameIsActive, Kept
    <2>3. ASSUME UNCHANGED flags, byHand \subseteq byHand' PROVE Kept(p)'
      BY <1>1, <2>1, <2>2, <2>3 DEF Kept, Active, Shared
    <2>4. ASSUME NEW q \in drawn, q # p, EnvKey[q] = EnvKey[p] PROVE Kept(p)'
      BY <1>1, <2>1, <2>4 DEF Kept, Shared
    <2>5. ASSUME NEW a \in Actors, SetFlags(a) \/ ClearFlags(a) PROVE Kept(p)'
      <3>1. job[a].id \in Playlists /\ job[a].id \in drawn
        BY <2>5, JobFields DEF SetFlags, ClearFlags, TypeInv, AtWork, Lifecycle, Imports, Removes
      <3>2. EnvKey[job[a].id] # EnvKey[p] => UNCHANGED <<flags[EnvKey[p]], EnvKey[p] \in byHand>>
        BY <1>0, <2>1, <2>5, <3>1 DEF SetFlags, ClearFlags
      <3>3. job[a].id # p
        <4>1. CASE SetFlags(a)
          <5>1. step[a] = "flag" /\ Imports(a) /\ Imports(b)
            BY <1>5, <4>1 DEF SetFlags, Imports, TypeInv, AtWork
          <5> QED
            BY <1>5, <5>1 DEF Lifecycle
        <4>2. CASE ClearFlags(a)
          BY <2>1, <4>2 DEF ClearFlags, Removes, Lifecycle, Activated
        <4> QED
          BY <2>5, <4>1, <4>2
      <3>4. CASE EnvKey[job[a].id] = EnvKey[p]
        BY <2>4, <3>1, <3>3, <3>4
      <3>5. CASE EnvKey[job[a].id] # EnvKey[p]
        BY <1>1, <2>1, <2>2, <3>2, <3>5 DEF Kept, Active, Shared
      <3> QED
        BY <3>4, <3>5
    <2>6. ASSUME NEW x \in EnvKeys, SaveSchedule(x) PROVE Kept(p)'
      BY <1>0, <1>1, <2>1, <2>2, <2>6 DEF SaveSchedule, Kept, Active, Shared
    <2>7. (\E a \in Actors : SetFlags(a) \/ ClearFlags(a)) \/ (\E x \in EnvKeys : SaveSchedule(x))
          \/ UNCHANGED <<flags, byHand>>
      BY DEF Next, Requests, Works, Import, Refresh, Delete, Reassign, DeleteUser, MarkUploaded,
             Load, Save, SaveFails, Fetched, FetchFails, Uncache, FlagsFail, CoversCached, CreateUser, vars
    <2> QED
      BY <2>1, <2>3, <2>5, <2>6, <2>7
  <1>6. SetFlags(b) => job' = job
    BY DEF SetFlags
  <1> QED
    BY <1>3, <1>4, <1>5, <1>6, StillListed, <1>2

\* An import leaves its playlist active while it is listed, unless its name has
\* the .env keys of another playlist's or a settings request changes them.
THEOREM ImportsStayActive == OneProcess /\ Spec => []OwnNameIsActive
  <1>1. Init => OwnNameIsActive
    BY DEF Init, OwnNameIsActive, Activated
  <1>2. Inv /\ OwnNameIsActive /\ [Next]_vars => OwnNameIsActive'
    BY PlacedStep DEF Placed
  <1>3. ASSUME OneProcess PROVE Spec => []OwnNameIsActive
    BY <1>1, <1>2, <1>3, Invariance, PTL DEF Spec
  <1> QED
    BY <1>3

\* Load, change and save, under the mutex of one process, are one edit of the
\* catalog, or of nothing when the file could not be read.
THEOREM UpdatesImplementCatalog == OneProcess /\ Spec => UpdatesAreWhole
  <1>1. Init => Catalog!Init
    BY TypeInit DEF TypeInv, TypeOK, Lists, Catalog!Init
  <1>2. ASSUME Inv, [Next]_vars PROVE [Catalog!Next]_list
    <2>1. ASSUME NEW a \in Actors, Save(a)
          PROVE  Catalog!Edit(list) \/ Catalog!Edit(Unread)
      <3> DEFINE j == job[a]
                 l == copy[a]
      <3>1. j \in Jobs /\ list' = Edited(j, l) /\ l \in {list, Unread}
        BY <1>2, <2>1 DEF Save, Inv, MutexInv, Exclusive, Read, TypeInv, TypeOK, AtWork
      <3>0. j.op = "import" => l[j.id] = None
        <4>1. j.op = "import" => ~Listed(j.id) /\ j.id \in Playlists
          BY <1>2, <2>1, <3>1, JobFields DEF Save, Inv, Lifecycle, Imports, Unsaved
        <4> QED
          BY <3>1, <4>1 DEF Listed, Unread
      <3> HIDE DEF j, l
      <3>2. CASE j.op = "import"
        <4>1. Catalog!Import(l, j.id, j.user)
          BY <3>0, <3>1, <3>2 DEF Edited, Catalog!Import
        <4> QED
          BY <3>1, <3>2, <4>1, JobFields DEF Catalog!Edit, Catalog!Owners, Owners
      <3>3. CASE j.op = "delete"
        BY <3>1, <3>3, JobFields DEF Edited, Catalog!Edit, Catalog!Remove
      <3>4. CASE j.op = "assign"
        <4>1. Catalog!Assign(l, j.id, j.user)
          BY <3>1, <3>4 DEF Edited, Catalog!Assign
        <4> QED
          BY <3>1, <3>4, <4>1, JobFields DEF Catalog!Edit, Catalog!Owners, Owners
      <3>5. CASE j.op = "refresh"
        BY <3>1, <3>5, JobFields DEF Edited, Catalog!Edit, Catalog!Fetch
      <3>6. CASE j.op = "mark"
        BY <3>1, <3>6, JobFields DEF Edited, Catalog!Edit, Catalog!Upload
      <3>7. CASE j.op = "deleteUser"
        BY <3>1, <3>7, JobFields
           DEF Edited, Catalog!Edit, Catalog!PassOn, Catalog!Owners, Owners
      <3> QED
        BY <3>1, <3>2, <3>3, <3>4, <3>5, <3>6, <3>7, JobFields
    <2>2. ASSUME ~ \E a \in Actors : Save(a) PROVE UNCHANGED list
      BY <1>2, <2>2
         DEF Next, Requests, Works, Import, Refresh, Delete, Reassign, DeleteUser, MarkUploaded,
             Load, SaveFails, Fetched, FetchFails, SetFlags, Uncache, ClearFlags, FlagsFail,
             CoversCached, CreateUser, SaveSchedule, vars
    <2>3. Catalog!Empty = Unread
      BY DEF Catalog!Empty, Unread
    <2> QED
      BY <2>1, <2>2, <2>3 DEF Catalog!Next
  <1>3. ASSUME OneProcess PROVE Spec => UpdatesAreWhole
    BY <1>1, <1>2, <1>3, Invariance, PTL DEF Spec, UpdatesAreWhole, Catalog!Spec
  <1> QED
    BY <1>3

=============================================================================
