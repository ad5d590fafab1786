--------------------------- MODULE DownloadProofs ---------------------------
(***************************************************************************)
(* What is proved of a download's two last stages. Moving it into the      *)
(* library: one process at a time erases nothing but what it could not     *)
(* look at, and loses no other song, whatever fails and whenever it dies   *)
(* (two processes erase more, see the run move_file_overlap). Monitoring   *)
(* it: for any tracks, sizes, siblings and durations a verdict is final,   *)
(* what is Present has landed, no sibling is forgotten, and the phase is   *)
(* over in a time that does not depend on the peers.                       *)
(***************************************************************************)
EXTENDS MoveFile, DownloadMonitor, FiniteSetTheorems, TLAPS

-----------------------------------------------------------------------------
(* PART 1: moves *)

OneProcess == \A m, n \in Moves : Proc[m] = Proc[n]

\* One move at a time is under way.
OneAtWork == \A m, n \in Moves : at[m] \in Working /\ at[n] \in Working => m = n

SourceWhole(m) == files[Source[m]] = File(m)
Landed(m) == files[Target[m]] = File(m)
Taken(m) == files[Target[m]].song \in unseen \ {m}
Safe(m) == SourceWhole(m) \/ Landed(m) \/ Taken(m)
Free(m) == m \in unseen \/ ~Exists(Target[m])

\* What a move may rely on in each of its stages.
Stages ==
    \A m \in Moves :
        /\ at[m] \in {"ready", "failed", "stat", "open", "moved"} => Safe(m)
        /\ at[m] \in {"open", "create"} => Free(m)
        /\ at[m] = "create" => SourceWhole(m)
        /\ at[m] = "copy" => SourceWhole(m) /\ files[Target[m]] = Torso(m)
        /\ at[m] \in {"sync", "chmod", "remove"} => SourceWhole(m) /\ Landed(m)
        /\ at[m] \in {"open", "create", "copy", "sync", "chmod", "remove"} => Source[m] # Target[m]
        /\ at[m] \in {"look", "rmdir"} => Landed(m)

\* A download's path holds that download or nothing.
SourcesAreOwn == \A m \in Moves : files[Source[m]] \in {Absent, File(m)}

MoveInv == MoveTypeOK /\ OneAtWork /\ Stages /\ SourcesAreOwn

LEMMA FilesDiffer ==
    ASSUME NEW m \in Moves, NEW n \in Moves
    PROVE  /\ File(m) # Absent /\ Torso(m) # Absent /\ File(m) # Torso(n)
           /\ m # n => File(m) # File(n)
           /\ File(m).whole /\ ~Absent.whole /\ ~Torso(m).whole
  <1>1. m # NoSong /\ m \in Songs
    BY SongAssumption
  <1> QED
    BY <1>1 DEF File, Torso, Absent

\* No move writes to or takes away another move's source.
LEMMA PathsDiffer ==
    ASSUME NEW m \in Moves, NEW n \in Moves, m # n
    PROVE  /\ Source[m] # Source[n] /\ Source[m] # Target[n]
           /\ Source[m] \in Paths /\ Target[m] \in Paths
  BY PathAssumption, MoveAssumption

-----------------------------------------------------------------------------
(* Type correctness *)

LEMMA MoveTypeStep == MoveTypeOK /\ [MoveNext]_moveVars => MoveTypeOK'
  <1> SUFFICES ASSUME MoveTypeOK, [MoveNext]_moveVars PROVE MoveTypeOK'
    OBVIOUS
  <1> USE DEF MoveTypeOK, Goto, Resting, Working
  <1>0. ASSUME NEW m \in Moves
        PROVE  /\ Source[m] \in Paths /\ Target[m] \in Paths
               /\ Dir[Source[m]] \in Dirs /\ Dir[Target[m]] \in Dirs
               /\ {Absent, File(m), Torso(m)} \subseteq [song : Songs \cup {NoSong}, whole : BOOLEAN]
    BY MoveAssumption, SongAssumption DEF Absent, File, Torso
  <1>1. CASE UNCHANGED moveVars
    BY <1>1 DEF moveVars
  <1>2. ASSUME NEW m \in Moves, Appears(m) PROVE MoveTypeOK'
    BY <1>0, <1>2 DEF Appears
  <1>3. ASSUME NEW m \in Moves, Start(m) PROVE MoveTypeOK'
    <2>1. tries[m] + 1 \in 0..Tries
      BY <1>3, TriesAssumption DEF Start
    <2>2. tries' \in [Moves -> 0..Tries]
      BY <1>3, <2>1 DEF Start
    <2> QED
      BY <1>3, <2>2 DEF Start
  <1>4. ASSUME NEW m \in Moves,
               \/ AlreadyThere(m) \/ Refuses(m) \/ Stat(m) \/ StatErrs(m) \/ CopyFails(m) \/ Sync(m)
               \/ Chmod(m) \/ LookIntoDir(m) \/ CallFails(m)
        PROVE  MoveTypeOK'
    BY <1>4 DEF AlreadyThere, Refuses, Fails, Stat, StatErrs, CopyFails, Sync, Chmod, LookIntoDir, CallFails
  <1>5. ASSUME NEW m \in Moves, OpenSource(m) \/ RemoveDir(m) PROVE MoveTypeOK'
    BY <1>0, <1>5 DEF OpenSource, RemoveDir
  <1>6. ASSUME NEW m \in Moves, Create(m) \/ Remove(m) PROVE MoveTypeOK'
    <2>1. CASE Create(m)
      BY <1>0, <2>1 DEF Create
    <2>2. CASE Remove(m)
      BY <1>0, <2>2 DEF Remove
    <2> QED
      BY <1>6, <2>1, <2>2
  <1>7. ASSUME NEW m \in Moves, Copy(m) PROVE MoveTypeOK'
    <2>1. files[Target[m]].song \in Songs \cup {NoSong}
      BY <1>0
    <2>2. Torso(files[Target[m]].song) \in [song : Songs \cup {NoSong}, whole : BOOLEAN]
      BY <2>1 DEF Torso
    <2>3. files' \in [Paths -> [song : Songs \cup {NoSong}, whole : BOOLEAN]]
      BY <1>0, <1>7, <2>2 DEF Copy
    <2> QED
      BY <1>7, <2>3 DEF Copy
  <1>8. ASSUME NEW p \in Processes, Crash(p) \/ Restart(p) PROVE MoveTypeOK'
    BY <1>8 DEF Crash, Restart
  <1> QED
    BY <1>1, <1>2, <1>3, <1>4, <1>5, <1>6, <1>7, <1>8 DEF MoveNext, MoveStep

\* The file system and the moves keep their types.
THEOREM MoveTypeCorrect == MoveSpec => []MoveTypeOK
  <1>1. MoveInit => MoveTypeOK
    BY MoveAssumption, SongAssumption, TriesAssumption DEF MoveInit, MoveTypeOK, Absent, File, Resting
  <1> QED
    BY <1>1, MoveTypeStep, PTL DEF MoveSpec

-----------------------------------------------------------------------------
(* The stages of a move *)

LEMMA InitStages == MoveInit => OneAtWork /\ Stages /\ SourcesAreOwn
  <1> SUFFICES ASSUME MoveInit PROVE OneAtWork /\ Stages /\ SourcesAreOwn
    OBVIOUS
  <1>1. \A m \in Moves : files[Source[m]] = Absent
    BY MoveAssumption, PathAssumption DEF MoveInit
  <1> QED
    BY <1>1 DEF MoveInit, OneAtWork, Stages, SourcesAreOwn, Working

\* Steps that leave the files alone and take one move to a stage it has earned.
LEMMA StageStep ==
    ASSUME OneProcess, MoveInv, [MoveNext]_moveVars
    PROVE  OneAtWork' /\ Stages' /\ SourcesAreOwn'
  <1> USE DEF MoveInv, MoveTypeOK, Goto
  <1>1. CASE UNCHANGED moveVars
    BY <1>1 DEF moveVars, OneAtWork, Stages, SourcesAreOwn, SourceWhole, Landed, Safe, Taken, Free, Exists
  <1>2. ASSUME NEW m \in Moves, Appears(m) PROVE OneAtWork' /\ Stages' /\ SourcesAreOwn'
    <2>1. files' = [files EXCEPT ![Source[m]] = File(m)] /\ files[Source[m]] = Absent
      BY <1>2 DEF Appears, Exists
    <2>2. \A n \in Moves \ {m} : files'[Source[n]] = files[Source[n]] /\ files'[Target[n]] = files[Target[n]]
      BY <2>1, PathsDiffer
    <2>3. files'[Source[m]] = File(m)
      BY <2>1, MoveAssumption
    <2>4. OneAtWork'
      BY <1>2 DEF Appears, OneAtWork, Working
    <2>5. Stages'
      BY <1>2, <2>2, <2>3 DEF Appears, Stages, SourceWhole, Landed, Safe, Taken, Free, Exists
    <2>6. SourcesAreOwn'
      BY <2>2, <2>3 DEF SourcesAreOwn
    <2> QED
      BY <2>4, <2>5, <2>6
  <1>3. ASSUME NEW m \in Moves, Start(m) PROVE OneAtWork' /\ Stages' /\ SourcesAreOwn'
    <2>1. \A n \in Moves : at[n] \notin Working
      BY <1>3 DEF Start, Idle, OneProcess, Resting, Working
    <2>2. OneAtWork'
      BY <1>3, <2>1 DEF Start, OneAtWork
    <2>3. Stages' /\ SourcesAreOwn'
      BY <1>3 DEF Start, Stages, SourcesAreOwn, SourceWhole, Landed, Safe, Taken, Free, Exists
    <2> QED
      BY <2>2, <2>3
  <1>4. ASSUME NEW m \in Moves, AlreadyThere(m) PROVE OneAtWork' /\ Stages' /\ SourcesAreOwn'
    <2>1. Landed(m)
      <3>1. at[m] = "stat" /\ Source[m] = Target[m] /\ NoSong \notin unseen
        BY <1>4, SongAssumption DEF AlreadyThere
      <3>2. ~ Taken(m)
        <4>1. files[Target[m]].song \in {m, NoSong}
          <5>1. files[Target[m]] \in {Absent, File(m)}
            BY <3>1 DEF SourcesAreOwn
          <5>2. Absent.song = NoSong /\ File(m).song = m
            BY DEF Absent, File
          <5> QED
            BY <5>1, <5>2
        <4> QED
          BY <3>1, <4>1 DEF Taken
      <3> QED
        BY <3>1, <3>2 DEF Stages, Safe, SourceWhole, Landed
    <2> QED
      BY <1>4, <2>1 DEF AlreadyThere, OneAtWork, Stages, SourcesAreOwn, SourceWhole, Landed, Safe, Taken, Free, Exists, Working
  <1>5. ASSUME NEW m \in Moves, Refuses(m) \/ CopyFails(m) \/ CallFails(m)
        PROVE  OneAtWork' /\ Stages' /\ SourcesAreOwn'
    BY <1>5 DEF Refuses, CopyFails, CallFails, Fails, OneAtWork, Stages, SourcesAreOwn, SourceWhole, Landed,
                Safe, Taken, Free, Exists, Working
  <1>6. ASSUME NEW m \in Moves, Stat(m) PROVE OneAtWork' /\ Stages' /\ SourcesAreOwn'
    BY <1>6 DEF Stat, OneAtWork, Stages, SourcesAreOwn, SourceWhole, Landed, Safe, Taken, Free, Exists, Working
  <1>15. ASSUME NEW m \in Moves, StatErrs(m) PROVE OneAtWork' /\ Stages' /\ SourcesAreOwn'
    BY <1>15 DEF StatErrs, OneAtWork, Stages, SourcesAreOwn, SourceWhole, Landed, Safe, Taken, Free, Exists, Working
  <1>7. ASSUME NEW m \in Moves, OpenSource(m) PROVE OneAtWork' /\ Stages' /\ SourcesAreOwn'
    <2>1. SourceWhole(m)
      BY <1>7 DEF OpenSource, Exists, SourcesAreOwn, SourceWhole
    <2> QED
      BY <1>7, <2>1 DEF OpenSource, OneAtWork, Stages, SourcesAreOwn, SourceWhole, Landed, Safe, Taken, Free, Exists, Working
  <1>8. ASSUME NEW m \in Moves, Create(m) PROVE OneAtWork' /\ Stages' /\ SourcesAreOwn'
    <2>1. /\ at[m] = "create" /\ SourceWhole(m) /\ Source[m] # Target[m]
          /\ m \in unseen \/ files[Target[m]] = Absent
      BY <1>8 DEF Create, Stages, Free, Exists
    <2>2. \A n \in Moves : files'[Source[n]] = files[Source[n]]
      BY <1>8, <2>1, PathsDiffer DEF Create
    <2>4. files'[Target[m]] = Torso(m) /\ unseen' = unseen
      BY <1>8, MoveAssumption DEF Create
    <2>3. \A n \in Moves \ {m} : Landed(n) \/ Taken(n) => Landed(n)' \/ Taken(n)'
      <3> SUFFICES ASSUME NEW n \in Moves \ {m}, Landed(n) \/ Taken(n) PROVE Landed(n)' \/ Taken(n)'
        OBVIOUS
      <3>1. CASE Target[n] # Target[m]
        BY <1>8, <2>4, <3>1, MoveAssumption DEF Create, Landed, Taken
      <3>2. CASE Target[n] = Target[m]
        <4>1. files[Target[m]] # Absent
          BY <3>2, FilesDiffer, SongAssumption DEF Landed, Taken, Absent
        <4> QED
          BY <2>1, <2>4, <3>2, <4>1 DEF Taken, Torso
      <3> QED
        BY <3>1, <3>2
    <2>5. \A n \in Moves \ {m} : at'[n] = at[n] /\ at[n] \notin Working
      BY <1>8, <2>1 DEF Create, OneAtWork, Working
    <2>6. OneAtWork'
      BY <1>8, <2>1, <2>5 DEF Create, OneAtWork, Working
    <2>7. Stages'
      <3>1. \A n \in Moves \ {m} : (SourceWhole(n) => SourceWhole(n)') /\ (Safe(n) => Safe(n)')
        BY <2>2, <2>3 DEF SourceWhole, Safe
      <3>2. SourceWhole(m)'
        BY <2>1, <2>2 DEF SourceWhole
      <3> QED
        BY <1>8, <2>1, <2>4, <2>5, <3>1, <3>2 DEF Create, Stages, Working
    <2>8. SourcesAreOwn'
      BY <2>2 DEF SourcesAreOwn
    <2> QED
      BY <2>6, <2>7, <2>8
  <1>9. ASSUME NEW m \in Moves, Copy(m) PROVE OneAtWork' /\ Stages' /\ SourcesAreOwn'
    <2>1. at[m] = "copy" /\ SourceWhole(m) /\ files[Target[m]] = Torso(m) /\ Source[m] # Target[m]
      BY <1>9 DEF Copy, Stages
    <2>2. \A n \in Moves : files'[Source[n]] = files[Source[n]]
      BY <1>9, <2>1, PathsDiffer DEF Copy
    <2>3. \A n \in Moves \ {m} : Landed(n) \/ Taken(n) => Landed(n)' \/ Taken(n)'
      <3> SUFFICES ASSUME NEW n \in Moves \ {m}, Landed(n) \/ Taken(n) PROVE Landed(n)' \/ Taken(n)'
        OBVIOUS
      <3>1. CASE Target[n] # Target[m]
        BY <1>9, <3>1, MoveAssumption DEF Copy, Landed, Taken
      <3>2. CASE Target[n] = Target[m]
        BY <1>9, <2>1, <3>2, FilesDiffer, MoveAssumption DEF Copy, Landed, Taken, Torso, File
      <3> QED
        BY <3>1, <3>2
    <2>4. files'[Target[m]] = File(m)
      BY <1>9, <2>1, MoveAssumption DEF Copy
    <2>5. \A n \in Moves \ {m} : at'[n] = at[n] /\ at[n] \notin Working
      BY <1>9, <2>1 DEF Copy, OneAtWork, Working
    <2>6. OneAtWork'
      BY <1>9, <2>1, <2>5 DEF Copy, OneAtWork, Working
    <2>7. Stages'
      <3>1. \A n \in Moves \ {m} : (SourceWhole(n) => SourceWhole(n)') /\ (Safe(n) => Safe(n)')
        BY <2>2, <2>3 DEF SourceWhole, Safe
      <3>2. SourceWhole(m)' /\ Landed(m)'
        BY <2>1, <2>2, <2>4 DEF SourceWhole, Landed
      <3> QED
        BY <1>9, <2>1, <2>5, <3>1, <3>2 DEF Copy, Stages, Working
    <2>8. SourcesAreOwn'
      BY <2>2 DEF SourcesAreOwn
    <2> QED
      BY <2>6, <2>7, <2>8
  <1>10. ASSUME NEW m \in Moves, Sync(m) \/ Chmod(m) PROVE OneAtWork' /\ Stages' /\ SourcesAreOwn'
    BY <1>10 DEF Sync, Chmod, OneAtWork, Stages, SourcesAreOwn, SourceWhole, Landed, Safe, Taken, Free, Exists, Working
  <1>11. ASSUME NEW m \in Moves, Remove(m) PROVE OneAtWork' /\ Stages' /\ SourcesAreOwn'
    <2>1. at[m] = "remove" /\ Landed(m) /\ Source[m] # Target[m]
      BY <1>11 DEF Remove, Stages
    <2>2. \A n \in Moves \ {m} : files'[Source[n]] = files[Source[n]] /\ files'[Target[n]] = files[Target[n]]
      BY <1>11, PathsDiffer DEF Remove
    <2>3. files'[Source[m]] = Absent /\ files'[Target[m]] = files[Target[m]]
      BY <1>11, <2>1, MoveAssumption DEF Remove
    <2>4. OneAtWork'
      BY <1>11, <2>1 DEF Remove, OneAtWork, Working
    <2>5. Stages'
      BY <1>11, <2>1, <2>2, <2>3 DEF Remove, Stages, SourceWhole, Landed, Safe, Taken, Free, Exists
    <2>6. SourcesAreOwn'
      BY <2>2, <2>3 DEF SourcesAreOwn
    <2> QED
      BY <2>4, <2>5, <2>6
  <1>12. ASSUME NEW m \in Moves, LookIntoDir(m) \/ RemoveDir(m) PROVE OneAtWork' /\ Stages' /\ SourcesAreOwn'
    BY <1>12 DEF LookIntoDir, RemoveDir, OneAtWork, Stages, SourcesAreOwn, SourceWhole, Landed, Safe, Taken, Free, Exists, Working
  <1>13. ASSUME NEW p \in Processes, Crash(p) PROVE OneAtWork' /\ Stages' /\ SourcesAreOwn'
    BY <1>13 DEF Crash, OneAtWork, Stages, SourcesAreOwn, SourceWhole, Landed, Safe, Taken, Free, Exists
  <1>14. ASSUME NEW p \in Processes, Restart(p) PROVE OneAtWork' /\ Stages' /\ SourcesAreOwn'
    <2>1. \A m \in Moves : at'[m] = at[m] \/ (at[m] \in Working /\ at'[m] = "failed")
      BY <1>14 DEF Restart
    <2>2. \A m \in Moves : at[m] \in Working => Safe(m)
      BY DEF Stages, Safe, Working
    <2>3. OneAtWork'
      BY <2>1 DEF OneAtWork, Working
    <2>4. Stages' /\ SourcesAreOwn'
      BY <1>14, <2>1, <2>2 DEF Restart, Stages, SourcesAreOwn, SourceWhole, Landed, Safe, Taken, Free, Exists
    <2> QED
      BY <2>3, <2>4
  <1> QED
    BY <1>1, <1>2, <1>3, <1>4, <1>5, <1>6, <1>7, <1>8, <1>9, <1>10, <1>11, <1>12, <1>13, <1>14, <1>15
       DEF MoveNext, MoveStep

LEMMA MoveInvariant == ASSUME OneProcess PROVE MoveSpec => []MoveInv
  <1>1. MoveInit => MoveInv
    BY InitStages, MoveAssumption, SongAssumption, TriesAssumption DEF MoveInv, MoveInit, MoveTypeOK, Absent, File, Resting
  <1>2. MoveInv /\ [MoveNext]_moveVars => MoveInv'
    BY MoveTypeStep, StageStep DEF MoveInv
  <1> QED
    BY <1>1, <1>2, PTL DEF MoveSpec

-----------------------------------------------------------------------------

\* Whatever fails and whenever the process dies, no song is lost but one whose
\* place a move took that could not look at it.
THEOREM NothingIsLost == ASSUME OneProcess PROVE MoveSpec => []NeverLost
  <1>1. MoveInv => NeverLost
    BY DEF MoveInv, MoveTypeOK, Stages, NeverLost, SourceWhole, Landed, Taken, Safe, Resting, Working
  <1> QED
    BY <1>1, MoveInvariant, PTL

\* A move that reports success has delivered.
THEOREM SuccessMeansThere == ASSUME OneProcess PROVE MoveSpec => MovedMeansThere
  <1>1. ASSUME MoveInv, [MoveNext]_moveVars
        PROVE  [\A m \in Moves : at[m] # "moved" /\ at'[m] = "moved" => files'[Target[m]] = File(m)]_moveVars
    <2> USE DEF MoveInv, MoveTypeOK, Goto
    <2> SUFFICES ASSUME MoveNext, NEW m \in Moves, at[m] # "moved", at'[m] = "moved"
                 PROVE  files'[Target[m]] = File(m)
      BY <1>1
    <2>1. RemoveDir(m)
      <3>1. ASSUME NEW n \in Moves, Appears(n) \/ MoveStep(n) PROVE RemoveDir(m)
        <4>1. ASSUME NEW where, at' = [at EXCEPT ![n] = where] PROVE m = n /\ where = "moved"
          BY <4>1
        <4>2. RemoveDir(n)
          BY <3>1, <4>1, Zenon DEF Appears, MoveStep, Start, AlreadyThere, Refuses, Stat, StatErrs, OpenSource, Create, Copy,
                            CopyFails, Sync, Chmod, Remove, LookIntoDir, CallFails, Fails
        <4>3. m = n
          BY <4>2 DEF RemoveDir
        <4> QED
          BY <4>2, <4>3
      <3>2. ASSUME NEW p \in Processes, Crash(p) \/ Restart(p) PROVE FALSE
        BY <3>2 DEF Crash, Restart
      <3> QED
        BY <3>1, <3>2 DEF MoveNext
    <2> QED
      BY <1>1, <2>1 DEF RemoveDir, Stages, Landed
  <1> QED
    BY <1>1, MoveInvariant, PTL DEF MoveSpec, MovedMeansThere

\* No whole file is overwritten by a move that could look at it, and none is
\* removed unless its copy is in the library.
THEOREM LibraryIsSafe == ASSUME OneProcess PROVE MoveSpec => OnlyUnseenErased
  <1> DEFINE Kept == \A p \in Paths : files[p].whole /\ files'[p] # files[p] =>
                        Delivered(p) \/ \E m \in unseen : p = Target[m] /\ files'[p] = Torso(m)
  <1>1. ASSUME MoveInv, [MoveNext]_moveVars PROVE [Kept]_moveVars
    <2> USE DEF MoveInv, MoveTypeOK
    <2>0. ASSUME NEW q \in Paths, NEW f, files' = [files EXCEPT ![q] = f], ~files[q].whole PROVE Kept
      BY <2>0
    <2>1. ASSUME NEW m \in Moves, Appears(m) PROVE Kept
      <3>1. ~files[Source[m]].whole
        BY <2>1 DEF Appears, Exists, Absent
      <3> QED
        BY <2>0, <2>1, <3>1, MoveAssumption DEF Appears
    <2>2. ASSUME NEW m \in Moves, Create(m) PROVE Kept
      <3>1. Target[m] \in Paths /\ files' = [files EXCEPT ![Target[m]] = Torso(m)]
        BY <2>2, MoveAssumption DEF Create
      <3>2. CASE m \in unseen
        BY <3>1, <3>2
      <3>3. CASE files[Target[m]] = Absent
        BY <2>0, <3>1, <3>3 DEF Absent
      <3> QED
        BY <1>1, <2>2, <3>2, <3>3 DEF Create, Stages, Free, Exists
    <2>3. ASSUME NEW m \in Moves, Copy(m) PROVE Kept
      <3>1. files[Target[m]] = Torso(m)
        BY <1>1, <2>3 DEF Copy, Stages
      <3>2. ~files[Target[m]].whole /\ Target[m] \in Paths
        BY <3>1, MoveAssumption DEF Torso
      <3> QED
        BY <2>0, <2>3, <3>2 DEF Copy
    <2>4. ASSUME NEW m \in Moves, Remove(m) PROVE Kept
      <3>1. SourceWhole(m) /\ Landed(m) /\ Source[m] # Target[m]
        BY <1>1, <2>4 DEF Remove, Stages
      <3>2. files'[Target[m]] = File(m)
        BY <2>4, <3>1, MoveAssumption DEF Remove, Landed
      <3> QED
        BY <2>4, <3>1, <3>2 DEF Remove, SourceWhole, Delivered
    <2>5. ASSUME files' = files PROVE Kept
      BY <2>5
    <2> QED
      BY <1>1, <2>1, <2>2, <2>3, <2>4, <2>5
         DEF MoveNext, MoveStep, moveVars, Start, AlreadyThere, Refuses, Stat, StatErrs, OpenSource, CopyFails, Sync, Chmod,
             LookIntoDir, RemoveDir, CallFails, Fails, Crash, Restart
  <1> QED
    BY <1>1, MoveInvariant, PTL DEF MoveSpec, OnlyUnseenErased

-----------------------------------------------------------------------------
(* PART 2: the monitor *)

\* The phase is over when an outcome is set, and while the tracks and releases
\* are walked the last poll has succeeded.
ControlInv ==
    /\ pc = "returned" <=> outcome # "running"
    /\ outcome = "running" => pollFailures < maxPollFailures
    /\ pc \in {"tracks", "albums", "exit"} => pollFailures = 0

\* A track is watched or has arrived, and one that was absent twice is skipped.
VerdictInv ==
    \A t \in Tracks : /\ present[t] => tracker[t] = None
                      /\ tracker[t] # None => hasID[t]
                      /\ tracker[t] # None /\ ~ tracker[t].skipped => tracker[t].counter <= 1

SiblingInv == SiblingsSettled /\ \A t \in Tracks : \A s \in albumFiles[t] : Owner[s] = t

\* The polls that have failed since the deadline last let the monitor go on.
Late == IF pc = "tick" THEN pollFailures ELSE maxPollFailures

FallbackInv == FallbackAfter > 0 /\ outcome = "running" => phaseAge <= FallbackAfter + Late

\* What the loop has yet to look at with the snapshot it has.
Ahead(t) == pc = "tick" \/ (pc = "tracks" /\ t >= cursor)
AlbumAhead(t) == pc \in {"tick", "tracks"} \/ (pc = "albums" /\ t >= cursor)

Undecided(t) == tracker[t] # None /\ ~ tracker[t].skipped

\* What age a phase has at most when a track of that age, absent c times in a row,
\* or a release of that age is still waited for.
TrackDue(max, age, c, late) == IF age <= max THEN age + 3 ELSE max + 3 + late + 3 * c
AlbumDue(max, age, late) == IF age <= max THEN age + max + 9 ELSE 2 * max + 9 + late

\* A track is seen in the first round of polls; it is on time until its age has
\* passed MaxDuration, and then outlives one more round only by being absent.
TrackTime(t) ==
    /\ hasID[t] /\ ~ present[t] /\ tracker[t] = None => Ahead(t) /\ phaseAge <= Late
    /\ Undecided(t) =>
         /\ phaseAge <= TrackDue(MaxDuration, tracker[t].age, tracker[t].counter, Late)
         /\ tracker[t].age > MaxDuration /\ ~ Ahead(t) =>
                tracker[t].counter = 1 /\ phaseAge <= MaxDuration + 6

\* A release is recorded when its track arrives, and let go of by the first round
\* after its age has passed MaxDuration.
AlbumTime(t) ==
    pendingAlbums[t] # None =>
        /\ phaseAge <= AlbumDue(MaxDuration, pendingAlbums[t].age, Late)
        /\ pendingAlbums[t].age > MaxDuration => AlbumAhead(t)

TimeInv ==
    MaxDuration > 0 /\ outcome = "running" =>
        /\ \A t \in Tracks : TrackTime(t) /\ AlbumTime(t)
        /\ phaseAge <= 2 * MaxDuration + 9 + Late

MonitorInv ==
    /\ TypeOK /\ ControlInv /\ VerdictInv /\ PresentMeansLanded /\ SiblingInv
    /\ FallbackInv /\ TimeInv

-----------------------------------------------------------------------------
(* Types *)

Trackers == [last : Nat, counter : 0..2, idle : Ages, age : Ages, skipped : BOOLEAN]
Albums == [remaining : 1..Cardinality(Siblings), age : Ages, idle : Ages]

LEMMA Durations ==
    ASSUME TypeOK
    PROVE  /\ StallDuration \in Nat /\ MaxDuration \in Nat /\ FallbackAfter \in Nat
           /\ AgeCap \in Nat /\ AgeCap > MaxDuration /\ AgeCap > StallDuration
           /\ PhaseCap \in Nat
  BY MonitorAssumption DEF TypeOK, StallDuration, MaxDuration, FallbackAfter, AgeCap, PhaseCap, maxPollFailures

LEMMA Records ==
    ASSUME TypeOK
    PROVE  /\ None \notin Trackers /\ None \notin Albums
           /\ \A t \in Tracks : Tracker(t) \in Trackers
           /\ \A t \in Tracks : tracker[t] \in Trackers \cup {None} /\ pendingAlbums[t] \in Albums \cup {None}
  <1>1. Ages \subseteq Nat /\ 0 \in Ages
    BY Durations DEF Ages
  <1>2. None \notin Trackers
    <2> SUFFICES ASSUME NEW r \in Trackers
                 PROVE  r \in [last : Nat, counter : Nat, idle : Nat, age : Nat, skipped : BOOLEAN]
      BY MonitorAssumption
    <2>1. r = [last |-> r.last, counter |-> r.counter, idle |-> r.idle, age |-> r.age, skipped |-> r.skipped]
      BY DEF Trackers
    <2>2. r.last \in Nat /\ r.counter \in Nat
      BY DEF Trackers
    <2>3. r.idle \in Nat /\ r.age \in Nat
      BY <1>1 DEF Trackers
    <2>4. r.skipped \in BOOLEAN
      BY DEF Trackers
    <2> QED
      BY <2>1, <2>2, <2>3, <2>4
  <1>3. Cardinality(Siblings) \in Nat
    BY MonitorAssumption, FS_CardinalityType
  <1>4. None \notin Albums
    <2> SUFFICES ASSUME NEW a \in Albums
                 PROVE  a \in [remaining : Nat, age : Nat, idle : Nat]
      BY MonitorAssumption
    <2>1. a = [remaining |-> a.remaining, age |-> a.age, idle |-> a.idle]
      BY DEF Albums
    <2>2. a.remaining \in 1..Cardinality(Siblings) /\ a.age \in Ages /\ a.idle \in Ages
      BY DEF Albums
    <2>3. 1..Cardinality(Siblings) \subseteq Nat
      BY <1>3
    <2>4. a.remaining \in Nat /\ a.age \in Nat /\ a.idle \in Nat
      BY <1>1, <2>2, <2>3, Zenon
    <2> QED
      BY <2>1, <2>4
  <1>5. NewTracker \in Trackers
    BY <1>1 DEF NewTracker, Trackers
  <1>6. \A t \in Tracks : tracker[t] \in Trackers \cup {None} /\ pendingAlbums[t] \in Albums \cup {None}
    BY DEF TypeOK, Trackers, Albums
  <1> QED
    BY <1>2, <1>4, <1>5, <1>6 DEF Tracker

\* What is left of a release is counted by the siblings there are.
LEMMA Counted ==
    ASSUME NEW S \in SUBSET Siblings
    PROVE  /\ Cardinality(S) \in Nat
           /\ S # {} => Cardinality(S) \in 1..Cardinality(Siblings)
           /\ S = {} => Cardinality(S) = 0
  <1>1. IsFiniteSet(Siblings) /\ IsFiniteSet(S)
    BY MonitorAssumption, FS_Subset
  <1>2. Cardinality(S) \in Nat /\ Cardinality(Siblings) \in Nat /\ Cardinality(S) <= Cardinality(Siblings)
    BY <1>1, FS_CardinalityType, FS_Subset
  <1>3. Cardinality(S) = 0 <=> S = {}
    BY <1>1, FS_EmptySet
  <1> QED
    BY <1>2, <1>3

-----------------------------------------------------------------------------
(* What one look at a track may come to *)

\* A record that took the place of t's, whatever it says.
Noted(t, r) == r \in Trackers /\ tracker' = [tracker EXCEPT ![t] = r]

Passed(t) == ~ Watched(t) /\ UNCHANGED <<tracker, pendingAlbums, present, albumFiles, library>>
Waits(t) ==
    /\ Watched(t)
    /\ \E r : /\ Noted(t, r) /\ ~ r.skipped /\ r.age = Tracker(t).age
              /\ \/ r.counter = 1 /\ Tracker(t).counter = 0
                 \/ r.counter = 0 /\ ~ Expired(t)
    /\ UNCHANGED <<pendingAlbums, present, albumFiles, library>>
Drops(t) ==
    /\ Watched(t)
    /\ \E r : Noted(t, r) /\ r.skipped
    /\ library' \in {library, library \cup {t}}
    /\ UNCHANGED <<pendingAlbums, present, albumFiles>>
Lands(t) ==
    /\ Watched(t)
    /\ \E moved, there \in SUBSET albumFiles[t] : Arrives(t, moved, there)

LEMMA Settled ==
    \A r \in Trackers, c \in 0..2, b \in BOOLEAN :
        LET e == [r EXCEPT !.counter = c, !.skipped = b]
        IN  e \in Trackers /\ e.age = r.age /\ e.counter = c /\ e.skipped = b
  <1> TAKE r \in Trackers, c \in 0..2, b \in BOOLEAN
  <1> DEFINE e == [r EXCEPT !.counter = c, !.skipped = b]
  <1>1. e = [last |-> r.last, counter |-> c, idle |-> r.idle, age |-> r.age, skipped |-> b]
    <2> DEFINE m == [r EXCEPT !.counter = c]
    <2>1. m = [last |-> r.last, counter |-> c, idle |-> r.idle, age |-> r.age, skipped |-> r.skipped]
      BY DEF Trackers
    <2>2. e = [m EXCEPT !.skipped = b]
      OBVIOUS
    <2> HIDE DEF m, e
    <2> QED
      BY <2>1, <2>2
  <1>2. r.last \in Nat /\ r.idle \in Ages /\ r.age \in Ages
    BY DEF Trackers
  <1> HIDE DEF e
  <1>3. e.age = r.age /\ e.counter = c /\ e.skipped = b
    BY <1>1
  <1>4. e \in Trackers
    BY <1>1, <1>2 DEF Trackers
  <1> QED
    BY <1>3, <1>4 DEF e

LEMMA Refreshed ==
    ASSUME TypeOK
    PROVE  \A r \in Trackers, n \in Nat :
               LET e == [r EXCEPT !.counter = 0, !.last = n, !.idle = 0]
               IN  e \in Trackers /\ e.age = r.age /\ e.counter = 0 /\ e.skipped = r.skipped
  <1>1. 0 \in 0..2 /\ 0 \in Ages
    BY Durations DEF Ages
  <1>2. \A c \in 0..2, i \in Ages, r \in Trackers, n \in Nat :
            LET e == [r EXCEPT !.counter = c, !.last = n, !.idle = i]
            IN  e \in Trackers /\ e.age = r.age /\ e.counter = c /\ e.skipped = r.skipped
    <2> TAKE c \in 0..2, i \in Ages, r \in Trackers, n \in Nat
    <2> DEFINE e == [r EXCEPT !.counter = c, !.last = n, !.idle = i]
    <2>1. r.age \in Ages /\ r.skipped \in BOOLEAN
      BY DEF Trackers
    <2>2. e = [last |-> n, counter |-> c, idle |-> i, age |-> r.age, skipped |-> r.skipped]
      <3> DEFINE m == [r EXCEPT !.counter = c]
                 k == [m EXCEPT !.last = n]
      <3>1. m = [last |-> r.last, counter |-> c, idle |-> r.idle, age |-> r.age, skipped |-> r.skipped]
        BY DEF Trackers
      <3>2. e = [k EXCEPT !.idle = i]
        OBVIOUS
      <3> HIDE DEF m, e
      <3>3. k = [last |-> n, counter |-> c, idle |-> r.idle, age |-> r.age, skipped |-> r.skipped]
        BY <3>1
      <3> HIDE DEF k
      <3> QED BY <3>2, <3>3
    <2> HIDE DEF e
    <2>3. e.age = r.age /\ e.counter = c /\ e.skipped = r.skipped
      BY <2>2
    <2>4. e \in Trackers
      BY <2>1, <2>2 DEF Trackers
    <2> QED BY <2>3, <2>4 DEF e
  <1> QED
    BY <1>1, <1>2, Zenon

LEMMA Missed ==
    \A r \in Trackers :
        LET e == [r EXCEPT !.counter = @ + 1, !.skipped = r.counter + 1 >= 2]
        IN  r.counter <= 1 => /\ e \in Trackers /\ e.age = r.age
                              /\ e.skipped = TRUE \/ (e.skipped = FALSE /\ e.counter = 1 /\ r.counter = 0)
  <1> SUFFICES ASSUME NEW r \in Trackers, r.counter <= 1
               PROVE  LET e == [r EXCEPT !.counter = @ + 1, !.skipped = r.counter + 1 >= 2]
                      IN  /\ e \in Trackers /\ e.age = r.age
                          /\ e.skipped = TRUE \/ (e.skipped = FALSE /\ e.counter = 1 /\ r.counter = 0)
    BY Zenon
  <1> DEFINE e == [r EXCEPT !.counter = @ + 1, !.skipped = r.counter + 1 >= 2]
  <1>1. r.counter + 1 \in 0..2 /\ (r.counter + 1 >= 2) \in BOOLEAN
    BY DEF Trackers
  <1>2. e \in Trackers
    BY <1>1 DEF Trackers
  <1>3. e.age = r.age
    BY DEF Trackers
  <1>4. e.skipped = (r.counter + 1 >= 2)
    BY DEF Trackers
  <1>5. r.counter + 1 >= 2 \/ (e.counter = 1 /\ r.counter = 0)
    BY DEF Trackers
  <1>6. e.skipped = TRUE \/ (e.skipped = FALSE /\ e.counter = 1 /\ r.counter = 0)
    <2>1. CASE r.counter + 1 >= 2
      BY <1>4, <2>1, Zenon
    <2>2. CASE ~ (r.counter + 1 >= 2)
      BY <1>1, <1>4, <1>5, <2>2, Zenon
    <2> QED
      BY <2>1, <2>2, Zenon
  <1> QED
    BY <1>2, <1>3, <1>6, Zenon

LEMMA Looks ==
    ASSUME TypeOK, VerdictInv, NEW t \in Tracks, Visit(t)
    PROVE  /\ At(t) /\ Advance /\ UNCHANGED <<hasID, bytes, sibling>>
           /\ xfer' = xfer \/ Cleanup(t)
           /\ Passed(t) \/ Waits(t) \/ Drops(t) \/ Lands(t)
  <1> DEFINE r == Tracker(t)
  <1>0. r \in Trackers /\ (Watched(t) => r.counter <= 1 /\ ~ r.skipped)
    BY Records DEF Watched, Skipped, Tracker, VerdictInv, NewTracker
  <1>1. CASE PassOver(t)
    BY <1>1 DEF PassOver, provider, results, Passed, Watched
  <1>2. CASE NotInQueue(t)
    <2> DEFINE s == [r EXCEPT !.counter = @ + 1, !.skipped = r.counter + 1 >= 2]
    <2>1. tracker' = [tracker EXCEPT ![t] = s] /\ Watched(t)
      BY <1>2 DEF NotInQueue
    <2>2. s \in Trackers /\ s.age = r.age /\ (s.skipped = TRUE \/ (s.skipped = FALSE /\ s.counter = 1 /\ r.counter = 0))
      BY <1>0, <2>1, Missed, Zenon
    <2> HIDE DEF s
    <2> QED
      BY <1>2, <2>1, <2>2 DEF NotInQueue, provider, Waits, Drops, Noted, Watched
  <1>3. CASE MoveFails(t) \/ GivenUp(t)
    <2> DEFINE s == [r EXCEPT !.counter = 0, !.skipped = TRUE]
    <2>0. 0 \in 0..2 /\ TRUE \in BOOLEAN
      OBVIOUS
    <2>1. s \in Trackers /\ s.skipped = TRUE
      BY <1>0, <2>0, Settled, Zenon
    <2>2. tracker' = [tracker EXCEPT ![t] = s] /\ Watched(t)
      BY <1>3 DEF MoveFails, GivenUp
    <2> HIDE DEF s
    <2> QED
      BY <1>3, <2>1, <2>2 DEF MoveFails, GivenUp, Cleanup, Drops, Noted, Watched
  <1>4. CASE Progresses(t)
    <2> DEFINE s == [r EXCEPT !.counter = 0, !.last = snapshot[t].bytes, !.idle = 0]
    <2>1. snapshot[t].bytes \in Nat
      BY DEF TypeOK
    <2>2. s \in Trackers /\ s.age = r.age /\ s.counter = 0 /\ s.skipped = r.skipped
      BY <1>0, <2>1, Refreshed, Zenon
    <2>3. tracker' = [tracker EXCEPT ![t] = s] /\ Watched(t) /\ ~ Expired(t)
      BY <1>4 DEF Progresses, Progressed
    <2> HIDE DEF s
    <2> QED
      BY <1>0, <1>4, <2>2, <2>3 DEF Progresses, provider, Waits, Noted, Watched
  <1>5. CASE StillWaiting(t)
    <2> DEFINE s == [r EXCEPT !.counter = 0]
    <2>1. s \in Trackers /\ s.age = r.age /\ s.counter = 0 /\ s.skipped = r.skipped
      BY <1>0 DEF Trackers
    <2>2. tracker' = [tracker EXCEPT ![t] = s] /\ Watched(t) /\ ~ Expired(t)
      BY <1>5 DEF StillWaiting
    <2> HIDE DEF s
    <2> QED
      BY <1>0, <1>5, <2>1, <2>2 DEF StillWaiting, provider, Waits, Noted, Watched
  <1>6. ASSUME NEW moved \in SUBSET albumFiles[t], NEW there \in SUBSET albumFiles[t], Arrives(t, moved, there)
        PROVE  /\ At(t) /\ Advance /\ UNCHANGED <<hasID, bytes, sibling>>
               /\ xfer' = xfer \/ Cleanup(t)
               /\ Lands(t)
    BY <1>6 DEF Arrives, Lands, Cleanup, Watched
  <1> QED
    BY <1>1, <1>2, <1>3, <1>4, <1>5, <1>6 DEF Visit

\* Moving a release's files only ever takes files off its list.
LEMMA MovesSiblings ==
    ASSUME TypeOK, NEW t \in Tracks, NEW moved \in SUBSET albumFiles[t],
           NEW there \in SUBSET albumFiles[t], MoveAlbumSiblings(t, moved, there)
    PROVE  /\ albumFiles' \in [Tracks -> SUBSET Siblings]
           /\ albumFiles'[t] \in SUBSET Siblings
           /\ \A u \in Tracks : u # t => albumFiles'[u] = albumFiles[u]
           /\ \/ there = library \cap albumFiles[t] /\ albumFiles' = albumFiles
              \/ /\ moved \subseteq there /\ \A s \in there : sibling[s] = "succeeded"
                 /\ albumFiles'[t] = {s \in albumFiles[t] \ moved : sibling[s] # "errored"}
  <1>1. albumFiles \in [Tracks -> SUBSET Siblings]
    BY DEF TypeOK
  <1>2. CASE there = library \cap albumFiles[t] /\ UNCHANGED albumFiles
    BY <1>1, <1>2
  <1>3. CASE /\ moved \subseteq there /\ there \subseteq {s \in albumFiles[t] : sibling[s] = "succeeded"}
             /\ albumFiles' = [albumFiles EXCEPT ![t] = {s \in @ \ moved : sibling[s] # "errored"}]
    <2> DEFINE left == {s \in albumFiles[t] \ moved : sibling[s] # "errored"}
    <2>1. left \in SUBSET Siblings
      BY <1>1
    <2>2. albumFiles' = [albumFiles EXCEPT ![t] = left]
      BY <1>3
    <2> HIDE DEF left
    <2>3. albumFiles' \in [Tracks -> SUBSET Siblings] /\ albumFiles'[t] = left
      BY <1>1, <2>1, <2>2
    <2>4. \A u \in Tracks : u # t => albumFiles'[u] = albumFiles[u]
      BY <1>1, <2>2
    <2> QED
      BY <1>3, <2>1, <2>3, <2>4 DEF left
  <1> QED
    BY <1>2, <1>3 DEF MoveAlbumSiblings

\* A track that lands leaves the map; its release enters the other one new.
LEMMA Landing ==
    ASSUME TypeOK, NEW t \in Tracks, NEW moved \in SUBSET albumFiles[t],
           NEW there \in SUBSET albumFiles[t], Arrives(t, moved, there)
    PROVE  /\ tracker' = [tracker EXCEPT ![t] = None] /\ present' = [present EXCEPT ![t] = TRUE]
           /\ \/ UNCHANGED pendingAlbums
              \/ \E p \in Albums \cup {None} : /\ pendingAlbums' = [pendingAlbums EXCEPT ![t] = p]
                                               /\ p = None \/ p.age = 0
           /\ \/ UNCHANGED <<albumFiles, library>> /\ ~ MigrateDownload
              \/ MoveAlbumSiblings(t, moved, there) /\ library' = LibraryWith(t, there) \cup {t}
  <1>1. CASE MigrateDownload
    <2> DEFINE left == albumFiles'[t]
               fresh == [remaining |-> Cardinality(left), age |-> 0, idle |-> 0]
    <2>1. MoveAlbumSiblings(t, moved, there) /\ TrackAlbum(t) /\ library' = LibraryWith(t, there) \cup {t}
      BY <1>1 DEF Arrives
    <2>2. left \in SUBSET Siblings
      BY <2>1, MovesSiblings
    <2>3. left # {} => fresh \in Albums /\ fresh.age = 0
      BY <2>2, Counted, Durations DEF Albums, Ages
    <2>4. pendingAlbums' = [pendingAlbums EXCEPT ![t] = IF left = {} THEN None ELSE fresh]
      BY <2>1 DEF TrackAlbum
    <2> HIDE DEF left, fresh
    <2>5. \E p \in Albums \cup {None} : /\ pendingAlbums' = [pendingAlbums EXCEPT ![t] = p]
                                        /\ p = None \/ p.age = 0
      <3>1. CASE left = {}
        BY <2>4, <3>1
      <3>2. CASE left # {}
        BY <2>3, <2>4, <3>2
      <3> QED
        BY <3>1, <3>2
    <2> QED
      BY <2>1, <2>5 DEF Arrives
  <1>2. CASE ~ MigrateDownload
    BY <1>2 DEF Arrives
  <1> QED
    BY <1>1, <1>2

\* A release that is looked at keeps its age, or is let go of.
LEMMA Revisited ==
    ASSUME TypeOK, NEW t \in Tracks, NEW moved \in SUBSET albumFiles[t], NEW there \in SUBSET albumFiles[t],
           PendingAlbum(t, moved, there), pendingAlbums[t] # None
    PROVE  \E p \in Albums \cup {None} :
               /\ pendingAlbums' = [pendingAlbums EXCEPT ![t] = p]
               /\ p # None => /\ p.age = pendingAlbums[t].age
                              /\ MaxDuration > 0 => p.age <= MaxDuration
  <1> DEFINE left == albumFiles'[t]
             remaining == Cardinality(left)
             album == pendingAlbums[t]
             idle == IF remaining < album.remaining THEN 0 ELSE album.idle
             gone == \/ remaining = 0 \/ idle > StallDuration
                     \/ MaxDuration > 0 /\ album.age > MaxDuration
             kept == [remaining |-> remaining, age |-> album.age, idle |-> idle]
  <1>1. left \in SUBSET Siblings
    BY MovesSiblings DEF PendingAlbum
  <1>2. album \in Albums
    BY Records
  <1>3. pendingAlbums' = [pendingAlbums EXCEPT ![t] = IF gone THEN None ELSE kept]
    BY DEF PendingAlbum
  <1> HIDE DEF left
  <1>4. ASSUME ~ gone
        PROVE  kept \in Albums /\ kept.age = album.age /\ (MaxDuration > 0 => kept.age <= MaxDuration)
    <2>1. remaining \in 1..Cardinality(Siblings)
      BY <1>1, <1>4, Counted
    <2>2. album.age \in Ages /\ album.idle \in Ages
      BY <1>2 DEF Albums
    <2>3. idle \in Ages
      BY <2>2, Durations DEF Ages
    <2>4. MaxDuration > 0 => album.age <= MaxDuration
      BY <1>4, <2>2, Durations DEF Ages
    <2> HIDE DEF remaining, album, idle
    <2> QED
      BY <2>1, <2>2, <2>3, <2>4 DEF Albums
  <1> HIDE DEF kept, gone, album
  <1>5. CASE gone
    BY <1>3, <1>5
  <1>6. CASE ~ gone
    BY <1>3, <1>4, <1>6 DEF album
  <1> QED
    BY <1>5, <1>6

\* Time moves every age by one at most, and decides nothing.
LEMMA Ticks ==
    ASSUME TypeOK, TimePasses
    PROVE  /\ tracker' \in [Tracks -> Trackers \cup {None}]
           /\ pendingAlbums' \in [Tracks -> Albums \cup {None}]
           /\ phaseAge' \in 0..PhaseCap /\ phaseAge' <= phaseAge + 1
           /\ \A t \in Tracks :
                /\ tracker[t] = None <=> tracker'[t] = None
                /\ tracker[t] # None => /\ tracker'[t].age = Older(tracker[t].age)
                                        /\ tracker'[t].counter = tracker[t].counter
                                        /\ tracker'[t].skipped = tracker[t].skipped
                /\ pendingAlbums[t] = None <=> pendingAlbums'[t] = None
                /\ pendingAlbums[t] # None => pendingAlbums'[t].age = Older(pendingAlbums[t].age)
  <1>1. \A a \in Ages : Older(a) \in Ages
    BY Durations DEF Ages, Older
  <1>2. phaseAge' \in 0..PhaseCap /\ phaseAge' <= phaseAge + 1
    <2>1. PhaseCap \in Nat /\ phaseAge \in 0..PhaseCap
      BY Durations DEF TypeOK
    <2>2. phaseAge' = IF phaseAge < PhaseCap THEN phaseAge + 1 ELSE phaseAge
      BY DEF TimePasses
    <2> QED
      BY <2>1, <2>2
  <1>3. \A r \in Trackers : LET e == [r EXCEPT !.idle = Older(@), !.age = Older(@)]
                             IN  /\ e \in Trackers /\ e.age = Older(r.age)
                                 /\ e.counter = r.counter /\ e.skipped = r.skipped
    BY <1>1 DEF Trackers
  <1>4. \A p \in Albums : LET e == [p EXCEPT !.idle = Older(@), !.age = Older(@)]
                           IN  e \in Albums /\ e.age = Older(p.age)
    BY <1>1 DEF Albums
  <1>5. ASSUME NEW t \in Tracks
        PROVE  /\ tracker'[t] \in Trackers \cup {None}
               /\ tracker[t] = None <=> tracker'[t] = None
               /\ tracker[t] # None => /\ tracker'[t].age = Older(tracker[t].age)
                                       /\ tracker'[t].counter = tracker[t].counter
                                       /\ tracker'[t].skipped = tracker[t].skipped
    <2>1. CASE tracker[t] = None
      BY <2>1 DEF TimePasses
    <2>2. CASE tracker[t] # None
      <3>1. tracker[t] \in Trackers /\ None \notin Trackers
        BY <2>2, Records
      <3>2. tracker'[t] = [tracker[t] EXCEPT !.idle = Older(@), !.age = Older(@)]
        BY <2>2 DEF TimePasses
      <3> QED
        BY <1>3, <2>2, <3>1, <3>2, Zenon
    <2> QED
      BY <2>1, <2>2
  <1>6. ASSUME NEW t \in Tracks
        PROVE  /\ pendingAlbums'[t] \in Albums \cup {None}
               /\ pendingAlbums[t] = None <=> pendingAlbums'[t] = None
               /\ pendingAlbums[t] # None => pendingAlbums'[t].age = Older(pendingAlbums[t].age)
    <2>1. CASE pendingAlbums[t] = None
      BY <2>1 DEF TimePasses
    <2>2. CASE pendingAlbums[t] # None
      <3>1. pendingAlbums[t] \in Albums /\ None \notin Albums
        BY <2>2, Records
      <3>2. pendingAlbums'[t] = [pendingAlbums[t] EXCEPT !.idle = Older(@), !.age = Older(@)]
        BY <2>2 DEF TimePasses
      <3> QED
        BY <1>4, <2>2, <3>1, <3>2, Zenon
    <2> QED
      BY <2>1, <2>2
  <1>7. tracker' \in [Tracks -> Trackers \cup {None}] /\ pendingAlbums' \in [Tracks -> Albums \cup {None}]
    BY <1>5, <1>6 DEF TimePasses
  <1> QED
    BY <1>2, <1>5, <1>6, <1>7

\* The loop moves on by one track.
LEMMA Advances ==
    ASSUME TypeOK, NEW t \in Tracks, At(t), Advance
    PROVE  /\ pc = "tracks" /\ cursor = t
           /\ pc' \in {"tracks", "albums"} /\ cursor' \in Tracks /\ (pc' = "albums" => cursor' = 1)
           /\ \A u \in Tracks : pc' = "tracks" /\ u >= cursor' <=> u > t
           /\ UNCHANGED <<snapshot, pollFailures, phaseAge, outcome>>
  <1>1. NTracks \in Nat /\ cursor \in 1..NTracks /\ pc = "tracks" /\ cursor = t
    BY MonitorAssumption DEF At, Tracks
  <1>2. CASE cursor = NTracks
    BY <1>1, <1>2 DEF Advance, Tracks
  <1>3. CASE cursor # NTracks
    BY <1>1, <1>3 DEF Advance, Tracks
  <1> QED
    BY <1>2, <1>3

-----------------------------------------------------------------------------
(* The invariant is kept: types *)

LEMMA MonitorTypes == MonitorInv /\ [Next]_vars => TypeOK'
  <1> SUFFICES ASSUME MonitorInv, [Next]_vars PROVE TypeOK'
    OBVIOUS
  <1> USE DEF MonitorInv
  <1>0. /\ cfg' = cfg /\ Trackers' = Trackers /\ Albums' = Albums
        /\ Ages' = Ages /\ PhaseCap' = PhaseCap
    <2>1. cfg' = cfg
      BY DEF Next, Monitor, Peers, Returned, vars
    <2> QED
      BY <2>1 DEF Trackers, Albums, Ages, AgeCap, PhaseCap, MaxDuration, StallDuration, FallbackAfter
  <1>1. CASE UNCHANGED vars
    BY <1>0, <1>1 DEF vars, provider, control, results, TypeOK
  <1>2. CASE Peers
    <2>1. /\ xfer' \in [Tracks -> States] /\ sibling' \in [Siblings -> States]
          /\ bytes' \in [Tracks -> Nat] /\ \A t \in Tracks : bytes'[t] <= Size[t]
      <3>0. /\ xfer \in [Tracks -> States] /\ sibling \in [Siblings -> States]
            /\ bytes \in [Tracks -> Nat] /\ \A t \in Tracks : bytes[t] <= Size[t] /\ Size[t] \in Nat
        BY MonitorAssumption DEF TypeOK
      <3>1. ASSUME NEW t \in Tracks, PeerSends(t)
            PROVE  /\ bytes' \in [Tracks -> Nat] /\ \A u \in Tracks : bytes'[u] <= Size[u]
                   /\ UNCHANGED <<xfer, sibling>>
        BY <3>0, <3>1 DEF PeerSends
      <3>2. ASSUME NEW t \in Tracks, PeerEnds(t)
            PROVE  xfer' \in [Tracks -> States] /\ UNCHANGED <<bytes, sibling>>
        BY <3>0, <3>2 DEF PeerEnds, States
      <3>3. ASSUME NEW s \in Siblings, SiblingEnds(s)
            PROVE  sibling' \in [Siblings -> States] /\ UNCHANGED <<xfer, bytes>>
        BY <3>0, <3>3 DEF SiblingEnds, States
      <3> QED
        BY <1>2, <3>0, <3>1, <3>2, <3>3 DEF Peers
    <2> QED
      BY <1>0, <1>2, <2>1 DEF Peers, control, results, TypeOK
  <1>3. CASE PollFails
    BY <1>0, <1>3, Ticks
       DEF PollFails, provider, TypeOK, Trackers, Albums, ControlInv, maxPollFailures
  <1>4. CASE PollSucceeds
    <2>1. snapshot' \in [Tracks -> [state : States \cup {"missing"}, bytes : Nat]]
      <3>1. PICK seen \in SUBSET {t \in Tracks : xfer[t] # "none"} :
                snapshot' = [t \in Tracks |-> IF t \in seen THEN [state |-> xfer[t], bytes |-> bytes[t]]
                                              ELSE Missing]
        BY <1>4 DEF PollSucceeds
      <3> QED
        BY <3>1 DEF TypeOK, Missing
    <2>2. cursor' \in Tracks \cup {1} /\ pc' \in {"tracks", "exit"} /\ (pc' = "tracks" => cursor' \in Tracks)
      BY <1>4, MonitorAssumption DEF PollSucceeds, Tracks
    <2>3. pollFailures' = 0 /\ 0 \in 0..maxPollFailures
      BY <1>4 DEF PollSucceeds, maxPollFailures
    <2> QED
      BY <1>0, <1>4, <2>1, <2>2, <2>3, Ticks DEF PollSucceeds, provider, TypeOK, Trackers, Albums
  <1>5. ASSUME NEW t \in Tracks, Visit(t) PROVE TypeOK'
    <2>1. xfer' \in [Tracks -> States]
      <3>1. xfer' = xfer \/ Cleanup(t)
        BY <1>5, Looks
      <3> QED
        BY <3>1 DEF Cleanup, TypeOK, States
    <2>2. cursor' \in Tracks /\ pc' \in {"tracks", "albums"} /\ UNCHANGED <<snapshot, pollFailures, phaseAge, outcome>>
      BY <1>5, Looks, Advances
    <2>3. UNCHANGED <<hasID, bytes, sibling>>
      BY <1>5, Looks
    <2>4. /\ tracker' \in [Tracks -> Trackers \cup {None}] /\ present' \in [Tracks -> BOOLEAN]
          /\ pendingAlbums' \in [Tracks -> Albums \cup {None}]
          /\ albumFiles' \in [Tracks -> SUBSET Siblings] /\ library' \subseteq Tracks \cup Siblings
      <3>0. /\ tracker \in [Tracks -> Trackers \cup {None}] /\ present \in [Tracks -> BOOLEAN]
            /\ pendingAlbums \in [Tracks -> Albums \cup {None}]
            /\ albumFiles \in [Tracks -> SUBSET Siblings] /\ library \subseteq Tracks \cup Siblings
        BY DEF TypeOK, Trackers, Albums
      <3>1. CASE Passed(t)
        BY <3>0, <3>1 DEF Passed
      <3>2. CASE Waits(t)
        BY <3>0, <3>2 DEF Waits, Noted
      <3>3. CASE Drops(t)
        BY <3>0, <3>3 DEF Drops, Noted
      <3>4. CASE Lands(t)
        <4>1. PICK moved, there \in SUBSET albumFiles[t] : Arrives(t, moved, there)
          BY <3>4 DEF Lands
        <4>2. albumFiles' \in [Tracks -> SUBSET Siblings]
          <5>1. CASE MoveAlbumSiblings(t, moved, there)
            BY <4>1, <5>1, MovesSiblings
          <5> QED
            BY <3>0, <4>1, <5>1, Landing
        <4>3. library' \subseteq Tracks \cup Siblings
          BY <3>0, <4>1, Landing DEF LibraryWith
        <4>4. tracker' \in [Tracks -> Trackers \cup {None}] /\ present' \in [Tracks -> BOOLEAN]
          BY <3>0, <4>1, Landing
        <4>5. pendingAlbums' \in [Tracks -> Albums \cup {None}]
          BY <3>0, <4>1, Landing
        <4> QED
          BY <4>2, <4>3, <4>4, <4>5
      <3> QED
        BY <1>5, <3>1, <3>2, <3>3, <3>4, Looks
    <2> QED
      BY <1>0, <2>1, <2>2, <2>3, <2>4 DEF TypeOK, Trackers, Albums
  <1>6. CASE MigratePendingAlbums
    <2>0. cursor \in Tracks /\ albumFiles[cursor] \in SUBSET Siblings
      BY <1>6 DEF MigratePendingAlbums, TypeOK
    <2>1. cursor' \in Tracks \cup {1} /\ pc' \in {"albums", "exit"} /\ (pc' = "albums" => cursor' \in Tracks)
      BY <1>6, <2>0, MonitorAssumption DEF MigratePendingAlbums, Tracks
    <2>2. /\ pendingAlbums' \in [Tracks -> Albums \cup {None}]
          /\ albumFiles' \in [Tracks -> SUBSET Siblings] /\ library' \subseteq Tracks \cup Siblings
      <3>0. /\ pendingAlbums \in [Tracks -> Albums \cup {None}]
            /\ albumFiles \in [Tracks -> SUBSET Siblings] /\ library \subseteq Tracks \cup Siblings
        BY DEF TypeOK, Albums
      <3>1. CASE pendingAlbums[cursor] = None
        BY <1>6, <3>0, <3>1 DEF MigratePendingAlbums
      <3>2. CASE pendingAlbums[cursor] # None
        <4>1. PICK moved, there \in SUBSET albumFiles[cursor] : PendingAlbum(cursor, moved, there)
          BY <1>6, <3>2 DEF MigratePendingAlbums
        <4>2. library' = LibraryWith(cursor, there) /\ MoveAlbumSiblings(cursor, moved, there)
          BY <4>1 DEF PendingAlbum
        <4>3. pendingAlbums' \in [Tracks -> Albums \cup {None}]
          BY <2>0, <3>0, <3>2, <4>1, Revisited
        <4>4. albumFiles' \in [Tracks -> SUBSET Siblings]
          BY <2>0, <4>2, MovesSiblings
        <4> QED
          BY <2>0, <3>0, <4>2, <4>3, <4>4 DEF LibraryWith
      <3> QED
        BY <3>1, <3>2
    <2> QED
      BY <1>0, <1>6, <2>1, <2>2 DEF MigratePendingAlbums, provider, TypeOK, Albums
  <1>7. CASE FallBack
    <2>1. xfer' \in [Tracks -> States]
      BY <1>7 DEF FallBack, TypeOK, States
    <2> QED
      BY <1>0, <1>7, <2>1 DEF FallBack, results, TypeOK
  <1>8. CASE Finish \/ NextTick
    BY <1>0, <1>8 DEF Finish, NextTick, provider, results, TypeOK
  <1> QED
    BY <1>1, <1>2, <1>3, <1>4, <1>5, <1>6, <1>7, <1>8 DEF Next, Monitor, Returned

-----------------------------------------------------------------------------
(* The invariant is kept: control, verdicts, siblings *)

\* What a step may do to a track: leave it, decide it, or watch it one round more.
LEMMA ControlStep == MonitorInv /\ [Next]_vars => ControlInv'
  <1> SUFFICES ASSUME MonitorInv, [Next]_vars PROVE ControlInv'
    OBVIOUS
  <1> USE DEF MonitorInv, ControlInv
  <1>1. CASE UNCHANGED vars
    BY <1>1 DEF vars, control
  <1>2. CASE Peers
    BY <1>2 DEF Peers, control
  <1>3. CASE PollFails
    BY <1>3 DEF PollFails, TypeOK, maxPollFailures
  <1>4. CASE PollSucceeds
    BY <1>4 DEF PollSucceeds, maxPollFailures
  <1>5. ASSUME NEW t \in Tracks, Visit(t) PROVE ControlInv'
    <2>1. At(t) /\ Advance
      BY <1>5, Looks
    <2>2. pc' \in {"tracks", "albums"} /\ pc = "tracks" /\ UNCHANGED <<pollFailures, outcome>>
      BY <2>1, Advances
    <2> QED
      BY <2>2
  <1>6. CASE MigratePendingAlbums
    BY <1>6 DEF MigratePendingAlbums
  <1>7. CASE FallBack \/ Finish \/ NextTick
    BY <1>7 DEF FallBack, Finish, NextTick
  <1> QED
    BY <1>1, <1>2, <1>3, <1>4, <1>5, <1>6, <1>7 DEF Next, Monitor, Returned

LEMMA VerdictStep == MonitorInv /\ [Next]_vars => VerdictInv'
  <1> SUFFICES ASSUME MonitorInv, [Next]_vars PROVE VerdictInv'
    OBVIOUS
  <1> USE DEF MonitorInv, VerdictInv
  <1>1. CASE UNCHANGED <<tracker, present, hasID>>
    BY <1>1
  <1>2. CASE PollFails \/ PollSucceeds
    <2>1. TimePasses /\ UNCHANGED <<present, hasID>>
      BY <1>2 DEF PollFails, PollSucceeds
    <2> QED
      BY <2>1, Ticks
  <1>3. ASSUME NEW t \in Tracks, Visit(t) PROVE VerdictInv'
    <2>0. tracker \in [Tracks -> Trackers \cup {None}] /\ present \in [Tracks -> BOOLEAN] /\ UNCHANGED hasID
      BY <1>3, Looks DEF TypeOK, Trackers
    <2>1. CASE Passed(t)
      BY <2>0, <2>1 DEF Passed
    <2>2. CASE Waits(t) \/ Drops(t)
      <3>1. PICK r \in Trackers : /\ tracker' = [tracker EXCEPT ![t] = r]
                                  /\ r.skipped \/ r.counter \in {0, 1}
        BY <2>2 DEF Waits, Drops, Noted
      <3>2. hasID[t] /\ ~ present[t] /\ UNCHANGED present
        BY <2>2 DEF Waits, Drops, Watched
      <3> QED
        BY <2>0, <3>1, <3>2
    <2>3. CASE Lands(t)
      <3>1. tracker' = [tracker EXCEPT ![t] = None] /\ present' = [present EXCEPT ![t] = TRUE]
        BY <2>3, Landing DEF Lands
      <3> QED
        BY <2>0, <3>1
    <2> QED
      BY <1>3, <2>1, <2>2, <2>3, Looks
  <1> QED
    BY <1>1, <1>2, <1>3
       DEF Next, Monitor, Returned, vars, results, Peers, MigratePendingAlbums, Finish, FallBack, NextTick

LEMMA LandedStep == MonitorInv /\ [Next]_vars => PresentMeansLanded'
  <1> SUFFICES ASSUME MonitorInv, [Next]_vars PROVE PresentMeansLanded'
    OBVIOUS
  <1> USE DEF MonitorInv, PresentMeansLanded
  <1>1. CASE UNCHANGED present /\ \A t \in Tracks : t \in library => t \in library'
    BY <1>1
  <1>0. \A there : \A t, u \in Tracks : u \in library => u \in LibraryWith(t, there)
    BY MonitorAssumption DEF LibraryWith, TypeOK
  <1>2. ASSUME NEW t \in Tracks, Visit(t) PROVE PresentMeansLanded'
    <2>1. CASE Passed(t) \/ Waits(t) \/ Drops(t)
      BY <1>1, <2>1 DEF Passed, Waits, Drops
    <2>2. CASE Lands(t)
      <3>1. PICK moved, there \in SUBSET albumFiles[t] : Arrives(t, moved, there)
        BY <2>2 DEF Lands
      <3>2. present' = [present EXCEPT ![t] = TRUE] /\ (MigrateDownload => library' = LibraryWith(t, there) \cup {t})
        BY <3>1, Landing
      <3> QED
        BY <1>0, <3>2 DEF TypeOK
    <2> QED
      BY <1>2, <2>1, <2>2, Looks
  <1>3. CASE MigratePendingAlbums
    <2>1. UNCHANGED present /\ \A t \in Tracks : t \in library => t \in library'
      BY <1>0, <1>3 DEF MigratePendingAlbums, PendingAlbum, TypeOK
    <2> QED
      BY <1>1, <2>1
  <1> QED
    BY <1>1, <1>2, <1>3 DEF Next, Monitor, Returned, vars, results, Peers, PollFails, PollSucceeds, Finish, FallBack, NextTick

LEMMA SiblingStep == MonitorInv /\ [Next]_vars => SiblingInv'
  <1> SUFFICES ASSUME MonitorInv, [Next]_vars PROVE SiblingInv'
    OBVIOUS
  <1> USE DEF MonitorInv, SiblingInv, SiblingsSettled
  <1>0. /\ albumFiles \in [Tracks -> SUBSET Siblings] /\ sibling \in [Siblings -> States]
        /\ \A s \in Siblings : Owner[s] \in Tracks /\ s \notin Tracks
    BY MonitorAssumption DEF TypeOK
  <1>1. CASE UNCHANGED <<albumFiles, library, sibling>>
    BY <1>1
  <1>2. CASE Peers
    BY <1>0, <1>2 DEF Peers, results, PeerSends, PeerEnds, SiblingEnds
  <1>3. ASSUME NEW t \in Tracks, NEW moved \in SUBSET albumFiles[t], NEW there \in SUBSET albumFiles[t],
               MoveAlbumSiblings(t, moved, there),
               library' \in {LibraryWith(t, there), LibraryWith(t, there) \cup {t}}, UNCHANGED sibling
        PROVE  SiblingInv'
    <2>1. \A s \in Siblings : s \in library' <=> (s \in library /\ s \notin albumFiles[t]) \/ s \in there
      BY <1>0, <1>3 DEF LibraryWith
    <2>2. \A u \in Tracks : u # t => albumFiles'[u] = albumFiles[u]
      BY <1>3, MovesSiblings
    <2>3. \A s \in Siblings : s \in albumFiles[t] => Owner[s] = t
      BY <1>0, <1>3
    <2>4. CASE there = library \cap albumFiles[t] /\ albumFiles' = albumFiles
      BY <1>0, <1>3, <2>1, <2>4
    <2>5. CASE /\ moved \subseteq there /\ \A s \in there : sibling[s] = "succeeded"
               /\ albumFiles'[t] = {s \in albumFiles[t] \ moved : sibling[s] # "errored"}
      <3>1. \A s \in albumFiles[t] : s \in there \/ s \in albumFiles'[t] \/ sibling[s] = "errored"
        BY <2>5
      <3>2. albumFiles'[t] \subseteq albumFiles[t]
        BY <2>5
      <3> QED
        BY <1>0, <1>3, <2>1, <2>2, <2>3, <2>5, <3>1, <3>2
    <2>6. \/ there = library \cap albumFiles[t] /\ albumFiles' = albumFiles
          \/ /\ moved \subseteq there /\ \A s \in there : sibling[s] = "succeeded"
             /\ albumFiles'[t] = {s \in albumFiles[t] \ moved : sibling[s] # "errored"}
      BY <1>3, MovesSiblings
    <2> QED
      BY <2>4, <2>5, <2>6
  <1>4. ASSUME NEW t \in Tracks, Visit(t) PROVE SiblingInv'
    <2>0. UNCHANGED sibling
      BY <1>4, Looks
    <2>1. CASE Passed(t) \/ Waits(t) \/ Drops(t)
      <3>1. UNCHANGED albumFiles /\ \A s \in Siblings : s \in library' <=> s \in library
        BY <1>0, <2>1 DEF Passed, Waits, Drops
      <3> QED
        BY <1>0, <2>0, <3>1
    <2>2. CASE Lands(t)
      <3>1. PICK moved, there \in SUBSET albumFiles[t] : Arrives(t, moved, there)
        BY <2>2 DEF Lands
      <3>2. \/ UNCHANGED <<albumFiles, library>>
            \/ MoveAlbumSiblings(t, moved, there) /\ library' = LibraryWith(t, there) \cup {t}
        BY <3>1, Landing
      <3> QED
        BY <1>1, <1>3, <2>0, <3>2
    <2> QED
      BY <1>4, <2>1, <2>2, Looks
  <1>5. CASE MigratePendingAlbums
    <2>1. UNCHANGED sibling /\ cursor \in Tracks
      BY <1>5 DEF MigratePendingAlbums, provider, TypeOK
    <2> QED
      BY <1>1, <1>3, <1>5, <2>1 DEF MigratePendingAlbums, PendingAlbum
  <1> QED
    BY <1>1, <1>2, <1>4, <1>5
       DEF Next, Monitor, Returned, vars, results, provider, PollFails, PollSucceeds, Finish, FallBack, NextTick

-----------------------------------------------------------------------------
(* The invariant is kept: time *)

LEMMA Polls ==
    ASSUME MonitorInv, PollFails \/ PollSucceeds
    PROVE  /\ pc = "tick" /\ outcome = "running" /\ pollFailures \in 0..2
           /\ \/ outcome' # "running"
              \/ /\ pc' = "tick" /\ pollFailures' = pollFailures + 1 /\ Late' = Late + 1
              \/ /\ pc' \in {"tracks", "exit"} /\ (pc' = "tracks" => cursor' = 1)
                 /\ (pc' = "exit" => Tracks = {}) /\ Late' = 3 /\ Late <= 2
           /\ TimePasses /\ UNCHANGED <<hasID, present>>
           /\ Late = pollFailures
  <1>1. pc = "tick" /\ outcome = "running" /\ pollFailures \in 0..2 /\ Late = pollFailures
    BY DEF PollFails, PollSucceeds, MonitorInv, ControlInv, TypeOK, maxPollFailures, Late
  <1>2. CASE PollFails
    BY <1>1, <1>2 DEF PollFails, Late, maxPollFailures
  <1>3. CASE PollSucceeds
    BY <1>1, <1>3 DEF PollSucceeds, Late, maxPollFailures, Tracks
  <1> QED
    BY <1>1, <1>2, <1>3

\* A poll adds one tick to the phase, to every age and to the polls to allow for.
LEMMA DueAfterPoll ==
    ASSUME NEW max \in Nat, NEW phase \in Nat, NEW phaseN \in Nat, NEW late \in Nat, NEW lateN \in Nat,
           NEW age \in Nat, NEW ageN \in Nat, NEW c \in Nat,
           phaseN <= phase + 1, late + 1 <= lateN,
           age <= max => ageN = age + 1, age > max => ageN > max
    PROVE  /\ phase <= TrackDue(max, age, c, late) => phaseN <= TrackDue(max, ageN, c, lateN)
           /\ phase <= AlbumDue(max, age, late) => phaseN <= AlbumDue(max, ageN, lateN)
  BY DEF TrackDue, AlbumDue

LEMMA LimitAfterPoll ==
    ASSUME NEW limit \in Nat, NEW phase \in Nat, NEW phaseN \in Nat, NEW late \in Nat, NEW lateN \in Nat,
           phaseN <= phase + 1, late + 1 <= lateN, phase <= limit + late
    PROVE  phaseN <= limit + lateN
  OBVIOUS

\* A look at a track: it is waited for, absent or not, or it lands.
LEMMA DueAfterLook ==
    ASSUME NEW max \in Nat, NEW phase \in Nat, NEW age \in Nat, NEW c \in Nat, NEW cN \in Nat,
           phase <= TrackDue(max, age, c, 3), c <= 1
    PROVE  /\ age <= max => phase <= TrackDue(max, age, cN, 3)
           /\ age > max /\ c = 0 => phase <= max + 6 /\ phase <= TrackDue(max, age, 1, 3)
           /\ phase <= AlbumDue(max, 0, 3)
  BY DEF TrackDue, AlbumDue

\* The next round begins: what is waited for is on time.
LEMMA DueNextRound ==
    ASSUME NEW max \in Nat, NEW phase \in Nat, NEW age \in Nat, NEW c \in Nat
    PROVE  /\ age <= max /\ phase <= TrackDue(max, age, c, 3) =>
                  phase <= TrackDue(max, age, c, 0) /\ phase <= 2 * max + 9
           /\ phase <= max + 6 => phase <= TrackDue(max, age, 1, 0) \/ age <= max
           /\ phase <= max + 6 => phase <= 2 * max + 9
           /\ age <= max /\ phase <= AlbumDue(max, age, 3) =>
                  phase <= AlbumDue(max, age, 0) /\ phase <= 2 * max + 9
  BY DEF TrackDue, AlbumDue

LEMMA OlderAge ==
    ASSUME TypeOK, NEW a \in Ages
    PROVE  /\ a \in Nat /\ Older(a) \in Nat
           /\ a <= MaxDuration => Older(a) = a + 1
           /\ a > MaxDuration => Older(a) > MaxDuration
  BY Durations DEF Ages, Older

LEMMA DurationsStay ==
    ASSUME [Next]_vars
    PROVE  MaxDuration' = MaxDuration /\ FallbackAfter' = FallbackAfter /\ cfg' = cfg
  BY DEF Next, Monitor, Peers, Returned, vars, MaxDuration, FallbackAfter

\* Nothing but a poll takes time.
LEMMA Instantly ==
    ASSUME MonitorInv, Peers \/ UNCHANGED vars \/ (\E t \in Tracks : Visit(t)) \/ MigratePendingAlbums \/ NextTick
    PROVE  /\ UNCHANGED <<phaseAge, outcome>>
           /\ \/ UNCHANGED <<pc, cursor>> /\ Late' = Late
              \/ pc \in {"tracks", "albums"} /\ pc' \in {"tracks", "albums", "exit"} /\ Late = 3 /\ Late' = 3
              \/ NextTick /\ Late = 3 /\ Late' = 0
  <1> USE DEF MonitorInv
  <1>1. CASE Peers \/ UNCHANGED vars
    BY <1>1 DEF Peers, vars, control, Late
  <1>2. ASSUME NEW t \in Tracks, Visit(t)
        PROVE  /\ UNCHANGED <<phaseAge, outcome>> /\ pc = "tracks" /\ pc' \in {"tracks", "albums"}
               /\ Late = 3 /\ Late' = 3
    <2>1. pc = "tracks" /\ pc' \in {"tracks", "albums"} /\ UNCHANGED <<phaseAge, outcome>>
      BY <1>2, Looks, Advances
    <2> QED
      BY <2>1 DEF Late, maxPollFailures
  <1>3. CASE MigratePendingAlbums
    BY <1>3 DEF MigratePendingAlbums, Late, maxPollFailures
  <1>4. CASE NextTick
    BY <1>4 DEF NextTick, Late, maxPollFailures, ControlInv
  <1> QED
    BY <1>1, <1>2, <1>3, <1>4

LEMMA FallbackStep == MonitorInv /\ [Next]_vars => FallbackInv'
  <1> SUFFICES ASSUME MonitorInv, [Next]_vars, FallbackAfter > 0, outcome' = "running"
               PROVE  phaseAge' <= FallbackAfter + Late'
    BY DurationsStay DEF FallbackInv
  <1>0. /\ FallbackAfter \in Nat /\ phaseAge \in Nat /\ Late \in 0..3
        /\ outcome = "running" => phaseAge <= FallbackAfter + Late
    BY Durations DEF MonitorInv, TypeOK, Late, maxPollFailures, FallbackInv
  <1>1. CASE PollFails \/ PollSucceeds
    <2>1. phaseAge' \in Nat /\ phaseAge' <= phaseAge + 1
      BY <1>0, <1>1, Polls, Ticks, Durations DEF MonitorInv
    <2>2. outcome = "running" /\ Late' \in Nat /\ Late + 1 <= Late'
      BY <1>0, <1>1, Polls
    <2>3. phaseAge <= FallbackAfter + Late /\ FallbackAfter \in Nat /\ phaseAge \in Nat /\ Late \in Nat
      BY <1>0, <2>2
    <2> QED
      BY <2>1, <2>2, <2>3, LimitAfterPoll
  <1>2. CASE NextTick
    <2>1. phaseAge' = phaseAge /\ Late' = 0 /\ ~ (phaseAge > FallbackAfter)
      BY <1>2 DEF NextTick, MonitorInv, ControlInv, Late
    <2> QED
      BY <1>0, <2>1
  <1>3. CASE Peers \/ UNCHANGED vars \/ (\E t \in Tracks : Visit(t)) \/ MigratePendingAlbums
    <2>1. ~ NextTick \/ NextTick
      OBVIOUS
    <2> QED
      BY <1>0, <1>2, <1>3, Instantly
  <1>4. CASE Finish \/ FallBack
    BY <1>4 DEF Finish, FallBack
  <1> QED
    BY <1>1, <1>2, <1>3, <1>4 DEF Next, Monitor, Returned

LEMMA TimeAfterPoll ==
    ASSUME MonitorInv, [Next]_vars, PollFails \/ PollSucceeds, MaxDuration > 0, outcome' = "running"
    PROVE  /\ \A t \in Tracks : TrackTime(t)' /\ AlbumTime(t)'
           /\ phaseAge' <= 2 * MaxDuration + 9 + Late'
  <1> USE DEF MonitorInv
  <1>0. /\ phaseAge \in Nat /\ phaseAge' \in Nat /\ phaseAge' <= phaseAge + 1
        /\ Late \in Nat /\ Late' \in Nat /\ Late + 1 <= Late'
        /\ MaxDuration \in Nat /\ 2 * MaxDuration + 9 \in Nat /\ MaxDuration' = MaxDuration
    <2>1. phaseAge \in Nat /\ phaseAge' \in Nat /\ phaseAge' <= phaseAge + 1
      BY Polls, Ticks, Durations DEF TypeOK
    <2>2. Late \in Nat /\ Late' \in Nat /\ Late + 1 <= Late'
      BY Polls
    <2>3. MaxDuration \in Nat
      BY Durations
    <2> QED
      BY <2>1, <2>2, <2>3, DurationsStay
  <1>1. TimePasses /\ UNCHANGED <<hasID, present>> /\ outcome = "running" /\ pc = "tick"
    BY Polls
  <1>2. (\A t \in Tracks : TrackTime(t) /\ AlbumTime(t)) /\ phaseAge <= 2 * MaxDuration + 9 + Late
    BY <1>1 DEF TimeInv
  <1>3. ASSUME NEW t \in Tracks PROVE Ahead(t) /\ Ahead(t)' /\ AlbumAhead(t)'
    <2>1. t >= 1 /\ t \in Nat
      BY MonitorAssumption DEF Tracks
    <2>2. pc' = "tick" \/ (pc' = "tracks" /\ cursor' = 1)
      BY Polls
    <2> QED
      BY <1>1, <2>1, <2>2 DEF Ahead, AlbumAhead
  <1>4. ASSUME NEW t \in Tracks PROVE TrackTime(t)'
    <2>1. ASSUME hasID[t], ~ present[t], tracker'[t] = None PROVE phaseAge' <= Late'
      <3>1. phaseAge <= Late
        BY <1>1, <1>2, <2>1, Ticks DEF TrackTime
      <3> QED
        BY <1>0, <3>1, LimitAfterPoll
    <2>2. ASSUME Undecided(t)'
          PROVE  phaseAge' <= TrackDue(MaxDuration, tracker'[t].age, tracker'[t].counter, Late')
      <3> DEFINE age == tracker[t].age
                 c == tracker[t].counter
      <3>1. tracker[t] # None /\ tracker[t] \in Trackers
        BY <1>1, <2>2, Ticks, Records DEF Undecided
      <3>2. Undecided(t) /\ tracker'[t].age = Older(age) /\ tracker'[t].counter = c
        BY <1>1, <2>2, <3>1, Ticks DEF Undecided
      <3>3. age \in Ages /\ c \in Nat
        BY <3>1 DEF Trackers
      <3>4. phaseAge <= TrackDue(MaxDuration, age, c, Late)
        BY <1>2, <3>2 DEF TrackTime
      <3> HIDE DEF age, c
      <3>5. age \in Nat /\ Older(age) \in Nat /\ (age <= MaxDuration => Older(age) = age + 1)
            /\ (age > MaxDuration => Older(age) > MaxDuration)
        BY <3>3, OlderAge
      <3>6. phaseAge' <= TrackDue(MaxDuration, Older(age), c, Late')
        BY <1>0, <3>3, <3>4, <3>5, DueAfterPoll
      <3> QED
        BY <3>2, <3>6
    <2> QED
      BY <1>0, <1>1, <1>3, <2>1, <2>2 DEF TrackTime
  <1>5. ASSUME NEW t \in Tracks PROVE AlbumTime(t)'
    <2>1. ASSUME pendingAlbums'[t] # None
          PROVE  phaseAge' <= AlbumDue(MaxDuration, pendingAlbums'[t].age, Late')
      <3> DEFINE age == pendingAlbums[t].age
      <3>1. pendingAlbums[t] # None /\ pendingAlbums[t] \in Albums /\ pendingAlbums'[t].age = Older(age)
        BY <1>1, <2>1, Ticks, Records
      <3>2. age \in Ages
        BY <3>1 DEF Albums
      <3>3. phaseAge <= AlbumDue(MaxDuration, age, Late)
        BY <1>2, <3>1 DEF AlbumTime
      <3> HIDE DEF age
      <3>4. age \in Nat /\ Older(age) \in Nat /\ (age <= MaxDuration => Older(age) = age + 1)
            /\ (age > MaxDuration => Older(age) > MaxDuration)
        BY <3>2, OlderAge
      <3>5. phaseAge' <= AlbumDue(MaxDuration, Older(age), Late')
        BY <1>0, <3>3, <3>4, DueAfterPoll
      <3> QED
        BY <3>1, <3>5
    <2> QED
      BY <1>0, <1>3, <2>1 DEF AlbumTime
  <1>6. phaseAge' <= 2 * MaxDuration + 9 + Late'
    BY <1>0, <1>2, LimitAfterPoll
  <1> QED
    BY <1>4, <1>5, <1>6

LEMMA TimeAfterLook ==
    ASSUME MonitorInv, [Next]_vars, NEW t \in Tracks, Visit(t), MaxDuration > 0, outcome' = "running"
    PROVE  /\ \A u \in Tracks : TrackTime(u)' /\ AlbumTime(u)'
           /\ phaseAge' <= 2 * MaxDuration + 9 + Late'
  <1> USE DEF MonitorInv
  <1>0. /\ pc = "tracks" /\ cursor = t /\ pc' \in {"tracks", "albums"} /\ (pc' = "albums" => cursor' = 1)
        /\ \A u \in Tracks : pc' = "tracks" /\ u >= cursor' <=> u > t
        /\ UNCHANGED <<phaseAge, hasID>> /\ outcome = "running"
    BY Looks, Advances
  <1>1. /\ phaseAge \in Nat /\ Late = 3 /\ Late' = 3
        /\ MaxDuration \in Nat /\ MaxDuration' = MaxDuration
    BY <1>0, Durations, DurationsStay DEF TypeOK, Late, maxPollFailures
  <1>2. (\A u \in Tracks : TrackTime(u) /\ AlbumTime(u)) /\ phaseAge <= 2 * MaxDuration + 9 + Late
    BY <1>0 DEF TimeInv
  <1>3. \A u \in Tracks : /\ Ahead(u) <=> u >= t
                          /\ Ahead(u)' <=> u > t
                          /\ AlbumAhead(u)'
    BY <1>0, MonitorAssumption DEF Ahead, AlbumAhead, Tracks
  <1>4. /\ tracker \in [Tracks -> Trackers \cup {None}] /\ present \in [Tracks -> BOOLEAN]
        /\ pendingAlbums \in [Tracks -> Albums \cup {None}]
    BY DEF TypeOK, Trackers, Albums
  <1>5. ASSUME NEW u \in Tracks, u # t PROVE TrackTime(u)' /\ AlbumTime(u)'
    <2>1. tracker'[u] = tracker[u] /\ present'[u] = present[u] /\ pendingAlbums'[u] = pendingAlbums[u]
      <3>1. CASE Passed(t) \/ Waits(t) \/ Drops(t)
        BY <1>4, <1>5, <3>1 DEF Passed, Waits, Drops, Noted
      <3>2. CASE Lands(t)
        <4>1. PICK moved, there \in SUBSET albumFiles[t] : Arrives(t, moved, there)
          BY <3>2 DEF Lands
        <4>2. /\ tracker' = [tracker EXCEPT ![t] = None] /\ present' = [present EXCEPT ![t] = TRUE]
              /\ UNCHANGED pendingAlbums \/ \E p : pendingAlbums' = [pendingAlbums EXCEPT ![t] = p]
          BY <4>1, Landing
        <4> QED
          BY <1>4, <1>5, <4>2
      <3> QED
        BY <3>1, <3>2, Looks
    <2>2. Ahead(u)' = Ahead(u) /\ AlbumAhead(u)'
      <3>1. u > t <=> u >= t
        BY <1>5, MonitorAssumption DEF Tracks
      <3> QED
        BY <1>3, <3>1 DEF Ahead
    <2>3. hasID'[u] = hasID[u] /\ phaseAge' = phaseAge /\ Late' = Late /\ MaxDuration' = MaxDuration
      BY <1>0, <1>1
    <2> QED
      BY <1>2, <2>1, <2>2, <2>3 DEF TrackTime, AlbumTime, Undecided
  <1>6. ASSUME Watched(t)
        PROVE  \E age \in Nat, c \in 0..1 : /\ age = Tracker(t).age /\ c = Tracker(t).counter
                                             /\ phaseAge <= TrackDue(MaxDuration, age, c, 3)
    <2>1. CASE tracker[t] = None
      <3>1. phaseAge <= 3
        BY <1>1, <1>2, <1>6, <2>1 DEF TrackTime, Watched
      <3>2. Tracker(t).age = 0 /\ Tracker(t).counter = 0
        BY <2>1 DEF Tracker, NewTracker
      <3>3. phaseAge <= TrackDue(MaxDuration, 0, 0, 3)
        BY <1>1, <3>1 DEF TrackDue
      <3> QED
        BY <3>2, <3>3
    <2>2. CASE tracker[t] # None
      <3>1. Undecided(t) /\ Tracker(t) = tracker[t]
        BY <1>6, <2>2 DEF Undecided, Watched, Skipped, Tracker
      <3>2. phaseAge <= TrackDue(MaxDuration, tracker[t].age, tracker[t].counter, 3)
        BY <1>1, <1>2, <3>1 DEF TrackTime
      <3>3. tracker[t].age \in Nat /\ tracker[t].counter \in 0..1
        <4>1. tracker[t] \in Trackers /\ tracker[t].counter <= 1
          BY <1>4, <2>2, <3>1 DEF VerdictInv, Undecided
        <4> QED
          BY <4>1, Durations DEF Trackers, Ages
      <3> QED
        BY <3>1, <3>2, <3>3
    <2> QED
      BY <2>1, <2>2
  <1>7. TrackTime(t)' /\ AlbumTime(t)'
    <2>0. ~ Ahead(t)'
      BY <1>3 DEF Tracks
    <2>1. CASE Passed(t)
      <3>1. TrackTime(t)'
        <4>1. ~ (hasID[t] /\ ~ present[t] /\ tracker[t] = None) /\ ~ Undecided(t)
          BY <1>0, <2>1 DEF Passed, Watched, At, Skipped, Undecided, VerdictInv
        <4> QED
          BY <1>0, <2>1, <4>1 DEF Passed, TrackTime, Undecided
      <3>2. AlbumTime(t)'
        BY <1>0, <1>1, <1>2, <1>3, <2>1 DEF Passed, AlbumTime
      <3> QED
        BY <3>1, <3>2
    <2>2. CASE Waits(t)
      <3>1. PICK r \in Trackers : /\ tracker' = [tracker EXCEPT ![t] = r] /\ ~ r.skipped
                                  /\ r.age = Tracker(t).age
                                  /\ \/ r.counter = 1 /\ Tracker(t).counter = 0
                                     \/ r.counter = 0 /\ ~ Expired(t)
        BY <2>2 DEF Waits, Noted
      <3>2. PICK age \in Nat, c \in 0..1 : /\ age = Tracker(t).age /\ c = Tracker(t).counter
                                           /\ phaseAge <= TrackDue(MaxDuration, age, c, 3)
        BY <1>6, <2>2 DEF Waits
      <3>3. /\ age <= MaxDuration => phaseAge <= TrackDue(MaxDuration, age, r.counter, 3)
            /\ age > MaxDuration /\ c = 0 => phaseAge <= MaxDuration + 6 /\ phaseAge <= TrackDue(MaxDuration, age, 1, 3)
        <4>1. r.counter \in Nat /\ MaxDuration \in Nat /\ phaseAge \in Nat /\ c \in Nat /\ c <= 1
          BY <1>1, <3>1 DEF Trackers
        <4>2. phaseAge <= TrackDue(MaxDuration, age, c, 3)
          BY <3>2
        <4> HIDE DEF TrackDue
        <4> QED
          BY <4>1, <4>2, DueAfterLook
      <3>4. age > MaxDuration => c = 0 /\ r.counter = 1
        BY <3>1, <3>2 DEF Expired
      <3>5. tracker'[t] = r /\ tracker'[t] # None
        BY <1>4, <3>1, Records
      <3>6. TrackTime(t)'
        <4>1. phaseAge' <= TrackDue(MaxDuration, r.age, r.counter, 3)
          BY <1>0, <1>1, <3>1, <3>2, <3>3, <3>4
        <4>2. r.age > MaxDuration => r.counter = 1 /\ phaseAge' <= MaxDuration + 6
          BY <1>0, <3>1, <3>2, <3>3, <3>4
        <4> QED
          BY <1>1, <3>5, <4>1, <4>2 DEF TrackTime
      <3>7. AlbumTime(t)'
        BY <1>0, <1>1, <1>2, <1>3, <2>2 DEF Waits, AlbumTime
      <3> QED
        BY <3>6, <3>7
    <2>3. CASE Drops(t)
      <3>1. PICK r \in Trackers : tracker' = [tracker EXCEPT ![t] = r] /\ r.skipped
        BY <2>3 DEF Drops, Noted
      <3>2. tracker'[t] = r /\ tracker'[t] # None
        BY <1>4, <3>1, Records
      <3>3. TrackTime(t)'
        BY <3>1, <3>2 DEF TrackTime, Undecided
      <3>4. AlbumTime(t)'
        BY <1>0, <1>1, <1>2, <1>3, <2>3 DEF Drops, AlbumTime
      <3> QED
        BY <3>3, <3>4
    <2>4. CASE Lands(t)
      <3>1. PICK moved, there \in SUBSET albumFiles[t] : Arrives(t, moved, there)
        BY <2>4 DEF Lands
      <3>2. tracker'[t] = None /\ present'[t] = TRUE
        BY <1>4, <3>1, Landing
      <3>3. TrackTime(t)'
        BY <3>2 DEF TrackTime, Undecided
      <3>4. AlbumTime(t)'
        <4>1. PICK age \in Nat, c \in 0..1 : phaseAge <= TrackDue(MaxDuration, age, c, 3)
          BY <1>6, <2>4 DEF Lands
        <4>2. phaseAge <= AlbumDue(MaxDuration, 0, 3)
          BY <1>1, <4>1, DueAfterLook
        <4>3. UNCHANGED pendingAlbums \/ pendingAlbums'[t] = None \/ pendingAlbums'[t].age = 0
          <5>1. \/ UNCHANGED pendingAlbums
                \/ \E p : pendingAlbums' = [pendingAlbums EXCEPT ![t] = p] /\ (p = None \/ p.age = 0)
            BY <3>1, Landing
          <5> QED
            BY <1>4, <5>1
        <4> QED
          BY <1>0, <1>1, <1>2, <1>3, <4>2, <4>3 DEF AlbumTime
      <3> QED
        BY <3>3, <3>4
    <2> QED
      BY <2>1, <2>2, <2>3, <2>4, Looks
  <1> QED
    BY <1>0, <1>1, <1>2, <1>5, <1>7

LEMMA TimeAfterAlbum ==
    ASSUME MonitorInv, [Next]_vars, MigratePendingAlbums, MaxDuration > 0, outcome' = "running"
    PROVE  /\ \A t \in Tracks : TrackTime(t)' /\ AlbumTime(t)'
           /\ phaseAge' <= 2 * MaxDuration + 9 + Late'
  <1> USE DEF MonitorInv
  <1>0. /\ pc = "albums" /\ cursor \in Tracks
        /\ IF cursor = NTracks THEN pc' = "exit" /\ cursor' = 1 ELSE pc' = "albums" /\ cursor' = cursor + 1
        /\ UNCHANGED <<phaseAge, hasID, tracker, present>> /\ outcome = "running"
    BY DEF MigratePendingAlbums, TypeOK
  <1>1. Late = 3 /\ Late' = 3 /\ MaxDuration \in Nat /\ MaxDuration' = MaxDuration
    BY <1>0, Durations, DurationsStay DEF Late, maxPollFailures
  <1>2. (\A t \in Tracks : TrackTime(t) /\ AlbumTime(t)) /\ phaseAge <= 2 * MaxDuration + 9 + Late
    BY <1>0 DEF TimeInv
  <1>3. \A t \in Tracks : /\ ~ Ahead(t) /\ ~ Ahead(t)'
                          /\ t # cursor /\ AlbumAhead(t) => AlbumAhead(t)'
    BY <1>0, MonitorAssumption DEF Ahead, AlbumAhead, Tracks
  <1>4. \A t \in Tracks : TrackTime(t)'
    BY <1>0, <1>1, <1>2, <1>3 DEF TrackTime, Undecided
  <1>5. \/ UNCHANGED pendingAlbums /\ pendingAlbums[cursor] = None
        \/ \E p \in Albums \cup {None} :
              /\ pendingAlbums' = [pendingAlbums EXCEPT ![cursor] = p] /\ pendingAlbums[cursor] # None
              /\ p # None => p.age = pendingAlbums[cursor].age /\ (MaxDuration > 0 => p.age <= MaxDuration)
    BY <1>0, Revisited DEF MigratePendingAlbums
  <1>6. ASSUME NEW t \in Tracks PROVE AlbumTime(t)'
    <2>0. pendingAlbums \in [Tracks -> Albums \cup {None}]
      BY DEF TypeOK, Albums
    <2>1. CASE t # cursor
      <3>1. pendingAlbums'[t] = pendingAlbums[t]
        BY <1>5, <2>0, <2>1
      <3> QED
        BY <1>0, <1>1, <1>2, <1>3, <2>1, <3>1 DEF AlbumTime
    <2>2. CASE t = cursor
      <3>1. \/ pendingAlbums'[t] = None
            \/ /\ pendingAlbums[t] # None /\ pendingAlbums'[t].age = pendingAlbums[t].age
               /\ pendingAlbums'[t].age <= MaxDuration /\ pendingAlbums'[t] \in Albums
        BY <1>0, <1>5, <2>0, <2>2
      <3>2. pendingAlbums'[t] \in Albums => pendingAlbums'[t].age \in Nat
        BY Durations DEF Albums, Ages
      <3> QED
        BY <1>0, <1>1, <1>2, <3>1, <3>2 DEF AlbumTime
    <2> QED
      BY <2>1, <2>2
  <1> QED
    BY <1>0, <1>1, <1>2, <1>4, <1>6

\* A new round begins only because something is waited for, and that is on time.
LEMMA TimeNextRound ==
    ASSUME MonitorInv, [Next]_vars, NextTick, MaxDuration > 0, outcome' = "running"
    PROVE  /\ \A t \in Tracks : TrackTime(t)' /\ AlbumTime(t)'
           /\ phaseAge' <= 2 * MaxDuration + 9 + Late'
  <1> USE DEF MonitorInv
  <1>0. /\ pc = "exit" /\ pc' = "tick" /\ Open /\ outcome = "running"
        /\ UNCHANGED <<phaseAge, hasID, tracker, present, pendingAlbums>>
    BY DEF NextTick, results
  <1>1. /\ Late = 3 /\ Late' = 0 /\ MaxDuration \in Nat /\ MaxDuration' = MaxDuration /\ phaseAge \in Nat
    BY <1>0, Durations, DurationsStay DEF NextTick, Late, maxPollFailures, ControlInv, TypeOK
  <1>2. \A t \in Tracks : TrackTime(t) /\ AlbumTime(t)
    BY <1>0 DEF TimeInv
  <1>3. \A t \in Tracks : ~ Ahead(t) /\ ~ AlbumAhead(t) /\ Ahead(t)' /\ AlbumAhead(t)'
    BY <1>0 DEF Ahead, AlbumAhead
  <1>4. ASSUME NEW t \in Tracks, Undecided(t)
        PROVE  /\ phaseAge <= TrackDue(MaxDuration, tracker[t].age, tracker[t].counter, 0)
               /\ phaseAge <= 2 * MaxDuration + 9
    <2> DEFINE age == tracker[t].age
               c == tracker[t].counter
    <2>1. tracker[t] \in Trackers
      BY <1>4, Records DEF Undecided
    <2>2. age \in Nat /\ c \in Nat
      BY <2>1, Durations DEF Trackers, Ages
    <2>3. /\ phaseAge <= TrackDue(MaxDuration, age, c, 3)
          /\ age > MaxDuration => c = 1 /\ phaseAge <= MaxDuration + 6
      BY <1>1, <1>2, <1>3, <1>4 DEF TrackTime
    <2> HIDE DEF age, c
    <2>4. phaseAge <= TrackDue(MaxDuration, age, c, 0) /\ phaseAge <= 2 * MaxDuration + 9
      <3>1. CASE age <= MaxDuration
        BY <1>1, <2>2, <2>3, <3>1, DueNextRound
      <3>2. CASE age > MaxDuration
        <4>1. c = 1 /\ phaseAge <= MaxDuration + 6 /\ ~ (age <= MaxDuration)
          BY <1>1, <2>2, <2>3, <3>2
        <4> QED
          BY <1>1, <2>2, <4>1, DueNextRound
      <3> QED
        BY <1>1, <2>2, <3>1, <3>2
    <2> QED
      BY <2>4 DEF age, c
  <1>5. ASSUME NEW t \in Tracks, pendingAlbums[t] # None
        PROVE  /\ phaseAge <= AlbumDue(MaxDuration, pendingAlbums[t].age, 0)
               /\ phaseAge <= 2 * MaxDuration + 9
    <2> DEFINE age == pendingAlbums[t].age
    <2>1. pendingAlbums[t] \in Albums
      BY <1>5, Records
    <2>2. age \in Nat
      BY <2>1, Durations DEF Albums, Ages
    <2>3. phaseAge <= AlbumDue(MaxDuration, age, 3) /\ ~ (age > MaxDuration)
      BY <1>1, <1>2, <1>3, <1>5 DEF AlbumTime
    <2> HIDE DEF age
    <2>4. age <= MaxDuration
      BY <1>1, <2>2, <2>3
    <2>5. phaseAge <= AlbumDue(MaxDuration, age, 0) /\ phaseAge <= 2 * MaxDuration + 9
      BY <1>1, <2>2, <2>3, <2>4, DueNextRound
    <2> QED
      BY <2>5 DEF age
  <1>6. \A t \in Tracks : TrackTime(t)' /\ AlbumTime(t)'
    <2> SUFFICES ASSUME NEW t \in Tracks PROVE TrackTime(t)' /\ AlbumTime(t)'
      OBVIOUS
    <2>1. ~ (hasID[t] /\ ~ present[t] /\ tracker[t] = None)
      BY <1>2, <1>3 DEF TrackTime
    <2> QED
      BY <1>0, <1>1, <1>3, <1>4, <1>5, <2>1 DEF TrackTime, AlbumTime, Undecided
  <1>7. (\E t \in Tracks : Undecided(t)) \/ (\E t \in Tracks : pendingAlbums[t] # None)
    BY <1>0 DEF Open, tracksProcessed, Undecided
  <1>8. phaseAge' <= 2 * MaxDuration + 9 + Late'
    BY <1>0, <1>1, <1>4, <1>5, <1>7
  <1> QED
    BY <1>6, <1>8

LEMMA TimeStep == MonitorInv /\ [Next]_vars => TimeInv'
  <1> SUFFICES ASSUME MonitorInv, [Next]_vars, MaxDuration > 0, outcome' = "running"
               PROVE  /\ \A t \in Tracks : TrackTime(t)' /\ AlbumTime(t)'
                      /\ phaseAge' <= 2 * MaxDuration + 9 + Late'
    BY DurationsStay DEF TimeInv
  <1>1. CASE PollFails \/ PollSucceeds
    BY <1>1, TimeAfterPoll
  <1>2. ASSUME NEW t \in Tracks, Visit(t)
        PROVE  /\ \A u \in Tracks : TrackTime(u)' /\ AlbumTime(u)'
               /\ phaseAge' <= 2 * MaxDuration + 9 + Late'
    BY <1>2, TimeAfterLook
  <1>3. CASE MigratePendingAlbums
    BY <1>3, TimeAfterAlbum
  <1>4. CASE NextTick
    BY <1>4, TimeNextRound
  <1>5. CASE Peers \/ UNCHANGED vars
    <2>1. /\ UNCHANGED <<phaseAge, outcome, pc, cursor, tracker, pendingAlbums, hasID, present>>
          /\ Late' = Late /\ MaxDuration' = MaxDuration
      BY <1>5, DurationsStay DEF Peers, vars, control, results, Late
    <2>2. (\A t \in Tracks : TrackTime(t) /\ AlbumTime(t)) /\ phaseAge <= 2 * MaxDuration + 9 + Late
      BY <2>1 DEF MonitorInv, TimeInv
    <2> QED
      BY <2>1, <2>2 DEF TrackTime, AlbumTime, Undecided, Ahead, AlbumAhead
  <1>6. CASE Finish \/ FallBack
    BY <1>6 DEF Finish, FallBack
  <1> QED
    BY <1>1, <1>2, <1>3, <1>4, <1>5, <1>6 DEF Next, Monitor, Returned

-----------------------------------------------------------------------------
(* The theorems *)

LEMMA MonitorStarts == Init => MonitorInv
  <1> SUFFICES ASSUME Init PROVE MonitorInv
    OBVIOUS
  <1>1. /\ cfg \in MonitorConfigs /\ StallDuration \in Nat /\ MaxDuration \in Nat /\ FallbackAfter \in Nat
        /\ PhaseCap \in Nat
    BY MonitorAssumption DEF Init, StallDuration, MaxDuration, FallbackAfter, PhaseCap, maxPollFailures
  <1>2. /\ albumFiles \in [Tracks -> SUBSET Siblings]
        /\ \A t \in Tracks : albumFiles[t] = {s \in Siblings : Owner[s] = t /\ sibling[s] # "none"}
    BY DEF Init
  <1>3. TypeOK
    <2>1. /\ xfer \in [Tracks -> States] /\ sibling \in [Siblings -> States]
          /\ bytes \in [Tracks -> Nat] /\ \A t \in Tracks : bytes[t] <= Size[t]
      BY MonitorAssumption DEF Init, States
    <2>2. snapshot \in [Tracks -> [state : States \cup {"missing"}, bytes : Nat]]
      BY DEF Init, Missing
    <2>3. /\ tracker = [t \in Tracks |-> None] /\ pendingAlbums = [t \in Tracks |-> None]
          /\ pollFailures \in 0..maxPollFailures /\ phaseAge \in 0..PhaseCap
      BY <1>1 DEF Init, maxPollFailures
    <2> QED
      BY <1>1, <1>2, <2>1, <2>2, <2>3 DEF Init, TypeOK
  <1>4. ControlInv /\ VerdictInv /\ PresentMeansLanded
    BY DEF Init, ControlInv, VerdictInv, PresentMeansLanded, maxPollFailures
  <1>5. SiblingInv
    BY <1>2, MonitorAssumption DEF Init, SiblingInv, SiblingsSettled
  <1>6. FallbackInv
    BY <1>1 DEF Init, FallbackInv, Late
  <1>7. TimeInv
    <2>1. Late = 0 /\ phaseAge = 0 /\ \A t \in Tracks : tracker[t] = None /\ pendingAlbums[t] = None /\ Ahead(t)
      BY DEF Init, Late, Ahead
    <2> QED
      BY <1>1, <2>1 DEF TimeInv, TrackTime, AlbumTime, Undecided
  <1> QED
    BY <1>3, <1>4, <1>5, <1>6, <1>7 DEF MonitorInv

LEMMA MonitorInvariant == Spec => []MonitorInv
  <1>1. MonitorInv /\ [Next]_vars => MonitorInv'
    BY MonitorTypes, ControlStep, VerdictStep, LandedStep, SiblingStep, FallbackStep, TimeStep DEF MonitorInv
  <1> QED
    BY <1>1, MonitorStarts, PTL DEF Spec

\* The monitor's maps, the tracks' fields and the transfers keep their types; a
\* tracker's counter of absences never passes two.
THEOREM MonitorTypeCorrect == Spec => []TypeOK
  <1>1. MonitorInv => TypeOK
    BY DEF MonitorInv
  <1> QED
    BY <1>1, MonitorInvariant, PTL

\* "The song never landed in the library, so it must not be marked Present".
THEOREM PresentHasLanded == Spec => []PresentMeansLanded
  <1>1. MonitorInv => PresentMeansLanded
    BY DEF MonitorInv
  <1> QED
    BY <1>1, MonitorInvariant, PTL

\* Every sibling is waited for, in the library, or lost at the provider, and none
\* is moved before it is complete.
THEOREM NoSiblingForgotten == Spec => []SiblingsSettled
  <1>1. MonitorInv => SiblingsSettled
    BY DEF MonitorInv, SiblingInv
  <1> QED
    BY <1>1, MonitorInvariant, PTL

\* FallbackAfter bounds the phase, give or take the polls that may fail in a row.
THEOREM FallbackBoundsPhase == Spec => []FallbackBounds
  <1>1. ASSUME MonitorInv PROVE FallbackBounds
    <2>1. FallbackAfter \in Nat /\ phaseAge \in Nat /\ pollFailures \in 0..3
      BY <1>1, Durations DEF MonitorInv, TypeOK, maxPollFailures
    <2> QED
      BY <1>1, <2>1 DEF MonitorInv, FallbackInv, FallbackBounds, Late, maxPollFailures
  <1> QED
    BY <1>1, MonitorInvariant, PTL

\* MaxDuration bounds it too, however slowly peers send and whatever the polls
\* miss: no peer can hold the monitor open.
THEOREM MaxDurationBoundsPhase == Spec => []MaxDurationBounds
  <1>1. ASSUME MonitorInv PROVE MaxDurationBounds
    <2>1. MaxDuration \in Nat /\ phaseAge \in Nat /\ pollFailures \in 0..3
      BY <1>1, Durations DEF MonitorInv, TypeOK, maxPollFailures
    <2> QED
      BY <1>1, <2>1 DEF MonitorInv, TimeInv, MaxDurationBounds, Late, maxPollFailures
  <1> QED
    BY <1>1, MonitorInvariant, PTL

\* A track is decided once in a phase: what has arrived stays, what was given up
\* never comes back.
THEOREM VerdictsAreFinal == Spec => VerdictsStand
  <1> DEFINE Final == \A t \in Tracks : /\ present[t] => present'[t] /\ tracker'[t] = None
                                        /\ Skipped(t) => ~ present'[t] /\ tracker'[t].skipped
  <1>1. ASSUME MonitorInv, [Next]_vars PROVE [Final]_vars
    <2> USE DEF MonitorInv
    <2>0. /\ tracker \in [Tracks -> Trackers \cup {None}] /\ present \in [Tracks -> BOOLEAN]
          /\ \A t \in Tracks : present[t] => tracker[t] = None
      BY <1>1 DEF TypeOK, Trackers, VerdictInv
    <2>1. ASSUME UNCHANGED <<tracker, present>> PROVE Final
      BY <2>0, <2>1 DEF Skipped
    <2>2. CASE PollFails \/ PollSucceeds
      <3>1. TimePasses /\ UNCHANGED present
        BY <2>2 DEF PollFails, PollSucceeds
      <3> QED
        BY <1>1, <2>0, <3>1, Ticks DEF Skipped
    <2>3. ASSUME NEW t \in Tracks, Visit(t) PROVE Final
      <3>1. CASE Passed(t)
        BY <2>1, <3>1 DEF Passed
      <3>2. CASE Waits(t) \/ Drops(t)
        <4>1. PICK r \in Trackers : tracker' = [tracker EXCEPT ![t] = r]
          BY <3>2 DEF Waits, Drops, Noted
        <4>2. ~ Skipped(t) /\ ~ present[t] /\ UNCHANGED present
          BY <3>2 DEF Waits, Drops, Watched
        <4> QED
          BY <2>0, <4>1, <4>2 DEF Skipped
      <3>3. CASE Lands(t)
        <4>1. tracker' = [tracker EXCEPT ![t] = None] /\ present' = [present EXCEPT ![t] = TRUE]
          BY <1>1, <3>3, Landing DEF Lands
        <4>2. ~ Skipped(t)
          BY <3>3 DEF Lands, Watched
        <4> QED
          BY <2>0, <4>1, <4>2 DEF Skipped
      <3> QED
        BY <1>1, <2>3, <3>1, <3>2, <3>3, Looks
    <2> QED
      BY <1>1, <2>1, <2>2, <2>3
         DEF Next, Monitor, Returned, vars, results, Peers, MigratePendingAlbums, Finish, FallBack, NextTick
  <1> QED
    BY <1>1, MonitorInvariant, PTL DEF Spec, VerdictsStand
=============================================================================
