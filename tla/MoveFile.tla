------------------------------ MODULE MoveFile ------------------------------
(***************************************************************************)
(* Moving a finished download into the library: moveTrack, moveFile and    *)
(* removeDirIfEmpty, system call by system call.  Every call may fail and  *)
(* the process may die between any two of them.  One explo process moves   *)
(* one file at a time; two processes share a library when jobs overlap.    *)
(***************************************************************************)
EXTENDS Naturals, FiniteSets

CONSTANTS Moves,     \* the downloads to move; a move is also the name of its song
          Processes, \* explo processes
          Proc,      \* Proc[m]: the process that moves m
          Paths,     \* files of the download and library directories
          Source,    \* Source[m]: srcFile
          Target,    \* Target[m]: dstFile
          Dirs, Dir, \* Dir[p]: the directory of path p
          Library,   \* Library[p]: the song the library holds at p, or NoSong
          Songs,     \* the moves and the songs of the library
          KeepPerms, \* keepPermissions
          Tries,     \* bound: times a move is attempted
          NoSong

ASSUME MoveAssumption == /\ Proc \in [Moves -> Processes]
                         /\ Source \in [Moves -> Paths] /\ Target \in [Moves -> Paths]
                         /\ Dir \in [Paths -> Dirs]
ASSUME SongAssumption == Moves \subseteq Songs /\ NoSong \notin Songs /\ Library \in [Paths -> Songs \cup {NoSong}]
\* Downloads are told apart, the library holds none of them, and no download's
\* path is another one's target.
ASSUME PathAssumption ==
    \A m \in Moves : /\ Library[Source[m]] = NoSong
                     /\ \A q \in Paths : Library[q] \notin Moves
                     /\ \A n \in Moves \ {m} : Source[n] # Source[m] /\ Source[n] # Target[m]

ASSUME TriesAssumption == Tries \in Nat

VARIABLES
    files,   \* files[p]: what path p holds
    dirs,    \* the directories that exist
    at,      \* where each move is
    dead,    \* processes that died
    empty,   \* empty[m]: what isDirEmpty saw
    tries,   \* attempts made at each move
    unseen   \* moves that went on to create their file without a look at the destination

moveVars == <<files, dirs, at, dead, empty, tries, unseen>>

Absent == [song |-> NoSong, whole |-> FALSE]
File(s) == [song |-> s, whole |-> TRUE]
Torso(s) == [song |-> s, whole |-> FALSE]
Exists(p) == files[p] # Absent

Resting == {"away", "ready", "moved", "failed"}
Working == {"stat", "open", "create", "copy", "sync", "chmod", "remove", "look", "rmdir"}
Idle(p) == p \notin dead /\ \A m \in Moves : Proc[m] = p => at[m] \in Resting

Goto(m, where) == at' = [at EXCEPT ![m] = where]

MoveInit ==
    /\ files = [p \in Paths |-> IF Library[p] = NoSong THEN Absent ELSE File(Library[p])]
    /\ dirs = {Dir[p] : p \in {q \in Paths : Library[q] # NoSong}}
    /\ at = [m \in Moves |-> "away"]
    /\ dead = {}
    /\ empty = [m \in Moves |-> FALSE]
    /\ tries = [m \in Moves |-> 0]
    /\ unseen = {}

-----------------------------------------------------------------------------

\* slskd has the file whole in the download directory.
Appears(m) ==
    /\ at[m] = "away"
    /\ ~Exists(Source[m])
    /\ files' = [files EXCEPT ![Source[m]] = File(m)]
    /\ dirs' = dirs \cup {Dir[Source[m]]}
    /\ Goto(m, "ready")
    /\ UNCHANGED <<dead, empty, tries, unseen>>

\* The monitor moves it, or a later run tries again.
Start(m) ==
    /\ at[m] \in {"ready", "failed"}
    /\ Idle(Proc[m])
    /\ tries[m] < Tries
    /\ tries' = [tries EXCEPT ![m] = @ + 1]
    /\ Goto(m, "stat")
    /\ UNCHANGED <<files, dirs, dead, empty, unseen>>

Fails(m) == Goto(m, "failed") /\ UNCHANGED <<files, dirs, dead, empty, tries, unseen>>

AlreadyThere(m) ==
    /\ at[m] = "stat"
    /\ Source[m] = Target[m]
    /\ Goto(m, "look")
    /\ UNCHANGED <<files, dirs, dead, empty, tries, unseen>>

Refuses(m) ==
    /\ at[m] = "stat"
    /\ Source[m] # Target[m]
    /\ Exists(Source[m]) /\ Exists(Target[m])
    /\ Fails(m)

\* Broken variant: the destination is not looked at.
Stat_SourceOnly(m) ==
    /\ at[m] = "stat"
    /\ Source[m] # Target[m]
    /\ Goto(m, "open")
    /\ UNCHANGED <<files, dirs, dead, empty, tries, unseen>>

Stat(m) ==
    /\ at[m] = "stat"
    /\ Source[m] # Target[m]
    /\ Exists(Source[m]) /\ ~Exists(Target[m])
    /\ Goto(m, "open")
    /\ UNCHANGED <<files, dirs, dead, empty, tries, unseen>>

\* Any error of os.Stat is taken for "not there", of the source (the destination is
\* then not looked at, it may be that the source is gone) and of the destination.
StatErrs(m) ==
    /\ at[m] = "stat"
    /\ Source[m] # Target[m]
    /\ unseen' = unseen \cup {m}
    /\ Goto(m, "open")
    /\ UNCHANGED <<files, dirs, dead, empty, tries>>

\* os.OpenSource, then MkdirAll for the destination.
OpenSource(m) ==
    /\ at[m] = "open"
    /\ Exists(Source[m])
    /\ dirs' = dirs \cup {Dir[Target[m]]}
    /\ Goto(m, "create")
    /\ UNCHANGED <<files, dead, empty, tries, unseen>>

\* os.Create truncates whatever is at the destination by now.
Create(m) ==
    /\ at[m] = "create"
    /\ Dir[Target[m]] \in dirs
    /\ files' = [files EXCEPT ![Target[m]] = Torso(m)]
    /\ Goto(m, "copy")
    /\ UNCHANGED <<dirs, dead, empty, tries, unseen>>

\* A file two processes write into at once is neither song.
Copy(m) ==
    /\ at[m] = "copy"
    /\ files' = [files EXCEPT ![Target[m]] = IF @ = Torso(m) THEN File(m) ELSE Torso(@.song)]
    /\ Goto(m, "sync")
    /\ UNCHANGED <<dirs, dead, empty, tries, unseen>>

\* Broken variant: the error of io.Copy is not looked at.
CopyFails_Ignored(m) ==
    /\ at[m] = "copy"
    /\ Goto(m, "sync")
    /\ UNCHANGED <<files, dirs, dead, empty, tries, unseen>>

\* What was copied so far stays at the destination.
CopyFails(m) == at[m] = "copy" /\ Fails(m)

Sync(m) ==
    /\ at[m] = "sync"
    /\ Goto(m, IF KeepPerms THEN "chmod" ELSE "remove")
    /\ UNCHANGED <<files, dirs, dead, empty, tries, unseen>>

Chmod(m) ==
    /\ at[m] = "chmod"
    /\ Goto(m, "remove")
    /\ UNCHANGED <<files, dirs, dead, empty, tries, unseen>>

Remove(m) ==
    /\ at[m] = "remove"
    /\ Exists(Source[m])
    /\ files' = [files EXCEPT ![Source[m]] = Absent]
    /\ Goto(m, "look")
    /\ UNCHANGED <<dirs, dead, empty, tries, unseen>>

LookIntoDir(m) ==
    /\ at[m] = "look"
    /\ empty' = [empty EXCEPT ![m] = \A p \in Paths : Dir[p] = Dir[Source[m]] => ~Exists(p)]
    /\ Goto(m, "rmdir")
    /\ UNCHANGED <<files, dirs, dead, tries, unseen>>

\* Broken variant: the whole download directory is removed once a file has left it.
RemoveDir_All(m) ==
    /\ at[m] = "rmdir"
    /\ dirs' = dirs \ {Dir[Source[m]]}
    /\ files' = [p \in Paths |-> IF Dir[p] = Dir[Source[m]] /\ Source[m] # Target[m] THEN Absent ELSE files[p]]
    /\ Goto(m, "moved")
    /\ UNCHANGED <<dead, empty, tries, unseen>>

\* os.Remove refuses a directory another download has come into since.
RemoveDir(m) ==
    /\ at[m] = "rmdir"
    /\ empty[m] => \A p \in Paths : Dir[p] = Dir[Source[m]] => ~Exists(p)
    /\ dirs' = IF empty[m] THEN dirs \ {Dir[Source[m]]} ELSE dirs
    /\ Goto(m, "moved")
    /\ UNCHANGED <<files, dead, empty, tries, unseen>>

\* Any other call of moveTrack, the ones before moveFile included, or of
\* moveFile that returns an error.
CallFails(m) ==
    /\ at[m] \in {"stat", "open", "create", "sync", "chmod", "remove", "look", "rmdir"}
    /\ Fails(m)

Crash(p) ==
    /\ p \notin dead
    /\ dead' = dead \cup {p}
    /\ UNCHANGED <<files, dirs, at, empty, tries, unseen>>

\* The next scheduled run finds what the dead one left.
Restart(p) ==
    /\ p \in dead
    /\ dead' = dead \ {p}
    /\ at' = [m \in Moves |-> IF Proc[m] = p /\ at[m] \in Working THEN "failed" ELSE at[m]]
    /\ UNCHANGED <<files, dirs, empty, tries, unseen>>

-----------------------------------------------------------------------------

MoveStep(m) ==
    \/ Start(m)
    \/ AlreadyThere(m) \/ Refuses(m) \/ Stat(m) \/ StatErrs(m)
    \/ OpenSource(m) \/ Create(m) \/ Copy(m) \/ CopyFails(m)
    \/ Sync(m) \/ Chmod(m) \/ Remove(m)
    \/ LookIntoDir(m) \/ RemoveDir(m) \/ CallFails(m)

MoveNext ==
    \/ \E m \in Moves : Appears(m) \/ (Proc[m] \notin dead /\ MoveStep(m))
    \/ \E p \in Processes : Crash(p) \/ Restart(p)

MoveSpec == MoveInit /\ [][MoveNext]_moveVars

-----------------------------------------------------------------------------
(* Properties *)

\* The values of the file system and of the moves.
MoveTypeOK ==
    /\ files \in [Paths -> [song : Songs \cup {NoSong}, whole : BOOLEAN]]
    /\ dirs \subseteq Dirs
    /\ at \in [Moves -> Resting \cup Working]
    /\ dead \subseteq Processes
    /\ empty \in [Moves -> BOOLEAN]
    /\ tries \in [Moves -> 0..Tries]
    /\ unseen \subseteq Moves

Delivered(p) == \E m \in Moves : p = Source[m] /\ files[p] = File(m) /\ files'[Target[m]] = File(m)

\* "never erase an existing destination" (downloader.go:389): a whole file leaves
\* its path only as the source of a move that has its copy in the library, or is
\* erased by a move to its path that could not look at it.
OnlyUnseenErased ==
    [][\A p \in Paths : files[p].whole /\ files'[p] # files[p] =>
          Delivered(p) \/ \E m \in unseen : p = Target[m] /\ files'[p] = Torso(m)]_moveVars

\* Whatever fails and whenever the process dies, a song that arrived is whole in
\* the download directory or in the library, or has had its place taken by a move
\* that could not look: never is there a torso of it, or nothing, instead.
NeverLost ==
    \A m \in Moves : at[m] # "away" =>
        \/ files[Source[m]] = File(m) \/ files[Target[m]] = File(m)
        \/ files[Target[m]].song \in unseen \ {m}

\* A move that reports success has its song whole at the destination, even when
\* an earlier attempt at the same name failed half way.
MovedMeansThere == [][\A m \in Moves : at[m] # "moved" /\ at'[m] = "moved" => files'[Target[m]] = File(m)]_moveVars
=============================================================================
