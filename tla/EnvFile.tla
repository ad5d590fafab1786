------------------------------ MODULE EnvFile ------------------------------
(* The settings API and the .env file: requests that decide on new values for *)
(* some keys, some of them from the file as it was a moment ago, and then     *)
(* UpdateEnvKeys or a whole new text under envFileMu; the write by a renamed  *)
(* temporary file, or in place when the rename fails; crashes and restarts of *)
(* the server in between.                                                     *)
(*                                                                            *)
(* A value is the set of its words, and a key with none is not in the file.   *)
(* Of the keys, FLAGS and SCHEDULE are modelled per playlist, the others as   *)
(* one key per handler that writes them together.                             *)
EXTENDS Integers

CONSTANTS Requests,    \* requests served at the same time
          Playlists,   \* those with keys in .env
          BuiltIn,     \* the ones of defs.PlaylistDefs; the others are custom
          Instance,    \* the place of a playlist in keys that belong to none
          RawTexts,    \* texts typed into the editor
          SampleEnv,   \* the file of a new installation
          MaxRequests, \* bound on the requests
          NoRequest, NoEdit

Singles == {"USER", "DISCOVERY", "SYSTEM", "ADMIN", "SERVICES", "TEMPLATE"} \X {Instance}
Keys == {"FLAGS", "SCHEDULE"} \X Playlists \cup Singles
Injected == {"keep", "clean", "local"}
Words == Injected \cup {"base", "on", "typed"}
Files == [Keys -> SUBSET Words]
Blank == [k \in Keys |-> {}]

ASSUME EnvAssumption ==
    /\ Instance \notin Playlists /\ BuiltIn \subseteq Playlists /\ NoRequest \notin Requests /\ MaxRequests \in Nat
    /\ RawTexts \subseteq Files /\ SampleEnv \in Files
    /\ \A d \in SUBSET Keys : NoEdit \notin [d -> SUBSET Words]

VARIABLES file,    \* what .env says
          mutex,   \* who holds envFileMu
          before,  \* what that request read
          pc,      \* where each request is
          edit,    \* the updates it has decided on
          next,    \* what its handler does after the save
          aim,     \* history: the words of the file it is about, <<key, word>> pairs,
                   \* and those of its keys that have changed since its handler read it
          environ, \* the server's environment
          users,   \* users.json has users
          requestsLeft

req == <<pc, edit, next, aim>>
vars == <<file, mutex, before, req, environ, users, requestsLeft>>

Updated(f, e) == [k \in Keys |-> IF k \in DOMAIN e THEN e[k] ELSE f[k]]

Init == /\ file \in {SampleEnv} \cup RawTexts
        /\ mutex = NoRequest /\ before = Blank
        /\ pc = [r \in Requests |-> "idle"]
        /\ edit = [r \in Requests |-> NoEdit]
        /\ next = [r \in Requests |-> "reply"]
        /\ aim = [r \in Requests |-> {}]
        /\ environ = file
        /\ users \in BOOLEAN
        /\ requestsLeft \in 0..MaxRequests

-----------------------------------------------------------------------------
(* What the handlers ask for *)

Key(name) == <<name, Instance>>
Flags(p) == <<"FLAGS", p>>
Schedule(p) == <<"SCHEDULE", p>>

\* playlistFlagsKey and its callers: an absent key stands for the default.
Current(p) == IF file[Flags(p)] = {} THEN {"base"} ELSE file[Flags(p)]

\* Broken variant: the flags in the file are not carried over.
Scheduling_NotMerged(p, to, read) ==
    [k \in {Flags(p), Schedule(p)} |->
        IF to = "off" THEN {}
        ELSE IF k = Flags(p) THEN {"base"}
        ELSE IF to = "never" THEN {} ELSE {"on"}]

\* HandleSaveSchedule: off, for manual runs only, or on; flags the UI knows are
\* carried over from the file, where it can be read.
Scheduling(p, to, read) ==
    [k \in {Flags(p), Schedule(p)} |->
        IF to = "off" THEN {}
        ELSE IF k = Flags(p) THEN {"base"} \cup (IF read THEN file[Flags(p)] \cap Injected ELSE {})
        ELSE IF to = "never" THEN {} ELSE {"on"}]

ScheduleAim(p, to, read) ==
    IF to = "off" \/ ~ read THEN {Flags(p), Schedule(p)} \X Words
    ELSE {Schedule(p)} \X Words \cup {Flags(p)} \X (Words \ Injected)

\* setPlaylistFlag: --replace-playlist=false or --download-mode=skip.
Toggled(p, f, enabled) ==
    [k \in {Flags(p)} |-> IF enabled THEN Current(p) \cup {f} ELSE Current(p) \ {f}]

\* HandleSaveCleanDownloads writes every built-in playlist's FLAGS, absent ones too.
CleanEdits ==
    {[k \in {Flags(p) : p \in BuiltIn} |->
        IF on THEN Current(k[2]) \cup {"clean"} ELSE Current(k[2]) \ {"clean"}] : on \in BOOLEAN}

\* The one-key handlers.
SingleEdits == {[k \in {Key("TEMPLATE")} |-> v] : v \in {{}, {"typed"}}}

\* HandleWizardStep1: with users, an absent user name keeps the stored one.
Enabling(enabled, named) ==
    [k \in {"FLAGS", "SCHEDULE"} \X BuiltIn \cup {Key("DISCOVERY")}
            \cup (IF named THEN {Key("USER")} ELSE {}) |->
        IF k[2] = Instance THEN {"typed"}
        ELSE IF k[2] \notin enabled THEN {}
        ELSE IF k[1] = "FLAGS" THEN {"base"} ELSE {"on"}]
MayBeNamed == IF users THEN BOOLEAN ELSE {TRUE}
Wizard1Edits == {Enabling(enabled, named) : enabled \in SUBSET BuiltIn, named \in MayBeNamed}

\* HandleWizardStep2: with users, empty admin secrets keep the stored ones.
Wizard2Edits ==
    {[k \in {Key("SYSTEM")} \cup (IF admin # {} \/ ~ users THEN {Key("ADMIN")} ELSE {}) |->
        IF k = Key("ADMIN") THEN admin ELSE {"typed"}] : admin \in {{}, {"typed"}}}

Wizard3Edits == {[k \in {Key("SERVICES")} |-> {"typed"}]}

\* HandleSaveConfig takes any text that parses, HandleResetConfig the sample.
Texts == RawTexts

Decide(r, e, about, after) ==
    /\ pc[r] = "idle" /\ requestsLeft > 0
    /\ pc' = [pc EXCEPT ![r] = "lock"]
    /\ edit' = [edit EXCEPT ![r] = e]
    /\ aim' = [aim EXCEPT ![r] = about]
    /\ next' = [next EXCEPT ![r] = after]
    /\ requestsLeft' = requestsLeft - 1
    /\ UNCHANGED <<file, mutex, before, environ, users>>

\* A request that writes its keys whatever they were.
Overwrites(r, e, after) == Decide(r, e, (DOMAIN e) \X Words, after)

Requested(r) ==
    \/ \E p \in Playlists, to \in {"off", "never", "cron"}, read \in BOOLEAN :
          Decide(r, Scheduling(p, to, read), ScheduleAim(p, to, read), "reply")
    \/ \E p \in Playlists, f \in {"keep", "local"}, enabled \in BOOLEAN :
          Decide(r, Toggled(p, f, enabled), {Flags(p)} \X {"base", f}, "reply")
    \/ \E e \in CleanEdits : Decide(r, e, (DOMAIN e) \X {"base", "clean"}, "reply")
    \/ \E e \in SingleEdits \cup Wizard2Edits \cup Wizard3Edits \cup Texts : Overwrites(r, e, "reply")
    \/ \E e \in Wizard1Edits : Overwrites(r, e, "setenv")
    \/ Overwrites(r, SampleEnv, "restart")

-----------------------------------------------------------------------------
(* The save *)

Goto(r, s) == pc' = [pc EXCEPT ![r] = s]

\* Broken variant: the file is read before the mutex is taken.
Lock_ReadFirst(r) ==
    \/ /\ pc[r] = "lock" /\ mutex # NoRequest
       /\ Goto(r, "read")
       /\ UNCHANGED <<file, mutex, before, edit, next, aim, environ, users, requestsLeft>>
    \/ /\ pc[r] \in {"lock", "read"} /\ mutex = NoRequest
       /\ mutex' = r
       /\ before' = IF pc[r] = "lock" THEN file ELSE before
       /\ Goto(r, "write")
       /\ UNCHANGED <<file, edit, next, aim, environ, users, requestsLeft>>

\* envFileMu.Lock and ReadFile.
Lock(r) ==
    /\ pc[r] = "lock" /\ mutex = NoRequest
    /\ mutex' = r
    /\ before' = file
    /\ Goto(r, "write")
    /\ UNCHANGED <<file, edit, next, aim, environ, users, requestsLeft>>

Differences(f, g) == {e \in Keys \X Words : e[2] \in f[e[1]] <=> e[2] \notin g[e[1]]}

\* The others have read the file as it was before this step of r.
Overtake(r, own) ==
    aim' = [s \in Requests |->
              IF s = r THEN own
              ELSE IF pc[s] = "lock" THEN aim[s] \cup {d \in Differences(file, file') : d[1] \in DOMAIN edit[s]}
              ELSE aim[s]]

Unlock(r, s) ==
    /\ mutex' = NoRequest /\ before' = Blank
    /\ edit' = [edit EXCEPT ![r] = IF s = "setenv" THEN @ ELSE NoEdit]
    /\ Overtake(r, {})
    /\ next' = [next EXCEPT ![r] = "reply"]
    /\ Goto(r, IF s = "reply" THEN "idle" ELSE s)
    /\ UNCHANGED <<environ, users, requestsLeft>>

\* writeEnvFileAtomic: the temporary file is renamed over .env ...
Rename(r) ==
    /\ pc[r] = "write"
    /\ file' = Updated(before, edit[r])
    /\ Unlock(r, next[r])

\* ... or, whatever the error of the rename, .env is truncated and written in place.
Truncate(r) ==
    /\ pc[r] = "write"
    /\ file' = Blank
    /\ Overtake(r, aim[r])
    /\ Goto(r, "inPlace")
    /\ UNCHANGED <<mutex, before, edit, next, environ, users, requestsLeft>>

WriteInPlace(r) ==
    /\ pc[r] = "inPlace"
    /\ file' = Updated(before, edit[r])
    /\ Unlock(r, next[r])

\* validateEnvUpdate or validateEnvText finds a value or a line it cannot take.
Rejected(r) ==
    /\ pc[r] = "lock"
    /\ edit' = [edit EXCEPT ![r] = NoEdit] /\ next' = [next EXCEPT ![r] = "reply"]
    /\ aim' = [aim EXCEPT ![r] = {}]
    /\ Goto(r, "idle")
    /\ UNCHANGED <<file, mutex, before, environ, users, requestsLeft>>

\* The temporary file, or the file itself, cannot be written.
SaveFails(r) ==
    /\ pc[r] \in {"write", "inPlace"}
    /\ UNCHANGED file
    /\ Unlock(r, "reply")

\* HandleWizardStep1 puts its values into the process's environment as well.
SetEnv(r) ==
    /\ pc[r] = "setenv"
    /\ environ' = Updated(environ, edit[r])
    /\ edit' = [edit EXCEPT ![r] = NoEdit]
    /\ Goto(r, "idle")
    /\ UNCHANGED <<file, mutex, before, next, aim, users, requestsLeft>>

\* The server is killed, or terminated by HandleResetConfig; the next one gets
\* its environment from the file.
Restart ==
    /\ pc' = [r \in Requests |-> "idle"]
    /\ edit' = [r \in Requests |-> NoEdit]
    /\ next' = [r \in Requests |-> "reply"] /\ aim' = [r \in Requests |-> {}]
    /\ mutex' = NoRequest /\ before' = Blank
    /\ environ' = file
    /\ UNCHANGED <<file, users, requestsLeft>>

\* The users API, elsewhere.
UsersChange ==
    /\ requestsLeft > 0
    /\ users' = ~ users
    /\ UNCHANGED <<file, mutex, before, req, environ, requestsLeft>>

Serve == UsersChange
         \/ \E r \in Requests : \/ Requested(r) \/ Lock(r) \/ Rename(r) \/ Truncate(r)
                                \/ WriteInPlace(r) \/ Rejected(r) \/ SaveFails(r) \/ SetEnv(r)

Next == Serve \/ Restart

Spec == Init /\ [][Next]_vars

-----------------------------------------------------------------------------
(* Properties *)

IsEdit(e) == e \in [DOMAIN e -> SUBSET Words] /\ DOMAIN e \subseteq Keys

\* The values of the file, of the environment and of the requests.
TypeOK ==
    /\ file \in Files /\ before \in Files /\ environ \in Files
    /\ users \in BOOLEAN /\ requestsLeft \in Nat
    /\ mutex \in Requests \cup {NoRequest}
    /\ pc \in [Requests -> {"idle", "lock", "write", "inPlace", "setenv", "restart"}]
    /\ DOMAIN edit = Requests /\ \A r \in Requests : edit[r] = NoEdit \/ IsEdit(edit[r])
    /\ next \in [Requests -> {"reply", "setenv", "restart"}]
    /\ aim \in [Requests -> SUBSET (Keys \X Words)]

\* UpdateEnvKeys: requests in any interleaving change the file one whole edit at a
\* time, and an edit leaves the keys it does not name as the save before it had
\* them; a save that is cut short or fails leaves the file as it was or blank.
Store == INSTANCE EnvStore WITH
    env <- IF \E r \in Requests : pc[r] = "inPlace" THEN before ELSE file,
    wanted <- [r \in Requests |-> IF pc[r] \in {"lock", "write", "inPlace"} THEN edit[r] ELSE NoEdit]
EditsAreWhole == Store!Spec

\* setPlaylistFlag leaves "every other flag as it found it" (handlers.go:278), and
\* the other handlers what they are not about: a save undoes another's change
\* only if its handler read the file, which it does before envFileMu is taken,
\* before that change was there.
Written(r) == mutex = r /\ mutex' = NoRequest /\ file' = Updated(before, edit[r])
OthersAsFound ==
    [][\A r \in Requests : Written(r) => Differences(before, file') \subseteq aim[r]]_vars
=============================================================================
