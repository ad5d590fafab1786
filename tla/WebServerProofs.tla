-------------------------- MODULE WebServerProofs --------------------------
(***************************************************************************)
(* What the web server's process promises, for any number of requests,     *)
(* playlists, browsers, calls and sessions. Of .env: requests change it    *)
(* one whole edit at a time, each changes what it is about and puts back   *)
(* at most what others changed since its handler read the file, and a      *)
(* failed write or a restart leaves it as it was, or blank where it was    *)
(* cut short in place. Of the sessions: one can be found under the ID it   *)
(* has, for an ID belongs to one session for ever, so that whoever takes   *)
(* an old one out of the store takes nobody's new one, and the login that  *)
(* changed the ID last is the one that has yet to put it in; and the token *)
(* of a browser that waits for its answers is refused only when its        *)
(* session is over. The two live in one process and end together; each is  *)
(* proved alone, and the process implements both.                          *)
(***************************************************************************)
EXTENDS WebServer, TLAPS

-----------------------------------------------------------------------------
(* PART 1: the settings API and .env *)

AtFile == {"write", "inPlace"}
HasEdit == {"lock", "write", "inPlace"}

\* envFileMu is held exactly by the request that has read the file.
MutexInv ==
    /\ \A r \in Requests : pc[r] \in AtFile <=> mutex = r
    /\ \A r \in Requests : pc[r] = "write" => before = file

\* A file that is being written in place was truncated first.
TornInv == \A r \in Requests : pc[r] = "inPlace" => file = Blank

\* A request has an edit in hand until the save is over.
EditInv == \A r \in Requests : /\ pc[r] \in HasEdit => edit[r] # NoEdit
                               /\ pc[r] \in {"idle", "restart"} => edit[r] = NoEdit
                               /\ pc[r] = "setenv" => IsEdit(edit[r])

EnvInv == TypeOK /\ MutexInv /\ TornInv /\ EditInv

-----------------------------------------------------------------------------
(* What the handlers decide on are edits *)

LEMMA EditRule ==
    ASSUME NEW D \in SUBSET Keys, NEW e \in [D -> SUBSET Words]
    PROVE  IsEdit(e) /\ e # NoEdit
  BY EnvAssumption DEF IsEdit

LEMMA KeyTypes ==
    /\ \A p \in Playlists : Flags(p) \in Keys /\ Schedule(p) \in Keys
    /\ \A n \in {"USER", "DISCOVERY", "SYSTEM", "ADMIN", "SERVICES", "TEMPLATE"} : Key(n) \in Keys
  BY DEF Keys, Singles, Flags, Schedule, Key

LEMMA UpdatedType ==
    ASSUME NEW f \in Files, NEW e, IsEdit(e) PROVE Updated(f, e) \in Files
  BY DEF Files, IsEdit, Updated

LEMMA CurrentType == ASSUME TypeOK, NEW p \in Playlists PROVE Current(p) \in SUBSET Words
  BY KeyTypes DEF TypeOK, Files, Current, Words

LEMMA AllWords == ASSUME NEW e, IsEdit(e) PROVE (DOMAIN e) \X Words \in SUBSET (Keys \X Words)
  BY DEF IsEdit

LEMMA ScheduleType ==
    ASSUME TypeOK, NEW p \in Playlists, NEW to \in {"off", "never", "cron"}, NEW read \in BOOLEAN
    PROVE  /\ IsEdit(Scheduling(p, to, read)) /\ Scheduling(p, to, read) # NoEdit
           /\ ScheduleAim(p, to, read) \in SUBSET (Keys \X Words)
  <1>1. {Flags(p), Schedule(p)} \in SUBSET Keys
    BY KeyTypes
  <1>2. Scheduling(p, to, read) \in [{Flags(p), Schedule(p)} -> SUBSET Words]
    BY DEF Scheduling, Words
  <1>3. ScheduleAim(p, to, read) \in SUBSET (Keys \X Words)
    BY <1>1 DEF ScheduleAim
  <1> QED
    BY <1>1, <1>2, <1>3, EditRule

LEMMA FlagType ==
    ASSUME TypeOK, NEW p \in Playlists, NEW f \in {"keep", "local"}, NEW enabled \in BOOLEAN
    PROVE  /\ IsEdit(Toggled(p, f, enabled)) /\ Toggled(p, f, enabled) # NoEdit
           /\ {Flags(p)} \X {"base", f} \in SUBSET (Keys \X Words)
  <1>1. {Flags(p)} \in SUBSET Keys
    BY KeyTypes
  <1>2. Toggled(p, f, enabled) \in [{Flags(p)} -> SUBSET Words]
    BY CurrentType DEF Toggled, Words, Injected
  <1>3. {"base", f} \in SUBSET Words
    BY DEF Words, Injected
  <1> QED
    BY <1>1, <1>2, <1>3, EditRule

LEMMA CleanType == ASSUME TypeOK, NEW e \in CleanEdits PROVE IsEdit(e) /\ e # NoEdit
  <1> DEFINE D == {Flags(p) : p \in BuiltIn}
  <1>1. PICK on \in BOOLEAN :
            e = [k \in D |-> IF on THEN Current(k[2]) \cup {"clean"} ELSE Current(k[2]) \ {"clean"}]
    BY DEF CleanEdits
  <1>2. D \in SUBSET Keys /\ \A k \in D : k[2] \in Playlists
    BY KeyTypes, EnvAssumption DEF Flags
  <1>3. \A k \in D : Current(k[2]) \in SUBSET Words
    BY <1>2, CurrentType
  <1>4. \A k \in D : e[k] \in SUBSET Words
    BY <1>1, <1>3 DEF Words, Injected
  <1>5. e \in [D -> SUBSET Words]
    BY <1>1, <1>4
  <1> QED
    BY <1>2, <1>5, EditRule

LEMMA SingleType == ASSUME NEW e \in SingleEdits PROVE IsEdit(e) /\ e # NoEdit
  <1>1. {Key("TEMPLATE")} \in SUBSET Keys
    BY KeyTypes
  <1>2. e \in [{Key("TEMPLATE")} -> SUBSET Words]
    BY DEF SingleEdits, Words
  <1> QED
    BY <1>1, <1>2, EditRule

LEMMA Wizard1Type == ASSUME NEW e \in Wizard1Edits PROVE IsEdit(e) /\ e # NoEdit
  <1>1. PICK enabled \in SUBSET BuiltIn, named \in MayBeNamed :
            e = Enabling(enabled, named)
    BY DEF Wizard1Edits
  <1> DEFINE D == {"FLAGS", "SCHEDULE"} \X BuiltIn \cup {Key("DISCOVERY")}
                \cup (IF named THEN {Key("USER")} ELSE {})
  <1>2. D \in SUBSET Keys
    BY KeyTypes, EnvAssumption DEF Keys
  <1>3. e \in [D -> SUBSET Words]
    BY <1>1 DEF Words, Enabling
  <1> QED
    BY <1>2, <1>3, EditRule

LEMMA Wizard2Type == ASSUME NEW e \in Wizard2Edits PROVE IsEdit(e) /\ e # NoEdit
  <1>1. PICK admin \in {{}, {"typed"}} :
            e = [k \in {Key("SYSTEM")} \cup (IF admin # {} \/ ~ users THEN {Key("ADMIN")} ELSE {}) |->
                    IF k = Key("ADMIN") THEN admin ELSE {"typed"}]
    BY DEF Wizard2Edits
  <1> DEFINE D == {Key("SYSTEM")} \cup (IF admin # {} \/ ~ users THEN {Key("ADMIN")} ELSE {})
  <1>2. D \in SUBSET Keys
    BY KeyTypes
  <1>3. e \in [D -> SUBSET Words]
    BY <1>1 DEF Words
  <1> QED
    BY <1>2, <1>3, EditRule

LEMMA Wizard3Type == ASSUME NEW e \in Wizard3Edits PROVE IsEdit(e) /\ e # NoEdit
  <1>1. {Key("SERVICES")} \in SUBSET Keys
    BY KeyTypes
  <1>2. e \in [{Key("SERVICES")} -> SUBSET Words]
    BY DEF Wizard3Edits, Words
  <1> QED
    BY <1>1, <1>2, EditRule

LEMMA TextType == ASSUME NEW e \in Files PROVE IsEdit(e) /\ e # NoEdit
  <1>1. Keys \in SUBSET Keys /\ e \in [Keys -> SUBSET Words]
    BY DEF Files
  <1> QED
    BY <1>1, EditRule

\* Whatever the handler, what it decides on is an edit.
LEMMA RequestedEdits ==
    ASSUME TypeOK, NEW r \in Requests, Requested(r)
    PROVE  \E e, about, after :
              /\ IsEdit(e) /\ e # NoEdit /\ about \in SUBSET (Keys \X Words)
              /\ after \in {"reply", "setenv", "restart"}
              /\ Decide(r, e, about, after)
  <1>1. CASE \E p \in Playlists, to \in {"off", "never", "cron"}, read \in BOOLEAN :
                Decide(r, Scheduling(p, to, read), ScheduleAim(p, to, read), "reply")
    BY <1>1, ScheduleType
  <1>2. CASE \E p \in Playlists, f \in {"keep", "local"}, enabled \in BOOLEAN :
                Decide(r, Toggled(p, f, enabled), {Flags(p)} \X {"base", f}, "reply")
    BY <1>2, FlagType
  <1>3. CASE \E e \in CleanEdits : Decide(r, e, (DOMAIN e) \X {"base", "clean"}, "reply")
    <2>1. PICK e \in CleanEdits : Decide(r, e, (DOMAIN e) \X {"base", "clean"}, "reply")
      BY <1>3
    <2>2. IsEdit(e) /\ e # NoEdit
      BY CleanType
    <2>3. (DOMAIN e) \X {"base", "clean"} \in SUBSET (Keys \X Words)
      BY <2>2 DEF IsEdit, Words, Injected
    <2> QED
      BY <2>1, <2>2, <2>3
  <1>4. ASSUME NEW e, IsEdit(e), e # NoEdit,
               NEW after \in {"reply", "setenv", "restart"}, Overwrites(r, e, after)
        PROVE  \E e2, about, after2 :
                  /\ IsEdit(e2) /\ e2 # NoEdit /\ about \in SUBSET (Keys \X Words)
                  /\ after2 \in {"reply", "setenv", "restart"}
                  /\ Decide(r, e2, about, after2)
    BY <1>4, AllWords DEF Overwrites
  <1>5. CASE \E e \in SingleEdits \cup Wizard2Edits \cup Wizard3Edits \cup Texts : Overwrites(r, e, "reply")
    <2>1. PICK e \in SingleEdits \cup Wizard2Edits \cup Wizard3Edits \cup Texts : Overwrites(r, e, "reply")
      BY <1>5
    <2>2. IsEdit(e) /\ e # NoEdit
      BY SingleType, Wizard2Type, Wizard3Type, TextType, EnvAssumption DEF Texts
    <2> QED
      BY <1>4, <2>1, <2>2
  <1>6. CASE \E e \in Wizard1Edits : Overwrites(r, e, "setenv")
    BY <1>4, <1>6, Wizard1Type
  <1>7. CASE Overwrites(r, SampleEnv, "restart")
    BY <1>4, <1>7, TextType, EnvAssumption
  <1> QED
    BY <1>1, <1>2, <1>3, <1>5, <1>6, <1>7 DEF Requested

-----------------------------------------------------------------------------
(* Type correctness and the mutex *)

LEMMA EnvInitInv == Init => EnvInv
  <1> SUFFICES ASSUME Init PROVE EnvInv
    OBVIOUS
  <1>1. file \in Files /\ Blank \in Files
    BY EnvAssumption DEF Init, Files, Blank
  <1>2. users \in BOOLEAN /\ aim \in [Requests -> SUBSET (Keys \X Words)]
    BY EnvAssumption DEF Init
  <1>3. requestsLeft \in Nat
    BY EnvAssumption DEF Init
  <1>4. DOMAIN edit = Requests /\ \A r \in Requests : edit[r] = NoEdit
    BY DEF Init
  <1>5. TypeOK
    BY <1>1, <1>2, <1>3, <1>4 DEF Init, TypeOK
  <1> QED
    BY <1>5, EnvAssumption DEF Init, EnvInv, MutexInv, TornInv, EditInv, AtFile, HasEdit

\* The file has an edit applied to it, or what it had, or nothing.
LEMMA Contents ==
    ASSUME EnvInv, NEW r \in Requests, pc[r] \in AtFile
    PROVE  Updated(before, edit[r]) \in Files /\ Blank \in Files
  <1>1. IsEdit(edit[r]) /\ before \in Files
    BY DEF EnvInv, TypeOK, EditInv, AtFile, HasEdit
  <1> QED
    BY <1>1, UpdatedType DEF Files, Blank

\* What the others change is added to what a request is about.
LEMMA OvertakeType ==
    ASSUME TypeOK, NEW r, NEW own \in SUBSET (Keys \X Words), Overtake(r, own)
    PROVE  aim' \in [Requests -> SUBSET (Keys \X Words)]
  BY DEF TypeOK, Overtake, Differences

LEMMA EnvTypeStep == EnvInv /\ [Next]_vars => TypeOK'
  <1> SUFFICES ASSUME EnvInv, [Next]_vars PROVE TypeOK'
    OBVIOUS
  <1> USE DEF TypeOK, Goto
  <1>0. Blank \in Files
    BY DEF Files, Blank
  <1>1. ASSUME NEW r \in Requests, Requested(r) PROVE TypeOK'
    <2>1. PICK e, about, after : /\ IsEdit(e) /\ about \in SUBSET (Keys \X Words)
                                 /\ after \in {"reply", "setenv", "restart"}
                                 /\ Decide(r, e, about, after)
      BY <1>1, RequestedEdits DEF EnvInv
    <2> QED
      BY <2>1 DEF EnvInv, Decide
  <1>2. ASSUME NEW r \in Requests, Lock(r) PROVE TypeOK'
    BY <1>2 DEF EnvInv, Lock
  <1>3. ASSUME NEW r \in Requests, Rename(r) PROVE TypeOK'
    <2>1. Updated(before, edit[r]) \in Files /\ next[r] \in {"reply", "setenv", "restart"}
      BY <1>3, Contents DEF Rename, AtFile, EnvInv
    <2>2. aim' \in [Requests -> SUBSET (Keys \X Words)]
      BY <1>3, OvertakeType DEF EnvInv, Rename, Unlock
    <2> QED
      BY <1>0, <1>3, <2>1, <2>2 DEF EnvInv, Rename, Unlock
  <1>4. ASSUME NEW r \in Requests, Truncate(r) PROVE TypeOK'
    <2>1. aim[r] \in SUBSET (Keys \X Words)
      BY DEF EnvInv
    <2>2. aim' \in [Requests -> SUBSET (Keys \X Words)]
      BY <1>4, <2>1, OvertakeType DEF EnvInv, Truncate
    <2> QED
      BY <1>0, <1>4, <2>2 DEF EnvInv, Truncate
  <1>5. ASSUME NEW r \in Requests, WriteInPlace(r) PROVE TypeOK'
    <2>1. Updated(before, edit[r]) \in Files /\ next[r] \in {"reply", "setenv", "restart"}
      BY <1>5, Contents DEF WriteInPlace, AtFile, EnvInv
    <2>2. aim' \in [Requests -> SUBSET (Keys \X Words)]
      BY <1>5, OvertakeType DEF EnvInv, WriteInPlace, Unlock
    <2> QED
      BY <1>0, <1>5, <2>1, <2>2 DEF EnvInv, WriteInPlace, Unlock
  <1>6. ASSUME NEW r \in Requests, Rejected(r) PROVE TypeOK'
    BY <1>6 DEF EnvInv, Rejected
  <1>7. ASSUME NEW r \in Requests, SaveFails(r) PROVE TypeOK'
    <2>1. aim' \in [Requests -> SUBSET (Keys \X Words)]
      BY <1>7, OvertakeType DEF EnvInv, SaveFails, Unlock
    <2> QED
      BY <1>0, <1>7, <2>1 DEF EnvInv, SaveFails, Unlock
  <1>8. ASSUME NEW r \in Requests, SetEnv(r) PROVE TypeOK'
    <2>1. Updated(environ, edit[r]) \in Files
      BY <1>8, UpdatedType DEF EnvInv, EditInv, SetEnv
    <2> QED
      BY <1>8, <2>1 DEF EnvInv, SetEnv
  <1>9. CASE Restart
    BY <1>0, <1>9 DEF EnvInv, Restart
  <1>10. CASE UsersChange
    BY <1>10 DEF EnvInv, UsersChange, req
  <1>11. CASE UNCHANGED vars
    BY <1>11 DEF EnvInv, vars, req
  <1> QED
    BY <1>1, <1>2, <1>3, <1>4, <1>5, <1>6, <1>7, <1>8, <1>9, <1>10, <1>11 DEF Next, Serve

LEMMA EnvInvStep == EnvInv /\ [Next]_vars => EnvInv'
  <1> SUFFICES ASSUME EnvInv, [Next]_vars PROVE MutexInv' /\ TornInv' /\ EditInv'
    BY EnvTypeStep DEF EnvInv
  <1> USE DEF EnvInv, TypeOK, MutexInv, TornInv, EditInv, AtFile, HasEdit, Goto
  <1>1. ASSUME NEW r \in Requests, Requested(r) PROVE MutexInv' /\ TornInv' /\ EditInv'
    <2>1. PICK e, about, after : IsEdit(e) /\ e # NoEdit /\ Decide(r, e, about, after)
      BY <1>1, RequestedEdits
    <2> QED
      BY <2>1 DEF Decide
  <1>2. ASSUME NEW r \in Requests, Lock(r) PROVE MutexInv' /\ TornInv' /\ EditInv'
    BY <1>2, EnvAssumption DEF Lock
  <1>3. ASSUME NEW r \in Requests, Rename(r) PROVE MutexInv' /\ TornInv' /\ EditInv'
    BY <1>3, EnvAssumption DEF Rename, Unlock
  <1>4. ASSUME NEW r \in Requests, Truncate(r) PROVE MutexInv' /\ TornInv' /\ EditInv'
    BY <1>4 DEF Truncate
  <1>5. ASSUME NEW r \in Requests, WriteInPlace(r) PROVE MutexInv' /\ TornInv' /\ EditInv'
    BY <1>5, EnvAssumption DEF WriteInPlace, Unlock
  <1>6. ASSUME NEW r \in Requests, Rejected(r) PROVE MutexInv' /\ TornInv' /\ EditInv'
    BY <1>6 DEF Rejected
  <1>7. ASSUME NEW r \in Requests, SaveFails(r) PROVE MutexInv' /\ TornInv' /\ EditInv'
    BY <1>7, EnvAssumption DEF SaveFails, Unlock
  <1>8. ASSUME NEW r \in Requests, SetEnv(r) PROVE MutexInv' /\ TornInv' /\ EditInv'
    BY <1>8 DEF SetEnv
  <1>9. CASE Restart
    BY <1>9, EnvAssumption DEF Restart
  <1>10. CASE UsersChange
    BY <1>10 DEF UsersChange, req
  <1>11. CASE UNCHANGED vars
    BY <1>11 DEF vars, req
  <1> QED
    BY <1>1, <1>2, <1>3, <1>4, <1>5, <1>6, <1>7, <1>8, <1>9, <1>10, <1>11 DEF Next, Serve

LEMMA EnvInvariance == Spec => []EnvInv
  BY EnvInitInv, EnvInvStep, PTL DEF Spec

\* Every value the requests write is one of the file's, whatever the handlers
\* decide from what they read.
THEOREM EnvTypeCorrect == Spec => []TypeOK
  BY EnvInvariance, PTL DEF EnvInv

-----------------------------------------------------------------------------
(* Saves are whole edits *)

Wanted == [r \in Requests |-> IF pc[r] \in HasEdit THEN edit[r] ELSE NoEdit]
Env == IF \E r \in Requests : pc[r] = "inPlace" THEN before ELSE file

\* What the file stands for is what the request at it has read.
LEMMA EnvIsBefore == ASSUME EnvInv, NEW r \in Requests, pc[r] \in AtFile PROVE Env = before
  <1>1. CASE pc[r] = "inPlace"
    BY <1>1 DEF Env
  <1>2. CASE pc[r] = "write"
    BY <1>2 DEF Env, EnvInv, MutexInv
  <1> QED
    BY <1>1, <1>2 DEF AtFile

\* Where one request leaves the file, none is left writing it in place.
LEMMA Alone ==
    ASSUME EnvInv, NEW r \in Requests, pc[r] \in AtFile,
           Unlock(r, "reply") \/ Unlock(r, next[r])
    PROVE  \A q \in Requests : pc'[q] # "inPlace"
  <1>1. \A q \in Requests : q # r => pc[q] # "inPlace"
    BY DEF EnvInv, MutexInv, AtFile
  <1>2. pc'[r] # "inPlace" /\ \A q \in Requests : q # r => pc'[q] = pc[q]
    BY DEF Unlock, Goto, EnvInv, TypeOK
  <1> QED
    BY <1>1, <1>2

LEMMA StoreInit == Init => Store!Init
  <1> SUFFICES ASSUME Init PROVE Store!Init
    OBVIOUS
  <1>1. file \in Files
    BY EnvInitInv DEF EnvInv, TypeOK
  <1> QED
    BY <1>1, EnvAssumption DEF Init, Store!Init, Store!Files, Files

\* A step at the file ends in an edit applied or in nothing but, in place, a blank.
LEMMA StoreStep == EnvInv /\ [Next]_vars => [Store!Next]_<<Env, Wanted>>
  <1> SUFFICES ASSUME EnvInv, [Next]_vars PROVE [Store!Next]_<<Env, Wanted>>
    OBVIOUS
  <1> DEFINE Still == UNCHANGED <<Env, Wanted>>
  <1>1. ASSUME NEW r \in Requests, Requested(r) PROVE Store!Next
    <2>1. PICK e, about, after : IsEdit(e) /\ e # NoEdit /\ Decide(r, e, about, after)
      BY <1>1, RequestedEdits DEF EnvInv
    <2>2. Wanted' = [Wanted EXCEPT ![r] = e] /\ Wanted[r] = NoEdit /\ Wanted'[r] = e
      BY <2>1 DEF Decide, Wanted, HasEdit, EnvInv, TypeOK
    <2>3. Env' = Env
      BY <2>1 DEF Decide, Env, EnvInv, TypeOK
    <2>4. Store!IsEdit(e)
      BY <2>1 DEF IsEdit, Store!IsEdit
    <2>5. Store!Ask(r)
      BY <2>1, <2>2, <2>3, <2>4 DEF Store!Ask, Wanted, Env, HasEdit
    <2> QED
      BY <2>3, <2>5 DEF Store!Next
  <1>2. ASSUME NEW r \in Requests, Lock(r) PROVE Still
    <2>1. Wanted' = Wanted
      BY <1>2 DEF Lock, Goto, Wanted, HasEdit, EnvInv, TypeOK
    <2>2. \A q \in Requests : pc[q] # "inPlace"
      BY <1>2, EnvAssumption DEF Lock, EnvInv, MutexInv, AtFile
    <2>3. \A q \in Requests : pc'[q] # "inPlace"
      BY <1>2, <2>2 DEF Lock, Goto, EnvInv, TypeOK
    <2> QED
      BY <1>2, <2>1, <2>2, <2>3 DEF Lock, Env
  <1> DEFINE Dropped(r) == Wanted' = [Wanted EXCEPT ![r] = NoEdit]
  <1>3. ASSUME NEW r \in Requests, Unlock(r, "reply") \/ Unlock(r, next[r]) PROVE Dropped(r)
    <2>1. next[r] \in {"reply", "setenv", "restart"}
      BY DEF EnvInv, TypeOK
    <2> QED
      BY <1>3, <2>1 DEF Unlock, Goto, Wanted, HasEdit, EnvInv, TypeOK
  <1>4. ASSUME NEW r \in Requests, Rename(r) \/ WriteInPlace(r) PROVE Store!Next
    <2>1. Env = before
      BY <1>4, EnvIsBefore DEF Rename, WriteInPlace, AtFile
    <2>2. Wanted[r] = edit[r] /\ Wanted[r] # NoEdit
      BY <1>4 DEF Rename, WriteInPlace, Wanted, HasEdit, EnvInv, EditInv
    <2>3. Env' = Updated(before, edit[r])
      BY <1>4, Alone DEF Rename, WriteInPlace, Unlock, Env, AtFile
    <2>4. Dropped(r)
      BY <1>3, <1>4 DEF Rename, WriteInPlace
    <2>5. Store!Apply(r)
      BY <2>1, <2>2, <2>3, <2>4 DEF Store!Apply, Store!Updated, Updated, Wanted, Env, HasEdit
    <2> QED
      BY <2>3, <2>5 DEF Store!Next
  <1>5. ASSUME NEW r \in Requests, Truncate(r) PROVE Still
    <2>1. Wanted' = Wanted
      BY <1>5 DEF Truncate, Goto, Wanted, HasEdit, EnvInv, TypeOK
    <2>2. Env = before
      BY <1>5, EnvIsBefore DEF Truncate, AtFile
    <2>3. Env' = before
      BY <1>5 DEF Truncate, Goto, Env, EnvInv, TypeOK
    <2> QED
      BY <1>5, <2>1, <2>2, <2>3 DEF Truncate
  <1>6. ASSUME NEW r \in Requests, Rejected(r) PROVE Store!Next
    <2>1. Dropped(r)
      BY <1>6 DEF Rejected, Goto, Wanted, HasEdit, EnvInv, TypeOK
    <2>2. Env' = Env
      BY <1>6 DEF Rejected, Goto, Env, EnvInv, TypeOK
    <2>3. Store!Refuse(r)
      BY <2>1, <2>2 DEF Store!Refuse, Store!Kept, Wanted, Env, HasEdit
    <2> QED
      BY <2>2, <2>3 DEF Store!Next
  <1>7. ASSUME NEW r \in Requests, SaveFails(r) PROVE Store!Next
    <2>1. Dropped(r)
      BY <1>3, <1>7 DEF SaveFails
    <2>2. Env' = file
      BY <1>7, Alone DEF SaveFails, Unlock, Env, AtFile
    <2>3. Env' = Env \/ (Env' = Blank /\ Wanted[r] # NoEdit)
      BY <1>7, <2>2 DEF SaveFails, AtFile, Env, EnvInv, TornInv, EditInv, Wanted, HasEdit
    <2>4. Store!Refuse(r)
      BY <2>1, <2>3 DEF Store!Refuse, Store!Kept, Store!Blank, Blank, Wanted, Env, HasEdit
    <2> QED
      BY <2>2, <2>4 DEF Store!Next
  <1>8. ASSUME NEW r \in Requests, SetEnv(r) PROVE Still
    <2>1. Wanted' = Wanted
      BY <1>8 DEF SetEnv, Goto, Wanted, HasEdit, EnvInv, TypeOK
    <2> QED
      BY <1>8, <2>1 DEF SetEnv, Goto, Env, EnvInv, TypeOK
  <1>9. ASSUME Restart PROVE Store!Next
    <2>1. Wanted' = [r \in Requests |-> NoEdit]
      BY <1>9 DEF Restart, Wanted, HasEdit
    <2>2. Env' = file
      BY <1>9 DEF Restart, Env
    <2>3. Env' = Env \/ (Env' = Blank /\ \E r \in Requests : Wanted[r] # NoEdit)
      BY <2>2 DEF Env, EnvInv, TornInv, EditInv, Wanted, HasEdit
    <2>4. Store!Crash
      BY <2>1, <2>3 DEF Store!Crash, Store!Kept, Store!Blank, Blank, Wanted, Env, HasEdit
    <2> QED
      BY <2>2, <2>4 DEF Store!Next
  <1>10. ASSUME UsersChange \/ UNCHANGED vars PROVE Still
    BY <1>10 DEF UsersChange, vars, req, Wanted, Env
  <1> QED
    BY <1>1, <1>2, <1>4, <1>5, <1>6, <1>7, <1>8, <1>9, <1>10 DEF Next, Serve

\* UpdateEnvKeys and writeEnvFileAtomic: the requests, however they interleave,
\* fail or are cut off, change the file one whole edit at a time, and lose it
\* only where it is written in place.
THEOREM SavesImplementStore == Spec => EditsAreWhole
  <1>1. Init => Store!Init
    BY StoreInit
  <1>2. EnvInv /\ [Next]_vars => [Store!Next]_<<Env, Wanted>>
    BY StoreStep
  <1>3. EnvInv /\ [Next]_vars =>
            [Store!Next]_<<IF \E r \in Requests : pc[r] = "inPlace" THEN before ELSE file,
                           [r \in Requests |-> IF pc[r] \in {"lock", "write", "inPlace"}
                                               THEN edit[r] ELSE NoEdit]>>
    BY <1>2 DEF Env, Wanted, HasEdit
  <1> QED
    BY <1>1, <1>3, EnvInvariance, PTL DEF Spec, EditsAreWhole, Store!Spec

-----------------------------------------------------------------------------
(* Saves keep to what their requests are about *)

Changes(f, e) == Differences(f, Updated(f, e))

\* What a request is about covers what its edit changes of the file: as it is
\* until the save, and then as the save has read it.
AimInv == \A r \in Requests :
              /\ pc[r] = "lock" => Changes(file, edit[r]) \subseteq aim[r]
              /\ pc[r] \in AtFile => Changes(before, edit[r]) \subseteq aim[r]

\* An edit changes words of the keys it names.
LEMMA ChangeRule ==
    ASSUME NEW f, NEW e, NEW k \in Keys, NEW w \in Words, <<k, w>> \in Changes(f, e)
    PROVE  k \in DOMAIN e /\ (w \in f[k] <=> w \notin e[k])
  BY DEF Changes, Differences, Updated

LEMMA WithinKeys ==
    ASSUME NEW f, NEW e PROVE Changes(f, e) \subseteq (DOMAIN e) \X Words
  BY ChangeRule DEF Changes, Differences

\* The file has changed meanwhile: so has what the edit changes, by no more.
LEMMA Later ==
    ASSUME NEW f, NEW g, NEW e
    PROVE  Changes(g, e) \subseteq Changes(f, e) \cup {d \in Differences(f, g) : d[1] \in DOMAIN e}
  <1> SUFFICES ASSUME NEW k \in Keys, NEW w \in Words, <<k, w>> \in Changes(g, e),
                      <<k, w>> \notin Changes(f, e)
               PROVE  <<k, w>> \in Differences(f, g) /\ k \in DOMAIN e
    BY DEF Changes, Differences
  <1>1. k \in DOMAIN e /\ (w \in g[k] <=> w \notin e[k])
    BY ChangeRule
  <1>2. w \in f[k] <=> w \in e[k]
    BY <1>1 DEF Changes, Differences, Updated
  <1> QED
    BY <1>1, <1>2 DEF Differences

LEMMA ScheduleChanges ==
    ASSUME NEW p \in Playlists, NEW to, NEW read
    PROVE  Changes(file, Scheduling(p, to, read)) \subseteq ScheduleAim(p, to, read)
  <1> DEFINE e == Scheduling(p, to, read)
  <1> SUFFICES ASSUME NEW k \in Keys, NEW w \in Words, <<k, w>> \in Changes(file, e)
               PROVE  <<k, w>> \in ScheduleAim(p, to, read)
    BY DEF Changes, Differences
  <1>1. k \in {Flags(p), Schedule(p)} /\ (w \in file[k] <=> w \notin e[k])
    <2>1. DOMAIN e = {Flags(p), Schedule(p)}
      BY DEF Scheduling
    <2> QED
      BY <2>1, ChangeRule
  <1>2. CASE to = "off" \/ ~ read \/ k = Schedule(p)
    BY <1>1, <1>2 DEF ScheduleAim
  <1>3. CASE to # "off" /\ read /\ k = Flags(p)
    <2>1. e[k] = {"base"} \cup (file[k] \cap Injected)
      BY <1>3 DEF Scheduling
    <2>2. w \notin Injected
      BY <1>1, <2>1 DEF Injected
    <2> QED
      BY <1>3, <2>2 DEF ScheduleAim
  <1> QED
    BY <1>1, <1>2, <1>3

LEMMA FlagChanges ==
    ASSUME NEW p \in Playlists, NEW f \in Words, NEW enabled
    PROVE  Changes(file, Toggled(p, f, enabled)) \subseteq {Flags(p)} \X {"base", f}
  <1> DEFINE e == Toggled(p, f, enabled)
  <1> SUFFICES ASSUME NEW k \in Keys, NEW w \in Words, <<k, w>> \in Changes(file, e)
               PROVE  k = Flags(p) /\ w \in {"base", f}
    BY DEF Changes, Differences
  <1>1. k = Flags(p) /\ (w \in file[k] <=> w \notin e[k])
    BY ChangeRule DEF Toggled
  <1>2. e[k] = (IF enabled THEN Current(p) \cup {f} ELSE Current(p) \ {f})
    BY <1>1 DEF Toggled
  <1> QED
    BY <1>1, <1>2 DEF Current

LEMMA CleanChanges ==
    ASSUME NEW e \in CleanEdits PROVE Changes(file, e) \subseteq (DOMAIN e) \X {"base", "clean"}
  <1>1. PICK on \in BOOLEAN :
            e = [k \in {Flags(p) : p \in BuiltIn} |->
                    IF on THEN Current(k[2]) \cup {"clean"} ELSE Current(k[2]) \ {"clean"}]
    BY DEF CleanEdits
  <1> SUFFICES ASSUME NEW k \in Keys, NEW w \in Words, <<k, w>> \in Changes(file, e)
               PROVE  k \in DOMAIN e /\ w \in {"base", "clean"}
    BY DEF Changes, Differences
  <1>2. k \in DOMAIN e /\ (w \in file[k] <=> w \notin e[k])
    BY ChangeRule
  <1>3. k = Flags(k[2])
    BY <1>1, <1>2 DEF Flags
  <1>4. e[k] = (IF on THEN Current(k[2]) \cup {"clean"} ELSE Current(k[2]) \ {"clean"})
    BY <1>1, <1>2
  <1> QED
    BY <1>2, <1>3, <1>4 DEF Current

\* Whatever the handler, its edit changes what its request is about, and no more.
LEMMA RequestedChanges ==
    ASSUME NEW r \in Requests, Requested(r)
    PROVE  \E e, about, after : Changes(file, e) \subseteq about /\ Decide(r, e, about, after)
  <1>1. CASE \E p \in Playlists, to \in {"off", "never", "cron"}, read \in BOOLEAN :
                Decide(r, Scheduling(p, to, read), ScheduleAim(p, to, read), "reply")
    BY <1>1, ScheduleChanges
  <1>2. CASE \E p \in Playlists, f \in {"keep", "local"}, enabled \in BOOLEAN :
                Decide(r, Toggled(p, f, enabled), {Flags(p)} \X {"base", f}, "reply")
    BY <1>2, FlagChanges DEF Words, Injected
  <1>3. CASE \E e \in CleanEdits : Decide(r, e, (DOMAIN e) \X {"base", "clean"}, "reply")
    BY <1>3, CleanChanges
  <1>4. CASE \E e, after : Overwrites(r, e, after)
    BY <1>4, WithinKeys DEF Overwrites
  <1> QED
    BY <1>1, <1>2, <1>3, <1>4 DEF Requested

\* A step at the file makes the others out of date, and they are told so.
LEMMA AimAfter ==
    ASSUME EnvInv, AimInv, NEW r \in Requests, NEW own, pc[r] \in AtFile, Overtake(r, own),
           \A q \in Requests : q # r => pc'[q] = pc[q] /\ edit'[q] = edit[q],
           pc'[r] \notin HasEdit \/ (pc'[r] \in AtFile /\ before' = before
                                      /\ edit'[r] = edit[r] /\ own = aim[r])
    PROVE  AimInv'
  <1> SUFFICES ASSUME NEW q \in Requests
               PROVE  /\ pc'[q] = "lock" => Changes(file', edit'[q]) \subseteq aim'[q]
                      /\ pc'[q] \in AtFile => Changes(before', edit'[q]) \subseteq aim'[q]
    BY DEF AimInv, Changes, Differences, Updated
  <1>1. CASE q = r
    BY <1>1 DEF AimInv, Overtake, AtFile, HasEdit
  <1>2. CASE q # r
    <2>1. pc[q] \notin AtFile
      BY <1>2 DEF EnvInv, MutexInv
    <2>2. CASE pc[q] = "lock"
      <3>1. aim'[q] = aim[q] \cup {d \in Differences(file, file') : d[1] \in DOMAIN edit[q]}
        BY <1>2, <2>2 DEF Overtake
      <3>2. Changes(file, edit[q]) \subseteq aim[q]
        BY <2>2 DEF AimInv
      <3> QED
        BY <1>2, <2>1, <2>2, <3>1, <3>2, Later
    <2> QED
      BY <1>2, <2>1, <2>2
  <1> QED
    BY <1>1, <1>2

LEMMA AimStep == EnvInv /\ AimInv /\ [Next]_vars => AimInv'
  <1> SUFFICES ASSUME EnvInv, AimInv, [Next]_vars PROVE AimInv'
    OBVIOUS
  <1> DEFINE Kept(q) == /\ pc'[q] = "lock" => Changes(file', edit'[q]) \subseteq aim'[q]
                        /\ pc'[q] \in AtFile => Changes(before', edit'[q]) \subseteq aim'[q]
  <1>0. (\A q \in Requests : Kept(q)) => AimInv'
    BY DEF AimInv, Changes, Differences, Updated
  <1>a. ASSUME NEW r \in Requests, UNCHANGED <<file, before>>,
               \A q \in Requests : q # r => /\ pc'[q] = pc[q] /\ edit'[q] = edit[q]
                                            /\ aim'[q] = aim[q],
               Kept(r)
        PROVE  AimInv'
    BY <1>0, <1>a DEF AimInv
  <1>1. ASSUME NEW r \in Requests, Requested(r) PROVE AimInv'
    <2>1. PICK e, about, after : Changes(file, e) \subseteq about /\ Decide(r, e, about, after)
      BY <1>1, RequestedChanges
    <2>2. /\ pc'[r] = "lock" /\ edit'[r] = e /\ aim'[r] = about /\ UNCHANGED <<file, before>>
          /\ \A q \in Requests : q # r => pc'[q] = pc[q] /\ edit'[q] = edit[q] /\ aim'[q] = aim[q]
      BY <2>1 DEF Decide, EnvInv, TypeOK
    <2>3. Kept(r)
      BY <2>1, <2>2 DEF AtFile
    <2> QED
      BY <1>a, <2>2, <2>3
  <1>2. ASSUME NEW r \in Requests, Lock(r) PROVE AimInv'
    <2>1. /\ pc[r] = "lock" /\ pc'[r] = "write" /\ before' = file /\ UNCHANGED <<file, edit, aim>>
          /\ \A q \in Requests : q # r => pc'[q] = pc[q] /\ pc[q] \notin AtFile
      BY <1>2, EnvAssumption DEF Lock, Goto, EnvInv, TypeOK, MutexInv
    <2>2. \A q \in Requests : Kept(q)
      BY <2>1 DEF AimInv
    <2> QED
      BY <1>0, <2>2
  <1>3. ASSUME NEW r \in Requests, pc[r] \in AtFile, Unlock(r, "reply") \/ Unlock(r, next[r])
        PROVE  AimInv'
    <2>1. /\ pc'[r] \notin HasEdit /\ Overtake(r, {})
          /\ \A q \in Requests : q # r => pc'[q] = pc[q] /\ edit'[q] = edit[q]
      BY <1>3 DEF Unlock, Goto, HasEdit, EnvInv, TypeOK
    <2> QED
      BY <1>3, <2>1, AimAfter
  <1>4. ASSUME NEW r \in Requests, Rename(r) \/ WriteInPlace(r) \/ SaveFails(r) PROVE AimInv'
    BY <1>3, <1>4 DEF Rename, WriteInPlace, SaveFails, AtFile
  <1>5. ASSUME NEW r \in Requests, Truncate(r) PROVE AimInv'
    <2>1. /\ pc[r] \in AtFile /\ pc'[r] \in AtFile /\ Overtake(r, aim[r]) /\ UNCHANGED <<before, edit>>
          /\ \A q \in Requests : q # r => pc'[q] = pc[q]
      BY <1>5 DEF Truncate, Goto, AtFile, EnvInv, TypeOK
    <2> QED
      BY <2>1, AimAfter
  <1>6. ASSUME NEW r \in Requests, Rejected(r) \/ SetEnv(r) PROVE AimInv'
    <2>1. /\ pc'[r] = "idle" /\ UNCHANGED <<file, before>>
          /\ \A q \in Requests : q # r => pc'[q] = pc[q] /\ edit'[q] = edit[q] /\ aim'[q] = aim[q]
      BY <1>6 DEF Rejected, SetEnv, Goto, EnvInv, TypeOK
    <2>2. Kept(r)
      BY <2>1 DEF AtFile
    <2> QED
      BY <1>a, <2>1, <2>2
  <1>7. CASE Restart
    BY <1>0, <1>7 DEF Restart, AtFile
  <1>8. CASE UsersChange \/ UNCHANGED vars
    BY <1>0, <1>8 DEF UsersChange, vars, req, AimInv
  <1> QED
    BY <1>1, <1>2, <1>4, <1>5, <1>6, <1>7, <1>8 DEF Next, Serve

\* OthersAsFound: whatever requests of whatever handlers overlap, a save changes
\* of the file what its request is about, and puts back what others have changed
\* since its handler read it, and nothing else.
THEOREM SavesKeepToTheirAim == Spec => OthersAsFound
  <1>1. Init => AimInv
    BY DEF Init, AimInv, AtFile
  <1>2. EnvInv /\ AimInv => [\A r \in Requests : Written(r) => Differences(before, file') \subseteq aim[r]]_vars
    <2> SUFFICES ASSUME EnvInv, AimInv, NEW r \in Requests, Written(r)
                 PROVE  Differences(before, file') \subseteq aim[r]
      OBVIOUS
    <2>1. pc[r] \in AtFile
      BY DEF EnvInv, MutexInv, Written
    <2>2. Changes(before, edit[r]) \subseteq aim[r]
      BY <2>1 DEF AimInv
    <2> QED
      BY <2>2 DEF Written, Changes
  <1>3. Spec => []AimInv
    BY <1>1, AimStep, EnvInvariance, PTL DEF Spec
  <1> QED
    BY <1>2, <1>3, EnvInvariance, PTL DEF OthersAsFound

-----------------------------------------------------------------------------
(* PART 2: the sessions *)

\* The steps of a browser that send a request of a call, and that take its answer.
Sends(c) == apiFetch(c) \/ Send(c)
Hears(c) == ensureCSRF(c) \/ Retry(c) \/ Receive(c)

\* The calls the middleware has let in have a session, and those that change its
\* ID have drawn the new one.
Serving ==
    \A c \in Calls :
        /\ at[c] \in {"handle", "destroy", "write", "migrated", "ok", "refused", "mismatch"} => sess[c] \in 1..made
        /\ at[c] \in {"destroy", "write"} => ident[c].new \in 1..ids

\* The IDs sessions have had are theirs alone, and what is to be destroyed is
\* nobody's any more.
Names ==
    /\ \A s \in 1..made : /\ idOf[s] \in 1..ids
                          /\ \A t \in 1..made : s # t => idOf[s] # idOf[t]
    /\ \A c \in Calls :
         /\ at[c] = "destroy" => \A s \in 1..made : idOf[s] # ident[c].old
         /\ at[c] \in {"destroy", "write"} =>
                \A s \in 1..made : s # sess[c] => idOf[s] # ident[c].new

\* The login that gave the session its ID has not written it yet, or it is in
\* the store.
Writing(c, s) == sess[c] = s /\ at[c] \in {"destroy", "write"} /\ ident[c].new = idOf[s]
Findable == \A s \in Live : (\E c \in Calls : Writing(c, s)) \/ <<idOf[s], s>> \in store

-----------------------------------------------------------------------------
(* Type correctness *)

LEMMA TypeInit == SessionsConstants /\ SessionInit => SessionsOK
  <1> SUFFICES ASSUME SessionsConstants, SessionInit PROVE SessionsOK
    OBVIOUS
  <1>1. MaxSessions \in Nat /\ callsLeft \in Nat
    BY DEF SessionsConstants, SessionInit
  <1>2. ident \in [Calls -> [old : 0..ids, new : 0..ids]]
    BY DEF SessionInit, NoIdent, None
  <1>3. /\ idOf \in [SessionIDs -> 0..ids] /\ sess \in [Calls -> 0..made]
        /\ cookie \in [Browsers -> 0..ids] /\ page \in [Browsers -> 0..made]
        /\ login \in [Browsers -> 0..made]
        /\ token \in [Calls -> 0..made] /\ stale \in [Calls -> 0..made]
    BY DEF SessionInit, None
  <1> QED
    BY <1>1, <1>2, <1>3 DEF SessionsOK, SessionInit

LEMMA CallParts == \A c \in Calls : c[1] \in Browsers /\ c[2] \in Slots
  BY DEF Calls

LEMMA Update ==
    ASSUME NEW D, NEW n \in Nat, NEW f \in [D -> 0..n], NEW x, NEW v \in 0..(n + 1)
    PROVE  [f EXCEPT ![x] = v] \in [D -> 0..(n + 1)]
  <1> SUFFICES ASSUME NEW y \in D PROVE [f EXCEPT ![x] = v][y] \in 0..(n + 1)
    OBVIOUS
  <1>1. f[y] \in 0..(n + 1)
    OBVIOUS
  <1> QED
    BY <1>1

\* An answer gives the browser the ID its session has.
LEMMA AnswerType ==
    ASSUME SessionsOK, NEW c \in Calls, sess[c] \in 1..made, MaxSessions \in Nat,
           NEW r \in {"ok", "refused", "mismatch"}, Answer(c, r)
    PROVE  /\ ident' \in [Calls -> [old : 0..ids, new : 0..ids]]
           /\ at' \in [Calls -> {"idle", "start", "handle", "destroy", "write", "migrated", "ok", "refused", "mismatch"}]
  <1>1. idOf[sess[c]] \in 0..ids
    BY DEF SessionsOK, SessionIDs
  <1>2. [old |-> None, new |-> idOf[sess[c]]] \in [old : 0..ids, new : 0..ids]
    BY <1>1 DEF None, SessionsOK
  <1> QED
    BY <1>2 DEF Answer, Enter, SessionsOK

LEMMA TypeStep == SessionsConstants /\ SessionsOK /\ Serving /\ [SessionNext]_sessionVars => SessionsOK'
  <1> SUFFICES ASSUME SessionsConstants, SessionsOK, Serving, [SessionNext]_sessionVars
               PROVE  SessionsOK'
    OBVIOUS
  <1> USE DEF memory, call, fetching, browser
  <1>0. MaxSessions \in Nat /\ made \in Nat /\ ids \in Nat
    BY DEF SessionsConstants, SessionsOK
  <1>1. ASSUME NEW c \in Calls, Sends(c) PROVE SessionsOK'
    <2>1. PICK j \in {"page", "login", "logout", "save"}, t \in 0..made :
             /\ Request(c, j, t)
             /\ job' \in {[job EXCEPT ![c] = j], job} /\ token' \in {[token EXCEPT ![c] = t], token}
             /\ callsLeft' \in Nat
      <3>1. CASE apiFetch(c)
        <4>1. PICK j \in {"page", "login", "logout", "save"} :
                 /\ job' = [job EXCEPT ![c] = j]
                 /\ token' = [token EXCEPT ![c] = IF j = "page" THEN None ELSE page[c[1]]]
                 /\ Request(c, j, token'[c])
          BY <3>1 DEF apiFetch
        <4>2. token'[c] = (IF j = "page" THEN None ELSE page[c[1]]) /\ token'[c] \in 0..made
          BY <1>0, <4>1, CallParts DEF SessionsOK, None
        <4>3. callsLeft' \in Nat
          BY <3>1 DEF apiFetch, SessionsOK
        <4> QED
          BY <4>1, <4>2, <4>3
      <3>2. CASE Send(c)
        BY <3>2 DEF Send, SessionsOK
      <3> QED
        BY <1>1, <3>1, <3>2 DEF Sends
    <2>2. ident' \in [Calls -> [old : 0..ids, new : 0..ids]]
      <3>1. [old |-> cookie[c[1]], new |-> None] \in [old : 0..ids, new : 0..ids]
        BY <1>0, CallParts DEF SessionsOK, None
      <3> QED
        BY <2>1, <3>1 DEF Request, SessionsOK
    <2>3. /\ kind' \in [Calls -> {"csrf", "page", "login", "logout", "save"}]
          /\ job' \in [Calls -> {"none", "page", "login", "logout", "save"}]
          /\ token' \in [Calls -> 0..made]
      <3>1. kind' \in [Calls -> {"csrf", "page", "login", "logout", "save"}]
        BY <2>1 DEF Request, SessionsOK
      <3>2. [job EXCEPT ![c] = j] \in [Calls -> {"none", "page", "login", "logout", "save"}]
        BY DEF SessionsOK
      <3>3. [token EXCEPT ![c] = t] \in [Calls -> 0..made]
        BY DEF SessionsOK
      <3> QED
        BY <2>1, <3>1, <3>2, <3>3 DEF SessionsOK
    <2> QED
      BY <2>1, <2>2, <2>3 DEF Request, Enter, SessionsOK
  <1>2. ASSUME NEW c \in Calls, Hears(c) PROVE SessionsOK'
    <2>1. /\ sess[c] \in 0..made /\ ident[c].new \in 0..ids /\ token[c] \in 0..made
          /\ None \in 0..made /\ NoIdent \in [old : 0..ids, new : 0..ids]
      BY <1>0 DEF SessionsOK, NoIdent, None
    <2>2. Arrived(c)
      BY <1>2 DEF Hears, ensureCSRF, Retry, Receive
    <2>3. /\ cookie' \in [Browsers -> 0..ids] /\ sess' \in [Calls -> 0..made]
          /\ ident' \in [Calls -> [old : 0..ids, new : 0..ids]]
          /\ kind' \in [Calls -> {"csrf", "page", "login", "logout", "save"}]
      BY <2>1, <2>2 DEF Arrived, SessionsOK
    <2>4. page' \in [Browsers -> 0..made] /\ login' \in [Browsers -> 0..made]
      BY <1>2, <2>1 DEF Hears, ensureCSRF, Retry, Receive, SessionsOK
    <2>5. /\ job' \in [Calls -> {"none", "page", "login", "logout", "save"}]
          /\ token' \in [Calls -> 0..made] /\ stale' \in [Calls -> 0..made]
      <3>1. CASE ensureCSRF(c)
        BY <2>1, <3>1 DEF ensureCSRF, SessionsOK
      <3>2. CASE Retry(c)
        BY <2>1, <3>2 DEF Retry, SessionsOK
      <3>3. CASE Receive(c)
        BY <2>1, <3>3 DEF Receive, SessionsOK
      <3> QED
        BY <1>2, <3>1, <3>2, <3>3 DEF Hears
    <2> QED
      BY <2>2, <2>3, <2>4, <2>5 DEF Arrived, Enter, SessionsOK
  <1>3. ASSUME NEW c \in Calls, start(c) PROVE SessionsOK'
    <2>1. PICK s \in Valid(c) : sess' = [sess EXCEPT ![c] = s]
      BY <1>3 DEF start
    <2>2. s \in 1..made
      BY DEF Valid, Stored, SessionsOK
    <2> QED
      BY <1>0, <1>3, <2>1, <2>2 DEF start, Enter, SessionsOK
  <1>4. ASSUME NEW c \in Calls, startNew(c) PROVE SessionsOK'
    <2>1. /\ made' = made + 1 /\ ids' = ids + 1 /\ made' \in 1..MaxSessions /\ ids' \in 1..MaxSessions
          /\ idOf' = [idOf EXCEPT ![made'] = ids'] /\ sess' = [sess EXCEPT ![c] = made']
          /\ store' \subseteq store \cup {<<ids', made'>>}
          /\ UNCHANGED <<authed, over, kind, ident, fetching, browser, callsLeft>>
      BY <1>0, <1>4 DEF startNew
    <2>2. 0..made \subseteq 0..made' /\ 0..ids \subseteq 0..ids' /\ 1..made \subseteq 1..made' /\ 1..ids \subseteq 1..ids'
      BY <1>0, <2>1
    <2>3. idOf' \in [SessionIDs -> 0..ids'] /\ sess' \in [Calls -> 0..made']
      <3>1. idOf \in [SessionIDs -> 0..ids] /\ ids' \in 0..(ids + 1)
        BY <1>0, <2>1 DEF SessionsOK
      <3>2. idOf' \in [SessionIDs -> 0..ids']
        BY <1>0, <2>1, <3>1, Update
      <3>3. sess \in [Calls -> 0..made] /\ made' \in 0..(made + 1)
        BY <1>0, <2>1 DEF SessionsOK
      <3>4. sess' \in [Calls -> 0..made']
        BY <1>0, <2>1, <3>3, Update
      <3> QED
        BY <3>2, <3>4
    <2>4. store' \subseteq (1..ids') \X (1..made')
      BY <1>0, <2>1, <2>2 DEF SessionsOK
    <2>5. /\ ident' \in [Calls -> [old : 0..ids', new : 0..ids']]
          /\ cookie' \in [Browsers -> 0..ids'] /\ page' \in [Browsers -> 0..made'] /\ login' \in [Browsers -> 0..made']
      BY <2>1, <2>2 DEF SessionsOK
    <2>6. at' \in [Calls -> {"idle", "start", "handle", "destroy", "write", "migrated", "ok", "refused", "mismatch"}]
      BY <1>4 DEF startNew, Enter, SessionsOK
    <2> QED
      BY <1>0, <2>1, <2>2, <2>3, <2>4, <2>5, <2>6 DEF SessionsOK
  <1>5. ASSUME NEW c \in Calls,
               Mismatch(c) \/ HandleCSRF(c) \/ RequireAuth(c) \/ HandleLogout(c) \/ WrongCreds(c) \/ LoggedIn(c)
        PROVE  SessionsOK'
    <2>1. sess[c] \in 1..made /\ \E r \in {"ok", "refused", "mismatch"} : Answer(c, r)
      BY <1>5 DEF Mismatch, HandleCSRF, RequireAuth, HandleLogout, WrongCreds, LoggedIn, Serving
    <2>2. authed' \subseteq authed
          /\ UNCHANGED <<made, ids, idOf, over, store, kind, sess, fetching, browser, callsLeft>>
      BY <1>5 DEF Mismatch, HandleCSRF, RequireAuth, HandleLogout, WrongCreds, LoggedIn
    <2> QED
      BY <1>0, <2>1, <2>2, AnswerType DEF SessionsOK
  <1>6. ASSUME NEW c \in Calls, HandleLogin(c) PROVE SessionsOK'
    <2>1. /\ ids' = ids + 1 /\ ids' \in 1..MaxSessions /\ sess[c] \in 1..made
          /\ authed' = authed \cup {sess[c]}
          /\ idOf' = [idOf EXCEPT ![sess[c]] = ids']
          /\ ident' = [ident EXCEPT ![c] = [old |-> idOf[sess[c]], new |-> ids']]
          /\ UNCHANGED <<made, over, store, kind, sess, fetching, browser, callsLeft>>
      BY <1>0, <1>6 DEF HandleLogin, Serving
    <2>2. 0..ids \subseteq 0..ids' /\ 1..ids \subseteq 1..ids' /\ idOf[sess[c]] \in 0..ids
      BY <1>0, <2>1 DEF SessionsOK, SessionIDs
    <2>3. idOf' \in [SessionIDs -> 0..ids']
      <3>1. idOf \in [SessionIDs -> 0..ids] /\ ids' \in 0..(ids + 1)
        BY <1>0, <2>1 DEF SessionsOK
      <3> QED
        BY <1>0, <2>1, <3>1, Update
    <2>4. ident' \in [Calls -> [old : 0..ids', new : 0..ids']]
      <3>1. [old |-> idOf[sess[c]], new |-> ids'] \in [old : 0..ids', new : 0..ids']
        BY <1>0, <2>1, <2>2
      <3>2. ident \in [Calls -> [old : 0..ids', new : 0..ids']]
        BY <2>2 DEF SessionsOK
      <3> QED
        BY <2>1, <3>1, <3>2
    <2>5. at' \in [Calls -> {"idle", "start", "handle", "destroy", "write", "migrated", "ok", "refused", "mismatch"}]
      BY <1>6 DEF HandleLogin, Enter, SessionsOK
    <2>6. store' \subseteq (1..ids') \X (1..made') /\ cookie' \in [Browsers -> 0..ids']
      BY <2>1, <2>2 DEF SessionsOK
    <2>7. authed' \subseteq 1..made'
      BY <2>1 DEF SessionsOK
    <2>8. ids' \in 0..MaxSessions
      BY <1>0, <2>1
    <2> QED
      BY <2>1, <2>3, <2>4, <2>5, <2>6, <2>7, <2>8 DEF SessionsOK
  <1>7. ASSUME NEW c \in Calls, destroy(c) PROVE SessionsOK'
    BY <1>7 DEF destroy, Enter, SessionsOK
  <1>8. ASSUME NEW c \in Calls, writeWithID(c) PROVE SessionsOK'
    <2>1. <<ident[c].new, sess[c]>> \in (1..ids) \X (1..made)
      BY <1>8 DEF writeWithID, Serving
    <2>2. store' \subseteq (1..ids) \X (1..made)
      BY <1>8, <2>1 DEF writeWithID, SessionsOK
    <2> QED
      BY <1>8, <2>2 DEF writeWithID, Enter, SessionsOK
  <1>9. ASSUME NEW s \in SessionIDs, Expire(s) PROVE SessionsOK'
    <2>1. over' \subseteq 1..made
      <3>1. s \in 1..made /\ over' = over \cup {s}
        BY <1>0, <1>9 DEF Expire, SessionIDs
      <3> QED
        BY <3>1 DEF SessionsOK
    <2>2. UNCHANGED <<memory, call, fetching, browser, callsLeft>>
      BY <1>9 DEF Expire
    <2> QED
      BY <2>1, <2>2 DEF SessionsOK
  <1>10. CASE gc
    BY <1>10 DEF gc, SessionsOK
  <1>11. CASE Lost
    <2>1. NoIdent \in [old : 0..ids, new : 0..ids] /\ None \in 0..made
      BY <1>0 DEF NoIdent, None
    <2>2. ident' \in [Calls -> [old : 0..ids, new : 0..ids]] /\ sess' \in [Calls -> 0..made]
      BY <1>11, <2>1 DEF Lost
    <2>3. /\ job' \in [Calls -> {"none", "page", "login", "logout", "save"}]
          /\ token' \in [Calls -> 0..made] /\ stale' \in [Calls -> 0..made]
      BY <1>11, <2>1 DEF Lost, SessionsOK
    <2> QED
      BY <1>11, <2>2, <2>3 DEF Lost, SessionsOK
  <1>12. CASE UNCHANGED sessionVars
    BY <1>12 DEF sessionVars, SessionsOK
  <1>13. ASSUME NEW b \in Browsers, Reload(b) PROVE SessionsOK'
    BY <1>0, <1>13 DEF Reload, SessionsOK, None
  <1> QED
    BY <1>1, <1>2, <1>3, <1>4, <1>5, <1>6, <1>7, <1>8, <1>9, <1>10, <1>11, <1>12, <1>13
       DEF SessionNext, ServeCall, Sends, Hears

-----------------------------------------------------------------------------
(* The invariant *)

SessionsInv == SessionsOK /\ Serving /\ Names /\ Findable

LEMMA InvInit == SessionsConstants /\ SessionInit => SessionsInv
  <1> SUFFICES ASSUME SessionsConstants, SessionInit PROVE SessionsInv
    OBVIOUS
  <1>1. SessionsOK
    BY TypeInit
  <1>2. \A c \in Calls : at[c] = "idle"
    BY DEF SessionInit
  <1>3. made = 0 /\ 1..made = {}
    BY DEF SessionInit
  <1>4. Serving /\ Names /\ Findable
    BY <1>2, <1>3 DEF Serving, Names, Findable, Live
  <1> QED
    BY <1>1, <1>4 DEF SessionsInv

\* Steps that touch neither the IDs nor the store, and of the calls only some
\* that change no ID before or after.
LEMMA QuietStep ==
    ASSUME SessionsInv, UNCHANGED <<made, ids, idOf, store>>, over \subseteq over', Serving',
           \A c \in Calls : \/ /\ at[c] \notin {"destroy", "write"}
                              /\ at'[c] \notin {"destroy", "write"}
                           \/ /\ at'[c] = at[c] /\ sess'[c] = sess[c]
                              /\ ident'[c] = ident[c]
    PROVE  Names' /\ Findable'
  <1>1. Names'
    BY DEF SessionsInv, Names
  <1>2. Findable'
    <2> SUFFICES ASSUME NEW s \in Live'
                 PROVE  (\E c \in Calls : Writing(c, s)') \/ (<<idOf[s], s>> \in store)'
      BY DEF Findable
    <2>1. s \in Live
      BY DEF Live
    <2>2. CASE <<idOf[s], s>> \in store
      BY <2>2
    <2>3. ASSUME NEW c \in Calls, Writing(c, s) PROVE Writing(c, s)'
      BY <2>3 DEF Writing
    <2> QED
      BY <2>1, <2>2, <2>3 DEF SessionsInv, Findable
  <1> QED
    BY <1>1, <1>2

LEMMA QuietSteps ==
    ASSUME SessionsConstants, SessionsInv, NEW c \in Calls,
           \/ Sends(c) \/ Hears(c) \/ start(c)
           \/ Mismatch(c) \/ HandleCSRF(c) \/ RequireAuth(c) \/ HandleLogout(c) \/ WrongCreds(c) \/ LoggedIn(c)
    PROVE  Serving' /\ Names' /\ Findable'
  <1> USE DEF memory, call, fetching, browser, Enter
  <1>1. UNCHANGED <<made, ids, idOf, store, over>>
    BY DEF Sends, apiFetch, Send, Request, Hears, ensureCSRF, Retry, Receive, Arrived, start, Mismatch, HandleCSRF, RequireAuth, HandleLogout, WrongCreds, LoggedIn
  <1>2. /\ at[c] \notin {"destroy", "write"} /\ at'[c] \notin {"destroy", "write"}
        /\ \A d \in Calls \ {c} : at'[d] = at[d] /\ sess'[d] = sess[d] /\ ident'[d] = ident[d]
    <2>1. CASE Sends(c)
      BY <2>1 DEF Sends, apiFetch, Free, Send, Request, SessionsInv, SessionsOK
    <2>2. CASE Hears(c)
      <3>1. /\ at[c] \in {"ok", "refused", "mismatch"} /\ at' = [at EXCEPT ![c] = "idle"]
            /\ sess' = [sess EXCEPT ![c] = None] /\ ident' = [ident EXCEPT ![c] = NoIdent]
        BY <2>2 DEF Hears, ensureCSRF, Retry, Receive, Arrived
      <3> QED
        BY <3>1 DEF SessionsInv, SessionsOK
    <2>3. CASE start(c)
      BY <2>3 DEF start, SessionsInv, SessionsOK
    <2>4. CASE Mismatch(c) \/ HandleCSRF(c) \/ RequireAuth(c) \/ HandleLogout(c) \/ WrongCreds(c) \/ LoggedIn(c)
      <3>1. /\ at[c] \in {"handle", "migrated"} /\ sess' = sess
            /\ \E a \in {"ok", "refused", "mismatch"} : Answer(c, a)
        BY <2>4 DEF Mismatch, HandleCSRF, RequireAuth, HandleLogout, WrongCreds, LoggedIn
      <3> QED
        BY <3>1 DEF Answer, SessionsInv, SessionsOK
    <2> QED
      BY <2>1, <2>2, <2>3, <2>4
  <1>3. at'[c] \in {"handle", "migrated", "ok", "refused", "mismatch"} => sess'[c] \in 1..made
    <2>1. CASE start(c)
      <3>1. PICK s \in Valid(c) : sess' = [sess EXCEPT ![c] = s]
        BY <2>1 DEF start
      <3>2. s \in 1..made
        BY DEF Valid, Stored, SessionsInv, SessionsOK
      <3> QED
        BY <3>1, <3>2 DEF SessionsInv, SessionsOK
    <2>2. CASE Sends(c) \/ Hears(c)
      BY <2>2 DEF Sends, apiFetch, Send, Request, Hears, ensureCSRF, Retry, Receive, Arrived, SessionsInv, SessionsOK
    <2>3. CASE Mismatch(c) \/ HandleCSRF(c) \/ RequireAuth(c) \/ HandleLogout(c) \/ WrongCreds(c) \/ LoggedIn(c)
      <3>1. at[c] \in {"handle", "migrated"} /\ sess' = sess
        BY <2>3 DEF Mismatch, HandleCSRF, RequireAuth, HandleLogout, WrongCreds, LoggedIn
      <3> QED
        BY <3>1 DEF SessionsInv, Serving
    <2> QED
      BY <2>1, <2>2, <2>3
  <1>4. Serving'
    BY <1>1, <1>2, <1>3 DEF SessionsInv, Serving
  <1> QED
    BY <1>1, <1>2, <1>4, QuietStep

\* A new session has an ID that nobody had; entries it takes out of the store
\* are of sessions that are over.
LEMMA NewStep == ASSUME SessionsConstants, SessionsInv, NEW c \in Calls, startNew(c) PROVE Serving' /\ Names' /\ Findable'
  <1>0. MaxSessions \in Nat /\ made \in Nat /\ ids \in Nat
    BY DEF SessionsConstants, SessionsInv, SessionsOK
  <1>1. /\ at[c] = "start" /\ Valid(c) = {}
        /\ made' = made + 1 /\ ids' = ids + 1 /\ made' \in SessionIDs
        /\ idOf' = [idOf EXCEPT ![made'] = ids']
        /\ store' = {e \in store : \A s \in Stored(ident[c].old) : e[1] # idOf[s]} \cup {<<ids', made'>>}
        /\ sess' = [sess EXCEPT ![c] = made'] /\ at' = [at EXCEPT ![c] = "handle"]
        /\ UNCHANGED <<over, ident>>
    BY <1>0 DEF startNew, Enter, SessionIDs
  <1>2. /\ at'[c] = "handle" /\ sess'[c] = made'
        /\ \A d \in Calls \ {c} : at'[d] = at[d] /\ sess'[d] = sess[d]
    BY <1>1 DEF SessionsInv, SessionsOK
  <1>3. /\ 1..made' = 1..made \cup {made'} /\ made' \notin 1..made
        /\ idOf'[made'] = ids' /\ \A s \in 1..made : idOf'[s] = idOf[s]
        /\ 1..ids' = 1..ids \cup {ids'} /\ ids' \notin 1..ids /\ ids' \notin 0..ids
    <2>1. /\ 1..made' = 1..made \cup {made'} /\ made' \notin 1..made
          /\ 1..ids' = 1..ids \cup {ids'} /\ ids' \notin 1..ids /\ ids' \notin 0..ids
      BY <1>0, <1>1
    <2>2. DOMAIN idOf = SessionIDs /\ 1..made \subseteq SessionIDs
      BY <1>0 DEF SessionsInv, SessionsOK, SessionIDs
    <2>3. idOf'[made'] = ids' /\ \A s \in 1..made : idOf'[s] = idOf[s]
      BY <1>1, <2>1, <2>2
    <2> QED
      BY <2>1, <2>3
  <1>4. Serving'
    BY <1>1, <1>2, <1>3 DEF SessionsInv, Serving
  <1>5. Names'
    <2>1. \A s \in 1..made' : /\ idOf'[s] \in 1..ids'
                             /\ \A t \in 1..made' : s # t => idOf'[s] # idOf'[t]
      BY <1>3 DEF SessionsInv, Names
    <2>2. ASSUME NEW d \in Calls, at'[d] = "destroy"
          PROVE  \A s \in 1..made' : idOf'[s] # ident'[d].old
      <3>1. at[d] = "destroy" /\ ident[d].old \in 0..ids
        BY <1>2, <2>2 DEF SessionsInv, SessionsOK
      <3> QED
        BY <1>1, <1>3, <3>1 DEF SessionsInv, Names
    <2>3. ASSUME NEW d \in Calls, at'[d] \in {"destroy", "write"}
          PROVE  \A s \in 1..made' : s # sess'[d] => idOf'[s] # ident'[d].new
      <3>1. at[d] \in {"destroy", "write"} /\ sess'[d] = sess[d] /\ ident[d].new \in 0..ids
        BY <1>2, <2>3 DEF SessionsInv, SessionsOK
      <3> QED
        BY <1>1, <1>3, <3>1 DEF SessionsInv, Names
    <2> QED
      BY <2>1, <2>2, <2>3 DEF Names
  <1>6. Findable'
    <2> SUFFICES ASSUME NEW s \in Live'
                 PROVE  (\E d \in Calls : Writing(d, s)') \/ (<<idOf[s], s>> \in store)'
      BY DEF Findable
    <2>1. CASE s = made'
      BY <1>1, <1>3, <2>1
    <2>2. CASE s # made'
      <3>1. s \in Live /\ idOf'[s] = idOf[s]
        BY <1>1, <1>3, <2>2 DEF Live
      <3>2. ASSUME NEW d \in Calls, Writing(d, s) PROVE Writing(d, s)'
        BY <1>1, <1>2, <3>1, <3>2 DEF Writing
      <3>3. ASSUME <<idOf[s], s>> \in store PROVE (<<idOf[s], s>> \in store)'
        <4>1. \A t \in Stored(ident[c].old) : t \in over /\ t \in 1..made
          BY <1>1 DEF Valid, Stored, SessionsInv, SessionsOK
        <4>2. \A t \in Stored(ident[c].old) : idOf[s] # idOf[t]
          BY <3>1, <4>1 DEF Live, SessionsInv, Names
        <4> QED
          BY <1>1, <3>1, <3>3, <4>2
      <3> QED
        BY <3>1, <3>2, <3>3 DEF SessionsInv, Findable
    <2> QED
      BY <2>1, <2>2
  <1> QED
    BY <1>4, <1>5, <1>6

\* A login draws an ID that nobody had, and has yet to write it.
LEMMA LoginStep == ASSUME SessionsConstants, SessionsInv, NEW c \in Calls, HandleLogin(c) PROVE Serving' /\ Names' /\ Findable'
  <1>0. MaxSessions \in Nat /\ made \in Nat /\ ids \in Nat
    BY DEF SessionsConstants, SessionsInv, SessionsOK
  <1>1. /\ at[c] = "handle" /\ sess[c] \in 1..made /\ 1..made \subseteq SessionIDs
        /\ ids' = ids + 1
        /\ idOf' = [idOf EXCEPT ![sess[c]] = ids']
        /\ ident' = [ident EXCEPT ![c] = [old |-> idOf[sess[c]], new |-> ids']]
        /\ at' = [at EXCEPT ![c] = "destroy"]
        /\ UNCHANGED <<made, over, store, sess>>
    BY <1>0 DEF HandleLogin, Enter, SessionsInv, Serving, SessionIDs, SessionsOK
  <1>2. /\ at'[c] = "destroy" /\ ident'[c].old = idOf[sess[c]] /\ ident'[c].new = ids'
        /\ \A d \in Calls \ {c} : at'[d] = at[d] /\ ident'[d] = ident[d]
    BY <1>1 DEF SessionsInv, SessionsOK
  <1>3. /\ idOf'[sess[c]] = ids' /\ \A s \in 1..made : s # sess[c] => idOf'[s] = idOf[s]
        /\ 1..ids' = 1..ids \cup {ids'} /\ ids' \notin 1..ids /\ ids' \notin 0..ids
    <2>1. /\ idOf'[sess[c]] = ids'
          /\ \A s \in 1..made : s # sess[c] => idOf'[s] = idOf[s]
      BY <1>1 DEF SessionsInv, SessionsOK
    <2>2. 1..ids' = 1..ids \cup {ids'} /\ ids' \notin 1..ids /\ ids' \notin 0..ids
      BY <1>0, <1>1
    <2> QED
      BY <2>1, <2>2
  <1>4. Serving'
    BY <1>1, <1>2, <1>3 DEF SessionsInv, Serving
  <1>5. Names'
    <2>1. \A s \in 1..made : /\ idOf'[s] \in 1..ids'
                            /\ \A t \in 1..made : s # t => idOf'[s] # idOf'[t]
      BY <1>3 DEF SessionsInv, Names
    <2>2. ASSUME NEW d \in Calls, at'[d] = "destroy"
          PROVE  \A s \in 1..made : idOf'[s] # ident'[d].old
      <3>1. CASE d = c
        BY <1>1, <1>2, <1>3, <3>1 DEF SessionsInv, Names
      <3>2. CASE d # c
        <4>1. at[d] = "destroy" /\ ident'[d].old = ident[d].old /\ ident[d].old \in 0..ids
          BY <1>2, <2>2, <3>2 DEF SessionsInv, SessionsOK
        <4> QED
          BY <1>3, <4>1 DEF SessionsInv, Names
      <3> QED
        BY <3>1, <3>2
    <2>3. ASSUME NEW d \in Calls, at'[d] \in {"destroy", "write"}
          PROVE  \A s \in 1..made : s # sess[d] => idOf'[s] # ident'[d].new
      <3>1. CASE d = c
        BY <1>1, <1>2, <1>3, <3>1 DEF SessionsInv, Names
      <3>2. CASE d # c
        <4>1. at[d] \in {"destroy", "write"} /\ ident'[d].new = ident[d].new /\ ident[d].new \in 0..ids
          BY <1>2, <2>3, <3>2 DEF SessionsInv, SessionsOK
        <4> QED
          BY <1>3, <4>1 DEF SessionsInv, Names
      <3> QED
        BY <3>1, <3>2
    <2> QED
      BY <1>1, <2>1, <2>2, <2>3 DEF Names
  <1>6. Findable'
    <2> SUFFICES ASSUME NEW s \in Live'
                 PROVE  (\E d \in Calls : Writing(d, s)') \/ (<<idOf[s], s>> \in store)'
      BY DEF Findable
    <2>1. CASE s = sess[c]
      BY <1>1, <1>2, <1>3, <2>1 DEF Writing
    <2>2. CASE s # sess[c]
      <3>1. s \in Live /\ idOf'[s] = idOf[s]
        BY <1>1, <1>3, <2>2 DEF Live
      <3>2. ASSUME NEW d \in Calls, Writing(d, s) PROVE Writing(d, s)'
        BY <1>1, <1>2, <2>2, <3>1, <3>2 DEF Writing
      <3> QED
        BY <1>1, <3>1, <3>2 DEF SessionsInv, Findable
    <2> QED
      BY <2>1, <2>2
  <1> QED
    BY <1>4, <1>5, <1>6

\* destroy and writeWithID leave the entries of others alone.
LEMMA MigrateSteps ==
    ASSUME SessionsInv, NEW c \in Calls, destroy(c) \/ writeWithID(c)
    PROVE  Serving' /\ Names' /\ Findable'
  <1>1. /\ UNCHANGED <<made, ids, idOf, over, sess, ident>>
        /\ \/ at[c] = "destroy" /\ at' = [at EXCEPT ![c] = "write"]
           \/ at[c] = "write" /\ at' = [at EXCEPT ![c] = "migrated"]
    BY DEF destroy, writeWithID, Enter
  <1>2. /\ \A d \in Calls \ {c} : at'[d] = at[d]
        /\ at[c] = "destroy" => at'[c] = "write"
        /\ at[c] = "write" => at'[c] = "migrated"
    BY <1>1 DEF SessionsInv, SessionsOK
  <1>3. Serving'
    BY <1>1, <1>2 DEF SessionsInv, Serving
  <1>4. Names'
    BY <1>1, <1>2 DEF SessionsInv, Names
  <1>5. Findable'
    <2> SUFFICES ASSUME NEW s \in Live
                 PROVE  (\E d \in Calls : Writing(d, s)') \/ <<idOf[s], s>> \in store'
      BY <1>1 DEF Findable, Live
    <2>1. s \in 1..made
      BY DEF Live
    <2>2. ASSUME <<idOf[s], s>> \in store PROVE <<idOf[s], s>> \in store'
      <3>1. CASE destroy(c)
        BY <2>1, <2>2, <3>1 DEF destroy, SessionsInv, Names
      <3>2. CASE writeWithID(c) /\ s # sess[c]
        BY <2>1, <2>2, <3>2 DEF writeWithID, SessionsInv, Names
      <3>3. CASE writeWithID(c) /\ s = sess[c]
        BY <2>2, <3>3 DEF writeWithID
      <3> QED
        BY <3>1, <3>2, <3>3
    <2>3. ASSUME NEW d \in Calls, Writing(d, s)
          PROVE  Writing(d, s)' \/ <<idOf[s], s>> \in store'
      <3>1. CASE d = c /\ at[c] = "write"
        <4>1. writeWithID(c)
          BY <3>1 DEF destroy
        <4> QED
          BY <2>3, <3>1, <4>1 DEF writeWithID, Writing
      <3>2. CASE d # c \/ at[c] = "destroy"
        BY <1>1, <1>2, <2>3, <3>2 DEF Writing
      <3> QED
        BY <1>1, <3>1, <3>2
    <2> QED
      BY <2>2, <2>3 DEF SessionsInv, Findable
  <1> QED
    BY <1>3, <1>4, <1>5

\* Time, collection and the end of the server only take away what is over.
LEMMA EndSteps ==
    ASSUME SessionsInv, gc \/ Lost \/ (\E b \in Browsers : Reload(b)) \/ (\E s \in SessionIDs : Expire(s)) \/ UNCHANGED sessionVars
    PROVE  Serving' /\ Names' /\ Findable'
  <1> USE DEF memory, call, fetching, browser
  <1>1. CASE gc
    <2>1. UNCHANGED <<made, ids, idOf, over, at, kind, sess, ident>>
      BY <1>1 DEF gc
    <2>2. Serving' /\ Names'
      BY <2>1 DEF SessionsInv, Serving, Names
    <2>3. Findable'
      BY <1>1, <2>1 DEF gc, SessionsInv, Findable, Live, Writing
    <2> QED
      BY <2>2, <2>3
  <1>2. CASE Lost
    <2>1. /\ \A d \in Calls : at'[d] = "idle"
          /\ UNCHANGED <<made, ids, idOf>> /\ over' = 1..made
      BY <1>2 DEF Lost
    <2> QED
      BY <2>1 DEF SessionsInv, Serving, Names, Findable, Live
  <1>3. ASSUME NEW s \in SessionIDs, Expire(s) PROVE Serving' /\ Names' /\ Findable'
    <2>1. UNCHANGED <<made, ids, idOf, store, at, sess, ident>> /\ over \subseteq over'
      BY <1>3 DEF Expire
    <2>2. Serving'
      BY <2>1 DEF SessionsInv, Serving
    <2> QED
      BY <2>1, <2>2, QuietStep
  <1>4. CASE (\E b \in Browsers : Reload(b)) \/ UNCHANGED sessionVars
    <2>1. UNCHANGED <<made, ids, idOf, store, at, sess, ident, over>>
      BY <1>4 DEF Reload, sessionVars
    <2>2. Serving'
      BY <2>1 DEF SessionsInv, Serving
    <2> QED
      BY <2>1, <2>2, QuietStep
  <1> QED
    BY <1>1, <1>2, <1>3, <1>4

LEMMA InvStep == SessionsConstants /\ SessionsInv /\ [SessionNext]_sessionVars => SessionsInv'
  <1> SUFFICES ASSUME SessionsConstants, SessionsInv, [SessionNext]_sessionVars PROVE SessionsInv'
    OBVIOUS
  <1>1. SessionsOK'
    BY TypeStep DEF SessionsInv
  <1>2. Serving' /\ Names' /\ Findable'
    BY QuietSteps, NewStep, LoginStep, MigrateSteps, EndSteps DEF SessionNext, ServeCall, Sends, Hears
  <1> QED
    BY <1>1, <1>2 DEF SessionsInv

LEMMA InvAlways == SessionsConstants /\ SessionSpec => []SessionsInv
  <1>1. ASSUME SessionsConstants PROVE SessionSpec => []SessionsInv
    <2>1. SessionInit => SessionsInv
      BY <1>1, InvInit
    <2>2. SessionsInv /\ [SessionNext]_sessionVars => SessionsInv'
      BY <1>1, InvStep
    <2> QED
      BY <2>1, <2>2, PTL DEF SessionSpec
  <1> QED
    BY <1>1

\* SessionsOK: the store, the calls and the browsers name sessions and IDs that
\* were made.
THEOREM SessionsTypeCorrect == SessionsConstants /\ SessionSpec => []SessionsOK
  <1>1. SessionsInv => SessionsOK
    BY DEF SessionsInv
  <1> QED
    BY <1>1, InvAlways, PTL

\* FoundUnderItsID: however the logins of a session interleave, with each other
\* and with other calls, it is in the store under the ID it has, or a login is
\* about to put it there.
THEOREM MigrationKeepsSessions == SessionsConstants /\ SessionSpec => []FoundUnderItsID
  <1>1. SessionsInv => FoundUnderItsID
    BY DEF SessionsInv, Findable, Writing, FoundUnderItsID, Migrating
  <1> QED
    BY <1>1, InvAlways, PTL

-----------------------------------------------------------------------------
(* Sessions and IDs do not get from one browser to another *)

Knows(own, b, s) == s = None \/ own[s] = b
KnowsID(of, own, b, i) == i = None \/ own[of[i]] = b

\* of is the session each ID was drawn for, own the browser each session was
\* made for.
Owned(of, own) ==
    /\ \A i \in 1..ids : of[i] \in 1..made
    /\ \A e \in store : of[e[1]] = e[2]
    /\ \A s \in 1..made : of[idOf[s]] = s
    /\ \A b \in Browsers :
         Knows(own, b, page[b]) /\ Knows(own, b, login[b]) /\ KnowsID(of, own, b, cookie[b])
    /\ \A c \in Calls :
         /\ Knows(own, c[1], sess[c])
         /\ KnowsID(of, own, c[1], ident[c].old) /\ KnowsID(of, own, c[1], ident[c].new)
         /\ at[c] \in {"destroy", "write"} => of[ident[c].new] = sess[c]

Ofs == [SessionIDs -> SessionIDs]
Owns == [SessionIDs -> Browsers \cup {None}]
Private == \E of \in Ofs, own \in Owns : Owned(of, own)

LEMMA PrivateInit == SessionInit => Private
  <1> SUFFICES ASSUME SessionInit PROVE Private
    OBVIOUS
  <1> DEFINE of == [i \in SessionIDs |-> i]
             own == [s \in SessionIDs |-> None]
  <1>1. of \in Ofs /\ own \in Owns
    BY DEF Ofs, Owns
  <1> HIDE DEF of, own
  <1>2. Owned(of, own)
    BY CallParts DEF SessionInit, Owned, Knows, KnowsID, NoIdent
  <1> QED
    BY <1>1, <1>2 DEF Private

\* Only a login makes a call one that changes an ID.
LEMMA MigratingAsBefore ==
    ASSUME SessionsInv, [SessionNext]_sessionVars, ~ \E c \in Calls : HandleLogin(c),
           NEW c \in Calls, at'[c] \in {"destroy", "write"}
    PROVE  at[c] \in {"destroy", "write"} /\ ident'[c] = ident[c] /\ sess'[c] = sess[c]
  <1> USE DEF memory, call, fetching, browser, Enter, SessionsInv, SessionsOK
  <1>1. ASSUME NEW d \in Calls, Sends(d) \/ Hears(d) \/ start(d) \/ startNew(d)
        PROVE  at[c] \in {"destroy", "write"} /\ ident'[c] = ident[c] /\ sess'[c] = sess[c]
    BY <1>1 DEF Sends, apiFetch, Send, Request, Hears, ensureCSRF, Retry, Receive, Arrived, start, startNew
  <1>2. ASSUME NEW d \in Calls, \/ Mismatch(d) \/ HandleCSRF(d) \/ RequireAuth(d) \/ HandleLogout(d)
                                 \/ WrongCreds(d) \/ LoggedIn(d)
        PROVE  at[c] \in {"destroy", "write"} /\ ident'[c] = ident[c] /\ sess'[c] = sess[c]
    BY <1>2 DEF Mismatch, HandleCSRF, RequireAuth, HandleLogout, WrongCreds, LoggedIn, Answer
  <1>3. ASSUME NEW d \in Calls, destroy(d) \/ writeWithID(d)
        PROVE  at[c] \in {"destroy", "write"} /\ ident'[c] = ident[c] /\ sess'[c] = sess[c]
    BY <1>3 DEF destroy, writeWithID
  <1>4. CASE gc \/ Lost \/ (\E b \in Browsers : Reload(b)) \/ (\E s \in SessionIDs : Expire(s)) \/ UNCHANGED sessionVars
    BY <1>4 DEF gc, Lost, Reload, Expire, sessionVars
  <1> QED
    BY <1>1, <1>2, <1>3, <1>4 DEF SessionNext, ServeCall, Sends, Hears

\* A call brings a browser only what it knows.
LEMMA OwnedStep ==
    ASSUME SessionsInv, NEW of \in Ofs, NEW own \in Owns, Owned(of, own), [SessionNext]_sessionVars,
           ~ \E c \in Calls : startNew(c) \/ HandleLogin(c)
    PROVE  Owned(of, own)'
  <1> USE DEF memory, call, fetching, browser
  <1>0. made \in Nat /\ ids \in Nat
    BY DEF SessionsInv, SessionsOK
  <1>a. /\ \A d \in Calls : at'[d] \in {"destroy", "write"} => of[ident'[d].new] = sess'[d]
        /\ \A i \in 1..ids' : of[i] \in 1..made'
    <2>1. ids' = ids /\ made' = made
      BY DEF SessionNext, ServeCall, Sends, apiFetch, Send, Request, Hears, ensureCSRF, Retry, Receive, Arrived, Reload, start, Mismatch, HandleCSRF, RequireAuth, HandleLogout,
             WrongCreds, LoggedIn, destroy, writeWithID, gc, Lost, Expire, sessionVars
    <2> QED
      BY <2>1, MigratingAsBefore DEF Owned
  <1>1. ASSUME NEW c \in Calls, Sends(c) PROVE Owned(of, own)'
    <2>1. KnowsID(of, own, c[1], cookie[c[1]])
      BY CallParts DEF Owned
    <2>2. /\ ident' = [ident EXCEPT ![c] = [old |-> cookie[c[1]], new |-> None]]
          /\ UNCHANGED <<made, idOf, store, sess, browser>>
      BY <1>1 DEF Sends, apiFetch, Send, Request
    <2>3. /\ ident'[c].old = cookie[c[1]] /\ ident'[c].new = None
          /\ \A d \in Calls \ {c} : ident'[d] = ident[d]
      BY <2>2 DEF SessionsInv, SessionsOK
    <2> QED
      BY <1>a, <2>1, <2>2, <2>3 DEF Owned, KnowsID
  <1>2. ASSUME NEW c \in Calls, Hears(c) PROVE Owned(of, own)'
    <2>1. /\ KnowsID(of, own, c[1], ident[c].new) /\ Knows(own, c[1], sess[c]) /\ c[1] \in Browsers
      BY CallParts DEF Owned
    <2>2. Arrived(c)
      BY <1>2 DEF Hears, ensureCSRF, Retry, Receive
    <2>3. /\ cookie'[c[1]] = ident[c].new
          /\ \A b \in Browsers \ {c[1]} : cookie'[b] = cookie[b]
          /\ sess'[c] = None /\ ident'[c] = NoIdent
          /\ \A d \in Calls \ {c} : ident'[d] = ident[d] /\ sess'[d] = sess[d]
          /\ UNCHANGED <<made, idOf, store>>
      BY <2>1, <2>2 DEF Arrived, SessionsInv, SessionsOK
    <2>4. /\ page'[c[1]] \in {sess[c], None, page[c[1]]} /\ login'[c[1]] \in {sess[c], None, login[c[1]]}
          /\ \A b \in Browsers \ {c[1]} : page'[b] = page[b] /\ login'[b] = login[b]
      BY <1>2, <2>1 DEF Hears, ensureCSRF, Retry, Receive, SessionsInv, SessionsOK
    <2>5. \A b \in Browsers :
            Knows(own, b, page'[b]) /\ Knows(own, b, login'[b]) /\ KnowsID(of, own, b, cookie'[b])
      BY <2>1, <2>3, <2>4 DEF Owned, Knows
    <2>6. \A d \in Calls :
            /\ Knows(own, d[1], sess'[d])
            /\ KnowsID(of, own, d[1], ident'[d].old) /\ KnowsID(of, own, d[1], ident'[d].new)
      BY <2>3 DEF Owned, Knows, KnowsID, NoIdent
    <2> QED
      BY <1>a, <2>3, <2>5, <2>6 DEF Owned
  <1>3. ASSUME NEW c \in Calls, start(c) PROVE Owned(of, own)'
    <2>1. PICK s \in Valid(c) : sess' = [sess EXCEPT ![c] = s]
      BY <1>3 DEF start
    <2>2. of[ident[c].old] = s /\ ident[c].old # None
      BY <1>0 DEF Valid, Stored, Owned, SessionsInv, SessionsOK, None
    <2>3. Knows(own, c[1], s)
      BY <2>2 DEF Owned, Knows, KnowsID
    <2>4. sess'[c] = s /\ \A d \in Calls \ {c} : sess'[d] = sess[d]
      BY <2>1 DEF SessionsInv, SessionsOK
    <2>5. UNCHANGED <<made, idOf, store, ident, browser>>
      BY <1>3 DEF start
    <2> QED
      BY <1>a, <2>3, <2>4, <2>5 DEF Owned, Knows, KnowsID
  <1>4. ASSUME NEW c \in Calls,
               Mismatch(c) \/ HandleCSRF(c) \/ RequireAuth(c) \/ HandleLogout(c) \/ WrongCreds(c) \/ LoggedIn(c)
        PROVE  Owned(of, own)'
    <2>1. /\ UNCHANGED <<made, idOf, store, sess, browser>> /\ sess[c] \in 1..made
          /\ ident' = [ident EXCEPT ![c] = [old |-> None, new |-> idOf[sess[c]]]]
      BY <1>4 DEF Mismatch, HandleCSRF, RequireAuth, HandleLogout, WrongCreds, LoggedIn, Answer, SessionsInv, Serving
    <2>2. /\ ident'[c].old = None /\ ident'[c].new = idOf[sess[c]]
          /\ \A d \in Calls \ {c} : ident'[d] = ident[d]
      BY <2>1 DEF SessionsInv, SessionsOK
    <2>3. of[idOf[sess[c]]] = sess[c] /\ own[sess[c]] = c[1]
      BY <1>0, <2>1 DEF Owned, Knows, None
    <2> QED
      BY <1>a, <2>1, <2>2, <2>3 DEF Owned, Knows, KnowsID
  <1>5. ASSUME NEW c \in Calls, destroy(c) \/ writeWithID(c) PROVE Owned(of, own)'
    <2>1. /\ UNCHANGED <<made, idOf, sess, ident, browser>>
          /\ destroy(c) => store' \subseteq store
          /\ writeWithID(c) => /\ store' \subseteq store \cup {<<ident[c].new, sess[c]>>}
                             /\ at[c] = "write"
      BY <1>5 DEF destroy, writeWithID
    <2>2. writeWithID(c) => of[ident[c].new] = sess[c]
      <3> SUFFICES ASSUME writeWithID(c) PROVE of[ident[c].new] = sess[c]
        OBVIOUS
      <3> QED
        BY <2>1 DEF Owned
    <2>3. \A e \in store' : of[e[1]] = e[2]
      BY <1>5, <2>1, <2>2 DEF Owned
    <2> QED
      BY <1>a, <2>1, <2>3 DEF Owned, Knows, KnowsID
  <1>6. CASE gc
    BY <1>a, <1>6 DEF gc, Owned, Knows, KnowsID
  <1>7. CASE Lost
    BY <1>a, <1>7 DEF Lost, Owned, Knows, KnowsID, NoIdent
  <1>8. ASSUME NEW s \in SessionIDs, Expire(s) PROVE Owned(of, own)'
    BY <1>a, <1>8 DEF Expire, Owned, Knows, KnowsID
  <1>9. CASE UNCHANGED sessionVars
    BY <1>a, <1>9 DEF sessionVars, Owned, Knows, KnowsID
  <1>10. ASSUME NEW b \in Browsers, Reload(b) PROVE Owned(of, own)'
    <2>1. page'[b] = None /\ \A d \in Browsers \ {b} : page'[d] = page[d]
      BY <1>10 DEF Reload, SessionsInv, SessionsOK
    <2> QED
      BY <1>a, <1>10, <2>1 DEF Reload, Owned, Knows, KnowsID
  <1> QED
    BY <1>1, <1>2, <1>3, <1>4, <1>5, <1>6, <1>7, <1>8, <1>9, <1>10 DEF SessionNext, ServeCall, Sends, Hears

LEMMA OwnedNew ==
    ASSUME SessionsConstants, SessionsInv, NEW of \in Ofs, NEW own \in Owns, Owned(of, own),
           NEW c \in Calls, startNew(c),
           NEW of2, of2 = [of EXCEPT ![ids + 1] = made + 1],
           NEW own2, own2 = [own EXCEPT ![made + 1] = c[1]]
    PROVE  Owned(of2, own2)'
  <1>0. /\ made \in Nat /\ ids \in Nat /\ ids + 1 \in SessionIDs /\ made + 1 \in SessionIDs
        /\ 0..ids \subseteq SessionIDs \cup {None} /\ 0..made \subseteq SessionIDs \cup {None}
    BY DEF SessionsConstants, SessionsInv, SessionsOK, startNew, SessionIDs, None
  <1>1. /\ made' = made + 1
        /\ idOf' = [idOf EXCEPT ![made + 1] = ids + 1]
        /\ store' \subseteq store \cup {<<ids + 1, made + 1>>}
        /\ sess' = [sess EXCEPT ![c] = made + 1] /\ at' = [at EXCEPT ![c] = "handle"]
        /\ UNCHANGED <<ident, browser>>
    BY DEF startNew, Enter
  <1>2. /\ of2[ids + 1] = made + 1 /\ \A i \in 1..ids : of2[i] = of[i]
        /\ own2[made + 1] = c[1] /\ \A s \in 1..made : own2[s] = own[s]
        /\ \A s \in 1..made : of[idOf[s]] = s
    BY <1>0 DEF Ofs, Owns, SessionIDs, Owned
  <1>3. \A b, s : s \in 0..made /\ Knows(own, b, s) => Knows(own2, b, s)
    BY <1>0, <1>2 DEF Knows, None
  <1>4. \A b \in Browsers, i \in 0..ids : KnowsID(of, own, b, i) => KnowsID(of2, own2, b, i)
    <2>1. \A i \in 1..ids : of2[i] = of[i] /\ own2[of[i]] = own[of[i]]
      BY <1>2 DEF Owned
    <2> QED
      BY <1>0, <2>1 DEF KnowsID, None
  <1>5. /\ sess'[c] = made + 1 /\ at'[c] = "handle"
        /\ \A d \in Calls \ {c} : sess'[d] = sess[d] /\ at'[d] = at[d]
    BY <1>1 DEF SessionsInv, SessionsOK
  <1>6. \A i \in 1..ids' : of2[i] \in 1..made'
    <2>1. ids' = ids + 1 /\ 1..ids' = 1..ids \cup {ids + 1} /\ 1..made' = 1..made \cup {made + 1}
      BY <1>0, <1>1 DEF startNew
    <2> QED
      BY <1>2, <2>1 DEF Owned
  <1>7. \A e \in store' : of2[e[1]] = e[2]
    BY <1>1, <1>2 DEF Owned, SessionsInv, SessionsOK
  <1>8. \A s \in 1..made' : of2[idOf'[s]] = s
    <2>1. 1..made' = 1..made \cup {made + 1} /\ made + 1 \notin 1..made
      BY <1>0, <1>1
    <2>2. idOf'[made + 1] = ids + 1 /\ \A s \in 1..made : idOf'[s] = idOf[s] /\ idOf[s] \in 1..ids
      BY <1>0, <1>1, <2>1 DEF SessionsInv, SessionsOK, Names
    <2> QED
      BY <1>2, <2>1, <2>2
  <1>9. \A b \in Browsers :
           Knows(own2, b, page'[b]) /\ Knows(own2, b, login'[b]) /\ KnowsID(of2, own2, b, cookie'[b])
    BY <1>1, <1>3, <1>4 DEF Owned, SessionsInv, SessionsOK, browser
  <1>10. \A d \in Calls :
           /\ Knows(own2, d[1], sess'[d])
           /\ KnowsID(of2, own2, d[1], ident'[d].old) /\ KnowsID(of2, own2, d[1], ident'[d].new)
    <2> TAKE d \in Calls
    <2>1. ident[d].old \in 0..ids /\ ident[d].new \in 0..ids /\ sess[d] \in 0..made /\ d[1] \in Browsers
      BY CallParts DEF SessionsInv, SessionsOK
    <2>2. Knows(own2, d[1], sess'[d])
      <3>1. CASE d = c
        BY <1>2, <1>5, <3>1 DEF Knows
      <3>2. CASE d # c
        <4>1. Knows(own, d[1], sess[d])
          BY DEF Owned
        <4> QED
          BY <1>3, <1>5, <2>1, <3>2, <4>1
      <3> QED
        BY <3>1, <3>2
    <2>3. KnowsID(of2, own2, d[1], ident[d].old) /\ KnowsID(of2, own2, d[1], ident[d].new)
      BY <1>4, <2>1 DEF Owned
    <2> QED
      BY <1>1, <2>2, <2>3
  <1>11. \A d \in Calls : at'[d] \in {"destroy", "write"} => of2[ident'[d].new] = sess'[d]
    BY <1>1, <1>2, <1>5 DEF Owned, SessionsInv, Serving
  <1> QED
    BY <1>6, <1>7, <1>8, <1>9, <1>10, <1>11 DEF Owned, Knows, KnowsID

LEMMA OwnedLogin ==
    ASSUME SessionsConstants, SessionsInv, NEW of \in Ofs, NEW own \in Owns, Owned(of, own),
           NEW c \in Calls, HandleLogin(c),
           NEW of2, of2 = [of EXCEPT ![ids + 1] = sess[c]]
    PROVE  Owned(of2, own)'
  <1>0. /\ made \in Nat /\ ids \in Nat /\ ids + 1 \in SessionIDs
        /\ sess[c] \in 1..made /\ c[1] \in Browsers /\ sess[c] # None
    BY CallParts DEF SessionsConstants, SessionsInv, SessionsOK, Serving, HandleLogin, SessionIDs, None
  <1>1. /\ ids' = ids + 1
        /\ idOf' = [idOf EXCEPT ![sess[c]] = ids + 1]
        /\ ident' = [ident EXCEPT ![c] = [old |-> idOf[sess[c]], new |-> ids + 1]]
        /\ at' = [at EXCEPT ![c] = "destroy"]
        /\ UNCHANGED <<made, store, sess, browser>>
    BY DEF HandleLogin, Enter
  <1>2. /\ of2[ids + 1] = sess[c] /\ \A i \in 1..ids : of2[i] = of[i]
        /\ own[sess[c]] = c[1] /\ \A s \in 1..made : of[idOf[s]] = s /\ idOf[s] \in 1..ids
    BY <1>0 DEF Ofs, SessionIDs, Owned, Knows, SessionsInv, Names
  <1>4. \A b, i : i \in 0..ids /\ KnowsID(of, own, b, i) => KnowsID(of2, own, b, i)
    BY <1>0, <1>2 DEF KnowsID, None
  <1>5. /\ ident'[c].old = idOf[sess[c]] /\ ident'[c].new = ids + 1
        /\ \A d \in Calls \ {c} : ident'[d] = ident[d] /\ at'[d] = at[d]
    BY <1>1 DEF SessionsInv, SessionsOK
  <1>6. \A i \in 1..ids' : of2[i] \in 1..made'
    <2>1. 1..ids' = 1..ids \cup {ids + 1} /\ made' = made
      BY <1>0, <1>1
    <2> QED
      BY <1>0, <1>2, <2>1 DEF Owned
  <1>7. \A e \in store' : of2[e[1]] = e[2]
    BY <1>1, <1>2 DEF Owned, SessionsInv, SessionsOK
  <1>8. \A s \in 1..made' : of2[idOf'[s]] = s
    <2>1. 1..made \subseteq SessionIDs
      BY DEF SessionsInv, SessionsOK, SessionIDs, SessionsConstants
    <2>2. idOf'[sess[c]] = ids + 1 /\ \A s \in 1..made : s # sess[c] => idOf'[s] = idOf[s]
      BY <1>0, <1>1, <2>1 DEF SessionsInv, SessionsOK
    <2> QED
      BY <1>1, <1>2, <2>2
  <1>9. \A b \in Browsers :
           Knows(own, b, page'[b]) /\ Knows(own, b, login'[b]) /\ KnowsID(of2, own, b, cookie'[b])
    BY <1>1, <1>4 DEF Owned, SessionsInv, SessionsOK, browser
  <1>10. \A d \in Calls :
           /\ Knows(own, d[1], sess'[d])
           /\ KnowsID(of2, own, d[1], ident'[d].old) /\ KnowsID(of2, own, d[1], ident'[d].new)
    <2> TAKE d \in Calls
    <2>1. CASE d = c
      <3>1. own[of2[idOf[sess[c]]]] = c[1] /\ own[of2[ids + 1]] = c[1]
        BY <1>0, <1>2
      <3>2. Knows(own, c[1], sess'[c])
        BY <1>1 DEF Owned
      <3> QED
        BY <1>5, <2>1, <3>1, <3>2 DEF KnowsID
    <2>2. CASE d # c
      <3>1. ident[d].old \in 0..ids /\ ident[d].new \in 0..ids
        BY DEF SessionsInv, SessionsOK
      <3> QED
        BY <1>1, <1>4, <1>5, <2>2, <3>1 DEF Owned
    <2> QED
      BY <2>1, <2>2
  <1>11. \A d \in Calls : at'[d] \in {"destroy", "write"} => of2[ident'[d].new] = sess'[d]
    BY <1>1, <1>2, <1>5 DEF Owned, SessionsInv, Serving
  <1> QED
    BY <1>6, <1>7, <1>8, <1>9, <1>10, <1>11 DEF Owned, Knows, KnowsID

LEMMA PrivateStep == ASSUME SessionsConstants, SessionsInv, Private, [SessionNext]_sessionVars PROVE Private'
  <1>1. PICK of \in Ofs, own \in Owns : Owned(of, own)
    BY DEF Private
  <1>2. ASSUME NEW c \in Calls, startNew(c) PROVE Private'
    <2>1. PICK of2 : of2 = [of EXCEPT ![ids + 1] = made + 1]
      OBVIOUS
    <2>2. PICK own2 : own2 = [own EXCEPT ![made + 1] = c[1]]
      OBVIOUS
    <2>3. made + 1 \in SessionIDs /\ c[1] \in Browsers
      BY <1>2, CallParts DEF startNew, SessionsConstants, SessionIDs, SessionsInv, SessionsOK
    <2>4. of2 \in Ofs /\ own2 \in Owns
      BY <2>1, <2>2, <2>3 DEF Ofs, Owns
    <2>5. Owned(of2, own2)'
      BY <1>1, <1>2, <2>1, <2>2, OwnedNew
    <2> QED
      BY <2>4, <2>5 DEF Private, Ofs, Owns
  <1>3. ASSUME NEW c \in Calls, HandleLogin(c) PROVE Private'
    <2>1. PICK of2 : of2 = [of EXCEPT ![ids + 1] = sess[c]]
      OBVIOUS
    <2>2. sess[c] \in SessionIDs
      BY <1>3 DEF HandleLogin, SessionsConstants, SessionIDs, SessionsInv, SessionsOK, Serving
    <2>3. of2 \in Ofs
      BY <2>1, <2>2 DEF Ofs
    <2>4. Owned(of2, own)'
      BY <1>1, <1>3, <2>1, OwnedLogin
    <2> QED
      BY <1>1, <2>3, <2>4 DEF Private, Ofs, Owns
  <1>4. CASE ~ \E c \in Calls : startNew(c) \/ HandleLogin(c)
    <2>1. Owned(of, own)'
      BY <1>1, <1>4, OwnedStep
    <2> QED
      BY <1>1, <2>1 DEF Private, Ofs, Owns
  <1> QED
    BY <1>2, <1>3, <1>4

-----------------------------------------------------------------------------
(* What a browser that waits for its answers can rely on *)

Mine(b) == {c \in Calls : c[1] = b}

\* The session it is told of is in its cookie, and logged in if it was told so.
Settled(b) == /\ page[b] \in Live => cookie[b] = idOf[page[b]]
              /\ login[b] \in Live => cookie[b] = idOf[login[b]] /\ login[b] \in authed

\* While its call is served, that is the call's session.
InHand(b, c) ==
    /\ page[b] \in Live => page[b] = sess[c]
    /\ login[b] \in Live => /\ login[b] = sess[c]
                            /\ (at[c] = "ok" /\ kind[c] = "logout") \/ login[b] \in authed
    /\ at[c] \in {"ok", "refused", "mismatch"} => ident[c].new = idOf[sess[c]]
    /\ at[c] \in {"destroy", "write", "migrated"} => kind[c] = "login"
    /\ kind[c] = "login" /\ at[c] \in {"destroy", "write", "migrated", "ok"} => sess[c] \in authed

\* The call's token is the cached one, but none where it is still to be fetched;
\* one that was refused is of a session that is over.
Tokens(b, c) ==
    /\ job[c] = "none" => at[c] = "idle" /\ token[c] = None /\ stale[c] = None
    /\ token[c] \in {None, page[b]}
    /\ stale[c] # None => stale[c] \in over /\ page[b] # stale[c]
    /\ at[c] # "idle" /\ kind[c] \in {"save", "logout"} => token[c] # None
    /\ at[c] \notin {"idle", "start"} /\ stale[c] # None => sess[c] # stale[c]
    /\ at[c] = "mismatch" => token[c] # sess[c] /\ token[c] # None

Steady(b) ==
    /\ \A c, d \in Mine(b) : ~ Free(c) /\ ~ Free(d) => c = d
    /\ (\A c \in Mine(b) : at[c] \in {"idle", "start"}) => Settled(b)
    /\ \A c \in Mine(b) :
         /\ at[c] = "start" => ident[c].old = cookie[b]
         /\ at[c] \notin {"idle", "start"} => InHand(b, c)
         /\ Tokens(b, c)

LEMMA IdleCalls == \A b \in Browsers : Idle(b) <=> \A c \in Mine(b) : at[c] = "idle"
  <1> SUFFICES ASSUME NEW b \in Browsers PROVE Idle(b) <=> \A c \in Mine(b) : at[c] = "idle"
    OBVIOUS
  <1>1. Mine(b) = {<<b, n>> : n \in Slots}
    BY DEF Mine, Calls
  <1> QED
    BY <1>1 DEF Idle

\* Steps that leave a browser's calls and what it knows alone, its sessions as
\* they are or over, and logged in if they were.
LEMMA SteadyStays ==
    ASSUME SessionsOK, Serving, NEW b \in Browsers, Steady(b),
           \A c \in Mine(b) : /\ at'[c] = at[c] /\ kind'[c] = kind[c]
                             /\ sess'[c] = sess[c] /\ ident'[c] = ident[c]
                             /\ job'[c] = job[c] /\ token'[c] = token[c] /\ stale'[c] = stale[c],
           over \subseteq over',
           cookie'[b] = cookie[b] /\ page'[b] = page[b] /\ login'[b] = login[b],
           \A s \in 1..made : (s = page[b] \/ s = login[b] \/ \E c \in Mine(b) : s = sess[c]) =>
                /\ idOf'[s] = idOf[s] /\ (s \in Live' => s \in Live) /\ (s \in authed => s \in authed'),
           1..made \subseteq 1..made', page[b] \in Live' => page[b] \in Live,
           login[b] \in Live' => login[b] \in Live
    PROVE  Steady(b)'
  <1>1. Live \subseteq 1..made
    BY DEF Live
  <1>2. Settled(b) => Settled(b)'
    BY <1>1 DEF Settled
  <1>3. \A c \in Mine(b) : at[c] \notin {"idle", "start"} => sess[c] \in 1..made
    BY DEF Mine, Serving, SessionsOK
  <1>4. ASSUME NEW c \in Mine(b), at[c] \notin {"idle", "start"}, InHand(b, c)
        PROVE  InHand(b, c)'
    BY <1>1, <1>3, <1>4 DEF InHand
  <1>5. Mine(b)' = Mine(b)
    BY DEF Mine
  <1>6. \A c \in Mine(b) : Tokens(b, c)' /\ (Free(c)' <=> Free(c))
    BY DEF Steady, Tokens, Free
  <1> QED
    BY <1>2, <1>4, <1>5, <1>6 DEF Steady

\* What a browser knows is not what a call of another one is about.
LEMMA Apart ==
    ASSUME Private, NEW b \in Browsers, NEW c \in Calls, c[1] # b, sess[c] # None, NEW s, s # None,
           s = page[b] \/ s = login[b] \/ \E d \in Mine(b) : s = sess[d]
    PROVE  s # sess[c]
  <1>1. PICK of \in Ofs, own \in Owns : Owned(of, own)
    BY DEF Private
  <1>2. own[s] = b /\ own[sess[c]] = c[1]
    BY <1>1 DEF Owned, Knows, Mine
  <1> QED
    BY <1>2

\* A session that none of its browser's calls migrates is in the store, and
\* nothing else is there under its ID.
LEMMA FoundAlone ==
    ASSUME SessionsConstants, SessionsInv, Private, NEW b \in Browsers, NEW s \in Live, s = page[b] \/ s = login[b],
           \A c \in Mine(b) : at[c] \notin {"destroy", "write"}
    PROVE  Stored(idOf[s]) = {s}
  <1>1. PICK of \in Ofs, own \in Owns : Owned(of, own)
    BY DEF Private
  <1>2. s \in 1..made /\ s # None
    BY DEF Live, SessionsInv, SessionsOK, None
  <1>3. ~ \E c \in Calls : Writing(c, s)
    <2> SUFFICES ASSUME NEW c \in Calls, Writing(c, s) PROVE FALSE
      OBVIOUS
    <2>1. c[1] # b /\ sess[c] = s
      BY DEF Writing, Mine
    <2> QED
      BY <1>2, <2>1, Apart
  <1>4. <<idOf[s], s>> \in store
    BY <1>3 DEF SessionsInv, Findable
  <1>5. \A t : <<idOf[s], t>> \in store => t = s
    BY <1>1, <1>2 DEF Owned
  <1>6. s \in SessionIDs
    BY <1>2 DEF SessionsInv, SessionsOK, SessionIDs, SessionsConstants
  <1> QED
    BY <1>4, <1>5, <1>6 DEF Stored

\* Steps of another browser's call.
LEMMA OtherSteps ==
    ASSUME SessionsConstants, SessionsInv, Private, NEW b \in Browsers, Steady(b),
           NEW c \in Calls, c[1] # b,
           \/ Sends(c) \/ Hears(c) \/ start(c) \/ startNew(c) \/ Mismatch(c)
           \/ HandleCSRF(c) \/ RequireAuth(c) \/ HandleLogout(c) \/ WrongCreds(c)
           \/ HandleLogin(c) \/ destroy(c) \/ writeWithID(c) \/ LoggedIn(c)
    PROVE  Steady(b)'
  <1> USE DEF memory, call, fetching, browser, Enter
  <1>0. c \notin Mine(b) /\ made \in Nat /\ MaxSessions \in Nat
    BY DEF Mine, SessionsInv, SessionsOK, SessionsConstants
  <1>1. CASE Sends(c) \/ Hears(c) \/ start(c) \/ startNew(c)
    <2>1. \A d \in Mine(b) : /\ at'[d] = at[d] /\ kind'[d] = kind[d]
                            /\ sess'[d] = sess[d] /\ ident'[d] = ident[d]
                            /\ job'[d] = job[d] /\ token'[d] = token[d] /\ stale'[d] = stale[d]
      BY <1>0, <1>1 DEF Sends, apiFetch, Send, Request, Hears, ensureCSRF, Retry, Receive, Arrived, start, startNew, Mine, SessionsInv, SessionsOK
    <2>2. cookie'[b] = cookie[b] /\ page'[b] = page[b] /\ login'[b] = login[b]
      BY <1>1 DEF Sends, apiFetch, Send, Request, Hears, ensureCSRF, Retry, Receive, Arrived, start, startNew, SessionsInv, SessionsOK
    <2>3. made' \in {made, made + 1} /\ over' = over /\ authed' = authed
      BY <1>1 DEF Sends, apiFetch, Send, Request, Hears, ensureCSRF, Retry, Receive, Arrived, start, startNew
    <2>4. \A s \in 1..made : idOf'[s] = idOf[s]
      <3>1. CASE startNew(c)
        BY <1>0, <3>1 DEF startNew, SessionsInv, SessionsOK
      <3>2. CASE ~ startNew(c)
        BY <1>1, <3>2 DEF Sends, apiFetch, Send, Request, Hears, ensureCSRF, Retry, Receive, Arrived, start
      <3> QED
        BY <3>1, <3>2
    <2>5. /\ \A s \in 0..made : s \in Live' => s \in Live
          /\ 1..made \subseteq 1..made'
      BY <1>0, <2>3 DEF Live
    <2>6. page[b] \in 0..made /\ login[b] \in 0..made
      BY DEF SessionsInv, SessionsOK
    <2>7. \A s \in 1..made : idOf'[s] = idOf[s] /\ (s \in Live' => s \in Live) /\ (s \in authed => s \in authed')
      BY <1>0, <2>3, <2>4, <2>5
    <2> QED
      BY <2>1, <2>2, <2>3, <2>5, <2>6, <2>7, SteadyStays DEF SessionsInv
  <1>2. CASE ~ (Sends(c) \/ Hears(c) \/ start(c) \/ startNew(c))
    <2>0. at[c] \in {"handle", "destroy", "write", "migrated"} /\ sess[c] \in 1..made /\ sess[c] # None
      <3>1. at[c] \in {"handle", "destroy", "write", "migrated"}
        BY <1>2 DEF Mismatch, HandleCSRF, RequireAuth, HandleLogout, WrongCreds, HandleLogin, destroy,
                    writeWithID, LoggedIn
      <3> QED
        BY <3>1 DEF SessionsInv, Serving, None
    <2>1. UNCHANGED <<made, over, kind, sess, fetching, cookie, page, login>>
      BY <1>2 DEF Mismatch, HandleCSRF, RequireAuth, HandleLogout, WrongCreds, HandleLogin, destroy,
                  writeWithID, LoggedIn
    <2>2. \A d \in Mine(b) : at'[d] = at[d] /\ ident'[d] = ident[d]
      BY <1>0, <1>2 DEF Mismatch, HandleCSRF, RequireAuth, HandleLogout, WrongCreds, HandleLogin, destroy,
                  writeWithID, LoggedIn, Answer, Mine, SessionsInv, SessionsOK
    <2>3. \A s \in 1..made : s # sess[c] => idOf'[s] = idOf[s] /\ (s \in authed => s \in authed')
      <3>1. CASE HandleLogin(c)
        <4>1. \A s \in 1..made : s \in SessionIDs
          BY <1>0 DEF SessionIDs, SessionsInv, SessionsOK
        <4> QED
          BY <3>1, <4>1 DEF HandleLogin, SessionsInv, SessionsOK
      <3>2. CASE HandleLogout(c)
        BY <3>2 DEF HandleLogout
      <3>3. CASE ~ (HandleLogin(c) \/ HandleLogout(c))
        BY <1>2, <3>3 DEF Mismatch, HandleCSRF, RequireAuth, WrongCreds, destroy, writeWithID, LoggedIn
      <3> QED
        BY <3>1, <3>2, <3>3
    <2>4. \A s \in 1..made : (s = page[b] \/ s = login[b] \/ \E d \in Mine(b) : s = sess[d]) => s # sess[c]
      BY <2>0, Apart DEF None
    <2>5. Live' = Live
      BY <2>1 DEF Live
    <2> QED
      BY <2>1, <2>2, <2>3, <2>4, <2>5, SteadyStays DEF SessionsInv
  <1> QED
    BY <1>1, <1>2

LEMMA OneServed ==
    ASSUME NEW b \in Browsers, Steady(b), NEW c \in Mine(b), at[c] # "idle",
           \A d \in Mine(b) \ {c} : at'[d] = at[d] /\ sess'[d] = sess[d],
           UNCHANGED <<over, kind, job, token, stale, page>>,
           at'[c] \notin {"idle", "start"}, InHand(b, c)',
           stale[c] # None => sess'[c] # stale[c],
           at'[c] = "mismatch" => token[c] # sess'[c] /\ token[c] # None
    PROVE  Steady(b)'
  <1>1. \A d \in Mine(b) \ {c} : Free(d) /\ Free(d)' /\ at'[d] = "idle"
    BY DEF Steady, Free
  <1>2. Mine(b)' = Mine(b)
    BY DEF Mine
  <1>3. Tokens(b, c)'
    BY DEF Steady, Tokens
  <1>4. \A d \in Mine(b) \ {c} : Tokens(b, d)'
    BY <1>1 DEF Steady, Tokens, Free
  <1> QED
    BY <1>1, <1>2, <1>3, <1>4 DEF Steady

\* Steps of the browser's own call, of which there is one at a time.
LEMMA OwnSteps ==
    ASSUME SessionsConstants, Orderly \subseteq Browsers, SessionsInv, Private, NEW b \in Orderly, Steady(b),
           NEW c \in Mine(b),
           \/ Sends(c) \/ Hears(c) \/ start(c) \/ startNew(c) \/ Mismatch(c)
           \/ HandleCSRF(c) \/ RequireAuth(c) \/ HandleLogout(c) \/ WrongCreds(c)
           \/ HandleLogin(c) \/ destroy(c) \/ writeWithID(c) \/ LoggedIn(c)
    PROVE  Steady(b)'
  <1> USE DEF memory, call, fetching, browser, Enter
  <1>0. c \in Calls /\ c[1] = b /\ b \in Browsers /\ made \in Nat /\ ids \in Nat /\ MaxSessions \in Nat
    BY DEF Mine, SessionsInv, SessionsOK, SessionsConstants
  <1>1. CASE Sends(c)
    <2>1. at[c] = "idle" /\ \A d \in Mine(b) \ {c} : Free(d)
      <3>1. CASE apiFetch(c)
        BY <1>0, <3>1 DEF apiFetch, Free, Mine, Calls
      <3>2. CASE Send(c)
        BY <3>2 DEF Send, Free, Steady
      <3> QED
        BY <1>1, <3>1, <3>2 DEF Sends
    <2>2. Settled(b) /\ Tokens(b, c)
      BY <2>1 DEF Steady, Free
    <2>3. /\ at' = [at EXCEPT ![c] = "start"]
          /\ ident' = [ident EXCEPT ![c] = [old |-> cookie[b], new |-> None]]
          /\ UNCHANGED <<memory, over, sess, stale, browser>>
      BY <1>0, <1>1 DEF Sends, apiFetch, Send, Request
    <2>4. /\ at'[c] = "start" /\ ident'[c].old = cookie[b]
          /\ \A d \in Mine(b) \ {c} : at'[d] = at[d]
      BY <1>0, <2>3 DEF SessionsInv, SessionsOK, Mine
    <2>5. /\ \A d \in Mine(b) \ {c} : job'[d] = job[d] /\ token'[d] = token[d]
          /\ job'[c] # "none"
          /\ token'[c] \in {None, page[b], token[c]}
          /\ kind'[c] \in {"save", "logout"} => token'[c] # None
      <3>1. CASE apiFetch(c)
        BY <1>0, <3>1 DEF apiFetch, Request, SessionsInv, SessionsOK, Mine
      <3>2. CASE Send(c)
        BY <1>0, <3>2 DEF Send, Request, SessionsInv, SessionsOK, Mine
      <3> QED
        BY <1>1, <3>1, <3>2 DEF Sends
    <2>6. Settled(b)'
      BY <2>2, <2>3 DEF Settled, Live
    <2>7. Tokens(b, c)'
      BY <2>2, <2>3, <2>4, <2>5 DEF Tokens
    <2>8. \A d \in Mine(b) \ {c} : Free(d)' /\ Tokens(b, d)'
      BY <2>1, <2>3, <2>4, <2>5 DEF Steady, Tokens, Free
    <2>9. Mine(b)' = Mine(b)
      BY DEF Mine
    <2> QED
      BY <2>3, <2>4, <2>6, <2>7, <2>8, <2>9 DEF Steady, Free
  <1>2. CASE Hears(c)
    <2>1. /\ at[c] \in {"ok", "refused", "mismatch"} /\ InHand(b, c) /\ Arrived(c) /\ Tokens(b, c)
          /\ \A d \in Mine(b) \ {c} : Free(d)
      BY <1>2 DEF Hears, ensureCSRF, Retry, Receive, Steady, Free
    <2>2. \A d \in Mine(b) : at'[d] = "idle"
      BY <1>0, <2>1 DEF Arrived, Free, SessionsInv, SessionsOK, Mine
    <2>3. cookie'[b] = idOf[sess[c]] /\ UNCHANGED <<memory, over>>
      BY <1>0, <2>1 DEF Arrived, InHand, SessionsInv, SessionsOK
    <2>4. /\ page'[b] \in {sess[c], None, page[b]}
          /\ login'[b] = IF kind[c] = "login" /\ at[c] = "ok" THEN sess[c]
                         ELSE IF kind[c] = "logout" /\ at[c] = "ok" THEN None
                         ELSE login[b]
      BY <1>0, <1>2 DEF Hears, ensureCSRF, Retry, Receive, SessionsInv, SessionsOK
    <2>5. None \notin Live
      BY DEF Live, None
    <2>6. Settled(b)'
      <3>1. page'[b] \in Live => cookie'[b] = idOf[page'[b]]
        BY <2>1, <2>3, <2>4, <2>5 DEF InHand
      <3>2. login'[b] \in Live => cookie'[b] = idOf[login'[b]] /\ login'[b] \in authed
        BY <2>1, <2>3, <2>4, <2>5 DEF InHand
      <3> QED
        BY <2>3, <3>1, <3>2 DEF Settled, Live
    <2>7. Tokens(b, c)'
      <3>1. at'[c] = "idle" /\ over' = over
        BY <2>2, <2>3
      <3>2. CASE ensureCSRF(c)
        <4>1. /\ page'[b] = sess[c] /\ token'[c] = sess[c] /\ UNCHANGED <<job, stale>>
          BY <1>0, <3>2 DEF ensureCSRF, SessionsInv, SessionsOK
        <4>2. job[c] # "none"
          BY <2>1 DEF Tokens
        <4> QED
          BY <2>1, <3>1, <4>1, <4>2 DEF Tokens
      <3>3. CASE Retry(c)
        <4>1. /\ page'[b] = None /\ token'[c] = None /\ stale'[c] = token[c] /\ UNCHANGED job
          BY <1>0, <3>3 DEF Retry, SessionsInv, SessionsOK
        <4>2. job[c] # "none" /\ token[c] # None /\ token[c] = page[b] /\ token[c] # sess[c]
          BY <2>1, <3>3 DEF Retry, Tokens
        <4>3. token[c] \in over
          BY <1>0, <2>1, <4>2 DEF InHand, Live, SessionsInv, SessionsOK, None
        <4> QED
          BY <3>1, <4>1, <4>2, <4>3 DEF Tokens
      <3>4. CASE Receive(c)
        <4>1. job'[c] = "none" /\ token'[c] = None /\ stale'[c] = None
          BY <1>0, <3>4 DEF Receive, SessionsInv, SessionsOK
        <4> QED
          BY <3>1, <4>1 DEF Tokens
      <3> QED
        BY <1>2, <3>2, <3>3, <3>4 DEF Hears
    <2>8. \A d \in Mine(b) \ {c} : Free(d)' /\ Tokens(b, d)'
      <3>1. \A d \in Mine(b) \ {c} : job'[d] = job[d] /\ token'[d] = token[d] /\ stale'[d] = stale[d]
        BY <1>0, <1>2 DEF Hears, ensureCSRF, Retry, Receive, SessionsInv, SessionsOK, Mine
      <3> QED
        BY <2>1, <2>2, <2>3, <3>1 DEF Steady, Tokens, Free
    <2>9. Mine(b)' = Mine(b)
      BY DEF Mine
    <2> QED
      BY <2>2, <2>6, <2>7, <2>8, <2>9 DEF Steady
  <1>3. ASSUME at[c] = "start"
        PROVE  /\ Settled(b) /\ ident[c].old = cookie[b]
               /\ \A s \in Live : s = page[b] \/ s = login[b] => Valid(c) = {s}
    <2>1. \A d \in Mine(b) : at[d] \in {"idle", "start"}
      BY <1>3 DEF Steady, Free
    <2>2. Settled(b) /\ ident[c].old = cookie[b]
      BY <1>3, <2>1 DEF Steady
    <2>3. ASSUME NEW s \in Live, s = page[b] \/ s = login[b] PROVE Valid(c) = {s}
      <3>1. ident[c].old = idOf[s]
        BY <2>2, <2>3 DEF Settled
      <3>2. Stored(idOf[s]) = {s}
        BY <1>0, <2>1, <2>3, FoundAlone
      <3> QED
        BY <2>3, <3>1, <3>2 DEF Valid, Live
    <2> QED
      BY <2>2, <2>3
  <1>4. CASE start(c)
    <2>1. PICK s \in Valid(c) : sess' = [sess EXCEPT ![c] = s]
      BY <1>4 DEF start
    <2>2. /\ sess'[c] = s /\ at[c] = "start" /\ at'[c] = "handle"
          /\ \A d \in Mine(b) \ {c} : at'[d] = at[d] /\ sess'[d] = sess[d]
          /\ UNCHANGED <<memory, over, kind, ident, fetching, browser>>
      BY <1>0, <1>4, <2>1 DEF start, SessionsInv, SessionsOK, Mine
    <2>3. InHand(b, c)'
      <3>1. page[b] \in Live => page[b] = s
        BY <1>3, <2>2
      <3>2. login[b] \in Live => login[b] = s /\ login[b] \in authed
        BY <1>3, <2>2 DEF Settled
      <3> QED
        BY <2>2, <3>1, <3>2 DEF InHand, Live
    <2>4. stale[c] # None => sess'[c] # stale[c]
      BY <2>1, <2>2 DEF Steady, Tokens, Valid
    <2> QED
      BY <1>0, <2>2, <2>3, <2>4, OneServed
  <1>5. CASE startNew(c)
    <2>1. /\ at[c] = "start" /\ at'[c] = "handle" /\ Valid(c) = {}
          /\ \A d \in Mine(b) \ {c} : at'[d] = at[d] /\ sess'[d] = sess[d]
          /\ sess'[c] = made' /\ made' = made + 1 /\ UNCHANGED <<over, kind, fetching, browser>>
      BY <1>0, <1>5 DEF startNew, SessionsInv, SessionsOK, Mine
    <2>2. page[b] \notin Live /\ login[b] \notin Live
      BY <1>3, <2>1
    <2>3. page[b] \notin Live' /\ login[b] \notin Live'
      <3>1. page[b] \in 0..made /\ login[b] \in 0..made
        BY <1>0 DEF SessionsInv, SessionsOK
      <3> QED
        BY <1>0, <2>1, <2>2, <3>1 DEF Live
    <2>4. InHand(b, c)'
      BY <2>1, <2>3 DEF InHand
    <2>5. stale[c] # None => sess'[c] # stale[c]
      <3>1. stale[c] # None => stale[c] \in over
        BY DEF Steady, Tokens
      <3> QED
        BY <1>0, <2>1, <3>1 DEF SessionsInv, SessionsOK
    <2> QED
      BY <1>0, <2>1, <2>4, <2>5, OneServed
  <1>6. CASE Mismatch(c) \/ HandleCSRF(c) \/ RequireAuth(c) \/ HandleLogout(c) \/ WrongCreds(c) \/ LoggedIn(c)
    <2>1. /\ at[c] \in {"handle", "migrated"} /\ at'[c] \in {"ok", "refused", "mismatch"}
          /\ \A d \in Mine(b) \ {c} : at'[d] = at[d]
          /\ ident'[c].new = idOf[sess[c]]
          /\ UNCHANGED <<made, ids, idOf, over, kind, sess, fetching, browser>>
      BY <1>0, <1>6 DEF Mismatch, HandleCSRF, RequireAuth, HandleLogout, WrongCreds, LoggedIn, Answer,
                        SessionsInv, SessionsOK, Mine
    <2>2. InHand(b, c)
      BY <2>1 DEF Steady
    <2>3. /\ authed' = authed \/ (at'[c] = "ok" /\ kind[c] = "logout" /\ authed' = authed \ {sess[c]})
          /\ kind[c] = "login" /\ at'[c] = "ok" => at[c] = "migrated"
      BY <1>0, <1>6 DEF Mismatch, HandleCSRF, RequireAuth, HandleLogout, WrongCreds, LoggedIn, Answer,
                        SessionsInv, SessionsOK
    <2>4. InHand(b, c)'
      <3>1. Live' = Live
        BY <2>1 DEF Live
      <3>2. login[b] \in Live =>
               /\ login[b] = sess[c]
               /\ (at'[c] = "ok" /\ kind[c] = "logout") \/ login[b] \in authed'
        BY <2>1, <2>2, <2>3 DEF InHand
      <3>3. kind[c] = "login" /\ at'[c] \in {"destroy", "write", "migrated", "ok"} => sess[c] \in authed'
        BY <2>1, <2>2, <2>3 DEF InHand
      <3> QED
        BY <2>1, <2>2, <3>1, <3>2, <3>3 DEF InHand
    <2>5. at'[c] = "mismatch" => kind[c] \in {"save", "logout"} /\ token[c] # sess[c]
      BY <1>0, <1>6 DEF Mismatch, CSRF, HandleCSRF, RequireAuth, HandleLogout, WrongCreds, LoggedIn, Answer,
                        SessionsInv, SessionsOK
    <2>6. /\ stale[c] # None => sess[c] # stale[c]
          /\ at'[c] = "mismatch" => token[c] # None
      BY <2>1, <2>5 DEF Steady, Tokens
    <2> QED
      BY <1>0, <2>1, <2>4, <2>5, <2>6, OneServed
  <1>7. CASE HandleLogin(c)
    <2>1. /\ at[c] = "handle" /\ at'[c] = "destroy" /\ kind[c] = "login"
          /\ \A d \in Mine(b) \ {c} : at'[d] = at[d]
          /\ authed' = authed \cup {sess[c]}
          /\ UNCHANGED <<made, over, kind, sess, fetching, browser>>
      BY <1>0, <1>7 DEF HandleLogin, SessionsInv, SessionsOK, Mine
    <2>2. InHand(b, c)
      BY <2>1 DEF Steady
    <2>3. InHand(b, c)'
      BY <2>1, <2>2 DEF InHand, Live
    <2>4. stale[c] # None => sess[c] # stale[c]
      BY <2>1 DEF Steady, Tokens
    <2> QED
      BY <1>0, <2>1, <2>3, <2>4, OneServed
  <1>8. CASE destroy(c) \/ writeWithID(c)
    <2>1. /\ at[c] \in {"destroy", "write"} /\ at'[c] \in {"write", "migrated"}
          /\ \A d \in Mine(b) \ {c} : at'[d] = at[d]
          /\ UNCHANGED <<made, idOf, authed, over, kind, sess, fetching, browser>>
      BY <1>0, <1>8 DEF destroy, writeWithID, SessionsInv, SessionsOK, Mine
    <2>2. InHand(b, c)
      BY <2>1 DEF Steady
    <2>3. InHand(b, c)'
      BY <2>1, <2>2 DEF InHand, Live
    <2>4. stale[c] # None => sess[c] # stale[c]
      BY <2>1 DEF Steady, Tokens
    <2> QED
      BY <1>0, <2>1, <2>3, <2>4, OneServed
  <1> QED
    BY <1>1, <1>2, <1>4, <1>5, <1>6, <1>7, <1>8

LEMMA SteadyStep ==
    ASSUME SessionsConstants, SessionsInv, Private, NEW b \in Orderly, Steady(b), [SessionNext]_sessionVars
    PROVE  Steady(b)'
  <1> USE DEF memory, call, fetching, browser
  <1>0. b \in Browsers /\ Orderly \subseteq Browsers /\ page[b] \in 0..made /\ login[b] \in 0..made
    BY DEF SessionsConstants, SessionsInv, SessionsOK
  <1>1. ASSUME NEW c \in Calls,
               \/ Sends(c) \/ Hears(c) \/ start(c) \/ startNew(c) \/ Mismatch(c)
               \/ HandleCSRF(c) \/ RequireAuth(c) \/ HandleLogout(c) \/ WrongCreds(c)
               \/ HandleLogin(c) \/ destroy(c) \/ writeWithID(c) \/ LoggedIn(c)
        PROVE  Steady(b)'
    <2>1. CASE c[1] = b
      BY <1>0, <1>1, <2>1, OwnSteps DEF Mine
    <2>2. CASE c[1] # b
      BY <1>0, <1>1, <2>2, OtherSteps
    <2> QED
      BY <2>1, <2>2
  <1>2. CASE gc \/ (\E s \in SessionIDs : Expire(s)) \/ UNCHANGED sessionVars
    <2>1. UNCHANGED <<made, idOf, authed, at, kind, sess, ident, fetching, cookie, page, login>> /\ over \subseteq over'
      BY <1>2 DEF gc, Expire, sessionVars
    <2>2. Live' \subseteq Live
      BY <2>1 DEF Live
    <2> QED
      BY <1>0, <2>1, <2>2, SteadyStays DEF SessionsInv
  <1>3. CASE Lost
    <2>1. Live' = {} /\ \A c \in Mine(b) : at'[c] = "idle"
      BY <1>3 DEF Lost, Live, Mine
    <2>2. Mine(b)' = Mine(b)
      BY DEF Mine
    <2>3. \A c \in Mine(b) : Tokens(b, c)' /\ (Free(c) => Free(c)')
      <3> SUFFICES ASSUME NEW c \in Mine(b) PROVE Tokens(b, c)' /\ (Free(c) => Free(c)')
        OBVIOUS
      <3>1. c \in Calls /\ over' = 1..made /\ over \subseteq over' /\ page' = page /\ Tokens(b, c)
        BY <1>3 DEF Lost, Mine, Steady, SessionsInv, SessionsOK
      <3>2. CASE at[c] = "idle"
        <4>1. job'[c] = job[c] /\ token'[c] = token[c] /\ stale'[c] = stale[c]
          BY <1>3, <3>1, <3>2 DEF Lost
        <4> QED
          BY <2>1, <3>1, <4>1 DEF Tokens, Free
      <3>3. CASE at[c] # "idle"
        <4>1. job'[c] = "none" /\ token'[c] = None /\ stale'[c] = None
          BY <1>3, <3>1, <3>3 DEF Lost
        <4> QED
          BY <2>1, <3>3, <4>1 DEF Tokens, Free
      <3> QED
        BY <3>2, <3>3
    <2>4. \A c \in Mine(b) : ~ Free(c)' => ~ Free(c)
      BY <2>3
    <2> QED
      BY <2>1, <2>2, <2>3, <2>4 DEF Steady, Settled
  <1>4. ASSUME NEW b2 \in Browsers, Reload(b2) PROVE Steady(b)'
    <2>1. UNCHANGED <<made, idOf, authed, over, at, kind, sess, ident, fetching, cookie, login>>
      BY <1>4 DEF Reload
    <2>2. CASE b2 = b
      <3>1. page'[b] = None /\ None \notin Live
        BY <1>0, <1>4, <2>2 DEF Reload, SessionsInv, SessionsOK, Live, None
      <3>2. \A c \in Mine(b) : Free(c) /\ Free(c)' /\ at[c] = "idle"
        BY <1>4, <2>1, <2>2 DEF Reload, Free, Mine, Calls
      <3>3. Settled(b)'
        BY <2>1, <3>1, <3>2 DEF Steady, Settled, Live
      <3>4. \A c \in Mine(b) : Tokens(b, c)'
        BY <2>1, <3>2 DEF Steady, Tokens, Free
      <3>5. Mine(b)' = Mine(b)
        BY DEF Mine
      <3> QED
        BY <2>1, <3>2, <3>3, <3>4, <3>5 DEF Steady
    <2>3. CASE b2 # b
      <3>1. page'[b] = page[b] /\ Live' = Live
        BY <1>0, <1>4, <2>1, <2>3 DEF Reload, SessionsInv, SessionsOK, Live
      <3> QED
        BY <1>0, <2>1, <3>1, SteadyStays DEF SessionsInv
    <2> QED
      BY <2>2, <2>3
  <1> QED
    BY <1>1, <1>2, <1>3, <1>4 DEF SessionNext, ServeCall, Sends, Hears

-----------------------------------------------------------------------------
(* The theorems about browsers *)

Orderlies == \A b \in Orderly : Steady(b)

LEMMA OrderliesAlways == SessionsConstants /\ SessionSpec => [](SessionsInv /\ Private /\ Orderlies)
  <1>1. SessionInit => Orderlies
    <2> SUFFICES ASSUME SessionInit, NEW b \in Orderly PROVE Steady(b)
      BY DEF Orderlies
    <2>1. Live = {}
      BY DEF SessionInit, Live
    <2>2. \A c \in Mine(b) : at[c] = "idle" /\ Free(c) /\ token[c] = None /\ stale[c] = None
      BY DEF SessionInit, Mine, Free
    <2> QED
      BY <2>1, <2>2 DEF Steady, Settled, Tokens, Free
  <1>2. ASSUME SessionsConstants PROVE SessionSpec => [](SessionsInv /\ Private /\ Orderlies)
    <2>1. SessionInit => SessionsInv /\ Private /\ Orderlies
      BY <1>1, <1>2, InvInit, PrivateInit
    <2>2. SessionsInv /\ Private /\ Orderlies /\ [SessionNext]_sessionVars => (SessionsInv /\ Private /\ Orderlies)'
      <3>1. SessionsInv /\ Private /\ Orderlies /\ [SessionNext]_sessionVars => SessionsInv' /\ Private'
        BY <1>2, InvStep, PrivateStep
      <3>2. SessionsInv /\ Private /\ Orderlies /\ [SessionNext]_sessionVars => Orderlies'
        BY <1>2, SteadyStep DEF Orderlies
      <3> QED
        BY <3>1, <3>2
    <2> QED
      BY <2>1, <2>2, PTL DEF SessionSpec
  <1> QED
    BY <1>2

LEMMA SettledIsFound ==
    ASSUME SessionsConstants, SessionsInv, Private, Orderlies, NEW b \in Orderly, Idle(b)
    PROVE  /\ Settled(b)
           /\ \A s \in Live : s = page[b] \/ s = login[b] => Stored(cookie[b]) = {s}
  <1>1. b \in Browsers /\ \A c \in Mine(b) : at[c] = "idle"
    BY IdleCalls DEF SessionsConstants
  <1>2. Settled(b)
    BY <1>1 DEF Orderlies, Steady
  <1>3. ASSUME NEW s \in Live, s = page[b] \/ s = login[b] PROVE Stored(cookie[b]) = {s}
    BY <1>1, <1>2, <1>3, FoundAlone DEF Settled
  <1> QED
    BY <1>2, <1>3

\* LoginSticks: a browser that waits for its answers and was told that it is
\* logged in has the cookie of a session that is, whatever others do, until it
\* logs out or the session is over.
THEOREM LoginsStick == SessionsConstants /\ SessionSpec => []LoginSticks
  <1>1. SessionsConstants /\ SessionsInv /\ Private /\ Orderlies => LoginSticks
    BY SettledIsFound DEF LoginSticks, Settled
  <1>2. ASSUME SessionsConstants PROVE SessionSpec => []LoginSticks
    <2>1. SessionsInv /\ Private /\ Orderlies => LoginSticks
      BY <1>1, <1>2
    <2>2. SessionSpec => [](SessionsInv /\ Private /\ Orderlies)
      BY <1>2, OrderliesAlways
    <2> QED
      BY <2>1, <2>2, PTL
  <1> QED
    BY <1>2

\* TokenStaysGood: the token on its page is that of the session its cookie
\* names, also after a login has changed the ID.
THEOREM TokensStayGood == SessionsConstants /\ SessionSpec => []TokenStaysGood
  <1>1. SessionsConstants /\ SessionsInv /\ Private /\ Orderlies => TokenStaysGood
    BY SettledIsFound DEF TokenStaysGood
  <1>2. ASSUME SessionsConstants PROVE SessionSpec => []TokenStaysGood
    <2>1. SessionsInv /\ Private /\ Orderlies => TokenStaysGood
      BY <1>1, <1>2
    <2>2. SessionSpec => [](SessionsInv /\ Private /\ Orderlies)
      BY <1>2, OrderliesAlways
    <2> QED
      BY <2>1, <2>2, PTL
  <1> QED
    BY <1>2

\* StaleMeansOver: apiFetch's token is refused only when its session is over, and
\* the fresh one it fetches then is of another session.
THEOREM StaleTokensAreOver == SessionsConstants /\ SessionSpec => []StaleMeansOver
  <1>1. ASSUME SessionsConstants, SessionsInv, Private, Orderlies PROVE StaleMeansOver
    <2> SUFFICES ASSUME NEW c \in Calls, c[1] \in Orderly, at[c] = "mismatch"
                 PROVE  token[c] \notin Live /\ token[c] # stale[c]
      BY DEF StaleMeansOver
    <2>1. c \in Mine(c[1])
      BY DEF Mine
    <2>2. Steady(c[1])
      BY <1>1 DEF Orderlies
    <2>3. Tokens(c[1], c) /\ InHand(c[1], c)
      BY <2>1, <2>2 DEF Steady
    <2> QED
      BY <2>3 DEF Tokens, InHand
  <1>2. ASSUME SessionsConstants PROVE SessionSpec => []StaleMeansOver
    <2>1. SessionsInv /\ Private /\ Orderlies => StaleMeansOver
      BY <1>1, <1>2
    <2>2. SessionSpec => [](SessionsInv /\ Private /\ Orderlies)
      BY <1>2, OrderliesAlways
    <2> QED
      BY <2>1, <2>2, PTL
  <1> QED
    BY <1>2

-----------------------------------------------------------------------------
(* PART 3: the process *)

LEMMA SessionsConstantsHold == SessionsConstants
  BY WebServerAssumption

LEMMA ServerStep ==
    ASSUME [ServerNext]_serverVars
    PROVE  [Next]_vars /\ [SessionNext]_sessionVars
  <1>1. CASE Serve /\ UNCHANGED sessionVars
    BY <1>1 DEF Next
  <1>2. CASE ServeCall /\ UNCHANGED vars
    BY <1>2 DEF SessionNext
  <1>3. CASE ServerRestart
    BY <1>3 DEF ServerRestart, Next, SessionNext
  <1>4. CASE UNCHANGED serverVars
    BY <1>4 DEF serverVars
  <1> QED
    BY <1>1, <1>2, <1>3, <1>4 DEF ServerNext

\* The one process that serves settings requests and browsers behaves, for each
\* of the two, as if it served nothing else: requests of one kind do not touch the
\* state of the other, and a restart ends both.
THEOREM ServerImplementsBoth == ServerSpec => Spec /\ SessionSpec
  <1>1. ServerInit => Init /\ SessionInit
    BY DEF ServerInit
  <1>2. [ServerNext]_serverVars => [Next]_vars /\ [SessionNext]_sessionVars
    BY ServerStep
  <1> QED
    BY <1>1, <1>2, PTL DEF ServerSpec, Spec, SessionSpec

\* What the runs check of the process holds of it for any requests, playlists,
\* browsers, calls and sessions, a restart at any moment included.
THEOREM ServerSafety ==
    ServerSpec => /\ [](FoundUnderItsID /\ LoginSticks /\ TokenStaysGood /\ StaleMeansOver)
                  /\ EditsAreWhole /\ OthersAsFound
  BY ServerImplementsBoth, SessionsConstantsHold, SavesImplementStore,
     SavesKeepToTheirAim, MigrationKeepsSessions, LoginsStick, TokensStayGood, StaleTokensAreOver, PTL
=============================================================================
