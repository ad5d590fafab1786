----------------------------- MODULE ManualRun -----------------------------
(***************************************************************************)
(* The web server's manual run: startRun and its one-run-at-a-time guard,  *)
(* the goroutine that collects the child's output and finishes the run,    *)
(* the stop requests, the event streams of the browsers that watch, and    *)
(* the history file of finished runs.  manualRunState is read and written  *)
(* under its mutex; everything between two critical sections is a step of  *)
(* its own here.                                                           *)
(***************************************************************************)
EXTENDS Integers, Sequences, FiniteSets

CONSTANTS Runs,        \* POST /api/ui/run requests, one startRun each
          Stops,       \* POST /api/ui/run/stop requests
          Viewers,     \* GET /api/ui/run/events streams; a reconnect is another
          Cap,         \* capacity of a stream's channel (256)
          MaxRecords,  \* maxRunRecords
          Scenes,      \* what may happen: see scene
          KillsGroup,  \* built for unix (procgroup_unix.go)
          None

ASSUME CapAssumption == Cap \in Nat \ {0} /\ MaxRecords \in Nat \ {0} /\ KillsGroup \in BOOLEAN
ASSUME SceneAssumption ==
    Scenes \subseteq [HasTimeout : BOOLEAN,       \* RUN_TIMEOUT > 0
                      clients : SUBSET (Stops \cup Viewers), \* those that come
                      lines : [Runs -> Nat]]      \* bound: what each child prints
ASSUME NoneAssumption == None \notin Runs

VARIABLES
    scene,
    running, cancel, exitCode, logs, subscribers, runStarted,   \* manualRunState
    history,    \* logs/runs.jsonl: the runs recorded, oldest first
    at,         \* where each startRun and its collector are
    told,       \* the subscribers a run copied and has yet to send to
    record,     \* finishRun's record; it names the run that runStarted is of
    seen,       \* the history appendRunRecord read
    ctx,        \* the run's context is done
    child,      \* the child process: "none", "alive", "ok" or "failed"
    stray,      \* a descendant of the child holds the pipe open
    readFailed, \* scanRunLines returned an error
    stopAt, aim,                      \* stop requests: where, and whose cancel they hold
    viewAt, buf, closed, got, missed, \* streams: where, channel, closes, shown, dropped
    printed,    \* history: lines read from each run's child
    follows,    \* history: the run a stream was opened on
    past        \* history: the runs claimed before each stop request looked

state == <<running, cancel, exitCode, logs, subscribers, runStarted>>
process == <<ctx, child, stray>>
collector == <<at, told, record, seen, readFailed, printed>>
stops == <<stopAt, aim, past>>
streams == <<viewAt, buf, closed, got, missed, follows>>
vars == <<state, history, process, collector, stops, streams>>

Line(r, n) == <<"line", r, n>>
Done(code) == <<"done", code>>

\* The code a stopped child is reported with.
Code(r) == IF child[r] = "ok" THEN 0 ELSE 1

\* A send never blocks: a full channel drops the event.
Full(v) == Len(buf[v]) >= Cap

Init ==
    /\ scene \in Scenes
    /\ running = FALSE /\ cancel = None /\ exitCode = -1
    /\ logs = <<>> /\ subscribers = {} /\ runStarted = None
    /\ history = <<>>
    /\ at = [r \in Runs |-> "new"]
    /\ told = [r \in Runs |-> {}]
    /\ record = [r \in Runs |-> None]
    /\ seen = [r \in Runs |-> <<>>]
    /\ ctx = [r \in Runs |-> FALSE]
    /\ child = [r \in Runs |-> "none"]
    /\ stray = [r \in Runs |-> FALSE]
    /\ readFailed = {}
    /\ stopAt = [s \in Stops |-> "idle"]
    /\ aim = [s \in Stops |-> None]
    /\ viewAt = [v \in Viewers |-> "away"]
    /\ buf = [v \in Viewers |-> <<>>]
    /\ closed = [v \in Viewers |-> 0]
    /\ got = [v \in Viewers |-> <<>>]
    /\ missed = [v \in Viewers |-> FALSE]
    /\ printed = [r \in Runs |-> 0]
    /\ follows = [v \in Viewers |-> None]
    /\ past = [s \in Stops |-> {}]

-----------------------------------------------------------------------------
(* startRun *)

\* Broken variant: the guard is not tested.
ClaimRun_Unguarded(r) ==
    /\ at[r] = "new"
    /\ running' = TRUE /\ cancel' = r /\ exitCode' = -1 /\ logs' = <<>> /\ runStarted' = r
    /\ at' = [at EXCEPT ![r] = "claimed"]
    /\ UNCHANGED <<subscribers, history, process, told, record, seen, readFailed, printed, stops, streams>>

ClaimRun(r) ==
    /\ at[r] = "new"
    /\ ~running
    /\ running' = TRUE /\ cancel' = r /\ exitCode' = -1 /\ logs' = <<>> /\ runStarted' = r
    /\ at' = [at EXCEPT ![r] = "claimed"]
    /\ UNCHANGED <<subscribers, history, process, told, record, seen, readFailed, printed, stops, streams>>

\* errRunAlreadyStarted: the refused request cancels its own context.
RefuseRun(r) ==
    /\ at[r] = "new"
    /\ running
    /\ at' = [at EXCEPT ![r] = "refused"]
    /\ ctx' = [ctx EXCEPT ![r] = TRUE]
    /\ UNCHANGED <<state, history, child, stray, told, record, seen, readFailed, printed, stops, streams>>

\* cmd.Start refuses a context that is already done.
StartChild(r) ==
    /\ at[r] = "claimed"
    /\ ~ctx[r]
    /\ child' = [child EXCEPT ![r] = "alive"]
    /\ at' = [at EXCEPT ![r] = "collect"]
    /\ UNCHANGED <<state, history, ctx, stray, told, record, seen, readFailed, printed, stops, streams>>

StartFails(r) ==
    /\ at[r] = "claimed"
    /\ child' = [child EXCEPT ![r] = "failed"]
    /\ at' = [at EXCEPT ![r] = "finish"]
    /\ UNCHANGED <<state, history, ctx, stray, told, record, seen, readFailed, printed, stops, streams>>

-----------------------------------------------------------------------------
(* The child and its descendants.  On unix cancellation kills the process  *)
(* group for as long as Wait has not reaped the child; elsewhere it kills  *)
(* the child alone.                                                        *)

ChildForks(r) ==
    /\ child[r] = "alive" /\ ~stray[r]
    /\ stray' = [stray EXCEPT ![r] = TRUE]
    /\ UNCHANGED <<state, history, ctx, child, collector, stops, streams>>

ChildExits(r) ==
    /\ child[r] = "alive"
    /\ \E how \in {"ok", "failed"} : child' = [child EXCEPT ![r] = how]
    /\ UNCHANGED <<state, history, ctx, stray, collector, stops, streams>>

StrayExits(r) ==
    /\ stray[r]
    /\ stray' = [stray EXCEPT ![r] = FALSE]
    /\ UNCHANGED <<state, history, ctx, child, collector, stops, streams>>

TimesOut(r) ==
    /\ scene.HasTimeout
    /\ at[r] \in {"claimed", "collect", "deliver", "wait"}
    /\ ~ctx[r]
    /\ ctx' = [ctx EXCEPT ![r] = TRUE]
    /\ UNCHANGED <<state, history, child, stray, collector, stops, streams>>

\* Broken variant: only the child is killed.
Kill_ChildOnly(r) ==
    /\ ctx[r]
    /\ child[r] = "alive"
    /\ child' = [child EXCEPT ![r] = "failed"]
    /\ UNCHANGED <<state, history, ctx, stray, collector, stops, streams>>

Kill(r) ==
    /\ ctx[r]
    /\ at[r] \in {"collect", "deliver", "wait"}
    /\ child[r] = "alive" \/ (KillsGroup /\ stray[r])
    /\ child' = [child EXCEPT ![r] = IF @ = "alive" THEN "failed" ELSE @]
    /\ stray' = [stray EXCEPT ![r] = @ /\ ~KillsGroup]
    /\ UNCHANGED <<state, history, ctx, collector, stops, streams>>

-----------------------------------------------------------------------------
(* collectRunOutput *)

\* appendRunLog's critical section.
AppendLog(r) ==
    /\ logs' = Append(logs, Line(r, printed[r] + 1))
    /\ printed' = [printed EXCEPT ![r] = @ + 1]
    /\ told' = [told EXCEPT ![r] = subscribers]
    /\ at' = [at EXCEPT ![r] = "deliver"]

ReadLine(r) ==
    /\ at[r] = "collect"
    /\ printed[r] < scene.lines[r]
    /\ AppendLog(r)
    /\ UNCHANGED <<running, cancel, exitCode, subscribers, runStarted>>
    /\ UNCHANGED <<history, process, record, seen, readFailed, stops, streams>>

\* The reader reports its error as one more line and stops reading.
ReadFails(r) ==
    /\ at[r] = "collect"
    /\ AppendLog(r)
    /\ readFailed' = readFailed \cup {r}
    /\ UNCHANGED <<running, cancel, exitCode, subscribers, runStarted>>
    /\ UNCHANGED <<history, process, record, seen, stops, streams>>

\* A line goes to each subscriber copied with it, outside the lock.
Deliver(r, v) ==
    /\ at[r] = "deliver"
    /\ v \in told[r]
    /\ told' = [told EXCEPT ![r] = @ \ {v}]
    /\ missed' = [missed EXCEPT ![v] = @ \/ Full(v)]
    /\ buf' = IF Full(v) THEN buf ELSE [buf EXCEPT ![v] = Append(@, Line(r, printed[r]))]
    /\ UNCHANGED <<state, history, process, stops, at, record, seen, readFailed, printed>>
    /\ UNCHANGED <<viewAt, closed, got, follows>>

Delivered(r) ==
    /\ at[r] = "deliver"
    /\ told[r] = {}
    /\ at' = [at EXCEPT ![r] = IF r \in readFailed THEN "wait" ELSE "collect"]
    /\ UNCHANGED <<state, history, process, told, record, seen, readFailed, printed, stops, streams>>

\* EOF comes when nobody holds the pipe's write end any more.
ReadEOF(r) ==
    /\ at[r] = "collect"
    /\ child[r] # "alive" /\ ~stray[r]
    /\ at' = [at EXCEPT ![r] = "wait"]
    /\ UNCHANGED <<state, history, process, told, record, seen, readFailed, printed, stops, streams>>

\* cmd.Wait
Reap(r) ==
    /\ at[r] = "wait"
    /\ child[r] # "alive"
    /\ at' = [at EXCEPT ![r] = "finish"]
    /\ UNCHANGED <<state, history, process, told, record, seen, readFailed, printed, stops, streams>>

-----------------------------------------------------------------------------
(* finishRun: by the collector, or by startRun when the child did not start *)

\* Broken variant: the subscribers stay registered with the finished run.
FinishRun_KeepSubscribers(r) ==
    /\ at[r] = "finish"
    /\ running' = FALSE /\ cancel' = None /\ exitCode' = Code(r)
    /\ record' = [record EXCEPT ![r] = runStarted]
    /\ told' = [told EXCEPT ![r] = subscribers]
    /\ at' = [at EXCEPT ![r] = "read"]
    /\ UNCHANGED <<logs, runStarted, subscribers>>
    /\ UNCHANGED <<history, process, seen, readFailed, printed, stops, streams>>

FinishRun(r) ==
    /\ at[r] = "finish"
    /\ running' = FALSE /\ cancel' = None /\ exitCode' = Code(r)
    /\ record' = [record EXCEPT ![r] = runStarted]
    /\ told' = [told EXCEPT ![r] = subscribers]
    /\ subscribers' = {}
    /\ at' = [at EXCEPT ![r] = "read"]
    /\ UNCHANGED <<logs, runStarted, history, process, seen, readFailed, printed, stops, streams>>

\* appendRunRecord reads the whole file, without the mutex, ...
ReadRecords(r) ==
    /\ at[r] = "read"
    /\ seen' = [seen EXCEPT ![r] = history]
    /\ at' = [at EXCEPT ![r] = "write"]
    /\ UNCHANGED <<state, history, process, told, record, readFailed, printed, stops, streams>>

Newest(s) == IF Len(s) > MaxRecords THEN SubSeq(s, Len(s) - MaxRecords + 1, Len(s)) ELSE s

\* ... and replaces it, or warns that it could not.
WriteRecords(r) ==
    /\ at[r] = "write"
    /\ history' \in {Newest(Append(seen[r], record[r])), history}
    /\ at' = [at EXCEPT ![r] = "notify"]
    /\ UNCHANGED <<state, process, told, record, seen, readFailed, printed, stops, streams>>

\* Broken variant: a stream that cannot take the done event is left open.
Notify_FullStaysOpen(r, v) ==
    /\ at[r] = "notify"
    /\ v \in told[r]
    /\ told' = [told EXCEPT ![r] = @ \ {v}]
    /\ missed' = [missed EXCEPT ![v] = @ \/ Full(v)]
    /\ buf' = IF Full(v) THEN buf ELSE [buf EXCEPT ![v] = Append(@, Done(Code(r)))]
    /\ closed' = [closed EXCEPT ![v] = IF Full(v) THEN @ ELSE @ + 1]
    /\ UNCHANGED <<state, history, process, stops, at, record, seen, readFailed, printed>>
    /\ UNCHANGED <<viewAt, got, follows>>

Notify(r, v) ==
    /\ at[r] = "notify"
    /\ v \in told[r]
    /\ told' = [told EXCEPT ![r] = @ \ {v}]
    /\ missed' = [missed EXCEPT ![v] = @ \/ Full(v)]
    /\ buf' = IF Full(v) THEN buf ELSE [buf EXCEPT ![v] = Append(@, Done(Code(r)))]
    /\ closed' = [closed EXCEPT ![v] = @ + 1]
    /\ UNCHANGED <<state, history, process, stops, at, record, seen, readFailed, printed>>
    /\ UNCHANGED <<viewAt, got, follows>>

Notified(r) ==
    /\ at[r] = "notify"
    /\ told[r] = {}
    /\ at' = [at EXCEPT ![r] = "ended"]
    /\ UNCHANGED <<state, history, process, told, record, seen, readFailed, printed, stops, streams>>

-----------------------------------------------------------------------------
(* HandleStopRun *)

StopLooks(s) ==
    /\ stopAt[s] = "idle" /\ s \in scene.clients
    /\ past' = [past EXCEPT ![s] = {r \in Runs : at[r] # "new"}]
    /\ aim' = [aim EXCEPT ![s] = cancel]
    /\ stopAt' = [stopAt EXCEPT ![s] = IF running /\ cancel # None THEN "aimed" ELSE "refused"]
    /\ UNCHANGED <<state, history, process, collector, streams>>

\* Broken variant: the cancel function is fetched again when it is called.
StopFires_Current(s) ==
    /\ stopAt[s] = "aimed"
    /\ ctx' = [r \in Runs |-> ctx[r] \/ r = cancel]
    /\ stopAt' = [stopAt EXCEPT ![s] = "fired"]
    /\ aim' = [aim EXCEPT ![s] = cancel]
    /\ UNCHANGED <<state, history, child, stray, collector, past, streams>>

\* The copied cancel function is called after the mutex is released.
StopFires(s) ==
    /\ stopAt[s] = "aimed"
    /\ ctx' = [ctx EXCEPT ![aim[s]] = TRUE]
    /\ stopAt' = [stopAt EXCEPT ![s] = "fired"]
    /\ UNCHANGED <<state, history, child, stray, collector, aim, past, streams>>

-----------------------------------------------------------------------------
(* HandleRunEvents *)

\* Broken variant: the stream is registered but the log so far is not sent.
Subscribe_NoSnapshot(v) ==
    /\ viewAt[v] = "away" /\ v \in scene.clients
    /\ running
    /\ subscribers' = subscribers \cup {v}
    /\ follows' = [follows EXCEPT ![v] = runStarted]
    /\ viewAt' = [viewAt EXCEPT ![v] = "stream"]
    /\ UNCHANGED <<running, cancel, exitCode, logs, runStarted>>
    /\ UNCHANGED <<history, process, collector, stops, buf, closed, got, missed>>

\* The log so far and the subscription are taken in one critical section.
Subscribe(v) ==
    /\ viewAt[v] = "away" /\ v \in scene.clients
    /\ running
    /\ subscribers' = subscribers \cup {v}
    /\ got' = [got EXCEPT ![v] = logs]
    /\ follows' = [follows EXCEPT ![v] = runStarted]
    /\ viewAt' = [viewAt EXCEPT ![v] = "stream"]
    /\ UNCHANGED <<running, cancel, exitCode, logs, runStarted>>
    /\ UNCHANGED <<history, process, collector, stops, buf, closed, missed>>

\* No run: the last run's log, its exit code if there is one, and the end.
Replay(v) ==
    /\ viewAt[v] = "away" /\ v \in scene.clients
    /\ ~running
    /\ got' = [got EXCEPT ![v] = IF exitCode = -1 THEN logs ELSE Append(logs, Done(exitCode))]
    /\ follows' = [follows EXCEPT ![v] = runStarted]
    /\ viewAt' = [viewAt EXCEPT ![v] = "closed"]
    /\ UNCHANGED <<state, history, process, collector, stops, buf, closed, missed>>

Receive(v) ==
    /\ viewAt[v] = "stream"
    /\ buf[v] # <<>>
    /\ got' = [got EXCEPT ![v] = Append(@, Head(buf[v]))]
    /\ buf' = [buf EXCEPT ![v] = Tail(@)]
    /\ viewAt' = [viewAt EXCEPT ![v] = IF Head(buf[v])[1] = "done" THEN "leaving" ELSE @]
    /\ UNCHANGED <<state, history, process, collector, stops, closed, missed, follows>>

\* The channel is closed and empty.
StreamEnds(v) ==
    /\ viewAt[v] = "stream"
    /\ buf[v] = <<>> /\ closed[v] > 0
    /\ viewAt' = [viewAt EXCEPT ![v] = "leaving"]
    /\ UNCHANGED <<state, history, process, collector, stops, buf, closed, got, missed, follows>>

\* The browser goes away: r.Context().Done().
Leave(v) ==
    /\ viewAt[v] = "stream"
    /\ viewAt' = [viewAt EXCEPT ![v] = "gone"]
    /\ UNCHANGED <<state, history, process, collector, stops, buf, closed, got, missed, follows>>

\* The deferred unsubscribeRun.
Unsubscribe(v) ==
    /\ viewAt[v] \in {"leaving", "gone"}
    /\ subscribers' = subscribers \ {v}
    /\ viewAt' = [viewAt EXCEPT ![v] = IF @ = "gone" THEN "left" ELSE "closed"]
    /\ UNCHANGED <<running, cancel, exitCode, logs, runStarted>>
    /\ UNCHANGED <<history, process, collector, stops, buf, closed, got, missed, follows>>

-----------------------------------------------------------------------------

Collector(r) ==
    \/ ReadLine(r) \/ ReadFails(r) \/ (\E v \in Viewers : Deliver(r, v)) \/ Delivered(r)
    \/ ReadEOF(r) \/ Reap(r)

Finisher(r) ==
    \/ FinishRun(r) \/ ReadRecords(r) \/ WriteRecords(r)
    \/ (\E v \in Viewers : Notify(r, v)) \/ Notified(r)

Processes(r) == ChildForks(r) \/ ChildExits(r) \/ StrayExits(r) \/ TimesOut(r) \/ Kill(r)

Run(r) == ClaimRun(r) \/ RefuseRun(r) \/ StartChild(r) \/ StartFails(r) \/ Collector(r) \/ Finisher(r)

Stop(s) == StopLooks(s) \/ StopFires(s)

View(v) == Subscribe(v) \/ Replay(v) \/ Receive(v) \/ StreamEnds(v) \/ Leave(v) \/ Unsubscribe(v)

\* Every request has been answered and every stream has ended.
Served == /\ \A r \in Runs : at[r] \in {"refused", "ended"}
          /\ \A s \in Stops \cap scene.clients : stopAt[s] \in {"refused", "fired"}
          /\ \A v \in Viewers \cap scene.clients : viewAt[v] \in {"closed", "left"}
          /\ UNCHANGED vars

Next ==
    /\ UNCHANGED scene
    /\ \/ \E r \in Runs : Run(r) \/ Processes(r)
       \/ \E s \in Stops : Stop(s)
       \/ \E v \in Viewers : View(v)
       \/ Served

Spec == Init /\ [][Next]_<<scene, vars>>

\* The scheduler runs every goroutine that can run, a context's deadline comes
\* and a kill arrives.  Nobody makes a child or its descendants exit by
\* themselves, no request has to be sent and no browser has to leave.
Fairness ==
    /\ \A r \in Runs :
        /\ WF_vars(StartChild(r) \/ StartFails(r)) /\ WF_vars(Finisher(r))
        /\ WF_vars((\E v \in Viewers : Deliver(r, v)) \/ Delivered(r) \/ ReadEOF(r) \/ Reap(r))
        /\ WF_vars(TimesOut(r)) /\ WF_vars(Kill(r))
    /\ \A v \in Viewers : WF_vars(Receive(v) \/ StreamEnds(v)) /\ WF_vars(Unsubscribe(v))

FairSpec == Spec /\ Fairness

-----------------------------------------------------------------------------
(* Properties *)

Steps == {"new", "refused", "claimed", "collect", "deliver", "wait", "finish", "read", "write",
          "notify", "ended"}
Lines == {"line"} \X Runs \X (Nat \ {0})
Events == Lines \cup {Done(0), Done(1)}

\* The values of the server's run state, its goroutines and its files.
TypeOK ==
    /\ scene \in Scenes
    /\ running \in BOOLEAN /\ cancel \in Runs \cup {None} /\ exitCode \in {-1, 0, 1}
    /\ logs \in Seq(Lines) /\ subscribers \subseteq Viewers /\ runStarted \in Runs \cup {None}
    /\ history \in Seq(Runs)
    /\ at \in [Runs -> Steps] /\ told \in [Runs -> SUBSET Viewers]
    /\ record \in [Runs -> Runs \cup {None}] /\ seen \in [Runs -> Seq(Runs)]
    /\ ctx \in [Runs -> BOOLEAN] /\ stray \in [Runs -> BOOLEAN]
    /\ child \in [Runs -> {"none", "alive", "ok", "failed"}] /\ readFailed \subseteq Runs
    /\ stopAt \in [Stops -> {"idle", "refused", "aimed", "fired"}]
    /\ aim \in [Stops -> Runs \cup {None}] /\ past \in [Stops -> SUBSET Runs]
    /\ viewAt \in [Viewers -> {"away", "stream", "leaving", "gone", "closed", "left"}]
    /\ buf \in [Viewers -> Seq(Events)] /\ got \in [Viewers -> Seq(Events)]
    /\ closed \in [Viewers -> Nat] /\ missed \in [Viewers -> BOOLEAN]
    /\ printed \in [Runs -> Nat] /\ follows \in [Viewers -> Runs \cup {None}]

\* The guard's purpose: no two runs have processes alive at once, whatever is
\* stopped, times out or fails to start.  A run whose output could no longer be
\* read is finished without waiting for its descendants, only for its child.
OneRunAtATime ==
    \A q, r \in Runs :
        /\ q # r
        /\ child[q] = "alive" \/ (stray[q] /\ q \notin readFailed)
        => child[r] # "alive" /\ (stray[r] => r \in readFailed)

\* A copied subscriber list is used after the mutex is released: every channel
\* still to be sent to must be open, since a send on a closed one panics.
SendsToOpenChannels == \A r \in Runs : \A v \in told[r] : closed[v] = 0

IsLine(e) == e[1] = "line"
Expected(r, v) == printed[r] - (IF at[r] = "deliver" /\ v \in told[r] THEN 1 ELSE 0)

\* A stream whose channel never filled shows its run's lines once each, in
\* order, with no gap and no repeat between the snapshot and what follows it,
\* and after them at most the event that ends it.
StreamIsFaithful ==
    \A v \in Viewers :
        follows[v] # None /\ viewAt[v] \in {"stream", "leaving", "closed"} /\ ~missed[v] =>
            LET shown == got[v] \o buf[v]
                n     == Expected(follows[v], v)
            IN /\ Len(shown) \in {n, n + 1}
               /\ \A i \in 1..n : shown[i] = Line(follows[v], i)
               /\ Len(shown) = n + 1 => ~IsLine(shown[n + 1])

\* A stop request cancels no run that was claimed after it looked, though it
\* calls the cancel function when the mutex has long been released.
StopsTheRunItSaw ==
    [][\A s \in Stops, r \in Runs :
          stopAt[s] = "aimed" /\ stopAt'[s] = "fired" /\ ctx'[r] /\ ~ctx[r] => r \in past[s]]_vars

\* "The timeout kills the child, which lets cmd.Wait return and clears the guard
\* on its own" (manual_run.go:78): with a timeout, no run holds the guard for ever.
GuardClears == running /\ scene.HasTimeout ~> ~running

\* No stream is left waiting: one whose channel is still open is subscribed or
\* about to be told, also when its done event was dropped on a full channel.
NoStreamLeftOpen ==
    \A v \in Viewers :
        viewAt[v] = "stream" /\ closed[v] = 0 =>
            v \in subscribers \/ \E r \in Runs : at[r] \in Steps \ {"ended"} /\ v \in told[r]
=============================================================================
