-------------------------- MODULE ManualRunProofs --------------------------
(***************************************************************************)
(* Proofs about ManualRun: for any number of runs, stop requests and       *)
(* streams and any channel capacity, runs do not overlap, no send meets a  *)
(* closed channel, a stop hits the run it saw, a stream shows its run's    *)
(* lines and none is left open.  RunInv is the inductive invariant; TLC    *)
(* checks each part of it on the instance of MCManualRun as well.          *)
(***************************************************************************)
EXTENDS ManualRun, SequenceTheorems, TLAPS

\* A run that holds the guard, and one that has given it back.
Busy(r) == at[r] \in {"claimed", "collect", "deliver", "wait", "finish"}
Over(r) == at[r] \in {"read", "write", "notify", "ended"}

\* The guard is held by the run that runStarted names, by no other, and the
\* cancel function that is kept is that run's.
GuardInv ==
    /\ running => runStarted \in Runs /\ cancel = runStarted
    /\ ~ running => cancel = None
    /\ \A r \in Runs : Busy(r) <=> running /\ runStarted = r
    /\ ~ running /\ runStarted # None => Over(runStarted)

\* A process is alive only while its run's collector has not seen it end.
ProcessInv ==
    \A r \in Runs :
        /\ child[r] = "alive" => at[r] \in {"collect", "deliver", "wait"}
        /\ stray[r] /\ r \notin readFailed => at[r] \in {"collect", "deliver"}
        /\ at[r] = "wait" /\ r \notin readFailed => child[r] # "alive"

\* The record that is written names the run that finished.
RecordInv == \A r \in Runs : at[r] \in {"read", "write"} => record[r] = r

\* A stop that looked holds the cancel function of a run claimed by then.
AimInv == \A s \in Stops : stopAt[s] = "aimed" => aim[s] \in past[s]

\* A run sends to the streams opened on it, before any of them is closed.
ToldInv ==
    \A r \in Runs : \A v \in told[r] :
        /\ at[r] \in {"deliver", "read", "write", "notify"}
        /\ follows[v] = r /\ closed[v] = 0 /\ viewAt[v] \in {"stream", "gone", "left"}

SubscriberInv ==
    \A v \in subscribers :
        running /\ follows[v] = runStarted /\ closed[v] = 0 /\ viewAt[v] \in {"stream", "gone"}

\* A stream follows a run that was claimed, is closed by that run's end and gets
\* its done event no sooner.
StreamInv ==
    \A v \in Viewers :
        /\ viewAt[v] = "away" => follows[v] = None /\ buf[v] = <<>> /\ closed[v] = 0
        /\ viewAt[v] \in {"stream", "leaving", "gone", "left"} => follows[v] # None
        /\ viewAt[v] = "leaving" => closed[v] > 0
        /\ closed[v] > 0 => follows[v] # None /\ at[follows[v]] \in {"notify", "ended"}
        /\ viewAt[v] = "closed" /\ follows[v] # None => Over(follows[v])
        /\ follows[v] # None => Busy(follows[v]) \/ Over(follows[v])
        /\ closed[v] = 0 => \A i \in 1..Len(buf[v]) : IsLine(buf[v][i])

\* The log holds what the run that runStarted names has printed.
LogInv ==
    /\ \A r \in Runs :
          /\ at[r] \in {"new", "claimed"} => printed[r] = 0
          /\ at[r] = "deliver" => printed[r] > 0
    /\ runStarted # None =>
          Len(logs) = printed[runStarted] /\ \A n \in 1..Len(logs) : logs[n] = Line(runStarted, n)

\* An open stream is subscribed, or is on the list of its run that is over.
OpenInv ==
    \A v \in Viewers :
        viewAt[v] = "stream" /\ closed[v] = 0 =>
            v \in subscribers \/ (v \in told[follows[v]] /\ ~ Busy(follows[v]))

\* Events e show the first n lines of r and then at most one event that is none.
Shows(e, r, n) ==
    /\ Len(e) \in {n, n + 1}
    /\ \A i \in 1..n : e[i] = Line(r, i)
    /\ Len(e) = n + 1 => ~ IsLine(e[n + 1])

Watching(v) == follows[v] # None /\ viewAt[v] \in {"stream", "leaving", "closed"} /\ ~ missed[v]
Shown(v) == got[v] \o buf[v]

\* StreamIsFaithful, and that a stream still open has shown the lines alone.
ShownInv ==
    \A v \in Viewers :
        Watching(v) =>
            /\ Shows(Shown(v), follows[v], Expected(follows[v], v))
            /\ viewAt[v] = "stream" /\ closed[v] = 0 => Len(Shown(v)) = Expected(follows[v], v)

RunInv ==
    /\ TypeOK /\ GuardInv /\ ProcessInv /\ RecordInv /\ AimInv /\ ToldInv
    /\ SubscriberInv /\ StreamInv /\ LogInv /\ OpenInv /\ ShownInv

-----------------------------------------------------------------------------
(* Lines, events and the records that are kept *)

LEMMA EventFacts ==
    /\ \A r \in Runs, n \in Nat \ {0} : Line(r, n) \in Lines /\ Line(r, n) \in Events /\ IsLine(Line(r, n))
    /\ \A r \in Runs : Done(Code(r)) \in Events
    /\ \A c \in {0, 1} : Done(c) \in Events
    /\ \A c : ~ IsLine(Done(c))
    /\ \A e \in Lines : IsLine(e)
    /\ \A e \in Events : e[1] = "done" <=> ~ IsLine(e)
  BY DEF Line, Lines, Events, IsLine, Done, Code

LEMMA LogsAreEvents == ASSUME NEW l \in Seq(Lines) PROVE l \in Seq(Events)
  BY SeqMonotonic DEF Events

LEMMA NewestKeeps ==
    ASSUME NEW s \in Seq(Runs)
    PROVE  Newest(s) \in Seq(Runs)
  <1>1. CASE Len(s) > MaxRecords
    <2>1. Len(s) \in Nat /\ \A i \in 1..Len(s) : s[i] \in Runs
      BY LenProperties, ElementOfSeq
    <2>2. \A i \in (Len(s) - MaxRecords + 1)..Len(s) : s[i] \in Runs
      BY <1>1, <2>1, CapAssumption
    <2>3. SubSeq(s, Len(s) - MaxRecords + 1, Len(s)) \in Seq(Runs)
      BY <2>1, <2>2, CapAssumption, SubSeqProperties
    <2> QED
      BY <1>1, <2>3 DEF Newest
  <1>2. CASE ~(Len(s) > MaxRecords)
    BY <1>2 DEF Newest
  <1> QED
    BY <1>1, <1>2

\* What a browser has been shown does not change when it takes the next event.
LEMMA TakingShowsTheSame ==
    ASSUME NEW S, NEW g \in Seq(S), NEW b \in Seq(S), b # <<>>
    PROVE  Append(g, Head(b)) \o Tail(b) = g \o b
  <1>1. Head(b) \in S /\ Tail(b) \in Seq(S) /\ Len(Tail(b)) = Len(b) - 1
    BY HeadTailProperties
  <1>2. \A i \in 1..Len(Tail(b)) : Tail(b)[i] = b[i + 1]
    BY HeadTailProperties
  <1>3. Head(b) = b[1]
    OBVIOUS
  <1>4. /\ Append(g, Head(b)) \in Seq(S) /\ Len(Append(g, Head(b))) = Len(g) + 1
        /\ \A i \in 1..Len(g) : Append(g, Head(b))[i] = g[i]
        /\ Append(g, Head(b))[Len(g) + 1] = Head(b)
    BY <1>1, AppendProperties
  <1> DEFINE l == Append(g, Head(b)) \o Tail(b)
             r == g \o b
  <1>5. Len(g) \in Nat /\ Len(b) \in Nat /\ Len(b) > 0
    BY LenProperties, EmptySeq
  <1>6. l \in Seq(S) /\ Len(l) = Len(g) + 1 + Len(Tail(b))
    BY <1>1, <1>4, ConcatProperties
  <1>7. r \in Seq(S) /\ Len(r) = Len(g) + Len(b)
    BY ConcatProperties
  <1>8. \A i \in 1..Len(g) + Len(b) : r[i] = IF i <= Len(g) THEN g[i] ELSE b[i - Len(g)]
    BY ConcatProperties
  <1>9. \A i \in 1..Len(g) + 1 + Len(Tail(b)) :
            l[i] = IF i <= Len(g) + 1 THEN Append(g, Head(b))[i] ELSE Tail(b)[i - (Len(g) + 1)]
    <2>1. \A i \in 1..Len(Append(g, Head(b))) + Len(Tail(b)) :
            l[i] = IF i <= Len(Append(g, Head(b))) THEN Append(g, Head(b))[i]
                   ELSE Tail(b)[i - Len(Append(g, Head(b)))]
      BY <1>1, <1>4, ConcatProperties
    <2> QED
      BY <1>4, <2>1
  <1> HIDE DEF l, r
  <1>10. ASSUME NEW i \in 1..Len(r) PROVE l[i] = r[i]
    <2>0. i \in Int /\ 1 <= i /\ i <= Len(g) + Len(b)
      BY <1>5, <1>7
    <2>1. CASE i <= Len(g)
      BY <1>1, <1>4, <1>5, <1>7, <1>8, <1>9, <2>0, <2>1
    <2>2. CASE i = Len(g) + 1
      <3>1. r[i] = b[1]
        BY <1>5, <1>7, <1>8, <2>0, <2>2
      <3>2. l[i] = Append(g, Head(b))[i]
        BY <1>1, <1>5, <1>9, <2>0, <2>2
      <3> QED
        BY <1>3, <1>4, <2>2, <3>1, <3>2
    <2>3. CASE i > Len(g) + 1
      <3>1. l[i] = Tail(b)[i - (Len(g) + 1)]
        BY <1>1, <1>5, <1>9, <2>0, <2>3
      <3>2. i - (Len(g) + 1) \in 1..Len(Tail(b)) /\ i - (Len(g) + 1) + 1 = i - Len(g)
        BY <1>1, <1>5, <2>0, <2>3
      <3>3. Tail(b)[i - (Len(g) + 1)] = b[i - Len(g)]
        BY <1>2, <3>2
      <3>4. r[i] = b[i - Len(g)]
        BY <1>5, <1>7, <1>8, <2>0, <2>3
      <3> QED
        BY <3>1, <3>3, <3>4
    <2> QED
      BY <1>5, <2>0, <2>1, <2>2, <2>3
  <1>11. Len(l) = Len(r)
    BY <1>1, <1>5, <1>6, <1>7
  <1>12. l = r
    BY <1>6, <1>7, <1>10, <1>11, SeqEqual
  <1> QED
    BY <1>12 DEF l, r

\* An event put into the channel is the last that will have been shown.
LEMMA SendingShowsOneMore ==
    ASSUME NEW g \in Seq(Events), NEW b \in Seq(Events), NEW e \in Events
    PROVE  g \o Append(b, e) = Append(g \o b, e)
  <1>1. <<e>> \in Seq(Events)
    BY EmptySeq, AppendProperties
  <1>2. Append(b, e) = b \o <<e>>
    BY AppendIsConcat
  <1>3. g \o b \in Seq(Events)
    BY ConcatProperties
  <1>4. Append(g \o b, e) = (g \o b) \o <<e>>
    BY <1>3, AppendIsConcat
  <1>5. (g \o b) \o <<e>> = g \o (b \o <<e>>)
    BY <1>1, ConcatAssociative
  <1> QED
    BY <1>2, <1>4, <1>5

-----------------------------------------------------------------------------
(* Types *)

LEMMA InitRunInv == ASSUME Init PROVE RunInv
  <1> USE DEF Init
  <1>1. TypeOK
    BY CapAssumption, EmptySeq DEF TypeOK, Steps
  <1>2. GuardInv /\ ProcessInv /\ RecordInv /\ AimInv
    BY NoneAssumption DEF GuardInv, ProcessInv, RecordInv, AimInv, Busy
  <1>3. ToldInv /\ SubscriberInv /\ OpenInv
    BY DEF ToldInv, SubscriberInv, OpenInv
  <1>4. StreamInv
    BY EmptySeq DEF StreamInv
  <1>5. LogInv /\ ShownInv
    BY DEF LogInv, ShownInv, Watching
  <1> QED
    BY <1>1, <1>2, <1>3, <1>4, <1>5 DEF RunInv

\* A process, the timeout or a kill touches nothing but contexts and processes.
LEMMA ProcessFrame ==
    ASSUME NEW r \in Runs, Processes(r)
    PROVE  UNCHANGED <<state, history, collector, stops, streams>>
  BY DEF Processes, ChildForks, ChildExits, StrayExits, TimesOut, Kill

LEMMA TypeStep ==
    ASSUME TypeOK, RecordInv, LogInv, Next
    PROVE  TypeOK'
  <1> USE DEF vars, state, process, collector, stops, streams, Steps
  <1>0. scene' \in Scenes
    BY DEF Next, TypeOK
  <1>1. CASE UNCHANGED vars
    BY <1>0, <1>1 DEF TypeOK
  <1>2. ASSUME NEW r \in Runs, Run(r) PROVE TypeOK'
    <2>1. CASE ClaimRun(r)
      BY <1>0, <2>1, EmptySeq DEF ClaimRun, TypeOK
    <2>2. CASE RefuseRun(r)
      BY <1>0, <2>2 DEF RefuseRun, TypeOK
    <2>3. CASE StartChild(r) \/ StartFails(r)
      <3>1. CASE StartChild(r)
        BY <1>0, <3>1 DEF StartChild, TypeOK
      <3>2. CASE StartFails(r)
        BY <1>0, <3>2 DEF StartFails, TypeOK
      <3> QED
        BY <2>3, <3>1, <3>2
    <2>4. CASE ReadLine(r) \/ ReadFails(r)
      <3>1. printed[r] \in Nat /\ printed[r] + 1 \in Nat \ {0} /\ logs \in Seq(Lines)
        BY DEF TypeOK
      <3>2. Line(r, printed[r] + 1) \in Lines
        BY <3>1, EventFacts
      <3>3. Append(logs, Line(r, printed[r] + 1)) \in Seq(Lines)
        BY <3>1, <3>2, AppendProperties
      <3>4. CASE ReadLine(r)
        BY <1>0, <3>1, <3>3, <3>4 DEF ReadLine, AppendLog, TypeOK
      <3>5. CASE ReadFails(r)
        BY <1>0, <3>1, <3>3, <3>5 DEF ReadFails, AppendLog, TypeOK
      <3> QED
        BY <2>4, <3>4, <3>5
    <2>5. CASE \E v \in Viewers : Deliver(r, v)
      <3>1. PICK v \in Viewers : Deliver(r, v)
        BY <2>5
      <3>2. printed[r] \in Nat \ {0} /\ buf[v] \in Seq(Events)
        BY <3>1 DEF Deliver, LogInv, TypeOK
      <3>3. Append(buf[v], Line(r, printed[r])) \in Seq(Events)
        BY <3>2, EventFacts, AppendProperties
      <3>4. missed' \in [Viewers -> BOOLEAN]
        BY <3>1 DEF Deliver, Full, TypeOK
      <3>5. buf' \in [Viewers -> Seq(Events)]
        BY <3>1, <3>3 DEF Deliver, TypeOK
      <3> QED
        BY <1>0, <3>1, <3>4, <3>5 DEF Deliver, TypeOK
    <2>6. CASE Delivered(r) \/ ReadEOF(r) \/ Reap(r)
      <3>1. \E step \in {"wait", "collect", "finish"} : at' = [at EXCEPT ![r] = step]
        BY <2>6 DEF Delivered, ReadEOF, Reap
      <3>2. UNCHANGED <<state, history, process, told, record, seen, readFailed, printed, stops, streams>>
        BY <2>6 DEF Delivered, ReadEOF, Reap
      <3> QED
        BY <1>0, <3>1, <3>2 DEF TypeOK
    <2>7. CASE FinishRun(r)
      BY <1>0, <2>7, NoneAssumption DEF FinishRun, Code, TypeOK
    <2>8. CASE ReadRecords(r)
      BY <1>0, <2>8 DEF ReadRecords, TypeOK
    <2>9. CASE WriteRecords(r)
      <3>1. record[r] \in Runs /\ seen[r] \in Seq(Runs)
        BY <2>9 DEF WriteRecords, RecordInv, TypeOK
      <3>2. Append(seen[r], record[r]) \in Seq(Runs)
        BY <3>1, AppendProperties
      <3>3. history' \in Seq(Runs)
        BY <2>9, <3>2, NewestKeeps DEF WriteRecords, TypeOK
      <3> QED
        BY <1>0, <2>9, <3>3 DEF WriteRecords, TypeOK
    <2>10. CASE \E v \in Viewers : Notify(r, v)
      <3>1. PICK v \in Viewers : Notify(r, v)
        BY <2>10
      <3>2. Done(Code(r)) \in Events /\ buf[v] \in Seq(Events)
        BY EventFacts DEF TypeOK
      <3>3. Append(buf[v], Done(Code(r))) \in Seq(Events)
        BY <3>2, AppendProperties
      <3>4. missed[v] \in BOOLEAN /\ Full(v) \in BOOLEAN
        BY DEF Full, TypeOK
      <3>5. missed' \in [Viewers -> BOOLEAN]
        BY <3>1, <3>4 DEF Notify, TypeOK
      <3>6. buf' \in [Viewers -> Seq(Events)]
        BY <3>1, <3>3 DEF Notify, TypeOK
      <3>7. closed' \in [Viewers -> Nat] /\ told' \in [Runs -> SUBSET Viewers]
        <4>1. closed' = [closed EXCEPT ![v] = @ + 1] /\ told' = [told EXCEPT ![r] = @ \ {v}]
          BY <3>1 DEF Notify
        <4>2. closed \in [Viewers -> Nat] /\ told \in [Runs -> SUBSET Viewers]
          BY DEF TypeOK
        <4> QED
          BY <4>1, <4>2
      <3>8. UNCHANGED <<state, history, process, stops, at, record, seen, readFailed, printed, viewAt, got, follows>>
        BY <3>1 DEF Notify
      <3> QED
        BY <1>0, <3>5, <3>6, <3>7, <3>8 DEF TypeOK
    <2>11. CASE Notified(r)
      BY <1>0, <2>11 DEF Notified, TypeOK
    <2> QED
      BY <1>2, <2>1, <2>2, <2>3, <2>4, <2>5, <2>6, <2>7, <2>8, <2>9, <2>10, <2>11
         DEF Run, Collector, Finisher
  <1>3. ASSUME NEW r \in Runs, Processes(r) PROVE TypeOK'
    <2>1. ctx' \in [Runs -> BOOLEAN] /\ child' \in [Runs -> {"none", "alive", "ok", "failed"}]
      <3>1. CASE ChildForks(r) \/ StrayExits(r)
        BY <3>1 DEF ChildForks, StrayExits, TypeOK
      <3>2. CASE ChildExits(r)
        BY <3>2 DEF ChildExits, TypeOK
      <3>3. CASE TimesOut(r)
        BY <3>3 DEF TimesOut, TypeOK
      <3>4. CASE Kill(r)
        BY <3>4 DEF Kill, TypeOK
      <3> QED
        BY <1>3, <3>1, <3>2, <3>3, <3>4 DEF Processes
    <2>2. stray' \in [Runs -> BOOLEAN]
      <3>1. CASE Kill(r)
        BY <3>1, CapAssumption DEF Kill, TypeOK
      <3>2. CASE ChildForks(r) \/ StrayExits(r)
        BY <3>2 DEF ChildForks, StrayExits, TypeOK
      <3>3. CASE ChildExits(r) \/ TimesOut(r)
        BY <3>3 DEF ChildExits, TimesOut, TypeOK
      <3> QED
        BY <1>3, <3>1, <3>2, <3>3 DEF Processes
    <2>3. UNCHANGED <<state, history, collector, stops, streams>>
      BY <1>3, ProcessFrame
    <2> QED
      BY <1>0, <2>1, <2>2, <2>3 DEF TypeOK
  <1>4. ASSUME NEW s \in Stops, Stop(s) PROVE TypeOK'
    <2>1. CASE StopLooks(s)
      BY <1>0, <2>1 DEF StopLooks, TypeOK
    <2>2. CASE StopFires(s)
      BY <1>0, <2>2 DEF StopFires, TypeOK
    <2> QED
      BY <1>4, <2>1, <2>2 DEF Stop
  <1>5. ASSUME NEW v \in Viewers, View(v) PROVE TypeOK'
    <2>1. CASE Subscribe(v)
      <3>1. logs \in Seq(Events)
        BY LogsAreEvents DEF TypeOK
      <3> QED
        BY <1>0, <2>1, <3>1 DEF Subscribe, TypeOK
    <2>2. CASE Replay(v)
      <3>1. logs \in Seq(Events)
        BY LogsAreEvents DEF TypeOK
      <3>2. exitCode # -1 => Append(logs, Done(exitCode)) \in Seq(Events)
        <4>1. exitCode # -1 => Done(exitCode) \in Events
          BY EventFacts DEF TypeOK
        <4> QED
          BY <3>1, <4>1, AppendProperties
      <3> QED
        BY <1>0, <2>2, <3>1, <3>2 DEF Replay, TypeOK
    <2>3. CASE Receive(v)
      <3>1. buf[v] \in Seq(Events) /\ got[v] \in Seq(Events) /\ buf[v] # <<>>
        BY <2>3 DEF Receive, TypeOK
      <3>2. Head(buf[v]) \in Events /\ Tail(buf[v]) \in Seq(Events)
        BY <3>1, HeadTailProperties
      <3>3. Append(got[v], Head(buf[v])) \in Seq(Events)
        BY <3>1, <3>2, AppendProperties
      <3> QED
        BY <1>0, <2>3, <3>2, <3>3 DEF Receive, TypeOK
    <2>4. CASE StreamEnds(v) \/ Leave(v)
      <3>1. \E place \in {"leaving", "gone"} : viewAt' = [viewAt EXCEPT ![v] = place]
        BY <2>4 DEF StreamEnds, Leave
      <3>2. UNCHANGED <<state, history, process, collector, stops, buf, closed, got, missed, follows>>
        BY <2>4 DEF StreamEnds, Leave
      <3> QED
        BY <1>0, <3>1, <3>2 DEF TypeOK
    <2>5. CASE Unsubscribe(v)
      BY <1>0, <2>5 DEF Unsubscribe, TypeOK
    <2> QED
      BY <1>5, <2>1, <2>2, <2>3, <2>4, <2>5 DEF View
  <1> QED
    BY <1>1, <1>2, <1>3, <1>4, <1>5 DEF Next, Served

-----------------------------------------------------------------------------
(* The guard and the processes *)

\* The stops and the streams neither move a run nor touch the guard.
LEMMA WatchersFrame ==
    ASSUME \/ \E s \in Stops : Stop(s)
           \/ \E v \in Viewers : View(v)
    PROVE  /\ UNCHANGED <<running, cancel, exitCode, logs, runStarted>>
           /\ UNCHANGED <<history, child, stray, collector>>
  BY DEF state, process, Stop, StopLooks, StopFires,
         View, Subscribe, Replay, Receive, StreamEnds, Leave, Unsubscribe

LEMMA GuardStep ==
    ASSUME TypeOK, GuardInv, Next
    PROVE  GuardInv'
  <1> USE DEF vars, state, process, collector, stops, streams, Busy, Over, GuardInv
  <1>1. CASE UNCHANGED vars
    BY <1>1
  <1>2. ASSUME NEW r \in Runs, Run(r) PROVE GuardInv'
    <2>1. CASE ClaimRun(r)
      BY <2>1, NoneAssumption DEF ClaimRun, TypeOK
    <2>2. CASE RefuseRun(r)
      BY <2>2 DEF RefuseRun, TypeOK
    <2>3. CASE StartChild(r) \/ StartFails(r)
      BY <2>3 DEF StartChild, StartFails, TypeOK
    <2>4. CASE ReadLine(r) \/ ReadFails(r)
      BY <2>4 DEF ReadLine, ReadFails, AppendLog, TypeOK
    <2>5. CASE Delivered(r) \/ ReadEOF(r) \/ Reap(r)
      BY <2>5 DEF Delivered, ReadEOF, Reap, TypeOK
    <2>6. CASE FinishRun(r)
      BY <2>6 DEF FinishRun, TypeOK
    <2>7. CASE ReadRecords(r) \/ WriteRecords(r) \/ Notified(r)
      BY <2>7 DEF ReadRecords, WriteRecords, Notified, TypeOK
    <2>8. CASE \E v \in Viewers : Deliver(r, v) \/ Notify(r, v)
      BY <2>8 DEF Deliver, Notify
    <2> QED
      BY <1>2, <2>1, <2>2, <2>3, <2>4, <2>5, <2>6, <2>7, <2>8 DEF Run, Collector, Finisher
  <1>3. ASSUME NEW r \in Runs, Processes(r) PROVE GuardInv'
    BY <1>3, ProcessFrame
  <1>4. ASSUME (\E s \in Stops : Stop(s)) \/ \E v \in Viewers : View(v) PROVE GuardInv'
    BY <1>4, WatchersFrame
  <1> QED
    BY <1>1, <1>2, <1>3, <1>4 DEF Next, Served

LEMMA ProcessStep ==
    ASSUME TypeOK, ProcessInv, Next
    PROVE  ProcessInv'
  <1> USE DEF vars, state, process, collector, stops, streams, ProcessInv
  <1>1. CASE UNCHANGED vars
    BY <1>1
  <1>2. ASSUME NEW r \in Runs, Run(r) PROVE ProcessInv'
    <2>1. CASE ClaimRun(r)
      BY <2>1 DEF ClaimRun, TypeOK
    <2>2. CASE RefuseRun(r)
      BY <2>2 DEF RefuseRun, TypeOK
    <2>3. CASE StartChild(r)
      BY <2>3 DEF StartChild, TypeOK
    <2>4. CASE StartFails(r)
      BY <2>4 DEF StartFails, TypeOK
    <2>5. CASE ReadLine(r)
      BY <2>5 DEF ReadLine, AppendLog, TypeOK
    <2>6. CASE ReadFails(r)
      BY <2>6 DEF ReadFails, AppendLog, TypeOK
    <2>7. CASE Delivered(r)
      BY <2>7 DEF Delivered, TypeOK
    <2>8. CASE ReadEOF(r)
      BY <2>8 DEF ReadEOF, TypeOK
    <2>9. CASE Reap(r)
      BY <2>9 DEF Reap, TypeOK
    <2>10. CASE FinishRun(r)
      BY <2>10 DEF FinishRun, TypeOK
    <2>11. CASE ReadRecords(r) \/ WriteRecords(r) \/ Notified(r)
      <3>1. at[r] \in {"read", "write", "notify"} /\ UNCHANGED <<child, stray, readFailed>>
        BY <2>11 DEF ReadRecords, WriteRecords, Notified
      <3>2. at'[r] \in {"write", "notify", "ended"} /\ \A q \in Runs \ {r} : at'[q] = at[q]
        BY <2>11 DEF ReadRecords, WriteRecords, Notified, TypeOK
      <3> QED
        BY <3>1, <3>2
    <2>12. CASE \E v \in Viewers : Deliver(r, v) \/ Notify(r, v)
      BY <2>12 DEF Deliver, Notify
    <2> QED
      BY <1>2, <2>1, <2>2, <2>3, <2>4, <2>5, <2>6, <2>7, <2>8, <2>9, <2>10, <2>11, <2>12
         DEF Run, Collector, Finisher
  <1>3. ASSUME NEW r \in Runs, Processes(r) PROVE ProcessInv'
    <2>1. CASE ChildForks(r)
      BY <2>1 DEF ChildForks, TypeOK
    <2>2. CASE ChildExits(r)
      BY <2>2 DEF ChildExits, TypeOK
    <2>3. CASE StrayExits(r)
      BY <2>3 DEF StrayExits, TypeOK
    <2>4. CASE TimesOut(r)
      BY <2>4 DEF TimesOut, TypeOK
    <2>5. CASE Kill(r)
      BY <2>5 DEF Kill, TypeOK
    <2> QED
      BY <1>3, <2>1, <2>2, <2>3, <2>4, <2>5 DEF Processes
  <1>4. ASSUME (\E s \in Stops : Stop(s)) \/ \E v \in Viewers : View(v) PROVE ProcessInv'
    BY <1>4, WatchersFrame
  <1> QED
    BY <1>1, <1>2, <1>3, <1>4 DEF Next, Served

LEMMA RecordStep ==
    ASSUME TypeOK, GuardInv, RecordInv, Next
    PROVE  RecordInv'
  <1> USE DEF vars, state, process, collector, stops, streams, RecordInv
  <1>1. CASE UNCHANGED vars
    BY <1>1
  <1>2. ASSUME NEW r \in Runs, Run(r) PROVE RecordInv'
    <2>1. CASE FinishRun(r)
      BY <2>1 DEF FinishRun, GuardInv, Busy, TypeOK
    <2>2. CASE ReadRecords(r) \/ WriteRecords(r) \/ Notified(r)
      BY <2>2 DEF ReadRecords, WriteRecords, Notified, TypeOK
    <2>3. CASE ClaimRun(r) \/ RefuseRun(r) \/ StartChild(r) \/ StartFails(r)
      BY <2>3 DEF ClaimRun, RefuseRun, StartChild, StartFails, TypeOK
    <2>4. CASE ReadLine(r) \/ ReadFails(r) \/ Delivered(r) \/ ReadEOF(r) \/ Reap(r)
      BY <2>4 DEF ReadLine, ReadFails, AppendLog, Delivered, ReadEOF, Reap, TypeOK
    <2>5. CASE \E v \in Viewers : Deliver(r, v) \/ Notify(r, v)
      BY <2>5 DEF Deliver, Notify
    <2> QED
      BY <1>2, <2>1, <2>2, <2>3, <2>4, <2>5 DEF Run, Collector, Finisher
  <1>3. ASSUME NEW r \in Runs, Processes(r) PROVE RecordInv'
    BY <1>3, ProcessFrame
  <1>4. ASSUME (\E s \in Stops : Stop(s)) \/ \E v \in Viewers : View(v) PROVE RecordInv'
    BY <1>4, WatchersFrame
  <1> QED
    BY <1>1, <1>2, <1>3, <1>4 DEF Next, Served

\* The stops are left alone by the runs and the streams.
LEMMA StopsFrame ==
    ASSUME \/ \E r \in Runs : Run(r) \/ Processes(r)
           \/ \E v \in Viewers : View(v)
           \/ Served
    PROVE  UNCHANGED stops
  BY DEF vars, stops, Run, Processes, View, Served, Collector, Finisher,
         ClaimRun, RefuseRun, StartChild, StartFails, ReadLine, ReadFails, AppendLog, Deliver,
         Delivered, ReadEOF, Reap, FinishRun, ReadRecords, WriteRecords, Notify, Notified,
         ChildForks, ChildExits, StrayExits, TimesOut, Kill,
         Subscribe, Replay, Receive, StreamEnds, Leave, Unsubscribe

LEMMA AimStep ==
    ASSUME TypeOK, GuardInv, AimInv, Next
    PROVE  AimInv'
  <1> USE DEF stops, AimInv
  <1>1. ASSUME NEW s \in Stops, Stop(s) PROVE AimInv'
    <2>1. CASE StopLooks(s)
      <3>1. running => cancel \in {r \in Runs : at[r] # "new"}
        BY DEF GuardInv, Busy
      <3> QED
        BY <2>1, <3>1 DEF StopLooks, TypeOK
    <2>2. CASE StopFires(s)
      BY <2>2 DEF StopFires, TypeOK
    <2> QED
      BY <1>1, <2>1, <2>2 DEF Stop
  <1>2. CASE UNCHANGED stops
    BY <1>2
  <1> QED
    BY <1>1, <1>2, StopsFrame DEF Next

-----------------------------------------------------------------------------
(* The streams, the lists that are sent to and the log *)

\* What a browser takes from a channel that is still open is a line.
LEMMA OpenChannelHasLines ==
    ASSUME TypeOK, StreamInv, NEW v \in Viewers, Receive(v), closed[v] = 0
    PROVE  /\ Head(buf[v])[1] # "done"
           /\ \A i \in 1..Len(Tail(buf[v])) : IsLine(Tail(buf[v])[i])
  <1>1. buf[v] \in Seq(Events) /\ buf[v] # <<>>
    BY DEF Receive, TypeOK
  <1>2. Len(buf[v]) \in Nat /\ Len(buf[v]) > 0
    BY <1>1, LenProperties, EmptySeq
  <1>3. Head(buf[v]) = buf[v][1] /\ Head(buf[v]) \in Events
    BY <1>1, HeadTailProperties
  <1>4. \A i \in 1..Len(buf[v]) : IsLine(buf[v][i])
    BY DEF StreamInv
  <1>5. Head(buf[v])[1] # "done"
    BY <1>2, <1>3, <1>4, EventFacts
  <1>6. Len(Tail(buf[v])) = Len(buf[v]) - 1 /\ \A i \in 1..Len(Tail(buf[v])) : Tail(buf[v])[i] = buf[v][i + 1]
    BY <1>1, HeadTailProperties
  <1>7. \A i \in 1..Len(Tail(buf[v])) : i + 1 \in 1..Len(buf[v])
    BY <1>2, <1>6
  <1> QED
    BY <1>4, <1>5, <1>6, <1>7

LEMMA ToldStep ==
    ASSUME TypeOK, GuardInv, ToldInv, SubscriberInv, StreamInv, Next
    PROVE  ToldInv'
  <1> USE DEF vars, state, process, collector, stops, streams, ToldInv
  <1>1. CASE UNCHANGED vars
    BY <1>1
  <1>2. ASSUME NEW r \in Runs, Run(r) PROVE ToldInv'
    <2>1. CASE ClaimRun(r) \/ RefuseRun(r) \/ StartChild(r) \/ StartFails(r)
      <3>1. told[r] = {}
        BY <2>1 DEF ClaimRun, RefuseRun, StartChild, StartFails, TypeOK
      <3>2. \E step \in Steps : at' = [at EXCEPT ![r] = step]
        BY <2>1 DEF ClaimRun, RefuseRun, StartChild, StartFails, Steps
      <3>3. UNCHANGED <<told, streams>>
        BY <2>1 DEF ClaimRun, RefuseRun, StartChild, StartFails
      <3> QED
        BY <3>1, <3>2, <3>3 DEF TypeOK
    <2>2. CASE ReadLine(r) \/ ReadFails(r)
      <3>1. at[r] = "collect" /\ AppendLog(r) /\ UNCHANGED streams
        BY <2>2 DEF ReadLine, ReadFails
      <3>2. \A v \in subscribers : follows[v] = r /\ closed[v] = 0 /\ viewAt[v] \in {"stream", "gone"}
        BY <3>1 DEF SubscriberInv, GuardInv, Busy
      <3> QED
        BY <3>1, <3>2 DEF AppendLog, TypeOK
    <2>3. CASE \E v \in Viewers : Deliver(r, v)
      BY <2>3 DEF Deliver, TypeOK
    <2>4. CASE Delivered(r) \/ ReadEOF(r) \/ Reap(r)
      <3>1. told[r] = {}
        BY <2>4 DEF Delivered, ReadEOF, Reap, TypeOK
      <3>2. \E step \in Steps : at' = [at EXCEPT ![r] = step]
        BY <2>4 DEF Delivered, ReadEOF, Reap, Steps
      <3>3. UNCHANGED <<told, streams>>
        BY <2>4 DEF Delivered, ReadEOF, Reap
      <3> QED
        BY <3>1, <3>2, <3>3 DEF TypeOK
    <2>5. CASE FinishRun(r)
      <3>1. \A v \in subscribers : follows[v] = r /\ closed[v] = 0 /\ viewAt[v] \in {"stream", "gone"}
        BY <2>5 DEF FinishRun, SubscriberInv, GuardInv, Busy
      <3> QED
        BY <2>5, <3>1 DEF FinishRun, TypeOK
    <2>6. CASE ReadRecords(r) \/ WriteRecords(r) \/ Notified(r)
      <3>1. \E step \in {"write", "notify", "ended"} :
                at' = [at EXCEPT ![r] = step] /\ (step = "ended" => told[r] = {})
        BY <2>6 DEF ReadRecords, WriteRecords, Notified
      <3>2. UNCHANGED <<told, streams>>
        BY <2>6 DEF ReadRecords, WriteRecords, Notified
      <3> QED
        BY <3>1, <3>2 DEF TypeOK
    <2>7. CASE \E v \in Viewers : Notify(r, v)
      BY <2>7 DEF Notify, TypeOK
    <2> QED
      BY <1>2, <2>1, <2>2, <2>3, <2>4, <2>5, <2>6, <2>7 DEF Run, Collector, Finisher
  <1>3. ASSUME NEW r \in Runs, Processes(r) PROVE ToldInv'
    BY <1>3, ProcessFrame
  <1>4. ASSUME NEW s \in Stops, Stop(s) PROVE ToldInv'
    BY <1>4 DEF Stop, StopLooks, StopFires
  <1>5. ASSUME NEW v \in Viewers, View(v) PROVE ToldInv'
    <2>1. CASE Subscribe(v) \/ Replay(v)
      <3>1. \A r \in Runs : v \notin told[r]
        BY <2>1 DEF Subscribe, Replay
      <3>2. \A w \in Viewers \ {v} : follows'[w] = follows[w] /\ viewAt'[w] = viewAt[w]
        BY <2>1 DEF Subscribe, Replay, TypeOK
      <3>3. UNCHANGED <<at, told, closed>>
        BY <2>1 DEF Subscribe, Replay
      <3>4. \A r \in Runs : told[r] \subseteq Viewers
        BY DEF TypeOK
      <3> QED
        BY <3>1, <3>2, <3>3, <3>4
    <2>2. CASE Receive(v)
      <3>0. closed[v] = 0 => Head(buf[v])[1] # "done"
        BY <2>2, OpenChannelHasLines
      <3>1. closed[v] = 0 => viewAt' = viewAt
        BY <2>2, <3>0 DEF Receive, TypeOK
      <3>2. \A w \in Viewers \ {v} : viewAt'[w] = viewAt[w]
        BY <2>2 DEF Receive, TypeOK
      <3>3. UNCHANGED <<at, told, closed, follows>>
        BY <2>2 DEF Receive
      <3>4. \A r \in Runs : told[r] \subseteq Viewers
        BY DEF TypeOK
      <3> QED
        BY <3>1, <3>2, <3>3, <3>4
    <2>3. CASE StreamEnds(v)
      BY <2>3 DEF StreamEnds, TypeOK
    <2>4. CASE Leave(v)
      BY <2>4 DEF Leave, TypeOK
    <2>5. CASE Unsubscribe(v)
      BY <2>5 DEF Unsubscribe, TypeOK
    <2> QED
      BY <1>5, <2>1, <2>2, <2>3, <2>4, <2>5 DEF View
  <1> QED
    BY <1>1, <1>2, <1>3, <1>4, <1>5 DEF Next, Served

LEMMA SubscriberStep ==
    ASSUME TypeOK, GuardInv, ToldInv, SubscriberInv, StreamInv, Next
    PROVE  SubscriberInv'
  <1> USE DEF vars, state, process, collector, stops, streams, SubscriberInv
  <1>1. CASE UNCHANGED vars
    BY <1>1
  <1>2. ASSUME NEW r \in Runs, Run(r) PROVE SubscriberInv'
    <2>1. CASE ClaimRun(r)
      BY <2>1 DEF ClaimRun
    <2>2. CASE RefuseRun(r) \/ StartChild(r) \/ StartFails(r)
      BY <2>2 DEF RefuseRun, StartChild, StartFails
    <2>3. CASE ReadLine(r) \/ ReadFails(r) \/ Delivered(r) \/ ReadEOF(r) \/ Reap(r)
      BY <2>3 DEF ReadLine, ReadFails, AppendLog, Delivered, ReadEOF, Reap
    <2>4. CASE \E v \in Viewers : Deliver(r, v)
      BY <2>4 DEF Deliver
    <2>5. CASE FinishRun(r)
      BY <2>5 DEF FinishRun
    <2>6. CASE ReadRecords(r) \/ WriteRecords(r) \/ Notified(r)
      BY <2>6 DEF ReadRecords, WriteRecords, Notified
    <2>7. CASE \E v \in Viewers : Notify(r, v)
      <3>1. PICK v \in Viewers : Notify(r, v)
        BY <2>7
      <3>2. v \notin subscribers
        BY <3>1 DEF Notify, ToldInv, GuardInv, Busy
      <3> QED
        BY <3>1, <3>2 DEF Notify, TypeOK
    <2> QED
      BY <1>2, <2>1, <2>2, <2>3, <2>4, <2>5, <2>6, <2>7 DEF Run, Collector, Finisher
  <1>3. ASSUME NEW r \in Runs, Processes(r) PROVE SubscriberInv'
    BY <1>3, ProcessFrame
  <1>4. ASSUME NEW s \in Stops, Stop(s) PROVE SubscriberInv'
    BY <1>4 DEF Stop, StopLooks, StopFires
  <1>5. ASSUME NEW v \in Viewers, View(v) PROVE SubscriberInv'
    <2>1. CASE Subscribe(v)
      <3>1. closed[v] = 0
        BY <2>1 DEF Subscribe, StreamInv
      <3> QED
        BY <2>1, <3>1 DEF Subscribe, TypeOK
    <2>2. CASE Replay(v)
      BY <2>2 DEF Replay
    <2>3. CASE Receive(v)
      <3>0. closed[v] = 0 => Head(buf[v])[1] # "done"
        BY <2>3, OpenChannelHasLines
      <3>1. closed[v] = 0 => viewAt' = viewAt
        BY <2>3, <3>0 DEF Receive, TypeOK
      <3> QED
        BY <2>3, <3>1 DEF Receive, TypeOK
    <2>4. CASE StreamEnds(v)
      BY <2>4 DEF StreamEnds, TypeOK
    <2>5. CASE Leave(v)
      BY <2>5 DEF Leave, TypeOK
    <2>6. CASE Unsubscribe(v)
      BY <2>6 DEF Unsubscribe, TypeOK
    <2> QED
      BY <1>5, <2>1, <2>2, <2>3, <2>4, <2>5, <2>6 DEF View
  <1> QED
    BY <1>1, <1>2, <1>3, <1>4, <1>5 DEF Next, Served

\* A run that was claimed goes on to its end and never back.
LEMMA RunsOnlyAdvance ==
    ASSUME TypeOK, NEW r \in Runs, Run(r)
    PROVE  \A q \in Runs :
              /\ Busy(q) \/ Over(q) => (Busy(q) \/ Over(q))'
              /\ Over(q) => Over(q)'
              /\ at[q] \in {"notify", "ended"} => at'[q] \in {"notify", "ended"}
  <1> USE DEF Busy, Over
  <1>1. CASE ClaimRun(r) \/ RefuseRun(r)
    BY <1>1 DEF ClaimRun, RefuseRun, TypeOK
  <1>2. CASE StartChild(r) \/ StartFails(r)
    BY <1>2 DEF StartChild, StartFails, TypeOK
  <1>3. CASE ReadLine(r) \/ ReadFails(r)
    <2>1. at[r] = "collect" /\ at' = [at EXCEPT ![r] = "deliver"]
      BY <1>3 DEF ReadLine, ReadFails, AppendLog
    <2> QED
      BY <2>1 DEF TypeOK
  <1>4. CASE Delivered(r) \/ ReadEOF(r) \/ Reap(r)
    BY <1>4 DEF Delivered, ReadEOF, Reap, TypeOK
  <1>5. CASE FinishRun(r)
    BY <1>5 DEF FinishRun, TypeOK
  <1>6. CASE ReadRecords(r) \/ WriteRecords(r) \/ Notified(r)
    BY <1>6 DEF ReadRecords, WriteRecords, Notified, TypeOK
  <1>7. CASE \E v \in Viewers : Deliver(r, v) \/ Notify(r, v)
    BY <1>7 DEF Deliver, Notify
  <1> QED
    BY <1>1, <1>2, <1>3, <1>4, <1>5, <1>6, <1>7 DEF Run, Collector, Finisher

\* Only a delivery and the notification touch a stream.
LEMMA RunFrame ==
    ASSUME NEW r \in Runs, Run(r), ~ \E v \in Viewers : Deliver(r, v) \/ Notify(r, v)
    PROVE  UNCHANGED streams
  BY DEF streams, state, process, collector, Run, Collector, Finisher, ClaimRun, RefuseRun, StartChild,
         StartFails, ReadLine, ReadFails, AppendLog, Delivered, ReadEOF, Reap, FinishRun,
         ReadRecords, WriteRecords, Notified

\* The sequence of a channel that was sent e.
LEMMA Sent ==
    ASSUME NEW b \in Seq(Events), NEW e \in Events
    PROVE  /\ Append(b, e) \in Seq(Events) /\ Len(Append(b, e)) = Len(b) + 1
           /\ (\A i \in 1..Len(b) : IsLine(b[i])) /\ IsLine(e) =>
                  \A i \in 1..Len(Append(b, e)) : IsLine(Append(b, e)[i])
  <1> DEFINE a == Append(b, e)
  <1>1. /\ a \in Seq(Events) /\ Len(a) = Len(b) + 1 /\ a[Len(b) + 1] = e
        /\ \A i \in 1..Len(b) : a[i] = b[i]
    BY AppendProperties
  <1>2. Len(b) \in Nat
    BY LenProperties
  <1> HIDE DEF a
  <1>3. \A i \in 1..Len(a) : i \in 1..Len(b) \/ i = Len(b) + 1
    BY <1>1, <1>2
  <1>4. (\A i \in 1..Len(b) : IsLine(b[i])) /\ IsLine(e) => \A i \in 1..Len(a) : IsLine(a[i])
    BY <1>1, <1>3
  <1> QED
    BY <1>1, <1>4 DEF a

LEMMA StreamStep ==
    ASSUME TypeOK, GuardInv, ToldInv, SubscriberInv, StreamInv, LogInv, Next
    PROVE  StreamInv'
  <1> USE DEF vars, state, process, collector, stops, streams
  <1>0. \A v \in Viewers : follows[v] \in Runs \cup {None}
    BY DEF TypeOK
  <1>1. CASE UNCHANGED vars
    BY <1>1 DEF StreamInv, Busy, Over
  <1>2. ASSUME NEW r \in Runs, Run(r) PROVE StreamInv'
    <2>1. CASE UNCHANGED streams
      <3>1. \A q \in Runs : /\ Busy(q) \/ Over(q) => (Busy(q) \/ Over(q))'
                            /\ Over(q) => Over(q)'
                            /\ at[q] \in {"notify", "ended"} => at'[q] \in {"notify", "ended"}
        BY <1>2, RunsOnlyAdvance
      <3>2. \A q \in Runs : /\ Busy(q)' <=> at'[q] \in {"claimed", "collect", "deliver", "wait", "finish"}
                            /\ Over(q)' <=> at'[q] \in {"read", "write", "notify", "ended"}
        BY DEF Busy, Over
      <3> QED
        BY <1>0, <2>1, <3>1, <3>2 DEF StreamInv, Busy, Over
    <2>2. CASE \E v \in Viewers : Deliver(r, v)
      <3>1. PICK v \in Viewers : Deliver(r, v)
        BY <2>2
      <3>2. UNCHANGED <<at, viewAt, closed, follows>>
        BY <3>1 DEF Deliver
      <3>3. viewAt[v] # "away" /\ printed[r] \in Nat \ {0} /\ buf[v] \in Seq(Events)
        <4>1. at[r] = "deliver" /\ v \in told[r]
          BY <3>1 DEF Deliver
        <4>2. viewAt[v] # "away"
          BY <4>1 DEF ToldInv
        <4>3. printed[r] \in Nat /\ printed[r] > 0
          BY <4>1 DEF LogInv, TypeOK
        <4> QED
          BY <4>2, <4>3 DEF TypeOK
      <3>4. Line(r, printed[r]) \in Events /\ IsLine(Line(r, printed[r]))
        BY <3>3, EventFacts
      <3>5. buf' = buf \/ buf' = [buf EXCEPT ![v] = Append(@, Line(r, printed[r]))]
        BY <3>1 DEF Deliver
      <3>6. buf'[v] = buf[v] \/ buf'[v] = Append(buf[v], Line(r, printed[r]))
        BY <3>5 DEF TypeOK
      <3>7. \A w \in Viewers \ {v} : buf'[w] = buf[w]
        BY <3>5 DEF TypeOK
      <3>8. closed[v] = 0 => \A i \in 1..Len(buf'[v]) : IsLine(buf'[v][i])
        BY <3>3, <3>4, <3>6, Sent DEF StreamInv
      <3> QED
        BY <3>2, <3>3, <3>7, <3>8 DEF StreamInv, Busy, Over
    <2>3. CASE \E v \in Viewers : Notify(r, v)
      <3>1. PICK v \in Viewers : Notify(r, v)
        BY <2>3
      <3>2. UNCHANGED <<at, viewAt, follows>> /\ closed' = [closed EXCEPT ![v] = @ + 1]
        BY <3>1 DEF Notify
      <3>3. v \in told[r] /\ at[r] = "notify"
        BY <3>1 DEF Notify
      <3>4. follows[v] = r /\ viewAt[v] \in {"stream", "gone", "left"} /\ closed[v] = 0
        BY <3>3 DEF ToldInv
      <3>5. \A w \in Viewers \ {v} : buf'[w] = buf[w] /\ closed'[w] = closed[w]
        BY <3>1, <3>2 DEF Notify, TypeOK
      <3>6. closed'[v] = 1
        BY <3>2, <3>4 DEF TypeOK
      <3> QED
        BY <3>2, <3>3, <3>4, <3>5, <3>6, NoneAssumption DEF StreamInv, Busy, Over
    <2> QED
      BY <1>2, <2>1, <2>2, <2>3, RunFrame
  <1>3. ASSUME NEW r \in Runs, Processes(r) PROVE StreamInv'
    BY <1>3, ProcessFrame DEF StreamInv, Busy, Over
  <1>4. ASSUME NEW s \in Stops, Stop(s) PROVE StreamInv'
    BY <1>4 DEF Stop, StopLooks, StopFires, StreamInv, Busy, Over
  <1>5. ASSUME NEW v \in Viewers, View(v) PROVE StreamInv'
    <2>0. UNCHANGED at
      BY <1>5, WatchersFrame
    <2>1. CASE Subscribe(v)
      <3>1. running /\ runStarted \in Runs /\ Busy(runStarted) /\ runStarted # None
        BY <2>1, NoneAssumption DEF Subscribe, GuardInv
      <3>2. closed[v] = 0 /\ buf[v] = <<>> /\ UNCHANGED <<closed, buf>>
        BY <2>1 DEF Subscribe, StreamInv
      <3>3. follows'[v] = runStarted /\ viewAt'[v] = "stream"
        BY <2>1 DEF Subscribe, TypeOK
      <3>4. \A w \in Viewers \ {v} : follows'[w] = follows[w] /\ viewAt'[w] = viewAt[w]
        BY <2>1 DEF Subscribe, TypeOK
      <3> QED
        BY <2>0, <3>1, <3>2, <3>3, <3>4 DEF StreamInv, Busy, Over
    <2>2. CASE Replay(v)
      <3>1. runStarted # None => Over(runStarted)
        BY <2>2 DEF Replay, GuardInv
      <3>2. closed[v] = 0 /\ buf[v] = <<>> /\ UNCHANGED <<closed, buf>>
        BY <2>2 DEF Replay, StreamInv
      <3>3. follows'[v] = runStarted /\ viewAt'[v] = "closed"
        BY <2>2 DEF Replay, TypeOK
      <3>4. \A w \in Viewers \ {v} : follows'[w] = follows[w] /\ viewAt'[w] = viewAt[w]
        BY <2>2 DEF Replay, TypeOK
      <3> QED
        BY <2>0, <3>1, <3>2, <3>3, <3>4 DEF StreamInv, Busy, Over
    <2>3. CASE Receive(v)
      <3>1. UNCHANGED <<closed, follows>> /\ viewAt[v] = "stream"
        BY <2>3 DEF Receive
      <3>2. \A w \in Viewers \ {v} : buf'[w] = buf[w] /\ viewAt'[w] = viewAt[w]
        BY <2>3 DEF Receive, TypeOK
      <3>3. buf'[v] = Tail(buf[v])
        BY <2>3 DEF Receive, TypeOK
      <3>4. closed[v] = 0 => Head(buf[v])[1] # "done" /\ \A i \in 1..Len(buf'[v]) : IsLine(buf'[v][i])
        BY <2>3, <3>3, OpenChannelHasLines
      <3>5. viewAt'[v] = IF Head(buf[v])[1] = "done" THEN "leaving" ELSE "stream"
        BY <2>3, <3>1 DEF Receive, TypeOK
      <3>6. closed[v] \in Nat
        BY DEF TypeOK
      <3> QED
        BY <2>0, <3>1, <3>2, <3>4, <3>5, <3>6 DEF StreamInv, Busy, Over
    <2>4. CASE StreamEnds(v) \/ Leave(v) \/ Unsubscribe(v)
      <3>1. UNCHANGED <<closed, buf, follows>>
        BY <2>4 DEF StreamEnds, Leave, Unsubscribe
      <3>2. \A w \in Viewers \ {v} : viewAt'[w] = viewAt[w]
        BY <2>4 DEF StreamEnds, Leave, Unsubscribe, TypeOK
      <3>3. /\ viewAt[v] \in {"stream", "leaving", "gone"} /\ viewAt'[v] \in {"leaving", "gone", "closed", "left"}
            /\ viewAt'[v] = "leaving" => closed[v] > 0
            /\ viewAt'[v] = "closed" => viewAt[v] = "leaving"
        <4>1. CASE StreamEnds(v)
          BY <4>1 DEF StreamEnds, TypeOK
        <4>2. CASE Leave(v)
          BY <4>2 DEF Leave, TypeOK
        <4>3. CASE Unsubscribe(v)
          BY <4>3 DEF Unsubscribe, TypeOK
        <4> QED
          BY <2>4, <4>1, <4>2, <4>3
      <3> QED
        BY <2>0, <3>1, <3>2, <3>3 DEF StreamInv, Busy, Over
    <2> QED
      BY <1>5, <2>1, <2>2, <2>3, <2>4 DEF View
  <1> QED
    BY <1>1, <1>2, <1>3, <1>4, <1>5 DEF Next, Served

LEMMA LogStep ==
    ASSUME TypeOK, GuardInv, LogInv, Next
    PROVE  LogInv'
  <1> USE DEF vars, state, process, collector, stops, streams
  <1>1. CASE UNCHANGED vars
    BY <1>1 DEF LogInv
  <1>2. ASSUME NEW r \in Runs, Run(r) PROVE LogInv'
    <2>1. CASE ClaimRun(r)
      <3>0. at[r] = "new" /\ logs' = <<>> /\ runStarted' = r /\ printed' = printed
        BY <2>1 DEF ClaimRun
      <3>1. printed[r] = 0
        BY <3>0 DEF LogInv
      <3>2. Len(logs') = 0
        BY <3>0, EmptySeq
      <3> QED
        BY <2>1, <3>0, <3>1, <3>2 DEF ClaimRun, LogInv, TypeOK
    <2>2. CASE RefuseRun(r)
      BY <2>2 DEF RefuseRun, LogInv, TypeOK
    <2>3. CASE StartChild(r)
      BY <2>3 DEF StartChild, LogInv, TypeOK
    <2>4. CASE StartFails(r)
      BY <2>4 DEF StartFails, LogInv, TypeOK
    <2>5. CASE ReadLine(r) \/ ReadFails(r)
      <3>1. at[r] = "collect" /\ AppendLog(r) /\ runStarted' = runStarted
        BY <2>5 DEF ReadLine, ReadFails
      <3>2. runStarted = r /\ r # None
        BY <3>1, NoneAssumption DEF GuardInv, Busy
      <3>3. logs \in Seq(Lines) /\ printed[r] \in Nat /\ Len(logs) = printed[r]
        BY <3>2 DEF LogInv, TypeOK
      <3>4. Line(r, printed[r] + 1) \in Lines /\ logs' = Append(logs, Line(r, printed[r] + 1))
        BY <3>1, <3>3, EventFacts DEF AppendLog
      <3>5. /\ Len(logs') = printed[r] + 1 /\ logs'[printed[r] + 1] = Line(r, printed[r] + 1)
            /\ \A n \in 1..printed[r] : logs'[n] = logs[n]
        BY <3>3, <3>4, AppendProperties
      <3>6. \A n \in 1..printed[r] + 1 : n \in 1..printed[r] \/ n = printed[r] + 1
        BY <3>3
      <3>7. \A n \in 1..printed[r] : logs[n] = Line(r, n)
        BY <3>2, <3>3 DEF LogInv
      <3>8. \A n \in 1..Len(logs') : logs'[n] = Line(r, n)
        BY <3>5, <3>6, <3>7
      <3>9. printed'[r] = printed[r] + 1 /\ \A q \in Runs \ {r} : printed'[q] = printed[q] /\ at'[q] = at[q]
        BY <3>1 DEF AppendLog, TypeOK
      <3>10. at'[r] = "deliver" /\ printed[r] + 1 > 0
        BY <3>1, <3>3 DEF AppendLog, TypeOK
      <3> QED
        BY <3>1, <3>2, <3>5, <3>8, <3>9, <3>10 DEF LogInv
    <2>6. CASE Delivered(r) \/ ReadEOF(r) \/ Reap(r)
      <3>1. \E step \in {"wait", "collect", "finish"} : at' = [at EXCEPT ![r] = step]
        BY <2>6 DEF Delivered, ReadEOF, Reap
      <3>2. UNCHANGED <<state, printed>>
        BY <2>6 DEF Delivered, ReadEOF, Reap
      <3> QED
        BY <3>1, <3>2 DEF LogInv, TypeOK
    <2>7. CASE FinishRun(r)
      BY <2>7 DEF FinishRun, LogInv, TypeOK
    <2>8. CASE ReadRecords(r) \/ WriteRecords(r) \/ Notified(r)
      <3>1. \E step \in {"write", "notify", "ended"} : at' = [at EXCEPT ![r] = step]
        BY <2>8 DEF ReadRecords, WriteRecords, Notified
      <3>2. UNCHANGED <<state, printed>>
        BY <2>8 DEF ReadRecords, WriteRecords, Notified
      <3> QED
        BY <3>1, <3>2 DEF LogInv, TypeOK
    <2>9. CASE \E v \in Viewers : Deliver(r, v) \/ Notify(r, v)
      BY <2>9 DEF Deliver, Notify, LogInv
    <2> QED
      BY <1>2, <2>1, <2>2, <2>3, <2>4, <2>5, <2>6, <2>7, <2>8, <2>9 DEF Run, Collector, Finisher
  <1>3. ASSUME NEW r \in Runs, Processes(r) PROVE LogInv'
    BY <1>3, ProcessFrame DEF LogInv
  <1>4. ASSUME (\E s \in Stops : Stop(s)) \/ \E v \in Viewers : View(v) PROVE LogInv'
    BY <1>4, WatchersFrame DEF LogInv
  <1> QED
    BY <1>1, <1>2, <1>3, <1>4 DEF Next, Served

LEMMA OpenStep ==
    ASSUME TypeOK, GuardInv, ToldInv, SubscriberInv, StreamInv, OpenInv, Next
    PROVE  OpenInv'
  <1> USE DEF vars, state, process, collector, stops, streams
  <1>0. \A w \in Viewers :
            viewAt[w] = "stream" => follows[w] \in Runs /\ (Busy(follows[w]) \/ Over(follows[w]))
    BY DEF StreamInv, TypeOK
  <1>1. CASE UNCHANGED vars
    BY <1>1 DEF OpenInv, Busy
  <1>2. ASSUME NEW r \in Runs, Run(r) PROVE OpenInv'
    <2>0. \A q \in Runs : Over(q) => ~ Busy(q)'
      BY <1>2, RunsOnlyAdvance DEF Busy, Over
    <2>1. CASE UNCHANGED <<subscribers, told, streams>>
      BY <1>0, <2>0, <2>1 DEF OpenInv
    <2>2. CASE ReadLine(r) \/ ReadFails(r) \/ FinishRun(r)
      <3>1. /\ Busy(r) /\ told' = [told EXCEPT ![r] = subscribers]
            /\ UNCHANGED streams
        BY <2>2 DEF ReadLine, ReadFails, FinishRun, AppendLog, Busy
      <3>2. subscribers' = subscribers \/ (subscribers' = {} /\ ~ Busy(r)')
        BY <2>2 DEF ReadLine, ReadFails, FinishRun, Busy, TypeOK
      <3>3. told'[r] = subscribers /\ \A q \in Runs \ {r} : told'[q] = told[q]
        BY <3>1 DEF TypeOK
      <3>4. \A w \in subscribers : follows[w] = r
        BY <3>1 DEF SubscriberInv, GuardInv
      <3> QED
        BY <1>0, <2>0, <3>1, <3>2, <3>3, <3>4 DEF OpenInv
    <2>3. CASE \E v \in Viewers : Deliver(r, v)
      <3>1. PICK v \in Viewers : Deliver(r, v)
        BY <2>3
      <3>2. Busy(r) /\ UNCHANGED <<at, subscribers, viewAt, closed, follows>>
        BY <3>1 DEF Deliver, Busy
      <3>3. \A q \in Runs \ {r} : told'[q] = told[q]
        BY <3>1 DEF Deliver, TypeOK
      <3> QED
        BY <1>0, <3>2, <3>3 DEF OpenInv, Busy
    <2>4. CASE \E v \in Viewers : Notify(r, v)
      <3>1. PICK v \in Viewers : Notify(r, v)
        BY <2>4
      <3>2. UNCHANGED <<at, subscribers, viewAt, follows>>
        BY <3>1 DEF Notify
      <3>3. \A w \in Viewers \ {v} : closed'[w] = closed[w] /\ \A q \in Runs : w \in told[q] => w \in told'[q]
        BY <3>1 DEF Notify, TypeOK
      <3>4. closed'[v] # 0
        BY <3>1 DEF Notify, TypeOK
      <3> QED
        BY <1>0, <3>2, <3>3, <3>4 DEF OpenInv, Busy
    <2>5. CASE ClaimRun(r) \/ RefuseRun(r) \/ StartChild(r) \/ StartFails(r)
      BY <2>1, <2>5 DEF ClaimRun, RefuseRun, StartChild, StartFails
    <2>6. CASE Delivered(r) \/ ReadEOF(r) \/ Reap(r) \/ ReadRecords(r) \/ WriteRecords(r) \/ Notified(r)
      BY <2>1, <2>6 DEF Delivered, ReadEOF, Reap, ReadRecords, WriteRecords, Notified
    <2> QED
      BY <1>2, <2>2, <2>3, <2>4, <2>5, <2>6 DEF Run, Collector, Finisher
  <1>3. ASSUME NEW r \in Runs, Processes(r) PROVE OpenInv'
    BY <1>3, ProcessFrame DEF OpenInv, Busy
  <1>4. ASSUME NEW s \in Stops, Stop(s) PROVE OpenInv'
    BY <1>4 DEF Stop, StopLooks, StopFires, OpenInv, Busy
  <1>5. ASSUME NEW v \in Viewers, View(v) PROVE OpenInv'
    <2>1. UNCHANGED <<at, told>>
      BY <1>5, WatchersFrame
    <2>2. \A w \in Viewers \ {v} :
              /\ viewAt'[w] = viewAt[w] /\ closed'[w] = closed[w] /\ follows'[w] = follows[w]
              /\ w \in subscribers => w \in subscribers'
      BY <1>5 DEF View, Subscribe, Replay, Receive, StreamEnds, Leave, Unsubscribe, TypeOK
    <2>3. viewAt'[v] = "stream" =>
              \/ v \in subscribers'
              \/ /\ viewAt[v] = "stream" /\ closed'[v] = closed[v] /\ follows'[v] = follows[v]
                 /\ subscribers' = subscribers
      <3>1. CASE Subscribe(v)
        BY <3>1 DEF Subscribe
      <3>2. CASE Replay(v)
        BY <3>2 DEF Replay, TypeOK
      <3>3. CASE Receive(v)
        BY <3>3 DEF Receive, TypeOK
      <3>4. CASE StreamEnds(v)
        BY <3>4 DEF StreamEnds, TypeOK
      <3>5. CASE Leave(v)
        BY <3>5 DEF Leave, TypeOK
      <3>6. CASE Unsubscribe(v)
        BY <3>6 DEF Unsubscribe, TypeOK
      <3> QED
        BY <1>5, <3>1, <3>2, <3>3, <3>4, <3>5, <3>6 DEF View
    <2> QED
      BY <2>1, <2>2, <2>3 DEF OpenInv, Busy
  <1> QED
    BY <1>1, <1>2, <1>3, <1>4, <1>5 DEF Next, Served

-----------------------------------------------------------------------------
(* What a stream has shown *)

LEMMA ShowsOneMore ==
    ASSUME NEW e \in Seq(Events), NEW r \in Runs, NEW n \in Nat, Shows(e, r, n), Len(e) = n
    PROVE  LET longer == Append(e, Line(r, n + 1))
           IN Shows(longer, r, n + 1) /\ Len(longer) = n + 1
  <1> DEFINE longer == Append(e, Line(r, n + 1))
  <1>1. Line(r, n + 1) \in Events
    BY EventFacts
  <1>2. /\ Len(longer) = n + 1 /\ longer[n + 1] = Line(r, n + 1)
        /\ \A i \in 1..n : longer[i] = e[i]
    BY <1>1, AppendProperties
  <1> HIDE DEF longer
  <1>3. \A i \in 1..n + 1 : i \in 1..n \/ i = n + 1
    OBVIOUS
  <1>4. \A i \in 1..n + 1 : longer[i] = Line(r, i)
    BY <1>2, <1>3 DEF Shows
  <1> QED
    BY <1>2, <1>4 DEF Shows, longer

LEMMA ShowsTheEnd ==
    ASSUME NEW e \in Seq(Events), NEW r \in Runs, NEW n \in Nat, Shows(e, r, n), Len(e) = n,
           NEW c \in {0, 1}
    PROVE  Shows(Append(e, Done(c)), r, n)
  <1> DEFINE longer == Append(e, Done(c))
  <1>1. Done(c) \in Events /\ ~ IsLine(Done(c))
    BY EventFacts
  <1>2. /\ Len(longer) = n + 1 /\ longer[n + 1] = Done(c)
        /\ \A i \in 1..n : longer[i] = e[i]
    BY <1>1, AppendProperties
  <1> HIDE DEF longer
  <1>3. Shows(longer, r, n)
    BY <1>1, <1>2 DEF Shows
  <1> QED
    BY <1>3 DEF longer

\* The log of the run that was claimed last, as a stream that opens gets it.
LEMMA LogShows ==
    ASSUME TypeOK, LogInv, runStarted # None
    PROVE  /\ logs \in Seq(Events) /\ printed[runStarted] \in Nat /\ Len(logs) = printed[runStarted]
           /\ Shows(logs, runStarted, printed[runStarted])
  <1>1. logs \in Seq(Events)
    BY LogsAreEvents DEF TypeOK
  <1>2. runStarted \in Runs /\ printed[runStarted] \in Nat /\ Len(logs) = printed[runStarted]
    BY DEF LogInv, TypeOK
  <1>3. \A n \in 1..Len(logs) : logs[n] = Line(runStarted, n)
    BY DEF LogInv
  <1> QED
    BY <1>1, <1>2, <1>3 DEF Shows

\* ShownInv for one stream.
ShownSoFar(v) ==
    Watching(v) =>
        /\ Shows(Shown(v), follows[v], Expected(follows[v], v))
        /\ viewAt[v] = "stream" /\ closed[v] = 0 => Len(Shown(v)) = Expected(follows[v], v)

\* A step that changes neither what a stream has shown nor what is expected of
\* it, and opens nothing, keeps its part of the invariant.
LEMMA NothingNewShown ==
    ASSUME NEW v \in Viewers, ShownSoFar(v),
           follows'[v] = follows[v], Shown(v)' = Shown(v),
           Watching(v)' => Watching(v) /\ Expected(follows[v], v)' = Expected(follows[v], v),
           (viewAt[v] = "stream" /\ closed[v] = 0)' => viewAt[v] = "stream" /\ closed[v] = 0
    PROVE  ShownSoFar(v)'
  BY DEF ShownSoFar

\* One send to v that was not dropped.
LEMMA ShownGrows ==
    ASSUME TypeOK, NEW v \in Viewers, NEW e \in Events, got' = got, buf' = [buf EXCEPT ![v] = Append(@, e)]
    PROVE  Shown(v) \in Seq(Events) /\ Shown(v)' = Append(Shown(v), e)
  <1>1. got[v] \in Seq(Events) /\ buf[v] \in Seq(Events)
    BY DEF TypeOK
  <1>2. Shown(v) \in Seq(Events)
    BY <1>1, ConcatProperties DEF Shown
  <1>3. buf'[v] = Append(buf[v], e) /\ got'[v] = got[v]
    BY DEF TypeOK
  <1>4. got[v] \o Append(buf[v], e) = Append(got[v] \o buf[v], e)
    BY <1>1, SendingShowsOneMore
  <1> QED
    BY <1>2, <1>3, <1>4 DEF Shown

\* A line that is read goes to every stream of its run that is still watched.
LEMMA AppendedToAll ==
    ASSUME TypeOK, GuardInv, StreamInv, OpenInv, NEW r \in Runs, Busy(r),
           NEW v \in Viewers, Watching(v), follows[v] = r
    PROVE  v \in subscribers /\ viewAt[v] = "stream" /\ closed[v] = 0
  <1>1. closed[v] \in Nat /\ ~ (closed[v] > 0)
    BY DEF StreamInv, Busy, TypeOK
  <1>2. viewAt[v] = "stream"
    BY <1>1 DEF Watching, StreamInv, Busy, Over
  <1> QED
    BY <1>1, <1>2 DEF OpenInv

LEMMA ShownStepRun ==
    ASSUME TypeOK, GuardInv, ToldInv, SubscriberInv, StreamInv, LogInv, OpenInv, ShownInv,
           NEW r \in Runs, Run(r), NEW w \in Viewers
    PROVE  ShownSoFar(w)'
  <1> USE DEF state, process, collector, stops, streams
  <1>0. ShownSoFar(w)
    BY DEF ShownInv, ShownSoFar
  <1>1. Watching(w) => follows[w] \in Runs /\ (Busy(follows[w]) \/ Over(follows[w]))
    BY DEF Watching, StreamInv, TypeOK
  <1>2. CASE ReadLine(r) \/ ReadFails(r)
    <2>1. at[r] = "collect" /\ AppendLog(r) /\ UNCHANGED streams
      BY <1>2 DEF ReadLine, ReadFails
    <2>2. Watching(w)' = Watching(w) /\ Shown(w)' = Shown(w)
      BY <2>1 DEF Watching, Shown
    <2>3. ASSUME Watching(w) PROVE Expected(follows[w], w)' = Expected(follows[w], w)
      <3>1. CASE follows[w] = r
        <4>1. w \in subscribers
          BY <2>1, <2>3, <3>1, AppendedToAll DEF Busy
        <4>2. at'[r] = "deliver" /\ told'[r] = subscribers /\ printed'[r] = printed[r] + 1
          BY <2>1 DEF AppendLog, TypeOK
        <4>3. printed[r] \in Nat
          BY DEF TypeOK
        <4>4. Expected(r, w)' = printed[r] /\ Expected(r, w) = printed[r]
          BY <2>1, <4>1, <4>2, <4>3 DEF Expected
        <4> QED
          BY <2>1, <3>1, <4>4 DEF Expected
      <3>2. CASE follows[w] # r
        <4>1. \A q \in Runs \ {r} : at'[q] = at[q] /\ told'[q] = told[q] /\ printed'[q] = printed[q]
          BY <2>1 DEF AppendLog, TypeOK
        <4> QED
          BY <1>1, <2>1, <2>3, <3>2, <4>1 DEF Expected
      <3> QED
        BY <3>1, <3>2
    <2> QED
      BY <1>0, <2>1, <2>2, <2>3, NothingNewShown
  <1>3. CASE \E v \in Viewers : Deliver(r, v)
    <2>1. PICK v \in Viewers : Deliver(r, v)
      BY <1>3
    <2>2. /\ at[r] = "deliver" /\ v \in told[r] /\ told' = [told EXCEPT ![r] = @ \ {v}]
          /\ UNCHANGED <<at, printed, viewAt, closed, got, follows>>
      BY <2>1 DEF Deliver
    <2>3. follows[v] = r /\ closed[v] = 0 /\ viewAt[v] \in {"stream", "gone", "left"}
      BY <2>2 DEF ToldInv
    <2>4. CASE w # v
      <3>1. missed'[w] = missed[w] /\ buf'[w] = buf[w]
        BY <2>1, <2>4 DEF Deliver, TypeOK
      <3>2. Watching(w)' = Watching(w) /\ Shown(w)' = Shown(w)
        BY <2>2, <3>1 DEF Watching, Shown
      <3>3. \A q \in Runs : w \in told'[q] <=> w \in told[q]
        BY <2>2, <2>4 DEF TypeOK
      <3>4. Watching(w) => Expected(follows[w], w)' = Expected(follows[w], w)
        BY <1>1, <2>2, <3>3 DEF Expected
      <3> QED
        BY <1>0, <2>2, <3>2, <3>4, NothingNewShown
    <2>5. CASE w = v /\ Full(v)
      <3>1. missed'[v]
        BY <2>1, <2>5 DEF Deliver, TypeOK
      <3> QED
        BY <2>5, <3>1 DEF ShownSoFar, Watching
    <2>6. CASE w = v /\ ~ Full(v)
      <3>1. SUFFICES ASSUME Watching(v)' PROVE ShownSoFar(v)'
        BY <2>6 DEF ShownSoFar
      <3>2. missed'[v] = missed[v] /\ buf' = [buf EXCEPT ![v] = Append(@, Line(r, printed[r]))]
        BY <2>1, <2>6 DEF Deliver, TypeOK
      <3>3. Watching(v) /\ viewAt[v] = "stream"
        BY <2>2, <2>3, <3>1, <3>2 DEF Watching
      <3>4. printed[r] \in Nat /\ printed[r] > 0
        BY <2>2 DEF LogInv, TypeOK
      <3> DEFINE n == printed[r] - 1
      <3>5. n \in Nat /\ printed[r] = n + 1 /\ Expected(r, v) = n
        BY <2>2, <3>4 DEF Expected
      <3>6. Shows(Shown(v), r, n) /\ Len(Shown(v)) = n
        BY <1>0, <2>3, <2>6, <3>3, <3>5 DEF ShownSoFar
      <3>7. Line(r, printed[r]) \in Events
        BY <3>4, EventFacts
      <3>8. Shown(v) \in Seq(Events) /\ Shown(v)' = Append(Shown(v), Line(r, n + 1))
        <4>1. Shown(v) \in Seq(Events) /\ Shown(v)' = Append(Shown(v), Line(r, printed[r]))
          BY <2>2, <3>2, <3>7, ShownGrows
        <4> QED
          BY <3>5, <4>1
      <3>9. v \notin told'[r]
        BY <2>2 DEF TypeOK
      <3>10. Expected(r, v)' = n + 1
        BY <2>2, <3>5, <3>9 DEF Expected
      <3> HIDE DEF n
      <3>11. Shows(Shown(v)', r, n + 1) /\ Len(Shown(v)') = n + 1
        BY <3>5, <3>6, <3>8, ShowsOneMore
      <3> QED
        BY <2>2, <2>3, <3>10, <3>11 DEF ShownSoFar
    <2> QED
      BY <2>4, <2>5, <2>6
  <1>4. CASE \E v \in Viewers : Notify(r, v)
    <2>1. PICK v \in Viewers : Notify(r, v)
      BY <1>4
    <2>2. /\ at[r] = "notify" /\ v \in told[r] /\ told' = [told EXCEPT ![r] = @ \ {v}]
          /\ UNCHANGED <<at, printed, viewAt, got, follows>>
      BY <2>1 DEF Notify
    <2>3. follows[v] = r /\ closed[v] = 0 /\ viewAt[v] \in {"stream", "gone", "left"}
      BY <2>2 DEF ToldInv
    <2>4. CASE w # v
      <3>1. missed'[w] = missed[w] /\ buf'[w] = buf[w] /\ closed'[w] = closed[w]
        BY <2>1, <2>4 DEF Notify, TypeOK
      <3>2. Watching(w)' = Watching(w) /\ Shown(w)' = Shown(w)
        BY <2>2, <3>1 DEF Watching, Shown
      <3>3. \A q \in Runs : w \in told'[q] <=> w \in told[q]
        BY <2>2, <2>4 DEF TypeOK
      <3>4. Watching(w) => Expected(follows[w], w)' = Expected(follows[w], w)
        BY <1>1, <2>2, <3>3 DEF Expected
      <3> QED
        BY <1>0, <2>2, <3>1, <3>2, <3>4, NothingNewShown
    <2>5. CASE w = v /\ Full(v)
      <3>1. missed'[v]
        BY <2>1, <2>5 DEF Notify, TypeOK
      <3> QED
        BY <2>5, <3>1 DEF ShownSoFar, Watching
    <2>6. CASE w = v /\ ~ Full(v)
      <3>1. SUFFICES ASSUME Watching(v)' PROVE ShownSoFar(v)'
        BY <2>6 DEF ShownSoFar
      <3>2. missed'[v] = missed[v] /\ buf' = [buf EXCEPT ![v] = Append(@, Done(Code(r)))] /\ closed'[v] # 0
        BY <2>1, <2>3, <2>6 DEF Notify, TypeOK
      <3>3. Watching(v) /\ viewAt[v] = "stream"
        BY <2>2, <2>3, <3>1, <3>2 DEF Watching
      <3>4. printed[r] \in Nat /\ Expected(r, v) = printed[r] /\ Expected(r, v)' = printed[r]
        BY <2>2 DEF Expected, TypeOK
      <3>5. Shows(Shown(v), r, printed[r]) /\ Len(Shown(v)) = printed[r]
        BY <1>0, <2>3, <2>6, <3>3, <3>4 DEF ShownSoFar
      <3>6. Code(r) \in {0, 1} /\ Done(Code(r)) \in Events
        BY EventFacts DEF Code
      <3>7. Shown(v) \in Seq(Events) /\ Shown(v)' = Append(Shown(v), Done(Code(r)))
        BY <2>2, <3>2, <3>6, ShownGrows
      <3>8. Shows(Shown(v)', r, printed[r])
        BY <3>4, <3>5, <3>6, <3>7, ShowsTheEnd
      <3> QED
        BY <2>2, <2>3, <3>2, <3>4, <3>8 DEF ShownSoFar
    <2> QED
      BY <2>4, <2>5, <2>6
  <1>5. ASSUME UNCHANGED <<printed, streams>>,
               \A q \in Runs : (at[q] = "deliver" /\ w \in told[q])' <=> at[q] = "deliver" /\ w \in told[q]
        PROVE  ShownSoFar(w)'
    <2>1. Watching(w)' = Watching(w) /\ Shown(w)' = Shown(w)
      BY <1>5 DEF Watching, Shown
    <2>2. Watching(w) => Expected(follows[w], w)' = Expected(follows[w], w)
      BY <1>1, <1>5 DEF Expected
    <2> QED
      BY <1>0, <1>5, <2>1, <2>2, NothingNewShown
  <1>6. CASE ClaimRun(r) \/ RefuseRun(r) \/ StartChild(r) \/ StartFails(r)
    <2>1. at[r] # "deliver" /\ UNCHANGED <<told, printed, streams>>
      BY <1>6 DEF ClaimRun, RefuseRun, StartChild, StartFails
    <2>2. at'[r] # "deliver" /\ \A q \in Runs \ {r} : at'[q] = at[q]
      BY <1>6 DEF ClaimRun, RefuseRun, StartChild, StartFails, TypeOK
    <2> QED
      BY <1>5, <2>1, <2>2
  <1>7. CASE Delivered(r) \/ ReadEOF(r) \/ Reap(r) \/ ReadRecords(r) \/ WriteRecords(r) \/ Notified(r)
    <2>1. (at[r] # "deliver" \/ told[r] = {}) /\ UNCHANGED <<told, printed, streams>>
      BY <1>7 DEF Delivered, ReadEOF, Reap, ReadRecords, WriteRecords, Notified
    <2>2. at'[r] # "deliver" /\ \A q \in Runs \ {r} : at'[q] = at[q]
      BY <1>7 DEF Delivered, ReadEOF, Reap, ReadRecords, WriteRecords, Notified, TypeOK
    <2> QED
      BY <1>5, <2>1, <2>2
  <1>8. CASE FinishRun(r)
    <2>1. at[r] # "deliver" /\ at'[r] # "deliver" /\ UNCHANGED <<printed, streams>>
      BY <1>8 DEF FinishRun, TypeOK
    <2>2. \A q \in Runs \ {r} : at'[q] = at[q] /\ told'[q] = told[q]
      BY <1>8 DEF FinishRun, TypeOK
    <2> QED
      BY <1>5, <2>1, <2>2
  <1> QED
    BY <1>2, <1>3, <1>4, <1>6, <1>7, <1>8 DEF Run, Collector, Finisher

LEMMA ShownStepView ==
    ASSUME TypeOK, GuardInv, ToldInv, SubscriberInv, StreamInv, LogInv, OpenInv, ShownInv,
           NEW v \in Viewers, View(v), NEW w \in Viewers
    PROVE  ShownSoFar(w)'
  <1> USE DEF state, process, collector, stops, streams
  <1>0. ShownSoFar(w)
    BY DEF ShownInv, ShownSoFar
  <1>1. UNCHANGED <<at, told, printed>>
    BY WatchersFrame
  <1>2. CASE w # v
    <2>1. /\ viewAt'[w] = viewAt[w] /\ closed'[w] = closed[w] /\ follows'[w] = follows[w]
          /\ missed'[w] = missed[w] /\ buf'[w] = buf[w] /\ got'[w] = got[w]
      BY <1>2 DEF View, Subscribe, Replay, Receive, StreamEnds, Leave, Unsubscribe, TypeOK
    <2>2. Watching(w)' = Watching(w) /\ Shown(w)' = Shown(w)
      BY <2>1 DEF Watching, Shown
    <2>3. Expected(follows[w], w)' = Expected(follows[w], w)
      BY <1>1, <2>1 DEF Expected
    <2> QED
      BY <1>0, <2>1, <2>2, <2>3, NothingNewShown
  <1>3. CASE w = v /\ (Subscribe(v) \/ Replay(v)) /\ runStarted # None
    <2>1. viewAt[v] = "away" /\ runStarted \in Runs /\ follows[v] = None /\ buf[v] = <<>>
      BY <1>3 DEF Subscribe, Replay, StreamInv, TypeOK
    <2>2. v \notin told[runStarted]
      BY <1>3, <2>1 DEF ToldInv
    <2>3. follows'[v] = runStarted /\ buf'[v] = <<>> /\ runStarted' = runStarted
      BY <1>3, <2>1 DEF Subscribe, Replay, TypeOK
    <2> DEFINE n == printed[runStarted]
    <2>4. logs \in Seq(Events) /\ n \in Nat /\ Len(logs) = n /\ Shows(logs, runStarted, n)
      BY <1>3, LogShows
    <2>5. Expected(follows[v], v)' = n
      BY <1>1, <2>2, <2>3, <2>4 DEF Expected
    <2> HIDE DEF n
    <2>6. CASE got'[v] = logs
      <3>1. Shown(v)' = logs
        BY <2>3, <2>4, <2>6, ConcatEmptySeq DEF Shown
      <3> QED
        BY <1>3, <2>3, <2>4, <2>5, <3>1 DEF ShownSoFar
    <2>7. CASE Replay(v) /\ exitCode # -1
      <3>1. exitCode \in {0, 1}
        BY <2>7 DEF TypeOK
      <3>2. got'[v] = Append(logs, Done(exitCode)) /\ viewAt'[v] = "closed"
        BY <2>7 DEF Replay, TypeOK
      <3>3. Append(logs, Done(exitCode)) \in Seq(Events)
        BY <2>4, <3>1, EventFacts, AppendProperties
      <3>4. Shown(v)' = Append(logs, Done(exitCode))
        BY <2>3, <3>2, <3>3, ConcatEmptySeq DEF Shown
      <3>5. Shows(Shown(v)', runStarted, n)
        BY <1>3, <2>1, <2>4, <3>1, <3>4, ShowsTheEnd
      <3> QED
        BY <1>3, <2>3, <2>5, <3>2, <3>5 DEF ShownSoFar
    <2> QED
      BY <1>3, <2>6, <2>7 DEF Subscribe, Replay, TypeOK
  <1>4. CASE w = v /\ (Subscribe(v) \/ Replay(v)) /\ runStarted = None
    <2>1. follows'[v] = None
      BY <1>4 DEF Subscribe, Replay, TypeOK
    <2> QED
      BY <1>4, <2>1 DEF ShownSoFar, Watching
  <1>5. CASE w = v /\ Receive(v)
    <2>1. UNCHANGED <<closed, missed, follows>> /\ viewAt[v] = "stream"
      BY <1>5 DEF Receive
    <2>2. got'[v] = Append(got[v], Head(buf[v])) /\ buf'[v] = Tail(buf[v])
      BY <1>5 DEF Receive, TypeOK
    <2>3. got[v] \in Seq(Events) /\ buf[v] \in Seq(Events) /\ buf[v] # <<>>
      BY <1>5 DEF Receive, TypeOK
    <2>4. Shown(v)' = Shown(v)
      BY <2>2, <2>3, TakingShowsTheSame DEF Shown
    <2>5. Expected(follows[v], v)' = Expected(follows[v], v)
      BY <1>1, <2>1 DEF Expected
    <2>6. Watching(v)' => Watching(v)
      BY <2>1 DEF Watching
    <2> QED
      BY <1>0, <1>5, <2>1, <2>4, <2>5, <2>6, NothingNewShown
  <1>6. CASE w = v /\ (StreamEnds(v) \/ Leave(v) \/ Unsubscribe(v))
    <2>1. UNCHANGED <<buf, closed, got, missed, follows>>
      BY <1>6 DEF StreamEnds, Leave, Unsubscribe
    <2>2. viewAt'[v] # "stream" /\ (viewAt'[v] \in {"leaving", "closed"} => viewAt[v] \in {"stream", "leaving"})
      <3>1. CASE StreamEnds(v)
        BY <3>1 DEF StreamEnds, TypeOK
      <3>2. CASE Leave(v)
        BY <3>2 DEF Leave, TypeOK
      <3>3. CASE Unsubscribe(v)
        BY <3>3 DEF Unsubscribe, TypeOK
      <3> QED
        BY <1>6, <3>1, <3>2, <3>3
    <2>3. Shown(v)' = Shown(v) /\ (Watching(v)' => Watching(v))
      BY <2>1, <2>2 DEF Shown, Watching
    <2>4. Expected(follows[v], v)' = Expected(follows[v], v)
      BY <1>1, <2>1 DEF Expected
    <2> QED
      BY <1>0, <1>6, <2>1, <2>2, <2>3, <2>4, NothingNewShown
  <1> QED
    BY <1>2, <1>3, <1>4, <1>5, <1>6 DEF View

LEMMA ShownStep ==
    ASSUME TypeOK, GuardInv, ToldInv, SubscriberInv, StreamInv, LogInv, OpenInv, ShownInv, Next
    PROVE  ShownInv'
  <1> USE DEF vars, state, process, collector, stops, streams
  <1>1. SUFFICES ASSUME NEW w \in Viewers PROVE ShownSoFar(w)'
    BY DEF ShownInv, ShownSoFar
  <1>2. ShownSoFar(w)
    BY DEF ShownInv, ShownSoFar
  <1>3. ASSUME UNCHANGED <<at, told, printed, streams>> PROVE ShownSoFar(w)'
    BY <1>2, <1>3 DEF ShownSoFar, Watching, Shown, Expected
  <1>4. CASE UNCHANGED vars
    BY <1>3, <1>4
  <1>5. ASSUME NEW r \in Runs, Processes(r) PROVE ShownSoFar(w)'
    BY <1>3, <1>5, ProcessFrame
  <1>6. ASSUME NEW s \in Stops, Stop(s) PROVE ShownSoFar(w)'
    BY <1>3, <1>6 DEF Stop, StopLooks, StopFires
  <1> QED
    BY <1>4, <1>5, <1>6, ShownStepRun, ShownStepView DEF Next, Served

-----------------------------------------------------------------------------
(* The theorems *)

LEMMA RunInvStep ==
    ASSUME RunInv, [Next]_<<scene, vars>>
    PROVE  RunInv'
  <1>1. CASE Next
    <2> USE DEF RunInv
    <2>1. TypeOK' /\ GuardInv' /\ ProcessInv' /\ RecordInv' /\ AimInv'
      BY <1>1, TypeStep, GuardStep, ProcessStep, RecordStep, AimStep
    <2>2. ToldInv' /\ SubscriberInv' /\ StreamInv'
      BY <1>1, ToldStep, SubscriberStep, StreamStep
    <2>3. LogInv' /\ OpenInv' /\ ShownInv'
      BY <1>1, LogStep, OpenStep, ShownStep
    <2> QED
      BY <2>1, <2>2, <2>3
  <1>2. CASE UNCHANGED <<scene, vars>>
    <2> USE <1>2 DEF vars, state, process, collector, stops, streams, RunInv
    <2>1. TypeOK'
      BY DEF TypeOK
    <2>2. GuardInv' /\ ProcessInv' /\ RecordInv' /\ AimInv'
      BY DEF GuardInv, ProcessInv, RecordInv, AimInv, Busy, Over
    <2>3. ToldInv' /\ SubscriberInv' /\ StreamInv'
      BY DEF ToldInv, SubscriberInv, StreamInv, Busy, Over
    <2>4. LogInv' /\ OpenInv' /\ ShownInv'
      BY DEF LogInv, OpenInv, ShownInv, Busy, Watching, Shown, Expected
    <2> QED
      BY <2>1, <2>2, <2>3, <2>4
  <1> QED
    BY <1>1, <1>2

\* Every reachable state of a run, its clients and its streams satisfies the
\* inductive invariant: who holds the guard, whose processes live, which record
\* is whose, and what each stream has been told and has shown.
THEOREM RunInvAlways == Spec => []RunInv
  <1>1. Init => RunInv
    BY InitRunInv
  <1>2. RunInv /\ [Next]_<<scene, vars>> => RunInv'
    BY RunInvStep
  <1> QED
    BY <1>1, <1>2, PTL DEF Spec

\* The run state, the history file and the streams hold what their types say:
\* the record finishRun appends names a run, whatever the order of finishes.
THEOREM RunTypeCorrect == Spec => []TypeOK
  <1>1. RunInv => TypeOK
    BY DEF RunInv
  <1> QED
    BY <1>1, RunInvAlways, PTL

\* startRun's guard keeps two runs' processes apart, however often runs are
\* started, stopped, time out or fail to start.
THEOREM RunsDoNotOverlap == Spec => []OneRunAtATime
  <1>1. RunInv => OneRunAtATime
    <2> SUFFICES ASSUME RunInv, NEW q \in Runs, NEW r \in Runs, q # r,
                        child[q] = "alive" \/ (stray[q] /\ q \notin readFailed)
                 PROVE  child[r] # "alive" /\ (stray[r] => r \in readFailed)
      BY DEF OneRunAtATime
    <2>1. \A x \in Runs : child[x] = "alive" \/ (stray[x] /\ x \notin readFailed) => Busy(x)
      BY DEF RunInv, ProcessInv, Busy
    <2>2. Busy(q) /\ ~ Busy(r)
      BY <2>1 DEF RunInv, GuardInv
    <2> QED
      BY <2>1, <2>2
  <1> QED
    BY <1>1, RunInvAlways, PTL

\* appendRunLog and finishRun send to the subscribers they copied without the
\* mutex; none of those channels has been closed by then.
THEOREM SendsMeetOpenChannels == Spec => []SendsToOpenChannels
  <1>1. RunInv => SendsToOpenChannels
    BY DEF RunInv, ToldInv, SendsToOpenChannels
  <1> QED
    BY <1>1, RunInvAlways, PTL

\* A stream of HandleRunEvents shows its run's lines once each and in order, from
\* the snapshot of the log over the events that follow it to the end.
THEOREM StreamsAreFaithful == Spec => []StreamIsFaithful
  <1>1. RunInv => StreamIsFaithful
    BY DEF RunInv, ShownInv, Shows, Shown, Watching, StreamIsFaithful
  <1> QED
    BY <1>1, RunInvAlways, PTL

\* finishRun closes every stream that is open when its run ends, also one whose
\* channel could not take the done event.
THEOREM StreamsAreClosed == Spec => []NoStreamLeftOpen
  <1>1. RunInv => NoStreamLeftOpen
    <2> SUFFICES ASSUME RunInv, NEW v \in Viewers, viewAt[v] = "stream", closed[v] = 0, v \notin subscribers
                 PROVE  \E r \in Runs : at[r] \in Steps \ {"ended"} /\ v \in told[r]
      BY DEF NoStreamLeftOpen
    <2>1. v \in told[follows[v]] /\ follows[v] \in Runs
      BY DEF RunInv, OpenInv, StreamInv, TypeOK
    <2>2. at[follows[v]] \in Steps \ {"ended"}
      BY <2>1 DEF RunInv, ToldInv, Steps
    <2> QED
      BY <2>1, <2>2
  <1> QED
    BY <1>1, RunInvAlways, PTL

\* HandleStopRun calls the cancel function it copied after the mutex is free: it
\* never cancels a run that was claimed later.
THEOREM StopsHitTheRunTheySaw == Spec => StopsTheRunItSaw
  <1>1. ASSUME RunInv, [Next]_<<scene, vars>>
        PROVE  [\A s \in Stops, r \in Runs :
                  stopAt[s] = "aimed" /\ stopAt'[s] = "fired" /\ ctx'[r] /\ ~ ctx[r] => r \in past[s]]_vars
    <2> SUFFICES ASSUME Next, NEW s \in Stops, NEW r \in Runs,
                        stopAt[s] = "aimed", stopAt'[s] = "fired", ctx'[r], ~ ctx[r]
                 PROVE  r \in past[s]
      BY <1>1 DEF vars
    <2>1. PICK t \in Stops : Stop(t)
      BY StopsFrame DEF Next, stops
    <2>2. StopFires(t) /\ t = s
      BY <2>1, <1>1 DEF Stop, StopLooks, StopFires, RunInv, TypeOK
    <2>3. r = aim[s]
      BY <2>2, <1>1 DEF StopFires, RunInv, TypeOK
    <2> QED
      BY <2>3, <1>1 DEF RunInv, AimInv
  <1> QED
    BY <1>1, RunInvAlways, PTL DEF Spec, StopsTheRunItSaw
=============================================================================
