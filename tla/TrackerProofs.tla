---------------------------- MODULE TrackerProofs ----------------------------
(***************************************************************************)
(* Safety of the collector by itself, and of the whole program, crashes    *)
(* and restarts included, for every clock bound, context set, channel      *)
(* capacity and threshold, with and without delays and failures.  The      *)
(* collector's invariant IInv survives the end and the start of a process  *)
(* and every handler; around it stands an invariant of the table and one   *)
(* of the page.                                                            *)
(***************************************************************************)
EXTENDS Tracker, SequenceTheorems, TLAPS

-----------------------------------------------------------------------------
(* The collector by itself                                                 *)

\* Where Run is decides which of its locals are set.
Control ==
    /\ pc \in {"readIdle", "openDb", "publish"} => lastPoll # NULL
    /\ job.next \in {"readIdle", "openDb"} => lastPoll # NULL
    /\ pc \in {"trim", "closeDb"} => job.end # NULL
    /\ pc \in {"closeDb", "openDb", "publish"} => active.id = 0
    /\ pc # "closeDb" => job.id = 0
    /\ pc # "publish" => opened = 0

\* Nothing the collector noted down lies in the future.
PastOnly ==
    /\ lastPoll <= now /\ sessionStart <= now
    /\ \A i \in 1 .. Len(queue) : queue[i].ts <= now
    /\ job.end <= now
    /\ \A r \in sessions : r.start <= now /\ r.end <= now

\* The session Run holds is the newest row, is still open, and ids are unique.
Held ==
    /\ {active.id, job.id, opened} \subseteq {0, seq}
    /\ \A r \in sessions : r.id \in {active.id, job.id, opened} => r.ckpt
    /\ \A r, s \in sessions : r.id = s.id => r = s

IInv == TypeOK /\ Control /\ PastOnly /\ Held /\ RowsDisjoint
-----------------------------------------------------------------------------
\* What CloseSession leaves: the rows of other ids untouched, and of the row
\* it closes the id, the start and the times it was given (sqlite.go:122-134).
LEMMA CloseSessionRows ==
    ASSUME NEW n \in Nat, NEW rows \in SUBSET Rows(1 .. n),
           NEW id \in Nat, NEW end \in Nat, NEW dur \in Nat
    PROVE  LET left == CloseSession(rows, id, end, dur)
           IN  /\ left \subseteq Rows(1 .. n)
               /\ \A r \in rows : r.id # id => r \in left
               /\ \A s \in left : s.id # id => s \in rows
               /\ \A s \in left : s.id = id =>
                    /\ \E r \in rows : r.id = id /\ r.start = s.start
                    /\ s.end = end /\ ~s.ckpt
               /\ (\A r, q \in rows : r.id = q.id => r = q) =>
                    \A r, q \in left : r.id = q.id => r = q
<1> DEFINE left == CloseSession(rows, id, end, dur)
<1>1. CASE dur < MinSession
  BY <1>1 DEF CloseSession
<1>2. CASE ~(dur < MinSession)
  <2> DEFINE closed(r) == [r EXCEPT !.end = end, !.dur = dur, !.ckpt = FALSE]
  <2>1. left = {IF r.id = id THEN closed(r) ELSE r : r \in rows}
    BY <1>2 DEF CloseSession
  <2>2. \A r \in rows : r.id = id =>
            /\ closed(r) \in Rows(1 .. n)
            /\ closed(r).id = id /\ closed(r).start = r.start
            /\ closed(r).end = end /\ ~closed(r).ckpt
    BY DEF Rows
  <2> HIDE DEF closed
  <2> QED BY <2>1, <2>2
<1> QED BY <1>1, <1>2

\* The row OpenSession adds is a row in progress with the id and the start it
\* was given (sqlite.go:97-108).
LEMMA NewRowFields ==
    ASSUME NEW n \in Nat \ {0}, NEW ctx \in Context, NEW t \in Nat
    PROVE  /\ NewRow(n, ctx, t) \in Rows(1 .. n)
           /\ NewRow(n, ctx, t).id = n /\ NewRow(n, ctx, t).start = t
           /\ NewRow(n, ctx, t).end = NULL /\ NewRow(n, ctx, t).ckpt
<1>1. DateLocal(t) \in Int
  BY StoreAssumption DEF DateLocal
<1> QED BY <1>1 DEF NewRow, Rows, Context

\* closeActive either finds no session and goes on, or takes it out of the
\* fields and hands it to the store (collector.go:86-102).
LEMMA CloseActiveFacts ==
    ASSUME active.id \in Nat, sessionStart \in Nat,
           NEW end \in Int, NEW next, CloseActive(end, next)
    PROVE  /\ active' = NoSession
           /\ \/ active.id = 0 /\ pc' = next /\ job' = NoJob
              \/ /\ active.id # 0 /\ pc' = "closeDb"
                 /\ job'.id = active.id /\ job'.end = end /\ job'.next = next
                 /\ job' \in [id : Nat, end : {end}, dur : Nat, next : {next}]
<1>1. Later(0, end - sessionStart) \in Nat
  BY DEF Later
<1> QED BY <1>1 DEF CloseActive

\* A reading of the detector is never negative (idle_linux.go:17-27).
LEMMA IdleIsNat ==
    ASSUME TypeOK, NEW idle \in IdleReadings
    PROVE  idle \in Nat
BY CollectorAssumption DEF TypeOK, IdleReadings

\* The adjusted end is a time, and not after the reference (collector.go:108-121).
LEMMA AdjustedEnd ==
    ASSUME TypeOK, PastOnly, NEW idle \in Nat, NEW ref \in Nat, ref <= now
    PROVE  /\ IdleAdjustedEnd(ref, idle) \in Nat
           /\ IdleAdjustedEnd(ref, idle) <= now
BY DEF TypeOK, PastOnly, IdleAdjustedEnd, Later
-----------------------------------------------------------------------------

\* Taking and adding an event keep the channel a sequence of events no younger
\* than the clock (collector.go:141-153, window.go:58-67).
LEMMA QueueHead ==
    ASSUME TypeOK, PastOnly, queue # <<>>
    PROVE  /\ Head(queue) \in Event /\ Head(queue).ts <= now
           /\ Tail(queue) \in Seq(Event)
           /\ \A i \in 1 .. Len(Tail(queue)) : Tail(queue)[i].ts <= now
<1>1. queue \in Seq(Event) /\ Len(queue) \in Nat /\ Len(queue) >= 1
  BY EmptySeq, LenProperties DEF TypeOK
<1>2. /\ Tail(queue) \in Seq(Event) /\ Len(Tail(queue)) = Len(queue) - 1
      /\ \A i \in 1 .. Len(Tail(queue)) : Tail(queue)[i] = queue[i + 1]
      /\ Head(queue) \in Event
  BY <1>1, HeadTailProperties
<1>3. Head(queue) = queue[1]
  BY <1>1
<1> QED BY <1>1, <1>2, <1>3 DEF PastOnly

LEMMA QueueAppend ==
    ASSUME TypeOK, PastOnly, NEW e \in Event, e.ts <= now
    PROVE  /\ Append(queue, e) \in Seq(Event)
           /\ \A i \in 1 .. Len(Append(queue, e)) : Append(queue, e)[i].ts <= now
<1>1. queue \in Seq(Event) /\ Len(queue) \in Nat
  BY LenProperties DEF TypeOK
<1>2. /\ Append(queue, e) \in Seq(Event)
      /\ Len(Append(queue, e)) = Len(queue) + 1
      /\ \A i \in 1 .. Len(queue) : Append(queue, e)[i] = queue[i]
      /\ Append(queue, e)[Len(queue) + 1] = e
  BY <1>1, AppendProperties
<1> QED BY <1>1, <1>2 DEF PastOnly
-----------------------------------------------------------------------------
LEMMA InitInv == CollectorInit => IInv
<1> SUFFICES ASSUME CollectorInit PROVE IInv
  OBVIOUS
<1> USE DEF CollectorInit, WorldInit, ProcessInit, NoContext, NoSession, NoJob,
            NULL
<1>1. TypeOK
  <2>1. queue \in Seq(Event)
    BY EmptySeq
  <2>2. ended \in BOOLEAN /\ checkpointC \in BOOLEAN /\ cancelled \in BOOLEAN
    OBVIOUS
  <2>3. evt \in Context /\ active \in [id : Nat, type : Names, label : Names]
    BY StoreAssumption DEF Context
  <2>4. job \in [id : Nat, end : Nat \cup {NULL}, dur : Nat,
                next : {"select", "readIdle", "openDb", "returned"}]
    OBVIOUS
  <2> QED BY <2>1, <2>2, <2>3, <2>4 DEF TypeOK
<1>2. Control
  BY DEF Control
<1>3. PastOnly
  <2>1. \A i \in 1 .. Len(queue) : queue[i].ts <= now
    BY EmptySeq
  <2>2. lastPoll <= now /\ sessionStart <= now /\ job.end <= now
    OBVIOUS
  <2> QED BY <2>1, <2>2 DEF PastOnly
<1>4. Held /\ RowsDisjoint
  BY DEF Held, RowsDisjoint
<1> QED BY <1>1, <1>2, <1>3, <1>4 DEF IInv

LEMMA EnvStep ==
    ASSUME IInv, Time \/ UserInput \/ Poll \/ MonitorEnds \/ Cancel
    PROVE  IInv'
<1> USE DEF IInv
<1>1. CASE Tick
  <2>1. checkpointC' \in BOOLEAN
    BY <1>1, Zenon DEF Tick
  <2>2. now' = now + 1 /\ now \in Nat
    BY <1>1 DEF Tick, TypeOK
  <2>3. TypeOK'
    BY <1>1, <2>1, <2>2 DEF Tick, TypeOK, runVars, liveVars, dbVars
  <2>4. PastOnly'
    <3>1. \A i \in 1 .. Len(queue) : queue[i].ts \in Nat
      <4> SUFFICES ASSUME NEW i \in 1 .. Len(queue)
                   PROVE  queue[i].ts \in Nat
        OBVIOUS
      <4>1. queue[i] \in Event
        BY ElementOfSeq DEF TypeOK
      <4> QED BY <4>1 DEF Event
    <3>2. job.end \in Int /\ lastPoll \in Int /\ sessionStart \in Int
      BY DEF TypeOK, NULL
    <3>3. \A r \in sessions : r.start \in Int /\ r.end \in Int
      BY DEF TypeOK, Rows, NULL
    <3> QED BY <1>1, <2>2, <3>1, <3>2, <3>3 DEF Tick, PastOnly,
            runVars, liveVars, dbVars
  <2> QED BY <1>1, <2>3, <2>4 DEF Tick, Control, Held, RowsDisjoint, runVars,
          liveVars, dbVars
<1>2. CASE TickAtBound
  BY <1>2 DEF TickAtBound, TypeOK, Control, PastOnly, Held, RowsDisjoint,
              runVars, liveVars, dbVars
<1>3. CASE UserInput
  BY <1>3 DEF UserInput, TypeOK, Control, PastOnly, Held, RowsDisjoint,
              runVars, liveVars, dbVars
<1>4. CASE Poll
  <2>1. PICK ctx \in Contexts, ts \in lastTick + 1 .. now :
            lastTick' = ts /\ queue' = Append(queue, [ts |-> ts, ctx |-> ctx])
    BY <1>4 DEF Poll, Stream!Send
  <2>2. ts \in Nat /\ ts <= now /\ [ts |-> ts, ctx |-> ctx] \in Event
    BY <2>1, CollectorAssumption DEF TypeOK, Event
  <2>3. /\ queue' \in Seq(Event)
        /\ \A i \in 1 .. Len(queue') : queue'[i].ts <= now
    BY <2>1, <2>2, QueueAppend
  <2>4. TypeOK'
    BY <1>4, <2>1, <2>2, <2>3
       DEF Poll, Stream!Send, TypeOK, Event, runVars, liveVars, dbVars
  <2>5. PastOnly'
    BY <1>4, <2>3 DEF Poll, Stream!Send, PastOnly, runVars, liveVars, dbVars
  <2> QED BY <1>4, <2>4, <2>5
          DEF Poll, Stream!Send, Control, Held, RowsDisjoint, runVars, liveVars, dbVars
<1>5. CASE MonitorEnds
  BY <1>5 DEF MonitorEnds, Stream!Close, TypeOK, Control, PastOnly, Held, RowsDisjoint,
              runVars, liveVars, dbVars
<1>6. CASE Cancel
  BY <1>6 DEF Cancel, TypeOK, Control, PastOnly, Held, RowsDisjoint,
              runVars, liveVars, dbVars
<1> QED BY <1>1, <1>2, <1>3, <1>4, <1>5, <1>6 DEF Time

\* Wherever Run calls closeActive with an end that has passed, the invariant
\* survives: the session moves from the fields to the store call.
LEMMA CloseTakesOver ==
    ASSUME IInv, pc \in {"select", "readIdle", "trim"},
           NEW end \in Nat, end <= now,
           NEW next \in {"select", "readIdle", "openDb", "returned"},
           CloseActive(end, next),
           UNCHANGED <<now, lastInput, lastTick, ended, checkpointC, cancelled,
                       opened, sessionStart, sessions, seq, orphans>>,
           queue' \in Seq(Event),
           \A i \in 1 .. Len(queue') : queue'[i].ts <= now,
           evt' \in Context,
           lastPoll' \in Nat \cup {NULL}, lastPoll' <= now,
           next \in {"readIdle", "openDb"} => lastPoll' # NULL
    PROVE  IInv'
<1> USE DEF IInv
<1>1. /\ active' = NoSession
      /\ \/ active.id = 0 /\ pc' = next /\ job' = NoJob
         \/ /\ active.id # 0 /\ pc' = "closeDb"
            /\ job'.id = active.id /\ job'.end = end /\ job'.next = next
            /\ job' \in [id : Nat, end : {end}, dur : Nat, next : {next}]
  BY CloseActiveFacts DEF TypeOK
<1>2. NoSession.id = 0 /\ NoSession \in [id : Nat, type : Names, label : Names]
  BY StoreAssumption DEF NoSession
<1>3. /\ NoJob.id = 0 /\ NoJob.end = NULL /\ NoJob.next = "select"
      /\ NoJob \in [id : Nat, end : Nat \cup {NULL}, dur : Nat,
                    next : {"select", "readIdle", "openDb", "returned"}]
  BY DEF NoJob
<1>4. TypeOK'
  BY <1>1, <1>2, <1>3 DEF TypeOK
<1>5. Control'
  BY <1>1, <1>2, <1>3 DEF Control, NULL
<1>6. PastOnly'
  BY <1>1, <1>3 DEF TypeOK, PastOnly, NULL
<1>7. Held'
  BY <1>1, <1>2, <1>3 DEF Control, Held
<1>8. RowsDisjoint'
  BY DEF RowsDisjoint
<1> QED BY <1>4, <1>5, <1>6, <1>7, <1>8

\* Wherever Run is about to trim from a time that has passed.
LEMMA AwaitTrim ==
    ASSUME IInv, pc \in {"select", "readIdle"},
           NEW ref \in Nat, ref <= now,
           NEW next \in {"select", "returned"},
           TrimThenClose(ref, next), checkpointC' \in BOOLEAN,
           UNCHANGED <<now, lastInput, lastTick, queue, ended, cancelled, evt,
                       lastPoll, opened, active, sessionStart, sessions, seq, orphans>>
    PROVE  IInv'
<1> USE DEF IInv
<1>1. /\ pc' = "trim"
      /\ job'.id = 0 /\ job'.end = ref /\ job'.next = next
      /\ job' \in [id : Nat, end : {ref}, dur : Nat, next : {next}]
  BY DEF TrimThenClose, NoJob
<1>2. job.id = 0
  BY DEF Control
<1>3. TypeOK'
  BY <1>1 DEF TypeOK
<1>4. Control'
  BY <1>1 DEF Control, NULL
<1>5. PastOnly'
  BY <1>1 DEF PastOnly
<1>6. Held'
  BY <1>1, <1>2 DEF Held
<1>7. RowsDisjoint'
  BY DEF RowsDisjoint
<1> QED BY <1>3, <1>4, <1>5, <1>6, <1>7

\* The credit of a session interrupted by a sleep ends before the event that
\* woke the program (collector.go:147-152).
LEMMA CreditBeforeWake ==
    ASSUME NEW last \in Nat, NEW ts \in Nat, ts - last > SleepGap
    PROVE  last + SleepCredit \in Nat /\ last + SleepCredit <= ts
BY CollectorAssumption

\* The receive of an event, up to the read of the detector.
LEMMA ReceiveStep ==
    ASSUME IInv, OnEvent \/ OnEventAfterSleep
    PROVE  IInv'
<1> USE DEF IInv
<1>1. /\ pc = "select" /\ queue # <<>>
      /\ evt' = Head(queue).ctx /\ lastPoll' = Head(queue).ts
      /\ queue' = Tail(queue)
      /\ UNCHANGED <<now, lastInput, lastTick, ended, checkpointC, cancelled,
                     opened, sessionStart, sessions, seq, orphans>>
  BY DEF OnEvent, OnEventAfterSleep, Receive, Stream!Take, dbVars
<1>2. /\ evt' \in Context /\ lastPoll' \in Nat /\ lastPoll' <= now
      /\ queue' \in Seq(Event)
      /\ \A i \in 1 .. Len(queue') : queue'[i].ts <= now
  BY <1>1, QueueHead DEF Event
<1>3. CASE OnEvent
  <2>1. pc' = "readIdle" /\ UNCHANGED <<active, job>>
    BY <1>3 DEF OnEvent
  <2>2. TypeOK'
    BY <1>1, <1>2, <2>1 DEF TypeOK
  <2>3. Control' /\ PastOnly' /\ Held' /\ RowsDisjoint'
    BY <1>1, <1>2, <2>1 DEF TypeOK, Control, PastOnly, Held, RowsDisjoint, NULL
  <2> QED BY <2>2, <2>3
<1>4. CASE OnEventAfterSleep
  <2> DEFINE end == lastPoll + SleepCredit
  <2>1. lastPoll \in Nat /\ end \in Nat /\ end <= lastPoll'
    <3>1. lastPoll \in Nat \cup {NULL}
      BY DEF TypeOK
    <3>2. /\ lastPoll \in Nat /\ Head(queue).ts \in Nat
          /\ Head(queue).ts - lastPoll > SleepGap
      BY <1>1, <1>2, <1>4, <3>1 DEF OnEventAfterSleep, AfterSleep
    <3>3. end \in Nat /\ end <= Head(queue).ts
      BY <3>2, CreditBeforeWake
    <3> QED BY <1>1, <3>2, <3>3
  <2>2. CloseActive(end, "readIdle")
    BY <1>4 DEF OnEventAfterSleep
  <2>3. end <= now /\ lastPoll' # NULL /\ now \in Nat
    BY <1>2, <2>1 DEF TypeOK, NULL
  <2> HIDE DEF end
  <2> QED BY <1>1, <1>2, <2>1, <2>2, <2>3, CloseTakesOver
<1> QED BY <1>3, <1>4

\* The read of the detector and the decision that follows.
LEMMA DecideStep ==
    ASSUME IInv, IdleOnEvent \/ StillIdle \/ SameContext \/ SwitchContext
    PROVE  IInv'
<1> USE DEF IInv
<1>1. CASE IdleOnEvent
  <2>1. lastPoll \in Nat /\ lastPoll <= now
    BY <1>1 DEF IdleOnEvent, TypeOK, Control, PastOnly
  <2>2. TrimThenClose(lastPoll, "select") /\ pc = "readIdle"
    BY <1>1 DEF IdleOnEvent
  <2>3. UNCHANGED <<envVars, evt, lastPoll, opened, liveVars, dbVars>>
    BY <1>1 DEF IdleOnEvent
  <2>4. checkpointC' \in BOOLEAN
    BY <2>3 DEF envVars, TypeOK
  <2> QED BY <2>1, <2>2, <2>3, <2>4, AwaitTrim DEF envVars, liveVars, dbVars
<1>2. CASE StillIdle
  BY <1>2 DEF StillIdle, TypeOK, Control, PastOnly, Held, RowsDisjoint, envVars,
              liveVars, dbVars
<1>3. CASE SameContext
  BY <1>3 DEF SameContext, TypeOK, Control, PastOnly, Held, RowsDisjoint,
              envVars, liveVars, dbVars
<1>4. CASE SwitchContext
  <2>1. lastPoll \in Nat /\ lastPoll <= now /\ lastPoll # NULL
    BY <1>4 DEF SwitchContext, TypeOK, Control, PastOnly
  <2>2. CloseActive(lastPoll, "openDb") /\ pc = "readIdle"
    BY <1>4 DEF SwitchContext
  <2>3. UNCHANGED <<envVars, evt, lastPoll, opened, sessionStart, dbVars>>
    BY <1>4 DEF SwitchContext
  <2>4. /\ queue' \in Seq(Event) /\ evt' \in Context
        /\ \A i \in 1 .. Len(queue') : queue'[i].ts <= now
    BY <2>3 DEF envVars, TypeOK, PastOnly
  <2> QED BY <2>1, <2>2, <2>3, <2>4, CloseTakesOver DEF envVars, dbVars
<1> QED BY <1>1, <1>2, <1>3, <1>4

\* The other cases of the select, and the trim they lead to.
LEMMA SelectStep ==
    ASSUME IInv, Checkpoint \/ OnDone \/ OnMonitorClosed \/ Trim
    PROVE  IInv'
<1> USE DEF IInv
<1>0. now \in Nat /\ now <= now
  BY DEF TypeOK
<1>1. CASE OnCheckpointIdle
  BY <1>0, <1>1, AwaitTrim DEF OnCheckpointIdle, liveVars, dbVars
<1>2. CASE OnCheckpoint
  BY <1>2 DEF OnCheckpoint, TypeOK, Control, PastOnly, Held, RowsDisjoint,
              runVars, liveVars, dbVars
<1>3. CASE OnDone
  BY <1>0, <1>3, AwaitTrim DEF OnDone, envVars, liveVars, dbVars, TypeOK
<1>4. CASE OnMonitorClosed
  BY <1>0, <1>4, AwaitTrim
     DEF OnMonitorClosed, envVars, liveVars, dbVars, TypeOK
<1>5. CASE Trim
  <2>1. PICK idle \in IdleReadings :
            CloseActive(IdleAdjustedEnd(job.end, idle), job.next)
    BY <1>5 DEF Trim
  <2>2. job.end \in Nat /\ job.end <= now /\ idle \in Nat
    BY <1>5, IdleIsNat DEF Trim, TypeOK, Control, PastOnly
  <2>3. /\ IdleAdjustedEnd(job.end, idle) \in Nat
        /\ IdleAdjustedEnd(job.end, idle) <= now
    BY <2>2, AdjustedEnd
  <2>4. UNCHANGED <<envVars, evt, lastPoll, opened, sessionStart, dbVars>>
    BY <1>5 DEF Trim
  <2>5. /\ queue' \in Seq(Event) /\ evt' \in Context
        /\ \A i \in 1 .. Len(queue') : queue'[i].ts <= now
        /\ lastPoll' \in Nat \cup {NULL} /\ lastPoll' <= now
    BY <2>4 DEF envVars, TypeOK, PastOnly
  <2>6. /\ job.next \in {"select", "readIdle", "openDb", "returned"}
        /\ job.next \in {"readIdle", "openDb"} => lastPoll' # NULL
        /\ pc = "trim"
    BY <1>5, <2>4 DEF Trim, TypeOK, Control
  <2> QED BY <2>1, <2>3, <2>4, <2>5, <2>6, CloseTakesOver DEF envVars, dbVars
<1> QED BY <1>1, <1>2, <1>3, <1>4, <1>5 DEF Checkpoint

\* The store calls, and the publication of the session opened.
LEMMA StoreStep ==
    ASSUME IInv, Store
    PROVE  IInv'
<1> USE DEF IInv
<1>0. sessions \in SUBSET Rows(1 .. seq) /\ seq \in Nat /\ now \in Nat
  BY DEF TypeOK
<1>1. CASE CloseDb
  <2> DEFINE left == CloseSession(sessions, job.id, job.end, job.dur)
  <2>1. /\ pc = "closeDb" /\ sessions' = left /\ pc' = job.next /\ job' = NoJob
        /\ UNCHANGED <<envVars, evt, lastPoll, opened, liveVars, seq, orphans>>
    BY <1>1 DEF CloseDb
  <2>2. /\ job.id \in Nat /\ job.end \in Nat /\ job.dur \in Nat
        /\ job.end <= now /\ job.id \in {0, seq}
        /\ active.id = 0 /\ opened = 0
    BY <2>1 DEF TypeOK, Control, PastOnly, Held
  <2>3. /\ left \subseteq Rows(1 .. seq)
        /\ \A s \in left : s.id # job.id => s \in sessions
        /\ \A s \in left : s.id = job.id =>
             /\ \E r \in sessions : r.id = job.id /\ r.start = s.start
             /\ s.end = job.end /\ ~s.ckpt
        /\ \A r, q \in left : r.id = q.id => r = q
    BY <1>0, <2>2, CloseSessionRows DEF Held
  <2> HIDE DEF left
  <2>4. NoJob.id = 0 /\ NoJob.end = NULL /\ NoJob.next = "select"
        /\ NoJob \in [id : Nat, end : Nat \cup {NULL}, dur : Nat,
                      next : {"select", "readIdle", "openDb", "returned"}]
    BY DEF NoJob
  <2>5. TypeOK'
    BY <2>1, <2>3, <2>4 DEF TypeOK, envVars, liveVars
  <2>6. Control'
    BY <2>1, <2>2, <2>4 DEF TypeOK, Control, envVars, liveVars
  <2>7. PastOnly'
    BY <1>0, <2>1, <2>2, <2>3, <2>4 DEF PastOnly, NULL, envVars, liveVars
  <2>8. Held'
    <3>1. active'.id = 0 /\ job'.id = 0 /\ opened' = 0
      BY <2>1, <2>2, <2>4 DEF liveVars
    <3>2. \A r \in left : r.id # 0
      BY <2>3 DEF Rows
    <3> QED BY <2>1, <2>3, <3>1, <3>2 DEF Held
  <2>9. RowsDisjoint'
    <3> SUFFICES ASSUME NEW r \in left, NEW s \in left, r.id < s.id, ~r.ckpt
                 PROVE  r.end <= s.start
      BY <2>1 DEF RowsDisjoint
    <3>1. r.id \in 1 .. seq /\ s.id \in 1 .. seq
      BY <2>3 DEF Rows
    <3>2. r.id # job.id
      BY <2>2, <3>1, <1>0
    <3>3. r \in sessions
      BY <2>3, <3>2
    <3>4. PICK q \in sessions : q.id = s.id /\ q.start = s.start
      BY <2>3
    <3> QED BY <3>3, <3>4 DEF RowsDisjoint
  <2> QED BY <2>5, <2>6, <2>7, <2>8, <2>9
<1>2. CASE CloseDbFails
  <2>1. /\ pc = "closeDb" /\ pc' = job.next /\ job' = NoJob
        /\ orphans' = orphans \cup {job.id}
        /\ UNCHANGED <<envVars, evt, lastPoll, opened, liveVars, sessions, seq>>
    BY <1>2 DEF CloseDbFails
  <2>2. NoJob.id = 0 /\ NoJob.end = NULL /\ NoJob.next = "select"
        /\ NoJob \in [id : Nat, end : Nat \cup {NULL}, dur : Nat,
                      next : {"select", "readIdle", "openDb", "returned"}]
    BY DEF NoJob
  <2>3. TypeOK'
    <3>1. orphans' \subseteq Nat
      BY <1>0, <2>1 DEF TypeOK, Held
    <3> QED BY <2>1, <2>2, <3>1 DEF TypeOK, envVars, liveVars
  <2>4. Control'
    BY <2>1, <2>2 DEF TypeOK, Control, envVars, liveVars
  <2>5. PastOnly'
    BY <1>0, <2>1, <2>2 DEF PastOnly, NULL, envVars, liveVars
  <2>6. Held'
    <3>1. active'.id = active.id /\ job'.id = 0 /\ opened' = opened
      BY <2>1, <2>2 DEF liveVars
    <3>2. \A r \in sessions : r.id # 0
      BY <1>0 DEF Rows
    <3> QED BY <2>1, <3>1, <3>2 DEF Held
  <2>7. RowsDisjoint'
    BY <2>1 DEF RowsDisjoint
  <2> QED BY <2>3, <2>4, <2>5, <2>6, <2>7
<1>3. CASE OpenDb
  <2> DEFINE row == NewRow(seq + 1, evt, now)
             after == sessions \cup {row}
  <2>1. /\ pc = "openDb" /\ pc' = "publish"
        /\ opened' = seq + 1 /\ seq' = seq + 1 /\ sessions' = after
        /\ UNCHANGED <<envVars, evt, lastPoll, job, liveVars, orphans>>
    BY <1>3 DEF OpenDb, NextId, OpenSession
  <2>2. active.id = 0 /\ job.id = 0 /\ lastPoll # NULL
    BY <2>1 DEF Control
  <2>4. /\ row \in Rows(1 .. seq + 1)
        /\ row.id = seq + 1 /\ row.start = now /\ row.end = NULL /\ row.ckpt
    BY <1>0, NewRowFields DEF TypeOK
  <2> HIDE DEF row
  <2>3. after \subseteq Rows(1 .. seq + 1)
    BY <1>0, <2>4 DEF Rows
  <2>5. TypeOK'
    BY <1>0, <2>1, <2>3 DEF TypeOK, envVars, liveVars
  <2>6. Control'
    BY <2>1, <2>2 DEF Control, envVars, liveVars
  <2>7. PastOnly'
    BY <1>0, <2>1, <2>4 DEF PastOnly, NULL, envVars, liveVars
  <2>8. \A r \in sessions : r.id \in 1 .. seq
    BY <1>0 DEF Rows
  <2>9. Held'
    <3>1. active'.id = 0 /\ job'.id = 0 /\ opened' = seq'
      BY <2>1, <2>2 DEF liveVars
    <3>2. \A r \in after : r.id \in {0, seq + 1} => r = row
      BY <1>0, <2>4, <2>8
    <3>3. \A r, s \in after : r.id = s.id => r = s
      BY <1>0, <2>4, <2>8 DEF Held
    <3> QED BY <2>1, <2>4, <3>1, <3>2, <3>3 DEF Held
  <2>10. RowsDisjoint'
    <3> SUFFICES ASSUME NEW r \in after, NEW s \in after, r.id < s.id, ~r.ckpt
                 PROVE  r.end <= s.start
      BY <2>1 DEF RowsDisjoint
    <3>1. r \in sessions
      BY <2>4
    <3> QED BY <2>4, <3>1 DEF RowsDisjoint, PastOnly
  <2> QED BY <2>5, <2>6, <2>7, <2>9, <2>10
<1>4. CASE OpenDbFails
  BY <1>4 DEF OpenDbFails, TypeOK, Control, PastOnly, Held, RowsDisjoint,
              envVars, liveVars, dbVars
<1>5. CASE Publish
  <2>1. /\ pc = "publish" /\ pc' = "select" /\ opened' = 0
        /\ active'.id = opened /\ sessionStart' = lastPoll
        /\ active' \in [id : Nat, type : Names, label : Names]
        /\ UNCHANGED <<envVars, evt, lastPoll, job, dbVars>>
    BY <1>5 DEF Publish, TypeOK, Context
  <2>2. lastPoll \in Nat /\ lastPoll <= now /\ job.id = 0 /\ active.id = 0
    BY <2>1 DEF TypeOK, Control, PastOnly
  <2>3. TypeOK'
    BY <2>1, <2>2 DEF TypeOK, envVars, dbVars
  <2>4. Control' /\ PastOnly'
    BY <2>1, <2>2 DEF Control, PastOnly, envVars, dbVars
  <2>5. Held' /\ RowsDisjoint'
    <3>1. \A r \in sessions : r.id # 0
      BY <1>0 DEF Rows
    <3> QED BY <2>1, <2>2, <3>1 DEF Held, RowsDisjoint, dbVars
  <2> QED BY <2>3, <2>4, <2>5
<1> QED BY <1>1, <1>2, <1>3, <1>4, <1>5 DEF Store
-----------------------------------------------------------------------------
LEMMA StepInv == IInv /\ [CollectorNext]_vars => IInv'
<1> SUFFICES ASSUME IInv, [CollectorNext]_vars PROVE IInv'
  OBVIOUS
<1>1. CASE Time \/ UserInput \/ Poll \/ MonitorEnds \/ Cancel
  BY <1>1, EnvStep
<1>2. CASE Handle
  BY <1>2, ReceiveStep, DecideStep DEF Handle
<1>3. CASE Checkpoint \/ OnDone \/ OnMonitorClosed \/ Trim
  BY <1>3, SelectStep
<1>4. CASE Store
  BY <1>4, StoreStep
<1>5. CASE UNCHANGED vars
  BY <1>5 DEF vars, envVars, runVars, liveVars, dbVars, IInv, TypeOK, Control,
              PastOnly, Held, RowsDisjoint
<1> QED BY <1>1, <1>2, <1>3, <1>4, <1>5 DEF CollectorNext, Run, Terminated

\* The inductive invariant holds in every behaviour of the collector.
THEOREM Invariance == CollectorSpec => []IInv
<1>1. CollectorInit => IInv
  BY InitInv
<1>2. IInv /\ [CollectorNext]_vars => IInv'
  BY StepInv
<1> QED BY <1>1, <1>2, PTL DEF CollectorSpec

\* Type correctness (collector.go:39-51, 73-84).
THEOREM TypeCorrect == CollectorSpec => []TypeOK
<1>1. IInv => TypeOK
  BY DEF IInv
<1> QED BY <1>1, Invariance, PTL

\* Recorded sessions never overlap, whatever waits in the channel and whatever
\* the store loses (collector.go:86-121, 147-152; main.go:143-157).
THEOREM NoOverlap == CollectorSpec => []RowsDisjoint
<1>1. IInv => RowsDisjoint
  BY DEF IInv
<1> QED BY <1>1, Invariance, PTL

\* No step of the collector changes or deletes the row of a closed session:
\* closeActive hands each id over once (collector.go:86-102; sqlite.go:122-134).
THEOREM HistoryNeverChanges == CollectorSpec => HistoryStable
<1>1. IInv /\ [CollectorNext]_vars =>
        [\A r \in sessions : ~r.ckpt => r \in sessions']_vars
  <2> SUFFICES ASSUME IInv, CollectorNext, NEW r \in sessions, ~r.ckpt
               PROVE  r \in sessions'
    OBVIOUS
  <2>1. CASE CloseDb
    <3>1. r.id # job.id
      BY DEF IInv, Held
    <3>2. /\ sessions' = CloseSession(sessions, job.id, job.end, job.dur)
          /\ job.id \in Nat /\ job.end \in Nat /\ job.dur \in Nat
      BY <2>1 DEF CloseDb, IInv, TypeOK, Control
    <3>3. sessions \in SUBSET Rows(1 .. seq) /\ seq \in Nat
      BY DEF IInv, TypeOK
    <3> QED BY <3>1, <3>2, <3>3, CloseSessionRows
  <2>2. CASE OpenDb
    BY <2>2 DEF OpenDb, OpenSession
  <2>3. CASE ~CloseDb /\ ~OpenDb
    BY <2>3 DEF CollectorNext, Time, Tick, TickAtBound, UserInput, Poll, Stream!Send,
       MonitorEnds, Stream!Close, Cancel, Run, Handle, Receive, Stream!Take, OnEvent,
       OnEventAfterSleep, IdleOnEvent, StillIdle, SameContext, SwitchContext,
       Checkpoint, OnCheckpointIdle, OnCheckpoint, OnDone, OnMonitorClosed, Trim, Store,
       CloseDbFails, OpenDbFails, Publish, Terminated, vars, dbVars
  <2> QED BY <2>1, <2>2, <2>3
<1> QED BY <1>1, Invariance, PTL DEF CollectorSpec, HistoryStable
-----------------------------------------------------------------------------
(* No row is left open by itself, unless the store refused its close.      *)

HeldId(id) == id \in {active.id, job.id, opened}
AllHeld == \A r \in sessions : r.ckpt => HeldId(r.id) \/ r.id \in orphans

LEMMA AllHeldStep ==
    ASSUME IInv, AllHeld, [CollectorNext]_vars
    PROVE  AllHeld'
<1>0. \A r \in sessions : r.id # 0
  BY DEF IInv, TypeOK, Rows
<1>1. CASE /\ UNCHANGED <<sessions, orphans>>
           /\ \A id : id # 0 /\ HeldId(id) => HeldId(id)'
  BY <1>0, <1>1 DEF AllHeld
<1>2. CASE CloseDb
  <2>1. /\ sessions' = CloseSession(sessions, job.id, job.end, job.dur)
        /\ active.id = 0 /\ opened = 0
        /\ job.id \in Nat /\ job.end \in Nat /\ job.dur \in Nat
        /\ orphans' = orphans
    BY <1>2 DEF CloseDb, IInv, TypeOK, Control
  <2>2. sessions \in SUBSET Rows(1 .. seq) /\ seq \in Nat
    BY DEF IInv, TypeOK
  <2>3. \A s \in sessions' : IF s.id = job.id THEN ~s.ckpt ELSE s \in sessions
    BY <2>1, <2>2, CloseSessionRows
  <2>4. \A s \in sessions' : s.ckpt => s.id \in orphans
    BY <1>0, <2>1, <2>3 DEF AllHeld, HeldId
  <2> QED BY <2>1, <2>4 DEF AllHeld
<1>3. CASE OpenDb
  <2>1. pc = "openDb" /\ opened' = seq + 1
        /\ sessions' = sessions \cup {NewRow(seq + 1, evt, now)}
        /\ orphans' = orphans
    BY <1>3 DEF OpenDb, NextId, OpenSession
  <2>2. \A r \in sessions : r.ckpt => r.id \in orphans
    BY <1>0, <2>1 DEF AllHeld, HeldId, IInv, Control
  <2>3. NewRow(seq + 1, evt, now).id = seq + 1
    BY DEF NewRow
  <2> QED BY <2>1, <2>2, <2>3 DEF AllHeld, HeldId
<1>4. CASE OnEventAfterSleep \/ SwitchContext \/ Trim
  <2>1. PICK end, next : CloseActive(end, next)
    BY <1>4 DEF OnEventAfterSleep, SwitchContext, Trim
  <2>2. pc \in {"select", "readIdle", "trim"} /\ UNCHANGED <<opened, sessions, orphans>>
    BY <1>4 DEF OnEventAfterSleep, Receive, Stream!Take, SwitchContext, Trim, dbVars
  <2>3. job.id = 0
    BY <2>2 DEF IInv, Control
  <2>4. active.id # 0 => job'.id = active.id
    BY <2>1 DEF CloseActive
  <2>5. \A id : id # 0 /\ HeldId(id) => HeldId(id)'
    BY <2>2, <2>3, <2>4 DEF HeldId
  <2> QED BY <1>1, <2>2, <2>5
<1>5. CASE IdleOnEvent \/ OnCheckpointIdle \/ OnDone \/ OnMonitorClosed
  <2>1. /\ pc \in {"select", "readIdle"}
        /\ UNCHANGED <<active, opened, sessions, orphans>>
    BY <1>5 DEF IdleOnEvent, OnCheckpointIdle, OnDone, OnMonitorClosed,
                liveVars, dbVars
  <2>2. job.id = 0
    BY <2>1 DEF IInv, Control
  <2>3. \A id : id # 0 /\ HeldId(id) => HeldId(id)'
    BY <2>1, <2>2 DEF HeldId
  <2> QED BY <1>1, <2>1, <2>3
<1>6. CASE Publish
  <2>1. active.id = 0 /\ active'.id = opened /\ UNCHANGED <<job, sessions, orphans>>
    BY <1>6 DEF Publish, dbVars, IInv, Control
  <2>2. \A id : id # 0 /\ HeldId(id) => HeldId(id)'
    BY <2>1 DEF HeldId
  <2> QED BY <1>1, <2>1, <2>2
<1>7. CASE UNCHANGED <<active, job, opened, sessions, orphans>>
  <2>1. \A id : id # 0 /\ HeldId(id) => HeldId(id)'
    BY <1>7 DEF HeldId
  <2> QED BY <1>1, <1>7, <2>1
<1>8. CASE CloseDbFails
  <2>1. /\ active.id = 0 /\ opened = 0
        /\ UNCHANGED sessions /\ orphans' = orphans \cup {job.id}
    BY <1>8 DEF CloseDbFails, IInv, Control
  <2> QED BY <1>0, <2>1 DEF AllHeld, HeldId
<1>9. CASE OpenDbFails
  <2>1. opened = 0 /\ opened' = 0 /\ UNCHANGED <<active, job, sessions, orphans>>
    BY <1>9 DEF OpenDbFails, IInv, Control, liveVars, dbVars
  <2> QED BY <1>7, <2>1
<1> QED BY <1>2, <1>3, <1>4, <1>5, <1>6, <1>7, <1>8, <1>9
     DEF CollectorNext, Time, Tick, TickAtBound, UserInput, Poll, Stream!Send,
         MonitorEnds, Stream!Close, Cancel, Run, Handle, Receive, Stream!Take, OnEvent,
         StillIdle, SameContext, Checkpoint, OnCheckpoint, Store, Terminated, vars,
         runVars, liveVars, dbVars

\* Apart from rows whose close the store refused, at most one is open and Run
\* holds it (collector.go:86-102, 175-184).
THEOREM OneOpen == CollectorSpec => []OneOpenSession
<1>1. CollectorInit => AllHeld
  BY DEF CollectorInit, WorldInit, AllHeld
<1>2. IInv /\ IInv' /\ AllHeld /\ [CollectorNext]_vars => AllHeld'
  BY AllHeldStep
<1>3. IInv /\ AllHeld => OneOpenSession
  <2> SUFFICES ASSUME IInv, AllHeld PROVE OneOpenSession
    OBVIOUS
  <2>1. \A r \in Unclosed : HeldId(r.id)
    BY DEF AllHeld, Unclosed, OpenRows
  <2>2. \A r \in Unclosed : r \in sessions /\ r.id # 0
    BY DEF IInv, TypeOK, Rows, Unclosed, OpenRows
  <2>3. \A r, s \in Unclosed : r.id = s.id
    BY <2>1, <2>2 DEF HeldId, IInv, Held
  <2>4. \A r, s \in Unclosed : r = s
    BY <2>2, <2>3 DEF IInv, Held
  <2> QED BY <2>1, <2>4 DEF OneOpenSession, HeldId
<1> QED BY <1>1, <1>2, <1>3, Invariance, PTL DEF CollectorSpec
-----------------------------------------------------------------------------
(* What CurrentSession shows                                               *)

\* The row waits for its publication with the context and the poll that will
\* be published.
OpenedMatchesRow ==
    pc = "publish" /\ opened # 0 =>
        \E r \in OpenRows(sessions) :
            /\ r.id = opened
            /\ r.type = evt.type /\ r.label = evt.label
            /\ lastPoll <= r.start

\* Steps that neither write the table nor publish take the session out of the
\* fields or leave it there.
LEMMA FieldsOnlyCleared ==
    ASSUME [CollectorNext]_vars, ~Publish, ~OpenDb, ~CloseDb
    PROVE  /\ sessions' = sessions
           /\ \/ active' = NoSession
              \/ UNCHANGED <<active, sessionStart>>
<1>1. CASE OnEventAfterSleep \/ SwitchContext \/ Trim
  BY <1>1 DEF OnEventAfterSleep, Receive, Stream!Take, SwitchContext, Trim, CloseActive, dbVars
<1>2. CASE Time \/ UserInput \/ Poll \/ MonitorEnds \/ Cancel \/ UNCHANGED vars
  BY <1>2 DEF Time, Tick, TickAtBound, UserInput, Poll, Stream!Send, MonitorEnds,
     Stream!Close, Cancel, vars, liveVars, dbVars
<1>3. CASE OnEvent \/ IdleOnEvent \/ StillIdle \/ SameContext \/ Checkpoint
             \/ OnDone \/ OnMonitorClosed \/ CloseDbFails \/ OpenDbFails
  BY <1>3 DEF OnEvent, Receive, Stream!Take, IdleOnEvent, StillIdle, SameContext, Checkpoint,
     OnCheckpointIdle, OnCheckpoint, OnDone, OnMonitorClosed, CloseDbFails,
     OpenDbFails, liveVars, dbVars
<1> QED BY <1>1, <1>2, <1>3 DEF CollectorNext, Run, Handle, Store, Terminated

\* Where Run waits to publish, it got there from the insert or stayed.
LEMMA WaitsToPublish ==
    ASSUME [CollectorNext]_vars, ~OpenDb, ~CloseDb, IInv,
           pc' = "publish", opened' # 0
    PROVE  pc = "publish" /\ UNCHANGED <<opened, evt, lastPoll>>
<1>1. CASE OnEventAfterSleep \/ SwitchContext \/ Trim
  BY <1>1 DEF OnEventAfterSleep, SwitchContext, Trim, CloseActive, IInv, TypeOK
<1>2. CASE Time \/ UserInput \/ Poll \/ MonitorEnds \/ Cancel \/ UNCHANGED vars
  BY <1>2 DEF Time, Tick, TickAtBound, UserInput, Poll, Stream!Send, MonitorEnds,
     Stream!Close, Cancel, vars, runVars
<1>3. CASE OnEvent \/ IdleOnEvent \/ StillIdle \/ SameContext
             \/ OnCheckpointIdle \/ OnDone \/ OnMonitorClosed
  BY <1>3 DEF OnEvent, IdleOnEvent, StillIdle, SameContext, OnCheckpointIdle,
     OnDone, OnMonitorClosed, TrimThenClose
<1>4. CASE OnCheckpoint
  BY <1>4 DEF OnCheckpoint, runVars
<1>5. CASE CloseDbFails \/ OpenDbFails \/ Publish
  BY <1>5 DEF CloseDbFails, OpenDbFails, Publish, IInv, TypeOK
<1> QED BY <1>1, <1>2, <1>3, <1>4, <1>5
     DEF CollectorNext, Run, Handle, Checkpoint, Store, Terminated

\* The live view is the row being recorded, wherever a request comes between
\* the statements (collector.go:60-71, 177-183).
THEOREM LiveIsTheRow == CollectorSpec => []LiveMatchesRow
<1>1. CollectorInit => LiveMatchesRow /\ OpenedMatchesRow
  BY DEF CollectorInit, ProcessInit, NoSession, LiveMatchesRow, OpenedMatchesRow
<1>2. IInv /\ LiveMatchesRow /\ OpenedMatchesRow /\ [CollectorNext]_vars
        => LiveMatchesRow' /\ OpenedMatchesRow'
  <2> SUFFICES ASSUME IInv, LiveMatchesRow, OpenedMatchesRow, [CollectorNext]_vars
               PROVE  LiveMatchesRow' /\ OpenedMatchesRow'
    OBVIOUS
  <2>1. CASE OpenDb
    <3> DEFINE row == NewRow(seq + 1, evt, now)
    <3>1. /\ sessions' = sessions \cup {row} /\ opened' = seq + 1
          /\ UNCHANGED <<evt, lastPoll, active>> /\ active.id = 0
      BY <2>1 DEF OpenDb, NextId, OpenSession, liveVars, IInv, Control
    <3>2. /\ row.id = seq + 1 /\ row.type = evt.type /\ row.label = evt.label
          /\ row.ckpt /\ lastPoll <= row.start
      BY DEF NewRow, IInv, PastOnly
    <3> HIDE DEF row
    <3>3. row \in OpenRows(sessions')
      BY <3>1, <3>2 DEF OpenRows
    <3>4. OpenedMatchesRow'
      BY <3>1, <3>2, <3>3 DEF OpenedMatchesRow
    <3> QED BY <3>1, <3>4 DEF LiveMatchesRow
  <2>2. CASE CloseDb
    <3>1. /\ active'.id = 0 /\ opened' = 0
      BY <2>2 DEF CloseDb, liveVars, IInv, Control
    <3> QED BY <3>1 DEF LiveMatchesRow, OpenedMatchesRow
  <2>3. CASE Publish
    <3>1. /\ pc = "publish" /\ opened' = 0 /\ sessions' = sessions
          /\ active'.id = opened /\ active'.type = evt.type
          /\ active'.label = evt.label /\ sessionStart' = lastPoll
      BY <2>3 DEF Publish, dbVars
    <3> QED BY <3>1 DEF LiveMatchesRow, OpenedMatchesRow, OpenRows
  <2>4. CASE ~OpenDb /\ ~CloseDb /\ ~Publish
    <3>1. LiveMatchesRow'
      BY <2>4, FieldsOnlyCleared DEF LiveMatchesRow, NoSession, OpenRows
    <3>2. OpenedMatchesRow'
      BY <2>4, FieldsOnlyCleared, WaitsToPublish DEF OpenedMatchesRow, OpenRows
    <3> QED BY <3>1, <3>2
  <2> QED BY <2>1, <2>2, <2>3, <2>4
<1> QED BY <1>1, <1>2, Invariance, PTL DEF CollectorSpec

\* Between two events the live session bears the label of the last one
\* (collector.go:155-184).
THEOREM LabelIsFresh == CollectorSpec => []LiveLabelFresh
<1>1. CollectorInit => LiveLabelFresh
  BY DEF CollectorInit, ProcessInit, NoSession, LiveLabelFresh
<1>2. IInv /\ LiveLabelFresh /\ [CollectorNext]_vars => LiveLabelFresh'
  <2> SUFFICES ASSUME IInv, LiveLabelFresh, [CollectorNext]_vars,
                      pc' = "select", active'.id # 0
               PROVE  active'.label = evt'.label
    BY DEF LiveLabelFresh
  <2>1. CASE OnEventAfterSleep \/ SwitchContext \/ Trim
    BY <2>1 DEF OnEventAfterSleep, SwitchContext, Trim, CloseActive, NoSession
  <2>2. CASE Time \/ UserInput \/ Poll \/ MonitorEnds \/ Cancel \/ UNCHANGED vars
    BY <2>2 DEF Time, Tick, TickAtBound, UserInput, Poll, Stream!Send, MonitorEnds,
       Stream!Close, Cancel, vars, runVars, liveVars, LiveLabelFresh
  <2>3. CASE OnEvent \/ IdleOnEvent \/ OnCheckpointIdle \/ OnDone \/ OnMonitorClosed
    BY <2>3 DEF OnEvent, IdleOnEvent, OnCheckpointIdle, OnDone, OnMonitorClosed,
       TrimThenClose
  <2>4. CASE StillIdle \/ SameContext \/ OnCheckpoint
    BY <2>4 DEF StillIdle, SameContext, OnCheckpoint, liveVars, runVars, LiveLabelFresh
  <2>5. CASE CloseDb \/ CloseDbFails \/ OpenDb \/ OpenDbFails
    BY <2>5 DEF CloseDb, CloseDbFails, OpenDb, OpenDbFails, liveVars, IInv, Control
  <2>6. CASE Publish
    BY <2>6 DEF Publish
  <2> QED BY <2>1, <2>2, <2>3, <2>4, <2>5, <2>6
       DEF CollectorNext, Run, Handle, Checkpoint, Store, Terminated
<1> QED BY <1>1, <1>2, Invariance, PTL DEF CollectorSpec

-----------------------------------------------------------------------------
(* The whole program                                                       *)

\* What holds of the table whoever wrote it.
UniqueIds(rows) == \A r, s \in rows : r.id = s.id => r = s

StartsOrdered(rows) == \A r, s \in rows : r.id < s.id => r.start <= s.start

\* A row in progress carries no end, no duration and no note.
OpenIsBlank(rows) ==
    \A r \in rows : r.ckpt => r.end = NULL /\ r.dur = 0 /\ r.note = NoNote

NotesFit(rows) ==
    \A r \in rows :
        r.note # NoNote => r.note.start = r.start /\ r.note.label = r.label

Table(rows) == UniqueIds(rows) /\ StartsOrdered(rows) /\ OpenIsBlank(rows)
                   /\ NotesFit(rows)

\* A card shows a finished session, if the session still exists.
CardsFit(cards, rows) ==
    \A c \in cards, r \in rows :
        c.id = r.id => c.start = r.start /\ c.label = r.label /\ ~r.ckpt

\* Outside "up" no collector runs; recovery works on rows that are open.
AtRest == proc # "up" => pc = "returned" /\ active.id = 0

TodoIsOpen == IF proc = "recovering" THEN todo \subseteq OpenRows(sessions)
                                     ELSE todo = {}

ProcTypes == /\ proc \in {"crashed", "exited", "recovering", "up"}
             /\ page \subseteq [id : 1 .. seq, start : Nat, label : Names]
             /\ diedAt \in 0 .. now

\* Who will close an open row: Run, or the recovery that is under way.
Cared ==
    /\ \A r, s \in Unclosed : r = s
    /\ proc = "up" => AllHeld
    /\ proc = "recovering" => Unclosed \subseteq todo

TInv == /\ IInv /\ ProcTypes /\ AtRest /\ TodoIsOpen
        /\ Table(sessions) /\ CardsFit(page, sessions) /\ Cared

-----------------------------------------------------------------------------
(* The statements, as operators on tables                                  *)

\* What a close leaves of the row it is given: what was begun, its note, and
\* the times it was handed (sqlite.go:121-134).
LEMMA CloseKeeps ==
    ASSUME NEW n \in Nat, NEW rows \in SUBSET Rows(1 .. n),
           NEW id \in Nat, NEW end \in Nat, NEW dur \in Nat
    PROVE  LET left == CloseSession(rows, id, end, dur)
           IN  /\ left \subseteq Rows(1 .. n)
               /\ \A r \in rows : r.id # id => r \in left
               /\ \A s \in left :
                    \/ s \in rows /\ s.id # id
                    \/ /\ s.id = id /\ dur >= MinSession
                       /\ s.end = end /\ s.dur = dur /\ ~s.ckpt
                       /\ \E r \in rows : /\ InProgress(r) = InProgress(s)
                                          /\ r.note = s.note
               /\ dur >= MinSession =>
                    \A r \in rows : r.id = id =>
                        \E s \in left : s.id = id
<1> DEFINE left == CloseSession(rows, id, end, dur)
<1> MinSession \in Nat
  BY StoreAssumption
<1>1. CASE dur < MinSession
  BY <1>1 DEF CloseSession
<1>2. CASE ~(dur < MinSession)
  <2> DEFINE closed(r) == [r EXCEPT !.end = end, !.dur = dur, !.ckpt = FALSE]
  <2>1. left = {IF r.id = id THEN closed(r) ELSE r : r \in rows}
    BY <1>2 DEF CloseSession
  <2>2. \A r \in rows :
            /\ closed(r) \in Rows(1 .. n)
            /\ InProgress(r) = InProgress(closed(r))
            /\ closed(r).id = r.id /\ closed(r).note = r.note
            /\ closed(r).end = end /\ closed(r).dur = dur /\ ~closed(r).ckpt
    BY DEF Rows, InProgress
  <2>3. dur >= MinSession
    BY <1>2
  <2> HIDE DEF closed
  <2> QED BY <2>1, <2>2, <2>3
<1> QED BY <1>1, <1>2

LEMMA SameBegun ==
    ASSUME NEW r, NEW s, InProgress(r) = InProgress(s)
    PROVE  /\ r.id = s.id /\ r.start = s.start /\ r.label = s.label
           /\ r.type = s.type /\ r.day = s.day
BY DEF InProgress

\* Closing preserves the table (sqlite.go:121-134).
LEMMA CloseTable ==
    ASSUME NEW n \in Nat, NEW rows \in SUBSET Rows(1 .. n), Table(rows),
           NEW id \in Nat, NEW end \in Nat, NEW dur \in Nat
    PROVE  Table(CloseSession(rows, id, end, dur))
<1> DEFINE left == CloseSession(rows, id, end, dur)
<1>1. \A s \in left : \E r \in rows :
        /\ r.id = s.id /\ r.start = s.start /\ r.label = s.label
        /\ r.note = s.note /\ (s.id = id \/ r = s) /\ (s.ckpt => r = s)
  BY CloseKeeps, SameBegun
<1>2. UniqueIds(left)
  BY CloseSessionRows DEF Table, UniqueIds
<1> HIDE DEF left
<1>3. StartsOrdered(left)
  BY <1>1 DEF Table, StartsOrdered
<1>4. OpenIsBlank(left)
  BY <1>1 DEF Table, OpenIsBlank
<1>5. NotesFit(left)
  BY <1>1 DEF Table, NotesFit
<1> QED BY <1>2, <1>3, <1>4, <1>5 DEF Table, left

\* A note changes nothing but the note of one row (sqlite.go:266-279).
LEMMA NoteKeeps ==
    ASSUME NEW n \in Nat, NEW rows \in SUBSET Rows(1 .. n), NEW id,
           NEW note \in {NoNote} \cup [start : Nat, label : Names]
    PROVE  LET noted == SetSessionNote(rows, id, note)
           IN  /\ noted \subseteq Rows(1 .. n)
               /\ \A r \in rows : r.id # id => r \in noted
               /\ \A s \in noted :
                    \/ s \in rows /\ s.id # id
                    \/ \E r \in rows : r.id = id /\ s = [r EXCEPT !.note = note]
               /\ \A r \in rows : r.id = id => [r EXCEPT !.note = note] \in noted
               /\ \A s \in noted : \E r \in rows :
                    /\ InProgress(r) = InProgress(s)
                    /\ r.end = s.end /\ r.dur = s.dur /\ r.ckpt = s.ckpt
                    /\ s.note = IF r.id = id THEN note ELSE r.note
<1> DEFINE as(r) == [r EXCEPT !.note = note]
<1>1. \A r \in rows : /\ as(r) \in Rows(1 .. n) /\ as(r).note = note
                      /\ InProgress(r) = InProgress(as(r)) /\ as(r).id = r.id
                      /\ r.end = as(r).end /\ r.dur = as(r).dur
                      /\ r.ckpt = as(r).ckpt
  BY DEF Rows, InProgress
<1>2. SetSessionNote(rows, id, note) = {IF r.id = id THEN as(r) ELSE r : r \in rows}
  BY DEF SetSessionNote
<1> HIDE DEF as
<1>3. \A r \in rows : r.id = id => as(r) \in SetSessionNote(rows, id, note)
  BY <1>2
<1>4. \A s \in SetSessionNote(rows, id, note) :
        \/ s \in rows /\ s.id # id
        \/ \E r \in rows : r.id = id /\ s = as(r)
  BY <1>2
<1>5. \A r \in rows : r.id # id => r \in SetSessionNote(rows, id, note)
  BY <1>2
<1>6. SetSessionNote(rows, id, note) \subseteq Rows(1 .. n)
  BY <1>1, <1>4
<1>7. \A s \in SetSessionNote(rows, id, note) : \E r \in rows :
        /\ InProgress(r) = InProgress(s)
        /\ r.end = s.end /\ r.dur = s.dur /\ r.ckpt = s.ckpt
        /\ s.note = IF r.id = id THEN note ELSE r.note
  <2> SUFFICES ASSUME NEW s \in SetSessionNote(rows, id, note)
      PROVE  \E r \in rows :
                /\ InProgress(r) = InProgress(s)
                /\ r.end = s.end /\ r.dur = s.dur /\ r.ckpt = s.ckpt
                /\ s.note = IF r.id = id THEN note ELSE r.note
    OBVIOUS
  <2>1. CASE s \in rows /\ s.id # id
    BY <2>1
  <2>2. CASE \E r \in rows : r.id = id /\ s = as(r)
    <3>1. PICK r \in rows : r.id = id /\ s = as(r)
      BY <2>2
    <3>2. /\ InProgress(r) = InProgress(s)
          /\ r.end = s.end /\ r.dur = s.dur /\ r.ckpt = s.ckpt
          /\ s.note = IF r.id = id THEN note ELSE r.note
      BY <1>1, <3>1
    <3> QED BY <3>2
  <2> QED BY <1>4, <2>1, <2>2
<1> QED BY <1>3, <1>4, <1>5, <1>6, <1>7 DEF as

LEMMA NoteFrom ==
    ASSUME NEW n \in Nat, NEW rows \in SUBSET Rows(1 .. n), NEW id,
           NEW note \in {NoNote} \cup [start : Nat, label : Names],
           NEW s \in SetSessionNote(rows, id, note)
    PROVE  \E r \in rows :
                /\ InProgress(r) = InProgress(s)
                /\ r.end = s.end /\ r.dur = s.dur /\ r.ckpt = s.ckpt
                /\ s.note = IF r.id = id THEN note ELSE r.note
BY NoteKeeps

LEMMA NoteTable ==
    ASSUME NEW n \in Nat, NEW rows \in SUBSET Rows(1 .. n), Table(rows), NEW id,
           NEW note \in {NoNote} \cup [start : Nat, label : Names],
           \A r \in rows : r.id = id =>
               ~r.ckpt /\ (note # NoNote => note.start = r.start /\ note.label = r.label)
    PROVE  Table(SetSessionNote(rows, id, note))
<1> DEFINE noted == SetSessionNote(rows, id, note)
<1>1. \A s \in noted : \E r \in rows :
        /\ InProgress(r) = InProgress(s)
        /\ r.ckpt = s.ckpt /\ r.end = s.end /\ r.dur = s.dur
        /\ s.note = IF r.id = id THEN note ELSE r.note
  BY NoteFrom
<1>2. \A s \in noted : \E r \in rows :
        /\ r.id = s.id /\ r.start = s.start /\ r.label = s.label
        /\ r.ckpt = s.ckpt /\ r.end = s.end /\ r.dur = s.dur
        /\ s.note = IF r.id = id THEN note ELSE r.note
  BY <1>1, SameBegun
<1>3. UniqueIds(noted)
  <2> SUFFICES ASSUME NEW s \in noted, NEW t \in noted, s.id = t.id PROVE s = t
    BY DEF UniqueIds
  <2> DEFINE as(r) == [r EXCEPT !.note = note]
  <2>1. \A u \in noted : \/ u \in rows /\ u.id # id
                        \/ \E r \in rows : r.id = id /\ u = as(r)
    BY NoteKeeps
  <2>2. \A r \in rows : as(r).id = r.id
    BY DEF Rows
  <2> HIDE DEF as, noted
  <2>3. CASE s.id # id
    BY <2>1, <2>2, <2>3 DEF Table, UniqueIds
  <2>4. CASE s.id = id
    <3>1. PICK q \in rows : q.id = id /\ s = as(q)
      BY <2>1, <2>4
    <3>2. PICK r \in rows : r.id = id /\ t = as(r)
      BY <2>1, <2>4
    <3>3. q = r
      BY <3>1, <3>2 DEF Table, UniqueIds
    <3> QED BY <3>1, <3>2, <3>3
  <2> QED BY <2>3, <2>4
<1> HIDE DEF noted
<1>4. StartsOrdered(noted)
  BY <1>2 DEF Table, StartsOrdered
<1>5. OpenIsBlank(noted)
  BY <1>2 DEF Table, OpenIsBlank
<1>6. NotesFit(noted)
  BY <1>2 DEF Table, NotesFit
<1> QED BY <1>3, <1>4, <1>5, <1>6 DEF Table, noted

\* A new row is blank, and the youngest (sqlite.go:97-108).
LEMMA OpenTable ==
    ASSUME NEW n \in Nat, NEW rows \in SUBSET Rows(1 .. n), Table(rows),
           NEW ctx \in Context, NEW t \in Nat, \A r \in rows : r.start <= t
    PROVE  Table(OpenSession(rows, n + 1, ctx, t))
<1> DEFINE row == NewRow(n + 1, ctx, t)
<1>1. /\ row.id = n + 1 /\ row.start = t
      /\ row.end = NULL /\ row.dur = 0 /\ row.note = NoNote
  BY DEF NewRow
<1>2. \A r \in rows : r.id \in 1 .. n /\ r.start \in Nat
  BY DEF Rows
<1>3. OpenSession(rows, n + 1, ctx, t) = rows \cup {row}
  BY DEF OpenSession
<1> HIDE DEF row
<1>4. UniqueIds(rows \cup {row})
  BY <1>1, <1>2 DEF Table, UniqueIds
<1>5. StartsOrdered(rows \cup {row})
  BY <1>1, <1>2 DEF Table, StartsOrdered
<1>6. OpenIsBlank(rows \cup {row}) /\ NotesFit(rows \cup {row})
  BY <1>1 DEF Table, OpenIsBlank, NotesFit
<1> QED BY <1>3, <1>4, <1>5, <1>6 DEF Table

LEMMA DeleteTable ==
    ASSUME NEW rows, Table(rows), NEW left \in SUBSET rows
    PROVE  Table(left)
BY DEF Table, UniqueIds, StartsOrdered, OpenIsBlank, NotesFit
-----------------------------------------------------------------------------
(* The steps                                                               *)

LEMMA TInitInv == TrackerInit => TInv
<1> SUFFICES ASSUME TrackerInit PROVE TInv
  OBVIOUS
<1> USE DEF TrackerInit, WorldInit, ProcessInit, NoContext, NoSession, NoJob, NULL
<1>1. TypeOK
  <2>1. queue \in Seq(Event)
    BY EmptySeq
  <2>2. ended \in BOOLEAN /\ checkpointC \in BOOLEAN /\ cancelled \in BOOLEAN
    OBVIOUS
  <2>3. evt \in Context /\ active \in [id : Nat, type : Names, label : Names]
    BY StoreAssumption DEF Context
  <2>4. job \in [id : Nat, end : Nat \cup {NULL}, dur : Nat,
                next : {"select", "readIdle", "openDb", "returned"}]
    OBVIOUS
  <2> QED BY <2>1, <2>2, <2>3, <2>4 DEF TypeOK
<1>2. Control
  BY DEF Control
<1>3. PastOnly
  <2>1. \A i \in 1 .. Len(queue) : queue[i].ts <= now
    BY EmptySeq
  <2>2. lastPoll <= now /\ sessionStart <= now /\ job.end <= now
    OBVIOUS
  <2> QED BY <2>1, <2>2 DEF PastOnly
<1>4. Held /\ RowsDisjoint
  BY DEF Held, RowsDisjoint
<1>5. ProcTypes /\ AtRest /\ TodoIsOpen
  BY DEF ProcTypes, AtRest, TodoIsOpen
<1>6. Table(sessions) /\ CardsFit(page, sessions)
  BY DEF Table, UniqueIds, StartsOrdered, OpenIsBlank, NotesFit, CardsFit
<1>7. Cared
  BY DEF Cared, Unclosed, OpenRows
<1> QED BY <1>1, <1>2, <1>3, <1>4, <1>5, <1>6, <1>7 DEF TInv, IInv

\* Run and its environment write the table by two statements only
\* (collector.go:26-29; main.go:143-163).
LEMMA WhoWrites ==
    ASSUME Poll \/ Run \/ Cancel
    PROVE  CloseDb \/ OpenDb \/ UNCHANGED <<sessions, seq>>
BY DEF Poll, Stream!Send, Cancel, Run, Handle, Receive, Stream!Take, OnEvent,
       OnEventAfterSleep, IdleOnEvent, StillIdle, SameContext, SwitchContext,
       Checkpoint, OnCheckpointIdle, OnCheckpoint, OnDone, OnMonitorClosed, Trim, Store,
       CloseDbFails, OpenDbFails, Publish, dbVars

\* Run does not turn the clock.
LEMMA ClockStands ==
    ASSUME Poll \/ Run \/ Cancel
    PROVE  now' = now
BY DEF Poll, Stream!Send, Cancel, Run, Handle, Receive, Stream!Take, OnEvent,
       OnEventAfterSleep, IdleOnEvent, StillIdle, SameContext, SwitchContext,
       Checkpoint, OnCheckpointIdle, OnCheckpoint, OnDone, OnMonitorClosed, Trim, Store,
       CloseDb, OpenDb, CloseDbFails, OpenDbFails, Publish, envVars

\* A close keeps what the cards show, and makes no card's row open again.
LEMMA CloseCards ==
    ASSUME NEW n \in Nat, NEW rows \in SUBSET Rows(1 .. n),
           NEW id \in Nat, NEW end \in Nat, NEW dur \in Nat,
           NEW cards, CardsFit(cards, rows)
    PROVE  CardsFit(cards, CloseSession(rows, id, end, dur))
<1>1. \A s \in CloseSession(rows, id, end, dur) : \E r \in rows :
        /\ r.id = s.id /\ r.start = s.start /\ r.label = s.label
        /\ (r = s \/ ~s.ckpt)
  BY CloseKeeps, SameBegun
<1> QED BY <1>1 DEF CardsFit

\* What is open is held by Run, which holds one id at most.
LEMMA HeldIsOne == IInv /\ AllHeld => \A r, s \in Unclosed : r = s
<1> SUFFICES ASSUME IInv, AllHeld PROVE \A r, s \in Unclosed : r = s
  OBVIOUS
<1>1. \A r \in Unclosed : HeldId(r.id) /\ r \in sessions /\ r.id # 0
  BY DEF AllHeld, Unclosed, OpenRows, IInv, TypeOK, Rows
<1>2. \A r, s \in Unclosed : r.id = s.id
  BY <1>1 DEF HeldId, IInv, Held
<1> QED BY <1>1, <1>2 DEF IInv, Held

LEMMA CollectStep ==
    ASSUME TInv, Collect
    PROVE  TInv'
<1> USE DEF TInv
<1>0. /\ proc = "up" /\ proc' = "up"
      /\ UNCHANGED <<todo, page, diedAt>>
      /\ Poll \/ Run \/ Cancel
  BY DEF Collect, procVars
<1>1. [CollectorNext]_vars
  BY <1>0 DEF CollectorNext
<1>2. IInv'
  BY <1>1, StepInv
<1>3. AllHeld'
  BY <1>0, <1>1, AllHeldStep DEF Cared
<1>4. Cared'
  <2>1. (IInv /\ AllHeld => \A r, s \in Unclosed : r = s)'
    BY HeldIsOne, PTL
  <2> QED BY <1>0, <1>2, <1>3, <2>1 DEF Cared
<1>5. AtRest' /\ TodoIsOpen'
  BY <1>0 DEF AtRest, TodoIsOpen
<1>6. sessions \in SUBSET Rows(1 .. seq) /\ seq \in Nat
  BY DEF IInv, TypeOK
<1>7. CASE CloseDb
  <2>1. /\ sessions' = CloseSession(sessions, job.id, job.end, job.dur)
        /\ job.id \in Nat /\ job.end \in Nat /\ job.dur \in Nat /\ seq' = seq
    BY <1>7 DEF CloseDb, IInv, TypeOK, Control
  <2>2. Table(sessions')
    BY <1>6, <2>1, CloseTable
  <2>3. CardsFit(page, sessions')
    BY <1>6, <2>1, CloseCards
  <2>4. ProcTypes'
    BY <1>0, <2>1, ClockStands DEF ProcTypes
  <2> QED BY <1>0, <1>2, <1>4, <1>5, <2>2, <2>3, <2>4
<1>8. CASE OpenDb
  <2>1. /\ sessions' = OpenSession(sessions, seq + 1, evt, now)
        /\ seq' = seq + 1
    BY <1>8 DEF OpenDb, NextId
  <2>2. Table(sessions')
    <3>1. evt \in Context /\ now \in Nat /\ \A r \in sessions : r.start <= now
      BY DEF IInv, TypeOK, PastOnly
    <3> QED BY <1>6, <2>1, <3>1, OpenTable
  <2>3. CardsFit(page, sessions')
    <3>1. NewRow(seq + 1, evt, now).id = seq + 1
      BY DEF NewRow
    <3>2. sessions' = sessions \cup {NewRow(seq + 1, evt, now)}
      BY <2>1 DEF OpenSession
    <3>3. \A c \in page : c.id \in 1 .. seq
      BY DEF ProcTypes
    <3> QED BY <1>6, <3>1, <3>2, <3>3 DEF CardsFit
  <2>4. ProcTypes'
    BY <1>0, <1>6, <2>1, ClockStands DEF ProcTypes
  <2> QED BY <1>0, <1>2, <1>4, <1>5, <2>2, <2>3, <2>4
<1>9. CASE UNCHANGED <<sessions, seq>>
  <2>1. ProcTypes'
    BY <1>0, <1>9, ClockStands DEF ProcTypes
  <2> QED BY <1>0, <1>2, <1>4, <1>5, <1>9, <2>1
<1> QED BY <1>0, <1>7, <1>8, <1>9, WhoWrites

LEMMA WorldStep ==
    ASSUME TInv, World
    PROVE  TInv'
<1> USE DEF TInv
<1>1. IInv'
  BY EnvStep DEF World
<1>2. /\ UNCHANGED <<pc, job, opened, active, sessions, seq, orphans, procVars>>
      /\ now' = now \/ now' = now + 1
  BY DEF World, Time, Tick, TickAtBound, UserInput, runVars, liveVars, dbVars
<1>3. ProcTypes'
  BY <1>2 DEF ProcTypes, procVars, IInv, TypeOK
<1>4. AtRest' /\ TodoIsOpen'
  BY <1>2 DEF AtRest, TodoIsOpen, procVars
<1>5. Table(sessions)' /\ CardsFit(page, sessions)'
  BY <1>2 DEF procVars
<1>6. Cared'
  BY <1>2 DEF Cared, Unclosed, AllHeld, HeldId, procVars
<1> QED BY <1>1, <1>3, <1>4, <1>5, <1>6

\* Recovery starts from all that is open and cares for it (sqlite.go:138-160).
LEMMA StartStep ==
    ASSUME TInv, Start
    PROVE  TInv'
<1> USE DEF TInv
<1>1. /\ proc \in {"crashed", "exited"} /\ proc' = "recovering"
      /\ todo' = OpenRows(sessions)
      /\ UNCHANGED <<vars, page, diedAt>>
  BY DEF Start, Down
<1>2. UNCHANGED <<now, lastInput, lastTick, queue, ended, checkpointC, cancelled,
                  pc, evt, lastPoll, job, opened, active, sessionStart,
                  sessions, seq, orphans>>
  BY <1>1 DEF vars, envVars, runVars, liveVars, dbVars
<1>3. IInv'
  BY <1>2 DEF IInv, TypeOK, Control, PastOnly, Held, RowsDisjoint
<1>4. ProcTypes' /\ AtRest'
  BY <1>1, <1>2 DEF ProcTypes, AtRest
<1>5. TodoIsOpen' /\ Table(sessions)' /\ CardsFit(page, sessions)'
  BY <1>1, <1>2 DEF TodoIsOpen
<1>6. Cared'
  BY <1>1, <1>2 DEF Cared, Unclosed, OpenRows
<1> QED BY <1>3, <1>4, <1>5, <1>6

\* While nothing is held, any change of rows that keeps what was begun keeps
\* the collector's invariant.
LEMMA RowsMayChange ==
    ASSUME IInv, {active.id, job.id, opened} = {0},
           UNCHANGED <<envVars, runVars, liveVars, seq>>,
           orphans' \subseteq Nat,
           sessions' \subseteq Rows(1 .. seq),
           UniqueIds(sessions'), RowsDisjoint',
           \A r \in sessions' : r.start <= now /\ r.end <= now
    PROVE  IInv'
<1> USE DEF IInv, envVars, runVars, liveVars
<1>1. TypeOK'
  BY DEF TypeOK
<1>2. Control' /\ PastOnly'
  BY DEF Control, PastOnly
<1>3. Held'
  <2>1. \A r \in sessions' : r.id # 0
    BY DEF TypeOK, Rows
  <2>2. active'.id = 0 /\ job'.id = 0 /\ opened' = 0
    OBVIOUS
  <2> QED BY <2>1, <2>2 DEF Held, UniqueIds
<1> QED BY <1>1, <1>2, <1>3

\* A row is recovered at its start: it cannot reach into a later one
\* (sqlite.go:162-168).
LEMMA RecoverStep ==
    ASSUME TInv, RecoverOne
    PROVE  TInv'
<1> USE DEF TInv
<1>1. PICK r \in todo : todo' = todo \ {r} /\ sessions' = RecoverCheckpoint(sessions, r)
  BY DEF RecoverOne
<1>2. /\ proc = "recovering"
      /\ UNCHANGED <<envVars, runVars, liveVars, seq, orphans, proc, page, diedAt>>
  BY DEF RecoverOne
<1>3. sessions \in SUBSET Rows(1 .. seq) /\ seq \in Nat /\ now \in Nat
  BY DEF IInv, TypeOK
<1>4. r \in sessions /\ r.ckpt /\ r.dur = 0 /\ r.id \in 1 .. seq /\ r.start \in Nat
  BY <1>2, <1>3 DEF TodoIsOpen, OpenRows, Table, OpenIsBlank, Rows
<1>5. sessions' = CloseSession(sessions, r.id, r.start, 0)
  BY <1>1, <1>4 DEF RecoverCheckpoint
<1>6. /\ sessions' \subseteq Rows(1 .. seq)
      /\ \A s \in sessions :
            s.id # r.id => s \in sessions'
      /\ \A s \in sessions' :
            \/ s \in sessions /\ s.id # r.id
            \/ /\ s.id = r.id /\ s.end = r.start /\ ~s.ckpt
               /\ \E q \in sessions : InProgress(q) = InProgress(s)
  BY <1>3, <1>4, <1>5, CloseKeeps
<1>7. \A s \in sessions' :
        \/ s \in sessions /\ s.id # r.id
        \/ s.id = r.id /\ s.start = r.start /\ s.end = r.start /\ ~s.ckpt
  <2>1. \A s \in sessions', q \in sessions :
            s.id = r.id /\ InProgress(q) = InProgress(s) => s.start = r.start
    BY <1>4, SameBegun DEF Table, UniqueIds
  <2> QED BY <1>6, <2>1
<1>8. Table(sessions')
  BY <1>3, <1>4, <1>5, CloseTable
<1>9. CardsFit(page, sessions')
  BY <1>3, <1>4, <1>5, CloseCards
<1>10. RowsDisjoint'
  <2> SUFFICES ASSUME NEW s \in sessions', NEW t \in sessions', s.id < t.id, ~s.ckpt
               PROVE  s.end <= t.start
    BY DEF RowsDisjoint
  <2>1. \A u \in sessions : u.id \in Nat /\ u.start \in Nat
    BY <1>3 DEF Rows
  <2>2. \E u \in sessions : u.id = t.id /\ u.start = t.start
    BY <1>4, <1>7
  <2>3. CASE s \in sessions
    BY <2>2, <2>3 DEF IInv, RowsDisjoint
  <2>4. CASE s.id = r.id /\ s.end = r.start
    BY <1>4, <2>1, <2>2, <2>4 DEF Table, StartsOrdered
  <2> QED BY <1>7, <2>3, <2>4
<1>11. IInv'
  <2>1. {active.id, job.id, opened} = {0}
    BY <1>2 DEF AtRest, IInv, Control
  <2>2. \A s \in sessions' : s.start <= now /\ s.end <= now
    BY <1>4, <1>7 DEF IInv, PastOnly
  <2>3. orphans' \subseteq Nat
    BY <1>2 DEF IInv, TypeOK
  <2>4. UniqueIds(sessions')
    BY <1>8 DEF Table
  <2> QED BY <1>2, <1>6, <1>10, <2>1, <2>2, <2>3, <2>4, RowsMayChange
<1>12. ProcTypes' /\ AtRest'
  BY <1>2 DEF ProcTypes, AtRest, envVars, runVars, liveVars
<1>13. TodoIsOpen'
  <2>1. \A q \in todo : q \in sessions /\ q.ckpt
    BY <1>2 DEF TodoIsOpen, OpenRows
  <2>2. \A q \in todo' : q.id # r.id
    BY <1>1, <1>4, <2>1 DEF Table, UniqueIds
  <2> QED BY <1>1, <1>2, <1>6, <2>1, <2>2 DEF TodoIsOpen, OpenRows
<1>14. Cared'
  <2>1. Unclosed' \subseteq Unclosed /\ r \notin Unclosed'
    BY <1>2, <1>4, <1>7 DEF Unclosed, OpenRows
  <2> QED BY <1>1, <1>2, <2>1 DEF Cared
<1> QED BY <1>2, <1>8, <1>9, <1>11, <1>12, <1>13, <1>14

LEMMA RecoverFailsStep ==
    ASSUME TInv, RecoverFails
    PROVE  TInv'
<1> USE DEF TInv
<1>1. PICK r \in todo : todo' = todo \ {r} /\ orphans' = orphans \cup {r.id}
  BY DEF RecoverFails
<1>2. /\ proc = "recovering"
      /\ UNCHANGED <<envVars, runVars, liveVars, sessions, seq, proc, page, diedAt>>
  BY DEF RecoverFails
<1>3. r \in sessions /\ r.id \in Nat /\ todo' \subseteq OpenRows(sessions)
  BY <1>1, <1>2 DEF TodoIsOpen, OpenRows, IInv, TypeOK, Rows
<1>4. IInv'
  <2>1. orphans' \subseteq Nat
    BY <1>1, <1>3 DEF IInv, TypeOK
  <2> QED BY <1>2, <2>1 DEF IInv, TypeOK, Control, PastOnly, Held, RowsDisjoint,
          envVars, runVars, liveVars
<1>5. ProcTypes' /\ AtRest' /\ TodoIsOpen'
  BY <1>2, <1>3 DEF ProcTypes, AtRest, TodoIsOpen, envVars, runVars, liveVars
<1>6. Cared'
  <2>1. Unclosed' \subseteq Unclosed /\ r \notin Unclosed'
    BY <1>1, <1>2 DEF Unclosed
  <2> QED BY <1>1, <1>2, <2>1 DEF Cared
<1> QED BY <1>2, <1>4, <1>5, <1>6

\* Recovery is complete: nothing is open that nobody cares for (main.go:48-84).
LEMMA UpStep ==
    ASSUME TInv, Up
    PROVE  TInv'
<1> USE DEF TInv
<1>1. /\ proc = "recovering" /\ todo = {} /\ proc' = "up" /\ pc' = "select"
      /\ lastTick' = now
      /\ UNCHANGED <<now, lastInput, queue, ended, checkpointC, cancelled,
                     evt, lastPoll, job, opened, active, sessionStart,
                     sessions, seq, orphans, todo, page, diedAt>>
  BY DEF Up, liveVars, dbVars
<1>2. pc = "returned" /\ active.id = 0
  BY <1>1 DEF AtRest
<1>3. TypeOK'
  BY <1>1 DEF IInv, TypeOK
<1>4. Control' /\ PastOnly' /\ Held' /\ RowsDisjoint'
  BY <1>1, <1>2 DEF IInv, Control, PastOnly, Held, RowsDisjoint
<1>5. ProcTypes' /\ AtRest' /\ TodoIsOpen'
  BY <1>1 DEF ProcTypes, AtRest, TodoIsOpen
<1>6. Cared'
  <2>1. Unclosed = {} /\ Unclosed' = Unclosed
    BY <1>1 DEF Cared, Unclosed
  <2>2. AllHeld'
    BY <1>1, <2>1 DEF AllHeld, Unclosed, OpenRows
  <2> QED BY <1>1, <2>1, <2>2 DEF Cared
<1> QED BY <1>1, <1>3, <1>4, <1>5, <1>6 DEF IInv

\* The end of a process leaves only the table behind.
LEMMA EndStep ==
    ASSUME TInv, NEW how \in {"crashed", "exited"}, ~Down, ProcessEnds(how)
    PROVE  TInv'
<1> USE DEF TInv
<1>1. /\ proc \in {"recovering", "up"} /\ proc' = how
      /\ diedAt' = IF proc = "up" THEN now ELSE diedAt
      /\ todo' = {} /\ page' = {} /\ queue' = <<>> /\ pc' = "returned"
      /\ evt' = NoContext /\ lastPoll' = NULL /\ job' = NoJob /\ opened' = 0
      /\ active' = NoSession /\ sessionStart' = 0
      /\ UNCHANGED <<now, lastInput, lastTick, sessions, seq, orphans>>
  BY DEF Down, ProcessEnds, dbVars, ProcTypes
<1>2. ended' \in BOOLEAN /\ checkpointC' \in BOOLEAN /\ cancelled' \in BOOLEAN
  BY Zenon DEF ProcessEnds
<1>3. NoSession.id = 0 /\ NoSession \in [id : Nat, type : Names, label : Names]
      /\ NoContext \in Context
  BY StoreAssumption DEF NoSession, NoContext, Context
<1>4. /\ NoJob.id = 0 /\ NoJob.end = NULL /\ NoJob.next = "select"
      /\ NoJob \in [id : Nat, end : Nat \cup {NULL}, dur : Nat,
                    next : {"select", "readIdle", "openDb", "returned"}]
  BY DEF NoJob
<1>5. queue' \in Seq(Event) /\ \A i \in 1 .. Len(queue') : queue'[i].ts <= now
  BY <1>1, EmptySeq
<1>6. TypeOK'
  BY <1>1, <1>2, <1>3, <1>4, <1>5 DEF IInv, TypeOK
<1>7. Control'
  BY <1>1, <1>3, <1>4 DEF Control
<1>8. PastOnly'
  BY <1>1, <1>4, <1>5 DEF IInv, TypeOK, PastOnly, NULL
<1>9. Held' /\ RowsDisjoint'
  <2>1. \A r \in sessions : r.id # 0
    BY DEF IInv, TypeOK, Rows
  <2> QED BY <1>1, <1>3, <1>4, <2>1 DEF IInv, Held, RowsDisjoint
<1>10. ProcTypes' /\ AtRest' /\ TodoIsOpen'
  BY <1>1, <1>3 DEF ProcTypes, AtRest, TodoIsOpen, IInv, TypeOK
<1>11. Table(sessions)' /\ CardsFit(page, sessions)'
  BY <1>1 DEF CardsFit
<1>12. Cared'
  BY <1>1 DEF Cared, Unclosed
<1> QED BY <1>6, <1>7, <1>8, <1>9, <1>10, <1>11, <1>12 DEF IInv

\* The page shows finished sessions (reportwindow.go:103-125).
LEMMA ReportStep ==
    ASSUME TInv, HandleReport
    PROVE  TInv'
<1> USE DEF TInv
<1>1. UNCHANGED <<vars, proc, todo, diedAt>>
  BY DEF HandleReport
<1>2. UNCHANGED <<now, lastInput, lastTick, queue, ended, checkpointC, cancelled,
                  pc, evt, lastPoll, job, opened, active, sessionStart,
                  sessions, seq, orphans>>
  BY <1>1 DEF vars, envVars, runVars, liveVars, dbVars
<1>3. IInv'
  BY <1>2 DEF IInv, TypeOK, Control, PastOnly, Held, RowsDisjoint
<1>4. \A c \in page' : \E r \in sessions :
        /\ c = [id |-> r.id, start |-> r.start, label |-> r.label]
        /\ ~r.ckpt
  <2>1. \A r \in sessions : r.end # NULL => ~r.ckpt
    BY DEF Table, OpenIsBlank
  <2> QED BY <2>1 DEF HandleReport, SessionsForDay
<1>5. ProcTypes'
  <2>1. \A r \in sessions : /\ r.id \in 1 .. seq /\ r.start \in Nat
                            /\ r.label \in Names
    BY DEF IInv, TypeOK, Rows
  <2>2. page' \subseteq [id : 1 .. seq, start : Nat, label : Names]
    BY <1>4, <2>1
  <2> QED BY <1>1, <1>2, <2>2 DEF ProcTypes
<1>6. CardsFit(page', sessions)
  BY <1>4 DEF CardsFit, Table, UniqueIds
<1>7. AtRest' /\ TodoIsOpen' /\ Cared'
  BY <1>1, <1>2 DEF AtRest, TodoIsOpen, Cared, Unclosed, AllHeld, HeldId
<1> QED BY <1>2, <1>3, <1>5, <1>6, <1>7

\* Handlers write rows while Run is anywhere: they neither open nor close one.
LEMMA HandlersKeep ==
    ASSUME TInv, proc = "up",
           UNCHANGED <<envVars, runVars, liveVars, seq, orphans, procVars>>,
           sessions' \subseteq Rows(1 .. seq),
           \A s \in sessions' : \E r \in sessions :
               /\ r.id = s.id /\ r.start = s.start /\ r.label = s.label
               /\ r.end = s.end /\ r.ckpt = s.ckpt,
           Table(sessions')
    PROVE  TInv'
<1> USE DEF TInv, envVars, runVars, liveVars, procVars
<1>1. TypeOK' /\ Control'
  BY DEF IInv, TypeOK, Control
<1>2. PastOnly' /\ RowsDisjoint'
  BY DEF IInv, PastOnly, RowsDisjoint
<1>3. Held'
  BY DEF IInv, Held, Table, UniqueIds
<1>4. ProcTypes' /\ AtRest' /\ TodoIsOpen'
  BY DEF ProcTypes, AtRest, TodoIsOpen
<1>5. CardsFit(page', sessions')
  BY DEF CardsFit
<1>6. AllHeld'
  BY DEF Cared, AllHeld, HeldId
<1>7. Cared'
  <2>1. (IInv /\ AllHeld => \A r, s \in Unclosed : r = s)'
    BY HeldIsOne, PTL
  <2> QED BY <1>1, <1>2, <1>3, <1>6, <2>1 DEF Cared, IInv
<1> QED BY <1>1, <1>2, <1>3, <1>4, <1>5, <1>7 DEF IInv

LEMMA NoteStep ==
    ASSUME TInv, HandleSessionNote
    PROVE  TInv'
<1> USE DEF TInv
<1>0. PICK card \in page :
        \E note \in {NoNote, [start |-> card.start, label |-> card.label]} :
            sessions' = SetSessionNote(sessions, card.id, note)
  BY DEF HandleSessionNote
<1>1. PICK note \in {NoNote, [start |-> card.start, label |-> card.label]} :
        sessions' = SetSessionNote(sessions, card.id, note)
  BY <1>0
<1>2. /\ proc = "up"
      /\ UNCHANGED <<envVars, runVars, liveVars, seq, orphans, procVars>>
  BY DEF HandleSessionNote
<1>3. sessions \in SUBSET Rows(1 .. seq) /\ seq \in Nat
  BY DEF IInv, TypeOK
<1>4. note \in {NoNote} \cup [start : Nat, label : Names]
  BY DEF ProcTypes
<1>5. \A r \in sessions : r.id = card.id =>
        ~r.ckpt /\ (note # NoNote => note.start = r.start /\ note.label = r.label)
  BY DEF CardsFit
<1>6. Table(sessions')
  BY <1>1, <1>3, <1>4, <1>5, NoteTable
<1>7. sessions' \subseteq Rows(1 .. seq)
  BY <1>1, <1>3, <1>4, NoteKeeps
<1>8. \A s \in sessions' : \E r \in sessions :
            /\ r.id = s.id /\ r.start = s.start /\ r.label = s.label
            /\ r.end = s.end /\ r.ckpt = s.ckpt
  BY <1>1, <1>3, <1>4, NoteFrom, SameBegun
<1> QED BY <1>2, <1>6, <1>7, <1>8, HandlersKeep

LEMMA DeleteStep ==
    ASSUME TInv, HandleDelete
    PROVE  TInv'
<1>1. /\ proc = "up" /\ sessions' \subseteq sessions
      /\ UNCHANGED <<envVars, runVars, liveVars, seq, orphans, procVars>>
  BY DEF HandleDelete, DeleteDay
<1>2. Table(sessions')
  BY <1>1, DeleteTable DEF TInv
<1>3. sessions' \subseteq Rows(1 .. seq)
  BY <1>1 DEF TInv, IInv, TypeOK
<1> QED BY <1>1, <1>2, <1>3, HandlersKeep

LEMMA TStepInv == TInv /\ [TrackerNext]_trackerVars => TInv'
<1> SUFFICES ASSUME TInv, [TrackerNext]_trackerVars PROVE TInv'
  OBVIOUS
<1>1. CASE Crash \/ Exit
  <2>1. ~Down
    BY <1>1 DEF Crash, Exit, Down
  <2> QED BY <1>1, <2>1, EndStep DEF Crash, Exit
<1>2. CASE World \/ Collect
  BY <1>2, WorldStep, CollectStep
<1>3. CASE Start \/ RecoverOne \/ RecoverFails \/ Up
  BY <1>3, StartStep, RecoverStep, RecoverFailsStep, UpStep
<1>4. CASE HandleReport \/ HandleSessionNote \/ HandleDelete
  BY <1>4, ReportStep, NoteStep, DeleteStep
<1>5. CASE UNCHANGED trackerVars
  BY <1>5 DEF trackerVars, procVars, vars, envVars, runVars, liveVars, dbVars,
     TInv, IInv, TypeOK, Control, PastOnly, Held, RowsDisjoint, ProcTypes, AtRest,
     TodoIsOpen, Cared, Unclosed, AllHeld, HeldId
<1> QED BY <1>1, <1>2, <1>3, <1>4, <1>5 DEF TrackerNext
-----------------------------------------------------------------------------
(* The theorems                                                            *)

THEOREM TrackerInvariance == TrackerSpec => []TInv
<1>1. TrackerInit => TInv
  BY TInitInv
<1>2. TInv /\ [TrackerNext]_trackerVars => TInv'
  BY TStepInv
<1> QED BY <1>1, <1>2, PTL DEF TrackerSpec

\* Type correctness of the whole program (main.go:22-135).
THEOREM TrackerTypeCorrect == TrackerSpec => []TrackerTypeOK
<1>1. TInv => TrackerTypeOK
  <2> SUFFICES ASSUME TInv PROVE TrackerTypeOK
    OBVIOUS
  <2>1. TypeOK /\ ProcTypes
    BY DEF TInv, IInv
  <2>2. todo \subseteq Rows(1 .. seq)
    BY DEF TInv, TodoIsOpen, OpenRows, IInv, TypeOK
  <2> QED BY <2>1, <2>2 DEF ProcTypes, TrackerTypeOK
<1> QED BY <1>1, TrackerInvariance, PTL

\* Sessions of different processes do not overlap either (collector.go:86-121;
\* sqlite.go:137-170).
THEOREM NoOverlapAcrossRestarts == TrackerSpec => []RowsDisjoint
<1>1. TInv => RowsDisjoint
  BY DEF TInv, IInv
<1> QED BY <1>1, TrackerInvariance, PTL

\* No row stays open beside the one Run holds but those whose close the store
\* refused (main.go:48, 84; sqlite.go:137-170).
THEOREM OneOpenWhoeverStarted == TrackerSpec => []OneOpenAcrossRestarts
<1>1. TInv => OneOpenAcrossRestarts
  BY DEF TInv, Cared, AllHeld, HeldId, Unclosed, OpenRows, OneOpenAcrossRestarts
<1> QED BY <1>1, TrackerInvariance, PTL

\* A note from a page of any age reaches its own session or none
\* (reportwindow.go:177-205; sqlite.go:268-279).
THEOREM NotesReachTheirSession == TrackerSpec => []NoteOnTheRightSession
<1>1. TInv => NoteOnTheRightSession
  BY DEF TInv, Table, NotesFit, NoteOnTheRightSession
<1> QED BY <1>1, TrackerInvariance, PTL

\* What a step may do to the table: close an open row or none, open the next,
\* note a finished one, delete a day.
LEMMA FiveWays ==
    ASSUME TInv, [TrackerNext]_trackerVars
    PROVE  \/ UNCHANGED <<sessions, seq>>
           \/ \E id, end, dur \in Nat :
                /\ sessions' = CloseSession(sessions, id, end, dur)
                /\ seq' = seq
                /\ \A r \in sessions : r.id = id => r.ckpt
           \/ /\ sessions' = OpenSession(sessions, seq + 1, evt, now)
              /\ seq' = seq + 1
           \/ \E card \in page :
                \E note \in {NoNote, [start |-> card.start, label |-> card.label]} :
                    sessions' = SetSessionNote(sessions, card.id, note) /\ seq' = seq
           \/ \E day \in {r.day : r \in sessions} :
                sessions' = DeleteDay(sessions, day) /\ seq' = seq
<1>1. CASE CloseDb
  <2>1. /\ sessions' = CloseSession(sessions, job.id, job.end, job.dur)
        /\ job.id \in Nat /\ job.end \in Nat /\ job.dur \in Nat /\ seq' = seq
    BY <1>1 DEF CloseDb, TInv, IInv, TypeOK, Control
  <2>2. \A r \in sessions : r.id = job.id => r.ckpt
    BY DEF TInv, IInv, Held
  <2> QED BY <2>1, <2>2
<1>2. CASE RecoverOne
  <2>1. PICK r \in todo : sessions' = RecoverCheckpoint(sessions, r)
    BY <1>2 DEF RecoverOne
  <2>2. proc = "recovering" /\ seq' = seq
    BY <1>2 DEF RecoverOne
  <2>3. r \in sessions /\ r.ckpt /\ r.id \in Nat /\ r.start \in Nat /\ r.dur \in Nat
    BY <2>2 DEF TInv, TodoIsOpen, OpenRows, IInv, TypeOK, Rows
  <2>4. \A q \in sessions : q.id = r.id => q.ckpt
    BY <2>3 DEF TInv, Table, UniqueIds
  <2> QED BY <2>1, <2>2, <2>3, <2>4 DEF RecoverCheckpoint
<1>3. CASE OpenDb
  BY <1>3 DEF OpenDb, NextId
<1>4. CASE HandleSessionNote
  BY <1>4 DEF HandleSessionNote
<1>5. CASE HandleDelete
  BY <1>5 DEF HandleDelete
<1>6. CASE UNCHANGED trackerVars
  BY <1>6 DEF trackerVars, vars, dbVars
<1>7. CASE World \/ Start \/ RecoverFails \/ Up \/ Crash \/ Exit \/ HandleReport
  BY <1>7 DEF World, Time, Tick, TickAtBound, UserInput, Start, RecoverFails, Up,
     Crash, Exit, ProcessEnds, HandleReport, vars, dbVars
<1>8. CASE Collect
  BY <1>1, <1>3, <1>8, WhoWrites DEF Collect
<1> QED BY <1>2, <1>4, <1>5, <1>6, <1>7, <1>8 DEF TrackerNext

\* The times of a finished session never change, whoever runs (sqlite.go:
\* 122-170, 207-214).
THEOREM TimesNeverChange == TrackerSpec => TimesStable
<1>1. TInv /\ [TrackerNext]_trackerVars =>
        [\A r \in sessions : ~r.ckpt =>
            \/ \E s \in sessions' : s = [r EXCEPT !.note = s.note]
            \/ \A s \in sessions' : s.day # r.day]_trackerVars
  <2> SUFFICES ASSUME TInv, [TrackerNext]_trackerVars, NEW r \in sessions, ~r.ckpt
               PROVE  \/ \E s \in sessions' : s = [r EXCEPT !.note = s.note]
                      \/ \A s \in sessions' : s.day # r.day
    OBVIOUS
  <2>1. sessions \in SUBSET Rows(1 .. seq) /\ seq \in Nat
    BY DEF TInv, IInv, TypeOK
  <2>2. r = [r EXCEPT !.note = r.note]
    BY <2>1 DEF Rows
  <2>3. CASE r \in sessions'
    BY <2>2, <2>3
  <2>4. ASSUME NEW id \in Nat, NEW end \in Nat, NEW dur \in Nat,
               sessions' = CloseSession(sessions, id, end, dur),
               \A q \in sessions : q.id = id => q.ckpt
        PROVE  r \in sessions'
    <3>1. r.id # id
      BY <2>4
    <3> QED BY <2>1, <2>4, <3>1, CloseKeeps
  <2>5. ASSUME NEW id, NEW note \in {NoNote} \cup [start : Nat, label : Names],
               sessions' = SetSessionNote(sessions, id, note)
        PROVE  \E s \in sessions' : s = [r EXCEPT !.note = s.note]
    <3>1. CASE r.id # id
      BY <2>1, <2>2, <2>5, <3>1, NoteKeeps
    <3>2. CASE r.id = id
      <4>1. [r EXCEPT !.note = note] \in sessions'
        BY <2>1, <2>5, <3>2, NoteKeeps
      <4>2. [r EXCEPT !.note = note].note = note
        BY <2>1 DEF Rows
      <4> QED BY <4>1, <4>2
    <3> QED BY <3>1, <3>2
  <2>6. ASSUME NEW day, sessions' = DeleteDay(sessions, day)
        PROVE  r \in sessions' \/ \A s \in sessions' : s.day # r.day
    BY <2>6 DEF DeleteDay
  <2>7. \A card \in page :
            [start |-> card.start, label |-> card.label] \in [start : Nat, label : Names]
    BY DEF TInv, ProcTypes
  <2>8. CASE sessions' = OpenSession(sessions, seq + 1, evt, now)
    BY <2>3, <2>8 DEF OpenSession
  <2> QED BY <2>3, <2>4, <2>5, <2>6, <2>7, <2>8, FiveWays
<1> QED BY <1>1, TrackerInvariance, PTL DEF TrackerSpec, TimesStable

\* A row that appears is a new one: nothing deleted returns (sqlite.go:127-129,
\* 207-214).
THEOREM DeletedNeverReturns == TrackerSpec => DeletedStaysDeleted
<1>1. TInv /\ [TrackerNext]_trackerVars =>
        [\A s \in sessions' : s.id <= seq => \E r \in sessions : r.id = s.id]_trackerVars
  <2> SUFFICES ASSUME TInv, [TrackerNext]_trackerVars, NEW s \in sessions', s.id <= seq
               PROVE  \E r \in sessions : r.id = s.id
    OBVIOUS
  <2>1. sessions \in SUBSET Rows(1 .. seq) /\ seq \in Nat
    BY DEF TInv, IInv, TypeOK
  <2>2. ASSUME NEW id \in Nat, NEW end \in Nat, NEW dur \in Nat,
               sessions' = CloseSession(sessions, id, end, dur)
        PROVE  \E r \in sessions : r.id = s.id
    BY <2>1, <2>2, CloseKeeps, SameBegun
  <2>3. ASSUME NEW id, NEW note \in {NoNote} \cup [start : Nat, label : Names],
               sessions' = SetSessionNote(sessions, id, note)
        PROVE  \E r \in sessions : r.id = s.id
    BY <2>1, <2>3, NoteFrom, SameBegun
  <2>4. CASE sessions' = OpenSession(sessions, seq + 1, evt, now)
    BY <2>1, <2>4 DEF OpenSession, NewRow
  <2>5. \A card \in page :
            [start |-> card.start, label |-> card.label] \in [start : Nat, label : Names]
    BY DEF TInv, ProcTypes
  <2>6. ASSUME NEW day, sessions' = DeleteDay(sessions, day)
        PROVE  \E r \in sessions : r.id = s.id
    BY <2>6 DEF DeleteDay
  <2> QED BY <2>2, <2>3, <2>4, <2>5, <2>6, FiveWays
<1> QED BY <1>1, TrackerInvariance, PTL DEF TrackerSpec, DeletedStaysDeleted
-----------------------------------------------------------------------------
(* The program implements the journal                                      *)

Live(rows) == {InProgress(r) : r \in OpenRows(rows)}
Done(rows) == {r \in rows : ~r.ckpt}

\* Closing an open row either drops it or finishes it.
LEMMA CloseJournal ==
    ASSUME NEW n \in Nat, NEW rows \in SUBSET Rows(1 .. n), Table(rows),
           NEW end \in Nat, NEW dur \in Nat, NEW r \in rows, r.ckpt
    PROVE  LET left == CloseSession(rows, r.id, end, dur)
           IN  /\ Live(left) = Live(rows) \ {InProgress(r)}
               /\ \/ Done(left) = Done(rows)
                  \/ \E h \in left :
                        /\ Done(left) = Done(rows) \cup {h}
                        /\ ~h.ckpt /\ h.id = r.id /\ InProgress(h) = InProgress(r)
                        /\ h.note = NoNote /\ h.dur >= MinSession
<1> DEFINE left == CloseSession(rows, r.id, end, dur)
<1>0. r.id \in Nat /\ UniqueIds(rows) /\ OpenIsBlank(rows)
  BY DEF Rows, Table
<1>1. /\ \A q \in rows : q.id # r.id => q \in left
      /\ \A s \in left :
            \/ s \in rows /\ s.id # r.id
            \/ /\ s.id = r.id /\ dur >= MinSession /\ s.dur = dur /\ ~s.ckpt
               /\ \E q \in rows : InProgress(q) = InProgress(s) /\ q.note = s.note
  BY <1>0, CloseKeeps
<1>2. \A s \in left : s.id = r.id =>
        InProgress(s) = InProgress(r) /\ s.note = NoNote
  BY <1>0, <1>1, SameBegun DEF UniqueIds, OpenIsBlank
<1>3. UniqueIds(left)
  BY <1>0, CloseSessionRows DEF UniqueIds
<1> HIDE DEF left
<1>4. \A q \in rows : q.id = r.id => q = r
  BY <1>0 DEF UniqueIds
<1>5. OpenRows(left) = OpenRows(rows) \ {r}
  BY <1>1, <1>4 DEF OpenRows
<1>6. \A q \in rows : q # r => InProgress(q) # InProgress(r)
  BY <1>4, SameBegun
<1>7. Live(left) = Live(rows) \ {InProgress(r)}
  BY <1>5, <1>6 DEF Live, OpenRows
<1>8. CASE \E h \in left : h.id = r.id
  <2>1. PICK h \in left : h.id = r.id
    BY <1>8
  <2>2. ~h.ckpt /\ h.dur >= MinSession
    BY <1>1, <2>1
  <2>3. \A s \in left : s.id = r.id => s = h
    BY <1>3, <2>1 DEF UniqueIds
  <2>4. Done(left) = Done(rows) \cup {h}
    BY <1>1, <1>4, <2>1, <2>2, <2>3 DEF Done
  <2> QED BY <1>2, <1>7, <2>1, <2>2, <2>4 DEF left
<1>9. CASE ~\E h \in left : h.id = r.id
  <2>1. Done(left) = Done(rows)
    BY <1>1, <1>4, <1>9 DEF Done
  <2> QED BY <1>7, <2>1 DEF left
<1> QED BY <1>8, <1>9

\* A close of an id that is not in the table does nothing.
LEMMA CloseNothing ==
    ASSUME NEW rows, NEW id, NEW end, NEW dur, \A r \in rows : r.id # id
    PROVE  CloseSession(rows, id, end, dur) = rows
BY DEF CloseSession

\* A note on a finished session touches neither what is in progress nor any
\* other session.
LEMMA NoteJournal ==
    ASSUME NEW n \in Nat, NEW rows \in SUBSET Rows(1 .. n), Table(rows),
           NEW h \in rows, ~h.ckpt,
           NEW note \in {NoNote} \cup [start : Nat, label : Names]
    PROVE  LET noted == SetSessionNote(rows, h.id, note)
           IN  /\ Live(noted) = Live(rows)
               /\ Done(noted) = (Done(rows) \ {h}) \cup {[h EXCEPT !.note = note]}
<1> DEFINE noted == SetSessionNote(rows, h.id, note)
           with == [h EXCEPT !.note = note]
<1>1. \A q \in rows : q.id = h.id => q = h
  BY DEF Table, UniqueIds
<1>2. ~with.ckpt
  BY DEF Rows
<1>3. /\ \A q \in rows : q.id # h.id => q \in noted
      /\ with \in noted
      /\ \A s \in noted : (s \in rows /\ s.id # h.id) \/ s = with
  BY <1>1, NoteKeeps
<1> HIDE DEF noted, with
<1>4. OpenRows(noted) = OpenRows(rows)
  BY <1>1, <1>2, <1>3 DEF OpenRows
<1>5. Live(noted) = Live(rows)
  BY <1>4 DEF Live
<1>6. Done(noted) = (Done(rows) \ {h}) \cup {with}
  BY <1>1, <1>2, <1>3 DEF Done
<1> QED BY <1>5, <1>6 DEF noted, with

\* A deletion takes from both what is of the day (sqlite.go:206-214).
LEMMA DeleteJournal ==
    ASSUME NEW rows, NEW day
    PROVE  /\ Live(DeleteDay(rows, day)) = {s \in Live(rows) : s.day # day}
           /\ Done(DeleteDay(rows, day)) = {h \in Done(rows) : h.day # day}
BY DEF Live, Done, OpenRows, DeleteDay, InProgress

LEMMA JournalStep ==
    ASSUME TInv, TInv', [TrackerNext]_trackerVars
    PROVE  Promise!JournalNext
            \/ UNCHANGED <<seq, Live(sessions), Done(sessions)>>
<1>0. sessions \in SUBSET Rows(1 .. seq) /\ seq \in Nat /\ Table(sessions)
  BY DEF TInv, IInv, TypeOK
<1>0a. Live(sessions)' = Live(sessions') /\ Done(sessions)' = Done(sessions')
  BY DEF Live, Done, OpenRows, InProgress
<1>1. ASSUME NEW id \in Nat, NEW end \in Nat, NEW dur \in Nat,
             sessions' = CloseSession(sessions, id, end, dur), seq' = seq,
             \A r \in sessions : r.id = id => r.ckpt
      PROVE  Promise!JournalNext \/ UNCHANGED <<seq, Live(sessions), Done(sessions)>>
  <2>1. CASE \E r \in sessions : r.id = id
    <3>1. PICK r \in sessions : r.id = id
      BY <2>1
    <3>2. r.ckpt
      BY <1>1, <3>1
    <3>3. Live(sessions)' = Live(sessions) \ {InProgress(r)}
      BY <1>0, <1>1, <1>0a, <3>1, <3>2, CloseJournal
    <3>4. \/ Done(sessions)' = Done(sessions)
          \/ \E h \in sessions' :
                /\ Done(sessions)' = Done(sessions) \cup {h}
                /\ ~h.ckpt /\ h.id = r.id /\ InProgress(h) = InProgress(r)
                /\ h.note = NoNote /\ h.dur >= MinSession
      BY <1>0, <1>1, <1>0a, <3>1, <3>2, CloseJournal
    <3>5. InProgress(r) \in Live(sessions)
      BY <3>1, <3>2 DEF Live, OpenRows
    <3>6. CASE Done(sessions)' = Done(sessions)
      <4>1. Promise!Drop
        BY <1>1, <3>3, <3>5, <3>6 DEF Promise!Drop, Live, Done
      <4> QED BY <4>1 DEF Promise!JournalNext
    <3>7. CASE \E h \in sessions' :
                /\ Done(sessions)' = Done(sessions) \cup {h}
                /\ ~h.ckpt /\ h.id = r.id /\ InProgress(h) = InProgress(r)
                /\ h.note = NoNote /\ h.dur >= MinSession
      <4>1. PICK h \in sessions' :
                /\ Done(sessions)' = Done(sessions) \cup {h}
                /\ ~h.ckpt /\ h.id = r.id /\ InProgress(h) = InProgress(r)
                /\ h.note = NoNote /\ h.dur >= MinSession
        BY <3>7
      <4>2. ASSUME NEW other \in Done(sessions)
            PROVE  h.end <= other.start \/ other.end <= h.start
        <5>1. other \in sessions' /\ ~other.ckpt
          BY <4>1, <4>2 DEF Done
        <5>2. other \in sessions /\ other.id \in Nat /\ h.id \in Nat
          BY <1>0, <3>1, <4>1, <4>2 DEF Done, Rows
        <5>3. other.id # h.id
          BY <1>0, <3>1, <3>2, <4>1, <4>2, <5>2 DEF Done, Table, UniqueIds
        <5> QED BY <4>1, <5>1, <5>2, <5>3 DEF TInv, IInv, RowsDisjoint
      <4>3. h \in Done(sessions)'
        BY <4>1
      <4>4. Promise!Begun(h) = InProgress(r)
        BY <4>1 DEF Promise!Begun, InProgress
      <4>5. Promise!Finish
        BY <1>1, <3>3, <3>5, <4>1, <4>2, <4>3, <4>4
           DEF Promise!Finish, Live, Done
      <4> QED BY <4>5 DEF Promise!JournalNext
    <3> QED BY <3>4, <3>6, <3>7
  <2>2. CASE ~\E r \in sessions : r.id = id
    BY <1>1, <2>2, CloseNothing DEF Live, Done
  <2> QED BY <2>1, <2>2
<1>2. ASSUME sessions' = OpenSession(sessions, seq + 1, evt, now), seq' = seq + 1
      PROVE  Promise!JournalNext
  <2> DEFINE row == NewRow(seq + 1, evt, now)
  <2>1. /\ row.id = seq + 1 /\ row.ckpt
        /\ InProgress(row).id = seq + 1 /\ InProgress(row).start = now
        /\ InProgress(row).type = evt.type /\ InProgress(row).label = evt.label
    BY DEF NewRow, InProgress
  <2>2. sessions' = sessions \cup {row}
    BY <1>2 DEF OpenSession
  <2>3. evt.type \in Names /\ evt.label \in Names
    BY DEF TInv, IInv, TypeOK, Context
  <2> HIDE DEF row
  <2>4. OpenRows(sessions') = OpenRows(sessions) \cup {row}
    BY <2>1, <2>2 DEF OpenRows
  <2>5. Live(sessions)' = Live(sessions) \cup {InProgress(row)}
    BY <2>4 DEF Live
  <2>6. Done(sessions)' = Done(sessions)
    BY <2>1, <2>2 DEF Done
  <2>7. \A h \in Done(sessions) : h.end <= now
    BY DEF Done, TInv, IInv, PastOnly
  <2>8. Promise!Begin
    BY <1>2, <2>1, <2>3, <2>5, <2>6, <2>7 DEF Promise!Begin, Live, Done
  <2> QED BY <2>8 DEF Promise!JournalNext
<1>3. ASSUME NEW card \in page,
             NEW note \in {NoNote, [start |-> card.start, label |-> card.label]},
             sessions' = SetSessionNote(sessions, card.id, note), seq' = seq
      PROVE  Promise!JournalNext \/ UNCHANGED <<seq, Live(sessions), Done(sessions)>>
  <2>1. CASE \E h \in sessions : h.id = card.id
    <3>1. PICK h \in sessions : h.id = card.id
      BY <2>1
    <3>2. ~h.ckpt /\ card.start = h.start /\ card.label = h.label
      BY <3>1 DEF TInv, CardsFit
    <3>3. note \in {NoNote, Promise!About(h)}
      BY <1>3, <3>2 DEF Promise!About
    <3>4. note \in {NoNote} \cup [start : Nat, label : Names]
      BY <1>3 DEF TInv, ProcTypes
    <3>5. /\ Live(sessions)' = Live(sessions)
          /\ Done(sessions)' = (Done(sessions) \ {h}) \cup {[h EXCEPT !.note = note]}
      BY <1>0, <1>3, <1>0a, <3>1, <3>2, <3>4, NoteJournal
    <3>6. h \in Done(sessions)
      BY <3>1, <3>2 DEF Done
    <3>7. Promise!Annotate
      BY <1>3, <3>3, <3>5, <3>6 DEF Promise!Annotate, Live, Done
    <3> QED BY <3>7 DEF Promise!JournalNext
  <2>2. CASE ~\E h \in sessions : h.id = card.id
    <3>1. sessions' = sessions
      BY <1>3, <2>2 DEF SetSessionNote
    <3> QED BY <1>3, <3>1 DEF Live, Done
  <2> QED BY <2>1, <2>2
<1>4. ASSUME NEW day \in {r.day : r \in sessions},
             sessions' = DeleteDay(sessions, day), seq' = seq
      PROVE  Promise!JournalNext
  <2>1. day \in {s.day : s \in Live(sessions) \cup Done(sessions)}
    <3>1. PICK r \in sessions : r.day = day
      BY <1>4
    <3>2. CASE r.ckpt
      <4>1. InProgress(r) \in Live(sessions) /\ InProgress(r).day = day
        BY <3>1, <3>2 DEF Live, OpenRows, InProgress
      <4> QED BY <4>1
    <3>3. CASE ~r.ckpt
      BY <3>1, <3>3 DEF Done
    <3> QED BY <3>2, <3>3
  <2>2. /\ Live(sessions)' = {s \in Live(sessions) : s.day # day}
        /\ Done(sessions)' = {h \in Done(sessions) : h.day # day}
    BY <1>4, DeleteJournal DEF Live, Done
  <2>3. Promise!Forget
    BY <1>4, <2>1, <2>2 DEF Promise!Forget, Live, Done
  <2> QED BY <2>3 DEF Promise!JournalNext
<1>5. CASE UNCHANGED <<sessions, seq>>
  BY <1>5 DEF Live, Done
<1> QED BY <1>1, <1>2, <1>3, <1>4, <1>5, FiveWays

\* The whole program, with its crashes, restarts and failing statements,
\* implements the journal (main.go:22-163; sqlite.go:97-214).
THEOREM TrackerImplementsJournal == TrackerSpec => JournalKept
<1>1. TrackerInit => Promise!JournalInit
  BY DEF TrackerInit, WorldInit, Promise!JournalInit, OpenRows
<1>2. TInv /\ TInv' /\ [TrackerNext]_trackerVars =>
        [Promise!JournalNext]_<<seq, {InProgress(r) : r \in OpenRows(sessions)},
                                {r \in sessions : ~r.ckpt}>>
  BY JournalStep DEF Live, Done
<1> QED BY <1>1, <1>2, TrackerInvariance, PTL
     DEF TrackerSpec, JournalKept, Promise!JournalSpec, Promise!journalVars
=============================================================================
