------------------------- MODULE WindowMonitorProofs -------------------------
(***************************************************************************)
(* The window monitor implements the stream of observations the collector  *)
(* relies on, for every set of windows, poll interval and capacity, on     *)
(* Windows and on Linux; Discover chooses the workspace used last, and the *)
(* resolver's misses settle, for every storage and number of requests; an  *)
(* editor with a legible title is recorded under its workspace's name.     *)
(***************************************************************************)
EXTENDS Workspaces, Lemmas, SequenceTheorems

\* The tick being handled is newer than the last event sent, a tick waiting
\* in the ticker's channel is newer than both, and neither is in the future;
\* only a goroutine that has returned has closed the channel.
Ticks ==
    /\ now \in Nat /\ lastTick \in Nat /\ tick \in Nat
    /\ tickC \in Nat \cup {NULL}
    /\ lastTick <= now /\ tick <= now /\ lastTick <= tick
    /\ tickC # NULL => tick < tickC /\ tickC <= now
    /\ pc \in {"title", "proc", "send"} => lastTick < tick

Chan ==
    /\ queue \in Seq([ts : Nat, ctx : Contexts])
    /\ ended \in BOOLEAN
    /\ ended => pc = "closed"

Read == front \in Windows /\ handle \in Windows /\ title \in Titles /\ proc \in Procs

MInv == Ticks /\ Chan /\ Read

LEMMA InitMInv == MonitorInit => MInv
<1> SUFFICES ASSUME MonitorInit PROVE MInv
  OBVIOUS
<1>1. Ticks
  BY DEF MonitorInit, Ticks, NULL
<1>2. Chan
  <2>1. queue \in Seq([ts : Nat, ctx : Contexts])
    BY DEF MonitorInit
  <2>2. ended \in BOOLEAN /\ ~ended
    BY DEF MonitorInit
  <2> QED
    BY <2>1, <2>2 DEF Chan
<1>3. Read
  BY DEF MonitorInit, Read, Titles, Procs
<1> QED
  BY <1>1, <1>2, <1>3 DEF MInv

LEMMA ClassifyIsContext ==
  ASSUME NEW p \in Procs, NEW t \in Titles
  PROVE  ContextOf[p][t] \in Contexts
  BY DEF Contexts

\* Only OnTick, Tick, Send and OnStop touch what MInv speaks of.
LEMMA NextMInv == MInv /\ [MonitorNext]_vars => MInv'
<1> SUFFICES ASSUME MInv, [MonitorNext]_vars PROVE MInv'
  OBVIOUS
<1> USE DEF MInv, Ticks, NULL
<1>1. CASE Tick
  <2>1. now' = now + 1 /\ (tickC' = now' \/ tickC' = tickC)
    BY <1>1 DEF Tick
  <2>2. Ticks'
    BY <1>1, <2>1 DEF Tick, runVars, chanVars
  <2> QED
    BY <1>1, <2>2 DEF Tick, runVars, chanVars, Chan, Read
<1>2. CASE SwitchWindow
  BY <1>2 DEF SwitchWindow, runVars, chanVars, Chan, Read
<1>3. CASE Stop
  BY <1>3 DEF Stop, runVars, chanVars, Chan, Read
<1>4. CASE Receive
  <2>1. queue' \in Seq([ts : Nat, ctx : Contexts])
    BY <1>4 DEF Receive, Chan
  <2> QED
    BY <1>4, <2>1 DEF Receive, runVars, Chan, Read
<1>5. CASE OnStop
  BY <1>5 DEF OnStop, Chan, Read
<1>6. CASE OnTick
  BY <1>6 DEF OnTick, chanVars, Chan, Read
<1>7. CASE NoTitle
  BY <1>7 DEF NoTitle, chanVars, Chan, Read
<1>8. CASE ReadTitle
  <2>1. title' \in Titles /\ handle' \in Windows
    BY <1>8 DEF ReadTitle, Read, Titles
  <2> QED
    BY <1>8, <2>1 DEF ReadTitle, chanVars, Chan, Read
<1>9. CASE ReadProc
  <2>1. proc' \in Procs
    BY <1>9 DEF ReadProc, Read, Procs
  <2> QED
    BY <1>9, <2>1 DEF ReadProc, chanVars, Chan, Read
<1>10. CASE NoProcess
  <2>1. proc' \in Procs
    BY <1>10 DEF NoProcess, Procs
  <2> QED
    BY <1>10, <2>1 DEF NoProcess, chanVars, Chan, Read
<1>11. CASE Send
  <2>1. ContextOf[proc][title] \in Contexts
    BY ClassifyIsContext DEF Read
  <2>2. [ts |-> tick, ctx |-> ContextOf[proc][title]] \in [ts : Nat, ctx : Contexts]
    BY <2>1
  <2>3. queue' \in Seq([ts : Nat, ctx : Contexts])
    BY <1>11, <2>2 DEF Send, Chan
  <2>4. Chan'
    BY <1>11, <2>3 DEF Send, Chan
  <2>5. Ticks'
    BY <1>11 DEF Send
  <2> QED
    BY <1>11, <2>4, <2>5 DEF Send, Read
<1>12. CASE Drop
  BY <1>12 DEF Drop, chanVars, Chan, Read
<1>13. CASE UNCHANGED vars
  BY <1>13 DEF vars, runVars, chanVars, Chan, Read
<1> QED
  BY <1>1, <1>2, <1>3, <1>4, <1>5, <1>6, <1>7, <1>8, <1>9, <1>10, <1>11,
     <1>12, <1>13 DEF MonitorNext, Poll, Terminated

\* Every step of the monitor, its user and its reader is a step of the stream
\* or leaves it alone.
LEMMA StepRefines ==
  MInv /\ [MonitorNext]_vars => [Stream!StreamNext]_<<now, lastTick, queue, ended>>
<1> SUFFICES ASSUME MInv, [MonitorNext]_vars
             PROVE  Stream!StreamNext \/ UNCHANGED <<now, lastTick, queue, ended>>
  OBVIOUS
<1>1. CASE Tick
  BY <1>1 DEF Tick, chanVars, Stream!StreamNext, Stream!TimePasses
<1>2. CASE Receive
  BY <1>2 DEF Receive, Stream!StreamNext, Stream!Take
<1>3. CASE OnStop
  <2>1. ended = FALSE
    BY <1>3 DEF OnStop, MInv, Chan
  <2> QED
    BY <1>3, <2>1 DEF OnStop, Stream!StreamNext, Stream!Close
<1>4. CASE Send
  <2>1. ended = FALSE
    BY <1>4 DEF Send, MInv, Chan
  <2>2. ContextOf[proc][title] \in Contexts
    BY ClassifyIsContext DEF MInv, Read
  <2>3. tick \in lastTick + 1 .. now
    BY <1>4 DEF Send, MInv, Ticks
  <2>4. Stream!Send
    BY <1>4, <2>1, <2>2, <2>3 DEF Send, Stream!Send
  <2> QED
    BY <2>4 DEF Stream!StreamNext
<1>5. CASE SwitchWindow \/ Stop \/ UNCHANGED vars
  BY <1>5 DEF SwitchWindow, Stop, vars, chanVars
<1>6. CASE OnTick \/ NoTitle \/ ReadTitle \/ ReadProc \/ NoProcess \/ Drop
  BY <1>6 DEF OnTick, NoTitle, ReadTitle, ReadProc, NoProcess, Drop, chanVars
<1> QED
  BY <1>1, <1>2, <1>3, <1>4, <1>5, <1>6 DEF MonitorNext, Poll, Terminated

LEMMA MonitorInvariance == MonitorSpec => []MInv
<1>1. MInv /\ [MonitorNext]_vars => MInv'
  BY NextMInv
<1> QED
  BY InitMInv, <1>1, PTL DEF MonitorSpec

\* The window monitor keeps the promise of monitor.Monitor: the refinement
\* holds for every set of windows, poll interval and channel capacity.
THEOREM MonitorImplementsStream == MonitorSpec => StreamRefined
<1>1. MonitorInit => Stream!StreamInit
  BY DEF MonitorInit, Stream!StreamInit
<1>2. MInv /\ [MonitorNext]_vars => [Stream!StreamNext]_<<now, lastTick, queue, ended>>
  BY StepRefines
<1> QED
  BY <1>1, <1>2, MonitorInvariance, PTL
  DEF MonitorSpec, StreamRefined, Stream!StreamSpec, Stream!streamVars

-----------------------------------------------------------------------------
\* What run holds between the two questions is what one window was.
OneWindow ==
    /\ handle \in Windows
    /\ pc \in {"proc", "send"} => title = handle.title
    /\ pc = "send" => proc = NoProc \/ proc = handle.proc

LEMMA OneWindowStep ==
  ASSUME OneHandle
  PROVE  MInv /\ OneWindow /\ [MonitorNext]_vars => OneWindow'
<1> SUFFICES ASSUME MInv, OneWindow, [MonitorNext]_vars PROVE OneWindow'
  OBVIOUS
<1> USE DEF OneWindow
<1>1. CASE Tick
  BY <1>1 DEF Tick, runVars
<1>2. CASE SwitchWindow \/ Stop
  BY <1>2 DEF SwitchWindow, Stop, runVars
<1>3. CASE Receive
  BY <1>3 DEF Receive, runVars
<1>4. CASE OnStop \/ OnTick \/ NoTitle
  BY <1>4 DEF OnStop, OnTick, NoTitle
<1>5. CASE ReadTitle
  BY <1>5 DEF ReadTitle, MInv, Read
<1>6. CASE ReadProc
  BY <1>6 DEF ReadProc
<1>7. CASE NoProcess
  BY <1>7 DEF NoProcess
<1>8. CASE Send \/ Drop
  BY <1>8 DEF Send, Drop
<1>9. CASE UNCHANGED vars \/ Terminated
  BY <1>9 DEF Terminated, vars, runVars
<1> QED
  BY <1>1, <1>2, <1>3, <1>4, <1>5, <1>6, <1>7, <1>8, <1>9 DEF MonitorNext, Poll

\* On Windows every observation is of one window, however often the user
\* switches and whatever the windows are (window_windows.go:20-52).
THEOREM OneHandleOneWindow ==
  ASSUME OneHandle
  PROVE  MonitorSpec => []ObservationIsOneWindow
<1>1. MonitorInit => OneWindow
  BY DEF MonitorInit, OneWindow
<1>2. MInv /\ OneWindow /\ [MonitorNext]_vars => OneWindow'
  BY OneWindowStep
<1>3. OneWindow => ObservationIsOneWindow
  BY DEF OneWindow, ObservationIsOneWindow
<1> QED
  BY MonitorInvariance, <1>1, <1>2, <1>3, PTL DEF MonitorSpec

-----------------------------------------------------------------------------
(* Beside Discover and the resolver                                        *)

\* What the collector, Discover and the resolver do is a step of the monitor,
\* or none.
LEMMA WorkspacesStepIsMonitors == [WorkspacesNext]_allVars => [MonitorNext]_vars
<1> SUFFICES ASSUME [WorkspacesNext]_allVars PROVE [MonitorNext]_vars
  OBVIOUS
<1>1. CASE Watch \/ Record
  BY <1>1 DEF Watch, Record, MonitorNext
<1>2. CASE Touch \/ Discover
  BY <1>2 DEF Touch, Discover, Skip, Candidate
<1>3. CASE Resolve
  BY <1>3 DEF Resolve, Call, Look, Log, Logged
<1>4. CASE UNCHANGED allVars \/ Terminated \/ Fatal
  BY <1>4 DEF allVars, Terminated, Fatal
<1> QED
  BY <1>1, <1>2, <1>3, <1>4 DEF WorkspacesNext

LEMMA OneWindowThroughout ==
  ASSUME OneHandle
  PROVE  WorkspacesSpec => [](MInv /\ OneWindow)
<1>1. WorkspacesInit => MInv /\ OneWindow
  BY InitMInv DEF WorkspacesInit, MonitorInit, OneWindow
<1>2. MInv /\ OneWindow /\ [WorkspacesNext]_allVars => (MInv /\ OneWindow)'
  BY WorkspacesStepIsMonitors, NextMInv, OneWindowStep
<1> QED
  BY <1>1, <1>2, PTL DEF WorkspacesSpec

\* What is recorded of a window is so beside Discover and the resolver, too
\* (window_windows.go:20-52; main.go:85-125).
THEOREM WorkspacesObserveOneWindow ==
  ASSUME OneHandle
  PROVE  WorkspacesSpec => []ObservationIsOneWindow
<1>1. OneWindow => ObservationIsOneWindow
  BY DEF OneWindow, ObservationIsOneWindow
<1> QED
  BY OneWindowThroughout, <1>1, PTL

\* The monitor keeps its promise beside Discover and the resolver, as well
\* (window.go:40-70; main.go:85-125).
THEOREM WorkspacesKeepStream == WorkspacesSpec => StreamRefined
<1>1. WorkspacesInit => MInv /\ Stream!StreamInit
  BY InitMInv DEF WorkspacesInit, MonitorInit, Stream!StreamInit
<1>2. MInv /\ [WorkspacesNext]_allVars => MInv'
  BY WorkspacesStepIsMonitors, NextMInv
<1>3. MInv /\ [WorkspacesNext]_allVars
        => [Stream!StreamNext]_<<now, lastTick, queue, ended>>
  BY WorkspacesStepIsMonitors, StepRefines
<1> QED
  BY <1>1, <1>2, <1>3, PTL
  DEF WorkspacesSpec, StreamRefined, Stream!StreamSpec, Stream!streamVars

-----------------------------------------------------------------------------
(* Discover                                                                *)

\* The records of a storage are those it was made of.
LEMMA StorageFacts ==
    /\ Len(Storage) \in Nat /\ DOMAIN Storage = 1 .. Len(Storage)
    /\ \A k \in DOMAIN Storage : Storage[k].written \in Nat
BY WorkspacesAssumption

\* The files of a storage have a latest modification time.
LEMMA WrittenIsBounded ==
    \E b \in Nat : \A k \in DOMAIN Storage : Storage[k].written <= b
<1> DEFINE S == {n \in Nat : n <= Len(Storage) =>
                    \E b \in Nat : \A k \in 1 .. n : Storage[k].written <= b}
<1>1. 0 \in S
  OBVIOUS
<1>2. ASSUME NEW n \in S, n \in Nat PROVE n + 1 \in S
  <2> SUFFICES ASSUME n + 1 <= Len(Storage)
      PROVE  \E b \in Nat : \A k \in 1 .. n + 1 : Storage[k].written <= b
    BY <1>2
  <2>1. PICK b \in Nat : \A k \in 1 .. n : Storage[k].written <= b
    BY <1>2, StorageFacts
  <2>2. Storage[n + 1].written \in Nat
    BY <1>2, StorageFacts
  <2> DEFINE c == b + Storage[n + 1].written
  <2>3. c \in Nat
    BY <2>2
  <2>4. ASSUME NEW k \in 1 .. n + 1 PROVE Storage[k].written <= c
    <3>1. Storage[k].written \in Nat
      BY <1>2, StorageFacts
    <3>2. CASE k = n + 1
      BY <2>2, <3>2
    <3>3. CASE k \in 1 .. n
      BY <2>1, <2>2, <3>1, <3>3
    <3> QED BY <1>2, <3>2, <3>3
  <2> HIDE DEF c
  <2> QED BY <2>3, <2>4
<1>3. Len(Storage) \in S
  <2>1. S \in SUBSET Nat /\ 0 \in S /\ \A n \in S : n + 1 \in S
    BY <1>1, <1>2
  <2> HIDE DEF S
  <2>2. S = Nat
    BY <2>1, NaturalsOf
  <2> QED BY <2>2, StorageFacts
<1>4. \E b \in Nat : \A k \in 1 .. Len(Storage) : Storage[k].written <= b
  <2>1. Len(Storage) <= Len(Storage)
    BY StorageFacts
  <2> QED BY <1>3, <2>1
<1> HIDE DEF S
<1> QED BY <1>4, StorageFacts

\* Newer than any: the time of what is written while Discover runs.
Top == CHOOSE m \in {Storage[j].written : j \in DOMAIN Storage} :
                  \A j \in DOMAIN Storage : Storage[j].written <= m

LEMMA TopIsLatest ==
    ASSUME DOMAIN Storage # {}
    PROVE  Top \in Nat /\ \A j \in DOMAIN Storage : Storage[j].written <= Top
<1> DEFINE W == {Storage[j].written : j \in DOMAIN Storage}
<1>1. W \in SUBSET Nat
  BY StorageFacts
<1>2. W # {}
  OBVIOUS
<1>3. Top \in W /\ \A j \in DOMAIN Storage : Storage[j].written <= Top
  <2>1. PICK b \in Nat : \A j \in DOMAIN Storage : Storage[j].written <= b
    BY WrittenIsBounded
  <2>2. \A x \in W : x <= b
    BY <2>1
  <2>3. PICK m \in W : \A x \in W : m >= x
    <3> HIDE DEF W
    <3> QED BY <1>1, <1>2, <2>2, GreatestNatural
  <2>4. \A j \in DOMAIN Storage : Storage[j].written \in W
    OBVIOUS
  <2>5. \A j \in DOMAIN Storage : Storage[j].written <= m
    BY <1>1, <2>3, <2>4
  <2>6. Top = CHOOSE x \in W : \A j \in DOMAIN Storage : Storage[j].written <= x
    BY DEF Top
  <2> HIDE DEF W
  <2> QED BY <2>5, <2>6
<1> QED BY <1>1, <1>3

\* A file keeps its time or gets one later than all of them (discover.go:142).
LEMMA MtimeFacts ==
    ASSUME NEW k \in DOMAIN Storage
    PROVE  /\ Mtime(k) \in Nat
           /\ k \notin touched => Mtime(k) = Storage[k].written
           /\ k \in touched => \A j \in DOMAIN Storage : Storage[j].written < Mtime(k)
<1>1. Mtime(k) = IF k \in touched THEN 1 + Top ELSE Storage[k].written
  BY DEF Mtime, Top
<1> QED BY <1>1, TopIsLatest, StorageFacts

\* The map has, for every name seen so far, an entry of that name whose time
\* is no earlier than that of any entry passed and left alone; an entry of the
\* map that is written again only becomes more recent.
DInv ==
    /\ entry \in 1 .. Len(Storage) + 1
    /\ touched \subseteq DOMAIN Storage
    /\ \A n \in DOMAIN byName :
        /\ byName[n].of \in 1 .. entry - 1 /\ byName[n].mtime \in Nat
        /\ byName[n].mtime <= Mtime(byName[n].of)
        /\ Storage[byName[n].of].name = n
    /\ \A k \in 1 .. entry - 1 : k \notin touched /\ Usable(k) =>
        /\ Storage[k].name \in DOMAIN byName
        /\ Storage[k].written <= byName[Storage[k].name].mtime

LEMMA TouchStep == DInv /\ Touch => DInv'
<1> SUFFICES ASSUME DInv, Touch PROVE DInv'
  OBVIOUS
<1>1. PICK t \in DOMAIN Storage \ touched : touched' = touched \cup {t}
  BY DEF Touch
<1>2. entry' = entry /\ byName' = byName /\ touched' \subseteq DOMAIN Storage
  BY <1>1 DEF Touch, DInv
<1>3. ASSUME NEW k \in DOMAIN Storage PROVE Mtime(k)' \in Nat /\ Mtime(k) <= Mtime(k)'
  <2>1. CASE k = t
    <3>1. Mtime(k) = Storage[k].written
      BY <1>1, <2>1, MtimeFacts
    <3>2. Mtime(k)' = 1 + Top
      BY <1>1, <2>1 DEF Mtime, Top
    <3> QED BY <3>1, <3>2, TopIsLatest, StorageFacts
  <2>2. CASE k # t
    <3>1. Mtime(k)' = Mtime(k)
      BY <1>1, <2>2 DEF Mtime
    <3> QED BY <3>1, MtimeFacts
  <2> QED BY <2>1, <2>2
<1>4. ASSUME NEW n \in DOMAIN byName
      PROVE  \A k : k = byName[n].of => byName[n].mtime <= Mtime(k)'
  <2>1. PICK k \in DOMAIN Storage : k = byName[n].of
    BY StorageFacts DEF DInv
  <2>2. Mtime(k) \in Nat /\ Mtime(k)' \in Nat /\ Mtime(k) <= Mtime(k)'
    BY <1>3, MtimeFacts
  <2>3. byName[n].mtime \in Nat /\ byName[n].mtime <= Mtime(k)
    BY <2>1 DEF DInv
  <2> QED BY <2>1, <2>2, <2>3
<1> QED BY <1>1, <1>2, <1>4 DEF DInv, Usable
\* An entry that is passed over, and one that is a candidate for its name
\* (discover.go:87-144).
LEMMA DiscoverStep == DInv /\ Discover => DInv'
<1> SUFFICES ASSUME DInv, Discover PROVE DInv'
  OBVIOUS
<1>1. /\ entry \in DOMAIN Storage /\ entry \in Nat /\ entry' = entry + 1
      /\ touched' = touched
  BY StorageFacts DEF Discover, Skip, Candidate, Scanned, DInv
<1>2. \A k : Mtime(k)' = Mtime(k)
  BY <1>1 DEF Mtime
<1>3. entry' \in 1 .. Len(Storage) + 1
  BY <1>1, StorageFacts
<1>4. CASE Skip
  <2>1. byName' = byName /\ ~Usable(entry)
    BY <1>4 DEF Skip
  <2>2. \A k \in 1 .. entry' - 1 : Usable(k) => k \in 1 .. entry - 1
    BY <1>1, <2>1
  <2>3. \A k \in 1 .. entry - 1 : k \in 1 .. entry' - 1
    BY <1>1
  <2> QED BY <1>1, <1>2, <1>3, <2>1, <2>2, <2>3 DEF DInv, Usable
<1>5. CASE Candidate
  <2> DEFINE name == Storage[entry].name
             mtime == Mtime(entry)
             better == name \notin DOMAIN byName \/ byName[name].mtime < mtime
  <2>1. Usable(entry) /\ byName' = IF better THEN Put(name, [of |-> entry, mtime |-> mtime])
                                   ELSE byName
    BY <1>5 DEF Candidate
  <2>2. mtime \in Nat /\ (entry \notin touched => mtime = Storage[entry].written)
    BY <1>1, MtimeFacts
  <2>3. /\ DOMAIN byName' = DOMAIN byName \cup {name}
        /\ \A n \in DOMAIN byName' :
            \/ n # name /\ byName'[n] = byName[n]
            \/ n = name /\ better /\ byName'[n] = [of |-> entry, mtime |-> mtime]
            \/ n = name /\ ~better /\ byName'[n] = byName[n]
    <3>1. CASE better
      <4> HIDE DEF name, mtime
      <4> QED BY <2>1, <3>1 DEF Put
    <3>2. CASE ~better
      BY <2>1, <3>2
    <3> QED BY <3>1, <3>2
  <2>4. ASSUME NEW n \in DOMAIN byName'
        PROVE  /\ byName'[n].of \in 1 .. entry' - 1 /\ byName'[n].mtime \in Nat
               /\ byName'[n].mtime <= Mtime(byName'[n].of)
               /\ Storage[byName'[n].of].name = n
    <3>1. CASE byName'[n] = [of |-> entry, mtime |-> mtime]
      <4>1. byName'[n].of = entry /\ byName'[n].mtime = mtime
        BY <3>1
      <4>2. Mtime(byName'[n].of) = mtime
        BY <4>1
      <4>3. entry \in 1 .. entry' - 1 /\ mtime <= mtime
        BY <1>1, <2>2 DEF DInv
      <4>4. Storage[entry].name = n
        BY <2>3, <2>4, <3>1, <1>1 DEF DInv
      <4> HIDE DEF mtime
      <4> QED BY <2>2, <4>1, <4>2, <4>3, <4>4
    <3>2. CASE n \in DOMAIN byName /\ byName'[n] = byName[n]
      BY <1>1, <3>2 DEF DInv
    <3> HIDE DEF mtime
    <3> QED BY <2>3, <3>1, <3>2
  <2>5. ASSUME NEW n \in DOMAIN byName
        PROVE  n \in DOMAIN byName' /\ byName[n].mtime <= byName'[n].mtime
    <3>1. byName[n].mtime \in Nat
      BY DEF DInv
    <3>2. n \in DOMAIN byName'
      BY <2>3
    <3>3. CASE byName'[n] = byName[n]
      BY <3>1, <3>2, <3>3
    <3>4. CASE n = name /\ better /\ byName'[n] = [of |-> entry, mtime |-> mtime]
      <4>1. byName'[n].mtime = mtime /\ byName[n].mtime < mtime
        BY <3>4
      <4> HIDE DEF mtime, better, name
      <4> QED BY <2>2, <3>1, <3>2, <4>1
    <3> HIDE DEF mtime, name, better
    <3> QED BY <2>3, <3>2, <3>3, <3>4
  <2>6. ~better => name \in DOMAIN byName /\ mtime <= byName[name].mtime
    <3>1. name \in DOMAIN byName => byName[name].mtime \in Nat
      BY DEF DInv
    <3> HIDE DEF mtime, name
    <3> QED BY <2>2, <3>1
  <2>7. ASSUME NEW k \in 1 .. entry' - 1, k \notin touched, Usable(k)
        PROVE  /\ Storage[k].name \in DOMAIN byName'
               /\ Storage[k].written <= byName'[Storage[k].name].mtime
    <3>1. CASE k = entry
      <4>1. byName'[name].mtime \in Nat /\ mtime <= byName'[name].mtime
        <5> HIDE DEF name, mtime
        <5> QED BY <2>2, <2>3, <2>4, <2>6
      <4> QED BY <2>2, <2>3, <2>7, <3>1, <4>1
    <3>2. CASE k \in 1 .. entry - 1
      <4> DEFINE m == Storage[k].name
      <4>1. m \in DOMAIN byName /\ Storage[k].written <= byName[m].mtime
        BY <2>7, <3>2 DEF DInv
      <4>2. Storage[k].written \in Nat
        BY <1>1, <3>2, StorageFacts
      <4>3. m \in DOMAIN byName' /\ byName[m].mtime <= byName'[m].mtime
        BY <2>5, <4>1
      <4>4. byName[m].mtime \in Nat /\ byName'[m].mtime \in Nat
        BY <2>4, <4>1, <4>3 DEF DInv
      <4> HIDE DEF m
      <4>5. Storage[k].written <= byName'[m].mtime
        BY <4>1, <4>2, <4>3, <4>4
      <4> QED BY <4>3, <4>5 DEF m
    <3> QED BY <1>1, <3>1, <3>2
  <2> QED BY <1>1, <1>2, <1>3, <2>4, <2>7 DEF DInv, Usable
<1> QED BY <1>4, <1>5 DEF Discover

THEOREM DiscoverInvariance == WorkspacesSpec => []DInv
<1>1. WorkspacesInit => DInv
  BY StorageFacts DEF WorkspacesInit, DInv
<1>2. DInv /\ [WorkspacesNext]_allVars => DInv'
  <2> SUFFICES ASSUME DInv, [WorkspacesNext]_allVars PROVE DInv'
    OBVIOUS
  <2>1. CASE Touch
    BY <2>1, TouchStep
  <2>2. CASE Discover
    BY <2>2, DiscoverStep
  <2>3. CASE UNCHANGED discoverVars
    BY <2>3 DEF discoverVars, DInv, Mtime, Usable
  <2>4. CASE Watch \/ Record \/ (Terminated /\ UNCHANGED workspacesVars)
    BY <2>3, <2>4 DEF Watch, Record, workspacesVars
  <2>5. CASE Resolve
    BY <2>3, <2>5 DEF Resolve, Call, Look, Log, Logged
  <2>6. CASE UNCHANGED allVars \/ Fatal
    BY <2>3, <2>6 DEF allVars, workspacesVars, Fatal
  <2> QED
    BY <2>1, <2>2, <2>4, <2>5, <2>6 DEF WorkspacesNext
<1> QED
  BY <1>1, <1>2, PTL DEF WorkspacesSpec

\* Of several workspaces of one name the map has the one used last, in every
\* storage and whatever is written while Discover runs (discover.go:77-144).
THEOREM ChosenIsMostRecent == WorkspacesSpec => []MostRecentWins
<1>1. DInv => MostRecentWins
  <2> SUFFICES ASSUME DInv, Scanned, NEW k \in DOMAIN Storage \ touched, Usable(k)
      PROVE  /\ Storage[k].name \in DOMAIN byName
             /\ Storage[byName[Storage[k].name].of].name = Storage[k].name
             /\ Mtime(k) <= Mtime(byName[Storage[k].name].of)
    BY DEF MostRecentWins
  <2> DEFINE n == Storage[k].name
  <2>1. k \in 1 .. entry - 1
    BY StorageFacts DEF DInv, Scanned
  <2>2. n \in DOMAIN byName /\ Storage[k].written <= byName[n].mtime
    BY <2>1 DEF DInv
  <2>3. byName[n].mtime \in Nat /\ byName[n].mtime <= Mtime(byName[n].of)
    BY <2>2 DEF DInv
  <2>4. byName[n].of \in DOMAIN Storage
    BY <2>2, StorageFacts DEF DInv
  <2>5. Mtime(byName[n].of) \in Nat
    BY <2>4, MtimeFacts
  <2>7. Mtime(k) = Storage[k].written /\ Mtime(k) \in Nat
    BY MtimeFacts
  <2>8. Storage[byName[n].of].name = n
    BY <2>2 DEF DInv
  <2> HIDE DEF n
  <2>6. Mtime(k) <= Mtime(byName[n].of)
    BY <2>2, <2>3, <2>5, <2>7
  <2> QED BY <2>2, <2>6, <2>8 DEF n
<1> QED
  BY <1>1, DiscoverInvariance, PTL

-----------------------------------------------------------------------------
(* The resolver                                                            *)

\* What is known to a call is in the map, and nothing that it reads races; so
\* no call that goes on to write knew the name.
Sound(call) ==
    /\ call.known => call.at = "look" /\ ~call.raced /\ call.name \in missLogged
    /\ call = At(call.at, call.name, call.raced, call.known)

ResolverInv ==
    /\ calls = [r \in Reqs |-> calls[r]]
    /\ \A r \in Reqs : Sound(calls[r])
    /\ died => \E r \in Reqs : calls[r].at = "write"

LEMMA FieldsOfCall ==
    ASSUME NEW where, NEW name, NEW raced, NEW known
    PROVE  /\ At(where, name, raced, known).at = where
           /\ At(where, name, raced, known).name = name
           /\ At(where, name, raced, known).raced = raced
           /\ At(where, name, raced, known).known = known
BY DEF At

\* A step of one call leaves the others as they were.
LEMMA OneCallSteps ==
    ASSUME ResolverInv, NEW r \in Reqs, NEW call, Sound(call)',
           calls' = [calls EXCEPT ![r] = call],
           missLogged \subseteq missLogged', ~died'
    PROVE  ResolverInv'
<1>1. calls' = [q \in Reqs |-> IF q = r THEN call ELSE calls[q]]
  BY DEF ResolverInv
<1>2. ASSUME NEW q \in Reqs, q # r PROVE Sound(calls[q])'
  <2>1. calls'[q] = calls[q] /\ Sound(calls[q])
    BY <1>1, <1>2 DEF ResolverInv
  <2> QED BY <2>1 DEF Sound
<1>3. \A q \in Reqs : Sound(calls[q])'
  <2> SUFFICES ASSUME NEW q \in Reqs PROVE Sound(calls[q])'
    OBVIOUS
  <2>1. CASE q = r
    <3>1. calls'[q] = call
      BY <1>1, <2>1
    <3> QED BY <3>1 DEF Sound
  <2> QED BY <1>2, <2>1
<1> QED BY <1>1, <1>3 DEF ResolverInv

LEMMA CallStep ==
    ASSUME ResolverInv, ~died, NEW r \in Reqs, Call(r) PROVE ResolverInv'
<1>1. PICK name :
        /\ calls' = [calls EXCEPT ![r] =
                        At("look", name, Writing, name \in missLogged /\ ~Writing)]
        /\ missLogged' = missLogged /\ died' = died
  BY DEF Call
<1>2. PICK call : call = At("look", name, Writing, name \in missLogged /\ ~Writing)
  OBVIOUS
<1>3. /\ call.at = "look" /\ call.name = name /\ call.raced = Writing
      /\ call.known = (name \in missLogged /\ ~Writing)
  BY <1>2, FieldsOfCall
<1>4. Sound(call)'
  BY <1>1, <1>2, <1>3 DEF Sound
<1> QED BY <1>1, <1>2, <1>4, OneCallSteps DEF ResolverInv

LEMMA IdleIsSound == Sound(Idle)' /\ Sound(Idle)
<1>1. /\ Idle.at = "idle" /\ Idle.name = NoName
      /\ Idle.raced = FALSE /\ Idle.known = FALSE
  <2>1. PICK no : no = FALSE
    OBVIOUS
  <2>2. Idle = At("idle", NoName, no, no)
    BY <2>1, Zenon DEF Idle
  <2> QED BY <2>1, <2>2, FieldsOfCall
<1>2. Idle = At(Idle.at, Idle.name, Idle.raced, Idle.known) /\ ~Idle.known
  BY <1>1, Zenon DEF Idle
<1> QED BY <1>2 DEF Sound

LEMMA LookStep ==
    ASSUME ResolverInv, ~died, NEW r \in Reqs, Look(r) PROVE ResolverInv'
<1>1. PICK found \in IF calls[r].raced THEN BOOLEAN ELSE {calls[r].name \in missLogged} :
        /\ calls' = [calls EXCEPT ![r] = IF found THEN Idle
                        ELSE At("miss", calls[r].name, FALSE, calls[r].known)]
        /\ missLogged' = missLogged /\ died' = died
  BY DEF Look
<1>2. CASE found
  BY <1>1, <1>2, IdleIsSound, OneCallSteps
<1>3. CASE ~found
  <2>1. ~calls[r].known
    BY <1>1, <1>3 DEF ResolverInv, Sound
  <2>2. PICK call : call = At("miss", calls[r].name, FALSE, calls[r].known)
    OBVIOUS
  <2>3. Sound(call)'
    <3>1. /\ call.at = "miss" /\ call.name = calls[r].name
          /\ call.raced = FALSE /\ call.known = calls[r].known
      <4>1. PICK no : no = FALSE
        OBVIOUS
      <4>2. call = At("miss", calls[r].name, no, calls[r].known)
        BY <2>2, <4>1, Zenon
      <4> QED BY <4>1, <4>2, FieldsOfCall
    <3>2. call = At(call.at, call.name, call.raced, call.known) /\ ~call.known
      BY <2>1, <2>2, <3>1, Zenon
    <3> QED BY <3>2 DEF Sound
  <2>4. calls' = [calls EXCEPT ![r] = call]
    BY <1>1, <1>3, <2>2
  <2> QED BY <1>1, <2>3, <2>4, OneCallSteps
<1> QED BY <1>2, <1>3

LEMMA LogStep ==
    ASSUME ResolverInv, ~died, NEW r \in Reqs, Log(r) PROVE ResolverInv'
<1>1. /\ calls[r].at = "miss" /\ missLogged' = missLogged /\ died' = died
      /\ calls' = [q \in Reqs |->
                    IF q = r THEN At("write", calls[r].name, Writing, calls[r].known)
                             ELSE Disturbed(calls[q])]
  BY DEF Log
<1>2. Sound(calls[r])'
  <2>1. ~calls[r].known
    BY <1>1 DEF ResolverInv, Sound
  <2>2. PICK call : call = At("write", calls[r].name, Writing, calls[r].known)
    OBVIOUS
  <2>3. calls'[r] = call
    BY <1>1, <2>2
  <2> QED BY <2>1, <2>2, <2>3, FieldsOfCall DEF Sound
<1>3. ASSUME NEW q \in Reqs, q # r PROVE Sound(calls[q])'
  <2>1. Sound(calls[q]) /\ calls'[q] = Disturbed(calls[q])
    BY <1>1, <1>3 DEF ResolverInv
  <2>2. CASE calls[q].at = "look"
    <3>1. calls'[q] = At("look", calls[q].name, TRUE, FALSE)
      BY <2>1, <2>2 DEF Disturbed
    <3>2. PICK call : call = At("look", calls[q].name, TRUE, FALSE)
      OBVIOUS
    <3>3. /\ call.at = "look" /\ call.name = calls[q].name
          /\ call.raced = TRUE /\ call.known = FALSE
      <4>1. PICK yes : yes = TRUE
        OBVIOUS
      <4>2. PICK no : no = FALSE
        OBVIOUS
      <4>3. call = At("look", calls[q].name, yes, no)
        BY <3>2, <4>1, <4>2, Zenon
      <4>4. /\ call.at = "look" /\ call.name = calls[q].name
            /\ call.raced = yes /\ call.known = no
        BY <4>3, FieldsOfCall
      <4> QED BY <4>1, <4>2, <4>4, Zenon
    <3>4. call = At(call.at, call.name, call.raced, call.known) /\ ~call.known
      BY <3>2, <3>3, Zenon
    <3> QED BY <3>1, <3>2, <3>4 DEF Sound
  <2>3. CASE calls[q].at = "write"
    <3>1. calls'[q] = [calls[q] EXCEPT !.raced = TRUE]
      BY <2>1, <2>3 DEF Disturbed
    <3>2. ~calls[q].known
      BY <2>1, <2>3 DEF Sound
    <3>3. PICK call : call = At("write", calls[q].name, TRUE, calls[q].known)
      OBVIOUS
    <3>4. calls'[q] = call
      <4>1. calls[q] = At("write", calls[q].name, calls[q].raced, calls[q].known)
        BY <2>1, <2>3 DEF Sound
      <4>2. PICK yes : yes = TRUE
        OBVIOUS
      <4>3. [calls[q] EXCEPT !.raced = yes] = At("write", calls[q].name, yes, calls[q].known)
        BY <4>1 DEF At
      <4> QED BY <3>1, <3>3, <4>2, <4>3, Zenon
    <3>5. /\ call.at = "write" /\ call.name = calls[q].name
          /\ call.raced = TRUE /\ call.known = calls[q].known
      <4>1. PICK yes : yes = TRUE
        OBVIOUS
      <4>2. call = At("write", calls[q].name, yes, calls[q].known)
        BY <3>3, <4>1, Zenon
      <4>3. /\ call.at = "write" /\ call.name = calls[q].name
            /\ call.raced = yes /\ call.known = calls[q].known
        BY <4>2, FieldsOfCall
      <4> QED BY <4>1, <4>3, Zenon
    <3>6. call = At(call.at, call.name, call.raced, call.known) /\ ~call.known
      BY <3>2, <3>3, <3>5, Zenon
    <3> QED BY <3>4, <3>6 DEF Sound
  <2>4. CASE calls[q].at # "look" /\ calls[q].at # "write"
    <3>1. calls'[q] = calls[q]
      BY <2>1, <2>4 DEF Disturbed
    <3> QED BY <1>1, <2>1, <3>1 DEF Sound
  <2> QED BY <2>2, <2>3, <2>4
<1>4. calls' = [q \in Reqs |-> calls'[q]]
  BY <1>1
<1> QED BY <1>1, <1>2, <1>3, <1>4 DEF ResolverInv

LEMMA LoggedStep ==
    ASSUME ResolverInv, ~died, NEW r \in Reqs, Logged(r) PROVE ResolverInv'
<1>1. /\ missLogged \subseteq missLogged' /\ died' = died
      /\ calls' = [calls EXCEPT ![r] = Idle]
  BY DEF Logged
<1> QED BY <1>1, IdleIsSound, OneCallSteps

THEOREM ResolverInvariance == WorkspacesSpec => []ResolverInv
<1>1. WorkspacesInit => ResolverInv
  <2> SUFFICES ASSUME WorkspacesInit PROVE ResolverInv
    OBVIOUS
  <2>1. calls = [r \in Reqs |-> Idle] /\ died = FALSE
    BY DEF WorkspacesInit
  <2> QED BY <2>1, IdleIsSound DEF ResolverInv
<1>2. ResolverInv /\ [WorkspacesNext]_allVars => ResolverInv'
  <2> SUFFICES ASSUME ResolverInv, [WorkspacesNext]_allVars PROVE ResolverInv'
    OBVIOUS
  <2>1. CASE ~died /\ Resolve
    BY <2>1, CallStep, LookStep, LogStep, LoggedStep DEF Resolve
  <2>2. CASE UNCHANGED resolverVars
    BY <2>2 DEF resolverVars, ResolverInv, Sound
  <2>3. CASE Watch \/ Record \/ (Terminated /\ UNCHANGED workspacesVars)
    BY <2>2, <2>3 DEF Watch, Record, workspacesVars
  <2>4. CASE Touch \/ Discover
    BY <2>2, <2>4 DEF Touch, Discover, Skip, Candidate
  <2>5. CASE UNCHANGED allVars
    BY <2>2, <2>5 DEF allVars, workspacesVars
  <2>6. CASE Fatal
    <3>1. /\ \E r \in Reqs : calls[r].at = "write"
          /\ UNCHANGED <<missLogged, calls>>
      BY <2>6 DEF Fatal
    <3> QED BY <3>1 DEF ResolverInv, Sound
  <2> QED
    BY <2>1, <2>3, <2>4, <2>5, <2>6 DEF WorkspacesNext
<1> QED
  BY <1>1, <1>2, PTL DEF WorkspacesSpec

\* However many requests call the resolver at once, whatever they ask for and
\* whatever comes of their races, none writes a miss that was in the map when it
\* looked undisturbed, and none ends the program for it (main.go:101-111).
THEOREM KnownMissesRest == WorkspacesSpec => []MissesSettle
<1>1. ResolverInv => MissesSettle
  <2> SUFFICES ASSUME ResolverInv PROVE MissesSettle
    OBVIOUS
  <2>1. \A r \in Reqs : calls[r].at \in {"miss", "write"} => ~calls[r].known
    BY DEF ResolverInv, Sound
  <2>2. died => \E r \in Reqs : calls[r].at = "write" /\ ~calls[r].known
    BY <2>1 DEF ResolverInv
  <2> QED BY <2>1, <2>2 DEF MissesSettle
<1> QED
  BY <1>1, ResolverInvariance, PTL

------------------------------------------------------------------------------
(***************************************************************************)
(* The labels: what classifier.go's cuts leave of an editor's title.  They *)
(* are facts about sequences of words, for titles of any length.           *)
(***************************************************************************)

\* The places of a word.
LEMMA WordPlaces ==
    ASSUME NEW S, NEW t \in Seq(S), NEW w
    PROVE  Places(t, <<w>>) = {k \in 1 .. Len(t) : t[k] = w}
<1>1. Len(<<w>>) = 1 /\ Len(t) \in Nat /\ Len(t) - 1 + 1 = Len(t)
  BY LenProperties
<1>2. ASSUME NEW k \in 1 .. Len(t)
      PROVE  SubSeq(t, k, k + 1 - 1) = <<w>> <=> t[k] = w
  <2>1. k \in Int /\ k + 1 - 1 = k /\ \A j \in k .. k : t[j] \in S
    BY <1>1, LenProperties
  <2>2. /\ SubSeq(t, k, k) \in Seq(S) /\ Len(SubSeq(t, k, k)) = 1
        /\ SubSeq(t, k, k)[1] = t[k]
    BY <2>1, SubSeqProperties
  <2>3. SubSeq(t, k, k) = <<t[k]>>
    <3>1. <<t[k]>> \in Seq(S) /\ Len(<<t[k]>>) = 1 /\ (<<t[k]>>)[1] = t[k]
      BY <2>1
    <3>2. \A j \in 1 .. 1 : SubSeq(t, k, k)[j] = (<<t[k]>>)[j]
      BY <3>1, <2>2
    <3> QED BY <3>1, <3>2, <2>2, SeqEqual
  <2>4. <<t[k]>> = <<w>> <=> t[k] = w
    OBVIOUS
  <2> QED BY <2>1, <2>3, <2>4
<1>3. Places(t, <<w>>) = {k \in 1 .. Len(t) : SubSeq(t, k, k + 1 - 1) = <<w>>}
  <2>1. Places(t, <<w>>) = {k \in 1 .. Len(t) - 1 + 1 : SubSeq(t, k, k + 1 - 1) = <<w>>}
    BY <1>1, Zenon DEF Places
  <2> QED BY <1>1, <2>1, Zenon
<1> QED BY <1>2, <1>3

\* The greatest of a set of places, when it is known.
LEMMA LastPlace ==
    ASSUME NEW t, NEW s, Places(t, s) \subseteq Nat,
           NEW m \in Places(t, s), \A k \in Places(t, s) : k <= m
    PROVE  LastIndex(t, s) = m
<1>1. ASSUME NEW k \in Places(t, s), \A j \in Places(t, s) : j <= k PROVE k = m
  BY <1>1
<1> QED BY <1>1 DEF LastIndex

\* t is a sequence of n members and then one of m.
Joined(t, a, n, b, m) ==
    /\ Len(t) = n + m
    /\ \A k \in 1 .. n + m : t[k] = IF k <= n THEN a[k] ELSE b[k - n]
    /\ SubSeq(t, 1, n) = a
    /\ SubSeq(t, n + 1, n + m) = b

\* Two sequences, one after the other.
LEMMA ConcatHalves ==
    ASSUME NEW S, NEW a \in Seq(S), NEW b \in Seq(S),
           NEW n \in Nat, n = Len(a), NEW m \in Nat, m = Len(b)
    PROVE  a \o b \in Seq(S) /\ Joined(a \o b, a, n, b, m)
<1> DEFINE t == a \o b
<1>4. /\ t \in Seq(S) /\ Len(t) = n + m
      /\ \A k \in 1 .. n + m : t[k] = IF k <= n THEN a[k] ELSE b[k - n]
  BY ConcatProperties
<1>5. \A k \in 1 .. n + m : t[k] \in S
  BY <1>4, ElementOfSeq
<1> HIDE DEF t
<1>6. SubSeq(t, 1, n) = a
  <2>1. /\ SubSeq(t, 1, n) \in Seq(S) /\ Len(SubSeq(t, 1, n)) = n
        /\ \A k \in 1 .. n : SubSeq(t, 1, n)[k] = t[k]
    <3>1. /\ SubSeq(t, 1, n) \in Seq(S)
          /\ Len(SubSeq(t, 1, n)) = IF 1 <= n THEN n - 1 + 1 ELSE 0
          /\ \A k \in 1 .. n - 1 + 1 : SubSeq(t, 1, n)[k] = t[1 + k - 1]
      BY <1>5, SubSeqProperties
    <3>2. n - 1 + 1 = n /\ (\A k \in 1 .. n : 1 + k - 1 = k) /\ (~ (1 <= n) => n = 0)
      OBVIOUS
    <3> QED BY <3>1, <3>2
  <2>2. \A k \in 1 .. n : SubSeq(t, 1, n)[k] = a[k]
    BY <2>1, <1>4
  <2> QED BY <2>1, <2>2, SeqEqual
<1>7. SubSeq(t, n + 1, n + m) = b
  <2>1. /\ SubSeq(t, n + 1, n + m) \in Seq(S) /\ Len(SubSeq(t, n + 1, n + m)) = m
        /\ \A k \in 1 .. m : SubSeq(t, n + 1, n + m)[k] = t[n + k]
    <3>1. \A k \in n + 1 .. n + m : t[k] \in S
      BY <1>5
    <3>2. /\ SubSeq(t, n + 1, n + m) \in Seq(S)
          /\ Len(SubSeq(t, n + 1, n + m))
                = IF n + 1 <= n + m THEN n + m - (n + 1) + 1 ELSE 0
          /\ \A k \in 1 .. n + m - (n + 1) + 1 :
                SubSeq(t, n + 1, n + m)[k] = t[n + 1 + k - 1]
      BY <3>1, SubSeqProperties
    <3>3. /\ n + m - (n + 1) + 1 = m /\ (\A k \in 1 .. m : n + 1 + k - 1 = n + k)
          /\ (~ (n + 1 <= n + m) => m = 0)
      OBVIOUS
    <3> QED BY <3>2, <3>3
  <2>2. \A k \in 1 .. m : SubSeq(t, n + 1, n + m)[k] = b[k]
    <3>1. \A k \in 1 .. m : n + k \in 1 .. n + m /\ ~ (n + k <= n) /\ n + k - n = k
      OBVIOUS
    <3>2. \A k \in 1 .. m : t[n + k] = b[n + k - n]
      BY <1>4, <3>1, SMTT(30)
    <3>3. \A k \in 1 .. m : t[n + k] = b[k]
      BY <3>1, <3>2
    <3> QED BY <2>1, <3>3
  <2> QED BY <2>1, <2>2, SeqEqual
<1> QED BY <1>4, <1>6, <1>7 DEF t, Joined

\* Splitting at the last of a word that the rest does not have
\* (classifier.go:91-97).
LEMMA SplitAtWord ==
    ASSUME NEW S, NEW a \in Seq(S), NEW b \in Seq(S), NEW w \in S,
           ~ Contains(b, <<w>>)
    PROVE  LET t == a \o <<w>> \o b IN
           Contains(t, <<w>>) /\ After(t, LastIndex(t, <<w>>)) = b
<1> DEFINE c == a \o <<w>>
           t == c \o b
<1>1. PICK n \in Nat : n = Len(a)
  BY LenProperties
<1>2. PICK m \in Nat : m = Len(b)
  BY LenProperties
<1>3. <<w>> \in Seq(S) /\ Len(<<w>>) = 1 /\ (<<w>>)[1] = w
  OBVIOUS
<1>4. c \in Seq(S) /\ Len(c) = n + 1 /\ c[n + 1] = w
  <2>1. c \in Seq(S) /\ Len(c) = n + 1
    BY <1>1, <1>3, ConcatProperties
  <2>2. c[n + 1] = IF n + 1 <= n THEN a[n + 1] ELSE (<<w>>)[n + 1 - n]
    <3>1. n + 1 \in 1 .. Len(a) + Len(<<w>>)
      BY <1>1, <1>3
    <3> QED BY <1>1, <1>3, <3>1, ConcatProperties
  <2>3. n + 1 - n = 1 /\ ~ (n + 1 <= n)
    OBVIOUS
  <2> HIDE DEF c
  <2> QED BY <2>1, <2>2, <2>3, <1>3
<1> HIDE DEF c
<1>5. t \in Seq(S) /\ Joined(t, c, n + 1, b, m)
  <2>1. PICK p \in Nat : p = n + 1
    OBVIOUS
  <2>2. p = Len(c)
    BY <1>4, <2>1
  <2>3. t \in Seq(S) /\ Joined(t, c, p, b, m)
    BY <1>2, <1>4, <2>2, ConcatHalves
  <2> HIDE DEF t
  <2> QED BY <2>1, <2>3
<1>6. \A k \in 1 .. m : b[k] # w
  BY <1>2, WordPlaces DEF Contains
<1> HIDE DEF t
<1>7. /\ Len(t) = n + 1 + m /\ SubSeq(t, n + 1 + 1, n + 1 + m) = b
      /\ \A k \in 1 .. n + 1 + m :
            t[k] = IF k <= n + 1 THEN c[k] ELSE b[k - (n + 1)]
  BY <1>5 DEF Joined
<1>8. Places(t, <<w>>) = {k \in 1 .. n + 1 + m : t[k] = w}
  BY <1>5, <1>7, WordPlaces
<1>9. n + 1 \in Places(t, <<w>>)
  <2>1. n + 1 \in 1 .. n + 1 + m
    OBVIOUS
  <2> QED BY <1>4, <1>7, <1>8, <2>1, SMTT(30)
<1>10. ASSUME NEW k \in Places(t, <<w>>) PROVE k \in Nat /\ k <= n + 1
  <2>1. k \in 1 .. n + 1 + m /\ t[k] = w
    BY <1>8
  <2>2. CASE ~ (k <= n + 1)
    <3>1. k - (n + 1) \in 1 .. m
      BY <2>1, <2>2
    <3> QED BY <2>1, <2>2, <3>1, <1>7, <1>6
  <2> QED BY <2>1, <2>2
<1>11. LastIndex(t, <<w>>) = n + 1
  <2>1. Places(t, <<w>>) \subseteq Nat
    BY <1>10
  <2> QED BY <2>1, <1>9, <1>10, LastPlace
<1>12. After(t, n + 1) = b
  BY <1>7 DEF After
<1>13. Contains(t, <<w>>)
  BY <1>9 DEF Contains
<1> QED BY <1>11, <1>12, <1>13 DEF t, c

\* What comes before the brand the title ends with (classifier.go:81-88).
LEMMA CutAtEnd ==
    ASSUME NEW S, NEW a \in Seq(S), NEW b \in Seq(S), b # <<>>
    PROVE  LET t == a \o b IN
           Contains(t, b) /\ Before(t, LastIndex(t, b)) = a
<1> DEFINE t == a \o b
<1>1. PICK n \in Nat : n = Len(a)
  BY LenProperties
<1>2. PICK m \in Nat : m = Len(b)
  BY LenProperties
<1>3. /\ t \in Seq(S) /\ Len(t) = n + m
      /\ SubSeq(t, 1, n) = a /\ SubSeq(t, n + 1, n + m) = b
  <2>1. t \in Seq(S) /\ Joined(t, a, n, b, m)
    BY <1>1, <1>2, ConcatHalves
  <2> HIDE DEF t
  <2> QED BY <2>1 DEF Joined
<1>4. m # 0
  BY <1>2, EmptySeq
<1> HIDE DEF t
<1>5. Places(t, b) = {k \in 1 .. n + m - m + 1 : SubSeq(t, k, k + m - 1) = b}
  <2>1. Places(t, b) = {k \in 1 .. Len(t) - Len(b) + 1 :
                            SubSeq(t, k, k + Len(b) - 1) = b}
    BY DEF Places
  <2>2. Len(t) - Len(b) + 1 = n + m - m + 1
    BY <1>2, <1>3
  <2>3. Places(t, b) = {k \in 1 .. n + m - m + 1 : SubSeq(t, k, k + Len(b) - 1) = b}
    BY <2>1, <2>2, Zenon
  <2> QED BY <2>3, <1>2, Zenon
<1>6. n + m - m + 1 = n + 1 /\ n + 1 + m - 1 = n + m /\ n + 1 - 1 = n
      /\ n + 1 \in 1 .. n + 1
  OBVIOUS
<1>7. n + 1 \in Places(t, b)
  BY <1>3, <1>5, <1>6
<1>8. \A k \in Places(t, b) : k \in 1 .. n + 1
  BY <1>5, <1>6
<1>9. LastIndex(t, b) = n + 1
  <2>1. Places(t, b) \subseteq Nat /\ \A k \in Places(t, b) : k <= n + 1
    BY <1>8
  <2> QED BY <2>1, <1>7, LastPlace
<1>10. Before(t, n + 1) = a
  BY <1>3, <1>6 DEF Before
<1>11. Contains(t, b)
  BY <1>7 DEF Contains
<1> QED BY <1>9, <1>10, <1>11 DEF t

\* The words of two sequences, one after the other.
LEMMA WordsOfBoth ==
    ASSUME NEW S, NEW a \in Seq(S), NEW b \in Seq(S), NEW w
    PROVE  Contains(a \o b, <<w>>) <=> Contains(a, <<w>>) \/ Contains(b, <<w>>)
<1> DEFINE t == a \o b
<1>1. PICK n \in Nat : n = Len(a)
  BY LenProperties
<1>2. PICK m \in Nat : m = Len(b)
  BY LenProperties
<1>3. t \in Seq(S) /\ Joined(t, a, n, b, m)
  BY <1>1, <1>2, ConcatHalves
<1> HIDE DEF t
<1>4. /\ Places(a, <<w>>) = {k \in 1 .. n : a[k] = w}
      /\ Places(b, <<w>>) = {k \in 1 .. m : b[k] = w}
      /\ Places(t, <<w>>) = {k \in 1 .. n + m : t[k] = w}
  <2>1. Len(t) = n + m
    BY <1>3 DEF Joined
  <2> QED BY <1>1, <1>2, <1>3, <2>1, WordPlaces
<1>5. \A k \in 1 .. n + m : t[k] = IF k <= n THEN a[k] ELSE b[k - n]
  BY <1>3 DEF Joined
<1>6. ASSUME NEW k \in 1 .. n, a[k] = w PROVE k \in 1 .. n + m /\ t[k] = w
  BY <1>5, <1>6
<1>7. ASSUME NEW k \in 1 .. m, b[k] = w PROVE n + k \in 1 .. n + m /\ t[n + k] = w
  <2>1. n + k \in 1 .. n + m /\ ~ (n + k <= n) /\ n + k - n = k
    OBVIOUS
  <2>2. t[n + k] = b[n + k - n]
    BY <1>5, <2>1
  <2> QED BY <2>1, <2>2, <1>7
<1>8. ASSUME NEW k \in 1 .. n + m, t[k] = w
      PROVE  (k \in 1 .. n /\ a[k] = w) \/ (k - n \in 1 .. m /\ b[k - n] = w)
  BY <1>5, <1>8
<1>9. Contains(t, <<w>>) <=> Contains(a, <<w>>) \/ Contains(b, <<w>>)
  <2>1. ASSUME Contains(t, <<w>>) PROVE Contains(a, <<w>>) \/ Contains(b, <<w>>)
    <3>1. PICK k \in 1 .. n + m : t[k] = w
      BY <1>4, <2>1 DEF Contains
    <3> QED BY <1>4, <1>8, <3>1 DEF Contains
  <2>2. ASSUME Contains(a, <<w>>) PROVE Contains(t, <<w>>)
    <3>1. PICK k \in 1 .. n : a[k] = w
      BY <1>4, <2>2 DEF Contains
    <3> QED BY <1>4, <1>6, <3>1 DEF Contains
  <2>3. ASSUME Contains(b, <<w>>) PROVE Contains(t, <<w>>)
    <3>1. PICK k \in 1 .. m : b[k] = w
      BY <1>4, <2>3 DEF Contains
    <3> QED BY <1>4, <1>7, <3>1 DEF Contains
  <2> QED BY <2>1, <2>2, <2>3
<1> QED BY <1>9 DEF t

\* A word contains no other, and nothing is in no word at all.
LEMMA WordsOfOne ==
    ASSUME NEW v, NEW w
    PROVE  Contains(<<v>>, <<w>>) <=> v = w
<1>1. PICK s : s = <<v>>
  OBVIOUS
<1>2. s \in Seq({v}) /\ Len(s) = 1 /\ s[1] = v
  BY <1>1
<1>3. Places(s, <<w>>) = {k \in 1 .. Len(s) : s[k] = w}
  BY <1>2, WordPlaces
<1>4. Places(s, <<w>>) = {k \in {1} : s[k] = w}
  BY <1>2, <1>3
<1> QED BY <1>1, <1>2, <1>4 DEF Contains

LEMMA WordsOfNone ==
    ASSUME NEW s, s = <<>>, NEW w
    PROVE  ~ Contains(s, <<w>>)
<1>1. s \in Seq({w}) /\ Len(s) = 0
  BY EmptySeq
<1>2. Places(s, <<w>>) = {k \in 1 .. Len(s) : s[k] = w}
  <2>1. PICK q : q = s
    OBVIOUS
  <2>2. PICK T : T = {w}
    OBVIOUS
  <2>3. q \in Seq(T)
    BY <1>1, <2>1, <2>2
  <2>4. Places(q, <<w>>) = {k \in 1 .. Len(q) : q[k] = w}
    BY <2>3, WordPlaces
  <2> QED BY <2>1, <2>4
<1>3. Places(s, <<w>>) = {}
  BY <1>1, <1>2
<1> QED BY <1>3 DEF Contains

\* The brands the classifier knows (classifier.go:42-53).
BrandWords == {EM, HY, "Visual Studio Code", "Insiders", "VSCodium", "Codium", "Cursor"}

LEMMA SuffixFacts ==
    /\ DOMAIN vscodeSuffixes = 1 .. 10
    /\ \A n \in 1 .. 10 :
        vscodeSuffixes[n] \in Seq(BrandWords) /\ Len(vscodeSuffixes[n]) \in {2, 4}
<1>1. DOMAIN vscodeSuffixes = 1 .. 10
  BY DEF vscodeSuffixes
<1>2. ASSUME NEW n \in 1 .. 10
      PROVE  vscodeSuffixes[n] \in Seq(BrandWords) /\ Len(vscodeSuffixes[n]) \in {2, 4}
  <2>1. \/ n = 1 \/ n = 2 \/ n = 3 \/ n = 4 \/ n = 5
        \/ n = 6 \/ n = 7 \/ n = 8 \/ n = 9 \/ n = 10
    OBVIOUS
  <2>2. CASE n = 1
    BY <2>2 DEF vscodeSuffixes, BrandWords
  <2>3. CASE n = 2
    BY <2>3 DEF vscodeSuffixes, BrandWords
  <2>4. CASE n = 3
    BY <2>4 DEF vscodeSuffixes, BrandWords
  <2>5. CASE n = 4
    BY <2>5 DEF vscodeSuffixes, BrandWords
  <2>6. CASE n = 5
    BY <2>6 DEF vscodeSuffixes, BrandWords
  <2>7. CASE n = 6
    BY <2>7 DEF vscodeSuffixes, BrandWords
  <2>8. CASE n = 7
    BY <2>8 DEF vscodeSuffixes, BrandWords
  <2>9. CASE n = 8
    BY <2>9 DEF vscodeSuffixes, BrandWords
  <2>10. CASE n = 9
    BY <2>10 DEF vscodeSuffixes, BrandWords
  <2>11. CASE n = 10
    BY <2>11 DEF vscodeSuffixes, BrandWords
  <2> QED BY <2>1, <2>2, <2>3, <2>4, <2>5, <2>6, <2>7, <2>8, <2>9, <2>10, <2>11
<1> QED BY <1>1, <1>2

\* The editor's brand is cut off (classifier.go:81-88).
LEMMA BrandGone ==
    ASSUME NEW S, BrandWords \subseteq S,
           NEW a \in Seq(S), NEW n \in DOMAIN vscodeSuffixes,
           \A m \in 1 .. n - 1 : ~ Contains(a \o vscodeSuffixes[n], vscodeSuffixes[m])
    PROVE  WithoutBrand(a \o vscodeSuffixes[n]) = a
<1> DEFINE t == a \o vscodeSuffixes[n]
           found == {k \in DOMAIN vscodeSuffixes : Contains(t, vscodeSuffixes[k])}
<1>1. n \in 1 .. 10 /\ vscodeSuffixes[n] \in Seq(S) /\ vscodeSuffixes[n] # <<>>
  <2>1. n \in 1 .. 10
    BY SuffixFacts
  <2>2. vscodeSuffixes[n] \in Seq(BrandWords) /\ Len(vscodeSuffixes[n]) # 0
    <3>1. \A k \in 1 .. 10 : /\ vscodeSuffixes[k] \in Seq(BrandWords)
                             /\ Len(vscodeSuffixes[k]) \in {2, 4}
      BY SuffixFacts
    <3>2. vscodeSuffixes[n] \in Seq(BrandWords) /\ Len(vscodeSuffixes[n]) \in {2, 4}
      BY <2>1, <3>1
    <3>3. \A l \in {2, 4} : l # 0
      OBVIOUS
    <3> QED BY <3>2, <3>3
  <2>3. vscodeSuffixes[n] \in Seq(S)
    BY <2>2, SeqMonotonic
  <2> QED BY <2>1, <2>2, <2>3, EmptySeq
<1>2. Contains(t, vscodeSuffixes[n]) /\ Before(t, LastIndex(t, vscodeSuffixes[n])) = a
  BY <1>1, CutAtEnd
<1>3. n \in found /\ \A k \in found : k \in 1 .. 10 /\ n <= k
  <2>1. n \in found
    BY <1>2
  <2>2. ASSUME NEW k \in found PROVE k \in 1 .. 10 /\ n <= k
    <3>1. k \in 1 .. 10 /\ Contains(t, vscodeSuffixes[k])
      BY SuffixFacts
    <3>2. ~ (k \in 1 .. n - 1)
      BY <3>1
    <3> QED BY <3>1, <3>2, <1>1
  <2> QED BY <2>1, <2>2
<1>4. Smallest(found) = n
  <2> HIDE DEF found
  <2>1. ASSUME NEW k \in found, \A j \in found : k <= j PROVE k = n
    <3>1. k <= n /\ n <= k /\ k \in 1 .. 10
      BY <2>1, <1>3
    <3> QED BY <3>1, <1>1
  <2> QED BY <1>3, <2>1 DEF Smallest
<1>5. found # {}
  BY <1>3
<1>6. WithoutBrand(t) = IF found = {} THEN t
                        ELSE Before(t, LastIndex(t, vscodeSuffixes[Smallest(found)]))
  BY DEF WithoutBrand
<1> HIDE DEF t, found
<1>7. WithoutBrand(t) = a
  BY <1>2, <1>4, <1>5, <1>6
<1> QED BY <1>7 DEF t

\* TrimSuffix takes off a word that was put on.
LEMMA WordGone ==
    ASSUME NEW S, NEW a \in Seq(S), NEW w \in S
    PROVE  LET t == a \o <<w>> IN t # <<>> /\ TrimSuffix(t, w) = a
<1> DEFINE t == a \o <<w>>
<1>1. PICK n \in Nat : n = Len(a)
  BY LenProperties
<1>2. PICK s : s = <<w>>
  OBVIOUS
<1>3. PICK m \in Nat : m = 1
  OBVIOUS
<1>4. s \in Seq(S) /\ m = Len(s) /\ s[1] = w
  BY <1>2, <1>3
<1>5. t \in Seq(S) /\ Joined(t, a, n, s, m)
  <2>1. a \o s \in Seq(S) /\ Joined(a \o s, a, n, s, m)
    BY <1>1, <1>4, ConcatHalves
  <2> QED BY <2>1, <1>2
<1> HIDE DEF t
<1>6. Len(t) = n + 1 /\ SubSeq(t, 1, n) = a
  BY <1>3, <1>5 DEF Joined
<1>7. t[n + 1] = w
  <2>1. \A k \in 1 .. n + 1 : t[k] = IF k <= n THEN a[k] ELSE s[k - n]
    BY <1>3, <1>5 DEF Joined
  <2>2. n + 1 \in 1 .. n + 1 /\ ~ (n + 1 <= n) /\ n + 1 - n = 1
    OBVIOUS
  <2>3. t[n + 1] = s[n + 1 - n]
    BY <2>1, <2>2
  <2> QED BY <2>2, <2>3, <1>4
<1>8. t # <<>>
  <2>1. Len(t) # 0
    BY <1>6
  <2> QED BY <2>1, EmptySeq
<1>9. TrimSuffix(t, w) = SubSeq(t, 1, Len(t) - 1)
  BY <1>6, <1>7, <1>8 DEF TrimSuffix
<1>10. Len(t) - 1 = n
  BY <1>6
<1> QED BY <1>6, <1>8, <1>9, <1>10 DEF t

\* One word is a sequence of words.
LEMMA OneWord == ASSUME NEW S, NEW w \in S PROVE <<w>> \in Seq(S)
OBVIOUS

\* The name of the workspace is what is left (classifier.go:90-106): between
\* the last separator and the brand, or all of the title but the brand.
LEMMA NameIsLeft ==
    ASSUME NEW S, Separators \subseteq S, NEW file \in Seq(S), NEW rest \in Seq(S),
           NEW sep \in Separators, ~ Contains(rest, <<sep>>),
           sep = HY => ~ Contains(file \o rest, <<EM>>)
    PROVE  LastSegment(file \o <<sep>> \o rest) = rest
<1> DEFINE u == file \o <<sep>> \o rest
<1>1. Contains(u, <<sep>>) /\ After(u, LastIndex(u, <<sep>>)) = rest
  BY SplitAtWord
<1>2. CASE sep = EM
  <2>1. LastSegment(u) = rest
    <3> HIDE DEF u
    <3> QED BY <1>1, <1>2 DEF LastSegment
  <2> QED BY <2>1
<1>3. CASE sep = HY
  <2>1. ~ Contains(u, <<EM>>)
    <3>1. ~ Contains(file, <<EM>>) /\ ~ Contains(rest, <<EM>>)
      BY <1>3, WordsOfBoth
    <3>2. ~ Contains(<<sep>>, <<EM>>)
      <4>1. sep # EM
        BY <1>3 DEF EM, HY
      <4> QED BY <4>1, WordsOfOne
    <3> DEFINE c == file \o <<sep>>
    <3>3. c \in Seq(S) /\ ~ Contains(c, <<EM>>)
      <4>1. PICK s : s = <<sep>>
        OBVIOUS
      <4>2. s \in Seq(S)
        BY <4>1, OneWord
      <4>3. file \o s \in Seq(S) /\ ~ Contains(file \o s, <<EM>>)
        BY <3>1, <3>2, <4>1, <4>2, WordsOfBoth, ConcatProperties
      <4> QED BY <4>1, <4>3
    <3> HIDE DEF c
    <3>4. ~ Contains(c \o rest, <<EM>>)
      BY <3>1, <3>3, WordsOfBoth
    <3> QED BY <3>4 DEF c
  <2>2. LastSegment(u) = rest
    <3> HIDE DEF u
    <3> QED BY <1>1, <1>3, <2>1 DEF LastSegment
  <2> QED BY <2>2
<1>4. sep \in {EM, HY}
  BY DEF Separators
<1> QED BY <1>2, <1>3, <1>4

\* The mark of a workspace file is no dash.
LEMMA MarkIsNoDash ==
    ASSUME NEW S, NEW a \in Seq(S), " (Workspace)" \in S,
           NEW mark \in Marks, NEW dash \in Separators,
           ~ Contains(a, <<dash>>)
    PROVE  ~ Contains(a \o mark, <<dash>>)
<1>1. CASE mark = <<>>
  <2>1. mark \in Seq(S) /\ ~ Contains(mark, <<dash>>)
    BY <1>1, WordsOfNone, EmptySeq
  <2> QED BY <2>1, WordsOfBoth
<1>2. CASE mark = <<" (Workspace)">>
  <2>1. PICK v : v = " (Workspace)"
    OBVIOUS
  <2>2. v # dash /\ v \in S
    BY <2>1 DEF EM, HY, Separators
  <2>3. PICK s : s = <<v>>
    OBVIOUS
  <2>4. s \in Seq(S)
    BY <2>2, <2>3, OneWord
  <2>5. ~ Contains(s, <<dash>>)
    BY <2>2, <2>3, WordsOfOne
  <2>6. ~ Contains(a \o s, <<dash>>)
    BY <2>4, <2>5, WordsOfBoth
  <2> QED BY <1>2, <2>1, <2>3, <2>6
<1>3. mark = <<>> \/ mark = <<" (Workspace)">>
  BY DEF Marks
<1> QED BY <1>1, <1>2, <1>3

\* Nothing but the mark is taken off a name.
LEMMA MarkGone ==
    ASSUME NEW S, NEW a \in Seq(S), a # <<>>, " (Workspace)" \in S,
           NEW mark \in Marks,
           mark = <<>> => TrimSuffix(a, " (Workspace)") = a
    PROVE  /\ a \o mark \in Seq(S) /\ a \o mark # <<>>
           /\ TrimSuffix(a \o mark, " (Workspace)") = a
<1>1. CASE mark = <<>>
  <2>1. a \o mark = a
    BY <1>1, ConcatEmptySeq
  <2> QED BY <1>1, <2>1
<1>2. CASE mark = <<" (Workspace)">>
  <2>1. PICK v \in S : v = " (Workspace)"
    OBVIOUS
  <2>2. PICK s : s = <<v>>
    OBVIOUS
  <2>3. a \o <<v>> # <<>> /\ TrimSuffix(a \o <<v>>, v) = a
    BY WordGone
  <2>4. s \in Seq(S)
    BY <2>2, OneWord
  <2>5. a \o s \in Seq(S)
    BY <2>4, ConcatProperties
  <2>6. a \o s # <<>> /\ TrimSuffix(a \o s, v) = a
    BY <2>2, <2>3
  <2> QED BY <1>2, <2>1, <2>2, <2>5, <2>6
<1>3. mark = <<>> \/ mark = <<" (Workspace)">>
  BY DEF Marks
<1> QED BY <1>1, <1>2, <1>3

\* What the classifier makes of a legible title (classifier.go:57-62, 79-107).
LEMMA LegibleLabel ==
    ASSUME NEW w \in Windows, w.ws # NoName, Legible(w)
    PROVE  Classify(w.proc, w.title) = [type |-> "vscode", label |-> w.ws]
<1> DEFINE W(s) == {s[k] : k \in DOMAIN s}
           S == BrandWords \cup {" (Workspace)"} \cup W(w.title) \cup W(w.ws)
<1>1. w.title \in Seq(W(w.title)) /\ w.ws \in Seq(W(w.ws))
  BY WorkspacesAssumption
<1>2. /\ BrandWords \subseteq S /\ " (Workspace)" \in S /\ Separators \subseteq S
      /\ W(w.title) \subseteq S /\ W(w.ws) \subseteq S
  BY DEF BrandWords, Separators
<1> HIDE DEF S, W
<1>3. w.title \in Seq(S) /\ w.ws \in Seq(S)
  BY <1>1, <1>2, SeqMonotonic
<1>4. PICK k \in 0 .. Len(w.title), sep \in Separators,
           mark \in Marks, n \in DOMAIN vscodeSuffixes :
        LET file == SubSeq(w.title, 1, k)
            rest == w.ws \o mark
        IN
        /\ w.proc \in vsCodeProcesses
        /\ w.title = file \o (IF k = 0 THEN <<>> ELSE <<sep>>) \o rest \o vscodeSuffixes[n]
        /\ \A m \in 1 .. n - 1 : ~Contains(w.title, vscodeSuffixes[m])
        /\ ~Contains(w.ws, <<sep>>)
        /\ sep = HY => ~Contains(file \o rest, <<EM>>)
        /\ k = 0 => \A dash \in Separators : ~Contains(w.ws, <<dash>>)
        /\ mark = <<>> => TrimSuffix(w.ws, " (Workspace)") = w.ws
  BY Zenon DEF Legible
<1> DEFINE file == SubSeq(w.title, 1, k)
           rest == w.ws \o mark
           u == file \o (IF k = 0 THEN <<>> ELSE <<sep>>) \o rest
<1>5. /\ rest \in Seq(S) /\ rest # <<>> /\ TrimSuffix(rest, " (Workspace)") = w.ws
  BY <1>2, <1>3, <1>4, MarkGone DEF NoName
<1>6. file \in Seq(S) /\ (k = 0 => file = <<>>)
  <2>1. k \in Int /\ 1 \in Int /\ Len(w.title) \in Nat
    BY <1>3, LenProperties
  <2>2. \A j \in 1 .. k : w.title[j] \in S
    <3>1. \A j \in 1 .. Len(w.title) : w.title[j] \in S
      BY <1>3, ElementOfSeq
    <3> QED BY <2>1, <3>1
  <2>3. file \in Seq(S)
    BY <2>1, <2>2, SubSeqProperties
  <2>4. k = 0 => file = <<>>
    BY <2>1, SubSeqEmpty
  <2> QED BY <2>3, <2>4
<1>7. w.title = u \o vscodeSuffixes[n]
  BY <1>4
<1> HIDE DEF file, rest
<1>8. u \in Seq(S) /\ LastSegment(u) = rest
  <2>1. CASE k = 0
    <3>1. u = rest
      <4>1. file \o <<>> = file
        BY <1>6, ConcatEmptySeq
      <4>2. file \o rest = rest
        BY <1>5, <1>6, <2>1, ConcatEmptySeq
      <4>3. u = (file \o <<>>) \o rest
        BY <2>1
      <4> QED BY <4>1, <4>2, <4>3
    <3>2. ~ Contains(rest, <<EM>>) /\ ~ Contains(rest, <<HY>>)
      <4>1. \A dash \in Separators : ~ Contains(w.ws, <<dash>>)
        BY <1>4, <2>1
      <4>2. \A dash \in Separators : ~ Contains(rest, <<dash>>)
        BY <1>2, <1>3, <4>1, MarkIsNoDash DEF rest
      <4> QED BY <4>2 DEF Separators
    <3> HIDE DEF u
    <3> QED BY <1>5, <3>1, <3>2 DEF LastSegment
  <2>2. CASE k # 0
    <3>1. u = file \o <<sep>> \o rest
      BY <2>2
    <3>2. ~ Contains(rest, <<sep>>)
      BY <1>2, <1>3, <1>4, MarkIsNoDash DEF rest
    <3>3. sep = HY => ~ Contains(file \o rest, <<EM>>)
      BY <1>4 DEF file, rest
    <3>4. LastSegment(file \o <<sep>> \o rest) = rest
      BY <1>2, <1>5, <1>6, <3>2, <3>3, NameIsLeft
    <3>5. file \o <<sep>> \o rest \in Seq(S)
      <4>1. PICK s : s = <<sep>>
        OBVIOUS
      <4>2. s \in Seq(S)
        BY <1>2, <4>1, OneWord
      <4>3. file \o s \in Seq(S)
        BY <1>6, <4>2, ConcatProperties
      <4>4. (file \o s) \o rest \in Seq(S)
        BY <1>5, <4>3, ConcatProperties
      <4> QED BY <4>1, <4>4
    <3> QED BY <3>1, <3>4, <3>5
  <2> QED BY <2>1, <2>2
<1> HIDE DEF u
<1>9. WithoutBrand(w.title) = u
  <2>1. \A m \in 1 .. n - 1 : ~ Contains(u \o vscodeSuffixes[n], vscodeSuffixes[m])
    BY <1>4, <1>7
  <2>2. WithoutBrand(u \o vscodeSuffixes[n]) = u
    BY <1>2, <1>8, <2>1, BrandGone
  <2> QED BY <1>7, <2>2
<1>10. extractVSCodeWorkspace(w.title) = w.ws
  BY <1>5, <1>8, <1>9 DEF extractVSCodeWorkspace
<1>11. w.proc \in vsCodeProcesses
  BY <1>4
<1>12. /\ w.proc \notin teamsProcesses /\ w.proc \notin zoomProcesses
       /\ w.proc \notin browserProcesses
  BY <1>11 DEF vsCodeProcesses, teamsProcesses, zoomProcesses, browserProcesses
<1> QED BY <1>10, <1>11, <1>12 DEF Classify

\* On Windows an editor is recorded under the name of its workspace, whatever
\* the windows are and however often the user switches between them, as long
\* as its title is legible (classifier.go:57-107; window_windows.go:20-52).
THEOREM LabelsAreWorkspaces ==
    ASSUME OneHandle
    PROVE  WorkspacesSpec => []LabelIsWorkspace
<1>1. MInv /\ OneWindow => LabelIsWorkspace
  <2> SUFFICES ASSUME MInv, OneWindow, pc = "send", proc # NoProc,
                      handle.ws # NoName, Legible(handle)
               PROVE  ContextOf[proc][title] = [type |-> "vscode", label |-> handle.ws]
    BY DEF LabelIsWorkspace
  <2>1. handle \in Windows /\ title = handle.title /\ proc = handle.proc
    BY DEF OneWindow
  <2>2. proc \in Procs /\ title \in Titles
    BY DEF MInv, Read
  <2>3. Classify(handle.proc, handle.title) = [type |-> "vscode", label |-> handle.ws]
    BY <2>1, LegibleLabel
  <2>4. ContextOf[proc][title] = Classify(proc, title)
    BY <2>2 DEF ContextOf
  <2> QED BY <2>1, <2>3, <2>4
<1> QED BY <1>1, OneWindowThroughout, PTL
=============================================================================
