---------------------------- MODULE WindowMonitor ----------------------------
(***************************************************************************)
(* The window monitor of internal/monitor/window: a goroutine that polls   *)
(* the foreground window at every tick of its own ticker and sends what    *)
(* the classifier makes of it, or drops it when nobody reads.  The title   *)
(* and the process are two questions to the window system; on Linux each   *)
(* asks for the active window anew, on Windows both use one handle.        *)
(***************************************************************************)
EXTENDS Classifier

CONSTANTS
    Windows,    \* windows that may be in front: records with a title and a proc
    NoProc,     \* the process name when the second question fails
    OneHandle,  \* TRUE: Windows, FALSE: Linux
    Interval,   \* poll_interval_secs
    ChanCap,    \* capacity of the events channel (16 in the code)
    MaxNow      \* bound on the clock

Titles == {w.title : w \in Windows}
Procs == {w.proc : w \in Windows} \cup {NoProc}
NULL == -1

ASSUME WindowMonitorAssumption ==
    /\ OneHandle \in BOOLEAN
    /\ Interval \in Nat \ {0} /\ ChanCap \in Nat \ {0} /\ MaxNow \in Nat

\* What the classifier makes of an observation.
ContextOf == [p \in Procs |-> [t \in Titles |-> Classify(p, t)]]

Contexts == {ContextOf[p][t] : p \in Procs, t \in Titles}

VARIABLES
    now,       \* the wall clock
    front,     \* the window in front
    tickC,     \* ticker.C: a tick nobody took yet, or NULL
    stopped,   \* stop is closed
    pc,        \* where run is: "select", "title", "proc", "send", "closed"
    tick,      \* run's t
    handle,    \* the window run asked about
    title,     \* run's title
    proc,      \* run's proc
    lastTick,  \* the timestamp of the last event sent (a history variable)
    queue,     \* the events channel
    ended      \* ... is closed

runVars == <<pc, tick, handle, title, proc>>
chanVars == <<lastTick, queue, ended>>
vars == <<now, front, tickC, stopped, runVars, chanVars>>

MonitorInit ==
    /\ now = 0 /\ front \in Windows /\ tickC = NULL /\ stopped = FALSE
    /\ pc = "select" /\ tick = 0
    /\ handle = front /\ title = front.title /\ proc = NoProc
    /\ lastTick = 0 /\ queue = <<>> /\ ended = FALSE

-----------------------------------------------------------------------------
\* The runtime drops a tick while the one before is still in ticker.C.
Tick ==
    /\ now < MaxNow
    /\ now' = now + 1
    /\ tickC' = IF now' % Interval = 0 /\ tickC = NULL /\ pc # "closed"
                THEN now' ELSE tickC
    /\ UNCHANGED <<front, stopped, runVars, chanVars>>

SwitchWindow ==
    /\ front' \in Windows
    /\ UNCHANGED <<now, tickC, stopped, runVars, chanVars>>

\* Stop, which Run defers; there is no second call to close stop twice.
Stop ==
    /\ ~stopped
    /\ stopped' = TRUE
    /\ UNCHANGED <<now, front, tickC, runVars, chanVars>>

\* The reader of Events().
Receive ==
    /\ queue # <<>>
    /\ queue' = Tail(queue)
    /\ UNCHANGED <<now, front, tickC, stopped, runVars, lastTick, ended>>

-----------------------------------------------------------------------------
OnStop_LeavesOpen ==
    /\ pc = "select" /\ stopped
    /\ pc' = "closed"
    /\ UNCHANGED <<now, front, tickC, stopped, tick, handle, title, proc, chanVars>>

\* case <-m.stop, and the two deferred calls.
OnStop ==
    /\ pc = "select" /\ stopped
    /\ pc' = "closed" /\ tickC' = NULL /\ ended' = TRUE
    /\ UNCHANGED <<now, front, stopped, tick, handle, title, proc, lastTick, queue>>

OnTick ==
    /\ pc = "select" /\ tickC # NULL
    /\ pc' = "title" /\ tick' = tickC /\ tickC' = NULL
    /\ UNCHANGED <<now, front, stopped, handle, title, proc, chanVars>>

\* An error or an empty title: nothing is sent for this tick.
NoTitle ==
    /\ pc = "title"
    /\ pc' = "select"
    /\ UNCHANGED <<now, front, tickC, stopped, tick, handle, title, proc, chanVars>>

ReadTitle ==
    /\ pc = "title"
    /\ pc' = "proc" /\ handle' = front /\ title' = front.title
    /\ UNCHANGED <<now, front, tickC, stopped, tick, proc, chanVars>>

ReadProc_AsksAgain ==
    /\ pc = "proc"
    /\ pc' = "send" /\ proc' = front.proc
    /\ UNCHANGED <<now, front, tickC, stopped, tick, handle, title, chanVars>>

ReadProc ==
    /\ pc = "proc"
    /\ pc' = "send"
    /\ proc' = IF OneHandle THEN handle.proc ELSE front.proc
    /\ UNCHANGED <<now, front, tickC, stopped, tick, handle, title, chanVars>>

\* The title is kept, with no process name.
NoProcess ==
    /\ pc = "proc"
    /\ pc' = "send" /\ proc' = NoProc
    /\ UNCHANGED <<now, front, tickC, stopped, tick, handle, title, chanVars>>

Send_SendTime ==
    /\ pc = "send" /\ Len(queue) < ChanCap
    /\ pc' = "select"
    /\ queue' = Append(queue, [ts |-> now, ctx |-> ContextOf[proc][title]])
    /\ lastTick' = tick
    /\ UNCHANGED <<now, front, tickC, stopped, tick, handle, title, proc, ended>>

\* The event is stamped with the tick, however long the questions took.
Send ==
    /\ pc = "send" /\ Len(queue) < ChanCap
    /\ pc' = "select"
    /\ queue' = Append(queue, [ts |-> tick, ctx |-> ContextOf[proc][title]])
    /\ lastTick' = tick
    /\ UNCHANGED <<now, front, tickC, stopped, tick, handle, title, proc, ended>>

\* The default case: the newest event is the one that is lost.
Drop ==
    /\ pc = "send" /\ Len(queue) = ChanCap
    /\ pc' = "select"
    /\ UNCHANGED <<now, front, tickC, stopped, tick, handle, title, proc, chanVars>>

-----------------------------------------------------------------------------
Poll == OnTick \/ NoTitle \/ ReadTitle \/ ReadProc \/ NoProcess \/ Send \/ Drop

Terminated == pc = "closed" /\ UNCHANGED vars

MonitorNext == \/ Tick \/ SwitchWindow \/ Stop \/ Receive
               \/ OnStop \/ Poll \/ Terminated

\* run never blocks outside its select, and there a ready case is not passed
\* over for ever.  Nothing is assumed of the user, the reader or Stop.
MonitorSpec ==
    /\ MonitorInit /\ [][MonitorNext]_vars
    /\ WF_vars(Poll) /\ SF_vars(OnStop)

-----------------------------------------------------------------------------
Stream == INSTANCE EventStream

\* Every variable stays in its type (window.go:13-26).
MonitorTypeOK ==
    /\ now \in Nat /\ front \in Windows
    /\ tickC \in Nat \cup {NULL}
    /\ stopped \in BOOLEAN /\ ended \in BOOLEAN
    /\ pc \in {"select", "title", "proc", "send", "closed"}
    /\ tick \in Nat /\ handle \in Windows
    /\ title \in Titles /\ proc \in Procs
    /\ lastTick \in Nat
    /\ queue \in Seq([ts : Nat, ctx : Contexts])

\* The monitor keeps the promise the collector relies on: whatever the polls
\* cost and whoever reads, timestamps increase, none lies in the future, and
\* nothing is sent once the channel is closed (window.go:40-70).
StreamRefined == Stream!StreamSpec

\* What is sent was one window, although the questions for its title and its
\* process are two and the user switches in between: with one handle for both
\* (window_windows.go:20-52; on Linux it is not so).
ObservationIsOneWindow ==
    pc = "send" /\ proc # NoProc =>
        \E w \in Windows : w.title = title /\ w.proc = proc
=============================================================================
