----------------------------- MODULE EventStream -----------------------------
(***************************************************************************)
(* What monitor.Monitor promises the reader of Events(): a bounded stream  *)
(* of observations whose timestamps increase and never lie in the future,  *)
(* closed at most once, with nothing sent after the close.  WindowMonitor  *)
(* keeps the promise; Collector is composed with it: its monitor sends and *)
(* closes, and Run receives, by the actions of this module.                *)
(***************************************************************************)
EXTENDS Integers, Sequences

CONSTANTS
    Contexts,  \* what an observation may say: [type, label] records
    ChanCap    \* capacity of the channel (16 in the code)

VARIABLES
    now,       \* the wall clock
    lastTick,  \* the timestamp of the last observation sent
    queue,     \* the channel: [ts, ctx] records
    ended      \* the channel is closed

streamVars == <<now, lastTick, queue, ended>>

StreamInit == now = 0 /\ lastTick = 0 /\ queue = <<>> /\ ended = FALSE

TimePasses == now' = now + 1 /\ UNCHANGED <<lastTick, queue, ended>>

Send ==
    /\ ~ended /\ Len(queue) < ChanCap
    /\ \E ctx \in Contexts, ts \in lastTick + 1 .. now :
        /\ lastTick' = ts
        /\ queue' = Append(queue, [ts |-> ts, ctx |-> ctx])
    /\ UNCHANGED <<now, ended>>

Take == queue # <<>> /\ queue' = Tail(queue) /\ UNCHANGED <<now, lastTick, ended>>

Close == ~ended /\ ended' = TRUE /\ UNCHANGED <<now, lastTick, queue>>

StreamNext == TimePasses \/ Send \/ Take \/ Close

StreamSpec == StreamInit /\ [][StreamNext]_streamVars
=============================================================================
