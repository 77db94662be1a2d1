----------------------------- MODULE IdleWindows -----------------------------
(***************************************************************************)
(* The Windows idle detector (internal/monitor/idle/idle_windows.go): the  *)
(* tick of the last input, then the tick count, two calls of the system    *)
(* with time and input in between, and a difference of 32-bit numbers that *)
(* wrap every 49.7 days.                                                   *)
(***************************************************************************)
EXTENDS Integers

CONSTANTS
    Wrap,   \* 2^32
    MaxNow  \* bound on the clock: a few times Wrap

ASSUME IdleWindowsAssumption == Wrap \in Nat \ {0} /\ MaxNow \in Nat

VARIABLES
    now,        \* milliseconds since the machine started, without a wrap
    lastInput,  \* when the user last pressed a key or moved the mouse
    pc,         \* "rest", "first", "second", "answer"
    dwTime,     \* info.dwTime
    tickNow,    \* GetTickCount's result
    answer,     \* idleMs
    call        \* the call: its begin and end, the last input before it,
                \* whether the system answered it (a history variable)

vars == <<now, lastInput, pc, dwTime, tickNow, answer, call>>

Init ==
    /\ now = 0 /\ lastInput = 0 /\ pc = "rest"
    /\ dwTime = 0 /\ tickNow = 0 /\ answer = 0
    /\ call = [from |-> 0, to |-> 0, last |-> 0, ok |-> FALSE]

-----------------------------------------------------------------------------
Time ==
    /\ now < MaxNow /\ now' = now + 1
    /\ UNCHANGED <<lastInput, pc, dwTime, tickNow, answer, call>>

UserInput ==
    /\ lastInput' = now
    /\ UNCHANGED <<now, pc, dwTime, tickNow, answer, call>>

Begin ==
    /\ pc \in {"rest", "answer"}
    /\ pc' = "first"
    /\ call' = [from |-> now, to |-> now, last |-> lastInput, ok |-> FALSE]
    /\ UNCHANGED <<now, lastInput, dwTime, tickNow, answer>>

Minus_Wide(a, b) == a - b

\* a - b of two uint32.
Minus(a, b) == (a - b) % Wrap

\* ret == 0: the detector answers 0.
InputFails ==
    /\ pc = "first"
    /\ pc' = "answer" /\ answer' = 0
    /\ call' = [call EXCEPT !.to = now]
    /\ UNCHANGED <<now, lastInput, dwTime, tickNow>>

GetLastInputInfo ==
    /\ pc = "first"
    /\ pc' = "second" /\ dwTime' = lastInput % Wrap
    /\ UNCHANGED <<now, lastInput, tickNow, answer, call>>

GetTickCount ==
    /\ pc = "second"
    /\ pc' = "answer" /\ tickNow' = now % Wrap
    /\ answer' = Minus(tickNow', dwTime)
    /\ call' = [call EXCEPT !.to = now, !.ok = TRUE]
    /\ UNCHANGED <<now, lastInput, dwTime>>

IdleDuration_TickFirst ==
    \/ /\ pc = "first"
       /\ pc' = "second" /\ tickNow' = now % Wrap
       /\ UNCHANGED <<now, lastInput, dwTime, answer, call>>
    \/ /\ pc = "second"
       /\ pc' = "answer" /\ dwTime' = lastInput % Wrap
       /\ answer' = Minus(tickNow, dwTime')
       /\ call' = [call EXCEPT !.to = now, !.ok = TRUE]
       /\ UNCHANGED <<now, lastInput, tickNow>>

IdleDuration == InputFails \/ GetLastInputInfo \/ GetTickCount

Next == Time \/ UserInput \/ Begin \/ IdleDuration

Spec == Init /\ [][Next]_vars

-----------------------------------------------------------------------------
\* The detector never says the user has been idle for longer than since the
\* last input before it was asked, whatever happens between its two calls
\* and wherever the counters wrap: a session is never cut by a phantom
\* absence of 49 days (idle_windows.go:31-38).
NeverOverstated ==
    pc = "answer" => answer \in 0 .. call.to - call.last

\* An absence shorter than the wrap is never missed: the answer of a call
\* that the system served, with no input since it began, covers the time
\* up to its begin (idle_windows.go:36-38).
AbsenceNoticed ==
    pc = "answer" /\ call.ok /\ lastInput = call.last /\ call.to - call.last < Wrap
        => answer >= call.from - call.last
=============================================================================
