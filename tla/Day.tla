--------------------------------- MODULE Day ---------------------------------
(***************************************************************************)
(* The sessions of one local day as SessionsForDay hands them to the       *)
(* report and to the page: ordered by start, disjoint, all of them started *)
(* on that day, the last one perhaps still open.  An open row has the      *)
(* duration OpenSession gave it, 0, not NULL.                              *)
(***************************************************************************)
EXTENDS Integers, Sequences

CONSTANTS
    Types,    \* context types
    Labels,   \* context labels
    Durs,     \* durations of finished sessions
    Gaps,     \* distances between the end of a session and the next start
    Starts,   \* when the first session of the day may start
    DayLen,   \* clock units in a local day
    MaxRows   \* bound on the sessions of the day

ASSUME DayAssumption ==
    /\ Durs \subseteq Nat /\ Gaps \subseteq Nat /\ Starts \subseteq Nat
    /\ DayLen \in Nat /\ MaxRows \in Nat

NULL == -1

VARIABLES
    day,  \* the sequence of sessions
    pc,   \* where the request is: "rows", the loop it is in, or "done"
    i     \* the index of the loop

requestVars == <<day, pc, i>>

DayInit == day = <<>> /\ pc = "rows" /\ i = 1

Row(type, label, start, end, dur) ==
    [type |-> type, label |-> label, start |-> start, end |-> end, dur |-> dur]

Rows == [type : Types, label : Labels, start : Nat,
         end : Nat \cup {NULL}, dur : Nat]

\* Where the next session may start; none follows an open one.
NextStarts ==
    IF day = <<>> THEN Starts
    ELSE {day[Len(day)].end + gap : gap \in Gaps}

CanRecord == Len(day) < MaxRows /\ \A k \in DOMAIN day : day[k].end # NULL

AddFinished ==
    /\ pc = "rows" /\ CanRecord
    /\ \E type \in Types, label \in Labels, start \in NextStarts, dur \in Durs :
        /\ start < DayLen
        /\ day' = Append(day, Row(type, label, start, start + dur, dur))
    /\ UNCHANGED <<pc, i>>

AddOpen ==
    /\ pc = "rows" /\ CanRecord
    /\ \E type \in Types, label \in Labels, start \in NextStarts :
        /\ start < DayLen
        /\ day' = Append(day, Row(type, label, start, NULL, 0))
    /\ UNCHANGED <<pc, i>>

SessionsForDay == AddFinished \/ AddOpen

\* Where a loop over n elements goes after its turn i.
Turn(n, here, next) ==
    IF i < n THEN pc' = here /\ i' = i + 1 ELSE pc' = next /\ i' = 1
=============================================================================
