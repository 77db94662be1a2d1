----------------------------- MODULE ChangedFiles -----------------------------
(***************************************************************************)
(* The files a report lists under the VS Code sessions of one workspace:   *)
(* attachChangedFiles (internal/report/generator.go) asks WalkMods         *)
(* (internal/vscode/changes.go) for everything modified between the first  *)
(* start and the last end, and FilterWindow deals it to the sessions.  The *)
(* user goes on working, also while the tree is walked.                    *)
(*                                                                         *)
(* A row holds its times by the whole second, a file's is finer: the clock *)
(* has Second units to the second, and what is stored is the second begun. *)
(*                                                                         *)
(* Every workspace is handled alike and alone; directories, which are all  *)
(* walked or skipped for their names, are left out.                        *)
(***************************************************************************)
EXTENDS Integers, Sequences, FiniteSets

CONSTANTS
    Tree,        \* the files of the workspace, in the order of the walk
    Cap,         \* perWorkspaceCap
    Second,      \* units of the clock in a second
    MaxSessions, \* bound on the sessions
    MaxSaves,    \* bound on the saves
    MaxNow       \* bound on the clock

Files == {Tree[n] : n \in DOMAIN Tree}
NULL == -1

ASSUME ChangedFilesAssumption ==
    /\ Tree \in Seq(Files)
    /\ Cap \in Nat \ {0} /\ Second \in Nat \ {0} /\ MaxNow \in Nat
    /\ MaxSessions \in Nat /\ MaxSaves \in Nat

VARIABLES
    now,       \* the clock
    second,    \* when its current second began: now.Format(time.RFC3339)
    mtime,     \* the modification times on the disk
    edits,     \* every <<file, time>> of a save (a history variable)
    sessions,  \* the day's sessions of the workspace, one perhaps open: the
               \* stored start and end, and (history) when it began and ended
    pc,        \* "work", "walk", "filter", "done"
    i,         \* how far the walk is
    span,      \* [since, until] of the walk
    mods,      \* what it found: [file, at]
    listed,    \* ChangedFiles: the sessions' files
    touched    \* the files saved since the walk began (a history variable)

world == <<now, second, mtime, edits, touched>>
vars == <<world, sessions, pc, i, span, mods, listed>>

Init ==
    /\ now = Second /\ second = Second
    /\ mtime = [f \in Files |-> 0] /\ edits = {} /\ touched = {}
    /\ sessions = <<>> /\ pc = "work" /\ i = 1
    /\ span = [since |-> 0, until |-> 0] /\ mods = {} /\ listed = <<>>

-----------------------------------------------------------------------------
Time ==
    /\ now < MaxNow /\ now' = now + 1
    /\ second' = IF now' = second + Second THEN now' ELSE second
    /\ UNCHANGED <<mtime, edits, touched, sessions, pc, i, span, mods, listed>>

Save(f) ==
    /\ Cardinality(edits) < MaxSaves
    /\ mtime' = [mtime EXCEPT ![f] = now]
    /\ edits' = edits \cup {<<f, now>>}
    /\ touched' = IF pc = "work" THEN {} ELSE touched \cup {f}
    /\ UNCHANGED <<now, second, sessions, pc, i, span, mods, listed>>

OpenSession ==
    /\ pc = "work" /\ Len(sessions) < MaxSessions
    /\ \A k \in DOMAIN sessions : sessions[k].end # NULL
    /\ sessions' = Append(sessions, [start |-> second, end |-> NULL,
                                      began |-> now, ended |-> NULL])
    /\ UNCHANGED <<world, pc, i, span, mods, listed>>

CloseSession ==
    /\ pc = "work"
    /\ \E k \in DOMAIN sessions :
        /\ sessions[k].end = NULL
        /\ sessions' = [sessions EXCEPT ![k] = [@ EXCEPT !.end = second, !.ended = now]]
    /\ UNCHANGED <<world, pc, i, span, mods, listed>>

-----------------------------------------------------------------------------
\* windows: a session in progress has none.
Windows == {k \in DOMAIN sessions : sessions[k].end # NULL}

Span_FirstOnly == [since |-> sessions[1].start, until |-> sessions[1].end]

\* earliest and latest.
Span ==
    [since |-> CHOOSE t \in {sessions[k].start : k \in Windows} :
                    \A k \in Windows : t <= sessions[k].start,
     until |-> CHOOSE t \in {sessions[k].end : k \in Windows} :
                    \A k \in Windows : t >= sessions[k].end]

AttachChangedFiles ==
    /\ pc = "work" /\ Windows # {}
    /\ pc' = "walk" /\ i' = 1 /\ span' = Span /\ mods' = {}
    /\ UNCHANGED <<world, sessions, listed>>

InSpan(f) == span.since <= mtime[f] /\ mtime[f] <= span.until

\* WalkMods looks at the next file; it stops at the cap.
Visit ==
    /\ pc = "walk" /\ i <= Len(Tree)
    /\ i' = i + 1
    /\ mods' = IF InSpan(Tree[i])
               THEN mods \cup {[file |-> Tree[i], at |-> mtime[Tree[i]]]} ELSE mods
    /\ pc' = IF Cardinality(mods') >= Cap THEN "filter" ELSE "walk"
    /\ UNCHANGED <<world, sessions, span, listed>>

Walked ==
    /\ pc = "walk" /\ i > Len(Tree)
    /\ pc' = "filter"
    /\ UNCHANGED <<world, sessions, i, span, mods, listed>>

FilterWindow_NoEnd(start, end) == {m.file : m \in {x \in mods : start <= x.at}}

FilterWindow(start, end) ==
    {m.file : m \in {x \in mods : start <= x.at /\ x.at <= end}}

Filter ==
    /\ pc = "filter"
    /\ listed' = [k \in Windows |-> FilterWindow(sessions[k].start, sessions[k].end)]
    /\ pc' = "done"
    /\ UNCHANGED <<world, sessions, i, span, mods>>

Reported == pc = "done" /\ UNCHANGED vars

Next == \/ Time \/ OpenSession \/ CloseSession \/ AttachChangedFiles
        \/ Visit \/ Walked \/ Filter \/ Reported
        \/ \E f \in Files : Save(f)

Spec == Init /\ [][Next]_vars

-----------------------------------------------------------------------------
\* A file listed under a session was saved during it, or less than a second
\* before it began, since its start is stored by the whole second; no save
\* after its end is listed, although saves go on while the tree is walked
\* (changes.go:69-80; sqlite.go:103).
ListedWereSaved ==
    \A k \in DOMAIN listed : \A f \in listed[k] :
        \E t \in 1 .. now : /\ <<f, t>> \in edits
                             /\ sessions[k].began - Second < t
                             /\ t <= sessions[k].ended

\* A file whose last save falls into a session, and not into the last second
\* of it, is listed under it, unless it was saved again during the walk or the
\* cap cut the walk off (generator.go:179-198; sqlite.go:129).
LastSaveListed ==
    pc = "done" /\ i > Len(Tree) =>
        \A k \in DOMAIN listed : \A f \in Files \ touched :
            sessions[k].began <= mtime[f] /\ mtime[f] + Second <= sessions[k].ended
                => f \in listed[k]
=============================================================================
