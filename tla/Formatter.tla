------------------------------- MODULE Formatter -------------------------------
(***************************************************************************)
(* Format of internal/report/formatter.go: the markdown of a report, which *)
(* is copied for the AI and exported.  What is modelled is what it says:   *)
(* the sessions of its timeline, the repositories, the totals of the       *)
(* groups and their sum; notes and changed files, which it lists as they   *)
(* are, and the layout are left out.                                       *)
(***************************************************************************)
EXTENDS GitCommits

VARIABLE md  \* [rows, repos, totals, grand]

FormatInit == md = [rows |-> <<>>, repos |-> <<>>, totals |-> <<>>, grand |-> 0]

\* A session in progress has no row.
TimelineRows(sessions) ==
    Among([k \in DOMAIN sessions |-> k],
          {k \in DOMAIN sessions : sessions[k].end # NULL /\ sessions[k].dur # NULL})

Format ==
    /\ pc = "format"
    /\ LET sums == [n \in DOMAIN order |-> groups[order[n]].total] IN
        md' = [rows |-> TimelineRows(day), repos |-> commits, totals |-> sums,
               grand |-> SumFunction(sums)]
    /\ pc' = "sum"
    /\ UNCHANGED <<day, i>>
=============================================================================
