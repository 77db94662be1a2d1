-------------------------------- MODULE Report --------------------------------
(***************************************************************************)
(* handleReport's numbers: Generator.BuildReport of internal/report fills  *)
(* and totals the sessions of a day, Grouper.Group clusters them, and the  *)
(* handler of internal/ui adds the groups up.  One action is one turn of a *)
(* loop of the code.                                                       *)
(***************************************************************************)
EXTENDS Day

CONSTANTS
    Adjacency,  \* browser_adjacency_mins, in the unit of the durations
    Lag         \* how long after the last start the report may be asked for

ASSUME ReportAssumption == Adjacency \in Nat /\ Lag \in Nat

VARIABLES
    asOf,     \* BuildReport's now
    totals,   \* DailyReport.Totals
    merged,   \* Group's merged: the indexes that are set
    order,    \* Group's order: the labels of the groups
    groups,   \* Group's groupMap
    grand     \* pageData.GrandTotal

groupVars == <<order, groups>>
reportVars == <<asOf, totals, merged, groupVars, grand>>

ReportInit ==
    /\ asOf = 0 /\ totals = <<>>
    /\ merged = {} /\ order = <<>> /\ groups = <<>> /\ grand = 0

-----------------------------------------------------------------------------
\* An end and a duration are estimated where the duration is NULL.
Estimated(s, t) ==
    IF s.dur # NULL THEN s
    ELSE [s EXCEPT !.end = t, !.dur = IF t < s.start THEN 0 ELSE t - s.start]

Fill ==
    /\ pc = "rows" /\ day # <<>>
    /\ \E lag \in 0 .. Lag :
        asOf' = (IF day[Len(day)].end # NULL THEN day[Len(day)].end
                                             ELSE day[Len(day)].start) + lag
    /\ day' = [k \in DOMAIN day |-> Estimated(day[k], asOf')]
    /\ pc' = "total" /\ i' = 1
    /\ UNCHANGED <<totals, merged, groupVars, grand>>

Plus_Overwrites(m, label, n) ==
    [l \in DOMAIN m \cup {label} |-> IF l = label THEN n ELSE m[l]]

\* m[label] += n, with Go's zero for a label that is not there.
Plus(m, label, n) ==
    [l \in DOMAIN m \cup {label} |->
        (IF l \in DOMAIN m THEN m[l] ELSE 0) + (IF l = label THEN n ELSE 0)]

AddTotal ==
    /\ pc = "total"
    /\ totals' = Plus(totals, day[i].label, day[i].dur)
    /\ Turn(Len(day), "total", "mark")
    /\ UNCHANGED <<day, asOf, merged, groupVars, grand>>

-----------------------------------------------------------------------------
\* A browser session between two sessions of one workspace.
Between(k) ==
    /\ day[k].type = "browser"
    /\ k > 1 /\ k < Len(day)
    /\ day[k - 1].type = "vscode" /\ day[k + 1].type = "vscode"
    /\ day[k - 1].label = day[k + 1].label

\* ... and brief.
Sandwiched(k) == Between(k) /\ day[k].dur <= Adjacency

Mark ==
    /\ pc = "mark"
    /\ merged' = IF Sandwiched(i) THEN merged \cup {i} ELSE merged
    /\ Turn(Len(day), "mark", "build")
    /\ UNCHANGED <<day, asOf, totals, groupVars, grand>>

LabelForContext(type) ==
    CASE type = "vscode" -> "Coding" [] type = "meeting" -> "Meeting"
      [] type = "browser" -> "Browser" [] OTHER -> "Other"

Attach_FirstOnly(label, entry) ==
    /\ order' = IF label \in DOMAIN groups THEN order ELSE Append(order, label)
    /\ groups' = IF label \in DOMAIN groups THEN groups
                 ELSE [l \in DOMAIN groups \cup {label} |->
                        IF l = label THEN [total |-> entry.dur, entries |-> <<entry>>]
                                     ELSE groups[l]]

\* A new label makes a group; the entry goes to the end of its group.
Attach(label, entry) ==
    LET old == IF label \in DOMAIN groups THEN groups[label]
               ELSE [total |-> 0, entries |-> <<>>]
        new == [total |-> old.total + entry.dur,
                entries |-> Append(old.entries, entry)]
    IN /\ order' = IF label \in DOMAIN groups THEN order ELSE Append(order, label)
       /\ groups' = [l \in DOMAIN groups \cup {label} |->
                        IF l = label THEN new ELSE groups[l]]

AttachMerged ==
    /\ pc = "build" /\ i \in merged
    /\ Attach(day[i - 1].label, [label |-> "research/ai-assist", dur |-> day[i].dur])
    /\ Turn(Len(day), "build", "git")
    /\ UNCHANGED <<day, asOf, totals, merged, grand>>

AttachOwn ==
    /\ pc = "build" /\ i \notin merged
    /\ Attach(day[i].label, [label |-> LabelForContext(day[i].type), dur |-> day[i].dur])
    /\ Turn(Len(day), "build", "git")
    /\ UNCHANGED <<day, asOf, totals, merged, grand>>

AddGrandTotal ==
    /\ pc = "sum"
    /\ grand' = grand + groups[order[i]].total
    /\ Turn(Len(order), "sum", "collapse")
    /\ UNCHANGED <<day, asOf, totals, merged, groupVars>>

ReportNext == Fill \/ AddTotal \/ Mark \/ AttachMerged \/ AttachOwn \/ AddGrandTotal
=============================================================================
