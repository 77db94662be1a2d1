--------------------------------- MODULE Page ---------------------------------
(***************************************************************************)
(* One request for the report page: SessionsForDay, BuildReport, Format    *)
(* and the grand total in the handler, then what the template calls for    *)
(* the same sessions: the timeline, the strip and the focus card.          *)
(***************************************************************************)
EXTENDS Formatter, Timeline, Focus

handlerVars == <<reportVars, gitVars, md>>
vars == <<requestVars, handlerVars, timelineVars, focusVars>>

Init == DayInit /\ ReportInit /\ GitInit /\ FormatInit /\ TimelineInit /\ FocusInit

Query == SessionsForDay /\ UNCHANGED <<handlerVars, timelineVars, focusVars>>

HandleReport ==
    /\ \/ ReportNext /\ UNCHANGED <<gitVars, md>>
       \/ attachGitCommits /\ UNCHANGED <<reportVars, md>>
       \/ Format /\ UNCHANGED <<reportVars, gitVars>>
    /\ UNCHANGED <<timelineVars, focusVars>>

RenderTimeline == TimelineNext /\ UNCHANGED <<handlerVars, focusVars>>

RenderFocus == FocusNext /\ UNCHANGED <<handlerVars, timelineVars>>

Terminated == pc = "done" /\ UNCHANGED vars

Next == Query \/ HandleReport \/ RenderTimeline \/ RenderFocus \/ Terminated

Spec == Init /\ [][Next]_vars

-----------------------------------------------------------------------------
\* The label a session is reported under.
Home(k) == IF k \in merged THEN day[k - 1].label ELSE day[k].label

Under(l) == {k \in DOMAIN day : Home(k) = l}

EntryOf(k) ==
    [label |-> IF k \in merged THEN "research/ai-assist"
               ELSE LabelForContext(day[k].type),
     dur |-> day[k].dur]

\* The groups are the sessions of the day, split by the label they belong
\* under, each once and in order, and the groups are ordered by their first
\* session: two loops over shared maps compute it.  A browser session belongs
\* to the workspace around it if it is shorter than the adjacency, and never
\* if it is longer.  What becomes of one that is exactly as long is left open:
\* the comment of Group excludes it ("< adjacency window"), its code does not
\* (grouper.go:17-97).
GroupsAreThePartition ==
    pc = "done" =>
        /\ \A k \in merged : Between(k) /\ ~(day[k].dur > Adjacency)
        /\ \A k \in DOMAIN day : Between(k) /\ day[k].dur < Adjacency => k \in merged
        /\ DOMAIN groups = {Home(k) : k \in DOMAIN day}
        /\ IsInjective(order) /\ ToSet(order) = DOMAIN groups
        /\ \A m, n \in DOMAIN order :
                m < n => Min(Under(order[m])) < Min(Under(order[n]))
        /\ \A l \in DOMAIN groups :
            /\ Len(groups[l].entries) = Cardinality(Under(l))
            /\ \A k \in Under(l) :
                groups[l].entries[Cardinality({j \in Under(l) : j <= k})] = EntryOf(k)

\* The totals a page shows agree: what the groups, the labels, the headings
\* of the periods, the focus card, the markdown's table and its rows add up to
\* is the same time, although each is a loop of its own and browser sessions
\* move between the groups; and the headings count every session once
\* (generator.go:84-88; reportwindow.go:119-121; timeline.go:235-257;
\* focus.go:41-59; formatter.go:32-54, 127-139).
TotalsAgree ==
    pc = "done" =>
        LET whole == SumFunction(Secs) IN
        /\ grand = whole
        /\ SumFunction(totals) = whole
        /\ SumFunction([p \in Periods |-> PeriodGroup(p).total]) = whole
        /\ SumFunction([p \in Periods |-> PeriodGroup(p).count]) = Len(day)
        /\ FocusTotal = whole
        /\ md.grand = whole
        /\ SumFunctionOnSet(Secs, ToSet(md.rows)) = whole
=============================================================================
