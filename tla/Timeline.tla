------------------------------- MODULE Timeline -------------------------------
(***************************************************************************)
(* internal/ui/timeline.go, called by the page template for the sessions   *)
(* of a day: BuildTimelineItems collapses runs of short sessions,          *)
(* TimelineByPeriod deals the items to the parts of the day, and           *)
(* BuildDayStrip places the sessions on a 24-hour axis.                    *)
(*                                                                         *)
(* An item is the interval of the indexes of its sessions, so what it      *)
(* shows (first start, last end, sums) can be read off the day.            *)
(***************************************************************************)
EXTENDS Day, SequencesExt, FiniteSetsExt

CONSTANTS
    Short,      \* ShortSessionThresholdSecs
    Noon,       \* 12h
    Evening,    \* 17h
    MinWidth    \* 0.05 % of a day

ASSUME TimelineAssumption ==
    {Short, Noon, Evening, MinWidth} \subseteq Nat /\ Noon < Evening

VARIABLES
    items,    \* BuildTimelineItems' items
    buckets,  \* TimelineByPeriod's buckets
    segs      \* BuildDayStrip's segs: [of, left, width]

timelineVars == <<items, buckets, segs>>

Periods == {"Morning", "Afternoon", "Evening"}

TimelineInit ==
    items = <<>> /\ buckets = [p \in Periods |-> <<>>] /\ segs = <<>>

-----------------------------------------------------------------------------
\* An open session, with its duration 0, is short.
IsShort(k) == day[k].dur < Short

\* The run of short sessions from k: where the inner loop stops.
RunEnd(k) ==
    CHOOSE j \in k .. Len(day) + 1 :
        /\ \A m \in k .. j - 1 : IsShort(m)
        /\ j <= Len(day) => ~IsShort(j)

Emit_StillIncrements(from, to) ==
    /\ items' = Append(items, [from |-> from, to |-> to])
    /\ i' = to + (IF from < to THEN 2 ELSE 1)
    /\ pc' = pc
    /\ UNCHANGED <<day, buckets, segs>>

\* append(items, ...) for the sessions from .. to, and the next turn.
Emit(from, to) ==
    /\ items' = Append(items, [from |-> from, to |-> to])
    /\ i' = to + 1
    /\ pc' = pc
    /\ UNCHANGED <<day, buckets, segs>>

Collapse_OneLess ==
    /\ pc = "collapse" /\ i <= Len(day)
    /\ IsShort(i) /\ RunEnd(i) - i >= 2
    /\ Emit(i, RunEnd(i) - 2)

Collapse ==
    /\ pc = "collapse" /\ i <= Len(day)
    /\ IsShort(i) /\ RunEnd(i) - i >= 2
    /\ Emit(i, RunEnd(i) - 1)

Single ==
    /\ pc = "collapse" /\ i <= Len(day)
    /\ ~IsShort(i) \/ RunEnd(i) - i < 2
    /\ Emit(i, i)

Collapsed ==
    /\ pc = "collapse" /\ i > Len(day)
    /\ pc' = "deal" /\ i' = 1
    /\ UNCHANGED <<day, items, buckets, segs>>

\* TimelineItem's methods: what the page says of an item.
Count(item) == item.to - item.from + 1

Secs == [k \in DOMAIN day |-> day[k].dur]

ItemSecs(item) == SumFunctionOnSet(Secs, item.from .. item.to)

StartUTC(item) == day[item.from].start

PeriodGroup(p) ==
    [count |-> SumFunction([n \in DOMAIN buckets[p] |-> Count(buckets[p][n])]),
     total |-> SumFunction([n \in DOMAIN buckets[p] |-> ItemSecs(buckets[p][n])])]

\* The switch on Local().Hour(): a session of the day starts on that day.
PeriodOf(t) ==
    IF t < Noon THEN "Morning" ELSE IF t < Evening THEN "Afternoon" ELSE "Evening"

Deal_Chronological ==
    /\ pc = "deal" /\ i <= Len(items)
    /\ buckets' = [buckets EXCEPT ![PeriodOf(StartUTC(items[i]))] =
                                    Append(@, items[i])]
    /\ i' = i + 1
    /\ UNCHANGED <<day, pc, items, segs>>

\* The loop runs over ReverseTimelineItems(items).
Deal ==
    /\ pc = "deal" /\ i <= Len(items)
    /\ LET item == items[Len(items) + 1 - i] IN
        buckets' = [buckets EXCEPT ![PeriodOf(StartUTC(item))] =
                                     Append(@, item)]
    /\ i' = i + 1
    /\ UNCHANGED <<day, pc, items, segs>>

Dealt ==
    /\ pc = "deal" /\ i > Len(items)
    /\ pc' = "strip" /\ i' = 1
    /\ UNCHANGED <<day, items, buckets, segs>>

Finished == {k \in DOMAIN day : day[k].end # NULL}

Midnight_OfEnd ==
    LET first == CHOOSE k \in Finished : \A m \in Finished : k <= m
    IN (day[first].end \div DayLen) * DayLen

\* start: local midnight of the day of the first finished session.
Midnight ==
    LET first == CHOOSE k \in Finished : \A m \in Finished : k <= m
    IN (day[first].start \div DayLen) * DayLen

AtLeast(n, x) == IF x < n THEN n ELSE x

\* One session on the axis; none that is in progress.
Place ==
    /\ pc = "strip" /\ Finished # {} /\ i <= Len(day)
    /\ segs' = IF day[i].end = NULL THEN segs
               ELSE Append(segs, [of |-> i, left |-> day[i].start - Midnight,
                                  width |-> AtLeast(MinWidth, day[i].end - day[i].start)])
    /\ i' = i + 1
    /\ UNCHANGED <<day, pc, items, buckets>>

\* Also the early return when no session is finished.
Placed ==
    /\ pc = "strip" /\ (Finished # {} => i > Len(day))
    /\ pc' = "add" /\ i' = 1
    /\ UNCHANGED <<day, items, buckets, segs>>

TimelineNext == Collapse \/ Single \/ Collapsed \/ Deal \/ Dealt \/ Place \/ Placed

-----------------------------------------------------------------------------
\* The items made so far are the sessions seen so far, in order, each in one
\* item (timeline.go:133-155).
ItemsCoverTheDay ==
    /\ \A n \in DOMAIN items : items[n].from <= items[n].to
    /\ \A n \in 2 .. Len(items) : items[n].from = items[n - 1].to + 1
    /\ items # <<>> => items[1].from = 1
    /\ pc = "collapse" => i = (IF items = <<>> THEN 1 ELSE items[Len(items)].to + 1)
    /\ pc \in {"deal", "strip", "add", "done"} => items[Len(items)].to = Len(day)

\* Runs are maximal: a group holds two or more short sessions and nothing
\* else, and no short session stands beside a group or another short one
\* (timeline.go:137-149).
RunsAreMaximal ==
    \A n \in DOMAIN items :
        /\ items[n].from < items[n].to =>
            \A k \in items[n].from .. items[n].to : IsShort(k)
        /\ n > 1 => ~(IsShort(items[n - 1].to) /\ IsShort(items[n].from))

\* The page shows every item once: the periods split the day's items, and
\* each lists its own newest first (timeline.go:213-234).
PeriodsPartition ==
    pc = "done" =>
        /\ UNION {ToSet(buckets[p]) : p \in Periods} = ToSet(items)
        /\ Len(buckets["Morning"]) + Len(buckets["Afternoon"])
                + Len(buckets["Evening"]) = Len(items)
        /\ \A p \in Periods : \A n \in 2 .. Len(buckets[p]) :
                buckets[p][n].from < buckets[p][n - 1].from

\* The strip has one bar for every finished session, in order, and none
\* begins before midnight, whichever session the axis was taken from and
\* wherever that one ended (timeline.go:264-305).
StripShowsTheDay ==
    pc = "done" =>
        /\ {segs[n].of : n \in DOMAIN segs} = Finished
        /\ Len(segs) = Cardinality(Finished)
        /\ \A n \in DOMAIN segs : 0 <= segs[n].left
        /\ \A n \in 2 .. Len(segs) : segs[n - 1].left <= segs[n].left
=============================================================================
