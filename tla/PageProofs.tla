------------------------------ MODULE PageProofs ------------------------------
(***************************************************************************)
(* What the page shows, for every day, every place of the night and every  *)
(* request: the percentages of the focus card make 100, the timeline and   *)
(* the strip are the day, the groups of the report are a partition of it,  *)
(* the commits of a repository are listed once, and everything the page    *)
(* adds up comes to the same time.  What BuildReport does to the day       *)
(* before the rest is made of it is part of every proof.                   *)
(***************************************************************************)
EXTENDS Page, Lemmas

Session == [type : Types, label : Labels, start : Int, end : Int, dur : Nat]

FocusInv ==
    /\ day \in Seq(Session)
    /\ pc = "add" => i \in Nat \ {0}
    /\ productive \in Nat /\ distraction \in Nat /\ neutral \in Nat

\* Two rounded-down shares of a whole are not more than 100 (focus.go:18-30).
LEMMA TwoShares ==
    ASSUME NEW a \in Nat, NEW b \in Nat, NEW c \in Nat
    PROVE  LET t == a + b + c IN
           Pct(a, t) \in Nat /\ Pct(b, t) \in Nat /\ Pct(a, t) + Pct(b, t) <= 100
<1> DEFINE t == a + b + c
           p == (a * 100) \div t
           q == (b * 100) \div t
<1>1. CASE t = 0
  BY <1>1 DEF Pct
<1>2. CASE t > 0
  <2>1. p \in Nat /\ p * t <= a * 100
    <3>1. t \in Nat \ {0} /\ a * 100 \in Nat
      BY <1>2
    <3> HIDE DEF t
    <3> QED
      BY <3>1
  <2>2. q \in Nat /\ q * t <= b * 100
    <3>1. t \in Nat \ {0} /\ b * 100 \in Nat
      BY <1>2
    <3> HIDE DEF t
    <3> QED
      BY <3>1
  <2>3. a * 100 + b * 100 <= 100 * t
    OBVIOUS
  <2>4. t \in Nat \ {0}
    BY <1>2
  <2>5. p + q <= 100
    <3> HIDE DEF p, q, t
    <3>1. (p + q) * t <= 100 * t
      BY <2>1, <2>2, <2>3, <2>4
    <3>2. SUFFICES ASSUME p + q >= 101 PROVE FALSE
      BY <2>1, <2>2
    <3>3. (p + q) * t >= 101 * t
      BY <2>1, <2>2, <2>4, <3>2
    <3> QED
      BY <2>4, <2>1, <2>2, <3>1, <3>3
  <2> QED
    BY <1>2, <2>1, <2>2, <2>5 DEF Pct
<1> QED
  BY <1>1, <1>2

\* A share of a whole, rounded down, is less than one point from it
\* (focus.go:18-30).
LEMMA ShareIsNear ==
    ASSUME NEW a \in Nat, NEW t \in Nat \ {0}
    PROVE  Pct(a, t) * t \in a * 100 - t + 1 .. a * 100
<1> DEFINE x == a * 100
           q == x \div t
<1>1. x \in Nat
  OBVIOUS
<1>2. q \in Nat /\ q * t <= x /\ x < (q + 1) * t
  <2> HIDE DEF x
  <2> QED
    BY <1>1
<1>3. (q + 1) * t = q * t + t /\ q * t \in Int
  <2> HIDE DEF q
  <2> QED
    BY <1>2
<1>4. Pct(a, t) = q
  BY DEF Pct
<1> HIDE DEF q
<1> QED
  BY <1>2, <1>3, <1>4

\* BuildReport fills durations in and never makes one negative
\* (generator.go:66-75).
LEMMA FillKeepsSessions ==
    ASSUME NEW s \in Session, NEW t
    PROVE  Estimated(s, t) \in Session
BY DEF Estimated, Session, NULL

\* The sums never leave the natural numbers (focus.go:41-59).
THEOREM FocusInvariance == Spec => []FocusInv
<1> USE FocusAssumption, DayAssumption
<1>1. Init => FocusInv
  BY DEF Init, DayInit, FocusInit, FocusInv
<1>2. FocusInv /\ [Next]_vars => FocusInv'
  <2> SUFFICES ASSUME FocusInv, [Next]_vars PROVE FocusInv'
    OBVIOUS
  <2> USE DEF FocusInv
  <2>1. CASE Query
    <3>1. CASE AddFinished
      BY <2>1, <3>1 DEF Query, AddFinished, NextStarts, CanRecord, Row, Session,
                        focusVars
    <3>2. CASE AddOpen
      BY <2>1, <3>2 DEF Query, AddOpen, NextStarts, CanRecord, Row, Session,
                        NULL, focusVars
    <3> QED
      BY <2>1, <3>1, <3>2 DEF Query, SessionsForDay
  <2>2. CASE HandleReport
    <3>1. UNCHANGED focusVars
      BY <2>2 DEF HandleReport
    <3>2. CASE Fill
      <4>1. \A k \in DOMAIN day : day[k] \in Session
        BY ElementOf
      <4>2. day' \in Seq(Session)
        <5>1. \A k \in DOMAIN day : Estimated(day[k], asOf') \in Session
          BY <4>1, FillKeepsSessions
        <5>2. day' = [k \in 1 .. Len(day) |-> Estimated(day[k], asOf')]
          BY <3>2 DEF Fill
        <5> QED
          BY <5>1, <5>2
      <4>3. pc' # "add"
        BY <3>2 DEF Fill
      <4> QED
        BY <3>1, <4>2, <4>3 DEF focusVars
    <3>3. CASE AddTotal \/ Mark \/ AttachMerged \/ AttachOwn \/ AddGrandTotal
      <4>1. day' = day /\ pc' # "add"
        BY <3>3 DEF AddTotal, Mark, AttachMerged, AttachOwn, AddGrandTotal, Turn
      <4> QED
        BY <3>1, <4>1 DEF focusVars
    <3>4. CASE attachGitCommits \/ Format
      <4>1. day' = day /\ pc' # "add"
        BY <3>4 DEF attachGitCommits, AttachOther, AttachCommits, NextSession,
                    Turn, Format
      <4> QED
        BY <3>1, <4>1 DEF focusVars
    <3> QED
      BY <2>2, <3>2, <3>3, <3>4 DEF HandleReport, ReportNext
  <2>3. CASE RenderTimeline
    <3>1. UNCHANGED focusVars
      BY <2>3 DEF RenderTimeline
    <3>2. day' = day /\ (pc' = "add" => i' = 1)
      <4>1. CASE Collapse \/ Single
        BY <4>1 DEF Collapse, Single, Emit
      <4>2. CASE Collapsed \/ Deal \/ Dealt
        BY <4>2 DEF Collapsed, Deal, Dealt
      <4>3. CASE Place \/ Placed
        BY <4>3 DEF Place, Placed
      <4> QED
        BY <2>3, <4>1, <4>2, <4>3 DEF RenderTimeline, TimelineNext
    <3> QED
      BY <3>1, <3>2 DEF focusVars
  <2>4. CASE RenderFocus
    <3>1. CASE Added
      BY <3>1 DEF Added, focusVars
    <3>2. CASE AddProductive \/ AddDistraction \/ AddNeutral
      <4>1. i \in 1 .. Len(day)
        BY <3>2 DEF AddProductive, AddDistraction, AddNeutral
      <4>2. day[i] \in Session
        BY <4>1, ElementOf
      <4>3. day[i].dur \in Nat
        BY <4>2 DEF Session
      <4> QED
        BY <3>2, <4>1, <4>3, SMTT(30) DEF AddProductive, AddDistraction, AddNeutral
    <3> QED
      BY <2>4, <3>1, <3>2 DEF RenderFocus, FocusNext
  <2>5. CASE UNCHANGED vars
    BY <2>5 DEF vars, requestVars, focusVars
  <2> QED
    BY <2>1, <2>2, <2>3, <2>4, <2>5 DEF Next, Terminated
<1> QED
  BY <1>1, <1>2, PTL DEF Spec

\* The card's three percentages make 100 on every day, so NeutralPct's clamp
\* is never taken (focus.go:18-38).
THEOREM HundredPercent == Spec => []PctsMakeHundred
<1>1. FocusInv => PctsMakeHundred
  <2> SUFFICES ASSUME FocusInv PROVE PctsMakeHundred
    OBVIOUS
  <2>1. /\ ProductivePct \in Nat /\ DistractionPct \in Nat
        /\ ProductivePct + DistractionPct <= 100
    BY TwoShares DEF FocusInv, ProductivePct, DistractionPct, FocusTotal
  <2> QED
    BY <2>1 DEF PctsMakeHundred, NeutralPct, Rest
<1> QED
  BY <1>1, FocusInvariance, PTL

\* On every day each percentage is less than two points from the share it
\* stands for (focus.go:18-38).
THEOREM PercentagesAreHonest == Spec => []PctsHonest
<1>1. FocusInv => PctsHonest
  <2> SUFFICES ASSUME FocusInv, FocusTotal > 0 PROVE PctsHonest
    BY DEF PctsHonest
  <2> DEFINE t == FocusTotal
             p == ProductivePct
             q == DistractionPct
  <2>1. t \in Nat \ {0} /\ t = productive + distraction + neutral
    BY DEF FocusInv, FocusTotal
  <2>2. p * t \in productive * 100 - t + 1 .. productive * 100
    <3> HIDE DEF t
    <3> QED
      BY <2>1, ShareIsNear DEF FocusInv, ProductivePct, t
  <2>3. q * t \in distraction * 100 - t + 1 .. distraction * 100
    <3> HIDE DEF t
    <3> QED
      BY <2>1, ShareIsNear DEF FocusInv, DistractionPct, t
  <2>4. p \in Nat /\ q \in Nat /\ p + q <= 100
    BY TwoShares DEF FocusInv, ProductivePct, DistractionPct, FocusTotal
  <2>5. NeutralPct = 100 - p - q
    BY <2>4 DEF NeutralPct, Rest
  <2>6. NeutralPct * t \in neutral * 100 .. neutral * 100 + 2 * t - 2
    <3> HIDE DEF t, p, q
    <3>1. (100 - p - q) * t = 100 * t - p * t - q * t
      BY <2>1, <2>4
    <3>2. 100 * t = 100 * productive + 100 * distraction + 100 * neutral
      BY <2>1 DEF FocusInv
    <3>3. p * t \in Int /\ q * t \in Int
      BY <2>1, <2>4
    <3> DEFINE pt == p * t
               qt == q * t
    <3> HIDE DEF pt, qt
    <3> QED
      BY <2>1, <2>2, <2>3, <2>5, <3>1, <3>2, <3>3, SMTT(30) DEF FocusInv, pt, qt
  <2> QED
    BY <2>2, <2>3, <2>6 DEF PctsHonest
<1> QED
  BY <1>1, FocusInvariance, PTL

-----------------------------------------------------------------------------
(* The timeline                                                            *)

\* The sessions of the day: only the last one can be open, and none starts
\* before one above it.
DayInv ==
    /\ \A k \in DOMAIN day :
        /\ day[k].start \in Nat /\ day[k].start < DayLen
        /\ day[k].end = NULL \/ day[k].start <= day[k].end
    /\ \A k, l \in DOMAIN day :
        k < l => day[k].end # NULL /\ day[k].start <= day[l].start
    /\ pc # "rows" => day # <<>>

\* Where the request is before the page is drawn, while it is, and once the
\* timeline and the strip are there.
Before == {"rows", "total", "mark", "build", "git", "format", "sum"}
After == {"add", "done"}

Item == [from : Nat \ {0}, to : Nat]

\* The items made so far split the sessions looked at, and the loop does not
\* stand inside a run of short sessions.
ItemsInv ==
    /\ items \in Seq(Item)
    /\ pc \in Before => items = <<>>
    /\ \A n \in DOMAIN items :
        /\ items[n].from <= items[n].to /\ items[n].to <= Len(day)
        /\ items[n].from = IF n = 1 THEN 1 ELSE items[n - 1].to + 1
    /\ \A m, n \in DOMAIN items : m < n => items[m].to < items[n].from
    /\ pc = "collapse" =>
        /\ i \in 1 .. Len(day) + 1
        /\ i = (IF items = <<>> THEN 1 ELSE items[Len(items)].to + 1)
        /\ i \in 2 .. Len(day) => ~(IsShort(i - 1) /\ IsShort(i))
    /\ pc \in {"deal", "strip"} \cup After =>
        items # <<>> /\ items[Len(items)].to = Len(day)
    /\ RunsAreMaximal

Newest(n) == Len(items) - n + 1 .. Len(items)

\* The last n items are dealt, each once.
DealtLast(n) ==
    /\ UNION {ToSet(buckets[p]) : p \in Periods} = {items[k] : k \in Newest(n)}
    /\ Len(buckets["Morning"]) + Len(buckets["Afternoon"])
            + Len(buckets["Evening"]) = n

DealInv ==
    /\ buckets = [p \in Periods |-> buckets[p]]
    /\ \A p \in Periods :
        /\ buckets[p] \in Seq(Item)
        /\ pc \in Before \cup {"collapse"} => buckets[p] = <<>>
        /\ \A n \in 2 .. Len(buckets[p]) :
                buckets[p][n].from < buckets[p][n - 1].from
    /\ pc = "deal" => i \in 1 .. Len(items) + 1 /\ DealtLast(i - 1)
    /\ pc \in {"strip"} \cup After => DealtLast(Len(items))

FirstFinished(n) == {k \in Finished : k <= n}
Bars == {segs[k].of : k \in DOMAIN segs}

\* The finished sessions among the first n have their bars.
PlacedFirst(n) ==
    /\ Bars = FirstFinished(n)
    /\ Len(segs) = Cardinality(FirstFinished(n))

StripInv ==
    /\ segs \in Seq([of : Nat, left : Int, width : Int])
    /\ pc \in Before \cup {"collapse", "deal"} => segs = <<>>
    /\ \A n \in DOMAIN segs :
        segs[n].of \in DOMAIN day /\ segs[n].left = day[segs[n].of].start - Midnight
    /\ \A m, n \in DOMAIN segs : m < n => segs[m].of < segs[n].of
    /\ pc = "strip" => i \in 1 .. Len(day) + 1 /\ PlacedFirst(i - 1)
    /\ pc \in After => PlacedFirst(Len(day))

TimelineInv == FocusInv /\ DayInv /\ ItemsInv /\ DealInv /\ StripInv

\* No row of the table has a NULL duration: nothing is estimated
\* (generator.go:63-75; sqlite.go:117-127).
LEMMA FillKeepsDay == ASSUME FocusInv, Fill PROVE day' = day
<1>1. \A k \in DOMAIN day : day[k] \in Session
  BY ElementOf DEF FocusInv
<1>2. \A k \in DOMAIN day : Estimated(day[k], asOf') = day[k]
  BY <1>1 DEF Estimated, Session, NULL
<1>3. day' = [k \in DOMAIN day |-> day[k]]
  BY <1>2 DEF Fill
<1> QED BY <1>3 DEF FocusInv

\* The loops of the report leave the page's variables alone.
LEMMA HandlerAside ==
    ASSUME FocusInv, HandleReport
    PROVE  /\ UNCHANGED <<day, items, buckets, segs>>
           /\ pc \in Before /\ pc' \in (Before \ {"rows"}) \cup {"collapse"}
           /\ pc' = "collapse" => i' = 1
           /\ pc = "rows" => day # <<>>
<1>1. UNCHANGED <<items, buckets, segs>>
  BY DEF HandleReport, timelineVars
<1>2. CASE Fill
  BY <1>1, <1>2, FillKeepsDay DEF Fill, Before
<1>3. CASE AddTotal \/ Mark
  BY <1>1, <1>3 DEF AddTotal, Mark, Turn, Before
<1>4. CASE AttachMerged \/ AttachOwn
  BY <1>1, <1>4 DEF AttachMerged, AttachOwn, Turn, Before
<1>5. CASE AddGrandTotal \/ Format
  BY <1>1, <1>5 DEF AddGrandTotal, Format, Turn, Before
<1>6. CASE attachGitCommits
  BY <1>1, <1>6 DEF attachGitCommits, AttachOther, AttachCommits, NextSession,
                    Turn, Before
<1> QED
  BY <1>2, <1>3, <1>4, <1>5, <1>6 DEF HandleReport, ReportNext

LEMMA FocusAside ==
    ASSUME RenderFocus
    PROVE  UNCHANGED <<day, items, buckets, segs>> /\ pc \in After /\ pc' \in After
BY DEF RenderFocus, FocusNext, AddProductive, AddDistraction, AddNeutral, Added,
       timelineVars, After

LEMMA TimelineKeepsDay ==
    ASSUME RenderTimeline
    PROVE  /\ day' = day /\ pc # "rows"
           /\ pc' \in {"collapse", "deal", "strip", "add"}
BY DEF RenderTimeline, TimelineNext, Collapse, Single, Collapsed, Deal, Dealt,
       Place, Placed, Emit

LEMMA DayStep ==
    ASSUME FocusInv, DayInv, [Next]_vars
    PROVE  DayInv'
<1> USE DayAssumption
<1>1. CASE Query
  <2> DEFINE n == Len(day)
  <2>1. pc' = "rows" /\ CanRecord /\ n \in Nat /\ DOMAIN day = 1 .. n
    BY <1>1 DEF Query, SessionsForDay, AddFinished, AddOpen, FocusInv
  <2>2. PICK s : /\ day' = Append(day, s) /\ s.start \in NextStarts /\ s.start < DayLen
                 /\ s.end = NULL \/ \E dur \in Nat : s.end = s.start + dur
    <3>1. CASE AddFinished
      BY <3>1 DEF AddFinished, Row
    <3>2. CASE AddOpen
      BY <3>2 DEF AddOpen, Row
    <3> QED BY <1>1, <3>1, <3>2 DEF Query, SessionsForDay
  <2>3. \A k \in DOMAIN day : day[k].end # NULL
    BY <2>1 DEF CanRecord
  <2>4. s.start \in Nat /\ \A k \in DOMAIN day : day[k].start <= s.start
    <3>1. CASE day = <<>>
      <4>1. s.start \in Nat
        BY <2>2, <3>1 DEF NextStarts
      <4>2. DOMAIN day = {}
        BY <3>1
      <4> QED BY <4>1, <4>2
    <3>2. CASE day # <<>>
      <4>1. n \in DOMAIN day
        BY <2>1, <3>2 DEF FocusInv
      <4>2. PICK gap \in Nat : s.start = day[n].end + gap
        BY <2>2, <3>2 DEF NextStarts
      <4>3. day[n] \in Session
        BY <4>1, ElementOf DEF FocusInv
      <4>4. day[n].end \in Int /\ day[n].start \in Nat /\ day[n].start <= day[n].end
        BY <2>3, <4>1, <4>3 DEF DayInv, Session
      <4>5. \A k \in DOMAIN day : day[k].start \in Nat /\ day[k].start <= day[n].start
        BY <2>1, <4>1, <4>4 DEF DayInv
      <4>6. s.start \in Nat /\ day[n].start <= s.start
        BY <4>2, <4>4
      <4> QED BY <4>4, <4>5, <4>6
    <3> QED BY <3>1, <3>2
  <2>5. /\ DOMAIN day' = 1 .. n + 1 /\ day'[n + 1] = s
        /\ \A k \in 1 .. n : day'[k] = day[k]
    BY <2>1, <2>2 DEF FocusInv
  <2>6. s.end = NULL \/ s.start <= s.end
    BY <2>2, <2>4
  <2> HIDE DEF n
  <2>7. \A k \in DOMAIN day' :
            /\ day'[k].start \in Nat /\ day'[k].start < DayLen
            /\ day'[k].end = NULL \/ day'[k].start <= day'[k].end
    BY <2>1, <2>2, <2>4, <2>5, <2>6 DEF DayInv
  <2>8. ASSUME NEW k \in DOMAIN day', NEW l \in DOMAIN day', k < l
        PROVE  day'[k].end # NULL /\ day'[k].start <= day'[l].start
    <3>1. k \in 1 .. n /\ day'[k] = day[k]
      BY <2>1, <2>5, <2>8
    <3>2. CASE l = n + 1
      BY <2>1, <2>3, <2>4, <2>5, <3>1, <3>2
    <3>3. CASE l \in 1 .. n
      BY <2>1, <2>5, <2>8, <3>1, <3>3 DEF DayInv
    <3> QED BY <2>1, <2>5, <3>2, <3>3
  <2> QED BY <2>1, <2>7, <2>8 DEF DayInv
<1>2. CASE HandleReport
  BY <1>2, HandlerAside DEF DayInv
<1>3. CASE RenderTimeline
  BY <1>3, TimelineKeepsDay DEF DayInv
<1>4. CASE RenderFocus
  BY <1>4, FocusAside DEF DayInv, After
<1>5. CASE UNCHANGED vars
  BY <1>5 DEF vars, requestVars, DayInv
<1> QED
  BY <1>1, <1>2, <1>3, <1>4, <1>5 DEF Next, Terminated

\* Where a run of short sessions ends (timeline.go:137-140).
LEMMA RunEndFacts ==
    ASSUME FocusInv, NEW k \in 1 .. Len(day), IsShort(k)
    PROVE  /\ RunEnd(k) \in k + 1 .. Len(day) + 1
           /\ \A m \in k .. RunEnd(k) - 1 : IsShort(m)
           /\ RunEnd(k) <= Len(day) => ~IsShort(RunEnd(k))
<1> DEFINE T == {j \in k .. Len(day) + 1 : j = Len(day) + 1 \/ ~IsShort(j)}
           Ends(j) == /\ \A m \in k .. j - 1 : IsShort(m)
                      /\ j <= Len(day) => ~IsShort(j)
<1>1. Len(day) \in Nat
  BY DEF FocusInv
<1>2. PICK j \in T : \A x \in T : j <= x
  <2>1. Len(day) + 1 \in T
    BY <1>1
  <2>2. T \in SUBSET Nat /\ T # {}
    BY <1>1, <2>1
  <2> HIDE DEF T
  <2> QED BY <2>2, LeastNatural
<1>3. ASSUME NEW m \in k .. j - 1 PROVE IsShort(m)
  <2>1. m \in k .. Len(day) + 1 /\ ~ (j <= m)
    BY <1>1, <1>2
  <2>2. m \notin T
    <3> HIDE DEF T
    <3> QED BY <1>2, <2>1
  <2> QED BY <2>1, <2>2
<1>4. j \in k .. Len(day) + 1 /\ Ends(j)
  BY <1>1, <1>2, <1>3
<1>5. RunEnd(k) = CHOOSE x \in k .. Len(day) + 1 : Ends(x)
  BY DEF RunEnd
<1>6. RunEnd(k) \in k .. Len(day) + 1 /\ Ends(RunEnd(k))
  <2> HIDE DEF Ends
  <2> QED BY <1>4, <1>5
<1>7. RunEnd(k) # k
  BY <1>1, <1>6
<1> QED BY <1>1, <1>6, <1>7

\* A turn of the loop: the item begins where the last one ended, and short
\* sessions that follow it are not short.
LEMMA EmitKeepsItems ==
    ASSUME FocusInv, ItemsInv, pc = "collapse", i \in 1 .. Len(day),
           NEW to \in i .. Len(day), Emit(i, to),
           i < to => \A k \in i .. to : IsShort(k),
           to + 1 <= Len(day) => ~(IsShort(to) /\ IsShort(to + 1))
    PROVE  ItemsInv'
<1> DEFINE n == Len(items)
           new == [from |-> i, to |-> to]
<1>1. n \in Nat /\ Len(day) \in Nat /\ DOMAIN items = 1 .. n
  BY DEF ItemsInv, FocusInv
<1>2. /\ items' = Append(items, new) /\ i' = to + 1 /\ pc' = "collapse" /\ day' = day
  BY DEF Emit
<1>3. \A k : IsShort(k)' <=> IsShort(k)
  BY <1>2 DEF IsShort
<1>4. new \in Item /\ i \in Nat /\ to \in Nat
  BY <1>1 DEF Item
<1>5. /\ items' \in Seq(Item) /\ Len(items') = n + 1 /\ DOMAIN items' = 1 .. n + 1
      /\ items'[n + 1] = new /\ \A k \in 1 .. n : items'[k] = items[k]
  BY <1>1, <1>2, <1>4 DEF ItemsInv
<1>6. i = IF n = 0 THEN 1 ELSE items[n].to + 1
  BY <1>1 DEF ItemsInv
<1>7. ASSUME NEW k \in 1 .. n
      PROVE  items[k].from \in Nat \ {0} /\ items[k].to \in Nat
  <2>1. items[k] \in Item
    BY <1>7, ElementOf DEF ItemsInv
  <2> QED BY <2>1 DEF Item
<1> HIDE DEF n
<1>8. ASSUME NEW k \in 1 .. n + 1
      PROVE  /\ items'[k].from <= items'[k].to /\ items'[k].to <= Len(day)
             /\ items'[k].from = IF k = 1 THEN 1 ELSE items'[k - 1].to + 1
  <2>1. CASE k = n + 1
    <3>1. items'[k].from = i /\ items'[k].to = to
      BY <1>5, <2>1
    <3>2. k # 1 => k - 1 = n /\ n \in 1 .. n /\ items'[n] = items[n]
      BY <1>1, <1>5, <2>1
    <3> QED BY <1>1, <1>6, <2>1, <3>1, <3>2
  <2>2. CASE k \in 1 .. n
    <3>1. items'[k] = items[k] /\ (k # 1 => items'[k - 1] = items[k - 1])
      BY <1>1, <1>5, <2>2
    <3> QED BY <1>1, <2>2, <3>1 DEF ItemsInv
  <2> QED BY <1>1, <2>1, <2>2
<1>9. ASSUME NEW k \in 1 .. n + 1, NEW m \in 1 .. n + 1, m < k
      PROVE  items'[m].to < items'[k].from
  <2>1. m \in 1 .. n /\ items'[m] = items[m] /\ items[m].to \in Nat
    BY <1>1, <1>5, <1>7, <1>9
  <2>2. CASE k = n + 1
    <3>1. items'[k].from = items[n].to + 1 /\ n \in 1 .. n
      BY <1>1, <1>5, <1>6, <2>1, <2>2
    <3>2. m = n \/ items[m].to < items[n].from
      BY <1>1, <2>1, <3>1 DEF ItemsInv
    <3>3. items[n].from \in Nat /\ items[n].to \in Nat /\ items[n].from <= items[n].to
      BY <1>1, <1>7, <3>1 DEF ItemsInv
    <3> QED BY <2>1, <3>1, <3>2, <3>3, SMTT(30)
  <2>3. CASE k \in 1 .. n
    BY <1>1, <1>5, <1>9, <2>1, <2>3 DEF ItemsInv
  <2> QED BY <1>1, <2>2, <2>3
<1>10. /\ i' \in 1 .. Len(day) + 1 /\ items' # <<>>
       /\ i' = items'[Len(items')].to + 1
       /\ i' \in 2 .. Len(day) => ~(IsShort(i' - 1) /\ IsShort(i'))
  <2>1. i' \in 1 .. Len(day) + 1
    BY <1>1, <1>2
  <2>2. items' # <<>> /\ i' = items'[Len(items')].to + 1
    BY <1>1, <1>2, <1>5
  <2>3. i' - 1 = to
    BY <1>2, <1>4
  <2>4. i' \in 2 .. Len(day) => to + 1 <= Len(day)
    BY <1>2, <1>1, <1>4
  <2> QED BY <1>2, <2>1, <2>2, <2>3, <2>4
<1>11. RunsAreMaximal'
  <2> SUFFICES ASSUME NEW k \in 1 .. n + 1
      PROVE  /\ items'[k].from < items'[k].to =>
                    \A m \in items'[k].from .. items'[k].to : IsShort(m)
             /\ k > 1 => ~(IsShort(items'[k - 1].to) /\ IsShort(items'[k].from))
    BY <1>3, <1>5 DEF RunsAreMaximal
  <2>1. CASE k \in 1 .. n
    <3>1. items'[k] = items[k] /\ (k > 1 => items'[k - 1] = items[k - 1])
      BY <1>1, <1>5, <2>1
    <3> QED BY <1>1, <2>1, <3>1 DEF ItemsInv, RunsAreMaximal
  <2>2. CASE k = n + 1
    <3>1. items'[k].from = i /\ items'[k].to = to
      BY <1>5, <2>2
    <3>2. ASSUME k > 1 PROVE ~(IsShort(items'[k - 1].to) /\ IsShort(items'[k].from))
      <4>1. k - 1 = n /\ n \in 1 .. n /\ items'[n] = items[n]
        BY <1>1, <1>5, <2>2, <3>2
      <4>2. i = items[n].to + 1 /\ items[n].to \in Nat
        BY <1>6, <1>7, <4>1
      <4>3. items[n].to = i - 1
        BY <4>2
      <4>4. items[n].from >= 1 /\ items[n].from <= items[n].to
        BY <1>1, <1>7, <4>1 DEF ItemsInv
      <4>5. i \in 2 .. Len(day)
        BY <1>1, <1>7, <4>1, <4>2, <4>4
      <4> QED BY <3>1, <4>1, <4>3, <4>5 DEF ItemsInv
    <3> QED BY <3>1, <3>2
  <2> QED BY <1>1, <2>1, <2>2
<1>12. pc' \notin Before /\ pc' \notin {"deal", "strip"} \cup After
  BY <1>2 DEF Before, After
<1> QED
  BY <1>2, <1>3, <1>5, <1>8, <1>9, <1>10, <1>11, <1>12 DEF ItemsInv

\* The loop of BuildTimelineItems (timeline.go:133-155).
LEMMA CollapseStep ==
    ASSUME FocusInv, ItemsInv, Collapse \/ Single
    PROVE  ItemsInv'
<1>1. pc = "collapse" /\ i <= Len(day) /\ Len(day) \in Nat
  BY DEF Collapse, Single, FocusInv
<1>2. i \in 1 .. Len(day)
  BY <1>1 DEF ItemsInv
<1>3. CASE Collapse
  <2>1. IsShort(i) /\ RunEnd(i) - i >= 2 /\ Emit(i, RunEnd(i) - 1)
    BY <1>3 DEF Collapse
  <2>2. /\ RunEnd(i) \in i + 1 .. Len(day) + 1
        /\ \A m \in i .. RunEnd(i) - 1 : IsShort(m)
        /\ RunEnd(i) <= Len(day) => ~IsShort(RunEnd(i))
    BY <1>2, <2>1, RunEndFacts
  <2>3. PICK to \in i .. Len(day) : to = RunEnd(i) - 1
    BY <1>1, <1>2, <2>2
  <2>4. to + 1 = RunEnd(i)
    BY <1>1, <1>2, <2>2, <2>3
  <2> QED BY <1>1, <1>2, <2>1, <2>2, <2>3, <2>4, EmitKeepsItems
<1>4. CASE Single
  <2>1. Emit(i, i) /\ i \in i .. Len(day) /\ ~(i < i)
    BY <1>1, <1>2, <1>4 DEF Single
  <2>2. i + 1 <= Len(day) => ~(IsShort(i) /\ IsShort(i + 1))
    <3> SUFFICES ASSUME i + 1 <= Len(day), IsShort(i) PROVE ~IsShort(i + 1)
      OBVIOUS
    <3>1. /\ RunEnd(i) \in i + 1 .. Len(day) + 1
          /\ RunEnd(i) <= Len(day) => ~IsShort(RunEnd(i))
      BY <1>2, RunEndFacts
    <3>2. RunEnd(i) - i < 2
      BY <1>4 DEF Single
    <3>3. RunEnd(i) = i + 1
      BY <1>1, <1>2, <3>1, <3>2
    <3> QED BY <3>1, <3>3
  <2> QED BY <1>1, <1>2, <2>1, <2>2, EmitKeepsItems
<1> QED BY <1>3, <1>4

LEMMA ItemsStep ==
    ASSUME FocusInv, DayInv, ItemsInv, [Next]_vars
    PROVE  ItemsInv'
<1>1. CASE Query
  <2>1. items = <<>> /\ items' = items /\ pc' = "rows"
    BY <1>1 DEF Query, SessionsForDay, AddFinished, AddOpen, timelineVars, ItemsInv,
                Before
  <2> QED BY <2>1 DEF ItemsInv, RunsAreMaximal, After
<1>2. CASE HandleReport
  <2>1. /\ items = <<>> /\ items' = <<>> /\ Len(day') \in Nat
        /\ pc' \in Before \cup {"collapse"} /\ (pc' = "collapse" => i' = 1)
    BY <1>2, HandlerAside DEF ItemsInv, FocusInv
  <2> QED BY <2>1 DEF ItemsInv, RunsAreMaximal, After, Before
<1>3. CASE Collapse \/ Single
  BY <1>3, CollapseStep
<1>4. CASE Collapsed
  <2>1. /\ pc = "collapse" /\ i > Len(day) /\ pc' = "deal" /\ i' = 1
        /\ UNCHANGED <<day, items>>
    BY <1>4 DEF Collapsed
  <2>2. day # <<>> /\ Len(day) \in Nat \ {0}
    BY <2>1 DEF DayInv, FocusInv
  <2>3. i = Len(day) + 1 /\ items # <<>>
    BY <2>1, <2>2 DEF ItemsInv
  <2>4. Len(items) \in 1 .. Len(items)
    BY <2>3 DEF ItemsInv
  <2>5. items[Len(items)] \in Item
    BY <2>4, ElementOf DEF ItemsInv
  <2>6. items[Len(items)].to = Len(day)
    BY <2>1, <2>2, <2>3, <2>5 DEF ItemsInv, Item
  <2> QED BY <2>1, <2>3, <2>6 DEF ItemsInv, RunsAreMaximal, IsShort, Before
<1>5. CASE Deal \/ Dealt \/ Place \/ Placed
  <2>1. /\ UNCHANGED <<day, items>> /\ pc \in {"deal", "strip"}
        /\ pc' \in {"deal", "strip"} \cup After
    BY <1>5 DEF Deal, Dealt, Place, Placed, After
  <2> QED BY <2>1 DEF ItemsInv, RunsAreMaximal, IsShort, Before, After
<1>6. CASE RenderFocus
  BY <1>6, FocusAside DEF ItemsInv, RunsAreMaximal, IsShort, Before, After
<1>7. CASE UNCHANGED vars
  BY <1>7 DEF vars, requestVars, timelineVars, ItemsInv, RunsAreMaximal, IsShort
<1> QED
  BY <1>1, <1>2, <1>3, <1>4, <1>5, <1>6, <1>7
  DEF Next, Terminated, RenderTimeline, TimelineNext

-----------------------------------------------------------------------------
\* Every item goes to a part of the day.
LEMMA PeriodOfIsPeriod == ASSUME NEW t PROVE PeriodOf(t) \in Periods
BY DEF PeriodOf, Periods

\* What ToSet gives of a sequence that grows.
LEMMA ToSetAppend ==
    ASSUME NEW S, NEW s \in Seq(S), NEW x \in S
    PROVE  ToSet(Append(s, x)) = ToSet(s) \cup {x}
<1>1. /\ Append(s, x) \in Seq(S) /\ Len(Append(s, x)) = Len(s) + 1
      /\ \A k \in 1 .. Len(s) : Append(s, x)[k] = s[k]
      /\ Append(s, x)[Len(s) + 1] = x /\ Len(s) \in Nat
      /\ DOMAIN s = 1 .. Len(s) /\ DOMAIN Append(s, x) = 1 .. Len(s) + 1
  OBVIOUS
<1> QED BY <1>1 DEF ToSet

\* The next item, the newest that is not dealt, goes to the end of its
\* bucket, behind later ones (timeline.go:213-234).
LEMMA DealStep ==
    ASSUME ItemsInv, DealInv, Deal
    PROVE  DealInv'
<1> DEFINE L == Len(items)
<1>1. /\ L \in Nat /\ i \in 1 .. L /\ pc = "deal" /\ pc' = "deal" /\ i' = i + 1
      /\ items' = items /\ DOMAIN items = 1 .. L
  BY DEF Deal, DealInv, ItemsInv
<1>2. PICK k \in 1 .. L : k = L + 1 - i
  BY <1>1
<1>3. PICK q \in Periods :
        buckets' = [buckets EXCEPT ![q] = Append(buckets[q], items[k])]
  BY <1>2, PeriodOfIsPeriod DEF Deal
<1>4. /\ DOMAIN buckets = Periods /\ \A p \in Periods : buckets[p] \in Seq(Item)
      /\ DealtLast(i - 1)
  BY <1>1 DEF DealInv
<1>5. items[k] \in Item
  BY <1>2, ElementOf DEF ItemsInv
<1>6. /\ buckets'[q] = Append(buckets[q], items[k])
      /\ \A p \in Periods : p # q => buckets'[p] = buckets[p]
  BY <1>3, <1>4
<1>7. buckets' = [p \in Periods |-> buckets'[p]]
  BY <1>3, <1>4
<1>8. \A p \in Periods : buckets'[p] \in Seq(Item)
  <2>1. buckets[q] \in Seq(Item)
    BY <1>4
  <2>2. Append(buckets[q], items[k]) \in Seq(Item)
    BY <1>5, <2>1
  <2> QED BY <1>4, <1>6, <2>2, Zenon
<1> DEFINE n == Len(buckets[q])
<1>9. /\ n \in Nat /\ Len(buckets'[q]) = n + 1 /\ buckets'[q][n + 1] = items[k]
      /\ \A m \in 1 .. n : buckets'[q][m] = buckets[q][m]
  BY <1>4, <1>5, <1>6
<1>10. \A p \in Periods : \A m \in DOMAIN buckets[p] :
            items[k].from < buckets[p][m].from
  <2> SUFFICES ASSUME NEW p \in Periods, NEW m \in DOMAIN buckets[p]
      PROVE  items[k].from < buckets[p][m].from
    OBVIOUS
  <2>1. buckets[p][m] \in UNION {ToSet(buckets[r]) : r \in Periods}
    BY DEF ToSet
  <2>2. PICK j \in Newest(i - 1) : buckets[p][m] = items[j]
    BY <1>4, <2>1 DEF DealtLast
  <2>3. j \in 1 .. L /\ k < j
    BY <1>1, <1>2, <2>2 DEF Newest
  <2>4. items[k].to < items[j].from /\ items[k].from <= items[k].to
    BY <1>1, <2>3 DEF ItemsInv
  <2>5. items[j] \in Item
    BY <2>3, ElementOf DEF ItemsInv
  <2> QED BY <1>5, <2>2, <2>4, <2>5 DEF Item
<1>11. ASSUME NEW p \in Periods, NEW m \in 2 .. Len(buckets'[p])
       PROVE  buckets'[p][m].from < buckets'[p][m - 1].from
  <2>1. CASE p # q
    BY <1>6, <2>1, <1>11 DEF DealInv
  <2>2. CASE p = q /\ m \in 2 .. n
    <3>1. buckets'[q][m] = buckets[q][m] /\ buckets'[q][m - 1] = buckets[q][m - 1]
      BY <1>9, <2>2
    <3> QED BY <2>2, <3>1 DEF DealInv
  <2>3. CASE p = q /\ m = n + 1
    <3>1. n \in 1 .. n /\ m - 1 = n
      BY <1>9, <2>3
    <3>2. n \in DOMAIN buckets[q]
      BY <1>4, <3>1
    <3> HIDE DEF n
    <3> QED BY <1>9, <1>10, <2>3, <3>1, <3>2
  <2> QED BY <1>9, <1>11, <2>1, <2>2, <2>3
<1>12. UNION {ToSet(buckets'[p]) : p \in Periods} = {items[m] : m \in Newest(i)}
  <2>1. ToSet(buckets'[q]) = ToSet(buckets[q]) \cup {items[k]}
    BY <1>4, <1>5, <1>6, ToSetAppend
  <2>2. \A p \in Periods : p # q => ToSet(buckets'[p]) = ToSet(buckets[p])
    <3> SUFFICES ASSUME NEW p \in Periods, p # q
        PROVE  ToSet(buckets'[p]) = ToSet(buckets[p])
      OBVIOUS
    <3>1. buckets'[p] = buckets[p]
      BY <1>6
    <3> QED BY <3>1 DEF ToSet
  <2>3. ASSUME NEW x
        PROVE  x \in UNION {ToSet(buckets'[p]) : p \in Periods}
                <=> x \in UNION {ToSet(buckets[p]) : p \in Periods} \/ x = items[k]
    <3>1. (\E p \in Periods : x \in ToSet(buckets'[p]))
            <=> (\E p \in Periods : x \in ToSet(buckets[p])) \/ x = items[k]
      BY <2>1, <2>2
    <3> QED BY <3>1
  <2>4. Newest(i) = Newest(i - 1) \cup {k}
    BY <1>1, <1>2 DEF Newest
  <2>5. ASSUME NEW x
        PROVE  x \in {items[m] : m \in Newest(i)}
                <=> x \in {items[m] : m \in Newest(i - 1)} \/ x = items[k]
    BY <2>4
  <2>6. UNION {ToSet(buckets[p]) : p \in Periods} = {items[m] : m \in Newest(i - 1)}
    BY <1>4 DEF DealtLast
  <2> QED BY <2>3, <2>5, <2>6
<1>13. Len(buckets'["Morning"]) + Len(buckets'["Afternoon"])
            + Len(buckets'["Evening"]) = i
  <2>1. /\ Len(buckets'[q]) = Len(buckets[q]) + 1
        /\ \A p \in Periods : p # q => Len(buckets'[p]) = Len(buckets[p])
    BY <1>6, <1>9
  <2>2. \A p \in Periods : Len(buckets[p]) \in Nat
    BY <1>4
  <2>3. Len(buckets["Morning"]) + Len(buckets["Afternoon"])
            + Len(buckets["Evening"]) = i - 1
    BY <1>4 DEF DealtLast
  <2>4. /\ "Morning" \in Periods /\ "Afternoon" \in Periods /\ "Evening" \in Periods
        /\ q = "Morning" \/ q = "Afternoon" \/ q = "Evening"
    BY DEF Periods
  <2>8. PICK a \in Nat, b \in Nat, c \in Nat :
            /\ Len(buckets["Morning"]) = a /\ Len(buckets["Afternoon"]) = b
            /\ Len(buckets["Evening"]) = c
    BY <2>2, <2>4
  <2>9. i \in Nat /\ a + b + c = i - 1
    BY <1>1, <2>3, <2>8
  <2>5. CASE q = "Morning"
    <3>1. /\ Len(buckets'["Morning"]) = a + 1
          /\ Len(buckets'["Afternoon"]) = b
          /\ Len(buckets'["Evening"]) = c
      BY <2>1, <2>4, <2>8, <2>5
    <3> QED BY <2>9, <3>1
  <2>6. CASE q = "Afternoon"
    <3>1. /\ Len(buckets'["Morning"]) = a
          /\ Len(buckets'["Afternoon"]) = b + 1
          /\ Len(buckets'["Evening"]) = c
      BY <2>1, <2>4, <2>8, <2>6
    <3> QED BY <2>9, <3>1
  <2>7. CASE q = "Evening"
    <3>1. /\ Len(buckets'["Morning"]) = a
          /\ Len(buckets'["Afternoon"]) = b
          /\ Len(buckets'["Evening"]) = c + 1
      BY <2>1, <2>4, <2>8, <2>7
    <3> QED BY <2>9, <3>1
  <2> QED BY <2>4, <2>5, <2>6, <2>7
<1>14. DealtLast(i - 1)'
  <2>1. i' - 1 = i /\ Newest(i - 1)' = Newest(i)
    BY <1>1 DEF Newest
  <2> QED BY <1>1, <1>12, <1>13, <2>1, ZenonT(60) DEF DealtLast
<1>15. i' \in 1 .. Len(items') + 1
  BY <1>1
<1> QED
  BY <1>1, <1>7, <1>8, <1>11, <1>14, <1>15 DEF DealInv, Before, After

LEMMA DealInvStep ==
    ASSUME FocusInv, DayInv, ItemsInv, DealInv, [Next]_vars
    PROVE  DealInv'
<1>1. CASE Query \/ HandleReport
  <2>1. /\ pc \in Before /\ pc' \in Before \cup {"collapse"} /\ buckets' = buckets
    <3>1. CASE Query
      BY <3>1 DEF Query, SessionsForDay, AddFinished, AddOpen, timelineVars, Before
    <3> QED BY <1>1, <3>1, HandlerAside
  <2> QED BY <2>1 DEF DealInv, Before, After
<1>2. CASE Collapse \/ Single
  <2>1. pc = "collapse" /\ pc' = pc /\ buckets' = buckets
    BY <1>2 DEF Collapse, Single, Emit
  <2> QED BY <2>1 DEF DealInv, Before, After
<1>3. CASE Collapsed
  <2>1. /\ pc = "collapse" /\ pc' = "deal" /\ i' = 1 /\ buckets' = buckets
        /\ items' = items /\ Len(items) \in Nat
    BY <1>3 DEF Collapsed, ItemsInv
  <2>2. \A p \in Periods : buckets[p] = <<>>
    BY <2>1 DEF DealInv
  <2>3. UNION {ToSet(buckets[p]) : p \in Periods} = {}
    BY <2>2 DEF ToSet
  <2>4. {items[k] : k \in Newest(0)} = {}
    BY <2>1 DEF Newest
  <2>5. Len(buckets["Morning"]) = 0 /\ Len(buckets["Afternoon"]) = 0
        /\ Len(buckets["Evening"]) = 0
    BY <2>2 DEF Periods
  <2>6. UNION {ToSet(buckets[p]) : p \in Periods} = {items[k] : k \in Newest(0)}
    BY <2>3, <2>4
  <2>8. (i - 1)' = 0 /\ Newest(i - 1)' = Newest(0)
    BY <2>1 DEF Newest
  <2>9. UNION {ToSet(buckets'[p]) : p \in Periods}
            = {items'[k] : k \in Newest(i - 1)'}
    BY <2>1, <2>6, <2>8, ZenonT(60)
  <2>7. DealtLast(i - 1)'
    <3>1. Len(buckets'["Morning"]) + Len(buckets'["Afternoon"])
            + Len(buckets'["Evening"]) = (i - 1)'
      BY <2>1, <2>5, <2>8
    <3> QED BY <2>9, <3>1 DEF DealtLast
  <2> QED BY <2>1, <2>7 DEF DealInv, Before, After
<1>4. CASE Deal
  BY <1>4, DealStep
<1>5. CASE Dealt
  <2>1. /\ pc = "deal" /\ i > Len(items) /\ pc' = "strip" /\ UNCHANGED <<items, buckets>>
        /\ Len(items) \in Nat
    BY <1>5 DEF Dealt, ItemsInv
  <2>2. i - 1 = Len(items)
    BY <2>1 DEF DealInv
  <2>3. DealtLast(Len(items))
    BY <2>1, <2>2 DEF DealInv
  <2> QED BY <2>1, <2>3, ZenonT(60) DEF DealInv, DealtLast, Newest, Before, After
<1>6. CASE Place \/ Placed \/ RenderFocus
  <2>1. /\ pc \in {"strip"} \cup After /\ pc' \in {"strip"} \cup After
        /\ UNCHANGED <<items, buckets>>
    <3>1. CASE Place \/ Placed
      BY <3>1 DEF Place, Placed, After
    <3> QED BY <1>6, <3>1, FocusAside
  <2> QED BY <2>1, ZenonT(60) DEF DealInv, DealtLast, Newest, Before, After
<1>7. CASE UNCHANGED vars
  BY <1>7, ZenonT(60) DEF vars, requestVars, timelineVars, DealInv, DealtLast, Newest
<1> QED
  BY <1>1, <1>2, <1>3, <1>4, <1>5, <1>6, <1>7
  DEF Next, Terminated, RenderTimeline, TimelineNext

-----------------------------------------------------------------------------
(* The strip                                                               *)

\* The axis begins no later than any finished session (timeline.go:264-281).
LEMMA MidnightFacts ==
    ASSUME FocusInv, DayInv, NEW k \in Finished
    PROVE  Midnight \in Int /\ Midnight <= day[k].start
<1>1. Finished \in SUBSET Nat /\ Finished # {}
  BY DEF Finished, FocusInv
<1>2. \E f \in Finished : \A m \in Finished : f <= m
  BY <1>1, LeastNatural
<1> DEFINE f == CHOOSE x \in Finished : \A m \in Finished : x <= m
<1>3. f \in Finished /\ f <= k
  BY <1>2
<1>4. Midnight = (day[f].start \div DayLen) * DayLen
  BY DEF Midnight
<1> HIDE DEF f
<1>5. f \in DOMAIN day /\ k \in DOMAIN day /\ f \in Nat /\ k \in Nat
  BY <1>1, <1>3 DEF Finished
<1>6. /\ day[f].start \in Nat /\ day[k].start \in Nat /\ day[f].start < DayLen
      /\ day[f].start <= day[k].start
  BY <1>3, <1>5 DEF DayInv
<1>7. ASSUME NEW x \in Nat, NEW d \in Nat, x < d
      PROVE  (x \div d) * d \in Int /\ (x \div d) * d <= x
  <2>1. d \in Nat \ {0}
    BY <1>7
  <2> QED BY <2>1
<1>8. Midnight \in Int /\ Midnight <= day[f].start
  BY <1>4, <1>6, <1>7, DayAssumption
<1> QED BY <1>6, <1>8

LEMMA FirstFinishedFacts ==
    ASSUME FocusInv, NEW n \in Nat \ {0}
    PROVE  /\ IsFiniteSet(FirstFinished(n - 1)) /\ FirstFinished(n - 1) \subseteq Finished
           /\ n \notin FirstFinished(n - 1)
           /\ n \notin Finished => FirstFinished(n) = FirstFinished(n - 1)
           /\ n \in Finished => FirstFinished(n) = FirstFinished(n - 1) \cup {n}
<1>1. Len(day) \in Nat /\ \A k \in Finished : k \in Nat /\ k \in 1 .. Len(day)
  BY DEF FocusInv, Finished
<1>2. IsFiniteSet(FirstFinished(n - 1))
  <2>1. FirstFinished(n - 1) \subseteq 1 .. Len(day)
    BY <1>1 DEF FirstFinished
  <2>2. IsFiniteSet(1 .. Len(day))
    BY <1>1, FS_Interval
  <2> QED BY <2>1, <2>2, FS_Subset
<1>3. ASSUME NEW k \in Finished PROVE k <= n <=> k <= n - 1 \/ k = n
  BY <1>1
<1>4. \A k : k \in FirstFinished(n) <=> k \in FirstFinished(n - 1) \/ (k = n /\ n \in Finished)
  BY <1>3 DEF FirstFinished
<1>5. n \notin FirstFinished(n - 1) /\ FirstFinished(n - 1) \subseteq Finished
  BY DEF FirstFinished
<1> QED BY <1>2, <1>4, <1>5

\* One session on the axis (timeline.go:283-305).
LEMMA PlaceStep ==
    ASSUME FocusInv, DayInv, StripInv, Place
    PROVE  StripInv'
<1> DEFINE n == Len(segs)
           new == [of |-> i, left |-> day[i].start - Midnight,
                   width |-> AtLeast(MinWidth, day[i].end - day[i].start)]
<1>1. /\ pc = "strip" /\ i \in 1 .. Len(day) /\ Len(day) \in Nat /\ i' = i + 1
      /\ day' = day /\ pc' = pc /\ segs' = IF day[i].end = NULL THEN segs
                                          ELSE Append(segs, new)
      /\ PlacedFirst(i - 1)
  BY DEF Place, StripInv, FocusInv
<1>2. Finished' = Finished /\ Midnight' = Midnight /\ Finished \subseteq 1 .. Len(day)
  BY <1>1 DEF Finished, Midnight, FocusInv
<1>3. day[i] \in Session /\ i \in DOMAIN day
  BY <1>1, ElementOf DEF FocusInv
<1>4. CASE day[i].end = NULL
  <2>1. segs' = segs /\ i \notin Finished
    BY <1>1, <1>4 DEF Finished
  <2>2. FirstFinished(i) = FirstFinished(i - 1)
    BY <1>1, <2>1, FirstFinishedFacts
  <2>4. FirstFinished(i - 1)' = FirstFinished(i) /\ Bars' = Bars
    BY <1>1, <1>2, <2>1 DEF FirstFinished, Bars
  <2>3. PlacedFirst(i - 1)'
    BY <1>1, <2>1, <2>2, <2>4 DEF PlacedFirst
  <2>5. /\ day' = day /\ Len(day') = Len(day) /\ pc' = "strip" /\ pc = "strip"
        /\ i' \in 1 .. Len(day') + 1
    BY <1>1
  <2> QED BY <1>2, <2>1, <2>3, <2>5 DEF StripInv, Before, After
<1>5. CASE day[i].end # NULL
  <2>1. segs' = Append(segs, new) /\ i \in Finished
    BY <1>1, <1>3, <1>5 DEF Finished
  <2>2. Midnight \in Int
    BY <2>1, MidnightFacts
  <2>3. new \in [of : Nat, left : Int, width : Int]
    <3>1. AtLeast(MinWidth, day[i].end - day[i].start) \in Int
      BY <1>3, TimelineAssumption DEF AtLeast, Session
    <3> QED BY <1>1, <1>3, <2>2, <3>1 DEF Session
  <2>4. /\ segs' \in Seq([of : Nat, left : Int, width : Int]) /\ n \in Nat
        /\ DOMAIN segs = 1 .. n /\ DOMAIN segs' = 1 .. n + 1 /\ Len(segs') = n + 1
        /\ segs'[n + 1] = new /\ \A k \in 1 .. n : segs'[k] = segs[k]
    BY <2>1, <2>3 DEF StripInv
  <2>5. new.of = i /\ new.left = day[i].start - Midnight
    OBVIOUS
  <2> HIDE DEF new, n
  <2>6. \A k \in DOMAIN segs : segs[k].of \in Finished /\ segs[k].of <= i - 1
    <3>1. Bars = FirstFinished(i - 1)
      BY <1>1 DEF PlacedFirst
    <3> QED BY <3>1 DEF Bars, FirstFinished
  <2>7. ASSUME NEW k \in DOMAIN segs'
        PROVE  segs'[k].of \in DOMAIN day
               /\ segs'[k].left = day[segs'[k].of].start - Midnight
    <3>1. CASE k = n + 1
      BY <1>3, <2>4, <2>5, <3>1
    <3>2. CASE k \in 1 .. n
      BY <2>4, <3>2 DEF StripInv
    <3> QED BY <2>4, <3>1, <3>2
  <2>8. ASSUME NEW m \in DOMAIN segs', NEW k \in DOMAIN segs', m < k
        PROVE  segs'[m].of < segs'[k].of
    <3>1. m \in 1 .. n /\ segs'[m] = segs[m]
      BY <2>4, <2>8
    <3>2. CASE k = n + 1
      <4>1. segs[m].of \in Nat /\ segs[m].of <= i - 1
        <5>1. segs[m] \in [of : Nat, left : Int, width : Int]
          BY <2>4, <3>1, ElementOf DEF StripInv, n
        <5>2. segs[m].of \in Nat
          BY <5>1
        <5>3. m \in DOMAIN segs
          BY <2>4, <3>1
        <5> QED BY <2>6, <5>2, <5>3
      <4>2. segs'[k].of = i /\ segs'[m].of = segs[m].of
        BY <2>4, <2>5, <3>1, <3>2
      <4> QED BY <1>1, <4>1, <4>2
    <3>3. CASE k \in 1 .. n
      BY <2>4, <2>8, <3>1, <3>3 DEF StripInv
    <3> QED BY <2>4, <3>2, <3>3
  <2>9. FirstFinished(i) = FirstFinished(i - 1) \cup {i}
    BY <1>1, <2>1, FirstFinishedFacts
  <2>10. Bars' = Bars \cup {i}
    <3>1. ASSUME NEW x
          PROVE  (\E k \in 1 .. n + 1 : x = segs'[k].of)
                    <=> (\E k \in 1 .. n : x = segs[k].of) \/ x = i
      <4>1. \A k \in 1 .. n + 1 : k = n + 1 \/ k \in 1 .. n
        BY <2>4
      <4>2. n + 1 \in 1 .. n + 1 /\ \A k \in 1 .. n : k \in 1 .. n + 1
        BY <2>4
      <4> QED BY <2>4, <2>5, <4>1, <4>2
    <3> QED BY <2>4, <3>1 DEF Bars
  <2>11. Cardinality(FirstFinished(i - 1) \cup {i})
            = Cardinality(FirstFinished(i - 1)) + 1
    <3>1. IsFiniteSet(FirstFinished(i - 1)) /\ i \notin FirstFinished(i - 1)
      BY <1>1, FirstFinishedFacts
    <3> QED BY <3>1, FS_AddElement
  <2>12. PlacedFirst(i - 1)'
    <3>1. FirstFinished(i - 1)' = FirstFinished(i)
      BY <1>1, <1>2 DEF FirstFinished
    <3>2. Bars' = FirstFinished(i)
      BY <1>1, <2>9, <2>10 DEF PlacedFirst
    <3>3. Len(segs') = Cardinality(FirstFinished(i))
      BY <1>1, <2>4, <2>9, <2>11 DEF PlacedFirst, n
    <3> QED BY <3>1, <3>2, <3>3 DEF PlacedFirst
  <2>13. /\ day' = day /\ Len(day') = Len(day) /\ pc' = "strip" /\ pc = "strip"
         /\ i' \in 1 .. Len(day') + 1
    BY <1>1
  <2>14. segs' \in Seq([of : Nat, left : Int, width : Int])
    BY <2>4
  <2> QED BY <1>2, <2>7, <2>8, <2>12, <2>13, <2>14 DEF StripInv, Before, After
<1> QED BY <1>4, <1>5

LEMMA StripStep ==
    ASSUME FocusInv, DayInv, StripInv, [Next]_vars
    PROVE  StripInv'
<1>1. CASE Query \/ HandleReport
  <2>1. /\ pc \in Before /\ pc' \in Before \cup {"collapse"} /\ segs' = segs
    <3>1. CASE Query
      BY <3>1 DEF Query, SessionsForDay, AddFinished, AddOpen, timelineVars, Before
    <3> QED BY <1>1, <3>1, HandlerAside
  <2>2. segs = <<>>
    BY <2>1 DEF StripInv
  <2> QED BY <2>1, <2>2 DEF StripInv, Before, After
<1>2. CASE Collapse \/ Single \/ Collapsed \/ Deal
  <2>1. /\ pc \in {"collapse", "deal"} /\ pc' \in {"collapse", "deal"} /\ segs' = segs
    BY <1>2 DEF Collapse, Single, Emit, Collapsed, Deal
  <2>2. segs = <<>>
    BY <2>1 DEF StripInv
  <2> QED BY <2>1, <2>2 DEF StripInv, Before, After
<1>3. CASE Dealt
  <2>1. /\ pc = "deal" /\ pc' = "strip" /\ i' = 1 /\ day' = day /\ segs' = <<>>
        /\ Len(day) \in Nat
    BY <1>3 DEF Dealt, StripInv, FocusInv
  <2>2. FirstFinished(0) = {}
    BY DEF FirstFinished, Finished, FocusInv
  <2>3. Bars' = {} /\ FirstFinished(i - 1)' = FirstFinished(0)
    BY <2>1 DEF Bars, FirstFinished, Finished
  <2>4. PlacedFirst(i - 1)'
    BY <2>1, <2>2, <2>3, FS_EmptySet DEF PlacedFirst
  <2>5. i' \in 1 .. Len(day') + 1
    BY <2>1
  <2> QED BY <2>1, <2>4, <2>5 DEF StripInv, Before, After
<1>4. CASE Place
  BY <1>4, PlaceStep
<1>5. CASE Placed
  <2>1. /\ pc = "strip" /\ (Finished # {} => i > Len(day)) /\ pc' = "add"
        /\ UNCHANGED <<day, segs>> /\ Len(day) \in Nat
    BY <1>5 DEF Placed, FocusInv
  <2>2. FirstFinished(i - 1) = FirstFinished(Len(day))
    <3>1. CASE Finished = {}
      BY <3>1 DEF FirstFinished
    <3>2. CASE Finished # {}
      <4>1. i - 1 = Len(day)
        <5>1. i \in 1 .. Len(day) + 1
          BY <2>1 DEF StripInv
        <5>2. i > Len(day) /\ Len(day) \in Nat
          BY <2>1, <3>2
        <5> QED BY <5>1, <5>2
      <4> QED BY <4>1
    <3> QED BY <3>1, <3>2
  <2>3. PlacedFirst(Len(day))
    BY <2>1, <2>2 DEF StripInv, PlacedFirst
  <2>4. PlacedFirst(Len(day))'
    BY <2>1, <2>3 DEF PlacedFirst, FirstFinished, Finished, Bars
  <2>5. Midnight' = Midnight
    BY <2>1 DEF Midnight, Finished
  <2> QED BY <2>1, <2>4, <2>5 DEF StripInv, Before, After
<1>6. CASE RenderFocus
  <2>1. UNCHANGED <<day, segs>> /\ pc \in After /\ pc' \in After
    BY <1>6, FocusAside
  <2>2. PlacedFirst(Len(day))' /\ Midnight' = Midnight
    BY <2>1, ZenonT(60) DEF StripInv, PlacedFirst, FirstFinished, Finished, Bars, Midnight
  <2> QED BY <2>1, <2>2 DEF StripInv, Before, After
<1>7. CASE UNCHANGED vars
  <2>1. UNCHANGED <<day, segs, pc, i>>
    BY <1>7 DEF vars, requestVars, timelineVars
  <2> QED
    BY <2>1, SMTT(30) DEF StripInv, PlacedFirst, FirstFinished, Finished, Bars, Midnight
<1> QED
  BY <1>1, <1>2, <1>3, <1>4, <1>5, <1>6, <1>7
  DEF Next, Terminated, RenderTimeline, TimelineNext

\* The page's invariant is kept by every step (timeline.go:127-305).
THEOREM TimelineInvariance == Spec => []TimelineInv
<1>1. Init => DayInv /\ ItemsInv /\ DealInv /\ StripInv
  <2> SUFFICES ASSUME Init PROVE DayInv /\ ItemsInv /\ DealInv /\ StripInv
    OBVIOUS
  <2>1. /\ day = <<>> /\ pc = "rows" /\ items = <<>> /\ segs = <<>>
        /\ buckets = [p \in Periods |-> <<>>]
    BY DEF Init, DayInit, TimelineInit
  <2> QED BY <2>1 DEF DayInv, ItemsInv, DealInv, StripInv, RunsAreMaximal, Before, After
<1>2. FocusInv /\ DayInv /\ ItemsInv /\ DealInv /\ StripInv /\ [Next]_vars
        => DayInv' /\ ItemsInv' /\ DealInv' /\ StripInv'
  BY DayStep, ItemsStep, DealInvStep, StripStep
<1> QED
  BY <1>1, <1>2, FocusInvariance, PTL DEF Spec, TimelineInv

\* On every day the items are the sessions, in order, each in one item
\* (timeline.go:133-155).
THEOREM EverySessionIsShown == Spec => []ItemsCoverTheDay
<1>1. TimelineInv => ItemsCoverTheDay
  <2> SUFFICES ASSUME ItemsInv, FocusInv, DayInv PROVE ItemsCoverTheDay
    BY DEF TimelineInv
  <2>1. Len(items) \in Nat /\ DOMAIN items = 1 .. Len(items)
    BY DEF ItemsInv
  <2>2. \A n \in 2 .. Len(items) : n \in DOMAIN items /\ n # 1
    BY <2>1
  <2>3. items # <<>> => 1 \in DOMAIN items
    BY <2>1 DEF ItemsInv
  <2> QED BY <2>1, <2>2, <2>3 DEF ItemsCoverTheDay, ItemsInv, After
<1> QED BY <1>1, TimelineInvariance, PTL

\* On every day, and for every threshold, runs of short sessions are collapsed
\* as far as they go, and nothing else is (timeline.go:137-149).
THEOREM CollapsedRunsAreMaximal == Spec => []RunsAreMaximal
<1>1. TimelineInv => RunsAreMaximal
  BY DEF TimelineInv, ItemsInv
<1> QED BY <1>1, TimelineInvariance, PTL

\* On every day, and for every division of it, the periods split the items and
\* show the newest first (timeline.go:213-234).
THEOREM PeriodsSplitTheItems == Spec => []PeriodsPartition
<1>1. TimelineInv => PeriodsPartition
  <2> SUFFICES ASSUME ItemsInv, DealInv, pc = "done" PROVE PeriodsPartition
    BY DEF TimelineInv, PeriodsPartition
  <2>1. DealtLast(Len(items)) /\ Len(items) \in Nat
    BY DEF DealInv, ItemsInv, After
  <2>2. Newest(Len(items)) = DOMAIN items
    BY <2>1 DEF Newest, ItemsInv
  <2>3. {items[k] : k \in Newest(Len(items))} = ToSet(items)
    BY <2>2 DEF ToSet
  <2> QED BY <2>1, <2>3 DEF PeriodsPartition, DealtLast, DealInv
<1> QED BY <1>1, TimelineInvariance, PTL

\* On every day the strip shows each finished session once, in order and after
\* midnight (timeline.go:264-305).
THEOREM StripIsTheDay == Spec => []StripShowsTheDay
<1>1. TimelineInv => StripShowsTheDay
  <2> SUFFICES ASSUME FocusInv, DayInv, StripInv, pc = "done" PROVE StripShowsTheDay
    BY DEF TimelineInv, StripShowsTheDay
  <2>1. PlacedFirst(Len(day)) /\ Len(day) \in Nat
    BY DEF StripInv, FocusInv, After
  <2>2. FirstFinished(Len(day)) = Finished
    BY <2>1 DEF FirstFinished, Finished, FocusInv
  <2>3. Bars = Finished /\ Len(segs) = Cardinality(Finished)
    BY <2>1, <2>2 DEF PlacedFirst
  <2>4. ASSUME NEW n \in DOMAIN segs
        PROVE  /\ segs[n].of \in Finished /\ segs[n].left = day[segs[n].of].start - Midnight
               /\ day[segs[n].of].start \in Nat /\ Midnight \in Int /\ 0 <= segs[n].left
    <3>1. segs[n].of \in Finished
      BY <2>3 DEF Bars
    <3>2. Midnight \in Int /\ Midnight <= day[segs[n].of].start
      BY <3>1, MidnightFacts
    <3>3. day[segs[n].of].start \in Nat
      BY <3>1 DEF DayInv, Finished
    <3>4. segs[n].left = day[segs[n].of].start - Midnight
      BY DEF StripInv
    <3> QED BY <3>1, <3>2, <3>3, <3>4
  <2>5. ASSUME NEW n \in 2 .. Len(segs) PROVE segs[n - 1].left <= segs[n].left
    <3>1. n \in DOMAIN segs /\ n - 1 \in DOMAIN segs /\ n - 1 < n
      BY DEF StripInv
    <3>2. segs[n - 1].of < segs[n].of
      BY <3>1 DEF StripInv
    <3>3. day[segs[n - 1].of].start <= day[segs[n].of].start
      BY <2>4, <3>1, <3>2 DEF DayInv, Finished
    <3> QED BY <2>4, <3>1, <3>3
  <2> QED BY <2>3, <2>4, <2>5 DEF StripShowsTheDay, Bars
<1> QED BY <1>1, TimelineInvariance, PTL

-----------------------------------------------------------------------------
(* The groups of the report                                                *)

\* What the sessions up to n come to, and all of them.
Prefix(n) == SumFunctionOnSet(Secs, 1 .. n)
Whole == Prefix(Len(day))

\* The totals of the groups, in the order of the report.
GroupTotals == [n \in DOMAIN order |-> groups[order[n]].total]

\* A line of a group.
Entry == [label : {"Coding", "Meeting", "Browser", "Other", "research/ai-assist"},
          dur : Nat]

\* The first session of each label.
First == [l \in Labels |-> Min(Under(l))]

\* The sessions filed under l, up to the n-th of the day.
UpTo(l, n) == {k \in Under(l) : k <= n}

\* The first n sessions are in their groups, each in the place it has among
\* those of its label.
AttachedFirst(n) ==
    /\ order \in Seq(Labels) /\ IsInjective(order) /\ ToSet(order) = DOMAIN groups
    /\ DOMAIN groups = {Home(k) : k \in 1 .. n}
    /\ \A a, b \in DOMAIN order :
            a < b => First[order[a]] < First[order[b]]
    /\ \A l \in DOMAIN groups :
        /\ groups[l].total \in Nat /\ groups[l].entries \in Seq(Entry)
        /\ Len(groups[l].entries) = Cardinality(UpTo(l, n))
        /\ \A k \in UpTo(l, n) :
                groups[l].entries[Cardinality(UpTo(l, k))] = EntryOf(k)
    /\ SumFunction(GroupTotals) = Prefix(n)

\* The first n sessions' part of what Group marks
\* (grouper.go:22-41).
Marked(n) == {k \in 1 .. n : Sandwiched(k)}

\* Where the request is once the groups are made.
Grouped == {"git", "format", "sum", "collapse", "deal", "strip"} \cup After

\* What the loops that make the groups have done so far.
GroupInv ==
    /\ pc \in {"total", "mark", "build", "git"} => i \in 1 .. Len(day)
    /\ pc \in {"rows", "total"} => merged = {}
    /\ pc = "mark" => merged = Marked(i - 1)
    /\ pc = "build" => merged = Marked(Len(day)) /\ AttachedFirst(i - 1)
    /\ pc \in {"rows", "total", "mark"} => order = <<>> /\ groups = <<>>
    /\ pc \in Grouped => merged = Marked(Len(day)) /\ AttachedFirst(Len(day))

\* The label a session is filed under, and its entry there (grouper.go:22-97).
LEMMA HomeFacts ==
    ASSUME FocusInv, merged = Marked(Len(day)), NEW k \in DOMAIN day
    PROVE  Home(k) \in Labels /\ EntryOf(k) \in Entry /\ EntryOf(k).dur = day[k].dur
<1>1. day[k] \in Session
  BY ElementOf DEF FocusInv
<1>2. Home(k) \in Labels
  <2>1. CASE k \in merged
    <3>1. k - 1 \in DOMAIN day
      BY <2>1 DEF Marked, Sandwiched, Between, FocusInv
    <3>2. day[k - 1] \in Session
      BY <3>1, ElementOf DEF FocusInv
    <3> QED BY <2>1, <3>2 DEF Home, Session
  <2> QED BY <1>1, <2>1 DEF Home, Session
<1>3. LabelForContext(day[k].type) \in {"Coding", "Meeting", "Browser", "Other"}
  <2>1. CASE day[k].type \in {"vscode", "meeting", "browser"}
    BY <2>1 DEF LabelForContext
  <2>2. CASE day[k].type \notin {"vscode", "meeting", "browser"}
    BY <2>2 DEF LabelForContext
  <2> QED BY <2>1, <2>2
<1>4. day[k].dur \in Nat
  BY <1>1 DEF Session
<1>5. EntryOf(k) \in Entry /\ EntryOf(k).dur = day[k].dur
  <2>1. CASE k \in merged
    BY <2>1, <1>4 DEF EntryOf, Entry
  <2>2. CASE k \notin merged
    BY <2>2, <1>3, <1>4 DEF EntryOf, Entry
  <2> QED BY <2>1, <2>2
<1> QED BY <1>2, <1>5

\* A label's sessions up to n are finitely many, and n + 1 is one more or none.
LEMMA UpToFacts ==
    ASSUME FocusInv, NEW l, NEW n \in Nat
    PROVE  /\ IsFiniteSet(UpTo(l, n)) /\ Cardinality(UpTo(l, n)) \in Nat
           /\ n + 1 \in Under(l) => UpTo(l, n + 1) = UpTo(l, n) \cup {n + 1}
           /\ n + 1 \notin Under(l) => UpTo(l, n + 1) = UpTo(l, n)
           /\ n + 1 \notin UpTo(l, n)
<1>1. DOMAIN day = 1 .. Len(day) /\ Len(day) \in Nat
  BY DEF FocusInv
<1>2. UpTo(l, n) \subseteq 1 .. Len(day)
  BY <1>1 DEF UpTo, Under
<1>3. IsFiniteSet(UpTo(l, n))
  <2>1. IsFiniteSet(1 .. Len(day))
    BY <1>1, FS_Interval
  <2> QED BY <2>1, <1>2, FS_Subset, Zenon
<1>4. \A k \in Under(l) : k \in Nat
  BY <1>1 DEF Under
<1> QED BY <1>3, <1>4, FS_CardinalityType DEF UpTo

\* Each session of a label has its place among those up to n.
LEMMA PlaceFacts ==
    ASSUME FocusInv, NEW l, NEW n \in Nat, NEW k \in UpTo(l, n)
    PROVE  Cardinality(UpTo(l, k)) \in 1 .. Cardinality(UpTo(l, n))
<1>1. DOMAIN day = 1 .. Len(day) /\ Len(day) \in Nat
  BY DEF FocusInv
<1>2. k \in Nat /\ k <= n
  BY <1>1 DEF UpTo, Under
<1>3. UpTo(l, k) \subseteq UpTo(l, n) /\ k \in UpTo(l, k)
  BY <1>1, <1>2 DEF UpTo, Under
<1>4. /\ IsFiniteSet(UpTo(l, n)) /\ Cardinality(UpTo(l, n)) \in Nat
      /\ IsFiniteSet(UpTo(l, k)) /\ Cardinality(UpTo(l, k)) \in Nat
  BY <1>2, UpToFacts
<1>5. Cardinality(UpTo(l, k)) <= Cardinality(UpTo(l, n))
  BY <1>3, <1>4, FS_Subset
<1>6. Cardinality(UpTo(l, k)) # 0
  BY <1>3, <1>4, FS_EmptySet
<1> QED BY <1>4, <1>5, <1>6

\* The first session of a label.
LEMMA FirstUnder ==
    ASSUME FocusInv, NEW l, NEW k \in Under(l)
    PROVE  /\ Min(Under(l)) \in Under(l) /\ Min(Under(l)) \in Nat
           /\ \A j \in Under(l) : Min(Under(l)) <= j
<1>1. Under(l) \in SUBSET Nat /\ Under(l) # {}
  BY DEF Under, FocusInv
<1>2. \E m \in Under(l) : \A j \in Under(l) : m <= j
  <2> DEFINE U == Under(l)
  <2> HIDE DEF U
  <2>1. U \in SUBSET Nat /\ U # {}
    BY <1>1 DEF U
  <2>2. \E m \in U : \A j \in U : m <= j
    BY <2>1, LeastNatural
  <2> QED BY <2>2 DEF U
<1>3. \E m \in Under(l) : \A j \in Under(l) : m =< j
  BY <1>2
<1> QED BY <1>1, <1>3 DEF Min

\* One session more is in its group, in its place (grouper.go:79-97).
LEMMA AttachStep ==
    ASSUME FocusInv, NEW n \in Nat, n + 1 <= Len(day), AttachedFirst(n),
           Attach(Home(n + 1), EntryOf(n + 1)), UNCHANGED <<day, merged>>,
           merged = Marked(Len(day))
    PROVE  AttachedFirst(n + 1)'
<1>1. n + 1 \in DOMAIN day
  BY DEF FocusInv
<1>2. PICK L : L = Home(n + 1)
  OBVIOUS
<1>3. PICK e : e = EntryOf(n + 1)
  OBVIOUS
<1>4. L \in Labels /\ e \in Entry /\ e.dur = day[n + 1].dur /\ e.dur \in Nat
  BY <1>1, <1>2, <1>3, HomeFacts DEF Entry
<1>5. /\ Secs' = Secs /\ \A m : Prefix(m)' = Prefix(m)
      /\ \A k : Home(k)' = Home(k) /\ EntryOf(k)' = EntryOf(k)
      /\ \A l : Under(l)' = Under(l)
      /\ \A l, m : UpTo(l, m)' = UpTo(l, m)
      /\ First' = First
  BY DEF First, Secs, Prefix, Home, EntryOf, Under, UpTo
<1>6. PICK old : old = IF L \in DOMAIN groups THEN groups[L]
                       ELSE [total |-> 0, entries |-> <<>>]
  OBVIOUS
<1>7. L \notin DOMAIN groups => UpTo(L, n) = {}
  <2> SUFFICES ASSUME NEW k \in UpTo(L, n) PROVE L \in DOMAIN groups
    OBVIOUS
  <2>1. k \in 1 .. n /\ Home(k) = L
    BY DEF UpTo, Under, FocusInv
  <2> QED BY <2>1 DEF AttachedFirst
<1>8. /\ old.total \in Nat /\ old.entries \in Seq(Entry)
      /\ Len(old.entries) = Cardinality(UpTo(L, n))
      /\ \A k \in UpTo(L, n) : old.entries[Cardinality(UpTo(L, k))] = EntryOf(k)
  <2>1. CASE L \in DOMAIN groups
    BY <2>1, <1>6 DEF AttachedFirst
  <2>2. CASE L \notin DOMAIN groups
    <3>1. UpTo(L, n) = {} /\ Cardinality({}) = 0
      BY <2>2, <1>7, FS_EmptySet
    <3>2. Cardinality(UpTo(L, n)) = 0
      BY <3>1, Zenon
    <3> QED BY <2>2, <3>1, <3>2, <1>6
  <2> QED BY <2>1, <2>2
<1>9. /\ DOMAIN groups' = DOMAIN groups \cup {L}
      /\ groups'[L] = [total |-> old.total + e.dur, entries |-> Append(old.entries, e)]
      /\ \A l \in DOMAIN groups : l # L => groups'[l] = groups[l]
      /\ order' = IF L \in DOMAIN groups THEN order ELSE Append(order, L)
  BY <1>2, <1>3, <1>6 DEF Attach
<1>10. {Home(k) : k \in 1 .. n + 1} = {Home(k) : k \in 1 .. n} \cup {L}
  <2>1. 1 .. n + 1 = (1 .. n) \cup {n + 1}
    OBVIOUS
  <2> QED BY <2>1, <1>2
<1>11. /\ order' \in Seq(Labels) /\ IsInjective(order')
       /\ ToSet(order') = DOMAIN groups'
       /\ DOMAIN groups' = {Home(k)' : k \in 1 .. n + 1}
       /\ \A a, b \in DOMAIN order' :
            a < b => First[order'[a]] < First[order'[b]]
  <2>1. DOMAIN groups' = {Home(k)' : k \in 1 .. n + 1}
    BY <1>5, <1>9, <1>10 DEF AttachedFirst
  <2>2. CASE L \in DOMAIN groups
    <3>1. order' = order /\ DOMAIN groups' = DOMAIN groups
      BY <2>2, <1>9
    <3> QED BY <3>1, <2>1, <1>5 DEF AttachedFirst
  <2>3. CASE L \notin DOMAIN groups
    <3>1. order' = Append(order, L) /\ order \in Seq(Labels)
      BY <2>3, <1>9 DEF AttachedFirst
    <3>2. PICK q \in Nat : q = Len(order)
      BY <3>1
    <3>3. DOMAIN order = 1 .. q /\ DOMAIN order' = 1 .. q + 1 /\ order'[q + 1] = L
      BY <1>4, <3>1, <3>2
    <3>4. \A a \in 1 .. q : order'[a] = order[a] /\ order[a] \in DOMAIN groups
      <4>1. \A a \in 1 .. q : order'[a] = order[a]
        BY <3>1, <3>2
      <4>2. ToSet(order) = DOMAIN groups
        BY DEF AttachedFirst
      <4>3. \A a \in 1 .. q : order[a] \in ToSet(order)
        BY <3>3 DEF ToSet
      <4> QED BY <4>1, <4>2, <4>3
    <3>5. IsInjective(order')
      <4>1. \A a, b \in 1 .. q : order[a] = order[b] => a = b
        BY <3>1, <3>2 DEF AttachedFirst, IsInjective
      <4>2. \A a \in 1 .. q : order'[a] # L
        BY <2>3, <3>4
      <4>3. \A a, b \in 1 .. q + 1 : order'[a] = order'[b] => a = b
        <5>1. \A a \in 1 .. q + 1 : a \in 1 .. q \/ a = q + 1
          OBVIOUS
        <5>2. \A a, b \in 1 .. q : order'[a] = order'[b] => a = b
          BY <4>1, <3>4
        <5> QED BY <5>1, <5>2, <4>2, <3>3
      <4> QED BY <4>3, <3>3 DEF IsInjective
    <3>6. ToSet(order') = ToSet(order) \cup {L}
      BY <3>3, <3>4 DEF ToSet
    <3>7. ASSUME NEW a \in DOMAIN order', NEW b \in DOMAIN order', a < b
          PROVE  First[order'[a]] < First[order'[b]]
      <4>1. CASE b \in 1 .. q
        BY <4>1, <3>3, <3>4, <3>7 DEF AttachedFirst
      <4>2. CASE b = q + 1
        <5>1. a \in 1 .. q /\ order'[a] = order[a] /\ order'[b] = L
          BY <3>3, <3>4, <3>7, <4>2
        <5>2. order[a] \in {Home(k) : k \in 1 .. n}
          BY <3>4, <5>1 DEF AttachedFirst
        <5>3. PICK k \in 1 .. n : Home(k) = order[a]
          BY <5>2
        <5>4. k \in Under(order[a])
          BY <5>3, <1>1 DEF Under, FocusInv
        <5>5. Min(Under(order[a])) \in Nat /\ Min(Under(order[a])) <= k
          BY <5>4, FirstUnder
        <5>6. n + 1 \in Under(L)
          BY <1>1, <1>2 DEF Under
        <5>7. Min(Under(L)) \in Under(L) /\ Min(Under(L)) \in Nat
          BY <5>6, FirstUnder
        <5>8. Min(Under(L)) \notin 1 .. n
          BY <5>7, <2>3 DEF Under, AttachedFirst
        <5>9. Min(Under(L)) >= 1
          BY <5>7 DEF Under, FocusInv
        <5>10. First[L] = Min(Under(L)) /\ First[order[a]] = Min(Under(order[a]))
          BY <5>1, <3>1, <3>2, <1>4, ElementOf DEF First
        <5> QED BY <5>1, <5>5, <5>7, <5>8, <5>9, <5>10
      <4> QED BY <4>1, <4>2, <3>3
    <3>8. order' \in Seq(Labels)
      BY <3>1, <1>4
    <3>9. ToSet(order') = DOMAIN groups'
      BY <3>6, <1>9 DEF AttachedFirst
    <3> QED BY <3>5, <3>7, <3>8, <3>9, <2>1
  <2> QED BY <2>2, <2>3
<1>12. ASSUME NEW l \in DOMAIN groups'
       PROVE  /\ groups'[l].total \in Nat /\ groups'[l].entries \in Seq(Entry)
              /\ Len(groups'[l].entries) = Cardinality(UpTo(l, n + 1))
              /\ \A k \in UpTo(l, n + 1) :
                    groups'[l].entries[Cardinality(UpTo(l, k))] = EntryOf(k)
  <2>1. CASE l = L
    <3>1. n + 1 \in Under(L)
      BY <1>1, <1>2 DEF Under
    <3>2. /\ UpTo(L, n + 1) = UpTo(L, n) \cup {n + 1} /\ n + 1 \notin UpTo(L, n)
          /\ IsFiniteSet(UpTo(L, n)) /\ Cardinality(UpTo(L, n)) \in Nat
      BY <3>1, UpToFacts
    <3>3. Cardinality(UpTo(L, n + 1)) = Cardinality(UpTo(L, n)) + 1
      BY <3>2, FS_AddElement
    <3>4. /\ groups'[L].total \in Nat /\ groups'[L].entries = Append(old.entries, e)
          /\ groups'[L].entries \in Seq(Entry)
          /\ Len(groups'[L].entries) = Cardinality(UpTo(L, n)) + 1
          /\ groups'[L].entries[Cardinality(UpTo(L, n)) + 1] = e
      <4>1. /\ groups'[L].total = old.total + e.dur
            /\ groups'[L].entries = Append(old.entries, e)
        BY <1>9
      <4>2. /\ Append(old.entries, e) \in Seq(Entry)
            /\ Len(Append(old.entries, e)) = Len(old.entries) + 1
            /\ Append(old.entries, e)[Len(old.entries) + 1] = e
        BY <1>4, <1>8
      <4> QED BY <4>1, <4>2, <1>4, <1>8
    <3>5. ASSUME NEW k \in UpTo(L, n)
          PROVE  groups'[L].entries[Cardinality(UpTo(L, k))] = EntryOf(k)
      <4>1. Cardinality(UpTo(L, k)) \in 1 .. Len(old.entries)
        BY <1>8, PlaceFacts
      <4>2. Append(old.entries, e)[Cardinality(UpTo(L, k))]
                = old.entries[Cardinality(UpTo(L, k))]
        BY <4>1, <1>8
      <4> QED BY <4>2, <3>4, <1>8
    <3>6. groups'[L].entries[Cardinality(UpTo(L, n + 1))] = EntryOf(n + 1)
      BY <3>3, <3>4, <1>3
    <3> QED BY <2>1, <3>2, <3>3, <3>4, <3>5, <3>6
  <2>2. CASE l # L
    <3>1. l \in DOMAIN groups /\ groups'[l] = groups[l]
      BY <2>2, <1>9
    <3>2. n + 1 \notin Under(l)
      BY <2>2, <1>2 DEF Under
    <3>3. UpTo(l, n + 1) = UpTo(l, n)
      BY <3>2, UpToFacts
    <3> QED BY <3>1, <3>3 DEF AttachedFirst
  <2> QED BY <2>1, <2>2
<1>13. SumFunction(GroupTotals)' = Prefix(n + 1)
  <2> DEFINE f == GroupTotals
             g == GroupTotals'
  <2>1. PICK q \in Nat : q = Len(order)
    BY DEF AttachedFirst
  <2>2. DOMAIN order = 1 .. q /\ DOMAIN f = 1 .. q /\ IsFiniteSet(1 .. q)
    BY <2>1, FS_Interval DEF AttachedFirst, GroupTotals
  <2>3. \A a \in 1 .. q : order[a] \in DOMAIN groups /\ f[a] = groups[order[a]].total
                            /\ f[a] \in Nat
    BY <2>2 DEF GroupTotals, AttachedFirst, ToSet
  <2>4. NatOn(f, 1 .. q)
    BY <2>3 DEF NatOn
  <2>5. SumFunctionOnSet(f, 1 .. q) = Prefix(n)
    BY <2>2 DEF SumFunction, AttachedFirst
  <2>6. Prefix(n + 1) = Prefix(n) + e.dur /\ Prefix(n) \in Nat
    <3>1. \A k \in 1 .. n + 1 : day[k] \in Session
      BY <1>1, ElementOf DEF FocusInv
    <3>2. \A k \in 1 .. n + 1 : k \in DOMAIN day
      BY <1>1 DEF FocusInv
    <3>3. NatOn(Secs, 1 .. n + 1) /\ Secs[n + 1] = e.dur
      BY <3>1, <3>2, <1>1, <1>4 DEF Secs, NatOn, Session
    <3> QED BY <3>3, SumOneMore DEF Prefix
  <2>7. CASE L \in DOMAIN groups
    <3>1. order' = order /\ old = groups[L]
      BY <2>7, <1>6, <1>9
    <3>2. PICK x \in 1 .. q : order[x] = L
      BY <2>2, <2>7 DEF AttachedFirst, ToSet
    <3>3. DOMAIN g = 1 .. q /\ \A a \in 1 .. q : g[a] = groups'[order[a]].total
      BY <3>1, <2>2 DEF GroupTotals
    <3>4. g[x] = f[x] + e.dur
      BY <3>1, <3>2, <3>3, <2>3, <1>9
    <3>5. \A a \in (1 .. q) \ {x} : g[a] = f[a]
      <4>1. \A a \in (1 .. q) \ {x} : order[a] # L
        BY <3>2, <2>2 DEF AttachedFirst, IsInjective
      <4> QED BY <4>1, <3>3, <2>3, <1>9
    <3>6. SumFunctionOnSet(g, 1 .. q) = SumFunctionOnSet(f, 1 .. q) + e.dur
      <4> HIDE DEF f, g
      <4> QED BY <2>2, <2>4, <3>2, <3>4, <3>5, <1>4, SumGrows, SMTT(30)
    <3>7. SumFunction(GroupTotals)' = SumFunctionOnSet(g, 1 .. q)
      BY <3>3 DEF SumFunction
    <3> HIDE DEF f, g
    <3> QED BY <3>6, <3>7, <2>5, <2>6
  <2>8. CASE L \notin DOMAIN groups
    <3>1. order' = Append(order, L) /\ old.total = 0
      BY <2>8, <1>6, <1>9
    <3>2. DOMAIN order' = 1 .. q + 1 /\ order'[q + 1] = L
      BY <3>1, <2>1, <1>4 DEF AttachedFirst
    <3>3. \A a \in 1 .. q : order'[a] = order[a]
      BY <3>1, <2>1, <1>4 DEF AttachedFirst
    <3>4. DOMAIN g = 1 .. q + 1 /\ \A a \in 1 .. q + 1 : g[a] = groups'[order'[a]].total
      BY <3>2 DEF GroupTotals
    <3>5. g[q + 1] = e.dur
      BY <3>1, <3>2, <3>4, <1>4, <1>9
    <3>6. \A a \in 1 .. q : g[a] = f[a]
      <4>1. \A a \in 1 .. q : a \in 1 .. q + 1 /\ order'[a] = order[a]
        BY <3>3
      <4>2. \A a \in 1 .. q : g[a] = groups'[order[a]].total
        <5> HIDE DEF g
        <5> QED BY <4>1, <3>4
      <4> HIDE DEF f, g
      <4> QED BY <4>2, <2>3, <2>8, <1>9
    <3>7. NatOn(g, 1 .. q + 1)
      <4>1. \A a \in 1 .. q + 1 : a \in 1 .. q \/ a = q + 1
        OBVIOUS
      <4> HIDE DEF f, g
      <4> QED BY <4>1, <3>5, <3>6, <2>3, <1>4 DEF NatOn
    <3>8. SumFunctionOnSet(g, 1 .. q + 1) = SumFunctionOnSet(f, 1 .. q) + e.dur
      <4> HIDE DEF f, g
      <4>1. SumFunctionOnSet(g, 1 .. q + 1) = SumFunctionOnSet(g, 1 .. q) + g[q + 1]
        BY <3>7, SumOneMore
      <4>2. SumFunctionOnSet(g, 1 .. q) = SumFunctionOnSet(f, 1 .. q)
        BY <2>2, <2>4, <3>6, SumSame
      <4> QED BY <4>1, <4>2, <3>5
    <3>9. SumFunction(GroupTotals)' = SumFunctionOnSet(g, 1 .. q + 1)
      BY <3>4 DEF SumFunction
    <3> HIDE DEF f, g
    <3> QED BY <3>8, <3>9, <2>5, <2>6
  <2> QED BY <2>7, <2>8
<1> QED
  <2>1. \A l \in DOMAIN groups' :
            /\ groups'[l].total \in Nat /\ groups'[l].entries \in Seq(Entry)
            /\ Len(groups'[l].entries) = Cardinality(UpTo(l, n + 1))
            /\ \A k \in UpTo(l, n + 1) :
                    groups'[l].entries[Cardinality(UpTo(l, k))] = EntryOf(k)
    BY <1>12
  <2> QED BY <2>1, <1>5, <1>11, <1>13 DEF AttachedFirst

\* No group holds no session.
LEMMA NoneAttached ==
    ASSUME order' = <<>>, groups' = <<>>
    PROVE  AttachedFirst(0)'
<1>1. DOMAIN groups' = {} /\ DOMAIN order' = {} /\ DOMAIN GroupTotals' = {}
  BY DEF GroupTotals
<1>2. 1 .. 0 = {}
  OBVIOUS
<1>3. SumFunctionOnSet(GroupTotals', {}) = 0 /\ SumFunctionOnSet(Secs', {}) = 0
  BY FS_EmptySet, SumZero
<1>4. SumFunction(GroupTotals)' = 0
  BY <1>1, <1>3 DEF SumFunction
<1>5. Prefix(0)' = 0
  BY <1>2, <1>3 DEF Prefix
<1>6. ToSet(order)' = {} /\ IsInjective(order)' /\ order' \in Seq(Labels)
  BY <1>1 DEF ToSet, IsInjective
<1> QED BY <1>1, <1>2, <1>4, <1>5, <1>6 DEF AttachedFirst

\* What does not touch the day, the marks and the groups.
LEMMA AttachedSame ==
    ASSUME UNCHANGED <<day, merged, order, groups>>, NEW n, AttachedFirst(n)
    PROVE  AttachedFirst(n)'
<1>1. /\ Secs' = Secs /\ Prefix(n)' = Prefix(n) /\ First' = First
      /\ GroupTotals' = GroupTotals
      /\ \A k : Home(k)' = Home(k) /\ EntryOf(k)' = EntryOf(k)
      /\ \A l, m : UpTo(l, m)' = UpTo(l, m)
  BY DEF First, Secs, Prefix, GroupTotals, Home, EntryOf, Under, UpTo
<1> QED BY <1>1 DEF AttachedFirst

\* After the groups are made the request leaves them alone.
LEMMA GroupsAside ==
    ASSUME FocusInv, GroupInv,
           \/ RenderTimeline \/ RenderFocus \/ AddGrandTotal
           \/ ((Format \/ attachGitCommits) /\ UNCHANGED reportVars)
    PROVE  /\ UNCHANGED <<day, merged, order, groups>>
           /\ pc \in Grouped /\ pc' \in Grouped
           /\ pc' = "git" => i' \in 1 .. Len(day)
<1>1. CASE RenderTimeline
  BY <1>1 DEF RenderTimeline, handlerVars, reportVars, groupVars, TimelineNext,
              Collapse, Single, Collapsed, Deal, Dealt, Place, Placed, Emit,
              Grouped, After
<1>2. CASE RenderFocus
  BY <1>2 DEF RenderFocus, handlerVars, reportVars, groupVars, FocusNext,
              AddProductive, AddDistraction, AddNeutral, Added, Grouped, After
<1>3. CASE AddGrandTotal
  BY <1>3 DEF AddGrandTotal, Turn, groupVars, Grouped
<1>4. CASE Format /\ UNCHANGED reportVars
  <2>1. i' = i /\ pc' = "sum"
    BY <1>4 DEF Format
  <2> QED BY <1>4, <2>1 DEF Format, reportVars, groupVars, Grouped
<1>5. CASE attachGitCommits /\ UNCHANGED reportVars
  <2>1. pc = "git" /\ day' = day /\ Turn(Len(day), "git", "format")
    BY <1>5 DEF attachGitCommits, AttachOther, AttachCommits, NextSession
  <2>2. i \in 1 .. Len(day) /\ Len(day) \in Nat
    BY <2>1 DEF GroupInv, FocusInv
  <2> QED BY <1>5, <2>1, <2>2 DEF Turn, reportVars, groupVars, Grouped
<1> QED BY <1>1, <1>2, <1>3, <1>4, <1>5

\* One step of the loops that make the groups (generator.go:66-88;
\* grouper.go:22-97).
LEMMA GroupStep ==
    ASSUME FocusInv, DayInv, GroupInv, [Next]_vars
    PROVE  GroupInv'
<1>0. Len(day) \in Nat /\ DOMAIN day = 1 .. Len(day)
  BY DEF FocusInv
<1>1. CASE Query
  <2>1. /\ pc = "rows" /\ pc' = "rows" /\ UNCHANGED <<merged, order, groups>>
    BY <1>1 DEF Query, SessionsForDay, AddFinished, AddOpen, handlerVars, reportVars,
                groupVars
  <2> QED BY <2>1 DEF GroupInv, Grouped, After
<1>2. CASE Fill
  <2>1. /\ pc = "rows" /\ pc' = "total" /\ i' = 1 /\ day' = day /\ day # <<>>
        /\ UNCHANGED <<merged, order, groups>>
    BY <1>2, FillKeepsDay DEF Fill, groupVars
  <2>2. i' \in 1 .. Len(day')
    BY <1>0, <2>1
  <2> QED BY <2>1, <2>2 DEF GroupInv, Grouped, After
<1>3. CASE AddTotal
  <2>1. /\ pc = "total" /\ day' = day /\ Turn(Len(day), "total", "mark")
        /\ UNCHANGED <<merged, order, groups>> /\ i \in 1 .. Len(day)
        /\ merged = {}
    BY <1>3 DEF AddTotal, groupVars, GroupInv
  <2>2. pc' \in {"total", "mark"} /\ i' \in 1 .. Len(day')
        /\ (pc' = "mark" => i' = 1)
    BY <1>0, <2>1 DEF Turn
  <2>3. Marked(0) = {}
    BY DEF Marked
  <2>4. pc' = "mark" => Marked(i - 1)' = {}
    BY <2>2 DEF Marked
  <2> QED BY <2>1, <2>2, <2>4 DEF GroupInv, Grouped, After
<1>4. CASE Mark
  <2>1. /\ pc = "mark" /\ day' = day /\ Turn(Len(day), "mark", "build")
        /\ UNCHANGED <<order, groups>> /\ i \in 1 .. Len(day)
        /\ merged = Marked(i - 1) /\ order = <<>> /\ groups = <<>>
        /\ merged' = IF Sandwiched(i) THEN merged \cup {i} ELSE merged
    BY <1>4 DEF Mark, groupVars, GroupInv
  <2>2. merged' = Marked(i)
    <3>1. 1 .. i = (1 .. i - 1) \cup {i}
      BY <1>0, <2>1
    <3>2. \A k : k \in Marked(i) <=> k \in Marked(i - 1) \/ (k = i /\ Sandwiched(i))
      BY <3>1 DEF Marked
    <3>3. CASE Sandwiched(i)
      <4>1. \A k : k \in Marked(i) <=> k \in Marked(i - 1) \cup {i}
        BY <3>2, <3>3
      <4>2. Marked(i) = Marked(i - 1) \cup {i}
        BY <4>1, Zenon
      <4> QED BY <4>2, <2>1, <3>3
    <3>4. CASE ~ Sandwiched(i)
      <4>1. \A k : k \in Marked(i) <=> k \in Marked(i - 1)
        BY <3>2, <3>4
      <4>2. Marked(i) = Marked(i - 1)
        BY <4>1 DEF Marked
      <4> QED BY <4>2, <2>1, <3>4
    <3> QED BY <3>3, <3>4
  <2>3. \A n : Marked(n)' = Marked(n)
    BY <2>1 DEF Marked, Between, Sandwiched
  <2>4. CASE i < Len(day)
    <3>1. pc' = "mark" /\ i' = i + 1 /\ i' \in 1 .. Len(day') /\ (i - 1)' = i
      BY <1>0, <2>1, <2>4 DEF Turn
    <3>2. Marked(i - 1)' = Marked(i)
      BY <3>1, <2>1 DEF Marked, Between, Sandwiched
    <3> QED BY <2>1, <2>2, <3>1, <3>2 DEF GroupInv, Grouped, After
  <2>5. CASE ~ (i < Len(day))
    <3>0. i = Len(day)
      <4>1. i \in 1 .. Len(day) /\ ~ (i < Len(day))
        BY <2>1, <2>5
      <4>2. Len(day) \in Nat
        BY <1>0
      <4> QED BY <4>1, <4>2
    <3>1. i = Len(day) /\ pc' = "build" /\ i' = 1 /\ i' \in 1 .. Len(day')
      <4>1. pc' = "build" /\ i' = 1
        BY <2>1, <2>5 DEF Turn
      <4>2. Len(day') = Len(day) /\ 1 \in 1 .. Len(day)
        BY <1>0, <2>1
      <4> QED BY <3>0, <4>1, <4>2
    <3>2. Marked(Len(day))' = Marked(i)
      BY <3>1, <2>1 DEF Marked, Between, Sandwiched
    <3>4. AttachedFirst(0)'
      BY <2>1, NoneAttached
    <3>5. (i - 1)' = 0
      BY <3>1
    <3>6. AttachedFirst(i - 1)'
      BY <3>4, <3>5 DEF AttachedFirst
    <3> QED BY <2>1, <2>2, <3>1, <3>2, <3>6 DEF GroupInv, Grouped, After
  <2> QED BY <2>4, <2>5
<1>5. CASE AttachMerged \/ AttachOwn
  <2>1. /\ pc = "build" /\ UNCHANGED <<day, merged>> /\ Turn(Len(day), "build", "git")
        /\ i \in 1 .. Len(day) /\ merged = Marked(Len(day)) /\ AttachedFirst(i - 1)
    BY <1>5 DEF AttachMerged, AttachOwn, GroupInv
  <2>2. i \in merged <=> Sandwiched(i)
    BY <2>1 DEF Marked
  <2>3. Attach(Home(i), EntryOf(i))
    <3>1. CASE AttachMerged
      BY <3>1, <2>2 DEF AttachMerged, Home, EntryOf
    <3>2. CASE AttachOwn
      BY <3>2, <2>2 DEF AttachOwn, Home, EntryOf
    <3> QED BY <1>5, <3>1, <3>2
  <2>4. PICK n \in Nat : n = i - 1
    BY <2>1, <1>0
  <2>5. i = n + 1 /\ n + 1 <= Len(day)
    BY <2>1, <2>4, <1>0
  <2>6. AttachedFirst(n + 1)'
    BY <2>1, <2>3, <2>4, <2>5, AttachStep
  <2>7. merged' = Marked(Len(day))'
    BY <2>1 DEF Marked, Between, Sandwiched
  <2>8. CASE i < Len(day)
    <3>1. pc' = "build" /\ i' = i + 1 /\ i' \in 1 .. Len(day') /\ (i - 1)' = n + 1
      BY <1>0, <2>1, <2>5, <2>8 DEF Turn
    <3>2. AttachedFirst(i - 1)'
      BY <2>6, <3>1 DEF AttachedFirst
    <3> QED BY <2>7, <3>1, <3>2 DEF GroupInv, Grouped, After
  <2>9. CASE ~ (i < Len(day))
    <3>1. pc' = "git" /\ i' = 1 /\ i' \in 1 .. Len(day') /\ Len(day') = n + 1
      <4>1. pc' = "git" /\ i' = 1
        BY <2>1, <2>9 DEF Turn
      <4>2. Len(day') = Len(day) /\ 1 \in 1 .. Len(day) /\ Len(day) = i
        <5>1. i \in 1 .. Len(day) /\ ~ (i < Len(day)) /\ day' = day
          BY <2>1, <2>9
        <5>2. Len(day) \in Nat
          BY <1>0
        <5> QED BY <5>1, <5>2
      <4> QED BY <2>5, <4>1, <4>2
    <3>2. AttachedFirst(Len(day))'
      BY <2>6, <3>1 DEF AttachedFirst
    <3> QED BY <2>7, <3>1, <3>2 DEF GroupInv, Grouped, After
  <2> QED BY <2>8, <2>9
<1>6. CASE RenderTimeline \/ RenderFocus \/ AddGrandTotal
            \/ ((Format \/ attachGitCommits) /\ UNCHANGED reportVars)
  <2>1. /\ UNCHANGED <<day, merged, order, groups>>
        /\ pc \in Grouped /\ pc' \in Grouped
        /\ pc' = "git" => i' \in 1 .. Len(day)
    BY <1>6, GroupsAside
  <2>2. AttachedFirst(Len(day)) /\ merged = Marked(Len(day))
    BY <2>1 DEF GroupInv
  <2>3. PICK n : n = Len(day)
    OBVIOUS
  <2>4. AttachedFirst(n)'
    BY <2>1, <2>2, <2>3, AttachedSame
  <2>5. AttachedFirst(Len(day))'
    BY <2>1, <2>3, <2>4 DEF AttachedFirst
  <2>6. merged' = Marked(Len(day))'
    BY <2>1, <2>2 DEF Marked, Between, Sandwiched
  <2> QED BY <2>1, <2>5, <2>6 DEF GroupInv, Grouped, After
<1>7. CASE UNCHANGED vars
  <2>1. UNCHANGED <<day, pc, i, merged, order, groups>>
    BY <1>7 DEF vars, requestVars, handlerVars, reportVars, groupVars
  <2>2. /\ Secs' = Secs /\ First' = First /\ GroupTotals' = GroupTotals
        /\ \A n : Prefix(n)' = Prefix(n) /\ Marked(n)' = Marked(n)
        /\ \A k : Home(k)' = Home(k) /\ EntryOf(k)' = EntryOf(k)
        /\ \A l, m : UpTo(l, m)' = UpTo(l, m)
    BY <2>1 DEF First, Secs, Prefix, GroupTotals, Home, EntryOf, Under, UpTo,
                Between, Sandwiched, Marked
  <2>3. Marked(Len(day))' = Marked(Len(day)) /\ Marked(i - 1)' = Marked(i - 1)
    BY <2>1 DEF Between, Sandwiched, Marked
  <2>4. ASSUME NEW n, AttachedFirst(n) PROVE AttachedFirst(n)'
    BY <2>1, <2>4, AttachedSame
  <2>5. AttachedFirst(i - 1) => AttachedFirst(i - 1)'
    <3> PICK n : n = i - 1
      OBVIOUS
    <3>1. AttachedFirst(n) => AttachedFirst(n)'
      BY <2>4
    <3> QED BY <3>1, <2>1 DEF AttachedFirst
  <2>6. AttachedFirst(Len(day)) => AttachedFirst(Len(day))'
    <3> PICK n : n = Len(day)
      OBVIOUS
    <3>1. AttachedFirst(n) => AttachedFirst(n)'
      BY <2>4
    <3> QED BY <3>1, <2>1 DEF AttachedFirst
  <2> QED BY <2>1, <2>3, <2>5, <2>6 DEF GroupInv
<1>8. CASE HandleReport
  <2>1. CASE ReportNext
    BY <2>1, <1>2, <1>3, <1>4, <1>5, <1>6 DEF ReportNext
  <2>2. CASE (Format \/ attachGitCommits) /\ UNCHANGED reportVars
    BY <2>2, <1>6
  <2> QED BY <1>8, <2>1, <2>2 DEF HandleReport
<1> QED
  BY <1>1, <1>6, <1>7, <1>8 DEF Next, Terminated

\* The groups' invariant is kept by every step (grouper.go:22-97).
THEOREM GroupInvariance == Spec => []GroupInv
<1>1. Init => GroupInv
  BY DEF Init, DayInit, ReportInit, GroupInv, Grouped, After
<1>2. FocusInv /\ DayInv /\ GroupInv /\ [Next]_vars => GroupInv'
  BY GroupStep
<1> QED
  BY <1>1, <1>2, TimelineInvariance, PTL DEF Spec, TimelineInv

\* On every day, and for every adjacency, the groups of the report are a
\* partition of its sessions (grouper.go:22-97).
THEOREM GroupsPartitionTheDay == Spec => []GroupsAreThePartition
<1>1. FocusInv /\ GroupInv => GroupsAreThePartition
  <2> SUFFICES ASSUME FocusInv, GroupInv, pc = "done" PROVE GroupsAreThePartition
    BY DEF GroupsAreThePartition
  <2>1. /\ AttachedFirst(Len(day)) /\ DOMAIN day = 1 .. Len(day) /\ Len(day) \in Nat
        /\ merged = Marked(Len(day))
    BY DEF GroupInv, Grouped, After, FocusInv
  <2>2. \A l : UpTo(l, Len(day)) = Under(l)
    BY <2>1 DEF UpTo, Under
  <2>3. ASSUME NEW m \in DOMAIN order, NEW n \in DOMAIN order, m < n
        PROVE  Min(Under(order[m])) < Min(Under(order[n]))
    <3>1. First[order[m]] < First[order[n]]
      BY <2>1, <2>3 DEF AttachedFirst
    <3>2. order[m] \in Labels /\ order[n] \in Labels
      BY <2>1, ElementOf DEF AttachedFirst
    <3> QED BY <3>1, <3>2 DEF First
  <2>4. ASSUME NEW l \in DOMAIN groups
        PROVE  /\ Len(groups[l].entries) = Cardinality(Under(l))
               /\ \A k \in Under(l) :
                    groups[l].entries[Cardinality({j \in Under(l) : j <= k})] = EntryOf(k)
    <3>1. /\ Len(groups[l].entries) = Cardinality(UpTo(l, Len(day)))
          /\ \A k \in UpTo(l, Len(day)) :
                groups[l].entries[Cardinality(UpTo(l, k))] = EntryOf(k)
      BY <2>1 DEF AttachedFirst
    <3>2. UpTo(l, Len(day)) = Under(l)
      BY <2>2
    <3> QED BY <3>1, <3>2 DEF UpTo
  <2>5. /\ DOMAIN groups = {Home(k) : k \in DOMAIN day}
        /\ IsInjective(order) /\ ToSet(order) = DOMAIN groups
    BY <2>1 DEF AttachedFirst
  <2>6. \A k \in DOMAIN day : day[k].dur \in Int
    <3>1. \A k \in DOMAIN day : day[k] \in Session
      BY ElementOf DEF FocusInv
    <3> QED BY <3>1 DEF Session
  <2>7. /\ \A k \in merged : Between(k) /\ ~(day[k].dur > Adjacency)
        /\ \A k \in DOMAIN day : Between(k) /\ day[k].dur < Adjacency => k \in merged
    BY <2>1, <2>6, ReportAssumption DEF Marked, Sandwiched
  <2> QED BY <2>3, <2>4, <2>5, <2>7 DEF GroupsAreThePartition
<1> QED BY <1>1, FocusInvariance, GroupInvariance, PTL

-----------------------------------------------------------------------------
(* The commits of the report                                               *)

\* Session k was about the repository root.
Concerns(k, root) ==
    /\ day[k].type = "vscode" /\ Resolved[day[k].label] # NoPath
    /\ InRepository(Resolved[day[k].label], root)

\* The roots seen are those the first n sessions were about.
AskedFirst(n) ==
    rootsSeen \cap Committed = {root \in Committed : \E k \in 1 .. n : Concerns(k, root)}

\* What the loop of attachGitCommits has listed so far.
CommitsInv ==
    /\ commits \in Seq(Committed) /\ IsInjective(commits)
    /\ ToSet(commits) = rootsSeen \cap Committed
    /\ pc \in {"rows", "total", "mark", "build"} => rootsSeen = {}
    /\ pc = "git" => AskedFirst(i - 1)
    /\ pc \in Grouped \ {"git"} => AskedFirst(Len(day))

\* Some of the first n numbers have a greatest among them.
LEMMA GreatestUpTo ==
    ASSUME NEW n \in Nat, NEW U \in SUBSET (1 .. n), U # {}
    PROVE  Max(U) \in U /\ \A x \in U : x <= Max(U)
<1> DEFINE T == {n - x : x \in U}
<1>1. T \in SUBSET Nat /\ T # {}
  <2>1. ASSUME NEW x \in U PROVE n - x \in Nat
    <3>1. x \in 1 .. n
      OBVIOUS
    <3> QED BY <3>1
  <2> QED BY <2>1
<1>2. PICK m \in T : \A k \in T : m <= k
  <2> HIDE DEF T
  <2> QED BY <1>1, LeastNatural
<1>3. PICK g \in U : m = n - g
  BY <1>2
<1>4. ASSUME NEW x \in U PROVE g >= x
  <2>1. n - x \in T
    OBVIOUS
  <2>2. m <= n - x
    BY <1>2, <2>1
  <2> QED BY <1>3, <2>2
<1>5. \E x \in U : \A y \in U : x >= y
  BY <1>4
<1>6. Max(U) \in U /\ \A y \in U : Max(U) >= y
  BY <1>5 DEF Max
<1> QED BY <1>6

\* What Among's fold has kept after the elements numbered u, as a function of
\* u (git.go:40-55).
Keeps(h, s, S) ==
    h = [u \in SUBSET DOMAIN s |->
            IF u = {} THEN <<>>
            ELSE IF s[Max(u)] \in S \ ToSet(h[u \ {Max(u)}])
                 THEN Append(h[u \ {Max(u)}], s[Max(u)]) ELSE h[u \ {Max(u)}]]

\* There is such a function, so Among is its value.
LEMMA KeepsExists ==
    ASSUME NEW T, NEW s \in Seq(T), NEW S
    PROVE  \E h : Keeps(h, s, S)
<1> DEFINE D == DOMAIN s
           V == Seq(T)
           pick == [u \in SUBSET D |-> Max(u)]
           step == [p \in D \X V |-> IF s[p[1]] \in S \ ToSet(p[2])
                                     THEN Append(p[2], s[p[1]]) ELSE p[2]]
<1>1. D = 1 .. Len(s) /\ Len(s) \in Nat /\ IsFiniteSet(D) /\ <<>> \in V
  BY FS_Interval
<1>2. Picks(pick, D)
  <2>1. ASSUME NEW u \in SUBSET D, u # {} PROVE pick[u] \in u
    BY <1>1, <2>1, GreatestUpTo
  <2> QED BY <2>1 DEF Picks
<1>3. \A x \in D, v \in V : step[<<x, v>>] = IF s[x] \in S \ ToSet(v)
                                             THEN Append(v, s[x]) ELSE v
  OBVIOUS
<1>4. Steps(step, D, V)
  <2>1. ASSUME NEW x \in D, NEW v \in V PROVE step[<<x, v>>] \in V
    <3>1. s[x] \in T
      BY <1>1, ElementOf
    <3>2. Append(v, s[x]) \in V
      BY <3>1
    <3> QED BY <3>2, <1>3
  <2> HIDE DEF step
  <2> QED BY <2>1 DEF Steps
<1>5. PICK h \in [SUBSET D -> V] : FoldsBy(h, <<>>, pick, step, D)
  <2> HIDE DEF V, step, pick, D
  <2> QED BY <1>1, <1>2, <1>4, FoldExists
<1>6. ASSUME NEW u \in SUBSET D
      PROVE  h[u] = IF u = {} THEN <<>>
                    ELSE IF s[Max(u)] \in S \ ToSet(h[u \ {Max(u)}])
                         THEN Append(h[u \ {Max(u)}], s[Max(u)]) ELSE h[u \ {Max(u)}]
  <2>1. CASE u # {}
    <3>1. PICK m : m = Max(u)
      OBVIOUS
    <3>2. pick[u] = m /\ m \in D
      BY <2>1, <3>1, <1>2 DEF Picks
    <3>3. h[u] = step[<<m, h[u \ {m}]>>]
      <4> HIDE DEF step, pick, D
      <4> QED BY <2>1, <3>2, <1>5 DEF FoldsBy
    <3>4. h[u \ {m}] \in V
      <4> HIDE DEF V, D
      <4>1. u \ {m} \in SUBSET D
        OBVIOUS
      <4> QED BY <4>1, <1>5
    <3>5. h[u] = IF s[m] \in S \ ToSet(h[u \ {m}])
                 THEN Append(h[u \ {m}], s[m]) ELSE h[u \ {m}]
      <4> HIDE DEF step, V, D
      <4> QED BY <3>2, <3>3, <3>4, <1>3
    <3> QED BY <2>1, <3>1, <3>5
  <2>2. CASE u = {}
    <3> HIDE DEF step, pick, D
    <3> QED BY <2>2, <1>5 DEF FoldsBy
  <2> QED BY <2>1, <2>2
<1>7. h = [u \in SUBSET D |-> h[u]]
  <2> HIDE DEF V, D
  <2> QED BY <1>5
<1>8. Keeps(h, s, S)
  <2> HIDE DEF V, pick, step
  <2> QED BY <1>6, <1>7 DEF Keeps
<1> QED BY <1>8

\* Among(s, S) is made of the elements of s that are in S, each once.
LEMMA AmongFacts ==
    ASSUME NEW T, NEW s \in Seq(T), NEW S
    PROVE  /\ Among(s, S) \in Seq(T) /\ IsInjective(Among(s, S))
           /\ ToSet(Among(s, S)) = ToSet(s) \cap S
<1>1. Among(s, S) = (CHOOSE h : Keeps(h, s, S))[DOMAIN s]
  BY Zenon DEF Among, FoldLeft, MapThenFoldSet, Keeps
<1>2. PICK h : Keeps(h, s, S) /\ Among(s, S) = h[DOMAIN s]
  BY <1>1, KeepsExists
<1> DEFINE D == DOMAIN s
           Good(n) == /\ h[1 .. n] \in Seq(T) /\ IsInjective(h[1 .. n])
                      /\ ToSet(h[1 .. n]) = {s[k] : k \in 1 .. n} \cap S
           N == {n \in Nat : n <= Len(s) => Good(n)}
<1>3. D = 1 .. Len(s) /\ Len(s) \in Nat
  OBVIOUS
<1>4. 0 \in N
  <2>1. 1 .. 0 = {}
    OBVIOUS
  <2>2. h[{}] = <<>>
    BY <1>2 DEF Keeps
  <2>5. h[1 .. 0] = <<>>
    BY <2>1, <2>2, Zenon
  <2>3. ToSet(h[1 .. 0]) = {} /\ IsInjective(h[1 .. 0]) /\ h[1 .. 0] \in Seq(T)
    <3>1. ToSet(<<>>) = {} /\ IsInjective(<<>>) /\ <<>> \in Seq(T)
      BY DEF ToSet, IsInjective
    <3> QED BY <2>5, <3>1, Zenon
  <2>4. {s[k] : k \in 1 .. 0} = {}
    BY <2>1
  <2> QED BY <2>3, <2>4
<1>5. ASSUME NEW n \in N PROVE n + 1 \in N
  <2> SUFFICES ASSUME n + 1 <= Len(s) PROVE Good(n + 1)
    OBVIOUS
  <2>1. n \in Nat /\ Good(n) /\ n + 1 \in 1 .. Len(s)
    BY <1>3
  <2>2. PICK v : v = h[1 .. n]
    OBVIOUS
  <2>3. /\ v \in Seq(T) /\ IsInjective(v)
        /\ ToSet(v) = {s[k] : k \in 1 .. n} \cap S
    BY <2>1, <2>2
  <2>4. PICK x : x = s[n + 1]
    OBVIOUS
  <2>5. x \in T
    BY <2>1, <2>4, ElementOf
  <2>6. h[1 .. n + 1] = IF x \in S \ ToSet(v) THEN Append(v, x) ELSE v
    <3> DEFINE u == 1 .. n + 1
    <3>0. n \in Nat /\ n + 1 <= Len(s)
      BY <2>1
    <3>1. u \in SUBSET (1 .. Len(s)) /\ u # {} /\ n + 1 \in u
      <4>1. n + 1 \in u
        BY <3>0
      <4>2. \A k \in u : k \in 1 .. Len(s)
        <5>1. Len(s) \in Nat
          BY <1>3
        <5> QED BY <3>0, <5>1
      <4> HIDE DEF u
      <4> QED BY <4>1, <4>2
    <3>2. Max(u) \in u /\ \A y \in u : y <= Max(u)
      <4> HIDE DEF u
      <4> QED BY <1>3, <3>1, GreatestUpTo
    <3>3. Max(u) = n + 1
      BY <2>1, <3>1, <3>2
    <3>4. u \ {n + 1} = 1 .. n
      BY <2>1
    <3>5. h[u] = IF s[Max(u)] \in S \ ToSet(h[u \ {Max(u)}])
                 THEN Append(h[u \ {Max(u)}], s[Max(u)]) ELSE h[u \ {Max(u)}]
      <4> HIDE DEF u
      <4>1. u \in SUBSET DOMAIN s
        BY <1>3, <3>1
      <4> QED BY <1>2, <3>1, <4>1 DEF Keeps
    <3> HIDE DEF u
    <3>6. h[u] = IF x \in S \ ToSet(v) THEN Append(v, x) ELSE v
      BY <2>2, <2>4, <3>3, <3>4, <3>5
    <3> QED BY <3>6 DEF u
  <2>7. PICK A : A = {s[k] : k \in 1 .. n}
    OBVIOUS
  <2>8. {s[k] : k \in 1 .. n + 1} = A \cup {x}
    <3>1. 1 .. n + 1 = (1 .. n) \cup {n + 1}
      BY <2>1
    <3> QED BY <2>4, <2>7, <3>1
  <2>9. CASE x \in S \ ToSet(v)
    <3>1. h[1 .. n + 1] = Append(v, x)
      BY <2>6, <2>9
    <3>2. ToSet(Append(v, x)) = ToSet(v) \cup {x}
      BY <2>3, <2>5, ToSetAppend
    <3>3. Append(v, x) \in Seq(T) /\ IsInjective(Append(v, x))
      <4>1. PICK q \in Nat : q = Len(v)
        BY <2>3
      <4>2. /\ Append(v, x) \in Seq(T) /\ DOMAIN Append(v, x) = 1 .. q + 1
            /\ DOMAIN v = 1 .. q /\ Append(v, x)[q + 1] = x
            /\ \A k \in 1 .. q : Append(v, x)[k] = v[k]
        BY <2>3, <2>5, <4>1
      <4>3. \A k \in 1 .. q : v[k] # x
        BY <2>9, <4>2 DEF ToSet
      <4>4. \A k \in 1 .. q + 1 : k \in 1 .. q \/ k = q + 1
        OBVIOUS
      <4>5. \A a, b \in 1 .. q : v[a] = v[b] => a = b
        BY <2>3, <4>2 DEF IsInjective
      <4>6. \A a, b \in 1 .. q + 1 :
                Append(v, x)[a] = Append(v, x)[b] => a = b
        BY <4>2, <4>3, <4>4, <4>5
      <4> QED BY <4>2, <4>6 DEF IsInjective
    <3>4. ToSet(v) \cup {x} = (A \cup {x}) \cap S
      BY <2>3, <2>7, <2>9
    <3>5. ToSet(h[1 .. n + 1]) = {s[k] : k \in 1 .. n + 1} \cap S
      BY <3>1, <3>2, <3>4, <2>8
    <3> QED BY <3>1, <3>3, <3>5
  <2>10. CASE ~ (x \in S \ ToSet(v))
    <3>1. h[1 .. n + 1] = v
      BY <2>6, <2>10
    <3>2. ToSet(v) = (A \cup {x}) \cap S
      BY <2>3, <2>7, <2>10
    <3>3. ToSet(h[1 .. n + 1]) = {s[k] : k \in 1 .. n + 1} \cap S
      BY <3>1, <3>2, <2>8
    <3> QED BY <3>1, <3>3, <2>3
  <2> QED BY <2>9, <2>10
<1>6. N = Nat
  <2>1. N \in SUBSET Nat
    OBVIOUS
  <2> HIDE DEF N
  <2> QED BY <1>4, <1>5, <2>1, NaturalsOf
<1>7. Good(Len(s))
  <2>1. Len(s) \in N
    <3> HIDE DEF N
    <3> QED BY <1>3, <1>6
  <2> HIDE DEF Good
  <2> QED BY <1>3, <2>1
<1>8. ToSet(s) = {s[k] : k \in 1 .. Len(s)}
  BY <1>3 DEF ToSet
<1> QED BY <1>2, <1>3, <1>7, <1>8

\* Two sequences without a repetition and without a common element, one after
\* the other.
LEMMA ConcatFacts ==
    ASSUME NEW T, NEW s \in Seq(T), NEW t \in Seq(T),
           IsInjective(s), IsInjective(t), ToSet(s) \cap ToSet(t) = {}
    PROVE  /\ s \o t \in Seq(T) /\ IsInjective(s \o t)
           /\ ToSet(s \o t) = ToSet(s) \cup ToSet(t)
<1>1. PICK m \in Nat, n \in Nat : m = Len(s) /\ n = Len(t)
  OBVIOUS
<1>2. PICK c : c = s \o t
  OBVIOUS
<1>3. /\ DOMAIN s = 1 .. m /\ DOMAIN t = 1 .. n /\ c \in Seq(T)
      /\ DOMAIN c = 1 .. m + n
      /\ \A k \in 1 .. m : c[k] = s[k]
      /\ \A k \in 1 .. n : c[m + k] = t[k]
  BY <1>1, <1>2
<1>4. ASSUME NEW k \in 1 .. m + n
      PROVE  \/ k \in 1 .. m /\ c[k] = s[k] /\ c[k] \in ToSet(s)
             \/ k - m \in 1 .. n /\ c[k] = t[k - m] /\ c[k] \in ToSet(t)
  <2>1. CASE k <= m
    BY <2>1, <1>3 DEF ToSet
  <2>2. CASE ~ (k <= m)
    <3>1. k - m \in 1 .. n /\ m + (k - m) = k
      BY <2>2
    <3>2. c[k] = t[k - m]
      BY <3>1, <1>3
    <3> QED BY <3>1, <3>2, <1>3 DEF ToSet
  <2> QED BY <2>1, <2>2
<1>5. ToSet(c) = ToSet(s) \cup ToSet(t)
  <2>1. \A x \in ToSet(c) : x \in ToSet(s) \cup ToSet(t)
    BY <1>3, <1>4 DEF ToSet
  <2>2. ASSUME NEW x \in ToSet(s) PROVE x \in ToSet(c)
    <3>1. PICK k \in 1 .. m : x = s[k]
      BY <1>3 DEF ToSet
    <3>2. k \in 1 .. m + n
      OBVIOUS
    <3> QED BY <3>1, <3>2, <1>3 DEF ToSet
  <2>3. ASSUME NEW x \in ToSet(t) PROVE x \in ToSet(c)
    <3>1. PICK k \in 1 .. n : x = t[k]
      BY <1>3 DEF ToSet
    <3>2. m + k \in 1 .. m + n
      OBVIOUS
    <3> QED BY <3>1, <3>2, <1>3 DEF ToSet
  <2> QED BY <2>1, <2>2, <2>3
<1>6. ASSUME NEW a \in 1 .. m + n, NEW b \in 1 .. m + n, c[a] = c[b]
      PROVE  a = b
  <2>1. CASE a \in 1 .. m /\ b \in 1 .. m
    BY <2>1, <1>3, <1>6 DEF IsInjective
  <2>2. CASE a - m \in 1 .. n /\ b - m \in 1 .. n
    <3>1. c[a] = t[a - m] /\ c[b] = t[b - m]
      <4>1. m + (a - m) = a /\ m + (b - m) = b
        OBVIOUS
      <4> QED BY <4>1, <2>2, <1>3
    <3>2. a - m = b - m
      BY <2>2, <3>1, <1>3, <1>6 DEF IsInjective
    <3> QED BY <3>2
  <2>3. CASE ~ (a \in 1 .. m /\ b \in 1 .. m) /\ ~ (a - m \in 1 .. n /\ b - m \in 1 .. n)
    <3>1. c[a] \in ToSet(s) \cap ToSet(t)
      <4>1. (a \in 1 .. m /\ b - m \in 1 .. n) \/ (b \in 1 .. m /\ a - m \in 1 .. n)
        BY <2>3
      <4>2. a \in 1 .. m => ~ (a - m \in 1 .. n)
        OBVIOUS
      <4>3. b \in 1 .. m => ~ (b - m \in 1 .. n)
        OBVIOUS
      <4> QED BY <4>1, <4>2, <4>3, <1>4, <1>6
    <3> QED BY <3>1
  <2> QED BY <2>1, <2>2, <2>3
<1>7. IsInjective(c)
  BY <1>3, <1>6 DEF IsInjective
<1> QED BY <1>2, <1>3, <1>5, <1>7

\* Every sequence is one of its own elements.
LEMMA SeqOfOwn ==
    ASSUME NEW T, NEW s \in Seq(T), NEW S, ToSet(s) \subseteq S
    PROVE  s \in Seq(S)
<1>1. PICK n \in Nat : n = Len(s)
  OBVIOUS
<1>2. DOMAIN s = 1 .. n /\ s = [k \in 1 .. n |-> s[k]]
  BY <1>1
<1>3. \A k \in 1 .. n : s[k] \in S
  BY <1>2 DEF ToSet
<1> QED BY <1>2, <1>3

\* The roots a session leads to are the repositories it was about
\* (generator.go:123-136; git.go:29-60).
LEMMA CandidateFacts ==
    ASSUME FocusInv, NEW k \in DOMAIN day, day[k].type = "vscode"
    PROVE  LET roots == CandidateRoots(day[k].label) IN
           /\ roots \in Seq(ToSet(roots))
           /\ ToSet(roots) \cap Committed = {root \in Committed : Concerns(k, root)}
<1> DEFINE l == day[k].label
           dir == Resolved[l]
           roots == CandidateRoots(l)
<1>1. l \in Labels
  <2>1. day[k] \in Session
    BY ElementOf DEF FocusInv
  <2> QED BY <2>1 DEF Session
<1>2. CASE dir = NoPath
  <2>1. roots = <<>>
    BY <1>2 DEF CandidateRoots
  <2>2. ToSet(<<>>) = {} /\ <<>> \in Seq({})
    BY DEF ToSet
  <2>3. ToSet(roots) = {} /\ roots \in Seq(ToSet(roots))
    <3> HIDE DEF roots
    <3> QED BY <2>1, <2>2
  <2>4. \A root : ~ Concerns(k, root)
    BY <1>2 DEF Concerns
  <2> HIDE DEF roots
  <2> QED BY <2>3, <2>4 DEF roots
<1>3. CASE dir # NoPath /\ Toplevel[dir] # NoRoot
  <2>1. roots = <<Toplevel[dir]>>
    BY <1>3 DEF CandidateRoots
  <2>2. PICK r : r = Toplevel[dir]
    OBVIOUS
  <2>3. ToSet(<<r>>) = {r} /\ <<r>> \in Seq({r})
    <3>1. DOMAIN <<r>> = 1 .. 1 /\ <<r>>[1] = r
      OBVIOUS
    <3>2. <<r>> \in Seq({r})
      OBVIOUS
    <3>3. ToSet(<<r>>) = {r}
      BY <3>1 DEF ToSet
    <3> QED BY <3>2, <3>3
  <2>4. \A root : Concerns(k, root) <=> root = r
    BY <1>3, <2>2 DEF Concerns, InRepository
  <2>5. ToSet(roots) = {r} /\ roots \in Seq(ToSet(roots))
    <3> HIDE DEF roots
    <3> QED BY <2>1, <2>2, <2>3
  <2> HIDE DEF roots
  <2> QED BY <2>4, <2>5 DEF roots
<1>4. CASE dir # NoPath /\ Toplevel[dir] = NoRoot
  <2>1. dir \in DOMAIN SubDirs /\ SubDirs[dir] \in Seq(ToSet(SubDirs[dir]))
    BY <1>1, <1>4, GitAssumption
  <2>2. PICK subs : subs = SubDirs[dir]
    OBVIOUS
  <2> DEFINE tops == [n \in DOMAIN subs |-> Toplevel[subs[n]]]
             T == ToSet(tops)
  <2>3. PICK m \in Nat : DOMAIN subs = 1 .. m
    BY <2>1, <2>2
  <2>4. tops \in Seq(T)
    <3>1. tops = [n \in 1 .. m |-> tops[n]] /\ DOMAIN tops = 1 .. m
      BY <2>3
    <3>2. \A n \in 1 .. m : tops[n] \in T
      BY <3>1 DEF ToSet
    <3> HIDE DEF T, tops
    <3> QED BY <3>1, <3>2
  <2>5. roots = Among(tops, T \ {NoRoot})
    BY <1>4, <2>2 DEF CandidateRoots, SubRepoRoots
  <2>6. roots \in Seq(T) /\ ToSet(roots) = T \cap (T \ {NoRoot})
    <3> HIDE DEF tops, roots
    <3>1. ToSet(roots) = ToSet(tops) \cap (T \ {NoRoot}) /\ roots \in Seq(T)
      BY <2>4, <2>5, AmongFacts
    <3> QED BY <3>1 DEF T
  <2>7. roots \in Seq(ToSet(roots))
    <3> HIDE DEF tops, roots, T
    <3> QED BY <2>6, SeqOfOwn
  <2>8. ASSUME NEW root \in Committed
        PROVE  root \in T <=> Concerns(k, root)
    <3>1. root # NoRoot
      BY GitAssumption
    <3>2. root \in T <=> \E n \in DOMAIN subs : Toplevel[subs[n]] = root
      BY DEF ToSet
    <3>3. (\E sub \in ToSet(subs) : Toplevel[sub] = root)
            <=> \E n \in DOMAIN subs : Toplevel[subs[n]] = root
      BY DEF ToSet
    <3>4. Concerns(k, root) <=> \E sub \in ToSet(subs) : Toplevel[sub] = root
      BY <1>4, <2>2, <3>1 DEF Concerns, InRepository
    <3> QED BY <3>2, <3>3, <3>4
  <2>9. \A root \in Committed : root # NoRoot
    BY GitAssumption
  <2> HIDE DEF tops, roots, T
  <2> QED BY <2>6, <2>7, <2>8, <2>9 DEF roots
<1> QED BY <1>2, <1>3, <1>4

\* What is asked after one more session.
LEMMA AskedMore ==
    ASSUME FocusInv, NEW n \in Nat, n + 1 <= Len(day), AskedFirst(n), day' = day,
           rootsSeen' \cap Committed
                = (rootsSeen \cap Committed) \cup {root \in Committed : Concerns(n + 1, root)}
    PROVE  AskedFirst(n + 1)'
<1>1. \A k, root : Concerns(k, root)' <=> Concerns(k, root)
  BY DEF Concerns
<1>2. \A k : k \in 1 .. n + 1 <=> k \in 1 .. n \/ k = n + 1
  OBVIOUS
<1>3. ASSUME NEW root \in Committed
      PROVE  root \in rootsSeen' <=> \E k \in 1 .. n + 1 : Concerns(k, root)
  <2>1. root \in rootsSeen' <=> root \in rootsSeen \/ Concerns(n + 1, root)
    OBVIOUS
  <2>2. root \in rootsSeen <=> \E k \in 1 .. n : Concerns(k, root)
    BY DEF AskedFirst
  <2> QED BY <2>1, <2>2, <1>2
<1> QED BY <1>1, <1>3 DEF AskedFirst

\* The commits are left alone but for the loop that lists them.
LEMMA CommitsAside ==
    ASSUME FocusInv, GroupInv, [Next]_vars, ~ attachGitCommits
    PROVE  /\ UNCHANGED gitVars
           /\ pc = "rows" \/ day' = day
           /\ \/ /\ pc \in {"rows", "total", "mark", "build"}
                 /\ pc' \in {"rows", "total", "mark", "build"}
              \/ pc = "build" /\ pc' = "git" /\ i' = 1
              \/ pc \in Grouped \ {"git"} /\ pc' \in Grouped \ {"git"}
              \/ UNCHANGED <<pc, i>>
<1>1. CASE Query
  BY <1>1 DEF Query, SessionsForDay, AddFinished, AddOpen, handlerVars
<1>2. CASE HandleReport
  <2>1. CASE ReportNext /\ UNCHANGED gitVars
    <3>1. CASE Fill \/ AddTotal \/ Mark
      BY <2>1, <3>1 DEF Fill, AddTotal, Mark, Turn
    <3>2. CASE AttachMerged \/ AttachOwn
      BY <2>1, <3>2 DEF AttachMerged, AttachOwn, Turn
    <3>3. CASE AddGrandTotal
      BY <2>1, <3>3 DEF AddGrandTotal, Turn, Grouped
    <3> QED BY <2>1, <3>1, <3>2, <3>3 DEF ReportNext
  <2>2. CASE Format /\ UNCHANGED gitVars
    BY <2>2 DEF Format, Grouped
  <2> QED BY <1>2, <2>1, <2>2 DEF HandleReport
<1>3. CASE RenderTimeline
  BY <1>3 DEF RenderTimeline, handlerVars, TimelineNext,
              Collapse, Single, Collapsed, Deal, Dealt, Place, Placed, Emit,
              Grouped, After
<1>4. CASE RenderFocus
  BY <1>4 DEF RenderFocus, handlerVars, FocusNext,
              AddProductive, AddDistraction, AddNeutral, Added, Grouped, After
<1>5. CASE UNCHANGED vars
  BY <1>5 DEF vars, requestVars, handlerVars
<1> QED BY <1>1, <1>2, <1>3, <1>4, <1>5 DEF Next, Terminated

\* One session of the loop of attachGitCommits (generator.go:117-149).
LEMMA AttachCommitsStep ==
    ASSUME FocusInv, GroupInv, CommitsInv, attachGitCommits
    PROVE  CommitsInv'
<1>1. /\ pc = "git" /\ day' = day /\ Turn(Len(day), "git", "format")
      /\ i \in 1 .. Len(day) /\ AskedFirst(i - 1)
  BY DEF attachGitCommits, AttachOther, AttachCommits, NextSession, GroupInv, CommitsInv
<1>2. Len(day) \in Nat /\ DOMAIN day = 1 .. Len(day)
  BY DEF FocusInv
<1>3. PICK n \in Nat : n = i - 1
  BY <1>1, <1>2
<1>4. i = n + 1 /\ n + 1 <= Len(day) /\ i \in DOMAIN day
  <2>1. i \in 1 .. Len(day)
    BY <1>1
  <2> QED BY <1>2, <1>3, <2>1
<1>5. AskedFirst(n)
  BY <1>1, <1>3
<1>6. /\ commits' \in Seq(Committed) /\ IsInjective(commits')
      /\ ToSet(commits') = rootsSeen' \cap Committed
      /\ rootsSeen' \cap Committed
            = (rootsSeen \cap Committed) \cup {root \in Committed : Concerns(n + 1, root)}
  <2>1. CASE AttachOther
    <3>1. UNCHANGED <<rootsSeen, commits>> /\ day[i].type # "vscode"
      BY <2>1 DEF AttachOther, gitVars
    <3>2. \A root : ~ Concerns(n + 1, root)
      BY <3>1, <1>4 DEF Concerns
    <3> QED BY <3>1, <3>2 DEF CommitsInv
  <2>2. CASE AttachCommits
    <3>1. PICK roots : roots = CandidateRoots(day[i].label)
      OBVIOUS
    <3>2. PICK R : R = ToSet(roots)
      OBVIOUS
    <3>3. /\ day[i].type = "vscode" /\ rootsSeen' = rootsSeen \cup R
          /\ commits' = commits \o Among(roots, Committed \ rootsSeen)
      BY <2>2, <3>1, <3>2 DEF AttachCommits
    <3>4. roots \in Seq(R) /\ R \cap Committed = {root \in Committed : Concerns(n + 1, root)}
      BY <3>1, <3>2, <3>3, <1>4, CandidateFacts
    <3>5. PICK a : a = Among(roots, Committed \ rootsSeen)
      OBVIOUS
    <3>6. /\ a \in Seq(R) /\ IsInjective(a)
          /\ ToSet(a) = R \cap (Committed \ rootsSeen)
      BY <3>2, <3>4, <3>5, AmongFacts
    <3>7. a \in Seq(Committed)
      BY <3>6, SeqOfOwn
    <3>8. /\ commits \in Seq(Committed) /\ IsInjective(commits)
          /\ ToSet(commits) = rootsSeen \cap Committed
      BY DEF CommitsInv
    <3>9. ToSet(commits) \cap ToSet(a) = {}
      BY <3>6, <3>8
    <3>10. /\ commits \o a \in Seq(Committed) /\ IsInjective(commits \o a)
           /\ ToSet(commits \o a) = ToSet(commits) \cup ToSet(a)
      BY <3>6, <3>7, <3>8, <3>9, ConcatFacts
    <3>11. commits' = commits \o a
      BY <3>3, <3>5
    <3>12. ToSet(commits') = rootsSeen' \cap Committed
      <4>1. ToSet(commits') = ToSet(commits) \cup ToSet(a)
        BY <3>10, <3>11
      <4> QED BY <4>1, <3>3, <3>6, <3>8
    <3>13. rootsSeen' \cap Committed = (rootsSeen \cap Committed) \cup (R \cap Committed)
      BY <3>3
    <3> QED BY <3>4, <3>10, <3>11, <3>12, <3>13
  <2> QED BY <2>1, <2>2 DEF attachGitCommits
<1>7. AskedFirst(n + 1)'
  BY <1>1, <1>4, <1>5, <1>6, AskedMore
<1>8. CASE i < Len(day)
  <2>1. pc' = "git" /\ (i - 1)' = n + 1
    BY <1>1, <1>4, <1>8 DEF Turn
  <2>2. AskedFirst(i - 1)'
    BY <1>7, <2>1 DEF AskedFirst
  <2> QED BY <1>6, <2>1, <2>2 DEF CommitsInv, Grouped, After
<1>9. CASE ~ (i < Len(day))
  <2>0. i = Len(day)
    <3>1. i \in 1 .. Len(day) /\ Len(day) \in Nat
      BY <1>1, <1>2
    <3> QED BY <1>9, <3>1
  <2>1. pc' = "format" /\ Len(day') = n + 1
    BY <1>1, <1>4, <1>9, <2>0 DEF Turn
  <2>2. AskedFirst(Len(day))'
    BY <1>7, <2>1 DEF AskedFirst
  <2> QED BY <1>6, <2>1, <2>2 DEF CommitsInv, Grouped, After
<1> QED BY <1>8, <1>9

\* The loop of attachGitCommits is the only step that lists commits.
LEMMA CommitsStep ==
    ASSUME FocusInv, GroupInv, CommitsInv, [Next]_vars
    PROVE  CommitsInv'
<1>1. CASE attachGitCommits
  BY <1>1, AttachCommitsStep
<1>2. CASE ~ attachGitCommits
  <2>1. /\ UNCHANGED <<rootsSeen, commits>>
        /\ pc = "rows" \/ day' = day
        /\ \/ /\ pc \in {"rows", "total", "mark", "build"}
              /\ pc' \in {"rows", "total", "mark", "build"}
           \/ pc = "build" /\ pc' = "git" /\ i' = 1
           \/ pc \in Grouped \ {"git"} /\ pc' \in Grouped \ {"git"}
           \/ UNCHANGED <<pc, i>>
    BY <1>2, CommitsAside DEF gitVars
  <2>2. /\ commits' \in Seq(Committed) /\ IsInjective(commits')
        /\ ToSet(commits') = rootsSeen' \cap Committed
    BY <2>1 DEF CommitsInv
  <2>3. CASE /\ pc \in {"rows", "total", "mark", "build"}
             /\ pc' \in {"rows", "total", "mark", "build"}
    <3>1. rootsSeen' = {} /\ pc' \notin Grouped
      BY <2>1, <2>3 DEF CommitsInv, Grouped, After
    <3> QED BY <2>2, <3>1 DEF CommitsInv, Grouped, After
  <2>4. CASE pc = "build" /\ pc' = "git" /\ i' = 1
    <3>1. rootsSeen' = {} /\ (i - 1)' = 0
      BY <2>1, <2>4 DEF CommitsInv
    <3>2. 1 .. 0 = {}
      OBVIOUS
    <3>3. AskedFirst(i - 1)'
      BY <3>1, <3>2 DEF AskedFirst
    <3> QED BY <2>2, <2>4, <3>3 DEF CommitsInv, Grouped, After
  <2>5. CASE pc \in Grouped \ {"git"} /\ pc' \in Grouped \ {"git"}
    <3>1. AskedFirst(Len(day)) /\ day' = day
      BY <2>1, <2>5 DEF CommitsInv, Grouped, After
    <3>2. AskedFirst(Len(day))'
      BY <2>1, <3>1 DEF AskedFirst, Concerns
    <3> QED BY <2>2, <2>5, <3>2 DEF CommitsInv, Grouped, After
  <2>6. CASE UNCHANGED <<pc, i>>
    <3>1. CASE pc = "rows"
      BY <2>1, <2>2, <2>6, <3>1 DEF CommitsInv, Grouped, After
    <3>2. CASE day' = day
      <4>1. /\ AskedFirst(Len(day)) => AskedFirst(Len(day))'
            /\ AskedFirst(i - 1) => AskedFirst(i - 1)'
        BY <2>1, <2>6, <3>2 DEF AskedFirst, Concerns
      <4> QED BY <2>1, <2>2, <2>6, <4>1 DEF CommitsInv
    <3> QED BY <2>1, <3>1, <3>2
  <2> QED BY <2>1, <2>3, <2>4, <2>5, <2>6
<1> QED BY <1>1, <1>2

\* The list of commits is kept right by every step (generator.go:117-149).
THEOREM CommitsInvariance == Spec => []CommitsInv
<1>1. Init => CommitsInv
  <2> SUFFICES ASSUME Init PROVE CommitsInv
    OBVIOUS
  <2>1. pc = "rows" /\ rootsSeen = {} /\ commits = <<>>
    BY DEF Init, DayInit, GitInit
  <2>2. ToSet(<<>>) = {} /\ IsInjective(<<>>) /\ <<>> \in Seq(Committed)
    BY DEF ToSet, IsInjective
  <2>3. ToSet(commits) = {} /\ IsInjective(commits) /\ commits \in Seq(Committed)
    BY <2>1, <2>2
  <2> QED BY <2>1, <2>3 DEF CommitsInv, Grouped, After
<1>2. FocusInv /\ GroupInv /\ CommitsInv /\ [Next]_vars => CommitsInv'
  BY CommitsStep
<1> QED
  BY <1>1, <1>2, FocusInvariance, GroupInvariance, PTL DEF Spec

\* For every day, every layout of repositories and every way the workspaces
\* are resolved, the report lists the commits of each repository of the day
\* once (generator.go:117-149; git.go:29-60).
THEOREM CommitsAreListedOnce == Spec => []CommitsListedOnce
<1>1. FocusInv /\ CommitsInv => CommitsListedOnce
  <2> SUFFICES ASSUME FocusInv, CommitsInv, pc \in {"format", "done"}
      PROVE  CommitsListedOnce
    BY DEF CommitsListedOnce
  <2>1. AskedFirst(Len(day)) /\ DOMAIN day = 1 .. Len(day)
    BY DEF CommitsInv, Grouped, After, FocusInv
  <2>2. /\ IsInjective(commits)
        /\ ToSet(commits) = {root \in Committed : \E k \in DOMAIN day : Concerns(k, root)}
    BY <2>1 DEF CommitsInv, AskedFirst
  <2> QED BY <2>2 DEF CommitsListedOnce, Concerns
<1> QED BY <1>1, FocusInvariance, CommitsInvariance, PTL

-----------------------------------------------------------------------------
(* The sums of the page                                                    *)

\* The labels' totals after the first n sessions (generator.go:84-88).
TotalledFirst(n) ==
    /\ IsFiniteSet(DOMAIN totals) /\ NatOn(totals, DOMAIN totals)
    /\ SumFunction(totals) = Prefix(n)

\* The first session of the last n items, which are those that are dealt.
FirstDealt(n) == IF n = 0 THEN Len(day) + 1 ELSE items[Len(items) + 1 - n].from

\* The headings of the periods add up to what is dealt.
DealtSums(n) ==
    /\ PeriodGroup("Morning").total + PeriodGroup("Afternoon").total
            + PeriodGroup("Evening").total
        = SumFunctionOnSet(Secs, FirstDealt(n) .. Len(day))
    /\ PeriodGroup("Morning").count + PeriodGroup("Afternoon").count
            + PeriodGroup("Evening").count
        = Len(day) + 1 - FirstDealt(n)

\* A session in progress has no duration.
OpenInv == \A k \in DOMAIN day : day[k].end = NULL => day[k].dur = 0

\* The totals of the labels.
TotalsInv ==
    /\ pc = "rows" => totals = <<>>
    /\ pc = "total" => TotalledFirst(i - 1)
    /\ pc \in {"mark", "build"} \cup Grouped => TotalledFirst(Len(day))

\* The grand total of the report, and the markdown's with its table.
GrandInv ==
    /\ pc = "format" => i = 1
    /\ pc \in Grouped \ {"git", "format"} =>
            md.grand = Whole /\ ToSet(md.rows) = Finished
    /\ pc \in Before \ {"sum"} => grand = 0
    /\ pc = "sum" =>
            i \in 1 .. Len(order) /\ grand = SumFunctionOnSet(GroupTotals, 1 .. i - 1)
    /\ pc \in {"collapse", "deal", "strip"} \cup After => grand = Whole

\* The headings of the periods.
HeadInv ==
    /\ pc = "deal" => DealtSums(i - 1)
    /\ pc \in {"strip"} \cup After => DealtSums(Len(items))

\* The focus card's sum.
CardInv ==
    /\ pc \notin After => FocusTotal = 0
    /\ pc = "add" => i \in 1 .. Len(day) + 1 /\ FocusTotal = Prefix(i - 1)
    /\ pc = "done" => FocusTotal = Whole

SumInv == OpenInv /\ TotalsInv /\ GrandInv /\ HeadInv /\ CardInv

\* The durations of the day, and one more of them.
LEMMA SecsFacts ==
    ASSUME FocusInv
    PROVE  /\ DOMAIN Secs = DOMAIN day /\ DOMAIN day = 1 .. Len(day) /\ Len(day) \in Nat
           /\ NatOn(Secs, DOMAIN day) /\ Prefix(0) = 0
           /\ \A n \in Nat : n + 1 <= Len(day) =>
                Prefix(n) \in Nat /\ Prefix(n + 1) = Prefix(n) + day[n + 1].dur
<1>1. DOMAIN Secs = DOMAIN day /\ DOMAIN day = 1 .. Len(day) /\ Len(day) \in Nat
  BY DEF FocusInv, Secs
<1>2. ASSUME NEW k \in DOMAIN day PROVE Secs[k] = day[k].dur /\ Secs[k] \in Nat
  <2>1. day[k] \in Session
    BY ElementOf DEF FocusInv
  <2> QED BY <2>1 DEF Secs, Session
<1>3. Prefix(0) = 0
  <2>1. 1 .. 0 = {}
    OBVIOUS
  <2> QED BY <2>1, FS_EmptySet, SumZero DEF Prefix
<1>4. ASSUME NEW n \in Nat, n + 1 <= Len(day)
      PROVE  Prefix(n) \in Nat /\ Prefix(n + 1) = Prefix(n) + day[n + 1].dur
  <2>1. n + 1 \in DOMAIN day /\ \A k \in 1 .. n + 1 : k \in DOMAIN day
    BY <1>1, <1>4
  <2>2. NatOn(Secs, 1 .. n + 1) /\ Secs[n + 1] = day[n + 1].dur
    BY <2>1, <1>2 DEF NatOn
  <2> QED BY <2>2, SumOneMore DEF Prefix
<1> QED BY <1>1, <1>2, <1>3, <1>4 DEF NatOn

\* m[label] += n adds n to what the map adds up to (generator.go:84-88).
LEMMA PlusAdds ==
    ASSUME NEW m, IsFiniteSet(DOMAIN m), NatOn(m, DOMAIN m), NEW label, NEW n \in Nat
    PROVE  LET p == Plus(m, label, n) IN
           /\ IsFiniteSet(DOMAIN p) /\ NatOn(p, DOMAIN p)
           /\ SumFunction(p) = SumFunction(m) + n
<1> DEFINE p == Plus(m, label, n)
           S == DOMAIN m
<1>1. DOMAIN p = S \cup {label}
  BY DEF Plus
<1>2. \A l \in S \cup {label} :
        p[l] = (IF l \in DOMAIN m THEN m[l] ELSE 0) + (IF l = label THEN n ELSE 0)
  BY DEF Plus
<1>3. \A l \in S : m[l] \in Nat
  BY DEF NatOn
<1>4. IsFiniteSet(S \cup {label}) /\ NatOn(p, S \cup {label}) /\ NatOn(p, S)
  <2>1. IsFiniteSet(S \cup {label})
    BY FS_AddElement
  <2>2. ASSUME NEW l \in S \cup {label} PROVE p[l] \in Nat
    <3> HIDE DEF p
    <3>1. CASE l \in S
      BY <3>1, <1>2, <1>3
    <3>2. CASE l \notin S
      BY <3>2, <1>2
    <3> QED BY <3>1, <3>2
  <2> HIDE DEF p
  <2> QED BY <2>1, <2>2 DEF NatOn
<1>5. SumFunctionOnSet(p, S \cup {label}) = SumFunctionOnSet(m, S) + n
  <2> HIDE DEF p
  <2>1. CASE label \in S
    <3>1. p[label] = m[label] + n /\ \A l \in S \ {label} : p[l] = m[l]
      BY <2>1, <1>2, <1>3
    <3>2. S \cup {label} = S
      BY <2>1
    <3>3. SumFunctionOnSet(p, S) = SumFunctionOnSet(m, S) + n
      BY <2>1, <3>1, SumGrows
    <3> QED BY <3>2, <3>3
  <2>2. CASE label \notin S
    <3>1. p[label] = n /\ \A l \in S : p[l] = m[l]
      BY <2>2, <1>2, <1>3
    <3>2. SumFunctionOnSet(p, S) = SumFunctionOnSet(m, S)
      BY <3>1, SumSame
    <3>3. SumFunctionOnSet(p, S \cup {label}) = SumFunctionOnSet(p, S) + n
      BY <1>4, <2>2, <3>1, SumMore
    <3> QED BY <3>2, <3>3
  <2> QED BY <2>1, <2>2
<1>6. IsFiniteSet(DOMAIN p) /\ NatOn(p, DOMAIN p)
  BY <1>1, <1>4
<1>7. SumFunction(p) = SumFunctionOnSet(p, DOMAIN p)
        /\ SumFunction(m) = SumFunctionOnSet(m, S)
  BY DEF SumFunction
<1> HIDE DEF p
<1>8. SumFunction(p) = SumFunction(m) + n
  BY <1>1, <1>5, <1>7
<1> QED BY <1>6, <1>8 DEF p

\* Only the query and nothing after it changes the day.
LEMMA DayAside ==
    ASSUME FocusInv, HandleReport \/ RenderTimeline \/ RenderFocus \/ UNCHANGED vars
    PROVE  day' = day
BY HandlerAside, TimelineKeepsDay, FocusAside DEF vars, requestVars

\* A session in progress has no duration yet (generator.go:63-75).
LEMMA OpenStep ==
    ASSUME FocusInv, DayInv, OpenInv, [Next]_vars
    PROVE  OpenInv'
<1>1. CASE Query
  <2>1. DayInv'
    BY DayStep
  <2>2. PICK n \in Nat : n = Len(day)
    BY DEF FocusInv
  <2>3. PICK s : day' = Append(day, s) /\ (s.end = NULL => s.dur = 0 \/ s.start \notin Nat)
    <3>1. CASE AddFinished
      <4>1. PICK type \in Types, label \in Labels, start \in NextStarts, dur \in Durs :
                day' = Append(day, Row(type, label, start, start + dur, dur))
        BY <3>1 DEF AddFinished
      <4>2. dur \in Nat
        BY DayAssumption
      <4>3. start \in Nat => start + dur # NULL
        BY <4>2 DEF NULL
      <4> QED BY <4>1, <4>3 DEF Row
    <3>2. CASE AddOpen
      BY <3>2 DEF AddOpen, Row
    <3> QED BY <1>1, <3>1, <3>2 DEF Query, SessionsForDay
  <2>4. /\ DOMAIN day' = 1 .. n + 1 /\ day'[n + 1] = s /\ DOMAIN day = 1 .. n
        /\ \A k \in 1 .. n : day'[k] = day[k]
    BY <2>2, <2>3 DEF FocusInv
  <2>5. s.start \in Nat
    BY <2>1, <2>4 DEF DayInv
  <2>6. \A k \in 1 .. n + 1 : k \in 1 .. n \/ k = n + 1
    OBVIOUS
  <2> QED BY <2>3, <2>4, <2>5, <2>6 DEF OpenInv
<1>2. CASE HandleReport \/ RenderTimeline \/ RenderFocus \/ UNCHANGED vars
  BY <1>2, DayAside DEF OpenInv
<1> QED BY <1>1, <1>2 DEF Next, Terminated

\* The labels' totals are left alone but for the loop that makes them.
LEMMA TotalsAside ==
    ASSUME FocusInv, [Next]_vars, ~ Query, ~ Fill, ~ AddTotal
    PROVE  /\ UNCHANGED <<day, totals>>
           /\ \/ pc \in {"mark", "build"} \cup Grouped
                 /\ pc' \in {"mark", "build"} \cup Grouped
              \/ UNCHANGED <<pc, i>>
<1>1. CASE Mark
  BY <1>1 DEF Mark, Turn, groupVars, Grouped
<1>2. CASE AttachMerged \/ AttachOwn
  BY <1>2 DEF AttachMerged, AttachOwn, Turn, Grouped
<1>3. CASE AddGrandTotal
  BY <1>3 DEF AddGrandTotal, Turn, groupVars, Grouped
<1>4. CASE (Format \/ attachGitCommits) /\ UNCHANGED reportVars
  <2>1. CASE Format
    BY <1>4, <2>1 DEF Format, reportVars, Grouped
  <2>2. CASE attachGitCommits
    BY <1>4, <2>2 DEF attachGitCommits, AttachOther, AttachCommits, NextSession, Turn,
                      reportVars, Grouped
  <2> QED BY <1>4, <2>1, <2>2
<1>5. CASE HandleReport
  <2>1. CASE ReportNext
    BY <2>1, <1>1, <1>2, <1>3 DEF ReportNext
  <2>2. CASE (Format \/ attachGitCommits) /\ UNCHANGED reportVars
    BY <2>2, <1>4
  <2> QED BY <1>5, <2>1, <2>2 DEF HandleReport
<1>6. CASE RenderTimeline
  BY <1>6 DEF RenderTimeline, handlerVars, reportVars, TimelineNext,
              Collapse, Single, Collapsed, Deal, Dealt, Place, Placed, Emit,
              Grouped, After
<1>7. CASE RenderFocus
  BY <1>7 DEF RenderFocus, handlerVars, reportVars, FocusNext,
              AddProductive, AddDistraction, AddNeutral, Added, Grouped, After
<1>8. CASE UNCHANGED vars
  BY <1>8 DEF vars, requestVars, handlerVars, reportVars
<1> QED BY <1>5, <1>6, <1>7, <1>8 DEF Next, Terminated

\* The labels' totals follow the sessions (generator.go:84-88).
LEMMA TotalsStep ==
    ASSUME FocusInv, GroupInv, TotalsInv, [Next]_vars
    PROVE  TotalsInv'
<1>1. CASE Query
  <2>1. pc = "rows" /\ pc' = "rows" /\ totals' = totals
    BY <1>1 DEF Query, SessionsForDay, AddFinished, AddOpen, handlerVars, reportVars
  <2> QED BY <2>1 DEF TotalsInv, Grouped, After
<1>2. CASE Fill
  <2>1. pc = "rows" /\ pc' = "total" /\ i' = 1 /\ day' = day /\ totals' = <<>>
    BY <1>2, FillKeepsDay DEF Fill, TotalsInv
  <2>2. DOMAIN totals' = {} /\ SumFunctionOnSet(totals', {}) = 0
    BY <2>1, FS_EmptySet, SumZero
  <2>3. (i - 1)' = 0 /\ Prefix(i - 1)' = Prefix(0) /\ Prefix(0) = 0
    BY <2>1, SecsFacts DEF Prefix, Secs
  <2>4. TotalledFirst(i - 1)'
    BY <2>2, <2>3, FS_EmptySet DEF TotalledFirst, NatOn, SumFunction
  <2> QED BY <2>1, <2>4 DEF TotalsInv, Grouped, After
<1>3. CASE AddTotal
  <2>1. /\ pc = "total" /\ day' = day /\ Turn(Len(day), "total", "mark")
        /\ totals' = Plus(totals, day[i].label, day[i].dur)
        /\ i \in 1 .. Len(day) /\ TotalledFirst(i - 1)
    BY <1>3 DEF AddTotal, TotalsInv, GroupInv
  <2>2. Len(day) \in Nat /\ DOMAIN day = 1 .. Len(day)
    BY DEF FocusInv
  <2>3. day[i].dur \in Nat
    <3>1. day[i] \in Session
      BY <2>1, ElementOf DEF FocusInv
    <3> QED BY <3>1 DEF Session
  <2>4. PICK n \in Nat : n = i - 1
    BY <2>1, <2>2
  <2>5. i = n + 1 /\ n + 1 <= Len(day)
    BY <2>1, <2>2, <2>4
  <2>6. Prefix(n + 1) = Prefix(n) + day[i].dur
    BY <2>5, SecsFacts
  <2>7. TotalledFirst(n)
    BY <2>1, <2>4
  <2>8. /\ IsFiniteSet(DOMAIN totals') /\ NatOn(totals', DOMAIN totals')
        /\ SumFunction(totals') = SumFunction(totals) + day[i].dur
    BY <2>1, <2>3, <2>7, PlusAdds DEF TotalledFirst
  <2>9. TotalledFirst(n + 1)'
    <3>1. Prefix(n + 1)' = Prefix(n + 1)
      BY <2>1 DEF Prefix, Secs
    <3> QED BY <2>6, <2>7, <2>8, <3>1 DEF TotalledFirst
  <2>10. CASE i < Len(day)
    <3>1. pc' = "total" /\ (i - 1)' = n + 1
      BY <2>1, <2>5, <2>10 DEF Turn
    <3>2. TotalledFirst(i - 1)'
      BY <2>9, <3>1 DEF TotalledFirst
    <3> QED BY <3>1, <3>2 DEF TotalsInv, Grouped, After
  <2>11. CASE ~ (i < Len(day))
    <3>1. i = Len(day)
      <4>1. i \in 1 .. Len(day) /\ Len(day) \in Nat
        BY <2>1, <2>2
      <4> QED BY <4>1, <2>11
    <3>2. pc' = "mark" /\ Len(day') = n + 1
      BY <2>1, <2>5, <2>11, <3>1 DEF Turn
    <3>3. TotalledFirst(Len(day))'
      BY <2>9, <3>2 DEF TotalledFirst
    <3> QED BY <3>2, <3>3 DEF TotalsInv, Grouped, After
  <2> QED BY <2>10, <2>11
<1>4. CASE ~ Query /\ ~ Fill /\ ~ AddTotal
  <2>1. /\ UNCHANGED <<day, totals>>
        /\ \/ pc \in {"mark", "build"} \cup Grouped
              /\ pc' \in {"mark", "build"} \cup Grouped
           \/ UNCHANGED <<pc, i>>
    BY <1>4, TotalsAside
  <2>2. /\ TotalledFirst(Len(day)) => TotalledFirst(Len(day))'
        /\ i' = i /\ TotalledFirst(i - 1) => TotalledFirst(i - 1)'
    BY <2>1 DEF TotalledFirst, Prefix, Secs
  <2>3. CASE UNCHANGED <<pc, i>>
    BY <2>1, <2>2, <2>3 DEF TotalsInv
  <2>4. CASE /\ pc \in {"mark", "build"} \cup Grouped
             /\ pc' \in {"mark", "build"} \cup Grouped
    BY <2>1, <2>2, <2>4 DEF TotalsInv, Grouped, After
  <2> QED BY <2>1, <2>3, <2>4
<1> QED BY <1>1, <1>2, <1>3, <1>4

\* The markdown's table lists the finished sessions (formatter.go:127-139).
LEMMA RowsFacts ==
    ASSUME FocusInv
    PROVE  ToSet(TimelineRows(day)) = Finished
<1>1. DOMAIN day = 1 .. Len(day) /\ Len(day) \in Nat
  BY DEF FocusInv
<1> DEFINE s == [k \in DOMAIN day |-> k]
           S == {k \in DOMAIN day : day[k].end # NULL /\ day[k].dur # NULL}
<1>2. s \in Seq(Nat) /\ ToSet(s) = DOMAIN day
  <2>1. DOMAIN s = DOMAIN day /\ \A k \in DOMAIN day : s[k] = k
    OBVIOUS
  <2>2. s = [k \in 1 .. Len(day) |-> s[k]] /\ \A k \in 1 .. Len(day) : s[k] \in Nat
    BY <1>1
  <2>3. s \in Seq(Nat)
    <3> HIDE DEF s
    <3> QED BY <1>1, <2>2
  <2>4. ToSet(s) = DOMAIN day
    <3> HIDE DEF s
    <3> QED BY <2>1 DEF ToSet
  <2> QED BY <2>3, <2>4
<1>3. S = Finished
  <2>1. \A k \in DOMAIN day : day[k].dur # NULL
    <3>1. \A k \in DOMAIN day : day[k] \in Session
      BY ElementOf DEF FocusInv
    <3> QED BY <3>1 DEF Session, NULL
  <2> QED BY <2>1 DEF Finished
<1>4. TimelineRows(day) = Among(s, S)
  BY DEF TimelineRows
<1>5. ToSet(Among(s, S)) = ToSet(s) \cap S
  <2> HIDE DEF s, S
  <2>1. PICK N : N = Nat
    OBVIOUS
  <2>2. s \in Seq(N)
    BY <1>2, <2>1
  <2> QED BY <2>2, AmongFacts
<1>6. Finished \subseteq DOMAIN day
  BY DEF Finished
<1> HIDE DEF s, S
<1> QED BY <1>2, <1>3, <1>4, <1>5, <1>6

\* The totals of the groups are numbers, of as many groups as there are, and
\* at least one on a day that is not empty.
LEMMA GroupTotalsFacts ==
    ASSUME FocusInv, DayInv, GroupInv, pc \in Grouped
    PROVE  /\ DOMAIN GroupTotals = 1 .. Len(order) /\ Len(order) \in Nat \ {0}
           /\ NatOn(GroupTotals, 1 .. Len(order))
           /\ SumFunctionOnSet(GroupTotals, 1 .. Len(order)) = Whole
<1>1. AttachedFirst(Len(day))
  BY DEF GroupInv
<1>2. DOMAIN order = 1 .. Len(order) /\ Len(order) \in Nat
  BY <1>1 DEF AttachedFirst
<1>3. order # <<>>
  <2>1. pc # "rows"
    BY DEF Grouped, After
  <2>2. 1 \in 1 .. Len(day)
    BY <2>1 DEF DayInv, FocusInv
  <2>3. Home(1) \in {Home(k) : k \in 1 .. Len(day)}
    BY <2>2
  <2>4. Home(1) \in ToSet(order)
    BY <1>1, <2>3 DEF AttachedFirst
  <2> QED BY <2>4 DEF ToSet
<1>4. Len(order) # 0
  BY <1>1, <1>3 DEF AttachedFirst
<1>5. DOMAIN GroupTotals = 1 .. Len(order)
  BY <1>2 DEF GroupTotals
<1>6. \A n \in DOMAIN order : GroupTotals[n] \in Nat
  BY <1>1 DEF AttachedFirst, GroupTotals, ToSet
<1> QED BY <1>1, <1>2, <1>4, <1>5, <1>6 DEF AttachedFirst, SumFunction, NatOn, Whole

\* What changes neither the report's sums nor the markdown.
LEMMA GrandAside ==
    ASSUME FocusInv, GroupInv, [Next]_vars, ~ Format, ~ AddGrandTotal
    PROVE  /\ UNCHANGED <<grand, md>>
           /\ \/ UNCHANGED <<day, order, groups, pc, i>>
              \/ /\ pc \in Before \ {"format", "sum"} /\ pc' \in Before \ {"sum"}
                 /\ pc' \in Grouped => pc' \in {"git", "format"}
                 /\ pc' = "format" => i' = 1
              \/ /\ pc \in {"collapse", "deal", "strip"} \cup After
                 /\ pc' \in {"collapse", "deal", "strip"} \cup After
                 /\ UNCHANGED day
<1>1. CASE Query
  BY <1>1 DEF Query, SessionsForDay, AddFinished, AddOpen, handlerVars, reportVars,
              Before, Grouped, After
<1>2. CASE HandleReport
  <2>1. CASE ReportNext /\ UNCHANGED md
    <3>1. CASE Fill \/ AddTotal \/ Mark
      BY <2>1, <3>1 DEF Fill, AddTotal, Mark, Turn, Before, Grouped, After
    <3>2. CASE AttachMerged \/ AttachOwn
      BY <2>1, <3>2 DEF AttachMerged, AttachOwn, Turn, Before, Grouped, After
    <3> QED BY <2>1, <3>1, <3>2 DEF ReportNext
  <2>2. CASE attachGitCommits /\ UNCHANGED <<reportVars, md>>
    <3>1. pc = "git" /\ Turn(Len(day), "git", "format") /\ UNCHANGED <<grand, md>>
      BY <2>2 DEF attachGitCommits, AttachOther, AttachCommits, NextSession, reportVars
    <3> QED BY <3>1 DEF Turn, Before, Grouped, After
  <2> QED BY <1>2, <2>1, <2>2 DEF HandleReport
<1>3. CASE RenderTimeline
  BY <1>3 DEF RenderTimeline, handlerVars, reportVars, TimelineNext,
              Collapse, Single, Collapsed, Deal, Dealt, Place, Placed, Emit, After
<1>4. CASE RenderFocus
  BY <1>4 DEF RenderFocus, handlerVars, reportVars, FocusNext,
              AddProductive, AddDistraction, AddNeutral, Added, After
<1>5. CASE UNCHANGED vars
  BY <1>5 DEF vars, requestVars, handlerVars, reportVars, groupVars
<1> QED BY <1>1, <1>2, <1>3, <1>4, <1>5 DEF Next, Terminated

\* The grand total of the report and that of the markdown
\* (reportwindow.go:119-121; formatter.go:32-54).
LEMMA GrandStep ==
    ASSUME FocusInv, DayInv, GroupInv, GrandInv, [Next]_vars
    PROVE  GrandInv'
<1>1. CASE Format
  <2>1. /\ pc = "format" /\ pc' = "sum" /\ i' = i /\ i = 1 /\ grand = 0
        /\ AttachedFirst(Len(day)) /\ pc \in Grouped
    BY <1>1 DEF Format, GrandInv, GroupInv, Grouped, Before
  <2>2. UNCHANGED <<day, reportVars>>
    <3>1. HandleReport
      BY <2>1 DEF Next, Terminated, Query, SessionsForDay, AddFinished, AddOpen,
                  RenderTimeline, TimelineNext, Collapse, Single, Collapsed, Deal,
                  Dealt, Place, Placed, RenderFocus, FocusNext, AddProductive,
                  AddDistraction, AddNeutral, Added, vars, requestVars
    <3>2. ~ ReportNext /\ ~ attachGitCommits
      BY <2>1 DEF ReportNext, Fill, AddTotal, Mark, AttachMerged, AttachOwn,
                  AddGrandTotal, attachGitCommits, AttachOther, AttachCommits
    <3> QED BY <1>1, <3>1, <3>2 DEF HandleReport, Format
  <2>3. UNCHANGED <<day, order, groups, grand>>
    BY <2>2 DEF reportVars, groupVars
  <2>4. md'.grand = SumFunction(GroupTotals) /\ md'.rows = TimelineRows(day)
    BY <1>1 DEF Format, GroupTotals
  <2>5. md'.grand = Whole' /\ ToSet(md'.rows) = Finished'
    <3>1. Whole' = Whole /\ Finished' = Finished
      BY <2>3 DEF Whole, Prefix, Secs, Finished
    <3>2. SumFunction(GroupTotals) = Whole
      BY <2>1 DEF AttachedFirst, Whole
    <3> QED BY <2>4, <3>1, <3>2, RowsFacts
  <2>6. i' \in 1 .. Len(order') /\ grand' = SumFunctionOnSet(GroupTotals', 1 .. i' - 1)
    <3>1. Len(order) \in Nat \ {0}
      BY <2>1, GroupTotalsFacts
    <3>2. i' - 1 = 0 /\ 1 .. 0 = {}
      BY <2>1
    <3>3. SumFunctionOnSet(GroupTotals', {}) = 0
      BY FS_EmptySet, SumZero
    <3>4. SumFunctionOnSet(GroupTotals', 1 .. i' - 1) = 0
      BY <3>2, <3>3
    <3> QED BY <2>1, <2>3, <3>1, <3>4
  <2> QED BY <2>1, <2>5, <2>6 DEF GrandInv, Before, After, Grouped
<1>2. CASE AddGrandTotal
  <2>1. /\ pc = "sum" /\ grand' = grand + groups[order[i]].total
        /\ Turn(Len(order), "sum", "collapse") /\ UNCHANGED <<day, order, groups>>
        /\ i \in 1 .. Len(order)
        /\ grand = SumFunctionOnSet(GroupTotals, 1 .. i - 1)
        /\ md.grand = Whole /\ ToSet(md.rows) = Finished /\ pc \in Grouped
    BY <1>2 DEF AddGrandTotal, GrandInv, groupVars, Grouped
  <2>2. md' = md
    <3>1. HandleReport
      BY <2>1 DEF Next, Terminated, Query, SessionsForDay, AddFinished, AddOpen,
                  RenderTimeline, TimelineNext, Collapse, Single, Collapsed, Deal,
                  Dealt, Place, Placed, RenderFocus, FocusNext, AddProductive,
                  AddDistraction, AddNeutral, Added, vars, requestVars, Turn
    <3> QED BY <2>1, <3>1 DEF HandleReport, Format
  <2>3. /\ DOMAIN GroupTotals = 1 .. Len(order) /\ Len(order) \in Nat \ {0}
        /\ NatOn(GroupTotals, 1 .. Len(order))
        /\ SumFunctionOnSet(GroupTotals, 1 .. Len(order)) = Whole
    BY <2>1, GroupTotalsFacts
  <2>4. PICK n \in Nat : n = i - 1
    BY <2>1, <2>3
  <2>5. i = n + 1 /\ n + 1 \in 1 .. Len(order)
    BY <2>1, <2>3, <2>4
  <2>6. NatOn(GroupTotals, 1 .. n + 1)
    <3>1. \A k \in 1 .. n + 1 : k \in 1 .. Len(order)
      BY <2>5, <2>3
    <3> QED BY <2>3, <3>1 DEF NatOn
  <2>7. GroupTotals[n + 1] = groups[order[i]].total
    <3>1. n + 1 \in DOMAIN order
      BY <2>1, <2>5 DEF GroupInv, AttachedFirst
    <3> QED BY <2>5, <3>1 DEF GroupTotals
  <2>8. grand' = SumFunctionOnSet(GroupTotals, 1 .. n + 1)
    BY <2>1, <2>4, <2>6, <2>7, SumOneMore
  <2>9. GroupTotals' = GroupTotals /\ Whole' = Whole /\ Finished' = Finished
    BY <2>1 DEF GroupTotals, Whole, Prefix, Secs, Finished
  <2>10. CASE i < Len(order)
    <3>1. pc' = "sum" /\ i' = i + 1
      BY <2>1, <2>10 DEF Turn
    <3>2. i' \in 1 .. Len(order')
      <4>1. i \in 1 .. Len(order) /\ order' = order
        BY <2>1
      <4> QED BY <2>3, <2>10, <3>1, <4>1
    <3>3. i' - 1 = n + 1
      BY <2>5, <3>1
    <3> QED BY <2>1, <2>2, <2>8, <2>9, <3>1, <3>2, <3>3
            DEF GrandInv, Before, After, Grouped
  <2>11. CASE ~ (i < Len(order))
    <3>1. pc' = "collapse"
      BY <2>1, <2>11 DEF Turn
    <3>2. n + 1 = Len(order)
      BY <2>3, <2>5, <2>11
    <3>3. grand' = Whole'
      BY <2>3, <2>8, <2>9, <3>2
    <3> QED BY <2>1, <2>2, <2>9, <3>1, <3>3 DEF GrandInv, Before, After, Grouped
  <2> QED BY <2>10, <2>11
<1>3. CASE ~ Format /\ ~ AddGrandTotal
  <2>1. /\ UNCHANGED <<grand, md>>
        /\ \/ UNCHANGED <<day, order, groups, pc, i>>
           \/ /\ pc \in Before \ {"format", "sum"} /\ pc' \in Before \ {"sum"}
              /\ pc' \in Grouped => pc' \in {"git", "format"}
              /\ pc' = "format" => i' = 1
           \/ /\ pc \in {"collapse", "deal", "strip"} \cup After
              /\ pc' \in {"collapse", "deal", "strip"} \cup After
              /\ UNCHANGED day
    BY <1>3, GrandAside
  <2>2. day' = day => Whole' = Whole /\ Finished' = Finished
    BY DEF Whole, Prefix, Secs, Finished
  <2>3. CASE UNCHANGED <<day, order, groups, pc, i>>
    <3>1. GroupTotals' = GroupTotals
      BY <2>3 DEF GroupTotals
    <3> QED BY <2>1, <2>2, <2>3, <3>1 DEF GrandInv
  <2>4. CASE /\ pc \in Before \ {"format", "sum"} /\ pc' \in Before \ {"sum"}
             /\ pc' \in Grouped => pc' \in {"git", "format"}
             /\ pc' = "format" => i' = 1
    BY <2>1, <2>4 DEF GrandInv, Before, After, Grouped
  <2>5. CASE /\ pc \in {"collapse", "deal", "strip"} \cup After
             /\ pc' \in {"collapse", "deal", "strip"} \cup After
             /\ UNCHANGED day
    BY <2>1, <2>2, <2>5 DEF GrandInv, Before, After, Grouped
  <2> QED BY <2>1, <2>3, <2>4, <2>5
<1> QED BY <1>1, <1>2, <1>3

-----------------------------------------------------------------------------
\* An item's time is the difference of two prefixes of the day, and with the
\* items after it that of the rest.
LEMMA ItemFacts ==
    ASSUME FocusInv, ItemsInv, NEW k \in DOMAIN items
    PROVE  /\ items[k].from \in 1 .. items[k].to /\ items[k].to \in 1 .. Len(day)
           /\ Count(items[k]) \in Nat /\ ItemSecs(items[k]) \in Nat
           /\ SumFunctionOnSet(Secs, items[k].from .. Len(day))
                = ItemSecs(items[k]) + SumFunctionOnSet(Secs, items[k].to + 1 .. Len(day))
           /\ SumFunctionOnSet(Secs, items[k].to + 1 .. Len(day)) \in Nat
<1>1. items[k] \in Item /\ items[k].from <= items[k].to /\ items[k].to <= Len(day)
  BY ElementOf DEF ItemsInv
<1>2. PICK f \in Nat \ {0}, t \in Nat : f = items[k].from /\ t = items[k].to
  BY <1>1 DEF Item
<1>3. PICK L \in Nat : L = Len(day)
  BY DEF FocusInv
<1>4. f <= t /\ t <= L
  BY <1>1, <1>2, <1>3
<1> DEFINE A == f .. t
           B == t + 1 .. L
<1>5. A \cup B = f .. L /\ A \cap B = {} /\ IsFiniteSet(A) /\ IsFiniteSet(B)
  BY <1>4, FS_Interval
<1>6. NatOn(Secs, A \cup B) /\ NatOn(Secs, A) /\ NatOn(Secs, B)
  <2>1. \A x \in A \cup B : x \in DOMAIN day
    BY <1>3, <1>4, SecsFacts
  <2> HIDE DEF A, B
  <2> QED BY <2>1, SecsFacts DEF NatOn
<1>7. /\ SumFunctionOnSet(Secs, A) \in Nat /\ SumFunctionOnSet(Secs, B) \in Nat
      /\ SumFunctionOnSet(Secs, A \cup B)
            = SumFunctionOnSet(Secs, A) + SumFunctionOnSet(Secs, B)
  <2> HIDE DEF A, B
  <2> QED BY <1>5, <1>6, SumFacts, SumSplit
<1>8. ItemSecs(items[k]) = SumFunctionOnSet(Secs, A)
  BY <1>2 DEF ItemSecs
<1>9. Count(items[k]) \in Nat
  BY <1>2, <1>4 DEF Count
<1>10. SumFunctionOnSet(Secs, f .. L)
            = SumFunctionOnSet(Secs, A) + SumFunctionOnSet(Secs, B)
  BY <1>5, <1>7
<1> QED BY <1>2, <1>3, <1>4, <1>7, <1>8, <1>9, <1>10

\* The sum over the three periods.
LEMMA SumPeriods ==
    ASSUME NEW f, DOMAIN f = Periods, NatOn(f, Periods)
    PROVE  SumFunction(f) = f["Morning"] + f["Afternoon"] + f["Evening"]
<1>1. Periods = {"Morning", "Afternoon", "Evening"}
  BY DEF Periods
<1> DEFINE A == {"Morning"}
           B == {"Morning", "Afternoon"}
<1>2. f["Morning"] \in Nat /\ f["Afternoon"] \in Nat /\ f["Evening"] \in Nat
  BY <1>1 DEF NatOn
<1>3. SumFunctionOnSet(f, {}) = 0
  BY FS_EmptySet, SumFacts DEF NatOn
<1>4. SumFunctionOnSet(f, {} \cup {"Morning"}) = SumFunctionOnSet(f, {}) + f["Morning"]
  BY <1>2, FS_EmptySet, SumMore DEF NatOn
<1>5. SumFunctionOnSet(f, A \cup {"Afternoon"}) = SumFunctionOnSet(f, A) + f["Afternoon"]
  <2>1. IsFiniteSet(A) /\ NatOn(f, A) /\ "Afternoon" \notin A
    BY <1>2, FS_Singleton DEF NatOn
  <2> HIDE DEF A
  <2> QED BY <1>2, <2>1, SumMore
<1>6. SumFunctionOnSet(f, B \cup {"Evening"}) = SumFunctionOnSet(f, B) + f["Evening"]
  <2>1. IsFiniteSet(B)
    <3>1. B = A \cup {"Afternoon"} /\ IsFiniteSet(A)
      BY FS_Singleton
    <3> QED BY <3>1, FS_AddElement
  <2>2. NatOn(f, B) /\ "Evening" \notin B
    BY <1>2 DEF NatOn
  <2> HIDE DEF B
  <2> QED BY <1>2, <2>1, <2>2, SumMore
<1>7. {} \cup {"Morning"} = A /\ A \cup {"Afternoon"} = B /\ B \cup {"Evening"} = Periods
  BY <1>1
<1> HIDE DEF A, B
<1> QED BY <1>2, <1>3, <1>4, <1>5, <1>6, <1>7 DEF SumFunction

\* What a list of items says of them: how many sessions each stands for, and
\* how long it was.
Counts(b) == [n \in DOMAIN b |-> Count(b[n])]
Times(b) == [n \in DOMAIN b |-> ItemSecs(b[n])]

\* A list of items of the day.
Listed(b) == b \in Seq(Item) /\ \A m \in DOMAIN b : \E k \in DOMAIN items : b[m] = items[k]

\* Both are sequences of numbers.
LEMMA ListedFacts ==
    ASSUME FocusInv, ItemsInv, NEW b, Listed(b)
    PROVE  Counts(b) \in Seq(Nat) /\ Times(b) \in Seq(Nat)
<1>1. PICK n \in Nat : DOMAIN b = 1 .. n
  BY DEF Listed
<1>2. ASSUME NEW m \in 1 .. n PROVE Count(b[m]) \in Nat /\ ItemSecs(b[m]) \in Nat
  <2>1. PICK k \in DOMAIN items : b[m] = items[k]
    BY <1>1 DEF Listed
  <2>2. Count(items[k]) \in Nat /\ ItemSecs(items[k]) \in Nat
    BY ItemFacts
  <2> QED BY <2>1, <2>2
<1>3. /\ Counts(b) = [m \in 1 .. n |-> Count(b[m])]
      /\ Times(b) = [m \in 1 .. n |-> ItemSecs(b[m])]
  BY <1>1 DEF Counts, Times
<1>4. [m \in 1 .. n |-> Count(b[m])] \in Seq(Nat)
  BY <1>2
<1>5. [m \in 1 .. n |-> ItemSecs(b[m])] \in Seq(Nat)
  BY <1>2
<1> QED BY <1>3, <1>4, <1>5

\* One item more on a list (timeline.go:235-257).
LEMMA ListOneMore ==
    ASSUME FocusInv, ItemsInv, NEW b, Listed(b), NEW k \in DOMAIN items
    PROVE  LET c == Append(b, items[k]) IN
           /\ Listed(c)
           /\ SumFunction(Counts(c)) = SumFunction(Counts(b)) + Count(items[k])
           /\ SumFunction(Times(c)) = SumFunction(Times(b)) + ItemSecs(items[k])
<1>1. PICK x : x = items[k]
  OBVIOUS
<1>2. x \in Item
  BY <1>1, ElementOf DEF ItemsInv
<1>3. PICK c : c = Append(b, x)
  OBVIOUS
<1>4. PICK n \in Nat : n = Len(b)
  BY DEF Listed
<1>5. /\ c \in Seq(Item) /\ DOMAIN b = 1 .. n /\ DOMAIN c = 1 .. n + 1
      /\ c[n + 1] = x /\ \A m \in 1 .. n : c[m] = b[m]
  BY <1>2, <1>3, <1>4 DEF Listed
<1>6. \A m \in 1 .. n + 1 : m \in 1 .. n \/ m = n + 1
  OBVIOUS
<1>7. Listed(c)
  BY <1>1, <1>5, <1>6 DEF Listed
<1>8. Count(x) \in Nat /\ ItemSecs(x) \in Nat
  BY <1>1, ItemFacts
<1>9. Counts(b) \in Seq(Nat) /\ Times(b) \in Seq(Nat)
  BY ListedFacts
<1>10. Counts(c) = Append(Counts(b), Count(x))
  <2>1. Counts(c) = [m \in 1 .. n + 1 |-> IF m = n + 1 THEN Count(x) ELSE Count(b[m])]
    <3>1. \A m \in 1 .. n + 1 :
            Count(c[m]) = IF m = n + 1 THEN Count(x) ELSE Count(b[m])
      BY <1>5, <1>6
    <3> QED BY <1>5, <3>1 DEF Counts
  <2>2. Counts(b) = [m \in 1 .. n |-> Count(b[m])]
    BY <1>5 DEF Counts
  <2>3. Len(Counts(b)) = n
    BY <2>2
  <2> QED BY <2>1, <2>2, <2>3, <1>8, <1>9
<1>11. Times(c) = Append(Times(b), ItemSecs(x))
  <2>1. Times(c) = [m \in 1 .. n + 1 |-> IF m = n + 1 THEN ItemSecs(x) ELSE ItemSecs(b[m])]
    <3>1. \A m \in 1 .. n + 1 :
            ItemSecs(c[m]) = IF m = n + 1 THEN ItemSecs(x) ELSE ItemSecs(b[m])
      BY <1>5, <1>6
    <3> QED BY <1>5, <3>1 DEF Times
  <2>2. Times(b) = [m \in 1 .. n |-> ItemSecs(b[m])]
    BY <1>5 DEF Times
  <2>3. Len(Times(b)) = n
    BY <2>2
  <2> QED BY <2>1, <2>2, <2>3, <1>8, <1>9
<1> QED BY <1>1, <1>3, <1>7, <1>8, <1>9, <1>10, <1>11, SumAppend

\* Three numbers of which one grows.
LEMMA ThreeMore ==
    ASSUME NEW f, NatOn(f, Periods), NEW g, NEW q \in Periods, NEW d \in Nat,
           g[q] = f[q] + d, \A p \in Periods \ {q} : g[p] = f[p]
    PROVE  g["Morning"] + g["Afternoon"] + g["Evening"]
                = f["Morning"] + f["Afternoon"] + f["Evening"] + d
<1>1. Periods = {"Morning", "Afternoon", "Evening"}
  BY DEF Periods
<1>2. f["Morning"] \in Nat /\ f["Afternoon"] \in Nat /\ f["Evening"] \in Nat
  BY <1>1 DEF NatOn
<1>3. CASE q = "Morning"
  BY <1>1, <1>2, <1>3
<1>4. CASE q = "Afternoon"
  BY <1>1, <1>2, <1>4
<1>5. CASE q = "Evening"
  BY <1>1, <1>2, <1>5
<1> QED BY <1>1, <1>3, <1>4, <1>5

\* What the buckets hold are items of the day.
LEMMA BucketsListed ==
    ASSUME DealInv, NEW n \in 0 .. Len(items), DealtLast(n), ItemsInv
    PROVE  \A p \in Periods : Listed(buckets[p])
<1>1. ASSUME NEW p \in Periods, NEW m \in DOMAIN buckets[p]
      PROVE  \E k \in DOMAIN items : buckets[p][m] = items[k]
  <2>1. buckets[p][m] \in UNION {ToSet(buckets[r]) : r \in Periods}
    BY DEF ToSet
  <2>2. PICK k \in Newest(n) : buckets[p][m] = items[k]
    BY <2>1 DEF DealtLast
  <2>3. k \in DOMAIN items
    BY <2>2 DEF Newest, ItemsInv
  <2> QED BY <2>2, <2>3
<1> QED BY <1>1 DEF Listed, DealInv

\* What the headings of the periods read (timeline.go:235-257).
HeadCounts == [p \in Periods |-> SumFunction(Counts(buckets[p]))]
HeadTimes == [p \in Periods |-> SumFunction(Times(buckets[p]))]

\* The headings are what the lists say.
LEMMA HeadsRead ==
    ASSUME NEW p \in Periods
    PROVE  PeriodGroup(p).count = HeadCounts[p] /\ PeriodGroup(p).total = HeadTimes[p]
BY DEF PeriodGroup, HeadCounts, HeadTimes, Counts, Times

\* The headings of a list of items are numbers.
LEMMA HeadsAreNumbers ==
    ASSUME FocusInv, ItemsInv, \A p \in Periods : Listed(buckets[p])
    PROVE  NatOn(HeadCounts, Periods) /\ NatOn(HeadTimes, Periods)
<1>1. ASSUME NEW p \in Periods PROVE HeadCounts[p] \in Nat /\ HeadTimes[p] \in Nat
  <2>1. Counts(buckets[p]) \in Seq(Nat) /\ Times(buckets[p]) \in Seq(Nat)
    BY ListedFacts
  <2> QED BY <2>1, SumAppend DEF HeadCounts, HeadTimes
<1> QED BY <1>1 DEF NatOn

\* An item is dealt (timeline.go:213-257).
LEMMA DealHeads ==
    ASSUME FocusInv, ItemsInv, DealInv, HeadInv, Deal
    PROVE  HeadInv'
<1>1. /\ pc = "deal" /\ pc' = "deal" /\ i' = i + 1 /\ UNCHANGED <<day, items>>
      /\ i \in 1 .. Len(items) /\ DealtLast(i - 1) /\ DealtSums(i - 1)
      /\ Len(items) \in Nat /\ DOMAIN items = 1 .. Len(items)
  BY DEF Deal, DealInv, ItemsInv, HeadInv
<1>2. PICK L \in Nat, n \in Nat, k \in 1 .. Len(items) :
            L = Len(items) /\ n = i - 1 /\ k = L - n
  <2>1. i \in 1 .. Len(items) /\ Len(items) \in Nat
    BY <1>1
  <2>2. i - 1 \in Nat /\ Len(items) - (i - 1) \in 1 .. Len(items)
    BY <2>1
  <2> QED BY <2>1, <2>2
<1>3. i = n + 1 /\ k = L + 1 - i /\ n < L /\ n \in 0 .. L /\ k \in 1 .. L
  <2>1. i \in 1 .. Len(items)
    BY <1>1
  <2> QED BY <1>2, <2>1
<1>4. PICK q \in Periods :
        buckets' = [buckets EXCEPT ![q] = Append(buckets[q], items[k])]
  BY <1>2, <1>3, PeriodOfIsPeriod DEF Deal
<1>5. /\ \A p \in Periods : Listed(buckets[p])
      /\ NatOn(HeadCounts, Periods) /\ NatOn(HeadTimes, Periods)
  <2>1. DealtLast(n) /\ n \in 0 .. Len(items)
    BY <1>1, <1>2, <1>3
  <2>2. \A p \in Periods : Listed(buckets[p])
    BY <2>1, BucketsListed
  <2> QED BY <2>2, HeadsAreNumbers
<1>6. /\ buckets'[q] = Append(buckets[q], items[k])
      /\ \A p \in Periods \ {q} : buckets'[p] = buckets[p]
  <2>1. DOMAIN buckets = Periods
    BY DEF DealInv
  <2> QED BY <1>4, <2>1
<1>7. PICK C : C = [p \in Periods |-> SumFunction(Counts(buckets'[p]))]
  OBVIOUS
<1>8. PICK D : D = [p \in Periods |-> SumFunction(Times(buckets'[p]))]
  OBVIOUS
<1>9. HeadCounts' = C /\ HeadTimes' = D
  BY <1>1, <1>7, <1>8 DEF HeadCounts, HeadTimes, Counts, Times, Count, ItemSecs, Secs
<1>10. k \in DOMAIN items
  BY <1>1
<1>11. /\ C[q] = HeadCounts[q] + Count(items[k]) /\ D[q] = HeadTimes[q] + ItemSecs(items[k])
       /\ \A p \in Periods \ {q} : C[p] = HeadCounts[p] /\ D[p] = HeadTimes[p]
  <2>1. /\ SumFunction(Counts(Append(buckets[q], items[k])))
                = SumFunction(Counts(buckets[q])) + Count(items[k])
        /\ SumFunction(Times(Append(buckets[q], items[k])))
                = SumFunction(Times(buckets[q])) + ItemSecs(items[k])
    BY <1>5, <1>10, ListOneMore
  <2> QED BY <2>1, <1>6, <1>7, <1>8 DEF HeadCounts, HeadTimes
<1>12. /\ Count(items[k]) \in Nat /\ ItemSecs(items[k]) \in Nat
       /\ items[k].from \in 1 .. items[k].to /\ items[k].to \in 1 .. Len(day)
       /\ SumFunctionOnSet(Secs, items[k].from .. Len(day))
            = ItemSecs(items[k]) + SumFunctionOnSet(Secs, items[k].to + 1 .. Len(day))
       /\ SumFunctionOnSet(Secs, items[k].to + 1 .. Len(day)) \in Nat
  BY <1>10, ItemFacts
<1>13. FirstDealt(n) = items[k].to + 1 /\ FirstDealt(n + 1) = items[k].from
  <2>1. FirstDealt(n + 1) = items[k].from
    <3>1. L + 1 - (n + 1) = k /\ n + 1 # 0
      BY <1>2
    <3> QED BY <1>2, <3>1 DEF FirstDealt
  <2>2. CASE n = 0
    <3>1. k = Len(items)
      BY <1>2, <2>2
    <3> QED BY <1>1, <2>1, <2>2, <3>1 DEF FirstDealt, ItemsInv
  <2>3. CASE n # 0
    <3>1. L + 1 - n = k + 1 /\ k + 1 \in 1 .. L /\ (k + 1) - 1 = k /\ k + 1 # 1
      BY <1>2, <1>3, <2>3
    <3>2. items[k + 1].from = items[k].to + 1
      BY <1>1, <1>2, <3>1 DEF ItemsInv
    <3> QED BY <1>2, <2>1, <2>3, <3>1, <3>2 DEF FirstDealt
  <2> QED BY <2>2, <2>3
<1>14. /\ HeadTimes["Morning"] + HeadTimes["Afternoon"] + HeadTimes["Evening"]
            = SumFunctionOnSet(Secs, items[k].to + 1 .. Len(day))
       /\ HeadCounts["Morning"] + HeadCounts["Afternoon"] + HeadCounts["Evening"]
            = Len(day) + 1 - (items[k].to + 1)
  <2>1. DealtSums(n)
    BY <1>1, <1>2
  <2>2. {"Morning", "Afternoon", "Evening"} = Periods
    BY DEF Periods
  <2> QED BY <2>1, <2>2, <1>13, HeadsRead DEF DealtSums
<1>15. /\ D["Morning"] + D["Afternoon"] + D["Evening"]
            = SumFunctionOnSet(Secs, items[k].from .. Len(day))
       /\ C["Morning"] + C["Afternoon"] + C["Evening"]
            = Len(day) + 1 - items[k].from
  <2>1. D["Morning"] + D["Afternoon"] + D["Evening"]
            = HeadTimes["Morning"] + HeadTimes["Afternoon"] + HeadTimes["Evening"]
                + ItemSecs(items[k])
    BY <1>5, <1>11, <1>12, ThreeMore
  <2>2. C["Morning"] + C["Afternoon"] + C["Evening"]
            = HeadCounts["Morning"] + HeadCounts["Afternoon"] + HeadCounts["Evening"]
                + Count(items[k])
    BY <1>5, <1>11, <1>12, ThreeMore
  <2>3. Len(day) \in Nat
    BY DEF FocusInv
  <2>4. D["Morning"] + D["Afternoon"] + D["Evening"]
            = SumFunctionOnSet(Secs, items[k].from .. Len(day))
    BY <2>1, <1>12, <1>14
  <2>5. C["Morning"] + C["Afternoon"] + C["Evening"]
            = Len(day) + 1 - (items[k].to + 1) + Count(items[k])
    BY <2>2, <1>14
  <2>6. Len(day) + 1 - (items[k].to + 1) + Count(items[k]) = Len(day) + 1 - items[k].from
    <3>1. PICK a \in Nat, b \in Nat : a = items[k].from /\ b = items[k].to
      BY <1>12, <2>3
    <3>2. Count(items[k]) = b - a + 1
      BY <3>1 DEF Count
    <3>3. PICK length \in Nat : length = Len(day)
      BY <2>3
    <3>4. length + 1 - (b + 1) + (b - a + 1) = length + 1 - a
      OBVIOUS
    <3>5. length + 1 - (items[k].to + 1) + Count(items[k]) = length + 1 - items[k].from
      BY <3>1, <3>2, <3>4, Zenon
    <3> QED BY <3>3, <3>5, Zenon
  <2> QED BY <2>4, <2>5, <2>6
<1>16. DealtSums(n + 1)'
  <2>1. FirstDealt(n + 1)' = items[k].from
    BY <1>1, <1>13 DEF FirstDealt
  <2>2. {"Morning", "Afternoon", "Evening"} = Periods
    BY DEF Periods
  <2>3. \A p \in Periods : PeriodGroup(p).count' = C[p] /\ PeriodGroup(p).total' = D[p]
    <3>1. \A p \in Periods : /\ PeriodGroup(p).count' = HeadCounts'[p]
                             /\ PeriodGroup(p).total' = HeadTimes'[p]
      BY DEF PeriodGroup, HeadCounts, HeadTimes, Counts, Times
    <3> QED BY <3>1, <1>9
  <2>4. Secs' = Secs
    BY <1>1 DEF Secs
  <2> QED BY <2>1, <2>2, <2>3, <2>4, <1>1, <1>15 DEF DealtSums
<1>17. DealtSums(i - 1)'
  <2>1. (i - 1)' = n + 1
    BY <1>1, <1>3
  <2> QED BY <1>16, <2>1 DEF DealtSums, FirstDealt
<1> QED BY <1>1, <1>17 DEF HeadInv, After

\* Nothing else touches the headings.
LEMMA HeadStep ==
    ASSUME FocusInv, DayInv, ItemsInv, DealInv, HeadInv, [Next]_vars
    PROVE  HeadInv'
<1>1. CASE Query \/ HandleReport \/ Collapse \/ Single
  <2>1. pc' \in Before \cup {"collapse"}
    <3>1. CASE Query
      BY <3>1 DEF Query, SessionsForDay, AddFinished, AddOpen, Before
    <3>2. CASE Collapse \/ Single
      BY <3>2 DEF Collapse, Single, Emit
    <3> QED BY <1>1, <3>1, <3>2, HandlerAside
  <2> QED BY <2>1 DEF HeadInv, Before, After
<1>2. CASE Collapsed
  <2>1. /\ pc = "collapse" /\ pc' = "deal" /\ i' = 1 /\ UNCHANGED <<day, buckets>>
        /\ Len(day) \in Nat
    BY <1>2 DEF Collapsed, FocusInv
  <2>2. /\ (i - 1)' = 0 /\ FirstDealt(0)' = Len(day) + 1
    BY <2>1 DEF FirstDealt
  <2>3. \A p \in Periods : buckets[p] = <<>>
    BY <2>1 DEF DealInv
  <2>4. ASSUME NEW p \in Periods
        PROVE  PeriodGroup(p).count' = 0 /\ PeriodGroup(p).total' = 0
    <3>1. buckets'[p] = <<>> /\ DOMAIN buckets'[p] = {}
      BY <2>1, <2>3
    <3>2. PICK f : f = [n \in DOMAIN buckets'[p] |-> Count(buckets'[p][n])]
      OBVIOUS
    <3>3. PICK g : g = [n \in DOMAIN buckets'[p] |->
                        SumFunctionOnSet(Secs', buckets'[p][n].from .. buckets'[p][n].to)]
      OBVIOUS
    <3>4. DOMAIN f = {} /\ DOMAIN g = {}
      BY <3>1, <3>2, <3>3
    <3>5. SumFunction(f) = 0 /\ SumFunction(g) = 0
      BY <3>4, FS_EmptySet, SumZero DEF SumFunction
    <3> QED BY <3>2, <3>3, <3>5 DEF PeriodGroup, ItemSecs, Count
  <2>5. (Len(day) + 1) .. Len(day) = {}
    BY <2>1
  <2>6. SumFunctionOnSet(Secs', {}) = 0
    BY FS_EmptySet, SumZero
  <2>7. {"Morning", "Afternoon", "Evening"} = Periods
    BY DEF Periods
  <2>8. DealtSums(0)'
    <3>1. /\ (PeriodGroup("Morning").total + PeriodGroup("Afternoon").total
                + PeriodGroup("Evening").total)' = 0
          /\ (PeriodGroup("Morning").count + PeriodGroup("Afternoon").count
                + PeriodGroup("Evening").count)' = 0
      BY <2>4, <2>7
    <3>2. SumFunctionOnSet(Secs, FirstDealt(0) .. Len(day))' = 0
      BY <2>1, <2>2, <2>5, <2>6
    <3>3. (Len(day) + 1 - FirstDealt(0))' = 0
      BY <2>1, <2>2
    <3> QED BY <3>1, <3>2, <3>3 DEF DealtSums
  <2>9. DealtSums(i - 1)'
    BY <2>8, <2>2 DEF DealtSums, FirstDealt
  <2> QED BY <2>1, <2>9 DEF HeadInv, After
<1>3. CASE Deal
  BY <1>3, DealHeads
<1>4. CASE Dealt \/ Place \/ Placed \/ RenderFocus \/ UNCHANGED vars
  <2>1. /\ UNCHANGED <<day, items, buckets>>
        /\ \/ pc \in {"strip"} \cup After /\ pc' \in {"strip"} \cup After
           \/ pc = "deal" /\ pc' = "strip" /\ i > Len(items)
           \/ UNCHANGED <<pc, i>>
    <3>1. CASE Dealt \/ Place \/ Placed
      BY <3>1 DEF Dealt, Place, Placed, After
    <3>2. CASE RenderFocus
      BY <3>2, FocusAside
    <3>3. CASE UNCHANGED vars
      BY <3>3 DEF vars, requestVars, timelineVars
    <3> QED BY <1>4, <3>1, <3>2, <3>3
  <2>2. Secs' = Secs /\ \A p : PeriodGroup(p)' = PeriodGroup(p)
    BY <2>1 DEF Secs, PeriodGroup, ItemSecs
  <2>3. ASSUME NEW n, DealtSums(n) PROVE DealtSums(n)'
    <3>1. FirstDealt(n)' = FirstDealt(n)
      BY <2>1 DEF FirstDealt
    <3>2. /\ PeriodGroup("Morning")' = PeriodGroup("Morning")
          /\ PeriodGroup("Afternoon")' = PeriodGroup("Afternoon")
          /\ PeriodGroup("Evening")' = PeriodGroup("Evening")
      BY <2>2
    <3> QED BY <2>1, <2>2, <2>3, <3>1, <3>2 DEF DealtSums
  <2>4. PICK m : m = Len(items)
    OBVIOUS
  <2>5. DealtSums(Len(items)) => DealtSums(Len(items))'
    <3>1. DealtSums(m) => DealtSums(m)'
      BY <2>3
    <3> QED BY <2>1, <2>4, <3>1 DEF DealtSums, FirstDealt
  <2>6. CASE pc \in {"strip"} \cup After /\ pc' \in {"strip"} \cup After
    BY <2>5, <2>6 DEF HeadInv, After
  <2>7. CASE pc = "deal" /\ pc' = "strip" /\ i > Len(items)
    <3>1. i - 1 = Len(items)
      <4>1. i \in 1 .. Len(items) + 1 /\ Len(items) \in Nat
        BY <2>7 DEF DealInv, ItemsInv
      <4> QED BY <2>7, <4>1
    <3>2. DealtSums(Len(items))
      BY <2>7, <3>1 DEF HeadInv
    <3> QED BY <2>5, <2>7, <3>2 DEF HeadInv, After
  <2>8. CASE UNCHANGED <<pc, i>>
    <3>1. PICK x : x = i - 1
      OBVIOUS
    <3>2. DealtSums(x) => DealtSums(x)'
      BY <2>3
    <3>3. DealtSums(i - 1) => DealtSums(i - 1)'
      BY <2>8, <3>1, <3>2 DEF DealtSums, FirstDealt
    <3> QED BY <2>5, <2>8, <3>3 DEF HeadInv
  <2> QED BY <2>1, <2>6, <2>7, <2>8
<1> QED
  BY <1>1, <1>2, <1>3, <1>4 DEF Next, Terminated, RenderTimeline, TimelineNext

\* The focus card's sum (focus.go:41-59).
LEMMA CardStep ==
    ASSUME FocusInv, DayInv, CardInv, [Next]_vars
    PROVE  CardInv'
<1>1. CASE Query \/ HandleReport
  <2>1. pc' \in Before \cup {"collapse"} /\ UNCHANGED focusVars /\ pc \in Before
    <3>1. CASE Query
      BY <3>1 DEF Query, SessionsForDay, AddFinished, AddOpen, Before
    <3>2. CASE HandleReport
      BY <3>2, HandlerAside DEF HandleReport
    <3> QED BY <1>1, <3>1, <3>2
  <2> QED BY <2>1 DEF CardInv, Before, After, FocusTotal, focusVars
<1>2. CASE RenderTimeline
  <2>1. /\ UNCHANGED focusVars /\ day' = day
        /\ pc \in {"collapse", "deal", "strip"}
        /\ pc' \in {"collapse", "deal", "strip"} \/ (pc' = "add" /\ i' = 1)
    BY <1>2 DEF RenderTimeline, TimelineNext, Collapse, Single, Collapsed, Deal,
                Dealt, Place, Placed, Emit
  <2>2. FocusTotal = 0 /\ FocusTotal' = 0
    BY <2>1 DEF CardInv, After, FocusTotal, focusVars
  <2>3. CASE pc' = "add"
    <3>1. i' \in 1 .. Len(day') + 1
      <4>1. Len(day) \in Nat /\ i' = 1
        BY <2>1, <2>3 DEF FocusInv
      <4> QED BY <2>1, <4>1
    <3>2. Prefix(i - 1)' = 0
      <4>1. (i - 1)' = 0 /\ Prefix(0)' = Prefix(0) /\ Prefix(0) = 0
        BY <2>1, <2>3, SecsFacts DEF Prefix, Secs
      <4> QED BY <4>1 DEF Prefix
    <3> QED BY <2>2, <2>3, <3>1, <3>2 DEF CardInv, After
  <2>4. CASE pc' # "add"
    BY <2>1, <2>2, <2>4 DEF CardInv, After
  <2> QED BY <2>3, <2>4
<1>3. CASE AddProductive \/ AddDistraction \/ AddNeutral
  <2>1. /\ pc = "add" /\ pc' = "add" /\ i' = i + 1 /\ day' = day /\ i <= Len(day)
    BY <1>3 DEF AddProductive, AddDistraction, AddNeutral
  <2>2. /\ i \in 1 .. Len(day) + 1 /\ FocusTotal = Prefix(i - 1)
        /\ Len(day) \in Nat /\ DOMAIN day = 1 .. Len(day)
    BY <2>1 DEF CardInv, FocusInv
  <2>3. PICK n \in Nat : i = n + 1 /\ n + 1 <= Len(day) /\ i - 1 = n
    <3>1. i - 1 \in Nat /\ i = (i - 1) + 1
      BY <2>2
    <3> QED BY <2>1, <3>1
  <2>4. i \in 1 .. Len(day)
    BY <2>1, <2>2
  <2>5. day[i].dur \in Nat
    <3>1. day[i] \in Session
      BY <2>4, ElementOf DEF FocusInv
    <3> QED BY <3>1 DEF Session
  <2>6. FocusTotal' = FocusTotal + day[i].dur
    <3>1. productive \in Nat /\ distraction \in Nat /\ neutral \in Nat
      BY DEF FocusInv
    <3>2. PICK d \in Nat : d = day[i].dur
      BY <2>5
    <3>3. CASE AddProductive
      <4>1. productive' = productive + d /\ UNCHANGED <<distraction, neutral>>
        BY <3>2, <3>3 DEF AddProductive
      <4> QED BY <3>1, <3>2, <4>1 DEF FocusTotal
    <3>4. CASE AddDistraction
      <4>1. distraction' = distraction + d /\ UNCHANGED <<productive, neutral>>
        BY <3>2, <3>4 DEF AddDistraction
      <4> QED BY <3>1, <3>2, <4>1 DEF FocusTotal
    <3>5. CASE AddNeutral
      <4>1. neutral' = neutral + d /\ UNCHANGED <<productive, distraction>>
        BY <3>2, <3>5 DEF AddNeutral
      <4> QED BY <3>1, <3>2, <4>1 DEF FocusTotal
    <3> QED BY <1>3, <3>3, <3>4, <3>5
  <2>7. Prefix(n + 1) = Prefix(n) + day[i].dur
    BY <2>3, SecsFacts
  <2>8. Prefix(i - 1)' = Prefix(n + 1)
    <3>1. (i - 1)' = n + 1
      BY <2>1, <2>3
    <3> QED BY <3>1, <2>1 DEF Prefix, Secs
  <2>9. i' \in 1 .. Len(day') + 1
    BY <2>1, <2>2, <2>4
  <2>10. FocusTotal' = Prefix(i - 1)'
    BY <2>2, <2>3, <2>6, <2>7, <2>8
  <2> QED BY <2>1, <2>9, <2>10 DEF CardInv, After
<1>4. CASE Added
  <2>1. /\ pc = "add" /\ pc' = "done" /\ day' = day /\ i > Len(day)
        /\ UNCHANGED focusVars
    BY <1>4 DEF Added
  <2>2. i \in 1 .. Len(day) + 1 /\ Len(day) \in Nat /\ FocusTotal = Prefix(i - 1)
    BY <2>1 DEF CardInv, FocusInv
  <2>3. i - 1 = Len(day)
    BY <2>1, <2>2
  <2>4. FocusTotal' = Whole'
    BY <2>1, <2>2, <2>3 DEF Whole, Prefix, Secs, FocusTotal, focusVars
  <2> QED BY <2>1, <2>4 DEF CardInv, After
<1>5. CASE UNCHANGED vars
  BY <1>5 DEF vars, requestVars, focusVars, CardInv, FocusTotal, Prefix, Whole, Secs
<1> QED
  BY <1>1, <1>2, <1>3, <1>4, <1>5 DEF Next, Terminated, RenderFocus, FocusNext

\* Every sum of the page is kept right by every step (generator.go:84-88;
\* reportwindow.go:119-121; formatter.go:32-54; timeline.go:235-257;
\* focus.go:41-59).
THEOREM SumInvariance == Spec => []SumInv
<1>1. Init => SumInv
  <2> SUFFICES ASSUME Init PROVE SumInv
    OBVIOUS
  <2>1. /\ pc = "rows" /\ day = <<>> /\ totals = <<>> /\ grand = 0
        /\ productive = 0 /\ distraction = 0 /\ neutral = 0
    BY DEF Init, DayInit, ReportInit, FocusInit
  <2>2. OpenInv /\ TotalsInv /\ HeadInv
    BY <2>1 DEF OpenInv, TotalsInv, HeadInv, Grouped, After
  <2>3. GrandInv /\ CardInv
    BY <2>1 DEF GrandInv, CardInv, Grouped, After, Before, FocusTotal
  <2> QED BY <2>2, <2>3 DEF SumInv
<1>2. FocusInv /\ TimelineInv /\ GroupInv /\ SumInv /\ [Next]_vars => SumInv'
  BY OpenStep, TotalsStep, GrandStep, HeadStep, CardStep DEF SumInv, TimelineInv
<1> QED
  BY <1>1, <1>2, FocusInvariance, TimelineInvariance, GroupInvariance, PTL DEF Spec

\* On every day, whatever the sessions, the thresholds and the parts of the
\* day are, everything the page adds up comes to the same time
\* (generator.go:84-88; reportwindow.go:119-121; timeline.go:235-257;
\* focus.go:41-59; formatter.go:32-54, 127-139).
THEOREM EveryTotalAgrees == Spec => []TotalsAgree
<1>1. TimelineInv /\ GroupInv /\ SumInv => TotalsAgree
  <2> SUFFICES ASSUME TimelineInv, GroupInv, SumInv, pc = "done" PROVE TotalsAgree
    BY DEF TotalsAgree
  <2>1. FocusInv /\ DayInv /\ ItemsInv /\ DealInv
    BY DEF TimelineInv
  <2>2. /\ DOMAIN Secs = DOMAIN day /\ DOMAIN day = 1 .. Len(day) /\ Len(day) \in Nat
        /\ NatOn(Secs, DOMAIN day)
    BY <2>1, SecsFacts
  <2>3. SumFunction(Secs) = Whole
    BY <2>2 DEF SumFunction, Whole, Prefix
  <2>4. grand = Whole /\ md.grand = Whole /\ ToSet(md.rows) = Finished
    BY DEF SumInv, GrandInv, Grouped, After
  <2>5. SumFunction(totals) = Whole
    BY DEF SumInv, TotalsInv, TotalledFirst, Grouped, After, Whole
  <2>6. FocusTotal = Whole
    BY DEF SumInv, CardInv
  <2>7. SumFunctionOnSet(Secs, Finished) = Whole
    <3> DEFINE O == (1 .. Len(day)) \ Finished
    <3>1. Finished \subseteq 1 .. Len(day) /\ IsFiniteSet(1 .. Len(day))
      BY <2>2, FS_Interval DEF Finished
    <3>2. IsFiniteSet(Finished) /\ IsFiniteSet(O)
      BY <3>1, FS_Subset
    <3>3. Finished \cap O = {} /\ Finished \cup O = 1 .. Len(day)
      BY <3>1
    <3>4. \A k \in O : Secs[k] = 0
      BY <2>2 DEF Finished, SumInv, OpenInv, Secs
    <3> HIDE DEF O
    <3>5. SumFunctionOnSet(Secs, O) = 0
      BY <3>2, <3>4, SumZero
    <3>6. NatOn(Secs, Finished \cup O) /\ NatOn(Secs, Finished)
      BY <2>2, <3>1, <3>3 DEF NatOn
    <3>7. SumFunctionOnSet(Secs, Finished \cup O)
            = SumFunctionOnSet(Secs, Finished) + SumFunctionOnSet(Secs, O)
      BY <3>2, <3>3, <3>6, SumSplit
    <3>8. SumFunctionOnSet(Secs, Finished) \in Nat
      BY <3>2, <3>6, SumFacts
    <3>9. Whole = SumFunctionOnSet(Secs, Finished \cup O)
      BY <3>3, Zenon DEF Whole, Prefix
    <3> QED BY <3>5, <3>7, <3>8, <3>9
  <2>8. PICK L \in Nat : L = Len(items) /\ L # 0 /\ DOMAIN items = 1 .. L
    BY <2>1 DEF ItemsInv, After
  <2>9. DealtSums(L) /\ DealtLast(L)
    BY <2>1, <2>8 DEF SumInv, HeadInv, DealInv, After
  <2>10. FirstDealt(L) = 1
    <3>1. L + 1 - L = 1 /\ 1 \in DOMAIN items
      BY <2>8
    <3> QED BY <2>1, <2>8, <3>1 DEF FirstDealt, ItemsInv
  <2> DEFINE T == [p \in Periods |-> PeriodGroup(p).total]
             C == [p \in Periods |-> PeriodGroup(p).count]
  <2>11. NatOn(T, Periods) /\ NatOn(C, Periods)
    <3>1. \A p \in Periods : Listed(buckets[p])
      <4>1. L \in 0 .. Len(items)
        BY <2>8
      <4> QED BY <2>1, <2>9, <4>1, BucketsListed
    <3>2. NatOn(HeadCounts, Periods) /\ NatOn(HeadTimes, Periods)
      BY <2>1, <3>1, HeadsAreNumbers
    <3> QED BY <3>2, HeadsRead DEF NatOn
  <2>12. {"Morning", "Afternoon", "Evening"} = Periods
    BY DEF Periods
  <2>13. /\ T["Morning"] + T["Afternoon"] + T["Evening"] = Whole
         /\ C["Morning"] + C["Afternoon"] + C["Evening"] = Len(day)
    <3>1. /\ T["Morning"] + T["Afternoon"] + T["Evening"]
                = SumFunctionOnSet(Secs, 1 .. Len(day))
          /\ C["Morning"] + C["Afternoon"] + C["Evening"] = Len(day) + 1 - 1
      BY <2>9, <2>10, <2>12 DEF DealtSums
    <3>2. Len(day) + 1 - 1 = Len(day)
      BY <2>2
    <3> HIDE DEF T, C
    <3> QED BY <3>1, <3>2 DEF Whole, Prefix
  <2>14. SumFunction(T) = Whole /\ SumFunction(C) = Len(day)
    <3>1. DOMAIN T = Periods /\ DOMAIN C = Periods
      OBVIOUS
    <3> HIDE DEF T, C
    <3> QED BY <2>11, <2>13, <3>1, SumPeriods
  <2> QED
    BY <2>3, <2>4, <2>5, <2>6, <2>7, <2>14 DEF TotalsAgree
<1> QED BY <1>1, TimelineInvariance, GroupInvariance, SumInvariance, PTL

=============================================================================
