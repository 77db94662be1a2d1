-------------------------- MODULE ChangedFilesProofs --------------------------
(***************************************************************************)
(* What a report lists under a session was saved during that session, and  *)
(* nothing that was is forgotten, each up to the second that the stored    *)
(* times leave out: for every tree, cap, number of sessions and number of  *)
(* units in a second.                                                      *)
(***************************************************************************)
EXTENDS ChangedFiles, Lemmas

\* A modification time that a window of the day could match is a save the
\* user made: no save is dated in the future, and none lies before time 1.
Traced(f, t) == t = 0 \/ (t \in 1 .. now /\ <<f, t>> \in edits)

\* What is stored is less than a second older than what happened.
Stored(s) ==
    /\ s.start \in 1 .. now /\ s.began \in Nat
    /\ s.start <= s.began /\ s.began < s.start + Second
    /\ s.end # NULL => /\ s.end \in Nat /\ s.ended \in Nat
                       /\ s.end <= s.ended /\ s.ended < s.end + Second

Stamps == [start : Nat, end : Nat \cup {NULL}, began : Nat, ended : Nat \cup {NULL}]

ListedInv ==
    /\ now \in Nat \ {0} /\ i \in Nat \ {0}
    /\ second \in 1 .. now /\ now < second + Second
    /\ mtime \in [Files -> Nat]
    /\ \A f \in Files : Traced(f, mtime[f])
    /\ sessions \in Seq(Stamps)
    /\ \A k \in DOMAIN sessions : Stored(sessions[k])
    /\ \A m \in mods : m.file \in Files /\ m.at \in Nat /\ Traced(m.file, m.at)
    /\ pc \in {"work", "walk", "filter", "done"}
    /\ pc # "done" => listed = <<>>
    /\ DOMAIN listed \subseteq DOMAIN sessions
    /\ ListedWereSaved

\* What happens now is stored as the second that has begun.
LEMMA NowIsStored ==
    ASSUME ListedInv
    PROVE  /\ Stored([start |-> second, end |-> NULL, began |-> now, ended |-> NULL])
           /\ [start |-> second, end |-> NULL, began |-> now, ended |-> NULL] \in Stamps
           /\ \A s \in Stamps : Stored(s) =>
                /\ Stored([s EXCEPT !.end = second, !.ended = now])
                /\ [s EXCEPT !.end = second, !.ended = now] \in Stamps
<1>1. second \in Nat /\ now \in Nat /\ second \in 1 .. now /\ now < second + Second
  BY DEF ListedInv
<1>2. ASSUME NEW s \in Stamps, Stored(s)
      PROVE  /\ Stored([s EXCEPT !.end = second, !.ended = now])
             /\ [s EXCEPT !.end = second, !.ended = now] \in Stamps
  <2>1. [s EXCEPT !.end = second, !.ended = now] \in Stamps
    BY <1>1, <1>2 DEF Stamps
  <2>2. PICK e \in Stamps : e = [s EXCEPT !.end = second, !.ended = now]
    BY <2>1
  <2>3. e.start = s.start /\ e.began = s.began /\ e.end = second /\ e.ended = now
    BY <1>2, <2>2 DEF Stamps
  <2>4. Stored(e)
    BY <1>1, <1>2, <2>3 DEF Stored
  <2> QED BY <2>1, <2>2, <2>4
<1>3. [start |-> second, end |-> NULL, began |-> now, ended |-> NULL] \in Stamps
  BY <1>1 DEF Stamps
<1>4. Stored([start |-> second, end |-> NULL, began |-> now, ended |-> NULL])
  BY <1>1 DEF Stored, NULL
<1> QED BY <1>2, <1>3, <1>4

\* Every step preserves the invariant (generator.go:152-199).
THEOREM ListedInvariance == Spec => []ListedInv
<1>1. Init => ListedInv
  BY ChangedFilesAssumption DEF Init, ListedInv, Traced, ListedWereSaved
<1>2. ListedInv /\ [Next]_vars => ListedInv'
  <2> SUFFICES ASSUME ListedInv, [Next]_vars PROVE ListedInv'
    OBVIOUS
  <2>1. CASE Time
    <3>1. /\ now' = now + 1
          /\ second' = IF now' = second + Second THEN now' ELSE second
          /\ UNCHANGED <<mtime, edits, touched, sessions, pc, i, span, mods, listed>>
      BY <2>1 DEF Time
    <3>2. /\ now \in Nat \ {0} /\ second \in 1 .. now /\ now < second + Second
          /\ Second \in Nat \ {0}
      BY ChangedFilesAssumption DEF ListedInv
    <3>3. second' \in 1 .. now' /\ now' < second' + Second /\ now' \in Nat \ {0}
      BY <3>1, <3>2
    <3>4. (\A k \in DOMAIN sessions : Stored(sessions[k]))'
      BY <3>1, <3>2 DEF ListedInv, Stored
    <3>5. ListedWereSaved' /\ \A f, t : Traced(f, t) => Traced(f, t)'
      <4>1. 1 .. now \subseteq 1 .. now'
        BY <3>1, <3>2
      <4> QED BY <3>1, <4>1 DEF ListedInv, ListedWereSaved, Traced
    <3> QED BY <3>1, <3>3, <3>4, <3>5 DEF ListedInv
  <2>2. ASSUME NEW f \in Files, Save(f) PROVE ListedInv'
    <3>1. /\ edits \subseteq edits' /\ <<f, now>> \in edits'
          /\ UNCHANGED <<now, second, sessions, pc, i, span, mods, listed>>
          /\ mtime' = [mtime EXCEPT ![f] = now]
      BY <2>2 DEF Save
    <3>2. ASSUME NEW g \in Files PROVE Traced(g, mtime[g])'
      <4>1. mtime'[g] = IF g = f THEN now ELSE mtime[g]
        BY <3>1 DEF ListedInv
      <4>2. now \in 1 .. now /\ Traced(g, mtime[g])
        BY DEF ListedInv
      <4> QED
        BY <3>1, <4>1, <4>2 DEF Traced
    <3>3. \A m \in mods : Traced(m.file, m.at)'
      BY <3>1 DEF ListedInv, Traced
    <3>4. ListedWereSaved'
      BY <3>1 DEF ListedInv, ListedWereSaved
    <3>5. mtime' \in [Files -> Nat]
      BY <3>1 DEF ListedInv
    <3>6. (\A k \in DOMAIN sessions : Stored(sessions[k]))'
      BY <3>1 DEF ListedInv, Stored
    <3> QED
      BY <3>1, <3>2, <3>3, <3>4, <3>5, <3>6 DEF ListedInv
  <2>3. CASE OpenSession
    <3> DEFINE new == [start |-> second, end |-> NULL, began |-> now, ended |-> NULL]
    <3>1. /\ sessions' = Append(sessions, new) /\ pc = "work"
          /\ UNCHANGED <<world, pc, i, span, mods, listed>>
      BY <2>3 DEF OpenSession
    <3>2. new \in Stamps /\ Stored(new)
      BY NowIsStored
    <3> HIDE DEF new
    <3>3. /\ sessions' \in Seq(Stamps)
          /\ \A k \in DOMAIN sessions' :
                \/ k \in DOMAIN sessions /\ sessions'[k] = sessions[k]
                \/ sessions'[k] = new
      BY <3>1, <3>2 DEF ListedInv
    <3>4. (\A k \in DOMAIN sessions : Stored(sessions[k]))'
      <4>1. \A k \in DOMAIN sessions' : Stored(sessions'[k])
        BY <3>2, <3>3 DEF ListedInv
      <4> QED BY <3>1, <4>1 DEF Stored, world
    <3>5. listed' = <<>>
      BY <3>1 DEF ListedInv
    <3> QED
      BY <3>1, <3>3, <3>4, <3>5 DEF ListedInv, world, Traced, ListedWereSaved
  <2>4. CASE CloseSession
    <3>1. /\ pc = "work" /\ UNCHANGED <<world, pc, i, span, mods, listed>>
      BY <2>4 DEF CloseSession
    <3>2. PICK k \in DOMAIN sessions :
                sessions' = [sessions EXCEPT ![k] =
                                [sessions[k] EXCEPT !.end = second, !.ended = now]]
      BY <2>4 DEF CloseSession
    <3>3. PICK e : e = [sessions[k] EXCEPT !.end = second, !.ended = now]
      OBVIOUS
    <3>4. e \in Stamps /\ Stored(e)
      <4>1. k \in 1 .. Len(sessions) /\ Stored(sessions[k])
        BY DEF ListedInv
      <4>2. sessions[k] \in Stamps
        BY <4>1, ElementOf DEF ListedInv
      <4> QED BY <3>3, <4>1, <4>2, NowIsStored
    <3>5. sessions' = [sessions EXCEPT ![k] = e]
      BY <3>2, <3>3
    <3>6. /\ sessions' \in Seq(Stamps)
          /\ \A m \in DOMAIN sessions' :
                \/ m \in DOMAIN sessions /\ sessions'[m] = sessions[m]
                \/ sessions'[m] = e
      BY <3>4, <3>5 DEF ListedInv
    <3>7. (\A m \in DOMAIN sessions : Stored(sessions[m]))'
      <4>1. \A m \in DOMAIN sessions' : Stored(sessions'[m])
        BY <3>4, <3>6 DEF ListedInv
      <4> QED BY <3>1, <4>1 DEF Stored, world
    <3>8. listed' = <<>>
      BY <3>1 DEF ListedInv
    <3> QED
      BY <3>1, <3>6, <3>7, <3>8 DEF ListedInv, world, Traced, ListedWereSaved
  <2>5. CASE AttachChangedFiles
    BY <2>5 DEF AttachChangedFiles, ListedInv, Stored, world, Traced, ListedWereSaved
  <2>6. CASE Visit
    <3>1. Tree[i] \in Files /\ mtime[Tree[i]] \in Nat /\ Traced(Tree[i], mtime[Tree[i]])
      BY <2>6, ChangedFilesAssumption DEF Visit, Files, ListedInv
    <3>2. \A m \in mods' :
            m.file \in Files /\ m.at \in Nat /\ Traced(m.file, m.at)
      BY <2>6, <3>1 DEF Visit, ListedInv
    <3>3. pc' \in {"walk", "filter"} /\ pc = "walk"
      BY <2>6 DEF Visit
    <3> QED
      BY <2>6, <3>2, <3>3 DEF ListedInv, Stored, Visit, world, Traced, ListedWereSaved
  <2>7. CASE Walked
    BY <2>7 DEF Walked, ListedInv, Stored, world, Traced, ListedWereSaved
  <2>8. CASE Filter
    <3>1. /\ DOMAIN listed' \subseteq DOMAIN sessions
          /\ \A k \in DOMAIN listed' :
                /\ sessions[k].end # NULL
                /\ listed'[k] = FilterWindow(sessions[k].start, sessions[k].end)
          /\ UNCHANGED <<world, sessions>>
      BY <2>8 DEF Filter, Windows
    <3>2. ASSUME NEW k \in DOMAIN listed', NEW f \in listed'[k]
          PROVE  \E t \in 1 .. now : /\ <<f, t>> \in edits
                                     /\ sessions[k].began - Second < t
                                     /\ t <= sessions[k].ended
      <4>1. PICK m \in mods : /\ sessions[k].start <= m.at
                              /\ m.at <= sessions[k].end /\ f = m.file
        BY <3>1, <3>2 DEF FilterWindow
      <4>2. Stored(sessions[k]) /\ sessions[k].end # NULL
        BY <3>1 DEF ListedInv
      <4>3. m.at \in 1 .. now /\ <<f, m.at>> \in edits
        BY <4>1, <4>2 DEF Traced, ListedInv, Stored
      <4>4. sessions[k].began - Second < m.at /\ m.at <= sessions[k].ended
        <5>1. Second \in Nat /\ m.at \in Nat
          BY <4>3, ChangedFilesAssumption
        <5> QED BY <4>1, <4>2, <5>1 DEF Stored
      <4> QED
        BY <4>3, <4>4
    <3>3. ListedWereSaved'
      BY <3>1, <3>2 DEF world, ListedWereSaved
    <3> QED
      BY <2>8, <3>1, <3>3 DEF ListedInv, Stored, Filter, world, Traced
  <2>9. CASE UNCHANGED vars
    BY <2>9 DEF vars, ListedInv, Stored, world, Traced, ListedWereSaved
  <2>10. CASE Reported
    BY <2>9, <2>10 DEF Reported
  <2> QED
    BY <2>1, <2>2, <2>3, <2>4, <2>5, <2>6, <2>7, <2>8, <2>9, <2>10 DEF Next
<1> QED
  BY <1>1, <1>2, PTL DEF Spec

\* Every file a report lists under a session was saved during that session or
\* less than a second before it, and none after it, also when saves go on
\* while the tree is walked (changes.go:47-98; sqlite.go:103).
THEOREM NoFalseListing == Spec => []ListedWereSaved
<1>1. ListedInv => ListedWereSaved
  BY DEF ListedInv
<1> QED
  BY <1>1, ListedInvariance, PTL

-----------------------------------------------------------------------------

\* The walk looks at all that a session of the day could list
\* (generator.go:160-178).
LEMMA SpanCovers ==
    ASSUME ListedInv, Windows # {}, \A k \in Windows : sessions[k].end <= now
    PROVE  /\ Span.since \in Nat /\ Span.until \in Nat
           /\ \A k \in Windows : /\ Span.since <= sessions[k].start
                                 /\ sessions[k].end <= Span.until
<1> DEFINE starts == {sessions[k].start : k \in Windows}
           ends == {sessions[k].end : k \in Windows}
<1>1. \A k \in Windows : sessions[k].start \in Nat /\ sessions[k].end \in Nat
  <2> SUFFICES ASSUME NEW k \in Windows
      PROVE  sessions[k].start \in Nat /\ sessions[k].end \in Nat
    OBVIOUS
  <2>1. k \in 1 .. Len(sessions) /\ sessions[k].end # NULL
    BY DEF Windows, ListedInv
  <2>2. sessions[k] \in Stamps
    BY <2>1, ElementOf DEF ListedInv
  <2> QED BY <2>1, <2>2 DEF Stamps
<1>2. \E t \in starts : \A k \in Windows : t <= sessions[k].start
  <2>1. starts \in SUBSET Nat /\ starts # {}
    BY <1>1
  <2>2. PICK t \in starts : \A x \in starts : t <= x
    <3> HIDE DEF starts
    <3> QED BY <2>1, LeastNatural
  <2> QED BY <2>2
<1>3. \E t \in ends : \A k \in Windows : t >= sessions[k].end
  <2>1. ends \in SUBSET Nat /\ ends # {} /\ now \in Nat /\ \A x \in ends : x <= now
    BY <1>1 DEF ListedInv
  <2>2. PICK t \in ends : \A x \in ends : t >= x
    <3> HIDE DEF ends
    <3> QED BY <2>1, GreatestNatural
  <2> QED BY <2>2
<1>4. \A k \in Windows : Span.since <= sessions[k].start
  <2>1. Span.since = CHOOSE t \in starts : \A k \in Windows : t <= sessions[k].start
    BY DEF Span
  <2> HIDE DEF starts
  <2> QED BY <1>2, <2>1
<1>5. \A k \in Windows : Span.until >= sessions[k].end
  <2>1. Span.until = CHOOSE t \in ends : \A k \in Windows : t >= sessions[k].end
    BY DEF Span
  <2>2. Span.until \in ends
    BY <1>3, <2>1
  <2>3. Span.until \in Nat
    BY <1>1, <2>2
  <2>4. \A k \in Windows : Span.until >= sessions[k].end
    <3> HIDE DEF ends
    <3> QED BY <1>3, <2>1
  <2> QED BY <1>1, <2>3, <2>4
<1>6. Span.until \in Nat
  <2>1. Span.until = CHOOSE t \in ends : \A k \in Windows : t >= sessions[k].end
    BY DEF Span
  <2> QED BY <1>1, <1>3, <2>1
<1>7. Span.since \in Nat
  <2>1. Span.since = CHOOSE t \in starts : \A k \in Windows : t <= sessions[k].start
    BY DEF Span
  <2> QED BY <1>1, <1>2, <2>1
<1>8. \A k \in Windows : sessions[k].end <= Span.until
  BY <1>1, <1>5, <1>6
<1> QED BY <1>4, <1>6, <1>7, <1>8

\* What the walk has passed is found, if it lies in the span and was not saved
\* again; the span covers the sessions, which the request leaves alone.
Found(n) ==
    Tree[n] \notin touched /\ InSpan(Tree[n]) =>
        [file |-> Tree[n], at |-> mtime[Tree[n]]] \in mods

WalkInv ==
    /\ \A k \in Windows : sessions[k].end <= now
    /\ pc = "work" => touched = {}
    /\ span.since \in Nat /\ span.until \in Nat
    /\ pc # "work" =>
        /\ \A k \in Windows : /\ span.since <= sessions[k].start
                              /\ sessions[k].end <= span.until
        /\ \A n \in DOMAIN Tree : n < i => Found(n)
    /\ pc = "done" =>
        listed = [k \in Windows |->
                    FilterWindow(sessions[k].start, sessions[k].end)]

\* Nothing but a session that ends makes a window.
LEMMA SameWindows ==
    ASSUME WalkInv, sessions' = sessions, now' >= now, now \in Nat, now' \in Nat,
           ListedInv
    PROVE  /\ Windows' = Windows
           /\ \A k \in Windows : sessions[k].end <= now'
<1>1. Windows' = Windows
  BY DEF Windows
<1>2. ASSUME NEW k \in Windows PROVE sessions[k].end <= now'
  <2>1. k \in 1 .. Len(sessions) /\ sessions[k].end # NULL
    BY DEF Windows, ListedInv
  <2>2. sessions[k] \in Stamps
    BY <2>1, ElementOf DEF ListedInv
  <2>3. sessions[k].end <= now
    BY DEF WalkInv
  <2> QED BY <2>1, <2>2, <2>3 DEF Stamps
<1> QED BY <1>1, <1>2

\* A save takes its file out of what the walk answers for, for good.
LEMMA SaveStep ==
    ASSUME ListedInv, WalkInv, NEW f \in Files, Save(f)
    PROVE  WalkInv'
<1>1. /\ mtime' = [mtime EXCEPT ![f] = now]
      /\ touched' = IF pc = "work" THEN {} ELSE touched \cup {f}
      /\ UNCHANGED <<now, sessions, pc, i, span, mods, listed>>
  BY DEF Save
<1>2. Windows' = Windows /\ FilterWindow(0, 0)' = FilterWindow(0, 0)
  BY <1>1 DEF Windows, FilterWindow
<1>3. ASSUME NEW n \in DOMAIN Tree, n < i, pc # "work" PROVE Found(n)'
  <2>1. Found(n) /\ Tree[n] \in Files
    BY <1>3 DEF WalkInv, Files
  <2>2. CASE Tree[n] = f
    BY <1>1, <1>3, <2>2 DEF Found
  <2>3. CASE Tree[n] # f
    <3>1. mtime'[Tree[n]] = mtime[Tree[n]] /\ (Tree[n] \in touched => Tree[n] \in touched')
      BY <1>1, <1>3, <2>1, <2>3 DEF ListedInv
    <3> QED BY <1>1, <2>1, <3>1 DEF Found, InSpan
  <2> QED BY <2>2, <2>3
<1>4. pc' = "work" => touched' = {}
  BY <1>1
<1>5. pc' = "done" => listed' = [k \in Windows' |->
                    FilterWindow(sessions[k].start, sessions[k].end)']
  BY <1>1, <1>2 DEF WalkInv, FilterWindow
<1> QED BY <1>1, <1>2, <1>3, <1>4, <1>5 DEF WalkInv

\* The request begins with a span that covers the sessions.
LEMMA AttachStep ==
    ASSUME ListedInv, WalkInv, AttachChangedFiles
    PROVE  WalkInv'
<1>1. /\ pc = "work" /\ pc' = "walk" /\ i' = 1 /\ span' = Span /\ mods' = {}
      /\ Windows # {} /\ UNCHANGED <<world, sessions, listed>>
  BY DEF AttachChangedFiles
<1>2. Windows' = Windows /\ touched' = touched /\ now' = now
  BY <1>1 DEF Windows, world
<1>3. \A k \in Windows : /\ span'.since <= sessions[k].start
                         /\ sessions[k].end <= span'.until
  BY <1>1, SpanCovers DEF WalkInv
<1>6. span'.since \in Nat /\ span'.until \in Nat
  BY <1>1, SpanCovers DEF WalkInv
<1>4. \A n \in DOMAIN Tree : ~ n < i'
  BY <1>1, ChangedFilesAssumption
<1> QED BY <1>1, <1>2, <1>3, <1>4, <1>6 DEF WalkInv

\* A turn of the walk: what lies in the span is found (changes.go:47-81).
LEMMA VisitStep ==
    ASSUME ListedInv, WalkInv, Visit
    PROVE  WalkInv'
<1> DEFINE new == [file |-> Tree[i], at |-> mtime[Tree[i]]]
<1>1. /\ pc = "walk" /\ i <= Len(Tree) /\ i' = i + 1
      /\ mods' = IF InSpan(Tree[i]) THEN mods \cup {new} ELSE mods
      /\ pc' = IF Cardinality(mods') >= Cap THEN "filter" ELSE "walk"
      /\ UNCHANGED <<world, sessions, span, listed>>
  BY DEF Visit
<1>2. /\ Windows' = Windows /\ touched' = touched /\ now' = now /\ mtime' = mtime
      /\ sessions' = sessions
  BY <1>1 DEF Windows, world
<1>3. mods \subseteq mods'
  BY <1>1
<1>4. ASSUME NEW n \in DOMAIN Tree, n < i' PROVE Found(n)'
  <2>1. Found(n)' <=> (Tree[n] \notin touched /\ InSpan(Tree[n]) =>
                         [file |-> Tree[n], at |-> mtime[Tree[n]]] \in mods')
    BY <1>1, <1>2 DEF Found, InSpan
  <2>2. CASE n = i
    BY <1>1, <2>1, <2>2
  <2>3. CASE n < i
    BY <1>1, <1>3, <2>1, <2>3 DEF WalkInv, Found
  <2>4. n \in Nat /\ i \in Nat /\ n < i + 1
    BY <1>1, <1>4, ChangedFilesAssumption DEF ListedInv
  <2> QED BY <2>2, <2>3, <2>4
<1>5. pc' # "done" /\ pc' # "work"
  BY <1>1
<1> QED BY <1>1, <1>2, <1>3, <1>4, <1>5 DEF WalkInv

THEOREM WalkInvariance == Spec => []WalkInv
<1>1. Init => WalkInv
  BY ChangedFilesAssumption DEF Init, WalkInv, Windows
<1>2. ListedInv /\ WalkInv /\ [Next]_vars => WalkInv'
  <2> SUFFICES ASSUME ListedInv, WalkInv, [Next]_vars PROVE WalkInv'
    OBVIOUS
  <2>1. CASE Time
    <3>1. /\ now' = now + 1
          /\ UNCHANGED <<mtime, edits, touched, sessions, pc, i, span, mods, listed>>
      BY <2>1 DEF Time
    <3>2. Windows' = Windows /\ \A k \in Windows : sessions[k].end <= now'
      BY <3>1, SameWindows DEF ListedInv
    <3>3. \A n : Found(n)' <=> Found(n)
      BY <3>1 DEF Found, InSpan
    <3>4. \A a, b : FilterWindow(a, b)' = FilterWindow(a, b)
      BY <3>1 DEF FilterWindow
    <3> QED BY <3>1, <3>2, <3>3, <3>4 DEF WalkInv
  <2>2. ASSUME NEW f \in Files, Save(f) PROVE WalkInv'
    BY <2>2, SaveStep
  <2>3. CASE OpenSession
    <3>1. /\ pc = "work" /\ UNCHANGED <<world, pc, i, span, mods, listed>>
          /\ sessions' = Append(sessions, [start |-> second, end |-> NULL,
                                           began |-> now, ended |-> NULL])
      BY <2>3 DEF OpenSession
    <3>2. \A k \in Windows' : k \in Windows /\ sessions'[k] = sessions[k]
      BY <3>1 DEF Windows, ListedInv
    <3> QED BY <3>1, <3>2 DEF WalkInv, world
  <2>4. CASE CloseSession
    <3>1. /\ pc = "work" /\ UNCHANGED <<world, pc, i, span, mods, listed>>
      BY <2>4 DEF CloseSession
    <3>2. PICK k \in DOMAIN sessions :
            sessions' = [sessions EXCEPT ![k] =
                            [sessions[k] EXCEPT !.end = second, !.ended = now]]
      BY <2>4 DEF CloseSession
    <3>4. /\ second \in Nat /\ now \in Nat /\ second <= now
          /\ DOMAIN sessions' = DOMAIN sessions
          /\ \A n \in DOMAIN sessions : n # k => sessions'[n] = sessions[n]
      BY <3>2 DEF ListedInv
    <3>5. sessions'[k].end = second
      <4>1. k \in 1 .. Len(sessions)
        BY DEF ListedInv
      <4>2. sessions[k] \in Stamps
        BY <4>1, ElementOf DEF ListedInv
      <4>3. [sessions[k] EXCEPT !.end = second, !.ended = now].end = second
        BY <4>2 DEF Stamps
      <4> QED BY <3>2, <4>3 DEF ListedInv
    <3>3. \A n \in Windows' : sessions'[n].end <= now
      BY <3>4, <3>5 DEF Windows, WalkInv
    <3> QED BY <3>1, <3>3 DEF WalkInv, world
  <2>5. CASE AttachChangedFiles
    BY <2>5, AttachStep
  <2>6. CASE Visit
    BY <2>6, VisitStep
  <2>7. CASE Walked
    <3>1. /\ pc = "walk" /\ i > Len(Tree) /\ pc' = "filter"
          /\ UNCHANGED <<world, sessions, i, span, mods, listed>>
      BY <2>7 DEF Walked
    <3>2. Windows' = Windows /\ now' = now
      BY <3>1 DEF Windows, world
    <3>3. \A n : Found(n)' <=> Found(n)
      BY <3>1 DEF Found, InSpan, world
    <3> QED BY <3>1, <3>2, <3>3 DEF WalkInv
  <2>8. CASE Filter
    <3>1. /\ pc = "filter" /\ pc' = "done"
          /\ UNCHANGED <<world, sessions, i, span, mods>>
          /\ listed' = [k \in Windows |->
                          FilterWindow(sessions[k].start, sessions[k].end)]
      BY <2>8 DEF Filter
    <3>2. Windows' = Windows /\ now' = now
      BY <3>1 DEF Windows, world
    <3>3. \A n : Found(n)' <=> Found(n)
      BY <3>1 DEF Found, InSpan, world
    <3>4. \A a, b : FilterWindow(a, b)' = FilterWindow(a, b)
      BY <3>1 DEF FilterWindow
    <3> QED BY <3>1, <3>2, <3>3, <3>4 DEF WalkInv
  <2>9. CASE UNCHANGED vars \/ Reported
    <3>1. UNCHANGED <<now, mtime, touched, sessions, pc, i, span, mods, listed>>
      BY <2>9 DEF vars, world, Reported
    <3>2. Windows' = Windows
      BY <3>1 DEF Windows
    <3>3. \A n : Found(n)' <=> Found(n)
      BY <3>1 DEF Found, InSpan
    <3>4. \A a, b : FilterWindow(a, b)' = FilterWindow(a, b)
      BY <3>1 DEF FilterWindow
    <3> QED BY <3>1, <3>2, <3>3, <3>4 DEF WalkInv
  <2> QED
    BY <2>1, <2>2, <2>3, <2>4, <2>5, <2>6, <2>7, <2>8, <2>9 DEF Next
<1> QED
  BY <1>1, <1>2, ListedInvariance, PTL DEF Spec

\* A file whose last save falls into a session, and not into its last second,
\* is listed under it, unless it was saved again during the walk or the cap cut
\* the walk off (changes.go:47-98; generator.go:152-199; sqlite.go:129).
THEOREM NoSaveForgotten == Spec => []LastSaveListed
<1>1. ListedInv /\ WalkInv => LastSaveListed
  <2> SUFFICES ASSUME ListedInv, WalkInv, pc = "done", i > Len(Tree),
                      NEW k \in DOMAIN listed, NEW f \in Files \ touched,
                      sessions[k].began <= mtime[f],
                      mtime[f] + Second <= sessions[k].ended
      PROVE  f \in listed[k]
    BY DEF LastSaveListed
  <2>1. k \in Windows /\ listed[k] = FilterWindow(sessions[k].start, sessions[k].end)
    BY DEF WalkInv
  <2>2. PICK n \in DOMAIN Tree : f = Tree[n]
    BY DEF Files
  <2>3. n < i
    BY ChangedFilesAssumption DEF ListedInv
  <2>4. sessions[k].start <= mtime[f] /\ mtime[f] <= sessions[k].end
    <3>1. Stored(sessions[k]) /\ sessions[k].end # NULL
      BY <2>1 DEF Windows, ListedInv
    <3>2. mtime[f] \in Nat /\ Second \in Nat /\ now \in Nat
      BY ChangedFilesAssumption DEF ListedInv
    <3>3. /\ sessions[k].start \in Nat /\ sessions[k].began \in Nat
          /\ sessions[k].end \in Nat /\ sessions[k].ended \in Nat
          /\ sessions[k].start <= sessions[k].began
          /\ sessions[k].ended < sessions[k].end + Second
      BY <3>1, <3>2 DEF Stored
    <3>4. sessions[k].start <= mtime[f]
      BY <3>2, <3>3
    <3>5. mtime[f] <= sessions[k].end
      BY <3>2, <3>3
    <3> QED BY <3>4, <3>5
  <2>5. InSpan(f)
    <3>1. Stored(sessions[k]) /\ sessions[k].end # NULL
      BY <2>1 DEF Windows, ListedInv
    <3>2. span.since <= sessions[k].start /\ sessions[k].end <= span.until
      BY <2>1 DEF WalkInv
    <3>3. /\ mtime[f] \in Nat /\ span.since \in Nat /\ span.until \in Nat
          /\ sessions[k].start \in Nat /\ sessions[k].end \in Nat
      BY <3>1 DEF ListedInv, WalkInv, Stored
    <3> QED BY <2>4, <3>2, <3>3 DEF InSpan
  <2>6. [file |-> f, at |-> mtime[f]] \in mods
    BY <2>2, <2>3, <2>5 DEF WalkInv, Found
  <2> QED BY <2>1, <2>4, <2>6 DEF FilterWindow
<1> QED
  BY <1>1, ListedInvariance, WalkInvariance, PTL
=============================================================================
