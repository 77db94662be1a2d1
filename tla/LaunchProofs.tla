----------------------------- MODULE LaunchProofs -----------------------------
(***************************************************************************)
(* What holds of any number of starts on one database file, for all        *)
(* settings and every interleaving of their steps.                         *)
(***************************************************************************)
EXTENDS Launch, TLAPS

-----------------------------------------------------------------------------
(* Migrate: what it guarantees for every list of scripts, any number of    *)
(* overlapping starts, failing statements and crashes.                     *)

\* What a start has behind it: the versions below its own are recorded, the
\* statements of its script before the next one took effect, and before it
\* records a version, all of them.
Applied(p) ==
    /\ pc[p] \in {"check", "apply", "record", "up"} => 1 .. ver[p] - 1 \subseteq recorded
    /\ pc[p] = "apply" =>
        \A n \in 1 .. stmt[p] - 1 : Scripts[ver[p]][n].obj \in schema
    /\ pc[p] = "record" => Adds(ver[p]) \subseteq schema
    /\ pc[p] = "up" => ver[p] = Len(Scripts) + 1

IInv ==
    /\ MigrationTypeOK
    /\ RecordedIsApplied
    /\ RecordedInOrder
    /\ \A p \in Procs : Applied(p)

LEMMA ScriptFacts ==
    /\ Len(Scripts) \in Nat
    /\ \A v \in Versions : /\ Scripts[v] \in Seq(Statement)
                           /\ Len(Scripts[v]) \in Nat \ {0}
                           /\ \A n \in 1 .. Len(Scripts[v]) :
                                Scripts[v][n] \in Statement
<1>1. Scripts \in Seq(Seq(Statement)) /\ Len(Scripts) \in Nat
  BY MigrationAssumption
<1>2. ASSUME NEW v \in Versions
      PROVE  /\ Scripts[v] \in Seq(Statement)
             /\ Len(Scripts[v]) \in Nat \ {0}
             /\ \A n \in 1 .. Len(Scripts[v]) : Scripts[v][n] \in Statement
  <2>1. Scripts[v] \in Seq(Statement)
    BY <1>1, <1>2 DEF Versions
  <2>2. Scripts[v] # <<>>
    BY MigrationAssumption
  <2> HIDE DEF Statement
  <2> QED BY <2>1, <2>2
<1> QED BY <1>1, <1>2

LEMMA AddsAreObjects ==
    ASSUME NEW v \in Versions PROVE Adds(v) \subseteq Objects
<1>1. \A n \in 1 .. Len(Scripts[v]) : Scripts[v][n].obj \in Objects
  BY ScriptFacts DEF Statement
<1> QED BY <1>1 DEF Adds

LEMMA InitIInv == MigrationInit => IInv
<1> SUFFICES ASSUME MigrationInit PROVE IInv
  OBVIOUS
<1>1. PICK last \in 0 .. Len(Scripts) :
        recorded = 1 .. last /\ schema = UNION {Adds(v) : v \in 1 .. last}
  BY DEF MigrationInit
<1>2. Len(Scripts) \in Nat /\ recorded \subseteq Versions
  BY <1>1, ScriptFacts DEF Versions
<1>3. schema \subseteq Objects
  BY <1>1, <1>2, AddsAreObjects
<1>4. RecordedIsApplied
  BY <1>1 DEF RecordedIsApplied
<1>5. RecordedInOrder
  BY <1>1, <1>2 DEF RecordedInOrder
<1>6. MigrationTypeOK
  BY <1>2, <1>3 DEF MigrationInit, MigrationTypeOK
<1>7. \A p \in Procs : Applied(p)
  BY <1>2 DEF MigrationInit, Applied
<1> QED BY <1>4, <1>5, <1>6, <1>7 DEF IInv

\* What Go leaves of the other starts' facts, when the file only grows.
LEMMA OthersKeep ==
    ASSUME IInv, NEW p \in Procs, NEW w, NEW v, NEW n, Go(p, w, v, n),
           schema \subseteq schema', recorded \subseteq recorded'
    PROVE  /\ \A q \in Procs \ {p} : Applied(q)'
           /\ pc'[p] = w /\ ver'[p] = v /\ stmt'[p] = n
           /\ \A q \in Procs \ {p} : pc'[q] = pc[q] /\ ver'[q] = ver[q]
                                                  /\ stmt'[q] = stmt[q]
<1>1. /\ pc'[p] = w /\ ver'[p] = v /\ stmt'[p] = n
      /\ \A q \in Procs \ {p} : pc'[q] = pc[q] /\ ver'[q] = ver[q]
                                             /\ stmt'[q] = stmt[q]
  BY DEF Go, IInv, MigrationTypeOK
<1>2. ASSUME NEW q \in Procs \ {p} PROVE Applied(q)'
  BY <1>1 DEF Applied, IInv
<1> QED BY <1>1, <1>2

\* The types after a step of p that keeps to the control flow.
LEMMA GoTypes ==
    ASSUME IInv, NEW p \in Procs, NEW w, NEW v, NEW n, Go(p, w, v, n),
           w \in {"down", "check", "apply", "record", "up", "fatal"},
           v \in 1 .. Len(Scripts) + 1, n \in Nat,
           w \in {"apply", "record"} => v \in Versions,
           IF w = "apply" THEN n \in 1 .. Len(Scripts[v]) ELSE n = 1,
           schema' \subseteq Objects, recorded' \subseteq Versions,
           schema \subseteq schema', recorded \subseteq recorded'
    PROVE  MigrationTypeOK'
<1>1. /\ pc' \in [Procs -> {"down", "check", "apply", "record", "up", "fatal"}]
      /\ ver' \in [Procs -> 1 .. Len(Scripts) + 1]
      /\ stmt' \in [Procs -> Nat]
  BY DEF Go, IInv, MigrationTypeOK
<1>2. /\ pc'[p] = w /\ ver'[p] = v /\ stmt'[p] = n
      /\ \A q \in Procs \ {p} : pc'[q] = pc[q] /\ ver'[q] = ver[q]
                                             /\ stmt'[q] = stmt[q]
  BY OthersKeep
<1>3. \A q \in Procs : pc'[q] \in {"apply", "record"} => ver'[q] \in Versions
  BY <1>2 DEF IInv, MigrationTypeOK
<1>4. \A q \in Procs : IF pc'[q] = "apply"
                       THEN stmt'[q] \in 1 .. Len(Scripts[ver'[q]])
                       ELSE stmt'[q] = 1
  BY <1>2 DEF IInv, MigrationTypeOK
<1> QED BY <1>1, <1>3, <1>4 DEF MigrationTypeOK

LEMMA StepIInv == IInv /\ [MigrationNext]_vars => IInv'
<1> SUFFICES ASSUME IInv, [MigrationNext]_vars PROVE IInv'
  OBVIOUS
<1>0. CASE UNCHANGED vars
  BY <1>0 DEF vars, IInv, MigrationTypeOK, RecordedIsApplied, RecordedInOrder, Applied
<1>1. CASE MigrationNext
  <2> PICK p \in Procs : Start(p) \/ Migrate(p) \/ Ends(p)
    BY <1>1 DEF MigrationNext
  <2>0. /\ Len(Scripts) \in Nat
        /\ schema \subseteq Objects /\ recorded \subseteq Versions
        /\ ver[p] \in 1 .. Len(Scripts) + 1
        /\ pc[p] \in {"apply", "record"} => ver[p] \in Versions
        /\ pc[p] = "apply" => stmt[p] \in 1 .. Len(Scripts[ver[p]])
        /\ Applied(p)
    BY ScriptFacts DEF IInv, MigrationTypeOK
  \* A step of p that leaves recorded alone, with its new control state.
  <2>1. ASSUME NEW w, NEW v, NEW n, Go(p, w, v, n),
               w \in {"down", "check", "apply", "record", "up", "fatal"},
               v \in 1 .. Len(Scripts) + 1, n \in Nat,
               w \in {"apply", "record"} => v \in Versions,
               IF w = "apply" THEN n \in 1 .. Len(Scripts[v]) ELSE n = 1,
               schema' \subseteq Objects, schema \subseteq schema',
               recorded' = recorded,
               w \in {"check", "apply", "record", "up"} =>
                    1 .. v - 1 \subseteq recorded,
               w = "apply" => \A k \in 1 .. n - 1 : Scripts[v][k].obj \in schema',
               w = "record" => Adds(v) \subseteq schema',
               w = "up" => v = Len(Scripts) + 1
        PROVE  IInv'
    <3>1. MigrationTypeOK'
      BY <2>0, <2>1, GoTypes
    <3>2. RecordedIsApplied' /\ RecordedInOrder'
      BY <2>1 DEF IInv, RecordedIsApplied, RecordedInOrder
    <3>3. /\ \A q \in Procs \ {p} : Applied(q)'
          /\ pc'[p] = w /\ ver'[p] = v /\ stmt'[p] = n
      BY <2>1, OthersKeep
    <3>4. Applied(p)'
      BY <2>1, <3>3 DEF Applied
    <3> QED BY <3>1, <3>2, <3>3, <3>4 DEF IInv
  <2>2. CASE Start(p)
    <3>1. schema' \subseteq Objects
      BY <2>0, <2>2, MigrationAssumption DEF Start
    <3> QED BY <2>0, <2>1, <2>2, <3>1 DEF Start
  <2>3. CASE Skip(p)
    <3>1. 1 .. ver[p] \subseteq recorded
      BY <2>3 DEF Skip, IInv, RecordedInOrder
    <3> QED BY <2>0, <2>1, <2>3, <3>1 DEF Skip, Versions
  <2>4. CASE BeginScript(p)
    <3>1. 1 \in 1 .. Len(Scripts[ver[p]])
      BY <2>4, ScriptFacts DEF BeginScript
    <3> QED BY <2>0, <2>1, <2>4, <3>1 DEF BeginScript, Applied, Versions
  <2>5. CASE Apply(p)
    <3> DEFINE s == Scripts[ver[p]][stmt[p]]
    <3>1. /\ pc[p] = "apply" /\ ver[p] \in Versions
          /\ schema' = schema \cup {s.obj} /\ recorded' = recorded
          /\ stmt[p] \in 1 .. Len(Scripts[ver[p]])
      BY <2>0, <2>5 DEF Apply
    <3>2. s.obj \in Objects
      BY <3>1, ScriptFacts DEF Statement
    <3>3. \A k \in 1 .. stmt[p] : Scripts[ver[p]][k].obj \in schema'
      BY <2>0, <3>1 DEF Applied
    <3>4. Len(Scripts[ver[p]]) \in Nat
      BY <3>1, ScriptFacts
    <3>5. CASE stmt[p] < Len(Scripts[ver[p]])
      <4>1. Go(p, "apply", ver[p], stmt[p] + 1)
        BY <2>5, <3>5 DEF Apply
      <4>2. stmt[p] + 1 \in 1 .. Len(Scripts[ver[p]])
        BY <3>1, <3>4, <3>5
      <4>3. 1 .. ver[p] - 1 \subseteq recorded
        BY <2>0, <3>1 DEF Applied
      <4>4. \A k \in 1 .. (stmt[p] + 1) - 1 : Scripts[ver[p]][k].obj \in schema'
        BY <3>1, <3>3
      <4>5. /\ ver[p] \in 1 .. Len(Scripts) + 1 /\ stmt[p] + 1 \in Nat
            /\ schema' \subseteq Objects /\ schema \subseteq schema'
            /\ recorded' = recorded /\ ver[p] \in Versions
        BY <2>0, <3>1, <3>2, <4>2
      <4> HIDE DEF s
      <4> QED BY <2>1, <4>1, <4>2, <4>3, <4>4, <4>5
    <3>6. CASE ~(stmt[p] < Len(Scripts[ver[p]]))
      <4>1. Go(p, "record", ver[p], 1)
        BY <2>5, <3>6 DEF Apply
      <4>2. Adds(ver[p]) \subseteq schema'
        BY <3>1, <3>3, <3>4, <3>6 DEF Adds
      <4>3. 1 .. ver[p] - 1 \subseteq recorded
        BY <2>0, <3>1 DEF Applied
      <4>4. /\ ver[p] \in 1 .. Len(Scripts) + 1
            /\ schema' \subseteq Objects /\ schema \subseteq schema'
            /\ recorded' = recorded /\ ver[p] \in Versions
        BY <2>0, <3>1, <3>2
      <4> HIDE DEF s
      <4> QED BY <2>1, <4>1, <4>2, <4>3, <4>4
    <3> QED BY <3>5, <3>6
  <2>6. CASE Duplicate(p) \/ RecordTwice(p) \/ Fails(p) \/ Ends(p)
    BY <2>0, <2>1, <2>6 DEF Duplicate, RecordTwice, Fails, Ends
  <2>7. CASE Done(p)
    <3>1. ver[p] = Len(Scripts) + 1
      BY <2>0, <2>7 DEF Done, Versions
    <3> QED BY <2>0, <2>1, <2>7, <3>1 DEF Done, Applied
  <2>8. CASE Record(p)
    <3>1. /\ pc[p] = "record" /\ ver[p] \in Versions
          /\ recorded' = recorded \cup {ver[p]} /\ schema' = schema
          /\ Go(p, "check", ver[p] + 1, 1)
      BY <2>0, <2>8 DEF Record
    <3>2. 1 .. ver[p] \subseteq recorded'
      BY <2>0, <3>1 DEF Applied
    <3>3. RecordedInOrder'
      BY <3>1, <3>2 DEF IInv, RecordedInOrder
    <3>4. RecordedIsApplied'
      BY <2>0, <3>1 DEF IInv, RecordedIsApplied, Applied
    <3>5. ver[p] + 1 \in 1 .. Len(Scripts) + 1
      BY <2>0, <3>1 DEF Versions
    <3>6. MigrationTypeOK'
      BY <2>0, <3>1, <3>5, GoTypes
    <3>7. /\ \A q \in Procs \ {p} : Applied(q)'
          /\ pc'[p] = "check" /\ ver'[p] = ver[p] + 1
      BY <3>1, OthersKeep
    <3>8. Applied(p)'
      BY <2>0, <3>2, <3>7 DEF Applied
    <3> QED BY <3>3, <3>4, <3>6, <3>7, <3>8 DEF IInv
  <2> QED BY <2>2, <2>3, <2>4, <2>5, <2>6, <2>7, <2>8 DEF Migrate
<1> QED BY <1>0, <1>1

THEOREM MigrationInvariance == MigrationSpec => []IInv
<1>1. IInv /\ [MigrationNext]_vars => IInv'
  BY StepIInv
<1> QED BY InitIInv, <1>1, PTL DEF MigrationSpec

\* A recorded version took effect completely, for every list of scripts and
\* any number of overlapping, failing and dying starts (sqlite.go:47-67).
THEOREM RecordedApplied == MigrationSpec => []RecordedIsApplied
<1>1. IInv => RecordedIsApplied
  BY DEF IInv
<1> QED BY <1>1, MigrationInvariance, PTL

\* Scripts are recorded in order, and types are kept (sqlite.go:37-67).
THEOREM RecordsAreInOrder == MigrationSpec => []RecordedInOrder
<1>1. IInv => RecordedInOrder
  BY DEF IInv
<1> QED BY <1>1, MigrationInvariance, PTL

THEOREM MigrationTypeCorrect == MigrationSpec => []MigrationTypeOK
<1>1. IInv => MigrationTypeOK
  BY DEF IInv
<1> QED BY <1>1, MigrationInvariance, PTL

LEMMA UpFollows == IInv => UpMeansMigrated
<1> SUFFICES ASSUME IInv, NEW p \in Procs, pc[p] = "up", NEW v \in Versions
             PROVE  Adds(v) \subseteq schema
  BY DEF UpMeansMigrated
<1>1. 1 .. ver[p] - 1 \subseteq recorded /\ ver[p] = Len(Scripts) + 1
  BY DEF IInv, Applied
<1>2. v \in recorded
  BY <1>1, ScriptFacts DEF Versions
<1> QED BY <1>2 DEF IInv, RecordedIsApplied

\* A process that got past Migrate has the whole schema (main.go:45-47).
THEOREM UpIsMigrated == MigrationSpec => []UpMeansMigrated
BY UpFollows, MigrationInvariance, PTL

-----------------------------------------------------------------------------
(* The sessions table                                                      *)

Ids == 1 .. next - 1

TableOK ==
    /\ next \in Nat \ {0}
    /\ rows \in [DOMAIN rows -> {"open", "closed"}] /\ DOMAIN rows \subseteq Ids
    /\ finished \subseteq Ids
    /\ session \in [Procs -> {0} \cup Ids]
    /\ todo \in [Procs -> SUBSET Ids]

\* A row has one collector at most; it is open as long as that one has it,
\* unless another start has selected it.
Collected ==
    /\ \A p, q \in Procs : session[p] = session[q] /\ session[p] # 0 => p = q
    /\ \A p \in Procs : session[p] \notin finished
    /\ \A p \in Procs : session[p] \in Ids \ shared =>
        session[p] \in DOMAIN rows /\ rows[session[p]] = "open"

\* What a recovery still has to close is no collector's and is not finished,
\* unless it was selected while its collector ran.
Selected ==
    \A p, q \in Procs : \A id \in todo[p] \ shared :
        id # session[q] /\ id \notin finished

LInv == TableOK /\ Collected /\ Selected /\ OnlyOverlapLoses

LEMMA InitLInv == LaunchInit => LInv
<1> SUFFICES ASSUME LaunchInit PROVE LInv
  OBVIOUS
<1>1. /\ session = [p \in Procs |-> 0] /\ todo = [p \in Procs |-> {}]
      /\ rows = [id \in {} |-> "open"] /\ next = 1 /\ finished = {}
  BY DEF LaunchInit
<1>2. DOMAIN rows = {} /\ rows \in [DOMAIN rows -> {"open", "closed"}]
  BY <1>1
<1>3. TableOK
  BY <1>1, <1>2 DEF TableOK, Ids
<1>4. Collected
  BY <1>1 DEF Collected, Ids
<1> QED BY <1>1, <1>3, <1>4 DEF LInv, Selected, OnlyOverlapLoses

\* What CloseSession does to the table.
LEMMA CloseFacts ==
    ASSUME TableOK, NEW id, NEW short \in BOOLEAN
    PROVE  /\ DOMAIN Close(id, short) \subseteq DOMAIN rows
           /\ Close(id, short) \in [DOMAIN Close(id, short) -> {"open", "closed"}]
           /\ \A i \in DOMAIN rows \ {id} :
                i \in DOMAIN Close(id, short) /\ Close(id, short)[i] = rows[i]
           /\ ~short /\ id \in DOMAIN rows =>
                id \in DOMAIN Close(id, short) /\ Close(id, short)[id] = "closed"
<1>1. CASE short
  <2>1. Close(id, short) = [i \in DOMAIN rows \ {id} |-> rows[i]]
    BY <1>1 DEF Close, Restrict
  <2> QED BY <1>1, <2>1 DEF TableOK
<1>2. CASE ~short
  <2>1. Close(id, short) =
          [i \in DOMAIN rows |-> IF i = id THEN "closed" ELSE rows[i]]
    BY <1>2 DEF Close
  <2> QED BY <1>2, <2>1 DEF TableOK
<1> QED BY <1>1, <1>2

\* A step that leaves table and collectors alone and selects nothing.
LEMMA QuietStep ==
    ASSUME LInv,
           rows' = rows, next' = next, finished' = finished, shared' = shared,
           session' = session, todo' \in [Procs -> SUBSET Ids],
           \A q \in Procs : todo'[q] \subseteq todo[q]
    PROVE  LInv'
<1>1. TableOK'
  BY DEF LInv, TableOK, Ids
<1>2. Collected'
  BY DEF LInv, Collected, Ids
<1>3. Selected'
  BY DEF LInv, Selected
<1>4. OnlyOverlapLoses'
  BY DEF LInv, OnlyOverlapLoses
<1> QED BY <1>1, <1>2, <1>3, <1>4 DEF LInv

LEMMA SelectStep ==
    ASSUME LInv, NEW p \in Procs, Select(p) PROVE LInv'
<1>1. /\ rows' = rows /\ next' = next /\ finished' = finished /\ session' = session
      /\ shared' = shared \cup (Open \cap Range(session))
      /\ todo' = [todo EXCEPT ![p] = Open]
  BY DEF Select, tableVars
<1>2. Open \subseteq Ids /\ \A id \in Open : id \in DOMAIN rows /\ rows[id] = "open"
  BY DEF LInv, TableOK, Open
<1>3. /\ todo' \in [Procs -> SUBSET Ids]
      /\ \A q \in Procs : todo'[q] = Open \/ todo'[q] = todo[q]
  BY <1>1, <1>2 DEF LInv, TableOK
<1>4. \A q \in Procs : session[q] \in Open => session[q] \in shared'
  <2>1. \A q \in Procs : session[q] \in Range(session)
    BY DEF LInv, TableOK, Range
  <2> QED BY <1>1, <2>1
<1>5. \A id \in Open : id \in finished => id \in shared
  BY <1>2 DEF LInv, OnlyOverlapLoses
<1>6. TableOK'
  BY <1>1, <1>3 DEF LInv, TableOK, Ids
<1>7. Collected'
  BY <1>1 DEF LInv, Collected, Ids
<1>8. Selected'
  <2> SUFFICES ASSUME NEW r \in Procs, NEW q \in Procs,
                      NEW id \in todo'[r], id \notin shared'
               PROVE  id # session[q] /\ id \notin finished
    BY <1>1 DEF Selected
  <2>1. CASE id \in Open
    BY <1>1, <1>4, <1>5, <2>1
  <2>2. CASE id \in todo[r]
    BY <1>1, <2>2 DEF LInv, Selected
  <2> QED BY <1>3, <2>1, <2>2
<1>9. OnlyOverlapLoses'
  BY <1>1 DEF LInv, OnlyOverlapLoses
<1> QED BY <1>6, <1>7, <1>8, <1>9 DEF LInv

LEMMA RecoverOneStep ==
    ASSUME LInv, NEW p \in Procs, RecoverOne(p) PROVE LInv'
<1>1. PICK id \in todo[p] :
        /\ todo' = [todo EXCEPT ![p] = @ \ {id}]
        /\ rows' = Close(id, 0 < Cfg(p)["min"])
  BY DEF RecoverOne
<1> DEFINE short == 0 < Cfg(p)["min"]
<1>2. /\ session' = session /\ next' = next /\ finished' = finished
      /\ shared' = shared
  BY DEF RecoverOne, historyVars
<1>3. short \in BOOLEAN /\ rows' = Close(id, short)
  BY <1>1
<1> HIDE DEF short
<1>4. /\ DOMAIN rows' \subseteq DOMAIN rows
      /\ rows' \in [DOMAIN rows' -> {"open", "closed"}]
      /\ \A i \in DOMAIN rows \ {id} : i \in DOMAIN rows' /\ rows'[i] = rows[i]
  BY <1>3, CloseFacts DEF LInv
<1>5. /\ todo' \in [Procs -> SUBSET Ids]
      /\ \A q \in Procs : todo'[q] \subseteq todo[q]
  BY <1>1 DEF LInv, TableOK
<1>6. id \in shared \/ (id \notin finished /\ \A q \in Procs : id # session[q])
  BY DEF LInv, Selected
<1>7. TableOK'
  BY <1>2, <1>4, <1>5 DEF LInv, TableOK, Ids
<1>8. Collected'
  BY <1>2, <1>4, <1>6 DEF LInv, Collected, Ids
<1>9. Selected'
  BY <1>2, <1>5 DEF LInv, Selected
<1>10. OnlyOverlapLoses'
  BY <1>2, <1>4, <1>6 DEF LInv, OnlyOverlapLoses
<1> QED BY <1>7, <1>8, <1>9, <1>10 DEF LInv

LEMMA OpenStep ==
    ASSUME LInv, NEW p \in Procs, OpenSession(p) PROVE LInv'
<1>1. /\ session' = [session EXCEPT ![p] = next] /\ next' = next + 1
      /\ rows' = [id \in DOMAIN rows \cup {next} |->
                    IF id = next THEN "open" ELSE rows[id]]
      /\ todo' = todo /\ finished' = finished /\ shared' = shared
  BY DEF OpenSession, historyVars
<1>2. next \notin Ids /\ next # 0 /\ Ids' = Ids \cup {next} /\ 0 \notin Ids
  BY <1>1 DEF LInv, TableOK, Ids
<1>3. /\ DOMAIN rows' = DOMAIN rows \cup {next} /\ rows'[next] = "open"
      /\ \A i \in DOMAIN rows : rows'[i] = rows[i]
  BY <1>1, <1>2 DEF LInv, TableOK
<1>4. /\ session' \in [Procs -> {0} \cup Ids'] /\ session'[p] = next
      /\ \A q \in Procs \ {p} : session'[q] = session[q]
  BY <1>1, <1>2 DEF LInv, TableOK
<1>5. /\ next' \in Nat \ {0}
      /\ rows' \in [DOMAIN rows' -> {"open", "closed"}] /\ DOMAIN rows' \subseteq Ids'
      /\ finished' \subseteq Ids' /\ todo' \in [Procs -> SUBSET Ids']
  BY <1>1, <1>2, <1>3 DEF LInv, TableOK
<1>6. TableOK'
  BY <1>4, <1>5 DEF TableOK
<1>7. \A q \in Procs : session[q] \in {0} \cup Ids /\ todo[q] \subseteq Ids
  BY DEF LInv, TableOK
<1>8. finished \subseteq Ids /\ DOMAIN rows \subseteq Ids
  BY DEF LInv, TableOK
<1>9. Collected'
  BY <1>1, <1>2, <1>3, <1>4, <1>7, <1>8 DEF LInv, Collected
<1>10. Selected'
  BY <1>1, <1>2, <1>4, <1>7 DEF LInv, Selected
<1>11. OnlyOverlapLoses'
  BY <1>1, <1>3 DEF LInv, OnlyOverlapLoses
<1> QED BY <1>6, <1>9, <1>10, <1>11 DEF LInv

LEMMA CloseStep ==
    ASSUME LInv, NEW p \in Procs, CloseSession(p) PROVE LInv'
<1> DEFINE id == session[p]
<1>1. PICK short \in BOOLEAN :
        /\ rows' = Close(id, short)
        /\ finished' = IF short THEN finished ELSE finished \cup {id}
  BY DEF CloseSession
<1>2. /\ id # 0 /\ session' = [session EXCEPT ![p] = 0] /\ todo' = todo
      /\ next' = next /\ shared' = shared
  BY DEF CloseSession
<1>3. short \in BOOLEAN /\ id \in Ids /\ 0 \notin Ids
  BY <1>1, <1>2 DEF LInv, TableOK, Ids
<1>4. /\ session' \in [Procs -> {0} \cup Ids] /\ session'[p] = 0
      /\ \A q \in Procs \ {p} : session'[q] = session[q] /\ session'[q] # id
  BY <1>2 DEF LInv, TableOK, Collected
<1>5. id \notin finished /\ (id \in shared \/ id \in DOMAIN rows)
  BY <1>3 DEF LInv, Collected
<1>6. \A q \in Procs : id \in todo[q] => id \in shared
  BY DEF LInv, Selected
<1> HIDE DEF id
<1>7. /\ DOMAIN rows' \subseteq DOMAIN rows
      /\ rows' \in [DOMAIN rows' -> {"open", "closed"}]
      /\ \A i \in DOMAIN rows \ {id} : i \in DOMAIN rows' /\ rows'[i] = rows[i]
      /\ ~short /\ id \in DOMAIN rows => id \in DOMAIN rows' /\ rows'[id] = "closed"
  BY <1>1, <1>3, CloseFacts DEF LInv
<1>8. finished' \subseteq finished \cup {id} /\ (short => finished' = finished)
  BY <1>1
<1>9. Ids' = Ids
  BY <1>2 DEF Ids
<1>10. TableOK'
  BY <1>2, <1>3, <1>4, <1>7, <1>8, <1>9 DEF LInv, TableOK
<1>11. Collected'
  BY <1>2, <1>3, <1>4, <1>7, <1>8, <1>9 DEF LInv, Collected, TableOK
<1>12. Selected'
  BY <1>2, <1>3, <1>4, <1>6, <1>8 DEF LInv, Selected, TableOK
<1>13. OnlyOverlapLoses'
  BY <1>2, <1>5, <1>7, <1>8 DEF LInv, OnlyOverlapLoses
<1> QED BY <1>10, <1>11, <1>12, <1>13 DEF LInv

\* A close that is refused, or the end of the process.
LEMMA DropStep ==
    ASSUME LInv, NEW p \in Procs, CloseFails(p) \/ End(p) PROVE LInv'
<1>0. /\ todo' = todo \/ todo' = [todo EXCEPT ![p] = {}]
      /\ session' = [session EXCEPT ![p] = 0]
      /\ rows' = rows /\ next' = next /\ finished' = finished /\ shared' = shared
  BY DEF CloseFails, End, tableVars, historyVars
<1>1. rows' = rows /\ next' = next /\ finished' = finished /\ shared' = shared
  BY <1>0
<1>2. Ids' = Ids /\ 0 \notin Ids
  BY <1>1 DEF Ids
<1>3. /\ todo' \in [Procs -> SUBSET Ids] /\ session' \in [Procs -> {0} \cup Ids]
      /\ \A q \in Procs : /\ todo'[q] \subseteq todo[q]
                          /\ session'[q] = 0 \/ session'[q] = session[q]
  BY <1>0 DEF LInv, TableOK
<1>4. TableOK'
  BY <1>1, <1>2, <1>3 DEF LInv, TableOK
<1>5. Collected'
  BY <1>1, <1>2, <1>3 DEF LInv, Collected, TableOK
<1>6. Selected'
  BY <1>1, <1>2, <1>3 DEF LInv, Selected, TableOK
<1>7. OnlyOverlapLoses'
  BY <1>1 DEF LInv, OnlyOverlapLoses
<1> QED BY <1>4, <1>5, <1>6, <1>7 DEF LInv

LEMMA LaunchStep == LInv /\ [LaunchNext]_allVars => LInv'
<1> SUFFICES ASSUME LInv, [LaunchNext]_allVars PROVE LInv'
  OBVIOUS
<1> USE DEF launchVars, processVars, tableVars, historyVars
<1>0. todo \in [Procs -> SUBSET Ids]
  BY DEF LInv, TableOK
<1>1. CASE UNCHANGED allVars
  BY <1>0, <1>1, QuietStep DEF allVars
<1>2. ASSUME NEW p \in Procs, Load(p) \/ Begin(p) \/ Collect(p) \/ End(p)
      PROVE  LInv'
  <2>1. CASE Load(p)
    BY <1>0, <2>1, QuietStep DEF Load
  <2>2. CASE OpenAndMigrate(p)
    BY <1>0, <2>2, QuietStep DEF OpenAndMigrate
  <2>3. CASE SelectFails(p)
    BY <1>0, <2>3, QuietStep DEF SelectFails
  <2>4. CASE RecoverFails(p)
    <3>1. PICK id \in todo[p] : todo' = [todo EXCEPT ![p] = @ \ {id}]
      BY <2>4 DEF RecoverFails
    <3>2. /\ todo' \in [Procs -> SUBSET Ids]
          /\ \A q \in Procs : todo'[q] \subseteq todo[q]
      BY <1>0, <3>1
    <3> QED BY <2>4, <3>2, QuietStep DEF RecoverFails
  <2>5. CASE Serve(p)
    BY <1>0, <2>5, QuietStep DEF Serve
  <2>6. CASE Panic(p)
    BY <1>0, <2>6, QuietStep DEF Panic
  <2> QED BY <1>2, <2>1, <2>2, <2>3, <2>4, <2>5, <2>6, SelectStep,
             RecoverOneStep, OpenStep, CloseStep, DropStep DEF Begin, Collect
<1> QED BY <1>1, <1>2 DEF LaunchNext

\* A session that was closed stays in the table unless another start had
\* selected it while it was open, for any number of starts, all settings, and
\* with statements that fail (main.go:48; sqlite.go:137-168).
THEOREM FinishedIsKept == LaunchSpec => []OnlyOverlapLoses
<1>1. LInv => OnlyOverlapLoses
  BY DEF LInv
<1> QED BY InitLInv, LaunchStep, <1>1, PTL DEF LaunchSpec

-----------------------------------------------------------------------------
\* The phases of a start, and what it has in each.
Phases ==
    /\ phase \in [Procs -> {"off", "store", "recover", "serve", "panicked"}]
    /\ read \in [Procs -> Files \cup {NoFile}]
    /\ seen \in [Procs -> SUBSET Ids]
    /\ \A p \in Procs :
        /\ phase[p] # "recover" => todo[p] = {} /\ seen[p] = {}
        /\ session[p] # 0 => phase[p] = "serve" /\ ~NoTicker(p)
        /\ phase[p] = "panicked" => NoTicker(p)

RInv == TableOK /\ Phases /\ RecoveryGoesOn

\* Everything a process has but its table.
Own(p) == <<phase[p], read[p], todo[p], session[p], seen[p]>>

LEMMA InitRInv == LaunchInit => RInv
<1> SUFFICES ASSUME LaunchInit PROVE RInv
  OBVIOUS
<1>1. TableOK
  BY InitLInv DEF LInv
<1>2. /\ phase = [p \in Procs |-> "off"] /\ read = [p \in Procs |-> NoFile]
      /\ todo = [p \in Procs |-> {}] /\ session = [p \in Procs |-> 0]
      /\ seen = [p \in Procs |-> {}]
  BY DEF LaunchInit
<1> QED BY <1>1, <1>2 DEF RInv, Phases, RecoveryGoesOn

LEMMA OpenAfterClose ==
    ASSUME TableOK, NEW id, NEW short \in BOOLEAN, rows' = Close(id, short)
    PROVE  Open' \subseteq Open \ {id}
<1>1. CASE short
  <2>1. rows' = [i \in DOMAIN rows \ {id} |-> rows[i]]
    BY <1>1 DEF Close, Restrict
  <2> QED BY <2>1 DEF Open
<1>2. CASE ~short
  <2>1. rows' = [i \in DOMAIN rows |-> IF i = id THEN "closed" ELSE rows[i]]
    BY <1>2 DEF Close
  <2> QED BY <2>1 DEF Open
<1> QED BY <1>1, <1>2

\* A step of p leaves the other processes what they have; rows are opened only
\* under a new id.  What remains to be shown is about p.
LEMMA StepOfOne ==
    ASSUME RInv, NEW p \in Procs, TableOK',
           next' >= next, Open' \cap Ids \subseteq Open,
           phase' \in [Procs -> {"off", "store", "recover", "serve", "panicked"}],
           read' \in [Procs -> Files \cup {NoFile}],
           seen' \in [Procs -> SUBSET Ids],
           \A q \in Procs \ {p} : Own(q)' = Own(q),
           phase'[p] # "recover" => todo'[p] = {} /\ seen'[p] = {},
           session'[p] # 0 => phase'[p] = "serve" /\ ~NoTicker(p)',
           phase'[p] = "panicked" => NoTicker(p)',
           phase'[p] = "recover" => seen'[p] \cap Open' \subseteq todo'[p]
    PROVE  RInv'
<1>1. next \in Nat \ {0} /\ next' \in Nat \ {0}
  BY DEF RInv, TableOK
<1>2. Ids \subseteq Ids'
  BY <1>1 DEF Ids
<1>3. \A q \in Procs \ {p} :
        /\ phase'[q] = phase[q] /\ read'[q] = read[q] /\ todo'[q] = todo[q]
        /\ session'[q] = session[q] /\ seen'[q] = seen[q]
  BY DEF Own
<1>4. \A q \in Procs \ {p} : NoTicker(q)' = NoTicker(q)
  BY <1>3 DEF NoTicker, Cfg
<1>5. Phases'
  BY <1>2, <1>3, <1>4 DEF RInv, Phases
<1>6. \A q \in Procs : seen[q] \subseteq Ids
  BY DEF RInv, Phases
<1>7. RecoveryGoesOn'
  BY <1>3, <1>6 DEF RInv, RecoveryGoesOn
<1> QED BY <1>5, <1>7 DEF RInv

LEMMA RecoveryStep == LInv /\ LInv' /\ RInv /\ [LaunchNext]_allVars => RInv'
<1> SUFFICES ASSUME LInv, LInv', RInv, [LaunchNext]_allVars PROVE RInv'
  OBVIOUS
<1> USE DEF launchVars, processVars, tableVars, historyVars
<1>1. TableOK /\ TableOK' /\ Phases
  BY DEF LInv, RInv
<1>2. next \in Nat \ {0}
  BY <1>1 DEF TableOK
<1>3. /\ todo \in [Procs -> SUBSET Ids] /\ seen \in [Procs -> SUBSET Ids]
      /\ session \in [Procs -> {0} \cup Ids]
      /\ phase \in [Procs -> {"off", "store", "recover", "serve", "panicked"}]
      /\ read \in [Procs -> Files \cup {NoFile}]
  BY <1>1 DEF TableOK, Phases
<1>4. CASE UNCHANGED allVars
  BY <1>4, <1>1 DEF allVars, RInv, Phases, RecoveryGoesOn, Open, Ids, NoTicker, Cfg
<1>5. ASSUME NEW p \in Procs, Load(p) \/ Begin(p) \/ Collect(p) \/ End(p)
      PROVE  RInv'
  <2>0. /\ phase[p] # "recover" => todo[p] = {} /\ seen[p] = {}
        /\ session[p] # 0 => phase[p] = "serve" /\ ~NoTicker(p)
        /\ phase[p] = "panicked" => NoTicker(p)
        /\ phase[p] = "recover" => seen[p] \cap Open \subseteq todo[p]
    BY DEF RInv, Phases, RecoveryGoesOn
  <2>1. CASE Load(p)
    <3>1. /\ phase' = [phase EXCEPT ![p] = "store"] /\ phase[p] = "off"
          /\ todo' = todo /\ session' = session /\ seen' = seen
          /\ rows' = rows /\ next' = next
          /\ \E file \in Files \cup {NoFile} : read' = [read EXCEPT ![p] = file]
      BY <2>1 DEF Load
    <3>2. Open' = Open
      BY <3>1 DEF Open
    <3> QED BY <1>1, <1>2, <1>3, <2>0, <3>1, <3>2, StepOfOne DEF Own
  <2>2. CASE OpenAndMigrate(p)
    BY <2>2, <1>1
       DEF OpenAndMigrate, RInv, Phases, RecoveryGoesOn, Open, Ids, NoTicker, Cfg
  <2>3. CASE Select(p)
    <3>1. /\ phase' = [phase EXCEPT ![p] = "recover"] /\ phase[p] = "store"
          /\ todo' = [todo EXCEPT ![p] = Open] /\ seen' = [seen EXCEPT ![p] = Open]
          /\ read' = read /\ session' = session /\ rows' = rows /\ next' = next
      BY <2>3 DEF Select
    <3>2. Open' = Open /\ Open \subseteq Ids
      BY <1>1, <3>1 DEF Open, TableOK
    <3> QED BY <1>1, <1>2, <1>3, <2>0, <3>1, <3>2, StepOfOne DEF Own
  <2>4. CASE SelectFails(p)
    <3>1. /\ phase' = [phase EXCEPT ![p] = "recover"] /\ phase[p] = "store"
          /\ todo' = todo /\ seen' = seen
          /\ read' = read /\ session' = session /\ rows' = rows /\ next' = next
      BY <2>4 DEF SelectFails
    <3>2. Open' = Open
      BY <3>1 DEF Open
    <3> QED BY <1>1, <1>2, <1>3, <2>0, <3>1, <3>2, StepOfOne DEF Own
  <2>5. CASE RecoverOne(p)
    <3>1. PICK id \in todo[p] : /\ todo' = [todo EXCEPT ![p] = @ \ {id}]
                                /\ rows' = Close(id, 0 < Cfg(p)["min"])
      BY <2>5 DEF RecoverOne
    <3>2. /\ phase' = phase /\ phase[p] = "recover" /\ seen' = seen
          /\ read' = read /\ session' = session /\ next' = next
      BY <2>5 DEF RecoverOne
    <3> DEFINE short == 0 < Cfg(p)["min"]
    <3>3. short \in BOOLEAN /\ rows' = Close(id, short)
      BY <3>1
    <3> HIDE DEF short
    <3>4. Open' \subseteq Open \ {id}
      BY <1>1, <3>3, OpenAfterClose
    <3>5. /\ todo'[p] = todo[p] \ {id} /\ \A q \in Procs \ {p} : todo'[q] = todo[q]
      BY <1>3, <3>1
    <3>6. NoTicker(p)' = NoTicker(p)
      BY <3>2 DEF NoTicker, Cfg
    <3> QED BY <1>1, <1>2, <1>3, <2>0, <3>2, <3>4, <3>5, <3>6, StepOfOne DEF Own
  <2>6. CASE RecoverFails(p)
    <3>1. PICK id \in todo[p] : /\ todo' = [todo EXCEPT ![p] = @ \ {id}]
                                /\ seen' = [seen EXCEPT ![p] = @ \ {id}]
      BY <2>6 DEF RecoverFails
    <3>2. /\ phase' = phase /\ phase[p] = "recover" /\ rows' = rows
          /\ read' = read /\ session' = session /\ next' = next
      BY <2>6 DEF RecoverFails
    <3>3. Open' = Open
      BY <3>2 DEF Open
    <3>4. NoTicker(p)' = NoTicker(p)
      BY <3>2 DEF NoTicker, Cfg
    <3>5. /\ todo'[p] = todo[p] \ {id} /\ seen'[p] = seen[p] \ {id}
          /\ seen' \in [Procs -> SUBSET Ids]
          /\ \A q \in Procs \ {p} : todo'[q] = todo[q] /\ seen'[q] = seen[q]
      BY <1>3, <3>1
    <3> QED BY <1>1, <1>2, <1>3, <2>0, <3>2, <3>3, <3>4, <3>5, StepOfOne DEF Own
  <2>7. CASE Serve(p)
    <3>1. /\ phase' = [phase EXCEPT ![p] = "serve"] /\ phase[p] = "recover"
          /\ seen' = [seen EXCEPT ![p] = {}] /\ todo' = todo /\ todo[p] = {}
          /\ read' = read /\ session' = session /\ rows' = rows /\ next' = next
      BY <2>7 DEF Serve
    <3>2. Open' = Open
      BY <3>1 DEF Open
    <3> QED BY <1>1, <1>2, <1>3, <2>0, <3>1, <3>2, StepOfOne DEF Own
  <2>8. CASE Panic(p)
    <3>1. /\ phase' = [phase EXCEPT ![p] = "panicked"] /\ phase[p] = "serve"
          /\ NoTicker(p) /\ todo' = todo /\ seen' = seen
          /\ read' = read /\ session' = session /\ rows' = rows /\ next' = next
      BY <2>8 DEF Panic
    <3>2. Open' = Open
      BY <3>1 DEF Open
    <3>3. NoTicker(p)'
      BY <3>1 DEF NoTicker, Cfg
    <3>4. /\ phase'[p] = "panicked" /\ session[p] = 0
          /\ \A q \in Procs \ {p} : phase'[q] = phase[q]
          /\ phase' \in [Procs -> {"off", "store", "recover", "serve", "panicked"}]
      BY <1>3, <2>0, <3>1
    <3> QED BY <1>1, <1>2, <1>3, <2>0, <3>1, <3>2, <3>3, <3>4, StepOfOne DEF Own
  <2>9. CASE OpenSession(p)
    <3>1. /\ session' = [session EXCEPT ![p] = next] /\ next' = next + 1
          /\ rows' = [id \in DOMAIN rows \cup {next} |->
                        IF id = next THEN "open" ELSE rows[id]]
          /\ phase' = phase /\ phase[p] = "serve" /\ ~NoTicker(p)
          /\ read' = read /\ todo' = todo /\ seen' = seen
      BY <2>9 DEF OpenSession
    <3>2. Open' \cap Ids \subseteq Open
      BY <1>2, <3>1 DEF Open, Ids
    <3>3. NoTicker(p)' = NoTicker(p)
      BY <3>1 DEF NoTicker, Cfg
    <3>4. \A q \in Procs \ {p} : session'[q] = session[q]
      BY <1>3, <3>1
    <3>5. next' >= next
      BY <1>2, <3>1
    <3> QED BY <1>1, <1>3, <2>0, <3>1, <3>2, <3>3, <3>4, <3>5, StepOfOne DEF Own
  <2>10. CASE CloseSession(p)
    <3>1. PICK short \in BOOLEAN : rows' = Close(session[p], short)
      BY <2>10 DEF CloseSession
    <3>2. /\ session' = [session EXCEPT ![p] = 0] /\ session[p] # 0
          /\ phase' = phase /\ next' = next
          /\ read' = read /\ todo' = todo /\ seen' = seen
      BY <2>10 DEF CloseSession
    <3>3. Open' \subseteq Open
      BY <1>1, <3>1, OpenAfterClose
    <3>4. NoTicker(p)' = NoTicker(p)
      BY <3>2 DEF NoTicker, Cfg
    <3>5. session'[p] = 0 /\ \A q \in Procs \ {p} : session'[q] = session[q]
      BY <1>3, <3>2
    <3> QED BY <1>1, <1>2, <1>3, <2>0, <3>2, <3>3, <3>4, <3>5, StepOfOne DEF Own
  <2>11. CASE CloseFails(p)
    <3>1. /\ session' = [session EXCEPT ![p] = 0]
          /\ phase' = phase /\ rows' = rows /\ next' = next
          /\ read' = read /\ todo' = todo /\ seen' = seen
      BY <2>11 DEF CloseFails
    <3>2. Open' = Open
      BY <3>1 DEF Open
    <3>3. NoTicker(p)' = NoTicker(p)
      BY <3>1 DEF NoTicker, Cfg
    <3>4. session'[p] = 0 /\ \A q \in Procs \ {p} : session'[q] = session[q]
      BY <1>3, <3>1
    <3> QED BY <1>1, <1>2, <1>3, <2>0, <3>1, <3>2, <3>3, <3>4, StepOfOne DEF Own
  <2>12. CASE End(p)
    <3>1. /\ phase' = [phase EXCEPT ![p] = "off"]
          /\ read' = [read EXCEPT ![p] = NoFile]
          /\ todo' = [todo EXCEPT ![p] = {}] /\ seen' = [seen EXCEPT ![p] = {}]
          /\ session' = [session EXCEPT ![p] = 0] /\ rows' = rows /\ next' = next
      BY <2>12 DEF End
    <3>2. Open' = Open
      BY <3>1 DEF Open
    <3> QED BY <1>1, <1>2, <1>3, <3>1, <3>2, StepOfOne DEF Own
  <2> QED BY <1>5, <2>1, <2>2, <2>3, <2>4, <2>5, <2>6, <2>7, <2>8, <2>9, <2>10,
             <2>11, <2>12 DEF Begin, Collect
<1> QED BY <1>4, <1>5 DEF LaunchNext

Bounds == shared \subseteq Ids /\ next <= MaxRows + 1

LEMMA BoundsStep == LInv /\ Bounds /\ [LaunchNext]_allVars => Bounds'
<1> SUFFICES ASSUME LInv, Bounds, [LaunchNext]_allVars PROVE Bounds'
  OBVIOUS
<1> USE DEF launchVars, processVars, tableVars, historyVars
<1>1. next \in Nat \ {0} /\ MaxRows \in Nat
  BY LaunchAssumption DEF LInv, TableOK
<1>2. CASE UNCHANGED allVars
  BY <1>2 DEF allVars, Bounds, Ids
<1>3. ASSUME NEW p \in Procs, Load(p) \/ Begin(p) \/ Collect(p) \/ End(p)
      PROVE  Bounds'
  <2>1. CASE Select(p)
    <3>1. next' = next /\ shared' \subseteq shared \cup Open
      BY <2>1 DEF Select
    <3>2. Open \subseteq Ids
      BY DEF LInv, TableOK, Open
    <3> QED BY <3>1, <3>2 DEF Bounds, Ids
  <2>2. CASE OpenSession(p)
    BY <1>1, <2>2 DEF OpenSession, Bounds, Ids
  <2>3. CASE ~Select(p) /\ ~OpenSession(p)
    <3>1. next' = next /\ shared' = shared
      BY <1>3, <2>3 DEF Load, Begin, Collect, OpenAndMigrate, SelectFails,
           RecoverOne, RecoverFails, Serve, Panic, CloseSession,
           CloseFails, End
    <3> QED BY <3>1 DEF Bounds, Ids
  <2> QED BY <2>1, <2>2, <2>3
<1> QED BY <1>2, <1>3 DEF LaunchNext

THEOREM LaunchInvariance == LaunchSpec => [](LInv /\ RInv)
<1>1. LaunchInit => LInv /\ RInv
  BY InitLInv, InitRInv
<1>2. (LInv /\ RInv) /\ [LaunchNext]_allVars => (LInv /\ RInv)'
  BY LaunchStep, RecoveryStep
<1> QED BY <1>1, <1>2, PTL DEF LaunchSpec

\* The recovery of a start leaves no selected row open but those the store
\* refused, for any number of rows and starts (sqlite.go:162-168).
THEOREM NoRowIsForgotten == LaunchSpec => []RecoveryGoesOn
<1>1. RInv => RecoveryGoesOn
  BY DEF RInv
<1> QED BY <1>1, LaunchInvariance, PTL

\* A start changes the schema as Migrate does and in no other way (main.go:45),
\* so that what is proved of migrations holds of starts.
THEOREM StartsMigrate == LaunchSpec => LaunchMigrates
<1>1. LaunchInit => MigrationInit
  BY DEF LaunchInit
<1>2. [LaunchNext]_allVars => [MigrationNext]_vars
  BY DEF LaunchNext, allVars, vars, MigrationNext, Load, Begin, Collect, End,
         OpenAndMigrate, Select, SelectFails, RecoverOne, RecoverFails, Serve,
         Panic, OpenSession, CloseSession, CloseFails
<1> QED BY <1>1, <1>2, PTL DEF LaunchSpec, LaunchMigrates

\* A process of any start that serves has the whole schema (main.go:45-52).
THEOREM WhoServesIsMigrated == LaunchSpec => []UpMeansMigrated
<1>1. IInv /\ [MigrationNext]_vars => IInv'
  BY StepIInv
<1>2. IInv => UpMeansMigrated
  BY UpFollows
<1> QED BY InitIInv, <1>1, <1>2, StartsMigrate, PTL DEF LaunchMigrates

\* Types, for every bound (main.go:22-115).
THEOREM LaunchTypeCorrect == LaunchSpec => []LaunchTypeOK
<1>1. LaunchInit => Bounds
  BY LaunchAssumption DEF LaunchInit, Bounds, Ids
<1>2. LInv /\ RInv /\ Bounds => LaunchTypeOK
  <2> SUFFICES ASSUME LInv, RInv, Bounds PROVE LaunchTypeOK
    OBVIOUS
  <2>1. TableOK /\ Phases /\ MaxRows \in Nat /\ next \in Nat \ {0}
    BY LaunchAssumption DEF RInv, TableOK
  <2>2. next \in 1 .. MaxRows + 1
    BY <2>1 DEF Bounds
  <2>3. Range(rows) \subseteq {"open", "closed"} /\ DOMAIN rows \subseteq 1 .. next - 1
    BY <2>1 DEF TableOK, Range, Ids
  <2>4. session \in [Procs -> 0 .. next - 1]
    BY <2>1 DEF TableOK, Ids
  <2>5. /\ todo \in [Procs -> SUBSET (1 .. next - 1)]
        /\ seen \in [Procs -> SUBSET (1 .. next - 1)]
        /\ finished \cup shared \subseteq 1 .. next - 1
    BY <2>1 DEF TableOK, Phases, Ids, Bounds
  <2>6. /\ read \in [Procs -> Files \cup {NoFile}]
        /\ phase \in [Procs -> {"off", "store", "recover", "serve", "panicked"}]
        /\ \A p \in Procs : /\ todo[p] # {} => phase[p] = "recover"
                            /\ session[p] # 0 => phase[p] = "serve"
    BY <2>1 DEF Phases
  <2> QED BY <2>2, <2>3, <2>4, <2>5, <2>6 DEF LaunchTypeOK
<1> QED BY <1>1, <1>2, BoundsStep, LaunchInvariance, PTL DEF LaunchSpec
=============================================================================
