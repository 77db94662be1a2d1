-------------------------------- MODULE Launch --------------------------------
(***************************************************************************)
(* A start of the program (cmd/activitytracker/main.go), and a second one  *)
(* that nothing keeps from overlapping it: the settings of config.toml,    *)
(* the migrations, the recovery of the sessions an earlier process left    *)
(* open, and the tickers that are made of the settings.                    *)
(*                                                                         *)
(* A row is "open" or "closed"; times are left out.  Every process has the *)
(* database file and config.toml in common, and nothing else: each listens *)
(* on a port of its own.                                                   *)
(***************************************************************************)
EXTENDS Migration, FiniteSets, Functions

CONSTANTS
    Defaults,   \* the settings: name -> number
    Files,      \* what config.toml may be: [given, whole] records
    NoFile,     \* ... or that there is none
    MaxRows     \* bound on the sessions

Names == {"poll", "idle", "checkpoint", "min"}

\* The decoder has overwritten what is given when it comes to the end, or to
\* the line it cannot read.
ASSUME LaunchAssumption ==
    /\ Defaults \in [Names -> Nat \ {0}]
    /\ \A f \in Files : /\ f.whole \in BOOLEAN
                        /\ DOMAIN f.given \subseteq Names
                        /\ Range(f.given) \subseteq Int
    /\ NoFile \notin Files
    /\ MaxRows \in Nat

VARIABLES
    phase,    \* "off", "store", "recover", "serve" or "panicked"
    read,     \* the file a process found when it started
    todo,     \* the rows its recovery has selected and not yet closed
    session,  \* the row its collector has open, or 0
    rows,     \* the table: id -> "open" or "closed"
    next,     \* the id the next session will have
    seen,     \* the selected rows but those whose recovery the store refused
              \* (a history variable, like the next two)
    finished, \* sessions a collector closed after at least the minimum
    shared    \* rows selected while the collector that opened them still ran

processVars == <<phase, read, todo, session, seen>>
tableVars == <<rows, next>>
historyVars == <<finished, shared>>
launchVars == <<processVars, tableVars, historyVars>>
allVars == <<vars, launchVars>>

LaunchInit ==
    /\ MigrationInit
    /\ phase = [p \in Procs |-> "off"] /\ read = [p \in Procs |-> NoFile]
    /\ todo = [p \in Procs |-> {}] /\ session = [p \in Procs |-> 0]
    /\ seen = [p \in Procs |-> {}]
    /\ rows = [id \in {} |-> "open"] /\ next = 1
    /\ finished = {} /\ shared = {}

-----------------------------------------------------------------------------
(* config.Load                                                             *)

Decode(f) == [name \in Names |->
                IF name \in DOMAIN f.given THEN f.given[name] ELSE Defaults[name]]

Clamp(cfg) ==
    [name \in Names |-> IF name \in {"poll", "idle"} /\ cfg[name] < 1
                        THEN 1 ELSE cfg[name]]

\* What Load returns, with an error that main only logs or without.
Settings(f) ==
    IF f = NoFile \/ ~f.whole THEN Defaults ELSE Clamp(Decode(f))

Cfg(p) == Settings(read[p])

\* The user may edit the file between two starts.
Load(p) ==
    /\ phase[p] = "off" /\ pc[p] = "down"
    /\ phase' = [phase EXCEPT ![p] = "store"]
    /\ \E file \in Files \cup {NoFile} : read' = [read EXCEPT ![p] = file]
    /\ UNCHANGED <<vars, todo, session, seen, tableVars, historyVars>>

-----------------------------------------------------------------------------
(* Open, Migrate and RecoverCheckpoints                                    *)

OpenAndMigrate(p) ==
    /\ phase[p] = "store"
    /\ Start(p) \/ Migrate(p)
    /\ UNCHANGED launchVars

Open == {id \in DOMAIN rows : rows[id] = "open"}

Select_AllRows(p) ==
    /\ phase[p] = "store" /\ pc[p] = "up"
    /\ phase' = [phase EXCEPT ![p] = "recover"]
    /\ todo' = [todo EXCEPT ![p] = DOMAIN rows]
    /\ seen' = [seen EXCEPT ![p] = DOMAIN rows]
    /\ shared' = shared \cup (DOMAIN rows \cap Range(session))
    /\ UNCHANGED <<vars, read, session, tableVars, finished>>

\* The open rows, whoever opened them.
Select(p) ==
    /\ phase[p] = "store" /\ pc[p] = "up"
    /\ phase' = [phase EXCEPT ![p] = "recover"]
    /\ todo' = [todo EXCEPT ![p] = Open]
    /\ seen' = [seen EXCEPT ![p] = Open]
    /\ shared' = shared \cup (Open \cap Range(session))
    /\ UNCHANGED <<vars, read, session, tableVars, finished>>

SelectFails(p) ==
    /\ CanFail /\ phase[p] = "store" /\ pc[p] = "up"
    /\ phase' = [phase EXCEPT ![p] = "recover"]
    /\ UNCHANGED <<vars, read, todo, session, seen, tableVars, historyVars>>

\* CloseSession on the table: below the minimum the row is deleted; an id that
\* is not in the table is no error.
Close(id, short) ==
    IF short THEN Restrict(rows, DOMAIN rows \ {id})
    ELSE [i \in DOMAIN rows |-> IF i = id THEN "closed" ELSE rows[i]]

\* No duration was ever saved: it is 0, as it was selected, even if the row
\* has been closed since.
RecoverOne(p) ==
    /\ phase[p] = "recover"
    /\ \E id \in todo[p] :
        /\ todo' = [todo EXCEPT ![p] = @ \ {id}]
        /\ rows' = Close(id, 0 < Cfg(p)["min"])
    /\ UNCHANGED <<vars, phase, read, session, seen, next, historyVars>>

RecoverFails_GivesUp(p) ==
    /\ CanFail /\ phase[p] = "recover"
    /\ \E id \in todo[p] :
        /\ todo' = [todo EXCEPT ![p] = {}]
        /\ seen' = [seen EXCEPT ![p] = @ \ {id}]
    /\ UNCHANGED <<vars, phase, read, session, tableVars, historyVars>>

\* The error is logged; the loop goes on with the next row.
RecoverFails(p) ==
    /\ CanFail /\ phase[p] = "recover"
    /\ \E id \in todo[p] :
        /\ todo' = [todo EXCEPT ![p] = @ \ {id}]
        /\ seen' = [seen EXCEPT ![p] = @ \ {id}]
    /\ UNCHANGED <<vars, phase, read, session, tableVars, historyVars>>

-----------------------------------------------------------------------------
(* The monitor, the collector and the end                                  *)

Serve_BeforeRecovery(p) ==
    /\ phase[p] = "recover"
    /\ phase' = [phase EXCEPT ![p] = "serve"]
    /\ seen' = [seen EXCEPT ![p] = {}]
    /\ UNCHANGED <<vars, read, todo, session, tableVars, historyVars>>

Serve_WhenNoneIsOpen(p) ==
    /\ phase[p] = "recover" /\ todo[p] = {} /\ Open = {}
    /\ phase' = [phase EXCEPT ![p] = "serve"]
    /\ seen' = [seen EXCEPT ![p] = {}]
    /\ UNCHANGED <<vars, read, todo, session, tableVars, historyVars>>

\* Their goroutines are started, and the report server.
Serve(p) ==
    /\ phase[p] = "recover" /\ todo[p] = {}
    /\ phase' = [phase EXCEPT ![p] = "serve"]
    /\ seen' = [seen EXCEPT ![p] = {}]
    /\ UNCHANGED <<vars, read, todo, session, tableVars, historyVars>>

\* time.NewTicker refuses a period that is not positive.
NoTicker(p) == Cfg(p)["poll"] <= 0 \/ Cfg(p)["checkpoint"] <= 0

\* One of the two goroutines panics, and takes the process with it.
Panic(p) ==
    /\ phase[p] = "serve" /\ NoTicker(p)
    /\ phase' = [phase EXCEPT ![p] = "panicked"]
    /\ UNCHANGED <<vars, read, todo, session, seen, tableVars, historyVars>>

\* With no time to be idle in, every event finds the user away.
OpenSession(p) ==
    /\ phase[p] = "serve" /\ ~NoTicker(p) /\ Cfg(p)["idle"] > 0
    /\ session[p] = 0 /\ next <= MaxRows
    /\ session' = [session EXCEPT ![p] = next]
    /\ next' = next + 1
    /\ rows' = [id \in DOMAIN rows \cup {next} |-> IF id = next THEN "open" ELSE rows[id]]
    /\ UNCHANGED <<vars, phase, read, todo, seen, historyVars>>

CloseSession(p) ==
    /\ session[p] # 0
    /\ session' = [session EXCEPT ![p] = 0]
    /\ \E short \in BOOLEAN :
        /\ short => 0 < Cfg(p)["min"]
        /\ rows' = Close(session[p], short)
        /\ finished' = IF short THEN finished ELSE finished \cup {session[p]}
    /\ UNCHANGED <<vars, phase, read, todo, seen, next, shared>>

\* The error is logged; the collector is rid of its session all the same.
CloseFails(p) ==
    /\ CanFail /\ session[p] # 0
    /\ session' = [session EXCEPT ![p] = 0]
    /\ UNCHANGED <<vars, phase, read, todo, seen, tableVars, historyVars>>

\* A fatal error, a crash, a panic or Quit: an open row stays open.
End(p) ==
    /\ phase[p] # "off" /\ Ends(p)
    /\ phase' = [phase EXCEPT ![p] = "off"]
    /\ read' = [read EXCEPT ![p] = NoFile]
    /\ todo' = [todo EXCEPT ![p] = {}] /\ seen' = [seen EXCEPT ![p] = {}]
    /\ session' = [session EXCEPT ![p] = 0]
    /\ UNCHANGED <<tableVars, historyVars>>

Exit(p) == pc[p] = "fatal" /\ End(p)

-----------------------------------------------------------------------------
Begin(p) == \/ OpenAndMigrate(p) \/ Select(p) \/ SelectFails(p)
            \/ RecoverOne(p) \/ RecoverFails(p) \/ Serve(p)

Collect(p) == Panic(p) \/ OpenSession(p) \/ CloseSession(p) \/ CloseFails(p)

LaunchNext == \E p \in Procs : Load(p) \/ Begin(p) \/ Collect(p) \/ End(p)

\* main runs on until it serves, or log.Fatalf has been called and ends it.
\* Nothing is assumed of the user.
LaunchSpec == /\ LaunchInit /\ [][LaunchNext]_allVars
              /\ \A p \in Procs : WF_allVars(Begin(p) \/ Exit(p))

-----------------------------------------------------------------------------
\* Every variable stays in its type; nothing is left to recover when a process
\* serves, and only then has it a session (main.go:22-115).
LaunchTypeOK ==
    /\ read \in [Procs -> Files \cup {NoFile}]
    /\ phase \in [Procs -> {"off", "store", "recover", "serve", "panicked"}]
    /\ next \in 1 .. MaxRows + 1
    /\ DOMAIN rows \subseteq 1 .. next - 1 /\ Range(rows) \subseteq {"open", "closed"}
    /\ todo \in [Procs -> SUBSET (1 .. next - 1)]
    /\ seen \in [Procs -> SUBSET (1 .. next - 1)]
    /\ session \in [Procs -> 0 .. next - 1]
    /\ \A p \in Procs : /\ todo[p] # {} => phase[p] = "recover"
                        /\ session[p] # 0 => phase[p] = "serve"
    /\ finished \cup shared \subseteq 1 .. next - 1

\* A session its collector closed stays in the table, closed, unless another
\* start had selected the row while it was open: then it is as good as gone,
\* even if the collector closes it before the recovery comes to it (main.go:48;
\* sqlite.go:137-168).
OnlyOverlapLoses ==
    \A id \in finished \ shared : id \in DOMAIN rows /\ rows[id] = "closed"

\* One row whose recovery fails does not keep the others from it: a row that
\* was open at a start is closed or deleted before it serves, but for those
\* (sqlite.go:162-168; main.go:48).
RecoveryGoesOn ==
    \A p \in Procs : phase[p] = "recover" => seen[p] \cap Open \subseteq todo[p]

\* A start ends: it serves or is over, whatever the store refuses and whoever
\* starts at the same time (main.go:36-52).
StartEnds ==
    \A p \in Procs : phase[p] = "store" ~> phase[p] \notin {"store", "recover"}

\* Seen from the database, starts are nothing but migrations: the theorems
\* about those hold here (main.go:45).
LaunchMigrates == MigrationInit /\ [][MigrationNext]_vars
=============================================================================
