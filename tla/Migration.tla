------------------------------ MODULE Migration ------------------------------
(***************************************************************************)
(* DB.Migrate of internal/storage/sqlite.go, run by every start of the     *)
(* program on one database file.  Each statement of a script commits by    *)
(* itself, and the version is recorded by another one after the script: a  *)
(* crash or a second instance may come between any two of them.            *)
(***************************************************************************)
EXTENDS Integers, Sequences

CONSTANTS
    Procs,      \* starts of the program that may overlap
    Objects,    \* tables, indexes and columns
    VersionTable, \* schema_migrations, one of the tables
    Scripts,    \* the *.up.sql files in order: sequences of statements
    CanFail,    \* TRUE: a statement may return an error (a locked file)
    CanCrash    \* TRUE: a process may die anywhere

\* A statement adds an object; without IF NOT EXISTS it fails on one that is
\* there already.
Statement == [obj : Objects, ifNotExists : BOOLEAN]
Versions == 1 .. Len(Scripts)

ASSUME MigrationAssumption ==
    /\ VersionTable \in Objects
    /\ Scripts \in Seq(Seq(Statement))
    /\ \A v \in Versions : Scripts[v] # <<>>
    /\ {CanFail, CanCrash} \subseteq BOOLEAN

Adds(v) == {Scripts[v][n].obj : n \in 1 .. Len(Scripts[v])}

VARIABLES
    schema,    \* the objects in the file
    recorded,  \* the versions in schema_migrations
    pc,        \* "down", "check", "apply", "record", "up", "fatal"
    ver,       \* Migrate's version
    stmt       \* the statement of the script that is next

vars == <<schema, recorded, pc, ver, stmt>>

Go(p, where, v, n) ==
    /\ pc' = [pc EXCEPT ![p] = where]
    /\ ver' = [ver EXCEPT ![p] = v]
    /\ stmt' = [stmt EXCEPT ![p] = n]

\* The file an earlier release left, or none.
MigrationInit ==
    /\ \E last \in 0 .. Len(Scripts) :
        /\ recorded = 1 .. last
        /\ schema = UNION {Adds(v) : v \in 1 .. last}
    /\ pc = [p \in Procs |-> "down"]
    /\ ver = [p \in Procs |-> 1]
    /\ stmt = [p \in Procs |-> 1]

-----------------------------------------------------------------------------
\* Open, and CREATE TABLE IF NOT EXISTS schema_migrations.
Start(p) ==
    /\ pc[p] = "down"
    /\ schema' = schema \cup {VersionTable}
    /\ Go(p, "check", 1, 1)
    /\ UNCHANGED recorded

Skip_AnyRecord(p) ==
    /\ pc[p] = "check" /\ ver[p] \in Versions
    /\ recorded # {}
    /\ Go(p, "check", ver[p] + 1, 1)
    /\ UNCHANGED <<schema, recorded>>

\* SELECT COUNT(*) finds the version.
Skip(p) ==
    /\ pc[p] = "check" /\ ver[p] \in Versions
    /\ ver[p] \in recorded
    /\ Go(p, "check", ver[p] + 1, 1)
    /\ UNCHANGED <<schema, recorded>>

\* It does not, or it fails: the error is ignored and exists stays 0.
BeginScript(p) ==
    /\ pc[p] = "check" /\ ver[p] \in Versions
    /\ ver[p] \notin recorded \/ CanFail
    /\ Go(p, "apply", ver[p], 1)
    /\ UNCHANGED <<schema, recorded>>

\* One statement of the script, committed at once.
Apply(p) ==
    /\ pc[p] = "apply"
    /\ LET s == Scripts[ver[p]][stmt[p]] IN
        /\ s.ifNotExists \/ s.obj \notin schema
        /\ schema' = schema \cup {s.obj}
    /\ IF stmt[p] < Len(Scripts[ver[p]])
       THEN Go(p, "apply", ver[p], stmt[p] + 1)
       ELSE Go(p, "record", ver[p], 1)
    /\ UNCHANGED recorded

Duplicate(p) ==
    /\ pc[p] = "apply"
    /\ LET s == Scripts[ver[p]][stmt[p]] IN ~s.ifNotExists /\ s.obj \in schema
    /\ Go(p, "fatal", 1, 1)
    /\ UNCHANGED <<schema, recorded>>

Record(p) ==
    /\ pc[p] = "record" /\ ver[p] \notin recorded
    /\ recorded' = recorded \cup {ver[p]}
    /\ Go(p, "check", ver[p] + 1, 1)
    /\ UNCHANGED schema

\* Another instance recorded the version: the primary key refuses.
RecordTwice(p) ==
    /\ pc[p] = "record" /\ ver[p] \in recorded
    /\ Go(p, "fatal", 1, 1)
    /\ UNCHANGED <<schema, recorded>>

Done(p) ==
    /\ pc[p] = "check" /\ ver[p] \notin Versions
    /\ Go(p, "up", ver[p], 1)
    /\ UNCHANGED <<schema, recorded>>

\* Its first statement, one of a script or the record of it returns an error:
\* log.Fatalf("storage: migrate: ...").
Fails(p) ==
    /\ CanFail /\ pc[p] \in {"down", "apply", "record"}
    /\ Go(p, "fatal", 1, 1)
    /\ UNCHANGED <<schema, recorded>>

\* The process is over: it crashed, gave up, or the user quit.
Ends(p) ==
    /\ \/ pc[p] \in {"up", "fatal"}
       \/ CanCrash /\ pc[p] \in {"check", "apply", "record"}
    /\ Go(p, "down", 1, 1)
    /\ UNCHANGED <<schema, recorded>>

Migrate(p) == \/ Skip(p) \/ BeginScript(p) \/ Apply(p) \/ Duplicate(p)
              \/ Record(p) \/ RecordTwice(p) \/ Done(p) \/ Fails(p)

MigrationNext == \E p \in Procs : Start(p) \/ Migrate(p) \/ Ends(p)

MigrationSpec == MigrationInit /\ [][MigrationNext]_vars

-----------------------------------------------------------------------------
\* Every variable stays in its type (sqlite.go:37-70).
MigrationTypeOK ==
    /\ schema \subseteq Objects
    /\ recorded \subseteq Versions
    /\ pc \in [Procs -> {"down", "check", "apply", "record", "up", "fatal"}]
    /\ ver \in [Procs -> 1 .. Len(Scripts) + 1]
    /\ stmt \in [Procs -> Nat]
    /\ \A p \in Procs : pc[p] \in {"apply", "record"} => ver[p] \in Versions
    /\ \A p \in Procs : IF pc[p] = "apply" THEN stmt[p] \in 1 .. Len(Scripts[ver[p]])
                                           ELSE stmt[p] = 1

\* A recorded version is a version whose whole script took effect, whoever
\* died half-way and whoever ran it at the same time (sqlite.go:47-67).
RecordedIsApplied == \A v \in recorded : Adds(v) \subseteq schema

\* Scripts are recorded in the order of their versions: no database claims a
\* later one without the earlier (sqlite.go:47-66).
RecordedInOrder == \A v \in recorded : 1 .. v \subseteq recorded

\* A process that serves requests and records sessions has every table and
\* column its statements name (main.go:45-47).
UpMeansMigrated ==
    \A p \in Procs : pc[p] = "up" => \A v \in Versions : Adds(v) \subseteq schema

\* The constitution: "Every write operation MUST be atomic or explicitly
\* transactional".  An interrupted start does not keep the next ones from
\* starting (sqlite.go:59-66; main.go:45-47).
StartNeverFails == \A p \in Procs : pc[p] # "fatal"
=============================================================================
