------------------------------ MODULE MCLaunch ------------------------------
(* Two starts on one file, the scripts of MCMigration, and a config.toml of *)
(* every kind: none, one that breaks off, one that gives what is clamped    *)
(* and one that gives what is not.                                          *)
EXTENDS Launch

MCObjects == {"raw_events", "sessions", "schema_migrations", "note"}

Create(obj) == [obj |-> obj, ifNotExists |-> TRUE]
AddColumn(obj) == [obj |-> obj, ifNotExists |-> FALSE]

MCScripts == << <<Create("raw_events"), Create("sessions")>>,
                <<AddColumn("note")>> >>

MCDefaults == [poll |-> 5, idle |-> 10, checkpoint |-> 60, min |-> 30]

MCFiles == {[whole |-> FALSE, given |-> [poll |-> 0, checkpoint |-> 0]],
            [whole |-> TRUE,  given |-> [poll |-> 0, idle |-> 0, min |-> 0]],
            [whole |-> TRUE,  given |-> [checkpoint |-> 0]]}
=============================================================================
