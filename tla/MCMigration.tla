----------------------------- MODULE MCMigration -----------------------------
(* The two scripts of internal/storage/migrations; indexes left out. *)
EXTENDS Migration

MCObjects == {"raw_events", "sessions", "meta", "schema_migrations", "note"}

Create(obj) == [obj |-> obj, ifNotExists |-> TRUE]
AddColumn(obj) == [obj |-> obj, ifNotExists |-> FALSE]

MCScripts ==
    << <<Create("raw_events"), Create("sessions"), Create("meta"),
         Create("schema_migrations")>>,
       <<AddColumn("note")>> >>
=============================================================================
