SPECIFICATION MigrationSpec
CONSTANTS
    Procs = {p1}
    Objects <- MCObjects
    VersionTable = "schema_migrations"
    Scripts <- MCScripts
    CanFail = FALSE
    CanCrash = TRUE
INVARIANT StartNeverFails
