SPECIFICATION LaunchSpec
CONSTANTS
    Procs = {p1, p2}
    Objects <- MCObjects
    VersionTable = "schema_migrations"
    Scripts <- MCScripts
    CanFail = TRUE
    CanCrash = TRUE
    Defaults <- MCDefaults
    Files <- MCFiles
    NoFile = NoFile
    MaxRows = 2
INVARIANTS
    LaunchTypeOK
    UpMeansMigrated
    OnlyOverlapLoses
    RecoveryGoesOn
PROPERTIES
    StartEnds
