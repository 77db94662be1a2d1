SPECIFICATION TrackerSpec
CONSTANTS
    Contexts <- MCContexts
    DayLen = 3
    MinSession = 1
    NoNote = NoNote
    Names <- MCNames
    NoText = ""
    SleepGap = 2
    SleepCredit = 2
    IdleTimeout = 2
    CheckpointSecs = 2
    ChanCap = 1
    MaxNow = 4
    Delays = FALSE
    ExactIdle = TRUE
    StoreCanFail = TRUE
    MonitorMayEnd = FALSE
INVARIANTS
    OneOpenAcrossRestarts
    RowsDisjoint
    NoteOnTheRightSession
PROPERTIES
    TimesStable
    JournalKept
