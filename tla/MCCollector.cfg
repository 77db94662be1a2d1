SPECIFICATION CollectorSpec
CONSTANTS
    Contexts <- MCContexts
    DayLen = 6
    MinSession = 1
    NoNote = NoNote
    Names <- MCNames
    NoText = ""
    SleepGap = 1
    SleepCredit = 1
    IdleTimeout = 2
    CheckpointSecs = 2
    ChanCap = 2
    MaxNow = 3
    Delays = TRUE
    ExactIdle = FALSE
    StoreCanFail = TRUE
    MonitorMayEnd = TRUE
INVARIANTS
    TypeOK
    RowsDisjoint
    LiveMatchesRow
    LiveLabelFresh
PROPERTIES
    CancelReturns
    IdleSessionCloses
