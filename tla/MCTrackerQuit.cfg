SPECIFICATION TrackerSpec
CONSTANTS
    Contexts <- MCOneContext
    DayLen = 3
    MinSession = 1
    NoNote = NoNote
    Names <- MCNames
    NoText = ""
    SleepGap = 2
    SleepCredit = 2
    IdleTimeout = 2
    CheckpointSecs = 2
    ChanCap = 1
    MaxNow = 3
    Delays = FALSE
    ExactIdle = TRUE
    StoreCanFail = FALSE
    MonitorMayEnd = FALSE
INVARIANT QuitKeepsSession
