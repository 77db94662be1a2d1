SPECIFICATION WorkspacesSpec
CONSTANTS
    Windows <- MCWindows
    NoProc = ""
    OtherLen = 2
    OneHandle = TRUE
    Interval = 1
    ChanCap = 1
    MaxNow = 2
    Storage <- MCStorage
    Reqs = {r1, r2}
INVARIANTS
    ObservationIsOneWindow
    LabelIsWorkspace
    MostRecentWins
    MissesSettle
PROPERTIES
    StreamRefined
    StopCloses
