SPECIFICATION Spec
CONSTANTS
    Types = {"vscode", "browser", "other"}
    Labels = {"a", "b"}
    Work = {"a"}
    Play = {"a", "b"}
    Durs = {1, 2, 3}
    Gaps = {0}
    Starts = {1, 10}
    DayLen = 12
    MaxRows = 4
    Adjacency = 2
    Resolved <- MCResolved
    NoPath = NoPath
    Toplevel <- MCToplevel
    NoRoot = NoRoot
    SubDirs <- MCSubDirs
    Committed = {"a", "lib"}
    Lag = 0
    Short = 3
    Noon = 4
    Evening = 7
    MinWidth = 1
INVARIANTS
    GroupsAreThePartition
    TotalsAgree
    CommitsListedOnce
    ItemsCoverTheDay
    RunsAreMaximal
    PeriodsPartition
    StripShowsTheDay
    PctsHonest
