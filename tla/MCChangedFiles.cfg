SPECIFICATION Spec
CONSTANTS
    Tree <- MCTree
    Cap = 2
    Second = 2
    MaxSessions = 2
    MaxSaves = 3
    MaxNow = 6
INVARIANTS
    ListedWereSaved
    LastSaveListed
