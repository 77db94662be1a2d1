SPECIFICATION Spec
CONSTANTS
    Texts = {Empty, Blank, TooLong, Text}
    Empty = Empty
    Blank = Blank
    TooLong = TooLong
    MaxId = 1
    MaxLive = 1
    MaxPolls = 2
    MaxStrays = 1
INVARIANTS
    ShownWasStored
    CopyMatchesCards
    BadgesAgree
PROPERTIES
    SaveEnds
    WidgetConverges
