------------------------------ MODULE Classifier ------------------------------
(***************************************************************************)
(* internal/monitor/classifier: what kind of context a window is, and what *)
(* it is called, by the name of its process and its title.                 *)
(*                                                                         *)
(* A title is the sequence of its words, where separators, brands and      *)
(* suffixes count as words: the code looks for nothing else inside one.    *)
(* Process names are in lower case here.                                   *)
(***************************************************************************)
EXTENDS Integers, Sequences

CONSTANT OtherLen  \* words a label of an unknown program is cut to (100 runes)

ASSUME ClassifierAssumption == OtherLen \in Nat

EM == " -- "  \* an em dash
HY == " - "
Space == " "

vsCodeProcesses == {"code.exe", "code", "code-insiders", "code - insiders",
                    "codium", "vscodium", "cursor", "cursor.exe"}
teamsProcesses == {"ms-teams.exe", "teams.exe"}
zoomProcesses == {"zoom.exe", "us.zoom.xip"}
browserProcesses == {"chrome.exe", "msedge.exe", "firefox.exe", "brave.exe",
                     "google-chrome", "chrome", "firefox", "firefox-esr",
                     "brave", "msedge"}

vscodeSuffixes ==
    << <<EM, "Visual Studio Code", HY, "Insiders">>,
       <<HY, "Visual Studio Code", HY, "Insiders">>,
       <<EM, "Visual Studio Code">>, <<HY, "Visual Studio Code">>,
       <<EM, "VSCodium">>, <<HY, "VSCodium">>, <<EM, "Codium">>, <<HY, "Codium">>,
       <<EM, "Cursor">>, <<HY, "Cursor">> >>

browserSuffixes ==
    << <<HY, "Google Chrome">>, <<EM, "Google Chrome">>,
       <<HY, "Microsoft Edge">>, <<EM, "Microsoft Edge">>,
       <<HY, "Mozilla Firefox">>, <<EM, "Mozilla Firefox">>,
       <<HY, "Firefox">>, <<EM, "Firefox">>, <<HY, "Brave">>, <<EM, "Brave">> >>

-----------------------------------------------------------------------------
\* Where the words of s stand in t.
Places(t, s) ==
    {k \in 1 .. Len(t) - Len(s) + 1 : SubSeq(t, k, k + Len(s) - 1) = s}

Smallest(numbers) == CHOOSE k \in numbers : \A j \in numbers : k <= j

Index(t, s) == Smallest(Places(t, s))
LastIndex(t, s) == CHOOSE k \in Places(t, s) : \A j \in Places(t, s) : j <= k

Contains(t, s) == Places(t, s) # {}
Before(t, k) == SubSeq(t, 1, k - 1)
After(t, k) == SubSeq(t, k + 1, Len(t))

TrimSuffix(t, word) ==
    IF t # <<>> /\ t[Len(t)] = word THEN SubSeq(t, 1, Len(t) - 1) ELSE t

TrimSpace(t) ==
    LET solid == {k \in DOMAIN t : t[k] # Space}
    IN  IF solid = {} THEN <<>>
        ELSE SubSeq(t, Smallest(solid), CHOOSE k \in solid : \A j \in solid : j <= k)

-----------------------------------------------------------------------------
\* The first suffix of the list that the title has anywhere, and what comes
\* before its last occurrence.
WithoutBrand(t) ==
    LET found == {k \in DOMAIN vscodeSuffixes : Contains(t, vscodeSuffixes[k])}
    IN  IF found = {} THEN t
        ELSE Before(t, LastIndex(t, vscodeSuffixes[Smallest(found)]))

LastSegment_HyphenFirst(t) ==
    IF Contains(t, <<HY>>) THEN After(t, LastIndex(t, <<HY>>))
    ELSE IF Contains(t, <<EM>>) THEN After(t, LastIndex(t, <<EM>>))
    ELSE t

\* The em dash comes first: a title that has one is split there.
LastSegment(t) ==
    IF Contains(t, <<EM>>) THEN After(t, LastIndex(t, <<EM>>))
    ELSE IF Contains(t, <<HY>>) THEN After(t, LastIndex(t, <<HY>>))
    ELSE t

extractVSCodeWorkspace(windowTitle) ==
    LET rest == LastSegment(WithoutBrand(windowTitle))
    IN  IF rest = <<>> THEN windowTitle ELSE TrimSuffix(rest, " (Workspace)")

extractBrowserTitle(windowTitle) ==
    LET Page(k) ==
            TrimSpace(Before(windowTitle, LastIndex(windowTitle, browserSuffixes[k])))
        found == {k \in DOMAIN browserSuffixes :
                    Contains(windowTitle, browserSuffixes[k]) /\ Page(k) # <<>>}
    IN  IF found # {} THEN Page(Smallest(found))
        ELSE IF windowTitle = <<>> THEN <<"browser/research">> ELSE windowTitle

extractTeamsMeeting(windowTitle) ==
    LET suffix == <<" | Microsoft Teams">>
    IN  IF Contains(windowTitle, suffix)
        THEN Before(windowTitle, Index(windowTitle, suffix))
        ELSE <<"Microsoft Teams">>

\* Anything else keeps its title, cut.
Classify(processName, windowTitle) ==
    CASE processName \in vsCodeProcesses ->
            [type |-> "vscode", label |-> extractVSCodeWorkspace(windowTitle)]
      [] processName \in teamsProcesses ->
            [type |-> "meeting", label |-> extractTeamsMeeting(windowTitle)]
      [] processName \in zoomProcesses ->
            [type |-> "meeting", label |-> <<"Zoom Meeting">>]
      [] processName \in browserProcesses ->
            [type |-> "browser", label |-> extractBrowserTitle(windowTitle)]
      [] OTHER ->
            [type |-> "other",
             label |-> SubSeq(windowTitle, 1, Smallest({Len(windowTitle), OtherLen}))]
=============================================================================
