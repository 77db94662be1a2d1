-------------------------------- MODULE Focus --------------------------------
(***************************************************************************)
(* internal/ui/focus.go: BuildFocusStats adds the sessions of the day up   *)
(* in three categories, and the page shows each as a percentage made with  *)
(* integer division.                                                       *)
(***************************************************************************)
EXTENDS Day

CONSTANTS
    Work,   \* browser labels that match productiveKeywords
    Play    \* browser labels that match distractionKeywords only

ASSUME FocusAssumption == Work \subseteq Labels /\ Play \subseteq Labels

VARIABLES
    productive,  \* ProductiveSecs
    distraction, \* DistractionSecs
    neutral      \* NeutralSecs

focusVars == <<productive, distraction, neutral>>

FocusInit == productive = 0 /\ distraction = 0 /\ neutral = 0

-----------------------------------------------------------------------------
IsProductive(s) ==
    s.type \in {"vscode", "meeting"} \/ (s.type = "browser" /\ s.label \in Work)

IsDistraction(s) == s.type = "browser" /\ s.label \in Play \ Work

AddProductive ==
    /\ pc = "add" /\ i <= Len(day) /\ IsProductive(day[i])
    /\ productive' = productive + day[i].dur /\ i' = i + 1
    /\ UNCHANGED <<day, pc, distraction, neutral>>

AddDistraction ==
    /\ pc = "add" /\ i <= Len(day) /\ IsDistraction(day[i])
    /\ distraction' = distraction + day[i].dur /\ i' = i + 1
    /\ UNCHANGED <<day, pc, productive, neutral>>

AddNeutral ==
    /\ pc = "add" /\ i <= Len(day)
    /\ ~IsProductive(day[i]) /\ ~IsDistraction(day[i])
    /\ neutral' = neutral + day[i].dur /\ i' = i + 1
    /\ UNCHANGED <<day, pc, productive, distraction>>

Added ==
    /\ pc = "add" /\ i > Len(day)
    /\ pc' = "done"
    /\ UNCHANGED <<day, i, focusVars>>

FocusNext == AddProductive \/ AddDistraction \/ AddNeutral \/ Added

-----------------------------------------------------------------------------
FocusTotal == productive + distraction + neutral

Pct_RoundsUp(secs, total) ==
    IF total > 0 THEN (secs * 100 + total - 1) \div total ELSE 0

\* ProductivePct and DistractionPct.
Pct(secs, total) == IF total > 0 THEN (secs * 100) \div total ELSE 0

ProductivePct == Pct(productive, FocusTotal)
DistractionPct == Pct(distraction, FocusTotal)

\* What the other two leave; a negative rest would be shown as 0.
Rest == 100 - ProductivePct - DistractionPct
NeutralPct == IF Rest < 0 THEN 0 ELSE Rest

\* The three percentages of the page make 100, whatever the divisions round
\* off: the clamp of NeutralPct never takes effect (focus.go:18-38).
PctsMakeHundred == ProductivePct + DistractionPct + NeutralPct = 100

\* No category is shown more than two points from its true share: neutral
\* pays for both roundings, the others lose less than one (focus.go:18-38).
PctsHonest ==
    FocusTotal > 0 =>
        /\ ProductivePct * FocusTotal \in productive * 100 - FocusTotal + 1 .. productive * 100
        /\ DistractionPct * FocusTotal \in distraction * 100 - FocusTotal + 1 .. distraction * 100
        /\ NeutralPct * FocusTotal \in neutral * 100 .. neutral * 100 + 2 * FocusTotal - 2
=============================================================================
