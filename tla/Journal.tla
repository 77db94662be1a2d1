------------------------------- MODULE Journal -------------------------------
(***************************************************************************)
(* What the program promises its user, with no process, table or statement *)
(* in sight: sessions begin, are finished or dropped as too short, may be  *)
(* annotated once they are finished, and go with the day they belong to.   *)
(* A finished session never overlaps another, never changes but for its    *)
(* note, and a deleted one never comes back.  Tracker implements this.     *)
(***************************************************************************)
EXTENDS Integers

CONSTANTS
    Names,       \* context types and labels
    NoNote,      \* the empty note
    MinSession   \* nothing shorter is kept

VARIABLES
    count,    \* sessions ever begun; the newest one's id
    ongoing,  \* sessions begun, neither finished nor dropped
    history   \* finished sessions

journalVars == <<count, ongoing, history>>

\* What a finished session says of the one that was begun.
Begun(s) == [id |-> s.id, day |-> s.day, type |-> s.type, label |-> s.label,
             start |-> s.start]

\* The card a note is about.
About(s) == [start |-> s.start, label |-> s.label]

JournalInit == count = 0 /\ ongoing = {} /\ history = {}

Begin ==
    /\ count' = count + 1
    /\ \E s \in ongoing' :
        /\ s.id = count' /\ {s.type, s.label} \subseteq Names
        /\ \A h \in history : h.end <= s.start
        /\ ongoing' = ongoing \cup {s}
    /\ UNCHANGED history

Finish ==
    /\ \E s \in ongoing : \E h \in history' :
        /\ Begun(h) = s /\ h.note = NoNote
        /\ h.dur >= MinSession
        /\ \A other \in history : h.end <= other.start \/ other.end <= h.start
        /\ ongoing' = ongoing \ {s}
        /\ history' = history \cup {h}
    /\ UNCHANGED count

Drop ==
    /\ \E s \in ongoing : ongoing' = ongoing \ {s}
    /\ UNCHANGED <<count, history>>

Annotate ==
    /\ \E h \in history : \E note \in {NoNote, About(h)} :
        history' = (history \ {h}) \cup {[h EXCEPT !.note = note]}
    /\ UNCHANGED <<count, ongoing>>

Forget ==
    /\ \E gone \in {s.day : s \in ongoing \cup history} :
        /\ ongoing' = {s \in ongoing : s.day # gone}
        /\ history' = {h \in history : h.day # gone}
    /\ UNCHANGED count

JournalNext == Begin \/ Finish \/ Drop \/ Annotate \/ Forget

JournalSpec == JournalInit /\ [][JournalNext]_journalVars
=============================================================================
