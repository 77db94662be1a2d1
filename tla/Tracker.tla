------------------------------- MODULE Tracker -------------------------------
(***************************************************************************)
(* The whole program around one database file: cmd/activitytracker/main.go *)
(* starts the process, recovers the checkpoints the previous one left and  *)
(* runs the collector beside the report server of internal/ui; Quit        *)
(* cancels the context and ends the process; a crash or a power cut ends   *)
(* it anywhere.  The table and its counter survive, everything else does   *)
(* not.                                                                    *)
(***************************************************************************)
EXTENDS Collector

VARIABLES
    proc,    \* the process: "crashed", "exited", "recovering" or "up"
    todo,    \* RecoverCheckpoints' stale: rows selected, not yet closed
    page,    \* the cards of the report page open in the browser
    diedAt   \* when the last collector was stopped (a history variable)

procVars == <<proc, todo, page, diedAt>>
trackerVars == <<vars, procVars>>

Down == proc \in {"crashed", "exited"}

TrackerInit ==
    /\ WorldInit /\ ProcessInit("returned")
    /\ proc = "exited" /\ todo = {} /\ page = {} /\ diedAt = 0

-----------------------------------------------------------------------------
(* main: open, recover, run                                                *)

\* Open and Migrate leave the rows alone; RecoverCheckpoints first reads the
\* whole result of its SELECT.
Start ==
    /\ Down
    /\ proc' = "recovering"
    /\ todo' = OpenRows(sessions)
    /\ UNCHANGED <<vars, page, diedAt>>

\* Each stale row is closed by a statement of its own.
RecoverOne ==
    /\ proc = "recovering"
    /\ \E r \in todo :
        /\ todo' = todo \ {r}
        /\ sessions' = RecoverCheckpoint(sessions, r)
    /\ UNCHANGED <<envVars, runVars, liveVars, seq, orphans, proc, page, diedAt>>

\* An error is logged and the loop goes on; the row stays a checkpoint.
RecoverFails ==
    /\ proc = "recovering" /\ StoreCanFail
    /\ \E r \in todo : todo' = todo \ {r} /\ orphans' = orphans \cup {r.id}
    /\ UNCHANGED <<envVars, runVars, liveVars, sessions, seq, proc, page, diedAt>>

Up_BeforeRecovery ==
    /\ proc = "recovering"
    /\ proc' = "up"
    /\ todo' = {}
    /\ pc' = "select"
    /\ lastTick' = now
    /\ UNCHANGED <<now, lastInput, queue, ended, checkpointC, cancelled>>
    /\ UNCHANGED <<evt, lastPoll, job, opened, liveVars, dbVars,
                   page, diedAt>>

\* go coll.Run; the monitor's ticker is created now.
Up ==
    /\ proc = "recovering" /\ todo = {}
    /\ proc' = "up"
    /\ pc' = "select"
    /\ lastTick' = now
    /\ UNCHANGED <<now, lastInput, queue, ended, checkpointC, cancelled>>
    /\ UNCHANGED <<evt, lastPoll, job, opened, liveVars, dbVars,
                   todo, page, diedAt>>

\* Everything in memory is gone; the next report server listens on another
\* port, so a page of this one can post nothing any more.
ProcessEnds(how) ==
    /\ proc' = how
    /\ diedAt' = IF proc = "up" THEN now ELSE diedAt
    /\ todo' = {} /\ page' = {}
    /\ queue' = <<>> /\ ended' = FALSE
    /\ checkpointC' = FALSE /\ cancelled' = FALSE
    /\ pc' = "returned" /\ evt' = NoContext
    /\ lastPoll' = NULL /\ job' = NoJob /\ opened' = 0
    /\ active' = NoSession /\ sessionStart' = 0
    /\ UNCHANGED <<now, lastInput, lastTick, dbVars>>

Crash == ~Down /\ ProcessEnds("crashed")

\* onQuit cancels, systray.Run returns and main returns: nothing waits for Run.
Exit == proc = "up" /\ cancelled /\ ProcessEnds("exited")

-----------------------------------------------------------------------------
(* The handlers of the report server                                       *)

HandleReport_AllCards ==
    /\ proc = "up"
    /\ \E day \in {r.day : r \in sessions} :
        page' = {[id |-> r.id, start |-> r.start, label |-> r.label] :
                    r \in SessionsForDay(sessions, day)}
    /\ UNCHANGED <<vars, proc, todo, diedAt>>

\* handleReport: only finished sessions get a card, and with it a note.
HandleReport ==
    /\ proc = "up"
    /\ \E day \in {r.day : r \in sessions} :
        page' = {[id |-> r.id, start |-> r.start, label |-> r.label] :
                    r \in {s \in SessionsForDay(sessions, day) : s.end # NULL}}
    /\ UNCHANGED <<vars, proc, todo, diedAt>>

\* The id comes from a card that may be older than the table.
HandleSessionNote ==
    /\ proc = "up"
    /\ \E card \in page :
        \E note \in {NoNote, [start |-> card.start, label |-> card.label]} :
            sessions' = SetSessionNote(sessions, card.id, note)
    /\ UNCHANGED <<envVars, runVars, liveVars, seq, orphans, procVars>>

HandleDelete ==
    /\ proc = "up"
    /\ \E day \in {r.day : r \in sessions} :
        sessions' = DeleteDay(sessions, day)
    /\ UNCHANGED <<envVars, runVars, liveVars, seq, orphans, procVars>>

-----------------------------------------------------------------------------
Collect == proc = "up" /\ (Poll \/ Run \/ Cancel) /\ UNCHANGED procVars

World == (Time \/ UserInput) /\ UNCHANGED procVars

TrackerNext == \/ World \/ Collect
               \/ Start \/ RecoverOne \/ RecoverFails \/ Up \/ Crash \/ Exit
               \/ HandleReport \/ HandleSessionNote \/ HandleDelete

TrackerSpec == TrackerInit /\ [][TrackerNext]_trackerVars

-----------------------------------------------------------------------------
\* Every variable stays in its type (main.go:22-135).
TrackerTypeOK ==
    /\ TypeOK
    /\ proc \in {"crashed", "exited", "recovering", "up"}
    /\ todo \subseteq Rows(1 .. seq)
    /\ page \subseteq [id : 1 .. seq, start : Nat, label : Names]
    /\ diedAt \in 0 .. now

\* Apart from rows whose close the store refused, what a process finds or
\* leaves open is at most one row; once it is up, that row is the one its own
\* collector holds: no row of an earlier process stays open beside it
\* (main.go:48, 84; sqlite.go:137-170).
OneOpenAcrossRestarts ==
    /\ \A r, s \in Unclosed : r = s
    /\ proc = "up" => \A r \in Unclosed : r.id \in {active.id, job.id, opened}

\* A note lands on the session whose card it was written on, or on none: the
\* page keeps ids while days are deleted and sessions recorded, so this rests
\* on ids never being reused (reportwindow.go:177-205; sqlite.go:268-279).
NoteOnTheRightSession ==
    \A r \in sessions :
        r.note # NoNote => r.note.start = r.start /\ r.note.label = r.label

\* The times of a closed session never change again; the row goes only when
\* the user deletes its day (sqlite.go:122-170, 207-214).
TimesStable ==
    [][\A r \in sessions : ~r.ckpt =>
        \/ \E s \in sessions' : s = [r EXCEPT !.note = s.note]
        \/ \A s \in sessions' : s.day # r.day]_trackerVars

\* What was deleted does not come back: a row that was not there is a new one,
\* although the collector closes its session after DeleteDay removed the row
\* (sqlite.go:127-129, 207-214).
DeletedStaysDeleted ==
    [][\A s \in sessions' : s.id <= seq => \E r \in sessions : r.id = s.id]_trackerVars

\* Seen as what it promises: sessions in progress are the checkpoint rows,
\* finished ones the others.
InProgress(r) == [id |-> r.id, day |-> r.day, type |-> r.type,
                  label |-> r.label, start |-> r.start]

Promise == INSTANCE Journal
               WITH count   <- seq,
                    ongoing <- {InProgress(r) : r \in OpenRows(sessions)},
                    history <- {r \in sessions : ~r.ckpt}

\* Crashes, restarts, failing statements and requests from stale pages
\* included, the table is a journal: a session is finished once, beside no
\* other, from what was begun, or dropped as a whole; then only its note
\* changes, and it goes only with its day (main.go:22-163; sqlite.go:97-214).
JournalKept == Promise!JournalSpec

-----------------------------------------------------------------------------
(* What the documents say, and the code does not do.                       *)

\* README: "checkpoint recovery rebuilds sessions interrupted by power
\* events", "checkpoint_secs = 60  # how often to checkpoint open sessions".
\* The row of a session that ran for a checkpoint interval and the minimum
\* length carries a duration recovery keeps it for (sqlite.go:110-119, 162-168).
RecoveryRebuilds ==
    proc = "recovering" =>
        \A r \in todo : diedAt - r.start >= CheckpointSecs + MinSession =>
                            r.dur >= MinSession

\* The constitution: "Data MUST NOT be silently dropped".  After Quit no row
\* is left open for the next start to delete (main.go:131-135).
QuitKeepsSession == proc = "exited" => OpenIds(sessions) = {}
=============================================================================
