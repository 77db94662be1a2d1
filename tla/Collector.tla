------------------------------ MODULE Collector ------------------------------
(***************************************************************************)
(* The collector goroutine of internal/monitor/collector/collector.go: it  *)
(* turns the events of the window monitor, the readings of the idle        *)
(* detector and the ticks of the checkpoint timer into rows of the         *)
(* sessions table.                                                         *)
(*                                                                         *)
(* The goroutine is cut at every call another actor can slip into: the     *)
(* receive of an event, each of the two reads of the idle detector, the    *)
(* two database statements, and the publication of the new session to      *)
(* CurrentSession.  What runs between two cuts is one action.              *)
(*                                                                         *)
(* Name_Variant is a plausible bug in Name, defined to show that a         *)
(* property tells the two apart; no specification uses it.                 *)
(***************************************************************************)
EXTENDS Integers, Sequences, SessionStore

CONSTANTS
    Contexts,       \* what the classifier may report: [type, label] records
    SleepGap,       \* sleepGapThreshold
    SleepCredit,    \* what a session interrupted by a sleep is credited
    IdleTimeout,    \* idle_timeout_mins
    CheckpointSecs, \* checkpoint_secs: period of the checkpoint ticker
    ChanCap,        \* capacity of the monitor's channel (16 in the code)
    MaxNow,         \* bound on the clock
    Delays,         \* TRUE: steps take time and events wait in the channel
    ExactIdle,      \* FALSE: the detector may report less (0 on an error)
    StoreCanFail,   \* TRUE: a database statement may return an error
    MonitorMayEnd   \* TRUE: the monitor may close its channel

Context == [type : Names, label : Names]
Event == [ts : Nat, ctx : Context]

ASSUME CollectorAssumption ==
    /\ Contexts \subseteq Context
    /\ SleepGap \in Nat /\ SleepCredit \in 0 .. SleepGap
    /\ IdleTimeout \in Nat \ {0} /\ CheckpointSecs \in Nat \ {0}
    /\ ChanCap \in Nat \ {0} /\ MaxNow \in Nat
    /\ {Delays, ExactIdle, StoreCanFail, MonitorMayEnd} \subseteq BOOLEAN

VARIABLES
    now,          \* the wall clock
    lastInput,    \* when the user last touched keyboard or mouse
    lastTick,     \* the last tick of the monitor's own ticker that was polled
    queue,        \* the monitor's channel: [ts, ctx] records
    ended,        \* the monitor has closed the channel
    checkpointC,  \* a tick waits in the checkpoint ticker's channel
    cancelled,    \* the context is cancelled
    pc,           \* where Run is; "returned" when there is no Run
    evt,          \* Run's evt: the context of the last event received
    lastPoll,     \* Run's lastPoll; `now` of the event being handled
    job,          \* closeActive in progress: what to close, where to go on
    opened,       \* the id OpenSession returned, not yet published
    active,       \* activeID, activeContextType, activeLabel
    sessionStart, \* sessionStart; closeActive does not reset it
    sessions,     \* the sessions table
    seq,          \* its AUTOINCREMENT counter
    orphans       \* ids whose close has failed (a history variable)

envVars == <<now, lastInput, lastTick, queue, ended, checkpointC, cancelled>>
runVars == <<pc, evt, lastPoll, job, opened>>
liveVars == <<active, sessionStart>>
dbVars == <<sessions, seq, orphans>>
vars == <<envVars, runVars, liveVars, dbVars>>

\* The window monitor is any that keeps EventStream's promise.
Stream == INSTANCE EventStream

NoContext == [type |-> NoText, label |-> NoText]
NoSession == [id |-> 0, type |-> NoText, label |-> NoText]
NoJob == [id |-> 0, end |-> NULL, dur |-> 0, next |-> "select"]

Later(s, t) == IF s < t THEN t ELSE s

\* An empty database, a process with nothing in memory yet.
WorldInit ==
    /\ now = 0 /\ lastInput = 0 /\ lastTick = 0
    /\ sessions = {} /\ seq = 0 /\ orphans = {}

ProcessInit(where) ==
    /\ queue = <<>> /\ ended = FALSE
    /\ checkpointC = FALSE /\ cancelled = FALSE
    /\ pc = where /\ evt = NoContext
    /\ lastPoll = NULL /\ job = NoJob /\ opened = 0
    /\ active = NoSession /\ sessionStart = 0

CollectorInit == WorldInit /\ ProcessInit("select")

-----------------------------------------------------------------------------
(* The environment: the clock, the user, the window monitor, main.         *)

\* Without Delays the goroutine handles everything in the instant it comes.
Quiet == pc \in {"select", "returned"} /\ queue = <<>> /\ ~checkpointC

Tick ==
    /\ now < MaxNow
    /\ Delays \/ Quiet
    /\ now' = now + 1
    /\ checkpointC' = (\/ checkpointC
                       \/ pc # "returned" /\ now' % CheckpointSecs = 0)
    /\ UNCHANGED <<lastInput, lastTick, queue, ended, cancelled>>
    /\ UNCHANGED <<runVars, liveVars, dbVars>>

\* At the bound the clock stands still, the checkpoint ticker goes on.
TickAtBound ==
    /\ now = MaxNow
    /\ pc # "returned" /\ ~checkpointC
    /\ checkpointC' = TRUE
    /\ UNCHANGED <<now, lastInput, lastTick, queue, ended, cancelled>>
    /\ UNCHANGED <<runVars, liveVars, dbVars>>

Time == Tick \/ TickAtBound

UserInput ==
    /\ lastInput < now
    /\ lastInput' = now
    /\ UNCHANGED <<now, lastTick, queue, ended, checkpointC, cancelled>>
    /\ UNCHANGED <<runVars, liveVars, dbVars>>

\* The event carries the time of the ticker's tick, not of the send.  A poll
\* that fails, finds no title or meets a full channel leaves nothing behind.
Poll ==
    /\ pc # "returned"
    /\ Stream!Send
    /\ Delays \/ lastTick' = now
    /\ UNCHANGED <<lastInput, checkpointC, cancelled>>
    /\ UNCHANGED <<runVars, liveVars, dbVars>>

MonitorEnds ==
    /\ MonitorMayEnd
    /\ Stream!Close
    /\ UNCHANGED <<lastInput, checkpointC, cancelled>>
    /\ UNCHANGED <<runVars, liveVars, dbVars>>

Cancel ==
    /\ ~cancelled
    /\ cancelled' = TRUE
    /\ UNCHANGED <<now, lastInput, lastTick, queue, ended, checkpointC>>
    /\ UNCHANGED <<runVars, liveVars, dbVars>>

\* What IdleDuration may return now.
IdleReadings == IF ExactIdle THEN {now - lastInput} ELSE 0 .. now - lastInput

-----------------------------------------------------------------------------
(* closeActive and idleAdjustedEnd                                         *)

CloseActive_KeepsActive(end, next) ==
    /\ active' = active
    /\ \/ active.id = 0 /\ pc' = next /\ job' = NoJob
       \/ /\ active.id # 0
          /\ pc' = "closeDb"
          /\ job' = [id |-> active.id, end |-> end,
                     dur |-> Later(0, end - sessionStart), next |-> next]

CloseActive(end, next) ==
    /\ active' = NoSession
    /\ \/ active.id = 0 /\ pc' = next /\ job' = NoJob
       \/ /\ active.id # 0
          /\ pc' = "closeDb"
          /\ job' = [id |-> active.id, end |-> end,
                     dur |-> Later(0, end - sessionStart), next |-> next]

IdleAdjustedEnd_NoClamp(ref, idle) ==
    IF idle < IdleTimeout THEN ref ELSE ref - idle

IdleAdjustedEnd(ref, idle) ==
    IF idle < IdleTimeout THEN ref ELSE Later(ref - idle, sessionStart)

\* closeActive(idleAdjustedEnd(ref)): the second read of the detector is a
\* step of its own.
TrimThenClose(ref, next) ==
    /\ pc' = "trim"
    /\ job' = [NoJob EXCEPT !.end = ref, !.next = next]

-----------------------------------------------------------------------------
(* case evt := <-Events()                                                  *)

Receive ==
    /\ pc = "select"
    /\ Stream!Take
    /\ evt' = Head(queue).ctx
    /\ lastPoll' = Head(queue).ts
    /\ UNCHANGED <<lastInput, checkpointC, cancelled>>
    /\ UNCHANGED <<opened, sessionStart, dbVars>>

AfterSleep_AnyGap(ts) == lastPoll # NULL /\ ts > lastPoll

AfterSleep(ts) == lastPoll # NULL /\ ts - lastPoll > SleepGap

OnEvent ==
    /\ Receive
    /\ ~AfterSleep(Head(queue).ts)
    /\ pc' = "readIdle"
    /\ UNCHANGED <<active, job>>

OnEventAfterSleep ==
    /\ Receive
    /\ AfterSleep(Head(queue).ts)
    /\ CloseActive(lastPoll + SleepCredit, "readIdle")

\* The first read of the detector finds an idle user and an open session.
IdleOnEvent ==
    /\ pc = "readIdle"
    /\ \E idle \in IdleReadings : idle >= IdleTimeout
    /\ active.id # 0
    /\ TrimThenClose(lastPoll, "select")
    /\ UNCHANGED <<envVars, evt, lastPoll, opened, liveVars, dbVars>>

\* ... and no open session: nothing is opened for a user who is away.
StillIdle ==
    /\ pc = "readIdle"
    /\ \E idle \in IdleReadings : idle >= IdleTimeout
    /\ active.id = 0
    /\ pc' = "select"
    /\ UNCHANGED <<envVars, evt, lastPoll, job, opened, liveVars, dbVars>>

SameContext_WhileOpen ==
    /\ pc = "readIdle"
    /\ \E idle \in IdleReadings : idle < IdleTimeout
    /\ active.id # 0 \/ evt.label = active.label
    /\ pc' = "select"
    /\ UNCHANGED <<envVars, evt, lastPoll, job, opened, liveVars, dbVars>>

SameContext ==
    /\ pc = "readIdle"
    /\ \E idle \in IdleReadings : idle < IdleTimeout
    /\ evt.label = active.label
    /\ pc' = "select"
    /\ UNCHANGED <<envVars, evt, lastPoll, job, opened, liveVars, dbVars>>

SwitchContext ==
    /\ pc = "readIdle"
    /\ \E idle \in IdleReadings : idle < IdleTimeout
    /\ evt.label # active.label
    /\ CloseActive(lastPoll, "openDb")
    /\ UNCHANGED <<envVars, evt, lastPoll, opened, sessionStart, dbVars>>

-----------------------------------------------------------------------------
(* The other cases of the select                                           *)

OnCheckpointIdle_NeedsEvent ==
    /\ pc = "select" /\ checkpointC /\ queue # <<>>
    /\ active.id # 0
    /\ \E idle \in IdleReadings : idle >= IdleTimeout
    /\ checkpointC' = FALSE
    /\ TrimThenClose(now, "select")
    /\ UNCHANGED <<now, lastInput, lastTick, queue, ended, cancelled>>
    /\ UNCHANGED <<evt, lastPoll, opened, liveVars, dbVars>>

OnCheckpointIdle ==
    /\ pc = "select" /\ checkpointC
    /\ active.id # 0
    /\ \E idle \in IdleReadings : idle >= IdleTimeout
    /\ checkpointC' = FALSE
    /\ TrimThenClose(now, "select")
    /\ UNCHANGED <<now, lastInput, lastTick, queue, ended, cancelled>>
    /\ UNCHANGED <<evt, lastPoll, opened, liveVars, dbVars>>

\* No open session, or the user is there: the tick is spent, nothing is saved.
OnCheckpoint ==
    /\ pc = "select" /\ checkpointC
    /\ \/ active.id = 0
       \/ \E idle \in IdleReadings : idle < IdleTimeout
    /\ checkpointC' = FALSE
    /\ UNCHANGED <<now, lastInput, lastTick, queue, ended, cancelled>>
    /\ UNCHANGED <<runVars, liveVars, dbVars>>

OnDone_Forgets ==
    /\ pc = "select" /\ cancelled
    /\ pc' = "returned"
    /\ UNCHANGED <<envVars, evt, lastPoll, job, opened, liveVars, dbVars>>

OnDone ==
    /\ pc = "select" /\ cancelled
    /\ TrimThenClose(now, "returned")
    /\ UNCHANGED <<envVars, evt, lastPoll, opened, liveVars, dbVars>>

OnMonitorClosed ==
    /\ pc = "select" /\ ended /\ queue = <<>>
    /\ TrimThenClose(now, "returned")
    /\ UNCHANGED <<envVars, evt, lastPoll, opened, liveVars, dbVars>>

Trim ==
    /\ pc = "trim"
    /\ \E idle \in IdleReadings :
        CloseActive(IdleAdjustedEnd(job.end, idle), job.next)
    /\ UNCHANGED <<envVars, evt, lastPoll, opened, sessionStart, dbVars>>

-----------------------------------------------------------------------------
(* The store calls, made through main's storeAdapter                       *)

CloseDb ==
    /\ pc = "closeDb"
    /\ sessions' = CloseSession(sessions, job.id, job.end, job.dur)
    /\ pc' = job.next
    /\ job' = NoJob
    /\ UNCHANGED <<envVars, evt, lastPoll, opened, liveVars, seq, orphans>>

\* The adapter logs the error; the row stays open.
CloseDbFails ==
    /\ pc = "closeDb" /\ StoreCanFail
    /\ pc' = job.next
    /\ job' = NoJob
    /\ orphans' = orphans \cup {job.id}
    /\ UNCHANGED <<envVars, evt, lastPoll, opened, liveVars, sessions, seq>>

OpenDb_EventTime ==
    /\ pc = "openDb"
    /\ opened' = NextId(sessions, seq)
    /\ sessions' = OpenSession(sessions, opened', evt, lastPoll)
    /\ seq' = opened'
    /\ pc' = "publish"
    /\ UNCHANGED <<envVars, evt, lastPoll, job, liveVars, orphans>>

\* The adapter stamps the row with its own time.Now(), not the event's.
OpenDb ==
    /\ pc = "openDb"
    /\ opened' = NextId(sessions, seq)
    /\ sessions' = OpenSession(sessions, opened', evt, now)
    /\ seq' = opened'
    /\ pc' = "publish"
    /\ UNCHANGED <<envVars, evt, lastPoll, job, liveVars, orphans>>

\* The adapter returns 0.
OpenDbFails ==
    /\ pc = "openDb" /\ StoreCanFail
    /\ opened' = 0
    /\ pc' = "publish"
    /\ UNCHANGED <<envVars, evt, lastPoll, job, liveVars, dbVars>>

Publish ==
    /\ pc = "publish"
    /\ active' = [id |-> opened, type |-> evt.type, label |-> evt.label]
    /\ sessionStart' = lastPoll
    /\ opened' = 0
    /\ pc' = "select"
    /\ UNCHANGED <<envVars, evt, lastPoll, job, dbVars>>

-----------------------------------------------------------------------------
Handle == OnEvent \/ OnEventAfterSleep \/ IdleOnEvent \/ StillIdle
              \/ SameContext \/ SwitchContext
Checkpoint == OnCheckpointIdle \/ OnCheckpoint
Store == CloseDb \/ CloseDbFails \/ OpenDb \/ OpenDbFails \/ Publish

Run == Handle \/ Checkpoint \/ OnDone \/ OnMonitorClosed \/ Trim \/ Store

\* Run has returned: the collector takes no step any more.
Terminated == pc = "returned" /\ UNCHANGED vars

CollectorNext == \/ Time \/ UserInput \/ Poll \/ MonitorEnds \/ Cancel
                 \/ Run \/ Terminated

(* Time passes.  Run never blocks outside its select; there Go picks a     *)
(* ready case at random, so a case that is ready again and again is picked *)
(* in the end, and so is a tick at which the detector sees the absence: it *)
(* may under-report, but not at every tick.  Nothing is assumed of the     *)
(* user, of the window monitor or of Quit.                                 *)
CollectorFairness ==
    /\ WF_vars(Time)
    /\ WF_vars(Run)
    /\ SF_vars(OnDone)
    /\ SF_vars(Checkpoint)
    /\ SF_vars(OnCheckpointIdle)

CollectorSpec == CollectorInit /\ [][CollectorNext]_vars /\ CollectorFairness

-----------------------------------------------------------------------------
\* Every variable stays in its type (collector.go:39-51, 73-84).
TypeOK ==
    /\ now \in Nat /\ lastInput \in 0 .. now /\ lastTick \in 0 .. now
    /\ queue \in Seq(Event)
    /\ ended \in BOOLEAN /\ checkpointC \in BOOLEAN /\ cancelled \in BOOLEAN
    /\ pc \in {"select", "readIdle", "trim", "closeDb", "openDb", "publish",
               "returned"}
    /\ evt \in Context
    /\ lastPoll \in Nat \cup {NULL}
    /\ job \in [id : Nat, end : Nat \cup {NULL}, dur : Nat,
                next : {"select", "readIdle", "openDb", "returned"}]
    /\ opened \in Nat
    /\ active \in [id : Nat, type : Names, label : Names]
    /\ sessionStart \in Nat
    /\ seq \in Nat
    /\ sessions \subseteq Rows(1 .. seq)
    /\ orphans \subseteq Nat

\* Apart from rows whose close the store refused, at most one is open, and it
\* is the one the goroutine holds: the active session, the one closeActive has
\* taken out of the fields and not yet closed, or the one OpenSession just
\* returned (collector.go:86-102, 175-184).  A row nobody holds is closed by
\* no one.
Unclosed == {r \in OpenRows(sessions) : r.id \notin orphans}
OneOpenSession ==
    /\ \A r \in Unclosed : r.id \in {active.id, job.id, opened}
    /\ \A r, s \in Unclosed : r = s

\* Recorded sessions never overlap: a closed one ends before any later one
\* starts, although the ends come from events that waited in the channel,
\* idle times and sleep credits, and the starts from the adapter's clock
\* (collector.go:108-121, 149-152; main.go:143-157).
RowsDisjoint ==
    \A r, s \in sessions : r.id < s.id /\ ~r.ckpt => r.end <= s.start

\* What CurrentSession shows is the row being recorded: same context, still
\* open, shown as started no later than it was recorded (collector.go:60-71,
\* 177-183).
LiveMatchesRow ==
    active.id # 0 =>
        \E r \in OpenRows(sessions) :
            /\ r.id = active.id
            /\ r.type = active.type /\ r.label = active.label
            /\ sessionStart <= r.start

\* Between two events the live session is labelled with the last context that
\* was polled, whatever closed and reopened sessions before (collector.go:
\* 155-184): a stale label would credit the time to the wrong context.
LiveLabelFresh == pc = "select" /\ active.id # 0 => active.label = evt.label

\* A closed session is history: no later step of the collector changes or
\* deletes its row; CloseSession's UPDATE has no guard on is_checkpoint, so
\* this rests on closeActive's handing each id over once (collector.go:86-102,
\* sqlite.go:122-134).
HistoryStable ==
    [][\A r \in sessions : ~r.ckpt => r \in sessions']_vars

\* Quit: once the context is cancelled Run returns, however many events and
\* ticks compete with Done, and it leaves no row open but those the store
\* refused to close (collector.go:126-130).
CancelReturns == cancelled ~> pc = "returned" /\ Unclosed = {}

\* The session of a user who stays away is closed even if the monitor never
\* delivers another event: the checkpoint ticker sees to it, unless the store
\* refuses (collector.go:132-139).
Away == now - lastInput >= IdleTimeout
IdleSessionCloses ==
    Away /\ Unclosed # {} ~> ~Away \/ Unclosed = {}

=============================================================================
