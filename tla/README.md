# Activity Tracker: a TLA+ verification project

Activity Tracker (Go) polls the foreground window, turns what it sees into
sessions in one SQLite table, and serves a local page that reports a day. This
directory models the parts of it whose correctness depends on order, time,
failure or index arithmetic, checks them with TLC on small instances, and
proves the results that matter most with TLAPS.

Paths below are relative to the repository. Line numbers in the comments of the
modules name the code a property is about; `PROJECT.json` maps every definition
to its lines.

## 1. The system

| Part | State it keeps | Operations | Talks to |
|---|---|---|---|
| Window monitor (`internal/monitor/window`) | a ticker, a channel of 16 events, a stop channel | poll, send or drop, stop, close | the window system; the collector reads its channel |
| Classifier (`internal/monitor/classifier`) | none | process and title to context type and label | called by the monitor |
| Idle detector (`internal/monitor/idle`) | none | how long since the last input | called by the collector, twice per decision |
| Collector (`internal/monitor/collector`) | the active session behind a mutex, the time of the last poll | one `select`: event, checkpoint tick, done | the store, through main's adapter; `CurrentSession` for the page |
| Sessions table (`internal/storage`) | rows, the AUTOINCREMENT counter | open, close, recover, delete a day, write a note, list | SQLite, one connection |
| Migrations (`DB.Migrate`) | `schema_migrations`, the schema | run what is not recorded | at every start |
| Configuration (`internal/config`) | a TOML file, the values read from it | load, clamp | tickers and thresholds are made of it |
| main (`cmd/activitytracker`) | the process | start, recover, run, quit | everything |
| Report server (`internal/ui`) | none between requests | report, note, delete, live session | the table and the collector, from other goroutines |
| Report (`internal/report`) | none | totals, groups, changed files, commits | a day's rows, the workspace tree, git |
| Page in the browser (script in `internal/ui/reportwindow.go`) | cards, text areas, a markdown text, a timer | edit, save and cancel notes, delete the day, poll the live session | the report server, by requests that may fail or come late |
| Timeline, strip, focus card (`internal/ui`) | none | from a day's rows to what the page shows | the page template |
| Git (`internal/git`) | none | the repositories of a directory, their commits of a day | the report; runs `git` |
| Markdown (`internal/report/formatter.go`) | none | a report as text | copied by the page, exported |
| Workspace discovery (`internal/vscode`) | a map made at the start, a map of names that missed | name to path | VS Code's files; requests for reports call it |

How they interact. The monitor's goroutine sends events into a bounded channel
and drops the newest when it is full. The collector's goroutine receives them,
reads the idle detector, and calls the store synchronously; the fields that
`CurrentSession` reads change before and after those calls, not with them. HTTP
handlers run beside it and use the same table through the same single
connection. Quit cancels a context and lets `main` return. A crash can come
anywhere; the table is what remains.

What is hard here, and which properties make a part correct:

* **Time that disagrees.** An event carries the time of the tick that asked for
  it, a row is stamped with the adapter's clock, an end may be trimmed by an
  idle time or be a sleep credit. Recorded sessions must not overlap, nor end
  before they start (`RowsDisjoint`).
* **Two representations of the live session.** The fields, a local variable
  between them and the row: at most one row may be open and somebody must hold
  it (`LiveMatchesRow`, `OneOpenAcrossRestarts`; `OneOpenSession` is proved).
* **Statements without guards.** `CloseSession` updates whatever has the id;
  history must stay history (`TimesStable`), what was deleted must stay deleted
  (`JournalKept`), and a note must reach the session it was written for, from a
  page that is older than the table (`NoteOnTheRightSession`).
* **Stopping and being absent.** Quit competes with events and ticks
  (`CancelReturns`); an absent user produces no event (`IdleSessionCloses`).
* **Crashes.** Between a row and its close (recovery), and between a migration
  script and the record of its version.
* **Two starts.** Autostart and a click: the second one migrates and recovers
  what the first one uses (`UpMeansMigrated`, `OnlyOverlapLoses`, `StartEnds`).
* **A page that is a copy.** Notes are saved by requests whose answers may be
  lost or late, beside other tabs (`ShownWasStored`, `CopyMatchesCards`,
  `BadgesAgree`, `SaveEnds`, `WidgetConverges`).
* **Names.** A workspace is found by what its editor writes into a title
  (`LabelIsWorkspace`, of a title that can be read in one way only), among
  several of one name (`MostRecentWins`), by concurrent requests
  (`MissesSettle`).
* **Index loops over shared maps and slices.** The grouper, the collapsing
  timeline, the periods: nothing may be lost, repeated or counted twice.
* **Fixed-width and integer arithmetic.** Wrapping tick counts, percentages.

The complete list, each at its line, is `hazards` in `PROJECT.json`.

## 2. Modules

```
EventStream      what a monitor promises            (abstract specification)
  ^        ^
  |        +---- WindowMonitor      (refines it: StreamRefined); EXTENDS Classifier
  |              Workspaces         (WindowMonitor, Discover, resolver)
  |                 MCWorkspaces, WindowMonitorProofs
SessionStore     the table and its statements       (operators)
  ^
Collector        the goroutine, its environment; its monitor is EventStream,
  ^                 whose steps it takes; MCCollector
Tracker          process, recovery, page, crash; one collector inside
  |                 MCTracker, TrackerProofs (the collector's too)
  +----> Journal what the user is promised          (abstract specification)
Migration        DB.Migrate;                        MCMigration
  ^
Launch           settings, migration, recovery of overlapping starts
                    MCLaunch, LaunchProofs (the migrations' too)
Browser          the page's script, its requests, other tabs
                    MCBrowser, BrowserProofs
IdleWindows      the Windows idle detector;         MCIdleWindows, IdleWindowsProofs
ChangedFiles     the walk of a workspace;           MCChangedFiles, ChangedFilesProofs
Day              the rows of a day                  (shared by those below)
  Report         BuildReport, Group, grand total
    GitCommits     attachGitCommits
      Formatter      the markdown
  Timeline       items, periods, strip
  Focus          the focus card
    Page         one request: all of them, one after the other, on one day
                    MCPage, PageProofs
Lemmas           sums, least and greatest members: what the proofs about
                 loops share (WindowMonitorProofs, ChangedFilesProofs, PageProofs)
```

`Name_Variant` beside a definition `Name` is that definition with one plausible
bug. No specification uses it; it is there to show that a property tells the
two apart (`mutants` in `PROJECT.json`).

### SessionStore

A table is a set of rows, a statement an operator from a table to the table it
leaves: `OpenSession`, `CloseSession` (deletes below the minimum), the closes
of `RecoverCheckpoints`, `DeleteDay`, `SetSessionNote`, `SessionsForDay`. Ids
come from a counter that survives deletions (AUTOINCREMENT). One statement is
atomic: the pool has one connection. Times are integers of one clock; a note
stands for the card its author was looking at, because that is what a note is
about. `CheckpointSession`, the `meta` table and `InsertRawEvent` have no
caller in the program and are left out.

### Collector

`Run` is cut wherever another actor can slip in: the receive, each of the two
readings of the idle detector, each statement, and the publication of the new
session. What lies between two cuts is one action.

| Code | Action |
|---|---|
| `case evt := <-Events()` with the sleep gap | `OnEvent`, `OnEventAfterSleep` |
| the idle test and the label comparison after it | `IdleOnEvent`, `StillIdle`, `SameContext`, `SwitchContext` |
| `case <-checkpoint.C` | `OnCheckpointIdle`, `OnCheckpoint` |
| `case <-ctx.Done()` | `OnDone` |
| the channel is closed | `OnMonitorClosed` |
| `idleAdjustedEnd` inside `closeActive(...)` | `Trim` |
| `closeActive`'s statement | `CloseDb`, `CloseDbFails` |
| `OpenSession` through the adapter | `OpenDb`, `OpenDbFails` |
| the locked assignment of the fields | `Publish` |

`job` is the local copy `closeActive` takes of the active session, `opened` the
id that `OpenSession` has returned and nobody published yet; `orphans` is a
history variable, the rows whose close the store refused. The environment is
the clock (`Tick`), the user, the monitor (`Poll`, `MonitorEnds`) and Quit
(`Cancel`). Four constants choose it: `Delays` (steps take time and events
wait), `ExactIdle`, `StoreCanFail`, `MonitorMayEnd`. The runs of `Tracker` have
an exact detector; one that under-reports is checked in `collector`, and the
theorems about `Tracker` hold for both.

### Tracker

One process around the collector: `Start` selects the open rows, `RecoverOne`
closes each by a statement of its own, `Up` starts the collector; `Crash` ends
the process anywhere, `Exit` after Quit without waiting for `Run`.
`HandleReport` puts cards into a browser page, `HandleSessionNote` posts for a
card that may be stale, `HandleDelete` deletes a day, the current one too.

### Journal

What all of this is for, without a process, a table or a statement: sessions
begin, are finished or dropped as too short, are annotated, and go with their
day. `Tracker` implements it (`JournalKept`): the checkpoint rows are the
sessions in progress, the other rows the history, the AUTOINCREMENT counter the
number of sessions ever begun. A step of `Journal` says what may change
together; `Finish` also says that the new session lies beside every other, and
that it is the one that was begun, with its context and its start.

### EventStream and WindowMonitor

`EventStream` is the interface `monitor.Monitor` as its reader needs it: a
bounded channel, timestamps that increase and are not in the future, nothing
after the close. `WindowMonitor` is the goroutine that implements it, down to
the ticker's own one-place channel, the two questions to the window system
(one handle on Windows, two on Linux: `OneHandle`), the full channel and Stop.
`Collector` is composed with the same abstraction: its `Poll`, `Receive` and
`MonitorEnds` take `EventStream`'s `Send`, `Take` and `Close`, so what is shown
of the collector is shown for every monitor that `StreamRefined` covers.

### Classifier and Workspaces

`Classifier` is `Classify` with the lists of the code: a title is a sequence of
words in which separators, suffixes and brands are words too, which is as much
as the code looks for in one. `WindowMonitor` applies it to what it has read.

| Code | Definition of `Workspaces` |
|---|---|
| one turn of `Discover`'s loop, passed over | `Skip` |
| ... or compared with the candidate of its name | `Candidate` |
| the resolver, an unknown name | `Call` |
| `!missLogged[name]`, from where the call comes to it | `Call` to `Look` |
| `missLogged[name] = true`, from its begin to its end | `Log` to `Logged` |
| the runtime finds two at the map, one of them writing | `Fatal` |

`Discover` runs beside the monitor and beside the editors, which write the
modification times it compares (`Touch`). The resolver's closure is entered by
every request for a report at the same time, and nothing orders its read and
its write of `missLogged`: each has a begin and an end. A read beside a write
may come out either way, of two writes one may be lost, and the Go runtime may
end the program (`died`), which it does for a map that is written while another
goroutine is at it.

### Launch

A start from `config.Load` to the collector, for several processes on one file:
`Load` finds any of the configurations (`Decode` over the defaults, `Clamp`, a
file that breaks off), `OpenAndMigrate` is `Migration`, `Select`, `RecoverOne`
and `RecoverFails` are `RecoverCheckpoints`, `Serve` starts the goroutines,
`Panic` is a ticker with a period that is not positive, `OpenSession`,
`CloseSession` and `CloseFails` stand for the collector. `End` is a fatal error,
a crash, a panic or Quit. `Tracker` has one process and the times; `Launch` has
several and leaves the times out: a row is open, closed or gone.

### Browser

The state of a page (what each card shows, the text areas, the badges of the
strip, `mdText`), of its requests and of the live-session element, and the
table behind the server. A card is in one of five modes: it shows its note, is
edited, or its Save is under way (`saving`), answered (`saved`) or refused.
`NoteRequestFails` covers a refusal, a failing statement, a lost request and a
lost answer, so the note may have been stored. `Navigate` (reload, cancel,
after a deletion) abandons what is under way; `HandleStray` is the server
handling such a post after all. Other tabs save notes and delete the day at any
time. Polls are answered when they are handled and shown in any order.

### Migration, IdleWindows

`Migration` runs each statement of each script as a step, for several
overlapping starts, with crashes and errors (`Fails`, also of the table that
records the versions); the query for the recorded version
ignores its error, as the code does. `IdleWindows` is the difference of two
wrapping counters obtained by two calls with time and input in between.

### Day, Report, GitCommits, Formatter, Timeline, Focus, Page, ChangedFiles

`Day` builds every possible day: sessions in order, disjoint (that is
`RowsDisjoint`), the last perhaps open with the duration 0 its row has. The
modules above it run the code's loops over it, one turn an action, and `Page`
runs them one after the other as one request does. What they compute has the
day in common and little else, so the properties of `Page` that relate them
(`TotalsAgree`) say that independent loops agree. `GitCommits` goes from the
sessions by the resolver's directories to repositories, where two labels or two
directories may lead to one; `Formatter` is what the markdown says of it all.
`ChangedFiles` lets the user save files and open and close sessions, then walks
the tree while saving goes on. A row holds its times as RFC 3339 writes them,
by the whole second, and a modification time is compared as it is: the clock
here has `Second` units to the second, a session the stored `start` and `end`
beside the moments it `began` and `ended`.

## 3. Runs

Passing runs:

| Run | What it shows |
|---|---|
| `collector` | With events that wait, steps that take time, failing statements, a detector that under-reports, a monitor that may end, an empty label and polls further apart than the sleep gap: sessions never overlap or end before they start, the live view matches its row and the last context; Quit is served, an absent user's session is closed |
| `tracker` | Crashes, restarts, failing statements (recovery's too), deletions and notes from a stale page: the program implements `Journal` |
| `window_monitor` | `WindowMonitor` refines `EventStream`, answers Stop, observes one window at a time (Windows); an editor's observation is named by its workspace; the most recently used workspace of a name is found; with the races on the map of misses, it is written for a name only by those who looked before or while it was written there, and the program ends only for a name new to its writer |
| `launch` | Two overlapping starts, with any configuration, crashes and errors: who serves has the schema, a start ends, one row that cannot be recovered does not keep the others from it, only an overlap loses a finished session |
| `page` | The grouper computes the partition one would define; groups, labels, headings, focus card and markdown add up to the same time; a repository is listed once; collapsing and dealing lose, repeat and reorder nothing; the percentages are honest |
| `browser` | Beside other tabs and with requests that fail, come late or outlive their page: cards show what was stored, the copied text says the same, badges follow notes, every save ends, the live session is shown in the end |
| `changed_files` | With times stored by the whole second: nothing is listed but what was saved in the session or less than a second before it; no last save is lost but one in its last second, or what was saved during the walk or is beyond the cap |
| `idle_windows` | Wrapping never overstates an absence, none below the wrap is missed |

Runs that end in a counterexample, each against a sentence of the repository
(quoted in `findings`):

| Run | Property | What the code does |
|---|---|---|
| `tracker_recovery` | `RecoveryRebuilds` | No duration is ever saved for an open session, so recovery deletes it |
| `tracker_quit` | `QuitKeepsSession` | `main` returns before the collector has closed its session |
| `migration_crash` | `StartNeverFails` | A crash before the record of `ALTER TABLE` makes every later start fail |
| `page_open` | `InProgressEstimated` | The estimate waits for a NULL that never comes |

### Bounds

Every bound is a constant that a guard names.

* `MaxNow` (3 in `collector` and `tracker_quit`, 4 in `tracker`, 5 in
  `tracker_recovery`). The thresholds `IdleTimeout` and `CheckpointSecs` are 2,
  `MinSession` is 1, and `SleepGap` is 2, or 1 in `collector`, where a poll that
  was dropped makes the next one look like the first after a sleep. So a run has
  room for a session, an absence or a sleep, and a session after it; the ends
  that mix the clocks all occur. At the bound the clock stands and the
  checkpoint ticker goes on (`TickAtBound`), so that the liveness properties
  are about the goroutine, not about the end of time.
* `DayLen` 3 in `tracker`: sessions of two days, so a deletion may spare one.
* `ChanCap` 1 or 2 stands for 16: a backlog, a full channel and a drop occur.
* `Contexts` 2: a change and a return; one label is the empty string, which is
  also what the fields hold when no session is active. The counterexample runs
  need one.
* `SleepCredit` is 1 or 2 of a gap of 2; the code's 5 s and 30 s satisfy the
  assumption `SleepCredit \in 0 .. SleepGap` the proofs use.
* `Migration` and `Launch` have the two scripts of the repository (their
  indexes behave like tables and are left out) and two processes, each of which
  may start again and again. `Launch` has `MaxRows` 2 sessions, one for each
  process or two for one, and four configurations: no file, one that breaks off
  after it gave zeros, a whole one that gives what is clamped, a whole one that
  gives what is not.
* `Workspaces`: three editors, one of which has no file open, and a browser,
  with both separators, a brand and dashes in file names; three
  `workspace.json`, two of one name, one whose directory is gone; two requests
  at a time, which is what a race takes.
* `Browser`: one session (`MaxId`), which comes, is annotated and is deleted;
  the cards of a page share nothing but reloads. One change of the live session
  (`MaxLive`), two answers under way (`MaxPolls`), so that they can come in the
  wrong order; one post of a page that is gone (`MaxStrays`); a text of each kind.
* `Page`: up to four sessions of three types, two labels, durations below, at
  and above the adjacency and on both sides of the short session: two merged
  sessions, one at an edge, a group that starts late, groups of two and single
  short ones, days that begin in the morning and in the evening and one that
  crosses midnight, sums with every kind of remainder. One label is a
  repository, the other a directory of it, of a second one, of one that `git
  log` fails in and of none.
* `ChangedFiles`: three files under a cap of two, so that both happen, a walk
  that ends and one that is cut off; two sessions, three saves, and a clock of
  six units, two to the second: a save before, at the begin, in the middle, in
  the last fraction and after the end of a session.
* `IdleWindows` wraps at 4 and runs through almost three turns.

The window monitor, the store and the day hold no other unbounded counter.

### Fairness

`collector` assumes that time passes (`WF(Time)`), that `Run`, which never
blocks outside its `select`, goes on (`WF(Run)`), and that Go's `select`, which
picks among the ready cases at random, does not pass over one that is ready
again and again (`SF(OnDone)`, `SF(Checkpoint)`). Weak fairness would not do:
another case may be served in between, at which the action is not enabled.
`SF(OnCheckpointIdle)` says the same of the tick that finds the user away: the
detector may under-report once, not every time.
`WindowMonitor`, and `Workspaces` with it, assumes this of the monitor's
goroutine (`WF(Poll)`, `SF(OnStop)`), `Workspaces` as long as the program has
not been ended by the runtime.

`Launch` assumes that `main` runs on until it serves and that `log.Fatalf` ends
the process. `Browser` assumes that the server handles a request or the browser
gives it up (`WF(Server)`), that the script is told (`WF(Answer)`), that timers
run (`WF(Poll)`), and that on the loopback interface a request that is made
again and again is answered in the end (`SF(ShowLive)`).

Nothing is assumed of the user, of the window system, of the reader, of other
tabs, of Quit or of Stop. `Tracker` states no fairness: its liveness is the
collector's, and what it adds are crashes.

### Deadlock

Checked in every run. What really may stop stutters in an action of its own: a
finished program (`Terminated`), one the runtime has ended (`died`), a report
that has been made (`Reported`).

## 4. Proofs

| Theorem | Statement |
|---|---|
| `TrackerProofs!TypeCorrect` | `CollectorSpec => []TypeOK` |
| `TrackerProofs!NoOverlap` | `CollectorSpec => []RowsDisjoint` |
| `TrackerProofs!LiveIsTheRow` | `CollectorSpec => []LiveMatchesRow` |
| `TrackerProofs!LabelIsFresh` | `CollectorSpec => []LiveLabelFresh` |
| `TrackerProofs!HistoryNeverChanges` | `CollectorSpec => HistoryStable` |
| `TrackerProofs!OneOpen` | `CollectorSpec => []OneOpenSession` |
| `TrackerProofs!TrackerTypeCorrect` | `TrackerSpec => []TrackerTypeOK` |
| `TrackerProofs!NoOverlapAcrossRestarts` | `TrackerSpec => []RowsDisjoint` |
| `TrackerProofs!OneOpenWhoeverStarted` | `TrackerSpec => []OneOpenAcrossRestarts` |
| `TrackerProofs!NotesReachTheirSession` | `TrackerSpec => []NoteOnTheRightSession` |
| `TrackerProofs!TimesNeverChange` | `TrackerSpec => TimesStable` |
| `TrackerProofs!DeletedNeverReturns` | `TrackerSpec => DeletedStaysDeleted` |
| `TrackerProofs!TrackerImplementsJournal` | `TrackerSpec => JournalKept` |
| `WindowMonitorProofs!MonitorImplementsStream` | `MonitorSpec => StreamRefined` |
| `WindowMonitorProofs!OneHandleOneWindow` | `OneHandle` implies `MonitorSpec => []ObservationIsOneWindow` |
| `WindowMonitorProofs!WorkspacesKeepStream` | `WorkspacesSpec => StreamRefined` |
| `WindowMonitorProofs!WorkspacesObserveOneWindow` | `OneHandle` implies `WorkspacesSpec => []ObservationIsOneWindow` |
| `WindowMonitorProofs!LabelsAreWorkspaces` | `OneHandle` implies `WorkspacesSpec => []LabelIsWorkspace` |
| `WindowMonitorProofs!ChosenIsMostRecent` | `WorkspacesSpec => []MostRecentWins` |
| `WindowMonitorProofs!KnownMissesRest` | `WorkspacesSpec => []MissesSettle` |
| `IdleWindowsProofs!AbsenceNeverOverstated`, `ShortAbsenceNoticed` | `Spec => []NeverOverstated`, `[]AbsenceNoticed` |
| `LaunchProofs!RecordedApplied`, `RecordsAreInOrder`, `MigrationTypeCorrect`, `UpIsMigrated` | `[]RecordedIsApplied`, `[]RecordedInOrder`, `[]MigrationTypeOK`, `[]UpMeansMigrated` |
| `LaunchProofs!LaunchTypeCorrect` | `LaunchSpec => []LaunchTypeOK` |
| `LaunchProofs!FinishedIsKept` | `LaunchSpec => []OnlyOverlapLoses` |
| `LaunchProofs!NoRowIsForgotten` | `LaunchSpec => []RecoveryGoesOn` |
| `LaunchProofs!StartsMigrate`, `WhoServesIsMigrated` | `LaunchSpec => LaunchMigrates`, `[]UpMeansMigrated` |
| `BrowserProofs!BrowserTypeCorrect` | `Spec => []BrowserTypeOK` |
| `BrowserProofs!CardsShowStoredNotes` | `Spec => []ShownWasStored` |
| `BrowserProofs!CopyAgrees` | `Spec => []CopyMatchesCards` |
| `BrowserProofs!StripAgrees` | `Spec => []BadgesAgree` |
| `ChangedFilesProofs!NoFalseListing` | `Spec => []ListedWereSaved` |
| `ChangedFilesProofs!NoSaveForgotten` | `Spec => []LastSaveListed` |
| `PageProofs!HundredPercent`, `PercentagesAreHonest` | `Spec => []PctsMakeHundred`, `[]PctsHonest` |
| `PageProofs!EverySessionIsShown`, `CollapsedRunsAreMaximal` | `Spec => []ItemsCoverTheDay`, `[]RunsAreMaximal` |
| `PageProofs!PeriodsSplitTheItems`, `StripIsTheDay` | `Spec => []PeriodsPartition`, `[]StripShowsTheDay` |
| `PageProofs!GroupsPartitionTheDay` | `Spec => []GroupsAreThePartition` |
| `PageProofs!EveryTotalAgrees` | `Spec => []TotalsAgree` |
| `PageProofs!CommitsAreListedOnce` | `Spec => []CommitsListedOnce` |

They hold for every value of the constants that satisfies the named assumptions
(`StoreAssumption`, `CollectorAssumption`, `WindowMonitorAssumption`,
`MigrationAssumption`, `IdleWindowsAssumption`, `ChangedFilesAssumption`,
`DayAssumption`, `ReportAssumption`, `GitAssumption`, `TimelineAssumption`,
`FocusAssumption`, `LaunchAssumption`, `ClassifierAssumption`,
`BrowserAssumption`, `WorkspacesAssumption`), which TLC evaluates in the runs.
With them every invariant and every action property of the passing runs is a
theorem.

**The collector.** `RowsDisjoint` is not inductive: a close could end a session
after a later start. `IInv` adds three parts. `Control` ties the local
variables to the program counter (there is a job exactly where one is awaited,
nothing is active between a close and the next publication). `PastOnly` says
that every time the goroutine holds is in the past: the last poll, the events
in the queue, which are in order and later than it, the ends that were
computed. `Held` says that whoever holds an id holds the youngest row, so
closing it cannot reach into a later one, and that no later row exists when a
row is opened. `HistoryStable` follows from `Held`: the id handed to
`CloseSession` is that of an open row, or of none. `OneOpen` needs one more
invariant, `AllHeld`: an open row is held by the goroutine or is one of the
`orphans`, whose close the store refused.

`LiveIsTheRow` and `LabelIsFresh` look at each step from the side of the
fields: they are cleared by many steps and filled by one, `Publish`, and what
waits to be published is the youngest row with the context of the event that
opened it.

**Tracker.** Its invariant `TInv` is the collector's `IInv` with the parts a
process adds. `AtRest`: between two processes the goroutine's variables hold
nothing. `TodoIsOpen`: what recovery has still to close is open as it was
selected, since nobody else writes in this phase. `Table`: ids are unique and
their starts in order across processes, an open row has duration 0 and no end,
and a note fits its row. `CardsFit`: if the row of a card is still there, it is
the session the card shows, which is where AUTOINCREMENT comes in: an id is
never given twice. `Cared`: an open row is held by the collector, waits for
recovery, or its close was refused. One lemma a step of the process; a step of
the collector keeps its part by the collector's lemmas and touches the table by
one statement.

**Journal.** Four lemmas say which step of `Journal` a statement is: a close is
`Finish`, `Drop` or, when the row has gone, nothing; a note `Annotate`; a
deletion `Forget` or nothing; an insertion `Begin`. `JournalStep` goes through
the actions of `Tracker` and finds the statement of each. That no two finished
sessions overlap comes from `RowsDisjoint` before and after the step.

**Launch.** `LInv` says of a row that a process has open that it is open, or
gone or closed by an overlapping recovery, which `shared` remembers; so what a
collector closes outside `shared` was open, and nobody has it in `todo`
afterwards. A close that is refused leaves the row open, with nobody to hold it.
`RInv` relates `seen`, `todo` and the open rows of a process, which other
processes may close but never open again. `StartsMigrate` shows that every step
is one of `Migration` or leaves its variables alone, and the theorem about the
schema carries over.

**The window monitor.** Each step is a step of `EventStream` or a stutter; the
invariant says that the tick being worked on and the one waiting in `ticker.C`
are later than the last one sent and not in the future. On Windows `run` asks
one handle twice, so that what it holds between the two questions is the title
and the process of one window (`OneWindow`), however often the user switches.

**Workspaces.** What runs beside the monitor leaves its variables alone
(`WorkspacesStepIsMonitors`), so its theorems carry over. `DInv` says that the
candidate of a name is an entry of that name `Discover` has passed, and that no
entry it has passed, and nobody has touched since, is usable and more recent;
the editors may write whatever they like meanwhile, since a touched entry only
becomes newer. `ResolverInv` says that a name a call knew, which was in the map
before it looked and while nobody wrote, is in the map still, for a name is
never taken out; that such a call has not passed its look; and that somebody
writes when the program ends.

The labels are a fact about sequences of words. `OneWindow` says what the monitor
holds of the window it asked about; `LegibleLabel` says what `Classify` makes of an
editor's title, in the order of the code's cuts: no brand looked for earlier is
in it, so `BrandGone` takes the editor's own; what is left ends in the name of
the workspace after the last separator (`SplitAtWord`, `NameIsLeft`); the mark
of a workspace file goes, a name that has none keeps its end (`MarkGone`). With
two handles (Linux) the statement is false: title and process may be those of
two windows. `Legible` names the titles that can be read in one way only; what
becomes of the others is in section 6.

**The idle detector.** What is read of the last input is the last input before
the call or a later one. The difference of two wrapped counters is the wrapped
difference (`MinusOfWrapped`), which is never more than the difference, and is
the difference below the wrap (`WrappedSpan`); both follow from the uniqueness
of quotient and remainder.

**Migrations.** A script that is being applied has all its earlier statements
in the schema, for each of the overlapping starts; a recorded version has all
of them. Objects are never dropped.

**Changed files.** A modification time on the disk or in `mods` is 0 or the
time of a save. What is stored lies less than a `Second` before the moment it
stands for (`NowIsStored`), which is all the slack the two properties leave.
That no last save is lost
(`WalkInv`) needs the other direction: a file the walk has passed, whose time
lies in its span and that was not saved again since, is in `mods` with that
time. `SpanCovers` says that the one span the walk looks at contains every
session, so that no save is filtered out too early.

**The page in the browser.** `BInv` is the three properties, the types, and
one thing more: a note the server said it stored is one its row has held since
the page was asked for (`AnsweredWasStored`), which is what makes the card right
when the answer is shown. One lemma says what a statement does to the table and
to what its rows have held (`StoreKeeps`), whoever sends it: the page, another
tab, or a page that is gone.

**The focus card.** `Fill` never makes a duration negative, sums stay natural
numbers; two rounded-down shares of a whole are at most 100, by bounding the
product of the rounded share with the total, and each is within a point of what
it stands for; the rest is within two.

**The timeline.** `DayInv` is what a day of the table is: only the last session
can be open. `ItemsInv`: the items end where the next begins, at the place the
loop has reached, and the loop never stands between two short sessions, so a run
it collapses did not begin earlier. `DealInv`: after n turns the buckets hold the
newest n items, as many as they are, each newest first. `StripInv` says the same
of the bars and the finished sessions.

**The groups.** `AttachedFirst(n)`: after n turns the groups are the labels of
the first n sessions, ordered by the first session of each, and the k-th session
of a label is at the k-th place of its group, which is the number of sessions of
this label up to it. The partition is the case n = `Len(day)`. A browser session
that moves to its neighbour's group is attached under a label that has just been
attached, which is where `mark` must have looked at the session before.

**The commits.** `AskedFirst(n)`: the roots seen are those the first n sessions
were about. Which of them `SubRepoRoots` returns, and that it returns each once,
is a fact about its fold (`AmongFacts`).

**The sums.** Each loop of a request has its own invariant: it has added up what
`SumFunctionOnSet` gives for the part it has passed (`TotalsInv`, `GrandInv`,
`HeadInv`, `CardInv`). The fold of the community modules is a CHOOSEn recursive
function over sets, about which the library has no theorem; `Lemmas` proves that
it exists, by induction on the size of a finite set, and that it may take out any
element (`SumFacts`), from which come the sum of a disjoint union, of two
functions, and of one that changes at a place. The heading of a period sums over
items, each of which sums over sessions: `DealtSums(n)` ties the three headings
to the sessions from the first of the n-th newest item on. No total is
estimated: `OpenInv` says that an open session counts 0 everywhere.

Induction. The library's induction theorem for natural numbers takes an operator
as a parameter, which the provers here cannot instantiate. `NaturalsOf` is the
same theorem for a set: a set of natural numbers with 0 and every successor is
all of them. It follows from the least element of its complement
(`LeastNatural`), that is, from the well-foundedness of < on the natural numbers,
and it is enough for what is proved here.

Only model-checked: everything under fairness (`CancelReturns`,
`IdleSessionCloses`, `StopCloses`, `StartEnds`, `SaveEnds`, `WidgetConverges`),
which needs ENABLED, and that the prover does not handle. Nothing is proved
about the four runs that end in a counterexample.

## 5. Abstractions

* Times are integers of one clock that never goes back. Its unit stands for the
  second the code truncates stored times to, except in `ChangedFiles`, where
  the times of files are finer than that. A wall clock set back, and a day of
  23 or 25 hours, are not modelled.
* The checkpoint ticker ticks at multiples of its period, not at multiples
  counted from the start of `Run`.
* A title is a sequence of words, as far as the classifier looks into it; the
  case of process names is folded already.
* `Launch` and `Browser` leave out times, `Launch` also the contexts, `Browser`
  all of a session but its id and its note.
* What a request does between two reads of shared state is one step: the table
  has one connection, the report generator shares nothing but the resolver.
* SQLite keeps its promise: a statement is atomic and durable.
* Durations are unbounded integers: values near the end of 64 bits, which only
  a configuration of centuries reaches, are not considered.
* Texts typed into a card neither begin nor end with U+FEFF or U+0085, which
  the script's `trim` and the server's `TrimSpace` treat differently.
* A repository that `git log` fails in is one outside `Committed`: it is asked
  and left out, as one without commits that day is.
* A page belongs to one process: the report server listens on a port of its
  own. `Browser` therefore has no crash: after one, every request of the page
  fails, which is `NoteRequestFails`.

## 6. Not modelled, and not checked

* The page template, the style sheet and its helpers, folding and scrolling
  (layout and wording).
* Of the markdown: notes, changed files and layout. Of git: the parsing of
  `git log`.
* Where the editors keep their files on each system (`workspaceStorageDirs`);
  the list is the constant `Storage`.
* Autostart (writes one file or registry value), the mock page server, the tray
  icon.
* `CheckpointSession`, `InsertRawEvent`, the `meta` table, `defaultGroups`: no
  caller.

Met while modelling, and not stated as a property of any run:

* Input between the two idle readings of one decision makes the second small,
  and the close then credits the whole absence (`collector.go:109, 136`).
* A change of type under an unchanged label does not start a session
  (`collector.go:175`).
* With polls further apart than 30 s every session is cut to the sleep credit
  (`collector.go:147-149`).
* Deleting today deletes the row of the live session; its later close affects
  no row (`sqlite.go:207`).
* On Linux title and process are asked of the active window one after the
  other (`window_linux.go:17-40`); `WindowMonitor` has it as `OneHandle =
  FALSE`, for which the refinement is proved too.
* `checkpoint_secs` is not clamped, and a ticker of 0 panics (`config.go:85`),
  although the constitution says "No `panic` in production code — all errors
  MUST be handled and logged" (`.specify/memory/constitution.md:67`). That is
  `Panic` in `Launch`, which a configuration of `launch` reaches.
* The recovery of a second start deletes or closes the row the first one has
  open, even if the first has closed it since it was selected: it uses the
  duration it read (`sqlite.go:137-168`). That is `shared` in `Launch`.
* What "Copy for AI" copies is not refreshed when a note is saved; `edited` in
  `Browser` holds the cards it may be wrong about (`reportwindow.go:664`).
* Text typed while a save is under way is lost when the answer arrives; Cancel
  reloads the page and loses what is typed in every other card; the post of an
  abandoned page may overwrite a note saved after it; of two tabs the last one
  wins (`reportwindow.go:726-755`).
* At an end of a note the server's `TrimSpace` takes away U+0085 and leaves
  U+FEFF, the page's `trim` the other way round (`reportwindow.go:198, 743`), so
  card and table may differ by one of these.
* A title separated by hyphens whose file name has an em dash gets a wrong
  label, and so does a file of Cursor that is named " — Visual Studio Code"
  (`classifier.go:83-96`), where the design of the labels wants them clean
  "regardless of which separator VS Code uses"
  (`docs/superpowers/specs/2026-05-04-frontend-redesign-design.md:157`). The
  comment that the order of the suffixes matters (`classifier.go:40`) is not
  borne out: everything from the suffix on is cut, so "Visual Studio Code" cuts
  "Insiders" too.
* Workspaces are discovered once; one opened for the first time afterwards is
  not found until the next start (`main.go:89`).
* `missLogged` is read and written by concurrent requests, for which the
  runtime may end the program (`main.go:105-106`), again against line 67 of the
  constitution. That is `Fatal` in `Workspaces`, which `window_monitor` reaches;
  `MissesSettle` says that it takes a name new to the request that writes it.
* A session in progress has a note's heading or none in the markdown but no
  entry (`formatter.go:56-69`): "My notes" may stand empty.
* The adjacency bounds the browser session, not a gap, as `README.md:168` has it
  ("merge adjacent browser sessions within this gap"), and a session exactly as
  long as it is merged (`grouper.go:33`), where the comment says "< adjacency
  window" (`grouper.go:18`). `Sandwiched` follows the code;
  `GroupsAreThePartition` requires the merge of shorter sessions, forbids it
  for longer ones and leaves the boundary open.
* Stored times are cut to whole seconds, the times of files are not
  (`sqlite.go:103, 129`; `changes.go:68-72`): a save in the second a session
  begins in, but before it, is listed under the session, and one in its last
  fraction of a second is not. `ListedWereSaved` and `LastSaveListed` allow this
  much.
* A session across midnight leaves the strip's axis (`timeline.go:290`).
* Only the last save of a file leaves a trace (`changes.go:69`).

## 7. Plan

Done: the core (`SessionStore`, `Collector`, `Tracker`) and what it promises
(`Journal`), its environment (`EventStream`, `WindowMonitor`, `Classifier`,
`IdleWindows`), a start and a second one (`Migration`, `Launch`), from a title
to a directory (`Workspaces`), what a report computes (`Day`, `Report`,
`GitCommits`, `Formatter`, `Timeline`, `Focus`, `Page`, `ChangedFiles`), and the
page (`Browser`).

Left, in this order:

1. Theorems beyond the properties of the runs: what `CurrentSession` shows
   across restarts, that `Classify` never names two workspaces alike that the
   titles tell apart.
2. Notes and changed files in `Formatter`, which needs rows with notes in `Day`.
3. `Launch` with the times of the sessions, so that what a second start does to
   the durations can be stated.
