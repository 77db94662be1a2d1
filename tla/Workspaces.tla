------------------------------ MODULE Workspaces ------------------------------
(***************************************************************************)
(* From a window to the directory a report looks into: the monitor, the    *)
(* labels the classifier gives editors, Discover of internal/vscode, which *)
(* main runs once beside the monitor, and the resolver main hands to the   *)
(* report generator, which requests for reports call concurrently.         *)
(*                                                                         *)
(* A label is a sequence of words, and so is the name of a workspace.  The *)
(* windows of Windows carry a field ws: the name of the workspace that is  *)
(* open in an editor, or <<>>.                                             *)
(***************************************************************************)
EXTENDS WindowMonitor, FiniteSets, Functions

CONSTANTS
    Storage,  \* the workspace.json files in the order they are listed:
              \* [uri, name, exists, written] records
    Reqs      \* requests that may run at the same time

\* uri says which of the two fields holds a file:// URI; written is the
\* modification time when Discover starts.
ASSUME WorkspacesAssumption ==
    /\ Storage \in Seq({Storage[k] : k \in DOMAIN Storage})
    /\ \A k \in DOMAIN Storage :
        /\ Storage[k].uri \in {"folder", "workspace", "neither"}
        /\ Storage[k].exists \in BOOLEAN /\ Storage[k].written \in Nat
    /\ IsFiniteSet(Reqs)
    /\ \A w \in Windows : \A s \in {w.title, w.ws} : s \in Seq({s[k] : k \in DOMAIN s})

NoName == <<>>

VARIABLES
    entry,       \* the workspace.json Discover looks at
    touched,     \* those the editor has written since it began
    byName,      \* Discover's map: name -> [of, mtime]
    labels,      \* labels of recorded VS Code sessions
    missLogged,  \* main's map: the names it says are logged
    calls,       \* request -> where its call of the resolver is
    died         \* the runtime has ended the program

discoverVars == <<entry, touched, byName>>
resolverVars == <<missLogged, calls, died>>
workspacesVars == <<discoverVars, labels, resolverVars>>
allVars == <<vars, workspacesVars>>

\* Where a call is: reading missLogged ("look"), between ("miss") or writing it
\* ("write").  raced: a write by another goes on, or went on, during the access.
\* known (history): the name was in the map before the look, and nobody wrote
\* during it.
At(where, name, raced, known) ==
    [at |-> where, name |-> name, raced |-> raced, known |-> known]

Idle == At("idle", NoName, FALSE, FALSE)

WorkspacesInit ==
    /\ MonitorInit
    /\ entry = 1 /\ touched = {} /\ byName = [name \in {} |-> Idle]
    /\ labels = {}
    /\ missLogged = {} /\ calls = [r \in Reqs |-> Idle] /\ died = FALSE

\* The collector stores what it receives.
Record ==
    /\ Receive
    /\ labels' = labels \cup {c.label : c \in {x \in {Head(queue).ctx} : x.type = "vscode"}}
    /\ UNCHANGED <<discoverVars, resolverVars>>

Watch ==
    /\ Tick \/ SwitchWindow \/ Stop \/ OnStop \/ Poll
    /\ UNCHANGED workspacesVars

-----------------------------------------------------------------------------
(* Discover                                                                *)

Scanned == entry > Len(Storage)

\* Newer than any other; nothing reads the files after the scan.
Mtime(k) ==
    IF k \in touched THEN 1 + CHOOSE m \in {Storage[j].written : j \in DOMAIN Storage} :
                                    \A j \in DOMAIN Storage : Storage[j].written <= m
    ELSE Storage[k].written

Touch ==
    /\ ~Scanned
    /\ \E k \in DOMAIN Storage \ touched : touched' = touched \cup {k}
    /\ UNCHANGED <<vars, entry, byName, labels, resolverVars>>

\* What has no path, or one that is not there, is passed over.
Usable(k) == Storage[k].uri # "neither" /\ Storage[k].exists

Skip ==
    /\ ~Scanned /\ ~Usable(entry)
    /\ entry' = entry + 1
    /\ UNCHANGED <<vars, touched, byName, labels, resolverVars>>

Put(name, candidate) ==
    [n \in DOMAIN byName \cup {name} |-> IF n = name THEN candidate ELSE byName[n]]

Candidate_LastWins ==
    /\ ~Scanned /\ Usable(entry)
    /\ byName' = Put(Storage[entry].name, [of |-> entry, mtime |-> Mtime(entry)])
    /\ entry' = entry + 1
    /\ UNCHANGED <<vars, touched, labels, resolverVars>>

\* The first of a name, or one more recent than those before.
Candidate ==
    /\ ~Scanned /\ Usable(entry)
    /\ LET name == Storage[entry].name IN
        byName' = IF name \notin DOMAIN byName \/ byName[name].mtime < Mtime(entry)
                  THEN Put(name, [of |-> entry, mtime |-> Mtime(entry)])
                  ELSE byName
    /\ entry' = entry + 1
    /\ UNCHANGED <<vars, touched, labels, resolverVars>>

Discover == Skip \/ Candidate

-----------------------------------------------------------------------------
(* The resolver                                                            *)

Writing == \E r \in Reqs : calls[r].at = "write"

\* A name that is known is answered from a map that nobody writes any more;
\* with any other the call begins to read missLogged.
Call(r) ==
    /\ Scanned /\ calls[r].at = "idle"
    /\ \E label \in labels :
        LET name == TrimSuffix(label, " (Workspace)") IN
        /\ name \notin DOMAIN byName
        /\ calls' = [calls EXCEPT ![r] =
                        At("look", name, Writing, name \in missLogged /\ ~Writing)]
    /\ UNCHANGED <<vars, discoverVars, labels, missLogged, died>>

Look_Always(r) ==
    /\ calls[r].at = "look"
    /\ calls' = [calls EXCEPT ![r] = At("miss", @.name, FALSE, @.known)]
    /\ UNCHANGED <<vars, discoverVars, labels, missLogged, died>>

\* !missLogged[name] is read: beside a write it may come out either way.
Look(r) ==
    /\ calls[r].at = "look"
    /\ \E found \in IF calls[r].raced THEN BOOLEAN ELSE {calls[r].name \in missLogged} :
        calls' = [calls EXCEPT ![r] = IF found THEN Idle
                                      ELSE At("miss", @.name, FALSE, @.known)]
    /\ UNCHANGED <<vars, discoverVars, labels, missLogged, died>>

Disturbed(call) ==
    CASE call.at = "look" -> At("look", call.name, TRUE, FALSE)
      [] call.at = "write" -> [call EXCEPT !.raced = TRUE]
      [] OTHER -> call

\* missLogged[name] = true begins; whoever is at the map races with it.
Log(r) ==
    /\ calls[r].at = "miss"
    /\ calls' = [q \in Reqs |->
                    IF q = r THEN At("write", calls[r].name, Writing, calls[r].known)
                             ELSE Disturbed(calls[q])]
    /\ UNCHANGED <<vars, discoverVars, labels, missLogged, died>>

\* ... and ends, with the line in the log; a write beside another may be lost.
Logged(r) ==
    /\ calls[r].at = "write"
    /\ \/ missLogged' = missLogged \cup {calls[r].name}
       \/ calls[r].raced /\ UNCHANGED missLogged
    /\ calls' = [calls EXCEPT ![r] = Idle]
    /\ UNCHANGED <<vars, discoverVars, labels, died>>

\* The runtime may find a second one at the map while it is written, and ends
\* the program: a fatal error, which no handler recovers from.
Fatal ==
    /\ \E r, q \in Reqs :
        r # q /\ calls[r].at = "write" /\ calls[q].at \in {"look", "write"}
    /\ died' = TRUE
    /\ UNCHANGED <<vars, discoverVars, labels, missLogged, calls>>

Resolve == \E r \in Reqs : Call(r) \/ Look(r) \/ Log(r) \/ Logged(r)

-----------------------------------------------------------------------------
\* Nothing goes on in a program that was ended.
WorkspacesNext ==
    \/ ~died /\ (Watch \/ Record \/ Touch \/ Discover \/ Resolve \/ Fatal)
    \/ Terminated /\ UNCHANGED workspacesVars
    \/ died /\ UNCHANGED allVars

\* As in MonitorSpec, while the program runs.
WorkspacesSpec ==
    /\ WorkspacesInit /\ [][WorkspacesNext]_allVars
    /\ WF_allVars(~died /\ Poll /\ UNCHANGED workspacesVars)
    /\ SF_allVars(~died /\ OnStop /\ UNCHANGED workspacesVars)

\* What an editor writes into its title, by its own settings; with no file
\* open it begins with the workspace.
EditorTitle(file, workspace, separator, brand) ==
    (IF file = <<>> THEN <<>> ELSE file \o <<separator>>)
        \o workspace \o <<separator>> \o brand

Separators == {EM, HY}

\* What is after the name of a folder, and after that of a workspace file.
Marks == {<<>>, <<" (Workspace)">>}

\* An editor's title that nothing in it makes ambiguous: no dash after the
\* workspace's place is one the code splits at, no brand that the code looks
\* for before the editor's own is in it, and the workspace's own name does not
\* end like that of a workspace file.
Legible(w) ==
    \E k \in 0 .. Len(w.title), sep \in Separators, mark \in Marks,
       n \in DOMAIN vscodeSuffixes :
        LET file == SubSeq(w.title, 1, k)
            rest == w.ws \o mark
        IN
        /\ w.proc \in vsCodeProcesses
        /\ w.title = file \o (IF k = 0 THEN <<>> ELSE <<sep>>) \o rest \o vscodeSuffixes[n]
        /\ \A m \in 1 .. n - 1 : ~Contains(w.title, vscodeSuffixes[m])
        /\ ~Contains(w.ws, <<sep>>)
        /\ sep = HY => ~Contains(file \o rest, <<EM>>)
        /\ k = 0 => \A dash \in Separators : ~Contains(w.ws, <<dash>>)
        /\ mark = <<>> => TrimSuffix(w.ws, " (Workspace)") = w.ws

-----------------------------------------------------------------------------
\* An observation of an editor is recorded under the name of the workspace
\* open in it, whatever dashes and brands the name of the file has, as far as
\* the title is legible: an em dash in one that is separated by hyphens, or
\* " -- Visual Studio Code" in a file's name in Cursor, gives another label
\* (classifier.go:83-107; window.go:50-62).
LabelIsWorkspace ==
    pc = "send" /\ proc # NoProc /\ handle.ws # NoName /\ Legible(handle) =>
        ContextOf[proc][title] = [type |-> "vscode", label |-> handle.ws]

\* Of several workspaces with one name a report looks into the one used last:
\* none that could be read and was left alone while Discover ran is missing or
\* more recent than the one chosen (discover.go:77-79, 119-120, 142-144).
MostRecentWins ==
    Scanned =>
        \A k \in {j \in DOMAIN Storage \ touched : Usable(j)} :
            LET name == Storage[k].name IN
            /\ name \in DOMAIN byName
            /\ Storage[byName[name].of].name = name
            /\ Mtime(k) <= Mtime(byName[name].of)

\* The map is written for a name only until somebody has written it: by the
\* requests that looked before that, or that looked while somebody wrote.
\* Whoever looks later writes nothing, and the program ends only for a name
\* that was new to the request that wrote it: reports for days that were
\* reported before are safe (main.go:101-111).
MissesSettle ==
    /\ \A r \in Reqs : calls[r].at \in {"miss", "write"} => ~calls[r].known
    /\ died => \E r \in Reqs : calls[r].at = "write" /\ ~calls[r].known

\* Stop is answered: the channel is closed in the end, although ticks compete
\* with it in the select, unless the program was ended before
\* (window.go:46-48).
StopCloses == stopped ~> ended \/ died
=============================================================================
