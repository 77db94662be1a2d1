------------------------------ MODULE GitCommits ------------------------------
(***************************************************************************)
(* attachGitCommits of internal/report/generator.go with internal/git: the *)
(* repositories behind the workspaces of the day's sessions.  A workspace  *)
(* may be a directory inside a repository, or one of several repositories, *)
(* and two workspaces may share one.                                       *)
(***************************************************************************)
EXTENDS Report, SequencesExt

CONSTANTS
    Resolved,   \* label -> the directory the resolver knows, or NoPath
    NoPath,
    Toplevel,   \* directory -> what git calls its toplevel, or NoRoot
    NoRoot,
    SubDirs,    \* directory -> its directories, in order, none hidden
    Committed   \* repositories whose commits of the day git log tells, one at
                \* least: it may fail in one, and that one is left out

\* A directory git is not asked about has no entry.
ASSUME GitAssumption ==
    /\ Labels \subseteq DOMAIN Resolved
    /\ \A label \in Labels : Resolved[label] # NoPath =>
            Resolved[label] \in DOMAIN Toplevel \cap DOMAIN SubDirs
    /\ \A dir \in DOMAIN SubDirs : SubDirs[dir] \in Seq(ToSet(SubDirs[dir]))
    /\ NoRoot \notin Committed

VARIABLES
    rootsSeen,  \* attachGitCommits' rootsSeen
    commits     \* DailyReport.GitCommits: the repositories listed

gitVars == <<rootsSeen, commits>>

GitInit == rootsSeen = {} /\ commits = <<>>

-----------------------------------------------------------------------------
\* The elements of s that are in S, in order, each once.
Among(s, S) ==
    FoldLeft(LAMBDA kept, x : IF x \in S \ ToSet(kept) THEN Append(kept, x) ELSE kept,
             <<>>, s)

\* The toplevels of the directories of dir.
SubRepoRoots(dir) ==
    LET tops == [k \in DOMAIN SubDirs[dir] |-> Toplevel[SubDirs[dir][k]]]
    IN  Among(tops, ToSet(tops) \ {NoRoot})

CandidateRoots(label) ==
    IF Resolved[label] = NoPath THEN <<>>
    ELSE IF Toplevel[Resolved[label]] # NoRoot THEN <<Toplevel[Resolved[label]]>>
    ELSE SubRepoRoots(Resolved[label])

NextSession ==
    /\ Turn(Len(day), "git", "format")
    /\ UNCHANGED day

AttachOther ==
    /\ pc = "git" /\ day[i].type # "vscode"
    /\ NextSession
    /\ UNCHANGED gitVars

AttachCommits_EachSession ==
    /\ pc = "git" /\ day[i].type = "vscode"
    /\ LET roots == CandidateRoots(day[i].label) IN
        /\ rootsSeen' = rootsSeen \cup ToSet(roots)
        /\ commits' = commits \o Among(roots, Committed)
    /\ NextSession

\* A repository is asked for its commits once, even if git log fails in it.
AttachCommits ==
    /\ pc = "git" /\ day[i].type = "vscode"
    /\ LET roots == CandidateRoots(day[i].label) IN
        /\ rootsSeen' = rootsSeen \cup ToSet(roots)
        /\ commits' = commits \o Among(roots, Committed \ rootsSeen)
    /\ NextSession

attachGitCommits == AttachOther \/ AttachCommits

-----------------------------------------------------------------------------
\* git holds dir in the repository root.
InRepository(dir, root) ==
    \/ Toplevel[dir] = root
    \/ Toplevel[dir] = NoRoot /\ \E sub \in ToSet(SubDirs[dir]) : Toplevel[sub] = root

\* The commits of a repository are listed once, and those of every repository
\* a session of the day was about and git log did not fail in: although two
\* labels may lead to one repository, as a workspace of its own and as one of
\* several (generator.go:117-149; git.go:29-60).
CommitsListedOnce ==
    pc \in {"format", "done"} =>
        /\ IsInjective(commits)
        /\ ToSet(commits) =
            {root \in Committed : \E k \in DOMAIN day :
                /\ day[k].type = "vscode" /\ Resolved[day[k].label] # NoPath
                /\ InRepository(Resolved[day[k].label], root)}
=============================================================================
