----------------------------- MODULE DepInstall -----------------------------
(***************************************************************************)
(* `mb install` and `mb uninstall`: the commands of src/mbpy/main.py, the    *)
(* installer of src/mbpy/pkg/dependency.py and the code of pkg/mpip.py and  *)
(* pkg/requirements.py that rewrites requirements.txt and pyproject.toml.   *)
(*                                                                         *)
(* `mb install p q ...` runs one coroutine per package on one event loop.   *)
(* A coroutine is cut into actions at the awaits that really suspend: the   *)
(* pip child processes (install, and show for the version), the worker      *)
(* threads that search the files and open requirements.txt (which empties   *)
(* it), the clone of a listed git URL, and the close that flushes the new   *)
(* text.  Between two of those the code runs alone.                        *)
(*                                                                         *)
(* A file is the set of its lines and a line is a package with the form it  *)
(* is written in: "spec" (name and version), "url" (a git URL) or "path"    *)
(* (what `-e <directory>` becomes).  Order and version text are left out.   *)
(***************************************************************************)
EXTENDS Naturals, FiniteSets

CONSTANTS
    Pkgs,           \* packages
    Local, Git,     \* those named by a directory, those named by a git URL
    Letters,        \* Letters[p]: the packages whose one-letter name is a letter of p
    InitReqs,       \* lines of requirements.txt at the start
    InitProject,    \* packages in pyproject.toml at the start, all installed, no git source
    MaxTasks,       \* bound: packages of one command
    MaxCmds,        \* bound: commands
    MaxCrashes      \* bound: kills

Line == [name : Pkgs, form : {"spec", "url", "path"}]

ASSUME PkgsAssumption ==
    /\ IsFiniteSet(Pkgs)
    /\ Local \subseteq Pkgs
    /\ Git \subseteq Pkgs
    /\ Local \cap Git = {}
    /\ InitProject \cap Git = {}
    /\ Letters \in [Pkgs -> SUBSET Pkgs]
    /\ InitReqs \subseteq Line
    /\ InitProject \subseteq Pkgs
    /\ MaxTasks \in Nat /\ MaxCmds \in Nat /\ MaxCrashes \in Nat

VARIABLES
    reqs,       \* requirements.txt
    project,    \* pyproject.toml: [project].dependencies, the "all" extra, and whether
                \* the rest of the file (tables, metadata) is still there
    env,        \* packages installed in the environment
    misread,    \* history: packages whose last pip left them uninstalled without a word
                \* of "error"
    running,    \* a command is running
    op,         \* the last command: "install" or "uninstall"
    pc,         \* where each package's coroutine stands
    modified,   \* the new list a coroutine holds until it is written
    cmds, crashes,
    due,        \* history: the packages requirements.txt has to list
    causes      \* history: what has happened that can make it lose one

vars == <<reqs, project, env, misread, running, op, pc, modified, cmds, crashes,
          due, causes>>
files == <<reqs, modified, due, causes>>

Stage == {"idle", "pip", "find", "open", "write", "toml", "purge",
          "done", "skipped", "failed"}
Ended == {"idle", "done", "skipped", "failed"}
Cause == {"overlap", "kill", "clone", "unparsed", "letters"}

Names(lines) == {l.name : l \in lines}

-----------------------------------------------------------------------------
(* The lists *)

\* modify_dependency_list over requirements.txt.  Installing puts the package first and
\* drops its old line; uninstalling is called with a bare string, so the packages that go
\* are the ones named by its letters.
FormOf(p) == IF p \in Local \cup Git THEN "path" ELSE "spec"

\* Mutant: the comparison of the bases is inverted.
WithLine_Inverted(lines, p) ==
    {[name |-> p, form |-> FormOf(p)]} \cup {l \in lines : l.name = p}

WithLine(lines, p) ==
    {[name |-> p, form |-> FormOf(p)]} \cup {l \in lines : l.name # p}

WithoutLetters(lines, p) == {l \in lines : l.name \notin Letters[p]}

\* Mutant: the incoming names are kept beside the lines instead of being made into lines.
ModifiedLines_Bare(lines, p) ==
    IF op = "install" THEN {p} \cup lines ELSE WithoutLetters(lines, p)

ModifiedLines(lines, p) ==
    IF op = "install" THEN WithLine(lines, p) ELSE WithoutLetters(lines, p)

\* aget_requirements_packages: Dependency(line) raises on a "path" line (it looks like a
\* repository that is not org/repo), and then the whole file reads as empty.
Unparsable == \E l \in reqs : l.form = "path"
ParsedReqs == IF Unparsable THEN {} ELSE reqs

\* requirements_name: a url is cloned and comes back as "-e <path>".
Written(lines) ==
    {IF l.form = "url" THEN [l EXCEPT !.form = "path"] ELSE l : l \in lines}

\* A writer's text lands at the start of the file: what another writer put there since
\* this one emptied it stays beyond the end of a shorter text.
Residues(new) ==
    {old \in SUBSET reqs :
        /\ Cardinality(old) + Cardinality(new) <= Cardinality(reqs) \/ old = {}
        /\ old \cap new = {}}

\* What an uninstall finds of a package's name in pyproject.toml: nothing of a git source,
\* whose entry is written with its organisation and its repository swapped and reads back
\* under the wrong name.
Unlisted(p) == {p} \ Git

\* Mutant: installing takes the branch that only filters.
ModifiedProject_Filters(p) ==
    [project EXCEPT !.deps = @ \ Unlisted(p), !.all = @ \ Unlisted(p)]

\* Mutant: uninstalling forgets the "all" extra.
ModifiedProject_KeepsAll(p) ==
    IF op = "install"
    THEN [project EXCEPT !.deps = @ \cup {p},
                         !.all = IF project.intact THEN @ \cup {p} ELSE @]
    ELSE [project EXCEPT !.deps = @ \ Unlisted(p)]

\* modify_pyproject: one update of both tables; the "all" extra exists only while the
\* file still has its optional-dependencies table.
ModifiedProject(p) ==
    IF op = "install"
    THEN [project EXCEPT !.deps = @ \cup {p},
                         !.all = IF project.intact THEN @ \cup {p} ELSE @]
    ELSE [project EXCEPT !.deps = @ \ Unlisted(p), !.all = @ \ Unlisted(p)]

EmptyProject == [deps |-> {}, all |-> {}, intact |-> FALSE]

-----------------------------------------------------------------------------
Init ==
    /\ reqs = InitReqs
    /\ project = [deps |-> InitProject, all |-> InitProject, intact |-> TRUE]
    /\ env = InitProject
    /\ misread = {}
    /\ running = FALSE
    /\ op = "install"
    /\ pc = [p \in Pkgs |-> "idle"]
    /\ modified = [p \in Pkgs |-> {}]
    /\ cmds = 0
    /\ crashes = 0
    /\ due = Names(InitReqs)
    /\ causes = {}

Goto(p, stage) == pc' = [pc EXCEPT ![p] = stage]

Launch(ps, what, stage) ==
    /\ ~running
    /\ cmds < MaxCmds
    /\ cmds' = cmds + 1
    /\ running' = TRUE
    /\ op' = what
    /\ pc' = [p \in Pkgs |-> IF p \in ps THEN stage ELSE "idle"]
    /\ UNCHANGED <<reqs, project, env, misread, modified, crashes, due, causes>>

\* install_pip: every package's install() is handed to process_tasks at once.
StartInstall ==
    \E ps \in SUBSET Pkgs \ {{}} :
        /\ Cardinality(ps) <= MaxTasks
        /\ Launch(ps, "install", "pip")

\* _uninstall_command takes its packages one after the other: one package per command.
StartUninstall == \E p \in Pkgs : Launch({p}, "uninstall", "find")

\* Dependency.install up to the end of pip.  pip installs the package or does not; of a
\* git source it rejects the path the URL was turned into.
PipInstall(p) == (p \notin Git /\ env' = env \cup {p}) \/ env' = env

\* The outcome is guessed from pip's text, never from its exit code.  Text without the
\* word "error" lets the package be recorded, whatever pip did: python has no module pip,
\* pip was killed, or its text was cut at a blank line.
PipClean(p) ==
    /\ pc[p] = "pip"
    /\ PipInstall(p)
    /\ misread' = IF p \in env' THEN misread \ {p} ELSE misread \cup {p}
    /\ Goto(p, "find")
    /\ UNCHANGED <<project, running, op, cmds, crashes, files>>

\* The word "error" anywhere means failure, also when pip installed the package.
PipError(p) ==
    /\ pc[p] = "pip"
    /\ PipInstall(p)
    /\ Goto(p, "skipped")
    /\ UNCHANGED <<project, misread, running, op, cmds, crashes, files>>

CloneSelfFails(p) ==
    /\ pc[p] = "pip"
    /\ p \in Git
    /\ Goto(p, "failed")
    /\ UNCHANGED <<project, env, misread, running, op, cmds, crashes, files>>

\* modify_requirements: the search has found the file; it is read and parsed and the new
\* list computed without suspending, then the file is searched for again.
ReadReqs(p) ==
    /\ pc[p] = "find"
    /\ modified' = [modified EXCEPT ![p] = ModifiedLines(ParsedReqs, p)]
    /\ causes' = causes
          \cup (IF \E q \in Pkgs \ {p} : pc[q] \in {"open", "write"} THEN {"overlap"} ELSE {})
          \cup (IF Unparsable THEN {"unparsed"} ELSE {})
          \cup (IF op = "uninstall" /\ Letters[p] # {} THEN {"letters"} ELSE {})
    /\ Goto(p, "open")
    /\ UNCHANGED <<reqs, project, env, misread, running, op, cmds, crashes, due>>

\* awrite_requirements: open(..., "w") empties the file.
OpenReqs(p) ==
    /\ pc[p] = "open"
    /\ reqs' = {}
    /\ Goto(p, "write")
    /\ UNCHANGED <<project, env, misread, running, op, modified, cmds, crashes, due, causes>>

\* The names are built, written and flushed by the close.
WriteReqs(p) ==
    /\ pc[p] = "write"
    /\ \E old \in Residues(Written(modified[p])) : reqs' = Written(modified[p]) \cup old
    /\ due' = IF op = "install" THEN due \cup {p} ELSE due \ {p}
    /\ modified' = [modified EXCEPT ![p] = {}]
    /\ Goto(p, "toml")
    /\ UNCHANGED <<project, env, misread, running, op, cmds, crashes, causes>>

\* The clone of a listed URL fails: the file is closed with nothing written, and the
\* exception ends the coroutine (process_tasks and _uninstall_command log it).
CloneListedFails(p) ==
    /\ pc[p] = "write"
    /\ \E l \in modified[p] : l.form = "url"
    /\ causes' = causes \cup {"clone"}
    /\ modified' = [modified EXCEPT ![p] = {}]
    /\ Goto(p, "failed")
    /\ UNCHANGED <<reqs, project, env, misread, running, op, cmds, crashes, due>>

\* modify_pyproject: after the search, read, modified and written back in one go.
ModifyProject(p) ==
    /\ pc[p] = "toml"
    /\ project' = ModifiedProject(p)
    /\ Goto(p, IF op = "install" THEN "done" ELSE "purge")
    /\ UNCHANGED <<env, misread, running, op, cmds, crashes, files>>

\* _uninstall_command runs pip last; a pip that fails leaves the package installed.
PipUninstall(p) ==
    /\ pc[p] = "purge"
    /\ env' \in {env, env \ {p}}
    /\ Goto(p, "done")
    /\ UNCHANGED <<project, misread, running, op, cmds, crashes, files>>

\* Mutant: the command waits for every coroutine to succeed.
EndCommand_AllSucceed ==
    /\ running
    /\ \A p \in Pkgs : pc[p] \in Ended \ {"failed"}
    /\ running' = FALSE
    /\ UNCHANGED <<project, env, misread, op, pc, cmds, crashes, files>>

EndCommand ==
    /\ running
    /\ \A p \in Pkgs : pc[p] \in Ended
    /\ running' = FALSE
    /\ UNCHANGED <<project, env, misread, op, pc, cmds, crashes, files>>

\* The process is killed.  A pip it had started may still finish; a kill inside
\* write_text leaves pyproject.toml empty.
Crash ==
    /\ running
    /\ crashes < MaxCrashes
    /\ crashes' = crashes + 1
    /\ running' = FALSE
    /\ pc' = [p \in Pkgs |-> "idle"]
    /\ \/ UNCHANGED project
       \/ (\E p \in Pkgs : pc[p] = "toml") /\ project' = EmptyProject
    /\ \E late \in SUBSET {p \in Pkgs \ Git : pc[p] = "pip"} :
       \E gone \in SUBSET {p \in Pkgs : pc[p] = "purge"} :
          env' = (env \cup late) \ gone
    /\ causes' = causes \cup {"kill" : p \in {q \in Pkgs : pc[q] = "write"}}
    /\ modified' = [p \in Pkgs |-> {}]
    /\ UNCHANGED <<reqs, misread, op, cmds, due>>

Step(p) ==
    \/ PipClean(p)
    \/ PipError(p)
    \/ CloneSelfFails(p)
    \/ ReadReqs(p)
    \/ OpenReqs(p)
    \/ WriteReqs(p)
    \/ CloneListedFails(p)
    \/ ModifyProject(p)
    \/ PipUninstall(p)

Next ==
    \/ StartInstall
    \/ StartUninstall
    \/ \E p \in Pkgs : Step(p)
    \/ EndCommand
    \/ Crash

Spec == Init /\ [][Next]_vars

\* The event loop resumes a coroutine whose await is over; pip and git are assumed to end.
FairSpec ==
    /\ Spec
    /\ \A p \in Pkgs : WF_vars(Step(p))
    /\ WF_vars(EndCommand)

-----------------------------------------------------------------------------
(* Properties *)

TypeOK ==
    /\ reqs \in SUBSET Line
    /\ project \in [deps : SUBSET Pkgs, all : SUBSET Pkgs, intact : BOOLEAN]
    /\ env \in SUBSET Pkgs
    /\ misread \in SUBSET Pkgs
    /\ running \in BOOLEAN
    /\ op \in {"install", "uninstall"}
    /\ pc \in [Pkgs -> Stage]
    /\ modified \in [Pkgs -> SUBSET Line]
    /\ cmds \in Nat /\ crashes \in Nat
    /\ due \in SUBSET Pkgs
    /\ causes \in SUBSET Cause

\* pyproject.toml lists a package that is not installed only if its last pip ended without
\* installing it and without the word "error", through failures, kills and concurrent
\* coroutines: install records after pip, uninstall unrecords before pip.
FalseListingHasCause == project.deps \cup project.all \subseteq env \cup misread

\* requirements.txt loses a package it has to list only if coroutines overlapped between
\* reading and writing it, a writer was killed or its clone failed after emptying the
\* file, a line could not be parsed, or a package name was taken apart into letters.
LossHasCause ==
    causes = {} /\ (\A p \in Pkgs : pc[p] # "write") => due \subseteq Names(reqs)

\* The dependency table of pyproject.toml behaves as if each coroutine updated it in one
\* step, although the same coroutines lose each other's updates of requirements.txt.  Git
\* sources are left out: a misread pip enters them under a name no uninstall finds.
RequestOf(stage) ==
    CASE stage = "idle" -> "none"
      [] stage \in {"done", "purge"} -> "served"
      [] stage \in {"skipped", "failed"} -> "refused"
      [] OTHER -> "pending"

Ledger == INSTANCE PkgLedger WITH
    Pkgs <- Pkgs \ Git,
    listed <- project.deps \ Git,
    request <- [p \in Pkgs \ Git |-> RequestOf(pc[p])]

ImplementsLedger == Ledger!LedgerSpec

\* A coroutine that fails ends without holding up the command: every command ends.
CommandEnds == running ~> ~running

\* main.py:61 and main.py:261 say that the commands "update requirements.txt and
\* pyproject.toml accordingly".
InstallUpdatesRequirements ==
    ~running /\ op = "install" => \A p \in Pkgs : pc[p] = "done" => p \in Names(reqs)

UninstallUpdatesRequirements ==
    ~running /\ op = "uninstall" => \A p \in Pkgs : pc[p] = "done" => p \notin Names(reqs)

=============================================================================
