# TLA+ models of mbpy

mbpy (`mb`) is a command line tool for Python projects: it installs and uninstalls packages and
records them in `requirements.txt` and `pyproject.toml`, clones packages from git, pushes the
project, and drives child processes through its own versions of pexpect.  This directory holds
TLA+ modules of the parts in which an order of events, a failure or a bound can do harm, the TLC
configurations that check them on small instances, and theorems checked by TLAPS.  File and line
references are to `src/mbpy/`.

Run a model with `tlc -config <cfg> <module>`, a proof module with `tlapm <module>.tla`.
`PROJECT.json` maps every definition to its lines of the source and lists the runs, the mutants
(plausible bugs that each property catches), the findings, the hazards and the theorems.

## Inventory

| Component | State | Operations | Interacts with | Correct if |
|---|---|---|---|---|
| package commands: `main.py`, `cli.py`, `pkg/dependency.py`, `pkg/mpip.py`, `pkg/requirements.py` | `requirements.txt`, `pyproject.toml`, the environment; per package a coroutine with the list it has read | `mb install p q ..` (coroutines at once), `mb uninstall` (in turn), kill | pip (child process), clone of git sources, the memo cache | no update of a file is lost, a package is recorded only after its pip, a failing package does not hold up or harm the others |
| child processes: `expect/asyncspawn.py`, `cmd.py` | two pipes, the result, the process | `arun`: enter, `readtext`, leave; cancel | every command that runs a tool | output complete and in order, no process left behind, no standstill |
| cloning: `clone_repo` of `pkg/git.py`, `_clone_git` of `pkg/dependency.py` | clones on disk, `_cloned_repos`, a lock per repository, cached generators | first call, later call, git ends or fails | `acache`, git and gh, the package commands | one git per repository, a success means a clone |
| expecter: `expect/{expect,searcher,pop,spawnbase}.py` | queue between reader thread and caller, `_buf`, `_before`, `_buffer` | `expect*` calls, reads of the thread, timeout, end | `PopenSpawn`'s child, shell wrappers | the answer does not depend on the chunking, no text lost, calls return |
| git push: `push`, `recover_branch`, `undo_last_commit`, `run_git` of `pkg/git.py` | HEAD, branches, index, tree, stash, a stopped rebase, origin | `mb push` command by command, `mb undo` | git, other people's pushes, timeouts | nobody's work is lost, recovery gets back to the branch |
| memo cache: `helpers/_cache.py` | a dictionary of the module and one of the class, the file written at exit | call, expiry, clear, load, exit, kill | everything decorated with `cache` / `acache` | one answer per key, nothing from before a clear or from another process, errors of its own only with a cause |
| lazy initialisation: `with_async_init` of `pkg/dependency.py` | a condition (lock) and a done flag per `Dependency`, both taken over by copies | first and later calls, copying | methods of `Dependency`, cloning | a method runs only after its clone, nothing is initialised twice, callers end |
| import graph, diff viewer, documents, templates, PyPI search, lazy imports, console, change logs | none shared or kept | sequential | | (not modelled, see below) |

Hard behaviours and where they are: interleaving coroutines (package commands, cloning), a reader
thread (expecter), two pipes read in lockstep (child processes), sharing of an object with a life
of its own (cached generators), kills and partial failures (package commands, git push), other
actors on origin (git push), timeouts and cancellations (child processes, expecter, git push).
`PROJECT.json` has them line by line under `hazards`.

## Modules

    PkgLedger  <-- refined by -- DepInstall    MCDepInstall    DepInstallProofs
                 CloneRepo <-- refined by, and
                               composed in -- LazyInit     MCCloneRepo, MCLazyInit
                                                           CloneRepoProofs, LazyInitProofs
    ExpectText <-- refined by -- Expecter      MCExpecter      ExpecterProofs, ExpecterTextProofs
                                 AsyncSpawn                    AsyncSpawnProofs
                                 MemoCache     MCMemoCache     MemoCacheProofs
                                 GitPush                       GitPushProofs

`DepInstall` is the composition of the installer and the two files; cloning enters it as an
action that may fail (`CloneListedFails`, `CloneSelfFails`), and `CloneRepo` is the closer look at
that action.  In the same way the text of pip enters `DepInstall` as "error or not", which
does not tell what pip did, and `AsyncSpawn` is the closer look at how that text is read.  `LazyInit` puts the wrapper through which
a `Dependency` gets its clone on top of `CloneRepo`.  `MemoCache` looks at the cache for its own sake;
the one use of it where an object in the cache matters to its users is `CloneRepo`.

### DepInstall (package commands)

`pc[p]` is where the coroutine of package `p` is suspended.  `mb install p q` starts one coroutine
per package in one event loop (`StartInstall`; `process_tasks`, cli.py), so control changes only
at awaits that suspend: the pip child (`PipClean`, `PipError`, `CloneSelfFails`), the
worker threads that search the file (`ReadReqs` is all that happens after the search: read, parse,
compute the new list), the open that empties `requirements.txt` (`OpenReqs`), the clone of listed
URLs and the closing flush (`WriteReqs`, `CloneListedFails`), the search for `pyproject.toml`
(`ModifyProject`, one go after it), and pip again for an uninstall (`PipUninstall`).  `Crash` is a
kill of the process at any point; pip may still finish.

`install()` never looks at pip's exit code, only for the word "error" in its text
(dependency.py:943-950).  So whether pip installed the package (`PipInstall`) and how its text is
read are independent: `PipError` skips a package that may be installed, and `PipClean` records one
that may not be, because python has no module pip, pip was killed, or the text was cut at a blank
line before the error.  The history variable `misread` keeps the packages of which the last is true,
and `FalseListingHasCause` says that nothing else makes pyproject.toml list a package that is not
installed.  A git source can only be recorded in this way, since pip rejects the path its URL is
turned into, and its entry in `pyproject.toml` has organisation and repository swapped
(dependency.py:512-513), so that an uninstall by name does not find it (`Unlisted`).

Two more behaviours of the code that look odd are modelled as they are: uninstalling passes the
name as a bare string, which is then iterated letter by letter (`WithoutLetters`), and one line that
`Dependency(line)` cannot parse makes the whole file read as empty (`ParsedReqs`).  A file is a set of lines `[name, form]`; order and
version text are left out.

`PkgLedger` is what a package command promises about one table: each package is an independent
request that takes effect in one step.  `DepInstall` implements it for the packages of
`pyproject.toml` that are no git sources (`ImplementsLedger`) and, as `dep_lost_update` shows, not for `requirements.txt`.

### CloneRepo (cloning of git sources)

A *key* is the pair of arguments of a call, `RepoOf` the repository clone_repo derives from it;
two spellings of one URL are two keys.  `memo` is the `acache` of `_clone_git` (keys that have
returned), `gen[k]` the generator object that the `acache` of `clone_repo` holds for `k`: new,
waiting for the lock, running git, left at its yield, finished.  A task calls (`CallClone`), waits
for the search (`NotFound`, `Found`), and drives the generator (`GetLock`, `GitClones`,
`GitClonesOddly` when the loop is left by an exception after git has succeeded, `GitFails`).  That an object in use may be
handed to a second task, and a used-up one to a third, is the point of the model.  Two spellings
for one path are a use of `clone_repo` as a library; the callers in src pass one spelling.

### LazyInit (lazy initialisation)

The tasks of `CloneRepo` now call wrapped methods (`CallMethod`) on objects of the class
`Dependency`; `KeyOf[o]` is what an object clones.  `at[t]` is where a call stands in the wrapper:
on its way into `cond.acquire()`, into `async with cond`, initialising, or done.  `holder` and
`waiters` are the asyncio.Lock of each condition, first come first served.  The wrapper asks for a
held lock twice, `not cond.locked() or await cond.acquire()` and then `async with cond`
(`FirstCall`, `Woken`), so that a call that had to wait once takes the lock and then waits for
itself: `HeldForCause`, `WrappedCallsEnd` and the theorem `WaitersStay` say exactly that.  The
commands of the repository start one coroutine per object; two calls at once on one object, or on
an object and its copy (`Copy`, which shares the condition and copies the flag), are a use as a
library.  While a call initialises, `CloneStep` is a step of `CloneRepo`; `LazyInit` implements
`CloneRepo` (theorem `LazyImplementsClone`), and the properties of `CloneRepo` are checked in its run.
Two branches are there because the code has them and have no instance: the objects of the run are
all git sources (`Begin` without a source sets the flag at once), and a call that finds the lock
free but queued for (`FirstCall`, "entering") needs a waiter that can move, which `Line` of the
proof excludes.

### MemoCache (memo cache)

A run is one process of `mb`: import of the module (`Start`, `Load`), calls, `Clear` (`clear_all`, run
at the import of `dependency.py`), and the writing at exit in two steps (`Exit`, `Save`), with a kill
possible at any time.  The runs share one file; `writers` and `mixed` say who has it open and who
had company.  A stored result is the number of its computation.  Calls of plain functions run in
worker threads, so `SyncCall` (is there an entry?), `Read` (take it, look at its age), `Renew` and
`Drop` are steps of their own; a coroutine looks once (`AsyncCall`).  As the code has it: what is
loaded goes to the dictionary of the class, where no call looks; a coroutine's entry does not age;
an expired entry makes its next reader raise KeyError instead of computing; a
`MB_CACHE_TTL` set in the environment is a string, and every hit of a plain function raises
TypeError.  These are in the properties as causes, not as findings: nothing in the repository says
otherwise.

### Expecter and ExpectText

`Expecter` has the reader thread (`ThreadReads`, `ThreadEnds`) and one caller in `expect_loop`:
`Expect` is the call with its `existing_data`, `StartRead`, `Get`, `GetClosed` and `EndRead` are
`read_nonblocking` with the thread able to run in between, `NewData` / `DoSearch` / `Trimmed` the
searching with lookback and `searchwindowsize`.  Characters are model values in sequences; `"h"`,
`"l"` are the two bytes of one character, which `_log` fails to decode when a piece cuts it in
half.  Patterns are literal strings, in a `searcher_string` (with lookback) or a `searcher_re`
(without); the spawn has no encoding.  `ExpectText` has neither buffers nor chunks: a call looks at
all text received since the last match (or at its last `w` characters) and gives the first
occurrence.  `Expecter` implements it with the text mapped to `_before`.
That `read_nonblocking` returns leftovers after the end (pop.py:98-100) turned out to be dead code
for `expect`: `EofIsLast` states the reason, an empty `_buf`.

### AsyncSpawn

One call of `arun`: `readline` takes a line of stdout, then awaits one of stderr (`ReadStdout`,
`ReadStderr`), `streamlines` breaks off at the first pair without text (`Ends`), and leaving
the context terminates the child (`Terminate`, `GraceOver`, `Reaped`).  The child writes to either
pipe until it is full, reads its stdin or exits, and may ignore SIGTERM.  `Cancel` is a
cancellation of the calling task, also in the middle of `terminate`.

### GitPush

One action per git command of `push` and `recover_branch`; `pc` names the next command.  Works
(model values) are what commits hold: a branch is a set of works, `tree` the ones not committed,
`staged` those in the index.  `Ends(next)` is the way every command of `run_git` ends: whatever its
exit code the next one follows, or its timeout kills it, before or after its effect, and the
exception goes where `Handler` says (recovery, hard recovery, finally).  Exit codes are ignored by
the model exactly where the code ignores them.  git is external; its rules (pull --rebase refuses
a tree with changes, checkout -b fails on an existing branch, a stash is refused with an unmerged
index, --force-with-lease compares origin with the remote-tracking branch) were tried out with git
itself.  `Undo` is `mb undo`, `reset --soft HEAD~1` and `reset`: the works of the last commit, any but
those that were there at the start, go back to the tree; git refuses it on a single commit and
during a conflict.  Untracked files, the commands that set the remote and the upstream, and users
who switch branches between calls are left out.

## Runs

| Run | Instance | Shows |
|---|---|---|
| `dep_install` | 3 packages (a one-letter name from the index, a directory with this letter in its name, a git URL), 3 commands, 2 coroutines, 1 kill | `FalseListingHasCause`, `LossHasCause`, `ImplementsLedger`, `CommandEnds` |
| `dep_lost_update` | 3 packages, 1 command of 2 | violated: `InstallUpdatesRequirements` |
| `dep_uninstall_letters` | 3 packages, 1 command | violated: `UninstallUpdatesRequirements` |
| `clone_repo` | 3 tasks, 3 calls in all, 4 objects (one a copy of another) with 2 spellings of 1 repository | `OneGitPerRepo`, `DriverAndGenerator`, `FalseSuccessHasCause`, `FullStaysFull`, `CallsEnd`; `LazyTypeOK`, `BodyRunsCloned`, `OneInitPerCondition`, `HeldForCause`, `NoSecondInit`, `WrappedCallsEnd` |
| `clone_retry` | 2 tasks, 1 call each | violated: `SuccessMeansCloned` |
| `expecter` | all streams of up to 4 bytes, and one with a two-byte character; chunks of 1-2, pieces of 3; 4 searchers, window 2 or none; 2 calls | `BufferIsTheEnd`, `NothingLost`, `EofIsLast`, `ImplementsText`, `ExpectReturns` |
| `expect_torn` | one two-byte character | violated: `BeforeIsAllReceived` |
| `async_spawn` | 5 lines, pipes of 2, 2 cancellations | `NothingLostInPairing`, `StopsShortAtBlank`, `NoOrphan`, `EndsOrStuck` |
| `readtext_truncates` | 4 lines | violated: `WholeOutput` |
| `git_push` | 2 pushes, any undoing, 2 works of the user, 2 of others, 1 stash, 1 killed command | `WorkLossHasCause`, `RecoveryReturns`, `PushedWorkArrives`, `RemoteLossHasCause` |
| `git_push_origin` | 1 push, 1 work each, no timeout | violated: `RemoteKeepsWork` |
| `memo_cache` | 2 runs, one with a TTL from the environment, 2 calls at a time, 1 plain function and 1 coroutine, 2 computations | `AnswersOfThisRun`, `OneAnswer`, `SyncRaisesHaveCause`, `ClearHolds`, `FailedStartRepairs` |

Each passing run also checks `TypeOK`.

*Why the bounds are enough.*  `dep_install`: a lost update needs two coroutines, the letter mix-up
and the unparsable line need one command to write what a later one reads, so three commands; one
kill empties a file and leaves a command to find it.  `clone_repo`: a generator has one
driver, one intruder and one that waits with the other spelling, hence three tasks; the third call
sees a generator that was left at its yield or used up.  On the side of the wrapper, three calls
are one that initialises, one that waits for it and one that comes after; an object and its copy
share a condition, the other two objects have one each.  `memo_cache`: two computations are what a
miss of two calls, an entry and its successor, or one entry in each process need; every property
relates two calls or two processes.  Calls are interchangeable, hence the symmetry, and the only
temporal property there is an action property, for which it is sound.  `expecter`: patterns have up to three
characters, so four bytes in chunks of one or two straddle every boundary of chunk, piece, window
and lookback; the second call starts with what any first call left behind.  A run with three calls
on streams of three bytes found nothing else.  `async_spawn`: pipes of two lines fill up with three
lines to spare.  `git_push`: the second push meets what the first left behind (a stopped
rebase, a fresh branch, a popped stash); one timeout puts recovery into its hard branch.
`CHECK_DEADLOCK FALSE` is used because every bound on calls makes the models stop.

*Fairness.*  Liveness needs: the event loop resumes a coroutine whose await is over
(`WF_vars(Step(p))`, `WF_vars(Progress(t))`, `WF_vars(Call)`, `WF_vars(EndCommand)`), and the
external programs waited for without a timeout end (pip, git, gh: part of the same actions).  In
`LazyInit` it is the same with the wrapper around (`WF_lazyVars(Step(t))`); a task that queues for a lock is only resumed when it is given
it.  In `AsyncSpawn` the timer of the grace period fires, the child goes on (or waits for input or for a
pipe, which is why the property is `EndsOrStuck`), and SIGKILL works; nothing makes a child obey
SIGTERM.  In `Expecter` the loop runs on, and since `expect_loop` looks at the clock in every
round, its timeout is strongly fair; nothing is assumed of the child or the reader thread, so a
call without a timeout has to return only if the child closes its output.  `GitPush` and `MemoCache` state
safety only: neither waits for anything but git and the cached functions.

## Findings

Six things the code says of itself do not hold; the runs that expect a violation show each
with a short trace.

* `dep_lost_update`: two successful installs of one command can leave only one in
  `requirements.txt`; the read-modify-write of mpip.py:185-199 has awaits in it and no lock.
* `dep_uninstall_letters`: `mb uninstall` keeps the package's line and drops one-letter packages.
* `clone_retry`: after a failed clone the next call returns the path as if cloned.
* `expect_torn`: an exception inside a read loses the text read.
* `readtext_truncates`: a blank line of output ends "the entire output".
* `git_push_origin`: the lease of `--force-with-lease` is refreshed by the fetch before it, and the
  result of the pull is ignored, so works of others are overwritten.

The passing runs then say how far each goes: `LossHasCause`, `FalseSuccessHasCause`,
`StopsShortAtBlank`, `RemoteLossHasCause` and `WorkLossHasCause` name the only causes there are;
`FalseListingHasCause` does so for a package that is listed and not installed, where the one cause
is that pip's exit code is ignored.  And each promise that a run refutes has a theorem that says
under which condition it does hold:

| Refuted | Holds | Theorem |
|---|---|---|
| `InstallUpdatesRequirements` | while none of the five causes has happened; of a command that installs one package, always | `InstallUpdatesUnlessLost`, `InstallAloneUpdates` |
| `UninstallUpdatesRequirements` | of a package whose name is one of its own letters | `UninstallTakesLetters` |
| `SuccessMeansCloned` | while git has not failed; afterwards no call with the same arguments runs git again | `ClonedUntilFailure`, `FailureIsFinal` |
| `BeforeIsAllReceived` | of a child without characters of more than one byte | `WholeWithSingleBytes` |
| `WholeOutput` | of a child that writes no blank line | `WholeWithoutBlank` |
| `RemoteKeepsWork` | if a call overwrites the branch of origin only after its pull has rebased it | `RebasedPushesKeepWork` |

## Theorems

For every value of the constants, under the assumptions named in the modules: `PkgsAssumption`
(no git source is in `pyproject.toml` at the start),
`CloneAssumption`, `LazyAssumption` (a copy is of an original and clones the same), `MemoAssumption`
(plain functions and coroutines are apart), `SpawnAssumption`, `ExpecterAssumption` (streams and
patterns are sequences of characters, the marks are none), `GitPushAssumption`; otherwise functions
with the right domain and natural bounds. The sets of packages, tasks, objects, runs and works may
be of any size, streams, pipes, chunks and windows of any length.

* `DepInstallProofs`. `Typing`. `FalseListing` (`FalseListingHasCause`): inductive with
  `Records`, the stages at which a package is known to be in the environment or misread, since
  install records after pip and uninstall unrecords before pip; for git sources, which an uninstall
  does not unrecord, it needs that none is ever in the environment. `NoLossWithoutCause` (`LossHasCause`): the
  strengthening `Kept` says that as long as `causes` is empty at most one coroutine is between its
  read and its write, and the list it holds has every name that is due; this needs the lemma
  `ListNames` on what the list helpers keep. `InstallUpdatesUnlessLost`, `InstallAloneUpdates` and
  `UninstallTakesLetters` add `Recorded`, what the list of a coroutine that is between its read and
  its write, or done, says of its own package; alone in its command (`Solo`) no other coroutine can
  overwrite it. `ProjectImplementsLedger` (`ImplementsLedger`): initial states map to initial
  states, and every action to `Begin`, `Serve`, `Refuse`, `Kill` or a stutter.
* `CloneRepoProofs`. `Typing`, `OneClone`, `OneDriver`, `FalseSuccess`, `CloneStays`,
  `FailureIsFinal`, `ClonedUntilFailure`. The properties are not inductive alone: `Locking` says
  that a generator past the lock is the one the lock is taken for, `OnDisk` that `_cloned_repos` and
  the disk agree, `Causes` that a used-up generator or a remembered call stands for a clone or for a
  failure. `FailureIsFinal`, about steps, rests on `UsedUpByFailure`.
* `LazyInitProofs`. `LazyImplementsClone`, by which the theorems of `CloneRepoProofs` hold under the
  wrapper; `BodyRunsOnClone`, which joins the two: when the body of a wrapped method runs, flag,
  memo and disk agree that the clone is there, or git has failed before; `LazyTyping`, `BodyRuns`,
  `OneInit`, `Held`, `NoSecond`, and `WaitersStay`: a call that had to wait for the lock never
  leaves the wrapper. The invariant `LInv` has a part for each link between lock, queue, flag and
  memo: `Owned`, `Line`, `Remembered`, `Clones`, `Flagged`, `RanReady`.
* `MemoCacheProofs`. `MemoTyping`, `OwnAnswers`, `SameAnswer`, `RaisesForCause`, `Cleared`,
  `StartRepairs`. `MInv` says where the numbers in dictionaries and calls come from (`Owned`), what
  the calls of one key agree on while nothing is forgotten (`Agreed`), and what may be older than
  the last clear (`CarriedByCalls`).
* `AsyncSpawnProofs`. `SpawnTyping`, `PairsKeepText` (`NothingLostInPairing`), `EarlyOnlyAtBlank`
  (`StopsShortAtBlank`), `NoneLeft` (`NoOrphan`), `ReturnsWhatItRead` and `WholeWithoutBlank`.
  `SInv` adds what `readline` knows of the line it holds between its two awaits (`HeldLine`,
  `HalfPaired`) and what has been seen when reading is over (`Stopped`); `AllYielded` that a call
  that returned has yielded all text it took.
* `ExpecterProofs`. `ExpectTyping`, `BufferEnds` (`BufferIsTheEnd`), `EofComesLast` (`EofIsLast`),
  from `EInv`: the mark of the end is last on the queue, and once it is taken nothing is left
  anywhere (`EndMarked`). `TextStaysInOrder`: there are places that cut one stream into what was
  matched or received, the buffer, the pieces on the queue and what is unread. `NoTextLost`
  (`NothingLost`) is the same of every step, and says of the same text that it stays the same. The
  text on a queue is defined by a recursive function; that it has a value for every queue
  (`TextExists`), and that a piece more at the end or one less at the front changes it by that piece
  (`TextGrows`, `TextShrinks`), is proved by induction over the length of the queue. The provers
  cannot use an induction rule about operators, so the induction is `Induct`: a set of lengths up to
  `m` that has 0 and with each length the next is all of `0..m`, since there is no least length
  outside of it (`LeastNat`). `WholeWithSingleBytes`: `Decodes` can only fail at half a character.
* `ExpecterTextProofs`. `SearchesAllText` (`ImplementsText`): whatever the chunks, window, lookback
  and patterns, every answer is that of a search in all the text. The invariant `Searched` says that
  while a call runs no pattern stands in what was received, and that `_buffer` is long enough for
  the next search; the lemmas before it say where a pattern can stand in an end of the text
  (`StandsInEnd`), that new text can only complete a match within the lookback (`SameInFresh`), and
  that a window keeps the lowest match in it (`SameInWindow`).
* `GitPushProofs`. `Typing`, with `Held` (the branches that HEAD, a stopped rebase and recovery go
  back to exist, without which HEAD could name nothing after a checkout). `LeaseProtects`
  (`RemoteLossHasCause`), from `Leased`: from the pull on a rebased branch has all that was fetched,
  and origin takes it only while it still has what was fetched. `RebasedPushesKeepWork`
  (`RemoteKeepsWork` under the condition that no push overwrites origin unless its pull has rebased;
  the code leaves that to chance because it ignores the pull's exit code). `Returns`
  (`RecoveryReturns`) from `Recovered`, `Arrives` (`PushedWorkArrives`) from `Carried`,
  `LossHasCause` (`WorkLossHasCause`) from `Unlost`: what recovery has put right, where the given
  works are, and what is left of all works, at each command of a call.

Only model-checked: all liveness (`CommandEnds`, `CallsEnd`, `WrappedCallsEnd`, `EndsOrStuck`,
`ExpectReturns`), which is beyond the prover.  Every other property of a passing run is the
statement of a theorem.

## Not modelled

* The asyncio waiter of `expect.py`, `aio.py`: no path leads to them (an import of a module that
  does not exist, attributes never set).  `expect/spawn.py` is glue around a pty.
* `AsyncSpawn.expect` and `send`: only an example in the same file calls them.  `Command` and the
  shell wrappers: loops around `expect`.
* `sync` of `pkg/git.py` has no caller: the command `mb sync` is defined twice, and the definition
  that counts (main.py:1056) calls the module.  `purge_submodules` is a few git commands in a row that
  nothing else depends on.
* The counters of hits and misses and the dict methods of the cache that have no caller.
* The log file that each read of an expecter overwrites: its content, not the exception it can
  raise, which is in `Expecter`.
* Import graph, diff viewer, document tools, templates, PyPI search, change logs: sequential and
  without state of their own, or I/O.
* `pkg/flow.py`, `pkg/manager.py`: commented out.  `store/`, `helpers/_mypy`, `collect.py`,
  `helpers/_lru.py` and the like: vendored or generated.

## Plan

Done, in this order: `PkgLedger`, `DepInstall` and its proofs; `AsyncSpawn`; `CloneRepo` and its
proofs; `ExpectText`, `Expecter`; `GitPush`; then `LazyInit` and `MemoCache` with their proofs, the
proofs of `AsyncSpawn` and `Expecter` with the refinement of `ExpectText`, `mb undo`, the rest of
the proofs of `GitPush`, the text of the queue in `Expecter` and the conditions under which the refuted
promises hold.

What is left, should the code come to need it:

1. `AsyncSpawn.expect` and `send`, once a command uses them: its buffer is bytes after a match where a
   bytearray is needed.
2. The commands of `push` that set the remote and the upstream, with untracked files.
3. Liveness of a whole `mb install` that clones: `DepInstall` and `LazyInit` in one run.
