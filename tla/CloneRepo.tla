----------------------------- MODULE CloneRepo -----------------------------
(***************************************************************************)
(* Cloning git sources: _clone_git (src/mbpy/pkg/dependency.py) iterates    *)
(* over what clone_repo (src/mbpy/pkg/git.py) yields.  Both are wrapped in   *)
(* acache (src/mbpy/helpers/_cache.py): for _clone_git that keeps the value *)
(* of a call that returned, for clone_repo it keeps the generator object,   *)
(* which every later call with the same arguments gets again, whether it is *)
(* new, under way or used up.                                              *)
(*                                                                         *)
(* A key is the pair of arguments of a call; several spellings of a URL are *)
(* several keys of one repository.  Tasks interleave at the awaits that     *)
(* suspend: the search for the repository, the lock, the git process.      *)
(***************************************************************************)
EXTENDS Naturals, FiniteSets

CONSTANTS
    Tasks,          \* coroutines that need a clone
    Keys,           \* argument pairs (url, path)
    Repos,          \* repositories, each with its place on disk
    RepoOf,         \* RepoOf[k]: what clone_repo makes of the arguments
    NoKey,          \* no key: asked for by an idle task, holds a free lock
    MaxCalls        \* bound: calls of one task

ASSUME CloneAssumption ==
    /\ RepoOf \in [Keys -> Repos]
    /\ NoKey \notin Keys
    /\ MaxCalls \in Nat

VARIABLES
    pc, want,   \* where each task stands, and the key it asks for
    calls,      \* calls[t]: calls task t has made
    memo,       \* keys whose _clone_git has returned (the acache of _clone_git)
    gen,        \* gen[k]: the generator the acache of clone_repo holds for k
    cloned,     \* _cloned_repos
    lock,       \* lock[r]: the key whose generator holds _clone_locks[r]
    disk,       \* disk[r]: what the place of r holds
    broken      \* history: keys whose generator ended with an exception

vars == <<pc, want, calls, memo, gen, cloned, lock, disk, broken>>

Stage == {"idle", "looking", "driving", "ok", "failed"}
Rest == {"idle", "ok", "failed"}
GenState == {"none", "waiting", "cloning", "yielded", "finished"}
Running == {"waiting", "cloning"}

Init ==
    /\ pc = [t \in Tasks |-> "idle"]
    /\ want = [t \in Tasks |-> NoKey]
    /\ calls = [t \in Tasks |-> 0]
    /\ memo = {}
    /\ gen = [k \in Keys |-> "none"]
    /\ cloned = {}
    /\ lock = [r \in Repos |-> NoKey]
    /\ disk = [r \in Repos |-> "absent"]
    /\ broken = {}

Goto(t, stage) == pc' = [pc EXCEPT ![t] = stage]
Return(t) == Goto(t, "ok") /\ memo' = memo \cup {want[t]}
Raise(t) == Goto(t, "failed") /\ UNCHANGED memo

\* The task that is awaiting the generator of k.
Drives(t, k) == pc[t] = "driving" /\ want[t] = k

-----------------------------------------------------------------------------
(* _clone_git up to its loop *)

\* Mutant: the call goes on without its arguments.
CallClone_Unbound(t, k) ==
    /\ pc[t] \in Rest
    /\ calls[t] < MaxCalls
    /\ calls' = [calls EXCEPT ![t] = @ + 1]
    /\ Goto(t, IF k \in memo THEN "ok" ELSE "looking")
    /\ UNCHANGED <<want, memo, gen, cloned, lock, disk, broken>>

\* A remembered key returns at once; else the directory is made and the search begins.
CallClone(t, k) ==
    /\ pc[t] \in Rest
    /\ calls[t] < MaxCalls
    /\ calls' = [calls EXCEPT ![t] = @ + 1]
    /\ want' = [want EXCEPT ![t] = k]
    /\ IF k \in memo
       THEN Goto(t, "ok") /\ UNCHANGED disk
       ELSE /\ Goto(t, "looking")
            /\ disk' = IF disk[RepoOf[k]] = "absent"
                       THEN [disk EXCEPT ![RepoOf[k]] = "empty"] ELSE disk
    /\ UNCHANGED <<memo, gen, cloned, lock, broken>>

\* repo_exists raises or says no: RepoNotFoundError.
NotFound(t) ==
    /\ pc[t] = "looking"
    /\ Raise(t)
    /\ UNCHANGED <<want, calls, gen, cloned, lock, disk, broken>>

\* The generator of k enters the lock of its repository: what is there is removed.
\* Mutant: the set of cloned repositories is not consulted again under the lock.
Enter_NoRecheck(k) ==
    /\ gen' = [gen EXCEPT ![k] = "cloning"]
    /\ lock' = [lock EXCEPT ![RepoOf[k]] = k]
    /\ disk' = [disk EXCEPT ![RepoOf[k]] = "absent"]

Enter(k) ==
    /\ RepoOf[k] \notin cloned
    /\ gen' = [gen EXCEPT ![k] = "cloning"]
    /\ lock' = [lock EXCEPT ![RepoOf[k]] = k]
    /\ disk' = [disk EXCEPT ![RepoOf[k]] = "absent"]

\* The generator of k is over without a line: the loop ends and _clone_git returns.
Exhaust(t, k) ==
    /\ gen' = [gen EXCEPT ![k] = "finished"]
    /\ Return(t)

\* Mutant: the lock is not awaited.
FirstStep_NoLock(t, k) ==
    /\ gen[k] = "none"
    /\ RepoOf[k] \notin cloned
    /\ Enter(k)
    /\ Goto(t, "driving")
    /\ UNCHANGED memo

\* The first step of a new generator.
FirstStep(t, k) ==
    /\ gen[k] = "none"
    /\ \/ RepoOf[k] \in cloned /\ Exhaust(t, k) /\ UNCHANGED <<lock, disk>>
       \/ /\ RepoOf[k] \notin cloned
          /\ IF lock[RepoOf[k]] = NoKey
                /\ ~\E j \in Keys : RepoOf[j] = RepoOf[k] /\ gen[j] = "waiting"
             THEN Enter(k)
             ELSE gen' = [gen EXCEPT ![k] = "waiting"] /\ UNCHANGED <<lock, disk>>
          /\ Goto(t, "driving")
          /\ UNCHANGED memo

\* Mutant: a second caller joins the generator.
AlreadyRunning_Joins(t, k) ==
    /\ gen[k] \in Running
    /\ Goto(t, "driving")
    /\ UNCHANGED <<gen, lock, disk, memo>>

\* A generator that another task is awaiting refuses a second one.
AlreadyRunning(t, k) ==
    /\ gen[k] \in Running
    /\ Raise(t)
    /\ UNCHANGED <<gen, lock, disk>>

\* A generator left at its yield goes on after it, and gives the lock back.
Resume(t, k) ==
    /\ gen[k] = "yielded"
    /\ Exhaust(t, k)
    /\ lock' = [lock EXCEPT ![RepoOf[k]] = NoKey]
    /\ UNCHANGED disk

UsedUp(t, k) ==
    /\ gen[k] = "finished"
    /\ Return(t)
    /\ UNCHANGED <<gen, lock, disk>>

\* The search has found the repository: clone_repo is called and its first line awaited.
Found(t) ==
    /\ pc[t] = "looking"
    /\ \/ FirstStep(t, want[t])
       \/ AlreadyRunning(t, want[t])
       \/ Resume(t, want[t])
       \/ UsedUp(t, want[t])
    /\ UNCHANGED <<want, calls, cloned, broken>>

-----------------------------------------------------------------------------
(* clone_repo once it is under way *)

\* The lock is free for the generator that waits for it.
GetLock(t) ==
    /\ pc[t] = "driving" /\ gen[want[t]] = "waiting"
    /\ lock[RepoOf[want[t]]] = NoKey
    /\ \/ Enter(want[t]) /\ UNCHANGED <<pc, memo>>
       \/ RepoOf[want[t]] \in cloned /\ Exhaust(t, want[t]) /\ UNCHANGED <<lock, disk>>
    /\ UNCHANGED <<want, calls, cloned, broken>>

Leave(k) ==
    /\ gen' = [gen EXCEPT ![k] = "finished"]
    /\ lock' = [lock EXCEPT ![RepoOf[k]] = NoKey]

\* git succeeds; its line is printed and the generator runs to its end.
GitClones(t) ==
    /\ pc[t] = "driving" /\ gen[want[t]] = "cloning"
    /\ disk' = [disk EXCEPT ![RepoOf[want[t]]] = "full"]
    /\ cloned' = cloned \cup {RepoOf[want[t]]}
    /\ Leave(want[t])
    /\ Return(t)
    /\ UNCHANGED <<want, calls, broken>>

\* git succeeds and an exception leaves the loop, with the generator still at its yield
\* inside the lock: console.print raises, say.  The other exception, a line that looks like
\* an error, does not happen with git, whose clone writes nothing to standard output.
GitClonesOddly(t) ==
    /\ pc[t] = "driving" /\ gen[want[t]] = "cloning"
    /\ disk' = [disk EXCEPT ![RepoOf[want[t]]] = "full"]
    /\ cloned' = cloned \cup {RepoOf[want[t]]}
    /\ gen' = [gen EXCEPT ![want[t]] = "yielded"]
    /\ Raise(t)
    /\ UNCHANGED <<want, calls, lock, broken>>

\* Mutant: a failing git leaves the lock taken.
GitFails_KeepsLock(t) ==
    /\ pc[t] = "driving" /\ gen[want[t]] = "cloning"
    /\ gen' = [gen EXCEPT ![want[t]] = "finished"]
    /\ broken' = broken \cup {want[t]}
    /\ Raise(t)
    /\ UNCHANGED <<want, calls, cloned, disk, lock>>

\* Mutant: a failing git is taken for an end without a line.
GitFails_Silent(t) ==
    /\ pc[t] = "driving" /\ gen[want[t]] = "cloning"
    /\ Leave(want[t])
    /\ Return(t)
    /\ UNCHANGED <<want, calls, cloned, disk, broken>>

\* git fails (and removes what it had made): the exception ends generator and task.
GitFails(t) ==
    /\ pc[t] = "driving" /\ gen[want[t]] = "cloning"
    /\ Leave(want[t])
    /\ broken' = broken \cup {want[t]}
    /\ Raise(t)
    /\ UNCHANGED <<want, calls, cloned, disk>>

Progress(t) ==
    \/ NotFound(t)
    \/ Found(t)
    \/ GetLock(t)
    \/ GitClones(t)
    \/ GitClonesOddly(t)
    \/ GitFails(t)

Next == \E t \in Tasks : Progress(t) \/ \E k \in Keys : CallClone(t, k)

Spec == Init /\ [][Next]_vars

-----------------------------------------------------------------------------
(* Properties *)

TypeOK ==
    /\ pc \in [Tasks -> Stage]
    /\ want \in [Tasks -> Keys \cup {NoKey}]
    /\ \A t \in Tasks : pc[t] # "idle" => want[t] \in Keys
    /\ calls \in [Tasks -> Nat]
    /\ memo \in SUBSET Keys
    /\ gen \in [Keys -> GenState]
    /\ cloned \in SUBSET Repos
    /\ lock \in [Repos -> Keys \cup {NoKey}]
    /\ disk \in [Repos -> {"absent", "empty", "full"}]
    /\ broken \in SUBSET Keys

\* git.py:393 promises a "lock to prevent multiple clones": two generators never run git
\* for one repository at the same time, however the repository is spelled.
OneGitPerRepo ==
    \A j, k \in Keys :
        gen[j] = "cloning" /\ gen[k] = "cloning" /\ RepoOf[j] = RepoOf[k] => j = k

\* A finished clone is never removed to be cloned again.
FullStaysFull == [][\A r \in Repos : disk[r] = "full" => disk'[r] = "full"]_vars

\* A running generator is awaited by exactly one task, and no task awaits one that has
\* ended: a second caller is refused, not left waiting for a line that never comes.
DriverAndGenerator ==
    /\ \A k \in Keys : gen[k] \in Running <=> \E t \in Tasks : Drives(t, k)
    /\ \A s, t \in Tasks, k \in Keys : Drives(s, k) /\ Drives(t, k) => s = t

\* _clone_git returns without a clone on disk only for a key whose generator has already
\* failed once: the shared generator has nothing left to yield.
FalseSuccessHasCause ==
    \A t \in Tasks : pc[t] = "ok" => disk[RepoOf[want[t]]] = "full" \/ want[t] \in broken

\* A call ends, unless a generator left at its yield keeps the lock it waits for.
CallsEnd ==
    \A t \in Tasks : pc[t] \in {"looking", "driving"} ~>
        \/ pc[t] \in Rest
        \/ \E k \in Keys : gen[k] = "yielded" /\ RepoOf[k] = RepoOf[want[t]]

\* dependency.py:524: _clone_git is to "clone and install a git repository": when it
\* returns, the repository is there.
SuccessMeansCloned == \A t \in Tasks : pc[t] = "ok" => disk[RepoOf[want[t]]] = "full"

=============================================================================
