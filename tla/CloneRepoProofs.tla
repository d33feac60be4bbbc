-------------------------- MODULE CloneRepoProofs --------------------------
(***************************************************************************)
(* Theorems of CloneRepo, for any number of tasks, spellings, repositories  *)
(* and calls.  The invariant Inv joins to the properties what makes them    *)
(* inductive: who holds a lock, that the set of cloned repositories and the *)
(* disk agree, and what a used-up generator or a remembered call stands for. *)
(***************************************************************************)
EXTENDS CloneRepo, TLAPS

\* A generator inside the lock is the one the lock is taken for.
Locking ==
    \A k \in Keys : gen[k] \in {"cloning", "yielded"} => lock[RepoOf[k]] = k

\* _cloned_repos says what is on disk.
OnDisk == \A r \in Repos : r \in cloned <=> disk[r] = "full"

Accounted(k) == disk[RepoOf[k]] = "full" \/ k \in broken

\* A generator is past its yield, and a call remembered, only after a clone or a failure.
Causes == \A k \in Keys : gen[k] \in {"yielded", "finished"} \/ k \in memo => Accounted(k)

Inv ==
    /\ TypeOK
    /\ Locking
    /\ OnDisk
    /\ Causes
    /\ FalseSuccessHasCause
    /\ DriverAndGenerator

-----------------------------------------------------------------------------
LEMMA InitInv == Init => Inv
  <1> SUFFICES ASSUME Init PROVE Inv
    OBVIOUS
  <1> USE CloneAssumption DEF Init
  <1>1. TypeOK
    BY DEF TypeOK, Stage, GenState
  <1>2. Locking /\ OnDisk /\ Causes
    BY DEF Locking, OnDisk, Causes
  <1>3. FalseSuccessHasCause
    BY DEF FalseSuccessHasCause
  <1>4. DriverAndGenerator
    BY DEF DriverAndGenerator, Drives, Running
  <1>5. QED
    BY <1>1, <1>2, <1>3, <1>4 DEF Inv

\* A step keeps Inv: one step per action, and one part of Inv at a time.
LEMMA CallCloneInv ==
  ASSUME Inv, NEW t \in Tasks, NEW k \in Keys, CallClone(t, k)
  PROVE  Inv'
  <1> USE CloneAssumption DEF Inv, CallClone, Goto
  <1>1. TypeOK'
    BY DEF TypeOK, Stage, Rest
  <1>2. Locking'
    BY DEF Locking
  <1>3. OnDisk'
    BY DEF TypeOK, OnDisk
  <1>4. Causes'
    BY DEF TypeOK, Causes, Accounted
  <1>5. FalseSuccessHasCause'
    BY DEF TypeOK, FalseSuccessHasCause, Causes, Accounted
  <1>6. DriverAndGenerator'
    BY DEF TypeOK, DriverAndGenerator, Drives, Running, Rest
  <1>7. QED
    BY <1>1, <1>2, <1>3, <1>4, <1>5, <1>6 DEF Inv

LEMMA NotFoundInv ==
  ASSUME Inv, NEW t \in Tasks, NotFound(t)
  PROVE  Inv'
  <1> USE CloneAssumption DEF Inv, NotFound, Raise, Goto
  <1>1. TypeOK'
    BY DEF TypeOK, Stage
  <1>2. Locking' /\ OnDisk' /\ Causes'
    BY DEF Locking, OnDisk, Causes, Accounted
  <1>3. FalseSuccessHasCause'
    BY DEF TypeOK, FalseSuccessHasCause
  <1>4. DriverAndGenerator'
    BY DEF TypeOK, DriverAndGenerator, Drives
  <1>5. QED
    BY <1>1, <1>2, <1>3, <1>4 DEF Inv

LEMMA FoundInv ==
  ASSUME Inv, NEW t \in Tasks, Found(t)
  PROVE  Inv'
  <1> DEFINE k == want[t]
             r == RepoOf[k]
  <1> USE CloneAssumption DEF Inv, Found
  <1>1. k \in Keys /\ r \in Repos
    BY DEF TypeOK, Stage
  <1>2. CASE FirstStep(t, k) /\ r \in cloned
    <2> USE <1>1, <1>2 DEF FirstStep, Exhaust, Return, Goto
    <2>1. TypeOK'
      BY DEF TypeOK, Stage, GenState
    <2>2. Locking' /\ OnDisk' /\ Causes'
      BY DEF TypeOK, Locking, OnDisk, Causes, Accounted
    <2>3. FalseSuccessHasCause'
      BY DEF TypeOK, FalseSuccessHasCause, OnDisk
    <2>4. DriverAndGenerator'
      BY DEF TypeOK, DriverAndGenerator, Drives, Running
    <2>5. QED
      BY <2>1, <2>2, <2>3, <2>4
  <1>3. CASE FirstStep(t, k) /\ Enter(k) /\ lock[r] = NoKey /\ Goto(t, "driving")
             /\ UNCHANGED memo
    <2> USE <1>1, <1>3 DEF FirstStep, Enter, Goto
    <2>1. TypeOK'
      BY DEF TypeOK, Stage, GenState
    <2>2. Locking'
      BY DEF TypeOK, Locking
    <2>3. OnDisk' /\ Causes'
      BY DEF TypeOK, OnDisk, Causes, Accounted
    <2>4. FalseSuccessHasCause'
      BY DEF TypeOK, FalseSuccessHasCause, OnDisk
    <2>5. DriverAndGenerator'
      BY DEF TypeOK, DriverAndGenerator, Drives, Running
    <2>6. QED
      BY <2>1, <2>2, <2>3, <2>4, <2>5
  <1>4. CASE /\ FirstStep(t, k)
             /\ gen' = [gen EXCEPT ![k] = "waiting"]
             /\ Goto(t, "driving")
             /\ UNCHANGED <<lock, disk, memo>>
    <2> USE <1>1, <1>4 DEF FirstStep, Goto
    <2>1. TypeOK'
      BY DEF TypeOK, Stage, GenState
    <2>2. Locking' /\ OnDisk' /\ Causes'
      BY DEF TypeOK, Locking, OnDisk, Causes, Accounted
    <2>3. FalseSuccessHasCause'
      BY DEF TypeOK, FalseSuccessHasCause
    <2>4. DriverAndGenerator'
      BY DEF TypeOK, DriverAndGenerator, Drives, Running
    <2>5. QED
      BY <2>1, <2>2, <2>3, <2>4
  <1>5. CASE AlreadyRunning(t, k)
    <2> USE <1>1, <1>5 DEF AlreadyRunning, Raise, Goto
    <2>1. TypeOK'
      BY DEF TypeOK, Stage
    <2>2. Locking' /\ OnDisk' /\ Causes'
      BY DEF Locking, OnDisk, Causes, Accounted
    <2>3. FalseSuccessHasCause'
      BY DEF TypeOK, FalseSuccessHasCause
    <2>4. DriverAndGenerator'
      BY DEF TypeOK, DriverAndGenerator, Drives
    <2>5. QED
      BY <2>1, <2>2, <2>3, <2>4
  <1>6. CASE Resume(t, k)
    <2> USE <1>1, <1>6 DEF Resume, Exhaust, Return, Goto
    <2>1. TypeOK'
      BY DEF TypeOK, Stage, GenState
    <2>2. Locking'
      BY DEF TypeOK, Locking
    <2>3. OnDisk' /\ Causes'
      BY DEF TypeOK, OnDisk, Causes, Accounted
    <2>4. FalseSuccessHasCause'
      BY DEF TypeOK, FalseSuccessHasCause, Causes, Accounted
    <2>5. DriverAndGenerator'
      BY DEF TypeOK, DriverAndGenerator, Drives, Running
    <2>6. QED
      BY <2>1, <2>2, <2>3, <2>4, <2>5
  <1>7. CASE UsedUp(t, k)
    <2> USE <1>1, <1>7 DEF UsedUp, Return, Goto
    <2>1. TypeOK'
      BY DEF TypeOK, Stage
    <2>2. Locking' /\ OnDisk' /\ Causes'
      BY DEF TypeOK, Locking, OnDisk, Causes, Accounted
    <2>3. FalseSuccessHasCause'
      BY DEF TypeOK, FalseSuccessHasCause, Causes, Accounted
    <2>4. DriverAndGenerator'
      BY DEF TypeOK, DriverAndGenerator, Drives
    <2>5. QED
      BY <2>1, <2>2, <2>3, <2>4
  <1>8. QED
    BY <1>2, <1>3, <1>4, <1>5, <1>6, <1>7 DEF FirstStep

LEMMA GetLockInv ==
  ASSUME Inv, NEW t \in Tasks, GetLock(t)
  PROVE  Inv'
  <1> DEFINE k == want[t]
             r == RepoOf[k]
  <1> USE CloneAssumption DEF Inv, GetLock
  <1>1. k \in Keys /\ r \in Repos
    BY DEF TypeOK, Stage
  <1>2. CASE Enter(k) /\ UNCHANGED <<pc, memo>>
    <2> USE <1>1, <1>2 DEF Enter
    <2>1. TypeOK'
      BY DEF TypeOK, GenState
    <2>2. Locking'
      BY DEF TypeOK, Locking
    <2>3. OnDisk' /\ Causes'
      BY DEF TypeOK, OnDisk, Causes, Accounted
    <2>4. FalseSuccessHasCause'
      BY DEF TypeOK, FalseSuccessHasCause, OnDisk
    <2>5. DriverAndGenerator'
      BY DEF TypeOK, DriverAndGenerator, Drives, Running
    <2>6. QED
      BY <2>1, <2>2, <2>3, <2>4, <2>5
  <1>3. CASE r \in cloned /\ Exhaust(t, k) /\ UNCHANGED <<lock, disk>>
    <2> USE <1>1, <1>3 DEF Exhaust, Return, Goto
    <2>1. TypeOK'
      BY DEF TypeOK, Stage, GenState
    <2>2. Locking' /\ OnDisk' /\ Causes'
      BY DEF TypeOK, Locking, OnDisk, Causes, Accounted
    <2>3. FalseSuccessHasCause'
      BY DEF TypeOK, FalseSuccessHasCause, OnDisk
    <2>4. DriverAndGenerator'
      BY DEF TypeOK, DriverAndGenerator, Drives, Running
    <2>5. QED
      BY <2>1, <2>2, <2>3, <2>4
  <1>4. QED
    BY <1>2, <1>3

\* The three ends of git have the driving task and its generator in common.
LEMMA GitEndsInv ==
  ASSUME Inv, NEW t \in Tasks, GitClones(t) \/ GitClonesOddly(t) \/ GitFails(t)
  PROVE  Inv'
  <1> DEFINE k == want[t]
             r == RepoOf[k]
  <1> USE CloneAssumption DEF Inv
  <1>1. k \in Keys /\ r \in Repos /\ Drives(t, k) /\ gen[k] = "cloning"
    BY DEF TypeOK, Stage, Drives, GitClones, GitClonesOddly, GitFails
  <1>2. CASE GitClones(t)
    <2> USE <1>1, <1>2 DEF GitClones, Leave, Return, Goto
    <2>1. TypeOK'
      BY DEF TypeOK, Stage, GenState
    <2>2. Locking'
      BY DEF TypeOK, Locking
    <2>3. OnDisk' /\ Causes'
      BY DEF TypeOK, OnDisk, Causes, Accounted
    <2>4. FalseSuccessHasCause'
      BY DEF TypeOK, FalseSuccessHasCause
    <2>5. DriverAndGenerator'
      BY DEF TypeOK, DriverAndGenerator, Drives, Running
    <2>6. QED
      BY <2>1, <2>2, <2>3, <2>4, <2>5
  <1>3. CASE GitClonesOddly(t)
    <2> USE <1>1, <1>3 DEF GitClonesOddly, Raise, Goto
    <2>1. TypeOK'
      BY DEF TypeOK, Stage, GenState
    <2>2. Locking'
      BY DEF TypeOK, Locking
    <2>3. OnDisk' /\ Causes'
      BY DEF TypeOK, OnDisk, Causes, Accounted
    <2>4. FalseSuccessHasCause'
      BY DEF TypeOK, FalseSuccessHasCause
    <2>5. DriverAndGenerator'
      BY DEF TypeOK, DriverAndGenerator, Drives, Running
    <2>6. QED
      BY <2>1, <2>2, <2>3, <2>4, <2>5
  <1>4. CASE GitFails(t)
    <2> USE <1>1, <1>4 DEF GitFails, Leave, Raise, Goto
    <2>1. TypeOK'
      BY DEF TypeOK, Stage, GenState
    <2>2. Locking'
      BY DEF TypeOK, Locking
    <2>3. OnDisk' /\ Causes'
      BY DEF TypeOK, OnDisk, Causes, Accounted
    <2>4. FalseSuccessHasCause'
      BY DEF TypeOK, FalseSuccessHasCause
    <2>5. DriverAndGenerator'
      BY DEF TypeOK, DriverAndGenerator, Drives, Running
    <2>6. QED
      BY <2>1, <2>2, <2>3, <2>4, <2>5
  <1>5. QED
    BY <1>2, <1>3, <1>4

LEMMA NextInv == Inv /\ [Next]_vars => Inv'
  <1> SUFFICES ASSUME Inv, [Next]_vars PROVE Inv'
    OBVIOUS
  <1>1. CASE Next
    BY <1>1, CallCloneInv, NotFoundInv, FoundInv, GetLockInv, GitEndsInv DEF Next, Progress
  <1>2. CASE UNCHANGED vars
    BY <1>2 DEF vars, Inv, TypeOK, Locking, OnDisk, Causes, Accounted,
                FalseSuccessHasCause, DriverAndGenerator, Drives
  <1>3. QED
    BY <1>1, <1>2

LEMMA InvHolds == Spec => []Inv
  BY InitInv, NextInv, PTL DEF Spec

-----------------------------------------------------------------------------
\* The variables keep their types.
THEOREM Typing == Spec => []TypeOK
  <1>1. Inv => TypeOK
    BY DEF Inv
  <1>2. QED
    BY InvHolds, <1>1, PTL

\* The lock of clone_repo does its work: one git per repository, whatever the spelling,
\* because both generators would be the one the lock is taken for.
THEOREM OneClone == Spec => []OneGitPerRepo
  <1>1. Inv => OneGitPerRepo
    BY DEF Inv, Locking, OneGitPerRepo
  <1>2. QED
    BY InvHolds, <1>1, PTL

\* A running generator of clone_repo has exactly one task that awaits it.
THEOREM OneDriver == Spec => []DriverAndGenerator
  <1>1. Inv => DriverAndGenerator
    BY DEF Inv
  <1>2. QED
    BY InvHolds, <1>1, PTL

\* _clone_git reports a clone that is not there only after a failure of the same call.
THEOREM FalseSuccess == Spec => []FalseSuccessHasCause
  <1>1. Inv => FalseSuccessHasCause
    BY DEF Inv
  <1>2. QED
    BY InvHolds, <1>1, PTL

\* rmtree never removes a finished clone: only Enter empties a place, and only one that
\* _cloned_repos, and so the disk, does not have.
THEOREM CloneStays == Spec => FullStaysFull
  <1>1. Inv /\ [Next]_vars => [\A r \in Repos : disk[r] = "full" => disk'[r] = "full"]_vars
    <2> SUFFICES ASSUME Inv, Next, NEW r \in Repos, disk[r] = "full"
                 PROVE  disk'[r] = "full"
      BY DEF vars
    <2> USE CloneAssumption
    <2>0. r \in cloned /\ disk \in [Repos -> {"absent", "empty", "full"}]
      BY DEF Inv, OnDisk, TypeOK
    <2>1. ASSUME NEW t \in Tasks, NEW k \in Keys, CallClone(t, k) PROVE disk'[r] = "full"
      BY <2>0, <2>1 DEF CallClone
    <2>2. ASSUME NEW t \in Tasks, NotFound(t) PROVE disk'[r] = "full"
      BY <2>2 DEF NotFound
    <2>3. ASSUME NEW t \in Tasks, Found(t) PROVE disk'[r] = "full"
      BY <2>0, <2>3 DEF Found, FirstStep, Enter, AlreadyRunning, Resume, UsedUp
    <2>4. ASSUME NEW t \in Tasks, GetLock(t) PROVE disk'[r] = "full"
      BY <2>0, <2>4 DEF GetLock, Enter
    <2>5. ASSUME NEW t \in Tasks, GitClones(t) \/ GitClonesOddly(t) \/ GitFails(t)
          PROVE  disk'[r] = "full"
      BY <2>0, <2>5 DEF GitClones, GitClonesOddly, GitFails
    <2>6. QED
      BY <2>1, <2>2, <2>3, <2>4, <2>5 DEF Next, Progress
  <1>2. QED
    BY InvHolds, <1>1, PTL DEF Spec, FullStaysFull

-----------------------------------------------------------------------------
(* What the shared generator does to a call that has failed once *)

\* Only a generator inside the lock can fail, and it is used up when it has.
UsedUpByFailure == \A k \in broken : gen[k] = "finished"

LEMMA UsedUpInit == Init => UsedUpByFailure
  BY DEF Init, UsedUpByFailure

LEMMA UsedUpStays ==
  ASSUME TypeOK, UsedUpByFailure, [Next]_vars
  PROVE  UsedUpByFailure' /\ broken \subseteq broken'
  <1>1. ASSUME NEW t \in Tasks, Found(t) \/ GetLock(t) \/ GitClones(t) \/ GitClonesOddly(t)
        PROVE  /\ gen[want[t]] # "finished" \/ gen' = gen
               /\ \E s \in GenState : gen' = [gen EXCEPT ![want[t]] = s]
               /\ broken' = broken /\ want[t] \in Keys
    BY <1>1 DEF TypeOK, Stage, GenState, Found, FirstStep, Enter, Exhaust, AlreadyRunning, Running,
                Resume, UsedUp, GetLock, GitClones, GitClonesOddly, Leave
  <1>2. ASSUME NEW t \in Tasks, Found(t) \/ GetLock(t) \/ GitClones(t) \/ GitClonesOddly(t)
        PROVE  UsedUpByFailure' /\ broken' = broken
    BY <1>1, <1>2 DEF UsedUpByFailure, TypeOK
  <1>3. ASSUME NEW t \in Tasks, GitFails(t)
        PROVE  UsedUpByFailure' /\ broken \subseteq broken'
    <2>1. want[t] \in Keys
      BY <1>3 DEF GitFails, TypeOK
    <2>2. QED
      BY <1>3, <2>1 DEF GitFails, Leave, UsedUpByFailure, TypeOK
  <1>4. ASSUME NEW t \in Tasks, NotFound(t) \/ \E k \in Keys : CallClone(t, k)
        PROVE  UsedUpByFailure' /\ broken' = broken
    BY <1>4 DEF NotFound, CallClone, UsedUpByFailure
  <1>5. CASE UNCHANGED vars
    BY <1>5 DEF vars, UsedUpByFailure
  <1>6. QED
    BY <1>2, <1>3, <1>4, <1>5 DEF Next, Progress

\* Once git has failed for a pair of arguments, no later call with them runs git again: the
\* generator in the cache of clone_repo is used up for the rest of the process.
THEOREM FailureIsFinal ==
  Spec => [][\A k \in broken : k \in broken' /\ gen'[k] = "finished"]_vars
  <1>1. Init => TypeOK /\ UsedUpByFailure
    BY InitInv, UsedUpInit DEF Inv
  <1>2. TypeOK /\ UsedUpByFailure /\ [Next]_vars => UsedUpByFailure'
    BY UsedUpStays
  <1>3. TypeOK /\ UsedUpByFailure /\ [Next]_vars
          => [\A k \in broken : k \in broken' /\ gen'[k] = "finished"]_vars
    BY UsedUpStays DEF UsedUpByFailure
  <1>4. QED
    BY <1>1, <1>2, <1>3, Typing, PTL DEF Spec

\* The promise of _clone_git that a retry breaks (run clone_retry) holds as long as git has
\* not failed: whatever the spellings, the interleaving and the searches that fail.
THEOREM ClonedUntilFailure == Spec => [](broken = {} => SuccessMeansCloned)
  <1>1. FalseSuccessHasCause => (broken = {} => SuccessMeansCloned)
    BY DEF FalseSuccessHasCause, SuccessMeansCloned
  <1>2. QED
    BY FalseSuccess, <1>1, PTL

=============================================================================
