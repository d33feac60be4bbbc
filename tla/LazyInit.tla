------------------------------ MODULE LazyInit ------------------------------
(***************************************************************************)
(* Lazy initialisation of a Dependency (with_async_init and                 *)
(* Dependency._async_post_init, src/mbpy/pkg/dependency.py) on top of       *)
(* CloneRepo: the first call of a wrapped method clones the sources under   *)
(* an asyncio.Condition, later calls go straight to the method.             *)
(*                                                                         *)
(* The lock of the condition is an asyncio.Lock: first come first served,   *)
(* not reentrant, and free for a moment between its release and the turn of *)
(* the waiter it has woken.  A copy, Dependency(dep), shares the condition  *)
(* of its original and takes over the flag as it is at that time.           *)
(***************************************************************************)
EXTENDS CloneRepo, Sequences

CONSTANTS
    Objects,        \* Dependency objects
    OriginOf,       \* OriginOf[o]: the object o is a copy of, or o itself
    KeyOf,          \* KeyOf[o]: what o clones, NoKey if it is no git source
    Nobody,         \* holder of a free lock
    NoObject,       \* what an idle task calls
    MaxUses         \* bound: calls of all tasks together

ASSUME LazyAssumption ==
    /\ OriginOf \in [Objects -> Objects]
    /\ \A o \in Objects : OriginOf[OriginOf[o]] = OriginOf[o]
    /\ KeyOf \in [Objects -> Keys \cup {NoKey}]
    /\ \A o \in Objects : KeyOf[OriginOf[o]] = KeyOf[o]
    /\ Nobody \notin Tasks
    /\ NoObject \notin Objects
    /\ MaxUses \in Nat /\ MaxCalls \in Nat /\ MaxUses <= MaxCalls

VARIABLES
    at, obj,    \* where each task stands in the wrapper, and on which object
    uses,       \* wrapped calls made so far
    made,       \* objects that exist
    ready,      \* objects with _async_init_done
    holder,     \* holder[c]: who holds the lock of a condition (named by its first owner)
    waiters     \* waiters[c]: the tasks queued for it

wrapperVars == <<at, obj, uses, made, ready, holder, waiters>>
lazyVars == <<wrapperVars, vars>>

Place == {"idle", "acquiring", "entering", "init", "cloning", "ran", "raised"}
AtRest == {"idle", "ran", "raised"}
Initialising(t) == at[t] \in {"init", "cloning"}
Cond(t) == OriginOf[obj[t]]

LazyInitial ==
    /\ Init
    /\ at = [t \in Tasks |-> "idle"]
    /\ obj = [t \in Tasks |-> NoObject]
    /\ uses = 0
    /\ made = {o \in Objects : OriginOf[o] = o}
    /\ ready = {}
    /\ holder = [c \in Objects |-> Nobody]
    /\ waiters = [c \in Objects |-> <<>>]

Stand(t, place) == at' = [at EXCEPT ![t] = place]

\* Dependency(dep): __post_init__ copies the flag and shares the condition.
Copy(o) ==
    /\ o \notin made
    /\ made' = made \cup {o}
    /\ ready' = IF OriginOf[o] \in ready THEN ready \cup {o} ELSE ready
    /\ UNCHANGED <<at, obj, uses, holder, waiters, vars>>

-----------------------------------------------------------------------------
(* The wrapper *)

\* `async with cond` has the lock: without a git source async_init returns at once, the flag
\* is set and the lock given back before anything else can run.
Begin(t, o) ==
    IF KeyOf[o] = NoKey
    THEN /\ ready' = ready \cup {o}
         /\ Stand(t, "ran")
         /\ UNCHANGED holder
    ELSE /\ holder' = [holder EXCEPT ![OriginOf[o]] = t]
         /\ Stand(t, "init")
         /\ UNCHANGED ready

Queue(t, c, place) ==
    /\ waiters' = [waiters EXCEPT ![c] = Append(@, t)]
    /\ Stand(t, place)
    /\ UNCHANGED <<ready, holder>>

\* Mutant: a call does not ask whether the lock is held.
FirstCall_NoLock(t, o) == Begin(t, o) /\ UNCHANGED waiters

\* A call on an object that is not initialised: `not cond.locked() or await cond.acquire()`,
\* then `async with cond`.  A free lock with waiters is about to be taken by the first.
FirstCall(t, o) ==
    LET c == OriginOf[o] IN
    \/ /\ holder[c] # Nobody
       /\ Queue(t, c, "acquiring")
    \/ /\ holder[c] = Nobody /\ waiters[c] # <<>>
       /\ Queue(t, c, "entering")
    \/ /\ holder[c] = Nobody /\ waiters[c] = <<>>
       /\ Begin(t, o)
       /\ UNCHANGED waiters

\* Mutant: the wrapper forgets on which object it was called.
CallMethod_Unbound(t, o) ==
    /\ at[t] \in AtRest
    /\ o \in made
    /\ uses < MaxUses
    /\ uses' = uses + 1
    /\ \/ o \in ready /\ Stand(t, "ran") /\ UNCHANGED <<ready, holder, waiters>>
       \/ o \notin ready /\ FirstCall(t, o)
    /\ UNCHANGED <<obj, made, vars>>

\* A wrapped method (install, to_string) is called.
CallMethod(t, o) ==
    /\ at[t] \in AtRest
    /\ o \in made
    /\ uses < MaxUses
    /\ uses' = uses + 1
    /\ obj' = [obj EXCEPT ![t] = o]
    /\ \/ o \in ready /\ Stand(t, "ran") /\ UNCHANGED <<ready, holder, waiters>>
       \/ o \notin ready /\ FirstCall(t, o)
    /\ UNCHANGED <<made, vars>>

\* Mutant: what cond.acquire() has taken is used, and given back after the initialisation.
Woken_KeepsLock(t) ==
    LET c == Cond(t) IN
    /\ at[t] \in {"acquiring", "entering"}
    /\ holder[c] = Nobody /\ waiters[c] # <<>> /\ Head(waiters[c]) = t
    /\ waiters' = [waiters EXCEPT ![c] = Tail(@)]
    /\ Begin(t, obj[t])
    /\ UNCHANGED <<obj, uses, made, vars>>

\* The first waiter gets the lock: after cond.acquire() it goes on to `async with cond`, which
\* waits for the lock it has just taken; after `async with cond` it initialises the object.
Woken(t) ==
    LET c == Cond(t) IN
    /\ at[t] \in {"acquiring", "entering"}
    /\ holder[c] = Nobody /\ waiters[c] # <<>> /\ Head(waiters[c]) = t
    /\ \/ /\ at[t] = "acquiring"
          /\ holder' = [holder EXCEPT ![c] = t]
          /\ waiters' = [waiters EXCEPT ![c] = Append(Tail(@), t)]
          /\ Stand(t, "entering")
          /\ UNCHANGED ready
       \/ /\ at[t] = "entering"
          /\ waiters' = [waiters EXCEPT ![c] = Tail(@)]
          /\ Begin(t, obj[t])
    /\ UNCHANGED <<obj, uses, made, vars>>

\* async_init starts the clone in its task group and waits for it.
StartClone(t) ==
    /\ at[t] = "init"
    /\ CallClone(t, KeyOf[obj[t]])
    /\ Stand(t, "cloning")
    /\ UNCHANGED <<obj, uses, made, ready, holder, waiters>>

CloneStep(t) ==
    /\ at[t] = "cloning"
    /\ Progress(t)
    /\ UNCHANGED wrapperVars

Release(t) == holder' = [holder EXCEPT ![Cond(t)] = Nobody]

\* The clone has returned: the flag is set, the lock given back and the method runs.  done()
\* looks into a set of tasks that is empty or holds running ones: always true.
Initialised(t) ==
    /\ at[t] = "cloning" /\ pc[t] = "ok"
    /\ ready' = ready \cup {obj[t]}
    /\ Release(t)
    /\ Stand(t, "ran")
    /\ UNCHANGED <<obj, uses, made, waiters, vars>>

\* Mutant: the flag is set although the clone has failed.
InitFails_SetsFlag(t) ==
    /\ at[t] = "cloning" /\ pc[t] = "failed"
    /\ ready' = ready \cup {obj[t]}
    /\ Release(t)
    /\ Stand(t, "raised")
    /\ UNCHANGED <<obj, uses, made, waiters, vars>>

\* Mutant: the lock is not given back when the clone has failed.
InitFails_KeepsLock(t) ==
    /\ at[t] = "cloning" /\ pc[t] = "failed"
    /\ Stand(t, "raised")
    /\ UNCHANGED <<obj, uses, made, ready, holder, waiters, vars>>

\* The clone has failed: the exception leaves the task group, the lock and the wrapper.
InitFails(t) ==
    /\ at[t] = "cloning" /\ pc[t] = "failed"
    /\ Release(t)
    /\ Stand(t, "raised")
    /\ UNCHANGED <<obj, uses, made, ready, waiters, vars>>

Step(t) ==
    \/ Woken(t)
    \/ StartClone(t)
    \/ CloneStep(t)
    \/ Initialised(t)
    \/ InitFails(t)

LazyNext ==
    \/ \E t \in Tasks : Step(t) \/ \E o \in Objects : CallMethod(t, o)
    \/ \E o \in Objects : Copy(o)

LazySpec == LazyInitial /\ [][LazyNext]_lazyVars

\* The event loop resumes a task whose await is over; gh and git end.
LazyFairSpec == LazySpec /\ \A t \in Tasks : WF_lazyVars(Step(t))

-----------------------------------------------------------------------------
(* Properties *)

LazyTypeOK ==
    /\ at \in [Tasks -> Place]
    /\ obj \in [Tasks -> Objects \cup {NoObject}]
    /\ \A t \in Tasks : at[t] # "idle" => obj[t] \in made
    /\ uses \in Nat
    /\ ready \in SUBSET made /\ made \in SUBSET Objects
    /\ holder \in [Objects -> Tasks \cup {Nobody}]
    /\ waiters \in [Objects -> Seq(Tasks)]

\* A wrapped method of a git source runs only after _clone_git has returned for its arguments:
\* through the lock, the flag, a copy of the flag and the memo of _clone_git.
BodyRunsCloned ==
    \A t \in Tasks : at[t] = "ran" => KeyOf[obj[t]] \in memo \cup {NoKey}

\* Objects that share a condition are initialised one after the other.
OneInitPerCondition ==
    \A s, t \in Tasks : Initialising(s) /\ Initialising(t) /\ Cond(s) = Cond(t) => s = t

\* An object that has been initialised is not initialised a second time by a call that was
\* waiting meanwhile, although no call reads the flag again once it has the lock.
NoSecondInit ==
    [][\A t \in Tasks : at[t] # "init" /\ at'[t] = "init" => obj'[t] \notin ready]_lazyVars

\* The lock of condition c is held by a call that waits for it.
WaitsForItself(c) == holder[c] # Nobody /\ at[holder[c]] = "entering"

\* A lock that is held belongs to a call that initialises, or for good to one that waits for
\* it itself.
HeldForCause ==
    \A c \in Objects : holder[c] # Nobody =>
        /\ obj[holder[c]] # NoObject /\ Cond(holder[c]) = c
        /\ Initialising(holder[c]) \/ WaitsForItself(c)

\* A wrapped call ends, unless the lock it waits for is held by a call that waits for itself,
\* or its clone waits behind a generator that was left at its yield.
WrappedCallsEnd ==
    \A t \in Tasks : at[t] \notin AtRest ~>
        \/ at[t] \in AtRest
        \/ WaitsForItself(Cond(t))
        \/ \E k \in Keys : gen[k] = "yielded"

=============================================================================
