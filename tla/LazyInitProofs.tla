--------------------------- MODULE LazyInitProofs ---------------------------
(***************************************************************************)
(* Theorems of LazyInit, for any number of tasks, objects, copies and calls. *)
(* LazyInit implements CloneRepo, so what CloneRepoProofs shows holds here.  *)
(* The invariant LInv ties the wrapper to the clone below it: who holds the *)
(* lock, that the first in line has never got past cond.acquire(), and that *)
(* a flag stands for a remembered clone.                                   *)
(***************************************************************************)
EXTENDS LazyInit, CloneRepoProofs

\* A call that initialises holds the lock of its condition, for an object with a source.
Owned == \A t \in Tasks : Initialising(t) => holder[Cond(t)] = t /\ KeyOf[obj[t]] \in Keys

\* Who is first in line came by cond.acquire(), unless the line can never move again.
Line ==
    \A c \in Objects : waiters[c] # <<>> =>
        \/ at[Head(waiters[c])] = "acquiring" /\ Cond(Head(waiters[c])) = c
        \/ WaitsForItself(c)

\* _clone_git has returned for every call that is over without an exception.
Remembered == \A t \in Tasks : pc[t] = "ok" => want[t] \in memo

\* A call under initialisation clones what its object names.
Clones == \A t \in Tasks : at[t] = "cloning" => want[t] = KeyOf[obj[t]]

Flagged == \A o \in ready : KeyOf[o] \in memo \cup {NoKey}

RanReady == \A t \in Tasks : at[t] = "ran" => obj[t] \in ready

LInv ==
    /\ Inv
    /\ LazyTypeOK
    /\ Owned
    /\ HeldForCause
    /\ Line
    /\ Remembered
    /\ Clones
    /\ Flagged
    /\ RanReady

-----------------------------------------------------------------------------
(* What a step of the clone leaves alone *)

LEMMA CloneFrame ==
  ASSUME TypeOK, Remembered, NEW t \in Tasks, Progress(t)
  PROVE  want' = want /\ memo \subseteq memo' /\ Remembered'
  <1>1. want' = want
    BY DEF Progress, NotFound, Found, GetLock, GitClones, GitClonesOddly, GitFails
  <1>2. \/ pc' = pc /\ memo' = memo
        \/ \E s \in {"driving", "failed"} : Goto(t, s) /\ memo' = memo
        \/ Return(t)
    BY DEF Progress, NotFound, Found, FirstStep, AlreadyRunning, Resume, UsedUp, Exhaust, Raise,
           GetLock, GitClones, GitClonesOddly, GitFails
  <1>3. memo \subseteq memo'
    BY <1>2 DEF Return
  <1>4. Remembered'
    BY <1>1, <1>2, <1>3 DEF Remembered, Return, Goto, TypeOK
  <1>5. QED
    BY <1>1, <1>3, <1>4

LEMMA CallFrame ==
  ASSUME TypeOK, Remembered, NEW t \in Tasks, NEW k \in Keys, CallClone(t, k)
  PROVE  want' = [want EXCEPT ![t] = k] /\ memo' = memo /\ Remembered'
  BY DEF CallClone, Remembered, Goto, TypeOK

-----------------------------------------------------------------------------
LEMMA LInitInv == LazyInitial => LInv
  <1> SUFFICES ASSUME LazyInitial PROVE LInv
    OBVIOUS
  <1> USE LazyAssumption DEF LazyInitial
  <1>1. Inv
    BY InitInv
  <1>2. LazyTypeOK
    BY DEF LazyTypeOK, Place
  <1>3. Owned /\ HeldForCause /\ Line
    BY DEF Owned, Initialising, HeldForCause, Line
  <1>4. Remembered /\ Clones /\ Flagged /\ RanReady
    BY DEF Init, Remembered, Clones, Flagged, RanReady
  <1>5. QED
    BY <1>1, <1>2, <1>3, <1>4 DEF LInv

\* A step of the wrapper alone leaves what it knows of the clone as it is.
LEMMA CloneUnchanged ==
  ASSUME Inv, Remembered, UNCHANGED vars
  PROVE  Inv' /\ Remembered'
  <1>1. Inv'
    BY NextInv
  <1>2. Remembered'
    BY DEF vars, Remembered
  <1>3. QED
    BY <1>1, <1>2

LEMMA CopyInv ==
  ASSUME LInv, NEW o \in Objects, Copy(o)
  PROVE  LInv'
  <1> USE LazyAssumption DEF LInv, Copy
  <1>1. Inv' /\ Remembered'
    BY CloneUnchanged
  <1>2. LazyTypeOK'
    BY DEF LazyTypeOK
  <1>3. Owned' /\ HeldForCause' /\ Line'
    BY DEF Owned, Initialising, Cond, HeldForCause, Line, WaitsForItself
  <1>4. Clones' /\ Flagged' /\ RanReady'
    BY DEF Clones, Flagged, RanReady, vars
  <1>5. QED
    BY <1>1, <1>2, <1>3, <1>4

\* The three ways of a call that finds its object not initialised, and the one of a call that
\* finds it initialised.
LEMMA CallMethodInv ==
  ASSUME LInv, NEW t \in Tasks, NEW o \in Objects, CallMethod(t, o)
  PROVE  LInv'
  <1> DEFINE c == OriginOf[o]
  <1> USE LazyAssumption DEF LInv, CallMethod
  <1>0. /\ c \in Objects /\ o \in made /\ at[t] \in AtRest /\ t # Nobody
        /\ Inv' /\ Remembered' /\ memo' = memo /\ want' = want
    BY CloneUnchanged DEF vars
  <1>1. \A d \in Objects : holder[d] # t
    BY <1>0 DEF HeldForCause, Initialising, WaitsForItself, AtRest, LazyTypeOK
  <1>2. \A d \in Objects : waiters[d] # <<>> => Head(waiters[d]) # t \/ WaitsForItself(d)
    BY <1>0 DEF Line, AtRest
  <1>3. CASE o \in ready
    <2>1. ready' = ready /\ holder' = holder /\ waiters' = waiters /\ at' = [at EXCEPT ![t] = "ran"]
      BY <1>3 DEF Stand
    <2>2. LazyTypeOK'
      BY <1>0, <2>1 DEF LazyTypeOK, Place
    <2>3. Owned' /\ HeldForCause'
      BY <1>0, <1>1, <2>1 DEF LazyTypeOK, Owned, Initialising, Cond, HeldForCause, WaitsForItself
    <2>4. Line'
      BY <1>0, <1>1, <1>2, <2>1 DEF LazyTypeOK, Line, WaitsForItself, Cond
    <2>5. Clones' /\ Flagged' /\ RanReady'
      BY <1>0, <1>3, <2>1 DEF LazyTypeOK, Clones, Flagged, RanReady
    <2>6. QED
      BY <1>0, <2>2, <2>3, <2>4, <2>5
  <1>4. ASSUME NEW place \in {"acquiring", "entering"}, Queue(t, c, place),
               \/ place = "acquiring" /\ holder[c] # Nobody
               \/ place = "entering" /\ waiters[c] # <<>>
        PROVE  LInv'
    <2>1. /\ ready' = ready /\ holder' = holder /\ at' = [at EXCEPT ![t] = place]
          /\ waiters' = [waiters EXCEPT ![c] = Append(@, t)]
      BY <1>4 DEF Queue, Stand
    <2>2. LazyTypeOK'
      BY <1>0, <2>1 DEF LazyTypeOK, Place
    <2>3. Owned' /\ HeldForCause'
      BY <1>0, <1>1, <2>1 DEF LazyTypeOK, Owned, Initialising, Cond, HeldForCause, WaitsForItself
    <2>4. Line'
      <3> SUFFICES ASSUME NEW d \in Objects, waiters'[d] # <<>>
                   PROVE  \/ at'[Head(waiters'[d])] = "acquiring" /\ OriginOf[obj'[Head(waiters'[d])]] = d
                          \/ WaitsForItself(d)'
        BY DEF Line, Cond
      <3>1. WaitsForItself(d) => WaitsForItself(d)'
        BY <1>0, <1>1, <2>1 DEF LazyTypeOK, WaitsForItself
      <3>2. CASE waiters[d] # <<>>
        <4>1. Head(waiters'[d]) = Head(waiters[d])
          BY <1>0, <2>1, <3>2 DEF LazyTypeOK
        <4>2. QED
          BY <1>0, <1>2, <2>1, <3>1, <3>2, <4>1 DEF Line, LazyTypeOK, Cond
      <3>3. CASE waiters[d] = <<>>
        <4>1. d = c /\ place = "acquiring"
          BY <1>4, <2>1, <3>3 DEF LazyTypeOK
        <4>2. Head(waiters'[d]) = t
          BY <2>1, <3>3, <4>1, <1>0 DEF LazyTypeOK
        <4>3. QED
          BY <1>0, <2>1, <4>1, <4>2 DEF LazyTypeOK, Cond
      <3>4. QED
        BY <3>2, <3>3
    <2>5. Clones' /\ Flagged' /\ RanReady'
      BY <1>0, <2>1 DEF LazyTypeOK, Clones, Flagged, RanReady
    <2>6. QED
      BY <1>0, <2>2, <2>3, <2>4, <2>5
  <1>5. CASE holder[c] = Nobody /\ waiters[c] = <<>> /\ Begin(t, o) /\ UNCHANGED waiters
    <2>1. CASE KeyOf[o] = NoKey
      <3>1. ready' = ready \cup {o} /\ holder' = holder /\ at' = [at EXCEPT ![t] = "ran"]
        BY <1>5, <2>1 DEF Begin, Stand
      <3>2. LazyTypeOK'
        BY <1>0, <1>5, <3>1 DEF LazyTypeOK, Place
      <3>3. Owned' /\ HeldForCause'
        BY <1>0, <1>1, <3>1 DEF LazyTypeOK, Owned, Initialising, Cond, HeldForCause, WaitsForItself
      <3>4. Line'
        BY <1>0, <1>1, <1>2, <1>5, <3>1 DEF LazyTypeOK, Line, WaitsForItself, Cond
      <3>5. Clones' /\ Flagged' /\ RanReady'
        BY <1>0, <2>1, <3>1 DEF LazyTypeOK, Clones, Flagged, RanReady
      <3>6. QED
        BY <1>0, <3>2, <3>3, <3>4, <3>5
    <2>2. CASE KeyOf[o] # NoKey
      <3>1. /\ ready' = ready /\ holder' = [holder EXCEPT ![c] = t]
            /\ at' = [at EXCEPT ![t] = "init"]
        BY <1>5, <2>2 DEF Begin, Stand
      <3>2. LazyTypeOK'
        BY <1>0, <1>5, <3>1 DEF LazyTypeOK, Place
      <3>3. Owned'
        BY <1>0, <1>1, <1>5, <2>2, <3>1 DEF LazyTypeOK, Owned, Initialising, Cond
      <3>4. HeldForCause'
        BY <1>0, <1>1, <3>1 DEF LazyTypeOK, Initialising, Cond, HeldForCause, WaitsForItself
      <3>5. Line'
        BY <1>0, <1>1, <1>2, <1>5, <3>1 DEF LazyTypeOK, Line, WaitsForItself, Cond
      <3>6. Clones' /\ Flagged' /\ RanReady'
        BY <1>0, <3>1 DEF LazyTypeOK, Clones, Flagged, RanReady
      <3>7. QED
        BY <1>0, <3>2, <3>3, <3>4, <3>5, <3>6
    <2>3. QED
      BY <2>1, <2>2
  <1>6. QED
    BY <1>3, <1>4, <1>5 DEF FirstCall

\* What the first in line does when it is woken: it has come by cond.acquire().
LEMMA WokenStep ==
  ASSUME LInv, NEW t \in Tasks, Woken(t)
  PROVE  /\ at[t] = "acquiring" /\ holder[Cond(t)] = Nobody
         /\ holder' = [holder EXCEPT ![Cond(t)] = t]
         /\ waiters' = [waiters EXCEPT ![Cond(t)] = Append(Tail(@), t)]
         /\ at' = [at EXCEPT ![t] = "entering"]
         /\ UNCHANGED <<obj, uses, made, ready, vars>>
  <1>1. obj[t] \in Objects /\ Cond(t) \in Objects
    BY LazyAssumption DEF LInv, LazyTypeOK, Woken, Cond
  <1>2. at[t] = "acquiring"
    BY <1>1 DEF LInv, Line, Woken, WaitsForItself
  <1>3. QED
    BY <1>2 DEF Woken, Stand

LEMMA WokenInv ==
  ASSUME LInv, NEW t \in Tasks, Woken(t)
  PROVE  LInv'
  <1> DEFINE c == Cond(t)
  <1> USE LazyAssumption DEF LInv
  <1>a. /\ at[t] = "acquiring" /\ holder[c] = Nobody
        /\ holder' = [holder EXCEPT ![c] = t]
        /\ waiters' = [waiters EXCEPT ![c] = Append(Tail(@), t)]
        /\ at' = [at EXCEPT ![t] = "entering"]
        /\ UNCHANGED <<obj, uses, made, ready, vars>>
    BY WokenStep
  <1>0. /\ obj[t] \in Objects /\ c \in Objects /\ t # Nobody
        /\ Inv' /\ Remembered' /\ memo' = memo /\ want' = want
    BY <1>a, CloneUnchanged DEF LazyTypeOK, Cond, vars
  <1>1. \A d \in Objects : holder[d] # t
    BY <1>a, <1>0 DEF HeldForCause, Initialising, WaitsForItself, LazyTypeOK
  <1>2. LazyTypeOK'
    <2>1. waiters[c] \in Seq(Tasks) /\ waiters[c] # <<>>
      BY <1>0 DEF LazyTypeOK, Woken
    <2>2. Append(Tail(waiters[c]), t) \in Seq(Tasks)
      BY <2>1
    <2>3. QED
      BY <1>a, <1>0, <2>2 DEF LazyTypeOK, Place
  <1>3. Owned'
    BY <1>a, <1>0, <1>1 DEF LazyTypeOK, Owned, Initialising, Cond
  <1>4. c' = c /\ holder'[c] = t /\ at'[t] = "entering"
    BY <1>a, <1>0 DEF LazyTypeOK, Cond
  <1>5. HeldForCause'
    BY <1>a, <1>0, <1>1, <1>4 DEF LazyTypeOK, Initialising, Cond, HeldForCause, WaitsForItself
  <1>6. Line'
    <2> SUFFICES ASSUME NEW d \in Objects, waiters'[d] # <<>>, d # c
                 PROVE  \/ at'[Head(waiters'[d])] = "acquiring" /\ OriginOf[obj'[Head(waiters'[d])]] = d
                        \/ WaitsForItself(d)'
      BY <1>0, <1>4 DEF Line, WaitsForItself, Cond
    <2>1. waiters'[d] = waiters[d] /\ holder'[d] = holder[d]
      BY <1>a, <1>0 DEF LazyTypeOK
    <2>2. CASE WaitsForItself(d)
      BY <1>a, <1>0, <1>1, <2>1, <2>2 DEF LazyTypeOK, WaitsForItself
    <2>3. CASE at[Head(waiters[d])] = "acquiring" /\ Cond(Head(waiters[d])) = d
      <3>1. Head(waiters[d]) \in Tasks /\ Head(waiters[d]) # t
        BY <1>0, <2>1, <2>3 DEF LazyTypeOK
      <3>2. QED
        BY <1>a, <2>1, <2>3, <3>1 DEF LazyTypeOK, Cond
    <2>4. QED
      BY <2>1, <2>2, <2>3 DEF Line
  <1>7. Clones' /\ Flagged' /\ RanReady'
    BY <1>a, <1>0 DEF LazyTypeOK, Clones, Flagged, RanReady
  <1>8. QED
    BY <1>0, <1>2, <1>3, <1>5, <1>6, <1>7

-----------------------------------------------------------------------------
(* The steps that move the clone *)

LEMMA StartCloneInv ==
  ASSUME LInv, NEW t \in Tasks, StartClone(t)
  PROVE  LInv'
  <1> DEFINE k == KeyOf[obj[t]]
  <1> USE LazyAssumption DEF LInv, StartClone
  <1>1. k \in Keys
    BY DEF Owned, Initialising
  <1>2. Inv'
    BY <1>1, NextInv DEF Next
  <1>3. want' = [want EXCEPT ![t] = k] /\ memo' = memo /\ Remembered'
    BY <1>1, CallFrame DEF Inv
  <1>4. at' = [at EXCEPT ![t] = "cloning"] /\ UNCHANGED <<obj, uses, made, ready, holder, waiters>>
    BY DEF Stand
  <1>5. LazyTypeOK'
    BY <1>4 DEF LazyTypeOK, Place
  <1>6. Owned' /\ HeldForCause'
    BY <1>4 DEF LazyTypeOK, Owned, Initialising, Cond, HeldForCause, WaitsForItself
  <1>7. Line'
    BY <1>4 DEF LazyTypeOK, Line, WaitsForItself, Cond
  <1>8. Clones' /\ Flagged' /\ RanReady'
    BY <1>3, <1>4 DEF LazyTypeOK, Clones, Flagged, RanReady, Inv, TypeOK
  <1>9. QED
    BY <1>2, <1>3, <1>5, <1>6, <1>7, <1>8

LEMMA CloneStepInv ==
  ASSUME LInv, NEW t \in Tasks, CloneStep(t)
  PROVE  LInv'
  <1> USE LazyAssumption DEF LInv, CloneStep
  <1>1. Inv'
    BY NextInv DEF Next
  <1>2. want' = want /\ memo \subseteq memo' /\ Remembered'
    BY CloneFrame DEF Inv
  <1>3. UNCHANGED <<at, obj, uses, made, ready, holder, waiters>>
    BY DEF wrapperVars
  <1>4. LazyTypeOK'
    BY <1>3 DEF LazyTypeOK
  <1>5. Owned' /\ HeldForCause' /\ Line'
    BY <1>3 DEF Owned, Initialising, Cond, HeldForCause, WaitsForItself, Line
  <1>6. Clones' /\ Flagged' /\ RanReady'
    BY <1>2, <1>3 DEF Clones, Flagged, RanReady
  <1>7. QED
    BY <1>1, <1>2, <1>4, <1>5, <1>6

\* The clone of t is over, with or without an exception: what both ends have in common.
LEMMA ReleaseFrame ==
  ASSUME LInv, NEW t \in Tasks, at[t] = "cloning", Release(t), NEW place \in {"ran", "raised"},
         Stand(t, place), UNCHANGED <<obj, waiters>>
  PROVE  Owned' /\ HeldForCause' /\ Line'
  <1> DEFINE c == Cond(t)
  <1> USE LazyAssumption DEF LInv, Release, Stand
  <1>0. c \in Objects /\ holder[c] = t
    BY DEF LazyTypeOK, Cond, Owned, Initialising
  <1>1. holder' = [holder EXCEPT ![c] = Nobody] /\ at' = [at EXCEPT ![t] = place]
    OBVIOUS
  <1>2. \A d \in Objects : holder[d] = t => d = c
    BY DEF HeldForCause
  <1>3. Owned'
    BY <1>0, <1>1 DEF LazyTypeOK, Owned, Initialising, Cond
  <1>4. HeldForCause'
    BY <1>0, <1>1, <1>2 DEF LazyTypeOK, HeldForCause, Initialising, Cond, WaitsForItself
  <1>5. Line'
    BY <1>0, <1>1, <1>2 DEF LazyTypeOK, Line, Cond, WaitsForItself
  <1>6. QED
    BY <1>3, <1>4, <1>5

LEMMA InitialisedInv ==
  ASSUME LInv, NEW t \in Tasks, Initialised(t)
  PROVE  LInv'
  <1> USE LazyAssumption DEF LInv, Initialised
  <1>1. Inv' /\ Remembered' /\ memo' = memo /\ want' = want
    BY CloneUnchanged DEF vars
  <1>2. at' = [at EXCEPT ![t] = "ran"] /\ ready' = ready \cup {obj[t]} /\ obj' = obj
    BY DEF Stand
  <1>3. LazyTypeOK'
    BY <1>2 DEF LazyTypeOK, Place, Release
  <1>4. Owned' /\ HeldForCause' /\ Line'
    BY ReleaseFrame
  <1>5. KeyOf[obj[t]] \in memo
    BY DEF Remembered, Clones
  <1>6. Clones' /\ Flagged' /\ RanReady'
    BY <1>1, <1>2, <1>5 DEF LazyTypeOK, Clones, Flagged, RanReady
  <1>7. QED
    BY <1>1, <1>3, <1>4, <1>6

LEMMA InitFailsInv ==
  ASSUME LInv, NEW t \in Tasks, InitFails(t)
  PROVE  LInv'
  <1> USE LazyAssumption DEF LInv, InitFails
  <1>1. Inv' /\ Remembered' /\ memo' = memo /\ want' = want
    BY CloneUnchanged DEF vars
  <1>2. at' = [at EXCEPT ![t] = "raised"] /\ ready' = ready /\ obj' = obj
    BY DEF Stand
  <1>3. LazyTypeOK'
    BY <1>2 DEF LazyTypeOK, Place, Release
  <1>4. Owned' /\ HeldForCause' /\ Line'
    BY ReleaseFrame
  <1>5. Clones' /\ Flagged' /\ RanReady'
    BY <1>1, <1>2 DEF LazyTypeOK, Clones, Flagged, RanReady
  <1>6. QED
    BY <1>1, <1>3, <1>4, <1>5

-----------------------------------------------------------------------------
LEMMA LNextInv == LInv /\ [LazyNext]_lazyVars => LInv'
  <1> SUFFICES ASSUME LInv, [LazyNext]_lazyVars PROVE LInv'
    OBVIOUS
  <1>1. CASE LazyNext
    BY <1>1, CopyInv, CallMethodInv, WokenInv, StartCloneInv, CloneStepInv, InitialisedInv,
       InitFailsInv DEF LazyNext, Step
  <1>2. CASE UNCHANGED lazyVars
    <2>1. Inv' /\ Remembered'
      BY <1>2, CloneUnchanged DEF lazyVars, LInv
    <2>2. UNCHANGED <<at, obj, uses, made, ready, holder, waiters>> /\ UNCHANGED vars
      BY <1>2 DEF lazyVars, wrapperVars
    <2>3. (Owned /\ HeldForCause /\ Line)'
      BY <2>2 DEF LInv, Owned, Initialising, Cond, HeldForCause, WaitsForItself, Line
    <2>4. (LazyTypeOK /\ Clones /\ Flagged /\ RanReady)'
      BY <2>2 DEF LInv, LazyTypeOK, Clones, Flagged, RanReady, vars
    <2>5. QED
      BY <2>1, <2>3, <2>4 DEF LInv
  <1>3. QED
    BY <1>1, <1>2

LEMMA LInvHolds == LazySpec => []LInv
  BY LInitInv, LNextInv, PTL DEF LazySpec

\* The wrapper only calls _clone_git: what holds of any callers (CloneRepoProofs) holds of it.
THEOREM LazyImplementsClone == LazySpec => Spec
  <1>1. LazyInitial => Init
    BY DEF LazyInitial
  <1>2. LInv /\ [LazyNext]_lazyVars => [Next]_vars
    <2> SUFFICES ASSUME LInv, [LazyNext]_lazyVars PROVE [Next]_vars
      OBVIOUS
    <2>1. ASSUME NEW t \in Tasks, StartClone(t) PROVE Next
      BY <2>1 DEF StartClone, LInv, Owned, Initialising, Next
    <2>2. ASSUME NEW t \in Tasks, CloneStep(t) PROVE Next
      BY <2>2 DEF CloneStep, Next
    <2>3. ASSUME NEW t \in Tasks, Woken(t) \/ Initialised(t) \/ InitFails(t)
          PROVE  UNCHANGED vars
      BY <2>3 DEF Woken, Initialised, InitFails
    <2>4. ASSUME NEW o \in Objects, Copy(o) \/ \E t \in Tasks : CallMethod(t, o)
          PROVE  UNCHANGED vars
      BY <2>4 DEF Copy, CallMethod
    <2>5. CASE UNCHANGED lazyVars
      BY <2>5 DEF lazyVars
    <2>6. QED
      BY <2>1, <2>2, <2>3, <2>4, <2>5 DEF LazyNext, Step
  <1>3. QED
    BY LInvHolds, <1>1, <1>2, PTL DEF LazySpec, Spec

\* The variables of the wrapper keep their types.
THEOREM LazyTyping == LazySpec => []LazyTypeOK
  <1>1. LInv => LazyTypeOK
    BY DEF LInv
  <1>2. QED
    BY LInvHolds, <1>1, PTL

\* A wrapped method of a git source runs after _clone_git has returned for its arguments,
\* whichever of the copies was initialised and whoever initialised it.
THEOREM BodyRuns == LazySpec => []BodyRunsCloned
  <1>1. LInv => BodyRunsCloned
    BY DEF LInv, RanReady, Flagged, BodyRunsCloned
  <1>2. QED
    BY LInvHolds, <1>1, PTL

\* A wrapped method of a git source runs with the clone on disk, whichever copy of the object
\* was initialised and however its repository was spelled, unless git has failed before for the
\* same arguments: the flag, the memo of _clone_git and the disk agree.
THEOREM BodyRunsOnClone ==
  LazySpec => [](\A t \in Tasks : at[t] = "ran" /\ KeyOf[obj[t]] # NoKey
                                  => disk[RepoOf[KeyOf[obj[t]]]] = "full" \/ KeyOf[obj[t]] \in broken)
  <1>1. LInv => \A t \in Tasks : at[t] = "ran" /\ KeyOf[obj[t]] # NoKey
                  => disk[RepoOf[KeyOf[obj[t]]]] = "full" \/ KeyOf[obj[t]] \in broken
    BY DEF LInv, Inv, TypeOK, RanReady, Flagged, Causes, Accounted
  <1>2. QED
    BY LInvHolds, <1>1, PTL

\* The condition admits one initialisation at a time.
THEOREM OneInit == LazySpec => []OneInitPerCondition
  <1>1. LInv => OneInitPerCondition
    BY DEF LInv, Owned, OneInitPerCondition
  <1>2. QED
    BY LInvHolds, <1>1, PTL

\* A lock is held by a call that initialises, or by one that waits for it.
THEOREM Held == LazySpec => []HeldForCause
  <1>1. LInv => HeldForCause
    BY DEF LInv
  <1>2. QED
    BY LInvHolds, <1>1, PTL

\* No object is initialised twice: only a call that found its flag unset and the lock free
\* initialises, for a call that has had to wait is never past the lock.
THEOREM NoSecond == LazySpec => NoSecondInit
  <1>1. LInv /\ [LazyNext]_lazyVars =>
          [\A t \in Tasks : at[t] # "init" /\ at'[t] = "init" => obj'[t] \notin ready]_lazyVars
    <2> SUFFICES ASSUME LInv, LazyNext, NEW t \in Tasks, at[t] # "init", at'[t] = "init"
                 PROVE  obj'[t] \notin ready
      OBVIOUS
    <2>0. at \in [Tasks -> Place] /\ obj \in [Tasks -> Objects \cup {NoObject}]
      BY DEF LInv, LazyTypeOK
    <2>1. ASSUME NEW s \in Tasks, Woken(s) PROVE FALSE
      BY <2>0, <2>1, WokenStep
    <2>2. ASSUME NEW s \in Tasks, StartClone(s) \/ CloneStep(s) \/ Initialised(s) \/ InitFails(s)
          PROVE  FALSE
      BY <2>0, <2>2 DEF StartClone, CloneStep, Initialised, InitFails, Stand, wrapperVars
    <2>3. ASSUME NEW o \in Objects, Copy(o) PROVE FALSE
      BY <2>3 DEF Copy
    <2>4. ASSUME NEW s \in Tasks, NEW o \in Objects, CallMethod(s, o)
          PROVE  obj'[t] \notin ready
      <3>1. CASE o \in ready
        BY <2>0, <2>4, <3>1 DEF CallMethod, Stand
      <3>2. CASE o \notin ready
        <4>1. \E place \in Place : at' = [at EXCEPT ![s] = place]
          BY <2>4, <3>2 DEF CallMethod, FirstCall, Queue, Begin, Stand, Place
        <4>2. s = t
          BY <2>0, <4>1
        <4>3. QED
          BY <2>0, <2>4, <3>2, <4>2 DEF CallMethod
      <3>3. QED
        BY <3>1, <3>2
    <2>5. QED
      BY <2>1, <2>2, <2>3, <2>4 DEF LazyNext, Step
  <1>2. QED
    BY LInvHolds, <1>1, PTL DEF LazySpec, NoSecondInit

\* A call that has once had to wait for the lock never comes out of the wrapper: the wrapper
\* acquires the lock and then waits for it.
THEOREM WaitersStay ==
  LazySpec => [][\A t \in Tasks : at[t] \in {"acquiring", "entering"}
                                  => at'[t] \in {"acquiring", "entering"}]_lazyVars
  <1>1. LInv /\ [LazyNext]_lazyVars =>
          [\A t \in Tasks : at[t] \in {"acquiring", "entering"}
                             => at'[t] \in {"acquiring", "entering"}]_lazyVars
    <2> SUFFICES ASSUME LInv, LazyNext, NEW t \in Tasks, at[t] \in {"acquiring", "entering"}
                 PROVE  at'[t] \in {"acquiring", "entering"}
      OBVIOUS
    <2>0. at \in [Tasks -> Place]
      BY DEF LInv, LazyTypeOK
    <2>1. ASSUME NEW s \in Tasks, Woken(s) PROVE at'[t] \in {"acquiring", "entering"}
      BY <2>0, <2>1, WokenStep
    <2>2. ASSUME NEW s \in Tasks, StartClone(s) \/ CloneStep(s) \/ Initialised(s) \/ InitFails(s)
          PROVE  at'[t] = at[t]
      BY <2>0, <2>2 DEF StartClone, CloneStep, Initialised, InitFails, Stand, wrapperVars
    <2>3. ASSUME NEW o \in Objects, Copy(o) PROVE at' = at
      BY <2>3 DEF Copy
    <2>4. ASSUME NEW s \in Tasks, NEW o \in Objects, CallMethod(s, o) PROVE at'[t] = at[t]
      <3>1. \E place \in Place : at' = [at EXCEPT ![s] = place]
        BY <2>4 DEF CallMethod, FirstCall, Queue, Begin, Stand, Place
      <3>2. s # t
        BY <2>4 DEF CallMethod, AtRest
      <3>3. QED
        BY <2>0, <3>1, <3>2
    <2>5. QED
      BY <2>1, <2>2, <2>3, <2>4 DEF LazyNext, Step
  <1>2. QED
    BY LInvHolds, <1>1, PTL DEF LazySpec

=============================================================================
