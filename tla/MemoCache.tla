----------------------------- MODULE MemoCache -----------------------------
(***************************************************************************)
(* The memo cache (src/mbpy/helpers/_cache.py): one dictionary per process  *)
(* behind the decorators cache (plain functions, in worker threads too) and *)
(* acache (coroutines), and one file that every process reads when it       *)
(* imports the module and rewrites when it ends.                            *)
(*                                                                         *)
(* A key belongs to one function, which is plain or a coroutine.  A result  *)
(* is told apart by the computation it comes from: computations are         *)
(* numbered from 1, and 0 stands for no entry.  A process that comes after  *)
(* another is another run; the runs share nothing but the file.             *)
(***************************************************************************)
EXTENDS Naturals, Sequences, FiniteSets

CONSTANTS
    Runs,           \* processes of mb, one after or beside the other
    Calls,          \* calls of cached functions that a run can have at a time
    SyncKeys,       \* calls of plain functions, by function and arguments
    AsyncKeys,      \* calls of coroutines
    TextTTL,        \* runs with MB_CACHE_TTL set: their TTL is a string
    MaxComputed     \* bound: computations of all runs together

ASSUME MemoAssumption ==
    /\ SyncKeys \cap AsyncKeys = {} /\ SyncKeys \cup AsyncKeys # {}
    /\ TextTTL \in SUBSET Runs
    /\ MaxComputed \in Nat

Keys == SyncKeys \cup AsyncKeys

VARIABLES
    life,       \* where each run stands
    failed,     \* runs whose import of the module has failed
    file,       \* MB_CACHE_PATH
    writers,    \* runs whose open file is the one at MB_CACHE_PATH
    mixed,      \* runs that had it open while another had
    store,      \* store[r]: the dictionary _cache of the module
    shelf,      \* shelf[r]: the dictionary _cache of the class
    call,       \* call[r][c]: the calls under way and the last ones
    owner,      \* owner[n]: the run that began computation n
    old,        \* computations whose entries are past their TTL
    forgotten,  \* history: <<r, k>> whose entry was deleted or cleared, or computed in parallel
    cut,        \* history: cut[r]: the last computation begun before r last cleared its cache
    carried     \* history: keys with a call under way when their run last cleared its cache

runVars == <<life, failed, file, writers, mixed, shelf>>
callVars == <<store, call, owner, old, forgotten>>
clearVars == <<cut, carried>>
vars == <<runVars, callVars, clearVars>>

Stamps == 0 .. MaxComputed
Nothing == [k \in Keys |-> 0]
Absent == [state |-> "absent", entries |-> Nothing]
Torn == [state |-> "torn", entries |-> Nothing]
Whole(s) == [state |-> "whole", entries |-> s]

Life == {"unborn", "loading", "up", "broken", "saving", "gone", "killed"}
Place == {"idle", "computing", "reading", "renewing", "dropping", "done", "raised", "keyerror", "typeerror"}
UnderWay == {"computing", "reading", "renewing", "dropping"}
Idle == [at |-> "idle", key |-> CHOOSE k \in Keys : TRUE, val |-> 0]

Init ==
    /\ life = [r \in Runs |-> "unborn"]
    /\ failed = {} /\ mixed = {} /\ writers = {} /\ old = {} /\ forgotten = {} /\ carried = {}
    /\ file = Absent
    /\ store = [r \in Runs |-> Nothing]
    /\ shelf = [r \in Runs |-> Nothing]
    /\ call = [r \in Runs |-> [c \in Calls |-> Idle]]
    /\ owner = <<>>
    /\ cut = [r \in Runs |-> 0]

Live(r, stage) == life' = [life EXCEPT ![r] = stage]

\* The memory of the process is gone.
Ends(r, stage) ==
    /\ Live(r, stage)
    /\ store' = [store EXCEPT ![r] = Nothing]
    /\ shelf' = [shelf EXCEPT ![r] = Nothing]
    /\ call' = [call EXCEPT ![r] = [c \in Calls |-> Idle]]

Put(r, k, n) == store' = [store EXCEPT ![r][k] = n]
CallOf(r, c) == call[r][c]
\* Mutant: a call forgets what it was called with.
Becomes_NoKey(r, c, place, k, n) == call' = [call EXCEPT ![r][c] = [at |-> place, key |-> "", val |-> n]]

Becomes(r, c, place, k, n) == call' = [call EXCEPT ![r][c] = [at |-> place, key |-> k, val |-> n]]
KeysUnderWay(r) == {CallOf(r, c).key : c \in {d \in Calls : CallOf(r, d).at \in UnderWay}}
Forget(r, ks) == forgotten' = forgotten \cup ({r} \X ks)

-----------------------------------------------------------------------------
(* The file: read by the import, rewritten at exit *)

\* The import registers the writing of the file, and sees whether there is one to load.
Start(r) ==
    /\ life[r] = "unborn"
    /\ Live(r, IF file.state = "absent" THEN "up" ELSE "loading")
    /\ UNCHANGED <<failed, file, writers, mixed, shelf, callVars, clearVars>>

\* Mutant: what was saved is loaded where calls look it up.
Load_IntoModule(r) ==
    /\ life[r] = "loading"
    /\ \/ /\ file.state = "whole"
          /\ store' = [store EXCEPT ![r] = file.entries]
          /\ Live(r, "up")
          /\ UNCHANGED failed
       \/ /\ file.state # "whole"
          /\ failed' = failed \cup {r}
          /\ Live(r, "broken")
          /\ UNCHANGED store
    /\ UNCHANGED <<file, writers, mixed, shelf, call, owner, old, forgotten, clearVars>>

\* Mutant: the file is loaded before the writing is registered.
Load_BeforeRegister(r) ==
    /\ life[r] = "loading"
    /\ \/ /\ file.state = "whole"
          /\ shelf' = [shelf EXCEPT ![r] = file.entries]
          /\ Live(r, "up")
          /\ UNCHANGED failed
       \/ /\ file.state # "whole"
          /\ failed' = failed \cup {r}
          /\ Live(r, "gone")
          /\ UNCHANGED shelf
    /\ UNCHANGED <<file, writers, mixed, callVars, clearVars>>

\* The file is opened and unpickled into the dictionary of the class.  A file that is gone by
\* now, or not whole, fails the import: the run can only end.
Load(r) ==
    /\ life[r] = "loading"
    /\ \/ /\ file.state = "whole"
          /\ shelf' = [shelf EXCEPT ![r] = file.entries]
          /\ Live(r, "up")
          /\ UNCHANGED failed
       \/ /\ file.state # "whole"
          /\ failed' = failed \cup {r}
          /\ Live(r, "broken")
          /\ UNCHANGED shelf
    /\ UNCHANGED <<file, writers, mixed, callVars, clearVars>>

\* The run ends.  Threads are joined first, coroutines dropped.  A cached generator that
\* raises when it is run to its end stops the writing before the file is opened.
Exit(r) ==
    /\ life[r] \in {"up", "broken"}
    /\ \A c \in Calls : CallOf(r, c).at \in UnderWay => CallOf(r, c).key \in AsyncKeys
    /\ \/ /\ Live(r, "saving")
          /\ file' = Torn
          /\ writers' = writers \cup {r}
          /\ mixed' = IF writers = {} THEN mixed ELSE mixed \cup writers \cup {r}
          /\ UNCHANGED <<store, shelf, call>>
       \/ /\ \E k \in AsyncKeys : store[r][k] # 0
          /\ Ends(r, "gone")
          /\ UNCHANGED <<file, writers, mixed>>
    /\ UNCHANGED <<failed, owner, old, forgotten, clearVars>>

\* The dictionary is written and the file closed.  Something that cannot be pickled leaves the
\* file cut short, and so may another run that writes at the same time.
Save(r) ==
    /\ life[r] = "saving"
    /\ Ends(r, "gone")
    /\ writers' = writers \ {r}
    /\ file' \in IF r \notin writers THEN {file}
                 ELSE {Whole(store[r])} \cup
                      {f \in {Torn} : r \in mixed \/ \E k \in Keys : store[r][k] # 0}
    /\ UNCHANGED <<failed, mixed, owner, old, forgotten, clearVars>>

\* The process is killed: what it has written so far stays.
Kill(r) ==
    /\ life[r] \in {"loading", "up", "broken", "saving"}
    /\ Ends(r, "killed")
    /\ writers' = writers \ {r}
    /\ UNCHANGED <<failed, file, mixed, owner, old, forgotten, clearVars>>

\* Mutant: clear_all clears the dictionary of the class only.
Clear_ClassOnly(r) ==
    /\ life[r] = "up"
    /\ shelf' = [shelf EXCEPT ![r] = Nothing]
    /\ file' = Absent /\ writers' = {}
    /\ Forget(r, Keys)
    /\ cut' = [cut EXCEPT ![r] = Len(owner)]
    /\ carried' = {x \in carried : x[1] # r} \cup {<<r, k>> : k \in KeysUnderWay(r)}
    /\ UNCHANGED <<life, failed, mixed, store, call, owner, old>>

\* clear_all, which the import of dependency.py runs: both dictionaries and the file.
Clear(r) ==
    /\ life[r] = "up"
    /\ store' = [store EXCEPT ![r] = Nothing]
    /\ shelf' = [shelf EXCEPT ![r] = Nothing]
    /\ file' = Absent /\ writers' = {}
    /\ Forget(r, Keys)
    /\ cut' = [cut EXCEPT ![r] = Len(owner)]
    /\ carried' = {x \in carried : x[1] # r} \cup {<<r, k>> : k \in KeysUnderWay(r)}
    /\ UNCHANGED <<life, failed, mixed, call, owner, old>>

-----------------------------------------------------------------------------
(* Calls of cached functions *)

Free(r, c) == life[r] = "up" /\ CallOf(r, c).at \notin UnderWay

\* Nothing is stored for the key: the function runs.
Compute(r, c, k) ==
    /\ Len(owner) < MaxComputed
    /\ owner' = Append(owner, r)
    /\ Becomes(r, c, "computing", k, Len(owner) + 1)
    /\ IF \E d \in Calls \ {c} : CallOf(r, d).at = "computing" /\ CallOf(r, d).key = k
       THEN Forget(r, {k}) ELSE UNCHANGED forgotten
    /\ UNCHANGED <<store, old>>

\* A call of a coroutine: what is stored is the answer, whatever its age.
AsyncCall(r, c, k) ==
    /\ Free(r, c)
    /\ \/ store[r][k] # 0
          /\ Becomes(r, c, "done", k, store[r][k])
          /\ UNCHANGED <<store, owner, old, forgotten>>
       \/ store[r][k] = 0 /\ Compute(r, c, k)
    /\ UNCHANGED <<runVars, clearVars>>

\* Mutant: the decorator asks the dictionary that was loaded.
SyncCall_AsksShelf(r, c, k) ==
    /\ Free(r, c)
    /\ \/ shelf[r][k] # 0
          /\ Becomes(r, c, "reading", k, 0)
          /\ UNCHANGED <<store, owner, old, forgotten>>
       \/ shelf[r][k] = 0 /\ Compute(r, c, k)
    /\ UNCHANGED <<runVars, clearVars>>

\* A call of a plain function: `key in self` does not look at the age.
SyncCall(r, c, k) ==
    /\ Free(r, c)
    /\ \/ store[r][k] # 0
          /\ Becomes(r, c, "reading", k, 0)
          /\ UNCHANGED <<store, owner, old, forgotten>>
       \/ store[r][k] = 0 /\ Compute(r, c, k)
    /\ UNCHANGED <<runVars, clearVars>>

\* self[key] reads the entry, in a worker thread some time after the question, and looks at
\* its age.
Read(r, c) ==
    LET k == CallOf(r, c).key
        n == store[r][k] IN
    /\ life[r] = "up" /\ CallOf(r, c).at = "reading"
    /\ \/ n = 0 /\ Becomes(r, c, "keyerror", k, 0)
       \/ n # 0 /\ r \in TextTTL /\ Becomes(r, c, "typeerror", k, 0)
       \/ n # 0 /\ r \notin TextTTL /\ n \in old /\ Becomes(r, c, "dropping", k, n)
       \/ n # 0 /\ r \notin TextTTL /\ n \notin old /\ Becomes(r, c, "renewing", k, n)
    /\ UNCHANGED <<runVars, clearVars, store, owner, old, forgotten>>

\* The entry read was not too old: it is stored again, over whatever is stored by now.
Renew(r, c) ==
    LET k == CallOf(r, c).key
        n == CallOf(r, c).val IN
    /\ life[r] = "up" /\ CallOf(r, c).at = "renewing"
    /\ Put(r, k, n)
    /\ Becomes(r, c, "done", k, n)
    /\ UNCHANGED <<runVars, clearVars, owner, old, forgotten>>

\* The entry read was too old: whatever is stored by now is deleted, and the call raises.
Drop(r, c) ==
    LET k == CallOf(r, c).key IN
    /\ life[r] = "up" /\ CallOf(r, c).at = "dropping"
    /\ Put(r, k, 0)
    /\ Becomes(r, c, "keyerror", k, 0)
    /\ Forget(r, {k})
    /\ UNCHANGED <<runVars, clearVars, owner, old>>

\* Mutant: a result is given but not stored.
Result_NotStored(r, c) ==
    LET k == CallOf(r, c).key
        n == CallOf(r, c).val IN
    /\ life[r] = "up" /\ CallOf(r, c).at = "computing"
    /\ Becomes(r, c, "done", k, n)
    /\ UNCHANGED <<runVars, clearVars, store, owner, old, forgotten>>

\* The function returns: its result replaces what is stored by now.
Result(r, c) ==
    LET k == CallOf(r, c).key
        n == CallOf(r, c).val IN
    /\ life[r] = "up" /\ CallOf(r, c).at = "computing"
    /\ Put(r, k, n)
    /\ Becomes(r, c, "done", k, n)
    /\ UNCHANGED <<runVars, clearVars, owner, old, forgotten>>

\* The function raises: nothing is stored.
Raises(r, c) ==
    /\ life[r] = "up" /\ CallOf(r, c).at = "computing"
    /\ Becomes(r, c, "raised", CallOf(r, c).key, 0)
    /\ UNCHANGED <<runVars, clearVars, store, owner, old, forgotten>>

\* An entry passes its time to live.
Expire(n) ==
    /\ n \in 1 .. Len(owner) /\ n \notin old
    /\ \E k \in Keys : store[owner[n]][k] = n
    /\ old' = old \cup {n}
    /\ UNCHANGED <<runVars, clearVars, store, call, owner, forgotten>>

CallStep(r, c) ==
    \/ \E k \in AsyncKeys : AsyncCall(r, c, k)
    \/ \E k \in SyncKeys : SyncCall(r, c, k)
    \/ Read(r, c)
    \/ Renew(r, c)
    \/ Drop(r, c)
    \/ Result(r, c)
    \/ Raises(r, c)

Next ==
    \/ \E r \in Runs : Start(r) \/ Load(r) \/ Exit(r) \/ Save(r) \/ Kill(r) \/ Clear(r)
    \/ \E r \in Runs, c \in Calls : CallStep(r, c)
    \/ \E n \in 1 .. MaxComputed : Expire(n)

Spec == Init /\ [][Next]_vars

-----------------------------------------------------------------------------
(* Properties *)

TypeOK ==
    /\ life \in [Runs -> Life]
    /\ failed \in SUBSET Runs
    /\ file \in [state : {"absent", "torn", "whole"}, entries : [Keys -> Stamps]]
    /\ writers \in SUBSET Runs /\ mixed \in SUBSET Runs
    /\ store \in [Runs -> [Keys -> Stamps]]
    /\ shelf \in [Runs -> [Keys -> Stamps]]
    /\ call \in [Runs -> [Calls -> [at : Place, key : Keys, val : Stamps]]]
    /\ owner \in Seq(Runs) /\ Len(owner) \in Stamps
    /\ old \in SUBSET Stamps
    /\ forgotten \in SUBSET (Runs \X Keys) /\ carried \in SUBSET (Runs \X Keys)
    /\ cut \in [Runs -> Stamps]

\* What a call answers, and what a run stores and saves, was computed by that run: nothing
\* outlives a process, although every process loads what the last one saved.
AnswersOfThisRun ==
    \A r \in Runs :
        /\ \A k \in Keys : store[r][k] # 0 => owner[store[r][k]] = r
        /\ \A c \in Calls : CallOf(r, c).val # 0 => owner[CallOf(r, c).val] = r

\* Two calls of one function with the same arguments get the same result, unless they were
\* computed in parallel or the entry expired or was cleared.
OneAnswer ==
    \A r \in Runs, c, d \in Calls :
        /\ CallOf(r, c).at = "done" /\ CallOf(r, d).at = "done"
        /\ CallOf(r, c).key = CallOf(r, d).key
        /\ CallOf(r, c).val # CallOf(r, d).val
        => <<r, CallOf(r, c).key>> \in forgotten

\* The cache raises an error of its own only where an entry expired or was cleared under the
\* call, or where the TTL is a string.
SyncRaisesHaveCause ==
    \A r \in Runs, c \in Calls :
        /\ CallOf(r, c).at = "keyerror" => <<r, CallOf(r, c).key>> \in forgotten
        /\ CallOf(r, c).at = "typeerror" => r \in TextTTL

\* A result from before clear_all comes back into the cache only by a call that was under way
\* when it ran.
ClearHolds ==
    \A r \in Runs, k \in Keys :
        store[r][k] # 0 /\ store[r][k] <= cut[r] => <<r, k>> \in carried

\* A run whose import failed on the file leaves one that the next import can load, unless it is
\* killed, another run writes at the same time, or the file is removed under it.
FailedStartRepairs ==
    [][\A r \in failed' :
          life[r] # "gone" /\ life'[r] = "gone" =>
              file'.state = "whole" \/ r \in mixed \/ (life[r] = "saving" /\ r \notin writers)]_vars

=============================================================================
