-------------------------- MODULE MemoCacheProofs --------------------------
(***************************************************************************)
(* Theorems of MemoCache, for any number of runs, calls, keys and           *)
(* computations.  The invariant MInv says where every number in the         *)
(* dictionaries and in the calls comes from (Owned), what the calls of one   *)
(* key agree on as long as nothing was forgotten (Agreed), and what may be   *)
(* older than the last clear_all (Carried).                                 *)
(***************************************************************************)
EXTENDS MemoCache, TLAPS

Of(r, n) == n # 0 => n \in 1 .. Len(owner) /\ owner[n] = r

\* What a run stores and what its calls hold are results of its own computations.
Owned ==
    \A r \in Runs :
        /\ \A k \in Keys : Of(r, store[r][k])
        /\ \A c \in Calls : Of(r, call[r][c].val)
        /\ \A c \in Calls : call[r][c].at = "computing" => call[r][c].val # 0

\* A key with nothing stored has at most one computation and no answer; a key with an entry
\* has no computation, and no answer but the entry.
AgreedOn(r, k) ==
    <<r, k>> \notin forgotten =>
        IF store[r][k] = 0
        THEN /\ \A c \in Calls : call[r][c].key = k => call[r][c].at \in {"idle", "raised", "computing"}
             /\ \A c, d \in Calls :
                   /\ call[r][c].key = k /\ call[r][c].at = "computing"
                   /\ call[r][d].key = k /\ call[r][d].at = "computing"
                   => c = d
        ELSE \A c \in Calls : call[r][c].key = k =>
                /\ call[r][c].at \notin {"computing", "keyerror"}
                /\ call[r][c].at \in {"renewing", "dropping", "done"} => call[r][c].val = store[r][k]

Agreed == \A r \in Runs, k \in Keys : AgreedOn(r, k)

\* A call under way that holds a result from before clear_all was under way then.
CarriedByCalls ==
    \A r \in Runs, c \in Calls :
        /\ call[r][c].at \in UnderWay /\ call[r][c].val # 0 /\ call[r][c].val <= cut[r]
        => <<r, call[r][c].key>> \in carried

Cuts == \A r \in Runs : cut[r] <= Len(owner)

\* A run whose import has not succeeded stores nothing.
Failures ==
    /\ \A r \in failed : life[r] \in {"broken", "saving", "gone", "killed"} /\ store[r] = Nothing
    /\ \A r \in Runs : life[r] \in {"unborn", "loading"} => store[r] = Nothing

MInv ==
    /\ TypeOK
    /\ Owned
    /\ Agreed
    /\ SyncRaisesHaveCause
    /\ ClearHolds
    /\ CarriedByCalls
    /\ Cuts
    /\ Failures

-----------------------------------------------------------------------------
LEMMA IdleKey == Idle.at = "idle" /\ Idle.key \in Keys /\ Idle.val = 0
  <1>1. \E k \in Keys : TRUE
    BY MemoAssumption DEF Keys
  <1>2. (CHOOSE k \in Keys : TRUE) \in Keys
    BY <1>1
  <1>3. QED
    BY <1>2 DEF Idle

LEMMA MInitInv == Init => MInv
  <1> SUFFICES ASSUME Init PROVE MInv
    OBVIOUS
  <1> USE MemoAssumption, IdleKey DEF Init
  <1>1. \A r \in Runs : store[r] = Nothing /\ \A c \in Calls : call[r][c] = Idle
    OBVIOUS
  <1>2. \A k \in Keys : Nothing[k] = 0
    BY DEF Nothing
  <1>3. TypeOK
    <2>1. Nothing \in [Keys -> Stamps] /\ 0 \in Stamps
      BY DEF Nothing, Stamps
    <2>2. Idle \in [at : Place, key : Keys, val : Stamps]
      BY <2>1 DEF Idle, Place
    <2>3. owner = <<>> /\ Len(owner) = 0 /\ owner \in Seq(Runs)
      OBVIOUS
    <2>4. QED
      BY <2>1, <2>2, <2>3 DEF TypeOK, Life, Absent
  <1>4. Owned /\ Agreed /\ CarriedByCalls /\ Cuts
    BY <1>1, <1>2 DEF Owned, Of, Agreed, AgreedOn, CarriedByCalls, UnderWay, Cuts
  <1>5. SyncRaisesHaveCause /\ ClearHolds /\ Failures
    BY <1>1, <1>2 DEF SyncRaisesHaveCause, CallOf, ClearHolds, Failures
  <1>6. QED
    BY <1>3, <1>4, <1>5 DEF MInv

-----------------------------------------------------------------------------
(* The file *)

\* A step that leaves calls and their histories alone leaves the invariant's part on them.
LEMMA CallsUnchanged ==
  ASSUME MInv, UNCHANGED <<callVars, clearVars>>
  PROVE  (Owned /\ Agreed /\ SyncRaisesHaveCause /\ ClearHolds /\ CarriedByCalls /\ Cuts)'
  BY DEF MInv, callVars, clearVars, Owned, Of, Agreed, AgreedOn, SyncRaisesHaveCause, CallOf,
         ClearHolds, CarriedByCalls, Cuts

\* The end of a run forgets its calls and its store and nothing else.
LEMMA EndsInv ==
  ASSUME MInv, NEW r \in Runs, NEW stage \in {"gone", "killed"}, Ends(r, stage),
         file' \in [state : {"absent", "torn", "whole"}, entries : [Keys -> Stamps]],
         writers' \in SUBSET Runs, mixed' \in SUBSET Runs,
         UNCHANGED <<failed, owner, old, forgotten, clearVars>>
  PROVE  MInv'
  <1> USE MemoAssumption, IdleKey DEF MInv, Ends, Live
  <1>1. Nothing \in [Keys -> Stamps] /\ \A k \in Keys : Nothing[k] = 0
    BY DEF Nothing, Stamps
  <1>2. /\ store' = [store EXCEPT ![r] = Nothing]
        /\ call' = [call EXCEPT ![r] = [c \in Calls |-> Idle]]
        /\ UNCHANGED <<failed, owner, old, forgotten, cut, carried>>
    BY DEF clearVars
  <1>3. TypeOK'
    <2>1. Idle \in [at : Place, key : Keys, val : Stamps]
      BY DEF Idle, Place, Stamps
    <2>2. QED
      BY <1>1, <1>2, <2>1 DEF TypeOK, Life
  <1>4. \A q \in Runs : \/ q # r /\ store'[q] = store[q] /\ call'[q] = call[q]
                        \/ /\ q = r /\ \A k \in Keys : store'[q][k] = 0
                           /\ \A c \in Calls : call'[q][c] = Idle
    BY <1>1, <1>2 DEF TypeOK
  <1>5. Owned' /\ CarriedByCalls' /\ Cuts'
    BY <1>2, <1>4 DEF Owned, Of, CarriedByCalls, UnderWay, Cuts
  <1>6. Agreed'
    BY <1>2, <1>4 DEF Agreed, AgreedOn
  <1>7. SyncRaisesHaveCause' /\ ClearHolds' /\ Failures'
    BY <1>1, <1>2, <1>4 DEF SyncRaisesHaveCause, CallOf, ClearHolds, Failures, TypeOK
  <1>8. QED
    BY <1>3, <1>5, <1>6, <1>7

LEMMA StartInv ==
  ASSUME MInv, NEW r \in Runs, Start(r) \/ Load(r)
  PROVE  MInv'
  <1> USE DEF MInv
  <1>1. UNCHANGED <<callVars, clearVars>>
    BY DEF Start, Load
  <1>2. TypeOK'
    BY <1>1 DEF Start, Load, Live, TypeOK, Life, callVars, clearVars
  <1>3. Failures'
    <2>1. CASE Start(r)
      BY <2>1 DEF Start, Live, Failures, TypeOK, callVars
    <2>2. CASE Load(r) /\ file.state = "whole"
      BY <2>2 DEF Load, Live, Failures, TypeOK, callVars
    <2>3. CASE Load(r) /\ file.state # "whole"
      BY <2>3 DEF Load, Live, Failures, TypeOK, callVars
    <2>4. QED
      BY <2>1, <2>2, <2>3
  <1>4. QED
    BY <1>1, <1>2, <1>3, CallsUnchanged

LEMMA ExitInv ==
  ASSUME MInv, NEW r \in Runs, Exit(r)
  PROVE  MInv'
  <1> USE DEF MInv
  <1>0. Torn \in [state : {"absent", "torn", "whole"}, entries : [Keys -> Stamps]]
    BY MemoAssumption DEF Torn, Nothing, Stamps
  <1>1. CASE Ends(r, "gone") /\ UNCHANGED <<file, writers, mixed>>
    BY <1>1, EndsInv DEF Exit, TypeOK
  <1>2. CASE /\ Live(r, "saving") /\ file' = Torn /\ writers' = writers \cup {r}
             /\ mixed' = IF writers = {} THEN mixed ELSE mixed \cup writers \cup {r}
             /\ UNCHANGED <<store, shelf, call>>
    <2>1. UNCHANGED <<callVars, clearVars>>
      BY <1>2 DEF Exit, callVars, clearVars
    <2>2. TypeOK'
      BY <1>0, <1>2, <2>1 DEF Exit, Live, TypeOK, Life, callVars, clearVars
    <2>3. Failures'
      BY <1>2 DEF Exit, Live, Failures, TypeOK
    <2>4. QED
      BY <2>1, <2>2, <2>3, CallsUnchanged
  <1>3. QED
    BY <1>1, <1>2 DEF Exit

LEMMA EndInv ==
  ASSUME MInv, NEW r \in Runs, Save(r) \/ Kill(r)
  PROVE  MInv'
  <1> USE DEF MInv
  <1>1. file' \in [state : {"absent", "torn", "whole"}, entries : [Keys -> Stamps]]
    <2>1. Torn \in [state : {"absent", "torn", "whole"}, entries : [Keys -> Stamps]]
      BY MemoAssumption DEF Torn, Nothing, Stamps
    <2>2. Whole(store[r]) \in [state : {"absent", "torn", "whole"}, entries : [Keys -> Stamps]]
      BY DEF Whole, TypeOK
    <2>3. QED
      BY <2>1, <2>2 DEF Save, Kill, TypeOK
  <1>2. writers' \in SUBSET Runs /\ mixed' \in SUBSET Runs
    BY DEF Save, Kill, TypeOK
  <1>3. \E stage \in {"gone", "killed"} : Ends(r, stage)
    BY DEF Save, Kill
  <1>4. UNCHANGED <<failed, owner, old, forgotten, clearVars>>
    BY DEF Save, Kill
  <1>5. QED
    BY <1>1, <1>2, <1>3, <1>4, EndsInv

LEMMA ClearInv ==
  ASSUME MInv, NEW r \in Runs, Clear(r)
  PROVE  MInv'
  <1> USE MemoAssumption DEF MInv, Clear
  <1>1. Nothing \in [Keys -> Stamps] /\ \A k \in Keys : Nothing[k] = 0
    BY DEF Nothing, Stamps
  <1>2. \A q \in Runs : \/ q # r /\ store'[q] = store[q] /\ cut'[q] = cut[q]
                        \/ /\ q = r /\ \A k \in Keys : store'[q][k] = 0
                           /\ cut'[q] = Len(owner)
    BY <1>1 DEF TypeOK
  <1>3. \A q \in Runs, k \in Keys : <<q, k>> \notin forgotten' => q # r /\ <<q, k>> \notin forgotten
    BY DEF Forget
  <1>4. \A q \in Runs, k \in Keys : q # r /\ <<q, k>> \in carried => <<q, k>> \in carried'
    OBVIOUS
  <1>5. \A c \in Calls : call[r][c].at \in UnderWay => <<r, call[r][c].key>> \in carried'
    BY DEF KeysUnderWay, CallOf
  <1>6. TypeOK'
    <2>1. forgotten' \in SUBSET (Runs \X Keys)
      BY DEF Forget, TypeOK
    <2>2. KeysUnderWay(r) \subseteq Keys
      BY DEF KeysUnderWay, CallOf, TypeOK
    <2>3. carried' \in SUBSET (Runs \X Keys)
      BY <2>2 DEF TypeOK
    <2>4. QED
      BY <1>1, <2>1, <2>3 DEF TypeOK, Absent
  <1>7. Owned' /\ Cuts'
    BY <1>2 DEF Owned, Of, Cuts, TypeOK
  <1>8. Agreed'
    BY <1>2, <1>3 DEF Agreed, AgreedOn
  <1>9. SyncRaisesHaveCause'
    BY DEF SyncRaisesHaveCause, CallOf, Forget
  <1>10. ClearHolds'
    BY <1>2, <1>4 DEF ClearHolds
  <1>11. CarriedByCalls'
    BY <1>2, <1>4, <1>5 DEF CarriedByCalls, TypeOK
  <1>12. Failures'
    BY DEF Failures, TypeOK
  <1>13. QED
    BY <1>6, <1>7, <1>8, <1>9, <1>10, <1>11, <1>12

-----------------------------------------------------------------------------
(* The calls *)

\* What a call of a run that is up becomes, and what this leaves alone.
LEMMA BecomesFrame ==
  ASSUME MInv, NEW r \in Runs, NEW c \in Calls, NEW place \in Place, NEW k \in Keys,
         NEW n \in Stamps, Becomes(r, c, place, k, n)
  PROVE  /\ call' \in [Runs -> [Calls -> [at : Place, key : Keys, val : Stamps]]]
         /\ call'[r][c].at = place /\ call'[r][c].key = k /\ call'[r][c].val = n
         /\ \A q \in Runs, d \in Calls : q # r \/ d # c => call'[q][d] = call[q][d]
  <1> DEFINE rec == [at |-> place, key |-> k, val |-> n]
  <1>1. rec \in [at : Place, key : Keys, val : Stamps]
    OBVIOUS
  <1>2. rec.at = place /\ rec.key = k /\ rec.val = n
    OBVIOUS
  <1>3. call' = [call EXCEPT ![r][c] = rec]
    BY DEF Becomes
  <1> HIDE DEF rec
  <1>4. call'[r][c] = rec /\ \A q \in Runs, d \in Calls : q # r \/ d # c => call'[q][d] = call[q][d]
    BY <1>3 DEF MInv, TypeOK
  <1>5. call' \in [Runs -> [Calls -> [at : Place, key : Keys, val : Stamps]]]
    BY <1>1, <1>3 DEF MInv, TypeOK
  <1>6. QED
    BY <1>2, <1>4, <1>5

\* A call takes a step that stores nothing: it keeps the invariant if what it holds now is
\* right by itself, and right for its key.
LEMMA QuietStep ==
  ASSUME MInv, NEW r \in Runs, NEW c \in Calls, NEW place \in Place, NEW k \in Keys,
         NEW n \in Stamps, Becomes(r, c, place, k, n), life[r] = "up",
         UNCHANGED <<runVars, clearVars, store, owner, old, forgotten>>,
         Of(r, n),
         place \in UnderWay /\ n # 0 /\ n <= cut[r] => <<r, k>> \in carried,
         place = "keyerror" => <<r, k>> \in forgotten,
         place = "typeerror" => r \in TextTTL,
         place # "computing",
         <<r, k>> \notin forgotten =>
            /\ store[r][k] = 0 => place \in {"idle", "raised"}
            /\ place \in {"renewing", "dropping", "done"} => n = store[r][k]
  PROVE  MInv'
  <1> USE DEF MInv
  <1>1. /\ call' \in [Runs -> [Calls -> [at : Place, key : Keys, val : Stamps]]]
        /\ call'[r][c].at = place /\ call'[r][c].key = k /\ call'[r][c].val = n
        /\ \A q \in Runs, d \in Calls : q # r \/ d # c => call'[q][d] = call[q][d]
    BY BecomesFrame
  <1>2. UNCHANGED <<life, failed, file, writers, mixed, shelf, store, owner, old, forgotten, cut, carried>>
    BY DEF runVars, clearVars
  <1>3. TypeOK'
    BY <1>1, <1>2 DEF TypeOK
  <1>4. Owned' /\ Cuts' /\ ClearHolds' /\ Failures'
    <2>1. \A q \in Runs, d \in Calls : Of(q, call'[q][d].val)
      BY <1>1 DEF Owned
    <2>2. \A q \in Runs, d \in Calls : call'[q][d].at = "computing" => call'[q][d].val # 0
      BY <1>1 DEF Owned
    <2>3. QED
      BY <1>2, <2>1, <2>2 DEF Owned, Of, Cuts, ClearHolds, Failures
  <1>5. CarriedByCalls'
    BY <1>1, <1>2 DEF CarriedByCalls
  <1>6. SyncRaisesHaveCause'
    BY <1>1, <1>2 DEF SyncRaisesHaveCause, CallOf
  <1>7. Agreed'
    <2> SUFFICES ASSUME NEW q \in Runs, NEW j \in Keys, <<q, j>> \notin forgotten
                 PROVE  AgreedOn(q, j)'
      BY <1>2 DEF Agreed, AgreedOn
    <2>1. AgreedOn(q, j)
      BY DEF Agreed
    <2>2. CASE q = r /\ j = k /\ store[q][j] = 0
      <3>1. call'[r][c].at \in {"idle", "raised"}
        BY <1>1, <2>2
      <3>2. \A d \in Calls : d # c /\ call'[r][d].key = k =>
              call'[r][d].at \in {"idle", "raised", "computing"} /\ call'[r][d] = call[r][d]
        BY <1>1, <2>1, <2>2 DEF AgreedOn
      <3>3. ASSUME NEW d \in Calls, NEW e \in Calls,
                   call'[r][d].key = k, call'[r][d].at = "computing",
                   call'[r][e].key = k, call'[r][e].at = "computing"
            PROVE  d = e
        <4>1. d # c /\ e # c
          BY <3>1, <3>3
        <4>2. call'[r][d] = call[r][d] /\ call'[r][e] = call[r][e]
          BY <1>1, <4>1
        <4>3. QED
          BY <2>1, <2>2, <3>3, <4>2 DEF AgreedOn
      <3>4. QED
        BY <1>2, <2>2, <3>1, <3>2, <3>3 DEF AgreedOn
    <2>3. CASE q = r /\ j = k /\ store[q][j] # 0
      BY <1>1, <1>2, <2>1, <2>3 DEF AgreedOn
    <2>4. CASE q # r \/ j # k
      <3>1. \A d \in Calls : call'[q][d].key = j => call'[q][d] = call[q][d]
        BY <1>1, <2>4
      <3>2. QED
        BY <1>2, <2>1, <3>1 DEF AgreedOn
    <2>5. QED
      BY <2>2, <2>3, <2>4
  <1>8. QED
    BY <1>3, <1>4, <1>5, <1>6, <1>7

\* A call takes a step that stores n, or with n = 0 deletes what is stored: right if n is a
\* result of the run, the same for this key unless that was forgotten, and none from before a
\* clear_all that its call does not carry.
LEMMA StoringStep ==
  ASSUME MInv, NEW r \in Runs, NEW c \in Calls, NEW place \in Place, NEW k \in Keys,
         NEW m \in Stamps, NEW n \in Stamps, Becomes(r, c, place, k, m), Put(r, k, n),
         life[r] = "up",
         UNCHANGED <<runVars, clearVars, owner, old>>,
         Of(r, n), Of(r, m),
         forgotten' \in SUBSET (Runs \X Keys), forgotten \subseteq forgotten',
         n # 0 /\ n <= cut[r] => <<r, k>> \in carried,
         place \notin UnderWay,
         place = "keyerror" => <<r, k>> \in forgotten',
         place # "typeerror",
         <<r, k>> \notin forgotten' =>
            /\ n # 0 /\ n = m /\ place = "done"
            /\ \A d \in Calls \ {c} : call[r][d].key = k =>
                  /\ call[r][d].at \notin {"computing", "keyerror"}
                  /\ call[r][d].at \in {"renewing", "dropping", "done"} => call[r][d].val = n
  PROVE  MInv'
  <1> USE DEF MInv
  <1>1. /\ call' \in [Runs -> [Calls -> [at : Place, key : Keys, val : Stamps]]]
        /\ call'[r][c].at = place /\ call'[r][c].key = k /\ call'[r][c].val = m
        /\ \A q \in Runs, d \in Calls : q # r \/ d # c => call'[q][d] = call[q][d]
    BY BecomesFrame
  <1>2. UNCHANGED <<life, failed, file, writers, mixed, shelf, owner, old, cut, carried>>
    BY DEF runVars, clearVars
  <1>3. /\ store' \in [Runs -> [Keys -> Stamps]]
        /\ store'[r][k] = n
        /\ \A q \in Runs, j \in Keys : q # r \/ j # k => store'[q][j] = store[q][j]
        /\ \A q \in Runs : q # r => store'[q] = store[q]
    BY DEF Put, TypeOK
  <1>4. TypeOK'
    BY <1>1, <1>2, <1>3 DEF TypeOK
  <1>5. Owned' /\ Cuts'
    <2>1. \A q \in Runs, j \in Keys : Of(q, store'[q][j])
      BY <1>3 DEF Owned
    <2>2. \A q \in Runs, d \in Calls : Of(q, call'[q][d].val)
      BY <1>1 DEF Owned
    <2>3. \A q \in Runs, d \in Calls : call'[q][d].at = "computing" => call'[q][d].val # 0
      BY <1>1 DEF Owned, UnderWay
    <2>4. QED
      BY <1>2, <2>1, <2>2, <2>3 DEF Owned, Of, Cuts
  <1>6. ClearHolds'
    BY <1>2, <1>3 DEF ClearHolds
  <1>7. Failures'
    BY <1>2, <1>3 DEF Failures, TypeOK
  <1>8. CarriedByCalls'
    BY <1>1, <1>2 DEF CarriedByCalls
  <1>9. SyncRaisesHaveCause'
    BY <1>1, <1>2 DEF SyncRaisesHaveCause, CallOf
  <1>10. Agreed'
    <2> SUFFICES ASSUME NEW q \in Runs, NEW j \in Keys, <<q, j>> \notin forgotten'
                 PROVE  AgreedOn(q, j)'
      BY DEF Agreed, AgreedOn
    <2>1. AgreedOn(q, j)
      BY DEF Agreed
    <2>2. CASE q = r /\ j = k
      <3>1. store'[q][j] # 0
        BY <1>3, <2>2
      <3>2. \A d \in Calls : call'[q][d].key = j =>
                /\ call'[q][d].at \notin {"computing", "keyerror"}
                /\ call'[q][d].at \in {"renewing", "dropping", "done"} => call'[q][d].val = store'[q][j]
        BY <1>1, <1>3, <2>2 DEF UnderWay
      <3>3. QED
        BY <3>1, <3>2 DEF AgreedOn
    <2>3. CASE q # r \/ j # k
      <3>1. store'[q][j] = store[q][j]
        BY <1>3, <2>3
      <3>2. \A d \in Calls : call'[q][d].key = j => call'[q][d] = call[q][d] /\ (q # r \/ d # c)
        BY <1>1, <2>3
      <3>3. QED
        BY <2>1, <3>1, <3>2 DEF AgreedOn
    <2>4. QED
      BY <2>2, <2>3
  <1>11. QED
    BY <1>4, <1>5, <1>6, <1>7, <1>8, <1>9, <1>10

LEMMA ComputeInv ==
  ASSUME MInv, NEW r \in Runs, NEW c \in Calls, NEW k \in Keys, Free(r, c), store[r][k] = 0,
         Compute(r, c, k), UNCHANGED <<runVars, clearVars>>
  PROVE  MInv'
  <1> DEFINE n == Len(owner) + 1
  <1> USE MemoAssumption DEF MInv
  <1>0. n \in Stamps /\ "computing" \in Place /\ n # 0 /\ Len(owner) \in Nat /\ n > Len(owner)
    BY DEF Compute, Stamps, Place, TypeOK
  <1>1. /\ call' \in [Runs -> [Calls -> [at : Place, key : Keys, val : Stamps]]]
        /\ call'[r][c].at = "computing" /\ call'[r][c].key = k /\ call'[r][c].val = n
        /\ \A q \in Runs, d \in Calls : q # r \/ d # c => call'[q][d] = call[q][d]
    BY <1>0, BecomesFrame DEF Compute
  <1>2. UNCHANGED <<life, failed, file, writers, mixed, shelf, store, old, cut, carried>>
    BY DEF runVars, clearVars, Compute
  <1>3. /\ owner' \in Seq(Runs) /\ Len(owner') = n /\ owner'[n] = r
        /\ \A m \in 1 .. Len(owner) : owner'[m] = owner[m]
    BY DEF Compute, TypeOK
  <1>4. forgotten' \in SUBSET (Runs \X Keys) /\ forgotten \subseteq forgotten'
    BY DEF Compute, Forget, TypeOK
  <1>5. TypeOK'
    BY <1>0, <1>1, <1>2, <1>3, <1>4 DEF TypeOK
  <1>6. Owned'
    <2>1. ASSUME NEW q \in Runs, NEW m \in Stamps, Of(q, m)
          PROVE  m # 0 => m \in 1 .. Len(owner') /\ owner'[m] = q
      <3>1. m # 0 => m \in 1 .. Len(owner) /\ owner[m] = q
        BY <2>1 DEF Of
      <3>2. QED
        BY <1>0, <1>3, <3>1
    <2>2. n \in 1 .. Len(owner') /\ owner'[n] = r
      BY <1>0, <1>3
    <2>3. ASSUME NEW q \in Runs, NEW j \in Keys PROVE Of(q, store[q][j])'
      <3>1. store[q][j] \in Stamps /\ Of(q, store[q][j])
        BY DEF Owned, TypeOK
      <3>2. QED
        BY <1>2, <2>1, <3>1 DEF Of
    <2>4. ASSUME NEW q \in Runs, NEW d \in Calls PROVE Of(q, call[q][d].val)'
      <3>1. call[q][d].val \in Stamps /\ Of(q, call[q][d].val)
        BY DEF Owned, TypeOK
      <3>2. CASE q = r /\ d = c
        BY <1>1, <2>2, <3>2 DEF Of
      <3>3. CASE q # r \/ d # c
        <4>1. call'[q][d].val = call[q][d].val
          BY <1>1, <3>3
        <4>2. QED
          BY <2>1, <3>1, <4>1 DEF Of
      <3>4. QED
        BY <3>2, <3>3
    <2>5. \A q \in Runs, d \in Calls : call'[q][d].at = "computing" => call'[q][d].val # 0
      BY <1>0, <1>1 DEF Owned
    <2>6. QED
      BY <2>3, <2>4, <2>5 DEF Owned
  <1>7. Cuts' /\ ClearHolds' /\ Failures'
    <2>1. \A q \in Runs : cut[q] \in Nat /\ cut[q] <= Len(owner)
      BY DEF Cuts, TypeOK, Stamps
    <2>2. Cuts'
      BY <1>0, <1>2, <1>3, <2>1 DEF Cuts
    <2>3. QED
      BY <1>2, <2>2 DEF ClearHolds, Failures
  <1>8. CarriedByCalls'
    <2>1. ~(n <= cut[r])
      BY <1>0 DEF Cuts, TypeOK, Stamps
    <2>2. QED
      BY <1>1, <1>2, <2>1 DEF CarriedByCalls
  <1>9. SyncRaisesHaveCause'
    BY <1>1, <1>4 DEF SyncRaisesHaveCause, CallOf
  <1>10. Agreed'
    <2> SUFFICES ASSUME NEW q \in Runs, NEW j \in Keys, <<q, j>> \notin forgotten'
                 PROVE  AgreedOn(q, j)'
      BY DEF Agreed, AgreedOn
    <2>1. AgreedOn(q, j) /\ <<q, j>> \notin forgotten
      BY <1>4 DEF Agreed
    <2>2. CASE q = r /\ j = k
      <3>1. \A d \in Calls : call'[r][d].key = k => call'[r][d].at \in {"idle", "raised", "computing"}
        BY <1>1, <2>1, <2>2 DEF AgreedOn
      <3>2. \A d \in Calls : d # c /\ call'[r][d].key = k => call'[r][d].at # "computing"
        <4>1. \A d \in Calls : d # c /\ call[r][d].key = k => call[r][d].at # "computing"
          BY <2>2 DEF Compute, Forget, CallOf
        <4>2. QED
          BY <1>1, <4>1
      <3>3. store'[r][k] = 0
        BY <1>2
      <3>4. QED
        BY <2>2, <3>1, <3>2, <3>3 DEF AgreedOn
    <2>3. CASE q # r \/ j # k
      <3>1. \A d \in Calls : call'[q][d].key = j => call'[q][d] = call[q][d]
        BY <1>1, <2>3
      <3>2. QED
        BY <1>2, <2>1, <3>1 DEF AgreedOn
    <2>4. QED
      BY <2>2, <2>3
  <1>11. QED
    BY <1>5, <1>6, <1>7, <1>8, <1>9, <1>10

LEMMA CallInv ==
  ASSUME MInv, NEW r \in Runs, NEW c \in Calls, NEW k \in Keys, AsyncCall(r, c, k) \/ SyncCall(r, c, k)
  PROVE  MInv'
  <1> USE DEF MInv
  <1>1. Free(r, c) /\ life[r] = "up" /\ UNCHANGED <<runVars, clearVars>>
    BY DEF AsyncCall, SyncCall, Free
  <1>2. CASE store[r][k] = 0 /\ Compute(r, c, k)
    BY <1>1, <1>2, ComputeInv
  <1>a. /\ Of(r, store[r][k]) /\ Of(r, 0) /\ store[r][k] \in Stamps /\ 0 \in Stamps
        /\ "done" \in Place /\ "reading" \in Place
    <2>1. Of(r, store[r][k]) /\ store[r][k] \in Stamps
      BY DEF Owned, TypeOK
    <2>2. Of(r, 0) /\ 0 \in Stamps
      BY MemoAssumption DEF Of, Stamps
    <2>3. QED
      BY <2>1, <2>2 DEF Place
  <1>3. CASE /\ store[r][k] # 0 /\ UNCHANGED <<store, owner, old, forgotten>>
             /\ Becomes(r, c, "done", k, store[r][k])
    BY <1>1, <1>3, <1>a, QuietStep DEF UnderWay
  <1>b. CASE /\ store[r][k] # 0 /\ UNCHANGED <<store, owner, old, forgotten>>
             /\ Becomes(r, c, "reading", k, 0)
    BY <1>1, <1>a, <1>b, QuietStep
  <1>4. QED
    BY <1>2, <1>3, <1>b DEF AsyncCall, SyncCall

LEMMA ReadInv ==
  ASSUME MInv, NEW r \in Runs, NEW c \in Calls, Read(r, c)
  PROVE  MInv'
  <1> DEFINE k == call[r][c].key
             n == store[r][k]
  <1> USE DEF MInv
  <1>1. /\ k \in Keys /\ n \in Stamps /\ 0 \in Stamps /\ Of(r, n) /\ Of(r, 0)
        /\ {"keyerror", "typeerror", "dropping", "renewing"} \subseteq Place
    <2>1. k \in Keys
      BY DEF TypeOK
    <2>2. Of(r, n) /\ n \in Stamps
      BY <2>1 DEF Owned, TypeOK
    <2>3. Of(r, 0) /\ 0 \in Stamps
      BY MemoAssumption DEF Of, Stamps
    <2>4. QED
      BY <2>1, <2>2, <2>3 DEF Place
  <1>2. /\ life[r] = "up" /\ call[r][c].at = "reading"
        /\ UNCHANGED <<runVars, clearVars, store, owner, old, forgotten>>
    BY DEF Read, CallOf
  <1>3. n # 0 /\ n <= cut[r] => <<r, k>> \in carried
    BY <1>1 DEF ClearHolds
  <1>4. CASE n = 0 /\ Becomes(r, c, "keyerror", k, 0)
    <2>1. <<r, k>> \in forgotten
      BY <1>1, <1>2, <1>4 DEF Agreed, AgreedOn
    <2>2. QED
      BY <1>1, <1>2, <1>4, <2>1, QuietStep DEF UnderWay
  <1>5. CASE n # 0 /\ r \in TextTTL /\ Becomes(r, c, "typeerror", k, 0)
    BY <1>1, <1>2, <1>5, QuietStep DEF UnderWay
  <1>6. CASE n # 0 /\ Becomes(r, c, "dropping", k, n)
    BY <1>1, <1>2, <1>3, <1>6, QuietStep
  <1>7. CASE n # 0 /\ Becomes(r, c, "renewing", k, n)
    BY <1>1, <1>2, <1>3, <1>7, QuietStep
  <1>8. QED
    BY <1>4, <1>5, <1>6, <1>7 DEF Read, CallOf

LEMMA StoreInv ==
  ASSUME MInv, NEW r \in Runs, NEW c \in Calls, Renew(r, c) \/ Result(r, c)
  PROVE  MInv'
  <1> DEFINE k == call[r][c].key
             n == call[r][c].val
  <1> USE DEF MInv
  <1>1. /\ k \in Keys /\ n \in Stamps /\ Of(r, n) /\ "done" \in Place
        /\ forgotten \in SUBSET (Runs \X Keys)
    BY DEF TypeOK, Owned, Place
  <1>2. /\ life[r] = "up" /\ call[r][c].at \in {"renewing", "computing"}
        /\ Put(r, k, n) /\ Becomes(r, c, "done", k, n)
        /\ UNCHANGED <<runVars, clearVars, owner, old, forgotten>>
    BY DEF Renew, Result, CallOf
  <1>3. n # 0 /\ n <= cut[r] => <<r, k>> \in carried
    BY <1>2 DEF CarriedByCalls, UnderWay
  <1>4. ASSUME <<r, k>> \notin forgotten
        PROVE  /\ n # 0
               /\ \A d \in Calls \ {c} : call[r][d].key = k =>
                     /\ call[r][d].at \notin {"computing", "keyerror"}
                     /\ call[r][d].at \in {"renewing", "dropping", "done"} => call[r][d].val = n
    <2>1. AgreedOn(r, k)
      BY <1>1 DEF Agreed
    <2>2. CASE store[r][k] = 0
      <3>1. call[r][c].at = "computing"
        BY <1>2, <1>4, <2>1, <2>2 DEF AgreedOn
      <3>2. \A d \in Calls \ {c} : call[r][d].key = k => call[r][d].at \in {"idle", "raised"}
        BY <1>4, <2>1, <2>2, <3>1 DEF AgreedOn
      <3>3. n # 0
        BY <3>1 DEF Owned
      <3>4. QED
        BY <3>2, <3>3
    <2>3. CASE store[r][k] # 0
      BY <1>2, <1>4, <2>1, <2>3 DEF AgreedOn
    <2>4. QED
      BY <2>2, <2>3
  <1>5. QED
    BY <1>1, <1>2, <1>3, <1>4, StoringStep DEF UnderWay

LEMMA DropInv ==
  ASSUME MInv, NEW r \in Runs, NEW c \in Calls, Drop(r, c)
  PROVE  MInv'
  <1> DEFINE k == call[r][c].key
  <1> USE DEF MInv
  <1>1. k \in Keys /\ 0 \in Stamps /\ Of(r, 0) /\ "keyerror" \in Place
    BY MemoAssumption DEF TypeOK, Stamps, Place, Of
  <1>2. /\ life[r] = "up" /\ Put(r, k, 0) /\ Becomes(r, c, "keyerror", k, 0)
        /\ UNCHANGED <<runVars, clearVars, owner, old>>
    BY DEF Drop, CallOf
  <1>3. /\ forgotten' \in SUBSET (Runs \X Keys) /\ forgotten \subseteq forgotten'
        /\ <<r, k>> \in forgotten'
    BY <1>1 DEF Drop, CallOf, Forget, TypeOK
  <1>4. QED
    BY <1>1, <1>2, <1>3, StoringStep DEF UnderWay

LEMMA RaisesInv ==
  ASSUME MInv, NEW r \in Runs, NEW c \in Calls, Raises(r, c)
  PROVE  MInv'
  <1> DEFINE k == call[r][c].key
  <1> USE DEF MInv
  <1>1. k \in Keys /\ 0 \in Stamps /\ Of(r, 0) /\ "raised" \in Place
    BY MemoAssumption DEF TypeOK, Stamps, Place, Of
  <1>2. /\ life[r] = "up" /\ Becomes(r, c, "raised", k, 0)
        /\ UNCHANGED <<runVars, clearVars, store, owner, old, forgotten>>
    BY DEF Raises, CallOf
  <1>3. QED
    BY <1>1, <1>2, QuietStep DEF UnderWay

LEMMA ExpireInv ==
  ASSUME MInv, NEW n \in 1 .. MaxComputed, Expire(n)
  PROVE  MInv'
  <1> USE DEF MInv, Expire
  <1>1. old' \in SUBSET Stamps
    BY MemoAssumption DEF TypeOK, Stamps
  <1>2. TypeOK' /\ Failures'
    BY <1>1 DEF TypeOK, Failures, runVars, clearVars
  <1>3. (Owned /\ Agreed /\ SyncRaisesHaveCause /\ ClearHolds /\ CarriedByCalls /\ Cuts)'
    BY DEF clearVars, Owned, Of, Agreed, AgreedOn, SyncRaisesHaveCause, CallOf, ClearHolds,
           CarriedByCalls, Cuts
  <1>4. QED
    BY <1>2, <1>3

LEMMA MNextInv == MInv /\ [Next]_vars => MInv'
  <1> SUFFICES ASSUME MInv, [Next]_vars PROVE MInv'
    OBVIOUS
  <1>1. ASSUME NEW r \in Runs, Start(r) \/ Load(r) \/ Exit(r) \/ Save(r) \/ Kill(r) \/ Clear(r)
        PROVE  MInv'
    BY <1>1, StartInv, ExitInv, EndInv, ClearInv
  <1>2. ASSUME NEW r \in Runs, NEW c \in Calls, CallStep(r, c) PROVE MInv'
    BY <1>2, CallInv, ReadInv, StoreInv, DropInv, RaisesInv DEF CallStep, Keys
  <1>3. CASE UNCHANGED vars
    <2>1. UNCHANGED <<callVars, clearVars>> /\ UNCHANGED runVars
      BY <1>3 DEF vars
    <2>2. TypeOK' /\ Failures'
      BY <2>1 DEF MInv, TypeOK, Failures, callVars, clearVars, runVars
    <2>3. QED
      BY <2>1, <2>2, CallsUnchanged DEF MInv
  <1>4. QED
    BY <1>1, <1>2, <1>3, ExpireInv DEF Next

LEMMA MInvHolds == Spec => []MInv
  BY MInitInv, MNextInv, PTL DEF Spec

-----------------------------------------------------------------------------
\* The variables keep their types.
THEOREM MemoTyping == Spec => []TypeOK
  <1>1. MInv => TypeOK
    BY DEF MInv
  <1>2. QED
    BY MInvHolds, <1>1, PTL

\* No process ever answers with what another has computed, whatever it has loaded.
THEOREM OwnAnswers == Spec => []AnswersOfThisRun
  <1>1. MInv => AnswersOfThisRun
    BY DEF MInv, Owned, Of, AnswersOfThisRun, CallOf
  <1>2. QED
    BY MInvHolds, <1>1, PTL

\* Two answers for one key differ only where the key was forgotten or computed in parallel.
THEOREM SameAnswer == Spec => []OneAnswer
  <1>1. MInv => OneAnswer
    <2> SUFFICES ASSUME MInv, NEW r \in Runs, NEW c \in Calls, NEW d \in Calls,
                        call[r][c].at = "done", call[r][d].at = "done",
                        call[r][c].key = call[r][d].key,
                        <<r, call[r][c].key>> \notin forgotten
                 PROVE  call[r][c].val = call[r][d].val
      BY DEF OneAnswer, CallOf
    <2>1. call[r][c].key \in Keys
      BY DEF MInv, TypeOK
    <2>2. AgreedOn(r, call[r][c].key)
      BY <2>1 DEF MInv, Agreed
    <2>3. QED
      BY <2>2 DEF AgreedOn
  <1>2. QED
    BY MInvHolds, <1>1, PTL

\* The cache raises on its own account only for a forgotten entry or a TTL that is a string.
THEOREM RaisesForCause == Spec => []SyncRaisesHaveCause
  <1>1. MInv => SyncRaisesHaveCause
    BY DEF MInv
  <1>2. QED
    BY MInvHolds, <1>1, PTL

\* What clear_all has removed stays removed, but for calls under way.
THEOREM Cleared == Spec => []ClearHolds
  <1>1. MInv => ClearHolds
    BY DEF MInv
  <1>2. QED
    BY MInvHolds, <1>1, PTL

\* A failed import repairs the file at its exit: it has nothing to store, so the exit writes an
\* empty dictionary, which can always be written and read.
THEOREM StartRepairs == Spec => FailedStartRepairs
  <1>1. MInv /\ [Next]_vars =>
          [\A r \in failed' :
              life[r] # "gone" /\ life'[r] = "gone" =>
                  file'.state = "whole" \/ r \in mixed \/ (life[r] = "saving" /\ r \notin writers)]_vars
    <2> SUFFICES ASSUME MInv, Next, NEW r \in failed', life[r] # "gone", life'[r] = "gone"
                 PROVE  file'.state = "whole" \/ r \in mixed \/ (life[r] = "saving" /\ r \notin writers)
      OBVIOUS
    <2>0. r \in Runs /\ life \in [Runs -> Life] /\ \A k \in Keys : Nothing[k] = 0
      <3>1. MInv'
        BY MNextInv
      <3>2. QED
        BY <3>1 DEF MInv, TypeOK, Nothing
    <2>1. ASSUME NEW q \in Runs, Start(q) \/ Load(q) \/ Kill(q) \/ Clear(q) PROVE FALSE
      BY <2>0, <2>1 DEF Start, Load, Kill, Clear, Ends, Live
    <2>2. ASSUME NEW q \in Runs, NEW c \in Calls, CallStep(q, c) PROVE FALSE
      <3>1. UNCHANGED runVars
        BY <2>2 DEF CallStep, AsyncCall, SyncCall, Read, Renew, Drop, Result, Raises
      <3>2. QED
        BY <3>1 DEF runVars
    <2>3. ASSUME NEW n \in 1 .. MaxComputed, Expire(n) PROVE FALSE
      BY <2>3 DEF Expire, runVars
    <2>4. ASSUME NEW q \in Runs, Exit(q) PROVE FALSE
      <3>1. failed' = failed /\ r = q /\ life'[q] # "saving"
        BY <2>0, <2>4 DEF Exit, Ends, Live
      <3>2. \E k \in AsyncKeys : store[q][k] # 0
        BY <2>0, <2>4, <3>1 DEF Exit, Live
      <3>3. store[q] = Nothing
        BY <3>1 DEF MInv, Failures
      <3>4. QED
        BY <2>0, <3>2, <3>3 DEF Keys
    <2>5. ASSUME NEW q \in Runs, Save(q)
          PROVE  file'.state = "whole" \/ r \in mixed \/ (life[r] = "saving" /\ r \notin writers)
      <3>1. failed' = failed /\ r = q /\ life[q] = "saving"
        BY <2>0, <2>5 DEF Save, Ends, Live
      <3>2. store[q] = Nothing
        BY <3>1 DEF MInv, Failures
      <3>3. CASE r \in writers /\ r \notin mixed
        <4>1. file' = Whole(store[q])
          BY <2>0, <2>5, <3>1, <3>2, <3>3 DEF Save
        <4>2. QED
          BY <4>1 DEF Whole
      <3>4. QED
        BY <3>1, <3>3
    <2>6. QED
      BY <2>1, <2>2, <2>3, <2>4, <2>5 DEF Next
  <1>2. QED
    BY MInvHolds, <1>1, PTL DEF Spec, FailedStartRepairs

=============================================================================
