--------------------------- MODULE GitPushProofs ---------------------------
(***************************************************************************)
(* Theorems of GitPush, for any works, calls and timeouts.                  *)
(*                                                                         *)
(* Inv: types, and that the lease protects a rebased branch, since from the *)
(* pull of a call on the branch holds all that was fetched and only grows.  *)
(* Recovered, Carried and Unlost follow a call: back to its branch, the     *)
(* tree it was given up to the push, and works between tree and branches.   *)
(***************************************************************************)
EXTENDS GitPush, TLAPS

\* The branches that HEAD, a stopped rebase and recovery go back to are there.
Held ==
    /\ pc # "idle" => local[original] # {}
    /\ onto # "none" => local[onto] # {}
    /\ head = "detached" => onto # "none"

\* What the lease compares with is part of a branch that was rebased.
Leased ==
    /\ integrated /\ pc # "idle" => tracking \subseteq local["target"]
    /\ pc \in {"fetch", "ls", "pull"} => ~integrated
    /\ remote["fresh"] # {} => local["fresh"] # {}
    /\ pc \in {"fresh", "publish"} => remote["fresh"] = {}
    /\ pc = "fresh" => local["fresh"] = {}

Inv == TypeOK /\ Held /\ Leased

\* Where an exception leads, and what it leaves alone.
LEMMA Handling ==
  ASSUME NEW at \in Trying \cup Recovering \cup {"hard", "reset"}
  PROVE  Handler(at) \in {"stash", "checkout", "hard", "reset", "idle"}
  BY DEF Handler, Trying, Recovering

LEMMA InitInv == Init => Inv
  <1> SUFFICES ASSUME Init PROVE Inv
    OBVIOUS
  <1> USE GitPushAssumption DEF Init, LocalNames, OriginNames, Branches, NoBranch, Works
  <1>1. TypeOK
    <2>1. stash \in Seq(SUBSET Works)
      <3>1. <<>> \in Seq(SUBSET Works) /\ <<{Kept}>> \in Seq(SUBSET Works)
        OBVIOUS
      <3>2. stash = <<>> \/ stash = <<{Kept}>>
        OBVIOUS
      <3>3. QED
        BY <3>1, <3>2
    <2>2. head \in LocalNames /\ local[head] # NoBranch
      OBVIOUS
    <2>3. local \in [LocalNames -> SUBSET Works] /\ tracking \in SUBSET Works
      OBVIOUS
    <2>4. remote \in [OriginNames -> SUBSET Works]
      OBVIOUS
    <2>5. unmerged \in BOOLEAN /\ integrated \in BOOLEAN
      OBVIOUS
    <2>6. QED
      BY <2>1, <2>2, <2>3, <2>4, <2>5 DEF TypeOK
  <1>2. Held /\ Leased
    BY DEF Held, Leased
  <1>3. QED
    BY <1>1, <1>2 DEF Inv

-----------------------------------------------------------------------------
(* Every action keeps the invariant: the types, Held, then Leased *)

LEMMA BeginInv == Inv /\ Begin => Inv'
  <1> SUFFICES ASSUME Inv, Begin PROVE Inv'
    OBVIOUS
  <1> USE GitPushAssumption DEF Inv, Begin, NoEffect, repo
  <1>1. TypeOK'
    BY DEF TypeOK, Trying, Recovering, LocalNames, OriginNames, Branches, NoBranch, Works, Held
  <1>2. Held'
    BY DEF TypeOK, Trying, Recovering, LocalNames, OriginNames, Branches, NoBranch, Works, Held
  <1>3. Leased'
    BY DEF TypeOK, Trying, Recovering, LocalNames, OriginNames, Branches, NoBranch, Works, Leased
  <1>4. QED
    BY <1>1, <1>2, <1>3

LEMMA FetchInv == Inv /\ Fetch => Inv'
  <1> SUFFICES ASSUME Inv, Fetch PROVE Inv'
    OBVIOUS
  <1> USE GitPushAssumption DEF Inv, Fetch, Ends, Killed, Raises, NoEffect, repo, Steady
  <1>0. Handler(pc) \in {"stash", "checkout", "hard", "reset", "idle"}
    BY Handling DEF Fetch, Trying, Recovering
  <1>1. TypeOK'
    BY <1>0 DEF TypeOK, Trying, Recovering, LocalNames, OriginNames, Branches, NoBranch, Works, Held
  <1>2. Held'
    BY <1>0 DEF TypeOK, Trying, Recovering, LocalNames, OriginNames, Branches, NoBranch, Works, Held
  <1>3. Leased'
    BY <1>0 DEF TypeOK, Trying, Recovering, LocalNames, OriginNames, Branches, NoBranch, Works, Leased
  <1>4. QED
    BY <1>1, <1>2, <1>3

LEMMA LsRemoteInv == Inv /\ LsRemote => Inv'
  <1> SUFFICES ASSUME Inv, LsRemote PROVE Inv'
    OBVIOUS
  <1> USE GitPushAssumption DEF Inv, LsRemote, Ends, Killed, Raises, NoEffect, repo, Steady
  <1>0. Handler(pc) \in {"stash", "checkout", "hard", "reset", "idle"}
    BY Handling DEF LsRemote, Trying, Recovering
  <1>1. TypeOK'
    BY <1>0 DEF TypeOK, Trying, Recovering, LocalNames, OriginNames, Branches, NoBranch, Works, Held
  <1>2. Held'
    BY <1>0 DEF TypeOK, Trying, Recovering, LocalNames, OriginNames, Branches, NoBranch, Works, Held
  <1>3. Leased'
    BY <1>0 DEF TypeOK, Trying, Recovering, LocalNames, OriginNames, Branches, NoBranch, Works, Leased
  <1>4. QED
    BY <1>1, <1>2, <1>3

LEMMA PullInv == Inv /\ Pull => Inv'
  <1> SUFFICES ASSUME Inv, Pull PROVE Inv'
    OBVIOUS
  <1> USE GitPushAssumption DEF Inv, Pull, MayRebase, Rebase, Conflict, Ends, Killed, Raises, NoEffect, repo
  <1>0. Handler(pc) \in {"stash", "checkout", "hard", "reset", "idle"}
    BY Handling DEF Pull, Trying, Recovering
  <1>1. TypeOK'
    <2>1. (pc \in {"idle", "hard", "reset"} \cup Trying \cup Recovering)'
      BY <1>0 DEF TypeOK, Trying, Recovering, LocalNames, OriginNames, Branches, NoBranch, Works, Held
    <2>2. (head \in LocalNames /\ local[head] # NoBranch)'
      BY <1>0 DEF TypeOK, Trying, Recovering, LocalNames, OriginNames, Branches, NoBranch, Works, Held
    <2>3. (onto \in Branches \cup {"none"} /\ (pc # "idle" => original \in LocalNames))'
      BY <1>0 DEF TypeOK, Trying, Recovering, LocalNames, OriginNames, Branches, NoBranch, Works, Held
    <2>4. (local \in [LocalNames -> SUBSET Works] /\ remote \in [OriginNames -> SUBSET Works])'
      BY <1>0 DEF TypeOK, Trying, Recovering, LocalNames, OriginNames, Branches, NoBranch, Works, Held
    <2>5. (tracking \in SUBSET Works)'
      BY <1>0 DEF TypeOK, Trying, Recovering, LocalNames, OriginNames, Branches, NoBranch, Works, Held
    <2>6. (tree \in SUBSET Works)'
      BY <1>0 DEF TypeOK, Trying, Recovering, LocalNames, OriginNames, Branches, NoBranch, Works, Held
    <2>7. (staged \in SUBSET tree)'
      BY <1>0 DEF TypeOK, Trying, Recovering, LocalNames, OriginNames, Branches, NoBranch, Works, Held
    <2>8. (stash \in Seq(SUBSET Works))'
      BY <1>0 DEF TypeOK, Trying, Recovering, LocalNames, OriginNames, Branches, NoBranch, Works, Held
    <2>9. (unmerged \in BOOLEAN)'
      BY <1>0 DEF TypeOK, Trying, Recovering, LocalNames, OriginNames, Branches, NoBranch, Works, Held
    <2>10. (integrated \in BOOLEAN)'
      BY <1>0 DEF TypeOK, Trying, Recovering, LocalNames, OriginNames, Branches, NoBranch, Works, Held
    <2>11. (timeouts \in 0..MaxTimeouts)'
      BY <1>0 DEF TypeOK, Trying, Recovering, LocalNames, OriginNames, Branches, NoBranch, Works, Held
    <2>12. QED
      BY <2>1, <2>2, <2>3, <2>4, <2>5, <2>6, <2>7, <2>8, <2>9, <2>10, <2>11 DEF TypeOK
  <1>2. Held'
    BY <1>0 DEF TypeOK, Trying, Recovering, LocalNames, OriginNames, Branches, NoBranch, Works, Held
  <1>3. Leased'
    BY <1>0 DEF TypeOK, Trying, Recovering, LocalNames, OriginNames, Branches, NoBranch, Works, Leased
  <1>4. QED
    BY <1>1, <1>2, <1>3

LEMMA CreateInv == Inv /\ Create => Inv'
  <1> SUFFICES ASSUME Inv, Create PROVE Inv'
    OBVIOUS
  <1> USE GitPushAssumption DEF Inv, Create, SwitchToNew, Ends, Killed, Raises, NoEffect, repo, Steady
  <1>0. Handler(pc) \in {"stash", "checkout", "hard", "reset", "idle"}
    BY Handling DEF Create, Trying, Recovering
  <1>1. TypeOK'
    BY <1>0 DEF TypeOK, Trying, Recovering, LocalNames, OriginNames, Branches, NoBranch, Works, Held
  <1>2. Held'
    BY <1>0 DEF TypeOK, Trying, Recovering, LocalNames, OriginNames, Branches, NoBranch, Works, Held
  <1>3. Leased'
    BY <1>0 DEF TypeOK, Trying, Recovering, LocalNames, OriginNames, Branches, NoBranch, Works, Leased
  <1>4. QED
    BY <1>1, <1>2, <1>3

LEMMA AddInv == Inv /\ Add => Inv'
  <1> SUFFICES ASSUME Inv, Add PROVE Inv'
    OBVIOUS
  <1> USE GitPushAssumption DEF Inv, Add, Ends, Killed, Raises, NoEffect, repo, Steady
  <1>0. Handler(pc) \in {"stash", "checkout", "hard", "reset", "idle"}
    BY Handling DEF Add, Trying, Recovering
  <1>1. TypeOK'
    <2>1. (pc \in {"idle", "hard", "reset"} \cup Trying \cup Recovering)'
      BY <1>0 DEF TypeOK, Trying, Recovering, LocalNames, OriginNames, Branches, NoBranch, Works, Held
    <2>2. (head \in LocalNames /\ local[head] # NoBranch)'
      BY <1>0 DEF TypeOK, Trying, Recovering, LocalNames, OriginNames, Branches, NoBranch, Works, Held
    <2>3. (onto \in Branches \cup {"none"} /\ (pc # "idle" => original \in LocalNames))'
      BY <1>0 DEF TypeOK, Trying, Recovering, LocalNames, OriginNames, Branches, NoBranch, Works, Held
    <2>4. (local \in [LocalNames -> SUBSET Works] /\ remote \in [OriginNames -> SUBSET Works])'
      BY <1>0 DEF TypeOK, Trying, Recovering, LocalNames, OriginNames, Branches, NoBranch, Works, Held
    <2>5. (tracking \in SUBSET Works)'
      BY <1>0 DEF TypeOK, Trying, Recovering, LocalNames, OriginNames, Branches, NoBranch, Works, Held
    <2>6. (tree \in SUBSET Works)'
      BY <1>0 DEF TypeOK, Trying, Recovering, LocalNames, OriginNames, Branches, NoBranch, Works, Held
    <2>7. (staged \in SUBSET tree)'
      BY <1>0 DEF TypeOK, Trying, Recovering, LocalNames, OriginNames, Branches, NoBranch, Works, Held
    <2>8. (stash \in Seq(SUBSET Works))'
      BY <1>0 DEF TypeOK, Trying, Recovering, LocalNames, OriginNames, Branches, NoBranch, Works, Held
    <2>9. (unmerged \in BOOLEAN)'
      BY <1>0 DEF TypeOK, Trying, Recovering, LocalNames, OriginNames, Branches, NoBranch, Works, Held
    <2>10. (integrated \in BOOLEAN)'
      BY <1>0 DEF TypeOK, Trying, Recovering, LocalNames, OriginNames, Branches, NoBranch, Works, Held
    <2>11. (timeouts \in 0..MaxTimeouts)'
      BY <1>0 DEF TypeOK, Trying, Recovering, LocalNames, OriginNames, Branches, NoBranch, Works, Held
    <2>12. QED
      BY <2>1, <2>2, <2>3, <2>4, <2>5, <2>6, <2>7, <2>8, <2>9, <2>10, <2>11 DEF TypeOK
  <1>2. Held'
    BY <1>0 DEF TypeOK, Trying, Recovering, LocalNames, OriginNames, Branches, NoBranch, Works, Held
  <1>3. Leased'
    BY <1>0 DEF TypeOK, Trying, Recovering, LocalNames, OriginNames, Branches, NoBranch, Works, Leased
  <1>4. QED
    BY <1>1, <1>2, <1>3

LEMMA CommitInv == Inv /\ Commit => Inv'
  <1> SUFFICES ASSUME Inv, Commit PROVE Inv'
    OBVIOUS
  <1> USE GitPushAssumption DEF Inv, Commit, CommitStaged, Ends, Killed, Raises, NoEffect, repo, Steady
  <1>0. Handler(pc) \in {"stash", "checkout", "hard", "reset", "idle"}
    BY Handling DEF Commit, Trying, Recovering
  <1>1. TypeOK'
    <2>1. (pc \in {"idle", "hard", "reset"} \cup Trying \cup Recovering)'
      BY <1>0 DEF TypeOK, Trying, Recovering, LocalNames, OriginNames, Branches, NoBranch, Works, Held
    <2>2. (head \in LocalNames /\ local[head] # NoBranch)'
      BY <1>0 DEF TypeOK, Trying, Recovering, LocalNames, OriginNames, Branches, NoBranch, Works, Held
    <2>3. (onto \in Branches \cup {"none"} /\ (pc # "idle" => original \in LocalNames))'
      BY <1>0 DEF TypeOK, Trying, Recovering, LocalNames, OriginNames, Branches, NoBranch, Works, Held
    <2>4. (local \in [LocalNames -> SUBSET Works] /\ remote \in [OriginNames -> SUBSET Works])'
      BY <1>0 DEF TypeOK, Trying, Recovering, LocalNames, OriginNames, Branches, NoBranch, Works, Held
    <2>5. (tracking \in SUBSET Works)'
      BY <1>0 DEF TypeOK, Trying, Recovering, LocalNames, OriginNames, Branches, NoBranch, Works, Held
    <2>6. (tree \in SUBSET Works)'
      BY <1>0 DEF TypeOK, Trying, Recovering, LocalNames, OriginNames, Branches, NoBranch, Works, Held
    <2>7. (staged \in SUBSET tree)'
      BY <1>0 DEF TypeOK, Trying, Recovering, LocalNames, OriginNames, Branches, NoBranch, Works, Held
    <2>8. (stash \in Seq(SUBSET Works))'
      BY <1>0 DEF TypeOK, Trying, Recovering, LocalNames, OriginNames, Branches, NoBranch, Works, Held
    <2>9. (unmerged \in BOOLEAN)'
      BY <1>0 DEF TypeOK, Trying, Recovering, LocalNames, OriginNames, Branches, NoBranch, Works, Held
    <2>10. (integrated \in BOOLEAN)'
      BY <1>0 DEF TypeOK, Trying, Recovering, LocalNames, OriginNames, Branches, NoBranch, Works, Held
    <2>11. (timeouts \in 0..MaxTimeouts)'
      BY <1>0 DEF TypeOK, Trying, Recovering, LocalNames, OriginNames, Branches, NoBranch, Works, Held
    <2>12. QED
      BY <2>1, <2>2, <2>3, <2>4, <2>5, <2>6, <2>7, <2>8, <2>9, <2>10, <2>11 DEF TypeOK
  <1>2. Held'
    BY <1>0 DEF TypeOK, Trying, Recovering, LocalNames, OriginNames, Branches, NoBranch, Works, Held
  <1>3. Leased'
    BY <1>0 DEF TypeOK, Trying, Recovering, LocalNames, OriginNames, Branches, NoBranch, Works, Leased
  <1>4. QED
    BY <1>1, <1>2, <1>3

LEMMA AmendInv == Inv /\ Amend => Inv'
  <1> SUFFICES ASSUME Inv, Amend PROVE Inv'
    OBVIOUS
  <1> USE GitPushAssumption DEF Inv, Amend, CommitStaged, Ends, Killed, Raises, NoEffect, repo, Steady
  <1>0. Handler(pc) \in {"stash", "checkout", "hard", "reset", "idle"}
    BY Handling DEF Amend, Trying, Recovering
  <1>1. TypeOK'
    <2>1. (pc \in {"idle", "hard", "reset"} \cup Trying \cup Recovering)'
      BY <1>0 DEF TypeOK, Trying, Recovering, LocalNames, OriginNames, Branches, NoBranch, Works, Held
    <2>2. (head \in LocalNames /\ local[head] # NoBranch)'
      BY <1>0 DEF TypeOK, Trying, Recovering, LocalNames, OriginNames, Branches, NoBranch, Works, Held
    <2>3. (onto \in Branches \cup {"none"} /\ (pc # "idle" => original \in LocalNames))'
      BY <1>0 DEF TypeOK, Trying, Recovering, LocalNames, OriginNames, Branches, NoBranch, Works, Held
    <2>4. (local \in [LocalNames -> SUBSET Works] /\ remote \in [OriginNames -> SUBSET Works])'
      BY <1>0 DEF TypeOK, Trying, Recovering, LocalNames, OriginNames, Branches, NoBranch, Works, Held
    <2>5. (tracking \in SUBSET Works)'
      BY <1>0 DEF TypeOK, Trying, Recovering, LocalNames, OriginNames, Branches, NoBranch, Works, Held
    <2>6. (tree \in SUBSET Works)'
      BY <1>0 DEF TypeOK, Trying, Recovering, LocalNames, OriginNames, Branches, NoBranch, Works, Held
    <2>7. (staged \in SUBSET tree)'
      BY <1>0 DEF TypeOK, Trying, Recovering, LocalNames, OriginNames, Branches, NoBranch, Works, Held
    <2>8. (stash \in Seq(SUBSET Works))'
      BY <1>0 DEF TypeOK, Trying, Recovering, LocalNames, OriginNames, Branches, NoBranch, Works, Held
    <2>9. (unmerged \in BOOLEAN)'
      BY <1>0 DEF TypeOK, Trying, Recovering, LocalNames, OriginNames, Branches, NoBranch, Works, Held
    <2>10. (integrated \in BOOLEAN)'
      BY <1>0 DEF TypeOK, Trying, Recovering, LocalNames, OriginNames, Branches, NoBranch, Works, Held
    <2>11. (timeouts \in 0..MaxTimeouts)'
      BY <1>0 DEF TypeOK, Trying, Recovering, LocalNames, OriginNames, Branches, NoBranch, Works, Held
    <2>12. QED
      BY <2>1, <2>2, <2>3, <2>4, <2>5, <2>6, <2>7, <2>8, <2>9, <2>10, <2>11 DEF TypeOK
  <1>2. Held'
    BY <1>0 DEF TypeOK, Trying, Recovering, LocalNames, OriginNames, Branches, NoBranch, Works, Held
  <1>3. Leased'
    BY <1>0 DEF TypeOK, Trying, Recovering, LocalNames, OriginNames, Branches, NoBranch, Works, Leased
  <1>4. QED
    BY <1>1, <1>2, <1>3

LEMMA PushTargetInv == Inv /\ PushTarget => Inv'
  <1> SUFFICES ASSUME Inv, PushTarget PROVE Inv'
    OBVIOUS
  <1> USE GitPushAssumption DEF Inv, PushTarget, Lease, Overwrite, NoEffect, repo
  <1>1. TypeOK'
    BY DEF TypeOK, Trying, Recovering, LocalNames, OriginNames, Branches, NoBranch, Works, Held
  <1>2. Held'
    BY DEF TypeOK, Trying, Recovering, LocalNames, OriginNames, Branches, NoBranch, Works, Held
  <1>3. Leased'
    BY DEF TypeOK, Trying, Recovering, LocalNames, OriginNames, Branches, NoBranch, Works, Leased
  <1>4. QED
    BY <1>1, <1>2, <1>3

LEMMA PushFailsInv == Inv /\ PushFails => Inv'
  <1> SUFFICES ASSUME Inv, PushFails PROVE Inv'
    OBVIOUS
  <1> USE GitPushAssumption DEF Inv, PushFails, Lease, Overwrite, Raises, NoEffect, repo
  <1>1. TypeOK'
    BY DEF TypeOK, Trying, Recovering, LocalNames, OriginNames, Branches, NoBranch, Works, Held
  <1>2. Held'
    BY DEF TypeOK, Trying, Recovering, LocalNames, OriginNames, Branches, NoBranch, Works, Held
  <1>3. Leased'
    BY DEF TypeOK, Trying, Recovering, LocalNames, OriginNames, Branches, NoBranch, Works, Leased
  <1>4. QED
    BY <1>1, <1>2, <1>3

LEMMA PushRefusedInv == Inv /\ PushRefused => Inv'
  <1> SUFFICES ASSUME Inv, PushRefused PROVE Inv'
    OBVIOUS
  <1> USE GitPushAssumption DEF Inv, PushRefused, NoEffect, repo, Steady
  <1>1. TypeOK'
    BY DEF TypeOK, Trying, Recovering, LocalNames, OriginNames, Branches, NoBranch, Works, Held
  <1>2. Held'
    BY DEF TypeOK, Trying, Recovering, LocalNames, OriginNames, Branches, NoBranch, Works, Held
  <1>3. Leased'
    BY DEF TypeOK, Trying, Recovering, LocalNames, OriginNames, Branches, NoBranch, Works, Leased
  <1>4. QED
    BY <1>1, <1>2, <1>3

LEMMA FreshInv == Inv /\ Fresh => Inv'
  <1> SUFFICES ASSUME Inv, Fresh PROVE Inv'
    OBVIOUS
  <1> USE GitPushAssumption DEF Inv, Fresh, SwitchToNew, Ends, Killed, Raises, NoEffect, repo, Steady
  <1>0. Handler(pc) \in {"stash", "checkout", "hard", "reset", "idle"}
    BY Handling DEF Fresh, Trying, Recovering
  <1>1. TypeOK'
    BY <1>0 DEF TypeOK, Trying, Recovering, LocalNames, OriginNames, Branches, NoBranch, Works, Held
  <1>2. Held'
    BY <1>0 DEF TypeOK, Trying, Recovering, LocalNames, OriginNames, Branches, NoBranch, Works, Held
  <1>3. Leased'
    BY <1>0 DEF TypeOK, Trying, Recovering, LocalNames, OriginNames, Branches, NoBranch, Works, Leased
  <1>4. QED
    BY <1>1, <1>2, <1>3

LEMMA PublishInv == Inv /\ Publish => Inv'
  <1> SUFFICES ASSUME Inv, Publish PROVE Inv'
    OBVIOUS
  <1> USE GitPushAssumption DEF Inv, Publish, Raises, NoEffect, repo
  <1>1. TypeOK'
    BY DEF TypeOK, Trying, Recovering, LocalNames, OriginNames, Branches, NoBranch, Works, Held
  <1>2. Held'
    BY DEF TypeOK, Trying, Recovering, LocalNames, OriginNames, Branches, NoBranch, Works, Held
  <1>3. Leased'
    BY DEF TypeOK, Trying, Recovering, LocalNames, OriginNames, Branches, NoBranch, Works, Leased
  <1>4. QED
    BY <1>1, <1>2, <1>3

LEMMA ResetInv == Inv /\ Reset => Inv'
  <1> SUFFICES ASSUME Inv, Reset PROVE Inv'
    OBVIOUS
  <1> USE GitPushAssumption DEF Inv, Reset, CleanTree, Ends, Killed, Raises, NoEffect, repo, Steady
  <1>0. Handler(pc) \in {"stash", "checkout", "hard", "reset", "idle"}
    BY Handling DEF Reset, Trying, Recovering
  <1>1. TypeOK'
    <2>1. (pc \in {"idle", "hard", "reset"} \cup Trying \cup Recovering)'
      BY <1>0 DEF TypeOK, Trying, Recovering, LocalNames, OriginNames, Branches, NoBranch, Works, Held
    <2>2. (head \in LocalNames /\ local[head] # NoBranch)'
      BY <1>0 DEF TypeOK, Trying, Recovering, LocalNames, OriginNames, Branches, NoBranch, Works, Held
    <2>3. (onto \in Branches \cup {"none"} /\ (pc # "idle" => original \in LocalNames))'
      BY <1>0 DEF TypeOK, Trying, Recovering, LocalNames, OriginNames, Branches, NoBranch, Works, Held
    <2>4. (local \in [LocalNames -> SUBSET Works] /\ remote \in [OriginNames -> SUBSET Works])'
      BY <1>0 DEF TypeOK, Trying, Recovering, LocalNames, OriginNames, Branches, NoBranch, Works, Held
    <2>5. (tracking \in SUBSET Works)'
      BY <1>0 DEF TypeOK, Trying, Recovering, LocalNames, OriginNames, Branches, NoBranch, Works, Held
    <2>6. (tree \in SUBSET Works)'
      BY <1>0 DEF TypeOK, Trying, Recovering, LocalNames, OriginNames, Branches, NoBranch, Works, Held
    <2>7. (staged \in SUBSET tree)'
      BY <1>0 DEF TypeOK, Trying, Recovering, LocalNames, OriginNames, Branches, NoBranch, Works, Held
    <2>8. (stash \in Seq(SUBSET Works))'
      BY <1>0 DEF TypeOK, Trying, Recovering, LocalNames, OriginNames, Branches, NoBranch, Works, Held
    <2>9. (unmerged \in BOOLEAN)'
      BY <1>0 DEF TypeOK, Trying, Recovering, LocalNames, OriginNames, Branches, NoBranch, Works, Held
    <2>10. (integrated \in BOOLEAN)'
      BY <1>0 DEF TypeOK, Trying, Recovering, LocalNames, OriginNames, Branches, NoBranch, Works, Held
    <2>11. (timeouts \in 0..MaxTimeouts)'
      BY <1>0 DEF TypeOK, Trying, Recovering, LocalNames, OriginNames, Branches, NoBranch, Works, Held
    <2>12. QED
      BY <2>1, <2>2, <2>3, <2>4, <2>5, <2>6, <2>7, <2>8, <2>9, <2>10, <2>11 DEF TypeOK
  <1>2. Held'
    BY <1>0 DEF TypeOK, Trying, Recovering, LocalNames, OriginNames, Branches, NoBranch, Works, Held
  <1>3. Leased'
    BY <1>0 DEF TypeOK, Trying, Recovering, LocalNames, OriginNames, Branches, NoBranch, Works, Leased
  <1>4. QED
    BY <1>1, <1>2, <1>3

LEMMA StashInv == Inv /\ Stash => Inv'
  <1> SUFFICES ASSUME Inv, Stash PROVE Inv'
    OBVIOUS
  <1> USE GitPushAssumption DEF Inv, Stash, Ends, Killed, Raises, NoEffect, repo, Steady
  <1>0. Handler(pc) \in {"stash", "checkout", "hard", "reset", "idle"}
    BY Handling DEF Stash, Trying, Recovering
  <1>1. TypeOK'
    <2>1. (pc \in {"idle", "hard", "reset"} \cup Trying \cup Recovering)'
      BY <1>0 DEF TypeOK, Trying, Recovering, LocalNames, OriginNames, Branches, NoBranch, Works, Held
    <2>2. (head \in LocalNames /\ local[head] # NoBranch)'
      BY <1>0 DEF TypeOK, Trying, Recovering, LocalNames, OriginNames, Branches, NoBranch, Works, Held
    <2>3. (onto \in Branches \cup {"none"} /\ (pc # "idle" => original \in LocalNames))'
      BY <1>0 DEF TypeOK, Trying, Recovering, LocalNames, OriginNames, Branches, NoBranch, Works, Held
    <2>4. (local \in [LocalNames -> SUBSET Works] /\ remote \in [OriginNames -> SUBSET Works])'
      BY <1>0 DEF TypeOK, Trying, Recovering, LocalNames, OriginNames, Branches, NoBranch, Works, Held
    <2>5. (tracking \in SUBSET Works)'
      BY <1>0 DEF TypeOK, Trying, Recovering, LocalNames, OriginNames, Branches, NoBranch, Works, Held
    <2>6. (tree \in SUBSET Works)'
      BY <1>0 DEF TypeOK, Trying, Recovering, LocalNames, OriginNames, Branches, NoBranch, Works, Held
    <2>7. (staged \in SUBSET tree)'
      BY <1>0 DEF TypeOK, Trying, Recovering, LocalNames, OriginNames, Branches, NoBranch, Works, Held
    <2>8. (stash \in Seq(SUBSET Works))'
      <3>1. stash' = stash \/ stash' = <<tree>> \o stash
        OBVIOUS
      <3>2. stash \in Seq(SUBSET Works) /\ <<tree>> \in Seq(SUBSET Works)
        BY DEF TypeOK
      <3> HIDE DEF Inv, Stash, Ends, Killed, Raises, NoEffect, repo, Steady
      <3>3. <<tree>> \o stash \in Seq(SUBSET Works)
        BY <3>2
      <3>4. QED
        BY <3>1, <3>2, <3>3
    <2>9. (unmerged \in BOOLEAN)'
      BY <1>0 DEF TypeOK, Trying, Recovering, LocalNames, OriginNames, Branches, NoBranch, Works, Held
    <2>10. (integrated \in BOOLEAN)'
      BY <1>0 DEF TypeOK, Trying, Recovering, LocalNames, OriginNames, Branches, NoBranch, Works, Held
    <2>11. (timeouts \in 0..MaxTimeouts)'
      BY <1>0 DEF TypeOK, Trying, Recovering, LocalNames, OriginNames, Branches, NoBranch, Works, Held
    <2>12. QED
      BY <2>1, <2>2, <2>3, <2>4, <2>5, <2>6, <2>7, <2>8, <2>9, <2>10, <2>11 DEF TypeOK
  <1>2. Held'
    BY <1>0 DEF TypeOK, Trying, Recovering, LocalNames, OriginNames, Branches, NoBranch, Works, Held
  <1>3. Leased'
    BY <1>0 DEF TypeOK, Trying, Recovering, LocalNames, OriginNames, Branches, NoBranch, Works, Leased
  <1>4. QED
    BY <1>1, <1>2, <1>3

LEMMA AbortInv == Inv /\ Abort => Inv'
  <1> SUFFICES ASSUME Inv, Abort PROVE Inv'
    OBVIOUS
  <1> USE GitPushAssumption DEF Inv, Abort, CleanTree, Ends, Killed, Raises, NoEffect, repo, Steady
  <1>0. Handler(pc) \in {"stash", "checkout", "hard", "reset", "idle"}
    BY Handling DEF Abort, Trying, Recovering
  <1>1. TypeOK'
    <2>1. (pc \in {"idle", "hard", "reset"} \cup Trying \cup Recovering)'
      BY <1>0 DEF TypeOK, Trying, Recovering, LocalNames, OriginNames, Branches, NoBranch, Works, Held
    <2>2. (head \in LocalNames /\ local[head] # NoBranch)'
      BY <1>0 DEF TypeOK, Trying, Recovering, LocalNames, OriginNames, Branches, NoBranch, Works, Held
    <2>3. (onto \in Branches \cup {"none"} /\ (pc # "idle" => original \in LocalNames))'
      BY <1>0 DEF TypeOK, Trying, Recovering, LocalNames, OriginNames, Branches, NoBranch, Works, Held
    <2>4. (local \in [LocalNames -> SUBSET Works] /\ remote \in [OriginNames -> SUBSET Works])'
      BY <1>0 DEF TypeOK, Trying, Recovering, LocalNames, OriginNames, Branches, NoBranch, Works, Held
    <2>5. (tracking \in SUBSET Works)'
      BY <1>0 DEF TypeOK, Trying, Recovering, LocalNames, OriginNames, Branches, NoBranch, Works, Held
    <2>6. (tree \in SUBSET Works)'
      BY <1>0 DEF TypeOK, Trying, Recovering, LocalNames, OriginNames, Branches, NoBranch, Works, Held
    <2>7. (staged \in SUBSET tree)'
      BY <1>0 DEF TypeOK, Trying, Recovering, LocalNames, OriginNames, Branches, NoBranch, Works, Held
    <2>8. (stash \in Seq(SUBSET Works))'
      BY <1>0 DEF TypeOK, Trying, Recovering, LocalNames, OriginNames, Branches, NoBranch, Works, Held
    <2>9. (unmerged \in BOOLEAN)'
      BY <1>0 DEF TypeOK, Trying, Recovering, LocalNames, OriginNames, Branches, NoBranch, Works, Held
    <2>10. (integrated \in BOOLEAN)'
      BY <1>0 DEF TypeOK, Trying, Recovering, LocalNames, OriginNames, Branches, NoBranch, Works, Held
    <2>11. (timeouts \in 0..MaxTimeouts)'
      BY <1>0 DEF TypeOK, Trying, Recovering, LocalNames, OriginNames, Branches, NoBranch, Works, Held
    <2>12. QED
      BY <2>1, <2>2, <2>3, <2>4, <2>5, <2>6, <2>7, <2>8, <2>9, <2>10, <2>11 DEF TypeOK
  <1>2. Held'
    BY <1>0 DEF TypeOK, Trying, Recovering, LocalNames, OriginNames, Branches, NoBranch, Works, Held
  <1>3. Leased'
    BY <1>0 DEF TypeOK, Trying, Recovering, LocalNames, OriginNames, Branches, NoBranch, Works, Leased
  <1>4. QED
    BY <1>1, <1>2, <1>3

LEMMA CheckoutInv == Inv /\ Checkout => Inv'
  <1> SUFFICES ASSUME Inv, Checkout PROVE Inv'
    OBVIOUS
  <1> USE GitPushAssumption DEF Inv, Checkout, CheckoutOriginal, CleanTree, Ends, Killed, Raises, NoEffect, repo, Steady
  <1>0. Handler(pc) \in {"stash", "checkout", "hard", "reset", "idle"}
    BY Handling DEF Checkout, Trying, Recovering
  <1>1. TypeOK'
    <2>1. (pc \in {"idle", "hard", "reset"} \cup Trying \cup Recovering)'
      BY <1>0 DEF TypeOK, Trying, Recovering, LocalNames, OriginNames, Branches, NoBranch, Works, Held
    <2>2. (head \in LocalNames /\ local[head] # NoBranch)'
      BY <1>0 DEF TypeOK, Trying, Recovering, LocalNames, OriginNames, Branches, NoBranch, Works, Held
    <2>3. (onto \in Branches \cup {"none"} /\ (pc # "idle" => original \in LocalNames))'
      BY <1>0 DEF TypeOK, Trying, Recovering, LocalNames, OriginNames, Branches, NoBranch, Works, Held
    <2>4. (local \in [LocalNames -> SUBSET Works] /\ remote \in [OriginNames -> SUBSET Works])'
      BY <1>0 DEF TypeOK, Trying, Recovering, LocalNames, OriginNames, Branches, NoBranch, Works, Held
    <2>5. (tracking \in SUBSET Works)'
      BY <1>0 DEF TypeOK, Trying, Recovering, LocalNames, OriginNames, Branches, NoBranch, Works, Held
    <2>6. (tree \in SUBSET Works)'
      BY <1>0 DEF TypeOK, Trying, Recovering, LocalNames, OriginNames, Branches, NoBranch, Works, Held
    <2>7. (staged \in SUBSET tree)'
      BY <1>0 DEF TypeOK, Trying, Recovering, LocalNames, OriginNames, Branches, NoBranch, Works, Held
    <2>8. (stash \in Seq(SUBSET Works))'
      BY <1>0 DEF TypeOK, Trying, Recovering, LocalNames, OriginNames, Branches, NoBranch, Works, Held
    <2>9. (unmerged \in BOOLEAN)'
      BY <1>0 DEF TypeOK, Trying, Recovering, LocalNames, OriginNames, Branches, NoBranch, Works, Held
    <2>10. (integrated \in BOOLEAN)'
      BY <1>0 DEF TypeOK, Trying, Recovering, LocalNames, OriginNames, Branches, NoBranch, Works, Held
    <2>11. (timeouts \in 0..MaxTimeouts)'
      BY <1>0 DEF TypeOK, Trying, Recovering, LocalNames, OriginNames, Branches, NoBranch, Works, Held
    <2>12. QED
      BY <2>1, <2>2, <2>3, <2>4, <2>5, <2>6, <2>7, <2>8, <2>9, <2>10, <2>11 DEF TypeOK
  <1>2. Held'
    BY <1>0 DEF TypeOK, Trying, Recovering, LocalNames, OriginNames, Branches, NoBranch, Works, Held
  <1>3. Leased'
    BY <1>0 DEF TypeOK, Trying, Recovering, LocalNames, OriginNames, Branches, NoBranch, Works, Leased
  <1>4. QED
    BY <1>1, <1>2, <1>3

LEMMA PopInv == Inv /\ Pop => Inv'
  <1> SUFFICES ASSUME Inv, Pop PROVE Inv'
    OBVIOUS
  <1> USE DEF Inv, Pop, Ends, Killed, Raises, NoEffect, repo, Steady
  <1>0. Handler(pc) \in {"stash", "checkout", "hard", "reset", "idle"}
    BY Handling DEF Pop, Trying, Recovering
  <1>1. TypeOK'
    <2>1. /\ pc' \in {"idle", "hard", "reset"} \cup Trying \cup Recovering
          /\ timeouts' \in 0..MaxTimeouts
      BY <1>0, GitPushAssumption DEF TypeOK, Trying, Recovering
    <2>2. /\ stash' \in Seq(SUBSET Works)
          /\ tree \subseteq tree' /\ tree' \in SUBSET Works
      BY DEF TypeOK
    <2>3. UNCHANGED <<head, local, tracking, staged, unmerged, onto, remote, original, integrated>>
      OBVIOUS
    <2>4. pc # "idle"
      OBVIOUS
    <2>5. QED
      BY <2>1, <2>2, <2>3, <2>4 DEF TypeOK
  <1>2. Held' /\ Leased'
    BY <1>0 DEF TypeOK, Trying, Recovering, Held, Leased
  <1>3. QED
    BY <1>1, <1>2

LEMMA HardResetInv == Inv /\ HardReset => Inv'
  <1> SUFFICES ASSUME Inv, HardReset PROVE Inv'
    OBVIOUS
  <1> USE GitPushAssumption DEF Inv, HardReset, CheckoutOriginal, CleanTree, Ends, Killed, Raises, NoEffect, repo, Steady
  <1>0. Handler(pc) \in {"stash", "checkout", "hard", "reset", "idle"}
    BY Handling DEF HardReset, Trying, Recovering
  <1>1. TypeOK'
    <2>1. (pc \in {"idle", "hard", "reset"} \cup Trying \cup Recovering)'
      BY <1>0 DEF TypeOK, Trying, Recovering, LocalNames, OriginNames, Branches, NoBranch, Works, Held
    <2>2. (head \in LocalNames /\ local[head] # NoBranch)'
      BY <1>0 DEF TypeOK, Trying, Recovering, LocalNames, OriginNames, Branches, NoBranch, Works, Held
    <2>3. (onto \in Branches \cup {"none"} /\ (pc # "idle" => original \in LocalNames))'
      BY <1>0 DEF TypeOK, Trying, Recovering, LocalNames, OriginNames, Branches, NoBranch, Works, Held
    <2>4. (local \in [LocalNames -> SUBSET Works] /\ remote \in [OriginNames -> SUBSET Works])'
      BY <1>0 DEF TypeOK, Trying, Recovering, LocalNames, OriginNames, Branches, NoBranch, Works, Held
    <2>5. (tracking \in SUBSET Works)'
      BY <1>0 DEF TypeOK, Trying, Recovering, LocalNames, OriginNames, Branches, NoBranch, Works, Held
    <2>6. (tree \in SUBSET Works)'
      BY <1>0 DEF TypeOK, Trying, Recovering, LocalNames, OriginNames, Branches, NoBranch, Works, Held
    <2>7. (staged \in SUBSET tree)'
      BY <1>0 DEF TypeOK, Trying, Recovering, LocalNames, OriginNames, Branches, NoBranch, Works, Held
    <2>8. (stash \in Seq(SUBSET Works))'
      BY <1>0 DEF TypeOK, Trying, Recovering, LocalNames, OriginNames, Branches, NoBranch, Works, Held
    <2>9. (unmerged \in BOOLEAN)'
      BY <1>0 DEF TypeOK, Trying, Recovering, LocalNames, OriginNames, Branches, NoBranch, Works, Held
    <2>10. (integrated \in BOOLEAN)'
      BY <1>0 DEF TypeOK, Trying, Recovering, LocalNames, OriginNames, Branches, NoBranch, Works, Held
    <2>11. (timeouts \in 0..MaxTimeouts)'
      BY <1>0 DEF TypeOK, Trying, Recovering, LocalNames, OriginNames, Branches, NoBranch, Works, Held
    <2>12. QED
      BY <2>1, <2>2, <2>3, <2>4, <2>5, <2>6, <2>7, <2>8, <2>9, <2>10, <2>11 DEF TypeOK
  <1>2. Held'
    BY <1>0 DEF TypeOK, Trying, Recovering, LocalNames, OriginNames, Branches, NoBranch, Works, Held
  <1>3. Leased'
    BY <1>0 DEF TypeOK, Trying, Recovering, LocalNames, OriginNames, Branches, NoBranch, Works, Leased
  <1>4. QED
    BY <1>1, <1>2, <1>3

LEMMA EditInv == Inv /\ (\E w \in Mine : Edit(w)) => Inv'
  <1> SUFFICES ASSUME Inv, NEW w \in Mine, Edit(w) PROVE Inv'
    OBVIOUS
  <1> USE DEF Inv, Edit, call
  <1>1. TypeOK'
    BY DEF TypeOK, Works
  <1>2. Held' /\ Leased'
    BY DEF Held, Leased
  <1>3. QED
    BY <1>1, <1>2

LEMMA OthersPushInv == Inv /\ (\E w \in Theirs : OthersPush(w)) => Inv'
  <1> SUFFICES ASSUME Inv, NEW w \in Theirs, OthersPush(w) PROVE Inv'
    OBVIOUS
  <1> USE DEF Inv, OthersPush, repo, call
  <1>1. TypeOK'
    BY DEF TypeOK, Works, OriginNames
  <1>2. Held' /\ Leased'
    BY DEF TypeOK, Held, Leased, OriginNames
  <1>3. QED
    BY <1>1, <1>2

LEMMA UndoInv == Inv /\ Undo => Inv'
  <1> SUFFICES ASSUME Inv, Undo PROVE Inv'
    OBVIOUS
  <1> USE DEF Inv, Undo, call, history
  <1>1. PICK last \in SUBSET Works :
            \/ /\ last \subseteq local[head] /\ last # local[head]
               /\ local' = [local EXCEPT ![head] = @ \ last]
               /\ tree' = tree \cup last
            \/ UNCHANGED <<local, tree>>
    <2>1. local[head] \in SUBSET Works
      BY DEF TypeOK
    <2>2. QED
      BY <2>1
  <1>2. \A b \in LocalNames : /\ local'[b] \subseteq local[b]
                              /\ local'[b] = {} => local[b] = {}
                              /\ b # head => local'[b] = local[b]
    BY <1>1 DEF TypeOK
  <1>3. TypeOK'
    <2>1. local' \in [LocalNames -> SUBSET Works] /\ tree' \in SUBSET Works
      BY <1>1 DEF TypeOK
    <2>2. local'[head] # NoBranch
      BY <1>2 DEF TypeOK, NoBranch
    <2>3. QED
      BY <2>1, <2>2 DEF TypeOK
  <1>4. Held'
    BY <1>2 DEF TypeOK, Held, LocalNames
  <1>5. Leased'
    BY <1>2 DEF TypeOK, Leased, LocalNames, Branches
  <1>6. QED
    BY <1>3, <1>4, <1>5

LEMMA StutterInv == Inv /\ UNCHANGED vars => Inv'
  BY DEF Inv, TypeOK, Held, Leased, vars, repo, call, history

\* One lemma per action, put together.
LEMMA NextInv == Inv /\ [Next]_vars => Inv'
  BY EditInv, OthersPushInv, UndoInv, StutterInv, BeginInv, FetchInv, LsRemoteInv, PullInv, CreateInv,
     AddInv, CommitInv, AmendInv, PushTargetInv, PushFailsInv, PushRefusedInv, FreshInv,
     PublishInv, ResetInv, StashInv, AbortInv, CheckoutInv, PopInv, HardResetInv DEF Next

\* The inductive invariant holds in every state of push and recover_branch (git.py:123).
THEOREM InvHolds == Spec => []Inv
  BY InitInv, NextInv, PTL DEF Spec

\* The types: in every state of push and of its recovery HEAD names a branch that is there,
\* so the branch a call returns to is one.
THEOREM Typing == Spec => []TypeOK
  BY InvHolds, PTL DEF Inv

-----------------------------------------------------------------------------
(* The lease *)

\* A step of push takes works from a branch of origin only before the pull has rebased:
\* the lease holds with tracking = remote, and a rebased branch has tracking in it.
LEMMA LossNeedsNoPull ==
  Inv /\ [Next]_vars => \A b \in OriginNames : remote[b] \subseteq remote'[b] \/ ~integrated
  <1> SUFFICES ASSUME Inv, [Next]_vars, NEW b \in OriginNames, integrated
               PROVE  remote[b] \subseteq remote'[b]
    OBVIOUS
  <1> USE DEF Inv, TypeOK, Leased, OriginNames
  <1>1. CASE PushTarget \/ PushFails
    BY <1>1 DEF PushTarget, PushFails, Lease, Overwrite
  <1>2. CASE Publish
    BY <1>2 DEF Publish
  <1>3. CASE \E w \in Theirs : OthersPush(w)
    BY <1>3 DEF OthersPush
  <1>4. CASE \E w \in Mine : Edit(w)
    BY <1>4 DEF Edit
  <1>u. CASE Undo
    BY <1>u DEF Undo
  <1>5. CASE UNCHANGED vars
    BY <1>5 DEF vars
  <1>6. CASE Begin \/ Fetch \/ LsRemote \/ Pull \/ Create \/ Add \/ Commit \/ Amend
    BY <1>6 DEF Begin, Fetch, LsRemote, Pull, Create, Add, Commit, Amend, Steady
  <1>7. CASE PushRefused \/ Fresh \/ Reset \/ Stash \/ Abort \/ Checkout \/ Pop \/ HardReset
    BY <1>7 DEF PushRefused, Fresh, Reset, Stash, Abort, Checkout, Pop, HardReset, Steady
  <1>8. QED
    BY <1>1, <1>2, <1>3, <1>4, <1>u, <1>5, <1>6, <1>7 DEF Next

\* --force-with-lease (git.py:189): once the pull of a call has rebased the pushed branch, no
\* later step of it takes a work from origin, whoever pushes in between and whatever is
\* killed, for any works, calls and timeouts.
THEOREM LeaseProtects == Spec => RemoteLossHasCause
  <1>1. Inv /\ [Next]_vars => [\A b \in OriginNames : remote[b] \subseteq remote'[b] \/ ~integrated]_vars
    BY LossNeedsNoPull
  <1>2. QED
    BY <1>1, InvHolds, PTL DEF Spec, RemoteLossHasCause

\* What git.py:124 and :187 promise holds of a history in which every call that overwrites
\* the branch of origin has rebased it in its pull first, also while others push: what has
\* been on origin stays there.
THEOREM RebasedPushesKeepWork ==
  Spec /\ [][PushTarget \/ PushFails => integrated \/ UNCHANGED remote]_vars => []RemoteKeepsWork
  <1> DEFINE Rebased == PushTarget \/ PushFails => integrated \/ UNCHANGED remote
  <1>1. Init => RemoteKeepsWork
    BY DEF Init, RemoteKeepsWork, OnOrigin, OriginNames
  <1>2. ASSUME Inv, RemoteKeepsWork, [Next]_vars, [Rebased]_vars PROVE RemoteKeepsWork'
    <2> USE DEF Inv, TypeOK, OriginNames
    <2>a. OnOrigin = remote["target"] \cup remote["fresh"] /\ landed \subseteq OnOrigin
          /\ OnOrigin' = remote'["target"] \cup remote'["fresh"]
      BY <1>2 DEF OnOrigin, RemoteKeepsWork
    <2>1. ASSUME UNCHANGED <<remote, landed>> PROVE RemoteKeepsWork'
      BY <2>a, <2>1 DEF RemoteKeepsWork
    <2>2. ASSUME PushTarget \/ PushFails, remote' # remote PROVE RemoteKeepsWork'
      <3>1. integrated /\ pc = "push"
        BY <1>2, <2>2 DEF PushTarget, PushFails, vars
      <3>2. Lease /\ Overwrite
        BY <2>2 DEF PushTarget, PushFails
      <3>3. remote["target"] \subseteq local["target"]
        BY <1>2, <3>1, <3>2 DEF Lease, Leased
      <3>4. remote'["target"] = local["target"] /\ remote'["fresh"] = remote["fresh"]
            /\ landed' = landed \cup local["target"]
        BY <1>2, <3>2 DEF Overwrite
      <3>5. QED
        BY <2>a, <3>3, <3>4 DEF RemoteKeepsWork
    <2>3. ASSUME PushTarget \/ PushFails, remote' = remote PROVE RemoteKeepsWork'
      <3>1. landed' = landed \/ (Overwrite /\ landed' = landed \cup local["target"])
        BY <2>3 DEF PushTarget, PushFails, Overwrite
      <3>2. Overwrite => remote'["target"] = local["target"]
        BY <1>2 DEF Overwrite
      <3>3. QED
        BY <2>a, <2>3, <3>1, <3>2 DEF RemoteKeepsWork
    <2>4. ASSUME Publish PROVE RemoteKeepsWork'
      <3>1. \/ UNCHANGED <<remote, landed>>
            \/ /\ remote' = [remote EXCEPT !["fresh"] = local["fresh"]]
               /\ landed' = landed \cup local["fresh"]
        BY <2>4 DEF Publish
      <3>2. remote["fresh"] = {}
        BY <1>2, <2>4 DEF Publish, Leased
      <3>3. QED
        BY <1>2, <2>1, <2>a, <3>1, <3>2 DEF RemoteKeepsWork
    <2>5. ASSUME NEW w \in Theirs, OthersPush(w) PROVE RemoteKeepsWork'
      <3>1. /\ remote'["target"] = remote["target"] \cup {w} /\ remote'["fresh"] = remote["fresh"]
            /\ landed' = landed \cup {w}
        BY <1>2, <2>5 DEF OthersPush
      <3>2. QED
        BY <2>a, <3>1 DEF RemoteKeepsWork
    <2>6. CASE UNCHANGED vars
      BY <2>1, <2>6 DEF vars, history
    <2>7. ASSUME \/ \E w \in Mine : Edit(w)
                 \/ Undo \/ Begin \/ Fetch \/ LsRemote \/ Pull \/ Create \/ Add \/ Commit \/ Amend
                 \/ PushRefused \/ Fresh \/ Reset \/ Stash \/ Abort \/ Checkout \/ Pop \/ HardReset
          PROVE  RemoteKeepsWork'
      <3>1. UNCHANGED <<remote, landed>>
        BY <2>7 DEF Edit, Undo, Begin, Fetch, LsRemote, Pull, Create, Add, Commit, Amend, PushRefused,
                    Fresh, Reset, Stash, Abort, Checkout, Pop, HardReset, Steady, history
      <3>2. QED
        BY <2>1, <3>1
    <2>8. QED
      BY <1>2, <2>2, <2>3, <2>4, <2>5, <2>6, <2>7 DEF Next
  <1>3. QED
    BY <1>1, <1>2, InvHolds, PTL DEF Spec

-----------------------------------------------------------------------------
(* The calls *)

\* Where the exception of a killed command leads, in the try, in the recovery and after.
LEMMA Handlers ==
  /\ \A at \in Trying : Handler(at) = "stash"
  /\ Handler("abort") = "checkout"
  /\ \A at \in Recovering \ {"abort"} : Handler(at) = "hard"
  /\ Handler("hard") = "reset" /\ Handler("reset") = "idle"
  BY DEF Handler, Trying, Recovering

\* A call that raises without a timeout passes through the abort of a stopped rebase and the
\* checkout of the branch it started on.
Recovered ==
    /\ pc \in Trying => result = "none"
    /\ pc \in Recovering \cup {"hard"} => result = "raised"
    /\ timeouts = 0 => pc # "hard"
    /\ timeouts = 0 /\ result = "raised" /\ pc \in {"checkout", "pop", "reset"} => onto = "none"
    /\ timeouts = 0 /\ result = "raised" /\ pc \in {"pop", "reset"} /\ original # "detached" =>
            head = original

\* Until the push, what the call was given is in the tree or on the branch of HEAD.
Carried ==
    /\ pc \in {"fetch", "ls", "pull", "create"} => handed \subseteq tree
    /\ pc \in {"add", "commit", "amend", "push"} => handed \subseteq local[head] \cup tree
    /\ pc = "reset" /\ result = "pushed" /\ head = "target" =>
            handed \subseteq remote["target"] \cup tree

\* As long as no call has raised, works go from the tree to a branch, which no command
\* takes away, and back; the reset at the end finds an empty tree or has its cause on record.
Unlost ==
    "raised" \notin mishaps =>
        /\ pc \notin Recovering \cup {"hard"}
        /\ onto = "none" => local["detached"] = {}
        /\ pc \in {"fresh", "publish", "reset"} => tree = {} \/ "not committed" \in mishaps
        /\ Kept \in made => Kept \in Stashed
        /\ made \subseteq OnDisk \cup Stashed \cup tree \/ "not committed" \in mishaps

LEMMA CallsInit == Init => Recovered /\ Carried /\ Unlost
  <1> SUFFICES ASSUME Init PROVE Recovered /\ Carried /\ Unlost
    OBVIOUS
  <1> USE DEF Init
  <1>1. Recovered /\ Carried
    BY DEF Recovered, Carried, Trying, Recovering
  <1>2. local["detached"] = {} /\ pc = "idle"
    BY DEF NoBranch
  <1>3. made = Stashed
    <2>1. CASE stash = <<>>
      BY <2>1 DEF Stashed
    <2>2. CASE stash = <<{Kept}>>
      <3>1. DOMAIN stash = {1} /\ stash[1] = {Kept}
        BY <2>2
      <3>2. QED
        BY <2>2, <3>1 DEF Stashed
    <2>3. QED
      BY <2>1, <2>2
  <1>4. QED
    BY <1>1, <1>2, <1>3 DEF Unlost, Recovering

LEMMA RecoveredNext == Inv /\ Recovered /\ [Next]_vars => Recovered'
  <1> SUFFICES ASSUME Inv, Recovered, [Next]_vars PROVE Recovered'
    OBVIOUS
  <1> USE GitPushAssumption DEF Inv, TypeOK, Recovered, Trying, Recovering
  <1>1. CASE UNCHANGED vars
    BY <1>1 DEF vars, repo, call, history
  <1>2. CASE \E w \in Mine : Edit(w)
    BY <1>2 DEF Edit, call
  <1>3. CASE \E w \in Theirs : OthersPush(w)
    BY <1>3 DEF OthersPush, repo, call
  <1>4. CASE Undo
    BY <1>4 DEF Undo, call, history
  <1>5. CASE Begin
    BY <1>5 DEF Begin, repo, history
  <1>6. CASE Fetch
    BY <1>6, Handlers DEF Fetch, Ends, Raises, Killed, NoEffect, repo, Steady
  <1>7. CASE LsRemote
    BY <1>7, Handlers DEF LsRemote, Ends, Raises, Killed, NoEffect, repo, Steady
  <1>8. CASE Pull
    BY <1>8, Handlers DEF Pull, Ends, MayRebase, Rebase, Conflict, Raises, Killed, NoEffect, repo, Steady
  <1>9. CASE Create
    BY <1>9, Handlers DEF Create, Ends, SwitchToNew, Raises, Killed, NoEffect, repo, Steady
  <1>10. CASE Add
    BY <1>10, Handlers DEF Add, Ends, Raises, Killed, NoEffect, repo, Steady
  <1>11. CASE Commit
    BY <1>11, Handlers DEF Commit, Ends, CommitStaged, Raises, Killed, NoEffect, repo, Steady
  <1>12. CASE Amend
    BY <1>12, Handlers DEF Amend, Ends, CommitStaged, Raises, Killed, NoEffect, repo, Steady
  <1>13. CASE PushTarget
    BY <1>13 DEF PushTarget, Overwrite
  <1>14. CASE PushFails
    BY <1>14 DEF PushFails, Overwrite, Raises, NoEffect, repo
  <1>15. CASE PushRefused
    BY <1>15 DEF PushRefused, NoEffect, repo, Steady
  <1>16. CASE Fresh
    BY <1>16, Handlers DEF Fresh, Ends, SwitchToNew, Raises, Killed, NoEffect, repo, Steady
  <1>17. CASE Publish
    BY <1>17 DEF Publish, Raises, NoEffect, repo
  <1>18. CASE Reset
    BY <1>18, Handlers DEF Reset, Ends, CleanTree, Raises, Killed, NoEffect, repo, Steady
  <1>19. CASE Stash
    BY <1>19, Handlers DEF Stash, Ends, Raises, Killed, NoEffect, repo, Steady
  <1>20. CASE Abort
    BY <1>20, Handlers DEF Abort, Ends, CleanTree, Raises, Killed, NoEffect, repo, Steady
  <1>21. CASE Checkout
    BY <1>21, Handlers DEF Checkout, Ends, CheckoutOriginal, CleanTree, Raises, Killed, NoEffect, repo, Steady
  <1>22. CASE Pop
    BY <1>22, Handlers DEF Pop, Ends, Raises, Killed, NoEffect, repo, Steady
  <1>23. CASE HardReset
    BY <1>23, Handlers DEF HardReset, Ends, CheckoutOriginal, CleanTree, Raises, Killed, NoEffect, repo, Steady
  <1>24. QED
    BY <1>1, <1>2, <1>3, <1>4, <1>5, <1>6, <1>7, <1>8, <1>9, <1>10, <1>11, <1>12, <1>13, <1>14, <1>15, <1>16, <1>17, <1>18, <1>19, <1>20, <1>21, <1>22, <1>23 DEF Next

LEMMA CarriedNext == Inv /\ Recovered /\ Carried /\ [Next]_vars => Carried'
  <1> SUFFICES ASSUME Inv, Recovered, Carried, [Next]_vars PROVE Carried'
    OBVIOUS
  <1> USE GitPushAssumption DEF Inv, TypeOK, Recovered, Carried, Trying, Recovering
  <1>1. CASE UNCHANGED vars
    BY <1>1 DEF vars, repo, call, history
  <1>2. CASE \E w \in Mine : Edit(w)
    BY <1>2 DEF Edit, call
  <1>3. CASE \E w \in Theirs : OthersPush(w)
    BY <1>3 DEF OthersPush, repo, call
  <1>4. CASE Undo
    BY <1>4 DEF Undo, call, history
  <1>5. CASE Begin
    BY <1>5 DEF Begin, repo, history
  <1>6. CASE Fetch
    BY <1>6, Handlers DEF Fetch, Ends, Raises, Killed, NoEffect, repo, Steady
  <1>7. CASE LsRemote
    BY <1>7, Handlers DEF LsRemote, Ends, Raises, Killed, NoEffect, repo, Steady
  <1>8. CASE Pull
    BY <1>8, Handlers DEF Pull, Ends, MayRebase, Rebase, Conflict, Raises, Killed, NoEffect, repo, Steady
  <1>9. CASE Create
    BY <1>9, Handlers DEF Create, Ends, SwitchToNew, Raises, Killed, NoEffect, repo, Steady
  <1>10. CASE Add
    BY <1>10, Handlers DEF Add, Ends, Raises, Killed, NoEffect, repo, Steady
  <1>11. CASE Commit
    BY <1>11, Handlers DEF Commit, Ends, CommitStaged, Raises, Killed, NoEffect, repo, Steady
  <1>12. CASE Amend
    <2>1. pc = "amend" /\ pc' \in {"push", "stash"} /\ UNCHANGED <<head, handed>>
      BY <1>12, Handlers DEF Amend, Ends, CommitStaged, Killed, NoEffect, repo, Steady
    <2>2. local'[head] \cup tree' = local[head] \cup tree
      BY <1>12 DEF Amend, CommitStaged, NoEffect, repo
    <2>3. QED
      BY <2>1, <2>2
  <1>13. CASE PushTarget
    <2>1. /\ pc = "push" /\ pc' = "reset" /\ UNCHANGED <<head, tree, handed>>
          /\ remote' = [remote EXCEPT !["target"] = local["target"]]
      BY <1>13 DEF PushTarget, Overwrite
    <2>2. remote'["target"] = local["target"] /\ handed \subseteq local[head] \cup tree
      BY <2>1 DEF OriginNames
    <2>3. QED
      BY <2>1, <2>2
  <1>14. CASE PushFails
    BY <1>14 DEF PushFails, Overwrite, Raises, NoEffect, repo
  <1>15. CASE PushRefused
    BY <1>15 DEF PushRefused, NoEffect, repo, Steady
  <1>16. CASE Fresh
    BY <1>16, Handlers DEF Fresh, Ends, SwitchToNew, Raises, Killed, NoEffect, repo, Steady
  <1>17. CASE Publish
    BY <1>17 DEF Publish, Raises, NoEffect, repo
  <1>18. CASE Reset
    BY <1>18, Handlers DEF Reset, Ends, CleanTree, Raises, Killed, NoEffect, repo, Steady
  <1>19. CASE Stash
    BY <1>19, Handlers DEF Stash, Ends, Raises, Killed, NoEffect, repo, Steady
  <1>20. CASE Abort
    BY <1>20, Handlers DEF Abort, Ends, CleanTree, Raises, Killed, NoEffect, repo, Steady
  <1>21. CASE Checkout
    BY <1>21, Handlers DEF Checkout, Ends, CheckoutOriginal, CleanTree, Raises, Killed, NoEffect, repo, Steady
  <1>22. CASE Pop
    BY <1>22, Handlers DEF Pop, Ends, Raises, Killed, NoEffect, repo, Steady
  <1>23. CASE HardReset
    BY <1>23, Handlers DEF HardReset, Ends, CheckoutOriginal, CleanTree, Raises, Killed, NoEffect, repo, Steady
  <1>24. QED
    BY <1>1, <1>2, <1>3, <1>4, <1>5, <1>6, <1>7, <1>8, <1>9, <1>10, <1>11, <1>12, <1>13, <1>14, <1>15, <1>16, <1>17, <1>18, <1>19, <1>20, <1>21, <1>22, <1>23 DEF Next

\* A step that raises nothing keeps works where they are, or moves them between the tree
\* and a branch.
LEMMA UnlostKeeps ==
  ASSUME Unlost, mishaps \subseteq mishaps', stash' = stash,
         pc' \notin Recovering \cup {"hard"},
         onto' = "none" => onto = "none" /\ (local["detached"] = {} => local'["detached"] = {}),
         pc' \in {"fresh", "publish", "reset"} =>
             \/ pc \in {"fresh", "publish", "reset"} /\ tree' = tree
             \/ tree' = {} \/ "not committed" \in mishaps',
         Kept \in made' => Kept \in made,
         made' \subseteq made \cup tree',
         OnDisk \cup tree \subseteq OnDisk' \cup tree' \/ "not committed" \in mishaps
  PROVE  Unlost'
  <1> SUFFICES ASSUME "raised" \notin mishaps' PROVE Unlost'
    BY DEF Unlost
  <1>1. Stashed' = Stashed /\ "raised" \notin mishaps
    BY DEF Stashed
  <1>2. /\ onto = "none" => local["detached"] = {}
        /\ pc \in {"fresh", "publish", "reset"} => tree = {} \/ "not committed" \in mishaps
        /\ Kept \in made => Kept \in Stashed
        /\ made \subseteq OnDisk \cup Stashed \cup tree \/ "not committed" \in mishaps
    BY <1>1 DEF Unlost
  <1>3. onto' = "none" => local'["detached"] = {}
    BY <1>2
  <1>4. pc' \in {"fresh", "publish", "reset"} => tree' = {} \/ "not committed" \in mishaps'
    BY <1>2
  <1>5. Kept \in made' => Kept \in Stashed'
    BY <1>1, <1>2
  <1>6. made' \subseteq OnDisk' \cup Stashed' \cup tree' \/ "not committed" \in mishaps'
    BY <1>1, <1>2
  <1>7. QED
    BY <1>3, <1>4, <1>5, <1>6 DEF Unlost

\* A branch that only grows, or is made where none was, keeps what is on disk.
LEMMA DiskGrows ==
  ASSUME NEW b \in LocalNames, NEW new, TypeOK, local[b] \subseteq new,
         local' = [local EXCEPT ![b] = new]
  PROVE  OnDisk' = OnDisk \cup new
  BY DEF OnDisk, TypeOK

LEMMA UnlostNext == Inv /\ Unlost /\ [Next]_vars => Unlost'
  <1> SUFFICES ASSUME Inv, Unlost, [Next]_vars, "raised" \notin mishaps' PROVE Unlost'
    BY DEF Unlost
  <1> USE GitPushAssumption DEF Recovering
  <1>a. TypeOK /\ Held /\ Leased
    BY DEF Inv
  <1>b. LocalNames = {"target", "other", "fresh", "detached"} /\ head \in LocalNames /\ head # "none"
    BY <1>a DEF TypeOK, LocalNames, Branches
  <1>1. CASE UNCHANGED vars
    BY <1>1 DEF vars, repo, call, history, Unlost, OnDisk, Stashed
  <1>2. CASE \E w \in Mine : Edit(w)
    <2>1. OnDisk' = OnDisk
      BY <1>2 DEF Edit, OnDisk
    <2>2. QED
      BY <1>2, <2>1, UnlostKeeps DEF Edit, call
  <1>3. CASE \E w \in Theirs : OthersPush(w)
    BY <1>3 DEF OthersPush, repo, call, Unlost, OnDisk, Stashed
  <1>4. CASE Undo
    <2>1. PICK last \in SUBSET local[head] :
             \/ local' = [local EXCEPT ![head] = @ \ last] /\ tree' = tree \cup last
             \/ UNCHANGED <<local, tree>> /\ last = {}
      BY <1>4 DEF Undo
    <2>2. OnDisk \cup tree \subseteq OnDisk' \cup tree' /\ local'["detached"] \subseteq local["detached"]
      BY <1>a, <1>b, <2>1 DEF OnDisk, TypeOK
    <2>3. QED
      BY <1>4, <2>2, UnlostKeeps DEF Undo, call, history
  <1>5. CASE Begin
    <2>1. OnDisk' = OnDisk
      BY <1>5 DEF Begin, repo, OnDisk
    <2>2. QED
      BY <1>5, <2>1, UnlostKeeps DEF Begin, repo, history
  <1>6. CASE Fetch \/ LsRemote \/ Add
    <2>1. OnDisk' = OnDisk
      BY <1>6 DEF Fetch, LsRemote, Add, NoEffect, repo, OnDisk
    <2>2. QED
      BY <1>6, <2>1, UnlostKeeps DEF Fetch, LsRemote, Add, NoEffect, repo, Steady, Ends, Killed, Raises
  <1>7. CASE Pull
    <2>1. /\ pc' = "add" /\ UNCHANGED <<mishaps, stash, made>>
          /\ (MayRebase /\ Rebase) \/ (MayRebase /\ Conflict) \/ NoEffect
      BY <1>7 DEF Pull, Ends, Killed, Raises, Rebase, Conflict, NoEffect, repo
    <2>2. CASE MayRebase /\ Rebase
      <3>1. OnDisk' = OnDisk \cup (local[head] \cup remote["target"])
        BY <1>a, <1>b, <2>2, DiskGrows DEF Rebase
      <3>2. tree' = tree /\ onto' = onto /\ (head = "detached" => onto # "none")
        BY <1>a, <2>2 DEF Rebase, Held
      <3>3. head # "detached" => local'["detached"] = local["detached"]
        BY <1>a, <1>b, <2>2 DEF Rebase, TypeOK
      <3>4. QED
        BY <2>1, <3>1, <3>2, <3>3, UnlostKeeps
    <2>3. CASE MayRebase /\ Conflict
      <3>1. onto = "none" /\ tree = {} /\ onto' # "none"
        BY <1>b, <2>3 DEF MayRebase, Conflict
      <3>2. local["detached"] = {}
        BY <2>1, <3>1 DEF Unlost
      <3>3. OnDisk' = OnDisk \cup remote["target"]
        BY <1>a, <1>b, <2>3, <3>2, DiskGrows DEF Conflict
      <3>4. QED
        BY <2>1, <3>1, <3>3, UnlostKeeps
    <2>4. CASE NoEffect
      <3>1. OnDisk' = OnDisk
        BY <2>4 DEF NoEffect, repo, OnDisk
      <3>2. QED
        BY <2>1, <2>4, <3>1, UnlostKeeps DEF NoEffect, repo
    <2>5. QED
      BY <2>1, <2>2, <2>3, <2>4
  <1>8. CASE Create \/ Fresh
    <2>1. /\ (local["target"] = {} /\ SwitchToNew("target")) \/ (local["fresh"] = {} /\ SwitchToNew("fresh"))
             \/ NoEffect
          /\ UNCHANGED <<mishaps, made, tree, stash, onto>>
          /\ pc' = "add" \/ (pc = "fresh" /\ pc' = "publish")
      BY <1>a, <1>8 DEF Create, Fresh, Ends, Killed, Raises, NoEffect, SwitchToNew, repo, Leased, NoBranch, Steady
    <2>2. OnDisk \subseteq OnDisk' /\ local'["detached"] = local["detached"]
      <3>1. CASE local["target"] = {} /\ SwitchToNew("target")
        BY <1>a, <1>b, <3>1, DiskGrows DEF SwitchToNew, TypeOK
      <3>2. CASE local["fresh"] = {} /\ SwitchToNew("fresh")
        BY <1>a, <1>b, <3>2, DiskGrows DEF SwitchToNew, TypeOK
      <3>3. CASE NoEffect
        BY <3>3 DEF NoEffect, repo, OnDisk
      <3>4. QED
        BY <2>1, <3>1, <3>2, <3>3
    <2>3. QED
      BY <2>1, <2>2, UnlostKeeps
  <1>9. CASE Commit \/ Amend
    <2>1. /\ CommitStaged \/ NoEffect
          /\ UNCHANGED <<mishaps, made, stash, onto>>
          /\ pc' \in {"amend", "push"}
      BY <1>9 DEF Commit, Amend, Ends, Killed, Raises, NoEffect, CommitStaged, repo, Steady
    <2>2. CASE CommitStaged
      <3>1. OnDisk' = OnDisk \cup (local[head] \cup staged) /\ tree' = tree \ staged
        BY <1>a, <1>b, <2>2, DiskGrows DEF CommitStaged
      <3>2. head # "detached" => local'["detached"] = local["detached"]
        BY <1>a, <1>b, <2>2 DEF CommitStaged, TypeOK
      <3>3. head = "detached" => onto # "none"
        BY <1>a DEF Held
      <3>4. QED
        BY <2>1, <3>1, <3>2, <3>3, UnlostKeeps
    <2>3. CASE NoEffect
      <3>1. OnDisk' = OnDisk
        BY <2>3 DEF NoEffect, repo, OnDisk
      <3>2. QED
        BY <2>1, <2>3, <3>1, UnlostKeeps DEF NoEffect, repo
    <2>4. QED
      BY <2>1, <2>2, <2>3
  <1>10. CASE PushTarget \/ PushRefused \/ Publish
    <2>1. /\ UNCHANGED <<made, tree, stash, onto, local>> /\ mishaps \subseteq mishaps'
          /\ pc' \in {"fresh", "reset"}
          /\ pc = "publish" \/ tree' = {} \/ "not committed" \in mishaps'
      BY <1>10 DEF PushTarget, PushRefused, Publish, Overwrite, LeftBehind, NoEffect, Raises, repo, Steady
    <2>2. OnDisk' = OnDisk
      BY <2>1 DEF OnDisk
    <2>3. QED
      BY <2>1, <2>2, UnlostKeeps
  <1>11. CASE Reset
    <2>1. /\ pc = "reset" /\ pc' = "idle" /\ CleanTree
          /\ UNCHANGED <<mishaps, made, stash, onto, local>>
      BY <1>11 DEF Reset, Ends, Killed, Raises, Steady
    <2>2. OnDisk' = OnDisk /\ (tree = {} \/ "not committed" \in mishaps)
      BY <2>1 DEF OnDisk, Unlost
    <2>3. QED
      BY <2>1, <2>2, UnlostKeeps DEF CleanTree
  <1>12. ~ (PushFails \/ Stash \/ Abort \/ Checkout \/ Pop \/ HardReset)
    <2>1. "raised" \notin mishaps => pc \notin Recovering \cup {"hard"}
      BY DEF Unlost
    <2>2. PushFails => "raised" \in mishaps'
      BY DEF PushFails, Raises
    <2>3. Stash \/ Abort \/ Checkout \/ Pop \/ HardReset => mishaps \subseteq mishaps'
      BY DEF Stash, Abort, Checkout, Pop, HardReset, Ends, Killed, Raises
    <2>4. QED
      BY <2>1, <2>2, <2>3 DEF Stash, Abort, Checkout, Pop, HardReset
  <1>13. QED
    BY <1>1, <1>2, <1>3, <1>4, <1>5, <1>6, <1>7, <1>8, <1>9, <1>10, <1>11, <1>12 DEF Next

LEMMA CallsHold == Spec => [](Inv /\ Recovered /\ Carried /\ Unlost)
  <1>1. Init => Inv /\ Recovered /\ Carried /\ Unlost
    BY InitInv, CallsInit
  <1>2. (Inv /\ Recovered /\ Carried /\ Unlost) /\ [Next]_vars
          => (Inv /\ Recovered /\ Carried /\ Unlost)'
    BY NextInv, RecoveredNext, CarriedNext, UnlostNext
  <1>3. QED
    BY <1>1, <1>2, PTL DEF Spec

\* recover_branch (git.py:509): a call that raised ends on the branch it was started on and
\* in no rebase, unless a timeout killed one of its commands.
THEOREM Returns == Spec => []RecoveryReturns
  <1>1. Recovered => RecoveryReturns
    BY DEF Recovered, RecoveryReturns
  <1>2. QED
    BY <1>1, CallsHold, PTL

\* A push that succeeds with HEAD on the pushed branch and nothing left in the tree has
\* brought to origin all that the call was given (git.py:173-203).
THEOREM Arrives == Spec => []PushedWorkArrives
  <1>1. Carried => PushedWorkArrives
    BY DEF Carried, PushedWorkArrives
  <1>2. QED
    BY <1>1, CallsHold, PTL

\* No work of the user disappears but through a call that raised or a refused commit
\* (git.py:177 and :213), and the earlier stash only through a call that raised.
THEOREM LossHasCause == Spec => []WorkLossHasCause
  <1>1. Unlost => WorkLossHasCause
    BY DEF Unlost, WorkLossHasCause, Somewhere
  <1>2. QED
    BY <1>1, CallsHold, PTL

=============================================================================
