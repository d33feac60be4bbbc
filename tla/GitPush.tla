------------------------------ MODULE GitPush ------------------------------
(***************************************************************************)
(* mb push and mb undo: push, recover_branch, undo_last_commit and run_git of *)
(* src/mbpy/pkg/git.py, one action per git command that matters.  The       *)
(* commands are not atomic together: other people push in between, any      *)
(* command may fail (push ignores most exit codes), and with a timeout any   *)
(* may be killed before or after it took effect, which raises.              *)
(*                                                                         *)
(* git itself is external: a branch is the set of works its commits hold,   *)
(* the tree the works not committed (edits of tracked files).  "junk" is     *)
(* what a conflict leaves in the tree.                                      *)
(***************************************************************************)
EXTENDS Naturals, Sequences

CONSTANTS
    Mine,           \* works the user makes
    Theirs,         \* works other people push
    Old,            \* the work everyone starts with
    Kept,           \* a work the user stashed earlier
    Junk,           \* conflict markers
    MaxPushes,      \* bound: calls of push
    MaxTimeouts     \* bound: commands killed by their timeout

Works == Mine \cup Theirs \cup {Old, Kept, Junk}

ASSUME GitPushAssumption ==
    /\ MaxPushes \in Nat
    /\ MaxTimeouts \in Nat
    /\ Kept \notin Mine

VARIABLES
    pc,         \* the next command of push or recover_branch; "idle" outside of a call
    head,       \* what HEAD names: a branch, or "detached"
    local,      \* local branches, and the detached HEAD
    tracking,   \* refs/remotes/origin/target
    remote,     \* branches of origin
    tree,       \* works not committed
    staged,     \* of these, the ones in the index
    unmerged,   \* the index has conflicts
    stash,      \* the stash, newest first
    onto,       \* the branch a stopped rebase will return to; "none" without one
    original,   \* original_branch
    result,     \* how the last call ended
    pushes, timeouts,
    integrated, \* history: this call's pull has rebased target onto what was fetched
    handed,     \* history: the tree this call was given
    made,       \* history: works of the user so far
    landed,     \* history: works that have been on origin
    mishaps     \* history: a call raised, or its commit left works behind

repo == <<head, local, tracking, tree, staged, unmerged, stash, onto>>
call == <<original, result, pushes, integrated, handed>>
history == <<made, landed, mishaps>>
vars == <<pc, repo, remote, call, timeouts, history>>

Branches == {"target", "other", "fresh"}
Trying == {"fetch", "ls", "pull", "create", "add", "commit", "amend", "push", "fresh", "publish"}
Recovering == {"stash", "abort", "checkout", "pop"}
LocalNames == Branches \cup {"detached"}
OriginNames == {"target", "fresh"}

\* A branch that is not there holds nothing; every other holds Old.
NoBranch == {}

Init ==
    /\ pc = "idle"
    /\ head \in {"target", "other"}
    /\ local \in [LocalNames -> {NoBranch, {Old}}]
    /\ local["other"] = {Old} /\ local["fresh"] = NoBranch /\ local["detached"] = NoBranch
    /\ local[head] = {Old}
    /\ tracking \in {NoBranch, {Old}}
    /\ remote = [b \in OriginNames |-> IF b = "target" THEN tracking ELSE NoBranch]
    /\ stash \in {<<>>, <<{Kept}>>}
    /\ tree = {} /\ staged = {} /\ unmerged = FALSE
    /\ onto = "none" /\ original = "none" /\ result = "none"
    /\ pushes = 0 /\ timeouts = 0
    /\ integrated = FALSE /\ handed = {}
    /\ made = IF stash = <<>> THEN {} ELSE {Kept}
    /\ landed = IF tracking = NoBranch THEN {} ELSE {Old}
    /\ mishaps = {}

-----------------------------------------------------------------------------
(* Around the calls *)

Edit(w) ==
    /\ pc = "idle"
    /\ w \in Mine \ made
    /\ tree' = tree \cup {w}
    /\ made' = made \cup {w}
    /\ UNCHANGED <<pc, head, local, tracking, staged, unmerged, stash, onto, remote, call,
                   timeouts, landed, mishaps>>

OthersPush(w) ==
    /\ w \in Theirs \ landed
    /\ remote["target"] # NoBranch
    /\ remote' = [remote EXCEPT !["target"] = @ \cup {w}]
    /\ landed' = landed \cup {w}
    /\ UNCHANGED <<pc, repo, call, timeouts, made, mishaps>>

\* mb undo: reset --soft HEAD~1, which conflicts and a branch of one commit refuse, then a
\* reset of the index.  Which works the last commit holds is not kept: any but those of the
\* first commit, where Old is.
Undo ==
    /\ pc = "idle"
    /\ \/ /\ ~unmerged
          /\ \E last \in (SUBSET (local[head] \ {Old})) \ {{}, local[head]} :
                /\ local' = [local EXCEPT ![head] = @ \ last]
                /\ tree' = tree \cup last
       \/ UNCHANGED <<local, tree>>
    /\ staged' = {} /\ unmerged' = FALSE
    /\ UNCHANGED <<pc, head, tracking, stash, onto, remote, call, timeouts, history>>

-----------------------------------------------------------------------------
(* run_git *)

\* The exception of a killed command: in the try of push it starts recover_branch, there it
\* starts the hard recovery, and from that one only the finally is left.
Handler(at) ==
    IF at \in Trying THEN "stash"
    ELSE IF at \in Recovering THEN IF at = "abort" THEN "checkout" ELSE "hard"
    ELSE IF at = "reset" THEN "idle" ELSE "reset"

Raises == result' = "raised" /\ mishaps' = mishaps \cup {"raised"}

Killed ==
    /\ timeouts < MaxTimeouts
    /\ timeouts' = timeouts + 1
    /\ pc' = Handler(pc)
    /\ Raises

\* The command ends, whatever its exit code, and the next one follows; or it is killed,
\* be it after it took effect.
Ends(next) == (pc' = next /\ UNCHANGED <<timeouts, result, mishaps>>) \/ Killed

NoEffect == UNCHANGED repo

\* What reset --hard and checkout -f do to edits, staged or not.
CleanTree == tree' = {} /\ staged' = {} /\ unmerged' = FALSE

-----------------------------------------------------------------------------
(* push *)

\* Mutant: a call goes on with the branch of the call before.
Begin_Stale ==
    /\ pc = "idle"
    /\ pushes < MaxPushes
    /\ pushes' = pushes + 1
    /\ result' = "none"
    /\ integrated' = FALSE
    /\ handed' = tree \ {Junk}
    /\ pc' = "fetch"
    /\ UNCHANGED <<original, repo, remote, timeouts, history>>

\* rev-parse, before the try: killed, it raises and nothing has happened.  The commands on
\* the configuration (remote, config, --set-upstream-to) are left out.
Begin ==
    /\ pc = "idle"
    /\ pushes < MaxPushes
    /\ pushes' = pushes + 1
    /\ original' = head
    /\ result' = "none"
    /\ integrated' = FALSE
    /\ handed' = tree \ {Junk}
    /\ pc' = "fetch"
    /\ UNCHANGED <<repo, remote, timeouts, history>>

Steady == UNCHANGED <<remote, original, pushes, integrated, handed, made, landed>>

Fetch ==
    /\ pc = "fetch"
    /\ tracking' \in {tracking, remote["target"]}
    /\ Ends("ls")
    /\ UNCHANGED <<head, local, tree, staged, unmerged, stash, onto>>
    /\ Steady

\* ls-remote: a failure looks like a branch that is not there.
LsRemote ==
    /\ pc = "ls"
    /\ Ends("create") \/ (remote["target"] # NoBranch /\ Ends("pull"))
    /\ NoEffect
    /\ Steady

\* git pull --rebase refuses a tree with changes, and a second rebase.
MayRebase == tree = {} /\ onto = "none" /\ remote["target"] # NoBranch

\* The rebase stops: HEAD is detached on what was fetched, with the conflict in the tree.
Conflict ==
    /\ tracking' = remote["target"]
    /\ onto' = head
    /\ head' = "detached"
    /\ local' = [local EXCEPT !["detached"] = remote["target"]]
    /\ tree' = {Junk}
    /\ unmerged' = TRUE
    /\ UNCHANGED <<staged, stash>>

Rebase ==
    /\ tracking' = remote["target"]
    /\ local' = [local EXCEPT ![head] = @ \cup remote["target"]]
    /\ UNCHANGED <<head, tree, staged, unmerged, stash, onto>>

\* Mutant: a rebase that stops counts as done.
Pull_ConflictIsFine ==
    /\ pc = "pull"
    /\ \/ MayRebase /\ Rebase /\ integrated' = (head = "target")
       \/ MayRebase /\ Conflict /\ integrated' = TRUE
       \/ NoEffect /\ UNCHANGED integrated
    /\ Ends("add")
    /\ UNCHANGED <<remote, original, pushes, handed, made, landed>>

\* Its exit code is not looked at.
Pull ==
    /\ pc = "pull"
    /\ \/ MayRebase /\ Rebase /\ integrated' = (head = "target")
       \/ MayRebase /\ Conflict /\ UNCHANGED integrated
       \/ NoEffect /\ UNCHANGED integrated
    /\ Ends("add")
    /\ UNCHANGED <<remote, original, pushes, handed, made, landed>>

SwitchToNew(b) ==
    /\ local' = [local EXCEPT ![b] = local[head]]
    /\ head' = b
    /\ UNCHANGED <<tracking, tree, staged, unmerged, stash, onto>>

\* Mutant: the new branch is checked out with -f.
Create_Force ==
    /\ pc = "create"
    /\ IF local["target"] = NoBranch
       THEN /\ local' = [local EXCEPT !["target"] = local[head]]
            /\ head' = "target"
            /\ tree' = {}
            /\ UNCHANGED <<tracking, staged, unmerged, stash, onto>>
       ELSE NoEffect
    /\ Ends("add")
    /\ Steady

\* checkout -b fails on a branch that exists, and HEAD stays where it is.
Create ==
    /\ pc = "create"
    /\ (local["target"] = NoBranch /\ ~unmerged /\ SwitchToNew("target")) \/ NoEffect
    /\ Ends("add")
    /\ Steady

Add ==
    /\ pc = "add"
    /\ \/ /\ staged' = tree
          /\ unmerged' = FALSE
          /\ UNCHANGED <<head, local, tracking, tree, stash, onto>>
       \/ NoEffect
    /\ Ends("commit")
    /\ Steady

CommitStaged ==
    /\ ~unmerged
    /\ local' = [local EXCEPT ![head] = @ \cup staged]
    /\ tree' = tree \ staged
    /\ staged' = {}
    /\ UNCHANGED <<head, tracking, unmerged, stash, onto>>

\* Refused without anything staged, or by a hook, or without an identity.
Commit ==
    /\ pc = "commit"
    /\ (staged # {} /\ CommitStaged) \/ NoEffect
    /\ Ends("amend")
    /\ Steady

\* generate_changelog may raise; the amended commit takes what is still staged.
Amend ==
    /\ pc = "amend"
    /\ \/ CommitStaged /\ Ends("push")
       \/ NoEffect /\ Ends("push")
       \/ NoEffect /\ Raises /\ pc' = "stash" /\ UNCHANGED timeouts
    /\ Steady

\* --force-with-lease: origin takes the branch if it has what was last fetched from it.
Lease == local["target"] # NoBranch /\ tracking = remote["target"]

Overwrite ==
    /\ remote' = [remote EXCEPT !["target"] = local["target"]]
    /\ tracking' = local["target"]
    /\ landed' = landed \cup local["target"]
    /\ UNCHANGED <<head, local, tree, staged, unmerged, stash, onto>>

LeftBehind == IF tree = {} THEN {} ELSE {"not committed"}

\* Mutant: what was fetched is pushed back.
PushTarget_Tracking ==
    /\ pc = "push"
    /\ Lease
    /\ pc' = "reset" /\ result' = "pushed"
    /\ mishaps' = mishaps \cup LeftBehind
    /\ UNCHANGED <<repo, remote, landed, timeouts, original, pushes, integrated, handed, made>>

PushTarget ==
    /\ pc = "push"
    /\ Lease
    /\ Overwrite
    /\ pc' = "reset" /\ result' = "pushed"
    /\ mishaps' = mishaps \cup LeftBehind
    /\ UNCHANGED <<timeouts, original, pushes, integrated, handed, made>>

\* A stale lease, no network, a branch that is not there: GitError.  A killed push raises
\* too, and origin may have taken it.
PushFails ==
    /\ pc = "push"
    /\ \/ NoEffect /\ UNCHANGED <<remote, landed, timeouts>>
       \/ /\ timeouts < MaxTimeouts /\ timeouts' = timeouts + 1
          /\ (Lease /\ Overwrite) \/ (NoEffect /\ UNCHANGED <<remote, landed>>)
    /\ pc' = "stash"
    /\ Raises
    /\ UNCHANGED <<original, pushes, integrated, handed, made>>

\* origin allows no forced update (non-fast-forward): a new branch is to be made.
\* Bound: once, since its name holds the time.
PushRefused ==
    /\ pc = "push"
    /\ local["target"] # NoBranch /\ local["fresh"] = NoBranch
    /\ pc' = "fresh"
    /\ mishaps' = mishaps \cup LeftBehind
    /\ NoEffect
    /\ UNCHANGED <<timeouts, result>>
    /\ Steady

Fresh ==
    /\ pc = "fresh"
    /\ (~unmerged /\ SwitchToNew("fresh")) \/ NoEffect
    /\ Ends("publish")
    /\ Steady

\* The exit code of this push is not looked at.
Publish ==
    /\ pc = "publish"
    /\ \/ /\ local["fresh"] # NoBranch
          /\ remote' = [remote EXCEPT !["fresh"] = local["fresh"]]
          /\ landed' = landed \cup local["fresh"]
       \/ UNCHANGED <<remote, landed>>
    /\ \/ pc' = "reset" /\ result' = "branched" /\ UNCHANGED <<timeouts, mishaps>>
       \/ timeouts < MaxTimeouts /\ timeouts' = timeouts + 1 /\ pc' = "stash" /\ Raises
    /\ NoEffect
    /\ UNCHANGED <<original, pushes, integrated, handed, made>>

\* The finally of push, after success and after recovery.
Reset ==
    /\ pc = "reset"
    /\ \/ CleanTree /\ UNCHANGED <<head, onto>> /\ Ends("idle")
       \/ NoEffect /\ Killed
    /\ UNCHANGED <<local, tracking, stash>>
    /\ Steady

-----------------------------------------------------------------------------
(* recover_branch *)

\* Refused while the index has conflicts; nothing to do for a clean tree.
Stash ==
    /\ pc = "stash"
    /\ \/ /\ ~unmerged /\ tree # {}
          /\ stash' = <<tree>> \o stash
          /\ tree' = {} /\ staged' = {}
          /\ UNCHANGED <<head, local, tracking, unmerged, onto>>
       \/ NoEffect
    /\ Ends("abort")
    /\ Steady

\* Mutant: a stopped rebase is left as it is.
Abort_Skipped ==
    /\ pc = "abort"
    /\ NoEffect
    /\ Ends("checkout")
    /\ Steady

\* Back to the branch of the rebase; its exception is swallowed.
Abort ==
    /\ pc = "abort"
    /\ \/ /\ onto # "none"
          /\ head' = onto /\ onto' = "none"
          /\ CleanTree
          /\ Ends("checkout")
       \/ onto = "none" /\ NoEffect /\ Ends("checkout")
       \/ NoEffect /\ Killed
    /\ UNCHANGED <<local, tracking, stash>>
    /\ Steady

\* checkout -f original; for a detached HEAD the name is HEAD itself.
CheckoutOriginal ==
    /\ head' = IF original = "detached" THEN head ELSE original
    /\ CleanTree
    /\ UNCHANGED onto

Checkout ==
    /\ pc = "checkout"
    /\ (CheckoutOriginal /\ Ends("pop")) \/ (NoEffect /\ Killed)
    /\ UNCHANGED <<local, tracking, stash>>
    /\ Steady

\* The newest entry is popped, whoever made it.
Pop ==
    /\ pc = "pop"
    /\ \/ /\ stash # <<>>
          /\ tree' = tree \cup Head(stash)
          /\ stash' = Tail(stash)
          /\ UNCHANGED <<head, local, tracking, staged, unmerged, onto>>
       \/ NoEffect
    /\ Ends("reset")
    /\ Steady

\* The hard recovery: reset --hard, clean -fd, checkout -f.
HardReset ==
    /\ pc = "hard"
    /\ \/ CheckoutOriginal /\ Ends("reset")
       \/ CleanTree /\ UNCHANGED <<head, onto>> /\ Killed
       \/ NoEffect /\ Killed
    /\ UNCHANGED <<local, tracking, stash>>
    /\ Steady

Next ==
    \/ \E w \in Mine : Edit(w)
    \/ \E w \in Theirs : OthersPush(w)
    \/ Undo
    \/ Begin \/ Fetch \/ LsRemote \/ Pull \/ Create \/ Add \/ Commit \/ Amend
    \/ PushTarget \/ PushFails \/ PushRefused \/ Fresh \/ Publish \/ Reset
    \/ Stash \/ Abort \/ Checkout \/ Pop \/ HardReset

Spec == Init /\ [][Next]_vars

-----------------------------------------------------------------------------
(* Properties *)

OnOrigin == UNION {remote[b] : b \in OriginNames}
OnDisk == UNION {local[b] : b \in LocalNames}
Stashed == UNION {stash[i] : i \in DOMAIN stash}
Somewhere == OnOrigin \cup OnDisk \cup Stashed \cup tree

TypeOK ==
    /\ pc \in {"idle", "hard", "reset"} \cup Trying \cup Recovering
    /\ head \in LocalNames /\ local[head] # NoBranch
    /\ onto \in Branches \cup {"none"}
    /\ pc # "idle" => original \in LocalNames
    /\ local \in [LocalNames -> SUBSET Works]
    /\ remote \in [OriginNames -> SUBSET Works]
    /\ tracking \in SUBSET Works
    /\ tree \in SUBSET Works /\ staged \in SUBSET tree
    /\ stash \in Seq(SUBSET Works)
    /\ unmerged \in BOOLEAN /\ integrated \in BOOLEAN
    /\ timeouts \in 0..MaxTimeouts

\* A branch of origin loses works only to a call whose pull has not rebased the pushed
\* branch: whatever others push while the call runs, the lease then turns the push away.
RemoteLossHasCause ==
    [][\A b \in OriginNames : remote[b] \subseteq remote'[b] \/ ~integrated]_vars

\* A work of the user disappears only with a call that raised or whose commit was refused,
\* and a work stashed before the call only with one that raised.
WorkLossHasCause ==
    \A w \in made \ Somewhere :
        "raised" \in mishaps \/ (w # Kept /\ "not committed" \in mishaps)

\* git.py:510: recover_branch is to "recover from a failed rebase and return to original
\* branch": it does, unless a timeout kills one of its commands.
RecoveryReturns ==
    pc = "reset" /\ result = "raised" /\ timeouts = 0 /\ original # "detached" =>
        head = original /\ onto = "none"

\* A push reported as successful has brought the works the call was given to origin, if
\* they were committed and HEAD was the pushed branch.
PushedWorkArrives ==
    pc = "reset" /\ result = "pushed" /\ tree = {} /\ head = "target" =>
        handed \subseteq remote["target"]

\* git.py:124 and :187: changes are pushed "with robust conflict handling" and "force push
\* with lease for safety": what has been on origin stays there.
RemoteKeepsWork == landed \subseteq OnOrigin

=============================================================================
