------------------------------- MODULE GitSync -------------------------------
(***************************************************************************)
(* What a git sync does to a notebook: src/sync/git, the pipeline stage,   *)
(* commit, fetch, rebase, push of GitSyncPipeline, the retry loop of       *)
(* GitSyncBackend, the conflicts GitConflictResolver settles, and the      *)
(* process restarts in between.  Several devices share one remote: they    *)
(* have cloned it, or they start with nothing and set the repository up    *)
(* with Initialize or CloneNotebook (git_repo_bootstrap.cpp).              *)
(*                                                                         *)
(* A history is a sequence of commits (vxcore only makes commits with one  *)
(* parent), so two histories are the same branch exactly if they are equal *)
(* and a merge base is a longest common prefix.  A commit holds a tree; a  *)
(* tree gives each note the set of edits one can read in it: one for a     *)
(* note as its user saved it, several where conflict markers show both     *)
(* sides, none where there is no such file.                                *)
(*                                                                         *)
(* The remote and libgit2 are outside the repository.  The server accepts  *)
(* a push exactly if it is a fast-forward; libgit2's rebase leaves HEAD    *)
(* detached until it is finished, refuses to overwrite a local change, and *)
(* answers GIT_EAPPLIED for a patch that changes nothing.                  *)
(***************************************************************************)
EXTENDS Integers, FiniteSets, SequencesExt

CONSTANTS
    Devices,
    Files,             \* notes of the notebook
    Meta,              \* the file among them that is the notebook's config.json, or None
    Cloned,            \* every device has cloned the remote and has enabled sync; or
    Founder,           \* this one has created a notebook, and the remote is empty
    Edits,             \* contents a user may save
    Calls,             \* of "sync", or "stage" and "network": what the consumer calls
    SameEdits,         \* two users may save the same content
    SyncOverConflict,  \* the consumer may sync while conflicts are not resolved
    SaveOverConflict,  \* users may save while conflicts are not resolved
    MaxAttempts,       \* RetryPolicy::max_attempts
    MaxFailures,       \* bound on network failures
    MaxRestarts,       \* bound on process restarts
    MaxFaults,         \* bound on both together
    Interrupted,       \* calls they may interrupt, or "idle": between two calls
    None

ASSUME ConstantsAssumption ==
    /\ Calls \subseteq {"sync", "stage", "network"}
    /\ SameEdits \in BOOLEAN /\ SyncOverConflict \in BOOLEAN /\ SaveOverConflict \in BOOLEAN
    /\ MaxAttempts \in Nat \ {0} /\ MaxFailures \in Nat /\ MaxRestarts \in Nat /\ MaxFaults \in Nat
    /\ None \notin Devices
    /\ Cloned \in BOOLEAN /\ Meta \in Files \cup {None}
    /\ \/ Cloned
       \/ /\ Meta \in Files /\ Founder \in Devices
          /\ \E g \in [Files -> Edits]: IsInjective(g)
    /\ Interrupted \subseteq {"idle", "sync", "stage", "network", "resolve", "init", "clone"}

Tree == [notes: [Files -> SUBSET Edits], copies: SUBSET Edits]
Commit == [tree: Tree, by: Devices \cup {None}]
Patch == [base: Tree, tree: Tree]
Resolutions == {"keepLocal", "keepRemote", "keepBoth"}

Empty == [notes |-> [f \in Files |-> {}], copies |-> {}]

\* The first notebook, and the history every device starts from.
Founding ==
    LET text == CHOOSE g \in [Files -> Edits]: IsInjective(g)
    IN  [notes |-> [f \in Files |-> {text[f]}], copies |-> {}]
Root == IF Cloned THEN <<[tree |-> Empty, by |-> None]>> ELSE <<>>

TipTree(h) == IF h = <<>> THEN Empty ELSE h[Len(h)].tree
EditsOf(T) == T.copies \cup UNION {T.notes[f]: f \in Files}
EditsIn(h) == UNION {EditsOf(h[i].tree): i \in DOMAIN h}

VARIABLES
    remote,     \* refs/heads/main at the remote
    notebook,   \* notebook[d]: device d has the notebook open
    repo,       \* repo[d]: what is in vx_notebook/vx_sync
    enabled,    \* enabled[d]: a GitSyncBackend is initialized_
    branch,     \* branch[d]: refs/heads/main of device d, empty while unborn
    track,      \* track[d]: refs/remotes/origin/main
    detached,   \* detached[d]: HEAD is not on the branch: a rebase is not finished
    head,       \* head[d]: what a detached HEAD points to
    todo,       \* todo[d]: patches of that rebase not committed yet
    conflicts,  \* conflicts[d]: notes with a conflict entry in the index
    index,      \* index[d], work[d]: the index and the working tree
    work,
    handle,     \* handle[d]: rebase_in_progress_ is not null
    pc,         \* pc[d]: where the call under op_mutex_ is
    op,         \* op[d]: that call, or the last one
    attempt,    \* attempt[d]: the retry loop's counter
    res,        \* res[d]: the last call's result
    failures, restarts,
    \* What the properties look at and the code does not have:
    pending,    \* pending[d]: edits saved on d and in no commit yet
    committed,  \* committed[d]: edits d has committed
    dropped     \* edits some user gave up when resolving a conflict

setupVars == <<notebook, repo, enabled>>
refVars == <<branch, track, detached, head>>
fileVars == <<conflicts, index, work>>
callVars == <<pc, op, attempt, res>>
ghostVars == <<pending, committed, dropped>>
vars == <<remote, notebook, repo, enabled, branch, track, detached, head, todo, conflicts, index, work, handle,
          pc, op, attempt, res, failures, restarts, pending, committed, dropped>>

TypeOK ==
    /\ remote \in Seq(Commit)
    /\ notebook \in [Devices -> BOOLEAN]
    /\ repo \in [Devices -> {"none", "noHead", "noOrigin", "ready"}]
    /\ enabled \in [Devices -> BOOLEAN]
    /\ branch \in [Devices -> Seq(Commit)]
    /\ track \in [Devices -> Seq(Commit)]
    /\ detached \in [Devices -> BOOLEAN]
    /\ head \in [Devices -> Seq(Commit)]
    /\ todo \in [Devices -> Seq(Patch)]
    /\ conflicts \in [Devices -> SUBSET Files]
    /\ index \in [Devices -> Tree]
    /\ work \in [Devices -> Tree]
    /\ handle \in [Devices -> BOOLEAN]
    /\ pc \in [Devices -> {"idle", "stage", "commit", "fetch", "rebase", "ffRef",
                           "replay", "push", "initRepo", "addOrigin", "checkout", "initRef",
                           "openClone"}]
    /\ op \in [Devices -> {"none", "sync", "stage", "network", "resolve", "init", "clone"}]
    /\ attempt \in [Devices -> 0..MaxAttempts]
    /\ res \in [Devices -> {"none", "ok", "conflict", "error"}]
    /\ failures \in 0..MaxFailures
    /\ restarts \in 0..MaxRestarts
    /\ pending \in [Devices -> SUBSET Edits]
    /\ committed \in [Devices -> SUBSET Edits]
    /\ dropped \subseteq Edits

Init ==
    /\ remote = Root
    /\ notebook = [d \in Devices |-> Cloned \/ d = Founder]
    /\ repo = [d \in Devices |-> IF Cloned THEN "ready" ELSE "none"]
    /\ enabled = [d \in Devices |-> Cloned]
    /\ branch = [d \in Devices |-> Root]
    /\ track = [d \in Devices |-> Root]
    /\ detached = [d \in Devices |-> FALSE]
    /\ head = [d \in Devices |-> <<>>]
    /\ todo = [d \in Devices |-> <<>>]
    /\ conflicts = [d \in Devices |-> {}]
    /\ index = [d \in Devices |-> Empty]
    /\ work = [d \in Devices |-> IF Cloned \/ d # Founder THEN Empty ELSE Founding]
    /\ handle = [d \in Devices |-> FALSE]
    /\ pc = [d \in Devices |-> "idle"]
    /\ op = [d \in Devices |-> "none"]
    /\ attempt = [d \in Devices |-> 0]
    /\ res = [d \in Devices |-> "none"]
    /\ failures = 0
    /\ restarts = 0
    /\ pending = [d \in Devices |-> IF Cloned \/ d # Founder THEN {} ELSE EditsOf(Founding)]
    /\ committed = [d \in Devices |-> {}]
    /\ dropped = {}

-----------------------------------------------------------------------------
(* Trees and histories *)

\* git_revparse_single("HEAD"): what a commit is made on.
HeadHistory(d) == IF detached[d] THEN head[d] ELSE branch[d]

\* The number of commits up to the merge base.
BaseLength(h, k) == Cardinality({n \in 1..Len(h): IsPrefix(SubSeq(h, 1, n), k)})

\* What to replay: the commits of h after its merge base with k, as patches.
PatchesSince(h, k) ==
    LET n == BaseLength(h, k)
        before(i) == IF i = 1 THEN Empty ELSE h[i - 1].tree
    IN  [i \in 1 .. Len(h) - n |-> [base |-> before(n + i), tree |-> h[n + i].tree]]

\* Tree T with content c in note f.
WithNote(T, f, c) == [notes |-> [T.notes EXCEPT ![f] = c], copies |-> T.copies]

\* A three-way merge of theirs into ours: both sides show where both changed.  A
\* copy has a file name of its own and never conflicts.
Conflicting(p, ours) ==
    {f \in Files: /\ p.tree.notes[f] # p.base.notes[f]
                  /\ ours.notes[f] # p.base.notes[f]
                  /\ ours.notes[f] # p.tree.notes[f]}

Merged(p, ours) ==
    [notes |-> [f \in Files |->
        IF f \in Conflicting(p, ours) THEN ours.notes[f] \cup p.tree.notes[f]
        ELSE IF p.tree.notes[f] = p.base.notes[f] THEN ours.notes[f]
        ELSE p.tree.notes[f]],
     copies |-> ours.copies \cup (p.tree.copies \ p.base.copies)]

\* Checkouts of tree T: GIT_CHECKOUT_SAFE writes what differs from the index,
\* GIT_CHECKOUT_FORCE every file that either of them has.
SafeCheckout(d, T) ==
    [notes |-> [f \in Files |->
        IF T.notes[f] = index[d].notes[f] THEN work[d].notes[f] ELSE T.notes[f]],
     copies |-> T.copies]

ForceCheckout(d, T) ==
    [notes |-> [f \in Files |->
        IF T.notes[f] = {} /\ index[d].notes[f] = {} THEN work[d].notes[f] ELSE T.notes[f]],
     copies |-> T.copies]

\* A tracked file has a change that is not in the index.
Unstaged(d) ==
    \E f \in Files: index[d].notes[f] # {} /\ work[d].notes[f] # index[d].notes[f]

\* That, or the index has a change that is not committed.
Dirty(d) == Unstaged(d) \/ index[d] # TipTree(HeadHistory(d))

\* A safe checkout of T would overwrite a local change.
Obstructed(d, T) ==
    \E f \in Files: /\ T.notes[f] # index[d].notes[f]
                    /\ work[d].notes[f] \notin {index[d].notes[f], T.notes[f]}

-----------------------------------------------------------------------------
(* Users and processes *)

\* A user saves a note.  (The config is written when the notebook is created.)  The
\* consumer's per-notebook lock keeps saves out of every call but the network phase.
SaveFile(d, f, e) ==
    /\ notebook[d] /\ f # Meta
    /\ pc[d] = "idle" \/ op[d] = "network"
    /\ SaveOverConflict \/ conflicts[d] = {}
    /\ SameEdits \/ \A c \in Devices: e \notin pending[c] \cup committed[c]
    /\ e \notin pending[d] \cup committed[d]
    /\ work' = [work EXCEPT ![d] = WithNote(@, f, {e})]
    /\ pending' = [pending EXCEPT ![d] = (@ \ work[d].notes[f]) \cup {e}]
    /\ UNCHANGED <<remote, setupVars, refVars, todo, conflicts, index, handle, callVars, failures,
                   restarts, committed, dropped>>

\* The process ends.  What Initialize or a clone had begun stays on disk; a crash
\* inside git_repository_init_ext may leave a directory without a HEAD.
Left(d) == {repo[d]} \cup (IF pc[d] = "initRepo" THEN {"noHead"} ELSE {})

Restart(d) ==
    /\ restarts < MaxRestarts /\ failures + restarts < MaxFaults
    /\ (IF pc[d] = "idle" THEN "idle" ELSE op[d]) \in Interrupted
    /\ restarts' = restarts + 1
    /\ enabled' = [enabled EXCEPT ![d] = FALSE]
    /\ handle' = [handle EXCEPT ![d] = FALSE]
    /\ \E left \in Left(d): repo' = [repo EXCEPT ![d] = left]
    /\ pc' = [pc EXCEPT ![d] = "idle"]
    /\ op' = [op EXCEPT ![d] = "none"]
    /\ attempt' = [attempt EXCEPT ![d] = 0]
    /\ res' = [res EXCEPT ![d] = "none"]
    /\ UNCHANGED <<remote, notebook, refVars, todo, fileVars, failures, ghostVars>>

-----------------------------------------------------------------------------
(* Calls *)

Goto(d, l) == pc' = [pc EXCEPT ![d] = l] /\ UNCHANGED <<op, attempt, res>>

Return(d, r) ==
    /\ pc' = [pc EXCEPT ![d] = "idle"]
    /\ res' = [res EXCEPT ![d] = r]
    /\ attempt' = [attempt EXCEPT ![d] = 0]
    /\ UNCHANGED op

Begin(d, o, l) ==
    /\ pc' = [pc EXCEPT ![d] = l]
    /\ op' = [op EXCEPT ![d] = o]
    /\ attempt' = [attempt EXCEPT ![d] = 1]
    /\ res' = [res EXCEPT ![d] = "none"]

FirstStep(d, o) == IF o = "network" THEN "fetch" ELSE "stage"

\* Sync, StageAndCommit or FetchRebasePush is called.
StartCall(d, o) ==
    /\ pc[d] = "idle"
    /\ enabled[d]
    /\ o \in Calls
    /\ SyncOverConflict \/ conflicts[d] = {}
    /\ Begin(d, o, FirstStep(d, o))
    /\ UNCHANGED <<remote, setupVars, refVars, todo, fileVars, handle, failures, restarts,
                   ghostVars>>

\* StageAll: the working tree as it is, conflict markers included.
StageAll(d) ==
    /\ pc[d] = "stage"
    /\ index' = [index EXCEPT ![d] = work[d]]
    /\ conflicts' = [conflicts EXCEPT ![d] = {}]
    /\ Goto(d, "commit")
    /\ UNCHANGED <<remote, setupVars, refVars, todo, work, handle, failures, restarts, ghostVars>>

\* h grows by a commit of tree T made on d.
NewCommit(h, T, d) == Append(h, [tree |-> T, by |-> d])

\* The index's tree is that of HEAD: no empty commit is made, but on an unborn branch.
NothingStaged(d) == TRUE  \* mutant
NothingToCommit(d) == HeadHistory(d) # <<>> /\ index[d] = TipTree(HeadHistory(d))

CommitIndex(d) ==
    LET h == IF NothingToCommit(d) THEN HeadHistory(d)
             ELSE NewCommit(HeadHistory(d), index[d], d)
    IN  /\ pc[d] = "commit"
        /\ IF detached[d]
             THEN head' = [head EXCEPT ![d] = h] /\ UNCHANGED branch
             ELSE branch' = [branch EXCEPT ![d] = h] /\ UNCHANGED head
        /\ pending' = [pending EXCEPT ![d] = @ \ EditsIn(h)]
        /\ committed' = [committed EXCEPT ![d] = @ \cup EditsOf(TipTree(h))]
        /\ CASE op[d] = "stage" -> Return(d, "ok")
             [] op[d] = "init" -> Goto(d, "push")
             [] OTHER -> Goto(d, "fetch")
        /\ UNCHANGED <<remote, setupVars, track, detached, todo, fileVars, handle, failures, restarts,
                       dropped>>

FetchOrigin(d) ==
    /\ pc[d] = "fetch"
    /\ track' = [track EXCEPT ![d] = remote]
    /\ Goto(d, IF op[d] \in {"init", "clone"} THEN "checkout" ELSE "rebase")
    /\ UNCHANGED <<remote, setupVars, branch, detached, head, todo, fileVars, handle, failures,
                   restarts, ghostVars>>

\* A fetch that fails is not retried.
FetchFails(d) ==
    /\ pc[d] = "fetch"
    /\ failures < MaxFailures /\ failures + restarts < MaxFaults
    /\ failures' = failures + 1
    /\ Return(d, "error")
    /\ UNCHANGED <<remote, setupVars, refVars, todo, fileVars, handle, restarts, ghostVars>>

-----------------------------------------------------------------------------
(* RebaseOntoOrigin *)

\* The remote is ahead of the branch.
RemoteNotIncluded(d) == ~IsPrefix(track[d], branch[d])  \* mutant
RemoteAhead(d) == branch[d] # <<>> /\ IsStrictPrefix(branch[d], track[d])

\* An unborn branch has no commits and a detached HEAD no upstream; an equal or
\* local-ahead branch has nothing to rebase.
SkipRebase(d) ==
    /\ pc[d] = "rebase"
    /\ branch[d] = <<>> \/ detached[d] \/ IsPrefix(track[d], branch[d])
    /\ Goto(d, "push")
    /\ UNCHANGED <<remote, setupVars, refVars, todo, fileVars, handle, failures, restarts, ghostVars>>

\* Fast-forward: a forced checkout, then the ref is moved.
FastForwardCheckout(d) ==
    /\ pc[d] = "rebase"
    /\ ~detached[d]
    /\ RemoteAhead(d)
    /\ work' = [work EXCEPT ![d] = ForceCheckout(d, TipTree(track[d]))]
    /\ index' = [index EXCEPT ![d] = TipTree(track[d])]
    /\ Goto(d, "ffRef")
    /\ UNCHANGED <<remote, setupVars, refVars, todo, conflicts, handle, failures, restarts, ghostVars>>

FastForwardRef(d) ==
    /\ pc[d] = "ffRef"
    /\ branch' = [branch EXCEPT ![d] = track[d]]
    /\ Goto(d, "push")
    /\ UNCHANGED <<remote, setupVars, track, detached, head, todo, fileVars, handle, failures,
                   restarts, ghostVars>>

Diverged(d) ==
    /\ branch[d] # <<>> /\ ~detached[d]
    /\ ~RemoteAhead(d)
    /\ ~IsPrefix(track[d], branch[d])

\* git_rebase_init: the working tree becomes that of the remote.
RebaseInit(d) ==
    /\ pc[d] = "rebase"
    /\ Diverged(d)
    /\ ~Dirty(d) /\ ~Obstructed(d, TipTree(track[d]))
    /\ detached' = [detached EXCEPT ![d] = TRUE]
    /\ head' = [head EXCEPT ![d] = track[d]]
    /\ todo' = [todo EXCEPT ![d] = PatchesSince(branch[d], track[d])]
    /\ work' = [work EXCEPT ![d] = SafeCheckout(d, TipTree(track[d]))]
    /\ index' = [index EXCEPT ![d] = TipTree(track[d])]
    /\ handle' = [handle EXCEPT ![d] = TRUE]
    /\ Goto(d, "replay")
    /\ UNCHANGED <<remote, setupVars, branch, track, conflicts, failures, restarts, ghostVars>>

\* It refuses while the working tree has changes that are not committed; a checkout
\* error is reported as a conflict.
RebaseRefused(d) ==
    /\ pc[d] = "rebase"
    /\ Diverged(d)
    /\ \/ Dirty(d) /\ Return(d, "error")
       \/ ~Dirty(d) /\ Obstructed(d, TipTree(track[d])) /\ Return(d, "conflict")
    /\ UNCHANGED <<remote, setupVars, refVars, todo, fileVars, handle, failures, restarts, ghostVars>>

-----------------------------------------------------------------------------
(* DriveRebaseLoop, for RebaseOntoOrigin or for ContinueRebaseAfterResolution *)

\* The step of the loop at the first patch, its result and its conflicts.
Ours(d) == TipTree(head[d])
StepTree(d) == Merged(todo[d][1], Ours(d))
StepConflicts(d) == Conflicting(todo[d][1], Ours(d))
Replaying(d) == pc[d] = "replay" /\ todo[d] # <<>>

\* git_rebase_next refuses to overwrite a local change.  The handle is freed; what
\* is on disk stays.
ReplayObstructed(d) ==
    /\ Replaying(d)
    /\ Obstructed(d, StepTree(d))
    /\ handle' = [handle EXCEPT ![d] = FALSE]
    /\ Return(d, IF op[d] = "resolve" THEN "error" ELSE "conflict")
    /\ UNCHANGED <<remote, setupVars, refVars, todo, fileVars, failures, restarts, ghostVars>>

\* The step has conflicts: the rebase is left in progress.
ReplayConflict(d) ==
    /\ Replaying(d)
    /\ ~Obstructed(d, StepTree(d))
    /\ StepConflicts(d) # {}
    /\ conflicts' = [conflicts EXCEPT ![d] = StepConflicts(d)]
    /\ work' = [work EXCEPT ![d] = SafeCheckout(d, StepTree(d))]
    /\ index' = [index EXCEPT ![d] = StepTree(d)]
    /\ Return(d, IF op[d] = "resolve" THEN "ok" ELSE "conflict")
    /\ UNCHANGED <<remote, setupVars, refVars, todo, handle, failures, restarts, ghostVars>>

\* git_rebase_commit: GIT_EAPPLIED is an error unless the loop allows it.
EmptyStep(d) == StepTree(d) = Ours(d)
AllowEapplied(d) == op[d] = "resolve"

ReplayCommit(d) ==
    /\ Replaying(d)
    /\ ~Obstructed(d, StepTree(d))
    /\ StepConflicts(d) = {}
    /\ work' = [work EXCEPT ![d] = SafeCheckout(d, StepTree(d))]
    /\ index' = [index EXCEPT ![d] = StepTree(d)]
    /\ IF Unstaged(d)' \/ (EmptyStep(d) /\ ~AllowEapplied(d))
         THEN /\ handle' = [handle EXCEPT ![d] = FALSE]
              /\ Return(d, "error")
              /\ UNCHANGED <<head, todo>>
         ELSE /\ head' = IF EmptyStep(d) THEN head
                         ELSE [head EXCEPT ![d] = NewCommit(@, StepTree(d), d)]
              /\ todo' = [todo EXCEPT ![d] = Tail(@)]
              /\ Goto(d, "replay")
              /\ UNCHANGED handle
    /\ UNCHANGED <<remote, setupVars, branch, track, detached, conflicts, failures, restarts, ghostVars>>

\* GIT_ITEROVER: git_rebase_finish puts the branch where HEAD is.
FinishRebase(d) ==
    /\ pc[d] = "replay"
    /\ todo[d] = <<>>
    /\ branch' = [branch EXCEPT ![d] = head[d]]
    /\ detached' = [detached EXCEPT ![d] = FALSE]
    /\ head' = [head EXCEPT ![d] = <<>>]
    /\ handle' = [handle EXCEPT ![d] = FALSE]
    /\ IF op[d] = "resolve" THEN Return(d, "ok") ELSE Goto(d, "push")
    /\ UNCHANGED <<remote, setupVars, track, todo, fileVars, failures, restarts, ghostVars>>

-----------------------------------------------------------------------------
(* PushOrigin and the retry loop *)

\* The refspec names the branch HEAD is on; a detached HEAD is on none, an unborn one
\* has nothing to push.
HasBranch(d) == branch[d] # <<>> /\ ~detached[d]
PushedRef(d) == branch[d]

\* The server accepts a fast-forward only.
ForcePush(d) == TRUE  \* mutant
FastForward(d) == IsPrefix(remote, PushedRef(d))

PushWithoutBranch(d) ==
    /\ pc[d] = "push"
    /\ ~HasBranch(d)
    /\ Return(d, "error")
    /\ UNCHANGED <<remote, setupVars, refVars, todo, fileVars, handle, failures, restarts, ghostVars>>

PushOrigin(d) ==
    /\ pc[d] = "push"
    /\ HasBranch(d)
    /\ FastForward(d)
    /\ remote' = PushedRef(d)
    /\ track' = [track EXCEPT ![d] = PushedRef(d)]
    /\ Return(d, "ok")
    /\ enabled' = [enabled EXCEPT ![d] = TRUE]
    /\ UNCHANGED <<notebook, repo, branch, detached, head, todo, fileVars, handle, failures,
                   restarts, ghostVars>>

\* The next attempt starts with a fetch; Initialize pushes once.
Retry(d) ==
    IF op[d] # "init" /\ attempt[d] < MaxAttempts
      THEN /\ attempt' = [attempt EXCEPT ![d] = @ + 1]
           /\ pc' = [pc EXCEPT ![d] = "fetch"]
           /\ UNCHANGED <<op, res>>
      ELSE Return(d, "error")

PushRejected(d) ==
    /\ pc[d] = "push"
    /\ HasBranch(d)
    /\ ~FastForward(d)
    /\ Retry(d)
    /\ UNCHANGED <<remote, setupVars, refVars, todo, fileVars, handle, failures, restarts, ghostVars>>

\* The connection breaks, before or after the server has moved its ref, or the
\* server refuses the credentials.
PushFails(d) ==
    /\ pc[d] = "push"
    /\ HasBranch(d)
    /\ failures < MaxFailures /\ failures + restarts < MaxFaults
    /\ failures' = failures + 1
    /\ \/ Retry(d) /\ UNCHANGED remote
       \/ Retry(d) /\ FastForward(d) /\ remote' = PushedRef(d)
       \/ Return(d, "error") /\ UNCHANGED remote
    /\ UNCHANGED <<setupVars, refVars, todo, fileVars, handle, restarts, ghostVars>>

-----------------------------------------------------------------------------
(* ResolveConflict *)

\* What the note and the copies become, whatever the file holds: during a rebase
\* libgit2's "their" side is the local one.
LocalSide(d, f) == todo[d][1].tree.notes[f]
RemoteSide(d, f) == Ours(d).notes[f]

LeaveMarkers(T, d, f, r) == T  \* mutant

Resolve(T, d, f, r) ==
    CASE r = "keepLocal"  -> WithNote(T, f, LocalSide(d, f))
      [] r = "keepRemote" -> WithNote(T, f, RemoteSide(d, f))
      [] r = "keepBoth"   -> [notes |-> WithNote(T, f, RemoteSide(d, f)).notes,
                              copies |-> T.copies \cup LocalSide(d, f)]

\* The path has no conflict: trivially resolved.
ResolveNothing(d, f) ==
    /\ pc[d] = "idle"
    /\ enabled[d]
    /\ f \notin conflicts[d]
    /\ op' = [op EXCEPT ![d] = "resolve"]
    /\ res' = [res EXCEPT ![d] = "ok"]
    /\ UNCHANGED <<remote, setupVars, refVars, todo, fileVars, handle, pc, attempt, failures,
                   restarts, ghostVars>>

\* The side is written and staged, then the rebase goes on if it can.
ResolveConflict(d, f, r) ==
    /\ pc[d] = "idle"
    /\ enabled[d]
    /\ f \in conflicts[d]
    /\ work' = [work EXCEPT ![d] = Resolve(@, d, f, r)]
    /\ index' = [index EXCEPT ![d] = Resolve(@, d, f, r)]
    /\ conflicts' = [conflicts EXCEPT ![d] = @ \ {f}]
    /\ pending' = [pending EXCEPT ![d] = @ \ work[d].notes[f]]
    /\ dropped' = IF r = "keepRemote" THEN dropped \cup LocalSide(d, f) ELSE dropped
    /\ op' = [op EXCEPT ![d] = "resolve"]
    /\ attempt' = attempt
    /\ IF ~handle[d]
         THEN /\ pc' = pc
              /\ res' = [res EXCEPT ![d] = "ok"]
              /\ UNCHANGED <<head, todo>>
         ELSE IF conflicts'[d] # {} \/ Unstaged(d)'
         THEN /\ pc' = pc
              /\ res' = [res EXCEPT ![d] = "error"]
              /\ UNCHANGED <<head, todo>>
         ELSE /\ pc' = [pc EXCEPT ![d] = "replay"]
              /\ res' = [res EXCEPT ![d] = "none"]
              /\ head' = IF index'[d] = Ours(d) THEN head
                         ELSE [head EXCEPT ![d] = NewCommit(@, index'[d], d)]
              /\ todo' = [todo EXCEPT ![d] = Tail(@)]
    /\ UNCHANGED <<remote, setupVars, branch, track, detached, handle, failures, restarts, committed>>

-----------------------------------------------------------------------------
(* Initialize and CloneNotebook *)

\* A notebook is created: its config is the first thing to be shared.
CreateNotebook(d, e) ==
    /\ pc[d] = "idle"
    /\ ~notebook[d] /\ repo[d] = "none"
    /\ \A c \in Devices: e \notin pending[c] \cup committed[c]
    /\ notebook' = [notebook EXCEPT ![d] = TRUE]
    /\ work' = [work EXCEPT ![d] = WithNote(@, Meta, {e})]
    /\ pending' = [pending EXCEPT ![d] = {e}]
    /\ UNCHANGED <<remote, repo, enabled, refVars, todo, conflicts, index, handle, callVars,
                   failures, restarts, committed, dropped>>

\* Anything beside vx_notebook.
HasUserFiles(d) == \E f \in Files \ {Meta}: work[d].notes[f] # {}

\* Files here and refs there, or a repository that is not whole.
MustRefuse(d) ==
    \/ repo[d] \in {"noHead", "noOrigin"}
    \/ repo[d] = "none" /\ HasUserFiles(d) /\ remote # <<>>

InitializeCalled(d) == pc[d] = "idle" /\ notebook[d] /\ ~enabled[d]

InitializeRefused(d) ==
    /\ InitializeCalled(d)
    /\ MustRefuse(d)
    /\ op' = [op EXCEPT ![d] = "init"]
    /\ res' = [res EXCEPT ![d] = "error"]
    /\ UNCHANGED <<remote, setupVars, refVars, todo, fileVars, handle, pc, attempt, failures,
                   restarts, ghostVars>>

OpenExistingRepo(d) ==
    /\ InitializeCalled(d)
    /\ repo[d] = "ready"
    /\ enabled' = [enabled EXCEPT ![d] = TRUE]
    /\ op' = [op EXCEPT ![d] = "init"]
    /\ res' = [res EXCEPT ![d] = "ok"]
    /\ UNCHANGED <<remote, notebook, repo, refVars, todo, fileVars, handle, pc, attempt,
                   failures, restarts, ghostVars>>

Bootstrap(d) ==
    /\ InitializeCalled(d)
    /\ repo[d] = "none" /\ ~MustRefuse(d)
    /\ Begin(d, "init", "initRepo")
    /\ UNCHANGED <<remote, setupVars, refVars, todo, fileVars, handle, failures, restarts,
                   ghostVars>>

\* RemoteHasRefs answers false when it cannot reach the remote.
BootstrapUnchecked(d) ==
    /\ InitializeCalled(d)
    /\ repo[d] = "none" /\ HasUserFiles(d)
    /\ failures < MaxFailures /\ failures + restarts < MaxFaults
    /\ failures' = failures + 1
    /\ Begin(d, "init", "initRepo")
    /\ UNCHANGED <<remote, setupVars, refVars, todo, fileVars, handle, restarts, ghostVars>>

\* CloneNotebook: into an empty directory, by a backend of its own.
CloneNotebook(d) ==
    /\ pc[d] = "idle"
    /\ ~notebook[d] /\ repo[d] = "none"
    /\ Begin(d, "clone", "initRepo")
    /\ UNCHANGED <<remote, setupVars, refVars, todo, fileVars, handle, failures, restarts,
                   ghostVars>>

\* InitEmptyRepoWithRemote: the repository, then its origin.
InitRepo(d) ==
    /\ pc[d] = "initRepo"
    /\ repo' = [repo EXCEPT ![d] = "noOrigin"]
    /\ Goto(d, "addOrigin")
    /\ UNCHANGED <<remote, notebook, enabled, refVars, todo, fileVars, handle, failures,
                   restarts, ghostVars>>

\* BootstrapToEmptyRemote goes on with a commit and one push, BootstrapFromEmptyRemote
\* with a fetch.
AddOrigin(d) ==
    /\ pc[d] = "addOrigin"
    /\ repo' = [repo EXCEPT ![d] = "ready"]
    /\ Goto(d, IF HasUserFiles(d) THEN "stage" ELSE "fetch")
    /\ UNCHANGED <<remote, notebook, enabled, refVars, todo, fileVars, handle, failures,
                   restarts, ghostVars>>

\* Initialize has set initialized_; a clone's backend goes, and the notebook is opened.
Bootstrapped(d) ==
    IF op[d] = "clone" THEN Goto(d, "openClone") /\ UNCHANGED enabled
    ELSE Return(d, "ok") /\ enabled' = [enabled EXCEPT ![d] = TRUE]

NothingToCheckOut(d) ==
    /\ pc[d] = "checkout"
    /\ track[d] = <<>>
    /\ Bootstrapped(d)
    /\ UNCHANGED <<remote, notebook, repo, refVars, todo, fileVars, handle, failures,
                   restarts, ghostVars>>

\* The first checkout is a safe one.
ForcedFirst(d) == FALSE  \* mutant
FirstObstructed(d) == Obstructed(d, TipTree(track[d]))

FirstCheckoutRefused(d) ==
    /\ pc[d] = "checkout"
    /\ FirstObstructed(d)
    /\ Return(d, "error")
    /\ UNCHANGED <<remote, setupVars, refVars, todo, fileVars, handle, failures, restarts,
                   ghostVars>>

FirstCheckout(d) ==
    /\ pc[d] = "checkout"
    /\ track[d] # <<>> /\ ~FirstObstructed(d)
    /\ work' = [work EXCEPT ![d] = SafeCheckout(d, TipTree(track[d]))]
    /\ index' = [index EXCEPT ![d] = TipTree(track[d])]
    /\ Goto(d, "initRef")
    /\ UNCHANGED <<remote, setupVars, refVars, todo, conflicts, handle, failures, restarts,
                   ghostVars>>

FirstRef(d) ==
    /\ pc[d] = "initRef"
    /\ branch' = [branch EXCEPT ![d] = track[d]]
    /\ Bootstrapped(d)
    /\ UNCHANGED <<remote, notebook, repo, track, detached, head, todo, fileVars, handle,
                   failures, restarts, ghostVars>>

\* The clone is a notebook if it has a config.
OpenClone(d) ==
    /\ pc[d] = "openClone"
    /\ IF work[d].notes[Meta] # {}
         THEN notebook' = [notebook EXCEPT ![d] = TRUE] /\ Return(d, "ok")
         ELSE Return(d, "error") /\ UNCHANGED notebook
    /\ UNCHANGED <<remote, repo, enabled, refVars, todo, fileVars, handle, failures, restarts,
                   ghostVars>>

\* The token is looked at before, during the fetch, and after.
CloneCancelled(d) ==
    /\ op[d] = "clone"
    /\ pc[d] \in {"initRepo", "fetch", "openClone"}
    /\ Return(d, "error")
    /\ UNCHANGED <<remote, setupVars, refVars, todo, fileVars, handle, failures, restarts,
                   ghostVars>>

\* A clone that did not become a notebook is removed by its caller.
DiscardClone(d) ==
    /\ pc[d] = "idle"
    /\ ~notebook[d] /\ repo[d] # "none"
    /\ repo' = [repo EXCEPT ![d] = "none"]
    /\ branch' = [branch EXCEPT ![d] = <<>>]
    /\ track' = [track EXCEPT ![d] = <<>>]
    /\ work' = [work EXCEPT ![d] = Empty]
    /\ index' = [index EXCEPT ![d] = Empty]
    /\ UNCHANGED <<remote, notebook, enabled, detached, head, todo, conflicts, handle,
                   callVars, failures, restarts, ghostVars>>

-----------------------------------------------------------------------------
(* Specification *)

Call(d) == \E o \in Calls: StartCall(d, o)
Settle(d) == \E f \in Files, r \in Resolutions: ResolveConflict(d, f, r)

Enable(d) ==
    InitializeRefused(d) \/ OpenExistingRepo(d) \/ Bootstrap(d) \/ BootstrapUnchecked(d)

Continue(d) ==
    \/ InitRepo(d) \/ AddOrigin(d) \/ OpenClone(d)
    \/ NothingToCheckOut(d) \/ FirstCheckoutRefused(d) \/ FirstCheckout(d) \/ FirstRef(d)
    \/ StageAll(d) \/ CommitIndex(d) \/ FetchOrigin(d) \/ FetchFails(d)
    \/ SkipRebase(d) \/ FastForwardCheckout(d) \/ FastForwardRef(d)
    \/ RebaseInit(d) \/ RebaseRefused(d)
    \/ ReplayObstructed(d) \/ ReplayConflict(d) \/ ReplayCommit(d) \/ FinishRebase(d)
    \/ PushWithoutBranch(d) \/ PushOrigin(d) \/ PushRejected(d) \/ PushFails(d)

Next ==
    \E d \in Devices:
        \/ \E f \in Files, e \in Edits: SaveFile(d, f, e)
        \/ \E e \in Edits: CreateNotebook(d, e)
        \/ Enable(d) \/ CloneNotebook(d) \/ CloneCancelled(d) \/ DiscardClone(d)
        \/ Restart(d)
        \/ Call(d) \/ Continue(d) \/ Settle(d)
        \/ \E f \in Files: ResolveNothing(d, f)

Spec == Init /\ [][Next]_vars

\* A call under way runs on, the consumer enables a notebook and calls again (its
\* periodic tick), and users resolve the conflicts they are shown.
Fairness ==
    \A d \in Devices:
        WF_vars(Enable(d)) /\ WF_vars(Continue(d)) /\ WF_vars(Call(d)) /\ WF_vars(Settle(d))

FairSpec == Spec /\ Fairness

-----------------------------------------------------------------------------
(* Safety *)

\* An edit a user has saved stays in the working tree until a commit has it:
\* StageAll picks it up before anything the pipeline does to the files.
SavedEditsSurvive == \A d \in Devices: pending[d] \subseteq EditsOf(work[d])

\* What a device has committed is never lost, whatever the fast-forward, the rebase,
\* the resolutions, the failures and the restarts do, unless a user chose to keep
\* the remote side: it is in the history of the branch or of a rebase that is not
\* finished.
CommittedEditsSurvive ==
    \A d \in Devices:
        committed[d] \subseteq dropped \cup EditsIn(branch[d]) \cup EditsIn(head[d])

\* A Sync or FetchRebasePush that answers VXCORE_OK has published everything the
\* device has committed, and no later push of another device takes it away.
SyncedMeansPublished ==
    \A d \in Devices:
        pc[d] = "idle" /\ op[d] \in {"sync", "network"} /\ res[d] = "ok"
            => committed[d] \subseteq dropped \cup EditsIn(remote)

\* Conflict markers never reach the other devices, not even when the consumer syncs
\* over a conflict: a resolution rewrites the note with one side, and a detached
\* HEAD is never pushed.
MarkersNeverPublished ==
    \A i \in DOMAIN remote: \A f \in Files: Cardinality(remote[i].tree.notes[f]) <= 1

History == INSTANCE SharedHistory WITH log <- remote, seen <- track

\* Fetch, push and retry implement one shared history that only grows, at its end,
\* by commits of the device that pushes.
ImplementsSharedHistory == History!Spec

-----------------------------------------------------------------------------
(* Liveness *)

\* Once users stop editing and the network stops failing, syncs, retries and
\* resolutions bring every device on which Initialize succeeded, at once or after one
\* that failed or was cut short, to the same history and the same files.
Converges ==
    <>[](\A d \in Devices: enabled[d] => branch[d] = remote /\ work[d] = TipTree(remote))

-----------------------------------------------------------------------------
(* What comments say, and the code does not do *)

\* RebaseOntoOrigin: "On conflict, leave rebase_in_progress_ set so ResolveConflict
\* can resume (the on-disk rebase state under .git/rebase-merge is also preserved)".
\* Resolving a conflict one is shown resumes the rebase.
ConflictResumesRebase ==
    \A d \in Devices: pc[d] = "idle" /\ conflicts[d] # {} => handle[d]

\* The same comment: a rebase that is left in progress has a conflict to resolve.
StoppedRebaseHasConflict ==
    \A d \in Devices: pc[d] = "idle" /\ handle[d] => conflicts[d] # {}

\* DriveRebaseLoop: "Fresh RebaseOntoOrigin replays never observe GIT_EAPPLIED".
FreshReplayHasNoEmptyStep ==
    \A d \in Devices:
        Replaying(d) /\ ~AllowEapplied(d) /\ ~Obstructed(d, StepTree(d)) => ~EmptyStep(d)

\* ContinueRebaseAfterResolution: "ResolveConflict signals OK because the user's
\* requested resolution did succeed".
AppliedResolutionSignalsOk ==
    [][\A d \in Devices, f \in Files, r \in Resolutions:
        ResolveConflict(d, f, r) => res'[d] # "error"]_vars
==============================================================================
