----------------------------- MODULE SyncManager -----------------------------
(***************************************************************************)
(* The runtime registration of one notebook in vxcore's SyncManager and    *)
(* the calls that several threads make on it: src/sync/sync_manager.cpp.   *)
(*                                                                         *)
(* SyncManager keeps three maps keyed by notebook id (configs_cache_,      *)
(* states_, backends_), all guarded by state_mutex_, which it releases     *)
(* before every call into a backend.  Every operation touches the entries  *)
(* of its own notebook only, so the model keeps the three entries of one   *)
(* notebook.  A step of the model is a critical section of state_mutex_, a *)
(* call into the backend, or a point where another thread may come in      *)
(* between.                                                                *)
(*                                                                         *)
(* The backend is GitSyncBackend seen from outside: an object with a       *)
(* mutex (op_mutex_) that Sync, StageAndCommit and FetchRebasePush try to  *)
(* take, that the other calls and the destructor wait for, and a slot for  *)
(* the cancellation token.  What a sync does to the files is module        *)
(* GitSync.                                                                *)
(***************************************************************************)
EXTENDS Integers, FiniteSets

CONSTANTS
    Threads,      \* threads that call into SyncManager
    Backends,     \* identities a constructed backend object may get
    Configs,      \* values of SyncConfig
    Ops,          \* operations the environment calls
    Serialized,   \* operations the consumer runs under its per-notebook lock
    MaxCalls,     \* bound on the number of calls
    None          \* no entry, no object, no thread

\* Where a thread is about to use the backend it points to, ...
UsesPointer == {"setToken", "opEnter", "opStage", "opNet", "netRun", "reenter",
                "clearToken", "conflictList", "wait", "remaining", "swapCreds"}
\* ... where it holds that backend's op_mutex_ ...
HoldsOp == {"opStage", "opNet", "netRun", "reenter"}
\* ... and where it owns a backend object that is in no map.
Owns == {"publish", "swap", "destroy"}
Labels == UsesPointer \cup Owns \cup
          {"idle", "build", "rollback", "record", "synced", "finished", "flip",
           "event", "mark", "cached", "read", "store", "wake"}

LifecycleOps == {"enable", "disable", "unregister"}
PhaseOps == {"trigger", "stage", "network"}   \* take op_mutex_ or give up
WaitOps == {"status", "conflicts", "resolve"} \* wait for op_mutex_
PointerOps == PhaseOps \cup WaitOps \cup {"creds"}
AllOps == LifecycleOps \cup PointerOps \cup
          {"getcfg", "edit", "update", "invalidate", "cleardirty"}

States == {"idle", "staging", "error", "conflicted"}
Results == {"ok", "conflict", "busy", "error"}

ASSUME ConstantsAssumption ==
    /\ Ops \subseteq AllOps
    /\ Serialized \subseteq Ops
    /\ MaxCalls \in Nat
    /\ None \notin Threads \cup Backends \cup Configs \cup AllOps \cup States

VARIABLES
    cfg,        \* configs_cache_[id], or None
    st,         \* states_[id], or None
    be,         \* backends_[id], or None
    mutex,      \* the thread that keeps state_mutex_ across a blocking call, or None
    dirty,      \* DirtyTracker lists the notebook
    json,       \* the sync_* fields of the notebook's own config
    lastSync,   \* metadata.db holds a last-successful-sync time
    alive,      \* backend objects constructed and not yet destroyed
    opMutex,    \* opMutex[b]: the thread that holds b's op_mutex_, or None
    slot,       \* slot[b]: the cancellation token installed in b, or None
    pc,         \* pc[t]: where thread t is
    op,         \* op[t]: the operation t runs, or None
    arg,        \* arg[t]: the SyncConfig argument or out-parameter, or None
    ptr,        \* ptr[t]: the backend t points to or owns, or None
    prevCfg,    \* prevCfg[t], prevSt[t]: EnableSyncImpl's snapshot
    prevSt,
    tok,        \* tok[t]: the token passed to the call (a thread names its token)
    snap,       \* snap[t]: the token the running phase works with
    res,        \* res[t]: the result of the backend call
    nbLock,     \* the holder of the consumer's per-notebook lock, or None
    calls,      \* calls started so far
    unstaged    \* a change saved while the notebook was registered is in no commit

mapVars == <<cfg, st, be>>
backendVars == <<alive, opMutex, slot>>
localVars == <<op, arg, ptr, prevCfg, prevSt, tok, snap, res>>
vars == <<cfg, st, be, mutex, dirty, json, lastSync, alive, opMutex, slot, pc,
          op, arg, ptr, prevCfg, prevSt, tok, snap, res, nbLock, calls, unstaged>>

TypeOK ==
    /\ cfg \in Configs \cup {None}
    /\ st \in States \cup {None}
    /\ be \in Backends \cup {None}
    /\ mutex \in Threads \cup {None}
    /\ dirty \in BOOLEAN
    /\ json \in Configs
    /\ lastSync \in BOOLEAN
    /\ alive \subseteq Backends
    /\ opMutex \in [Backends -> Threads \cup {None}]
    /\ slot \in [Backends -> Threads \cup {None}]
    /\ pc \in [Threads -> Labels]
    /\ op \in [Threads -> AllOps \cup {None}]
    /\ arg \in [Threads -> Configs \cup {None}]
    /\ ptr \in [Threads -> Backends \cup {None}]
    /\ prevCfg \in [Threads -> Configs \cup {None}]
    /\ prevSt \in [Threads -> States \cup {None}]
    /\ tok \in [Threads -> Threads \cup {None}]
    /\ snap \in [Threads -> Threads \cup {None}]
    /\ res \in [Threads -> Results]
    /\ nbLock \in Threads \cup {None}
    /\ calls \in 0..MaxCalls
    /\ unstaged \in BOOLEAN

\* A new process: nothing is registered, whatever the notebook's config says.
Init ==
    /\ cfg = None /\ st = None /\ be = None
    /\ mutex = None
    /\ dirty = FALSE
    /\ json \in Configs
    /\ lastSync = FALSE
    /\ alive = {}
    /\ opMutex = [b \in Backends |-> None]
    /\ slot = [b \in Backends |-> None]
    /\ pc = [t \in Threads |-> "idle"]
    /\ op = [t \in Threads |-> None]
    /\ arg = [t \in Threads |-> None]
    /\ ptr = [t \in Threads |-> None]
    /\ prevCfg = [t \in Threads |-> None]
    /\ prevSt = [t \in Threads |-> None]
    /\ tok = [t \in Threads |-> None]
    /\ snap = [t \in Threads |-> None]
    /\ res = [t \in Threads |-> "ok"]
    /\ nbLock = None
    /\ calls = 0
    /\ unstaged = FALSE

-----------------------------------------------------------------------------
(* Calls and returns *)

Goto(t, l) == pc' = [pc EXCEPT ![t] = l]

\* Idle thread t calls o, within the bound on calls; a serialized operation
\* needs the consumer's per-notebook lock.
Begin(t, o) ==
    /\ pc[t] = "idle"
    /\ o \in Ops
    /\ o \in Serialized => nbLock = None
    /\ calls < MaxCalls
    /\ calls' = calls + 1

\* A call that goes on at l, and one that is over within this step.
Enter(t, o, l) ==
    /\ Begin(t, o)
    /\ op' = [op EXCEPT ![t] = o]
    /\ Goto(t, l)
    /\ nbLock' = IF o \in Serialized THEN t ELSE nbLock

Once(t, o) == Begin(t, o) /\ UNCHANGED <<pc, localVars, nbLock>>

\* t's call returns: its locals die and the consumer's lock is released.
Return(t) ==
    /\ Goto(t, "idle")
    /\ op' = [op EXCEPT ![t] = None]
    /\ arg' = [arg EXCEPT ![t] = None]
    /\ ptr' = [ptr EXCEPT ![t] = None]
    /\ prevCfg' = [prevCfg EXCEPT ![t] = None]
    /\ prevSt' = [prevSt EXCEPT ![t] = None]
    /\ tok' = [tok EXCEPT ![t] = None]
    /\ snap' = [snap EXCEPT ![t] = None]
    /\ res' = [res EXCEPT ![t] = "ok"]
    /\ nbLock' = IF nbLock = t THEN None ELSE nbLock

\* state_mutex_ can be taken.
Unlocked == mutex = None

\* The object t points to exists and its op_mutex_ is free.
CanLockOpNoWait(t) == ptr[t] \in alive  \* mutant: op_mutex_ is not looked at
CanLockOp(t) == ptr[t] \in alive /\ opMutex[ptr[t]] = None

\* t points to a destroyed object: what a call on it does is undefined.
Dangling(t) == ptr[t] \notin alive

-----------------------------------------------------------------------------
(* EnableSync *)

\* First critical section: snapshot the entries, then seed them.
EnableSync(t) ==
    /\ Enter(t, "enable", "build")
    /\ Unlocked
    /\ \E c \in Configs: cfg' = c /\ arg' = [arg EXCEPT ![t] = c]
    /\ st' = "idle"
    /\ prevCfg' = [prevCfg EXCEPT ![t] = cfg]
    /\ prevSt' = [prevSt EXCEPT ![t] = st]
    /\ UNCHANGED <<be, mutex, dirty, json, lastSync, backendVars, ptr, tok, snap,
                   res, unstaged>>

\* The factory constructs the backend and Initialize succeeds, outside the
\* lock.  A dangling pointer keeps the identity it points to out of use.
BuildBackend(t) ==
    /\ pc[t] = "build"
    /\ \E b \in Backends \ alive:
        /\ \A u \in Threads: ptr[u] # b
        /\ alive' = alive \cup {b}
        /\ ptr' = [ptr EXCEPT ![t] = b]
        /\ opMutex' = [opMutex EXCEPT ![b] = None]
        /\ slot' = [slot EXCEPT ![b] = None]
    /\ Goto(t, "publish")
    /\ UNCHANGED <<mapVars, mutex, dirty, json, lastSync, op, arg, prevCfg, prevSt,
                   tok, snap, res, nbLock, calls, unstaged>>

\* An unknown backend, missing credentials or a failed Initialize.
BuildFails(t) ==
    /\ pc[t] = "build"
    /\ Goto(t, "rollback")
    /\ UNCHANGED <<mapVars, mutex, dirty, json, lastSync, backendVars, localVars,
                   nbLock, calls, unstaged>>

\* The rollback lambda puts the snapshot back.
RestoreConfigOnly(t) == cfg' = prevCfg[t] /\ UNCHANGED st  \* mutant
RestoreEntries(t) == cfg' = prevCfg[t] /\ st' = prevSt[t]

Rollback(t) ==
    /\ pc[t] = "rollback"
    /\ Unlocked
    /\ RestoreEntries(t)
    /\ Return(t)
    /\ UNCHANGED <<be, mutex, dirty, json, lastSync, backendVars, calls, unstaged>>

\* Last critical section: move the backend into the map.  The unique_ptr
\* assignment destroys the object it replaces while state_mutex_ is held.
Publish(t) ==
    /\ pc[t] = "publish"
    /\ Unlocked
    /\ be' = ptr[t]
    /\ \/ /\ be = None
          /\ Return(t)
          /\ UNCHANGED mutex
       \/ /\ be # None
          /\ mutex' = t
          /\ ptr' = [ptr EXCEPT ![t] = be]
          /\ Goto(t, "swap")
          /\ UNCHANGED <<op, arg, prevCfg, prevSt, tok, snap, res, nbLock>>
    /\ UNCHANGED <<cfg, st, dirty, json, lastSync, backendVars, calls, unstaged>>

\* ~GitSyncBackend takes op_mutex_ before it frees anything.
Destructor(t) ==
    /\ CanLockOp(t)
    /\ alive' = alive \ {ptr[t]}
    /\ Return(t)
    /\ UNCHANGED <<mapVars, dirty, json, lastSync, opMutex, slot, calls, unstaged>>

DestroyReplaced(t) ==
    /\ pc[t] = "swap"
    /\ Destructor(t)
    /\ mutex' = None

-----------------------------------------------------------------------------
(* DisableSync and UnregisterBackend *)

EraseButBackend == cfg' = None /\ st' = None /\ UNCHANGED be  \* mutant
EraseEntries == cfg' = None /\ st' = None /\ be' = None

\* Whether the destructor runs with state_mutex_ still held.
DestroyInsideLock(t) == mutex' = t  \* mutant
ReleaseBeforeDestroy(t) == mutex' = None

\* The critical section they share when there is a backend to move out.
MoveOutBackend(t, o) ==
    /\ Enter(t, o, "destroy")
    /\ Unlocked
    /\ be # None
    /\ ptr' = [ptr EXCEPT ![t] = be]
    /\ EraseEntries
    /\ ReleaseBeforeDestroy(t)
    /\ unstaged' = FALSE
    /\ UNCHANGED <<dirty, json, lastSync, backendVars, arg, prevCfg, prevSt,
                   tok, snap, res>>

DisableSync(t) ==
    \/ MoveOutBackend(t, "disable")
    \/ /\ Once(t, "disable")
       /\ Unlocked
       /\ be = None
       /\ EraseEntries
       /\ unstaged' = FALSE
       /\ UNCHANGED <<mutex, dirty, json, lastSync, backendVars>>

\* Without a backend it returns before it erases the other entries.
UnregisterBackend(t) ==
    \/ MoveOutBackend(t, "unregister")
    \/ /\ Once(t, "unregister")
       /\ Unlocked
       /\ be = None
       /\ UNCHANGED <<mapVars, mutex, dirty, json, lastSync, backendVars, unstaged>>

\* doomed_backend goes out of scope after the lock is released.
DestroyDoomed(t) ==
    /\ pc[t] = "destroy"
    /\ Destructor(t)
    /\ mutex' = IF mutex = t THEN None ELSE mutex

-----------------------------------------------------------------------------
(* Calls through a backend pointer *)

\* The pointer is read under state_mutex_ and used after it is released.
TakePointer(t, o, l) ==
    /\ Enter(t, o, l)
    /\ Unlocked
    /\ st # None /\ be # None
    /\ ptr' = [ptr EXCEPT ![t] = be]
    /\ UNCHANGED <<cfg, be, mutex, dirty, json, lastSync, backendVars, arg, prevCfg,
                   prevSt, snap, res, unstaged>>

\* SYNC_NOT_ENABLED or NOT_IMPLEMENTED (the two readers answer OK instead).
NotRegistered(t) ==
    /\ \E o \in PointerOps: Once(t, o)
    /\ Unlocked
    /\ st = None \/ be = None
    /\ UNCHANGED <<mapVars, mutex, dirty, json, lastSync, backendVars, unstaged>>

\* The call may come with a cancellation token or without one.
WithToken(t) == \E k \in {t, None}: tok' = [tok EXCEPT ![t] = k]

TriggerSync(t) ==
    /\ TakePointer(t, "trigger", "setToken")
    /\ st' = "staging"
    /\ WithToken(t)

StageOnly(t) == TakePointer(t, "stage", "setToken") /\ WithToken(t) /\ UNCHANGED st

NetworkPhaseOnly(t) ==
    TakePointer(t, "network", "setToken") /\ WithToken(t) /\ UNCHANGED st

GetSyncStatus(t) == TakePointer(t, "status", "wait") /\ UNCHANGED <<tok, st>>

GetConflicts(t) == TakePointer(t, "conflicts", "wait") /\ UNCHANGED <<tok, st>>

ResolveConflict(t) == TakePointer(t, "resolve", "wait") /\ UNCHANGED <<tok, st>>

UpdateCredentials(t) == TakePointer(t, "creds", "swapCreds") /\ UNCHANGED <<tok, st>>

\* The one slot of the object is written without regard to who else runs on it.
SetNoCancellation(t, k) == UNCHANGED slot  \* mutant
SetCancellation(t, k) ==
    slot' = IF Dangling(t) THEN slot ELSE [slot EXCEPT ![ptr[t]] = k]

InstallToken(t) ==
    /\ pc[t] = "setToken"
    /\ SetCancellation(t, tok[t])
    /\ Goto(t, "opEnter")
    /\ UNCHANGED <<mapVars, mutex, dirty, json, lastSync, alive, opMutex, localVars,
                   nbLock, calls, unstaged>>

\* Sync, StageAndCommit and FetchRebasePush: try op_mutex_, do not wait.
TryOpMutex(t) ==
    /\ pc[t] = "opEnter"
    /\ \/ /\ CanLockOp(t)
          /\ opMutex' = [opMutex EXCEPT ![ptr[t]] = t]
          /\ Goto(t, IF op[t] = "network" THEN "opNet" ELSE "opStage")
          /\ UNCHANGED res
       \/ /\ ~CanLockOp(t)
          /\ \E r \in IF Dangling(t) THEN Results ELSE {"busy"}:
                res' = [res EXCEPT ![t] = r]
          /\ Goto(t, "clearToken")
          /\ UNCHANGED opMutex
    /\ UNCHANGED <<mapVars, mutex, dirty, json, lastSync, alive, slot, op, arg, ptr,
                   prevCfg, prevSt, tok, snap, nbLock, calls, unstaged>>

\* The guard of the phase in progress goes out of scope with result r.
LeaveOpLocked(t, r) ==  \* mutant: an error exit keeps op_mutex_
    /\ res' = [res EXCEPT ![t] = r]
    /\ opMutex' = IF r = "error" THEN opMutex ELSE [opMutex EXCEPT ![ptr[t]] = None]
    /\ Goto(t, "clearToken")
LeaveOp(t, r) ==
    /\ res' = [res EXCEPT ![t] = r]
    /\ opMutex' = [opMutex EXCEPT ![ptr[t]] = None]
    /\ Goto(t, "clearToken")

\* DoStageAndCommitLocked: snapshot the token, stage and commit the working tree.
StageAndCommit(t) ==
    /\ pc[t] = "opStage"
    /\ snap' = [snap EXCEPT ![t] = slot[ptr[t]]]
    /\ \/ LeaveOp(t, "error") /\ UNCHANGED unstaged
       \/ /\ unstaged' = FALSE
          /\ IF op[t] = "trigger" THEN Goto(t, "opNet") /\ UNCHANGED <<res, opMutex>>
                                  ELSE LeaveOp(t, "ok")
    /\ UNCHANGED <<mapVars, mutex, dirty, json, lastSync, alive, slot, op, arg, ptr,
                   prevCfg, prevSt, tok, nbLock, calls>>

\* DoFetchRebasePushLocked snapshots the token again ...
NetworkSnapshot(t) ==
    /\ pc[t] = "opNet"
    /\ snap' = [snap EXCEPT ![t] = slot[ptr[t]]]
    /\ Goto(t, "netRun")
    /\ UNCHANGED <<mapVars, mutex, dirty, json, lastSync, backendVars, op, arg, ptr,
                   prevCfg, prevSt, tok, res, nbLock, calls, unstaged>>

\* ... and fetches, rebases and pushes.
FetchRebasePush(t) ==
    /\ pc[t] = "netRun"
    /\ \E r \in {"ok", "conflict", "error"}: LeaveOp(t, r)
    /\ UNCHANGED <<mapVars, mutex, dirty, json, lastSync, alive, slot, op, arg, ptr,
                   prevCfg, prevSt, tok, snap, nbLock, calls, unstaged>>

\* TriggerSync's progress callback reaches an observer that calls back into
\* SyncManager (IsRegistered, GetSyncConfig): it needs state_mutex_.
ProgressCallback(t) ==
    /\ pc[t] = "netRun"
    /\ op[t] = "trigger"
    /\ Goto(t, "reenter")
    /\ UNCHANGED <<mapVars, mutex, dirty, json, lastSync, backendVars, localVars,
                   nbLock, calls, unstaged>>

ObserverQueries(t) ==
    /\ pc[t] = "reenter"
    /\ Unlocked
    /\ Goto(t, "netRun")
    /\ UNCHANGED <<mapVars, mutex, dirty, json, lastSync, backendVars, localVars,
                   nbLock, calls, unstaged>>

\* The slot is cleared whatever the result; the phase-only calls then return.
ClearToken(t) ==
    /\ pc[t] = "clearToken"
    /\ SetCancellation(t, None)
    /\ IF op[t] = "trigger"
         THEN Goto(t, "record") /\ UNCHANGED <<localVars, nbLock>>
         ELSE Return(t)
    /\ UNCHANGED <<mapVars, mutex, dirty, json, lastSync, alive, opMutex, calls,
                   unstaged>>

\* The state that stands for a result.
OutcomeState(r) ==
    IF r = "ok" THEN "idle" ELSE IF r = "conflict" THEN "conflicted" ELSE "error"

\* TriggerSync writes the outcome, whether or not the entry is still there.
RecordOutcome(t) ==
    /\ pc[t] = "record"
    /\ Unlocked
    /\ st' = OutcomeState(res[t])
    /\ Goto(t, IF res[t] = "ok" THEN "synced"
               ELSE IF res[t] = "conflict" THEN "conflictList" ELSE "finished")
    /\ UNCHANGED <<cfg, be, mutex, dirty, json, lastSync, backendVars, localVars,
                   nbLock, calls, unstaged>>

\* After a successful sync: ClearDirty, then SetLastSyncUtc.
RecordSuccess(t) ==
    /\ pc[t] = "synced"
    /\ dirty' = FALSE
    /\ lastSync' = TRUE
    /\ Goto(t, "finished")
    /\ UNCHANGED <<mapVars, mutex, json, backendVars, localVars, nbLock, calls,
                   unstaged>>

\* After a conflict: ask the backend again for the list, then emit sync.conflict.
ListConflicts(t) ==
    /\ pc[t] = "conflictList"
    /\ CanLockOp(t) \/ Dangling(t)
    /\ Goto(t, "finished")
    /\ UNCHANGED <<mapVars, mutex, dirty, json, lastSync, backendVars, localVars,
                   nbLock, calls, unstaged>>

\* Emit sync.finished and return.
FinishTrigger(t) ==
    /\ pc[t] = "finished"
    /\ Return(t)
    /\ UNCHANGED <<mapVars, mutex, dirty, json, lastSync, backendVars, calls, unstaged>>

\* GetStatus, GetConflicts and ResolveConflict wait for op_mutex_.
WaitOpMutex(t) ==
    /\ pc[t] = "wait"
    /\ CanLockOp(t) \/ Dangling(t)
    /\ \/ /\ op[t] = "resolve"
          /\ Goto(t, "remaining")
          /\ UNCHANGED <<localVars, nbLock>>
       \/ Return(t)
    /\ UNCHANGED <<mapVars, mutex, dirty, json, lastSync, backendVars, calls, unstaged>>

\* ResolveConflict asks for the conflicts left; none: the state becomes idle.
RemainingConflicts(t) ==
    /\ pc[t] = "remaining"
    /\ CanLockOp(t) \/ Dangling(t)
    /\ \/ Goto(t, "flip") /\ UNCHANGED <<localVars, nbLock>>
       \/ Return(t)
    /\ UNCHANGED <<mapVars, mutex, dirty, json, lastSync, backendVars, calls, unstaged>>

AllResolved(t) ==
    /\ pc[t] = "flip"
    /\ Unlocked
    /\ st' = "idle"
    /\ Return(t)
    /\ UNCHANGED <<cfg, be, mutex, dirty, json, lastSync, backendVars, calls, unstaged>>

\* The provider is data the properties do not look at.
ReplaceCredsProvider(t) ==
    /\ pc[t] = "swapCreds"
    /\ Return(t)
    /\ UNCHANGED <<mapVars, mutex, dirty, json, lastSync, backendVars, calls, unstaged>>

-----------------------------------------------------------------------------
(* The read-through config cache and the dirty mark *)

\* A hit answers at once.
ConfigHit(t) ==
    /\ Once(t, "getcfg")
    /\ Unlocked
    /\ cfg # None
    /\ UNCHANGED <<mapVars, mutex, dirty, json, lastSync, backendVars, unstaged>>

\* A miss, on a call of its own or within MaybeEnqueueSync, ...
ConfigMiss(t) ==
    /\ Enter(t, "getcfg", "read")
    /\ Unlocked
    /\ cfg = None
    /\ UNCHANGED <<mapVars, mutex, dirty, json, lastSync, backendVars, arg, ptr,
                   prevCfg, prevSt, tok, snap, res, unstaged>>

\* ... reads the notebook's own config outside the lock ...
ReadNotebookConfig(t) ==
    /\ pc[t] = "read"
    /\ arg' = [arg EXCEPT ![t] = json]
    /\ Goto(t, "store")
    /\ UNCHANGED <<mapVars, mutex, dirty, json, lastSync, backendVars, op, ptr, prevCfg,
                   prevSt, tok, snap, res, nbLock, calls, unstaged>>

\* ... and takes the lock again to fill the cache.
FillCache(t) ==
    /\ pc[t] = "store"
    /\ Unlocked
    /\ cfg' = arg[t]
    /\ IF op[t] = "getcfg" THEN Return(t)
                           ELSE Goto(t, "wake") /\ UNCHANGED <<localVars, nbLock>>
    /\ UNCHANGED <<st, be, mutex, dirty, json, lastSync, backendVars, calls, unstaged>>

\* A saved change emits its event on the thread that made it.
SaveFile(t) ==
    /\ Enter(t, "edit", "event")
    /\ unstaged' = (unstaged \/ (st # None /\ be # None))
    /\ UNCHANGED <<mapVars, mutex, dirty, json, lastSync, backendVars, arg, ptr,
                   prevCfg, prevSt, tok, snap, res>>

\* So does a change of the notebook's config, which leaves configs_cache_ as it is.
UpdateNotebookConfig(t) ==
    /\ Enter(t, "update", "event")
    /\ \E c \in Configs: json' = c
    /\ unstaged' = (unstaged \/ (st # None /\ be # None))
    /\ UNCHANGED <<mapVars, mutex, dirty, lastSync, backendVars, arg, ptr,
                   prevCfg, prevSt, tok, snap, res>>

\* The listener: an absent cache entry means sync is off for the notebook.
SyncEnabledIfIdle == cfg # None /\ st = "idle"  \* mutant
SyncEnabled == cfg # None

MarkDirtyListener(t) ==
    /\ pc[t] = "event"
    /\ Unlocked
    /\ \/ ~SyncEnabled /\ Return(t)
       \/ SyncEnabled /\ Goto(t, "mark") /\ UNCHANGED <<localVars, nbLock>>
    /\ UNCHANGED <<mapVars, mutex, dirty, json, lastSync, backendVars, calls, unstaged>>

MarkDirty(t) ==
    /\ pc[t] = "mark"
    /\ dirty' = TRUE
    /\ Goto(t, "cached")
    /\ UNCHANGED <<mapVars, mutex, json, lastSync, backendVars, localVars, nbLock, calls,
                   unstaged>>

\* MaybeEnqueueSync looks the config up ...
MaybeEnqueueSync(t) ==
    /\ pc[t] = "cached"
    /\ Unlocked
    /\ Goto(t, IF cfg = None THEN "read" ELSE "wake")
    /\ UNCHANGED <<mapVars, mutex, dirty, json, lastSync, backendVars, localVars, nbLock,
                   calls, unstaged>>

\* ... and emits sync.should_run if it allows auto sync.
EmitShouldRun(t) ==
    /\ pc[t] = "wake"
    /\ Return(t)
    /\ UNCHANGED <<mapVars, mutex, dirty, json, lastSync, backendVars, calls, unstaged>>

InvalidateConfigCache(t) ==
    /\ Once(t, "invalidate")
    /\ Unlocked
    /\ cfg' = None
    /\ UNCHANGED <<st, be, mutex, dirty, json, lastSync, backendVars, unstaged>>

ClearDirty(t) ==
    /\ Once(t, "cleardirty")
    /\ dirty' = FALSE
    /\ UNCHANGED <<mapVars, mutex, json, lastSync, backendVars, unstaged>>

-----------------------------------------------------------------------------
(* Specification *)

\* The calls the environment starts, and the steps of a call under way.
Start(t) ==
    \/ EnableSync(t) \/ DisableSync(t) \/ UnregisterBackend(t)
    \/ TriggerSync(t) \/ StageOnly(t) \/ NetworkPhaseOnly(t)
    \/ GetSyncStatus(t) \/ GetConflicts(t) \/ ResolveConflict(t)
    \/ UpdateCredentials(t) \/ NotRegistered(t)
    \/ ConfigHit(t) \/ ConfigMiss(t) \/ SaveFile(t) \/ UpdateNotebookConfig(t)
    \/ InvalidateConfigCache(t) \/ ClearDirty(t)

Continue(t) ==
    \/ BuildBackend(t) \/ BuildFails(t) \/ Rollback(t) \/ Publish(t)
    \/ DestroyReplaced(t) \/ DestroyDoomed(t)
    \/ InstallToken(t) \/ TryOpMutex(t) \/ StageAndCommit(t) \/ NetworkSnapshot(t)
    \/ FetchRebasePush(t) \/ ProgressCallback(t) \/ ObserverQueries(t)
    \/ ClearToken(t) \/ RecordOutcome(t) \/ RecordSuccess(t) \/ ListConflicts(t)
    \/ FinishTrigger(t) \/ WaitOpMutex(t) \/ RemainingConflicts(t) \/ AllResolved(t)
    \/ ReplaceCredsProvider(t)
    \/ ReadNotebookConfig(t) \/ FillCache(t) \/ MarkDirtyListener(t) \/ MarkDirty(t)
    \/ MaybeEnqueueSync(t) \/ EmitShouldRun(t)

\* The bound is reached and every call has returned.
Done ==
    /\ calls = MaxCalls
    /\ \A t \in Threads: pc[t] = "idle"
    /\ UNCHANGED vars

Next == (\E t \in Threads: Start(t) \/ Continue(t)) \/ Done

Spec == Init /\ [][Next]_vars

\* The operating system runs every thread that can run, and the network phase
\* ends (libgit2 times out) instead of reporting progress for ever.
Fairness == \A t \in Threads: WF_vars(Continue(t)) /\ SF_vars(FetchRebasePush(t))

FairSpec == Spec /\ Fairness

-----------------------------------------------------------------------------
(* Properties *)

\* The object thread t owns while no map holds it.
OwnedBy(t) == IF pc[t] \in Owns THEN ptr[t] ELSE None

\* Every constructed backend has exactly one owner, the map entry or one thread
\* that publishes or destroys it, and every owner owns an object that still
\* exists: backends are neither leaked nor destroyed twice, however EnableSync,
\* DisableSync and UnregisterBackend interleave.
OneOwner ==
    /\ be # None => be \in alive
    /\ \A t \in Threads: pc[t] \in Owns => ptr[t] \in alive /\ ptr[t] # be
    /\ \A t, u \in Threads: pc[t] \in Owns /\ OwnedBy(t) = OwnedBy(u) => t = u
    /\ \A b \in alive: b = be \/ \E t \in Threads: OwnedBy(t) = b

\* The destructor waits for op_mutex_: the object a git operation runs on is
\* never destroyed under it, and no two operations run on one object.
OpOnLiveBackend ==
    /\ \A b \in Backends: opMutex[b] # None =>
          b \in alive /\ pc[opMutex[b]] \in HoldsOp /\ ptr[opMutex[b]] = b
    /\ \A t \in Threads: pc[t] \in HoldsOp => ptr[t] \in alive /\ opMutex[ptr[t]] = t

\* No thread uses a backend pointer it took earlier once the object is gone
\* (sync_manager.cpp:624 "The backend pointer is stable").
BackendPointerStable ==
    \A t \in Threads: pc[t] \in UsesPointer => ptr[t] \in alive

\* No thread keeps state_mutex_ while it waits for an operation whose progress
\* observer waits for state_mutex_.
NoLockCycle ==
    \A t, u \in Threads:
        ~ (mutex = t /\ opMutex[ptr[t]] = u /\ pc[u] = "reenter")

\* Outside EnableSync, DisableSync and the calls that set the state, the notebook
\* has a state exactly if it has a backend: a failed EnableSync left nothing half
\* registered, and a sync that ended late did not bring an erased entry back.
Quiet(S) == \A t \in Threads: op[t] \notin S

RegisteredTogether ==
    Quiet(LifecycleOps \cup {"trigger", "resolve"}) => (st = None <=> be = None)

\* The UI sees "staging" only while a TriggerSync is under way.
StagingMeansSyncing ==
    st = "staging" => \E t \in Threads: op[t] = "trigger"

\* A change saved while the notebook was registered, and not committed since, is
\* reported by GetDirtyNotebooks once its event has been handled: no sync drops
\* the dirty mark of a change it did not take.
EditsStayDirty ==
    unstaged /\ Quiet({"edit", "update"}) => dirty

\* Both phases of a sync poll the token their caller passed in, not another
\* caller's and not none (sync_manager.h:140 "the token is installed on the
\* backend before the phase runs and cleared afterwards").
TokenReachesPhase ==
    \A t \in Threads: pc[t] \in {"netRun", "reenter"} => snap[t] = tok[t]

\* Every call returns: no lost lock, no wait on a dead owner.
CallsReturn == \A t \in Threads: pc[t] # "idle" ~> pc[t] = "idle"

\* A cache entry exists exactly if EnableSync populated the runtime state
\* (sync_manager.cpp:45 "cache-presence is the correct predicate").
CacheMeansEnabled ==
    Quiet(LifecycleOps) => (cfg # None <=> st # None)

\* After UnregisterBackend returns nothing of the notebook is left
\* (sync_manager.h:59 "After this returns, the runtime state is cleared").
UnregisterClears ==
    [][\A t \in Threads: UnregisterBackend(t) => st' = None /\ cfg' = None]_vars

\* The cached config is the one the notebook's own config holds, once every
\* reader and writer of either is done (sync_manager.h:315 "read-through cache").
CacheFresh == Quiet(AllOps) /\ cfg # None => cfg = json
==============================================================================
