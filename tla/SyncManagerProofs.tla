-------------------------- MODULE SyncManagerProofs --------------------------
(***************************************************************************)
(* Proofs about SyncManager, for every number of threads, backends,        *)
(* configs and calls and for every choice of serialized operations.        *)
(***************************************************************************)
EXTENDS SyncManager, TLAPS

\* state_mutex_ is kept across a blocking call by a thread in "swap" only.
LockOwner ==
    /\ mutex # None => pc[mutex] = "swap"
    /\ \A t \in Threads: pc[t] = "swap" => mutex = t

IInv == TypeOK /\ OneOwner /\ OpOnLiveBackend /\ LockOwner

\* A step of t away from the objects, their owners and the two kinds of mutex.
Frame(t) ==
    /\ pc[t] \notin Owns \cup HoldsOp
    /\ \E l \in Labels \ (Owns \cup HoldsOp): pc' = [pc EXCEPT ![t] = l]
    /\ \A u \in Threads \ {t}: ptr'[u] = ptr[u]
    /\ UNCHANGED <<be, alive, opMutex, mutex>>

Invs == OneOwner /\ OpOnLiveBackend /\ LockOwner

\* Such a step keeps every owner, every operation and every lock as it is: only
\* construction, publication, destruction and the locked phases need an argument.
LEMMA FrameKeeps ==
    ASSUME IInv, NEW t \in Threads, Frame(t)
    PROVE  Invs'
<1>1. \A u \in Threads: /\ pc'[u] \in Owns <=> pc[u] \in Owns
                        /\ pc'[u] \in HoldsOp <=> pc[u] \in HoldsOp
                        /\ pc'[u] = "swap" <=> pc[u] = "swap"
                        /\ pc[u] \in Owns \cup HoldsOp => ptr'[u] = ptr[u]
  BY DEF Frame, IInv, TypeOK, Owns
<1>2. \A u \in Threads: OwnedBy(u)' = OwnedBy(u)
  BY <1>1 DEF OwnedBy
<1>3. OneOwner'
  BY <1>1, <1>2 DEF Frame, IInv, OneOwner
<1>4. OpOnLiveBackend'
  <2> \A b \in Backends: opMutex[b] # None => opMutex[b] \in Threads
    BY DEF IInv, TypeOK
  <2> QED
    BY <1>1 DEF Frame, IInv, OpOnLiveBackend
<1>5. LockOwner'
  <2> mutex \in Threads \cup {None}
    BY DEF IInv, TypeOK
  <2> QED
    BY <1>1 DEF Frame, IInv, LockOwner
<1> QED
  BY <1>3, <1>4, <1>5 DEF Invs

USE ConstantsAssumption DEF ConstantsAssumption

\* Every step keeps the types.  The invariant about operations is needed where a
\* step reads the token slot of the object it points to.
LEMMA TypeStep == IInv /\ [Next]_vars => TypeOK'
<1> SUFFICES ASSUME IInv, [Next]_vars PROVE TypeOK'
  OBVIOUS
<1> USE DEF IInv, TypeOK, Labels, UsesPointer, HoldsOp, Owns, Goto
<1>1. CASE UNCHANGED vars
  BY <1>1 DEF vars
<1>2. CASE Done
  BY <1>2 DEF Done, vars
<1>3. ASSUME NEW t \in Threads, Start(t) PROVE TypeOK'
  <2>1. CASE EnableSync(t)
    BY <1>3, <2>1 DEF EnableSync, Enter, Begin, Unlocked, mapVars, backendVars, AllOps,
       LifecycleOps, PointerOps, PhaseOps, WaitOps, States
  <2>2. CASE DisableSync(t)
    <3>1. calls' \in 0..MaxCalls
      BY <2>2 DEF DisableSync, MoveOutBackend, Enter, Once, Begin
    <3>2. CASE MoveOutBackend(t, "disable")
      BY <3>1, <3>2 DEF MoveOutBackend, EraseEntries, ReleaseBeforeDestroy, Enter,
         backendVars, AllOps, LifecycleOps
    <3>3. CASE Once(t, "disable") /\ be = None
      BY <2>2, <3>1, <3>3 DEF DisableSync, MoveOutBackend, EraseEntries,
         ReleaseBeforeDestroy, Once, localVars, mapVars, backendVars
    <3> QED
      BY <2>2, <3>2, <3>3 DEF DisableSync
  <2>3. CASE UnregisterBackend(t)
    <3>1. calls' \in 0..MaxCalls
      BY <2>3 DEF UnregisterBackend, MoveOutBackend, Enter, Once, Begin
    <3>2. CASE MoveOutBackend(t, "unregister")
      BY <3>1, <3>2 DEF MoveOutBackend, EraseEntries, ReleaseBeforeDestroy, Enter,
         backendVars, AllOps, LifecycleOps
    <3>3. CASE Once(t, "unregister") /\ be = None
      BY <2>3, <3>1, <3>3 DEF UnregisterBackend, MoveOutBackend, EraseEntries,
         ReleaseBeforeDestroy, Once, localVars, mapVars, backendVars
    <3> QED
      BY <2>3, <3>2, <3>3 DEF UnregisterBackend
  <2>4. CASE TriggerSync(t)
    BY <1>3, <2>4 DEF TriggerSync, TakePointer, WithToken, Enter, Begin, mapVars,
       backendVars, AllOps, LifecycleOps, PointerOps, PhaseOps, WaitOps, States
  <2>5. CASE StageOnly(t)
    BY <1>3, <2>5 DEF StageOnly, TakePointer, WithToken, Enter, Begin, mapVars,
       backendVars, AllOps, LifecycleOps, PointerOps, PhaseOps, WaitOps, States
  <2>6. CASE NetworkPhaseOnly(t)
    BY <1>3, <2>6 DEF NetworkPhaseOnly, TakePointer, WithToken, Enter, Begin, mapVars,
       backendVars, AllOps, LifecycleOps, PointerOps, PhaseOps, WaitOps, States
  <2>7. CASE GetSyncStatus(t)
    BY <1>3, <2>7 DEF GetSyncStatus, TakePointer, Enter, Begin, mapVars, backendVars,
       AllOps, LifecycleOps, PointerOps, PhaseOps, WaitOps, States
  <2>8. CASE GetConflicts(t)
    BY <1>3, <2>8 DEF GetConflicts, TakePointer, Enter, Begin, mapVars, backendVars,
       AllOps, LifecycleOps, PointerOps, PhaseOps, WaitOps, States
  <2>9. CASE ResolveConflict(t)
    BY <1>3, <2>9 DEF ResolveConflict, TakePointer, Enter, Begin, mapVars, backendVars,
       AllOps, LifecycleOps, PointerOps, PhaseOps, WaitOps, States
  <2>10. CASE UpdateCredentials(t)
    BY <1>3, <2>10 DEF UpdateCredentials, TakePointer, Enter, Begin, mapVars,
       backendVars, AllOps, LifecycleOps, PointerOps, PhaseOps, WaitOps, States
  <2>11. CASE NotRegistered(t)
    BY <1>3, <2>11 DEF NotRegistered, Once, Begin, localVars, mapVars, backendVars,
       AllOps, LifecycleOps, PointerOps, PhaseOps, WaitOps, States
  <2>12. CASE ConfigHit(t)
    BY <1>3, <2>12 DEF ConfigHit, Once, Begin, localVars, mapVars, backendVars, AllOps,
       LifecycleOps, PointerOps, PhaseOps, WaitOps, States
  <2>13. CASE ConfigMiss(t)
    BY <1>3, <2>13 DEF ConfigMiss, Enter, Begin, mapVars, backendVars, AllOps,
       LifecycleOps, PointerOps, PhaseOps, WaitOps, States
  <2>14. CASE SaveFile(t)
    BY <1>3, <2>14 DEF SaveFile, Enter, Begin, mapVars, backendVars, AllOps,
       LifecycleOps, PointerOps, PhaseOps, WaitOps, States
  <2>15. CASE UpdateNotebookConfig(t)
    BY <1>3, <2>15 DEF UpdateNotebookConfig, Enter, Begin, mapVars, backendVars, AllOps,
       LifecycleOps, PointerOps, PhaseOps, WaitOps, States
  <2>16. CASE InvalidateConfigCache(t)
    BY <1>3, <2>16 DEF InvalidateConfigCache, Once, Begin, localVars, mapVars,
       backendVars, AllOps, LifecycleOps, PointerOps, PhaseOps, WaitOps, States
  <2>17. CASE ClearDirty(t)
    <3>1. dirty' \in BOOLEAN
      BY <2>17 DEF ClearDirty
    <3>2. calls' \in 0..MaxCalls
      BY <2>17 DEF ClearDirty, Once, Begin
    <3> QED
      BY <2>17, <3>1, <3>2 DEF ClearDirty, Once, localVars, mapVars, backendVars
  <2> QED
    BY <1>3, <2>1, <2>2, <2>3, <2>4, <2>5, <2>6, <2>7, <2>8, <2>9, <2>10, <2>11, <2>12,
       <2>13, <2>14, <2>15, <2>16, <2>17 DEF Start
<1>4. ASSUME NEW t \in Threads, Continue(t) PROVE TypeOK'
  <2>1. CASE BuildBackend(t)
    BY <1>4, <2>1 DEF BuildBackend, mapVars, backendVars
  <2>2. CASE BuildFails(t)
    BY <1>4, <2>2 DEF BuildFails, localVars, mapVars, backendVars
  <2>3. CASE Rollback(t)
    BY <1>4, <2>3 DEF Rollback, Return, RestoreEntries, mapVars, backendVars, Results
  <2>4. CASE Publish(t)
    BY <1>4, <2>4 DEF Publish, Return, mapVars, backendVars, Results
  <2>5. CASE DestroyReplaced(t)
    BY <1>4, <2>5 DEF DestroyReplaced, Destructor, Return, mapVars, backendVars, Results
  <2>6. CASE DestroyDoomed(t)
    BY <1>4, <2>6 DEF DestroyDoomed, Destructor, Return, mapVars, backendVars, Results
  <2>7. CASE InstallToken(t)
    BY <1>4, <2>7 DEF InstallToken, SetCancellation, Dangling, localVars, mapVars,
       backendVars
  <2>8. CASE TryOpMutex(t)
    BY <1>4, <2>8 DEF TryOpMutex, Results, mapVars, backendVars
  <2>9. CASE StageAndCommit(t)
    <3>1. ptr[t] \in Backends
      BY <2>9 DEF StageAndCommit, OpOnLiveBackend
    <3>2. unstaged' \in BOOLEAN
      BY <2>9 DEF StageAndCommit
    <3> QED
      BY <2>9, <3>1, <3>2 DEF StageAndCommit, LeaveOp, Results, mapVars
  <2>10. CASE NetworkSnapshot(t)
    BY <1>4, <2>10 DEF NetworkSnapshot, mapVars, backendVars, OpOnLiveBackend
  <2>11. CASE FetchRebasePush(t)
    BY <1>4, <2>11 DEF FetchRebasePush, LeaveOp, Results, mapVars, backendVars,
       OpOnLiveBackend
  <2>12. CASE ProgressCallback(t)
    BY <1>4, <2>12 DEF ProgressCallback, localVars, mapVars, backendVars
  <2>13. CASE ObserverQueries(t)
    BY <1>4, <2>13 DEF ObserverQueries, localVars, mapVars, backendVars
  <2>14. CASE ClearToken(t)
    BY <1>4, <2>14 DEF ClearToken, SetCancellation, Dangling, Return, localVars,
       mapVars, backendVars, Results
  <2>15. CASE RecordOutcome(t)
    BY <1>4, <2>15 DEF RecordOutcome, OutcomeState, localVars, States, mapVars,
       backendVars
  <2>16. CASE RecordSuccess(t)
    BY <1>4, <2>16 DEF RecordSuccess, localVars, mapVars, backendVars
  <2>17. CASE ListConflicts(t)
    BY <1>4, <2>17 DEF ListConflicts, localVars, mapVars, backendVars
  <2>18. CASE FinishTrigger(t)
    BY <1>4, <2>18 DEF FinishTrigger, Return, mapVars, backendVars, Results
  <2>19. CASE WaitOpMutex(t)
    BY <1>4, <2>19 DEF WaitOpMutex, Return, localVars, mapVars, backendVars, Results
  <2>20. CASE RemainingConflicts(t)
    BY <1>4, <2>20 DEF RemainingConflicts, Return, localVars, mapVars, backendVars,
       Results
  <2>21. CASE AllResolved(t)
    BY <1>4, <2>21 DEF AllResolved, Return, States, mapVars, backendVars, Results
  <2>22. CASE ReplaceCredsProvider(t)
    BY <1>4, <2>22 DEF ReplaceCredsProvider, Return, mapVars, backendVars, Results
  <2>23. CASE ReadNotebookConfig(t)
    BY <1>4, <2>23 DEF ReadNotebookConfig, mapVars, backendVars
  <2>24. CASE FillCache(t)
    BY <1>4, <2>24 DEF FillCache, Return, localVars, mapVars, backendVars, Results
  <2>25. CASE MarkDirtyListener(t)
    BY <1>4, <2>25 DEF MarkDirtyListener, Return, localVars, mapVars, backendVars,
       Results
  <2>26. CASE MarkDirty(t)
    BY <1>4, <2>26 DEF MarkDirty, localVars, mapVars, backendVars
  <2>27. CASE MaybeEnqueueSync(t)
    BY <1>4, <2>27 DEF MaybeEnqueueSync, localVars, mapVars, backendVars
  <2>28. CASE EmitShouldRun(t)
    BY <1>4, <2>28 DEF EmitShouldRun, Return, mapVars, backendVars, Results
  <2> QED
    BY <1>4, <2>1, <2>2, <2>3, <2>4, <2>5, <2>6, <2>7, <2>8, <2>9, <2>10, <2>11, <2>12,
       <2>13, <2>14, <2>15, <2>16, <2>17, <2>18, <2>19, <2>20, <2>21, <2>22, <2>23,
       <2>24, <2>25, <2>26, <2>27, <2>28 DEF Continue
<1> QED
  BY <1>1, <1>2, <1>3, <1>4 DEF Next

-----------------------------------------------------------------------------
(* The frame of each action *)

\* Every call that starts leaves the objects alone, unless it moves the backend
\* out of the map (DisableSync, UnregisterBackend).
LEMMA StartFrame ==
    ASSUME IInv, NEW t \in Threads, Start(t),
           ~MoveOutBackend(t, "disable"), ~MoveOutBackend(t, "unregister")
    PROVE  Frame(t)
<1> USE DEF IInv, TypeOK, Frame, Labels, UsesPointer, HoldsOp, Owns, Goto
<1>1. CASE EnableSync(t)
  BY <1>1 DEF EnableSync, Enter, Begin, Unlocked, Once, localVars, mapVars, backendVars
<1>2. CASE DisableSync(t)
  BY <1>2 DEF DisableSync, MoveOutBackend, EraseEntries, ReleaseBeforeDestroy, Enter,
     Once, Begin, localVars, mapVars, backendVars
<1>3. CASE UnregisterBackend(t)
  BY <1>3 DEF UnregisterBackend, MoveOutBackend, EraseEntries, ReleaseBeforeDestroy,
     Enter, Once, Begin, localVars, mapVars, backendVars
<1>4. CASE TriggerSync(t)
  BY <1>4 DEF TriggerSync, TakePointer, WithToken, Enter, Begin, Once, localVars,
     mapVars, backendVars
<1>5. CASE StageOnly(t)
  BY <1>5 DEF StageOnly, TakePointer, WithToken, Enter, Begin, Once, localVars, mapVars,
     backendVars
<1>6. CASE NetworkPhaseOnly(t)
  BY <1>6 DEF NetworkPhaseOnly, TakePointer, WithToken, Enter, Begin, Once, localVars,
     mapVars, backendVars
<1>7. CASE GetSyncStatus(t)
  BY <1>7 DEF GetSyncStatus, TakePointer, Enter, Begin, Once, localVars, mapVars,
     backendVars
<1>8. CASE GetConflicts(t)
  BY <1>8 DEF GetConflicts, TakePointer, Enter, Begin, Once, localVars, mapVars,
     backendVars
<1>9. CASE ResolveConflict(t)
  BY <1>9 DEF ResolveConflict, TakePointer, Enter, Begin, Once, localVars, mapVars,
     backendVars
<1>10. CASE UpdateCredentials(t)
  BY <1>10 DEF UpdateCredentials, TakePointer, Enter, Begin, Once, localVars, mapVars,
     backendVars
<1>11. CASE NotRegistered(t)
  BY <1>11 DEF NotRegistered, Once, Begin, localVars, Enter, mapVars, backendVars
<1>12. CASE ConfigHit(t)
  BY <1>12 DEF ConfigHit, Once, Begin, localVars, Enter, mapVars, backendVars
<1>13. CASE ConfigMiss(t)
  BY <1>13 DEF ConfigMiss, Enter, Begin, Once, localVars, mapVars, backendVars
<1>14. CASE SaveFile(t)
  BY <1>14 DEF SaveFile, Enter, Begin, Once, localVars, mapVars, backendVars
<1>15. CASE UpdateNotebookConfig(t)
  BY <1>15 DEF UpdateNotebookConfig, Enter, Begin, Once, localVars, mapVars, backendVars
<1>16. CASE InvalidateConfigCache(t)
  BY <1>16 DEF InvalidateConfigCache, Once, Begin, localVars, Enter, mapVars,
     backendVars
<1>17. CASE ClearDirty(t)
  BY <1>17 DEF ClearDirty, Once, Begin, localVars, Enter, mapVars, backendVars
<1> QED
  BY <1>1, <1>2, <1>3, <1>4, <1>5, <1>6, <1>7, <1>8, <1>9, <1>10, <1>11, <1>12, <1>13,
     <1>14, <1>15, <1>16, <1>17 DEF Start

\* The steps of a call under way that touch no object, no owner and no mutex.
PlainContinue(t) ==
    \/ BuildFails(t) \/ Rollback(t) \/ InstallToken(t) \/ ClearToken(t)
    \/ RecordOutcome(t) \/ RecordSuccess(t) \/ ListConflicts(t) \/ FinishTrigger(t)
    \/ WaitOpMutex(t) \/ RemainingConflicts(t) \/ AllResolved(t) \/ ReplaceCredsProvider(t)
    \/ ReadNotebookConfig(t) \/ FillCache(t) \/ MarkDirtyListener(t) \/ MarkDirty(t)
    \/ MaybeEnqueueSync(t) \/ EmitShouldRun(t)

\* They are frame steps too.
LEMMA ContinueFrame ==
    ASSUME IInv, NEW t \in Threads, PlainContinue(t)
    PROVE  Frame(t)
<1> USE DEF IInv, TypeOK, Frame, Labels, UsesPointer, HoldsOp, Owns, Goto
<1>1. CASE BuildFails(t)
  BY <1>1 DEF BuildFails, localVars, mapVars, backendVars
<1>2. CASE Rollback(t)
  BY <1>2 DEF Rollback, Return, RestoreEntries, mapVars, backendVars
<1>3. CASE InstallToken(t)
  BY <1>3 DEF InstallToken, SetCancellation, Dangling, localVars, mapVars, backendVars
<1>4. CASE ClearToken(t)
  BY <1>4 DEF ClearToken, SetCancellation, Dangling, Return, localVars, mapVars,
     backendVars
<1>5. CASE RecordOutcome(t)
  BY <1>5 DEF RecordOutcome, OutcomeState, localVars, States, mapVars, backendVars
<1>6. CASE RecordSuccess(t)
  BY <1>6 DEF RecordSuccess, localVars, mapVars, backendVars
<1>7. CASE ListConflicts(t)
  BY <1>7 DEF ListConflicts, localVars, mapVars, backendVars
<1>8. CASE FinishTrigger(t)
  BY <1>8 DEF FinishTrigger, Return, mapVars, backendVars
<1>9. CASE WaitOpMutex(t)
  BY <1>9 DEF WaitOpMutex, Return, localVars, mapVars, backendVars
<1>10. CASE RemainingConflicts(t)
  BY <1>10 DEF RemainingConflicts, Return, localVars, mapVars, backendVars
<1>11. CASE AllResolved(t)
  BY <1>11 DEF AllResolved, Return, States, mapVars, backendVars
<1>12. CASE ReplaceCredsProvider(t)
  BY <1>12 DEF ReplaceCredsProvider, Return, mapVars, backendVars
<1>13. CASE ReadNotebookConfig(t)
  BY <1>13 DEF ReadNotebookConfig, mapVars, backendVars
<1>14. CASE FillCache(t)
  BY <1>14 DEF FillCache, Return, localVars, mapVars, backendVars
<1>15. CASE MarkDirtyListener(t)
  BY <1>15 DEF MarkDirtyListener, Return, localVars, mapVars, backendVars
<1>16. CASE MarkDirty(t)
  BY <1>16 DEF MarkDirty, localVars, mapVars, backendVars
<1>17. CASE MaybeEnqueueSync(t)
  BY <1>17 DEF MaybeEnqueueSync, localVars, mapVars, backendVars
<1>18. CASE EmitShouldRun(t)
  BY <1>18 DEF EmitShouldRun, Return, mapVars, backendVars
<1> QED
  BY <1>1, <1>2, <1>3, <1>4, <1>5, <1>6, <1>7, <1>8, <1>9, <1>10, <1>11, <1>12, <1>13,
     <1>14, <1>15, <1>16, <1>17, <1>18 DEF PlainContinue

-----------------------------------------------------------------------------
(* Construction, publication and destruction *)

\* DisableSync and UnregisterBackend hand the map's backend over to their caller.
LEMMA MoveOutStep ==
    ASSUME IInv, NEW t \in Threads, NEW o \in AllOps, MoveOutBackend(t, o)
    PROVE  Invs'
<1> USE DEF IInv, TypeOK, Labels, UsesPointer, HoldsOp, Owns, Goto
<1>1. /\ pc[t] = "idle" /\ pc' = [pc EXCEPT ![t] = "destroy"]
      /\ be \in Backends /\ ptr' = [ptr EXCEPT ![t] = be] /\ be' = None
      /\ mutex = None /\ mutex' = None /\ UNCHANGED <<alive, opMutex>>
  BY DEF MoveOutBackend, Enter, Begin, Unlocked, EraseEntries, ReleaseBeforeDestroy,
     backendVars
<1>2. OneOwner'
  <2>1. \A u \in Threads: OwnedBy(u)' = IF u = t THEN be ELSE OwnedBy(u)
    BY <1>1 DEF OwnedBy
  <2> QED
    BY <1>1, <2>1 DEF OneOwner, OwnedBy
<1>3. OpOnLiveBackend'
  BY <1>1 DEF OpOnLiveBackend
<1>4. LockOwner'
  BY <1>1 DEF LockOwner
<1> QED
  BY <1>2, <1>3, <1>4 DEF Invs

\* EnableSync's factory: the new object is owned by the thread that builds it.
LEMMA BuildStep ==
    ASSUME IInv, NEW t \in Threads, BuildBackend(t)
    PROVE  Invs'
<1> USE DEF IInv, TypeOK, Labels, UsesPointer, HoldsOp, Owns, Goto
<1>1. PICK b \in Backends \ alive:
        /\ \A u \in Threads: ptr[u] # b
        /\ alive' = alive \cup {b}
        /\ ptr' = [ptr EXCEPT ![t] = b]
        /\ opMutex' = [opMutex EXCEPT ![b] = None]
  BY DEF BuildBackend
<1>2. /\ pc[t] = "build" /\ pc' = [pc EXCEPT ![t] = "publish"]
      /\ UNCHANGED <<be, mutex>>
  BY DEF BuildBackend, mapVars
<1>3. OneOwner'
  <2>1. \A u \in Threads: OwnedBy(u)' = IF u = t THEN b ELSE OwnedBy(u)
    BY <1>1, <1>2 DEF OwnedBy
  <2> QED
    BY <1>1, <1>2, <2>1 DEF OneOwner, OwnedBy
<1>4. OpOnLiveBackend'
  BY <1>1, <1>2 DEF OpOnLiveBackend
<1>5. LockOwner'
  BY <1>2 DEF LockOwner
<1> QED
  BY <1>3, <1>4, <1>5 DEF Invs

\* EnableSync's publication: the map takes the new object, and the thread the one
\* it replaces, with state_mutex_ held.
LEMMA PublishStep ==
    ASSUME IInv, NEW t \in Threads, Publish(t)
    PROVE  Invs'
<1> USE DEF IInv, TypeOK, Labels, UsesPointer, HoldsOp, Owns, Goto
<1>1. /\ pc[t] = "publish" /\ mutex = None /\ be' = ptr[t]
      /\ UNCHANGED <<alive, opMutex>>
  BY DEF Publish, Unlocked, backendVars
<1>2. \/ /\ be = None /\ pc' = [pc EXCEPT ![t] = "idle"] /\ UNCHANGED mutex
         /\ ptr' = [ptr EXCEPT ![t] = None]
      \/ /\ be # None /\ pc' = [pc EXCEPT ![t] = "swap"] /\ mutex' = t
         /\ ptr' = [ptr EXCEPT ![t] = be]
  BY DEF Publish, Return
<1>3. OneOwner'
  <2>1. \A u \in Threads: OwnedBy(u)' = IF u = t THEN be ELSE OwnedBy(u)
    BY <1>1, <1>2 DEF OwnedBy
  <2> QED
    BY <1>1, <1>2, <2>1 DEF OneOwner, OwnedBy
<1>4. OpOnLiveBackend'
  BY <1>1, <1>2 DEF OpOnLiveBackend
<1>5. LockOwner'
  BY <1>1, <1>2 DEF LockOwner
<1> QED
  BY <1>3, <1>4, <1>5 DEF Invs

\* ~GitSyncBackend: the object ends with its only owner, and nobody is in one of
\* its operations because the destructor got op_mutex_.
LEMMA DestructorStep ==
    ASSUME IInv, NEW t \in Threads, DestroyReplaced(t) \/ DestroyDoomed(t)
    PROVE  Invs'
<1> USE DEF IInv, TypeOK, Labels, UsesPointer, HoldsOp, Owns, Goto
<1>1. /\ pc[t] \in {"swap", "destroy"} /\ pc' = [pc EXCEPT ![t] = "idle"]
      /\ ptr' = [ptr EXCEPT ![t] = None] /\ alive' = alive \ {ptr[t]}
      /\ ptr[t] \in alive /\ opMutex[ptr[t]] = None /\ UNCHANGED <<be, opMutex>>
      /\ mutex' = IF mutex = t THEN None ELSE mutex
  BY DEF DestroyReplaced, DestroyDoomed, Destructor, CanLockOp, Return, mapVars,
     LockOwner
<1>2. OneOwner'
  <2>1. \A u \in Threads: OwnedBy(u)' = IF u = t THEN None ELSE OwnedBy(u)
    BY <1>1 DEF OwnedBy
  <2>2. \A u \in Threads: pc[u] \in Owns /\ u # t => ptr[u] # ptr[t]
    BY <1>1 DEF OneOwner, OwnedBy
  <2> QED
    BY <1>1, <2>1, <2>2 DEF OneOwner, OwnedBy
<1>3. OpOnLiveBackend'
  BY <1>1 DEF OpOnLiveBackend
<1>4. LockOwner'
  BY <1>1 DEF LockOwner
<1> QED
  BY <1>2, <1>3, <1>4 DEF Invs

\* The phases of a sync that hold op_mutex_, and the steps into and out of them.
LockedPhase(t) ==
    \/ TryOpMutex(t) \/ StageAndCommit(t) \/ NetworkSnapshot(t)
    \/ FetchRebasePush(t) \/ ProgressCallback(t) \/ ObserverQueries(t)

\* A thread is in a locked phase of its object exactly while it holds op_mutex_.
LEMMA LockedPhaseStep ==
    ASSUME IInv, NEW t \in Threads, LockedPhase(t)
    PROVE  Invs'
<1> USE DEF IInv, TypeOK, Labels, UsesPointer, HoldsOp, Owns, Goto
<1>1. /\ UNCHANGED <<be, alive, mutex, ptr>>
      /\ pc[t] \in HoldsOp \cup {"opEnter"}
      /\ \E l \in HoldsOp \cup {"clearToken"}: pc' = [pc EXCEPT ![t] = l]
  BY DEF LockedPhase, TryOpMutex, StageAndCommit, NetworkSnapshot, FetchRebasePush,
     ProgressCallback, ObserverQueries, LeaveOp, mapVars, backendVars, localVars
<1>2. \/ /\ pc[t] = "opEnter" /\ CanLockOp(t) /\ pc'[t] \in HoldsOp
         /\ opMutex' = [opMutex EXCEPT ![ptr[t]] = t]
      \/ /\ pc[t] = "opEnter" /\ pc'[t] \notin HoldsOp /\ UNCHANGED opMutex
      \/ /\ pc[t] \in HoldsOp /\ pc'[t] \in HoldsOp /\ UNCHANGED opMutex
      \/ /\ pc[t] \in HoldsOp /\ pc'[t] \notin HoldsOp
         /\ opMutex' = [opMutex EXCEPT ![ptr[t]] = None]
  BY DEF LockedPhase, TryOpMutex, StageAndCommit, NetworkSnapshot, FetchRebasePush,
     ProgressCallback, ObserverQueries, LeaveOp, backendVars
<1>3. OneOwner'
  <2>1. \A u \in Threads: OwnedBy(u)' = OwnedBy(u)
    BY <1>1 DEF OwnedBy
  <2> QED
    BY <1>1, <2>1 DEF OneOwner
<1>4. OpOnLiveBackend'
  BY <1>1, <1>2 DEF OpOnLiveBackend, CanLockOp
<1>5. LockOwner'
  BY <1>1 DEF LockOwner
<1> QED
  BY <1>3, <1>4, <1>5 DEF Invs

\* Every step keeps the invariants about owners, operations and state_mutex_.
LEMMA InvsStep == IInv /\ [Next]_vars => Invs'
<1> SUFFICES ASSUME IInv, [Next]_vars PROVE Invs'
  OBVIOUS
<1>1. CASE UNCHANGED vars
  BY <1>1 DEF vars, IInv, Invs, OneOwner, OwnedBy, OpOnLiveBackend, LockOwner
<1>2. CASE Done
  BY <1>2 DEF Done, vars, IInv, Invs, OneOwner, OwnedBy, OpOnLiveBackend, LockOwner
<1>3. ASSUME NEW t \in Threads, Start(t) PROVE Invs'
  <2> {"disable", "unregister"} \subseteq AllOps
    BY DEF AllOps, LifecycleOps
  <2> QED
    BY <1>3, MoveOutStep, StartFrame, FrameKeeps
<1>4. ASSUME NEW t \in Threads, Continue(t) PROVE Invs'
  <2>1. \/ PlainContinue(t) \/ BuildBackend(t) \/ Publish(t)
        \/ DestroyReplaced(t) \/ DestroyDoomed(t) \/ LockedPhase(t)
    BY <1>4 DEF Continue, PlainContinue, LockedPhase
  <2> QED
    BY <2>1, ContinueFrame, FrameKeeps, BuildStep, PublishStep, DestructorStep,
       LockedPhaseStep
<1> QED
  BY <1>1, <1>2, <1>3, <1>4 DEF Next

-----------------------------------------------------------------------------
(* The theorems *)

\* A new process satisfies the invariant: nothing is constructed or locked.
LEMMA InitInv == Init => IInv
<1> SUFFICES ASSUME Init PROVE IInv
  OBVIOUS
<1> USE DEF Init, HoldsOp, Owns
<1>1. TypeOK
  <2>1. calls \in 0..MaxCalls
    OBVIOUS
  <2>2. /\ pc \in [Threads -> Labels] /\ res \in [Threads -> Results]
        /\ mutex \in Threads \cup {None} /\ dirty \in BOOLEAN /\ lastSync \in BOOLEAN
        /\ unstaged \in BOOLEAN
    BY DEF Labels, UsesPointer, Results
  <2> QED
    BY <2>1, <2>2 DEF TypeOK
<1>2. OneOwner
  BY DEF OneOwner, OwnedBy
<1>3. OpOnLiveBackend
  BY DEF OpOnLiveBackend
<1>4. LockOwner
  BY DEF LockOwner
<1> QED
  BY <1>1, <1>2, <1>3, <1>4 DEF IInv

\* The invariant is inductive.
THEOREM Inductive == Spec => []IInv
<1>1. Init => IInv
  BY InitInv
<1>2. IInv /\ [Next]_vars => IInv'
  BY TypeStep, InvsStep DEF IInv, Invs
<1> QED
  BY <1>1, <1>2, PTL DEF Spec

\* SyncManager's maps, flags and locals always hold values of their types.
THEOREM TypeCorrect == Spec => []TypeOK
<1>1. IInv => TypeOK
  BY DEF IInv
<1> QED
  BY <1>1, Inductive, PTL

\* However many threads enable, disable and unregister at once, every backend that
\* was constructed and not destroyed has exactly one owner.
THEOREM BackendsHaveOneOwner == Spec => []OneOwner
<1>1. IInv => OneOwner
  BY DEF IInv
<1> QED
  BY <1>1, Inductive, PTL

\* No git operation ever runs on a destroyed backend, and no two run on one.
THEOREM OperationsOnLiveBackends == Spec => []OpOnLiveBackend
<1>1. IInv => OpOnLiveBackend
  BY DEF IInv
<1> QED
  BY <1>1, Inductive, PTL

-----------------------------------------------------------------------------
(* What the consumer's per-notebook lock buys *)

\* The discipline that tests/test_sync_thread_safety.cpp:118-136 asks for, on every
\* operation that takes or replaces the backend.
SerializedPointers == (PointerOps \cup LifecycleOps) \cap Ops \subseteq Serialized

\* Where EnableSync, DisableSync and UnregisterBackend are between two locks.
ChangesMap == Owns \cup {"build", "rollback"}

\* TriggerSync still uses its pointer after it recorded a conflict.
KeepsPointer == UsesPointer \cup {"record"}

\* A serialized call holds the consumer's lock, and a pointer in use is the map's.
Disciplined(t) ==
    /\ op[t] \in Serialized => nbLock = t
    /\ pc[t] \in ChangesMap => op[t] \in LifecycleOps \cap Ops
    /\ pc[t] \in KeepsPointer => op[t] \in PointerOps \cap Ops /\ ptr[t] = be /\ be # None

Discipline == \A t \in Threads: Disciplined(t)

\* What a step of t may do to the others: nothing to their locals, and no change of
\* the consumer's lock they hold or, unless t serializes, of the map.
LeavesOthers(t) ==
    /\ \A u \in Threads \ {t}: pc'[u] = pc[u] /\ op'[u] = op[u] /\ ptr'[u] = ptr[u]
    /\ nbLock' = nbLock \/ nbLock \in {t, None}
    /\ be' = be \/ op[t] \in LifecycleOps \cap Ops \/ op'[t] \in LifecycleOps \cap Ops

\* A step that t takes within the discipline keeps everybody within it.
LEMMA DisciplineFrame ==
    ASSUME SerializedPointers, IInv, Discipline, NEW t \in Threads, LeavesOthers(t),
           Disciplined(t)'
    PROVE  Discipline'
<1> SUFFICES ASSUME NEW u \in Threads \ {t} PROVE Disciplined(u)'
  BY DEF Discipline
<1>1. op[u] \in Serialized => nbLock = u /\ nbLock' = nbLock
  BY DEF Discipline, Disciplined, LeavesOthers
<1>2. pc[u] \in KeepsPointer => be' = be
  BY <1>1 DEF Discipline, Disciplined, LeavesOthers, SerializedPointers
<1> QED
  BY <1>1, <1>2 DEF Discipline, Disciplined, LeavesOthers

\* Every call that starts takes the lock if it has to, and the map's own pointer.
LEMMA StartDiscipline ==
    ASSUME IInv, Discipline, NEW t \in Threads, Start(t)
    PROVE  LeavesOthers(t) /\ Disciplined(t)'
<1> USE DEF IInv, TypeOK, Discipline, Disciplined, LeavesOthers, ChangesMap,
   KeepsPointer, UsesPointer, Owns, Goto
<1>1. CASE EnableSync(t)
  BY <1>1 DEF EnableSync, Enter, Begin, Unlocked, Once, localVars, mapVars, backendVars,
     AllOps, LifecycleOps, PointerOps, PhaseOps, WaitOps
<1>2. CASE DisableSync(t)
  BY <1>2 DEF DisableSync, MoveOutBackend, EraseEntries, ReleaseBeforeDestroy, Enter,
     Once, Begin, localVars, mapVars, backendVars, AllOps, LifecycleOps, PointerOps,
     PhaseOps, WaitOps
<1>3. CASE UnregisterBackend(t)
  BY <1>3 DEF UnregisterBackend, MoveOutBackend, EraseEntries, ReleaseBeforeDestroy,
     Enter, Once, Begin, localVars, mapVars, backendVars, AllOps, LifecycleOps,
     PointerOps, PhaseOps, WaitOps
<1>4. CASE TriggerSync(t)
  BY <1>4 DEF TriggerSync, TakePointer, WithToken, Enter, Begin, Once, localVars,
     mapVars, backendVars, AllOps, LifecycleOps, PointerOps, PhaseOps, WaitOps
<1>5. CASE StageOnly(t)
  BY <1>5 DEF StageOnly, TakePointer, WithToken, Enter, Begin, Once, localVars, mapVars,
     backendVars, AllOps, LifecycleOps, PointerOps, PhaseOps, WaitOps
<1>6. CASE NetworkPhaseOnly(t)
  BY <1>6 DEF NetworkPhaseOnly, TakePointer, WithToken, Enter, Begin, Once, localVars,
     mapVars, backendVars, AllOps, LifecycleOps, PointerOps, PhaseOps, WaitOps
<1>7. CASE GetSyncStatus(t)
  BY <1>7 DEF GetSyncStatus, TakePointer, Enter, Begin, Once, localVars, mapVars,
     backendVars, AllOps, LifecycleOps, PointerOps, PhaseOps, WaitOps
<1>8. CASE GetConflicts(t)
  BY <1>8 DEF GetConflicts, TakePointer, Enter, Begin, Once, localVars, mapVars,
     backendVars, AllOps, LifecycleOps, PointerOps, PhaseOps, WaitOps
<1>9. CASE ResolveConflict(t)
  BY <1>9 DEF ResolveConflict, TakePointer, Enter, Begin, Once, localVars, mapVars,
     backendVars, AllOps, LifecycleOps, PointerOps, PhaseOps, WaitOps
<1>10. CASE UpdateCredentials(t)
  BY <1>10 DEF UpdateCredentials, TakePointer, Enter, Begin, Once, localVars, mapVars,
     backendVars, AllOps, LifecycleOps, PointerOps, PhaseOps, WaitOps
<1>11. CASE NotRegistered(t)
  BY <1>11 DEF NotRegistered, Once, Begin, localVars, Enter, mapVars, backendVars,
     AllOps, LifecycleOps, PointerOps, PhaseOps, WaitOps
<1>12. CASE ConfigHit(t)
  BY <1>12 DEF ConfigHit, Once, Begin, localVars, Enter, mapVars, backendVars, AllOps,
     LifecycleOps, PointerOps, PhaseOps, WaitOps
<1>13. CASE ConfigMiss(t)
  BY <1>13 DEF ConfigMiss, Enter, Begin, Once, localVars, mapVars, backendVars, AllOps,
     LifecycleOps, PointerOps, PhaseOps, WaitOps
<1>14. CASE SaveFile(t)
  BY <1>14 DEF SaveFile, Enter, Begin, Once, localVars, mapVars, backendVars, AllOps,
     LifecycleOps, PointerOps, PhaseOps, WaitOps
<1>15. CASE UpdateNotebookConfig(t)
  BY <1>15 DEF UpdateNotebookConfig, Enter, Begin, Once, localVars, mapVars,
     backendVars, AllOps, LifecycleOps, PointerOps, PhaseOps, WaitOps
<1>16. CASE InvalidateConfigCache(t)
  BY <1>16 DEF InvalidateConfigCache, Once, Begin, localVars, Enter, mapVars,
     backendVars, AllOps, LifecycleOps, PointerOps, PhaseOps, WaitOps
<1>17. CASE ClearDirty(t)
  BY <1>17 DEF ClearDirty, Once, Begin, localVars, Enter, mapVars, backendVars, AllOps,
     LifecycleOps, PointerOps, PhaseOps, WaitOps
<1> QED
  BY <1>1, <1>2, <1>3, <1>4, <1>5, <1>6, <1>7, <1>8, <1>9, <1>10, <1>11, <1>12, <1>13,
     <1>14, <1>15, <1>16, <1>17 DEF Start

\* Every step of a call under way stays within its operation.
LEMMA ContinueDiscipline ==
    ASSUME IInv, Discipline, NEW t \in Threads, Continue(t)
    PROVE  LeavesOthers(t) /\ Disciplined(t)'
<1> USE DEF IInv, TypeOK, Discipline, Disciplined, LeavesOthers, ChangesMap,
   KeepsPointer, UsesPointer, Owns, Goto
<1>1. CASE BuildBackend(t)
  BY <1>1 DEF BuildBackend, mapVars, backendVars
<1>2. CASE BuildFails(t)
  BY <1>2 DEF BuildFails, localVars, mapVars, backendVars
<1>3. CASE Rollback(t)
  BY <1>3 DEF Rollback, Return, RestoreEntries, mapVars, backendVars
<1>4. CASE Publish(t)
  BY <1>4 DEF Publish, Return, mapVars, backendVars
<1>5. CASE DestroyReplaced(t)
  BY <1>5 DEF DestroyReplaced, Destructor, Return, mapVars, backendVars
<1>6. CASE DestroyDoomed(t)
  BY <1>6 DEF DestroyDoomed, Destructor, Return, mapVars, backendVars
<1>7. CASE InstallToken(t)
  BY <1>7 DEF InstallToken, SetCancellation, Dangling, localVars, mapVars, backendVars
<1>8. CASE TryOpMutex(t)
  BY <1>8 DEF TryOpMutex, mapVars, backendVars
<1>9. CASE StageAndCommit(t)
  BY <1>9 DEF StageAndCommit, LeaveOp, mapVars, backendVars
<1>10. CASE NetworkSnapshot(t)
  BY <1>10 DEF NetworkSnapshot, mapVars, backendVars
<1>11. CASE FetchRebasePush(t)
  BY <1>11 DEF FetchRebasePush, LeaveOp, mapVars, backendVars
<1>12. CASE ProgressCallback(t)
  BY <1>12 DEF ProgressCallback, localVars, mapVars, backendVars
<1>13. CASE ObserverQueries(t)
  BY <1>13 DEF ObserverQueries, localVars, mapVars, backendVars
<1>14. CASE ClearToken(t)
  BY <1>14 DEF ClearToken, SetCancellation, Dangling, Return, localVars, mapVars,
     backendVars
<1>15. CASE RecordOutcome(t)
  BY <1>15 DEF RecordOutcome, localVars, mapVars, backendVars
<1>16. CASE RecordSuccess(t)
  BY <1>16 DEF RecordSuccess, localVars, mapVars, backendVars
<1>17. CASE ListConflicts(t)
  BY <1>17 DEF ListConflicts, localVars, mapVars, backendVars
<1>18. CASE FinishTrigger(t)
  BY <1>18 DEF FinishTrigger, Return, mapVars, backendVars
<1>19. CASE WaitOpMutex(t)
  BY <1>19 DEF WaitOpMutex, Return, localVars, mapVars, backendVars
<1>20. CASE RemainingConflicts(t)
  BY <1>20 DEF RemainingConflicts, Return, localVars, mapVars, backendVars
<1>21. CASE AllResolved(t)
  BY <1>21 DEF AllResolved, Return, mapVars, backendVars
<1>22. CASE ReplaceCredsProvider(t)
  BY <1>22 DEF ReplaceCredsProvider, Return, mapVars, backendVars
<1>23. CASE ReadNotebookConfig(t)
  BY <1>23 DEF ReadNotebookConfig, mapVars, backendVars
<1>24. CASE FillCache(t)
  BY <1>24 DEF FillCache, Return, localVars, mapVars, backendVars
<1>25. CASE MarkDirtyListener(t)
  BY <1>25 DEF MarkDirtyListener, Return, localVars, mapVars, backendVars
<1>26. CASE MarkDirty(t)
  BY <1>26 DEF MarkDirty, localVars, mapVars, backendVars
<1>27. CASE MaybeEnqueueSync(t)
  BY <1>27 DEF MaybeEnqueueSync, localVars, mapVars, backendVars
<1>28. CASE EmitShouldRun(t)
  BY <1>28 DEF EmitShouldRun, Return, mapVars, backendVars
<1> QED
  BY <1>1, <1>2, <1>3, <1>4, <1>5, <1>6, <1>7, <1>8, <1>9, <1>10, <1>11, <1>12, <1>13,
     <1>14, <1>15, <1>16, <1>17, <1>18, <1>19, <1>20, <1>21, <1>22, <1>23, <1>24, <1>25,
     <1>26, <1>27, <1>28 DEF Continue

\* Under the discipline its invariant is inductive.
LEMMA DisciplineHolds ==
    ASSUME SerializedPointers
    PROVE  Spec => []Discipline
<1>1. Init => Discipline
  BY DEF Init, Discipline, Disciplined, ChangesMap, KeepsPointer, UsesPointer, Owns
<1>2. IInv /\ Discipline /\ [Next]_vars => Discipline'
  <2> SUFFICES ASSUME IInv, Discipline, [Next]_vars PROVE Discipline'
    OBVIOUS
  <2>1. CASE UNCHANGED vars \/ Done
    BY <2>1 DEF vars, Done, Discipline, Disciplined
  <2>2. ASSUME NEW t \in Threads, Start(t) \/ Continue(t) PROVE Discipline'
    BY <2>2, StartDiscipline, ContinueDiscipline, DisciplineFrame
  <2> QED
    BY <2>1, <2>2 DEF Next
<1> QED
  BY <1>1, <1>2, Inductive, PTL DEF Spec

\* If every operation that takes or replaces the backend runs under the consumer's
\* lock, no thread ever uses the pointer of a destroyed backend.
THEOREM SerializedPointersAreStable ==
    ASSUME SerializedPointers
    PROVE  Spec => []BackendPointerStable
<1>1. IInv /\ Discipline => BackendPointerStable
  BY DEF IInv, Discipline, Disciplined, OneOwner, BackendPointerStable,
     KeepsPointer
<1> QED
  BY <1>1, Inductive, DisciplineHolds, PTL

\* Nor does a thread wait for an operation that waits for its state_mutex_.
THEOREM SerializedCallsHaveNoLockCycle ==
    ASSUME SerializedPointers
    PROVE  Spec => []NoLockCycle
<1>1. IInv /\ Discipline => NoLockCycle
  <2> SUFFICES ASSUME IInv, Discipline, NEW t \in Threads, NEW u \in Threads,
                      mutex = t, pc[u] = "reenter"
               PROVE  FALSE
    BY DEF NoLockCycle
  <2>1. pc[t] = "swap"
    BY DEF IInv, LockOwner
  <2>2. op[t] \in Serialized /\ op[u] \in Serialized
    BY <2>1 DEF Discipline, Disciplined, ChangesMap, KeepsPointer, Owns, UsesPointer,
       SerializedPointers
  <2> QED
    BY <2>1, <2>2 DEF Discipline, Disciplined
<1> QED
  BY <1>1, Inductive, DisciplineHolds, PTL

-----------------------------------------------------------------------------
(***************************************************************************)
(* What SyncManager promises a consumer that runs its calls under the      *)
(* per-notebook lock: the map stays whole, a sync polls the token of its   *)
(* own caller, and no change is left out of both the commits and the list  *)
(* of dirty notebooks.                                                     *)
(***************************************************************************)

-----------------------------------------------------------------------------
(* Registration and tokens *)

\* Where EnableSync has seeded the entries and the backend is not in the map.
Registering == {"build", "publish", "rollback"}

\* A thread that registers has a state in the map, and its snapshot has one exactly
\* if there is a backend; one that uses a backend finds both entries.  Its phases work
\* with the token it came with.
Syncing(t) ==
    /\ pc[t] \in Registering => st # None /\ (prevSt[t] = None <=> be = None)
    /\ pc[t] \in UsesPointer \cup {"record", "flip"} =>
          op[t] \in PointerOps \cap Ops /\ be # None /\ st # None
    /\ pc[t] \in {"opEnter", "opStage", "opNet"} => slot[ptr[t]] = tok[t]
    /\ pc[t] \in {"netRun", "reenter"} => snap[t] = tok[t]

Together == (\A t \in Threads: pc[t] \notin Registering) => (st = None <=> be = None)

Registration == (\A t \in Threads: Syncing(t)) /\ Together

-----------------------------------------------------------------------------
(* Changes *)

\* Changes are saved under the lock too, and nobody empties the cache or the list of
\* dirty notebooks behind it: a listener that finds no config takes sync to be off.
SerializedEdits ==
    /\ (PointerOps \cup LifecycleOps \cup {"edit", "update"}) \cap Ops \subseteq Serialized
    /\ Ops \cap {"invalidate", "cleardirty"} = {}

Staged(t) ==
    \/ op[t] = "trigger" /\ pc[t] \in {"opNet", "netRun", "reenter"}
    \/ op[t] = "trigger" /\ pc[t] \in {"clearToken", "record"} /\ res[t] = "ok"
    \/ pc[t] = "synced"

\* A sync that will clear the dirty mark has committed every change; a change that is
\* not committed yet was saved while there was a backend, and then its event is under
\* way.
Saving(t) ==
    /\ pc[t] \in Registering => cfg # None /\ (be # None => prevCfg[t] # None)
    /\ pc[t] \in {"event", "mark", "cached"} => op[t] \in {"edit", "update"} \cap Ops
    /\ pc[t] \in UsesPointer \cup {"record", "synced"} => op[t] \in PointerOps \cap Ops
    /\ pc[t] \in {"record", "synced"} => op[t] = "trigger"
    /\ pc[t] = "store" => arg[t] \in Configs
    /\ Staged(t) => ~unstaged

Noticed ==
    /\ be # None => cfg # None
    /\ unstaged => be # None
    /\ unstaged => dirty \/ \E t \in Threads: pc[t] \in {"event", "mark"}

Changes == (\A t \in Threads: Saving(t)) /\ Noticed

\* What t finds when the lock lets it act: itself within the invariant, the types of
\* its own locals, and no other thread at work on the registration.
Here(t) ==
    /\ SerializedPointers /\ TypeOK
    /\ Syncing(t) /\ Disciplined(t)
    /\ op[t] \in (PointerOps \cup LifecycleOps) \cap Ops => nbLock = t
    /\ pc[t] \in UsesPointer \cup Owns =>
          ptr[t] \in Backends /\ ptr[t] \in alive /\ ptr[t] # None
    /\ nbLock \in {t, None} /\ pc[t] \notin Registering => (st = None <=> be = None)
    /\ None \notin Threads \cup Backends \cup Configs \cup AllOps \cup States

\* The lock, or a step that concerns the registration of nobody; and the others are
\* where they were.
KeepsSyncing(t) ==
    /\ Syncing(t)'
    /\ \A u \in Threads \ {t}:
          /\ pc'[u] = pc[u] /\ op'[u] = op[u] /\ ptr'[u] = ptr[u]
          /\ prevSt'[u] = prevSt[u] /\ tok'[u] = tok[u] /\ snap'[u] = snap[u]
    /\ \/ nbLock \in {t, None} /\ (pc'[t] \notin Registering => (st' = None <=> be' = None))
       \/ UNCHANGED <<st, be, slot>> /\ (pc'[t] \in Registering <=> pc[t] \in Registering)

\* The lock keeps everybody else out of the pointer's and the map's way.
LEMMA HereHolds ==
    ASSUME SerializedPointers, IInv, Discipline, Registration, NEW t \in Threads
    PROVE  Here(t)
<1> USE ConstantsAssumption DEF ConstantsAssumption, Disciplined, Discipline,
   SerializedPointers
<1>1. op[t] \in (PointerOps \cup LifecycleOps) \cap Ops => nbLock = t
  OBVIOUS
<1>2. pc[t] \in UsesPointer \cup Owns => ptr[t] \in alive
  BY DEF IInv, OneOwner, KeepsPointer
<1>3. ptr[t] \in alive => ptr[t] \in Backends /\ ptr[t] # None
  BY DEF IInv, TypeOK
<1>4. ASSUME nbLock \in {t, None}, pc[t] \notin Registering
      PROVE  st = None <=> be = None
  <2>1. \A u \in Threads: pc[u] \in Registering => op[u] \in LifecycleOps \cap Ops
    BY DEF Registering, ChangesMap, Owns
  <2>2. \A u \in Threads: pc[u] \in Registering => nbLock = u
    BY <2>1
  <2> QED
    BY <1>4, <2>1, <2>2 DEF Registration, Together, LifecycleOps
<1> QED
  BY <1>1, <1>2, <1>3, <1>4 DEF UsesPointer, Owns, Here, IInv, Registration, Discipline

\* Every call that starts keeps the registration whole.
LEMMA StartRegistration ==
    ASSUME SerializedPointers, IInv, Discipline, Registration, NEW t \in Threads,
           Start(t)
    PROVE  KeepsSyncing(t)
<1>a. Here(t)
  BY HereHolds
<1> USE DEF Here, Disciplined, SerializedPointers, ChangesMap, KeepsPointer, States, Results
<1> USE DEF TypeOK, Labels, UsesPointer, HoldsOp, Owns, Goto, AllOps, LifecycleOps,
   PointerOps, PhaseOps, WaitOps, localVars, mapVars, backendVars
<1> USE DEF Syncing, KeepsSyncing, Registering
<1>1. CASE EnableSync(t)
  BY <1>1, <1>a DEF EnableSync, Enter, Begin, Unlocked
<1>2. CASE DisableSync(t)
  BY <1>2, <1>a DEF DisableSync, MoveOutBackend, Enter, Begin, Unlocked, EraseEntries,
     ReleaseBeforeDestroy, Once
<1>3. CASE UnregisterBackend(t)
  BY <1>3, <1>a DEF UnregisterBackend, MoveOutBackend, Enter, Begin, Unlocked,
     EraseEntries, ReleaseBeforeDestroy, Once
<1>4. CASE TriggerSync(t)
  BY <1>4, <1>a DEF TriggerSync, TakePointer, Enter, Begin, Unlocked, WithToken
<1>5. CASE StageOnly(t)
  BY <1>5, <1>a DEF StageOnly, TakePointer, Enter, Begin, Unlocked, WithToken
<1>6. CASE NetworkPhaseOnly(t)
  BY <1>6, <1>a DEF NetworkPhaseOnly, TakePointer, Enter, Begin, Unlocked, WithToken
<1>7. CASE GetSyncStatus(t)
  BY <1>7, <1>a DEF GetSyncStatus, TakePointer, Enter, Begin, Unlocked
<1>8. CASE GetConflicts(t)
  BY <1>8, <1>a DEF GetConflicts, TakePointer, Enter, Begin, Unlocked
<1>9. CASE ResolveConflict(t)
  BY <1>9, <1>a DEF ResolveConflict, TakePointer, Enter, Begin, Unlocked
<1>10. CASE UpdateCredentials(t)
  BY <1>10, <1>a DEF UpdateCredentials, TakePointer, Enter, Begin, Unlocked
<1>11. CASE NotRegistered(t)
  BY <1>11, <1>a DEF NotRegistered, Once, Begin, Unlocked
<1>12. CASE ConfigHit(t)
  BY <1>12, <1>a DEF ConfigHit, Once, Begin, Unlocked
<1>13. CASE ConfigMiss(t)
  BY <1>13, <1>a DEF ConfigMiss, Enter, Begin, Unlocked
<1>14. CASE SaveFile(t)
  BY <1>14, <1>a DEF SaveFile, Enter, Begin
<1>15. CASE UpdateNotebookConfig(t)
  BY <1>15, <1>a DEF UpdateNotebookConfig, Enter, Begin
<1>16. CASE InvalidateConfigCache(t)
  BY <1>16, <1>a DEF InvalidateConfigCache, Once, Begin, Unlocked
<1>17. CASE ClearDirty(t)
  BY <1>17, <1>a DEF ClearDirty, Once, Begin
<1> QED
  BY <1>1, <1>2, <1>3, <1>4, <1>5, <1>6, <1>7, <1>8, <1>9, <1>10, <1>11, <1>12, <1>13,
     <1>14, <1>15, <1>16, <1>17 DEF Start

\* So does every step of a call under way.
LEMMA ContinueRegistration ==
    ASSUME SerializedPointers, IInv, Discipline, Registration, NEW t \in Threads,
           Continue(t)
    PROVE  KeepsSyncing(t)
<1>a. Here(t)
  BY HereHolds
<1> USE DEF Here, Disciplined, SerializedPointers, ChangesMap, KeepsPointer, States, Results
<1> USE DEF TypeOK, Labels, UsesPointer, HoldsOp, Owns, Goto, AllOps, LifecycleOps,
   PointerOps, PhaseOps, WaitOps, localVars, mapVars, backendVars
<1> USE DEF Syncing, KeepsSyncing, Registering
<1>1. CASE BuildBackend(t)
  BY <1>1, <1>a DEF BuildBackend
<1>2. CASE BuildFails(t)
  BY <1>2, <1>a DEF BuildFails
<1>3. CASE Rollback(t)
  BY <1>3, <1>a DEF Rollback, Unlocked, RestoreEntries, Return
<1>4. CASE Publish(t)
  BY <1>4, <1>a DEF Publish, Unlocked, Return
<1>5. CASE DestroyReplaced(t)
  BY <1>5, <1>a DEF DestroyReplaced, Destructor, CanLockOp, Return
<1>6. CASE DestroyDoomed(t)
  BY <1>6, <1>a DEF DestroyDoomed, Destructor, CanLockOp, Return
<1>7. CASE InstallToken(t)
  BY <1>7, <1>a DEF InstallToken, SetCancellation, Dangling
<1>8. CASE TryOpMutex(t)
  BY <1>8, <1>a DEF TryOpMutex, CanLockOp, Dangling, Results
<1>9. CASE StageAndCommit(t)
  BY <1>9, <1>a DEF StageAndCommit, LeaveOp
<1>10. CASE NetworkSnapshot(t)
  BY <1>10, <1>a DEF NetworkSnapshot
<1>11. CASE FetchRebasePush(t)
  BY <1>11, <1>a DEF FetchRebasePush, LeaveOp
<1>12. CASE ProgressCallback(t)
  BY <1>12, <1>a DEF ProgressCallback
<1>13. CASE ObserverQueries(t)
  BY <1>13, <1>a DEF ObserverQueries, Unlocked
<1>14. CASE ClearToken(t)
  BY <1>14, <1>a DEF ClearToken, SetCancellation, Dangling, Return
<1>15. CASE RecordOutcome(t)
  BY <1>15, <1>a DEF RecordOutcome, Unlocked, OutcomeState
<1>16. CASE RecordSuccess(t)
  BY <1>16, <1>a DEF RecordSuccess
<1>17. CASE ListConflicts(t)
  BY <1>17, <1>a DEF ListConflicts, CanLockOp, Dangling
<1>18. CASE FinishTrigger(t)
  BY <1>18, <1>a DEF FinishTrigger, Return
<1>19. CASE WaitOpMutex(t)
  BY <1>19, <1>a DEF WaitOpMutex, CanLockOp, Dangling, Return
<1>20. CASE RemainingConflicts(t)
  BY <1>20, <1>a DEF RemainingConflicts, CanLockOp, Dangling, Return
<1>21. CASE AllResolved(t)
  BY <1>21, <1>a DEF AllResolved, Unlocked, Return
<1>22. CASE ReplaceCredsProvider(t)
  BY <1>22, <1>a DEF ReplaceCredsProvider, Return
<1>23. CASE ReadNotebookConfig(t)
  BY <1>23, <1>a DEF ReadNotebookConfig
<1>24. CASE FillCache(t)
  BY <1>24, <1>a DEF FillCache, Unlocked, Return
<1>25. CASE MarkDirtyListener(t)
  BY <1>25, <1>a DEF MarkDirtyListener, Unlocked, SyncEnabled, Return
<1>26. CASE MarkDirty(t)
  BY <1>26, <1>a DEF MarkDirty
<1>27. CASE MaybeEnqueueSync(t)
  BY <1>27, <1>a DEF MaybeEnqueueSync, Unlocked
<1>28. CASE EmitShouldRun(t)
  BY <1>28, <1>a DEF EmitShouldRun, Return
<1> QED
  BY <1>1, <1>2, <1>3, <1>4, <1>5, <1>6, <1>7, <1>8, <1>9, <1>10, <1>11, <1>12, <1>13,
     <1>14, <1>15, <1>16, <1>17, <1>18, <1>19, <1>20, <1>21, <1>22, <1>23, <1>24,
     <1>25, <1>26, <1>27, <1>28 DEF Continue

\* A step that t takes within the invariant keeps everybody within it.
LEMMA RegistrationFrame ==
    ASSUME SerializedPointers, IInv, Discipline, Registration, NEW t \in Threads,
           KeepsSyncing(t)
    PROVE  Registration'
<1> USE DEF KeepsSyncing
<1>1. ASSUME NEW u \in Threads \ {t} PROVE Syncing(u)'
  <2>1. pc[u] \in Registering \cup UsesPointer \cup {"record", "flip"} =>
          op[u] \in (PointerOps \cup LifecycleOps) \cap Ops
    BY DEF Registration, Syncing, Discipline, Disciplined, Registering, ChangesMap, Owns
  <2>2. pc[u] \in Registering \cup UsesPointer \cup {"record", "flip"} =>
          UNCHANGED <<st, be, slot>>
    <3>1. u # None
      BY ConstantsAssumption DEF ConstantsAssumption
    <3> QED
      BY <2>1, <3>1 DEF SerializedPointers, Discipline, Disciplined
  <2>3. Syncing(u)
    BY DEF Registration
  <2> QED
    BY <2>2, <2>3 DEF Syncing, UsesPointer
<1>2. Together'
  <2>1. CASE /\ nbLock \in {t, None}
             /\ pc'[t] \notin Registering => (st' = None <=> be' = None)
    BY <2>1 DEF Together
  <2>2. CASE /\ UNCHANGED <<st, be, slot>>
             /\ pc'[t] \in Registering <=> pc[t] \in Registering
    <3> \A u \in Threads: pc'[u] \in Registering <=> pc[u] \in Registering
      BY <2>2
    <3> QED
      BY <2>2 DEF Registration, Together
  <2> QED
    BY <2>1, <2>2
<1> QED
  BY <1>1, <1>2 DEF Registration, KeepsSyncing

\* So the invariant is inductive.
LEMMA RegistrationHolds ==
    ASSUME SerializedPointers
    PROVE  Spec => []Registration
<1>1. Init => Registration
  BY DEF Init, Registration, Syncing, Together, Registering, UsesPointer
<1>2. IInv /\ Discipline /\ Registration /\ [Next]_vars => Registration'
  <2> SUFFICES ASSUME IInv, Discipline, Registration, [Next]_vars PROVE Registration'
    OBVIOUS
  <2>1. CASE UNCHANGED vars \/ Done
    BY <2>1 DEF vars, Done, Registration, Syncing, Together
  <2>2. ASSUME NEW t \in Threads, Start(t) \/ Continue(t) PROVE Registration'
    BY <2>2, StartRegistration, ContinueRegistration, RegistrationFrame
  <2> QED
    BY <2>1, <2>2 DEF Next
<1> QED
  BY <1>1, <1>2, Inductive, DisciplineHolds, PTL DEF Spec

\* Whatever calls fail, end late or come in between, the notebook has a state exactly
\* if it has a backend once EnableSync, DisableSync and the calls that set the state
\* are over, if every call that takes or replaces the backend is serialized.
THEOREM SerializedCallsRegisterTogether ==
    ASSUME SerializedPointers
    PROVE  Spec => []RegisteredTogether
<1>1. IInv /\ Discipline /\ Registration => RegisteredTogether
  <2> SUFFICES ASSUME Discipline, Registration,
                      Quiet(LifecycleOps \cup {"trigger", "resolve"})
               PROVE  st = None <=> be = None
    BY DEF RegisteredTogether
  <2>1. \A t \in Threads: pc[t] \notin Registering
    BY DEF Quiet, Discipline, Disciplined, Registering, ChangesMap, Owns
  <2> QED
    BY <2>1 DEF Registration, Together
<1> QED
  BY <1>1, Inductive, DisciplineHolds, RegistrationHolds, PTL

\* A sync that runs under the consumer's lock polls the token of its own caller in
\* both phases: the slot it was installed in is written by no other call.
THEOREM SerializedTokensReachTheirPhase ==
    ASSUME SerializedPointers
    PROVE  Spec => []TokenReachesPhase
<1>1. Registration => TokenReachesPhase
  BY DEF Registration, Syncing, TokenReachesPhase
<1> QED
  BY <1>1, RegistrationHolds, PTL

-----------------------------------------------------------------------------
(* No change is forgotten *)

\* What t finds, and what its step does: the notebook's changes are noticed still, and
\* without the lock the step fills the cache at most.
HereToo(t) ==
    /\ Here(t) /\ Saving(t) /\ Noticed
    /\ SerializedEdits
    /\ op[t] \in {"edit", "update"} \cap Ops => nbLock = t

KeepsSaving(t) ==
    /\ Saving(t)'
    /\ \A u \in Threads \ {t}:
          pc'[u] = pc[u] /\ op'[u] = op[u] /\ arg'[u] = arg[u]
             /\ prevCfg'[u] = prevCfg[u] /\ res'[u] = res[u]
    /\ be' # None => cfg' # None
    /\ unstaged' => be' # None
    /\ unstaged' => \/ dirty' \/ pc'[t] \in {"event", "mark"}
                    \/ unstaged /\ ~dirty /\ pc[t] \notin {"event", "mark"}
    /\ \/ nbLock \in {t, None}
       \/ UNCHANGED <<be, unstaged>> /\ cfg' \in {cfg} \cup Configs

\* The lock keeps everybody else out of the way of a change as well.
LEMMA HereTooHolds ==
    ASSUME SerializedEdits, IInv, Discipline, Registration, Changes, NEW t \in Threads
    PROVE  HereToo(t)
<1>1. SerializedPointers
  BY DEF SerializedEdits, SerializedPointers
<1>2. op[t] \in {"edit", "update"} \cap Ops => nbLock = t
  BY DEF SerializedEdits, Discipline, Disciplined
<1> QED
  BY <1>1, <1>2, HereHolds DEF HereToo, Changes

\* Every call that starts keeps the changes noticed.
LEMMA StartChanges ==
    ASSUME SerializedEdits, IInv, Discipline, Registration, Changes, NEW t \in Threads,
           Start(t)
    PROVE  KeepsSaving(t)
<1>a. HereToo(t)
  BY HereTooHolds
<1> USE DEF HereToo, Here, Noticed, SerializedEdits, Disciplined, SerializedPointers,
   ChangesMap, KeepsPointer, States, Results
<1> USE DEF TypeOK, Labels, UsesPointer, HoldsOp, Owns, Goto, AllOps, LifecycleOps,
   PointerOps, PhaseOps, WaitOps, localVars, mapVars, backendVars
<1> USE DEF Saving, KeepsSaving, Staged, Registering
<1>1. CASE EnableSync(t)
  BY <1>1, <1>a DEF EnableSync, Enter, Begin, Unlocked
<1>2. CASE DisableSync(t)
  BY <1>2, <1>a DEF DisableSync, MoveOutBackend, Enter, Begin, Unlocked, EraseEntries,
     ReleaseBeforeDestroy, Once
<1>3. CASE UnregisterBackend(t)
  BY <1>3, <1>a DEF UnregisterBackend, MoveOutBackend, Enter, Begin, Unlocked,
     EraseEntries, ReleaseBeforeDestroy, Once
<1>4. CASE TriggerSync(t)
  BY <1>4, <1>a DEF TriggerSync, TakePointer, Enter, Begin, Unlocked, WithToken
<1>5. CASE StageOnly(t)
  BY <1>5, <1>a DEF StageOnly, TakePointer, Enter, Begin, Unlocked, WithToken
<1>6. CASE NetworkPhaseOnly(t)
  BY <1>6, <1>a DEF NetworkPhaseOnly, TakePointer, Enter, Begin, Unlocked, WithToken
<1>7. CASE GetSyncStatus(t)
  BY <1>7, <1>a DEF GetSyncStatus, TakePointer, Enter, Begin, Unlocked
<1>8. CASE GetConflicts(t)
  BY <1>8, <1>a DEF GetConflicts, TakePointer, Enter, Begin, Unlocked
<1>9. CASE ResolveConflict(t)
  BY <1>9, <1>a DEF ResolveConflict, TakePointer, Enter, Begin, Unlocked
<1>10. CASE UpdateCredentials(t)
  BY <1>10, <1>a DEF UpdateCredentials, TakePointer, Enter, Begin, Unlocked
<1>11. CASE NotRegistered(t)
  BY <1>11, <1>a DEF NotRegistered, Once, Begin, Unlocked
<1>12. CASE ConfigHit(t)
  BY <1>12, <1>a DEF ConfigHit, Once, Begin, Unlocked
<1>13. CASE ConfigMiss(t)
  BY <1>13, <1>a DEF ConfigMiss, Enter, Begin, Unlocked
<1>14. CASE SaveFile(t)
  BY <1>14, <1>a DEF SaveFile, Enter, Begin
<1>15. CASE UpdateNotebookConfig(t)
  BY <1>15, <1>a DEF UpdateNotebookConfig, Enter, Begin
<1>16. CASE InvalidateConfigCache(t)
  BY <1>16, <1>a DEF InvalidateConfigCache, Once, Begin, Unlocked
<1>17. CASE ClearDirty(t)
  BY <1>17, <1>a DEF ClearDirty, Once, Begin
<1> QED
  BY <1>1, <1>2, <1>3, <1>4, <1>5, <1>6, <1>7, <1>8, <1>9, <1>10, <1>11, <1>12, <1>13,
     <1>14, <1>15, <1>16, <1>17 DEF Start

\* So does every step of a call under way.
LEMMA ContinueChanges ==
    ASSUME SerializedEdits, IInv, Discipline, Registration, Changes, NEW t \in Threads,
           Continue(t)
    PROVE  KeepsSaving(t)
<1>a. HereToo(t)
  BY HereTooHolds
<1> USE DEF HereToo, Here, Noticed, SerializedEdits, Disciplined, SerializedPointers,
   ChangesMap, KeepsPointer, States, Results
<1> USE DEF TypeOK, Labels, UsesPointer, HoldsOp, Owns, Goto, AllOps, LifecycleOps,
   PointerOps, PhaseOps, WaitOps, localVars, mapVars, backendVars
<1> USE DEF Saving, KeepsSaving, Staged, Registering
<1>1. CASE BuildBackend(t)
  BY <1>1, <1>a DEF BuildBackend
<1>2. CASE BuildFails(t)
  BY <1>2, <1>a DEF BuildFails
<1>3. CASE Rollback(t)
  BY <1>3, <1>a DEF Rollback, Unlocked, RestoreEntries, Return
<1>4. CASE Publish(t)
  BY <1>4, <1>a DEF Publish, Unlocked, Return
<1>5. CASE DestroyReplaced(t)
  BY <1>5, <1>a DEF DestroyReplaced, Destructor, CanLockOp, Return
<1>6. CASE DestroyDoomed(t)
  BY <1>6, <1>a DEF DestroyDoomed, Destructor, CanLockOp, Return
<1>7. CASE InstallToken(t)
  BY <1>7, <1>a DEF InstallToken, SetCancellation, Dangling
<1>8. CASE TryOpMutex(t)
  BY <1>8, <1>a DEF TryOpMutex, CanLockOp, Dangling, Results
<1>9. CASE StageAndCommit(t)
  BY <1>9, <1>a DEF StageAndCommit, LeaveOp
<1>10. CASE NetworkSnapshot(t)
  BY <1>10, <1>a DEF NetworkSnapshot
<1>11. CASE FetchRebasePush(t)
  BY <1>11, <1>a DEF FetchRebasePush, LeaveOp
<1>12. CASE ProgressCallback(t)
  BY <1>12, <1>a DEF ProgressCallback
<1>13. CASE ObserverQueries(t)
  BY <1>13, <1>a DEF ObserverQueries, Unlocked
<1>14. CASE ClearToken(t)
  BY <1>14, <1>a DEF ClearToken, SetCancellation, Dangling, Return
<1>15. CASE RecordOutcome(t)
  BY <1>15, <1>a DEF RecordOutcome, Unlocked, OutcomeState
<1>16. CASE RecordSuccess(t)
  BY <1>16, <1>a DEF RecordSuccess
<1>17. CASE ListConflicts(t)
  BY <1>17, <1>a DEF ListConflicts, CanLockOp, Dangling
<1>18. CASE FinishTrigger(t)
  BY <1>18, <1>a DEF FinishTrigger, Return
<1>19. CASE WaitOpMutex(t)
  BY <1>19, <1>a DEF WaitOpMutex, CanLockOp, Dangling, Return
<1>20. CASE RemainingConflicts(t)
  BY <1>20, <1>a DEF RemainingConflicts, CanLockOp, Dangling, Return
<1>21. CASE AllResolved(t)
  BY <1>21, <1>a DEF AllResolved, Unlocked, Return
<1>22. CASE ReplaceCredsProvider(t)
  BY <1>22, <1>a DEF ReplaceCredsProvider, Return
<1>23. CASE ReadNotebookConfig(t)
  BY <1>23, <1>a DEF ReadNotebookConfig
<1>24. CASE FillCache(t)
  BY <1>24, <1>a DEF FillCache, Unlocked, Return
<1>25. CASE MarkDirtyListener(t)
  BY <1>25, <1>a DEF MarkDirtyListener, Unlocked, SyncEnabled, Return
<1>26. CASE MarkDirty(t)
  BY <1>26, <1>a DEF MarkDirty
<1>27. CASE MaybeEnqueueSync(t)
  BY <1>27, <1>a DEF MaybeEnqueueSync, Unlocked
<1>28. CASE EmitShouldRun(t)
  BY <1>28, <1>a DEF EmitShouldRun, Return
<1> QED
  BY <1>1, <1>2, <1>3, <1>4, <1>5, <1>6, <1>7, <1>8, <1>9, <1>10, <1>11, <1>12, <1>13,
     <1>14, <1>15, <1>16, <1>17, <1>18, <1>19, <1>20, <1>21, <1>22, <1>23, <1>24,
     <1>25, <1>26, <1>27, <1>28 DEF Continue

\* A step that t takes within the invariant keeps everybody within it.
LEMMA ChangesFrame ==
    ASSUME SerializedEdits, IInv, Discipline, Changes, NEW t \in Threads, KeepsSaving(t)
    PROVE  Changes'
<1> USE DEF KeepsSaving
<1>1. ASSUME NEW u \in Threads \ {t} PROVE Saving(u)'
  <2>1. pc[u] \in Registering \cup UsesPointer \cup {"record", "synced"} =>
          op[u] \in (PointerOps \cup LifecycleOps) \cap Ops
    BY DEF Changes, Saving, Discipline, Disciplined, Registering, ChangesMap, Owns
  <2>2. pc[u] \in Registering \cup UsesPointer \cup {"record", "synced"} =>
          UNCHANGED <<be, unstaged>> /\ cfg' \in {cfg} \cup Configs
    <3>1. u # None
      BY ConstantsAssumption DEF ConstantsAssumption
    <3> QED
      BY <2>1, <3>1 DEF SerializedEdits, Discipline, Disciplined
  <2>3. Saving(u)
    BY DEF Changes
  <2>4. None \notin Configs
    BY ConstantsAssumption DEF ConstantsAssumption
  <2> QED
    BY <2>2, <2>3, <2>4 DEF Saving, Staged, UsesPointer
<1>2. Noticed'
  <2>1. ASSUME unstaged, ~dirty, pc[t] \notin {"event", "mark"}
        PROVE  \E u \in Threads \ {t}: pc'[u] \in {"event", "mark"}
    BY <2>1 DEF Changes, Noticed
  <2> QED
    BY <2>1 DEF Noticed
<1> QED
  BY <1>1, <1>2 DEF Changes, KeepsSaving

\* So this invariant is inductive too.
LEMMA ChangesHold ==
    ASSUME SerializedEdits
    PROVE  Spec => []Changes
<1>1. Init => Changes
  BY DEF Init, Changes, Saving, Noticed, Staged, Registering, UsesPointer
<1>2. IInv /\ Discipline /\ Registration /\ Changes /\ [Next]_vars => Changes'
  <2> SUFFICES ASSUME IInv, Discipline, Registration, Changes, [Next]_vars
               PROVE  Changes'
    OBVIOUS
  <2>1. CASE UNCHANGED vars \/ Done
    BY <2>1 DEF vars, Done, Changes, Saving, Noticed, Staged
  <2>2. ASSUME NEW t \in Threads, Start(t) \/ Continue(t) PROVE Changes'
    BY <2>2, StartChanges, ContinueChanges, ChangesFrame
  <2> QED
    BY <2>1, <2>2 DEF Next
<1>3. SerializedPointers
  BY DEF SerializedEdits, SerializedPointers
<1> QED
  BY <1>1, <1>2, <1>3, Inductive, DisciplineHolds, RegistrationHolds, PTL DEF Spec

\* A change that is in no commit is listed by GetDirtyNotebooks once its event has been
\* handled: no sync that ends clears the mark of a change it did not stage.  It takes
\* a consumer that saves changes under the lock as well.
THEOREM SerializedEditsStayDirty ==
    ASSUME SerializedEdits
    PROVE  Spec => []EditsStayDirty
<1>1. Changes => EditsStayDirty
  <2> SUFFICES ASSUME Changes, Quiet({"edit", "update"}), unstaged PROVE dirty
    BY DEF EditsStayDirty
  <2>1. \A t \in Threads: pc[t] \notin {"event", "mark"}
    BY DEF Quiet, Changes, Saving
  <2> QED
    BY <2>1 DEF Changes, Noticed
<1> QED
  BY <1>1, ChangesHold, PTL
=============================================================================
