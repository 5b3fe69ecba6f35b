-------------------------- MODULE FolderImportProofs --------------------------
(***************************************************************************)
(* Proofs about FolderImport, for every set of names, folders and staging  *)
(* directories and for any number of failures and crashes.                 *)
(***************************************************************************)
EXTENDS FolderImport, TLAPS

\* The repairs do their work: a write that fails leaves the old bytes or torn
\* ones, RemoveTreeQuietly removes the directory, and RecoverImports writes the
\* parent's bytes back.  Without any one of the three an import can be left for
\* good (a journal that survives its call rolls back what is there later).
RepairsSucceed ==
    /\ "new" \notin WriteRemains
    /\ RemovalLeaves = {"nothing"}
    /\ RestoreLeaves = {"saved"}

Attaching == AttachSteps \cup UndoSteps
Has(s, phases) == staging[s] # None /\ staging[s].journal.phase \in phases

\* An import whose journal says that it has begun, and not that it is committed.
Unfinished(s) == Has(s, {"init", "content", "metadata", "db"})

\* The folders that are listed for good: those an unfinished import has saved;
\* without one, those of the index.
Settled(n) ==
    \/ \E s \in Stagings: Unfinished(s) /\ n \in staging[s].journal.saved
    \/ n \in index.names /\ \A s \in Stagings: ~Unfinished(s)

\* The directories that explain what is not settled: that of the call in
\* progress, and those with a journal when a recovery is due or going on.
Suspect(s) ==
    /\ staging[s] # None
    /\ \/ call.at \in Attaching /\ s = call.on
       \/ call.at \in {"closed"} \cup RecoverySteps /\ staging[s].journal.phase # "none"

Explains(s, n, t) == Suspect(s) /\ staging[s].name = n /\ staging[s].tree = t

Stored == {"journal_db", "parent", "journal_committed", "announce", "cleanup"}

-----------------------------------------------------------------------------
(* The inductive invariant *)

\* At most one journal can be read, and it is that of the call in progress, if
\* a call is.  A journal that says nothing saves nothing.
Journals ==
    /\ \A s, u \in Stagings: Has(s, Phases) /\ Has(u, Phases) => s = u
    /\ \A s \in Stagings: Has(s, Phases) =>
          /\ call.at \notin {"idle", "journal_init"}
          /\ call.at \in Attaching => s = call.on
    /\ \A s \in Stagings: Has(s, {"none", "torn"}) => staging[s].journal.saved = {}

\* Only an unfinished import leaves an index that cannot be read, or one that
\* differs, by the folder of the import, from what its journal saved.
IndexBytes ==
    /\ ~index.readable => index.names = {} /\ \E s \in Stagings: Unfinished(s)
    /\ \A s \in Stagings: Unfinished(s) =>
          /\ staging[s].name \notin staging[s].journal.saved
          /\ index.readable => index.names \in {staging[s].journal.saved,
                                  staging[s].journal.saved \cup {staging[s].name}}
    /\ \A s \in Stagings: Has(s, {"committed"}) =>
          /\ staging[s].name \in index.names
          /\ content[staging[s].name] = staging[s].tree

\* What is cached is what vx.json says; a recovery that changes vx.json runs
\* without a cached config.
CachedNames ==
    /\ cache.loaded => index.readable /\ cache.names = index.names
    /\ call.at \in Attaching => cache.loaded
    /\ call.at = "closed" => ~cache.loaded
    /\ call.at \in RecoverySteps /\ cache.loaded => \A s \in Stagings: ~Has(s, Phases)

\* A folder that is listed for good is whole, and what was reported is listed
\* for good.
SettledFolders ==
    /\ \A n \in Names: Settled(n) => content[n] # None /\ metadata[n] = content[n]
    /\ \A n \in Names: promised[n] # None => Settled(n) /\ content[n] = promised[n]

\* Everything else on disk has an explanation.
Explained ==
    \A n \in Names: ~Settled(n) =>
        \A t \in {content[n], metadata[n]} \ ({None} \cup unread):
            \E s \in Stagings: Explains(s, n, t)

\* So has everything else in the store.
ExplainedRows ==
    \A t \in rows \ (leaked \cup unread):
        \/ \E n \in Names: Settled(n) /\ content[n] = t
        \/ \E s \in Stagings:
              /\ Suspect(s) /\ staging[s].tree = t
              /\ call.at \in Attaching => call.at \in Stored

\* How far an attach, or its rollback, has come.
AttachInProgress ==
    call.at \in Attaching =>
        /\ S \in Stagings /\ staging[S] # None
        /\ Name \notin call.saved
        /\ index.names = IF call.at \in {"journal_committed", "announce", "cleanup"}
                         THEN call.saved \cup {Name} ELSE call.saved
        /\ Has(S, Phases) => staging[S].journal.saved = call.saved
        /\ call.at # "journal_init" => staging[S].journal.phase # "none"
        /\ call.at \in {"journal_init", "content", "undo_staging"} => content[Name] = None
        /\ call.at \in {"journal_init", "content", "journal_content", "metadata",
                        "undo_content", "undo_staging"} => metadata[Name] = None
        /\ call.at \in {"journal_content", "metadata", "journal_metadata", "store"} \cup Stored
              => content[Name] = Tree
        /\ call.at \in {"journal_metadata", "store"} \cup Stored => metadata[Name] = Tree
        /\ call.at \in {"undo_metadata", "undo_content"} /\ "content" \notin call.undo
              => content[Name] = None
        /\ call.at = "undo_metadata" /\ "metadata" \notin call.undo => metadata[Name] = None

\* How far a recovery, and the directory it handles, have come.
RecoveryInProgress ==
    /\ call.at \in RecoverySteps =>
          \A s \in Stagings: s \in call.todo <=> s \in Journaled
    /\ call.at \in RecoverySteps \ {"recover"} => S \in Stagings /\ S \in call.todo
    /\ call.at \in {"rec_metadata", "rec_content", "rec_rows", "rec_index"} => Unfinished(S)
    /\ call.at \in {"rec_content", "rec_rows", "rec_index"} => metadata[Name] = None
    /\ call.at \in {"rec_rows", "rec_index"} => content[Name] = None
    /\ call.at = "rec_index" => Tree \notin rows
    /\ call.at = "rec_staging" =>
          \/ staging[S].journal.phase = "torn" /\ Tree \in unread
          \/ staging[S].journal.phase = "committed"
          \/ /\ Unfinished(S)
             /\ metadata[Name] = None /\ content[Name] = None /\ Tree \notin rows
             /\ index = SavedIndex(S)

IInv ==
    /\ TypeOK /\ Journals /\ IndexBytes /\ CachedNames /\ SettledFolders
    /\ Explained /\ ExplainedRows /\ AttachInProgress /\ RecoveryInProgress

-----------------------------------------------------------------------------
(* What the steps make of a call's record and of a directory *)

USE ConstantsAssumption DEF ConstantsAssumption

CallSteps == {"idle", "closed"} \cup AttachSteps \cup UndoSteps \cup RecoverySteps
Call == [at: CallSteps, on: Stagings \cup {None}, saved: SUBSET Names,
         undo: SUBSET {"content", "metadata"}, todo: SUBSET Stagings, recovered: BOOLEAN]

JournalSteps ==
    JournalInit \/ JournalContent \/ JournalMetadata \/ JournalDb \/ JournalCommitted

\* Every record the steps assign to call is one of a call.
LEMMA CallTypes ==
    ASSUME TypeOK
    PROVE  /\ call \in Call
           /\ \A at \in CallSteps:
                 /\ NoCall(at) \in Call
                 /\ [call EXCEPT !.at = at] \in Call
                 /\ [call EXCEPT !.at = at, !.undo = {}] \in Call
                 /\ [call EXCEPT !.at = at, !.undo = {"content"}] \in Call
                 /\ [call EXCEPT !.at = at, !.undo = {"content", "metadata"}] \in Call
                 /\ [call EXCEPT !.at = at, !.on = None, !.todo = @ \ {S}] \in Call
                 /\ [NoCall(at) EXCEPT !.todo = Journaled] \in Call
           /\ \A at \in CallSteps, s \in Stagings:
                 /\ [call EXCEPT !.at = at, !.on = s] \in Call
                 /\ [call EXCEPT !.at = at, !.on = s, !.recovered = TRUE] \in Call
                 /\ [NoCall(at) EXCEPT !.on = s, !.saved = index.names] \in Call
<1>1. call \in Call
  BY DEF TypeOK, Call, CallSteps
<1>2. \A at \in CallSteps: NoCall(at) \in Call
  BY DEF NoCall, Call
<1>3. index.names \subseteq Names /\ Journaled \subseteq Stagings
  BY DEF TypeOK, Journaled
<1> QED
  BY Zenon, <1>1, <1>2, <1>3 DEF Call

\* Which fields the steps of a call and of a recovery change.
LEMMA CallEffects ==
    ASSUME IInv
    PROVE  /\ \A next \in CallSteps: Goto(next) =>
                 /\ call'.at = next /\ call'.on = S
                 /\ call'.saved = call.saved /\ call'.undo = call.undo
           /\ \A published \in SUBSET {"content", "metadata"}: Rollback(published) =>
                 /\ call'.at = "undo_metadata" /\ call'.undo = published
                 /\ call'.on = S /\ call'.saved = call.saved
           /\ \A at \in CallSteps, s \in Stagings:
                 \/ call' = [call EXCEPT !.at = at, !.on = s]
                 \/ call' = [call EXCEPT !.at = at, !.on = s, !.recovered = TRUE]
                 => call'.at = at /\ call'.on = s /\ call'.todo = call.todo
BY Zenon DEF IInv, TypeOK, Goto, Rollback, S

\* Starting an attach, and a recovery that takes a directory up, name it.
LEMMA DirectoryTaken ==
    ASSUME IInv, NEW s \in Stagings
    PROVE  /\ BeginAttach(s) =>
                 call'.at = "journal_init" /\ call'.on = s /\ call'.saved = index.names
           /\ RecoverUnreadable(s) \/ RollForward(s) =>
                 call'.at = "rec_staging" /\ call'.on = s /\ call'.todo = call.todo
           /\ RollBack(s) =>
                 call'.at = "rec_metadata" /\ call'.on = s /\ call'.todo = call.todo
<1>1. ASSUME BeginAttach(s)
      PROVE  call'.at = "journal_init" /\ call'.on = s /\ call'.saved = index.names
  <2>1. call' = [at |-> "journal_init", on |-> s, saved |-> index.names, undo |-> {},
                 todo |-> {}, recovered |-> FALSE]
    BY Zenon, <1>1 DEF BeginAttach, NoCall
  <2> QED
    BY <2>1
<1>2. ASSUME RecoverUnreadable(s) \/ RollForward(s)
      PROVE  call'.at = "rec_staging" /\ call'.on = s /\ call'.todo = call.todo
  BY Zenon, <1>2, CallEffects DEF RecoverUnreadable, RollForward, CallSteps, RecoverySteps
<1>3. ASSUME RollBack(s)
      PROVE  call'.at = "rec_metadata" /\ call'.on = s /\ call'.todo = call.todo
  BY Zenon, <1>3, CallEffects DEF RollBack, CallSteps, RecoverySteps
<1> QED
  BY <1>1, <1>2, <1>3

\* A call or a recovery that is at a directory is at one that holds something.
LEMMA AtDirectory ==
    ASSUME IInv, call.at \in Attaching \cup (RecoverySteps \ {"recover"})
    PROVE  /\ S \in Stagings /\ staging[S] \in Staging /\ staging[S] # None
           /\ Name \in Names /\ Tree \in Trees /\ Tree # None
           /\ staging[S].journal \in Journal /\ call.saved \subseteq Names
<1>1. S \in Stagings /\ staging[S] # None
  BY DEF IInv, AttachInProgress, RecoveryInProgress, Attaching, S, Journaled,
     RecoverySteps, AttachSteps, UndoSteps
<1>2. staging[S] \in Staging /\ call.saved \subseteq Names
  BY <1>1 DEF IInv, TypeOK
<1> QED
  BY <1>1, <1>2 DEF Staging, Name, Tree

\* What may be written to a journal, whole or in part, is a journal.
LEMMA JournalTypes ==
    /\ \A old \in Journal, phase \in Phases: call.saved \subseteq Names =>
          /\ JournalOf(phase) \in Journal
          /\ Remains(old, JournalOf(phase)) \subseteq Journal
    /\ TornJournal \in Journal /\ NoJournal \in Journal
BY DEF Remains, JournalOf, Journal, Phases, TornJournal, NoJournal

\* Writing a directory's journal, renaming a part of it away and removing it
\* leave the types as they are.
LEMMA StagingTypes ==
    ASSUME TypeOK, NEW s \in Stagings, staging[s] # None
    PROVE  /\ \A j \in Journal:
                 [staging EXCEPT ![s].journal = j] \in [Stagings -> Staging \cup {None}]
           /\ [staging EXCEPT ![s].content = FALSE] \in [Stagings -> Staging \cup {None}]
           /\ [staging EXCEPT ![s].metadata = FALSE] \in [Stagings -> Staging \cup {None}]
           /\ [staging EXCEPT ![s] = None] \in [Stagings -> Staging \cup {None}]
<1>1. staging[s] \in Staging
  BY DEF TypeOK
<1>2. \A j \in Journal: [staging[s] EXCEPT !.journal = j] \in Staging
  BY <1>1 DEF Staging
<1>3. [staging[s] EXCEPT !.content = FALSE] \in Staging
  BY Zenon, <1>1 DEF Staging
<1>4. [staging[s] EXCEPT !.metadata = FALSE] \in Staging
  BY Zenon, <1>1 DEF Staging
<1> QED
  BY <1>2, <1>3, <1>4 DEF TypeOK

\* Its name and its tree stay while it is there, and so do the other directories.
StagingKept ==
    /\ staging'[S] # None /\ staging'[S].name = Name /\ staging'[S].tree = Tree
    /\ \A u \in Stagings \ {S}: staging'[u] = staging[u]

\* A phase recorded whole (WriteImportJournal with its rename): the journal of the
\* directory at hand says the next phase, nothing else of it changes.
LEMMA JournalWritten ==
    ASSUME IInv, call.at \in Attaching, NEW j \in Journal,
           staging' = [staging EXCEPT ![S].journal = j]
    PROVE  StagingKept /\ staging'[S].journal = j
<1>1. staging[S] \in Staging /\ S \in Stagings /\ staging = [s \in Stagings |-> staging[s]]
  BY AtDirectory DEF IInv, TypeOK
<1>2. staging'[S] = [staging[S] EXCEPT !.journal = j]
  BY <1>1
<1>3. [staging[S] EXCEPT !.journal = j] \in Staging
  BY <1>1 DEF Staging
<1> QED
  BY <1>1, <1>2, <1>3 DEF Staging, StagingKept, Name, Tree

\* A rename of PublishImport takes one part out of the staging directory and leaves
\* the journal that records it next.
LEMMA PartPublished ==
    ASSUME IInv, call.at \in Attaching,
           \/ staging' = [staging EXCEPT ![S].content = FALSE]
           \/ staging' = [staging EXCEPT ![S].metadata = FALSE]
    PROVE  StagingKept /\ staging'[S].journal = staging[S].journal
<1>1. staging[S] \in Staging /\ S \in Stagings /\ staging = [s \in Stagings |-> staging[s]]
  BY AtDirectory DEF IInv, TypeOK
<1>2. \/ staging'[S] = [staging[S] EXCEPT !.content = FALSE]
      \/ staging'[S] = [staging[S] EXCEPT !.metadata = FALSE]
  BY Zenon, <1>1
<1>3. [staging[S] EXCEPT !.content = FALSE] \in Staging
  BY Zenon, <1>1 DEF Staging
<1>4. [staging[S] EXCEPT !.metadata = FALSE] \in Staging
  BY Zenon, <1>1 DEF Staging
<1> QED
  BY <1>1, <1>2, <1>3, <1>4 DEF Staging, StagingKept, Name, Tree

\* A step that writes the journal changes nothing else on disk and stays in the
\* call; what it leaves of the journal is the new one, the old one or a torn one.
LEMMA JournalStep ==
    ASSUME IInv, JournalSteps
    PROVE  /\ call.at \in Attaching
           /\ staging' \in [Stagings -> Staging \cup {None}]
           /\ UNCHANGED <<content, metadata, index, rows, cache, promised, unread>>
<1>1. PICK phase \in Phases: \E at \in AttachSteps:
        \/ \E next: WriteJournal(at, phase, next)
        \/ JournalFails(at, phase, TRUE)
  BY DEF JournalSteps, JournalInit, JournalContent, JournalMetadata, JournalDb,
     JournalCommitted, WriteJournal, JournalFails, Phases, AttachSteps
<1>2. /\ call.at \in Attaching
      /\ UNCHANGED <<content, metadata, index, rows, cache, promised, unread>>
  BY <1>1 DEF WriteJournal, JournalFails, Attaching, observed
<1>3. PICK j \in Journal: staging' = [staging EXCEPT ![S].journal = j]
  BY <1>1, <1>2, AtDirectory, JournalTypes DEF WriteJournal, JournalFails
<1> QED
  BY Zenon, <1>2, <1>3, AtDirectory, StagingTypes DEF IInv

\* Failures and crashes stay within their bounds.
LEMMA BoundsStep ==
    IInv /\ [Next]_vars => failures' \in 0 .. MaxFailures /\ crashes' \in 0 .. MaxCrashes
<1> SUFFICES ASSUME IInv, [Next]_vars
             PROVE  failures' \in 0 .. MaxFailures /\ crashes' \in 0 .. MaxCrashes
  OBVIOUS
<1> failures \in 0 .. MaxFailures /\ crashes \in 0 .. MaxCrashes
  BY DEF IInv, TypeOK
<1>1. CASE AttachStep
  BY <1>1 DEF AttachStep, bounds, JournalInit, PublishContent, JournalContent,
     PublishMetadata, JournalMetadata, PublishFails, CommitStore, StoreFails, JournalDb,
     SaveParent, SaveParentFails, JournalCommitted, Announce, Cleanup, UndoMetadata,
     UndoContent, UndoStaging, WriteJournal, JournalFails, RemoveStaging, Fail
<1>2. CASE RecoverIndex \/ RecoverStaging
  BY <1>2 DEF RecoverIndex, RecoverStaging, RemoveStaging, bounds, Fail
<1>3. CASE Close \/ Crash \/ CrashInJournal \/ CrashInRestore
  BY <1>3 DEF Close, Crash, CrashInJournal, CrashInRestore, bounds
<1>4. CASE UNCHANGED bounds
  BY <1>4 DEF bounds
<1> QED
  BY Zenon, <1>1, <1>2, <1>3, <1>4 DEF Next, vars, Stage, DeleteFolder, CreateFolder,
     BeginAttach, RefuseAttach, Open, RecoverAgain, StartRecovery, RecoveryStep,
     RecoverUnreadable, RollForward, RollBack, RecoverMetadata, RecoverContent,
     RecoverRows, EndRecovery

\* Every step keeps the types.
LEMMA TypeStep == IInv /\ [Next]_vars => TypeOK'
<1> SUFFICES ASSUME IInv, [Next]_vars PROVE TypeOK'
  OBVIOUS
<1> TypeOK /\ failures' \in 0 .. MaxFailures /\ crashes' \in 0 .. MaxCrashes
  BY BoundsStep DEF IInv
<1> USE DEF Attaching, AttachSteps, UndoSteps, RecoverySteps, disk, observed
<1>1. ASSUME NEW s \in Stagings, NEW n \in Names, NEW t \in Trees, Stage(s, n, t) PROVE TypeOK'
  <2>1. [tree |-> t, name |-> n, content |-> TRUE, metadata |-> TRUE,
          journal |-> NoJournal] \in Staging
    BY JournalTypes DEF Staging
  <2> QED
    BY <1>1, <2>1 DEF Stage, TypeOK
<1>2. ASSUME NEW n \in Names, NEW t \in Trees, CreateFolder(n, t) PROVE TypeOK'
  BY <1>2 DEF CreateFolder, Listed, Loaded, TypeOK
<1>3. ASSUME NEW n \in Names, DeleteFolder(n) PROVE TypeOK'
  BY <1>3 DEF DeleteFolder, Listed, Loaded, TypeOK
<1>4. ASSUME NEW s \in Stagings, BeginAttach(s) PROVE TypeOK'
  <2>1. call' \in Call
    BY Zenon, <1>4, CallTypes DEF BeginAttach, CallSteps
  <2> QED
    BY <1>4, <2>1 DEF BeginAttach, Loaded, Listed, TypeOK, Call, CallSteps
<1>5. ASSUME NEW s \in Stagings, RefuseAttach(s) PROVE TypeOK'
  BY <1>5 DEF RefuseAttach, Loaded, Listed, TypeOK
<1>6. ASSUME JournalInit PROVE TypeOK'
  <2>1. /\ staging' \in [Stagings -> Staging \cup {None}]
        /\ UNCHANGED <<content, metadata, index, rows, cache, promised, unread>>
    BY <1>6, JournalStep DEF JournalSteps
  <2>2. call' \in Call
    <3>1. CASE WriteJournal("journal_init", "init", "content")
      BY Zenon, <3>1, CallTypes DEF WriteJournal, Goto, CallSteps
    <3>2. CASE call' = NoCall("idle")
      BY Zenon, <3>2, CallTypes DEF CallSteps
    <3> QED
      BY <1>6, <3>1, <3>2 DEF JournalInit, JournalFails
  <2>3. leaked' \subseteq Trees
    BY <1>6 DEF JournalInit, WriteJournal, JournalFails, TypeOK
  <2> QED
    BY <2>1, <2>2, <2>3 DEF TypeOK, Call, CallSteps
<1>7. ASSUME PublishContent PROVE TypeOK'
  <2>1. call' \in Call
    BY Zenon, <1>7, CallTypes DEF PublishContent, Goto, CallSteps
  <2> QED
    BY Zenon, <1>7, <2>1, AtDirectory, StagingTypes DEF PublishContent, TypeOK, Call, CallSteps
<1>8. ASSUME JournalContent PROVE TypeOK'
  <2>1. /\ staging' \in [Stagings -> Staging \cup {None}]
        /\ UNCHANGED <<content, metadata, index, rows, cache, promised, unread>>
    BY <1>8, JournalStep DEF JournalSteps
  <2>2. call' \in Call
    <3>1. CASE WriteJournal("journal_content", "content", "metadata")
      BY Zenon, <3>1, CallTypes DEF WriteJournal, Goto, CallSteps
    <3>2. CASE Rollback({"content"})
      BY Zenon, <3>2, CallTypes DEF Rollback, CallSteps
    <3> QED
      BY <1>8, <3>1, <3>2 DEF JournalContent, JournalFails
  <2>3. leaked' \subseteq Trees
    BY <1>8 DEF JournalContent, WriteJournal, JournalFails, TypeOK
  <2> QED
    BY <2>1, <2>2, <2>3 DEF TypeOK, Call, CallSteps
<1>9. ASSUME PublishMetadata PROVE TypeOK'
  <2>1. call' \in Call
    BY Zenon, <1>9, CallTypes DEF PublishMetadata, Goto, CallSteps
  <2> QED
    BY Zenon, <1>9, <2>1, AtDirectory, StagingTypes DEF PublishMetadata, TypeOK, Call,
       CallSteps
<1>10. ASSUME JournalMetadata PROVE TypeOK'
  <2>1. /\ staging' \in [Stagings -> Staging \cup {None}]
        /\ UNCHANGED <<content, metadata, index, rows, cache, promised, unread>>
    BY <1>10, JournalStep DEF JournalSteps
  <2>2. call' \in Call
    <3>1. CASE WriteJournal("journal_metadata", "metadata", "store")
      BY Zenon, <3>1, CallTypes DEF WriteJournal, Goto, CallSteps
    <3>2. CASE Rollback({"content", "metadata"})
      BY Zenon, <3>2, CallTypes DEF Rollback, CallSteps
    <3> QED
      BY <1>10, <3>1, <3>2 DEF JournalMetadata, JournalFails
  <2>3. leaked' \subseteq Trees
    BY <1>10 DEF JournalMetadata, WriteJournal, JournalFails, TypeOK
  <2> QED
    BY <2>1, <2>2, <2>3 DEF TypeOK, Call, CallSteps
<1>11. ASSUME PublishFails PROVE TypeOK'
  <2>1. call' \in Call
    BY Zenon, <1>11, CallTypes DEF PublishFails, Rollback, CallSteps
  <2> QED
    BY <1>11, <2>1 DEF PublishFails, TypeOK, Call, CallSteps
<1>12. ASSUME CommitStore PROVE TypeOK'
  <2>1. call' \in Call
    BY Zenon, <1>12, CallTypes DEF CommitStore, Goto, CallSteps
  <2> QED
    BY <1>12, <2>1, AtDirectory DEF CommitStore, TypeOK, Call, CallSteps
<1>13. ASSUME StoreFails PROVE TypeOK'
  <2>1. call' \in Call
    BY Zenon, <1>13, CallTypes DEF StoreFails, Rollback, CallSteps
  <2> QED
    BY <1>13, <2>1 DEF StoreFails, TypeOK, Call, CallSteps
<1>14. ASSUME JournalDb PROVE TypeOK'
  <2>1. /\ staging' \in [Stagings -> Staging \cup {None}]
        /\ UNCHANGED <<content, metadata, index, rows, cache, promised, unread>>
    BY <1>14, JournalStep DEF JournalSteps
  <2>2. call' \in Call
    <3>1. CASE WriteJournal("journal_db", "db", "parent")
      BY Zenon, <3>1, CallTypes DEF WriteJournal, Goto, CallSteps
    <3>2. CASE Rollback({"content", "metadata"})
      BY Zenon, <3>2, CallTypes DEF Rollback, CallSteps
    <3> QED
      BY <1>14, <3>1, <3>2 DEF JournalDb, JournalFails
  <2>3. leaked' \subseteq Trees
    BY <1>14, AtDirectory DEF JournalDb, WriteJournal, JournalFails, TypeOK
  <2> QED
    BY <2>1, <2>2, <2>3 DEF TypeOK, Call, CallSteps
<1>15. ASSUME SaveParent PROVE TypeOK'
  <2>1. call' \in Call
    BY Zenon, <1>15, CallTypes DEF SaveParent, Goto, CallSteps
  <2> QED
    BY <1>15, <2>1, AtDirectory DEF SaveParent, Loaded, TypeOK, Call, CallSteps
<1>16. ASSUME SaveParentFails PROVE TypeOK'
  <2>1. call' \in Call
    BY Zenon, <1>16, CallTypes DEF SaveParentFails, Rollback, CallSteps
  <2> QED
    BY <1>16, <2>1, AtDirectory DEF SaveParentFails, Loaded, PopName, TypeOK, Call,
       CallSteps
<1>17. ASSUME JournalCommitted PROVE TypeOK'
  <2>1. /\ staging' \in [Stagings -> Staging \cup {None}]
        /\ UNCHANGED <<content, metadata, index, rows, cache, promised, unread>>
    BY <1>17, JournalStep DEF JournalSteps
  <2>2. call' \in Call
    <3>1. CASE WriteJournal("journal_committed", "committed", "announce")
      BY Zenon, <3>1, CallTypes DEF WriteJournal, Goto, CallSteps
    <3>2. CASE Goto("announce")
      BY Zenon, <3>2, CallTypes DEF Goto, CallSteps
    <3> QED
      BY <1>17, <3>1, <3>2 DEF JournalCommitted, JournalFails
  <2>3. leaked' \subseteq Trees
    BY <1>17 DEF JournalCommitted, WriteJournal, JournalFails, TypeOK
  <2> QED
    BY <2>1, <2>2, <2>3 DEF TypeOK, Call, CallSteps
<1>18. ASSUME Announce PROVE TypeOK'
  <2>1. call' \in Call
    BY Zenon, <1>18, CallTypes DEF Announce, Goto, CallSteps
  <2> QED
    BY <1>18, <2>1, AtDirectory DEF Announce, TypeOK, Call, CallSteps
<1>19. ASSUME Cleanup PROVE TypeOK'
  <2>1. call' \in Call
    BY Zenon, <1>19, CallTypes DEF Cleanup, CallSteps
  <2> QED
    BY <1>19, <2>1, AtDirectory, StagingTypes DEF Cleanup, RemoveStaging, TypeOK, Call,
       CallSteps
<1>20. ASSUME UndoMetadata PROVE TypeOK'
  <2>1. call' \in Call
    BY Zenon, <1>20, CallTypes DEF UndoMetadata, Goto, CallSteps
  <2> QED
    BY <1>20, <2>1, AtDirectory DEF UndoMetadata, TypeOK, Call, CallSteps
<1>21. ASSUME UndoContent PROVE TypeOK'
  <2>1. call' \in Call
    BY Zenon, <1>21, CallTypes DEF UndoContent, Goto, CallSteps
  <2> QED
    BY <1>21, <2>1, AtDirectory DEF UndoContent, TypeOK, Call, CallSteps
<1>22. ASSUME UndoStaging PROVE TypeOK'
  <2>1. call' \in Call
    BY Zenon, <1>22, CallTypes DEF UndoStaging, CallSteps
  <2> QED
    BY <1>22, <2>1, AtDirectory, StagingTypes DEF UndoStaging, RemoveStaging, TypeOK,
       Call, CallSteps
<1>23. ASSUME Open PROVE TypeOK'
  <2>1. call' \in Call
    BY Zenon, <1>23, CallTypes DEF Open, StartRecovery, JournalDirs, CallSteps
  <2> QED
    BY <1>23, <2>1 DEF Open, StartRecovery, JournalDirs, TypeOK, Call, CallSteps
<1>24. ASSUME RecoverAgain PROVE TypeOK'
  <2>1. call' \in Call
    BY Zenon, <1>24, CallTypes DEF RecoverAgain, StartRecovery, JournalDirs, CallSteps
  <2> QED
    BY <1>24, <2>1 DEF RecoverAgain, StartRecovery, JournalDirs, TypeOK, Call, CallSteps
<1>25. ASSUME NEW s \in Stagings, RecoverUnreadable(s) PROVE TypeOK'
  <2>1. staging[s] \in Staging
    BY <1>25 DEF RecoverUnreadable, IInv, TypeOK, RecoveryInProgress, Journaled
  <2>2. staging[s].tree \in Trees
    BY <2>1 DEF Staging
  <2>3. call' \in Call
    BY Zenon, <1>25, CallTypes DEF RecoverUnreadable, CallSteps
  <2> QED
    BY <1>25, <2>2, <2>3 DEF RecoverUnreadable, TypeOK, Call, CallSteps
<1>26. ASSUME NEW s \in Stagings, RollForward(s) PROVE TypeOK'
  <2>1. call' \in Call
    BY Zenon, <1>26, CallTypes DEF RollForward, CallSteps
  <2> QED
    BY <1>26, <2>1 DEF RollForward, TypeOK, Call, CallSteps
<1>27. ASSUME NEW s \in Stagings, RollBack(s) PROVE TypeOK'
  <2>1. call' \in Call
    BY Zenon, <1>27, CallTypes DEF RollBack, CallSteps
  <2> QED
    BY <1>27, <2>1 DEF RollBack, TypeOK, Call, CallSteps
<1>28. ASSUME RecoverMetadata PROVE TypeOK'
  <2>1. call' \in Call
    BY Zenon, <1>28, CallTypes DEF RecoverMetadata, Goto, CallSteps
  <2> QED
    BY <1>28, <2>1, AtDirectory DEF RecoverMetadata, TypeOK, Call, CallSteps
<1>29. ASSUME RecoverContent PROVE TypeOK'
  <2>1. call' \in Call
    BY Zenon, <1>29, CallTypes DEF RecoverContent, Goto, CallSteps
  <2> QED
    BY <1>29, <2>1, AtDirectory DEF RecoverContent, TypeOK, Call, CallSteps
<1>30. ASSUME RecoverRows PROVE TypeOK'
  <2>1. call' \in Call
    BY Zenon, <1>30, CallTypes DEF RecoverRows, Goto, CallSteps
  <2> QED
    BY <1>30, <2>1, AtDirectory DEF RecoverRows, TypeOK, Call, CallSteps
<1>31. ASSUME RecoverIndex PROVE TypeOK'
  <2>1. call' \in Call
    BY Zenon, <1>31, CallTypes DEF RecoverIndex, Goto, CallSteps
  <2>2. SavedIndex(S) \in [readable: BOOLEAN, names: SUBSET Names]
    BY <1>31, AtDirectory DEF RecoverIndex, SavedIndex, Journal
  <2>3. Torn \in [readable: BOOLEAN, names: SUBSET Names]
    BY DEF Torn
  <2> QED
    BY <1>31, <2>1, <2>2, <2>3 DEF RecoverIndex, TypeOK, Call, CallSteps
<1>32. ASSUME RecoverStaging PROVE TypeOK'
  <2>1. call' \in Call
    BY Zenon, <1>32, CallTypes DEF RecoverStaging, CallSteps
  <2> QED
    BY <1>32, <2>1, AtDirectory, StagingTypes DEF RecoverStaging, RemoveStaging, TypeOK,
       Call, CallSteps
<1>33. ASSUME EndRecovery PROVE TypeOK'
  <2>1. call' \in Call
    BY Zenon, <1>33, CallTypes DEF EndRecovery, CallSteps
  <2> QED
    BY <1>33, <2>1 DEF EndRecovery, NotLoaded, TypeOK, Call, CallSteps
<1>34. ASSUME Close PROVE TypeOK'
  <2>1. call' \in Call
    BY Zenon, <1>34, CallTypes DEF Close, Gone, CallSteps
  <2> QED
    BY <1>34, <2>1 DEF Close, Gone, NotLoaded, TypeOK, Call, CallSteps
<1>35. ASSUME Crash PROVE TypeOK'
  <2>1. call' \in Call
    BY Zenon, <1>35, CallTypes DEF Crash, Gone, CallSteps
  <2> QED
    BY <1>35, <2>1 DEF Crash, Gone, NotLoaded, TypeOK, Call, CallSteps
<1>36. ASSUME CrashInJournal PROVE TypeOK'
  <2>1. call' \in Call
    BY Zenon, <1>36, CallTypes DEF CrashInJournal, Gone, CallSteps
  <2> QED
    BY Zenon, <1>36, <2>1, AtDirectory, StagingTypes, JournalTypes DEF CrashInJournal, Gone,
       NotLoaded, TypeOK, Call, CallSteps
<1>37. ASSUME CrashInRestore PROVE TypeOK'
  <2>1. call' \in Call
    BY Zenon, <1>37, CallTypes DEF CrashInRestore, Gone, CallSteps
  <2> QED
    BY <1>37, <2>1 DEF CrashInRestore, Torn, Gone, NotLoaded, TypeOK, Call, CallSteps
<1>38. CASE UNCHANGED vars
  BY <1>38 DEF vars, bounds, TypeOK
<1> QED
  BY <1>1, <1>2, <1>3, <1>4, <1>5, <1>6, <1>7, <1>8, <1>9, <1>10, <1>11, <1>12, <1>13,
     <1>14, <1>15, <1>16, <1>17, <1>18, <1>19, <1>20, <1>21, <1>22, <1>23, <1>24, <1>25,
     <1>26, <1>27, <1>28, <1>29, <1>30, <1>31, <1>32, <1>33, <1>34, <1>35, <1>36, <1>37,
     <1>38 DEF Next, AttachStep, RecoveryStep

-----------------------------------------------------------------------------
(* Every step keeps the invariant *)

Invs ==
    /\ Journals /\ IndexBytes /\ CachedNames /\ SettledFolders
    /\ Explained /\ ExplainedRows /\ AttachInProgress /\ RecoveryInProgress

\* The consumer and the user, who find no call in progress.
LEMMA UserSteps ==
    ASSUME RepairsSucceed, IInv, TypeOK',
           \/ (\E s \in Stagings, n \in Names, t \in Trees: Stage(s, n, t))
           \/ (\E n \in Names, t \in Trees: CreateFolder(n, t))
           \/ (\E n \in Names: DeleteFolder(n))
           \/ (\E s \in Stagings: BeginAttach(s))
           \/ (\E s \in Stagings: RefuseAttach(s))
    PROVE  Invs'
<1> USE DEF IInv, TypeOK, Invs, Journals, IndexBytes, CachedNames, SettledFolders, Explained,
   ExplainedRows, AttachInProgress, RecoveryInProgress, Attaching, AttachSteps, UndoSteps,
   RecoverySteps, Stored, Has, Unfinished, Settled, Suspect, Explains, Phases, Journaled,
   Name, Tree
<1>1. ASSUME NEW s \in Stagings, NEW n \in Names, NEW t \in Trees, Stage(s, n, t) PROVE Invs'
  BY <1>1, AtDirectory, SMTT(60) DEF RepairsSucceed, S, disk, observed, vars, Stage,
     NoJournal
<1>2. ASSUME NEW n \in Names, NEW t \in Trees, CreateFolder(n, t) PROVE Invs'
  BY <1>2, AtDirectory, SMTT(60) DEF RepairsSucceed, S, disk, observed, vars,
     CreateFolder, Readable, Listed, Loaded
<1>3. ASSUME NEW n \in Names, DeleteFolder(n) PROVE Invs'
  BY <1>3, AtDirectory, SMTT(60) DEF RepairsSucceed, S, disk, observed, vars,
     DeleteFolder, Readable, Listed, Loaded
<1>4. ASSUME NEW s \in Stagings, BeginAttach(s) PROVE Invs'
  <2>1. call'.at = "journal_init" /\ call'.on = s /\ call'.saved = index.names
    BY Zenon, <1>4, DirectoryTaken
  <2>2. /\ call.at = "idle" /\ Complete(s) /\ Readable /\ Admissible(s)
        /\ cache' = Loaded(Listed)
        /\ UNCHANGED <<disk, observed>>
    BY Zenon, <1>4 DEF BeginAttach
  <2>11. Journals'
    BY <2>1, <2>2, AtDirectory, SMTT(60) DEF Complete, Readable, Admissible, Loaded,
       Listed, disk, observed, S
  <2>12. IndexBytes'
    BY <2>1, <2>2, AtDirectory, SMTT(60) DEF Complete, Readable, Admissible, Loaded,
       Listed, disk, observed, S
  <2>13. CachedNames'
    BY <2>1, <2>2, AtDirectory, SMTT(60) DEF Complete, Readable, Admissible, Loaded,
       Listed, disk, observed, S
  <2>14. SettledFolders'
    BY <2>1, <2>2, AtDirectory, SMTT(60) DEF Complete, Readable, Admissible, Loaded,
       Listed, disk, observed, S
  <2>15. Explained'
    BY <2>1, <2>2, AtDirectory, SMTT(60) DEF Complete, Readable, Admissible, Loaded,
       Listed, disk, observed, S
  <2>16. ExplainedRows'
    BY <2>1, <2>2, AtDirectory, SMTT(60) DEF Complete, Readable, Admissible, Loaded,
       Listed, disk, observed, S
  <2>17. AttachInProgress'
    BY <2>1, <2>2, AtDirectory, SMTT(60) DEF Complete, Readable, Admissible, Loaded,
       Listed, disk, observed, S
  <2>18. RecoveryInProgress'
    BY <2>1, <2>2, AtDirectory, SMTT(60) DEF Complete, Readable, Admissible, Loaded,
       Listed, disk, observed, S
  <2> QED
    BY <2>11, <2>12, <2>13, <2>14, <2>15, <2>16, <2>17, <2>18
<1>5. ASSUME NEW s \in Stagings, RefuseAttach(s) PROVE Invs'
  BY <1>5, AtDirectory, SMTT(60) DEF RepairsSucceed, S, disk, observed, vars,
     RefuseAttach, Complete, Readable, Admissible, Listed, Reachable, Loaded
<1> QED
  BY Zenon, <1>1, <1>2, <1>3, <1>4, <1>5

\* The renames, the store transaction, the save of the parent and the report.
LEMMA PublishSteps ==
    ASSUME RepairsSucceed, IInv, TypeOK',
           \/ PublishContent
           \/ PublishMetadata
           \/ PublishFails
           \/ CommitStore
           \/ StoreFails
           \/ SaveParent
           \/ SaveParentFails
           \/ Announce
           \/ Cleanup
    PROVE  Invs'
<1> USE DEF IInv, TypeOK, Invs, Journals, IndexBytes, CachedNames, SettledFolders, Explained,
   ExplainedRows, AttachInProgress, RecoveryInProgress, Attaching, AttachSteps, UndoSteps,
   RecoverySteps, Stored, Has, Unfinished, Settled, Suspect, Explains, Phases, Journaled,
   Name, Tree
<1>1. CASE PublishContent
  <2>1. StagingKept /\ staging'[S].journal = staging[S].journal
    BY <1>1, PartPublished DEF PublishContent
  <2>2. /\ call.at = "content" /\ call'.at = "journal_content"
        /\ call'.on = S /\ call'.saved = call.saved
        /\ content' = [content EXCEPT ![Name] = Tree]
        /\ UNCHANGED <<metadata, index, rows, cache, observed>>
    BY Zenon, <1>1, CallEffects DEF PublishContent, CallSteps
  <2>11. Journals'
    BY <2>1, <2>2, AtDirectory, SMTT(60) DEF StagingKept, observed, S
  <2>12. IndexBytes'
    BY <2>1, <2>2, AtDirectory, SMTT(60) DEF StagingKept, observed, S
  <2>13. CachedNames'
    BY <2>1, <2>2, AtDirectory, SMTT(60) DEF StagingKept, observed, S
  <2>14. SettledFolders'
    BY <2>1, <2>2, AtDirectory, SMTT(60) DEF StagingKept, observed, S
  <2>15. Explained'
    BY <2>1, <2>2, AtDirectory, SMTT(60) DEF StagingKept, observed, S
  <2>16. ExplainedRows'
    BY <2>1, <2>2, AtDirectory, SMTT(60) DEF StagingKept, observed, S
  <2>17. AttachInProgress'
    BY <2>1, <2>2, AtDirectory, SMTT(60) DEF StagingKept, observed, S
  <2>18. RecoveryInProgress'
    BY <2>1, <2>2, AtDirectory, SMTT(60) DEF StagingKept, observed, S
  <2> QED
    BY <2>11, <2>12, <2>13, <2>14, <2>15, <2>16, <2>17, <2>18
<1>2. CASE PublishMetadata
  <2>1. StagingKept /\ staging'[S].journal = staging[S].journal
    BY <1>2, PartPublished DEF PublishMetadata
  <2>2. /\ call.at = "metadata" /\ call'.at = "journal_metadata"
        /\ call'.on = S /\ call'.saved = call.saved
        /\ metadata' = [metadata EXCEPT ![Name] = Tree]
        /\ UNCHANGED <<content, index, rows, cache, observed>>
    BY Zenon, <1>2, CallEffects DEF PublishMetadata, CallSteps
  <2>11. Journals'
    BY <2>1, <2>2, AtDirectory, SMTT(60) DEF StagingKept, observed, S
  <2>12. IndexBytes'
    BY <2>1, <2>2, AtDirectory, SMTT(60) DEF StagingKept, observed, S
  <2>13. CachedNames'
    BY <2>1, <2>2, AtDirectory, SMTT(60) DEF StagingKept, observed, S
  <2>14. SettledFolders'
    BY <2>1, <2>2, AtDirectory, SMTT(60) DEF StagingKept, observed, S
  <2>15. Explained'
    BY <2>1, <2>2, AtDirectory, SMTT(60) DEF StagingKept, observed, S
  <2>16. ExplainedRows'
    BY <2>1, <2>2, AtDirectory, SMTT(60) DEF StagingKept, observed, S
  <2>17. AttachInProgress'
    BY <2>1, <2>2, AtDirectory, SMTT(60) DEF StagingKept, observed, S
  <2>18. RecoveryInProgress'
    BY <2>1, <2>2, AtDirectory, SMTT(60) DEF StagingKept, observed, S
  <2> QED
    BY <2>11, <2>12, <2>13, <2>14, <2>15, <2>16, <2>17, <2>18
<1>3. CASE PublishFails
  BY <1>3, AtDirectory, SMTT(60) DEF RepairsSucceed, S, disk, observed, vars,
     PublishFails, Fail, Rollback
<1>4. CASE CommitStore
  BY <1>4, AtDirectory, SMTT(60) DEF RepairsSucceed, S, disk, observed, vars,
     CommitStore, Goto
<1>5. CASE StoreFails
  BY <1>5, AtDirectory, SMTT(60) DEF RepairsSucceed, S, disk, observed, vars,
     StoreFails, Fail, Rollback
<1>6. CASE SaveParent
  BY <1>6, AtDirectory, SMTT(60) DEF RepairsSucceed, S, disk, observed, vars,
     SaveParent, Loaded, Goto
<1>7. CASE SaveParentFails
  BY <1>7, AtDirectory, SMTT(60) DEF RepairsSucceed, S, disk, observed, vars,
     SaveParentFails, Fail, Loaded, PopName, Rollback
<1>8. CASE Announce
  BY <1>8, AtDirectory, SMTT(60) DEF RepairsSucceed, S, disk, observed, vars, Announce,
     Goto
<1>9. CASE Cleanup
  BY <1>9, AtDirectory, SMTT(60) DEF RepairsSucceed, S, disk, observed, vars, Cleanup,
     RemoveStaging, Fail, NoCall
<1> QED
  BY Zenon, <1>1, <1>2, <1>3, <1>4, <1>5, <1>6, <1>7, <1>8, <1>9

\* The writes of the journal.
LEMMA JournalWrites ==
    ASSUME RepairsSucceed, IInv, TypeOK',
           \/ JournalInit
           \/ JournalContent
           \/ JournalMetadata
           \/ JournalDb
           \/ JournalCommitted
    PROVE  Invs'
<1> USE DEF IInv, TypeOK, Invs, Journals, IndexBytes, CachedNames, SettledFolders, Explained,
   ExplainedRows, AttachInProgress, RecoveryInProgress, Attaching, AttachSteps, UndoSteps,
   RecoverySteps, Stored, Has, Unfinished, Settled, Suspect, Explains, Phases, Journaled,
   Name, Tree
<1>1. CASE JournalInit
  <2>1. PICK j \in Journal:
          /\ staging' = [staging EXCEPT ![S].journal = j]
          /\ \/ /\ j = JournalOf("init") /\ call'.at = "content"
                /\ call'.on = S /\ call'.saved = call.saved /\ UNCHANGED leaked
             \/ /\ j \in {staging[S].journal, TornJournal} /\ UNCHANGED leaked
                /\ call'.at = "idle"
    <3>1. CASE WriteJournal("journal_init", "init", "content")
      BY Zenon, <3>1, AtDirectory, JournalTypes, CallEffects DEF WriteJournal, observed, CallSteps
    <3>2. CASE JournalFails("journal_init", "init", call' = NoCall("idle")) /\ UNCHANGED leaked
      <4>1. PICK j \in Remains(staging[S].journal, JournalOf("init")):
              staging' = [staging EXCEPT ![S].journal = j]
        BY Zenon, <3>2 DEF JournalFails
      <4>2. j \in Journal /\ j \in {staging[S].journal, TornJournal}
        BY <3>2, <4>1, AtDirectory, JournalTypes DEF JournalFails, Remains, RepairsSucceed
      <4>3. call'.at = "idle"
        BY Zenon, <3>2, CallEffects DEF JournalFails, NoCall, CallSteps
      <4> QED
        BY Zenon, <3>2, <4>1, <4>2, <4>3
    <3> QED
      BY <1>1, <3>1, <3>2 DEF JournalInit, JournalFails
  <2>2. StagingKept /\ staging'[S].journal = j
    BY Zenon, <1>1, <2>1, JournalWritten DEF JournalInit, WriteJournal, JournalFails
  <2>3. /\ call.at = "journal_init"
        /\ UNCHANGED <<content, metadata, index, rows, cache, promised, unread>>
    BY <1>1 DEF JournalInit, WriteJournal, JournalFails, observed
  <2>11. Journals'
    BY <2>1, <2>2, <2>3, AtDirectory, SMTT(60) DEF JournalOf, TornJournal, StagingKept,
       S
  <2>12. IndexBytes'
    BY <2>1, <2>2, <2>3, AtDirectory, SMTT(60) DEF JournalOf, TornJournal, StagingKept,
       S
  <2>13. CachedNames'
    BY <2>1, <2>2, <2>3, AtDirectory, SMTT(60) DEF JournalOf, TornJournal, StagingKept,
       S
  <2>14. SettledFolders'
    BY <2>1, <2>2, <2>3, AtDirectory, SMTT(60) DEF JournalOf, TornJournal, StagingKept,
       S
  <2>15. Explained'
    BY <2>1, <2>2, <2>3, AtDirectory, SMTT(60) DEF JournalOf, TornJournal, StagingKept,
       S
  <2>16. ExplainedRows'
    BY <2>1, <2>2, <2>3, AtDirectory, SMTT(60) DEF JournalOf, TornJournal, StagingKept,
       S
  <2>17. AttachInProgress'
    BY <2>1, <2>2, <2>3, AtDirectory, SMTT(60) DEF JournalOf, TornJournal, StagingKept,
       S
  <2>18. RecoveryInProgress'
    BY <2>1, <2>2, <2>3, AtDirectory, SMTT(60) DEF JournalOf, TornJournal, StagingKept,
       S
  <2> QED
    BY <2>11, <2>12, <2>13, <2>14, <2>15, <2>16, <2>17, <2>18
<1>2. CASE JournalContent
  <2>1. PICK j \in Journal:
          /\ staging' = [staging EXCEPT ![S].journal = j]
          /\ \/ /\ j = JournalOf("content") /\ call'.at = "metadata"
                /\ call'.on = S /\ call'.saved = call.saved /\ UNCHANGED leaked
             \/ /\ j \in {staging[S].journal, TornJournal} /\ UNCHANGED leaked
                /\ call'.at = "undo_metadata" /\ call'.undo = {"content"}
                /\ call'.on = S /\ call'.saved = call.saved
    <3>1. CASE WriteJournal("journal_content", "content", "metadata")
      BY Zenon, <3>1, AtDirectory, JournalTypes, CallEffects DEF WriteJournal, observed, CallSteps
    <3>2. CASE JournalFails("journal_content", "content", Rollback({"content"})) /\ UNCHANGED leaked
      <4>1. PICK j \in Remains(staging[S].journal, JournalOf("content")):
              staging' = [staging EXCEPT ![S].journal = j]
        BY Zenon, <3>2 DEF JournalFails
      <4>2. j \in Journal /\ j \in {staging[S].journal, TornJournal}
        BY <3>2, <4>1, AtDirectory, JournalTypes DEF JournalFails, Remains, RepairsSucceed
      <4>3. call'.at = "undo_metadata" /\ call'.undo = {"content"} /\ call'.on = S /\ call'.saved = call.saved
        BY Zenon, <3>2, CallEffects DEF JournalFails, NoCall, CallSteps
      <4> QED
        BY Zenon, <3>2, <4>1, <4>2, <4>3
    <3> QED
      BY <1>2, <3>1, <3>2 DEF JournalContent, JournalFails
  <2>2. StagingKept /\ staging'[S].journal = j
    BY Zenon, <1>2, <2>1, JournalWritten DEF JournalContent, WriteJournal, JournalFails
  <2>3. /\ call.at = "journal_content"
        /\ UNCHANGED <<content, metadata, index, rows, cache, promised, unread>>
    BY <1>2 DEF JournalContent, WriteJournal, JournalFails, observed
  <2>11. Journals'
    BY <2>1, <2>2, <2>3, AtDirectory, SMTT(60) DEF JournalOf, TornJournal, StagingKept,
       S
  <2>12. IndexBytes'
    BY <2>1, <2>2, <2>3, AtDirectory, SMTT(60) DEF JournalOf, TornJournal, StagingKept,
       S
  <2>13. CachedNames'
    BY <2>1, <2>2, <2>3, AtDirectory, SMTT(60) DEF JournalOf, TornJournal, StagingKept,
       S
  <2>14. SettledFolders'
    BY <2>1, <2>2, <2>3, AtDirectory, SMTT(60) DEF JournalOf, TornJournal, StagingKept,
       S
  <2>15. Explained'
    BY <2>1, <2>2, <2>3, AtDirectory, SMTT(60) DEF JournalOf, TornJournal, StagingKept,
       S
  <2>16. ExplainedRows'
    BY <2>1, <2>2, <2>3, AtDirectory, SMTT(60) DEF JournalOf, TornJournal, StagingKept,
       S
  <2>17. AttachInProgress'
    BY <2>1, <2>2, <2>3, AtDirectory, SMTT(60) DEF JournalOf, TornJournal, StagingKept,
       S
  <2>18. RecoveryInProgress'
    BY <2>1, <2>2, <2>3, AtDirectory, SMTT(60) DEF JournalOf, TornJournal, StagingKept,
       S
  <2> QED
    BY <2>11, <2>12, <2>13, <2>14, <2>15, <2>16, <2>17, <2>18
<1>3. CASE JournalMetadata
  <2>1. PICK j \in Journal:
          /\ staging' = [staging EXCEPT ![S].journal = j]
          /\ \/ /\ j = JournalOf("metadata") /\ call'.at = "store"
                /\ call'.on = S /\ call'.saved = call.saved /\ UNCHANGED leaked
             \/ /\ j \in {staging[S].journal, TornJournal} /\ UNCHANGED leaked
                /\ call'.at = "undo_metadata" /\ call'.undo = {"content", "metadata"}
                /\ call'.on = S /\ call'.saved = call.saved
    <3>1. CASE WriteJournal("journal_metadata", "metadata", "store")
      BY Zenon, <3>1, AtDirectory, JournalTypes, CallEffects DEF WriteJournal, observed, CallSteps
    <3>2. CASE JournalFails("journal_metadata", "metadata", Rollback({"content", "metadata"})) /\ UNCHANGED leaked
      <4>1. PICK j \in Remains(staging[S].journal, JournalOf("metadata")):
              staging' = [staging EXCEPT ![S].journal = j]
        BY Zenon, <3>2 DEF JournalFails
      <4>2. j \in Journal /\ j \in {staging[S].journal, TornJournal}
        BY <3>2, <4>1, AtDirectory, JournalTypes DEF JournalFails, Remains, RepairsSucceed
      <4>3. call'.at = "undo_metadata" /\ call'.undo = {"content", "metadata"} /\ call'.on = S /\ call'.saved = call.saved
        BY Zenon, <3>2, CallEffects DEF JournalFails, NoCall, CallSteps
      <4> QED
        BY Zenon, <3>2, <4>1, <4>2, <4>3
    <3> QED
      BY <1>3, <3>1, <3>2 DEF JournalMetadata, JournalFails
  <2>2. StagingKept /\ staging'[S].journal = j
    BY Zenon, <1>3, <2>1, JournalWritten DEF JournalMetadata, WriteJournal, JournalFails
  <2>3. /\ call.at = "journal_metadata"
        /\ UNCHANGED <<content, metadata, index, rows, cache, promised, unread>>
    BY <1>3 DEF JournalMetadata, WriteJournal, JournalFails, observed
  <2>11. Journals'
    BY <2>1, <2>2, <2>3, AtDirectory, SMTT(60) DEF JournalOf, TornJournal, StagingKept,
       S
  <2>12. IndexBytes'
    BY <2>1, <2>2, <2>3, AtDirectory, SMTT(60) DEF JournalOf, TornJournal, StagingKept,
       S
  <2>13. CachedNames'
    BY <2>1, <2>2, <2>3, AtDirectory, SMTT(60) DEF JournalOf, TornJournal, StagingKept,
       S
  <2>14. SettledFolders'
    BY <2>1, <2>2, <2>3, AtDirectory, SMTT(60) DEF JournalOf, TornJournal, StagingKept,
       S
  <2>15. Explained'
    BY <2>1, <2>2, <2>3, AtDirectory, SMTT(60) DEF JournalOf, TornJournal, StagingKept,
       S
  <2>16. ExplainedRows'
    BY <2>1, <2>2, <2>3, AtDirectory, SMTT(60) DEF JournalOf, TornJournal, StagingKept,
       S
  <2>17. AttachInProgress'
    BY <2>1, <2>2, <2>3, AtDirectory, SMTT(60) DEF JournalOf, TornJournal, StagingKept,
       S
  <2>18. RecoveryInProgress'
    BY <2>1, <2>2, <2>3, AtDirectory, SMTT(60) DEF JournalOf, TornJournal, StagingKept,
       S
  <2> QED
    BY <2>11, <2>12, <2>13, <2>14, <2>15, <2>16, <2>17, <2>18
<1>4. CASE JournalDb
  <2>1. PICK j \in Journal:
          /\ staging' = [staging EXCEPT ![S].journal = j]
          /\ \/ /\ j = JournalOf("db") /\ call'.at = "parent"
                /\ call'.on = S /\ call'.saved = call.saved /\ UNCHANGED leaked
             \/ /\ j \in {staging[S].journal, TornJournal} /\ leaked' = leaked \cup {Tree}
                /\ call'.at = "undo_metadata" /\ call'.undo = {"content", "metadata"}
                /\ call'.on = S /\ call'.saved = call.saved
    <3>1. CASE WriteJournal("journal_db", "db", "parent")
      BY Zenon, <3>1, AtDirectory, JournalTypes, CallEffects DEF WriteJournal, observed, CallSteps
    <3>2. CASE JournalFails("journal_db", "db", Rollback({"content", "metadata"})) /\ leaked' = leaked \cup {Tree}
      <4>1. PICK j \in Remains(staging[S].journal, JournalOf("db")):
              staging' = [staging EXCEPT ![S].journal = j]
        BY Zenon, <3>2 DEF JournalFails
      <4>2. j \in Journal /\ j \in {staging[S].journal, TornJournal}
        BY <3>2, <4>1, AtDirectory, JournalTypes DEF JournalFails, Remains, RepairsSucceed
      <4>3. call'.at = "undo_metadata" /\ call'.undo = {"content", "metadata"} /\ call'.on = S /\ call'.saved = call.saved
        BY Zenon, <3>2, CallEffects DEF JournalFails, NoCall, CallSteps
      <4> QED
        BY Zenon, <3>2, <4>1, <4>2, <4>3
    <3> QED
      BY <1>4, <3>1, <3>2 DEF JournalDb, JournalFails
  <2>2. StagingKept /\ staging'[S].journal = j
    BY Zenon, <1>4, <2>1, JournalWritten DEF JournalDb, WriteJournal, JournalFails
  <2>3. /\ call.at = "journal_db"
        /\ UNCHANGED <<content, metadata, index, rows, cache, promised, unread>>
    BY <1>4 DEF JournalDb, WriteJournal, JournalFails, observed
  <2>11. Journals'
    BY <2>1, <2>2, <2>3, AtDirectory, SMTT(60) DEF JournalOf, TornJournal, StagingKept,
       S
  <2>12. IndexBytes'
    BY <2>1, <2>2, <2>3, AtDirectory, SMTT(60) DEF JournalOf, TornJournal, StagingKept,
       S
  <2>13. CachedNames'
    BY <2>1, <2>2, <2>3, AtDirectory, SMTT(60) DEF JournalOf, TornJournal, StagingKept,
       S
  <2>14. SettledFolders'
    BY <2>1, <2>2, <2>3, AtDirectory, SMTT(60) DEF JournalOf, TornJournal, StagingKept,
       S
  <2>15. Explained'
    BY <2>1, <2>2, <2>3, AtDirectory, SMTT(60) DEF JournalOf, TornJournal, StagingKept,
       S
  <2>16. ExplainedRows'
    BY <2>1, <2>2, <2>3, AtDirectory, SMTT(60) DEF JournalOf, TornJournal, StagingKept,
       S
  <2>17. AttachInProgress'
    BY <2>1, <2>2, <2>3, AtDirectory, SMTT(60) DEF JournalOf, TornJournal, StagingKept,
       S
  <2>18. RecoveryInProgress'
    BY <2>1, <2>2, <2>3, AtDirectory, SMTT(60) DEF JournalOf, TornJournal, StagingKept,
       S
  <2> QED
    BY <2>11, <2>12, <2>13, <2>14, <2>15, <2>16, <2>17, <2>18
<1>5. CASE JournalCommitted
  <2>1. PICK j \in Journal:
          /\ staging' = [staging EXCEPT ![S].journal = j]
          /\ \/ /\ j = JournalOf("committed") /\ call'.at = "announce"
                /\ call'.on = S /\ call'.saved = call.saved /\ UNCHANGED leaked
             \/ /\ j \in {staging[S].journal, TornJournal} /\ UNCHANGED leaked
                /\ call'.at = "announce"
                /\ call'.on = S /\ call'.saved = call.saved
    <3>1. CASE WriteJournal("journal_committed", "committed", "announce")
      BY Zenon, <3>1, AtDirectory, JournalTypes, CallEffects DEF WriteJournal, observed, CallSteps
    <3>2. CASE JournalFails("journal_committed", "committed", Goto("announce")) /\ UNCHANGED leaked
      <4>1. PICK j \in Remains(staging[S].journal, JournalOf("committed")):
              staging' = [staging EXCEPT ![S].journal = j]
        BY Zenon, <3>2 DEF JournalFails
      <4>2. j \in Journal /\ j \in {staging[S].journal, TornJournal}
        BY <3>2, <4>1, AtDirectory, JournalTypes DEF JournalFails, Remains, RepairsSucceed
      <4>3. call'.at = "announce" /\ call'.on = S /\ call'.saved = call.saved
        BY Zenon, <3>2, CallEffects DEF JournalFails, NoCall, CallSteps
      <4> QED
        BY Zenon, <3>2, <4>1, <4>2, <4>3
    <3> QED
      BY <1>5, <3>1, <3>2 DEF JournalCommitted, JournalFails
  <2>2. StagingKept /\ staging'[S].journal = j
    BY Zenon, <1>5, <2>1, JournalWritten DEF JournalCommitted, WriteJournal, JournalFails
  <2>3. /\ call.at = "journal_committed"
        /\ UNCHANGED <<content, metadata, index, rows, cache, promised, unread>>
    BY <1>5 DEF JournalCommitted, WriteJournal, JournalFails, observed
  <2>11. Journals'
    BY <2>1, <2>2, <2>3, AtDirectory, SMTT(60) DEF JournalOf, TornJournal, StagingKept,
       S
  <2>12. IndexBytes'
    BY <2>1, <2>2, <2>3, AtDirectory, SMTT(60) DEF JournalOf, TornJournal, StagingKept,
       S
  <2>13. CachedNames'
    BY <2>1, <2>2, <2>3, AtDirectory, SMTT(60) DEF JournalOf, TornJournal, StagingKept,
       S
  <2>14. SettledFolders'
    BY <2>1, <2>2, <2>3, AtDirectory, SMTT(60) DEF JournalOf, TornJournal, StagingKept,
       S
  <2>15. Explained'
    BY <2>1, <2>2, <2>3, AtDirectory, SMTT(60) DEF JournalOf, TornJournal, StagingKept,
       S
  <2>16. ExplainedRows'
    BY <2>1, <2>2, <2>3, AtDirectory, SMTT(60) DEF JournalOf, TornJournal, StagingKept,
       S
  <2>17. AttachInProgress'
    BY <2>1, <2>2, <2>3, AtDirectory, SMTT(60) DEF JournalOf, TornJournal, StagingKept,
       S
  <2>18. RecoveryInProgress'
    BY <2>1, <2>2, <2>3, AtDirectory, SMTT(60) DEF JournalOf, TornJournal, StagingKept,
       S
  <2> QED
    BY <2>11, <2>12, <2>13, <2>14, <2>15, <2>16, <2>17, <2>18
<1> QED
  BY <1>1, <1>2, <1>3, <1>4, <1>5

\* The rollback of a failed attach.
LEMMA UndoneSteps ==
    ASSUME RepairsSucceed, IInv, TypeOK',
           \/ UndoMetadata
           \/ UndoContent
           \/ UndoStaging
    PROVE  Invs'
<1> USE DEF IInv, TypeOK, Invs, Journals, IndexBytes, CachedNames, SettledFolders, Explained,
   ExplainedRows, AttachInProgress, RecoveryInProgress, Attaching, AttachSteps, UndoSteps,
   RecoverySteps, Stored, Has, Unfinished, Settled, Suspect, Explains, Phases, Journaled,
   Name, Tree
<1>1. CASE UndoMetadata
  BY <1>1, AtDirectory, SMTT(60) DEF RepairsSucceed, S, disk, observed, vars,
     UndoMetadata, Goto
<1>2. CASE UndoContent
  BY <1>2, AtDirectory, SMTT(60) DEF RepairsSucceed, S, disk, observed, vars,
     UndoContent, Goto
<1>3. CASE UndoStaging
  BY <1>3, AtDirectory, SMTT(60) DEF RepairsSucceed, S, disk, observed, vars,
     UndoStaging, RemoveStaging, Fail, NoCall
<1> QED
  BY Zenon, <1>1, <1>2, <1>3

\* RecoverImports.
LEMMA RecoverSteps ==
    ASSUME RepairsSucceed, IInv, TypeOK',
           \/ Open
           \/ RecoverAgain
           \/ (\E s \in Stagings: RecoverUnreadable(s))
           \/ (\E s \in Stagings: RollForward(s))
           \/ (\E s \in Stagings: RollBack(s))
           \/ RecoverMetadata
           \/ RecoverContent
           \/ RecoverRows
           \/ RecoverIndex
           \/ RecoverStaging
           \/ EndRecovery
    PROVE  Invs'
<1> USE DEF IInv, TypeOK, Invs, Journals, IndexBytes, CachedNames, SettledFolders, Explained,
   ExplainedRows, AttachInProgress, RecoveryInProgress, Attaching, AttachSteps, UndoSteps,
   RecoverySteps, Stored, Has, Unfinished, Settled, Suspect, Explains, Phases, Journaled,
   Name, Tree
<1>1. CASE Open
  BY <1>1, AtDirectory, SMTT(60) DEF RepairsSucceed, S, disk, observed, vars, Open,
     StartRecovery, NoCall, JournalDirs
<1>2. CASE RecoverAgain
  BY <1>2, AtDirectory, SMTT(60) DEF RepairsSucceed, S, disk, observed, vars,
     RecoverAgain, StartRecovery, NoCall, JournalDirs
<1>3. ASSUME NEW s \in Stagings, RecoverUnreadable(s) PROVE Invs'
  <2>1. call'.at = "rec_staging" /\ call'.on = s /\ call'.todo = call.todo
    BY Zenon, <1>3, DirectoryTaken
  <2>2. /\ call.at = "recover" /\ s \in call.todo /\ staging[s].journal.phase = "torn"
        /\ unread' = unread \cup {staging[s].tree}
        /\ UNCHANGED <<disk, cache, promised, leaked>>
    BY Zenon, <1>3 DEF RecoverUnreadable
  <2>11. Journals'
    BY <2>1, <2>2, AtDirectory, SMTT(60) DEF disk, observed, S
  <2>12. IndexBytes'
    BY <2>1, <2>2, AtDirectory, SMTT(60) DEF disk, observed, S
  <2>13. CachedNames'
    BY <2>1, <2>2, AtDirectory, SMTT(60) DEF disk, observed, S
  <2>14. SettledFolders'
    BY <2>1, <2>2, AtDirectory, SMTT(60) DEF disk, observed, S
  <2>15. Explained'
    BY <2>1, <2>2, AtDirectory, SMTT(60) DEF disk, observed, S
  <2>16. ExplainedRows'
    BY <2>1, <2>2, AtDirectory, SMTT(60) DEF disk, observed, S
  <2>17. AttachInProgress'
    BY <2>1, <2>2, AtDirectory, SMTT(60) DEF disk, observed, S
  <2>18. RecoveryInProgress'
    BY <2>1, <2>2, AtDirectory, SMTT(60) DEF disk, observed, S
  <2> QED
    BY <2>11, <2>12, <2>13, <2>14, <2>15, <2>16, <2>17, <2>18
<1>4. ASSUME NEW s \in Stagings, RollForward(s) PROVE Invs'
  <2>1. call'.at = "rec_staging" /\ call'.on = s /\ call'.todo = call.todo
    BY Zenon, <1>4, DirectoryTaken
  <2>2. /\ call.at = "recover" /\ s \in call.todo /\ staging[s].journal.phase = "committed"
        /\ UNCHANGED <<disk, cache, observed>>
    BY Zenon, <1>4 DEF RollForward, Committed
  <2>11. Journals'
    BY <2>1, <2>2, AtDirectory, SMTT(60) DEF disk, observed, S
  <2>12. IndexBytes'
    BY <2>1, <2>2, AtDirectory, SMTT(60) DEF disk, observed, S
  <2>13. CachedNames'
    BY <2>1, <2>2, AtDirectory, SMTT(60) DEF disk, observed, S
  <2>14. SettledFolders'
    BY <2>1, <2>2, AtDirectory, SMTT(60) DEF disk, observed, S
  <2>15. Explained'
    BY <2>1, <2>2, AtDirectory, SMTT(60) DEF disk, observed, S
  <2>16. ExplainedRows'
    BY <2>1, <2>2, AtDirectory, SMTT(60) DEF disk, observed, S
  <2>17. AttachInProgress'
    BY <2>1, <2>2, AtDirectory, SMTT(60) DEF disk, observed, S
  <2>18. RecoveryInProgress'
    BY <2>1, <2>2, AtDirectory, SMTT(60) DEF disk, observed, S
  <2> QED
    BY <2>11, <2>12, <2>13, <2>14, <2>15, <2>16, <2>17, <2>18
<1>5. ASSUME NEW s \in Stagings, RollBack(s) PROVE Invs'
  <2>1. call'.at = "rec_metadata" /\ call'.on = s /\ call'.todo = call.todo
    BY Zenon, <1>5, DirectoryTaken
  <2>2. /\ call.at = "recover" /\ s \in call.todo /\ staging[s].journal.phase \in Phases \ {"committed"}
        /\ UNCHANGED <<disk, cache, observed>>
    BY Zenon, <1>5 DEF RollBack, Committed
  <2>11. Journals'
    BY <2>1, <2>2, AtDirectory, SMTT(60) DEF disk, observed, S
  <2>12. IndexBytes'
    BY <2>1, <2>2, AtDirectory, SMTT(60) DEF disk, observed, S
  <2>13. CachedNames'
    BY <2>1, <2>2, AtDirectory, SMTT(60) DEF disk, observed, S
  <2>14. SettledFolders'
    BY <2>1, <2>2, AtDirectory, SMTT(60) DEF disk, observed, S
  <2>15. Explained'
    BY <2>1, <2>2, AtDirectory, SMTT(60) DEF disk, observed, S
  <2>16. ExplainedRows'
    BY <2>1, <2>2, AtDirectory, SMTT(60) DEF disk, observed, S
  <2>17. AttachInProgress'
    BY <2>1, <2>2, AtDirectory, SMTT(60) DEF disk, observed, S
  <2>18. RecoveryInProgress'
    BY <2>1, <2>2, AtDirectory, SMTT(60) DEF disk, observed, S
  <2> QED
    BY <2>11, <2>12, <2>13, <2>14, <2>15, <2>16, <2>17, <2>18
<1>6. CASE RecoverMetadata
  BY <1>6, AtDirectory, SMTT(60) DEF RepairsSucceed, S, disk, observed, vars,
     RecoverMetadata, Goto
<1>7. CASE RecoverContent
  BY <1>7, AtDirectory, SMTT(60) DEF RepairsSucceed, S, disk, observed, vars,
     RecoverContent, Goto
<1>8. CASE RecoverRows
  BY <1>8, AtDirectory, SMTT(60) DEF RepairsSucceed, S, disk, observed, vars,
     RecoverRows, Goto
<1>9. CASE RecoverIndex
  BY <1>9, AtDirectory, SMTT(60) DEF RepairsSucceed, S, disk, observed, vars,
     RecoverIndex, SavedIndex, Torn, Fail, Goto
<1>10. CASE RecoverStaging
  <2>1. staging'[S] = None /\ \A u \in Stagings \ {S}: staging'[u] = staging[u]
    BY <1>10, AtDirectory DEF RecoverStaging, RemoveStaging, RepairsSucceed
  <2>2. /\ call.at = "rec_staging" /\ call'.at = "recover" /\ call'.todo = call.todo \ {S}
        /\ UNCHANGED <<content, metadata, index, rows, cache, observed>>
    BY <1>10 DEF RecoverStaging
  <2>11. Journals'
    BY <2>1, <2>2, AtDirectory, SMTT(60) DEF SavedIndex, observed, S
  <2>12. IndexBytes'
    BY <2>1, <2>2, AtDirectory, SMTT(60) DEF SavedIndex, observed, S
  <2>13. CachedNames'
    BY <2>1, <2>2, AtDirectory, SMTT(60) DEF SavedIndex, observed, S
  <2>14. SettledFolders'
    BY <2>1, <2>2, AtDirectory, SMTT(60) DEF SavedIndex, observed, S
  <2>15. Explained'
    BY <2>1, <2>2, AtDirectory, SMTT(60) DEF SavedIndex, observed, S
  <2>16. ExplainedRows'
    BY <2>1, <2>2, AtDirectory, SMTT(60) DEF SavedIndex, observed, S
  <2>17. AttachInProgress'
    BY <2>1, <2>2, AtDirectory, SMTT(60) DEF SavedIndex, observed, S
  <2>18. RecoveryInProgress'
    BY <2>1, <2>2, AtDirectory, SMTT(60) DEF SavedIndex, observed, S
  <2> QED
    BY <2>11, <2>12, <2>13, <2>14, <2>15, <2>16, <2>17, <2>18
<1>11. CASE EndRecovery
  BY <1>11, AtDirectory, SMTT(60) DEF RepairsSucceed, S, disk, observed, vars,
     EndRecovery, NotLoaded, NoCall
<1> QED
  BY Zenon, <1>1, <1>2, <1>3, <1>4, <1>5, <1>6, <1>7, <1>8, <1>9, <1>10, <1>11

\* The end of the process, at rest or not.
LEMMA EndSteps ==
    ASSUME RepairsSucceed, IInv, TypeOK',
           \/ Close
           \/ Crash
           \/ CrashInJournal
           \/ CrashInRestore
    PROVE  Invs'
<1> USE DEF IInv, TypeOK, Invs, Journals, IndexBytes, CachedNames, SettledFolders, Explained,
   ExplainedRows, AttachInProgress, RecoveryInProgress, Attaching, AttachSteps, UndoSteps,
   RecoverySteps, Stored, Has, Unfinished, Settled, Suspect, Explains, Phases, Journaled,
   Name, Tree
<1>1. CASE Close
  BY <1>1, AtDirectory, SMTT(60) DEF RepairsSucceed, S, disk, observed, vars, Close,
     Gone, NoCall, NotLoaded
<1>2. CASE Crash
  BY <1>2, AtDirectory, SMTT(60) DEF RepairsSucceed, S, disk, observed, vars, Crash,
     Gone, NoCall, NotLoaded
<1>3. CASE CrashInJournal
  <2>1. StagingKept /\ staging'[S].journal = TornJournal
    BY Zenon, <1>3, JournalTypes, JournalWritten DEF CrashInJournal
  <2>2. /\ call.at \in {"journal_init", "journal_content", "journal_metadata",
                       "journal_db", "journal_committed"}
        /\ call'.at = "closed" /\ cache' = NotLoaded
        /\ UNCHANGED <<content, metadata, index, rows, observed>>
    BY <1>3 DEF CrashInJournal, Gone, NoCall
  <2>11. Journals'
    BY <2>1, <2>2, AtDirectory, SMTT(60) DEF StagingKept, TornJournal, NotLoaded,
       observed, S
  <2>12. IndexBytes'
    BY <2>1, <2>2, AtDirectory, SMTT(60) DEF StagingKept, TornJournal, NotLoaded,
       observed, S
  <2>13. CachedNames'
    BY <2>1, <2>2, AtDirectory, SMTT(60) DEF StagingKept, TornJournal, NotLoaded,
       observed, S
  <2>14. SettledFolders'
    BY <2>1, <2>2, AtDirectory, SMTT(60) DEF StagingKept, TornJournal, NotLoaded,
       observed, S
  <2>15. Explained'
    BY <2>1, <2>2, AtDirectory, SMTT(60) DEF StagingKept, TornJournal, NotLoaded,
       observed, S
  <2>16. ExplainedRows'
    BY <2>1, <2>2, AtDirectory, SMTT(60) DEF StagingKept, TornJournal, NotLoaded,
       observed, S
  <2>17. AttachInProgress'
    BY <2>1, <2>2, AtDirectory, SMTT(60) DEF StagingKept, TornJournal, NotLoaded,
       observed, S
  <2>18. RecoveryInProgress'
    BY <2>1, <2>2, AtDirectory, SMTT(60) DEF StagingKept, TornJournal, NotLoaded,
       observed, S
  <2> QED
    BY <2>11, <2>12, <2>13, <2>14, <2>15, <2>16, <2>17, <2>18
<1>4. CASE CrashInRestore
  BY <1>4, AtDirectory, SMTT(60) DEF RepairsSucceed, S, disk, observed, vars,
     CrashInRestore, Torn, Gone, NoCall, NotLoaded
<1> QED
  BY <1>1, <1>2, <1>3, <1>4

\* The initial state satisfies the invariant: there is nothing to explain.
LEMMA InitInv == Init => IInv
<1> SUFFICES ASSUME Init PROVE IInv
  OBVIOUS
<1>1. TypeOK
  BY DEF Init, TypeOK, NoCall, NotLoaded, Staging
<1>2. /\ Journals /\ IndexBytes /\ CachedNames /\ SettledFolders /\ Explained
      /\ ExplainedRows
  BY DEF Init, NoCall, NotLoaded, Journals, IndexBytes, CachedNames, SettledFolders,
     Explained, ExplainedRows, Has, Unfinished, Settled, Attaching, AttachSteps,
     UndoSteps, RecoverySteps
<1>3. AttachInProgress /\ RecoveryInProgress
  BY DEF Init, NoCall, AttachInProgress, RecoveryInProgress, Attaching, AttachSteps,
     UndoSteps, RecoverySteps
<1> QED
  BY <1>1, <1>2, <1>3 DEF IInv

\* Every step keeps it.
LEMMA StepInv == ASSUME RepairsSucceed PROVE IInv /\ [Next]_vars => IInv'
<1> SUFFICES ASSUME IInv, [Next]_vars PROVE IInv'
  OBVIOUS
<1>1. TypeOK'
  BY TypeStep
<1>2. CASE UNCHANGED vars
  BY <1>2 DEF vars, disk, observed, IInv, TypeOK, Journals, IndexBytes, CachedNames,
     SettledFolders, Explained, ExplainedRows, AttachInProgress, RecoveryInProgress,
     Has, Unfinished, Settled, Suspect, Explains, Journaled, S, Name, Tree, SavedIndex,
     bounds
<1>3. ASSUME Next PROVE Invs'
  <2>1. CASE AttachStep
    BY <1>1, <2>1, PublishSteps, JournalWrites, UndoneSteps DEF AttachStep
  <2>2. CASE Open \/ RecoverAgain \/ RecoveryStep
    BY <1>1, <2>2, RecoverSteps DEF RecoveryStep
  <2>3. CASE Close \/ Crash \/ CrashInJournal \/ CrashInRestore
    BY <1>1, <2>3, EndSteps
  <2> QED
    BY <1>1, <1>3, <2>1, <2>2, <2>3, UserSteps DEF Next
<1> QED
  BY <1>1, <1>2, <1>3 DEF IInv, Invs

\* The invariant holds of every behaviour, however often steps fail and the
\* process dies.
THEOREM Invariant == ASSUME RepairsSucceed PROVE Spec => []IInv
<1>1. IInv /\ [Next]_vars => IInv'
  BY StepInv
<1> QED
  BY <1>1, InitInv, PTL DEF Spec

\* Every variable has its type.
THEOREM TypeCorrect == ASSUME RepairsSucceed PROVE Spec => []TypeOK
<1>1. IInv => TypeOK
  BY DEF IInv
<1> QED
  BY <1>1, Invariant, PTL

\* At rest no journal is left to say that an import is unfinished.
LEMMA SettledAtRest ==
    ASSUME IInv, Idle
    PROVE  /\ index.readable
           /\ \A n \in Names: Settled(n) <=> n \in index.names
           /\ \A s \in Stagings: ~Suspect(s)
<1>1. \A s \in Stagings: ~Unfinished(s)
  BY DEF IInv, Journals, Unfinished, Has, Phases, Idle
<1> QED
  BY <1>1 DEF IInv, TypeOK, IndexBytes, Settled, Suspect, Idle, Attaching, AttachSteps,
     UndoSteps, RecoverySteps

\* Whenever the notebook can be used, every folder it lists has both its content
\* and its vx.json tree, of the same folder.
THEOREM ListedFoldersStayWhole ==
    ASSUME RepairsSucceed PROVE Spec => []ListedFoldersAreWhole
<1>1. IInv => ListedFoldersAreWhole
  <2> SUFFICES ASSUME IInv, Idle
               PROVE  /\ index.readable
                      /\ \A n \in index.names: content[n] # None /\ metadata[n] = content[n]
    BY DEF ListedFoldersAreWhole
  <2>1. index.names \subseteq Names
    BY DEF IInv, TypeOK
  <2> QED
    BY <2>1, SettledAtRest DEF IInv, SettledFolders
<1> QED
  BY <1>1, Invariant, PTL

\* Whenever the notebook can be used, nothing of an import that failed or was
\* interrupted is left on disk or in the store, save for what a torn journal no
\* longer names and the rows committed by a transaction nothing takes back.
THEOREM FailedImportsLeaveNothing ==
    ASSUME RepairsSucceed PROVE Spec => []NothingIsLeftBehind
<1>1. IInv => NothingIsLeftBehind
  <2> SUFFICES ASSUME IInv, Idle
               PROVE  /\ \A n \in Names \ index.names:
                            /\ content[n] \in unread \cup {None}
                            /\ metadata[n] \in unread \cup {None}
                      /\ rows \subseteq {content[n]: n \in index.names}
                                        \cup leaked \cup unread
    BY DEF NothingIsLeftBehind
  <2>1. \A n \in Names \ index.names:
           content[n] \in unread \cup {None} /\ metadata[n] \in unread \cup {None}
    BY SettledAtRest DEF IInv, Explained, Explains
  <2>2. rows \subseteq {content[n]: n \in index.names} \cup leaked \cup unread
    BY SettledAtRest DEF IInv, ExplainedRows
  <2> QED
    BY <2>1, <2>2
<1> QED
  BY <1>1, Invariant, PTL

\* A folder that was reported is there whenever the notebook can be used.
THEOREM ReportedFoldersStay == ASSUME RepairsSucceed PROVE Spec => []ReportedFoldersSurvive
<1>1. IInv => ReportedFoldersSurvive
  BY SettledAtRest DEF IInv, SettledFolders, ReportedFoldersSurvive, Shown, IndexNames
<1> QED
  BY <1>1, Invariant, PTL

\* What is cached of the parent is what its vx.json says.
THEOREM CacheStaysCurrent == ASSUME RepairsSucceed PROVE Spec => []CacheIsCurrent
<1>1. IInv => CacheIsCurrent
  BY DEF IInv, CachedNames, CacheIsCurrent
<1> QED
  BY <1>1, Invariant, PTL

-----------------------------------------------------------------------------
(* FolderImport implements NotebookFolders *)

Folders == [n \in Names |-> Shown(n)]

\* A step that leaves the folders and the index as they are shows what it did.
LEMMA SameFolders ==
    ASSUME UNCHANGED <<content, metadata>>, IndexNames' = IndexNames
    PROVE  Folders' = Folders
BY DEF Folders, Shown

\* One that concerns a single name changes what is shown under that name only.
LEMMA OneFolder ==
    ASSUME NEW n \in Names,
           \A m \in Names \ {n}: /\ content'[m] = content[m] /\ metadata'[m] = metadata[m]
                                 /\ m \in IndexNames' <=> m \in IndexNames
    PROVE  Folders' = [Folders EXCEPT ![n] = Shown(n)']
BY DEF Folders, Shown

\* While the index cannot be read, what counts is what the journal of the
\* unfinished import saved.
LEMMA SavedNames ==
    ASSUME IInv, NEW s \in Stagings, Unfinished(s), ~index.readable
    PROVE  IndexNames = staging[s].journal.saved
<1>1. \A u \in Journaled: u # s => staging[u].journal.saved = {}
  BY DEF IInv, TypeOK, Staging, Journal, Journals, Journaled, Has, Unfinished, Phases
<1>2. s \in Journaled
  BY DEF Journaled, Unfinished, Has
<1> QED
  BY <1>1, <1>2 DEF IndexNames

\* The index stays readable while a call is at work, whose journal comes and goes.
LEMMA SameNames ==
    ASSUME index.readable, UNCHANGED index
    PROVE  IndexNames' = IndexNames
BY DEF IndexNames

\* Bringing back the saved index, or dying while it is written, takes at most the
\* folder of the import out of what a reader sees, and that one is gone already.
LEMMA IndexRestored ==
    ASSUME IInv, call.at = "rec_index", UNCHANGED <<content, metadata, staging>>,
           index' \in {SavedIndex(S), Torn}
    PROVE  Folders' = Folders
<1>1. PICK n \in Names:
        /\ n = Name /\ content[n] = None /\ metadata[n] = None
        /\ S \in Stagings /\ Unfinished(S)
  BY AtDirectory DEF IInv, RecoveryInProgress, RecoverySteps
<1>2. /\ \A u \in Journaled: u # S => staging[u].journal.saved = {}
      /\ S \in Journaled
  BY <1>1 DEF IInv, TypeOK, Staging, Journal, Journals, Journaled, Has, Unfinished, Phases
<1>3. UNION {staging[u].journal.saved: u \in Journaled} = staging[S].journal.saved
  BY <1>2
<1>4. IndexNames' = staging[S].journal.saved
  <2>1. CASE index' = SavedIndex(S)
    BY <2>1 DEF IndexNames, SavedIndex
  <2>2. CASE index' = Torn
    BY <1>3, <2>2 DEF IndexNames, Torn, Journaled
  <2> QED
    BY <2>1, <2>2
<1>5. \/ IndexNames = staging[S].journal.saved
      \/ IndexNames = staging[S].journal.saved \cup {n}
  BY <1>1, <1>3 DEF IInv, IndexBytes, IndexNames, Name
<1>6. Shown(n)' = None /\ Shown(n) = None
  BY <1>1 DEF Shown
<1>7. Folders' = [Folders EXCEPT ![n] = Shown(n)']
  BY <1>1, <1>4, <1>5, OneFolder
<1> QED
  BY <1>1, <1>6, <1>7 DEF Folders

\* Removing a staging directory at the end of its recovery shows nothing new.
LEMMA DirectoryRemoved ==
    ASSUME RepairsSucceed, IInv, RecoverStaging
    PROVE  IndexNames' = IndexNames
<1>1. /\ S \in Stagings /\ call.at = "rec_staging"
      /\ staging' = [staging EXCEPT ![S] = None] /\ UNCHANGED index
  BY AtDirectory DEF RecoverStaging, RemoveStaging, RepairsSucceed, RecoverySteps
<1>2. CASE index.readable
  BY <1>1, <1>2, SameNames
<1>3. CASE ~index.readable
  <2>1. PICK s \in Stagings: Unfinished(s)
    BY <1>3 DEF IInv, IndexBytes
  <2>2. s # S
    BY <1>1, <1>3, <2>1 DEF IInv, RecoveryInProgress, SavedIndex, Journals, Has,
       Unfinished, Phases
  <2>3. IndexNames = staging[s].journal.saved
    BY <1>3, <2>1, SavedNames
  <2>4. \A u \in Journaled: u # s => staging[u].journal.saved = {}
    BY <2>1 DEF IInv, TypeOK, Staging, Journal, Journals, Journaled, Has, Unfinished, Phases
  <2>5. Journaled' = Journaled \ {S} /\ \A u \in Journaled \ {S}: staging'[u] = staging[u]
    BY <1>1 DEF IInv, TypeOK, Journaled
  <2>6. s \in Journaled
    BY <2>1 DEF Journaled, Unfinished, Has
  <2>7. UNION {staging'[u].journal.saved: u \in Journaled'} = staging[s].journal.saved
    BY <2>2, <2>4, <2>5, <2>6
  <2> QED
    BY <1>1, <1>3, <2>3, <2>7 DEF IndexNames
<1> QED
  BY <1>2, <1>3

\* In the middle of an attach the import's folder is not listed until the parent
\* is saved, so its renames, and their rollback, show nothing.
LEMMA UnlistedFolder ==
    ASSUME IInv, call.at \in Attaching, Name \notin index.names, UNCHANGED index,
           \A m \in Names \ {Name}: content'[m] = content[m] /\ metadata'[m] = metadata[m]
    PROVE  Folders' = Folders
<1>1. PICK n \in Names: n = Name /\ index.readable
  BY AtDirectory DEF IInv, CachedNames
<1>2. IndexNames' = IndexNames /\ IndexNames = index.names
  BY <1>1 DEF IndexNames
<1>3. Shown(n) = None /\ Shown(n)' = None
  BY <1>1, <1>2 DEF Shown
<1>4. Folders' = [Folders EXCEPT ![n] = Shown(n)']
  BY <1>1, <1>2, OneFolder
<1> QED
  BY <1>1, <1>3, <1>4 DEF Folders

\* What NotebookFolders may do.
FoldersNext ==
    \E n \in Names:
        \/ AtomicFolders!Promise(n) \/ AtomicFolders!Withdraw(n) \/ AtomicFolders!Delete(n)
        \/ \E t \in Trees: AtomicFolders!Add(n, t)

\* CreateFolder adds the folder to what a reader sees.
LEMMA CreateAdds ==
    ASSUME IInv, NEW n \in Names, NEW t \in Trees, CreateFolder(n, t)
    PROVE  AtomicFolders!Add(n, t)
<1>1. Idle /\ Listed = index.names /\ index.readable
  BY SettledAtRest DEF CreateFolder, Listed, Idle, IInv, CachedNames
<1>2. IndexNames = index.names /\ IndexNames' = index.names \cup {n} /\ n \notin index.names
  BY <1>1 DEF CreateFolder, IndexNames
<1>3. /\ content' = [content EXCEPT ![n] = t] /\ metadata' = [metadata EXCEPT ![n] = t]
      /\ promised' = [promised EXCEPT ![n] = t]
  BY DEF CreateFolder
<1>4. content \in [Names -> Trees \cup {None}] /\ metadata \in [Names -> Trees \cup {None}]
  BY DEF IInv, TypeOK
<1>5. Shown(n) = None /\ Shown(n)' = t
  BY <1>2, <1>3, <1>4 DEF Shown
<1>6. Folders' = [Folders EXCEPT ![n] = Shown(n)']
  BY <1>2, <1>3, <1>4, OneFolder
<1> QED
  BY <1>3, <1>5, <1>6 DEF Folders, AtomicFolders!Add

\* DeleteFolder takes the folder and its promise away at once.
LEMMA DeleteDeletes ==
    ASSUME IInv, NEW n \in Names, DeleteFolder(n)
    PROVE  AtomicFolders!Delete(n)
<1>1. Idle /\ Listed = index.names /\ index.readable
  BY SettledAtRest DEF DeleteFolder, Listed, Idle, IInv, CachedNames
<1>2. IndexNames = index.names /\ IndexNames' = index.names \ {n}
  BY <1>1 DEF DeleteFolder, IndexNames
<1>3. /\ content' = [content EXCEPT ![n] = None] /\ metadata' = [metadata EXCEPT ![n] = None]
      /\ promised' = [promised EXCEPT ![n] = None]
  BY DEF DeleteFolder
<1>4. content \in [Names -> Trees \cup {None}] /\ metadata \in [Names -> Trees \cup {None}]
  BY DEF IInv, TypeOK
<1>5. Shown(n)' = None
  BY <1>2 DEF Shown
<1>6. Folders' = [Folders EXCEPT ![n] = Shown(n)']
  BY <1>2, <1>3, <1>4, OneFolder
<1> QED
  BY <1>3, <1>5, <1>6 DEF Folders, AtomicFolders!Delete

\* The save of the parent's vx.json is the step that lets a reader see the import.
LEMMA SaveAdds ==
    ASSUME IInv, SaveParent
    PROVE  \E n \in Names, t \in Trees: AtomicFolders!Add(n, t)
<1>1. PICK n \in Names, t \in Trees:
        /\ n = Name /\ t = Tree /\ t # None
        /\ content[n] = t /\ metadata[n] = t /\ n \notin index.names
        /\ index.readable /\ cache.names = index.names
  BY AtDirectory DEF SaveParent, IInv, AttachInProgress, CachedNames, Attaching,
     AttachSteps, Stored
<1>2. IndexNames = index.names /\ IndexNames' = index.names \cup {n}
  BY <1>1 DEF SaveParent, IndexNames
<1>3. UNCHANGED <<content, metadata, promised>>
  BY DEF SaveParent, observed
<1>4. Shown(n) = None /\ Shown(n)' = t
  BY <1>1, <1>2, <1>3 DEF Shown
<1>5. Folders' = [Folders EXCEPT ![n] = Shown(n)']
  BY <1>2, <1>3, OneFolder
<1>6. AtomicFolders!Add(n, t)
  BY <1>3, <1>4, <1>5 DEF Folders, AtomicFolders!Add
<1> QED
  BY <1>6

\* What AttachImport reports is a folder a reader finds already.
LEMMA ReportPromises ==
    ASSUME IInv, Announce \/ Cleanup
    PROVE  \/ Folders' = Folders /\ promised' = promised
           \/ \E n \in Names: AtomicFolders!Promise(n)
<1>1. /\ call.at \in {"announce", "cleanup"} /\ call.at \in Attaching
      /\ promised' = promised \/ promised' = [promised EXCEPT ![Name] = Tree]
      /\ UNCHANGED <<content, metadata, index>>
  BY DEF Announce, Cleanup, disk, Attaching, AttachSteps
<1>2. PICK n \in Names:
        /\ n = Name /\ Tree # None /\ n \in index.names /\ index.readable
        /\ content[n] = Tree /\ metadata[n] = Tree
  BY <1>1, AtDirectory DEF IInv, AttachInProgress, CachedNames, Stored
<1>3. Folders' = Folders
  BY <1>1, <1>2, SameNames, SameFolders
<1>4. Folders[n] = Tree
  BY <1>2 DEF Folders, Shown, IndexNames
<1>5. promised' = promised \/ AtomicFolders!Promise(n)
  BY <1>1, <1>2, <1>3, <1>4 DEF Folders, AtomicFolders!Promise
<1> QED
  BY <1>3, <1>5

\* RecoverImports takes only imports back that were never reported.
LEMMA RecoveryWithdraws ==
    ASSUME IInv, RecoverMetadata
    PROVE  \E n \in Names: AtomicFolders!Withdraw(n)
<1>1. PICK n \in Names:
        /\ n = Name /\ call.at = "rec_metadata" /\ S \in Stagings /\ Unfinished(S)
        /\ metadata' = [metadata EXCEPT ![n] = None]
        /\ UNCHANGED <<content, index, staging, promised>>
  BY AtDirectory DEF RecoverMetadata, observed, IInv, RecoveryInProgress, RecoverySteps
<1>2. promised[n] = None
  BY <1>1 DEF IInv, SettledFolders, Settled, Journals, Unfinished, Has, Phases, IndexBytes, Name
<1>3. IndexNames' = IndexNames
  BY <1>1 DEF IndexNames, Journaled
<1>4. Shown(n)' = None
  BY <1>1 DEF Shown, IInv, TypeOK
<1>5. Folders' = [Folders EXCEPT ![n] = Shown(n)']
  BY <1>1, <1>3, OneFolder DEF IInv, TypeOK
<1>6. AtomicFolders!Withdraw(n)
  BY <1>1, <1>2, <1>4, <1>5 DEF Folders, AtomicFolders!Withdraw
<1> QED
  BY <1>6

\* The second step shows nothing: what has no vx.json tree is shown no longer.
LEMMA ContentTakenBack ==
    ASSUME IInv, RecoverContent
    PROVE  Folders' = Folders
<1>1. PICK n \in Names:
        /\ n = Name /\ metadata[n] = None /\ content' = [content EXCEPT ![n] = None]
        /\ UNCHANGED <<metadata, index, staging>>
  BY AtDirectory DEF RecoverContent, IInv, RecoveryInProgress, RecoverySteps
<1>2. IndexNames' = IndexNames
  BY <1>1 DEF IndexNames, Journaled
<1>3. Shown(n) = None /\ Shown(n)' = None
  BY <1>1 DEF Shown, IInv, TypeOK
<1>4. Folders' = [Folders EXCEPT ![n] = Shown(n)']
  BY <1>1, <1>2, OneFolder DEF IInv, TypeOK
<1> QED
  BY <1>1, <1>3, <1>4 DEF Folders

\* Every step is a step of NotebookFolders or shows nothing.
LEMMA FoldersStep ==
    ASSUME RepairsSucceed, IInv, [Next]_vars
    PROVE  FoldersNext \/ (Folders' = Folders /\ promised' = promised)
<1>1. CASE UNCHANGED <<content, metadata, index, staging, promised>>
  BY <1>1, SameFolders DEF IndexNames, Journaled
<1>2. CASE UNCHANGED <<content, metadata, index, promised>> /\ index.readable
  BY <1>2, SameNames, SameFolders
<1>3. ASSUME NEW s \in Stagings, NEW n \in Names, NEW t \in Trees, Stage(s, n, t)
      PROVE  UNCHANGED <<content, metadata, index, promised>> /\ index.readable
  BY <1>3, SettledAtRest DEF Stage, observed, Idle
<1>4. CASE JournalSteps \/ UndoStaging \/ CrashInJournal
  <2>1. call.at \in Attaching /\ UNCHANGED <<content, metadata, index, promised>>
    BY <1>4, JournalStep DEF UndoStaging, CrashInJournal, observed, Attaching,
       AttachSteps, UndoSteps
  <2> QED
    BY <1>2, <2>1 DEF IInv, CachedNames
<1>5. CASE PublishContent \/ PublishMetadata \/ UndoMetadata \/ UndoContent
  <2>1. /\ call.at \in Attaching \ {"journal_committed", "announce", "cleanup"}
        /\ UNCHANGED <<index, promised>>
        /\ \A m \in Names \ {Name}: content'[m] = content[m] /\ metadata'[m] = metadata[m]
    BY <1>5 DEF PublishContent, PublishMetadata, UndoMetadata, UndoContent, observed,
       Attaching, AttachSteps, UndoSteps, IInv, TypeOK
  <2>2. Name \notin index.names
    BY <2>1 DEF IInv, AttachInProgress
  <2> QED
    BY <2>1, <2>2, UnlistedFolder
<1>6. CASE RecoverIndex \/ CrashInRestore
  <2>1. /\ call.at = "rec_index" /\ UNCHANGED <<content, metadata, staging, promised>>
        /\ index' \in {SavedIndex(S), Torn}
    BY <1>6 DEF RecoverIndex, CrashInRestore, observed
  <2> QED
    BY <2>1, IndexRestored
<1>7. CASE RecoverStaging
  BY <1>7, DirectoryRemoved, SameFolders DEF RecoverStaging, observed
<1>8. CASE RecoverContent
  BY <1>8, ContentTakenBack DEF RecoverContent, observed
<1>9. CASE SaveParent
  <2>1. PICK n \in Names, t \in Trees: AtomicFolders!Add(n, t)
    BY <1>9, SaveAdds
  <2> QED
    BY <2>1 DEF FoldersNext
<1>12. CASE Announce \/ Cleanup
  BY <1>12, ReportPromises DEF FoldersNext
<1>13. CASE RecoverMetadata
  BY <1>13, RecoveryWithdraws DEF FoldersNext
<1>10. ASSUME NEW n \in Names, DeleteFolder(n) \/ \E t \in Trees: CreateFolder(n, t)
       PROVE  FoldersNext
  BY <1>10, CreateAdds, DeleteDeletes DEF FoldersNext
<1>11. CASE \/ \E s \in Stagings: BeginAttach(s) \/ RefuseAttach(s)
            \/ PublishFails \/ CommitStore \/ StoreFails \/ SaveParentFails
            \/ Open \/ RecoverAgain
            \/ \E s \in Stagings: RecoverUnreadable(s) \/ RollForward(s) \/ RollBack(s)
            \/ RecoverRows \/ EndRecovery \/ Close \/ Crash \/ UNCHANGED vars
  <2>1. UNCHANGED <<content, metadata, index, staging, promised>>
    BY <1>11 DEF BeginAttach, RefuseAttach, PublishFails, CommitStore, StoreFails,
       SaveParentFails, Open, RecoverAgain, StartRecovery, RecoverUnreadable, RollForward,
       RollBack, RecoverRows, EndRecovery, Close, Crash, vars, disk, observed
  <2> QED
    BY <1>1, <2>1
<1>14. CASE AttachStep
  BY <1>14, <1>4, <1>5, <1>9, <1>11, <1>12 DEF AttachStep, JournalSteps
<1>15. CASE RecoveryStep
  BY <1>15, <1>6, <1>7, <1>8, <1>11, <1>13 DEF RecoveryStep
<1>16. CASE \E s \in Stagings, n \in Names, t \in Trees: Stage(s, n, t)
  BY <1>16, <1>2, <1>3
<1>17. CASE Next
  BY <1>17, <1>4, <1>6, <1>10, <1>11, <1>14, <1>15, <1>16 DEF Next
<1> QED
  BY <1>11, <1>17

\* Importing implements NotebookFolders: at every step, in the middle of a call,
\* a recovery or after a crash as well, a reader finds whole folders only, and
\* what was reported stays until the user deletes it.
THEOREM ImportsAreAtomic == ASSUME RepairsSucceed PROVE Spec => ImplementsAtomicFolders
<1>1. Init => AtomicFolders!Init
  BY DEF Init, AtomicFolders!Init, Shown, IndexNames
<1>2. IInv /\ [Next]_vars => [AtomicFolders!Next]_<<Folders, promised>>
  BY FoldersStep DEF FoldersNext, AtomicFolders!Next
<1>3. IInv /\ [Next]_vars => [AtomicFolders!Next]_<<[n \in Names |-> Shown(n)], promised>>
  BY <1>2 DEF Folders
<1> QED
  BY <1>1, <1>3, Invariant, PTL DEF Spec, ImplementsAtomicFolders, AtomicFolders!Spec
============================
