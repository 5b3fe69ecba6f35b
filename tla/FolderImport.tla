---------------------------- MODULE FolderImport ----------------------------
(***************************************************************************)
(* Attaching an imported folder to a bundled notebook:                     *)
(* BundledFolderManager::AttachImportedFolder, the rollback inside it, and *)
(* RecoverImports, which BundledNotebook::Open runs before anything reads  *)
(* the notebook.  The import is a sequence of renames, writes and one      *)
(* store transaction; a journal in its staging directory says how far it   *)
(* got.  Any step may fail and the process may die between any two.        *)
(*                                                                         *)
(* The model has one parent folder.  A tree stands for a folder with all   *)
(* it contains and for the ids of its nodes; the user also creates and     *)
(* deletes folders of that parent, here in one step each.                  *)
(***************************************************************************)
EXTENDS Integers, FiniteSets

CONSTANTS
    Names,           \* folder names
    Trees,           \* folders, with the ids in them
    Stagings,        \* directories under vx_notebook/vx_import
    WriteRemains,    \* what a write that does not succeed leaves of the file
    RemovalLeaves,   \* what RemoveTreeQuietly leaves of a staging directory
    RestoreLeaves,   \* what recovery leaves of the parent's vx.json
    MaxFailures,     \* bound on steps that fail
    MaxCrashes,      \* bound on crashes
    None

Phases == {"init", "content", "metadata", "db", "committed"}

\* journal.json: the phase, and the bytes of the parent's vx.json before.
Journal == [phase: Phases \cup {"none", "torn"}, saved: SUBSET Names]
NoJournal == [phase |-> "none", saved |-> {}]
TornJournal == [phase |-> "torn", saved |-> {}]

Staging == [tree: Trees, name: Names, content: BOOLEAN, metadata: BOOLEAN,
            journal: Journal]

ASSUME ConstantsAssumption ==
    /\ WriteRemains \subseteq {"old", "torn", "new"} /\ WriteRemains # {}
    /\ RemovalLeaves \subseteq {"nothing", "staging"} /\ "nothing" \in RemovalLeaves
    /\ RestoreLeaves \subseteq {"saved", "torn"} /\ "saved" \in RestoreLeaves
    /\ MaxFailures \in Nat /\ MaxCrashes \in Nat
    /\ None \notin Trees \cup Stagings \cup Staging

VARIABLES
    content,   \* content[n]: the folder in the notebook's directory
    metadata,  \* metadata[n]: its tree of vx.json files
    index,     \* the parent's vx.json: readable or not, the folders it lists
    cache,     \* the parent's FolderConfig in memory, if it is loaded
    rows,      \* folders with rows in the metadata store
    staging,   \* staging[s]: what the directory s holds
    call,      \* the step the process is at, and what its call works on
    promised,  \* promised[n]: the folder whose import or creation was reported
    leaked,    \* folders whose import failed after the store transaction
    unread,    \* folders whose journal was discarded because it was torn
    failures, crashes

disk == <<content, metadata, index, rows, staging>>
observed == <<promised, leaked, unread>>
bounds == <<failures, crashes>>
vars == <<disk, cache, call, observed, bounds>>

AttachSteps ==
    {"journal_init", "content", "journal_content", "metadata", "journal_metadata",
     "store", "journal_db", "parent", "journal_committed", "announce", "cleanup"}
UndoSteps == {"undo_metadata", "undo_content", "undo_staging"}
RecoverySteps ==
    {"recover", "rec_metadata", "rec_content", "rec_rows", "rec_index", "rec_staging"}

TypeOK ==
    /\ content \in [Names -> Trees \cup {None}]
    /\ metadata \in [Names -> Trees \cup {None}]
    /\ index \in [readable: BOOLEAN, names: SUBSET Names]
    /\ cache \in [loaded: BOOLEAN, names: SUBSET Names]
    /\ rows \subseteq Trees
    /\ staging \in [Stagings -> Staging \cup {None}]
    /\ call \in [at: {"idle", "closed"} \cup AttachSteps \cup UndoSteps \cup RecoverySteps,
                 on: Stagings \cup {None}, saved: SUBSET Names,
                 undo: SUBSET {"content", "metadata"},
                 todo: SUBSET Stagings, recovered: BOOLEAN]
    /\ promised \in [Names -> Trees \cup {None}]
    /\ leaked \subseteq Trees /\ unread \subseteq Trees
    /\ failures \in 0 .. MaxFailures /\ crashes \in 0 .. MaxCrashes

Torn == [readable |-> FALSE, names |-> {}]
NotLoaded == [loaded |-> FALSE, names |-> {}]
NoCall(at) ==
    [at |-> at, on |-> None, saved |-> {}, undo |-> {}, todo |-> {}, recovered |-> FALSE]

Init ==
    /\ content = [n \in Names |-> None]
    /\ metadata = [n \in Names |-> None]
    /\ index = [readable |-> TRUE, names |-> {}]
    /\ cache = NotLoaded
    /\ rows = {}
    /\ staging = [s \in Stagings |-> None]
    /\ call = NoCall("idle")
    /\ promised = [n \in Names |-> None]
    /\ leaked = {} /\ unread = {}
    /\ failures = 0 /\ crashes = 0

-----------------------------------------------------------------------------
(* Helpers *)

\* GetFolderConfig of the parent: the cached config, else what vx.json says.
Readable == cache.loaded \/ index.readable
Listed == IF cache.loaded THEN cache.names ELSE index.names
Loaded(names) == [loaded |-> TRUE, names |-> names]

\* CollectAllNodeIds: the folders the vx.json tree on disk leads to.
Reachable == {metadata[n]: n \in index.names} \ {None}

Fail == failures < MaxFailures /\ failures' = failures + 1 /\ UNCHANGED crashes

S == call.on
Name == staging[S].name
Tree == staging[S].tree

Goto(next) == call' = [call EXCEPT !.at = next]

ForgetMetadata(published) ==  \* mutant
    call' = [call EXCEPT !.at = "undo_metadata", !.undo = published \ {"metadata"}]

\* The rollback lambda: what is published goes, then the staging directory.
Rollback(published) == call' = [call EXCEPT !.at = "undo_metadata", !.undo = published]

\* What a journal may look like after a write of new that did not succeed.
Remains(old, new) ==
    {j \in {old, TornJournal, new}:
        \/ j = old /\ "old" \in WriteRemains
        \/ j = TornJournal /\ "torn" \in WriteRemains
        \/ j = new /\ "new" \in WriteRemains}

JournalOf(phase) == [phase |-> phase, saved |-> call.saved]

-----------------------------------------------------------------------------
(* The consumer and the user *)

\* The importer prepares a staging directory; its ids are final, and may be
\* those of a bundle imported before.
Stage(s, n, t) ==
    /\ call.at = "idle" /\ staging[s] = None
    /\ staging' = [staging EXCEPT ![s] =
            [tree |-> t, name |-> n, content |-> TRUE, metadata |-> TRUE, journal |-> NoJournal]]
    /\ UNCHANGED <<content, metadata, index, rows, cache, call, observed, bounds>>

\* CreateFolder, with an id nothing else has.
CreateFolder(n, t) ==
    /\ call.at = "idle" /\ Readable
    /\ content[n] = None /\ n \notin Listed
    /\ \A m \in Names: t \notin {content[m], metadata[m]}
    /\ t \notin rows \cup leaked \cup unread
    /\ \A s \in Stagings: staging[s] # None => staging[s].tree # t
    /\ content' = [content EXCEPT ![n] = t]
    /\ metadata' = [metadata EXCEPT ![n] = t]
    /\ index' = [readable |-> TRUE, names |-> Listed \cup {n}]
    /\ cache' = Loaded(Listed \cup {n})
    /\ rows' = rows \cup {t}
    /\ promised' = [promised EXCEPT ![n] = t]
    /\ UNCHANGED <<staging, call, leaked, unread, bounds>>

\* DeleteFolder; a folder that is not in the index is removed all the same.
DeleteFolder(n) ==
    /\ call.at = "idle" /\ Readable
    /\ content[n] # None \/ metadata[n] # None
    /\ content' = [content EXCEPT ![n] = None]
    /\ metadata' = [metadata EXCEPT ![n] = None]
    /\ index' = IF n \in Listed THEN [readable |-> TRUE, names |-> Listed \ {n}] ELSE index
    /\ cache' = Loaded(Listed \ {n})
    /\ rows' = rows \ {metadata[n]}
    /\ promised' = [promised EXCEPT ![n] = None]
    /\ UNCHANGED <<staging, call, leaked, unread, bounds>>

-----------------------------------------------------------------------------
(* AttachImportedFolder *)

AdmissibleIds(s) == staging[s].tree \notin Reachable  \* mutant

Admissible(s) ==
    /\ staging[s].name \notin Listed
    /\ content[staging[s].name] = None /\ metadata[staging[s].name] = None
    /\ staging[s].tree \notin Reachable

Complete(s) == staging[s] # None /\ staging[s].content /\ staging[s].metadata

\* Every check comes first; the parent's bytes are read for the journal.
BeginAttach(s) ==
    /\ call.at = "idle" /\ Complete(s) /\ Readable /\ Admissible(s)
    /\ cache' = Loaded(Listed)
    /\ call' = [NoCall("journal_init") EXCEPT !.on = s, !.saved = index.names]
    /\ UNCHANGED <<disk, observed, bounds>>

\* A check fails: all that is left is the parent's config in the cache.
RefuseAttach(s) ==
    /\ call.at = "idle" /\ Complete(s) /\ Readable /\ ~Admissible(s)
    /\ cache' = Loaded(Listed)
    /\ UNCHANGED <<disk, call, observed, bounds>>

\* write_journal at a step, and what follows it.
WriteJournal(at, phase, next) ==
    /\ call.at = at
    /\ staging' = [staging EXCEPT ![S].journal = JournalOf(phase)]
    /\ Goto(next)
    /\ UNCHANGED <<content, metadata, index, rows, cache, observed, bounds>>

\* write_journal fails, then what the caller does about it (After).
JournalFails(at, phase, After) ==
    /\ call.at = at /\ Fail
    /\ \E j \in Remains(staging[S].journal, JournalOf(phase)):
          staging' = [staging EXCEPT ![S].journal = j]
    /\ After
    /\ UNCHANGED <<content, metadata, index, rows, cache, promised, unread>>

JournalInit ==
    \/ WriteJournal("journal_init", "init", "content")
    \/ /\ JournalFails("journal_init", "init", call' = NoCall("idle"))
       /\ UNCHANGED leaked

PublishContent ==
    /\ call.at = "content"
    /\ content' = [content EXCEPT ![Name] = Tree]
    /\ staging' = [staging EXCEPT ![S].content = FALSE]
    /\ Goto("journal_content")
    /\ UNCHANGED <<metadata, index, rows, cache, observed, bounds>>

JournalContent ==
    \/ WriteJournal("journal_content", "content", "metadata")
    \/ /\ JournalFails("journal_content", "content", Rollback({"content"}))
       /\ UNCHANGED leaked

PublishMetadata ==
    /\ call.at = "metadata"
    /\ metadata' = [metadata EXCEPT ![Name] = Tree]
    /\ staging' = [staging EXCEPT ![S].metadata = FALSE]
    /\ Goto("journal_metadata")
    /\ UNCHANGED <<content, index, rows, cache, observed, bounds>>

JournalMetadata ==
    \/ WriteJournal("journal_metadata", "metadata", "store")
    \/ /\ JournalFails("journal_metadata", "metadata", Rollback({"content", "metadata"}))
       /\ UNCHANGED leaked

\* A rename fails: what was published before it is rolled back.
PublishFails ==
    /\ call.at \in {"content", "metadata"} /\ Fail
    /\ Rollback(IF call.at = "metadata" THEN {"content"} ELSE {})
    /\ UNCHANGED <<disk, cache, observed>>

\* The insert-only transaction commits ...
CommitStore ==
    /\ call.at = "store" /\ Tree \notin rows
    /\ rows' = rows \cup {Tree}
    /\ Goto("journal_db")
    /\ UNCHANGED <<content, metadata, index, staging, cache, observed, bounds>>

\* ... or is rolled back: an id is taken, or the store fails.
StoreFails ==
    /\ call.at = "store"
    /\ \/ Tree \in rows /\ UNCHANGED bounds
       \/ Fail
    /\ Rollback({"content", "metadata"})
    /\ UNCHANGED <<disk, cache, observed>>

\* Nothing takes the committed rows back.
JournalDb ==
    \/ WriteJournal("journal_db", "db", "parent")
    \/ /\ JournalFails("journal_db", "db", Rollback({"content", "metadata"}))
       /\ leaked' = leaked \cup {Tree}

\* The commit point: SaveFolderConfigAtomic of the parent.
SaveParent ==
    /\ call.at = "parent"
    /\ cache' = Loaded(cache.names \cup {Name})
    /\ index' = [readable |-> TRUE, names |-> cache.names \cup {Name}]
    /\ Goto("journal_committed")
    /\ UNCHANGED <<content, metadata, rows, staging, observed, bounds>>

PopName(names) == names \ {Name}

\* It fails, and the name is taken out of the cached config again.
SaveParentFails ==
    /\ call.at = "parent" /\ Fail
    /\ cache' = Loaded(PopName(cache.names \cup {Name}))
    /\ Rollback({"content", "metadata"})
    /\ leaked' = leaked \cup {Tree}
    /\ UNCHANGED <<disk, promised, unread>>

\* The result of the last write_journal is not looked at.
JournalCommitted ==
    \/ WriteJournal("journal_committed", "committed", "announce")
    \/ /\ JournalFails("journal_committed", "committed", Goto("announce"))
       /\ UNCHANGED leaked

\* folder.created tells the consumer; an import whose journal does not say
\* that it is committed counts as reported only when the call returns.
Announce ==
    /\ call.at = "announce"
    /\ promised' = IF staging[S].journal.phase = "committed"
                   THEN [promised EXCEPT ![Name] = Tree] ELSE promised
    /\ Goto("cleanup")
    /\ UNCHANGED <<disk, cache, leaked, unread, bounds>>

\* RemoveTreeQuietly of the staging directory; its result is not looked at.
RemoveStaging(s) ==
    \E left \in RemovalLeaves:
        IF left = "nothing" THEN staging' = [staging EXCEPT ![s] = None] /\ UNCHANGED bounds
        ELSE UNCHANGED staging /\ Fail

Cleanup ==
    /\ call.at = "cleanup"
    /\ RemoveStaging(S)
    /\ promised' = [promised EXCEPT ![Name] = Tree]
    /\ call' = NoCall("idle")
    /\ UNCHANGED <<content, metadata, index, rows, cache, leaked, unread>>

UndoMetadata ==
    /\ call.at = "undo_metadata"
    /\ metadata' = IF "metadata" \in call.undo THEN [metadata EXCEPT ![Name] = None] ELSE metadata
    /\ Goto("undo_content")
    /\ UNCHANGED <<content, index, rows, staging, cache, observed, bounds>>

UndoContent ==
    /\ call.at = "undo_content"
    /\ content' = IF "content" \in call.undo THEN [content EXCEPT ![Name] = None] ELSE content
    /\ Goto("undo_staging")
    /\ UNCHANGED <<metadata, index, rows, staging, cache, observed, bounds>>

UndoStaging ==
    /\ call.at = "undo_staging"
    /\ RemoveStaging(S)
    /\ call' = NoCall("idle")
    /\ UNCHANGED <<content, metadata, index, rows, cache, observed>>

-----------------------------------------------------------------------------
(* RecoverImports *)

Journaled == {s \in Stagings: staging[s] # None /\ staging[s].journal.phase # "none"}

Uncommitted == {s \in Journaled: staging[s].journal.phase # "committed"}  \* mutant

JournalDirs == Journaled

\* The journals are listed first, then handled one by one.
StartRecovery ==
    /\ call' = [NoCall("recover") EXCEPT !.todo = JournalDirs]
    /\ UNCHANGED <<disk, cache, observed, bounds>>

\* BundledNotebook::Open recovers the notebook it opens.
Open == call.at = "closed" /\ StartRecovery

\* vxcore_notebook_recover_imports, which may be called at any time.
RecoverAgain == call.at = "idle" /\ StartRecovery

\* A journal that cannot be read is discarded, with its staging directory.
RecoverUnreadable(s) ==
    /\ call.at = "recover" /\ s \in call.todo
    /\ staging[s].journal.phase = "torn"
    /\ unread' = unread \cup {staging[s].tree}
    /\ call' = [call EXCEPT !.at = "rec_staging", !.on = s]
    /\ UNCHANGED <<disk, cache, promised, leaked, bounds>>

Committed(s) == staging[s].journal.phase = "committed"

\* An import that is committed is complete.
RollForward(s) ==
    /\ call.at = "recover" /\ s \in call.todo
    /\ Committed(s)
    /\ call' = [call EXCEPT !.at = "rec_staging", !.on = s, !.recovered = TRUE]
    /\ UNCHANGED <<disk, cache, observed, bounds>>

\* Any other is taken back.
RollBack(s) ==
    /\ call.at = "recover" /\ s \in call.todo
    /\ staging[s].journal.phase \in Phases /\ ~Committed(s)
    /\ call' = [call EXCEPT !.at = "rec_metadata", !.on = s, !.recovered = TRUE]
    /\ UNCHANGED <<disk, cache, observed, bounds>>

RecoverMetadata ==
    /\ call.at = "rec_metadata"
    /\ metadata' = [metadata EXCEPT ![Name] = None]
    /\ Goto("rec_content")
    /\ UNCHANGED <<content, index, rows, staging, cache, observed, bounds>>

RecoverContent ==
    /\ call.at = "rec_content"
    /\ content' = [content EXCEPT ![Name] = None]
    /\ Goto("rec_rows")
    /\ UNCHANGED <<metadata, index, rows, staging, cache, observed, bounds>>

RecoverRows ==
    /\ call.at = "rec_rows"
    /\ rows' = rows \ {Tree}
    /\ Goto("rec_index")
    /\ UNCHANGED <<content, metadata, index, staging, cache, observed, bounds>>

SavedIndex(s) == [readable |-> TRUE, names |-> staging[s].journal.saved]

\* The parent's bytes are written back, in place; a failure is only logged.
RecoverIndex ==
    /\ call.at = "rec_index"
    /\ \E left \in RestoreLeaves:
          IF left = "saved" THEN index' = SavedIndex(S) /\ UNCHANGED bounds
          ELSE index' = Torn /\ Fail
    /\ Goto("rec_staging")
    /\ UNCHANGED <<content, metadata, rows, staging, cache, observed>>

RecoverStaging ==
    /\ call.at = "rec_staging"
    /\ RemoveStaging(S)
    /\ call' = [call EXCEPT !.at = "recover", !.on = None, !.todo = @ \ {S}]
    /\ UNCHANGED <<content, metadata, index, rows, cache, observed>>

\* A cached config may describe what was rolled back.
EndRecovery ==
    /\ call.at = "recover" /\ call.todo = {}
    /\ cache' = IF call.recovered THEN NotLoaded ELSE cache
    /\ call' = NoCall("idle")
    /\ UNCHANGED <<disk, observed, bounds>>

-----------------------------------------------------------------------------
(* The process ends *)

Gone == call' = NoCall("closed") /\ cache' = NotLoaded

Close ==
    /\ call.at = "idle"
    /\ Gone
    /\ UNCHANGED <<disk, observed, bounds>>

Crash ==
    /\ call.at # "closed" /\ crashes < MaxCrashes
    /\ Gone
    /\ crashes' = crashes + 1
    /\ UNCHANGED <<disk, observed, failures>>

\* It dies while a file is written in place.
CrashInJournal ==
    /\ call.at \in {"journal_init", "journal_content", "journal_metadata",
                    "journal_db", "journal_committed"}
    /\ "torn" \in WriteRemains /\ crashes < MaxCrashes
    /\ staging' = [staging EXCEPT ![S].journal = TornJournal]
    /\ Gone
    /\ crashes' = crashes + 1
    /\ UNCHANGED <<content, metadata, index, rows, observed, failures>>

CrashInRestore ==
    /\ call.at = "rec_index"
    /\ "torn" \in WriteRemains /\ crashes < MaxCrashes
    /\ index' = Torn
    /\ Gone
    /\ crashes' = crashes + 1
    /\ UNCHANGED <<content, metadata, rows, staging, observed, failures>>

-----------------------------------------------------------------------------
AttachStep ==
    \/ JournalInit \/ PublishContent \/ JournalContent \/ PublishMetadata
    \/ JournalMetadata \/ PublishFails \/ CommitStore \/ StoreFails \/ JournalDb
    \/ SaveParent \/ SaveParentFails \/ JournalCommitted \/ Announce \/ Cleanup
    \/ UndoMetadata \/ UndoContent \/ UndoStaging

RecoveryStep ==
    \/ \E s \in Stagings: RecoverUnreadable(s) \/ RollForward(s) \/ RollBack(s)
    \/ RecoverMetadata \/ RecoverContent \/ RecoverRows \/ RecoverIndex
    \/ RecoverStaging \/ EndRecovery

Next ==
    \/ \E s \in Stagings, n \in Names, t \in Trees: Stage(s, n, t)
    \/ \E n \in Names: DeleteFolder(n) \/ \E t \in Trees: CreateFolder(n, t)
    \/ \E s \in Stagings: BeginAttach(s) \/ RefuseAttach(s)
    \/ AttachStep
    \/ Open \/ RecoverAgain \/ RecoveryStep
    \/ Close \/ Crash \/ CrashInJournal \/ CrashInRestore

Spec == Init /\ [][Next]_vars

\* A call that has begun is carried on with, and a notebook is opened again.
Fairness == WF_vars(AttachStep) /\ WF_vars(RecoveryStep) /\ WF_vars(Open)

FairSpec == Spec /\ Fairness

-----------------------------------------------------------------------------
(* Properties *)

Idle == call.at = "idle"

\* What a reader finds under n.  While the index is torn, its bytes are those
\* the journal being recovered has saved.
IndexNames ==
    IF index.readable THEN index.names
    ELSE UNION {staging[s].journal.saved: s \in Journaled}
Shown(n) ==
    IF n \in IndexNames /\ metadata[n] = content[n] THEN content[n] ELSE None

\* Whenever the notebook can be used, its index is readable, and every folder
\* it lists has both its content and its vx.json tree, of the same folder
\* (AttachImportedFolder's order of renames, RecoverImports).
ListedFoldersAreWhole ==
    Idle =>
        /\ index.readable
        /\ \A n \in index.names: content[n] # None /\ metadata[n] = content[n]

\* Whenever the notebook can be used, nothing of an import that failed or was
\* interrupted is left: no content, no vx.json tree, no store rows.  Excepted
\* are a torn journal, with which RecoverImports does not know what to remove,
\* and the rows a failure after the store transaction leaves.
NothingIsLeftBehind ==
    Idle =>
        /\ \A n \in Names \ index.names:
              /\ content[n] \in unread \cup {None}
              /\ metadata[n] \in unread \cup {None}
        /\ rows \subseteq {content[n]: n \in index.names} \cup leaked \cup unread

\* A folder that was reported (a call that returned VXCORE_OK, a folder.created
\* event of an import whose journal says committed) is there whenever the
\* notebook can be used, however often the process died since.
ReportedFoldersSurvive ==
    Idle => \A n \in Names: promised[n] # None => Shown(n) = promised[n]

\* What is cached of the parent is what its vx.json says, so no later save of
\* it can bring back what was rolled back or drop what was committed
\* (the pop_back after a failed save, ClearCache after a recovery).
CacheIsCurrent ==
    Idle /\ cache.loaded => cache.names = index.names

\* At every step, in the middle of a call as well, a reader finds whole folders
\* only, imports appear and disappear as a whole, and what was reported stays.
AtomicFolders ==
    INSTANCE NotebookFolders WITH shown <- [n \in Names |-> Shown(n)]
ImplementsAtomicFolders == AtomicFolders!Spec

\* A notebook that was left at any point can be used again, and then no journal
\* is left ("any point is repaired ... on next open", vxcore.h:411).
Repaired == call.at = "closed" ~> (Idle /\ Journaled = {})

-----------------------------------------------------------------------------
(* What comments, headers and tests say, and the code does not do *)

\* "A failure before step 5 rolls everything back and writes nothing"
\* (vxcore.h:411): the store keeps no row of a folder that was not attached.
FailedImportLeavesNoRows ==
    Idle => rows \subseteq {content[n]: n \in Names}

\* "a power loss cannot leave the journal (or a config) half-written"
\* (bundled_folder_manager.cpp:2057): every crash can be repaired, so nothing
\* unlisted stays on disk.
NoOrphans ==
    Idle => \A n \in Names \ index.names: content[n] = None /\ metadata[n] = None
==============================================================================
