# vxcore: TLA+ specifications, model checking and proofs

vxcore is the C++ library below the VNote note-taking application. It keeps
notebooks (folders of notes with an index of `vx.json` files and a SQLite
metadata store), tags and attachments, buffers and workspaces, searches their text,
and synchronises notebooks over git. These modules specify the parts of it whose
correctness depends on the order of steps: several threads, several devices, other
programs that change the same files, failures and crashes. Paths below are relative
to `src/` unless they start with `src/`; the code is in `src/src`.

## 1. What is here

| module | what it is |
|---|---|
| `SyncManager` | registration of a notebook for sync and the calls of several threads on it |
| `SyncManagerProofs` | TLAPS proofs about it: backends and locks; what a consumer that keeps its lock is promised |
| `GitSync` | set-up of the repositories of several devices, and what a git sync does to their files and commits |
| `SharedHistory` | abstract specification: a history that only grows at its end |
| `GitSyncProofs`, `GitEditsProofs` | proofs: the refinement of `SharedHistory`; that no edit is lost |
| `FolderImport` | the journaled attachment of an imported folder and its recovery |
| `NotebookFolders` | abstract specification: whole folders that stay once reported |
| `FolderImportProofs` | proofs: the safety of imports and the refinement of `NotebookFolders` |
| `BundledFolder`, `BundledFolderProofs` | the operations on folders and notes of a bundled notebook, step by step; proofs |
| `NoteRecords` | tags and attachments of the notes of a bundled notebook, write by write |
| `RawFolder` | folders and notes of a raw notebook, which other programs change too |
| `Buffers`, `BuffersProofs` | open buffers over files, backups and the index; proofs |
| `Session`, `SessionProofs` | what one run of the program hands to the next: notebooks, buffers, workspaces; proofs |
| `SearchScope` | the files in the scope of a search and the answer one thread would give |
| `ContentSearch`, `ContentSearchProofs` | searches of text on several threads that share a work queue; proofs |
| `MC...` | instances for TLC, one module for each of the above that is checked |

Run `tlc -config <run>.cfg <MC module>` for a model-checking run (section 5) and
`tlapm <module>.tla` on each module whose name ends in `Proofs` (section 6).

## 2. Inventory of the system

| component | source | state | operations | modelled |
|---|---|---|---|---|
| SyncManager | `src/sync/sync_manager.cpp`, `dirty_tracker.cpp`, `sync_progress_dispatcher.cpp` | maps backends, states, config cache by notebook id under `state_mutex_`; dirty set | enable, disable, unregister, trigger, the two phases, status, conflicts, resolve, credentials, config, clone; listeners for file events | `SyncManager`; CloneNotebook in `GitSync` |
| Git sync engine | `src/sync/git/git_sync_backend.cpp`, `git_sync_pipeline.cpp`, `git_conflict_resolver.cpp` | the repository, a rebase handle, `op_mutex_`, a cancellation slot | stage, commit, fetch, rebase, push with retry, resolve | `GitSync` |
| Repository bootstrap, clone | `src/sync/git/git_repo_bootstrap.cpp`, `git_sync_backend.cpp` | the repository | Initialize: existing repository, empty remote, empty local, both with content; clone | `GitSync` |
| Folder import | `src/core/bundled_folder_manager.cpp` 2030-2600, `bundled_notebook.cpp` 131-146 | staging directories with a journal, content, metadata tree, parent index, store rows | attach, recover | `FolderImport` |
| Bundled folder manager | `src/core/bundled_folder_manager.cpp` | `vx.json` per folder, cached `FolderConfig`s, content on disk, store rows | create, delete, rename, move, copy, import of files and folders, tags, attachments, index, order | `BundledFolder`; tags and attachments in `NoteRecords` |
| Raw folder manager | `src/core/raw_folder_manager.cpp` | the file system, store rows | the same, "filesystem first, DB second" | `RawFolder` |
| Tags | `src/core/notebook.cpp`, `src/db/tag_db.cpp` | tag tree in the config and in the store, lists of notes | create, move, delete with cascade, tag, untag, query, synchronise | `NoteRecords` |
| Buffer providers | `src/core/standard_buffer_provider.cpp`, `external_buffer_provider.cpp` | asset directories | insert, list, delete, rename of assets and attachments | `NoteRecords`; assets of raw notes in `RawFolder` |
| Buffers | `src/core/buffer.cpp`, `buffer_manager.cpp` | content, modified flag, state, backup file, path; records in the session | open, close, set content, save, reload, backup, recover, path updates | `Buffers` |
| Notebook manager | `src/core/notebook_manager.cpp` | open notebooks by id, records in the session | create, open, close, reconcile at start | `Session` |
| Workspaces | `src/core/workspace_manager.cpp` | workspaces, their buffers, the current ones | create, delete, add and remove buffers | `Session` |
| Configuration and session | `src/core/config_manager.cpp`, `context.cpp` | the session file | load, save, prepare_shutdown | `Session` (the session file) |
| Metadata store | `src/db/*` | SQLite tables | rows of folders, files, tags, activity | with its users, in `BundledFolder`, `RawFolder`, `NoteRecords`, `FolderImport` |
| Work queues | `src/core/work_queue.cpp` | a queue, its shutdown flag | enqueue, process one, process all, shutdown | `ContentSearch` |
| Search | `src/search/*` | none that outlives a query | files by name, by tag, text; batches, limits, cancellation | `SearchScope`, `ContentSearch` |
| Events | `src/core/event_manager.cpp` | listeners | subscribe, emit | no; what the sync listeners do is in `SyncManager` |
| Snippets, templates, activity, history, file types, content processors, utilities | `src/core/*`, `src/utils/*`, `src/platform/*` | JSON files, bounded lists | load, save, substitute, parse | no |
| C API | `src/api/*` | handles | one function per operation | as the callers in the modules |

How they interact. The consumer (VNote) calls the C API from its UI thread and
from workers; it holds a per-notebook lock of its own around most of these calls,
which vxcore's comments refer to (`src/sync/sync_manager.h:137-160`,
`src/sync/sync_backend.h:150-166`). Saving a buffer emits `file.saved`; a listener
of SyncManager marks the notebook dirty and emits `sync.should_run`; the consumer
then triggers a sync. SyncManager takes a raw backend pointer under its mutex and
calls the backend outside it; the backend reports progress through an observer
that comes back into SyncManager. Opening a bundled notebook first recovers
interrupted imports, then brings the table of tags up to date. A call on a node of a
raw notebook first finds out what the node is, which compares its folder with the
store. Renames and deletions of notes move or close buffers by events. A search puts
its chunks into a shared queue and helps to empty it.

What makes them correct, and what is hard about it:

* SyncManager: a backend is owned by exactly one place and never used after its
  destruction; no circle of lock waits; state, config and backend come and go
  together; a saved change stays marked until it was committed; a cancellation
  token reaches the call it was meant for. Hard: raw pointers and snapshots used
  after the mutex was released, and a destructor that waits.
* Git sync: an edit is never lost, neither before nor after it is committed;
  published history is only ever extended; conflict markers are never published;
  devices that go on syncing converge. Hard: two devices between fetch and push, a
  push whose answer is lost, saves during the network phase, restarts within a
  rebase or a set-up, conflicts solved one at a time.
* Folder import: whenever the notebook is usable it shows the whole folder or
  nothing, what was reported stays, nothing of a failed import is left. Hard: each
  of a dozen steps can fail, a crash may come anywhere, the recovery included.
* Folder managers: `vx.json`, cache, content and store agree after every operation,
  also a failed one. Hard: four copies written one after the other; rows found by
  path when paths are used again.
* Tags and attachments: what a note's record lists exists, queries answer what the
  records say, a file the user added is not lost. Hard: the record is saved before
  its row, the tag tree has three copies, and times decide which of them is read.
* Buffers, notebooks, workspaces: text is not lost across save, backup, external
  change, rename and restart; every record refers to something that exists.
* Search and its queue: the answer is that of one thread, whatever the chunks, the
  threads and the cancellation; no item outlives the call it refers to; every call
  returns.

All hazards are listed, each at its line, in `PROJECT.json`.

## 3. Plan

Done: every component above that has a module, with its runs; and proofs, for every
value of the constants, about `SyncManager`, `GitSync`, `FolderImport`, `Buffers`,
`Session`, the content in `BundledFolder` and the work items of `ContentSearch` (section
6). What is left is to prove more of what the runs show, in this order of worth:

1. `BundledFolder`: `KnownNodesStay`, `CacheIsCurrent` and `RowsFollowCache`, which need
   to know what each handler's list of steps amounts to. `BundledFolderProofs` has the
   lemmas about paths and lists of steps they start from.
2. `ContentSearch`: `BatchesAreWhole` and `AnswersAreExact`, over `Counted`.
3. `RawFolder` and `NoteRecords`, whose handlers are compositions of functions over the
   whole state.

Each module is written for this: constants with a named assumption, one action per
operation, no RECURSIVE operator.

## 4. The modules and the code

### SyncManager

The three maps are keyed by notebook and no operation touches another notebook's
entries, so `cfg`, `st` and `be` are the entries of one notebook. `mutex` is
`state_mutex_`; `opMutex[b]` is the `op_mutex_` of backend object `b`, `alive` the
objects that exist, `slot` its cancellation token. `pc`, `ptr` and the other
per-thread variables are where a thread is inside its call and the locals it carries
over a release of the mutex: raw pointer, snapshot for the rollback, config that was
read. A step is one critical section, one call into the backend, or the return.

The set `Serialized` has the operations that the consumer runs under its
per-notebook lock. This lock is outside vxcore; comments in the headers say which
calls need it. The runs and theorems say what holds with which set. `EnableSync`
includes the rollback to the snapshot it took at entry; `BuildBackend`, `Publish`
and `DestroyReplaced` are its steps outside the mutex, inside it, and while it waits
for the replaced object. The files of a sync are
left to `GitSync`: here a sync only ends in one of the results.

### GitSync

Each device has a branch, a remote-tracking branch, an index with its conflicts, a
working tree, and, while a rebase is not finished, a detached HEAD with the patches
to go. A commit is a tree and its device; a tree gives each note the set of edits
that can be read in it, so a note with conflict markers has two. A history is a
sequence of commits; a branch that has no commit yet is the empty one. `StageAll`,
`CommitIndex`, `FetchOrigin`, the branches of `RebaseOntoOrigin`, `ReplayCommit`,
`PushOrigin`, `Retry` and the three resolutions are the functions of the pipeline and
the resolver, one action per step between which another device, a save or a restart
may come. `Calls` says whether the consumer calls Sync or the two phases
StageAndCommit and FetchRebasePush.

`notebook`, `repo` and `enabled` are the set-up: whether the device has a notebook,
how far its repository has come (none, without HEAD, without origin, ready) and
whether Initialize succeeded since the process started. `Initialize`'s branches are
actions of their own (`OpenExistingRepo`, `Bootstrap`, `InitRepo`, `AddOrigin`,
`NothingToCheckOut`, `FirstCheckout`, `FirstRef`, their refusals, and
`BootstrapUnchecked` for a remote that could not be asked); `CloneNotebook` ends in
`OpenClone` or in `DiscardClone`, the removal by its caller. `config.json` is the one
file `Meta` of the tree: a clone is a notebook if it has it. `Interrupted` says in
which calls a crash may come. Restart no longer reopens the repository: Enable does.

libgit2 and the server are external and modelled from what the code relies on:
`git_rebase_init` refuses a dirty tree, a safe checkout refuses to overwrite local
changes, a forced one does not, `git_rebase_commit` answers GIT_EAPPLIED for an
empty patch, the merge of two unrelated histories has an empty base, and a push is
accepted exactly if it is a fast-forward. A failed push may or may not have reached
the server. Deleting notes is not modelled, nor are the read-only queries; disk
failures inside InitRepo neither, and `.gitignore`, `.gitattributes` and `.gitkeep`
are data.

`SharedHistory` is what all of this amounts to for the remote: a device learns the
whole history, or, knowing all of it, extends it with commits of its own, or forgets
what it knew, when its repository is made anew. The refinement maps the remote's
branch to `log` and the tracking branches to `seen`.

### FolderImport

`content[n]`, `metadata[n]` and `index` are the directory, the `vx.json` tree and
the parent's list of folders on disk; `cache` the parent's cached config; `rows` the
folders with rows in the store; `staging[s]` a directory of `vx_notebook/vx_import`
with what is still in it and its journal. `call` is the step the process is at.
Steps 1 to 6 of AttachImportedFolder are one action per rename, journal write,
transaction, save and removal, each of which may fail and lead to the code's
rollback, itself three steps. RecoverImports is one action per journal and per thing
it removes or restores. A crash may come between any two actions, and in the middle
of a file that is written in place (`WriteFileDurable` truncates it first): then the
file is torn.

A tree stands for a folder with all its content and ids. The parent's bytes are its
set of names. The user's CreateFolder and DeleteFolder in the same parent succeed in
one step; partial failures of theirs belong to `BundledFolder`. The
importer that fills the staging directory is VNote's.

`NotebookFolders` is the promise: names show a whole folder or nothing, imports
appear and disappear as a whole, and a folder its user was told of stays until it is
deleted. The refinement maps `shown[n]` to the folder that index, content and
metadata agree on, at every step, in the middle of calls too.

### BundledFolder

`dirs` and `notes` are the content on disk, `conf[p]` the `vx.json` of the folder at
path `p`, `cache[p]` what `config_cache_` has for it, `frows` and `nrows` the rows of
the metadata store by id. Paths are sequences of names. A config has its id, the set
of subfolder names, the records of its notes, and `ahead`: whether its modified_utc is
later than its row's, which is what the lazy sync compares.

The handlers check first and change later, in a fixed order and without a journal.
Each is one action that makes the checks and leaves its steps, in the code's order, in
`call.todo`; each kind of step (a directory grows, a rename, a removal, the save of a
`vx.json`, a row written) is one action that succeeds, and most have one that fails:
then the call returns where it is, or goes on when the code only logs the failure. A
crash may come between any two steps. A step that edits a cached config edits it before
it writes the file, as the code does, so a failed save leaves the edit in the cache.
`OpenFolder` is GetFolderConfig of a folder that is not cached, with
SyncFolderToStore's recursion; handlers are enabled when the folders they read are
cached. `RebuildCache` is SyncMetadataStoreFromConfigs, `CloseNotebook` deletes the
store's file, `Quit` only ends the process.

`known`, `texts`, `unsettled` and `unsynced` observe: ids of nodes a call reported,
texts the user did not delete, folders a call of this session failed on, and whether
rows may be behind that no lazy sync repairs. The exemptions in the properties are
these two: `CacheIsCurrent` and `RowsFollowCache` say nothing of a folder on which a
call of the same session failed, since the cached edit stays in the code too.
`RowsFollowCache` says nothing once `unsynced` holds, until the store is rebuilt or
deleted. It holds after a call that failed with a save done or an edit held, because
a later call writes the folder's row and so hides the difference from the lazy sync, and
after a crash with a folder's row still to be moved or the rows of imported notes still
to be written. `KnownNodesStay` does not count what is put below a folder of
`unsettled`, because the folder may be listed only in memory.

Row writes do not fail, a removal or a rename is done or not done as a whole, and a
copy may be left half done. CopyFolder into the folder itself is left out. What the
code does to subfolders' configs when a folder is renamed, moved or imported violates
the properties; the constant `NestedCalls` admits these calls for folders with
subfolders, and the passing runs leave it empty. `WriteRemains` says what a failing
write of a `vx.json` leaves; the passing runs have the old file.

### NoteRecords

`config` and `configFile` are the tag tree in memory and in `config.json`; `cache` and
`files` the records of notes in `config_cache_` and in each `vx.json`; `tree`, `synced`,
`dirs` and `rows` the store: the table of tags with `tags_synced_utc`, the times of the
folders' rows and the notes' rows with `file_tags`; `assets` and `bin` the files. There
are two folders, which is enough for a note to move. A time is the number of the call
that wrote it.

An operation is an operator from a state to the state it leaves, as the C++ functions
call each other (DeleteTag updates every note, MoveFile both folders). Each write
counts down `at`: the write number `at` fails, or the program stops before it, so one
action covers a call with its failure at any place. `SyncFolderToStore`, its two
comparisons of times and `SyncTagsToMetadataStore` are part of the first read of a
folder and of Open. `UpdateFile` is INSERT OR REPLACE, which takes the row's tags with
it; `rewritten` has the notes to which that happened, and `QueriesAnswerRecords` speaks
of the other notes. A file outside the notebook (`Outsider`) has attachments without a
record.

### RawFolder

`fs[p]` is the file or directory at a path with its node, which is what the user would
call the same note; `rows` the rows of the store in the order they were written, as
nothing keeps two with one name apart; `assets` the directories named by ids; `stale`
the folders that another program changed since they were read. Every operation of the
C API is one action: DetectNodeType, which reads the node's folder and so synchronises
its rows (`SyncFolderFromFilesystem`), then the change of the files, then, by path, of the
rows. A call with `store` FALSE has all its writes to the store refused, which the code
logs and passes over. `Refreshes` says whether the user interface lists a folder that
was changed before it works in it.

### Buffers

`index` has the note at each path, `file` and `backup` what the file and the `.vswp`
beside it hold, `buffers` the open buffers with text, modified flag, state and the
time they have for the file, `session` the records. A text carries the note it was
given to. `BufferOpen`, `BufferOpenByNodeId`, `GetBufferContent` (which loads),
`SetBufferContent`, `SaveBuffer`, `WriteBackup`, `RecoverBackup`, `DiscardBackup`,
`ReloadBuffer`, `CheckExternalChanges`, `BufferClose`, `NodeMove` and `NodeDelete`
with their events are one action each; writes may fail or be cut; `Restart` ends the
process, whatever it was doing, and opens the buffers of the session.

`Consumer` names what the consumer takes care of: it loads a buffer before saving it,
closes the buffer of a note before deleting it, settles a backup before a rename.
Without one of these the properties fail, at the lines listed as hazards. `kept` is the
text the code last said to have on disk (saving a buffer that was never loaded says nothing
of the text in the file); `harmed` exempts notes that met a failure the
code passes over, each named at the action that adds it.

### Session

`config` says which notebook a root folder holds, `reach` which roots can be read now;
`open`, `buffers`, `workspaces` and `current` are the managers' maps; `session` is the
session config in memory and `saved` the file. `ContextCreate` loads it, reconciles the
records with what the roots hold, opens the notebooks, then the buffers, then the
workspaces; `PrepareShutdown` takes the snapshot and `ContextDestroy` tears down; a
`Crash` may come instead. The initial session files are what an earlier version may have left: records
of notebooks out of reach, two records of one folder, buffers of unknown notebooks. The
list of a workspace may hold buffers that an earlier start could not load: nothing takes
them out, and the next start loads them when their folder is there again.

### SearchScope and ContentSearch

`SearchScope` has the pure part: which files a query looks at
(`CollectFilesInFolder`, the filters by tags and dates), which of them match by name,
what the lines of a file yield, how the answer is cut at its maximum. Strings are
abstracted to what is decided about them: a pattern is the set of nodes it matches, a
line is how often the pattern occurs in it.

`ContentSearch` has the threads. `queue` and `open` are the WorkQueue; `call[s]` the
locals of a searching thread that its items refer to; `hand[t]` the item a thread runs
and `batch[t]` what ProcessAll took for it. The calling thread sweeps, scans inline,
lets rg scan, or enqueues its chunks, helps with anybody's items and waits for its own.
A thread between two items holds `Free`. `WalksEnd` assumes of the notebook that no folder
lies below itself, so that the walk that collects the files ends.
Cancellation and shutdown come at any point; in-order emission, the limit and the
first error are those of `SearchStreaming`. `AnswersAreExact` compares what was
answered with `SearchScope`'s answer for one thread.

## 5. Model checking

| run | instance | what it shows |
|---|---|---|
| `sync_serialized` | 3 threads, 3 backend objects, 2 configs, 5 calls, all backend calls under the consumer's lock | `BackendPointerStable`, `RegisteredTogether`, `EditsStayDirty`, `TokenReachesPhase` |
| `sync_calls_return` | 2 threads, 4 backend objects, 1 config, 3 calls, every operation, only enable and trigger exclude each other, fairness | `OpOnLiveBackend`, `NoLockCycle`, `CallsReturn`: every call returns |
| `git_sync` | 2 cloned devices, 1 note, 3 edits, split phases and whole syncs, syncs over an unresolved conflict, one failed network step, one restart | `CommittedEditsSurvive`, `SyncedMeansPublished`, `MarkersNeverPublished`, refinement of `SharedHistory` |
| `git_converges` | one device has a notebook, the other clones it or creates its own; 2 files, 4 edits, one failure or one crash during set-up, fairness | `SavedEditsSurvive`; `Converges`: all enabled devices end with one history that has every edit |
| `import_recovery` | 2 names, 2 bundles, 2 staging directories, 1 failing step, 2 crashes, torn writes, fairness | `NothingIsLeftBehind`, refinement of `NotebookFolders`, `Repaired` |
| `folders_failures` | root, 2 folders, 1 note, 3 names, depth 2, 2 calls, 1 failing step or crash | `NothingLost`, `KnownNodesStay`, `CacheIsCurrent`, `RowsFollowCache` |
| `note_records` | 1 note, 2 folders, 2 tags in any tree, 1 name for files, 3 calls, 2 openings, 1 failing write or crash | `TagsOfNotesExist`, `SkippedTagSyncIsSafe`, `QueriesAnswerRecords`, `ListedAttachmentsExist`, `InsertedFilesStay` |
| `raw_folder` | 2 names, depth 2, 3 nodes, 4 calls, 1 change from outside, 1 call without a store | `MarksNotMixed`, `LinksResolve`, `MarksStay` |
| `buffers` | 2 notes, 2 paths, 2 buffers, 2 versions, 1 fault, 1 foreign change, 1 restart | `TextsStayWithTheirNote`, `CleanBuffersShowTheFile`, `KeptTextsStay` |
| `session` | 2 roots, 3 notebooks, 2 buffers, 1 workspace, 4 calls, 3 starts, 1 failing save, 1 outside change | `BuffersHaveTheirNotebook`, `KnownNotebooksStay`, `SnapshotSurvivesTeardown`, `StartRestores` |
| `content_search` | 2 searches, 1 worker, 4 files in 3 folders, chunks of 1 and 2 files, fairness | `NothingOutlivesItsCall`, `BatchesAreWhole`, `AnswersAreExact`, `NodesAreFound`, `EveryCallReturns` |

`git_saved_lost`, below, expects a violation.

The modules state more invariants, which hold on the same instances and are there for
the proofs: `TypeOK` of every module, `StagingMeansSyncing` (SyncManager),
`ListedFoldersAreWhole`, `ReportedFoldersSurvive` and `CacheIsCurrent` (FolderImport; the
first two are what the refinement promises), `UniqueIds` and `NoRowOutlivesItsNode`
(BundledFolder), `OneBufferPerNote` (Buffers), `IdsLeadToTheirNodes` and
`ListingsAreTrue` (RawFolder), `TagsHangFromRoots` (NoteRecords).

Bounds. Three threads are enough for two that interfere while a third, a listener
or a reader, looks on; `MaxCalls` lets one thread return and call again. Two devices
suffice for every pairwise race; a third edit is needed for a conflict on top of a
conflict, a fourth for the two notebooks that are founded apart. One failure and one
restart reach every error path of a sync and every place within it; two crashes are
what it takes to crash a recovery after a crash. In the folder runs one call leaves a
state no other call was written for, and the second meets it; restarts, reopenings and
rebuilds between calls are not bounded. A third name lets a folder be copied beside two
others. In `note_records` a fault takes the place of a call: two calls around a failing
one, over a reopening, are what leaves a stale copy and then reads it. In `raw_folder`
four calls mark a node, move it away, put another one there and look. In `buffers` two
notes and two paths let one take the other's place. In `session` three notebooks over
two roots let a root come to hold another notebook while a second one is open, and
the third start finds a list with buffers that the second could not load. In
`content_search` two searches and a worker are the least where a caller helps with
another call's items; chunks of one and two of up to four files give a last chunk that
is not full; the code's default chunk is 64 files, here 1. The number of retries is two
where the code has three: one retry that succeeds and one that gives up. Ids, edits,
stagings and names are model values.

Fairness. `sync_calls_return`: a thread that is inside a call is scheduled (weak
fairness of its steps), and the network phase of a backend that could end does end
(strong fairness, as progress callbacks may keep it waiting in between). The lock of
the consumer is taken by calls only as long as they run. `git_converges`: a call
that runs goes on, the consumer enables a notebook it has and calls sync again (the
periodic tick of `src/docs/sync-evolution-plan.md`), and users settle the conflicts
they are shown. Edits and failures are bounded by the instance. `import_recovery`: a
call that runs goes on unless the process dies, and a notebook that was closed is
opened again; the number of crashes is bounded. `content_search`: a calling thread and
a worker that has begun an item are scheduled; no worker has to look at the queue, so
that a call returns by its own help alone.

`Converges`, `CallsReturn`, `Repaired` and `EveryCallReturns` are liveness; they are
checked without symmetry. Where a run uses it, nothing in the module tells the permuted
values apart; in `raw_folder` the numbers that new nodes get depend on an order of the
names, and no property looks at these numbers. `CHECK_DEADLOCK` is off in `session`, `raw_folder`,
`note_records` and `content_search`, where the calls of the instance are used up and
nothing is left to do; elsewhere an explicit step says so.

### Disagreements with the code's own documents

`git_saved_lost` ends with a counterexample: the code does something that a comment
excludes. `SavedEditsSurvive`: the forced checkout of a fast-forward overwrites a save
made after StageAndCommit; `sync_backend.h:155` has
the consumer release its lock "so concurrent saves on the same notebook can proceed".

Further disagreements found with the same modules. Their properties are in the
modules; the instance that shows each is given here.

* `BackendPointerStable`: a network phase outside the consumer's lock goes on with a
  backend that DisableSync has destroyed (`sync_manager.cpp:624`, `sync_manager.h:159`).
  2 threads, operations enable, disable and network, `Serialized <- AllButNetwork`.
* `NoLockCycle`: EnableSync's publish destroys the replaced backend, and so waits for its
  operation, with `state_mutex_` held (`sync_manager.h:333`). 2 threads, operations
  enable and trigger, none serialized.
* `ConflictResumesRebase`: after a restart a resolved conflict no longer resumes the
  rebase (`git_sync_pipeline.cpp:668`). 1 note, 2 edits, 1 restart.
* `FailedImportLeavesNoRows`: an import that fails after its store transaction leaves the
  rows, which then refuse a second attempt (`include/vxcore/vxcore.h:411`). 1 failure.
* `TagsFollowCache`: UpdateFile is INSERT OR REPLACE, and the tags of the replaced row go
  by cascade; RenameFile and UpdateFileMetadata do not set them again
  (`db/file_db.cpp:548`, `docs/bundled-notebook.md:106`). Flat tree, 2 calls, no fault.
* `RowsFollowCache` with `NestedCalls <- NestedImport`: ImportFolder writes a subfolder's
  row before its parent has one, and the store takes an unknown parent for none
  (`bundled_folder_manager.cpp:3107`, `:300`). One folder, 1 call.
* `KnownNodesStay` with `WriteRemains <- OldOrTorn`: SaveFolderConfig rewrites `vx.json`
  in place, and a torn file takes the ids and the listing of its folder with it
  (`bundled_folder_manager.cpp:259`). One fault.
* With more than one fault, or without the exemptions above: a failed CreateFile leaves
  its record in the cache, a later save publishes it and UpdateFolder then hides the
  missing row; a failed MoveFolder followed by CopyFolder and a crash leaves two nodes
  with one id; CreateFile reports OK when the file could not be created
  (`bundled_folder_manager.cpp:1109`).
* `CacheMeansEnabled`: GetSyncConfig creates a cache entry for a notebook that was
  never enabled, and the entry's presence is what the dirty mark takes for enabled
  (`sync_manager.cpp:45`, `:593`). 2 threads, operations getcfg and edit.
* `UnregisterClears`: UnregisterBackend returns early without a backend and leaves
  the cached config (`sync_manager.h:59`, `sync_manager.cpp:394`).
* `RegisteredTogether`: with DisableSync outside the consumer's lock, a TriggerSync
  that ends later writes the state back without a backend (`sync_manager.cpp:676`).
* `TokenReachesPhase`: with the network phase outside the lock, a stage call on the
  same backend overwrites or clears its token (`git_sync_backend.cpp:543`).
* `EditsStayDirty`: with edits outside the lock, a change saved during the network
  phase of TriggerSync loses its mark (`sync_manager.cpp:689`).
* `CacheFresh`: nothing invalidates the config cache when the notebook's config is
  updated (`sync_manager.h:175`).
* `StoppedRebaseHasConflict`: a sync over an unresolved conflict commits the markers
  on the detached HEAD and leaves a rebase nothing can resume. `SyncOverConflict`
  TRUE, 1 note.
* `FreshReplayHasNoEmptyStep`: two devices that save the same text make a fresh
  replay answer GIT_EAPPLIED (`git_sync_pipeline.cpp:90`). `SameEdits` TRUE.
* `AppliedResolutionSignalsOk`: of two conflicts the first resolution is applied and
  reported as failed (`git_sync_pipeline.cpp:741`). 2 notes.
* `NoOrphans`: a crash in the middle of a journal write leaves a torn journal; the
  recovery discards it and what it had published stays, unlisted and in the way of
  the next import (`bundled_folder_manager.cpp:2057`, `vxcore.h:411`). No failure, one
  crash.
* `ReportedFoldersSurvive` with `RemovalLeaves <- MayBeKept`: the staging directory
  cannot be removed after a rollback or recovery, its journal stays, and the next
  open deletes whatever has the names by then and puts the old index back
  (`bundled_folder_manager.cpp:2573`). One crash, one failed removal. The same with
  `WriteRemains <- AnyRemains` and no crash: the first journal write fails only in
  its fsync, attach returns an error and leaves the journal.
* `ListedFoldersAreWhole` with `RestoreLeaves <- MayBeTorn`: the parent's `vx.json`
  cannot be written back, the error is logged, and the journal with the only copy of
  its bytes is removed (`bundled_folder_manager.cpp:2580`).
* `ListedFoldersHaveConfigs` with `NestedCalls <- NestedRename`: RenameFolder deletes the
  `vx.json` files of the subfolders (`docs/bundled-notebook.md:90`, `:199`). A folder
  with a subfolder, 1 call.
* `CacheIsCurrent` (BundledFolder) with `NestedCalls <- NestedMove`: the cached configs
  below a moved folder stay, are used again when it comes back, and the next save writes
  them over the newer `vx.json` (`docs/bundled-notebook.md:179`).
* `Converges` with `SaveOverConflict` TRUE and 4 edits: the user saves another note while
  a conflict waits; git_rebase_commit refuses the unstaged change, the resolution is
  reported as failed, the next sync commits on the detached HEAD, and no later sync
  leaves it. With `Interrupted <- Everywhere` a restart within a rebase does the same.
* A crash between git_repository_init_ext and git_remote_create leaves a repository
  without origin that every later Initialize refuses (`git_repo_bootstrap.cpp:153`); a
  crash inside the former leaves one without HEAD (`git_sync_backend.cpp:131`). So
  `Converges` speaks of the devices on which Initialize has succeeded.
* RemoteHasRefs answers no when the network fails (`git_sync_pipeline.cpp:292`), so that
  the refusal of two non-empty sides is passed over (`BootstrapUnchecked`); the push is
  refused, and the next Initialize opens a repository with an unrelated history, which
  the rebase then merges.
* `QueriesAnswerRecords` without its exemption `rewritten` is `TagsFollowCache` again;
  reopening does not heal it when UpdateFolderMetadata, or a crash within the lazy sync,
  has moved the folder row's time first (`bundled_folder_manager.cpp:2630`).
* `ListedAttachmentsExist` with `MovesAttached` TRUE: attachments are recorded relative
  to the notebook's root, where `folder.h:17` and `docs/bundled-notebook.md:89` say
  relative to `assets/<uuid>`; after a move the record names files that are gone, and
  DeleteAttachment leaves a ghost.
* `Repeats` TRUE: of a list with one tag twice SetFileTags writes what comes before the
  repetition, and DeleteTag takes out one occurrence (`docs/bundled-notebook.md:269`).
* Tags, by reading: RebuildCache loses the hierarchy and the unused tags until the next
  open (`docs/bundled-notebook.md:127`); nothing reloads `config.json` or a cached
  `vx.json` after a git pull (`:303`); parents that a merge made cyclic let DeleteTag and
  MoveTag loop; a device whose clock is behind skips the tag sync.
* `MarksNotMixed` with `Refreshes` FALSE: CreateFile or MoveFile onto the path of a note
  that another program removed shows the removed note's mark, and a folder removed and
  created again outside is listed twice (`raw_folder_manager.cpp:2085`).
* `RawFolder`, by reading: a note with assets that is renamed outside, or whose notebook is
  opened with a new store, gets a new id, and a later MoveFile leaves its assets behind;
  an ImportFolder that fails in the store leaves an orphan row.
* `BuffersHaveTheirNotebook` with `Copies` TRUE: opening a second folder that holds the
  same notebook replaces the Notebook object below its buffers
  (`notebook_manager.cpp:231`).
* `KeptTextsStay` with a `Consumer` that lacks "loads": a save of a buffer that was never
  loaded empties the file (`buffer.cpp:325`). `TextsStayWithTheirNote` with one that lacks
  "settles" or "closes": a rename looks for the backup beside the new path, where another
  note's may lie (`buffer_manager.cpp:202`).
* Search: when the queue is shut down while chunks are enqueued, the refused chunks are
  never scanned and the call returns VXCORE_OK, though `vxcore.h:718` has the callback
  fired exactly once per chunk. SearchContent answers VXCORE_OK with nothing for an
  invalid pattern or a failing rg, where streaming returns the error. One match in text
  that is not UTF-8 makes the whole call fail with JSON_PARSE. `truncated` is set when
  exactly the maximum matched, by rg only when there was more. For an empty pattern rg
  matches every line and the simple backend none. GetMatchedFilesByPattern counts path
  matches against the maximum, so matches by name that come later are lost. These are
  what the model does; `AnswersAreExact` exempts the first by `missed`.

`import_recovery` therefore assumes that the removal of a staging directory and the
restore of the parent succeed, and that a failing write leaves the old or a torn file;
these are the constants `RemovalLeaves`, `RestoreLeaves` and `WriteRemains`.

## 6. Proofs

The theorems hold for every value of the constants that the assumptions admit: any
number of threads, devices, notes, names, calls, failures and crashes. An assumption on
constants is a named `ASSUME` of the module that declares them, evaluated by TLC in each
run; it says that `None` is none of the values, that bounds are numbers, that a constant
set is one of those the actions know. A theorem that needs more of the environment says
so as a hypothesis, named in the third column.

| module | theorem, property | hypothesis |
|---|---|---|
| `SyncManagerProofs` | `TypeCorrect`; `BackendsHaveOneOwner`: `OneOwner`; `OperationsOnLiveBackends`: `OpOnLiveBackend` | |
| | `SerializedPointersAreStable`: `BackendPointerStable`; `SerializedCallsHaveNoLockCycle`: `NoLockCycle` | `SerializedPointers` |
| | `SerializedCallsRegisterTogether`: `RegisteredTogether`; `SerializedTokensReachTheirPhase`: `TokenReachesPhase` | `SerializedPointers` |
| | `SerializedEditsStayDirty`: `EditsStayDirty` | `SerializedEdits` |
| `GitSyncProofs` | `TypeCorrect`; `OneSharedHistory`: the refinement `ImplementsSharedHistory` | |
| `GitEditsProofs` | `NoMarkersPublished`: `MarkersNeverPublished`; `NoCommittedEditLost`: `CommittedEditsSurvive`; `OkMeansPublished`: `SyncedMeansPublished` | |
| | `WholeCallsKeepSaves`: `SavedEditsSurvive` | `WholeCalls` |
| `FolderImportProofs` | `TypeCorrect`; `ListedFoldersStayWhole`: `ListedFoldersAreWhole`; `FailedImportsLeaveNothing`: `NothingIsLeftBehind`; `ReportedFoldersStay`: `ReportedFoldersSurvive`; `CacheStaysCurrent`: `CacheIsCurrent`; `ImportsAreAtomic`: the refinement `ImplementsAtomicFolders` | `RepairsSucceed` |
| `BundledFolderProofs` | `ContentStays`: `NothingLost` | |
| `BuffersProofs` | `NotesHaveOneBuffer`: `OneBufferPerNote`; `TextsAreNotMixed`: `TextsStayWithTheirNote`; `CleanBuffersAreCurrent`: `CleanBuffersShowTheFile` | `ClosesAndSettles` |
| | `KeptTextsAreOnDisk`: `KeptTextsStay` | `ClosesAndSettles`, `Loads` |
| `SessionProofs` | `TypeCorrect`; `OpenedNotebooksStay`: `KnownNotebooksStay`; `TeardownIsNotSaved`: `SnapshotSurvivesTeardown`; `StartsRestore`: `StartRestores` | |
| | `BuffersKeepTheirNotebook`: `BuffersHaveTheirNotebook` | no `Copies` |
| `ContentSearchProofs` | `ItemsAreCounted`: `Counted`; `CallsKeepTheirItems`: `NothingOutlivesItsCall` | |

Each proof has the same shape: an inductive invariant, the lemma that the initial states
have it, one lemma per action or group of actions that a step keeps it, and the theorem,
which combines them. Actions that leave alone what a conjunct speaks of are dealt with
together, by a frame lemma.

### SyncManager

`IInv` is the type invariant, `OneOwner`, `OpOnLiveBackend`, and `LockOwner`, which says
that `state_mutex_` is held between steps only by a thread at the one place (`swap`)
where a destructor runs inside it. `OneOwner` alone is not inductive: that a destructor
destroys what nobody else owns needs to know who waits with which object, and that no
operation starts on an object about to be destroyed needs `OpOnLiveBackend`. For the
theorems about the lock, `SerializedPointers` says that every operation of the instance
that takes a backend pointer or replaces the backend is in `Serialized`; `Discipline`,
that only its holder is inside such a call.

`Registration` adds to this what a registering thread has seeded (`Syncing`): a state
in the map, a snapshot that agrees with the map, and the caller's token in the slot of the
backend whose phase it runs. `Together` is `RegisteredTogether` while nobody is between
the steps of a registration. `Changes` is for the mark: `Saving` says that a sync that
is about to clear the mark has committed everything, `Noticed` that a change outside a
commit is marked or its event is on the way. `SerializedEdits` puts the saves under the
lock too and leaves out the two operations that drop marks and configs on their own;
without it the property fails, as section 5 says.

### GitSync

`IInv` says, device by device, which call a place belongs to (`CallPlace`), for whom
there is a notebook (`Opened`), which conflicts a rebase has (`Rebasing`), and what
`branch`, `head` and `track` have in common with the remote: a device without a
repository is new to it (`Starting`), its histories are the part it knows followed by
its own commits (`Known`, with `Grown`), and between its fetch and its push it has
published nothing it does not know of (`Fetched`). From this a push that is accepted
extends the remote by commits of a device that knows all of it. In the refinement the
remote's branch is `log` and the tracking branches are `seen`; a fetch is `Learn`, an
accepted push `Extend`, a repository made anew `Forget`, everything else a stutter.

`GitEditsProofs` has three invariants on top. `Marks`: whatever may become a branch has
no markers; a commit made over a conflict is on a detached HEAD, and stays there.
`Accounts`: an edit the device has committed is in its branch, or in the HEAD of its
rebase and the patches still to come, or in the index of the patch that is stopped; a
merge keeps what either side had, and a patch is the difference to a tree that HEAD
already covers (`Replayable`, `Shown`). `Saves`: what is not committed is in the working
tree, and there is nothing of it when a checkout is forced. The last needs `WholeCalls`:
calls are Sync and StageAndCommit, and users settle a conflict before they save again.
`git_saved_lost` is the counterexample where FetchRebasePush is a call of its own.

### FolderImport

`RepairsSucceed` is what `import_recovery` assumes too: a failing write leaves the old
or a torn file, a staging directory is removed, the parent is written back. Section 5
has the counterexamples for each part.

At most one journal can be read (`Journals`); only it explains an index that cannot be
read or has one name more than it saved (`IndexBytes`); the cache is what `vx.json` says
(`CachedNames`). A name is settled if an unfinished journal saved it or, without one, the
index has it. Settled folders are whole and contain what was promised
(`SettledFolders`); every other directory, tree or row belongs to an import that is
going on or to be recovered (`Explained`, `ExplainedRows`). `AttachInProgress` and
`RecoveryInProgress` tell how far a call has come. The properties follow because at rest
no journal can be read. For the refinement, `shown` is computed from index, content and
metadata; the only steps that change it are the save of the parent, which adds the whole
folder, the rollback or recovery of one that was not promised, and the user's own calls.

### BundledFolder

`NothingLost` is not inductive: whether a rename onto a path, a rollback that removes
a directory or a deletion takes a note depends on what the steps before it in
`call.todo` bring there, and those steps were checked against the tree when the handler
ran. `Tree` says that directories and notes are in directories, and that there are
finitely many. `Numbers`: ids and texts that were given out are below `next`, so what
is new is none of the texts to be kept. `Calls` says which of three kinds the steps
still to be done are of (`Pending`). None of them takes a text (`AllQuiet`: what a
rollback or deletion would remove holds no text to be kept). Or the first brings new
notes where there are none, and the others take only what it brought (`GrowsFirst`). Or
one moves things to where no note is, and the others touch no content (`MovesOnce`). Each
handler leaves such a list, and each step and failure leaves one of the list's rest
(`RestAfterOther`, `RestAfterGrow`, `RestAfterMove`). The theorem holds for trees of
any depth, with folders that have subfolders (`NestedCalls`) and torn writes
(`WriteRemains`) too, which the passing run leaves out.

The recursion of ProcessCopiedFolderTree is a recursive function over the folders below
the copied one. That it exists, and that none of its steps takes a note, is proved by
induction over the number of directories below a folder (`CopyStepsExist`,
`CopyStepsHarmless`), with the same lemma about sets of numbers as in Session.

### Buffers

`ClosesAndSettles` and `Loads` are what the consumer takes care of (section 4). The
invariant: a note is at one path, a file or backup lies only where the index has a note
(`PathsOfNotes`); a buffer is at the path of its note and shares it with no other, nor do
records in the session (`PathsOfBuffers`); texts are with their notes (`OwnTexts`); an
unedited buffer with the time of its file shows it (`BuffersShow`), whatever its state
says; what was reported as kept is in the file or the backup (`KeptSomewhere`).
`OneBufferPerNote` carries the rest: a second buffer of a note would save an older text
over a kept one.

### Session

What a start does with a list of records is a recursive function over the list. The
library's induction theorems cannot be used with operators, so a lemma proves, from the
induction over sets of numbers, that the recursive function exists and what its values
are; type correctness and the other theorems use it. `BuffersKeepTheirNotebook` needs
that no two folders hold one notebook (`Copies` FALSE); its invariant `Placed` says that
the folder of an open notebook still holds its id. `Remembered` carries
`KnownNotebooksStay` through the reconciliation at start. For `StartRestores`, `Held` says
that until the shutdown is prepared the session has every buffer, every workspace with its
list, but for buffers that could not be loaded, and the current workspace; `CurrentIsThere`
that the current workspace is one there is.

### ContentSearch

`Pool`: queue, batches and hands hold items of calls (`Places`) and no item twice
(`Once`). `Busy` counts: while a call enqueues, `left` is the number of its items that
live somewhere and of those it has still to put; while it helps and waits, of those that
live somewhere; a call that is idle or done has none. A call returns when `left` is zero,
so it has no item left. That is what `remaining` of SearchStreaming stands for, and
`EnqueueStranded`, the shutdown in the middle of it, is where the count is hardest to
keep.

### What is only model-checked

* Liveness: `CallsReturn`, `Converges`, `Repaired`, `EveryCallReturns`. Leads-to under
  fairness, and ENABLED, are out of the prover's reach.
* `RawFolder` and `NoteRecords`. Their handlers compose folds and filters over sequences;
  the prover knows nothing of an operator that takes an operator (FoldLeft, SelectSeq), so
  each of them first needs a first-order description.
* `KnownNodesStay`, `CacheIsCurrent` and `RowsFollowCache` of `BundledFolder`: for each
  handler they need an account of what its whole list of steps makes of the four
  copies of the tree (section 3).
* `BatchesAreWhole`, `AnswersAreExact` and `NodesAreFound` of the search, for the same
  reason: the answer of one thread is a fold over the files.
* `StagingMeansSyncing` of SyncManager, and `BackendPointerStable`, `RegisteredTogether`
  and the like without their hypotheses, which section 5 shows to fail.

## 7. What is not modelled, and why

* libgit2, SQLite, the file system, rg and the server: external; their guarantees appear
  as actions, named above.
* Text of notes, paths, names and timestamps: data, abstracted to what the properties
  tell apart.
* Events: the listeners are copied under a lock and called outside it. The sync
  listeners are in `SyncManager`, the moves and closings of buffers in `Buffers`; other
  listeners are the consumer's.
* Snippets, templates, configuration other than the session, activity, history, content
  processors, file types, utilities: sequential functions of a string or of one file
  without a protocol. CLI and tools are clients of the API.
* `BundledFolder`: row writes that fail, links rewritten in copies, a folder copied into
  itself. `NoteRecords`: two faults in one call, a torn `config.json`, the cyclic trees a
  merge can make. `RawFolder`: hidden files, asset directories as nodes, notes linked by
  relative paths, a folder copied into itself, a failing write within a call. `Buffers`:
  read-only notebooks, another program that writes in the middle of a call. `Session`:
  names and metadata of workspaces and their order. `ContentSearch`: the syntax of a
  query, rg with excludes, the text of a match, notes that change during a search;
  collecting the files fills the config cache on the searching thread, which no lock
  protects, and the caller is taken to hold the notebook still.
* Data races: SyncManager's maps are accessed under `state_mutex_`, except
  `last_enqueue_time_`, which listeners write without it (`sync_manager.cpp:129`) and
  nothing reads; calls on one backend object are ordered by `op_mutex_`.
