---------------------------- MODULE BundledFolder ----------------------------
(***************************************************************************)
(* BundledFolderManager: folders and notes of a bundled notebook.          *)
(*                                                                         *)
(* There are four copies of the tree: the content (directories and notes), *)
(* one vx.json per folder that lists its children, the FolderConfigs       *)
(* cached by path, and the rows of the metadata store, which are keyed by  *)
(* id.  An operation changes them one after the other, without a journal:  *)
(* each step may fail, most failures make the operation return where it    *)
(* is, and the process may die between any two steps.                      *)
(*                                                                         *)
(* A handler is one action: it checks what the code checks before it       *)
(* changes anything, and leaves the steps it will then take, in the code's *)
(* order, in call.todo.  There is one action per kind of step.             *)
(***************************************************************************)
EXTENDS Integers, Sequences, FiniteSets, SequencesExt, Functions, TLC

CONSTANTS
    Names,             \* names of folders
    Files,             \* names of notes
    MaxDepth,          \* bound on the depth of the tree
    StartFolders,      \* the folders of the notebook at the start
    StartNotes,        \* and its notes, as paths
    StartId,           \* their ids
    MaxId,             \* bound on the ids given out
    MaxCalls,          \* bound on the calls that change something
    MaxFaults,         \* bound on the steps that fail and the crashes together
    NestedCalls,       \* the calls made for folders that have subfolders too
    WriteRemains,      \* what a write of a vx.json that does not succeed leaves
    RootName,          \* the name of the root folder's row, "."
    None

Paths == UNION {[1 .. n -> Names]: n \in 0 .. MaxDepth}
Root == <<>>
NotePaths == {Append(p, f): p \in Paths, f \in Files}
Ids == 1 .. MaxId

ASSUME ConstantsAssumption ==
    /\ Names \cap Files = {} /\ None \notin Ids
    /\ StartFolders \subseteq Paths /\ Root \in StartFolders
    /\ \A p \in StartFolders \ {Root}: Front(p) \in StartFolders
    /\ StartNotes \subseteq NotePaths /\ \A n \in StartNotes: Front(n) \in StartFolders
    /\ IsFiniteSet(StartFolders \cup StartNotes)
    /\ StartId \in Bijection(StartFolders \cup StartNotes,
                            1 .. Cardinality(StartFolders \cup StartNotes))
    /\ Cardinality(StartFolders \cup StartNotes) <= MaxId
    /\ {MaxId, MaxCalls, MaxFaults, MaxDepth} \subseteq Nat
    /\ NestedCalls \subseteq {"rename", "move", "import"}
    /\ WriteRemains \subseteq {"old", "torn"} /\ WriteRemains # {}

VARIABLES
    dirs,       \* directories below the notebook's root folder
    notes,      \* notes[n]: the text in the file at path n
    conf,       \* conf[p]: the vx.json of folder p
    cache,      \* config_cache_
    frows,      \* frows[id]: the row of a folder
    nrows,      \* nrows[id]: the row of a note
    call,       \* the running call: steps to do, folders it is about, ids it will report
    known,      \* ids of the nodes that calls reported and no later call was about
    texts,      \* texts that were written and that the user did not delete
    unsettled,  \* folders that a call of this session failed on
    unsynced,   \* may there be rows that are behind, and that no lazy sync repairs?
    next,       \* the next id
    calls, faults

disk == <<dirs, notes, conf>>
store == <<frows, nrows>>
observed == <<known, unsettled, unsynced>>
bounds == <<calls, faults>>
vars == <<disk, cache, store, call, texts, observed, next, bounds>>

-----------------------------------------------------------------------------
(* Paths and configs *)

Within(p, q) == IsPrefix(p, q)
Below(p, S) == {q \in S: Within(p, q)}
Rebase(q, from, to) == to \o SubSeq(q, Len(from) + 1, Len(q))

\* f with what is at and below from now at and below to.
Relocate(f, from, to) ==
    [q \in (DOMAIN f \ Below(from, DOMAIN f)) \cup {Rebase(r, from, to): r \in Below(from, DOMAIN f)}
        |-> IF Within(to, q) /\ Rebase(q, to, from) \in DOMAIN f
            THEN f[Rebase(q, to, from)] ELSE f[q]]
Without(f, S) == Restrict(f, DOMAIN f \ S)

\* f, and what g has where f has nothing.
Over(f, g) == [x \in DOMAIN f \cup DOMAIN g |-> IF x \in DOMAIN f THEN f[x] ELSE g[x]]
Single(x, v) == [y \in {x} |-> v]
With(g, x, v) == Over(Single(x, v), g)

NameOf(p) == IF p = Root THEN RootName ELSE Last(p)

\* ahead: is modified_utc later than that of the folder's row?
NewConfig(id) == [id |-> id, folders |-> {}, files |-> <<>>, ahead |-> FALSE]
NewRecord(id) == [id |-> id, tagged |-> FALSE]
TornConfig == NewConfig(None)

OnlyFolder(c, n) == [c EXCEPT !.folders = {n}, !.ahead = TRUE]  \* mutant

AddFolder(c, n) == [c EXCEPT !.folders = @ \cup {n}, !.ahead = TRUE]
DropFolder(c, n) == [c EXCEPT !.folders = @ \ {n}, !.ahead = TRUE]
AddFile(c, f, r) == [c EXCEPT !.files = With(@, f, r), !.ahead = TRUE]
DropFile(c, f) == [c EXCEPT !.files = Without(@, {f}), !.ahead = TRUE]

CopyOfRecord(r, id) == [r EXCEPT !.id = id]

Touch(c) == [c EXCEPT !.ahead = TRUE]

IdsOf(c) == {c.id} \cup {c.files[f].id: f \in DOMAIN c.files}

\* LoadFolderConfig would succeed.
Readable(p) == p \in DOMAIN conf /\ conf[p] # TornConfig

\* What vx.json files on disk lead to, and what the user is shown.
Indexed == {p \in DOMAIN conf: \A k \in 1 .. Len(p):
               LET q == SubSeq(p, 1, k - 1) IN q \in DOMAIN conf /\ p[k] \in conf[q].folders}
Listed == {p \in Paths: \A k \in 1 .. Len(p):
               LET q == SubSeq(p, 1, k - 1) IN q \in DOMAIN cache /\ p[k] \in cache[q].folders}
Shown == Listed \cap DOMAIN cache

\* Ids of the nodes at or below a path, in the cached configs or on disk.
IdsAt(p) ==
    UNION {IdsOf(cache[q]): q \in Below(p, DOMAIN cache)}
        \cup UNION {IdsOf(conf[q]): q \in Below(p, DOMAIN conf)}

-----------------------------------------------------------------------------
(* Calls *)

Idle == [todo |-> <<>>, about |-> {}, gain |-> {}]
Running == call # Idle
May == ~Running /\ calls < MaxCalls

\* A handler's checks pass: it will take the steps in todo, on the folders in
\* about; the nodes in lose are no longer promised, those in gain will be when
\* it answers VXCORE_OK; it generates count ids.
Begin(todo, about, lose, gain, count) ==
    /\ calls' = calls + 1
    /\ call' = [todo |-> todo, about |-> about, gain |-> gain]
    /\ known' = known \ lose
    /\ next' = next + count /\ next' <= MaxId + 1
    /\ UNCHANGED <<disk, store, unsettled, unsynced, faults>>

\* A folder that is listed only in an edit that was not saved may be gone in the
\* next session, and with it what was put there.
InSettledFolders == \A p \in call.about: Prefixes(p) \cap unsettled = {}

\* The step is done; after the last one the call returns VXCORE_OK.
Done ==
    LET last == Len(call.todo) = 1
        gain == IF last THEN call.gain ELSE {}
    IN  /\ call' = IF last THEN Idle ELSE [call EXCEPT !.todo = Tail(@)]
        /\ known' = known \cup (IF InSettledFolders THEN gain ELSE {})
        /\ texts' = texts \cup (gain \cap Range(notes'))
        /\ UNCHANGED <<unsettled, unsynced, next, calls>>

Step == Head(call.todo)
At(do) == Running /\ Step.do = do

\* Rows that no lazy sync compares with the configs are still to be written.
Unrepaired == \E i \in DOMAIN call.todo: call.todo[i].do \in {"moverow", "noterows"}

\* Configs are later than rows, or could not be saved and stay in the cache: the
\* next call that writes the row of that folder hides it from the lazy sync.
Overtakable ==
    \/ At("save") /\ Step.held # {}
    \/ \E p \in call.about \cap DOMAIN conf: conf[p].ahead

\* The call returns an error where it is.
GiveUp ==
    /\ call' = Idle
    /\ unsettled' = unsettled \cup call.about
    /\ unsynced' = (unsynced \/ Unrepaired \/ Overtakable)
    /\ UNCHANGED <<known, texts, next, calls>>

\* A failure that is logged, or not noticed: the call goes on.
GoOn ==
    /\ call' = IF Len(call.todo) = 1 THEN Idle
               ELSE [call EXCEPT !.todo = Tail(@), !.gain = {}]
    /\ unsettled' = unsettled \cup call.about
    /\ UNCHANGED <<known, texts, unsynced, next, calls>>

FailureOf(step) == IF step.soft THEN GoOn ELSE GiveUp

\* A step fails: always, when it is not possible.
Fault == faults < MaxFaults /\ faults' = faults + 1
Fails(possible) == IF possible THEN Fault ELSE UNCHANGED faults

\* The steps that handlers leave in call.todo; soft: a failure is not fatal.
AndParents(S) == UNION {Prefixes(d): d \in S}
Grow(newDirs, newNotes, soft) ==
    [do |-> "grow", dirs |-> AndParents(newDirs), notes |-> newNotes, soft |-> soft]
MkDirs(p) == Grow({p}, <<>>, FALSE)
Move(from, to) == [do |-> "move", from |-> from, to |-> to, soft |-> FALSE]
Delete(p) == [do |-> "delete", at |-> p, soft |-> FALSE]
SaveStep(p, held, c, undo, soft) ==
    [do |-> "save", at |-> p, held |-> held, conf |-> c, undo |-> undo, soft |-> soft]

SaveCached(p, c) == SaveStep(p, {p}, c, {}, FALSE)
SaveOrUndoAll(p, c, q) == SaveStep(p, {p}, c, {p}, FALSE)  \* mutant

SaveOrUndo(p, c, q) == SaveStep(p, {p}, c, {q}, FALSE)
SaveNew(p, c) == SaveStep(p, {}, c, {}, FALSE)
SaveNewSoftly(p, c) == SaveStep(p, {}, c, {}, TRUE)
MoveConfig(from, to) == [do |-> "moveconf", from |-> from, to |-> to, soft |-> FALSE]
MoveConfigs(from, to) == [do |-> "moveconfs", from |-> from, to |-> to, soft |-> FALSE]
CopyConfigs(from, to) == [do |-> "copyconfs", from |-> from, to |-> to, soft |-> FALSE]
DropConfigs(p, soft) == [do |-> "dropconfs", at |-> p, soft |-> soft]
PutRow(id, parent, name) == [do |-> "putrow", id |-> id, parent |-> parent, name |-> name]
UpdateRow(id, name) == [do |-> "updaterow", id |-> id, name |-> name]
MoveRow(id, parent) == [do |-> "moverow", id |-> id, parent |-> parent]
DropRow(id) == [do |-> "droprow", id |-> id]
NoteRow(c, f) == [folder |-> c.id, name |-> f, tagged |-> c.files[f].tagged]
NoteRowsOf(c) ==
    [i \in {c.files[f].id: f \in DOMAIN c.files} |->
        NoteRow(c, CHOOSE f \in DOMAIN c.files: c.files[f].id = i)]
PutNoteRows(c) == [do |-> "noterows", rows |-> NoteRowsOf(c)]
PutNoteRow(c, f) == [do |-> "noterow", rows |-> Single(c.files[f].id, NoteRow(c, f))]
UpdateNoteRow(id, name) == [do |-> "notename", id |-> id, name |-> name]

MoveNoteRow(id, folder) == [do |-> "movenote", id |-> id, folder |-> folder]
TagNoteRow(id, tagged) == [do |-> "tagnote", id |-> id, tagged |-> tagged]
DropNoteRow(id) == [do |-> "dropnote", id |-> id]
Remember(p, c) == [do |-> "remember", at |-> p, conf |-> c]
ForgetNothing(S) == [do |-> "forget", at |-> {}]  \* mutant

Forget(S) == [do |-> "forget", at |-> S]
Return(error) == [do |-> "return", error |-> error]

If(condition, steps) == IF condition THEN steps ELSE <<>>

-----------------------------------------------------------------------------
(* Loading *)

NeedsSyncIfMissing(p) == conf[p].id \notin DOMAIN frows  \* mutant

NeedsSync(p) == conf[p].id \notin DOMAIN frows \/ conf[p].ahead

\* modified_utc of these folders' rows is no longer behind any copy of their config.
CaughtUp(f, ids) ==
    [p \in DOMAIN f |-> IF f[p].id \in ids THEN [f[p] EXCEPT !.ahead = FALSE] ELSE f[p]]

\* GetFolderConfig of a folder that is not cached: it is loaded, and, if its
\* row is missing or older, synced to the store, which loads its subfolders.
Loads(p) ==
    {q \in Below(p, DOMAIN conf \ DOMAIN cache):
        /\ Readable(q)
        /\ \A k \in Len(p) + 1 .. Len(q):
               LET r == SubSeq(q, 1, k - 1) IN
               /\ Readable(r) /\ r \notin DOMAIN cache
               /\ NeedsSync(r) /\ q[k] \in conf[r].folders}

ParentIdIn(f, p) == IF p = Root THEN None ELSE f[Front(p)].id

\* An existing row keeps its parent.
SyncedFolderRow(p, configs) ==
    IF configs[p].id \in DOMAIN frows THEN [frows[configs[p].id] EXCEPT !.name = NameOf(p)]
    ELSE [parent |-> ParentIdIn(configs, p), name |-> NameOf(p)]

RowsOfFolders(S, configs) ==
    [i \in {configs[p].id: p \in S} |->
        SyncedFolderRow(CHOOSE p \in S: configs[p].id = i, configs)]

RowsOfNotes(S, configs) ==
    LET listed == {e \in S \X Files: e[2] \in DOMAIN configs[e[1]].files}
        IdOf(e) == configs[e[1]].files[e[2]].id
    IN  [i \in {IdOf(e): e \in listed} |->
            LET e == CHOOSE x \in listed: IdOf(x) = i IN NoteRow(configs[e[1]], e[2])]

\* The viewer opens a folder that it is shown: ListFolderContents, or any
\* handler's GetFolderConfig.  Handlers are enabled once their folders are cached.
OpenFolder(p) ==
    LET loaded == Loads(p)
        synced == {q \in loaded: NeedsSync(q)}
        configs == Over(Restrict(conf, loaded), cache)
        ids == {conf[q].id: q \in synced}
    IN  /\ ~Running
        /\ p \in Listed \ DOMAIN cache /\ Readable(p)
        /\ frows' = Over(RowsOfFolders(synced, configs), frows)
        /\ nrows' = Over(RowsOfNotes(synced, configs),
                         Restrict(nrows, {i \in DOMAIN nrows: nrows[i].folder \notin ids}))
        /\ cache' = CaughtUp(configs, ids)
        /\ conf' = CaughtUp(conf, ids)
        /\ UNCHANGED <<dirs, notes, call, texts, observed, next, bounds>>

\* SyncMetadataStoreFromConfigs, in one transaction; it uses what is cached, also
\* edits that a failed call could not save.
RebuildCache ==
    LET configs == Over(cache, Restrict(conf, {p \in DOMAIN conf: Readable(p)}))
        walked == {p \in DOMAIN configs: \A k \in 1 .. Len(p):
                      LET q == SubSeq(p, 1, k - 1) IN
                      q \in DOMAIN configs /\ p[k] \in configs[q].folders}
        ids == {configs[p].id: p \in walked}
    IN  /\ ~Running
        /\ frows' = [i \in ids |->
                        LET p == CHOOSE q \in walked: configs[q].id = i IN
                        [parent |-> ParentIdIn(configs, p), name |-> NameOf(p)]]
        /\ nrows' = RowsOfNotes(walked, configs)
        /\ cache' = CaughtUp(Restrict(configs, walked \cup DOMAIN cache), ids)
        /\ conf' = CaughtUp(conf, ids)
        /\ unsynced' = (unsettled # {})
        /\ UNCHANGED <<dirs, notes, call, texts, known, unsettled, next, bounds>>
-----------------------------------------------------------------------------
(* Folders *)

Leaf(p) == cache[p].folders = {}
MayRelocate(operation, p, q) ==
    /\ operation \in NestedCalls \/ Leaf(p)
    /\ \A r \in Below(p, dirs \cup DOMAIN conf): Rebase(r, p, q) \in Paths

CreateFolder(p, n) ==
    LET q == Append(p, n)
        new == NewConfig(next)
    IN  /\ May /\ p \in Shown /\ q \in Paths \ dirs /\ n \notin cache[p].folders
        /\ Begin(<<MkDirs(q), SaveCached(p, AddFolder(cache[p], n)), SaveNew(q, new),
                   PutRow(next, cache[p].id, n), Remember(q, new)>>,
                 {p, q}, {}, {next}, 1)
        /\ UNCHANGED <<cache, texts>>

\* The folder need not be readable; the row goes only if its id is known.
DeleteFolder(p) ==
    LET parent == Front(p)
    IN  /\ May /\ p \in Listed \ {Root} /\ (p \in DOMAIN cache \/ ~Readable(p))
        /\ p \in dirs \cup DOMAIN conf
        /\ Begin(<<SaveCached(parent, DropFolder(cache[parent], Last(p)))>>
                     \o If(p \in dirs, <<Delete(p)>>)
                     \o If(p \in DOMAIN conf, <<DropConfigs(p, FALSE)>>)
                     \o If(p \in DOMAIN cache, <<DropRow(cache[p].id)>>),
                 {parent, p}, IdsAt(p), {}, 0)
        /\ cache' = Without(cache, {p})
        /\ texts' = texts \ {notes[n]: n \in Below(p, DOMAIN notes)}

UpdateFolderMetadata(p) ==
    /\ May /\ p \in Shown
    /\ Begin(<<SaveCached(p, Touch(cache[p])), UpdateRow(cache[p].id, NameOf(p))>>,
             {p}, {}, {}, 0)
    /\ UNCHANGED <<cache, texts>>

\* Only the order changes, which is not modelled, and modified_utc; no row is written.
SetChildrenOrder(p) ==
    /\ May /\ p \in Shown
    /\ Cardinality(cache[p].folders) > 1 \/ Cardinality(DOMAIN cache[p].files) > 1
    /\ Begin(<<SaveCached(p, Touch(cache[p]))>>, {p}, {}, {}, 0)
    /\ UNCHANGED <<cache, texts>>

\* The directory is renamed; of the metadata tree only the folder's own vx.json is.
RenameFolder(p, n) ==
    LET parent == Front(p)
        q == Append(parent, n)
        renamed == AddFolder(DropFolder(cache[parent], Last(p)), n)
    IN  /\ May /\ p \in Shown \ {Root} /\ p \in dirs /\ q \notin dirs
        /\ MayRelocate("rename", p, q)
        /\ Begin(<<Move(p, q)>>
                     \o If(p \in DOMAIN conf, <<MoveConfig(p, q), DropConfigs(p, FALSE)>>)
                     \o <<SaveStep(q, {p}, Touch(cache[p]), {}, FALSE),
                          SaveCached(parent, renamed), UpdateRow(cache[p].id, n),
                          Forget({p, q})>>,
                 {parent, p, q}, IdsAt(p), known \cap IdsAt(p), 0)
        /\ UNCHANGED <<cache, texts>>

MoveFolder(p, d) ==
    LET parent == Front(p)
        q == Append(d, Last(p))
    IN  /\ May /\ p \in Shown \ {Root} /\ d \in Shown
        /\ p \in dirs /\ q \in Paths \ dirs /\ Last(p) \notin cache[d].folders
        /\ MayRelocate("move", p, q)
        /\ Begin(If(d \notin dirs, <<MkDirs(d)>>)
                     \o <<Move(p, q)>>
                     \o If(p \in DOMAIN conf, <<MoveConfigs(p, q)>>)
                     \o <<SaveCached(parent, DropFolder(cache[parent], Last(p))),
                          SaveCached(d, AddFolder(cache[d], Last(p))),
                          MoveRow(cache[p].id, cache[d].id), Forget({p, q})>>,
                 {parent, p, d, q}, IdsAt(p), known \cap IdsAt(p), 0)
        /\ UNCHANGED <<cache, texts>>

\* Ids for what a copy or an import contains.
FreshIds(S) ==
    LET order == SetToSeq(S) IN [x \in S |-> next - 1 + CHOOSE i \in DOMAIN order: order[i] = x]

\* The entries of a copied folder: those whose content was copied.
CopiedFolders(p) == {n \in conf[p].folders: Append(p, n) \in dirs}
CopiedFiles(p) == {f \in DOMAIN conf[p].files: Append(p, f) \in DOMAIN notes}

\* The folders ProcessCopiedFolderTree reaches, in terms of the source.
CopiedTree(p) ==
    {q \in Below(p, DOMAIN conf): \A k \in Len(p) + 1 .. Len(q):
        LET r == SubSeq(q, 1, k - 1) IN r \in DOMAIN conf /\ q[k] \in CopiedFolders(r)}

\* ProcessCopiedFolderTree: each folder gets its new config and rows, then its
\* subfolders are processed, then it is cached; it stops at the first it cannot load.
CopySteps(p, q, ids, parent) ==
    LET to(r) == Rebase(r, p, q)
        ConfigOf(r) == [NewConfig(ids[r]) EXCEPT
            !.folders = CopiedFolders(r),
            !.files = [f \in CopiedFiles(r) |->
                          CopyOfRecord(conf[r].files[f], ids[Append(r, f)])]]
        steps[r \in Below(p, dirs)] ==
            IF ~Readable(r) THEN <<Return("error")>>
            ELSE <<SaveNew(to(r), ConfigOf(r)),
                   PutRow(ids[r], IF r = p THEN parent ELSE ids[Front(r)], Last(to(r))),
                   PutNoteRows(ConfigOf(r))>>
                 \o FlattenSeq([i \in 1 .. Cardinality(CopiedFolders(r)) |->
                        steps[Append(r, SetToSeq(CopiedFolders(r))[i])]])
                 \o <<Remember(to(r), ConfigOf(r))>>
    IN  steps[p]

CopyFolder(p, d, n) ==
    LET q == Append(d, n)
        copied == CopiedTree(p)
        texted == Below(p, DOMAIN notes)
        ids == FreshIds(copied \cup texted)
    IN  /\ May /\ p \in Shown \ {Root} /\ d \in Shown /\ ~Within(p, d)
        /\ p \in dirs /\ q \in Paths \ dirs /\ n \notin cache[d].folders
        /\ \A r \in Below(p, dirs \cup DOMAIN conf): Rebase(r, p, q) \in Paths
        /\ Begin(<<Grow({Rebase(r, p, q): r \in Below(p, dirs)},
                        [m \in {Rebase(r, p, q): r \in texted} |-> ids[Rebase(m, q, p)]], FALSE)>>
                     \o <<CopyConfigs(p, q)>>
                     \o CopySteps(p, q, ids, cache[d].id)
                     \o <<SaveCached(d, AddFolder(cache[d], n))>>,
                 {d, q}, {}, {ids[r]: r \in copied \cup {m \in texted:
                     Front(m) \in copied /\ Last(m) \in DOMAIN conf[Front(m)].files}},
                 Cardinality(copied \cup texted))
        /\ UNCHANGED <<cache, texts>>

-----------------------------------------------------------------------------
(* Notes *)

InFolder(p, f) == May /\ p \in Shown /\ f \in DOMAIN cache[p].files
IdOf(p, f) == cache[p].files[f].id

\* Is the name free, on disk and in the config?
Free(p, f) == Append(p, f) \notin DOMAIN notes /\ f \notin DOMAIN cache[p].files

\* std::ofstream(path).close() is not checked.
CreateFile(p, f) ==
    LET c == AddFile(cache[p], f, NewRecord(next))
    IN  /\ May /\ p \in Shown /\ Free(p, f)
        /\ Begin(<<Grow({}, Single(Append(p, f), next), TRUE), SaveCached(p, c), PutNoteRow(c, f)>>,
                 {p}, {}, {next}, 1)
        /\ UNCHANGED <<cache, texts>>

DeleteFile(p, f) ==
    LET n == Append(p, f)
    IN  /\ InFolder(p, f)
        /\ Begin(<<SaveCached(p, DropFile(cache[p], f)), Delete(n), DropNoteRow(IdOf(p, f))>>,
                 {p}, {IdOf(p, f)}, {}, 0)
        /\ texts' = texts \ {notes[m]: m \in {n} \cap DOMAIN notes}
        /\ UNCHANGED cache

\* UpdateFile replaces the note's row.
UpdateFileMetadata(p, f) ==
    /\ InFolder(p, f)
    /\ Begin(<<SaveCached(p, Touch(cache[p])), UpdateNoteRow(IdOf(p, f), f)>>, {p}, {}, {}, 0)
    /\ UNCHANGED <<cache, texts>>

\* TagFile, UntagFile and UpdateFileTags
Tagging(p, f, tagged) ==
    LET c == [Touch(cache[p]) EXCEPT !.files[f].tagged = tagged]
    IN  /\ InFolder(p, f) /\ cache[p].files[f].tagged # tagged
        /\ Begin(<<SaveCached(p, c), TagNoteRow(IdOf(p, f), tagged)>>, {p}, {}, {}, 0)
        /\ UNCHANGED <<cache, texts>>

RenameFile(p, f, g) ==
    LET c == AddFile(DropFile(cache[p], f), g, cache[p].files[f])
    IN  /\ InFolder(p, f) /\ Free(p, g) /\ Append(p, f) \in DOMAIN notes
        /\ Begin(<<Move(Append(p, f), Append(p, g)), SaveCached(p, c),
                   UpdateNoteRow(IdOf(p, f), g)>>,
                 {p}, {IdOf(p, f)}, known \cap {IdOf(p, f)}, 0)
        /\ UNCHANGED <<cache, texts>>

MoveFile(p, f, d) ==
    /\ InFolder(p, f) /\ d \in Shown /\ Free(d, f) /\ Append(p, f) \in DOMAIN notes
    /\ Begin(<<Move(Append(p, f), Append(d, f)), SaveCached(p, DropFile(cache[p], f)),
               SaveCached(d, AddFile(cache[d], f, cache[p].files[f])),
               MoveNoteRow(IdOf(p, f), cache[d].id)>>,
             {p, d}, {IdOf(p, f)}, known \cap {IdOf(p, f)}, 0)
    /\ UNCHANGED <<cache, texts>>

CopyFile(p, f, d, g) ==
    LET c == AddFile(cache[d], g, CopyOfRecord(cache[p].files[f], next))
    IN  /\ InFolder(p, f) /\ d \in Shown /\ Free(d, g) /\ Append(p, f) \in DOMAIN notes
        /\ Begin(<<Grow({}, Single(Append(d, g), next), FALSE), SaveCached(d, c), PutNoteRow(c, g)>>,
                 {d}, {}, {next}, 1)
        /\ UNCHANGED <<cache, texts>>

-----------------------------------------------------------------------------
(* Importing and indexing *)

\* The copied file goes when the config cannot be saved; the cached record stays.
ImportFile(p, f) ==
    LET c == AddFile(cache[p], f, NewRecord(next))
    IN  /\ May /\ p \in Shown /\ Free(p, f)
        /\ Begin(<<Grow({}, Single(Append(p, f), next), FALSE), SaveOrUndo(p, c, Append(p, f)),
                   PutNoteRow(c, f)>>,
                 {p}, {}, {next}, 1)
        /\ UNCHANGED <<cache, texts>>

\* An external folder with note f, and with a subfolder s, if any, that has one
\* too.  The subfolder is indexed first.
ImportFolder(p, n, f, s) ==
    LET q == Append(p, n)
        subs == {Append(q, m): m \in {s} \ {None}}
        folders == {q} \cup subs
        texted == {Append(r, f): r \in folders}
        ids == FreshIds(folders \cup texted)
        ConfigOf(r) == [NewConfig(ids[r]) EXCEPT
            !.folders = IF r = q THEN {s} \ {None} ELSE {},
            !.files = Single(f, NewRecord(ids[Append(r, f)]))]
    IN  /\ May /\ p \in Shown /\ folders \subseteq Paths
        /\ q \notin dirs /\ n \notin cache[p].folders /\ (s = None \/ "import" \in NestedCalls)
        /\ Begin(<<Grow(folders, [m \in texted |-> ids[m]], FALSE),
                   SaveOrUndo(p, AddFolder(cache[p], n), q)>>
                     \o FlattenSeq([i \in 1 .. Cardinality(subs) |->
                            LET r == SetToSeq(subs)[i]
                            IN  <<SaveNewSoftly(r, ConfigOf(r)), PutRow(ids[r], ids[q], s),
                                  PutNoteRows(ConfigOf(r)), Remember(r, ConfigOf(r))>>])
                     \o <<SaveNew(q, ConfigOf(q)), PutRow(ids[q], cache[p].id, n),
                          PutNoteRows(ConfigOf(q)), Remember(q, ConfigOf(q))>>,
                 {p} \cup folders, {}, {ids[r]: r \in folders \cup texted},
                 Cardinality(folders \cup texted))
        /\ UNCHANGED <<cache, texts>>

IndexFolder(p, n) ==
    LET q == Append(p, n)
        new == NewConfig(next)
    IN  /\ May /\ p \in Shown /\ q \in dirs /\ n \notin cache[p].folders
        /\ Begin(<<SaveNew(q, new), SaveCached(p, AddFolder(cache[p], n)),
                   PutRow(next, cache[p].id, n), Remember(q, new)>>,
                 {p, q}, {}, {next}, 1)
        /\ UNCHANGED <<cache, texts>>

IndexFile(p, f) ==
    LET c == AddFile(cache[p], f, NewRecord(next))
    IN  /\ May /\ p \in Shown /\ Append(p, f) \in DOMAIN notes /\ f \notin DOMAIN cache[p].files
        /\ Begin(<<SaveCached(p, c), PutNoteRow(c, f)>>, {p}, {}, {next}, 1)
        /\ UNCHANGED <<cache, texts>>

\* The content stays.
UnindexFolder(p) ==
    LET parent == Front(p)
    IN  /\ May /\ p \in Listed \ {Root} /\ (p \in DOMAIN cache \/ ~Readable(p))
        /\ Begin(<<SaveCached(parent, DropFolder(cache[parent], Last(p)))>>
                     \o If(p \in DOMAIN conf, <<DropConfigs(p, TRUE)>>)
                     \o If(p \in DOMAIN cache, <<DropRow(cache[p].id)>>)
                     \o <<Forget({p})>>,
                 {parent, p}, IdsAt(p), {}, 0)
        /\ UNCHANGED <<cache, texts>>

UnindexFile(p, f) ==
    /\ InFolder(p, f)
    /\ Begin(<<SaveCached(p, DropFile(cache[p], f)), DropNoteRow(IdOf(p, f))>>,
             {p}, {IdOf(p, f)}, {}, 0)
    /\ UNCHANGED <<cache, texts>>

-----------------------------------------------------------------------------
(* Steps on the content *)

Grown ==
    /\ At("grow")
    /\ \A n \in DOMAIN Step.notes: Front(n) \in dirs \cup Step.dirs
    /\ dirs' = dirs \cup Step.dirs
    /\ notes' = Over(Step.notes, notes)
    /\ Done /\ UNCHANGED <<conf, cache, store, faults>>

\* Part of a tree may be left.
GrowFails(partly) ==
    /\ At("grow")
    /\ LET possible == \A n \in DOMAIN Step.notes: Front(n) \in dirs \cup Step.dirs
       IN  Fails(possible) /\ (partly => possible)
    /\ dirs' = IF partly THEN dirs \cup Step.dirs ELSE dirs
    /\ notes' = IF partly /\ ~Step.soft THEN Over(Step.notes, notes) ELSE notes
    /\ FailureOf(Step) /\ UNCHANGED <<conf, cache, store>>

CanMove == Front(Step.to) \in dirs /\ ~Within(Step.from, Step.to)

Moved ==
    /\ At("move") /\ CanMove
    /\ dirs' = (dirs \ Below(Step.from, dirs))
                  \cup {Rebase(d, Step.from, Step.to): d \in Below(Step.from, dirs)}
    /\ notes' = Relocate(notes, Step.from, Step.to)
    /\ Done /\ UNCHANGED <<conf, cache, store, faults>>

MoveFails ==
    /\ At("move") /\ Fails(CanMove)
    /\ GiveUp /\ UNCHANGED <<disk, cache, store>>

Deleted ==
    /\ At("delete")
    /\ dirs' = dirs \ Below(Step.at, dirs)
    /\ notes' = Without(notes, Below(Step.at, DOMAIN notes))
    /\ Done /\ UNCHANGED <<conf, cache, store, faults>>

DeleteFails ==
    /\ At("delete") /\ Fails(TRUE)
    /\ GiveUp /\ UNCHANGED <<disk, cache, store>>

(* Steps on the vx.json files and the cache *)

\* The cached config is edited, then written.
Edited == Over([q \in Step.held |-> Step.conf], cache)

Saved ==
    /\ At("save")
    /\ cache' = Edited
    /\ conf' = With(conf, Step.at, Step.conf)
    /\ UNCHANGED <<dirs, notes, store, faults>> /\ Done

SaveFails(remains) ==
    /\ At("save") /\ Fails(TRUE)
    /\ cache' = Edited
    /\ conf' = IF remains = "torn" THEN With(conf, Step.at, TornConfig) ELSE conf
    /\ dirs' = dirs \ UNION {Below(p, dirs): p \in Step.undo}
    /\ notes' = Without(notes, UNION {Below(p, DOMAIN notes): p \in Step.undo})
    /\ FailureOf(Step) /\ UNCHANGED store

ConfigMoved ==
    /\ At("moveconf")
    /\ conf' = With(Without(conf, {Step.from}), Step.to, conf[Step.from])
    /\ UNCHANGED <<dirs, notes, cache, store, faults>> /\ Done

\* A directory is not renamed onto one that is not empty.
CanMoveConfigs == Below(Step.to, DOMAIN conf) = {}

ConfigsMoved ==
    /\ At("moveconfs") /\ CanMoveConfigs
    /\ conf' = Relocate(conf, Step.from, Step.to)
    /\ UNCHANGED <<dirs, notes, cache, store, faults>> /\ Done

ConfigsCopied ==
    /\ At("copyconfs") /\ Below(Step.from, DOMAIN conf) # {}
    /\ conf' = Over([q \in {Rebase(r, Step.from, Step.to): r \in Below(Step.from, DOMAIN conf)}
                         |-> conf[Rebase(q, Step.to, Step.from)]], conf)
    /\ UNCHANGED <<dirs, notes, cache, store, faults>> /\ Done

ConfigsDropped ==
    /\ At("dropconfs")
    /\ conf' = Without(conf, Below(Step.at, DOMAIN conf))
    /\ UNCHANGED <<dirs, notes, cache, store, faults>> /\ Done

ConfigStepFails ==
    /\ \/ (At("moveconf") \/ At("dropconfs")) /\ Fails(TRUE)
       \/ At("moveconfs") /\ Fails(CanMoveConfigs)
       \/ At("copyconfs") /\ Fails(Below(Step.from, DOMAIN conf) # {})
    /\ FailureOf(Step) /\ UNCHANGED <<disk, cache, store>>

Remembered ==
    /\ At("remember")
    /\ cache' = With(cache, Step.at, Step.conf)
    /\ UNCHANGED <<disk, store, faults>> /\ Done

Forgotten ==
    /\ At("forget")
    /\ cache' = Without(cache, Step.at)
    /\ UNCHANGED <<disk, store, faults>> /\ Done

Returned ==
    /\ At("return")
    /\ GiveUp /\ UNCHANGED <<disk, cache, store, faults>>

-----------------------------------------------------------------------------
(* Steps on the rows *)

\* The row of a folder and those of the folders below it.
RowsBelow(i) ==
    LET reached[k \in 0 .. MaxId] ==
            IF k = 0 THEN {i}
            ELSE LET so_far == reached[k - 1]
                 IN  so_far \cup {j \in DOMAIN frows: frows[j].parent \in so_far}
    IN  reached[MaxId] \cap DOMAIN frows

\* modified_utc of the row of folder i is no longer behind its config's.
RowIsLater(i) ==
    /\ conf' = CaughtUp(conf, {i}) /\ cache' = CaughtUp(cache, {i})
    /\ UNCHANGED <<dirs, notes>>

\* CreateFolder; ids are new, and a parent without a row is taken for none.
FolderRowPut ==
    /\ At("putrow")
    /\ frows' = With(frows, Step.id,
                   [parent |-> IF Step.parent \in DOMAIN frows THEN Step.parent ELSE None,
                    name |-> Step.name])
    /\ RowIsLater(Step.id) /\ Done /\ UNCHANGED <<nrows, faults>>

FolderRowUpdated ==
    /\ At("updaterow")
    /\ IF Step.id \in DOMAIN frows
       THEN frows' = [frows EXCEPT ![Step.id].name = Step.name] /\ RowIsLater(Step.id)
       ELSE UNCHANGED <<disk, cache, frows>>
    /\ Done /\ UNCHANGED <<nrows, faults>>

\* FileDb::MoveFolder makes no cycle; it sets modified_utc to the current time.
FolderRowMoved ==
    /\ At("moverow")
    /\ IF Step.id \in DOMAIN frows /\ Step.parent \notin RowsBelow(Step.id)
       THEN /\ frows' = [frows EXCEPT ![Step.id].parent =
                            IF Step.parent \in DOMAIN frows THEN Step.parent ELSE None]
            /\ RowIsLater(Step.id)
       ELSE UNCHANGED <<disk, cache, frows>>
    /\ Done /\ UNCHANGED <<nrows, faults>>

\* The rows of subfolders and notes go with it.
FolderRowDropped ==
    /\ At("droprow")
    /\ LET gone == RowsBelow(Step.id)
       IN  /\ frows' = Without(frows, gone)
           /\ nrows' = Restrict(nrows, {i \in DOMAIN nrows: nrows[i].folder \notin gone})
    /\ UNCHANGED <<disk, cache, faults>> /\ Done

\* CreateFile; it needs the folder's row.
NoteRowsPut ==
    /\ At("noterows") \/ At("noterow")
    /\ nrows' = Over(Restrict(Step.rows, {i \in DOMAIN Step.rows: Step.rows[i].folder \in DOMAIN frows}),
                     nrows)
    /\ UNCHANGED <<disk, cache, frows, faults>> /\ Done

\* UpdateFile is INSERT OR REPLACE: the tags of the row go with the replaced row.
NoteRowUpdated ==
    /\ At("notename")
    /\ nrows' = IF Step.id \in DOMAIN nrows
                THEN [nrows EXCEPT ![Step.id].name = Step.name, ![Step.id].tagged = FALSE]
                ELSE nrows
    /\ UNCHANGED <<disk, cache, frows, faults>> /\ Done

NoteRowMoved ==
    /\ At("movenote")
    /\ nrows' = IF Step.id \in DOMAIN nrows /\ Step.folder \in DOMAIN frows
                THEN [nrows EXCEPT ![Step.id].folder = Step.folder] ELSE nrows
    /\ UNCHANGED <<disk, cache, frows, faults>> /\ Done

NoteRowTagged ==
    /\ At("tagnote")
    /\ nrows' = IF Step.id \in DOMAIN nrows
                THEN [nrows EXCEPT ![Step.id].tagged = Step.tagged] ELSE nrows
    /\ UNCHANGED <<disk, cache, frows, faults>> /\ Done

NoteRowDropped ==
    /\ At("dropnote")
    /\ nrows' = Without(nrows, {Step.id})
    /\ UNCHANGED <<disk, cache, frows, faults>> /\ Done

-----------------------------------------------------------------------------
(* The process *)

\* What is in memory goes; the store is loaded lazily by the next process.
Restarted == cache' = <<>> /\ unsettled' = {} /\ call' = Idle

Crash(remains) ==
    /\ Running /\ Fault
    /\ remains = "torn" => At("save")
    /\ conf' = IF remains = "torn" THEN With(conf, Step.at, TornConfig) ELSE conf
    /\ unsynced' = (unsynced \/ Unrepaired)
    /\ Restarted
    /\ UNCHANGED <<dirs, notes, store, texts, known, next, calls>>

Quit ==
    /\ ~Running /\ Restarted
    /\ UNCHANGED <<disk, store, texts, known, unsynced, next, bounds>>

\* NotebookManager::CloseNotebook deletes the metadata store's file.
CloseNotebook ==
    /\ ~Running /\ Restarted
    /\ frows' = <<>> /\ nrows' = <<>> /\ unsynced' = FALSE
    /\ UNCHANGED <<disk, texts, known, next, bounds>>

-----------------------------------------------------------------------------
Init ==
    /\ dirs = StartFolders
    /\ notes = [n \in StartNotes |-> StartId[n]]
    /\ conf = [p \in StartFolders |->
            [id |-> StartId[p],
             folders |-> {Last(q): q \in {r \in StartFolders \ {Root}: Front(r) = p}},
             files |-> [f \in {g \in Files: Append(p, g) \in StartNotes}
                           |-> NewRecord(StartId[Append(p, f)])],
             ahead |-> FALSE]]
    /\ cache = <<>> /\ frows = <<>> /\ nrows = <<>>
    /\ call = Idle
    /\ known = Range(StartId) /\ texts = Range(notes)
    /\ unsettled = {} /\ unsynced = FALSE
    /\ next = Cardinality(DOMAIN StartId) + 1
    /\ calls = 0 /\ faults = 0

FolderCall ==
    \/ \E p \in Shown, n \in Names:
          \/ CreateFolder(p, n)
          \/ p # Root /\ RenameFolder(p, n)
          \/ IndexFolder(p, n)
          \/ \E f \in Files, s \in Names \cup {None}: ImportFolder(p, n, f, s)
    \/ \E p \in Listed \ {Root}: DeleteFolder(p) \/ UnindexFolder(p)
    \/ \E p \in Shown: UpdateFolderMetadata(p) \/ SetChildrenOrder(p)
    \/ \E p \in Shown \ {Root}, d \in Shown: MoveFolder(p, d) \/ \E n \in Names: CopyFolder(p, d, n)

NoteCall ==
    \E p \in Shown, f \in Files:
        \/ CreateFile(p, f) \/ DeleteFile(p, f) \/ ImportFile(p, f)
        \/ IndexFile(p, f) \/ UnindexFile(p, f) \/ UpdateFileMetadata(p, f)
        \/ \E tagged \in BOOLEAN: Tagging(p, f, tagged)
        \/ \E g \in Files: RenameFile(p, f, g)
        \/ \E d \in Shown: MoveFile(p, f, d)
        \/ \E d \in Shown, g \in Files: CopyFile(p, f, d, g)

DiskStep ==
    \/ Grown \/ Moved \/ MoveFails \/ Deleted \/ DeleteFails
    \/ \E partly \in BOOLEAN: GrowFails(partly)
    \/ Saved \/ \E remains \in WriteRemains: SaveFails(remains)
    \/ ConfigMoved \/ ConfigsMoved \/ ConfigsCopied \/ ConfigsDropped \/ ConfigStepFails

MemoryStep == Remembered \/ Forgotten \/ Returned

RowStep ==
    \/ FolderRowPut \/ FolderRowUpdated \/ FolderRowMoved \/ FolderRowDropped
    \/ NoteRowsPut \/ NoteRowUpdated \/ NoteRowMoved \/ NoteRowTagged \/ NoteRowDropped

Next ==
    \/ FolderCall \/ NoteCall \/ DiskStep \/ MemoryStep \/ RowStep
    \/ \E p \in Listed: OpenFolder(p)
    \/ RebuildCache \/ Quit \/ CloseNotebook
    \/ \E remains \in WriteRemains: Crash(remains)

Spec == Init /\ [][Next]_vars

-----------------------------------------------------------------------------
(* Properties *)

IsConfig(c) ==
    /\ DOMAIN c = {"id", "folders", "files", "ahead"}
    /\ c.id \in Ids \cup {None} /\ c.folders \subseteq Names /\ c.ahead \in BOOLEAN
    /\ DOMAIN c.files \subseteq Files /\ Range(c.files) \subseteq [id: Ids, tagged: BOOLEAN]

\* Types: configs are where their paths say, rows refer to ids (the schema of
\* db_schema.h and FolderConfig).
TypeOK ==
    /\ dirs \subseteq Paths /\ Root \in dirs
    /\ DOMAIN notes \subseteq NotePaths /\ Range(notes) \subseteq Ids
    /\ DOMAIN conf \subseteq Paths /\ \A p \in DOMAIN conf: IsConfig(conf[p])
    /\ DOMAIN cache \subseteq Paths /\ \A p \in DOMAIN cache: IsConfig(cache[p])
    /\ DOMAIN frows \subseteq Ids
    /\ Range(frows) \subseteq [parent: Ids \cup {None}, name: Names \cup {RootName}]
    /\ DOMAIN nrows \subseteq Ids
    /\ Range(nrows) \subseteq [folder: Ids, name: Files, tagged: BOOLEAN]
    /\ call.about \subseteq Paths /\ call.gain \subseteq Ids
    /\ known \subseteq Ids /\ texts \subseteq Ids
    /\ unsettled \subseteq Paths /\ unsynced \in BOOLEAN
    /\ next \in 1 .. MaxId + 1 /\ calls \in 0 .. MaxCalls
    /\ faults \in 0 .. MaxFaults

\* Only a call to delete a note, or a folder it is in, takes its text from the
\* disk: no failed, undone or interrupted call does (bundled_folder_manager.cpp:
\* the renames, copies and rollbacks of the handlers).
NothingLost == texts \subseteq Range(notes)

\* The nodes that the vx.json files on disk lead to, and their ids.
IndexedFolders == {<<p, conf[p].id>>: p \in Indexed}
IndexedNotes == UNION {{<<Append(p, f), conf[p].files[f].id>>: f \in DOMAIN conf[p].files}: p \in Indexed}

\* Between calls no two indexed nodes have one id, whatever copies and interrupted calls left
\* behind: the rows of the metadata store are keyed by id, and a copy that keeps
\* ids makes two notes share a row (ProcessCopiedFolderTree regenerates them).
UniqueIds ==
    ~Running => \A x, y \in IndexedFolders \cup IndexedNotes: x[2] = y[2] => x = y

\* A node that a call reported stays, under its id and with its content, in what
\* the next process will read, through failures and crashes of the calls that
\* are about other nodes (SaveFolderConfig rewrites a parent's whole vx.json).
KnownNodesStay ==
    \A i \in known:
        \/ \E x \in IndexedFolders: x[2] = i /\ x[1] \in dirs
        \/ \E x \in IndexedNotes: x[2] = i /\ x[1] \in DOMAIN notes

\* Between calls, what is cached for a folder the user is shown is what its
\* vx.json says, unless a call on that folder failed: no cached config of a
\* folder that was at that path before is ever found there (InvalidateCache).
CacheIsCurrent ==
    ~Running => \A p \in Shown \ unsettled: p \in DOMAIN conf /\ cache[p] = conf[p]

NotesOfRow(i) == {<<j, nrows[j].name>>: j \in {k \in DOMAIN nrows: nrows[k].folder = i}}
NotesOfConfig(c) == {<<c.files[f].id, f>>: f \in DOMAIN c.files}

\* Between calls, the rows of a shown folder are what its cached config says: "Once
\* it is in cache, we assume that it is up-to-date in store" (GetFolderConfig).  Calls
\* on the folder that failed are left out, and rows that a call did not get to and
\* that no lazy sync repairs, until they are rebuilt.
RowsFollowCache ==
    ~Running /\ ~unsynced =>
        \A p \in Shown \ unsettled:
            /\ cache[p].id \in DOMAIN frows
            /\ frows[cache[p].id] = [parent |-> ParentIdIn(cache, p), name |-> NameOf(p)]
            /\ NotesOfRow(cache[p].id) = NotesOfConfig(cache[p])

\* While nothing has failed or crashed, the store has no row of a node that the
\* vx.json files do not lead to, between calls: tag and search queries, which read
\* rows, find no note that was deleted, moved away or replaced.
NoRowOutlivesItsNode ==
    ~Running /\ faults = 0 =>
        DOMAIN frows \cup DOMAIN nrows \subseteq {x[2]: x \in IndexedFolders \cup IndexedNotes}

\* Between calls, the tags in the store are those in the configs: every mutation
\* writes "the same change" to the store, which answers the tag queries
\* (docs/bundled-notebook.md, "Write-Through Pattern").
TagsFollowCache ==
    ~Running =>
        \A p \in Shown: \A f \in DOMAIN cache[p].files:
            cache[p].files[f].id \in DOMAIN nrows =>
                nrows[cache[p].files[f].id].tagged = cache[p].files[f].tagged

\* Between calls, every folder that a vx.json lists has a vx.json itself: "Each
\* child has its own vx.json" (docs/bundled-notebook.md).
ListedFoldersHaveConfigs ==
    ~Running => \A p \in Indexed, n \in Names: n \in conf[p].folders => Append(p, n) \in DOMAIN conf

==============================================================================
