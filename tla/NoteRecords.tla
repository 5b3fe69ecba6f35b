------------------------------ MODULE NoteRecords ------------------------------
(***************************************************************************)
(* Tags and attachments of the notes of a bundled notebook.                *)
(*                                                                         *)
(* The notebook's config.json defines a tree of tags; a note's record, in  *)
(* the vx.json of its folder, lists tags and attachments; the attachments  *)
(* are files in the note's directory of assets.  The program keeps the     *)
(* configs it has read in memory.  The metadata store repeats the tags for *)
(* queries: the tree is brought up to date when the notebook is opened,    *)
(* the rows of a folder when the folder is read for the first time, and    *)
(* every operation writes its change through.                              *)
(*                                                                         *)
(* An operation is an operator from a state to the state it leaves.  It    *)
(* writes files and rows one by one; one write of a call may fail, or the  *)
(* program may stop before it.  A file outside every notebook has          *)
(* attachments too, without a record: they are what its directory holds.   *)
(***************************************************************************)
EXTENDS Integers, FiniteSets, SequencesExt, Functions, TLC

CONSTANTS
    Notes, Outsider,   \* the notes, and a file outside the notebook
    Root, Sub,         \* the folders
    Place,             \* the folder of each note at first
    TagNames, FileNames,
    Repeats,           \* may a list of tags given by the consumer name a tag twice?
    MovesAttached,     \* are notes with attachments moved?
    MaxCalls, MaxOpens, MaxFaults, None

ASSUME ConstantsAssumption ==
    /\ {MaxCalls, MaxOpens, MaxFaults} \subseteq Nat
    /\ {Repeats, MovesAttached} \subseteq BOOLEAN
    /\ Root # Sub /\ Place \in [Notes -> {Root, Sub}] /\ Outsider \notin Notes /\ None \notin TagNames \cup Nat

Folders == {Root, Sub}
MaxWrites == 7    \* the writes of the longest call
TagLists == {l \in BoundedSeq(TagNames, 2): Repeats \/ IsInjective(l)}
Names == {<<x>>: x \in FileNames}    \* the name a file is given; a number is added to make it unique

VARIABLES
    open, readOnly,
    config,      \* config_: the tree of tags, by parent, and when it was changed
    configFile,  \* config.json
    cache,       \* config_cache_: the records of the notes of each folder that was read
    files,       \* vx.json of each folder
    tree,        \* the table tags
    synced,      \* tags_synced_utc
    dirs,        \* dirs[f]: modified_utc of the row of folder f
    rows,        \* rows[n]: the row of note n and its tags in file_tags
    assets,      \* the files in the directories of assets, by folder, note and name
    bin,         \* recycle_bin
    rewritten,   \* notes whose row was replaced since their tags were written to it
    kept,        \* files that calls that succeeded put into the assets, and none deleted for good
    calls, opens, failures, crashes

inMemory == <<config, cache>>
onDisk == <<configFile, files, assets, bin>>
store == <<tree, synced, dirs, rows>>
history == <<rewritten, kept>>
counters == <<calls, opens, failures, crashes>>
vars == <<open, readOnly, inMemory, onDisk, store, history, counters>>

now == calls + opens + 1

\* The state as operations take it.  The write number fault.at fails, or does not
\* happen because the program stopped.  ok: was the last write, or call, a success?
Now(fault) ==
    [config |-> config, configFile |-> configFile, cache |-> cache, files |-> files,
     tree |-> tree, synced |-> synced, dirs |-> dirs, rows |-> rows, assets |-> assets, bin |-> bin,
     rewritten |-> rewritten, kept |-> kept,
     at |-> fault.at, kind |-> fault.kind, dead |-> FALSE, ok |-> TRUE]

Failed(s) == [s EXCEPT !.ok = FALSE]
Succeeded(s) == [s EXCEPT !.ok = ~s.dead]

\* What Op makes of state s; TLC evaluates s once.
After(s, Op(_)) == CHOOSE r \in {Op(t): t \in {s}}: TRUE

\* What Op makes of state s when the write that led to s was a success.
Then(s, Op(_)) == After(s, LAMBDA t: IF t.ok THEN Op(t) ELSE t)

Write(s, Op(_)) ==
    CASE s.dead -> s
      [] s.at = 1 /\ s.kind # "bin" -> [s EXCEPT !.at = 0, !.ok = FALSE, !.dead = (s.kind = "crash")]
      [] OTHER -> [Op(s) EXCEPT !.ok = TRUE, !.at = IF @ = 0 \/ s.kind = "bin" THEN @ ELSE @ - 1]

-----------------------------------------------------------------------------
(* Rows of the metadata store *)

WithTags(tags, S) == [t \in S \ DOMAIN tags |-> None] @@ tags    \* GetOrCreateTag

\* The tags come one at a time; the first that is there already ends the loop.
TagsWritten(list) ==
    LET repeated == {i \in DOMAIN list: \E j \in 1 .. i - 1: list[j] = list[i]}
    IN {list[i]: i \in {j \in DOMAIN list: \A k \in repeated: j < k}}

SetFileTags(s, n, list) ==
    Write(s, LAMBDA t:
        IF t.rows[n] = None THEN t
        ELSE [t EXCEPT !.rows[n].tags = TagsWritten(list), !.tree = WithTags(@, TagsWritten(list)),
                       !.rewritten = @ \ {n}])

AddTagToFile(s, n, tag) ==
    Write(s, LAMBDA t: IF t.rows[n] = None THEN t
                       ELSE [t EXCEPT !.rows[n].tags = @ \cup {tag}, !.tree = WithTags(@, {tag})])

RemoveTagFromFile(s, n, tag) ==
    Write(s, LAMBDA t: IF t.rows[n] = None THEN t ELSE [t EXCEPT !.rows[n].tags = @ \ {tag}])

\* INSERT OR REPLACE: the tags of the row that is replaced go by cascade.
ReplacedRow(s, n, f, time) ==
    [s EXCEPT !.rows[n] = [folder |-> f, time |-> time, tags |-> {}], !.rewritten = @ \cup {n}]

UpdateFile(s, n, time) ==
    Write(s, LAMBDA t: IF t.rows[n] = None \/ t.rows[n].time = time THEN t
                       ELSE ReplacedRow(t, n, t.rows[n].folder, time))

CreateFile(s, n, f) ==
    LET record == s.cache[f].notes[n]
        created == Write(s, LAMBDA t: IF t.dirs[f] = None THEN t ELSE ReplacedRow(t, n, f, record.time))
    IN Then(created, LAMBDA t: SetFileTags(t, n, record.tags))

MoveRow(s, n, f) ==
    Write(s, LAMBDA t: IF t.rows[n] = None THEN t
                       ELSE [t EXCEPT !.rows[n].folder = f, !.rows[n].time = now])

SyncFilesToStore(s, f) ==
    LET listed == {n \in Notes: s.rows[n] # None /\ s.rows[n].folder = f}
        notes == DOMAIN s.cache[f].notes
        Dropped(t, n) == Write(t, LAMBDA u: [u EXCEPT !.rows[n] = None, !.rewritten = @ \ {n}])
        Entered(t, n) ==
            IF n \in listed
            THEN SetFileTags(UpdateFile(t, n, t.cache[f].notes[n].time), n, t.cache[f].notes[n].tags)
            ELSE CreateFile(t, n, f)
    IN FoldLeft(Entered, FoldLeft(Dropped, s, SetToSeq(listed \ notes)), SetToSeq(notes))

-----------------------------------------------------------------------------
(* Reading folders *)

SyncFolderToStore(s, f) ==
    IF s.dirs[f] # None /\ s.cache[f].time <= s.dirs[f] THEN s
    ELSE Then(Write(s, LAMBDA t: [t EXCEPT !.dirs[f] = t.cache[f].time]),
              LAMBDA t: SyncFilesToStore(t, f))

Loaded(s, f) == [s EXCEPT !.cache[f] = s.files[f]]

\* A folder whose rows were behind has its subfolders read as well.
GetRoot(s) ==
    IF s.cache[Root] # None THEN s
    ELSE After(SyncFolderToStore(Loaded(s, Root), Root), LAMBDA t:
             IF t.dirs[Root] = s.dirs[Root] \/ t.cache[Sub] # None THEN t
             ELSE SyncFolderToStore(Loaded(t, Sub), Sub))

GetFolderConfig(s, f) ==
    CASE s.cache[f] # None -> s
      [] f = Root -> GetRoot(s)
      [] OTHER -> After(GetRoot(Loaded(s, f)), LAMBDA t: SyncFolderToStore(t, f))

\* What Op makes of the state once folder f is read and holds note n.
WithNote(s, f, n, Op(_)) ==
    After(GetFolderConfig(s, f), LAMBDA t: IF n \in DOMAIN t.cache[f].notes THEN Op(t) ELSE Failed(t))

SaveFolderConfig(s, f) == Write(s, LAMBDA t: [t EXCEPT !.files[f] = t.cache[f]])

\* The record of note n is changed and the folder saved.
Recorded(s, f, n, tags, attachments) ==
    SaveFolderConfig(
        [s EXCEPT !.cache[f] = [time |-> now,
            notes |-> [@.notes EXCEPT ![n] = [time |-> now, tags |-> tags, attachments |-> attachments]]]],
        f)

TagsOf(s, f, n) == s.cache[f].notes[n].tags
AttachmentsOf(s, f, n) == s.cache[f].notes[n].attachments

-----------------------------------------------------------------------------
(* Tags of notes *)

UpdateFileTags(s, f, n, list) ==
    WithNote(s, f, n, LAMBDA t:
        IF ~ToSet(list) \subseteq DOMAIN t.config.tags THEN Failed(t)
        ELSE Then(Recorded(t, f, n, list, AttachmentsOf(t, f, n)), LAMBDA u: SetFileTags(u, n, list)))

TagFile(s, f, n, tag) ==
    WithNote(s, f, n, LAMBDA t:
        IF tag \notin DOMAIN t.config.tags \/ tag \in ToSet(TagsOf(t, f, n)) THEN Failed(t)
        ELSE Then(Recorded(t, f, n, Append(TagsOf(t, f, n), tag), AttachmentsOf(t, f, n)),
                  LAMBDA u: AddTagToFile(u, n, tag)))

\* mutant: the row keeps the tag.
UntagRecord(s, f, n, tag) ==
    WithNote(s, f, n, LAMBDA t:
        IF tag \notin ToSet(TagsOf(t, f, n)) THEN Failed(t)
        ELSE Recorded(t, f, n, RemoveFirst(TagsOf(t, f, n), tag), AttachmentsOf(t, f, n)))

UntagFile(s, f, n, tag) ==
    WithNote(s, f, n, LAMBDA t:
        IF tag \notin ToSet(TagsOf(t, f, n)) THEN Failed(t)
        ELSE Then(Recorded(t, f, n, RemoveFirst(TagsOf(t, f, n), tag), AttachmentsOf(t, f, n)),
                  LAMBDA u: RemoveTagFromFile(u, n, tag)))

\* The record gets a new time and its row is written anew.
UpdateFileMetadata(s, f, n) ==
    WithNote(s, f, n, LAMBDA t:
        Then(Recorded(t, f, n, TagsOf(t, f, n), AttachmentsOf(t, f, n)), LAMBDA u: UpdateFile(u, n, now)))

RenameFile(s, f, n) ==
    WithNote(s, f, n, LAMBDA t: Then(Write(t, LAMBDA u: u), LAMBDA u: UpdateFileMetadata(u, f, n)))

UpdateFolderMetadata(s, f) ==
    After(GetFolderConfig(s, f), LAMBDA t:
        Then(SaveFolderConfig([t EXCEPT !.cache[f].time = now], f), LAMBDA u:
            Write(u, LAMBDA v: IF v.dirs[f] = None THEN v ELSE [v EXCEPT !.dirs[f] = now])))

\* Assets that cannot be moved are left behind.
MoveAssets(s, f, g, n) ==
    Write(s, LAMBDA t:
        [t EXCEPT !.assets = [a \in {IF b[1] = f /\ b[2] = n THEN <<g, n, b[3]>> ELSE b: b \in DOMAIN @} |->
            IF a[1] = g /\ a[2] = n /\ <<f, n, a[3]>> \in DOMAIN @ THEN @[<<f, n, a[3]>>] ELSE @[a]]])

MoveFile(s, f, g, n) ==
    WithNote(s, f, n, LAMBDA t: After(GetFolderConfig(t, g), LAMBDA u:
        Then(Write(u, LAMBDA v: v), LAMBDA v:
            LET record == [u.cache[f].notes[n] EXCEPT !.time = now]
                left == [time |-> now, notes |-> Restrict(u.cache[f].notes, DOMAIN u.cache[f].notes \ {n})]
                joined == [time |-> now, notes |-> (n :> record) @@ u.cache[g].notes]
            IN Then(SaveFolderConfig([MoveAssets(v, f, g, n) EXCEPT !.cache[f] = left], f), LAMBDA w:
                   Then(SaveFolderConfig([w EXCEPT !.cache[g] = joined], g), LAMBDA x: MoveRow(x, n, g))))))

-----------------------------------------------------------------------------
(* The tree of tags *)

\* UpdateConfig writes what is in memory.
UpdateConfig(s) == Write(s, LAMBDA t: [t EXCEPT !.configFile = t.config])

Ancestors(tags, tag) ==
    LET up[k \in 0 .. Cardinality(TagNames)] ==
            IF k = 0 THEN {tag}
            ELSE LET below == up[k - 1]
                 IN below \cup {tags[t]: t \in below \cap DOMAIN tags}
    IN up[Cardinality(TagNames)] \ {None}
Subtree(tags, tag) == {t \in DOMAIN tags: tag \in Ancestors(tags, t)}
Rooted(tags) == {t \in DOMAIN tags: \E r \in Ancestors(tags, t): r \in DOMAIN tags /\ tags[r] = None}

CreateTag(s, tag, parent) ==
    IF tag \in DOMAIN s.config.tags \/ parent \notin DOMAIN s.config.tags \cup {None} THEN Failed(s)
    ELSE UpdateConfig([s EXCEPT !.config = [tags |-> (tag :> parent) @@ @.tags, modified |-> now]])

\* A tag of the path that exists is passed, wherever it is in the tree.
CreateTagPath(s, path) ==
    FoldLeftDomain(LAMBDA t, i:
        IF path[i] \in DOMAIN t.config.tags \/ ~t.ok THEN t
        ELSE CreateTag(t, path[i], IF i = 1 THEN None ELSE path[i - 1]), s, path)

\* Each deleted tag is erased once from the list of every note that has it.
WithoutTags(list, gone) == FoldLeft(LAMBDA l, tag: RemoveFirst(l, tag), list, SetToSeq(gone))

\* mutant: the config is written before the notes are cleaned.
DeleteTagFirst(s, tag) ==
    LET gone == Subtree(s.config.tags, tag)
        Cleaned(t, f) ==
            After(GetFolderConfig(t, f), LAMBDA u:
                FoldLeft(LAMBDA v, n:
                             IF ToSet(TagsOf(v, f, n)) \cap gone = {} THEN v
                             ELSE UpdateFileTags(v, f, n, WithoutTags(TagsOf(v, f, n), gone)),
                         u, SetToSeq(DOMAIN u.cache[f].notes)))
        Erased(t) == [t EXCEPT !.config = [tags |-> Restrict(@.tags, DOMAIN @.tags \ gone),
                                           modified |-> now]]
    IN IF tag \notin DOMAIN s.config.tags THEN Failed(s)
       ELSE Cleaned(Cleaned(UpdateConfig(Erased(s)), Root), Sub)

DeleteTag(s, tag) ==
    LET gone == Subtree(s.config.tags, tag)
        Cleaned(t, f) ==
            After(GetFolderConfig(t, f), LAMBDA u:
                FoldLeft(LAMBDA v, n:
                             IF ToSet(TagsOf(v, f, n)) \cap gone = {} THEN v
                             ELSE UpdateFileTags(v, f, n, WithoutTags(TagsOf(v, f, n), gone)),
                         u, SetToSeq(DOMAIN u.cache[f].notes)))
        Erased(t) == [t EXCEPT !.config = [tags |-> Restrict(@.tags, DOMAIN @.tags \ gone),
                                           modified |-> now]]
    IN IF tag \notin DOMAIN s.config.tags THEN Failed(s)
       ELSE UpdateConfig(Erased(Cleaned(Cleaned(s, Root), Sub)))

\* mutant: the time of the change is not kept.
MoveTagUntimed(s, tag, parent) ==
    IF \/ tag \notin DOMAIN s.config.tags
       \/ parent \notin DOMAIN s.config.tags \cup {None}
       \/ parent # None /\ tag \in Ancestors(s.config.tags, parent)
    THEN Failed(s)
    ELSE UpdateConfig([s EXCEPT !.config.tags = [@ EXCEPT ![tag] = parent]])

MoveTag(s, tag, parent) ==
    IF \/ tag \notin DOMAIN s.config.tags
       \/ parent \notin DOMAIN s.config.tags \cup {None}
       \/ parent # None /\ tag \in Ancestors(s.config.tags, parent)
    THEN Failed(s)
    ELSE UpdateConfig([s EXCEPT !.config = [tags |-> [@.tags EXCEPT ![tag] = parent], modified |-> now]])

\* The tree changes in one transaction; tags that hang from no root are deleted again.
\* It runs before a notebook is made read-only.
SyncTagsToMetadataStore(s) ==
    LET c == s.config
        time == IF c.modified > 0 THEN c.modified ELSE now
        current == Restrict(c.tags, Rooted(c.tags))
        Written(t) == [t EXCEPT !.tree = current,
                                !.rows = [n \in Notes |-> IF @[n] = None THEN None
                                             ELSE [@[n] EXCEPT !.tags = @ \cap DOMAIN current]]]
    IN IF 0 < c.modified /\ c.modified <= s.synced THEN s
       ELSE Then(Write(s, Written), LAMBDA t:
                After(Write(t, LAMBDA u: [u EXCEPT !.synced = time]), LAMBDA u:
                    IF c.modified = 0 /\ c.tags # << >>
                    THEN UpdateConfig([u EXCEPT !.config.modified = time]) ELSE u))

-----------------------------------------------------------------------------
(* Queries *)

FindFilesByTagsAnd(S) == {n \in Notes: rows[n] # None /\ S # {} /\ S \subseteq rows[n].tags}
FindFilesByTagsOr(S) == {n \in Notes: rows[n] # None /\ S \cap rows[n].tags # {}}
FindFilesByTags(S, all) == IF all THEN FindFilesByTagsAnd(S) ELSE FindFilesByTagsOr(S)

CountFilesByTag == [t \in DOMAIN tree |-> Cardinality({n \in Notes: rows[n] # None /\ t \in rows[n].tags})]

-----------------------------------------------------------------------------
(* Files in the assets.  A file is named by the folder and the note of its    *)
(* directory and a name; the record of an attachment is such a path.          *)

NamesIn(s, f, n) == {a[3]: a \in {b \in DOMAIN s.assets: b[1] = f /\ b[2] = n}}

\* The name itself, or the name with the first number that is free.
Unique(taken, name) ==
    IF name \notin taken THEN name
    ELSE Append(name, CHOOSE i \in 1 .. Cardinality(taken) + 1:
                          /\ Append(name, i) \notin taken
                          /\ \A j \in 1 .. i - 1: Append(name, j) \in taken)

TakenPath(s, f, n, name) == <<f, n, name>>  \* mutant: no number is added

AssetPath(s, f, n, name) == <<f, n, Unique(NamesIn(s, f, n), name)>>

Copied(s, path) == Write(s, LAMBDA t: [t EXCEPT !.assets = (path :> now) @@ @])
Without(s, path) == [s EXCEPT !.assets = Restrict(@, DOMAIN @ \ {path})]
Kept(s) == [s EXCEPT !.kept = @ \cup {now}]

InsertAsset(s, f, n, name) == Then(Copied(s, AssetPath(s, f, n, name)), Kept)

\* The file is created, and then its bytes are written.
InsertAssetRaw(s, f, n, name) ==
    LET path == AssetPath(s, f, n, name)
    IN Then(Write(s, LAMBDA t: [t EXCEPT !.assets = (path :> 0) @@ @]), LAMBDA t:
           Then(Write(t, LAMBDA u: [u EXCEPT !.assets[path] = now]), Kept))

\* The bin may be out of order; a single move may fail as well.
MoveToRecycleBin(s, path) ==
    IF path \notin DOMAIN s.assets THEN Failed(s)
    ELSE IF s.kind = "bin" THEN [s EXCEPT !.ok = FALSE, !.at = 0]
    ELSE Write(s, LAMBDA t: Without([t EXCEPT !.bin = (Unique(DOMAIN @, path[3]) :> t.assets[path]) @@ @], path))

Removed(s, path) ==
    Write(s, LAMBDA t: Without([t EXCEPT !.kept = @ \ {t.assets[path]}], path))

DeleteAsset(s, path) ==
    IF path \notin DOMAIN s.assets THEN Failed(s)
    ELSE After(MoveToRecycleBin(s, path), LAMBDA t: IF t.ok THEN t ELSE Removed(t, path))

-----------------------------------------------------------------------------
(* Attachments *)

UpdateFileAttachments(s, f, n, list) ==
    WithNote(s, f, n, LAMBDA t: Recorded(t, f, n, TagsOf(t, f, n), list))

AddFileAttachment(s, f, n, path) ==
    WithNote(s, f, n, LAMBDA t:
        IF path \in ToSet(AttachmentsOf(t, f, n)) THEN Succeeded(t)
        ELSE Recorded(t, f, n, TagsOf(t, f, n), Append(AttachmentsOf(t, f, n), path)))

DeleteFileAttachment(s, f, n, path) ==
    WithNote(s, f, n, LAMBDA t:
        IF path \notin ToSet(AttachmentsOf(t, f, n)) THEN Succeeded(t)
        ELSE Recorded(t, f, n, TagsOf(t, f, n), RemoveFirst(AttachmentsOf(t, f, n), path)))

\* A file that cannot be recorded is removed again.
InsertAttachment(s, f, n, name) ==
    LET path == AssetPath(s, f, n, name)
    IN Then(Copied(s, path), LAMBDA t:
           After(AddFileAttachment(t, f, n, path), LAMBDA u:
               IF u.ok THEN Kept(u) ELSE Failed(Write(u, LAMBDA v: Without(v, path)))))

\* The record first, whatever becomes of it; then the file.
DeleteAttachment(s, f, n, name) ==
    After(DeleteFileAttachment(s, f, n, <<f, n, name>>), LAMBDA t:
        After(MoveToRecycleBin(t, <<f, n, name>>), LAMBDA u:
            IF u.ok THEN u ELSE DeleteAsset(u, <<f, n, name>>)))

Renamed(s, old, new) == Write(s, LAMBDA t: Without([t EXCEPT !.assets = (new :> @[old]) @@ @], old))

\* mutant: the name that was asked for is recorded.
RenameAsAsked(s, f, n, name, other) ==
    LET old == <<f, n, name>>
        new == AssetPath(s, f, n, other)
    IN IF old \notin DOMAIN s.assets THEN Failed(s)
       ELSE Then(Renamed(s, old, new), LAMBDA t:
                After(DeleteFileAttachment(t, f, n, old), LAMBDA u:
                    Succeeded(AddFileAttachment(u, f, n, <<f, n, other>>))))

RenameAttachment(s, f, n, name, other) ==
    LET old == <<f, n, name>>
        new == AssetPath(s, f, n, other)
    IN IF old \notin DOMAIN s.assets THEN Failed(s)
       ELSE Then(Renamed(s, old, new), LAMBDA t:
                After(DeleteFileAttachment(t, f, n, old), LAMBDA u:
                    Succeeded(AddFileAttachment(u, f, n, new))))

ListAttachments(f, n) == {p[3]: p \in ToSet(cache[f].notes[n].attachments)}

\* A file outside of the notebooks: its assets are a directory beside it.
OutsideInsert(s, name) == InsertAsset(s, None, Outsider, name)
OutsideDelete(s, name) == Removed(s, <<None, Outsider, name>>)
OutsideRename(s, name, other) ==
    Renamed(s, <<None, Outsider, name>>, AssetPath(s, None, Outsider, other))
OutsideList == {a[3]: a \in {b \in DOMAIN assets: b[2] = Outsider}}

EmptyRecycleBin(s) == Write(s, LAMBDA t: [t EXCEPT !.kept = @ \ Range(t.bin), !.bin = << >>])

RebuildDatabase(s) ==
    [s EXCEPT !.tree = << >>, !.synced = 0, !.dirs = [f \in Folders |-> None],
              !.rows = [n \in Notes |-> None], !.rewritten = {}]

\* All tables are dropped; the rows come back, the tree of tags does not.
RebuildCache(s) ==
    LET Read(t) == [t EXCEPT !.cache = [f \in Folders |-> IF @[f] = None THEN t.files[f] ELSE @[f]]]
        Row(t, f, n) == [folder |-> f, time |-> t.cache[f].notes[n].time,
                         tags |-> TagsWritten(TagsOf(t, f, n))]
        Filled(t) ==
            [t EXCEPT !.dirs = [f \in Folders |-> t.cache[f].time],
                      !.rows = [n \in Notes |->
                          IF n \in DOMAIN t.cache[Root].notes THEN Row(t, Root, n)
                          ELSE IF n \in DOMAIN t.cache[Sub].notes THEN Row(t, Sub, n) ELSE None],
                      !.tree = WithTags(@, UNION {TagsWritten(TagsOf(t, f, n)):
                          <<f, n>> \in {x \in Folders \X Notes: x[2] \in DOMAIN t.cache[x[1]].notes}})]
    IN Then(Write(s, RebuildDatabase), LAMBDA t: Write(Read(t), Filled))

-----------------------------------------------------------------------------
(* Steps of the program *)

Faults ==
    {[at |-> 0, kind |-> "none"]}
    \cup (IF failures + crashes < MaxFaults
          THEN {[at |-> 1, kind |-> "bin"]} \cup [at: 1 .. MaxWrites, kind: {"failure", "crash"}] ELSE {})

\* The state s is what the call left.  A program that stopped has no memory.
Becomes(s, fault) ==
    /\ s.at = 0
    /\ config' = IF s.dead THEN None ELSE s.config
    /\ cache' = IF s.dead THEN [f \in Folders |-> None] ELSE s.cache
    /\ configFile' = s.configFile /\ files' = s.files
    /\ tree' = s.tree /\ synced' = s.synced /\ dirs' = s.dirs /\ rows' = s.rows
    /\ assets' = s.assets /\ bin' = s.bin
    /\ rewritten' = s.rewritten /\ kept' = s.kept
    /\ failures' = IF fault.kind \in {"failure", "bin"} THEN failures + 1 ELSE failures
    /\ crashes' = IF s.dead THEN crashes + 1 ELSE crashes

LoadConfig(s) == [s EXCEPT !.config = s.configFile]

Open ==
    /\ ~open /\ opens < MaxOpens
    /\ opens' = opens + 1 /\ calls' = calls
    /\ \E fault \in Faults:
         \E s \in {SyncTagsToMetadataStore(LoadConfig(Now(fault)))}:
           /\ Becomes(s, fault)
           /\ open' = ~s.dead
           /\ readOnly' \in (IF s.dead THEN {FALSE} ELSE BOOLEAN)

Exit ==
    /\ open
    /\ open' = FALSE /\ readOnly' = FALSE
    /\ config' = None /\ cache' = [f \in Folders |-> None]
    /\ UNCHANGED <<onDisk, store, history, counters>>

\* The database of a notebook that is closed is deleted.
Close ==
    /\ open
    /\ open' = FALSE /\ readOnly' = FALSE
    /\ config' = None /\ cache' = [f \in Folders |-> None]
    /\ tree' = << >> /\ synced' = 0 /\ rewritten' = {}
    /\ dirs' = [f \in Folders |-> None] /\ rows' = [n \in Notes |-> None]
    /\ UNCHANGED <<onDisk, kept, counters>>

\* A call of the consumer.
Call(Op(_)) ==
    /\ calls' = calls + 1 /\ opens' = opens
    /\ \E fault \in Faults: \E s \in {Op(Now(fault))}:
         /\ Becomes(s, fault)
         /\ open' = (open /\ ~s.dead)
         /\ readOnly' = (readOnly /\ ~s.dead)

MayCall == calls + failures + crashes < MaxCalls    \* a fault takes the place of a call
Reads == open /\ MayCall
Writes == Reads /\ ~readOnly

Has(f, n) == n \in DOMAIN (IF cache[f] # None THEN cache[f].notes ELSE files[f].notes)
Attached(f, n) == ToSet((IF cache[f] # None THEN cache[f] ELSE files[f]).notes[n].attachments)

Browse == Reads /\ \E f \in Folders: Call(LAMBDA s: GetFolderConfig(s, f))
NotebookRebuildCache == Reads /\ Call(RebuildCache)

TagCreate ==
    Writes /\ \E tag \in TagNames, parent \in TagNames \cup {None}: Call(LAMBDA s: CreateTag(s, tag, parent))
TagCreatePath ==
    Writes /\ \E path \in BoundedSeq(TagNames, 2): path # << >> /\ Call(LAMBDA s: CreateTagPath(s, path))
TagDelete == Writes /\ \E tag \in DOMAIN config.tags: Call(LAMBDA s: DeleteTag(s, tag))
TagMove ==
    Writes /\ \E tag \in DOMAIN config.tags, parent \in TagNames \cup {None}: Call(LAMBDA s: MoveTag(s, tag, parent))

FileUpdateTags ==
    Writes /\ \E f \in Folders, n \in Notes, list \in TagLists:
        Has(f, n) /\ Call(LAMBDA s: UpdateFileTags(s, f, n, list))
FileTag ==
    Writes /\ \E f \in Folders, n \in Notes, tag \in TagNames:
        Has(f, n) /\ Call(LAMBDA s: TagFile(s, f, n, tag))
FileUntag ==
    Writes /\ \E f \in Folders, n \in Notes, tag \in TagNames:
        Has(f, n) /\ Call(LAMBDA s: UntagFile(s, f, n, tag))

FileUpdateMetadata ==
    Writes /\ \E f \in Folders, n \in Notes: Has(f, n) /\ Call(LAMBDA s: UpdateFileMetadata(s, f, n))
NodeRename ==
    Writes /\ \E f \in Folders, n \in Notes: Has(f, n) /\ Call(LAMBDA s: RenameFile(s, f, n))
FolderUpdateMetadata == Writes /\ \E f \in Folders: Call(LAMBDA s: UpdateFolderMetadata(s, f))
NodeMove ==
    Writes /\ \E f, g \in Folders, n \in Notes:
        /\ f # g /\ Has(f, n) /\ ~Has(g, n)
        /\ Attached(f, n) = {} \/ MovesAttached
        /\ Call(LAMBDA s: MoveFile(s, f, g, n))

\* The consumer attaches files of the note's own directory.
FileUpdateAttachments ==
    Writes /\ \E f \in Folders, n \in Notes: Has(f, n) /\
        \E list \in BoundedSeq({a \in DOMAIN assets: a[1] = f /\ a[2] = n}, 2):
            IsInjective(list) /\ Call(LAMBDA s: UpdateFileAttachments(s, f, n, list))
FileAddAttachment ==
    Writes /\ \E f \in Folders, n \in Notes: Has(f, n) /\
        \E path \in {a \in DOMAIN assets: a[1] = f /\ a[2] = n}:
            Call(LAMBDA s: AddFileAttachment(s, f, n, path))
FileDeleteAttachment ==
    Writes /\ \E f \in Folders, n \in Notes: Has(f, n) /\
        \E path \in Attached(f, n): Call(LAMBDA s: DeleteFileAttachment(s, f, n, path))

BufferInsertAsset ==
    Writes /\ \E f \in Folders, n \in Notes, name \in Names:
        Has(f, n) /\ Call(LAMBDA s: InsertAsset(s, f, n, name))
BufferInsertAssetRaw ==
    Writes /\ \E f \in Folders, n \in Notes, name \in Names:
        Has(f, n) /\ Call(LAMBDA s: InsertAssetRaw(s, f, n, name))
\* An image that the text does not use any more; attachments have a call of their own.
BufferDeleteAsset ==
    Writes /\ \E f \in Folders, n \in Notes: Has(f, n) /\
        \E path \in DOMAIN assets \ Attached(f, n):
            path[1] = f /\ path[2] = n /\ Call(LAMBDA s: DeleteAsset(s, path))
BufferInsertAttachment ==
    Writes /\ \E f \in Folders, n \in Notes, name \in Names:
        Has(f, n) /\ Call(LAMBDA s: InsertAttachment(s, f, n, name))
BufferDeleteAttachment ==
    Writes /\ \E f \in Folders, n \in Notes: cache[f] # None /\ Has(f, n) /\
        \E name \in ListAttachments(f, n): Call(LAMBDA s: DeleteAttachment(s, f, n, name))
BufferRenameAttachment ==
    Writes /\ \E f \in Folders, n \in Notes, other \in Names: cache[f] # None /\ Has(f, n) /\
        \E name \in ListAttachments(f, n): Call(LAMBDA s: RenameAttachment(s, f, n, name, other))

NotebookEmptyRecycleBin == Writes /\ Call(EmptyRecycleBin)

\* Buffers on files outside of the notebooks.  They share nothing with the notebook; the
\* model takes them before it is opened.
OutsideAttachment ==
    /\ opens = 0 /\ MayCall
    /\ \/ \E name \in Names: Call(LAMBDA s: OutsideInsert(s, name))
       \/ \E name \in OutsideList: Call(LAMBDA s: OutsideDelete(s, name))
       \/ \E name \in OutsideList, other \in Names: Call(LAMBDA s: OutsideRename(s, name, other))

Next ==
    \/ Open \/ Exit \/ Close \/ Browse \/ NotebookRebuildCache
    \/ TagCreate \/ TagCreatePath \/ TagDelete \/ TagMove
    \/ FileUpdateTags \/ FileTag \/ FileUntag
    \/ FileUpdateMetadata \/ NodeRename \/ FolderUpdateMetadata \/ NodeMove
    \/ FileUpdateAttachments \/ FileAddAttachment \/ FileDeleteAttachment
    \/ BufferInsertAsset \/ BufferInsertAssetRaw \/ BufferDeleteAsset
    \/ BufferInsertAttachment \/ BufferDeleteAttachment \/ BufferRenameAttachment
    \/ NotebookEmptyRecycleBin \/ OutsideAttachment

\* Any tree of tags, as any earlier version of the program left it.
Forests ==
    {t \in UNION {[S -> S \cup {None}]: S \in SUBSET TagNames}: Rooted(t) = DOMAIN t}

Init ==
    /\ open = FALSE /\ readOnly = FALSE /\ config = None
    /\ \E tags \in Forests, modified \in {0, 1}: configFile = [tags |-> tags, modified |-> modified]
    /\ cache = [f \in Folders |-> None]
    /\ \E lists \in [Notes -> {l \in TagLists: Len(l) < 2}]:
         /\ \A n \in Notes: ToSet(lists[n]) \subseteq DOMAIN configFile.tags
         /\ files = [f \in Folders |->
                [time |-> 1,
                 notes |-> [n \in {m \in Notes: Place[m] = f} |->
                               [time |-> 1, tags |-> lists[n], attachments |-> << >>]]]]
    /\ tree = << >> /\ synced = 0
    /\ dirs = [f \in Folders |-> None] /\ rows = [n \in Notes |-> None]
    /\ assets = << >> /\ bin = << >>
    /\ rewritten = {} /\ kept = {}
    /\ calls = 0 /\ opens = 0 /\ failures = 0 /\ crashes = 0

Spec == Init /\ [][Next]_vars

-----------------------------------------------------------------------------
(* Properties *)

TypeOK ==
    /\ {open, readOnly} \subseteq BOOLEAN
    /\ open => config # None
    /\ \A f \in Folders: cache[f] # None => open /\ DOMAIN cache[f].notes \subseteq Notes
    /\ \A n \in Notes: rows[n] # None => rows[n].tags \subseteq DOMAIN tree
    /\ calls \in 0 .. MaxCalls /\ opens \in 0 .. MaxOpens
    /\ failures \in Nat /\ crashes \in Nat /\ failures + crashes <= MaxFaults

Tagged(folders) == UNION {ToSet(folders[f].notes[n].tags):
                              <<f, n>> \in {x \in Folders \X Notes: /\ folders[x[1]] # None
                                                                    /\ x[2] \in DOMAIN folders[x[1]].notes}}

\* A note lists only tags that the notebook has, on disk and in memory: tags are created
\* before they are used, and erased from the notes before they are deleted
\* (Notebook::DeleteTag, BundledFolderManager::UpdateFileTags), so that a crash between
\* two of these writes leaves no note with a tag that updates of its list would refuse.
TagsOfNotesExist ==
    failures = 0 => /\ Tagged(files) \subseteq DOMAIN configFile.tags
                    /\ open => Tagged(cache) \subseteq DOMAIN config.tags

\* Every tag hangs from a root, in memory and in config.json, whatever fails: no move makes
\* a circle and no deletion leaves a child behind (Notebook::MoveTag, Notebook::DeleteTag);
\* the walks over the tree would not end in a circle.
TagsHangFromRoots ==
    /\ Rooted(configFile.tags) = DOMAIN configFile.tags
    /\ open => Rooted(config.tags) = DOMAIN config.tags

\* When the times say that there is nothing to do, opening the notebook may leave the
\* table of tags alone (Notebook::SyncTagsToMetadataStore): it is the tree of config.json,
\* through crashes, rebuilt databases and tags that rows of notes brought in.
SkippedTagSyncIsSafe ==
    failures = 0 /\ 0 < configFile.modified /\ configFile.modified <= synced => tree = configFile.tags

\* Queries by tags find what the records of the folders that were read say
\* (TagDb::FindFilesByTagsAnd, FindFilesByTagsOr), except for notes whose row was replaced
\* since by a change of their name or metadata.
QueriesAnswerRecords ==
    failures + crashes = 0 =>
        \A f \in Folders: cache[f] # None =>
            \A n \in DOMAIN cache[f].notes \ rewritten, S \in SUBSET TagNames \ {{}}:
                /\ n \in FindFilesByTags(S, TRUE) <=> S \subseteq ToSet(cache[f].notes[n].tags)
                /\ n \in FindFilesByTags(S, FALSE) <=> S \cap ToSet(cache[f].notes[n].tags) # {}

\* The attachments that are listed are there (StandardBufferProvider::DeleteAttachment,
\* RenameAttachment), also when names were taken and numbers had to be added.
ListedAttachmentsExist ==
    failures + crashes = 0 =>
        \A f \in Folders, n \in Notes:
            n \in DOMAIN files[f].notes => ToSet(files[f].notes[n].attachments) \subseteq DOMAIN assets

\* A file that a call has put into the assets is there or in the recycle bin until somebody
\* empties the bin, whichever write fails and wherever the program stops: no other file of
\* its name takes its place there or in the bin
\* (StandardBufferProvider::GetUniqueAssetName, GenerateUniqueRecycleBinName).
InsertedFilesStay == kept \subseteq Range(assets) \cup Range(bin)
==============================================================================
