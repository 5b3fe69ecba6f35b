------------------------------- MODULE RawFolder -------------------------------
(***************************************************************************)
(* RawFolderManager: folders and notes of a raw notebook.                  *)
(*                                                                         *)
(* A raw notebook is a directory that other programs change too.  The      *)
(* rows of the metadata store only remember what the files cannot: an id   *)
(* per node, which names the directory of a note's assets, and a mark (a   *)
(* colour, a pin).  A folder is compared with its rows whenever it is      *)
(* read; an operation changes the files first and then, by path, the rows. *)
(* No constraint keeps two rows with one name in one folder apart.         *)
(*                                                                         *)
(* An operation is an operator from a state of the notebook to the state   *)
(* it leaves, because the C API runs several of them in one call: before   *)
(* it changes a node it finds out what the node is, which reads its        *)
(* folder.  A call is one action.  A failure of the store is logged and    *)
(* the call goes on, which leaves what a crash after the file operation    *)
(* leaves.                                                                 *)
(***************************************************************************)
EXTENDS Integers, FiniteSets, SequencesExt, Functions, TLC

CONSTANTS
    Names,       \* names of folders and notes
    MaxDepth,    \* bound on the depth of the tree
    MaxNodes,    \* bound on the nodes at one time
    MaxCalls,    \* bound on the calls
    MaxOutside,  \* bound on the changes by other programs
    MaxFaults,   \* bound on the calls whose writes the store refuses
    Refreshes,   \* does the user interface list a changed folder before it works in it?
    None

ASSUME ConstantsAssumption ==
    /\ {MaxDepth, MaxNodes, MaxCalls, MaxOutside, MaxFaults} \subseteq Nat
    /\ Refreshes \in BOOLEAN /\ None \notin Nat

Root == <<>>
Paths == UNION {[1 .. n -> Names]: n \in 1 .. MaxDepth}
RootId == 0

VARIABLES
    fs,        \* fs[p]: the file or directory at path p, and the assets its text links to
    rows,      \* the rows of the store, in the order they were written
    assets,    \* <<d, id>>: there is a directory of assets for id in folder d
    stale,     \* folders that another program changed since they were read
    readOnly,  \* Notebook::IsReadOnly
    calls, outside, faults

notebook == <<fs, rows, assets, stale>>
vars == <<notebook, readOnly, calls, outside, faults>>

\* The notebook as the operations take it and leave it. store: are writes
\* accepted?  ok: did the last operation succeed?
Now(store) == [fs |-> fs, rows |-> rows, assets |-> assets, stale |-> stale,
               store |-> store, ok |-> TRUE]

\* What Op makes of state s; TLC evaluates s once.
After(s, Op(_)) == CHOOSE r \in {Op(t): t \in {s}}: TRUE

-----------------------------------------------------------------------------
(* Files *)

IsDir(s, p) == p = Root \/ (p \in DOMAIN s.fs /\ s.fs[p].kind = "folder")
Exists(s, p) == p = Root \/ p \in DOMAIN s.fs
Entries(s, d) == {p \in DOMAIN s.fs: Len(p) = Len(d) + 1 /\ Front(p) = d}
Below(p, S) == {q \in S: IsPrefix(p, q)}
Rebase(q, from, to) == to \o SubSeq(q, Len(from) + 1, Len(q))
Outermost(S) == SetToSortSeq(S, LAMBDA p, q: Len(p) < Len(q))

\* The n least numbers that are not in S.
Unused(S, n) ==
    LET least[k \in 0 .. n] ==
            IF k = 0 THEN 0
            ELSE LET i == least[k - 1]
                 IN CHOOSE j \in i + 1 .. i + Cardinality(S) + 1: j \notin S /\ i + 1 .. j - 1 \subseteq S
    IN [k \in 1 .. n |-> least[k]]

NodesIn(s) == {s.fs[p].node: p \in DOMAIN s.fs} \cup {s.rows[i].mark: i \in DOMAIN s.rows}
IdsIn(s) == {s.rows[i].id: i \in DOMAIN s.rows} \cup {a[2]: a \in s.assets}
                \cup {s.fs[p].link: p \in DOMAIN s.fs}
NewId(s) == Unused(IdsIn(s), 1)[1]
NewIds(s, S) == LET ps == SetToSeq(S)  ids == Unused(IdsIn(s), Len(ps))
                IN [p \in S |-> ids[CHOOSE k \in DOMAIN ps: ps[k] = p]]

\* New nodes of the kinds given at paths where there was nothing.
WithFiles(s, kinds) ==
    LET ps == SetToSeq(DOMAIN kinds)  nodes == Unused(NodesIn(s), Len(ps))
    IN [s EXCEPT !.fs = [p \in DOMAIN kinds |->
           [kind |-> kinds[p], link |-> None, node |-> nodes[CHOOSE k \in DOMAIN ps: ps[k] = p]]] @@ @]

WithoutFiles(s, p) ==
    [s EXCEPT !.fs = Restrict(@, DOMAIN @ \ Below(p, DOMAIN @)),
              !.assets = {a \in @: ~IsPrefix(p, a[1])},
              !.stale = {d \in @: ~IsPrefix(p, d)}]

\* fs::rename; the assets in a directory go with it.
Renamed(s, p, q) ==
    LET To(x) == IF IsPrefix(p, x) THEN Rebase(x, p, q) ELSE x
    IN [s EXCEPT !.fs = [y \in {To(x): x \in DOMAIN @} |->
                            IF IsPrefix(q, y) THEN @[Rebase(y, q, p)] ELSE @[y]],
                 !.assets = {<<To(a[1]), a[2]>>: a \in @},
                 !.stale = {To(d): d \in @}]

\* A copy of what is at p, at q: new nodes with the texts and assets of the old.
WithCopy(s, p, q) ==
    LET copies == {Rebase(x, p, q): x \in Below(p, DOMAIN s.fs)}
        t == WithFiles(s, [y \in copies |-> s.fs[Rebase(y, q, p)].kind])
    IN [t EXCEPT !.fs = [y \in DOMAIN @ |->
                            IF y \in copies THEN [@[y] EXCEPT !.link = s.fs[Rebase(y, q, p)].link]
                            ELSE @[y]],
                 !.assets = @ \cup {<<Rebase(a[1], p, q), a[2]>>:
                                       a \in {b \in @: IsPrefix(p, b[1]) /\ IsDir(s, p)}}]

-----------------------------------------------------------------------------
(* Rows of the metadata store *)

Child(s, up, name, kind) ==
    LET S == {i \in DOMAIN s.rows: s.rows[i].up = up /\ s.rows[i].name = name /\ s.rows[i].kind = kind}
    IN IF S = {} THEN None ELSE s.rows[CHOOSE i \in S: \A j \in S: i <= j].id

FolderId(s, d) ==
    FoldLeft(LAMBDA up, n: IF up = None THEN None ELSE Child(s, up, n, "folder"), RootId, d)
FileId(s, p) ==
    LET up == FolderId(s, Front(p)) IN IF up = None THEN None ELSE Child(s, up, Last(p), "note")
IdAt(s, p) == IF IsDir(s, p) THEN FolderId(s, p) ELSE FileId(s, p)

RowOf(s, id) == s.rows[CHOOSE i \in DOMAIN s.rows: s.rows[i].id = id]

\* MetadataStore::CreateFile, CreateFolder
WithRow(s, id, up, name, kind) ==
    IF ~s.store THEN s
    ELSE [s EXCEPT !.rows = Append(@,
             [id |-> id, up |-> up, name |-> name, kind |-> kind, mark |-> None])]

\* MetadataStore::UpdateFile, UpdateFolder and MoveFile, MoveFolder
RowUpdated(s, id, row) ==
    IF ~s.store THEN s
    ELSE [s EXCEPT !.rows = [i \in DOMAIN @ |-> IF @[i].id = id THEN row ELSE @[i]]]

\* MetadataStore::DeleteFile, DeleteFolder: what is below a row goes by cascade.
WithoutRows(s, ids) ==
    LET gone == FoldLeft(LAMBDA S, k: S \cup {s.rows[i].id: i \in {j \in DOMAIN s.rows: s.rows[j].up \in S}},
                         ids, [k \in 1 .. MaxDepth |-> k])
    IN IF ~s.store THEN s
       ELSE [s EXCEPT !.rows = SelectSeq(@, LAMBDA r: r.id \notin gone)]

\* The path the store knows for an id.
GetNodePathById(s, id) ==
    LET Up(x) == IF x.id = RootId \/ x.id \notin {s.rows[i].id: i \in DOMAIN s.rows} THEN x
                 ELSE [id |-> RowOf(s, x.id).up, path |-> <<RowOf(s, x.id).name>> \o x.path]
    IN FoldLeft(LAMBDA x, k: Up(x), [id |-> id, path |-> <<>>], [k \in 1 .. MaxDepth + 1 |-> k]).path

-----------------------------------------------------------------------------
(* Reading *)

EnsureFolderAncestorChain(s, d) ==
    FoldLeft(LAMBDA t, q:
                 IF ~t.ok \/ FolderId(t, q) # None THEN t
                 ELSE IF IsDir(t, q) /\ t.store
                      THEN WithRow(t, NewId(t), FolderId(t, Front(q)), Last(q), "folder")
                      ELSE [t EXCEPT !.ok = FALSE],
             [s EXCEPT !.ok = TRUE], [k \in 1 .. Len(d) |-> SubSeq(d, 1, k)])

\* Of several rows with one name, the map of the code holds the last one.
Remembered(s, d) ==
    {i \in DOMAIN s.rows: /\ s.rows[i].up = FolderId(s, d)
                          /\ \A j \in i + 1 .. Len(s.rows):
                                <<s.rows[j].up, s.rows[j].name, s.rows[j].kind>>
                                    # <<s.rows[i].up, s.rows[i].name, s.rows[i].kind>>}

WithNewRows(s, up, new) ==
    FoldLeft(LAMBDA t, p: WithRow(t, NewId(t), up, Last(p), s.fs[p].kind), s, new)

\* One transaction: rows of what is gone are removed, rows of what is new added.
SyncFolderFromFilesystem(s, d) ==
    LET up == FolderId(s, d)
        has == {<<Append(d, s.rows[i].name), s.rows[i].kind>>: i \in Remembered(s, d)}
        is == {<<p, s.fs[p].kind>>: p \in Entries(s, d)}
        gone == {s.rows[i].id: i \in {j \in Remembered(s, d):
                    <<Append(d, s.rows[j].name), s.rows[j].kind>> \notin is}}
        new == Outermost({x[1]: x \in is \ has})
    IN IF ~IsDir(s, d) \/ up = None THEN [s EXCEPT !.ok = FALSE]
       ELSE [WithNewRows(WithoutRows(s, gone), up, new) EXCEPT !.stale = @ \ {d}, !.ok = TRUE]

\* GetFolderConfig and ListFolderContents read a folder in the same way.
ListFolderContents(s, d) ==
    After(EnsureFolderAncestorChain(s, d), LAMBDA t: IF t.ok THEN SyncFolderFromFilesystem(t, d) ELSE t)

\* What the listing shows: the files of the directory, the rows of its folders.
ListedNotes(s, d) == {Last(p): p \in {q \in Entries(s, d): s.fs[q].kind = "note"}}
ListedFolders(s, d) == SelectSeq(s.rows, LAMBDA r: r.up = FolderId(s, d) /\ r.kind = "folder")

GetFileInfo(s, p) ==
    After(ListFolderContents(s, Front(p)),
          LAMBDA t: [t EXCEPT !.ok = @ /\ p \in DOMAIN t.fs /\ t.fs[p].kind = "note"])

DetectNodeType(s, p) ==
    After(GetFileInfo(s, p), LAMBDA t: IF t.ok THEN t ELSE ListFolderContents(t, p))

-----------------------------------------------------------------------------
(* Operations *)

Failed(s) == [s EXCEPT !.ok = FALSE]

\* The rows above a new node exist, or the store has refused them: that is logged.
Prepared(s, d) == [EnsureFolderAncestorChain(s, d) EXCEPT !.ok = TRUE]

\* A row for the new node at p, below the row of its folder.
Indexed(s, p, id) ==
    LET up == FolderId(s, Front(p))
    IN IF up = None THEN s ELSE WithRow(s, id, up, Last(p), s.fs[p].kind)

CreateFolder(s, p) ==
    IF Exists(s, p) THEN Failed(s)
    ELSE After(EnsureFolderAncestorChain(s, Front(p)),
               LAMBDA t: LET u == WithFiles(t, p :> "folder")
                         IN IF t.ok THEN WithRow(u, NewId(t), FolderId(t, Front(p)), Last(p), "folder") ELSE u)

CreateFolderPath(s, p) ==
    FoldLeft(LAMBDA t, q:
                 IF ~t.ok THEN t
                 ELSE After(ListFolderContents(t, q),
                            LAMBDA u: IF u.ok \/ Exists(u, q) THEN u ELSE CreateFolder([u EXCEPT !.ok = TRUE], q)),
             s, [k \in 1 .. Len(p) |-> SubSeq(p, 1, k)])

CreateFile(s, p) ==
    IF Exists(s, p) THEN Failed(s)
    ELSE After(Prepared(s, Front(p)), LAMBDA t: Indexed(WithFiles(t, p :> "note"), p, NewId(t)))

DeleteFolder(s, p) ==
    LET id == FolderId(s, p) IN IF id = None THEN WithoutFiles(s, p) ELSE WithoutRows(WithoutFiles(s, p), {id})

KeepRow(s, p) == WithoutFiles(s, p)  \* mutant

DeleteFile(s, p) ==
    LET id == FileId(s, p) IN IF id = None THEN WithoutFiles(s, p) ELSE WithoutRows(WithoutFiles(s, p), {id})

Sibling(p, n) == Append(Front(p), n)

Forget(s, p, n) ==  \* mutant
    LET id == FileId(s, p)  t == Renamed(s, p, Sibling(p, n))
    IN IF Exists(s, Sibling(p, n)) THEN Failed(s)
       ELSE IF id = None THEN t ELSE RowUpdated(t, id, [RowOf(s, id) EXCEPT !.name = n, !.mark = None])

RenameFile(s, p, n) ==
    LET id == FileId(s, p)  t == Renamed(s, p, Sibling(p, n))
    IN IF Exists(s, Sibling(p, n)) THEN Failed(s)
       ELSE IF id = None THEN t ELSE RowUpdated(t, id, [RowOf(s, id) EXCEPT !.name = n])

RenameFolder(s, p, n) ==
    LET id == FolderId(s, p)  t == Renamed(s, p, Sibling(p, n))
    IN IF Exists(s, Sibling(p, n)) THEN Failed(s)
       ELSE IF id = None THEN t ELSE RowUpdated(t, id, [RowOf(s, id) EXCEPT !.name = n])

\* The row of the moved node goes below the row of its new folder.
RowMoved(s, id, d) ==
    After(Prepared(s, d),
          LAMBDA t: IF FolderId(t, d) = None THEN t
                    ELSE RowUpdated(t, id, [RowOf(t, id) EXCEPT !.up = FolderId(t, d)]))

MoveFolder(s, p, d) ==
    LET q == Append(d, Last(p))  id == FolderId(s, p)
    IN IF Exists(s, q) \/ ~IsDir(s, d) \/ IsPrefix(p, d) THEN Failed(s)
       ELSE IF id = None THEN Renamed(s, p, q) ELSE RowMoved(Renamed(s, p, q), id, d)

LeaveAssets(s, p, d) ==  \* mutant
    LET q == Append(d, Last(p))  id == FileId(s, p)
    IN IF Exists(s, q) THEN Failed(s)
       ELSE IF id = None THEN Renamed(s, p, q) ELSE RowMoved(Renamed(s, p, q), id, d)

MoveFile(s, p, d) ==
    LET q == Append(d, Last(p))
        id == FileId(s, p)
        t == Renamed(s, p, q)
    IN IF Exists(s, q) THEN Failed(s)
       ELSE IF id = None THEN t
       ELSE RowMoved([t EXCEPT !.assets = {IF a = <<Front(p), id>> THEN <<d, id>> ELSE a: a \in @}], id, d)

\* The copies in q get their rows and ids, and the assets and the links that the
\* old id of a note named take the new one.
ProcessCopiedRawFolderTree(s, p, q, ids) ==
    LET copies == Below(q, DOMAIN s.fs) \ {q}
        old == [y \in copies |-> IF s.fs[y].kind = "note" THEN FileId(s, Rebase(y, q, p)) ELSE None]
        Owners(d, id) == {y \in copies: Front(y) = d /\ old[y] # None /\ old[y] = id}
        t == [s EXCEPT !.assets = {IF Owners(a[1], a[2]) = {} THEN a
                                   ELSE <<a[1], ids[CHOOSE y \in Owners(a[1], a[2]): TRUE]>>: a \in @},
                       !.fs = [y \in DOMAIN @ |->
                                  IF y \in copies /\ old[y] # None /\ @[y].link = old[y]
                                  THEN [@[y] EXCEPT !.link = ids[y]] ELSE @[y]]]
    IN FoldLeft(LAMBDA u, y: WithRow(u, ids[y], ids[Front(y)], Last(y), u.fs[y].kind), t, Outermost(copies))

CopyFolder(s, p, q) ==
    IF Exists(s, q) THEN Failed(s)
    ELSE After(Prepared(s, Front(q)), LAMBDA t:
         After(WithCopy(t, p, q), LAMBDA u:
         After(NewIds(u, Below(q, DOMAIN u.fs)), LAMBDA ids:
               ProcessCopiedRawFolderTree(Indexed(u, q, ids[q]), p, q, ids))))

CopyFile(s, p, q) ==
    LET old == FileId(s, p)
        Owned(t, id) == [t EXCEPT !.assets = @ \cup IF <<Front(p), old>> \in @ THEN {<<Front(q), id>>} ELSE {},
                                  !.fs[q].link = IF @ # None /\ @ = old THEN id ELSE @]
    IN IF Exists(s, q) THEN Failed(s)
       ELSE After(Prepared(s, Front(q)), LAMBDA t:
            After(WithCopy(t, p, q), LAMBDA u: Indexed(Owned(u, NewId(t)), q, NewId(t))))

\* The name a new entry of d gets: the one wanted, or one with a number.
GetAvailableName(s, d, n) ==
    IF Append(d, n) \notin DOMAIN s.fs THEN {n} ELSE {m \in Names: Append(d, m) \notin DOMAIN s.fs}

ImportFile(s, p) ==
    After(Prepared(s, Front(p)), LAMBDA t: Indexed(WithFiles(t, p :> "note"), p, NewId(t)))

\* A folder with one note in it comes in.
CopyFiltered(s, p, n) == WithFiles(s, (p :> "folder") @@ (Append(p, n) :> "note"))

\* Its rows are written in one transaction.
ImportFolder(s, p, n) ==
    LET q == Append(p, n)
        Rows(t, ids) == WithRow(WithRow(t, ids[p], FolderId(t, Front(p)), Last(p), "folder"),
                                ids[q], ids[p], n, "note")
    IN After(Prepared(s, Front(p)), LAMBDA t:
       After(CopyFiltered(t, p, n), LAMBDA u: IF u.store THEN Rows(u, NewIds(u, {p, q})) ELSE Failed(u)))

Marked(s, p, id) ==
    IF ~s.ok \/ id = None THEN Failed(s)
    ELSE RowUpdated(s, id, [RowOf(s, id) EXCEPT !.mark = s.fs[p].node])

UpdateFileMetadata(s, p) ==
    After(ListFolderContents(s, Front(p)), LAMBDA t: Marked(t, p, FileId(t, p)))
UpdateFolderMetadata(s, p) ==
    After(EnsureFolderAncestorChain(s, p), LAMBDA t: Marked(t, p, FolderId(t, p)))

MarkOf(s, id) == IF id = None THEN None ELSE RowOf(s, id).mark
GetFileMetadata(s, p) == MarkOf(s, FileId(s, p))
GetFolderMetadata(s, p) == MarkOf(s, FolderId(s, p))

\* An image is put into the note: into the directory that its id names, and the
\* text links to it.
InsertAsset(s, p) ==
    After(GetFileInfo(s, p),
          LAMBDA t: IF ~t.ok \/ FileId(t, p) = None THEN Failed(t)
                    ELSE [t EXCEPT !.assets = @ \cup {<<Front(p), FileId(t, p)>>}, !.fs[p].link = FileId(t, p)])

-----------------------------------------------------------------------------
(* Calls of the C API *)

Init ==
    /\ fs = <<>> /\ rows = <<>> /\ assets = {} /\ stale = {}
    /\ readOnly = FALSE
    /\ calls = 0 /\ outside = 0 /\ faults = 0

\* The notebook is left in state result, within the bounds.
Leaves(result) ==
    /\ calls < MaxCalls /\ calls' = calls + 1
    /\ \E s \in {result}:
          /\ faults' = (IF s.store THEN faults ELSE faults + 1) /\ faults' <= MaxFaults
          /\ DOMAIN s.fs \subseteq Paths /\ Cardinality(DOMAIN s.fs) <= MaxNodes
          /\ fs' = s.fs /\ rows' = s.rows /\ assets' = s.assets /\ stale' = s.stale
    /\ UNCHANGED <<readOnly, outside>>

\* The user interface works in folder d.
WorksIn(d) == IsDir(Now(TRUE), d) /\ (Refreshes => d \notin stale)

\* A call on the node at p: what is it, may it be changed, and then the operation.
OnNode(store, p, kind, Operation(_)) ==
    /\ p \in DOMAIN fs /\ fs[p].kind = kind /\ calls < MaxCalls
    /\ \E s \in {DetectNodeType(Now(store), p)}:
          Leaves(IF ~s.ok \/ readOnly THEN s ELSE Operation(s))

NewFolder(store, d, n) == WorksIn(d) /\ ~readOnly /\ Leaves(CreateFolder(Now(store), Append(d, n)))
NewFile(store, d, n) == WorksIn(d) /\ ~readOnly /\ Leaves(CreateFile(Now(store), Append(d, n)))

NewPath(p) ==
    /\ Refreshes => \A k \in 0 .. Len(p) - 1: SubSeq(p, 1, k) \notin stale
    /\ ~readOnly
    /\ Leaves(CreateFolderPath(Now(TRUE), p))

FileImport(store, d, n) ==
    /\ WorksIn(d) /\ ~readOnly
    /\ \E name \in GetAvailableName(Now(store), d, n): Leaves(ImportFile(Now(store), Append(d, name)))

FolderImport(store, d, n) ==
    /\ WorksIn(d) /\ ~readOnly
    /\ \E name \in GetAvailableName(Now(store), d, n), m \in Names:
          Leaves(ImportFolder(Now(store), Append(d, name), m))

Delete(store, p) ==
    \/ OnNode(store, p, "note", LAMBDA s: DeleteFile(s, p))
    \/ OnNode(store, p, "folder", LAMBDA s: DeleteFolder(s, p))

Rename(store, p, n) ==
    \/ OnNode(store, p, "note", LAMBDA s: RenameFile(s, p, n))
    \/ OnNode(store, p, "folder", LAMBDA s: RenameFolder(s, p, n))

Move(store, p, d) ==
    /\ WorksIn(d)
    /\ \/ OnNode(store, p, "note", LAMBDA s: MoveFile(s, p, d))
       \/ OnNode(store, p, "folder", LAMBDA s: MoveFolder(s, p, d))

Copy(store, p, d, n) ==
    /\ WorksIn(d) /\ ~IsPrefix(p, d)
    /\ \/ OnNode(store, p, "note", LAMBDA s: CopyFile(s, p, Append(d, n)))
       \/ OnNode(store, p, "folder", LAMBDA s: CopyFolder(s, p, Append(d, n)))

Mark(p) ==
    \/ OnNode(TRUE, p, "note", LAMBDA s: UpdateFileMetadata(s, p))
    \/ OnNode(TRUE, p, "folder", LAMBDA s: UpdateFolderMetadata(s, p))

AddAsset(p) ==
    /\ p \in DOMAIN fs /\ fs[p].kind = "note" /\ ~readOnly
    /\ Leaves(InsertAsset(Now(TRUE), p))

List(d) == IsDir(Now(TRUE), d) /\ Leaves(ListFolderContents(Now(TRUE), d))

\* A search reads every folder.
IterateAllFiles ==
    Leaves(FoldLeft(LAMBDA s, d: ListFolderContents(s, d), Now(TRUE),
                    Outermost({d \in DOMAIN fs \cup {Root}: IsDir(Now(TRUE), d)})))

SetReadOnly(b) ==
    /\ readOnly # b /\ readOnly' = b
    /\ calls < MaxCalls /\ calls' = calls + 1
    /\ UNCHANGED <<notebook, outside, faults>>

\* Another program adds a node to folder d, or removes one.
Outside(d, result) ==
    /\ outside < MaxOutside /\ outside' = outside + 1
    /\ d \notin stale
    /\ \E s \in {result}:
          /\ DOMAIN s.fs \subseteq Paths /\ Cardinality(DOMAIN s.fs) <= MaxNodes
          /\ fs' = s.fs /\ assets' = s.assets /\ stale' = s.stale \cup {d}
    /\ UNCHANGED <<rows, readOnly, calls, faults>>

OutsideAdd(p, kind) ==
    /\ p \notin DOMAIN fs /\ IsDir(Now(TRUE), Front(p))
    /\ Outside(Front(p), WithFiles(Now(TRUE), p :> kind))

OutsideRemove(p) == p \in DOMAIN fs /\ Outside(Front(p), WithoutFiles(Now(TRUE), p))

Folders == {Root} \cup {d \in Paths: Len(d) < MaxDepth}

Next ==
    \/ \E store \in BOOLEAN:
          \/ \E d \in Folders, n \in Names:
                \/ NewFolder(store, d, n)
                \/ NewFile(store, d, n)
                \/ FileImport(store, d, n)
                \/ FolderImport(store, d, n)
          \/ \E p \in DOMAIN fs:
                \/ Delete(store, p)
                \/ \E n \in Names: Rename(store, p, n)
                \/ \E d \in Folders: Move(store, p, d)
                \/ \E d \in Folders, n \in Names: Copy(store, p, d, n)
    \/ \E p \in Paths: NewPath(p)
    \/ \E p \in DOMAIN fs: Mark(p) \/ AddAsset(p) \/ OutsideRemove(p)
    \/ \E d \in Folders: List(d)
    \/ IterateAllFiles
    \/ \E b \in BOOLEAN: SetReadOnly(b)
    \/ \E p \in Paths, kind \in {"note", "folder"}: OutsideAdd(p, kind)

Spec == Init /\ [][Next]_vars

\* Every variable has its type; what is in a folder has its folder, as files do.
TypeOK ==
    /\ DOMAIN fs \subseteq Paths
    /\ \A p \in DOMAIN fs: /\ fs[p].kind \in {"note", "folder"} /\ fs[p].node \in Nat
                           /\ fs[p].link \in Nat \cup {None}
                           /\ IsDir(Now(TRUE), Front(p))
    /\ \A i \in DOMAIN rows: rows[i] \in [id: Nat \ {RootId}, up: Nat, name: Names,
                                          kind: {"note", "folder"}, mark: Nat \cup {None}]
    /\ \A a \in assets: IsDir(Now(TRUE), a[1]) /\ a[2] \in Nat \ {RootId}
    /\ stale \subseteq DOMAIN fs \cup {Root} /\ readOnly \in BOOLEAN
    /\ calls \in 0 .. MaxCalls /\ outside \in 0 .. MaxOutside /\ faults \in 0 .. MaxFaults

-----------------------------------------------------------------------------
(* Properties: while the store has accepted every write *)

Calm == faults = 0

MarkShown(p) == IF IsDir(Now(TRUE), p) THEN GetFolderMetadata(Now(TRUE), p) ELSE GetFileMetadata(Now(TRUE), p)

\* A node that has a row has one: the id that its path leads to leads back to its
\* path. It is by ids that links between notes, tabs and favourites find a node,
\* and rows are moved, renamed and removed one at a time, found by a path.
IdsLeadToTheirNodes ==
    Calm => \A p \in DOMAIN fs: LET id == IdAt(Now(TRUE), p) IN
        id = None \/ (GetNodePathById(Now(TRUE), id) = p /\ Cardinality({i \in DOMAIN rows: rows[i].id = id}) = 1)

\* No node shows the mark of another one. Rows are found by path, and a path is
\* used again: by a node that is moved, copied or imported to where one was.
MarksNotMixed ==
    Calm => \A p \in DOMAIN fs: MarkShown(p) \in {None, fs[p].node}

\* A mark stays with its node, whatever a call does with the node, its folder or
\* its siblings, and whatever another program does with other nodes.
MarksStay ==
    [][Calm' => \A p \in DOMAIN fs, q \in DOMAIN fs':
          fs[p].node = fs'[q].node /\ MarkShown(p) # None => MarkShown(q)' = MarkShown(p)]_vars

\* The assets that a note links to are next to the note, after moves and copies
\* of the note or of a folder around it.
LinksResolve ==
    Calm => \A p \in DOMAIN fs: fs[p].link # None => <<Front(p), fs[p].link>> \in assets

\* To list a folder is to see what is in it, each folder and each note once and
\* with a row of its own, whatever other programs did to the folder.
ListingsAreTrue ==
    Calm => \A d \in DOMAIN fs \cup {Root}: IsDir(Now(TRUE), d) =>
        \A s \in {ListFolderContents(Now(TRUE), d)}:
        LET shown == ListedFolders(s, d)
        IN /\ s.ok
           /\ \A p \in Entries(s, d): IdAt(s, p) # None
           /\ Cardinality(ListedNotes(s, d)) + Len(shown) = Cardinality(Entries(s, d))
           /\ \A i \in DOMAIN shown: Append(d, shown[i].name) \in Entries(s, d)
===============================================================================
