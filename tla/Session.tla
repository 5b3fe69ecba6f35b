------------------------------- MODULE Session -------------------------------
(* What one run of the program hands to the next: the open notebooks, buffers and
   workspaces (notebook_manager.cpp, buffer_manager.cpp, workspace_manager.cpp) and
   the session file they are loaded from and saved to (config_manager.cpp), through
   shutdowns, crashes, failing writes, notebooks that are out of reach for a while and
   notebooks whose folder comes to hold another one.

   A notebook has one note; a buffer is open on the note of a notebook, or virtual. *)
EXTENDS Naturals, Sequences, FiniteSets, SequencesExt

CONSTANTS
    Roots,        \* root folders
    Notebooks,    \* ids of notebooks
    Bufs,         \* ids of buffers
    Workspaces,   \* ids of workspaces
    None,
    Torn,         \* a session file that does not parse
    Copies,       \* TRUE if two folders may hold one notebook
    MaxCalls,     \* bound on calls of the consumer
    MaxStarts,    \* bound on starts of the program
    MaxFaults,    \* bound on failing writes of the session file
    MaxOutside    \* bound on changes of the folders from outside

ConstantsAssumption ==
    /\ None \notin Roots \cup Notebooks \cup Bufs \cup Workspaces
    /\ None \notin [nb: Notebooks \cup {None}, root: Roots \cup {None}]
    /\ None \notin [root: Roots, readOnly: BOOLEAN]
                     \cup [bufs: Seq(Bufs), current: Bufs \cup {None}]
    /\ Copies \in BOOLEAN
    /\ {MaxCalls, MaxStarts, MaxFaults, MaxOutside} \subseteq Nat

ASSUME ConstantsAssumption

VARIABLES
    config,       \* root -> id in its config.json, None if it holds no notebook
    reach,        \* roots that can be read, the others are not there yet
    notes,        \* roots whose note is there
    running,
    shutdown,     \* prepare_shutdown has been called
    recover,      \* the setting recover_last_session
    open,         \* notebook id -> [root, readOnly] of the notebook object
    buffers,      \* buffer id -> [nb, root]: the id and the object it points to
    workspaces,   \* workspace id -> [bufs, current]
    current,      \* id of the current workspace
    session,      \* the session config in memory
    saved,        \* the session file
    calls, starts, faults, outside,
    known,        \* ghost: root -> "rw" or "ro", as the user has opened it and not closed it
    snapshot      \* ghost: the session at the last prepare_shutdown

worldVars == <<config, reach, notes, recover>>
runVars == <<running, shutdown>>
wsVars == <<workspaces, current>>
bounds == <<starts, outside>>
vars == <<worldVars, runVars, open, buffers, wsVars, session, saved, bounds, faults, calls,
          known, snapshot>>

Open == {b \in Bufs: buffers[b] # None}
Virtual == [nb |-> None, root |-> None]

SessionOf(nbs, bufs, ws, cur) ==
    [notebooks |-> nbs, buffers |-> bufs, workspaces |-> ws, current |-> cur]
EmptySession ==
    SessionOf(<<>>, [b \in Bufs |-> None], [w \in Workspaces |-> None], None)

\* A session with other records of notebooks.
WithNotebooks(s, recs) == SessionOf(recs, s.buffers, s.workspaces, s.current)

\* The elements of the list s that are in S, in the order of the list.
Only(s, S) ==
    LET only[i \in 0..Len(s)] ==
            IF i = 0 THEN <<>>
            ELSE IF s[i] \in S THEN Append(only[i - 1], s[i])
            ELSE only[i - 1]
    IN only[Len(s)]

Record(id, root, readOnly) == [id |-> id, root |-> root, readOnly |-> readOnly]

NotebookRecords == [id: Notebooks, root: Roots, readOnly: BOOLEAN]
NotebookObjects == [root: Roots, readOnly: BOOLEAN]
WorkspaceStates == [bufs: Seq(Bufs), current: Bufs \cup {None}]
Sessions ==
    [notebooks: Seq(NotebookRecords), buffers: [Bufs -> Notebooks \cup {None}],
     workspaces: [Workspaces -> WorkspaceStates \cup {None}], current: Workspaces \cup {None}]

TypeOK ==
    /\ config \in [Roots -> Notebooks \cup {None}] /\ reach \subseteq Roots /\ notes \subseteq Roots
    /\ {running, shutdown, recover} \subseteq BOOLEAN
    /\ open \in [Notebooks -> NotebookObjects \cup {None}]
    /\ buffers \in [Bufs -> [nb: Notebooks, root: Roots] \cup {Virtual, None}]
    /\ workspaces \in [Workspaces -> WorkspaceStates \cup {None}]
    /\ current \in Workspaces \cup {None}
    /\ session \in Sessions /\ saved \in Sessions \cup {Torn}
    /\ known \in [Roots -> {None, "rw", "ro"}]

\* A session file of an earlier version may have two records of one root.
Legacy(id, other, root) ==
    WithNotebooks(EmptySession, <<Record(other, root, FALSE), Record(id, root, TRUE)>>)

Init ==
    /\ config \in {f \in [Roots -> Notebooks \cup {None}]:
                    \A r, s \in Roots: r # s /\ f[r] = f[s] => f[r] = None}
    /\ reach = Roots /\ notes = Roots
    /\ running = FALSE /\ shutdown = FALSE
    /\ recover \in BOOLEAN
    /\ open = [n \in Notebooks |-> None]
    /\ buffers = [b \in Bufs |-> None]
    /\ workspaces = [w \in Workspaces |-> None]
    /\ current = None
    /\ \/ saved = EmptySession /\ known = [r \in Roots |-> None]
       \/ \E root \in Roots, n \in Notebooks:
            /\ config[root] # None
            /\ saved = Legacy(config[root], n, root)
            /\ known = [r \in Roots |-> IF r = root THEN "rw" ELSE None]
    /\ session = saved
    /\ calls = 0 /\ starts = 0 /\ faults = 0 /\ outside = 0
    /\ snapshot = None

-----------------------------------------------------------------------------
(* ConfigManager *)

\* The file is truncated in place and the result of writing it is not looked at: all
\* callers go on.
SaveSessionConfig ==
    \/ saved' = session' /\ UNCHANGED faults
    \/ /\ faults < MaxFaults
       /\ faults' = faults + 1
       /\ saved' \in {saved, Torn}

NoSave == UNCHANGED <<session, saved, faults>>

-----------------------------------------------------------------------------
(* What is persisted, and when *)

\* Virtual buffers are left out.
BufferRecords(bufs) ==
    [b \in Bufs |-> IF bufs[b] \in {None, Virtual} THEN None ELSE bufs[b].nb]

Persisted(s, bufs, ws, cur) ==
    SessionOf(s.notebooks, BufferRecords(bufs), ws, cur)

\* Not after prepare_shutdown, so that the teardown does not reach the file.
PersistAlways ==  \* mutant
    session' = Persisted(session, buffers', workspaces', current') /\ SaveSessionConfig
PersistSession ==
    IF shutdown THEN NoSave
    ELSE session' = Persisted(session, buffers', workspaces', current') /\ SaveSessionConfig

-----------------------------------------------------------------------------
(* Start *)

\* LoadOpenNotebooks, one record after the other: one record stays per root, a record
\* that loads wins over one that does not, and takes over the id found on disk; a
\* record that does not load is kept.
Listing(recs, root) == \E i \in DOMAIN recs: recs[i].root = root

LoadedRecord(acc, r) ==
    LET kept == Record(config[r.root], r.root, r.readOnly)
    IN [open |-> [acc.open EXCEPT ![kept.id] = [root |-> r.root, readOnly |-> r.readOnly]],
        loaded |-> acc.loaded \cup {r.root},
        recs |-> IF ~Listing(acc.recs, r.root) THEN Append(acc.recs, kept)
                 ELSE IF r.root \in acc.loaded THEN acc.recs
                 ELSE [i \in DOMAIN acc.recs |->
                        IF acc.recs[i].root = r.root THEN kept ELSE acc.recs[i]]]

DropPhantom(acc, r) == acc  \* mutant
KeepPhantom(acc, r) ==
    [open |-> acc.open, loaded |-> acc.loaded,
     recs |-> IF Listing(acc.recs, r.root) THEN acc.recs ELSE Append(acc.recs, r)]

\* BundledNotebook::Open needs the folder and a config.json in it.
Loads(root) == root \in reach /\ config[root] # None

LoadOpenNotebooks(recs) ==
    LET load[i \in 0..Len(recs)] ==
            IF i = 0 THEN [open |-> [n \in Notebooks |-> None], loaded |-> {}, recs |-> <<>>]
            ELSE IF Loads(recs[i].root) THEN LoadedRecord(load[i - 1], recs[i])
            ELSE KeepPhantom(load[i - 1], recs[i])
    IN load[Len(recs)]

\* A buffer whose notebook is not open, or whose note is not there, is left out.
LoadNoBuffers(s, nbs) == [b \in Bufs |-> None]  \* mutant
LoadBuffers(s, nbs) ==
    [b \in Bufs |->
        LET id == s.buffers[b] IN
        IF recover /\ id # None /\ nbs[id] # None /\ nbs[id].root \in notes
        THEN [nb |-> id, root |-> nbs[id].root] ELSE None]

\* Buffers that are not open are left out of the lists; the first one takes the place
\* of a current buffer that is gone.
LoadWorkspace(rec, bufs) ==
    LET listed == Only(rec.bufs, {b \in Bufs: bufs[b] # None}) IN
    [bufs |-> listed,
     current |-> IF rec.current = None \/ rec.current \in ToSet(listed) THEN rec.current
                 ELSE IF listed # <<>> THEN listed[1] ELSE None]

LoadWorkspaces(s, bufs) ==
    [w \in Workspaces |->
        IF ~recover \/ s.workspaces[w] = None THEN None
        ELSE LoadWorkspace(s.workspaces[w], bufs)]

First(there) == IF there = {} THEN None ELSE CHOOSE w \in there: TRUE
FirstWorkspace(ws) == First({w \in Workspaces: ws[w] # None})

LoadCurrent(s, ws) ==
    IF s.current # None /\ ws[s.current] # None THEN s.current ELSE FirstWorkspace(ws)

\* A session file that does not parse stops the start.
LoadConfigs == saved # Torn

\* What is not recovered is cleared in memory, and goes with the next save.
Cleared(s) ==
    IF recover THEN s
    ELSE WithNotebooks(EmptySession, s.notebooks)

\* What the last run could not write is not known any more.
ContextCreate ==
    /\ ~running
    /\ starts < MaxStarts
    /\ LoadConfigs
    /\ LET nbs == LoadOpenNotebooks(saved.notebooks) IN
       /\ running' = TRUE
       /\ shutdown' = FALSE
       /\ open' = nbs.open
       /\ buffers' = LoadBuffers(saved, nbs.open)
       /\ workspaces' = LoadWorkspaces(saved, buffers')
       /\ current' = LoadCurrent(saved, workspaces')
       /\ session' = Cleared(WithNotebooks(saved, nbs.recs))
       /\ IF nbs.recs # saved.notebooks
          THEN \/ /\ saved' = WithNotebooks(saved, nbs.recs)
                  /\ UNCHANGED faults
               \/ /\ faults < MaxFaults /\ faults' = faults + 1
                  /\ saved' \in {saved, Torn}
          ELSE UNCHANGED <<saved, faults>>
    /\ starts' = starts + 1
    /\ snapshot' = None
    /\ known' = IF saved = session THEN known ELSE [r \in Roots |-> None]
    /\ UNCHANGED <<worldVars, outside>>

\* The user removes a session file that stops the start, and knows what that costs.
RemoveSessionFile ==
    /\ ~running
    /\ saved = Torn
    /\ saved' = EmptySession
    /\ known' = [r \in Roots |-> None]
    /\ UNCHANGED <<worldVars, runVars, open, buffers, wsVars, session, bounds, faults,
                   snapshot>>

-----------------------------------------------------------------------------
(* End *)

PrepareShutdown ==
    /\ running /\ ~shutdown
    /\ session' = Persisted(session, buffers, workspaces, current)
    /\ SaveSessionConfig
    /\ shutdown' = TRUE
    /\ snapshot' = session'
    /\ UNCHANGED <<worldVars, running, open, buffers, wsVars, bounds, known>>

\* The consumer cancels before it has torn anything down; what it had changed since
\* would wait for the next call that saves.
CancelShutdown ==
    /\ running /\ shutdown
    /\ session = Persisted(session, buffers, workspaces, current)
    /\ shutdown' = FALSE
    /\ snapshot' = None
    /\ UNCHANGED <<worldVars, running, open, buffers, wsVars, session, saved, bounds, faults,
                   known>>

\* The destructors of the managers save what is left, unless the shutdown was prepared.
ContextDestroy ==
    /\ running
    /\ running' = FALSE
    /\ IF shutdown THEN NoSave
       ELSE session' = Persisted(session, buffers, workspaces, current) /\ SaveSessionConfig
    /\ UNCHANGED <<worldVars, shutdown, open, buffers, wsVars, bounds, known, snapshot>>

Crash ==
    /\ running
    /\ running' = FALSE
    /\ UNCHANGED <<worldVars, shutdown, open, buffers, wsVars, session, saved, bounds, faults,
                   known, snapshot>>

-----------------------------------------------------------------------------
(* Calls on notebooks *)

OpenAt(root) == {n \in Notebooks: open[n] # None /\ open[n].root = root}

\* UpdateNotebookRecord: one record per id and per root stays.
Other(r, id, root) == r.id # id /\ r.root # root
Others(recs, id, root) == Only(recs, {r \in ToSet(recs): Other(r, id, root)})
WithRecord(id, root, readOnly) ==
    WithNotebooks(session,
                  Append(Others(session.notebooks, id, root), Record(id, root, readOnly)))

\* What the user knows of a root: opening a notebook elsewhere says that it has moved.
Forgotten(id, root) ==
    [r \in Roots |->
        IF \E rec \in ToSet(session.notebooks): rec.root = r /\ ~Other(rec, id, root)
        THEN None ELSE known[r]]

Mode(readOnly) == IF readOnly THEN "ro" ELSE "rw"

\* A root that is open is returned as it is, and becomes read-only when asked for.
RecordNotebookReadOnly(root, n) ==
    /\ open' = [open EXCEPT ![n].readOnly = TRUE]
    /\ session' = WithRecord(n, root, TRUE)
    /\ SaveSessionConfig

NotebookReopen(root, readOnly) ==
    \E n \in OpenAt(root):
        IF readOnly
        THEN /\ RecordNotebookReadOnly(root, n)
             /\ known' = [Forgotten(n, root) EXCEPT ![root] = "ro"]
        ELSE UNCHANGED <<open, known>> /\ NoSave

\* The record is saved before the notebook becomes the one with its id.
OpenNotebook(root) ==
    LET id == config[root] IN
    /\ OpenAt(root) = {}
    /\ Loads(root)
    /\ session' = WithRecord(id, root, FALSE)
    /\ SaveSessionConfig
    /\ open' = [open EXCEPT ![id] = [root |-> root, readOnly |-> FALSE]]
    /\ known' = [Forgotten(id, root) EXCEPT ![root] = "rw"]

\* Opened to be read only: the record is saved as it is without that, then once more.
SaveTwice(first) ==
    \/ saved' = session' /\ UNCHANGED faults
    \/ /\ faults < MaxFaults
       /\ faults' = faults + 1
       /\ saved' \in {first, Torn}

OpenReadOnly(root) ==
    LET id == config[root] IN
    /\ OpenAt(root) = {}
    /\ Loads(root)
    /\ session' = WithRecord(id, root, TRUE)
    /\ SaveTwice(WithRecord(id, root, FALSE))
    /\ open' = [open EXCEPT ![id] = [root |-> root, readOnly |-> TRUE]]
    /\ known' = [Forgotten(id, root) EXCEPT ![root] = "ro"]

NotebookOpenEx(root, readOnly) ==
    /\ running
    /\ \/ NotebookReopen(root, readOnly)
       \/ ~readOnly /\ OpenNotebook(root)
       \/ readOnly /\ OpenReadOnly(root)
    /\ UNCHANGED <<worldVars, runVars, buffers, wsVars, bounds, snapshot>>

\* A new notebook has an id nothing has ever had.
IdsOf(s) ==
    {r.id: r \in ToSet(s.notebooks)} \cup {s.buffers[b]: b \in Bufs}

Fresh ==
    {n \in Notebooks: open[n] = None} \ (
        {config[r]: r \in Roots} \cup IdsOf(session)
        \cup IF saved = Torn THEN {} ELSE IdsOf(saved))

CreateNotebook(root) ==
    /\ config[root] = None
    /\ OpenAt(root) = {}
    /\ root \in reach
    /\ \E n \in Fresh:
        /\ config' = [config EXCEPT ![root] = n]
        /\ session' = WithRecord(n, root, FALSE)
        /\ open' = [open EXCEPT ![n] = [root |-> root, readOnly |-> FALSE]]
        /\ known' = [Forgotten(n, root) EXCEPT ![root] = "rw"]
    /\ SaveSessionConfig

\* A root that holds a notebook keeps it: it is opened.
NotebookCreate(root) ==
    /\ running
    /\ \/ CreateNotebook(root)
       \/ OpenAt(root) # {} /\ UNCHANGED <<config, open, known>> /\ NoSave
       \/ OpenNotebook(root) /\ UNCHANGED config
    /\ UNCHANGED <<reach, notes, recover, runVars, buffers, wsVars, bounds, snapshot>>

\* The buffers of the notebook are closed first; the file learns of that later.
LeaveBuffers(n) == buffers  \* mutant
CloseBuffersForNotebook(n) ==
    [b \in Bufs |-> IF b \in Open /\ buffers[b].nb = n THEN None ELSE buffers[b]]

CloseNotebook(n) ==
    /\ open' = [open EXCEPT ![n] = None]
    /\ session' = WithNotebooks(session, Others(session.notebooks, n, open[n].root))
    /\ SaveSessionConfig

NotebookClose(n) ==
    /\ running
    /\ open[n] # None
    /\ buffers' = CloseBuffersForNotebook(n)
    /\ CloseNotebook(n)
    /\ known' = Forgotten(n, open[n].root)
    /\ UNCHANGED <<worldVars, runVars, wsVars, bounds, snapshot>>

-----------------------------------------------------------------------------
(* Calls on buffers *)

BufferOpen(root) ==
    /\ running
    /\ root \in notes
    /\ \E n \in OpenAt(root):
        IF \E b \in Open: buffers[b].nb = n THEN UNCHANGED buffers
        ELSE \E b \in Bufs \ Open: buffers' = [buffers EXCEPT ![b] = [nb |-> n, root |-> root]]
    /\ UNCHANGED wsVars
    /\ PersistSession
    /\ UNCHANGED <<worldVars, runVars, open, bounds, known, snapshot>>

\* Nothing is persisted of a virtual buffer.
BufferOpenVirtual ==
    /\ running
    /\ IF \E b \in Open: buffers[b] = Virtual THEN UNCHANGED buffers
       ELSE \E b \in Bufs \ Open: buffers' = [buffers EXCEPT ![b] = Virtual]
    /\ UNCHANGED <<worldVars, runVars, open, wsVars, session, saved, bounds, faults, known,
                   snapshot>>

\* The workspaces go on listing the buffer.
CloseBuffer(b) == [buffers EXCEPT ![b] = None]

BufferClose(b) ==
    /\ running
    /\ buffers' = CloseBuffer(b)
    /\ UNCHANGED wsVars
    /\ PersistSession
    /\ UNCHANGED <<worldVars, runVars, open, bounds, known, snapshot>>

-----------------------------------------------------------------------------
(* Calls on workspaces *)

WorkspaceCall ==
    /\ running
    /\ PersistSession
    /\ UNCHANGED <<worldVars, runVars, open, bounds, known, snapshot>>

Workspace(bufs, cur) == [bufs |-> bufs, current |-> cur]
Lists(w, b) == b \in ToSet(workspaces[w].bufs)

CreateWorkspace(w) ==
    /\ workspaces[w] = None
    /\ workspaces' = [workspaces EXCEPT ![w] = Workspace(<<>>, None)]
    /\ UNCHANGED <<current, buffers>>

\* Another workspace becomes the current one; the buffers stay open.
CurrentWithout(w) == IF current = w THEN FirstWorkspace(workspaces') ELSE current

DeleteWorkspace(w) ==
    /\ workspaces[w] # None
    /\ workspaces' = [workspaces EXCEPT ![w] = None]
    /\ current' = CurrentWithout(w)
    /\ UNCHANGED buffers

SetCurrentWorkspace(w) ==
    /\ workspaces[w] # None
    /\ current' = w
    /\ UNCHANGED <<workspaces, buffers>>

\* Neither this nor the next call asks whether the buffer is open.
AddBufferToWorkspace(w, b) ==
    /\ workspaces[w] # None
    /\ workspaces' = [workspaces EXCEPT ![w] =
            Workspace(IF Lists(w, b) THEN @.bufs ELSE Append(@.bufs, b), @.current)]
    /\ UNCHANGED <<current, buffers>>

SetCurrentBuffer(w, b) ==
    /\ workspaces[w] # None
    /\ workspaces' = [workspaces EXCEPT ![w] = Workspace(@.bufs, b)]
    /\ UNCHANGED <<current, buffers>>

\* A buffer no workspace lists any more is closed.
Listed(b, ws) == \E w \in Workspaces: ws[w] # None /\ b \in ToSet(ws[w].bufs)

RemoveBufferFromWorkspace(w, b) ==
    /\ workspaces[w] # None
    /\ Lists(w, b)
    /\ workspaces' = [workspaces EXCEPT ![w] =
            Workspace(Only(@.bufs, Bufs \ {b}), IF @.current = b THEN None ELSE @.current)]
    /\ buffers' = IF Listed(b, workspaces') THEN buffers ELSE CloseBuffer(b)
    /\ UNCHANGED current

\* The order asked for, as far as it names listed buffers, then the rest.
Reordered(listed, order) ==
    LET kept == Only(order, ToSet(listed)) IN
    kept \o Only(listed, Bufs \ ToSet(kept))

SetBufferOrder(w, order) ==
    /\ workspaces[w] # None
    /\ workspaces' = [workspaces EXCEPT ![w] = Workspace(Reordered(@.bufs, order), @.current)]
    /\ UNCHANGED <<current, buffers>>

Orders == {s \in UNION {[1..n -> Bufs]: n \in 1..Cardinality(Bufs)}: IsInjective(s)}

OnWorkspaces(w) ==
    CreateWorkspace(w) \/ DeleteWorkspace(w) \/ SetCurrentWorkspace(w)

OnBufferLists(w) ==
    \/ \E b \in Bufs: AddBufferToWorkspace(w, b)
    \/ \E b \in Bufs: SetCurrentBuffer(w, b)
    \/ \E b \in Bufs: RemoveBufferFromWorkspace(w, b)
    \/ \E order \in Orders: SetBufferOrder(w, order)

-----------------------------------------------------------------------------
(* The folders *)

Outside == outside < MaxOutside /\ outside' = outside + 1

\* A folder is not there for a while (not mounted, not downloaded yet), or is back.
OutOfReach(root) ==
    /\ Outside
    /\ reach' = IF root \in reach THEN reach \ {root} ELSE reach \cup {root}
    /\ UNCHANGED <<config, notes, recover, runVars, open, buffers, wsVars, session, saved,
                   starts, faults, known, snapshot>>

NoteGone(root) ==
    /\ Outside
    /\ root \in notes
    /\ notes' = notes \ {root}
    /\ UNCHANGED <<config, reach, recover, runVars, open, buffers, wsVars, session, saved,
                   starts, faults, known, snapshot>>

\* A folder comes to hold another notebook, or a copy of one that is elsewhere.
Replaced(root, n) ==
    /\ Outside
    /\ OpenAt(root) = {} \/ ~running
    /\ config[root] # n
    /\ Copies \/ \A r \in Roots: config[r] # n
    /\ config' = [config EXCEPT ![root] = n]
    /\ UNCHANGED <<reach, notes, recover, runVars, open, buffers, wsVars, session, saved,
                   starts, faults, known, snapshot>>

\* The calls of the consumer, so many of them.
Calls ==
    /\ calls < MaxCalls
    /\ calls' = calls + 1
    /\ \/ \E root \in Roots, readOnly \in BOOLEAN:
            NotebookOpenEx(root, readOnly)
       \/ \E root \in Roots: NotebookCreate(root)
       \/ \E n \in Notebooks: NotebookClose(n)
       \/ \E root \in Roots: BufferOpen(root)
       \/ BufferOpenVirtual
       \/ \E b \in Open: BufferClose(b)
       \/ \E w \in Workspaces: (OnWorkspaces(w) \/ OnBufferLists(w)) /\ WorkspaceCall

Surroundings ==
    /\ \/ ContextCreate \/ RemoveSessionFile
       \/ PrepareShutdown \/ CancelShutdown \/ ContextDestroy \/ Crash
       \/ \E root \in Roots: OutOfReach(root) \/ NoteGone(root)
       \/ \E root \in Roots, n \in Notebooks: Replaced(root, n)
    /\ UNCHANGED calls

Next == Calls \/ Surroundings

Spec == Init /\ [][Next]_vars

-----------------------------------------------------------------------------
(* Properties *)

\* Every buffer points to the notebook object that is open under its id: nothing closes
\* or replaces a notebook below its buffers.
BuffersHaveTheirNotebook ==
    running => \A b \in Open: buffers[b] = Virtual
                   \/ (open[buffers[b].nb] # None /\ open[buffers[b].nb].root = buffers[b].root)

\* A notebook the user has opened and not closed keeps its record, and stays
\* read-only if it was opened so: whatever is out of reach at a start, whatever id
\* the folder has come to hold, however records are healed.
KnownNotebooksStay ==
    \A root \in Roots: known[root] # None /\ (running \/ saved = session) =>
        \E r \in ToSet(session.notebooks):
            r.root = root /\ (known[root] = "ro" => r.readOnly)

\* What the teardown does after prepare_shutdown (closing notebooks, buffers and
\* workspaces) does not reach the buffers and workspaces of the session file.
SnapshotSurvivesTeardown ==
    shutdown /\ snapshot # None =>
        /\ session.buffers = snapshot.buffers
        /\ session.workspaces = snapshot.workspaces
        /\ session.current = snapshot.current

\* A start brings back every buffer of the last run whose notebook can be loaded and
\* whose note is there, every list of buffers, in its order, less those that are gone,
\* and the current workspace; after a crash as well, if the last write of the file was
\* complete. A list may have more than in the last run, when that could not load them.
Restorable(b) ==
    /\ buffers[b] \notin {None, Virtual}
    /\ open'[buffers[b].nb] # None
    /\ open'[buffers[b].nb].root \in notes

StartRestores ==
    [][ContextCreate /\ recover /\ starts > 0 /\ ~shutdown /\ saved = session =>
        /\ \A b \in Bufs: Restorable(b) => buffers'[b] # None
        /\ \A w \in Workspaces: workspaces[w] # None =>
            /\ workspaces'[w] # None
            /\ Only(workspaces'[w].bufs, ToSet(workspaces[w].bufs))
                 = Only(workspaces[w].bufs, {b \in Bufs: buffers'[b] # None})
        /\ current # None => current' = current]_vars
==============================================================================
