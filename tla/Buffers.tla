------------------------------- MODULE Buffers -------------------------------
(* The open buffers of one notebook (buffer.cpp, buffer_manager.cpp) over the files,
   the backup files (.vswp) and the index of its notes, with the other programs that
   write the same files and with the end of the process at any point.

   A text is the text some edit gave to some note, so that a text that reaches the
   file of another note is told apart; Blank is no bytes at all, Torn is what a write
   that did not finish leaves behind. A call of the API is one step: the consumer
   holds its calls apart, and no other program is taken to write a file in the middle
   of a call on it. *)
EXTENDS Naturals, FiniteSets

CONSTANTS
    Notes,        \* ids of notes
    Paths,        \* where a note can be
    Ids,          \* ids of buffers
    Versions,     \* texts one note can be given
    None,
    Consumer,     \* what the consumer takes care of, a subset of Cares
    MaxFaults,    \* bound on failing writes and reads
    MaxForeign,   \* bound on changes by other programs
    MaxRestarts   \* bound on ends of the process

\* A consumer that cares loads a buffer before it saves it, closes the buffer of a note
\* and so drops its backup before the note is deleted, saves or drops a backup before
\* the note is renamed.
Cares == {"loads", "closes", "settles"}

Texts == [of: Notes, v: Versions]
Blank == [of |-> None, v |-> 0]
Torn == [of |-> None, v |-> 1]
Contents == Texts \cup {Blank, Torn}

States == {"normal", "missing", "changed", "saveFailed"}

\* How the time a buffer has for its file compares with that of the file: "never" is 0.
Stamps == {"never", "same", "other"}

Buffer == [path: Paths, node: Notes \cup {None}, text: Contents, loaded: BOOLEAN,
           modified: BOOLEAN, state: States, stamp: Stamps]

ConstantsAssumption ==
    /\ None \notin Notes \cup Paths \cup Ids \cup Contents \cup Buffer
    /\ Consumer \subseteq Cares
    /\ {MaxFaults, MaxForeign, MaxRestarts} \subseteq Nat

ASSUME ConstantsAssumption

VARIABLES
    index,     \* path -> note the folder configs and the store have there
    file,      \* path -> what the file holds, None if there is none
    backup,    \* path -> what the .vswp file beside it holds
    buffers,   \* id -> the open buffer
    session,   \* id -> path, as in the session file
    faults, foreign, restarts,
    kept,      \* ghost: note -> the text the code has last said to have on disk
    harmed     \* ghost: notes that have met a failure the code passes over

vars == <<index, file, backup, buffers, session, faults, foreign, restarts, kept, harmed>>
bounds == <<faults, foreign, restarts, harmed>>
disk == <<index, file, backup>>

Open == {b \in Ids: buffers[b] # None}

TypeOK ==
    /\ index \in [Paths -> Notes \cup {None}]
    /\ file \in [Paths -> Contents \cup {None}]
    /\ backup \in [Paths -> Contents \cup {None}]
    /\ buffers \in [Ids -> Buffer \cup {None}]
    /\ session \in [Ids -> Paths \cup {None}]
    /\ kept \in [Notes -> Texts \cup {None}]
    /\ harmed \subseteq Notes \cup {None}

Init ==
    /\ index = [p \in Paths |-> None]
    /\ file = [p \in Paths |-> None]
    /\ backup = [p \in Paths |-> None]
    /\ buffers = [b \in Ids |-> None]
    /\ session = [b \in Ids |-> None]
    /\ faults = 0 /\ foreign = 0 /\ restarts = 0
    /\ kept = [n \in Notes |-> None]
    /\ harmed = {}

AnyFault == faults < MaxFaults /\ faults' = faults + 1 /\ UNCHANGED <<foreign, restarts>>
Fault == AnyFault /\ UNCHANGED harmed

\* A failure the code does not report, or takes back the report of.
PassedOver(buf) == AnyFault /\ harmed' = harmed \cup {buf.node}

NoFault == UNCHANGED bounds

-----------------------------------------------------------------------------
(* Buffer *)

\* The constructor: nothing is loaded, and the provider keeps the id the note at the
\* path has now.
NewBuffer(p) ==
    [path |-> p, node |-> index[p], text |-> Blank, loaded |-> FALSE, modified |-> FALSE,
     state |-> "normal", stamp |-> "never"]

\* What LoadContent can make of a buffer. A file that is not there, or cannot be
\* opened, leaves the text alone; a read that fails takes it away, and all that tells is
\* the state, which the next check sets right since the time has not changed.
Loaded(buf) ==
    [buf EXCEPT !.text = file[buf.path], !.loaded = TRUE, !.modified = FALSE,
                !.state = "normal", !.stamp = "same"]

NotFound(buf) == [buf EXCEPT !.state = "missing"]
ReadFailed(buf) == [buf EXCEPT !.state = "missing", !.text = Blank]

LoadContent(b, buf) ==
    \/ /\ file[buf.path] # None
       /\ buffers' = [buffers EXCEPT ![b] = Loaded(buf)]
       /\ NoFault
    \/ /\ file[buf.path] = None
       /\ buffers' = [buffers EXCEPT ![b] = NotFound(buf)]
       /\ NoFault
    \/ /\ file[buf.path] # None
       /\ Fault
       /\ buffers' = [buffers EXCEPT ![b] = NotFound(buf)]
    \/ /\ file[buf.path] # None
       /\ PassedOver(buf)
       /\ buffers' = [buffers EXCEPT ![b] = ReadFailed(buf)]

\* Buffers that had seen the file at a path see that it has another time.
Restamped(buf) == [buf EXCEPT !.stamp = IF @ = "same" THEN "other" ELSE @]

Outdated(bufs, p) ==
    [b \in Ids |->
        IF bufs[b] # None /\ bufs[b].path = p THEN Restamped(bufs[b]) ELSE bufs[b]]

Saved(buf) ==
    [buf EXCEPT !.state = "normal", !.modified = FALSE, !.stamp = "same"]

NotSaved(buf) == [buf EXCEPT !.state = "saveFailed"]

\* SaveContent writes the file in place: outcome, buffer afterwards, file afterwards.
\* close() is not looked at, so that bytes lost there are not noticed.
Written(b, buf) ==
    /\ file' = [file EXCEPT ![buf.path] = buf.text]
    /\ buffers' = [Outdated(buffers, buf.path) EXCEPT ![b] = Saved(buf)]
    /\ NoFault

WriteFails(b, buf) ==
    /\ Fault
    /\ \/ /\ buffers' = [buffers EXCEPT ![b] = NotSaved(buf)]
          /\ UNCHANGED file
       \/ /\ file' = [file EXCEPT ![buf.path] = Torn]
          /\ buffers' = [Outdated(buffers, buf.path) EXCEPT ![b] = Restamped(NotSaved(buf))]

FlushLost(b, buf) ==
    /\ PassedOver(buf)
    /\ file' = [file EXCEPT ![buf.path] = Torn]
    /\ buffers' = [Outdated(buffers, buf.path) EXCEPT ![b] = Saved(buf)]

NoBackup(p) == backup' = [backup EXCEPT ![p] = None]

-----------------------------------------------------------------------------
(* What the code has answered for: a ghost. A text counts once a save, a recovery or a
   backup has succeeded. Writing over its only copy gives it up, since both a save
   and a backup truncate in place; so do the calls that say so, and other programs. *)

TextOf(n) == [p \in {q \in Paths: index[q] = n} |-> {file[p], backup[p]}]
OnDisk(n) == UNION {TextOf(n)[p]: p \in DOMAIN TextOf(n)}

Keeps(n, text) == kept' = [kept EXCEPT ![n] = text]

\* The consumer and other programs write the text of the note they see at a path.
Acknowledged(p, text) ==
    IF index[p] = None THEN UNCHANGED kept
    ELSE Keeps(index[p], IF text \in Texts THEN text ELSE None)

\* What is kept of the note at a path once only one of its two files is still whole.
KeptBy(p, other) ==
    IF index[p] = None \/ kept[index[p]] = other THEN UNCHANGED kept
    ELSE Keeps(index[p], None)

-----------------------------------------------------------------------------
(* Calls of the consumer on buffers *)

Persisted(bufs) == [b \in Ids |-> IF bufs[b] = None THEN None ELSE bufs[b].path]

BufferAt(p) == {b \in Open: buffers[b].path = p}

\* A buffer that is open at the path is returned as it is.
OpenBuffer(p) ==
    IF BufferAt(p) # {} THEN UNCHANGED buffers
    ELSE \E b \in Ids \ Open: buffers' = [buffers EXCEPT ![b] = NewBuffer(p)]

PersistSession == session' = Persisted(buffers')

\* A file that is not on disk is refused.
BufferOpen(p) ==
    /\ file[p] # None
    /\ OpenBuffer(p)
    /\ PersistSession
    /\ UNCHANGED <<disk, bounds, kept>>

\* The note is looked up by its id first.
BufferOpenByNodeId(n) == \E p \in Paths: index[p] = n /\ BufferOpen(p)

\* Closing a buffer gives its backup up.
CloseBuffer(b) == NoBackup(buffers[b].path) /\ buffers' = [buffers EXCEPT ![b] = None]

BufferClose(b) ==
    LET p == buffers[b].path IN
    /\ CloseBuffer(b)
    /\ PersistSession
    /\ KeptBy(p, file[p])
    /\ UNCHANGED <<index, file, bounds>>

\* The first look at the text reads the file.
GetBufferContent(b) ==
    /\ ~buffers[b].loaded
    /\ LoadContent(b, buffers[b])
    /\ UNCHANGED <<disk, session, kept>>

ReloadBuffer(b) ==
    /\ LoadContent(b, buffers[b])
    /\ UNCHANGED <<disk, session, kept>>

\* The consumer types into the note it has opened.
Edited(buf, text) == [buf EXCEPT !.text = text, !.modified = TRUE, !.loaded = TRUE]

SetBufferContent(b) ==
    /\ buffers[b].node # None
    /\ \E v \in Versions:
          buffers' = [buffers EXCEPT ![b] = Edited(@, [of |-> buffers[b].node, v |-> v])]
    /\ UNCHANGED <<disk, session, bounds, kept>>

\* A save that is answered OK drops the backup.
DropAfterSave(b) ==
    LET p == buffers[b].path IN
    IF buffers'[b].state = "normal" THEN NoBackup(p) ELSE UNCHANGED backup

\* A buffer that was not loaded has a text that nobody gave it.
SaveBuffer(b) ==
    LET buf == buffers[b]  p == buf.path IN
    /\ "loads" \in Consumer => buf.loaded
    /\ \/ /\ Written(b, buf) \/ FlushLost(b, buf)
          /\ IF buf.loaded THEN Acknowledged(p, buf.text) ELSE UNCHANGED kept
       \/ WriteFails(b, buf) /\ KeptBy(p, backup[p])
    /\ DropAfterSave(b)
    /\ UNCHANGED <<index, session>>

CheckedByTime(buf) ==  \* mutant
    IF file[buf.path] = None THEN NotFound(buf)
    ELSE [buf EXCEPT !.stamp = "same", !.state = "normal"]

\* The text is compared with the file only when the times differ; the time is taken
\* over only when the text is the same.
Checked(buf) ==
    IF file[buf.path] = None THEN NotFound(buf)
    ELSE IF buf.stamp = "same" \/ file[buf.path] = buf.text
    THEN [buf EXCEPT !.stamp = "same",
                     !.state = IF @ \in {"changed", "missing"} THEN "normal" ELSE @]
    ELSE [buf EXCEPT !.state = "changed"]

CheckExternalChanges(b) ==
    /\ buffers[b].loaded \/ buffers[b].stamp # "never"
    /\ buffers' = [buffers EXCEPT ![b] = Checked(@)]
    /\ UNCHANGED <<disk, session, bounds, kept>>

\* The backup is written in place too; the result of its close() is looked at.
WriteBackup(b) ==
    LET buf == buffers[b]  p == buf.path IN
    /\ buf.loaded
    /\ \/ /\ backup' = [backup EXCEPT ![p] = buf.text]
          /\ NoFault
          /\ Acknowledged(p, buf.text)
       \/ /\ Fault
          /\ \/ UNCHANGED <<backup, kept>>
             \/ backup' = [backup EXCEPT ![p] = Torn] /\ KeptBy(p, file[p])
    /\ UNCHANGED <<index, file, buffers, session>>

\* The text of the backup becomes that of the buffer and of the file; only then is the
\* backup removed, which may fail. A backup cut within its header is refused.
Recovered(b) == Edited(buffers[b], backup[buffers[b].path])

Removed(p, buf) == NoBackup(p)  \* mutant
RemovedIfSaved(p, buf) == IF buf.state # "saveFailed" THEN NoBackup(p) ELSE UNCHANGED backup

RecoverBackup(b) ==
    LET p == buffers[b].path IN
    /\ backup[p] # None
    /\ \/ (Written(b, Recovered(b)) \/ FlushLost(b, Recovered(b)))
            /\ Acknowledged(p, backup[p])
       \/ WriteFails(b, Recovered(b)) /\ KeptBy(p, backup[p])
    /\ RemovedIfSaved(p, buffers'[b])
    /\ UNCHANGED <<index, session>>

DiscardBackup(b) ==
    LET p == buffers[b].path IN
    /\ backup[p] # None
    /\ NoBackup(p)
    /\ KeptBy(p, file[p])
    /\ UNCHANGED <<index, file, buffers, session, bounds>>

-----------------------------------------------------------------------------
(* Calls of the consumer on notes *)

CreateFile(p, n) ==
    /\ index[p] = None /\ file[p] = None
    /\ \A q \in Paths: index[q] # n
    /\ index' = [index EXCEPT ![p] = n]
    /\ file' = [file EXCEPT ![p] = Blank]
    /\ Keeps(n, None)
    /\ UNCHANGED <<backup, buffers, session, bounds>>

\* UpdatePaths: a buffer whose provider knows the note follows it to its new path. The
\* path of the backup is forgotten first, so that what is discarded is a backup beside
\* the new path.
FollowPath(buf, n, q) == buf.path = q  \* mutant
Follow(buf, n, q) == buf.node = n /\ buf.path # q

UpdatePaths(n, q) ==
    LET moved == {b \in Open: Follow(buffers[b], n, q)} IN
    /\ buffers' = [b \in Ids |->
            IF b \in moved THEN [buffers[b] EXCEPT !.path = q] ELSE buffers[b]]
    /\ backup' = IF moved # {} THEN [backup EXCEPT ![q] = None] ELSE backup
    /\ session' = IF moved # {} THEN Persisted(buffers') ELSE session

\* RenameFile or MoveFile, then UpdatePaths.
NodeMove(p, q) ==
    /\ index[p] # None /\ file[p] # None
    /\ index[q] = None /\ file[q] = None
    /\ "settles" \in Consumer => backup[p] = None
    /\ index' = [index EXCEPT ![p] = None, ![q] = index[p]]
    /\ file' = [file EXCEPT ![p] = None, ![q] = file[p]]
    /\ UpdatePaths(index[p], q)
    /\ KeptBy(p, file[p])
    /\ UNCHANGED bounds

\* The note goes to the recycle bin; its buffers and its backup are not looked at.
NodeDelete(p) ==
    /\ index[p] # None
    /\ "closes" \in Consumer => BufferAt(p) = {} /\ backup[p] = None
    /\ index' = [index EXCEPT ![p] = None]
    /\ file' = [file EXCEPT ![p] = None]
    /\ Keeps(index[p], None)
    /\ UNCHANGED <<backup, buffers, session, bounds>>

-----------------------------------------------------------------------------
(* The world around *)

\* Another program, or the sync backend's checkout, writes the note, takes it away,
\* brings it back, or writes what is there already.
OtherProgram(p) ==
    /\ index[p] # None
    /\ foreign < MaxForeign
    /\ foreign' = foreign + 1
    /\ \E t \in {[of |-> index[p], v |-> v]: v \in Versions} \cup {None}:
          /\ file' = [file EXCEPT ![p] = t]
          /\ buffers' = IF t = None THEN buffers ELSE Outdated(buffers, p)
    /\ KeptBy(p, backup[p])
    /\ UNCHANGED <<index, backup, session, faults, restarts, harmed>>

\* The process ends at any point, and the session is loaded again: a record whose file
\* is not there is left out.
LoadBuffers ==
    [b \in Ids |-> IF session[b] # None /\ file[session[b]] # None
                   THEN NewBuffer(session[b]) ELSE None]

Restart ==
    /\ restarts < MaxRestarts
    /\ restarts' = restarts + 1
    /\ buffers' = LoadBuffers
    /\ UNCHANGED <<disk, session, faults, foreign, kept, harmed>>

Next ==
    \/ \E p \in Paths: BufferOpen(p) \/ NodeDelete(p) \/ OtherProgram(p)
    \/ \E p, q \in Paths: NodeMove(p, q)
    \/ \E p \in Paths, n \in Notes: CreateFile(p, n)
    \/ \E n \in Notes: BufferOpenByNodeId(n)
    \/ \E b \in Open:
        \/ BufferClose(b) \/ GetBufferContent(b) \/ ReloadBuffer(b) \/ SetBufferContent(b)
        \/ SaveBuffer(b) \/ CheckExternalChanges(b)
        \/ WriteBackup(b) \/ RecoverBackup(b) \/ DiscardBackup(b)
    \/ Restart

Spec == Init /\ [][Next]_vars

-----------------------------------------------------------------------------
(* Properties *)

\* A note is open in one buffer at most, and the buffer is at the path of its note, so
\* that a save cannot reach another note: opening looks for the buffer by path, and a
\* rename moves the path of every buffer of the note.
OneBufferPerNote ==
    /\ \A b, c \in Open: b # c => buffers[b].path # buffers[c].path
    /\ \A b \in Open: buffers[b].node = index[buffers[b].path]

\* No text ends up in the file or in the backup of another note, whatever is renamed,
\* deleted, created in its place, recovered or reopened.
TextsStayWithTheirNote ==
    \A p \in Paths:
        {file[p], backup[p]} \subseteq
            {None, Blank, Torn} \cup {[of |-> index[p], v |-> v]: v \in Versions}

\* A buffer in its normal state whose time is that of the file, and that has no edit,
\* shows the text of the file: CheckExternalChanges believes the time.
ShowsTheFile(buf) ==
    buf.stamp = "same" /\ buf.state = "normal" /\ ~buf.modified
        => file[buf.path] \in {buf.text, None}

\* Only a failure that is passed over makes an exception.
CleanBuffersShowTheFile ==
    \A b \in Open: buffers[b].node \in harmed \/ ShowsTheFile(buffers[b])

\* What a save, a backup or a recovery has put on disk stays there until it is
\* overwritten or given up: a failing save or recovery leaves the backup, and ends of
\* the process change nothing.
KeptTextsStay ==
    \A n \in Notes \ harmed: kept[n] # None => kept[n] \in OnDisk(n)

-----------------------------------------------------------------------------
(* What the header says, and the code does not do *)

\* vxcore.h: vxcore_buffer_save and vxcore_buffer_recover_backup save the content to
\* disk. A buffer that has just been saved is what the file holds.
SavedBuffersAreOnDisk == \A b \in Open: ShowsTheFile(buffers[b])
==============================================================================
