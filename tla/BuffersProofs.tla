---------------------------- MODULE BuffersProofs ----------------------------
(***************************************************************************)
(* Proofs about Buffers, for every set of notes, paths, buffers and texts  *)
(* and for any number of failures, foreign changes and ends of the process. *)
(***************************************************************************)
EXTENDS Buffers, TLAPS

\* The consumer closes the buffer of a note, and so drops its backup, before it
\* deletes the note, and saves or drops a backup before it renames the note:
\* NodeDelete and NodeMove look at neither.
ClosesAndSettles == {"closes", "settles"} \subseteq Consumer

\* The texts of note n, and what is no text.
TextsOf(n) == {Blank, Torn} \cup {[of |-> n, v |-> v]: v \in Versions}

\* Unedited, and with the time of the file, whatever the state says: the state
\* can still become normal while nothing is read.
Shows(buf) == buf.stamp = "same" /\ ~buf.modified => file[buf.path] \in {buf.text, None}

-----------------------------------------------------------------------------
(* The inductive invariant *)

\* A note is at one path, and what lies at a path belongs to a note.
PathsOfNotes ==
    /\ \A p, q \in Paths: index[p] # None /\ index[p] = index[q] => p = q
    /\ \A p \in Paths: file[p] # None \/ backup[p] # None => index[p] # None

\* A buffer is at the path of its note; no two buffers, and no two records of the
\* session file, have one path.
PathsOfBuffers ==
    /\ \A b \in Open: buffers[b].node \in Notes /\ buffers[b].node = index[buffers[b].path]
    /\ \A b, c \in Open: buffers[b].path = buffers[c].path => b = c
    /\ \A b, c \in Ids: session[b] # None /\ session[b] = session[c] => b = c

OwnTexts ==
    /\ \A b \in Open: buffers[b].text \in TextsOf(buffers[b].node)
    /\ \A p \in Paths: {file[p], backup[p]} \subseteq TextsOf(index[p]) \cup {None}

BuffersShow == \A b \in Open: buffers[b].node \in harmed \/ Shows(buffers[b])

\* The consumer loads a buffer before it saves it.
Loads == "loads" \in Consumer

\* What is kept of a note is in its file or in its backup.
KeptSomewhere ==
    Loads => \A n \in Notes \ harmed: kept[n] # None =>
        \E p \in Paths: index[p] = n /\ kept[n] \in {file[p], backup[p]}

IInv ==
    TypeOK /\ PathsOfNotes /\ PathsOfBuffers /\ OwnTexts /\ BuffersShow /\ KeptSomewhere

-----------------------------------------------------------------------------
(* What the functions of Buffer do to one buffer *)

\* A buffer that stays at its path and with its note.
Same(new, buf) == new \in Buffer /\ new.path = buf.path /\ new.node = buf.node

\* SetContent gives a text, a failed read takes it away.
LEMMA TextChanged ==
    ASSUME NEW buf \in Buffer
    PROVE  /\ \A t \in Contents: LET new == Edited(buf, t) IN
                Same(new, buf) /\ new.text = t /\ new.modified
           /\ LET new == ReadFailed(buf) IN Same(new, buf) /\ new.text = Blank
<1>1. buf.text \in Contents /\ Blank \in Contents
  BY DEF Buffer, Contents
<1>2. ASSUME NEW t \in Contents PROVE Edited(buf, t) \in Buffer
  BY Zenon DEF Edited, Buffer
<1>3. ReadFailed(buf) \in Buffer
  BY Zenon, <1>1 DEF ReadFailed, Buffer, States
<1> QED
  BY Zenon, <1>2, <1>3 DEF Edited, ReadFailed, Same, Buffer

\* The others keep it.
LEMMA TextKept ==
    ASSUME NEW buf \in Buffer
    PROVE  /\ LET new == NotFound(buf) IN Same(new, buf) /\ new.text = buf.text
                /\ new.modified = buf.modified /\ new.stamp = buf.stamp
           /\ LET new == NotSaved(buf) IN Same(new, buf) /\ new.text = buf.text
                /\ new.modified = buf.modified /\ new.stamp = buf.stamp
                /\ new.state = "saveFailed"
           /\ LET new == Restamped(buf) IN Same(new, buf) /\ new.text = buf.text
                /\ new.modified = buf.modified /\ new.stamp # "same"
                /\ new.state = buf.state
           /\ LET new == Saved(buf) IN Same(new, buf) /\ new.text = buf.text
                /\ new.state = "normal"
<1>1. NotFound(buf) \in Buffer
  BY Zenon DEF NotFound, Buffer, States
<1>2. NotSaved(buf) \in Buffer
  BY Zenon DEF NotSaved, Buffer, States
<1>3. (IF buf.stamp = "same" THEN "other" ELSE buf.stamp) \in Stamps \ {"same"}
  BY DEF Buffer, Stamps
<1>4. Restamped(buf) \in Buffer /\ Restamped(buf).stamp # "same"
  BY Zenon, <1>3 DEF Restamped, Buffer
<1>5. Saved(buf) \in Buffer
  BY Zenon DEF Saved, Buffer, States, Stamps
<1> QED
  BY Zenon, <1>1, <1>2, <1>4, <1>5 DEF NotFound, NotSaved, Restamped, Saved, Same, Buffer

\* LoadContent makes a buffer of what the file holds.
LEMMA TextLoaded ==
    ASSUME TypeOK, NEW buf \in Buffer, file[buf.path] # None
    PROVE  Same(Loaded(buf), buf) /\ Loaded(buf).text = file[buf.path]
<1>1. buf.path \in Paths /\ file[buf.path] \in Contents
  BY DEF TypeOK, Buffer
<1>2. Loaded(buf) \in Buffer
  BY Zenon, <1>1 DEF Loaded, Buffer, States, Stamps
<1> QED
  BY Zenon, <1>2 DEF Loaded, Same, Buffer

\* CheckExternalChanges takes the time of the file over only if the texts are equal
\* or the times were.
LEMMA TextChecked ==
    ASSUME NEW buf \in Buffer
    PROVE  LET new == Checked(buf) IN
           /\ Same(new, buf) /\ new.text = buf.text /\ new.modified = buf.modified
           /\ Shows(buf) => Shows(new)
<1> DEFINE state == IF buf.state \in {"changed", "missing"} THEN "normal" ELSE buf.state
           stamped == [buf EXCEPT !.stamp = "same", !.state = state]
           changed == [buf EXCEPT !.state = "changed"]
<1>1. state \in States
  BY DEF Buffer, States
<1>2. stamped \in Buffer
  BY Zenon, <1>1 DEF Buffer, Stamps
<1>3. changed \in Buffer
  BY Zenon DEF Buffer, States
<1>4. Same(stamped, buf) /\ stamped.text = buf.text /\ stamped.modified = buf.modified
  BY Zenon, <1>2 DEF Same, Buffer
<1>5. Same(changed, buf) /\ changed.text = buf.text /\ changed.modified = buf.modified
      /\ changed.stamp = buf.stamp
  BY Zenon, <1>3 DEF Same, Buffer
<1>6. CASE file[buf.path] = None
  BY <1>6, TextKept DEF Checked, Shows, Same
<1>7. CASE file[buf.path] # None /\ (buf.stamp = "same" \/ file[buf.path] = buf.text)
  <2>1. Checked(buf) = stamped
    BY Zenon, <1>7 DEF Checked
  <2> HIDE DEF stamped
  <2> QED
    BY <1>4, <1>7, <2>1 DEF Shows, Same
<1>8. CASE file[buf.path] # None /\ ~(buf.stamp = "same" \/ file[buf.path] = buf.text)
  <2>1. Checked(buf) = changed
    BY Zenon, <1>8 DEF Checked
  <2> HIDE DEF changed
  <2> QED
    BY <1>5, <1>8, <2>1 DEF Shows, Same
<1> QED
  BY <1>6, <1>7, <1>8

-----------------------------------------------------------------------------
(* The steps *)

\* None stands for no note, path, text and buffer.
LEMMA NoneIsNothing == None \notin Notes \cup Paths \cup Ids \cup Contents \cup Buffer
BY ConstantsAssumption DEF ConstantsAssumption

\* A call on buffer b, at path p with note n: nothing of other buffers, paths and
\* notes changes, and afterwards what is kept of n is on disk and the buffer, if it
\* has no edit and the time of the file, shows the file.
CallOn(b, p, n) ==
    /\ UNCHANGED <<index, session>>
    /\ file' \in [Paths -> Contents \cup {None}] /\ backup' \in [Paths -> Contents \cup {None}]
    /\ \A q \in Paths \ {p}: file'[q] = file[q] /\ backup'[q] = backup[q]
    /\ {file'[p], backup'[p]} \subseteq TextsOf(n) \cup {None}
    /\ kept' \in [Notes -> Texts \cup {None}]
    /\ \A m \in Notes \ {n}: kept'[m] = kept[m]
    /\ harmed \subseteq harmed' /\ harmed' \subseteq Notes \cup {None}
    /\ buffers' \in [Ids -> Buffer \cup {None}]
    /\ \A c \in Ids \ {b}: buffers'[c] = buffers[c]
    /\ Same(buffers'[b], buffers[b]) /\ buffers'[b].text \in TextsOf(n)
    /\ n \in harmed' \/ Shows(buffers[b])'
    /\ ~Loads \/ n \in harmed' \/ kept'[n] \in {None, file'[p], backup'[p]}

\* Where an open buffer is, and what the invariant says of it there.
AtNote(b, p, n) ==
    /\ buffers[b].path = p /\ buffers[b].node = n /\ index[p] = n
    /\ b \in Ids /\ buffers[b] \in Buffer /\ buffers[b].text \in TextsOf(n)
    /\ n \in harmed \/ Shows(buffers[b])
    /\ ~Loads \/ n \in harmed \/ kept[n] \in {None, file[p], backup[p]}
    /\ {file[p], backup[p]} \subseteq TextsOf(n) \cup {None}

\* Every open buffer is at its note.
LEMMA AtItsNote ==
    ASSUME IInv, NEW b \in Open
    PROVE  \E p \in Paths, n \in Notes: AtNote(b, p, n)
<1>1. b \in Ids /\ buffers[b] \in Buffer
  BY DEF IInv, TypeOK, Open
<1>2. buffers[b].path \in Paths /\ buffers[b].node \in Notes
      /\ index[buffers[b].path] = buffers[b].node
  BY <1>1 DEF IInv, PathsOfBuffers, Buffer
<1>3. \A p \in Paths: index[p] = buffers[b].node => p = buffers[b].path
  BY <1>2, NoneIsNothing DEF IInv, PathsOfNotes
<1>4. PICK p \in Paths, n \in Notes: p = buffers[b].path /\ n = buffers[b].node
  BY <1>2
<1>5. ~Loads \/ n \in harmed \/ kept[n] \in {None, file[p], backup[p]}
  BY <1>2, <1>3, <1>4 DEF IInv, KeptSomewhere
<1>6. n \in harmed \/ Shows(buffers[b])
  BY <1>4 DEF IInv, BuffersShow
<1>7. buffers[b].text \in TextsOf(n) /\ {file[p], backup[p]} \subseteq TextsOf(n) \cup {None}
  BY <1>2, <1>4 DEF IInv, OwnTexts
<1> QED
  BY <1>1, <1>2, <1>4, <1>5, <1>6, <1>7 DEF AtNote

\* Such a call keeps the invariant.
LEMMA CallKeeps ==
    ASSUME IInv, NEW b \in Open, NEW p \in Paths, NEW n \in Notes,
           buffers[b].path = p, buffers[b].node = n, index[p] = n, CallOn(b, p, n)
    PROVE  IInv'
<1>1. /\ b \in Ids /\ buffers'[b] \in Buffer /\ buffers'[b] # None
      /\ buffers'[b].path = p /\ buffers'[b].node = n
  BY NoneIsNothing DEF CallOn, Same, Open
<1>2. Open' = Open
  BY <1>1 DEF Open, CallOn
<1>3. \A c \in Open \ {b}: c \in Ids /\ buffers'[c] = buffers[c] /\ buffers[c].path \in Paths \ {p}
  BY DEF CallOn, IInv, PathsOfBuffers, TypeOK, Open, Buffer
<1>4. TypeOK'
  BY DEF IInv, TypeOK, CallOn
<1>5. PathsOfNotes'
  BY NoneIsNothing DEF IInv, PathsOfNotes, CallOn
<1>6. PathsOfBuffers'
  BY <1>1, <1>2, <1>3 DEF IInv, PathsOfBuffers, CallOn
<1>7. OwnTexts'
  BY <1>1, <1>2, <1>3 DEF IInv, OwnTexts, CallOn
<1>8. BuffersShow'
  BY <1>1, <1>2, <1>3 DEF IInv, BuffersShow, CallOn, Shows
<1>9. KeptSomewhere'
  <2>1. SUFFICES ASSUME Loads, NEW m \in Notes \ harmed', kept'[m] # None
                 PROVE  \E q \in Paths: index'[q] = m /\ kept'[m] \in {file'[q], backup'[q]}
    BY DEF KeptSomewhere
  <2>2. CASE m = n
    BY <2>1, <2>2 DEF CallOn
  <2>3. CASE m # n
    <3>1. PICK q \in Paths: index[q] = m /\ kept[m] \in {file[q], backup[q]}
      BY <2>1, <2>3 DEF IInv, KeptSomewhere, CallOn
    <3> QED
      BY <2>3, <3>1 DEF CallOn
  <2> QED
    BY <2>2, <2>3
<1> QED
  BY <1>4, <1>5, <1>6, <1>7, <1>8, <1>9 DEF IInv

\* The texts of a note, Blank and Torn are contents of files.
LEMMA TextsOfNote ==
    ASSUME NEW n \in Notes
    PROVE  /\ TextsOf(n) \subseteq Contents /\ Blank \in TextsOf(n) /\ Torn \in TextsOf(n)
           /\ \A v \in Versions: [of |-> n, v |-> v] \in TextsOf(n)
BY DEF TextsOf, Contents, Texts

\* The types of what a call changes.
Typed(n) ==
    /\ file \in [Paths -> Contents \cup {None}] /\ backup \in [Paths -> Contents \cup {None}]
    /\ kept \in [Notes -> Texts \cup {None}] /\ harmed \subseteq Notes \cup {None}
    /\ TextsOf(n) \subseteq Contents /\ Blank \in TextsOf(n) /\ Torn \in TextsOf(n)
    /\ Texts \subseteq Contents /\ buffers \in [Ids -> Buffer \cup {None}]

\* They follow from the invariant.
LEMMA TypedTexts == ASSUME IInv, NEW n \in Notes PROVE Typed(n)
BY TextsOfNote DEF IInv, TypeOK, Contents, Typed

\* Other buffers are elsewhere: what happens to a file concerns one buffer.
LEMMA OnlyThisBuffer ==
    ASSUME IInv, NEW b \in Open, NEW new \in Buffer, buffers[b].path \in Paths
    PROVE  [Outdated(buffers, buffers[b].path) EXCEPT ![b] = new] = [buffers EXCEPT ![b] = new]
<1>1. \A c \in Ids \ {b}: Outdated(buffers, buffers[b].path)[c] = buffers[c]
  BY DEF Outdated, IInv, PathsOfBuffers, Open
<1>2. buffers = [c \in Ids |-> buffers[c]]
  BY DEF IInv, TypeOK
<1> QED
  BY <1>1, <1>2 DEF Outdated

\* A call that only replaces the buffer.
LEMMA BufferReplaced ==
    ASSUME IInv, NEW b \in Open, NEW new \in Buffer, buffers' = [buffers EXCEPT ![b] = new]
    PROVE  /\ buffers' \in [Ids -> Buffer \cup {None}] /\ buffers'[b] = new
           /\ \A c \in Ids \ {b}: buffers'[c] = buffers[c]
BY DEF IInv, TypeOK, Open

\* The outcomes of SaveContent for buffer b with the text of buf.
LEMMA WriteOutcomes ==
    ASSUME IInv, NEW b \in Open, NEW p \in Paths, NEW n \in Notes,
           buffers[b].path = p, buffers[b].node = n, index[p] = n,
           NEW buf \in Buffer, Same(buf, buffers[b]), buf.text \in TextsOf(n),
           Written(b, buf) \/ FlushLost(b, buf) \/ WriteFails(b, buf)
    PROVE  /\ file' \in [Paths -> Contents \cup {None}]
           /\ \A q \in Paths \ {p}: file'[q] = file[q]
           /\ file'[p] \in TextsOf(n) \cup {None}
           /\ harmed \subseteq harmed' /\ harmed' \subseteq Notes \cup {None}
           /\ buffers' \in [Ids -> Buffer \cup {None}]
           /\ \A c \in Ids \ {b}: buffers'[c] = buffers[c]
           /\ Same(buffers'[b], buffers[b]) /\ buffers'[b].text = buf.text
           /\ Written(b, buf) => file'[p] = buf.text /\ buffers'[b].state = "normal"
           /\ FlushLost(b, buf) => n \in harmed' /\ buffers'[b].state = "normal"
           /\ WriteFails(b, buf) =>
                /\ buffers'[b].state = "saveFailed" /\ buffers'[b].modified = buf.modified
                /\ buffers'[b].stamp = "same" => buf.stamp = "same" /\ file'[p] = file[p]
<1>1. PICK saved \in Buffer, failed \in Buffer, torn \in Buffer:
        saved = Saved(buf) /\ failed = NotSaved(buf) /\ torn = Restamped(NotSaved(buf))
  BY TextKept DEF Same
<1>2. /\ Same(saved, buf) /\ saved.text = buf.text /\ saved.state = "normal"
      /\ Same(failed, buf) /\ failed.text = buf.text /\ failed.state = "saveFailed"
      /\ failed.modified = buf.modified /\ failed.stamp = buf.stamp
      /\ Same(torn, buf) /\ torn.text = buf.text /\ torn.state = "saveFailed"
      /\ torn.modified = buf.modified /\ torn.stamp # "same"
  BY <1>1, TextKept DEF Same
<1>3. file \in [Paths -> Contents \cup {None}] /\ harmed \subseteq Notes \cup {None}
      /\ file[p] \in TextsOf(n) \cup {None}
  BY DEF IInv, TypeOK, OwnTexts
<1>4. buf.path = p /\ buf.node = n
  BY DEF Same
<1>5. ASSUME Written(b, buf) \/ FlushLost(b, buf)
      PROVE  /\ buffers' = [buffers EXCEPT ![b] = saved]
             /\ \E f \in TextsOf(n): file' = [file EXCEPT ![p] = f]
             /\ Written(b, buf) => file'[p] = buf.text
             /\ FlushLost(b, buf) => n \in harmed'
             /\ harmed \subseteq harmed' /\ harmed' \subseteq Notes \cup {None}
  <2>1. buffers' = [Outdated(buffers, p) EXCEPT ![b] = saved]
    BY <1>1, <1>4, <1>5 DEF Written, FlushLost
  <2>2. buffers' = [buffers EXCEPT ![b] = saved]
    BY <2>1, OnlyThisBuffer
  <2>3. \/ Written(b, buf) /\ file' = [file EXCEPT ![p] = buf.text] /\ harmed' = harmed
        \/ FlushLost(b, buf) /\ file' = [file EXCEPT ![p] = Torn] /\ harmed' = harmed \cup {n}
    BY <1>4, <1>5 DEF Written, FlushLost, NoFault, bounds, PassedOver
  <2>4. Written(b, buf) => file'[p] = buf.text
    BY <1>3, <1>4 DEF Written
  <2>5. FlushLost(b, buf) => n \in harmed'
    BY <1>4 DEF FlushLost, PassedOver
  <2> QED
    BY <1>3, <2>2, <2>3, <2>4, <2>5, TextsOfNote
<1>6. ASSUME WriteFails(b, buf)
      PROVE  /\ \/ buffers' = [buffers EXCEPT ![b] = failed] /\ file' = file
                \/ buffers' = [buffers EXCEPT ![b] = torn] /\ file' = [file EXCEPT ![p] = Torn]
             /\ harmed' = harmed
  <2>1. \/ buffers' = [buffers EXCEPT ![b] = failed] /\ file' = file
        \/ /\ buffers' = [Outdated(buffers, p) EXCEPT ![b] = torn]
           /\ file' = [file EXCEPT ![p] = Torn]
    BY <1>1, <1>4, <1>6 DEF WriteFails
  <2>2. [Outdated(buffers, p) EXCEPT ![b] = torn] = [buffers EXCEPT ![b] = torn]
    BY OnlyThisBuffer
  <2> QED
    BY <1>6, <2>1, <2>2 DEF WriteFails, Fault
<1>7. CASE Written(b, buf) \/ FlushLost(b, buf)
  <2>1. ~WriteFails(b, buf)
    <3>1. buffers'[b] = saved
      BY <1>5, <1>7, BufferReplaced
    <3>2. WriteFails(b, buf) => buffers'[b] \in {failed, torn}
      BY <1>6, BufferReplaced
    <3> QED
      BY <1>2, <3>1, <3>2
  <2> QED
    BY <1>2, <1>3, <1>5, <1>7, <2>1, BufferReplaced, TextsOfNote DEF Same
<1>8. CASE WriteFails(b, buf)
  <2>1. ~(Written(b, buf) \/ FlushLost(b, buf))
    <3>1. buffers'[b] \in {failed, torn}
      BY <1>6, <1>8, BufferReplaced
    <3>2. Written(b, buf) \/ FlushLost(b, buf) => buffers'[b] = saved
      BY <1>5, BufferReplaced
    <3> QED
      BY <1>2, <3>1, <3>2
  <2> QED
    BY <1>2, <1>3, <1>6, <1>8, <2>1, BufferReplaced, TextsOfNote DEF Same
<1> QED
  BY <1>7, <1>8

\* Reading the file, at the first look or again.
LEMMA LoadKeeps ==
    ASSUME IInv, NEW b \in Open, GetBufferContent(b) \/ ReloadBuffer(b)
    PROVE  IInv'
<1>1. PICK p \in Paths, n \in Notes: AtNote(b, p, n)
  BY AtItsNote
<1>2. Typed(n)
  BY TypedTexts
<1> USE DEF AtNote, Typed
<1>3. UNCHANGED <<index, file, backup, session, kept>> /\ LoadContent(b, buffers[b])
  BY DEF GetBufferContent, ReloadBuffer, disk
<1>4. harmed \subseteq harmed' /\ harmed' \subseteq Notes \cup {None}
  BY <1>1, <1>2, <1>3 DEF LoadContent, NoFault, bounds, Fault, PassedOver
<1>5. CASE file[p] # None /\ buffers' = [buffers EXCEPT ![b] = Loaded(buffers[b])]
  <2>1. PICK new \in Buffer: new = Loaded(buffers[b])
    BY <1>1, <1>5, TextLoaded DEF IInv, Same
  <2>2. Same(new, buffers[b]) /\ new.text = file[p]
    BY <1>1, <1>5, <2>1, TextLoaded DEF IInv
  <2> QED
    BY <1>1, <1>2, <1>3, <1>4, <1>5, <2>1, <2>2, BufferReplaced, CallKeeps
       DEF CallOn, Shows, Same
<1>6. CASE buffers' = [buffers EXCEPT ![b] = NotFound(buffers[b])]
  <2>1. PICK new \in Buffer: new = NotFound(buffers[b])
    BY <1>1, TextKept DEF Same
  <2>2. Same(new, buffers[b]) /\ new.text = buffers[b].text
        /\ new.modified = buffers[b].modified /\ new.stamp = buffers[b].stamp
    BY <1>1, <2>1, TextKept
  <2> QED
    BY <1>1, <1>2, <1>3, <1>4, <1>6, <2>1, <2>2, BufferReplaced, CallKeeps
       DEF CallOn, Shows, Same
<1>7. CASE PassedOver(buffers[b]) /\ buffers' = [buffers EXCEPT ![b] = ReadFailed(buffers[b])]
  <2>1. PICK new \in Buffer: new = ReadFailed(buffers[b])
    BY <1>1, TextChanged DEF Same
  <2>2. Same(new, buffers[b]) /\ new.text = Blank
    BY <1>1, <2>1, TextChanged
  <2>3. n \in harmed'
    BY <1>1, <1>7 DEF PassedOver
  <2> QED
    BY <1>1, <1>2, <1>3, <1>4, <1>7, <2>1, <2>2, <2>3, BufferReplaced, CallKeeps
       DEF CallOn, Same
<1> QED
  BY <1>1, <1>3, <1>5, <1>6, <1>7 DEF LoadContent

\* Typing into the buffer, and looking whether the file has changed.
LEMMA EditKeeps ==
    ASSUME IInv, NEW b \in Open, SetBufferContent(b) \/ CheckExternalChanges(b)
    PROVE  IInv'
<1>1. PICK p \in Paths, n \in Notes: AtNote(b, p, n)
  BY AtItsNote
<1>2. Typed(n)
  BY TypedTexts
<1> USE DEF AtNote, Typed
<1>3. UNCHANGED <<index, file, backup, session, kept, harmed>>
  BY DEF SetBufferContent, CheckExternalChanges, disk, bounds
<1>4. CASE SetBufferContent(b)
  <2>1. PICK v \in Versions: buffers' = [buffers EXCEPT ![b] = Edited(@, [of |-> n, v |-> v])]
    BY <1>1, <1>4 DEF SetBufferContent
  <2>2. PICK text \in TextsOf(n): text = [of |-> n, v |-> v]
    BY TextsOfNote
  <2>3. PICK new \in Buffer: new = Edited(buffers[b], text)
    BY <1>1, <1>2, TextChanged DEF Same
  <2>4. Same(new, buffers[b]) /\ new.text = text /\ new.modified
    BY <1>1, <1>2, <2>3, TextChanged
  <2>5. buffers' = [buffers EXCEPT ![b] = new]
    BY <2>1, <2>2, <2>3
  <2> QED
    BY <1>1, <1>2, <1>3, <2>4, <2>5, BufferReplaced, CallKeeps DEF CallOn, Shows, Same
<1>5. CASE CheckExternalChanges(b)
  <2>1. PICK new \in Buffer: new = Checked(buffers[b])
    BY <1>1, TextChecked DEF Same
  <2>2. /\ Same(new, buffers[b]) /\ new.text = buffers[b].text
        /\ Shows(buffers[b]) => Shows(new)
    BY <1>1, <2>1, TextChecked
  <2>3. buffers' = [buffers EXCEPT ![b] = new]
    BY <1>5, <2>1 DEF CheckExternalChanges
  <2> QED
    BY <1>1, <1>2, <1>3, <2>2, <2>3, BufferReplaced, CallKeeps DEF CallOn, Shows, Same
<1> QED
  BY <1>4, <1>5

\* Writing the backup beside the file, and dropping it.
LEMMA BackupKeeps ==
    ASSUME IInv, NEW b \in Open, WriteBackup(b) \/ DiscardBackup(b)
    PROVE  IInv'
<1>1. PICK p \in Paths, n \in Notes: AtNote(b, p, n)
  BY AtItsNote
<1>2. Typed(n)
  BY TypedTexts
<1> USE DEF AtNote, Typed
<1>3. UNCHANGED <<index, file, buffers, session>>
  BY DEF WriteBackup, DiscardBackup
<1>4. n # None
  BY NoneIsNothing
<1>5. harmed' = harmed
  BY DEF WriteBackup, DiscardBackup, NoFault, bounds, Fault
<1>6. PICK g \in TextsOf(n) \cup {None}, k \in Texts \cup {None}:
        /\ backup' = [backup EXCEPT ![p] = g] /\ kept' = [kept EXCEPT ![n] = k]
        /\ ~Loads \/ n \in harmed \/ k \in {None, g, file[p]}
  <2>1. CASE UNCHANGED <<backup, kept>>
    BY <1>1, <1>2, <2>1
  <2>2. CASE backup' = [backup EXCEPT ![p] = buffers[b].text] /\ Acknowledged(p, buffers[b].text)
    BY <1>1, <1>2, <1>4, <2>2 DEF Acknowledged, Keeps
  <2>3. CASE \/ backup' = [backup EXCEPT ![p] = Torn] /\ KeptBy(p, file[p])
             \/ backup' = [backup EXCEPT ![p] = None] /\ KeptBy(p, file[p])
    <3>1. PICK g \in TextsOf(n) \cup {None}: backup' = [backup EXCEPT ![p] = g]
      BY <1>2, <2>3
    <3>2. \E k \in {None, file[p]} \cap (Texts \cup {None}): kept' = [kept EXCEPT ![n] = k]
      BY <1>1, <1>2, <1>4, <2>3 DEF KeptBy, Keeps
    <3> QED
      BY <3>1, <3>2
  <2> QED
    BY <1>1, <2>1, <2>2, <2>3 DEF WriteBackup, DiscardBackup, NoBackup
<1> QED
  BY <1>1, <1>2, <1>3, <1>5, <1>6, CallKeeps, TextsOfNote DEF CallOn, Shows, Same

\* Saving: the backup is dropped only when the text is in the file, or was lost
\* without notice.
LEMMA SaveKeeps ==
    ASSUME IInv, NEW b \in Open, SaveBuffer(b)
    PROVE  IInv'
<1>1. PICK p \in Paths, n \in Notes: AtNote(b, p, n)
  BY AtItsNote
<1>2. Typed(n)
  BY TypedTexts
<1> USE DEF AtNote, Typed
<1>3. PICK buf \in Buffer: buf = buffers[b]
  BY <1>1
<1>4. /\ \/ /\ Written(b, buf) \/ FlushLost(b, buf)
            /\ Acknowledged(p, buf.text) \/ (~Loads /\ UNCHANGED kept)
         \/ WriteFails(b, buf) /\ KeptBy(p, backup[p])
      /\ IF buffers'[b].state = "normal" THEN NoBackup(p) ELSE UNCHANGED backup
      /\ UNCHANGED <<index, session>>
  BY <1>1, <1>3 DEF SaveBuffer, DropAfterSave, Loads
<1>5. Same(buf, buffers[b]) /\ buf.text \in TextsOf(n) /\ n # None
  BY <1>1, <1>3, NoneIsNothing DEF Same
<1>6. Written(b, buf) \/ FlushLost(b, buf) \/ WriteFails(b, buf)
  BY <1>4
<1>7. /\ backup' \in [Paths -> Contents \cup {None}]
      /\ \A q \in Paths \ {p}: backup'[q] = backup[q]
      /\ backup'[p] \in {backup[p], None}
  BY <1>1, <1>2, <1>4 DEF NoBackup
<1>8. PICK k \in Texts \cup {None}:
        /\ kept' = [kept EXCEPT ![n] = k]
        /\ \/ (Written(b, buf) \/ FlushLost(b, buf)) /\ k \in {None, buf.text}
           \/ WriteFails(b, buf) /\ k \in {None, backup[p]}
           \/ ~Loads
  <2>1. CASE (Written(b, buf) \/ FlushLost(b, buf)) /\ Acknowledged(p, buf.text)
    BY <1>1, <1>2, <1>5, <2>1 DEF Acknowledged, Keeps
  <2>2. CASE WriteFails(b, buf) /\ KeptBy(p, backup[p])
    BY <1>1, <1>2, <1>5, <2>2 DEF KeptBy, Keeps
  <2>3. CASE ~Loads /\ UNCHANGED kept
    <3>1. kept[n] \in Texts \cup {None} /\ kept' = [kept EXCEPT ![n] = kept[n]]
      BY <1>2, <2>3
    <3> QED
      BY <2>3, <3>1
  <2> QED
    BY <1>4, <2>1, <2>2, <2>3
<1>9. /\ file' \in [Paths -> Contents \cup {None}]
      /\ \A q \in Paths \ {p}: file'[q] = file[q]
      /\ file'[p] \in TextsOf(n) \cup {None}
      /\ harmed \subseteq harmed' /\ harmed' \subseteq Notes \cup {None}
      /\ buffers' \in [Ids -> Buffer \cup {None}]
      /\ \A c \in Ids \ {b}: buffers'[c] = buffers[c]
      /\ Same(buffers'[b], buffers[b]) /\ buffers'[b].text = buf.text
  BY <1>1, <1>5, <1>6, WriteOutcomes
<1>10. /\ Written(b, buf) => file'[p] = buf.text /\ buffers'[b].state = "normal"
       /\ FlushLost(b, buf) => n \in harmed' /\ buffers'[b].state = "normal"
       /\ WriteFails(b, buf) =>
            /\ buffers'[b].state = "saveFailed" /\ buffers'[b].modified = buf.modified
            /\ buffers'[b].stamp = "same" => buf.stamp = "same" /\ file'[p] = file[p]
  BY <1>1, <1>5, <1>6, WriteOutcomes
<1>11. n \in harmed' \/ Shows(buffers[b])'
  BY <1>1, <1>3, <1>6, <1>9, <1>10 DEF Shows, Same
<1>12. ~Loads \/ n \in harmed' \/ kept'[n] \in {None, file'[p], backup'[p]}
  BY <1>2, <1>4, <1>6, <1>8, <1>10
<1>13. CallOn(b, p, n)
  BY <1>1, <1>2, <1>4, <1>5, <1>7, <1>8, <1>9, <1>11, <1>12 DEF CallOn
<1> QED
  BY <1>1, <1>13, CallKeeps

\* Recovering the backup: it is removed only when its text is in the file, or was
\* lost without notice.
LEMMA RecoverKeeps ==
    ASSUME IInv, NEW b \in Open, RecoverBackup(b)
    PROVE  IInv'
<1>1. PICK p \in Paths, n \in Notes: AtNote(b, p, n)
  BY AtItsNote
<1>2. Typed(n)
  BY TypedTexts
<1> USE DEF AtNote, Typed
<1>3. PICK text \in TextsOf(n): text = backup[p]
  BY <1>1 DEF RecoverBackup
<1>4. PICK buf \in Buffer: buf = Recovered(b)
  BY <1>1, <1>2, <1>3, TextChanged DEF Recovered, Same
<1>5. Same(buf, buffers[b]) /\ buf.text = text /\ buf.modified /\ n # None
  BY <1>1, <1>2, <1>3, <1>4, TextChanged, NoneIsNothing DEF Recovered
<1>6. /\ \/ (Written(b, buf) \/ FlushLost(b, buf)) /\ Acknowledged(p, text)
         \/ WriteFails(b, buf) /\ KeptBy(p, backup[p])
      /\ IF buffers'[b].state # "saveFailed" THEN NoBackup(p) ELSE UNCHANGED backup
      /\ UNCHANGED <<index, session>>
  BY <1>1, <1>3, <1>4 DEF RecoverBackup, RemovedIfSaved
<1>7. Written(b, buf) \/ FlushLost(b, buf) \/ WriteFails(b, buf)
  BY <1>6
<1>8. /\ backup' \in [Paths -> Contents \cup {None}]
      /\ \A q \in Paths \ {p}: backup'[q] = backup[q]
      /\ backup'[p] \in {backup[p], None}
  BY <1>1, <1>2, <1>6 DEF NoBackup
<1>9. PICK k \in Texts \cup {None}: kept' = [kept EXCEPT ![n] = k] /\ k \in {None, text}
  <2>1. CASE Acknowledged(p, text)
    BY <1>1, <1>2, <1>5, <2>1 DEF Acknowledged, Keeps
  <2>2. CASE KeptBy(p, backup[p])
    BY <1>1, <1>2, <1>3, <1>5, <2>2 DEF KeptBy, Keeps
  <2> QED
    BY <1>6, <2>1, <2>2
<1>10. /\ file' \in [Paths -> Contents \cup {None}]
       /\ \A q \in Paths \ {p}: file'[q] = file[q]
       /\ file'[p] \in TextsOf(n) \cup {None}
       /\ harmed \subseteq harmed' /\ harmed' \subseteq Notes \cup {None}
       /\ buffers' \in [Ids -> Buffer \cup {None}]
       /\ \A c \in Ids \ {b}: buffers'[c] = buffers[c]
       /\ Same(buffers'[b], buffers[b]) /\ buffers'[b].text = text
  BY <1>1, <1>5, <1>7, WriteOutcomes
<1>11. /\ Written(b, buf) => file'[p] = text /\ buffers'[b].state = "normal"
       /\ FlushLost(b, buf) => n \in harmed' /\ buffers'[b].state = "normal"
       /\ WriteFails(b, buf) => buffers'[b].state = "saveFailed" /\ buffers'[b].modified
  BY <1>1, <1>5, <1>7, WriteOutcomes
<1>12. n \in harmed' \/ Shows(buffers[b])'
  BY <1>1, <1>5, <1>7, <1>10, <1>11 DEF Shows, Same
<1>13. ~Loads \/ n \in harmed' \/ kept'[n] \in {None, file'[p], backup'[p]}
  BY <1>2, <1>3, <1>6, <1>7, <1>9, <1>11
<1>14. CallOn(b, p, n)
  BY <1>1, <1>2, <1>3, <1>6, <1>8, <1>9, <1>10, <1>12, <1>13 DEF CallOn
<1> QED
  BY <1>1, <1>14, CallKeeps

\* The session file lists the buffers with their paths.
LEMMA RecordsOfBuffers ==
    ASSUME buffers' \in [Ids -> Buffer \cup {None}], PersistSession,
           \A b, c \in Open': buffers'[b].path = buffers'[c].path => b = c
    PROVE  /\ session' \in [Ids -> Paths \cup {None}]
           /\ \A b, c \in Ids: session'[b] # None /\ session'[b] = session'[c] => b = c
BY NoneIsNothing DEF PersistSession, Persisted, Open, Buffer

\* A new buffer, on a file that is there.
LEMMA NewIsBuffer ==
    ASSUME IInv, NEW p \in Paths, file[p] # None
    PROVE  \E new \in Buffer:
              /\ new = NewBuffer(p) /\ new.path = p /\ new.node = index[p] /\ index[p] \in Notes
              /\ new.text = Blank /\ new.stamp = "never"
<1>1. index[p] \in Notes /\ Blank \in Contents
  BY DEF IInv, TypeOK, PathsOfNotes, Contents
<1>2. NewBuffer(p) \in Buffer
  BY <1>1 DEF NewBuffer, Buffer, States, Stamps
<1> QED
  BY <1>1, <1>2 DEF NewBuffer

\* A buffer is opened on a file, which belongs to a note; another buffer on it is
\* returned instead.
LEMMA OpenKeeps ==
    ASSUME IInv, NEW p \in Paths, BufferOpen(p)
    PROVE  IInv'
<1>1. UNCHANGED <<index, file, backup, kept, harmed>> /\ file[p] # None /\ PersistSession
  BY DEF BufferOpen, disk, bounds
<1>2. CASE UNCHANGED buffers
  <2>1. PathsOfBuffers' /\ session' \in [Ids -> Paths \cup {None}]
    BY <1>1, <1>2, RecordsOfBuffers DEF IInv, PathsOfBuffers, Open, TypeOK
  <2> QED
    BY <1>1, <1>2, <2>1 DEF IInv, TypeOK, PathsOfNotes, OwnTexts, BuffersShow,
       KeptSomewhere, Open, Shows
<1>3. ASSUME NEW b \in Ids \ Open, BufferAt(p) = {},
             buffers' = [buffers EXCEPT ![b] = NewBuffer(p)]
      PROVE  IInv'
  <2>1. PICK new \in Buffer:
          /\ new = NewBuffer(p) /\ new.path = p /\ new.node = index[p] /\ index[p] \in Notes
          /\ new.text = Blank /\ new.stamp = "never"
    BY <1>1, NewIsBuffer
  <2>2. /\ buffers' \in [Ids -> Buffer \cup {None}] /\ buffers'[b] = new
        /\ \A c \in Ids \ {b}: buffers'[c] = buffers[c]
    BY <1>3, <2>1 DEF IInv, TypeOK
  <2>3. Open' = Open \cup {b} /\ b \notin Open
    BY <1>3, <2>1, <2>2, NoneIsNothing DEF Open
  <2>4. \A c \in Open: c \in Ids \ {b} /\ buffers'[c] = buffers[c] /\ buffers[c].path # p
    BY <1>3, <2>2, <2>3 DEF BufferAt, Open
  <2>5. \A c, d \in Open': buffers'[c].path = buffers'[d].path => c = d
    BY <2>1, <2>2, <2>3, <2>4 DEF IInv, PathsOfBuffers
  <2>6. PathsOfBuffers' /\ session' \in [Ids -> Paths \cup {None}]
    BY <1>1, <2>1, <2>2, <2>3, <2>4, <2>5, RecordsOfBuffers DEF IInv, PathsOfBuffers
  <2>7. OwnTexts'
    BY <1>1, <2>1, <2>2, <2>3, <2>4 DEF IInv, OwnTexts, TextsOf
  <2>8. BuffersShow'
    BY <1>1, <2>1, <2>2, <2>3, <2>4 DEF IInv, BuffersShow, Shows
  <2> QED
    BY <1>1, <2>2, <2>6, <2>7, <2>8 DEF IInv, TypeOK, PathsOfNotes, KeptSomewhere
<1> QED
  BY <1>2, <1>3 DEF BufferOpen, OpenBuffer

\* Closing a buffer gives up a backup that is the only copy of a text.
LEMMA CloseKeeps ==
    ASSUME IInv, NEW b \in Open, BufferClose(b)
    PROVE  IInv'
<1>1. PICK p \in Paths, n \in Notes: AtNote(b, p, n)
  BY AtItsNote
<1>2. Typed(n)
  BY TypedTexts
<1> USE DEF AtNote, Typed
<1>3. /\ UNCHANGED <<index, file, harmed>> /\ PersistSession
      /\ backup' = [backup EXCEPT ![p] = None] /\ buffers' = [buffers EXCEPT ![b] = None]
  BY <1>1 DEF BufferClose, CloseBuffer, NoBackup, bounds
<1>4. PICK k \in {None, file[p]} \cap (Texts \cup {None}): kept' = [kept EXCEPT ![n] = k]
  BY <1>1, <1>2, NoneIsNothing DEF BufferClose, KeptBy, Keeps
<1>5. Open' = Open \ {b} /\ \A c \in Open': c \in Open /\ buffers'[c] = buffers[c]
  BY <1>2, <1>3 DEF Open
<1>6. buffers' \in [Ids -> Buffer \cup {None}]
  BY <1>2, <1>3
<1>7. PathsOfBuffers' /\ session' \in [Ids -> Paths \cup {None}]
  BY <1>3, <1>5, <1>6, RecordsOfBuffers DEF IInv, PathsOfBuffers
<1>8. TypeOK'
  BY <1>2, <1>3, <1>4, <1>6, <1>7 DEF IInv, TypeOK
<1>9. PathsOfNotes'
  BY <1>2, <1>3 DEF IInv, PathsOfNotes
<1>10. OwnTexts'
  BY <1>2, <1>3, <1>5 DEF IInv, OwnTexts
<1>11. BuffersShow'
  BY <1>3, <1>5 DEF IInv, BuffersShow, Shows
<1>12. KeptSomewhere'
  <2>1. SUFFICES ASSUME Loads, NEW m \in Notes \ harmed', kept'[m] # None
                 PROVE  \E q \in Paths: index'[q] = m /\ kept'[m] \in {file'[q], backup'[q]}
    BY DEF KeptSomewhere
  <2>2. CASE m = n
    BY <1>1, <1>2, <1>3, <1>4, <2>1, <2>2
  <2>3. CASE m # n
    <3>1. PICK q \in Paths: index[q] = m /\ kept[m] \in {file[q], backup[q]}
      BY <1>2, <1>3, <1>4, <2>1, <2>3 DEF IInv, KeptSomewhere
    <3> QED
      BY <1>1, <1>2, <1>3, <1>4, <2>3, <3>1
  <2> QED
    BY <2>2, <2>3
<1> QED
  BY <1>7, <1>8, <1>9, <1>10, <1>11, <1>12 DEF IInv

\* A note is created where nothing is.
LEMMA CreateKeeps ==
    ASSUME IInv, NEW p \in Paths, NEW n \in Notes, CreateFile(p, n)
    PROVE  IInv'
<1>1. /\ index[p] = None /\ file[p] = None /\ backup[p] = None /\ \A q \in Paths: index[q] # n
      /\ index' = [index EXCEPT ![p] = n] /\ file' = [file EXCEPT ![p] = Blank]
      /\ kept' = [kept EXCEPT ![n] = None]
      /\ UNCHANGED <<backup, buffers, session, harmed>>
  BY DEF CreateFile, Keeps, bounds, IInv, PathsOfNotes
<1>2. /\ index \in [Paths -> Notes \cup {None}] /\ file \in [Paths -> Contents \cup {None}]
      /\ kept \in [Notes -> Texts \cup {None}]
      /\ Blank \in Contents /\ Blank \in TextsOf(n) /\ Blank # None /\ n # None
  BY TextsOfNote, NoneIsNothing DEF IInv, TypeOK, Contents
<1>3. \A b \in Open: buffers[b].path \in Paths \ {p}
  BY <1>1, NoneIsNothing DEF IInv, PathsOfBuffers, TypeOK, Open, Buffer
<1>4. TypeOK'
  BY <1>1, <1>2 DEF IInv, TypeOK
<1>5. PathsOfNotes'
  BY <1>1, <1>2 DEF IInv, PathsOfNotes
<1>6. PathsOfBuffers'
  BY <1>1, <1>2, <1>3 DEF IInv, PathsOfBuffers, Open
<1>7. OwnTexts'
  BY <1>1, <1>2 DEF IInv, OwnTexts, Open
<1>8. BuffersShow'
  BY <1>1, <1>2, <1>3 DEF IInv, BuffersShow, Shows, Open
<1>9. KeptSomewhere'
  BY <1>1, <1>2 DEF IInv, KeptSomewhere
<1> QED
  BY <1>4, <1>5, <1>6, <1>7, <1>8, <1>9 DEF IInv

\* Another program changes the file of a note.
LEMMA OtherKeeps ==
    ASSUME IInv, NEW p \in Paths, OtherProgram(p)
    PROVE  IInv'
<1>1. PICK n \in Notes: n = index[p]
  BY DEF OtherProgram, IInv, TypeOK
<1>2. PICK t \in TextsOf(n) \cup {None}:
        /\ file' = [file EXCEPT ![p] = t]
        /\ buffers' = IF t = None THEN buffers ELSE Outdated(buffers, p)
  BY <1>1 DEF OtherProgram, TextsOf
<1>3. /\ file \in [Paths -> Contents \cup {None}] /\ kept \in [Notes -> Texts \cup {None}]
      /\ TextsOf(n) \subseteq Contents /\ n # None
      /\ UNCHANGED <<index, backup, session, harmed>>
  BY TextsOfNote, NoneIsNothing DEF IInv, TypeOK, OtherProgram
<1>4. PICK k \in {None, backup[p]} \cap (Texts \cup {None}): kept' = [kept EXCEPT ![n] = k]
  BY <1>1, <1>3, NoneIsNothing DEF OtherProgram, KeptBy, Keeps
<1>5. \A b \in Ids: IF buffers[b] = None THEN buffers'[b] = None
         ELSE /\ Same(buffers'[b], buffers[b]) /\ buffers'[b].text = buffers[b].text
              /\ buffers[b].path # p => buffers'[b] = buffers[b]
              /\ buffers[b].path = p => t = None \/ buffers'[b].stamp # "same"
  <2>1. ASSUME NEW b \in Ids, buffers[b] # None PROVE buffers[b] \in Buffer
    BY <2>1 DEF IInv, TypeOK
  <2> QED
    BY <1>2, <2>1, TextKept DEF Outdated, Same
<1>6. buffers' \in [Ids -> Buffer \cup {None}]
  <2>1. DOMAIN buffers' = Ids /\ buffers' = [b \in Ids |-> buffers'[b]]
    BY <1>2 DEF IInv, TypeOK, Outdated
  <2> QED
    BY <1>5, <2>1 DEF Same
<1>7. Open' = Open /\ \A b \in Open: b \in Ids /\ buffers'[b] # None
  BY <1>5, NoneIsNothing DEF Open, Same
<1>8. TypeOK'
  BY <1>2, <1>3, <1>4, <1>6 DEF IInv, TypeOK
<1>9. PathsOfNotes'
  BY <1>1, <1>2, <1>3 DEF IInv, PathsOfNotes
<1>10. PathsOfBuffers'
  BY <1>3, <1>5, <1>7 DEF IInv, PathsOfBuffers, Same, Open
<1>11. OwnTexts'
  BY <1>1, <1>2, <1>3, <1>5, <1>7 DEF IInv, OwnTexts, Same, Open
<1>12. BuffersShow'
  <2>1. SUFFICES ASSUME NEW b \in Open PROVE buffers'[b].node \in harmed' \/ Shows(buffers[b])'
    BY <1>7 DEF BuffersShow
  <2>2. CASE buffers[b].path = p
    BY <1>2, <1>3, <1>5, <1>7, <2>2 DEF Shows, Same, Open
  <2>3. CASE buffers[b].path # p
    BY <1>2, <1>3, <1>5, <1>7, <2>3 DEF IInv, BuffersShow, Shows, Open
  <2> QED
    BY <2>2, <2>3
<1>13. KeptSomewhere'
  <2>1. SUFFICES ASSUME Loads, NEW m \in Notes \ harmed', kept'[m] # None
                 PROVE  \E q \in Paths: index'[q] = m /\ kept'[m] \in {file'[q], backup'[q]}
    BY DEF KeptSomewhere
  <2>2. CASE m = n
    BY <1>1, <1>3, <1>4, <2>1, <2>2
  <2>3. CASE m # n
    <3>1. PICK q \in Paths: index[q] = m /\ kept[m] \in {file[q], backup[q]}
      BY <1>3, <1>4, <2>1, <2>3 DEF IInv, KeptSomewhere
    <3> QED
      BY <1>1, <1>2, <1>3, <1>4, <2>3, <3>1
  <2> QED
    BY <2>2, <2>3
<1> QED
  BY <1>8, <1>9, <1>10, <1>11, <1>12, <1>13 DEF IInv

\* A restart opens what the session file lists, with nothing read.
LEMMA RestartKeeps ==
    ASSUME IInv, Restart
    PROVE  IInv'
<1>1. UNCHANGED <<index, file, backup, session, kept, harmed>> /\ buffers' = LoadBuffers
  BY DEF Restart, disk
<1>2. ASSUME NEW b \in Ids, buffers'[b] # None
      PROVE  /\ buffers'[b] \in Buffer /\ buffers'[b].path = session[b] /\ session[b] # None
             /\ buffers'[b].node = index[session[b]] /\ buffers'[b].node \in Notes
             /\ buffers'[b].text = Blank /\ buffers'[b].stamp = "never"
  <2>1. session[b] # None /\ file[session[b]] # None /\ buffers'[b] = NewBuffer(session[b])
    BY <1>1, <1>2 DEF LoadBuffers
  <2>2. PICK p \in Paths: p = session[b]
    BY <2>1 DEF IInv, TypeOK
  <2>3. PICK new \in Buffer:
          /\ new = NewBuffer(p) /\ new.path = p /\ new.node = index[p] /\ index[p] \in Notes
          /\ new.text = Blank /\ new.stamp = "never"
    BY <2>1, <2>2, NewIsBuffer
  <2> QED
    BY <2>1, <2>2, <2>3
<1>3. buffers' \in [Ids -> Buffer \cup {None}]
  <2>1. buffers' = [b \in Ids |-> buffers'[b]]
    BY <1>1 DEF LoadBuffers
  <2> QED
    BY <1>2, <2>1
<1>4. PathsOfBuffers'
  BY <1>1, <1>2 DEF IInv, PathsOfBuffers, Open
<1>5. OwnTexts'
  BY <1>1, <1>2 DEF IInv, OwnTexts, Open, TextsOf
<1>6. BuffersShow'
  BY <1>2 DEF BuffersShow, Shows, Open
<1> QED
  BY <1>1, <1>3, <1>4, <1>5, <1>6 DEF IInv, TypeOK, PathsOfNotes, KeptSomewhere

\* A note goes with its texts, when its buffer is closed and has left no backup.
LEMMA DeleteKeeps ==
    ASSUME ClosesAndSettles, IInv, NEW p \in Paths, NodeDelete(p)
    PROVE  IInv'
<1>1. PICK n \in Notes: n = index[p]
  BY DEF NodeDelete, IInv, TypeOK
<1>2. /\ BufferAt(p) = {} /\ backup[p] = None
      /\ index' = [index EXCEPT ![p] = None] /\ file' = [file EXCEPT ![p] = None]
      /\ kept' = [kept EXCEPT ![n] = None]
      /\ UNCHANGED <<backup, buffers, session, harmed>>
  BY <1>1 DEF NodeDelete, ClosesAndSettles, Keeps, bounds
<1>3. /\ index \in [Paths -> Notes \cup {None}] /\ file \in [Paths -> Contents \cup {None}]
      /\ kept \in [Notes -> Texts \cup {None}]
  BY DEF IInv, TypeOK
<1>4. \A b \in Open: buffers[b].path \in Paths \ {p}
  BY <1>2 DEF IInv, TypeOK, Open, Buffer, BufferAt
<1>5. TypeOK'
  BY <1>2, <1>3 DEF IInv, TypeOK
<1>6. PathsOfNotes'
  BY <1>2, <1>3 DEF IInv, PathsOfNotes
<1>7. PathsOfBuffers'
  BY <1>2, <1>3, <1>4 DEF IInv, PathsOfBuffers, Open
<1>8. OwnTexts'
  BY <1>2, <1>3 DEF IInv, OwnTexts, Open
<1>9. BuffersShow'
  BY <1>2, <1>3, <1>4 DEF IInv, BuffersShow, Shows, Open
<1>10. KeptSomewhere'
  <2>1. SUFFICES ASSUME Loads, NEW m \in Notes \ harmed', kept'[m] # None
                 PROVE  \E q \in Paths: index'[q] = m /\ kept'[m] \in {file'[q], backup'[q]}
    BY DEF KeptSomewhere
  <2>2. m # n /\ kept'[m] = kept[m] /\ m \in Notes \ harmed
    BY <1>2, <1>3, <2>1
  <2>3. PICK q \in Paths: index[q] = m /\ kept[m] \in {file[q], backup[q]}
    BY <2>1, <2>2 DEF IInv, KeptSomewhere
  <2> QED
    BY <1>1, <1>2, <1>3, <2>2, <2>3
<1> QED
  BY <1>5, <1>6, <1>7, <1>8, <1>9, <1>10 DEF IInv

\* Renaming a note takes its buffer along (UpdatePaths), to a path where no buffer
\* and no backup are.
LEMMA MoveKeeps ==
    ASSUME ClosesAndSettles, IInv, NEW p \in Paths, NEW q \in Paths, NodeMove(p, q)
    PROVE  IInv'
<1>1. PICK n \in Notes: n = index[p]
  BY DEF NodeMove, IInv, TypeOK
<1>2. /\ index[q] = None /\ p # q /\ backup[p] = None /\ backup[q] = None
      /\ index' = [index EXCEPT ![p] = None, ![q] = n]
      /\ file' = [file EXCEPT ![p] = None, ![q] = file[p]]
      /\ UpdatePaths(n, q) /\ harmed' = harmed
  BY <1>1 DEF NodeMove, ClosesAndSettles, bounds, IInv, PathsOfNotes
<1>3. /\ index \in [Paths -> Notes \cup {None}] /\ file \in [Paths -> Contents \cup {None}]
      /\ backup \in [Paths -> Contents \cup {None}] /\ kept \in [Notes -> Texts \cup {None}]
      /\ n # None /\ buffers \in [Ids -> Buffer \cup {None}]
  BY NoneIsNothing DEF IInv, TypeOK
<1>4. PICK k \in {None, file[p]} \cap (Texts \cup {None}): kept' = [kept EXCEPT ![n] = k]
  BY <1>1, <1>3 DEF NodeMove, KeptBy, Keeps
<1>5. backup' = backup
  BY <1>2, <1>3 DEF UpdatePaths
<1>6. \A b \in Open:
        /\ b \in Ids /\ buffers[b] \in Buffer
        /\ buffers[b].path \in Paths \ {q} /\ buffers[b].node = index[buffers[b].path]
        /\ Follow(buffers[b], n, q) <=> buffers[b].path = p
  BY <1>1, <1>2, <1>3, NoneIsNothing DEF IInv, PathsOfBuffers, PathsOfNotes, Open, Buffer, Follow
<1>7. \A b \in Ids:
        /\ ~(b \in Open /\ buffers[b].path = p) => buffers'[b] = buffers[b]
        /\ b \in Open /\ buffers[b].path = p => buffers'[b] = [buffers[b] EXCEPT !.path = q]
  BY <1>2, <1>6 DEF UpdatePaths
<1>8. \A b \in Open:
        /\ buffers'[b] \in Buffer
        /\ buffers'[b].path = IF buffers[b].path = p THEN q ELSE buffers[b].path
        /\ buffers'[b].node = buffers[b].node /\ buffers'[b].text = buffers[b].text
        /\ buffers'[b].stamp = buffers[b].stamp /\ buffers'[b].modified = buffers[b].modified
  <2>1. SUFFICES ASSUME NEW b \in Open, buffers[b].path = p
                 PROVE  /\ buffers'[b] \in Buffer /\ buffers'[b].path = q
                        /\ buffers'[b].node = buffers[b].node /\ buffers'[b].text = buffers[b].text
                        /\ buffers'[b].stamp = buffers[b].stamp
                        /\ buffers'[b].modified = buffers[b].modified
    BY <1>6, <1>7
  <2>2. buffers[b] \in Buffer /\ buffers'[b] = [buffers[b] EXCEPT !.path = q]
    BY <1>6, <1>7, <2>1
  <2>3. [buffers[b] EXCEPT !.path = q] \in Buffer
    BY Zenon, <2>2 DEF Buffer
  <2> QED
    BY Zenon, <2>2, <2>3 DEF Buffer
<1>9. buffers' \in [Ids -> Buffer \cup {None}]
  <2>1. buffers' = [b \in Ids |-> buffers'[b]]
    BY <1>2 DEF UpdatePaths
  <2> QED
    BY <1>3, <1>7, <1>8, <2>1 DEF Open
<1>10. Open' = Open
  BY <1>7, <1>8, NoneIsNothing DEF Open
<1>11. \A b, c \in Open': buffers'[b].path = buffers'[c].path => b = c
  BY <1>6, <1>8, <1>10 DEF IInv, PathsOfBuffers
<1>12. /\ session' \in [Ids -> Paths \cup {None}]
       /\ \A b, c \in Ids: session'[b] # None /\ session'[b] = session'[c] => b = c
  <2>1. PersistSession \/ session' = session
    BY <1>2 DEF UpdatePaths, PersistSession
  <2> QED
    BY <1>9, <1>11, <2>1, RecordsOfBuffers DEF IInv, TypeOK, PathsOfBuffers
<1>13. TypeOK'
  BY <1>2, <1>3, <1>4, <1>5, <1>9, <1>12 DEF IInv, TypeOK
<1>14. PathsOfNotes'
  BY <1>1, <1>2, <1>3, <1>5 DEF IInv, PathsOfNotes
<1>15. PathsOfBuffers'
  <2>1. \A b \in Open: buffers'[b].node \in Notes /\ buffers'[b].node = index'[buffers'[b].path]
    BY <1>1, <1>2, <1>3, <1>6, <1>8 DEF IInv, PathsOfBuffers
  <2> QED
    BY <1>10, <1>11, <1>12, <2>1 DEF PathsOfBuffers
<1>16. OwnTexts'
  <2>1. \A b \in Open: buffers'[b].text \in TextsOf(buffers'[b].node)
    BY <1>8 DEF IInv, OwnTexts
  <2>2. {file[p], backup[p]} \subseteq TextsOf(n) \cup {None}
    BY <1>1 DEF IInv, OwnTexts
  <2>3. \A r \in Paths: {file'[r], backup'[r]} \subseteq TextsOf(index'[r]) \cup {None}
    BY <1>2, <1>3, <1>5, <2>2 DEF IInv, OwnTexts
  <2> QED
    BY <1>10, <2>1, <2>3 DEF OwnTexts
<1>17. BuffersShow'
  <2>1. SUFFICES ASSUME NEW b \in Open PROVE buffers'[b].node \in harmed' \/ Shows(buffers[b])'
    BY <1>10 DEF BuffersShow
  <2>2. buffers[b].node \in harmed \/ Shows(buffers[b])
    BY DEF IInv, BuffersShow
  <2>3. CASE buffers[b].path = p
    BY <1>2, <1>3, <1>8, <2>2, <2>3 DEF Shows
  <2>4. CASE buffers[b].path # p
    BY <1>2, <1>3, <1>6, <1>7, <2>2, <2>4 DEF Shows
  <2> QED
    BY <2>3, <2>4
<1>18. KeptSomewhere'
  <2>1. SUFFICES ASSUME Loads, NEW m \in Notes \ harmed', kept'[m] # None
                 PROVE  \E r \in Paths: index'[r] = m /\ kept'[m] \in {file'[r], backup'[r]}
    BY DEF KeptSomewhere
  <2>2. CASE m = n
    BY <1>2, <1>3, <1>4, <2>1, <2>2
  <2>3. CASE m # n
    <3>1. PICK r \in Paths: index[r] = m /\ kept[m] \in {file[r], backup[r]}
      BY <1>2, <1>3, <1>4, <2>1, <2>3 DEF IInv, KeptSomewhere
    <3> QED
      BY <1>1, <1>2, <1>3, <1>4, <1>5, <2>1, <2>3, <3>1, NoneIsNothing
  <2> QED
    BY <2>2, <2>3
<1> QED
  BY <1>13, <1>14, <1>15, <1>16, <1>17, <1>18 DEF IInv

-----------------------------------------------------------------------------
(* The invariant and what it says *)

\* Nothing is there at first.
LEMMA InitInv == Init => IInv
BY NoneIsNothing DEF Init, IInv, TypeOK, PathsOfNotes, PathsOfBuffers, OwnTexts, BuffersShow,
   KeptSomewhere, Open

\* Every step keeps the invariant.
LEMMA StepInv == ASSUME ClosesAndSettles PROVE IInv /\ [Next]_vars => IInv'
<1> SUFFICES ASSUME IInv, [Next]_vars PROVE IInv'
  OBVIOUS
<1>1. CASE UNCHANGED vars
  BY <1>1 DEF vars, IInv, TypeOK, PathsOfNotes, PathsOfBuffers, OwnTexts, BuffersShow,
     KeptSomewhere, Open, Shows
<1>2. CASE \E p \in Paths: BufferOpen(p) \/ NodeDelete(p) \/ OtherProgram(p)
  BY <1>2, OpenKeeps, DeleteKeeps, OtherKeeps
<1>3. CASE \E p, q \in Paths: NodeMove(p, q)
  BY <1>3, MoveKeeps
<1>4. CASE \E p \in Paths, n \in Notes: CreateFile(p, n)
  BY <1>4, CreateKeeps
<1>5. CASE \E n \in Notes: BufferOpenByNodeId(n)
  BY <1>5, OpenKeeps DEF BufferOpenByNodeId
<1>6. CASE \E b \in Open:
        \/ BufferClose(b) \/ GetBufferContent(b) \/ ReloadBuffer(b) \/ SetBufferContent(b)
        \/ SaveBuffer(b) \/ CheckExternalChanges(b)
        \/ WriteBackup(b) \/ RecoverBackup(b) \/ DiscardBackup(b)
  BY <1>6, CloseKeeps, LoadKeeps, EditKeeps, SaveKeeps, BackupKeeps, RecoverKeeps
<1>7. CASE Restart
  BY <1>7, RestartKeeps
<1> QED
  BY <1>1, <1>2, <1>3, <1>4, <1>5, <1>6, <1>7 DEF Next

\* The invariant holds of every behaviour of a consumer that closes and settles.
THEOREM Invariant == ASSUME ClosesAndSettles PROVE Spec => []IInv
BY InitInv, StepInv, PTL DEF Spec

\* Every variable has its type.
THEOREM TypeCorrect == ASSUME ClosesAndSettles PROVE Spec => []TypeOK
<1>1. IInv => TypeOK
  BY DEF IInv
<1> QED
  BY <1>1, Invariant, PTL

\* No note is open in two buffers, and a buffer is where its note is, so that a save
\* cannot reach another note.
THEOREM NotesHaveOneBuffer == ASSUME ClosesAndSettles PROVE Spec => []OneBufferPerNote
<1>1. IInv => OneBufferPerNote
  BY DEF IInv, PathsOfBuffers, OneBufferPerNote
<1> QED
  BY <1>1, Invariant, PTL

\* Neither the file nor the backup of a note ever holds a text of another note.
THEOREM TextsAreNotMixed == ASSUME ClosesAndSettles PROVE Spec => []TextsStayWithTheirNote
<1>1. IInv => TextsStayWithTheirNote
  BY DEF IInv, OwnTexts, TextsOf, TextsStayWithTheirNote
<1> QED
  BY <1>1, Invariant, PTL

\* A buffer without edits whose state is normal and whose time is that of the file
\* shows the file, unless a failure was passed over.
THEOREM CleanBuffersAreCurrent == ASSUME ClosesAndSettles PROVE Spec => []CleanBuffersShowTheFile
<1>1. IInv => CleanBuffersShowTheFile
  BY DEF IInv, BuffersShow, CleanBuffersShowTheFile, ShowsTheFile, Shows
<1> QED
  BY <1>1, Invariant, PTL

\* A text the code has said to be on disk is in the file or in the backup of its note
\* until it is overwritten or given up, whatever fails and whenever the process ends.
THEOREM KeptTextsAreOnDisk ==
    ASSUME ClosesAndSettles, Loads
    PROVE  Spec => []KeptTextsStay
<1>1. IInv => KeptTextsStay
  BY DEF IInv, KeptSomewhere, KeptTextsStay, OnDisk, TextOf
<1> QED
  BY <1>1, Invariant, PTL
==============================================================================
