---------------------------- MODULE MCNoteRecords ----------------------------
(* Instances of NoteRecords for TLC *)
EXTENDS NoteRecords

CONSTANTS n1, n2, t1, t2

TwoNotes == {n1, n2}
OneNote == {n1}
TwoTags == {t1, t2}
InRootAndSub == n1 :> Sub @@ n2 :> Root
InSub == n1 :> Sub
Symmetry == Permutations(TagNames)
==============================================================================
