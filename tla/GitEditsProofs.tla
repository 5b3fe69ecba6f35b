---------------------------- MODULE GitEditsProofs ----------------------------
(***************************************************************************)
(* What GitSync does to edits, for every number of devices, notes, edits   *)
(* and attempts: none that is committed is lost, none that a call answers  *)
(* VXCORE_OK for is unpublished, no conflict marker is published, and, as  *)
(* long as calls are whole and nobody saves over a conflict, none that is  *)
(* saved is lost.  GitSyncProofs says where a device can be, and that the  *)
(* remote is one history; this module says what is in the trees.           *)
(***************************************************************************)
EXTENDS GitSyncProofs

-----------------------------------------------------------------------------
(* What the operators do to the notes of a tree *)

\* A note shows one text, or there is none: no conflict markers.
One(c) == \A a, b \in c: a = b
OneEach(T) == \A f \in Files: One(T.notes[f])
OneIn(h) == \A i \in 1..Len(h): OneEach(h[i].tree)

\* WithNote sets one note.
LEMMA WithNoteSets ==
    ASSUME NEW T \in Tree, NEW f \in Files, NEW c \in SUBSET Edits
    PROVE  /\ WithNote(T, f, c).notes[f] = c
           /\ \A g \in Files \ {f}: WithNote(T, f, c).notes[g] = T.notes[g]
           /\ WithNote(T, f, c).copies = T.copies
BY TreeParts DEF WithNote

\* A note of a checkout is the one that was there or that of the tree.
LEMMA CheckoutNotes ==
    ASSUME NEW T \in Tree, NEW d
    PROVE  /\ \A f \in Files: SafeCheckout(d, T).notes[f] \in {work[d].notes[f], T.notes[f]}
           /\ \A f \in Files: ForceCheckout(d, T).notes[f] \in {work[d].notes[f], T.notes[f]}
BY DEF SafeCheckout, ForceCheckout

\* Where a merge has no conflict it has one side or the other, and everything of the
\* patch that was not in its base.
LEMMA MergedNotes ==
    ASSUME NEW p \in Patch, NEW T \in Tree, NEW f \in Files, f \notin Conflicting(p, T)
    PROVE  /\ Merged(p, T).notes[f] \in {T.notes[f], p.tree.notes[f]}
           /\ p.tree.notes[f] = p.base.notes[f] \/ Merged(p, T).notes[f] = p.tree.notes[f]
BY DEF Merged

\* The copies of a patch that its base lacks are in the merge.
LEMMA MergedCopies ==
    ASSUME NEW p \in Patch, NEW T \in Tree
    PROVE  p.tree.copies \subseteq p.base.copies \cup Merged(p, T).copies
BY DEF Merged

\* A commit without markers on a history without any.
LEMMA OneCommit ==
    ASSUME NEW h \in Seq(Commit), NEW T \in Tree, NEW d \in Devices, OneIn(h), OneEach(T)
    PROVE  OneIn(NewCommit(h, T, d))
<1>1. PICK k \in Seq(Commit): k = NewCommit(h, T, d)
  BY CommitMade
<1>2. /\ Len(k) = Len(h) + 1 /\ \A i \in 1..Len(h): k[i] = h[i]
      /\ k[Len(h) + 1] = [tree |-> T, by |-> d]
  BY <1>1, CommitMade
<1>3. k[Len(h) + 1].tree = T /\ Len(h) \in Nat
  BY <1>2
<1> HIDE DEF NewCommit
<1>4. OneIn(k)
  BY <1>2, <1>3 DEF OneIn
<1> QED
  BY <1>1, <1>4

\* The tip of a history without markers has none.
LEMMA OneTip ==
    ASSUME NEW h \in Seq(Commit), OneIn(h)
    PROVE  OneEach(TipTree(h))
<1>1. CASE h = <<>>
  BY <1>1 DEF TipTree, OneEach, One, Empty
<1>2. CASE h # <<>>
  BY <1>2 DEF TipTree, OneIn
<1> QED
  BY <1>1, <1>2

\* p holds the commits of h after its first n, each with the tree before it.
PatchesFrom(p, n, h) ==
    /\ n \in Nat /\ n <= Len(h) /\ Len(h) \in Nat /\ Len(p) = Len(h) - n
    /\ \A i \in 1..Len(p): p[i].tree = h[n + i].tree
    /\ \A i \in 1..Len(p): n + i # 1 => p[i].base = h[n + i - 1].tree
    /\ \A i \in 1..Len(p): n + i = 1 => p[i].base = Empty

\* Patches are trees of the history they are taken from.
LEMMA PatchTrees ==
    ASSUME NEW h \in Seq(Commit), NEW k \in Seq(Commit),
           NEW n, n = BaseLength(h, k), NEW p, p = PatchesSince(h, k)
    PROVE  PatchesFrom(p, n, h)
<1> DEFINE before(i) == IF i = 1 THEN Empty ELSE h[i - 1].tree
           q(m) == [i \in 1..m |-> [base |-> before(n + i), tree |-> h[n + i].tree]]
<1>1. n \in Nat /\ Len(h) \in Nat /\ n <= Len(h)
  BY BaseIsCommon
<1>2. PICK m \in Nat: m = Len(h) - n
  BY <1>1
<1>3. p = q(m)
  BY <1>2 DEF PatchesSince
<1>4. Len(p) = m
  BY <1>2, <1>3
<1>5. \A i \in 1..m: p[i] = [base |-> before(n + i), tree |-> h[n + i].tree]
  BY <1>3
<1>6. ASSUME NEW i \in 1..m
      PROVE  p[i].tree = h[n + i].tree /\ p[i].base = before(n + i)
  <2>1. PICK b, t: b = before(n + i) /\ t = h[n + i].tree
    OBVIOUS
  <2>2. p[i] = [base |-> b, tree |-> t]
    BY <1>5, <2>1
  <2>3. p[i].tree = t /\ p[i].base = b
    BY <2>2
  <2> QED
    BY <2>1, <2>3
<1> QED
  BY <1>1, <1>2, <1>4, <1>6 DEF PatchesFrom

\* Patches of a history without markers have none.
LEMMA OnePatches ==
    ASSUME NEW h \in Seq(Commit), NEW k \in Seq(Commit), OneIn(h)
    PROVE  \A i \in 1..Len(PatchesSince(h, k)): OneEach(PatchesSince(h, k)[i].tree)
<1>1. PICK n, p: n = BaseLength(h, k) /\ p = PatchesSince(h, k)
  OBVIOUS
<1>2. \A i \in 1..Len(p): n + i \in 1..Len(h) /\ p[i].tree = h[n + i].tree
  <2>1. PatchesFrom(p, n, h)
    BY <1>1, PatchTrees
  <2> QED
    BY <2>1 DEF PatchesFrom
<1>3. \A i \in 1..Len(p): OneEach(p[i].tree)
  BY <1>2 DEF OneIn
<1> QED
  BY <1>1, <1>3

-----------------------------------------------------------------------------
(* What the operators do to the edits one can read *)

\* An edit is in a history if it is in one of its trees.
LEMMA EditsAre ==
    ASSUME NEW h \in Seq(Commit), NEW e
    PROVE  e \in EditsIn(h) <=> \E i \in 1..Len(h): e \in EditsOf(h[i].tree)
BY DEF EditsIn

\* An edit is in a tree if it is in a note or a copy.
LEMMA EditsRead ==
    ASSUME NEW T \in Tree, NEW e
    PROVE  e \in EditsOf(T) <=> e \in T.copies \/ \E f \in Files: e \in T.notes[f]
BY DEF EditsOf

\* There is nothing to read in an empty tree or history.
LEMMA EditsOfNothing == EditsOf(Empty) = {} /\ EditsIn(<<>>) = {}
<1>1. EditsOf(Empty) = {}
  BY DEF EditsOf, Empty
<1>2. PICK h \in Seq(Commit): h = <<>> /\ Len(h) = 0
  BY EmptySeq
<1>3. ASSUME NEW e PROVE e \notin EditsIn(h)
  <2>1. \A i \in 1..Len(h): FALSE
    BY <1>2
  <2> QED
    BY <2>1, EditsAre
<1> QED
  BY <1>1, <1>2, <1>3

\* A longer history has the edits of a shorter one.
LEMMA EditsExtend ==
    ASSUME NEW h \in Seq(Commit), NEW k \in Seq(Commit), Extends(k, h)
    PROVE  EditsIn(h) \subseteq EditsIn(k)
<1>1. Len(h) \in Nat /\ Len(k) \in Nat
  OBVIOUS
<1> QED
  BY <1>1, EditsAre DEF Extends

\* A commit adds the edits of its tree.
LEMMA EditsCommitted ==
    ASSUME NEW h \in Seq(Commit), NEW T \in Tree, NEW d \in Devices
    PROVE  EditsIn(NewCommit(h, T, d)) = EditsIn(h) \cup EditsOf(T)
<1>1. PICK k \in Seq(Commit): k = NewCommit(h, T, d)
  BY CommitMade
<1>2. /\ Len(k) = Len(h) + 1 /\ \A i \in 1..Len(h): k[i] = h[i]
      /\ k[Len(h) + 1] = [tree |-> T, by |-> d]
  BY <1>1, CommitMade
<1>3. k[Len(h) + 1].tree = T /\ Len(h) \in Nat
  BY <1>2
<1>4. ASSUME NEW e
      PROVE  e \in EditsIn(k) <=> e \in EditsIn(h) \/ e \in EditsOf(T)
  <2>1. \A i \in 1..Len(k): i \in 1..Len(h) \/ i = Len(h) + 1
    BY <1>2, <1>3
  <2>2. 1..Len(h) \subseteq 1..Len(k) /\ Len(h) + 1 \in 1..Len(k)
    BY <1>2, <1>3
  <2> QED
    BY <1>2, <1>3, <2>1, <2>2, EditsAre
<1>5. EditsIn(k) = EditsIn(h) \cup EditsOf(T)
  BY <1>4
<1> QED
  BY <1>1, <1>5

\* The edits of its tip are in a history.
LEMMA EditsOfTip ==
    ASSUME NEW h \in Seq(Commit)
    PROVE  EditsOf(TipTree(h)) \subseteq EditsIn(h)
<1>1. CASE h = <<>>
  BY <1>1, EditsOfNothing DEF TipTree
<1>2. CASE h # <<>>
  <2>1. Len(h) \in 1..Len(h)
    BY <1>2
  <2>2. TipTree(h) = h[Len(h)].tree
    BY <1>2 DEF TipTree
  <2> QED
    BY <2>1, <2>2, EditsAre
<1> QED
  BY <1>1, <1>2

\* A merge without conflicts has the edits of the patch, but those of its base.
LEMMA EditsMerged ==
    ASSUME NEW p \in Patch, NEW T \in Tree, Conflicting(p, T) = {}
    PROVE  EditsOf(p.tree) \subseteq EditsOf(p.base) \cup EditsOf(Merged(p, T))
<1>1. PICK m \in Tree: m = Merged(p, T)
  BY MergedIsTree
<1>2. p.tree \in Tree /\ p.base \in Tree
  BY DEF Patch
<1>3. \A f \in Files: p.tree.notes[f] = p.base.notes[f] \/ m.notes[f] = p.tree.notes[f]
  BY <1>1, MergedNotes
<1>4. p.tree.copies \subseteq p.base.copies \cup m.copies
  BY <1>1, MergedCopies
<1>5. EditsOf(p.tree) \subseteq EditsOf(p.base) \cup EditsOf(m)
  BY <1>2, <1>3, <1>4, EditsRead
<1> QED
  BY <1>1, <1>5

\* What is left of a rebase: the edits of its patches, each based on the one before.
PatchEdits(s) == UNION {EditsOf(s[i].tree): i \in 1..Len(s)}
Chained(s) == \A i \in 1..Len(s): i > 1 => s[i].base = s[i - 1].tree

\* What is left after the first patch.
LEMMA PatchesRest ==
    ASSUME NEW s \in Seq(Patch), s # <<>>
    PROVE  /\ Tail(s) \in Seq(Patch)
           /\ PatchEdits(s) \subseteq EditsOf(s[1].tree) \cup PatchEdits(Tail(s))
           /\ Chained(s) => Chained(Tail(s))
           /\ Chained(s) /\ Tail(s) # <<>> => Tail(s)[1].base = s[1].tree
           /\ \A i \in 1..Len(Tail(s)): i + 1 \in 1..Len(s) /\ Tail(s)[i] = s[i + 1]
<1>1. PICK t \in Seq(Patch): t = Tail(s)
  BY HeadTailProperties
<1>2. /\ Len(s) \in Nat /\ Len(t) = Len(s) - 1
      /\ \A i \in 1..Len(t): i + 1 \in 1..Len(s) /\ t[i] = s[i + 1]
  BY <1>1
<1>3. \A i \in 1..Len(s): i = 1 \/ (i - 1 \in 1..Len(t) /\ s[i] = t[i - 1])
  BY <1>2
<1>4. PatchEdits(s) \subseteq EditsOf(s[1].tree) \cup PatchEdits(t)
  BY <1>3 DEF PatchEdits
<1>5. Chained(s) => Chained(t)
  BY <1>2 DEF Chained
<1>6. Chained(s) /\ t # <<>> => t[1].base = s[1].tree
  <2>1. t # <<>> => 1 \in 1..Len(t) /\ 2 \in 1..Len(s)
    BY <1>2
  <2> QED
    BY <1>2, <2>1 DEF Chained
<1> QED
  BY <1>1, <1>2, <1>4, <1>5, <1>6

\* What a rebase starts with: h is in k and in the patches.
LEMMA PatchesStart ==
    ASSUME NEW h \in Seq(Commit), NEW k \in Seq(Commit)
    PROVE  /\ EditsIn(h) \subseteq EditsIn(k) \cup PatchEdits(PatchesSince(h, k))
           /\ Chained(PatchesSince(h, k))
           /\ PatchesSince(h, k) # <<>> =>
                 EditsOf(PatchesSince(h, k)[1].base) \subseteq EditsIn(k)
<1>1. PICK p \in Seq(Patch): p = PatchesSince(h, k)
  BY PatchesMade
<1>2. PICK n \in Nat: n = BaseLength(h, k)
  BY BaseIsCommon
<1>3. /\ n <= Len(h) /\ n <= Len(k) /\ Len(h) \in Nat /\ Len(k) \in Nat
      /\ \A i \in 1..n: h[i] = k[i]
  BY <1>2, BaseIsCommon
<1>4. PatchesFrom(p, n, h)
  BY <1>1, <1>2, PatchTrees
<1>5. \A i \in 1..Len(p): /\ p[i].tree = h[n + i].tree
                          /\ n + i # 1 => p[i].base = h[n + i - 1].tree
                          /\ n + i = 1 => p[i].base = Empty
  BY <1>4 DEF PatchesFrom
<1>6. EditsIn(h) \subseteq EditsIn(k) \cup PatchEdits(p)
  <2> SUFFICES ASSUME NEW e \in EditsIn(h) PROVE e \in EditsIn(k) \cup PatchEdits(p)
    OBVIOUS
  <2>1. PICK i \in 1..Len(h): e \in EditsOf(h[i].tree)
    BY EditsAre
  <2>2. CASE i <= n
    <3>1. i \in 1..Len(k) /\ h[i] = k[i]
      BY <1>3, <2>2
    <3> QED
      BY <2>1, <3>1, EditsAre
  <2>3. CASE i > n
    <3>1. i - n \in 1..Len(p) /\ n + (i - n) = i
      BY <1>3, <1>4, <2>3 DEF PatchesFrom
    <3>2. p[i - n].tree = h[i].tree
      BY <1>5, <3>1
    <3> QED
      BY <2>1, <3>1, <3>2 DEF PatchEdits
  <2> QED
    BY <1>3, <2>2, <2>3
<1>7. Chained(p)
  <2> SUFFICES ASSUME NEW i \in 1..Len(p), i > 1 PROVE p[i].base = p[i - 1].tree
    BY DEF Chained
  <2>1. i - 1 \in 1..Len(p) /\ n + i # 1 /\ n + (i - 1) = n + i - 1
    BY <1>3, <1>4 DEF PatchesFrom
  <2> QED
    BY <1>5, <2>1
<1>8. p # <<>> => EditsOf(p[1].base) \subseteq EditsIn(k)
  <2> SUFFICES ASSUME p # <<>> PROVE EditsOf(p[1].base) \subseteq EditsIn(k)
    OBVIOUS
  <2>1. 1 \in 1..Len(p)
    BY <1>3, <1>4 DEF PatchesFrom
  <2>2. CASE n = 0
    <3>1. p[1].base = Empty
      BY <1>5, <2>1, <2>2
    <3> QED
      BY <3>1, EditsOfNothing
  <2>3. CASE n # 0
    <3>1. n \in 1..Len(k) /\ n + 1 - 1 = n /\ n + 1 # 1
      BY <1>3, <2>3
    <3>2. p[1].base = k[n].tree
      BY <1>3, <1>5, <2>1, <3>1
    <3> QED
      BY <3>1, <3>2, EditsAre
  <2> QED
    BY <2>2, <2>3
<1> QED
  BY <1>1, <1>6, <1>7, <1>8

-----------------------------------------------------------------------------
(* The invariants *)

\* A rebase that may still be finished: under way, or stopped at conflicts it shows.
Midway(d) == detached[d] /\ (pc[d] = "replay" \/ conflicts[d] # {})

\* Whatever may become the branch, or a step to it, has no markers.
Unmarked(d) ==
    /\ OneIn(branch[d]) /\ OneIn(track[d])
    /\ ~detached[d] => OneEach(work[d]) /\ OneEach(index[d])
    /\ pc[d] = "commit" => conflicts[d] = {}
    /\ Midway(d) =>
          /\ OneIn(head[d])
          /\ \A i \in 1..Len(todo[d]): OneEach(todo[d][i].tree)
          /\ \A f \in Files \ conflicts[d]: One(index[d].notes[f]) /\ One(work[d].notes[f])

Marks == OneIn(remote) /\ \A d \in Devices: Unmarked(d)

\* Edits one can read in h, or has given up.
Safe(h) == dropped \cup EditsIn(h)

\* What HEAD lacks of the branch is in the patches to come, on top of what it has.
Replayable(d) ==
    /\ committed[d] \subseteq Safe(head[d]) \cup PatchEdits(todo[d])
    /\ todo[d] # <<>> => EditsOf(todo[d][1].base) \subseteq Safe(head[d])
    /\ Chained(todo[d])

\* Everything of the patch that is being replayed is in the index, but the notes whose
\* conflicts are not resolved.
Shown(d) ==
    /\ todo[d][1].tree.copies \subseteq Safe(head[d]) \cup index[d].copies
    /\ \A f \in Files \ conflicts[d]:
          todo[d][1].tree.notes[f] \subseteq
              Safe(head[d]) \cup index[d].copies \cup index[d].notes[f]

Answered(d) == pc[d] = "idle" /\ op[d] \in {"sync", "network"} /\ res[d] = "ok"

\* Where what d has committed is.
Accounted(d) ==
    /\ ~notebook[d] => committed[d] = {}
    /\ ~detached[d] => committed[d] \subseteq Safe(branch[d])
    /\ committed[d] \subseteq Safe(branch[d]) \cup EditsIn(head[d])
    /\ pc[d] = "ffRef" => Extends(track[d], branch[d])
    /\ Midway(d) => Replayable(d)
    /\ conflicts[d] # {} => Shown(d)
    /\ Answered(d) => committed[d] \subseteq Safe(remote)

Accounts == \A d \in Devices: Accounted(d)

\* The consumer makes whole calls, with its lock held, and users resolve a conflict
\* before they save again.
WholeCalls == Calls \subseteq {"sync", "stage"} /\ ~SaveOverConflict

\* Before the first tree is there.
Treeless(d) == Unborn(d) \/ (op[d] \in {"init", "clone"} /\ pc[d] \in {"fetch", "checkout"})

\* After StageAll and CommitIndex.
AfterCommit(d) ==
    pc[d] \in {"fetch", "rebase", "ffRef", "replay", "push"} /\ op[d] \notin {"init", "clone"}

NotesOf(T) == UNION {T.notes[f]: f \in Files}

\* Where what d has saved is, and when there is nothing but what is committed.
Saved(d) ==
    /\ op[d] # "network"
    /\ pending[d] \subseteq NotesOf(work[d])
    /\ ~notebook[d] \/ AfterCommit(d) \/ conflicts[d] # {} => pending[d] = {}
    /\ pc[d] = "commit" => index[d] = work[d]
    /\ Treeless(d) => index[d] = Empty

Saves == \A d \in Devices: Saved(d)

-----------------------------------------------------------------------------
(* Steps that touch no history and no file *)

\* What such a step may do.
Quiet(d) ==
    /\ UNCHANGED <<remote, refVars, todo, fileVars, ghostVars>>
    /\ pc'[d] = pc[d] \/ pc'[d] \notin {"commit", "ffRef", "replay"}
    /\ notebook[d] => notebook'[d]
    /\ Answered(d)' => Answered(d) /\ op'[d] = op[d]
    /\ Treeless(d)' => Treeless(d)
    /\ WholeCalls /\ op[d] # "network" => op'[d] # "network"
    /\ WholeCalls /\ AfterCommit(d)' => AfterCommit(d)

\* The consumer and the user who ask for something, and the end of the process.
LEMMA QuietCalls ==
    ASSUME TypeOK, NEW d \in Devices, Mine(d),
           \/ InitializeRefused(d) \/ OpenExistingRepo(d) \/ Bootstrap(d)
           \/ BootstrapUnchecked(d) \/ CloneNotebook(d) \/ CloneCancelled(d) \/ Restart(d)
           \/ Call(d) \/ (\E f \in Files: ResolveNothing(d, f))
    PROVE  Quiet(d)
<1>1. CASE InitializeRefused(d)
  BY <1>1 DEF TypeOK, Mine, Own, Starting, Opened, CallPlace, Unborn, Quiet, Answered,
     Treeless, AfterCommit, InitializeRefused, setupVars, refVars, fileVars, ghostVars,
     InitializeCalled
<1>2. CASE OpenExistingRepo(d)
  BY <1>2 DEF TypeOK, Mine, Own, Starting, Opened, CallPlace, Unborn, Quiet, Answered,
     Treeless, AfterCommit, OpenExistingRepo, refVars, fileVars, ghostVars,
     InitializeCalled
<1>3. CASE Bootstrap(d)
  BY <1>3 DEF TypeOK, Mine, Own, Starting, Opened, CallPlace, Unborn, Quiet, Answered,
     Treeless, AfterCommit, Bootstrap, setupVars, refVars, fileVars, ghostVars, Begin,
     InitializeCalled
<1>4. CASE BootstrapUnchecked(d)
  BY <1>4 DEF TypeOK, Mine, Own, Starting, Opened, CallPlace, Unborn, Quiet, Answered,
     Treeless, AfterCommit, BootstrapUnchecked, setupVars, refVars, fileVars, ghostVars,
     Begin, InitializeCalled
<1>5. CASE CloneNotebook(d)
  BY <1>5 DEF TypeOK, Mine, Own, Starting, Opened, CallPlace, Unborn, Quiet, Answered,
     Treeless, AfterCommit, CloneNotebook, setupVars, refVars, fileVars, ghostVars,
     Begin
<1>6. CASE CloneCancelled(d)
  BY <1>6 DEF TypeOK, Mine, Own, Starting, Opened, CallPlace, Unborn, Quiet, Answered,
     Treeless, AfterCommit, CloneCancelled, setupVars, refVars, fileVars, ghostVars,
     Return
<1>7. CASE Restart(d)
  BY <1>7 DEF TypeOK, Mine, Own, Starting, Opened, CallPlace, Unborn, Quiet, Answered,
     Treeless, AfterCommit, Restart, refVars, fileVars, ghostVars, Left
<1>8. ASSUME NEW o \in Calls, StartCall(d, o) PROVE Quiet(d)
  BY <1>8 DEF TypeOK, Mine, Own, Starting, Opened, CallPlace, Unborn, Quiet, Answered,
     Treeless, AfterCommit, StartCall, setupVars, refVars, fileVars, ghostVars, Begin,
     FirstStep, WholeCalls
<1>9. ASSUME NEW f \in Files, ResolveNothing(d, f) PROVE Quiet(d)
  BY <1>9 DEF TypeOK, Mine, Own, Starting, Opened, CallPlace, Unborn, Quiet, Answered,
     Treeless, AfterCommit, ResolveNothing, setupVars, refVars, fileVars, ghostVars
<1> QED
  BY <1>1, <1>2, <1>3, <1>4, <1>5, <1>6, <1>7, <1>8, <1>9 DEF Call

\* The steps of a call that only go on, or end it.
LEMMA QuietProgress ==
    ASSUME TypeOK, NEW d \in Devices, Mine(d),
           \/ InitRepo(d) \/ AddOrigin(d) \/ OpenClone(d) \/ NothingToCheckOut(d)
           \/ FirstCheckoutRefused(d) \/ FetchFails(d) \/ SkipRebase(d) \/ RebaseRefused(d)
           \/ ReplayObstructed(d) \/ PushWithoutBranch(d) \/ PushRejected(d)
    PROVE  Quiet(d)
<1>1. CASE InitRepo(d)
  BY <1>1 DEF TypeOK, Mine, Own, Starting, Opened, CallPlace, Unborn, Quiet, Answered,
     Treeless, AfterCommit, InitRepo, refVars, fileVars, ghostVars, Goto
<1>2. CASE AddOrigin(d)
  BY <1>2 DEF TypeOK, Mine, Own, Starting, Opened, CallPlace, Unborn, Quiet, Answered,
     Treeless, AfterCommit, AddOrigin, refVars, fileVars, ghostVars, Goto
<1>3. CASE OpenClone(d)
  BY <1>3 DEF TypeOK, Mine, Own, Starting, Opened, CallPlace, Unborn, Quiet, Answered,
     Treeless, AfterCommit, OpenClone, refVars, fileVars, ghostVars, Return
<1>4. CASE NothingToCheckOut(d)
  BY <1>4 DEF TypeOK, Mine, Own, Starting, Opened, CallPlace, Unborn, Quiet, Answered,
     Treeless, AfterCommit, NothingToCheckOut, refVars, fileVars, ghostVars,
     Bootstrapped, Goto, Return
<1>5. CASE FirstCheckoutRefused(d)
  BY <1>5 DEF TypeOK, Mine, Own, Starting, Opened, CallPlace, Unborn, Quiet, Answered,
     Treeless, AfterCommit, FirstCheckoutRefused, setupVars, refVars, fileVars,
     ghostVars, Return
<1>6. CASE FetchFails(d)
  BY <1>6 DEF TypeOK, Mine, Own, Starting, Opened, CallPlace, Unborn, Quiet, Answered,
     Treeless, AfterCommit, FetchFails, setupVars, refVars, fileVars, ghostVars, Return
<1>7. CASE SkipRebase(d)
  BY <1>7 DEF TypeOK, Mine, Own, Starting, Opened, CallPlace, Unborn, Quiet, Answered,
     Treeless, AfterCommit, SkipRebase, setupVars, refVars, fileVars, ghostVars, Goto
<1>8. CASE RebaseRefused(d)
  BY <1>8 DEF TypeOK, Mine, Own, Starting, Opened, CallPlace, Unborn, Quiet, Answered,
     Treeless, AfterCommit, RebaseRefused, setupVars, refVars, fileVars, ghostVars,
     Return
<1>9. CASE ReplayObstructed(d)
  BY <1>9 DEF TypeOK, Mine, Own, Starting, Opened, CallPlace, Unborn, Quiet, Answered,
     Treeless, AfterCommit, ReplayObstructed, setupVars, refVars, fileVars, ghostVars,
     Return, Replaying
<1>10. CASE PushWithoutBranch(d)
  BY <1>10 DEF TypeOK, Mine, Own, Starting, Opened, CallPlace, Unborn, Quiet, Answered,
     Treeless, AfterCommit, PushWithoutBranch, setupVars, refVars, fileVars, ghostVars,
     Return, HasBranch
<1>11. CASE PushRejected(d)
  BY <1>11 DEF TypeOK, Mine, Own, Starting, Opened, CallPlace, Unborn, Quiet, Answered,
     Treeless, AfterCommit, PushRejected, setupVars, refVars, fileVars, ghostVars,
     HasBranch, Retry, Return
<1> QED
  BY <1>1, <1>2, <1>3, <1>4, <1>5, <1>6, <1>7, <1>8, <1>9, <1>10, <1>11

-----------------------------------------------------------------------------
(* What a step leaves alone *)

\* A step of d leaves the files and answers of the others alone, and what was given up
\* stays given up.
Aside(d) ==
    /\ dropped \subseteq dropped'
    /\ \A c \in Devices \ {d}:
          /\ index'[c] = index[c] /\ res'[c] = res[c]
          /\ pending'[c] = pending[c] /\ committed'[c] = committed[c]

\* Users, processes and the calls that begin.
LEMMA UserAside ==
    ASSUME TypeOK, NEW d \in Devices, Step(d), ~Continue(d)
    PROVE  Aside(d)
<1>1. ASSUME NEW f \in Files, NEW e \in Edits, SaveFile(d, f, e) PROVE Aside(d)
  BY <1>1 DEF TypeOK, Aside, SaveFile, setupVars, refVars, callVars
<1>2. ASSUME NEW e \in Edits, CreateNotebook(d, e) PROVE Aside(d)
  BY <1>2 DEF TypeOK, Aside, CreateNotebook, refVars, callVars
<1>3. CASE InitializeRefused(d)
  BY <1>3 DEF TypeOK, Aside, InitializeRefused, setupVars, refVars, fileVars, ghostVars
<1>4. CASE OpenExistingRepo(d)
  BY <1>4 DEF TypeOK, Aside, OpenExistingRepo, refVars, fileVars, ghostVars
<1>5. CASE Bootstrap(d)
  BY <1>5 DEF TypeOK, Aside, Bootstrap, setupVars, refVars, fileVars, ghostVars, Begin
<1>6. CASE BootstrapUnchecked(d)
  BY <1>6 DEF TypeOK, Aside, BootstrapUnchecked, setupVars, refVars, fileVars,
     ghostVars, Begin
<1>7. CASE CloneNotebook(d)
  BY <1>7 DEF TypeOK, Aside, CloneNotebook, setupVars, refVars, fileVars, ghostVars,
     Begin
<1>8. CASE CloneCancelled(d)
  BY <1>8 DEF TypeOK, Aside, CloneCancelled, setupVars, refVars, fileVars, ghostVars,
     Return
<1>9. CASE DiscardClone(d)
  BY <1>9 DEF TypeOK, Aside, DiscardClone, callVars, ghostVars
<1>10. CASE Restart(d)
  BY <1>10 DEF TypeOK, Aside, Restart, refVars, fileVars, ghostVars, Left
<1>11. ASSUME NEW o \in Calls, StartCall(d, o) PROVE Aside(d)
  BY <1>11 DEF TypeOK, Aside, StartCall, setupVars, refVars, fileVars, ghostVars, Begin,
     FirstStep
<1>12. ASSUME NEW f \in Files, ResolveNothing(d, f) PROVE Aside(d)
  BY <1>12 DEF TypeOK, Aside, ResolveNothing, setupVars, refVars, fileVars, ghostVars
<1>13. ASSUME NEW f \in Files, NEW r \in Resolutions, ResolveConflict(d, f, r) PROVE Aside(d)
  BY <1>13 DEF TypeOK, Aside, ResolveConflict, setupVars
<1> QED
  BY <1>1, <1>2, <1>3, <1>4, <1>5, <1>6, <1>7, <1>8, <1>9, <1>10, <1>11, <1>12, <1>13
     DEF Step, Enable, Call, Settle

\* The steps of a call.
LEMMA ProgressAside ==
    ASSUME TypeOK, NEW d \in Devices, Continue(d)
    PROVE  Aside(d)
<1>1. CASE InitRepo(d)
  BY <1>1 DEF TypeOK, Aside, InitRepo, refVars, fileVars, ghostVars, Goto
<1>2. CASE AddOrigin(d)
  BY <1>2 DEF TypeOK, Aside, AddOrigin, refVars, fileVars, ghostVars, Goto
<1>3. CASE OpenClone(d)
  BY <1>3 DEF TypeOK, Aside, OpenClone, refVars, fileVars, ghostVars, Return
<1>4. CASE NothingToCheckOut(d)
  BY <1>4 DEF TypeOK, Aside, NothingToCheckOut, refVars, fileVars, ghostVars,
     Bootstrapped, Goto, Return
<1>5. CASE FirstCheckoutRefused(d)
  BY <1>5 DEF TypeOK, Aside, FirstCheckoutRefused, setupVars, refVars, fileVars,
     ghostVars, Return
<1>6. CASE FirstCheckout(d)
  BY <1>6 DEF TypeOK, Aside, FirstCheckout, setupVars, refVars, ghostVars, Goto
<1>7. CASE FirstRef(d)
  BY <1>7 DEF TypeOK, Aside, FirstRef, fileVars, ghostVars, Bootstrapped, Goto, Return
<1>8. CASE StageAll(d)
  BY <1>8 DEF TypeOK, Aside, StageAll, setupVars, refVars, ghostVars, Goto
<1>9. CASE CommitIndex(d)
  BY <1>9 DEF TypeOK, Aside, CommitIndex, setupVars, fileVars, Goto, Return
<1>10. CASE FetchOrigin(d)
  BY <1>10 DEF TypeOK, Aside, FetchOrigin, setupVars, fileVars, ghostVars, Goto
<1>11. CASE FetchFails(d)
  BY <1>11 DEF TypeOK, Aside, FetchFails, setupVars, refVars, fileVars, ghostVars,
     Return
<1>12. CASE SkipRebase(d)
  BY <1>12 DEF TypeOK, Aside, SkipRebase, setupVars, refVars, fileVars, ghostVars, Goto
<1>13. CASE FastForwardCheckout(d)
  BY <1>13 DEF TypeOK, Aside, FastForwardCheckout, setupVars, refVars, ghostVars, Goto
<1>14. CASE FastForwardRef(d)
  BY <1>14 DEF TypeOK, Aside, FastForwardRef, setupVars, fileVars, ghostVars, Goto
<1>15. CASE RebaseInit(d)
  BY <1>15 DEF TypeOK, Aside, RebaseInit, setupVars, ghostVars, Goto
<1>16. CASE RebaseRefused(d)
  BY <1>16 DEF TypeOK, Aside, RebaseRefused, setupVars, refVars, fileVars, ghostVars,
     Return
<1>17. CASE ReplayObstructed(d)
  BY <1>17 DEF TypeOK, Aside, ReplayObstructed, setupVars, refVars, fileVars, ghostVars,
     Return
<1>18. CASE ReplayConflict(d)
  BY <1>18 DEF TypeOK, Aside, ReplayConflict, setupVars, refVars, ghostVars, Return
<1>19. CASE ReplayCommit(d)
  BY <1>19 DEF TypeOK, Aside, ReplayCommit, setupVars, ghostVars, Goto, Return
<1>20. CASE FinishRebase(d)
  BY <1>20 DEF TypeOK, Aside, FinishRebase, setupVars, fileVars, ghostVars, Goto, Return
<1>21. CASE PushWithoutBranch(d)
  BY <1>21 DEF TypeOK, Aside, PushWithoutBranch, setupVars, refVars, fileVars,
     ghostVars, Return
<1>22. CASE PushOrigin(d)
  BY <1>22 DEF TypeOK, Aside, PushOrigin, fileVars, ghostVars, Return
<1>23. CASE PushRejected(d)
  BY <1>23 DEF TypeOK, Aside, PushRejected, setupVars, refVars, fileVars, ghostVars,
     Retry, Return
<1>24. CASE PushFails(d)
  BY <1>24 DEF TypeOK, Aside, PushFails, setupVars, refVars, fileVars, ghostVars,
     Return, Retry
<1> QED
  BY <1>1, <1>2, <1>3, <1>4, <1>5, <1>6, <1>7, <1>8, <1>9, <1>10, <1>11, <1>12, <1>13,
     <1>14, <1>15, <1>16, <1>17, <1>18, <1>19, <1>20, <1>21, <1>22, <1>23, <1>24 DEF
     Continue

\* Every step leaves the files of the others alone.
LEMMA StepAside ==
    ASSUME TypeOK, NEW d \in Devices, Step(d)
    PROVE  Aside(d)
BY UserAside, ProgressAside

\* The invariants of the other devices are about what a step leaves alone, the remote,
\* which grows, and what is given up, which grows too.
LEMMA OthersKeepEdits ==
    ASSUME TypeOK, TypeOK', NEW d \in Devices, NEW c \in Devices \ {d},
           Mine(c), Apart(d), Shared(d), Aside(d)
    PROVE  /\ Unmarked(c) => Unmarked(c)'
           /\ Accounted(c) => Accounted(c)'
           /\ Saved(c) => Saved(c)'
<1>1. Unmarked(c) => Unmarked(c)'
  BY DEF Unmarked, Midway, Apart, Aside
<1>2. Saved(c) => Saved(c)'
  BY DEF Saved, AfterCommit, Treeless, Unborn, Apart, Aside
<1>3. /\ EditsIn(remote) \subseteq EditsIn(remote)'
      /\ EditsIn(branch[c])' = EditsIn(branch[c])
      /\ EditsIn(head[c])' = EditsIn(head[c])
      /\ EditsIn(track[c])' = EditsIn(track[c])
      /\ Extends(track[c], branch[c])' = Extends(track[c], branch[c])
  <2>1. /\ remote \in Seq(Commit) /\ remote' \in Seq(Commit)
        /\ branch'[c] = branch[c] /\ head'[c] = head[c] /\ track'[c] = track[c]
    BY DEF TypeOK, Apart
  <2>2. Extends(remote', remote)
    BY DEF Shared
  <2>3. EditsIn(remote) \subseteq EditsIn(remote')
    BY <2>1, <2>2, EditsExtend
  <2> QED
    BY <2>1, <2>3 DEF EditsIn, Extends
<1>4. /\ Safe(remote) \subseteq Safe(remote)'
      /\ Safe(branch[c]) \subseteq Safe(branch[c])'
      /\ Safe(head[c]) \subseteq Safe(head[c])'
  BY <1>3 DEF Safe, Aside
<1>5. /\ PatchEdits(todo[c])' = PatchEdits(todo[c]) /\ Chained(todo[c])' = Chained(todo[c])
      /\ todo'[c] = todo[c] /\ index'[c] = index[c] /\ conflicts'[c] = conflicts[c]
      /\ committed'[c] = committed[c]
  BY DEF Apart, Aside, PatchEdits, Chained
<1>6. Replayable(c) => Replayable(c)'
  BY <1>4, <1>5 DEF Replayable
<1>7. Shown(c) => Shown(c)'
  BY <1>4, <1>5 DEF Shown
<1>8. /\ Midway(c)' = Midway(c) /\ Answered(c)' = Answered(c) /\ notebook'[c] = notebook[c]
      /\ detached'[c] = detached[c] /\ pc'[c] = pc[c]
  BY DEF Midway, Answered, Apart, Aside
<1>9. Accounted(c) => Accounted(c)'
  BY <1>3, <1>4, <1>5, <1>6, <1>7, <1>8 DEF Accounted
<1> QED
  BY <1>1, <1>2, <1>9

\* A quiet step keeps the invariants of its own device.
LEMMA QuietKeepsEdits ==
    ASSUME NEW d \in Devices, Mine(d), Quiet(d)
    PROVE  /\ Unmarked(d) => Unmarked(d)'
           /\ Accounted(d) => Accounted(d)'
           /\ WholeCalls /\ Saved(d) => Saved(d)'
<1>1. Unmarked(d) => Unmarked(d)'
  BY DEF Quiet, refVars, fileVars, Unmarked, Midway
<1>2. WholeCalls /\ Saved(d) => Saved(d)'
  BY DEF Quiet, fileVars, ghostVars, Saved
<1>3. /\ Replayable(d) => Replayable(d)'
      /\ Shown(d) => Shown(d)'
      /\ Midway(d)' => Midway(d)
  BY DEF Quiet, refVars, fileVars, ghostVars, Replayable, Shown, Midway, Safe
<1>4. Accounted(d) => Accounted(d)'
  BY <1>3 DEF Quiet, refVars, fileVars, ghostVars, Accounted, Safe
<1> QED
  BY <1>1, <1>2, <1>4

-----------------------------------------------------------------------------
(* No conflict markers in what is shared *)

\* What an edit, a checkout and a resolution make of a note.
LEMMA OneText == One({}) /\ \A e: One({e})
BY DEF One

\* A checkout of a tree without markers over files without any.
LEMMA OneCheckout ==
    ASSUME NEW T \in Tree, NEW d, OneEach(T), OneEach(work[d])
    PROVE  OneEach(SafeCheckout(d, T)) /\ OneEach(ForceCheckout(d, T))
<1>1. \A f \in Files: One(T.notes[f]) /\ One(work[d].notes[f])
  BY DEF OneEach
<1> QED
  BY <1>1, CheckoutNotes DEF OneEach

\* Nothing has no markers.
LEMMA OneEmpty == OneEach(Empty) /\ OneIn(<<>>)
<1>1. \A f \in Files: Empty.notes[f] = {}
  BY DEF Empty
<1>2. Len(<<>>) = 0
  OBVIOUS
<1> QED
  BY <1>1, <1>2, OneText DEF OneEach, OneIn

\* The trees and histories of a device.
LEMMA TreesAre ==
    ASSUME TypeOK, NEW d \in Devices
    PROVE  /\ work[d] \in Tree /\ index[d] \in Tree
           /\ \A f \in Files: work[d].notes[f] \in SUBSET Edits
           /\ \A f \in Files: index[d].notes[f] \in SUBSET Edits
           /\ TipTree(track[d]) \in Tree /\ TipTree(head[d]) \in Tree
           /\ TipTree(branch[d]) \in Tree
           /\ todo[d] \in Seq(Patch)
           /\ todo[d] # <<>> => todo[d][1] \in Patch /\ 1 \in 1..Len(todo[d])
<1>1. work[d] \in Tree /\ index[d] \in Tree /\ todo[d] \in Seq(Patch)
  BY DEF TypeOK
<1>2. track[d] \in Seq(Commit) /\ head[d] \in Seq(Commit) /\ branch[d] \in Seq(Commit)
  BY DEF TypeOK
<1>3. todo[d] # <<>> => todo[d][1] \in Patch /\ 1 \in 1..Len(todo[d])
  BY <1>1
<1> QED
  BY <1>1, <1>2, <1>3, TreeParts, TipIsTree

\* A save keeps conflict markers out of what is shared.
LEMMA SaveFileTrees ==
    ASSUME TypeOK, NEW d \in Devices, NEW f \in Files, NEW e \in Edits, SaveFile(d, f, e),
           Unmarked(d)
    PROVE  Unmarked(d)'
<1>1. /\ work'[d] = WithNote(work[d], f, {e}) /\ pc' = pc
      /\ UNCHANGED <<refVars, todo, conflicts, index>>
  BY DEF SaveFile, TypeOK, callVars
<1>2. /\ work'[d].notes[f] = {e}
      /\ \A g \in Files \ {f}: work'[d].notes[g] = work[d].notes[g]
  BY <1>1, TreesAre, WithNoteSets
<1>3. ASSUME NEW g \in Files, One(work[d].notes[g]) PROVE One(work'[d].notes[g])
  BY <1>2, <1>3, OneText
<1>4. OneEach(work[d]) => OneEach(work'[d])
  BY <1>3 DEF OneEach
<1> QED
  BY <1>1, <1>3, <1>4 DEF refVars, Unmarked, Midway

\* The creation of a notebook keeps conflict markers out of what is shared.
LEMMA CreateNotebookTrees ==
    ASSUME TypeOK, NEW d \in Devices, Mine(d), NEW e \in Edits, CreateNotebook(d, e),
           Unmarked(d)
    PROVE  Unmarked(d)'
<1>1. /\ work'[d] = WithNote(work[d], Meta, {e})
      /\ pc' = pc /\ ~detached[d] /\ Meta \in Files
      /\ UNCHANGED <<refVars, todo, conflicts, index>>
  BY ConstantsAssumption DEF ConstantsAssumption, CreateNotebook, TypeOK, callVars, Mine,
     Own, Opened, Starting, Unborn
<1>2. /\ work'[d].notes[Meta] = {e}
      /\ \A g \in Files \ {Meta}: work'[d].notes[g] = work[d].notes[g]
  BY <1>1, TreesAre, WithNoteSets
<1> QED
  BY <1>1, <1>2, OneText DEF refVars, Unmarked, Midway, OneEach

\* The removal of a failed clone keeps conflict markers out of what is shared.
LEMMA DiscardCloneTrees ==
    ASSUME TypeOK, NEW d \in Devices, Mine(d), DiscardClone(d), Unmarked(d)
    PROVE  Unmarked(d)'
<1>1. /\ work'[d] = Empty /\ index'[d] = Empty /\ branch'[d] = <<>> /\ track'[d] = <<>>
      /\ pc' = pc /\ conflicts' = conflicts /\ detached' = detached /\ ~detached[d]
  BY DEF DiscardClone, TypeOK, callVars, Mine, Own, Starting
<1> QED
  BY <1>1, OneEmpty DEF Unmarked, Midway

\* The first checkout keeps conflict markers out of what is shared.
LEMMA FirstCheckoutTrees ==
    ASSUME TypeOK, NEW d \in Devices, Mine(d), FirstCheckout(d), Unmarked(d)
    PROVE  Unmarked(d)'
<1>1. /\ work'[d] = SafeCheckout(d, TipTree(track[d])) /\ index'[d] = TipTree(track[d])
      /\ pc'[d] = "initRef" /\ ~detached[d] /\ UNCHANGED <<refVars, todo, conflicts>>
  BY DEF FirstCheckout, TypeOK, Goto, Mine, Own, Starting, CallPlace, FirstFetch
<1>2. OneEach(TipTree(track[d])) /\ OneEach(work[d])
  BY <1>1, OneTip DEF TypeOK, Unmarked
<1>3. OneEach(work'[d]) /\ OneEach(index'[d])
  BY <1>1, <1>2, TreesAre, OneCheckout
<1> QED
  BY <1>1, <1>3 DEF refVars, Unmarked, Midway

\* The first ref keeps conflict markers out of what is shared.
LEMMA FirstRefTrees ==
    ASSUME TypeOK, NEW d \in Devices, Mine(d), FirstRef(d), Unmarked(d)
    PROVE  Unmarked(d)'
<1>1. /\ branch'[d] = track[d] /\ pc'[d] \in {"openClone", "idle"}
      /\ UNCHANGED <<track, detached, head, todo, fileVars>>
  BY DEF FirstRef, Bootstrapped, Goto, Return, TypeOK
<1> QED
  BY <1>1 DEF fileVars, Unmarked, Midway

\* StageAll keeps conflict markers out of what is shared.
LEMMA StageAllTrees ==
    ASSUME TypeOK, NEW d \in Devices, Mine(d), StageAll(d), Unmarked(d)
    PROVE  Unmarked(d)'
<1>1. /\ index'[d] = work[d] /\ conflicts'[d] = {} /\ pc'[d] = "commit"
      /\ UNCHANGED <<refVars, todo, work>>
  BY DEF StageAll, Goto, TypeOK
<1> QED
  BY <1>1 DEF refVars, Unmarked, Midway

\* A commit keeps conflict markers out of what is shared.
LEMMA CommitIndexTrees ==
    ASSUME TypeOK, NEW d \in Devices, Mine(d), CommitIndex(d), Unmarked(d)
    PROVE  Unmarked(d)'
<1>1. /\ pc[d] = "commit" /\ pc'[d] \in {"idle", "push", "fetch"}
      /\ UNCHANGED <<track, detached, todo, fileVars>>
  BY DEF CommitIndex, Goto, Return, TypeOK
<1>2. ~detached[d] => branch'[d] = branch[d] \/ branch'[d] = NewCommit(branch[d], index[d], d)
  BY DEF CommitIndex, TypeOK, HeadHistory
<1>3. detached[d] => branch'[d] = branch[d]
  BY DEF CommitIndex
<1>4. branch[d] \in Seq(Commit)
  BY DEF TypeOK
<1>5. OneIn(branch'[d])
  BY <1>2, <1>3, <1>4, TreesAre, OneCommit DEF Unmarked
<1> QED
  BY <1>1, <1>5 DEF fileVars, Unmarked, Midway

\* A fetch keeps conflict markers out of what is shared.
LEMMA FetchOriginTrees ==
    ASSUME TypeOK, NEW d \in Devices, Mine(d), FetchOrigin(d), Unmarked(d), OneIn(remote)
    PROVE  Unmarked(d)'
<1>1. /\ track'[d] = remote /\ pc'[d] \in {"checkout", "rebase"}
      /\ UNCHANGED <<branch, detached, head, todo, fileVars>>
  BY DEF FetchOrigin, Goto, TypeOK
<1> QED
  BY <1>1 DEF fileVars, Unmarked, Midway

\* The checkout of a fast-forward keeps conflict markers out of what is shared.
LEMMA FastForwardCheckoutTrees ==
    ASSUME TypeOK, NEW d \in Devices, FastForwardCheckout(d), Unmarked(d)
    PROVE  Unmarked(d)'
<1>1. /\ work'[d] = ForceCheckout(d, TipTree(track[d])) /\ index'[d] = TipTree(track[d])
      /\ pc'[d] = "ffRef" /\ ~detached[d] /\ UNCHANGED <<refVars, todo, conflicts>>
  BY DEF FastForwardCheckout, TypeOK, Goto
<1>2. OneEach(TipTree(track[d])) /\ OneEach(work[d])
  BY <1>1, OneTip DEF TypeOK, Unmarked
<1>3. OneEach(work'[d]) /\ OneEach(index'[d])
  BY <1>1, <1>2, TreesAre, OneCheckout
<1> QED
  BY <1>1, <1>3 DEF refVars, Unmarked, Midway

\* The ref of a fast-forward keeps conflict markers out of what is shared.
LEMMA FastForwardRefTrees ==
    ASSUME TypeOK, NEW d \in Devices, FastForwardRef(d), Unmarked(d)
    PROVE  Unmarked(d)'
<1>1. /\ branch'[d] = track[d] /\ pc[d] = "ffRef" /\ pc'[d] = "push"
      /\ UNCHANGED <<track, detached, head, todo, fileVars>>
  BY DEF FastForwardRef, Goto, TypeOK
<1> QED
  BY <1>1 DEF fileVars, Unmarked, Midway

\* The start of a rebase keeps conflict markers out of what is shared.
LEMMA RebaseInitTrees ==
    ASSUME TypeOK, NEW d \in Devices, RebaseInit(d), Unmarked(d)
    PROVE  Unmarked(d)'
<1>1. /\ work'[d] = SafeCheckout(d, TipTree(track[d])) /\ index'[d] = TipTree(track[d])
      /\ head'[d] = track[d] /\ todo'[d] = PatchesSince(branch[d], track[d])
      /\ pc'[d] = "replay" /\ ~detached[d] /\ detached'[d]
      /\ UNCHANGED <<branch, track, conflicts>>
  BY DEF RebaseInit, Diverged, TypeOK, Goto
<1>2. OneEach(TipTree(track[d])) /\ OneEach(work[d])
  BY <1>1, OneTip DEF TypeOK, Unmarked
<1>3. OneEach(work'[d]) /\ OneEach(index'[d])
  BY <1>1, <1>2, TreesAre, OneCheckout
<1>4. branch[d] \in Seq(Commit) /\ track[d] \in Seq(Commit)
  BY DEF TypeOK
<1>5. \A i \in 1..Len(todo'[d]): OneEach(todo'[d][i].tree)
  BY <1>1, <1>4, OnePatches DEF Unmarked
<1> QED
  BY <1>1, <1>3, <1>5 DEF Unmarked, Midway, OneEach

\* Where a replayed patch has no conflict, neither the index nor the files get markers.
LEMMA ReplayedNotes ==
    ASSUME TypeOK, NEW d \in Devices, Mine(d), Unmarked(d), Replaying(d)
    PROVE  /\ StepTree(d) \in Tree
           /\ \A f \in Files \ StepConflicts(d): One(StepTree(d).notes[f])
           /\ \A f \in Files \ StepConflicts(d):
                 One(SafeCheckout(d, StepTree(d)).notes[f])
<1>1. todo[d][1] \in Patch /\ Ours(d) \in Tree
  BY TreesAre DEF Replaying, Ours
<1>2. OneEach(todo[d][1].tree) /\ OneEach(Ours(d))
  BY OneTip, TreesAre DEF Unmarked, Midway, Replaying, Mine, Rebasing, TypeOK, Ours
<1>3. \A f \in Files: One(work[d].notes[f])
  BY DEF Unmarked, Midway, Replaying, Mine, Rebasing
<1>4. PICK T \in Tree: T = StepTree(d)
  BY <1>1, MergedIsTree DEF StepTree
<1>5. \A f \in Files \ StepConflicts(d): One(T.notes[f])
  BY <1>1, <1>2, <1>4, MergedNotes DEF StepTree, StepConflicts, OneEach
<1>6. \A f \in Files: SafeCheckout(d, T).notes[f] \in {work[d].notes[f], T.notes[f]}
  BY CheckoutNotes
<1> QED
  BY <1>3, <1>4, <1>5, <1>6

\* A replay that stops at a conflict keeps conflict markers out of what is shared.
LEMMA ReplayConflictTrees ==
    ASSUME TypeOK, NEW d \in Devices, Mine(d), ReplayConflict(d), Unmarked(d)
    PROVE  Unmarked(d)'
<1>1. /\ work'[d] = SafeCheckout(d, StepTree(d)) /\ index'[d] = StepTree(d)
      /\ conflicts'[d] = StepConflicts(d) /\ Replaying(d) /\ detached[d] /\ pc[d] = "replay"
      /\ pc'[d] = "idle" /\ UNCHANGED <<refVars, todo>>
  BY DEF ReplayConflict, Replaying, TypeOK, Return, Mine, Rebasing
<1>2. \A f \in Files \ conflicts'[d]: One(index'[d].notes[f]) /\ One(work'[d].notes[f])
  BY <1>1, ReplayedNotes
<1> QED
  BY <1>1, <1>2 DEF refVars, Unmarked, Midway

\* A replayed patch keeps conflict markers out of what is shared.
LEMMA ReplayCommitTrees ==
    ASSUME TypeOK, NEW d \in Devices, Mine(d), ReplayCommit(d), Unmarked(d)
    PROVE  Unmarked(d)'
<1>1. /\ work'[d] = SafeCheckout(d, StepTree(d)) /\ index'[d] = StepTree(d)
      /\ StepConflicts(d) = {} /\ Replaying(d) /\ detached[d] /\ pc[d] = "replay"
      /\ UNCHANGED <<branch, track, detached, conflicts>> /\ conflicts[d] = {}
  BY DEF ReplayCommit, Replaying, TypeOK, Mine, Rebasing
<1>2. \/ /\ pc'[d] = "idle"
      \/ /\ pc'[d] = "replay" /\ todo'[d] = Tail(todo[d])
         /\ head'[d] = head[d] \/ head'[d] = NewCommit(head[d], StepTree(d), d)
  BY DEF ReplayCommit, Replaying, TypeOK, Return, Goto
<1>3. \A f \in Files: One(index'[d].notes[f]) /\ One(work'[d].notes[f])
  BY <1>1, ReplayedNotes
<1>4. pc'[d] = "replay" => OneIn(head'[d])
  <2>1. head[d] \in Seq(Commit) /\ OneIn(head[d])
    BY <1>1 DEF TypeOK, Unmarked, Midway
  <2>2. StepTree(d) \in Tree /\ OneEach(StepTree(d))
    BY <1>1, <1>3, ReplayedNotes DEF OneEach
  <2> QED
    BY <1>2, <2>1, <2>2, OneCommit
<1>5. ASSUME pc'[d] = "replay"
      PROVE  \A i \in 1..Len(todo'[d]): OneEach(todo'[d][i].tree)
  <2>1. todo'[d] = Tail(todo[d])
    BY <1>2, <1>5
  <2>2. todo[d] \in Seq(Patch) /\ todo[d] # <<>>
    BY <1>1 DEF TypeOK, Replaying
  <2>3. \A i \in 1..Len(todo[d]): OneEach(todo[d][i].tree)
    BY <1>1 DEF Unmarked, Midway
  <2> QED
    BY <2>1, <2>2, <2>3, PatchesRest
<1> QED
  BY <1>1, <1>2, <1>3, <1>4, <1>5 DEF Unmarked, Midway

\* The end of a rebase keeps conflict markers out of what is shared.
LEMMA FinishRebaseTrees ==
    ASSUME TypeOK, NEW d \in Devices, Mine(d), FinishRebase(d), Unmarked(d)
    PROVE  Unmarked(d)'
<1>1. /\ branch'[d] = head[d] /\ ~detached'[d]
      /\ pc[d] = "replay" /\ pc'[d] \in {"idle", "push"}
      /\ detached[d] /\ conflicts[d] = {} /\ UNCHANGED <<track, fileVars>>
  BY DEF FinishRebase, Goto, Return, TypeOK, Mine, Rebasing
<1> QED
  BY <1>1 DEF fileVars, Unmarked, Midway, OneEach

\* A push the server accepts, or may have, keeps conflict markers out of what is shared.
LEMMA PushTrees ==
    ASSUME TypeOK, NEW d \in Devices, PushOrigin(d) \/ PushFails(d), Unmarked(d),
           OneIn(remote)
    PROVE  Unmarked(d)' /\ OneIn(remote)'
<1>1. /\ remote' = remote \/ remote' = branch[d]
      /\ track'[d] = track[d] \/ track'[d] = branch[d]
      /\ pc[d] = "push" /\ pc'[d] \in {"idle", "fetch"}
      /\ UNCHANGED <<branch, detached, head, todo, fileVars>>
  BY DEF PushOrigin, PushFails, PushedRef, Retry, Return, TypeOK, refVars
<1> QED
  BY <1>1 DEF fileVars, Unmarked, Midway

\* What a resolution makes of a tree: the note is one side, the others stay.
LEMMA ResolvedNotes ==
    ASSUME TypeOK, NEW d \in Devices, todo[d] # <<>>, NEW T \in Tree, NEW f \in Files,
           NEW r \in Resolutions
    PROVE  /\ Resolve(T, d, f, r) \in Tree
           /\ \A g \in Files \ {f}: Resolve(T, d, f, r).notes[g] = T.notes[g]
           /\ Resolve(T, d, f, r).notes[f] \in {LocalSide(d, f), RemoteSide(d, f)}
           /\ T.copies \subseteq Resolve(T, d, f, r).copies
           /\ \/ r = "keepRemote"
              \/ LocalSide(d, f) \subseteq
                    Resolve(T, d, f, r).notes[f] \cup Resolve(T, d, f, r).copies
<1>1. todo[d][1] \in Patch /\ Ours(d) \in Tree
  BY TreesAre DEF Ours
<1>2. todo[d][1].tree \in Tree
  BY <1>1 DEF Patch
<1>3. LocalSide(d, f) \in SUBSET Edits /\ RemoteSide(d, f) \in SUBSET Edits
  BY <1>1, <1>2, TreeParts DEF LocalSide, RemoteSide
<1>4. CASE r = "keepLocal"
  <2>1. Resolve(T, d, f, r) = WithNote(T, f, LocalSide(d, f))
    BY <1>4 DEF Resolve
  <2> QED
    BY <1>3, <2>1, WithNoteIsTree, WithNoteSets
<1>5. CASE r = "keepRemote"
  <2>1. Resolve(T, d, f, r) = WithNote(T, f, RemoteSide(d, f))
    BY <1>5 DEF Resolve
  <2> QED
    BY <1>3, <1>5, <2>1, WithNoteIsTree, WithNoteSets
<1>6. CASE r = "keepBoth"
  <2>1. PICK W \in Tree: W = WithNote(T, f, RemoteSide(d, f))
    BY <1>3, WithNoteIsTree
  <2>2. W.notes \in [Files -> SUBSET Edits] /\ T.copies \cup LocalSide(d, f) \in SUBSET Edits
    BY <1>3, TreeParts
  <2>3. Resolve(T, d, f, r) = [notes |-> W.notes, copies |-> T.copies \cup LocalSide(d, f)]
    BY <1>6, <2>1 DEF Resolve
  <2>4. /\ Resolve(T, d, f, r) \in Tree /\ Resolve(T, d, f, r).notes = W.notes
        /\ Resolve(T, d, f, r).copies = T.copies \cup LocalSide(d, f)
    BY <2>2, <2>3, TreeMade
  <2>5. W.notes[f] = RemoteSide(d, f) /\ \A g \in Files \ {f}: W.notes[g] = T.notes[g]
    BY <1>3, <2>1, WithNoteSets
  <2> QED
    BY <2>4, <2>5
<1> QED
  BY <1>4, <1>5, <1>6 DEF Resolutions

\* A resolution keeps conflict markers out of what is shared.
LEMMA ResolveConflictTrees ==
    ASSUME TypeOK, NEW d \in Devices, Mine(d), NEW f \in Files, NEW r \in Resolutions,
           ResolveConflict(d, f, r), Unmarked(d)
    PROVE  Unmarked(d)'
<1>1. /\ work'[d] = Resolve(work[d], d, f, r) /\ index'[d] = Resolve(index[d], d, f, r)
      /\ conflicts'[d] = conflicts[d] \ {f} /\ detached[d] /\ todo[d] # <<>>
      /\ f \in conflicts[d] /\ pc[d] = "idle"
      /\ UNCHANGED <<branch, track, detached>>
  BY DEF ResolveConflict, TypeOK, Mine, Rebasing
<1>2. \/ pc'[d] = "idle" /\ UNCHANGED <<head, todo>>
      \/ /\ pc'[d] = "replay" /\ todo'[d] = Tail(todo[d]) /\ conflicts'[d] = {}
         /\ head'[d] = head[d] \/ head'[d] = NewCommit(head[d], index'[d], d)
  BY DEF ResolveConflict, TypeOK
<1>3. /\ OneIn(head[d]) /\ head[d] \in Seq(Commit) /\ todo[d] \in Seq(Patch)
      /\ \A i \in 1..Len(todo[d]): OneEach(todo[d][i].tree)
      /\ \A g \in Files \ conflicts[d]: One(index[d].notes[g]) /\ One(work[d].notes[g])
  BY <1>1 DEF TypeOK, Unmarked, Midway
<1>4. One(LocalSide(d, f)) /\ One(RemoteSide(d, f))
  BY <1>1, <1>3, TreesAre, OneTip DEF LocalSide, RemoteSide, Ours, OneEach
<1>5. /\ \A g \in Files \ conflicts'[d]: One(index'[d].notes[g]) /\ One(work'[d].notes[g])
      /\ index'[d] \in Tree
  BY <1>1, <1>3, <1>4, TreesAre, ResolvedNotes
<1>6. CASE pc'[d] = "idle" /\ UNCHANGED <<head, todo>>
  BY <1>1, <1>3, <1>5, <1>6 DEF Unmarked, Midway
<1>7. CASE /\ pc'[d] = "replay" /\ todo'[d] = Tail(todo[d]) /\ conflicts'[d] = {}
           /\ head'[d] = head[d] \/ head'[d] = NewCommit(head[d], index'[d], d)
  <2>1. OneEach(index'[d])
    BY <1>5, <1>7 DEF OneEach
  <2>2. OneIn(head'[d])
    BY <1>3, <1>5, <1>7, <2>1, OneCommit
  <2>3. \A i \in 1..Len(todo'[d]): OneEach(todo'[d][i].tree)
    BY <1>1, <1>3, <1>7, PatchesRest
  <2> QED
    BY <1>1, <1>5, <1>7, <2>2, <2>3 DEF Unmarked, Midway
<1> QED
  BY <1>2, <1>6, <1>7

-----------------------------------------------------------------------------
(* No committed edit is lost *)

\* A save loses no committed edit.
LEMMA SaveFileEdits ==
    ASSUME NEW d \in Devices, NEW f \in Files, NEW e \in Edits, SaveFile(d, f, e),
           Accounted(d)
    PROVE  Accounted(d)'
BY DEF SaveFile, setupVars, refVars, callVars, Accounted, Safe, Midway, Replayable, Shown,
   Answered

\* The creation of a notebook loses no committed edit.
LEMMA CreateNotebookEdits ==
    ASSUME TypeOK, NEW d \in Devices, NEW e \in Edits, CreateNotebook(d, e), Accounted(d)
    PROVE  Accounted(d)'
<1>1. /\ notebook'[d]
      /\ UNCHANGED <<remote, refVars, todo, conflicts, index, callVars, committed, dropped>>
  BY DEF CreateNotebook, TypeOK
<1> QED
  BY <1>1 DEF refVars, callVars, Accounted, Safe, Midway, Replayable, Shown, Answered

\* The removal of a failed clone loses no committed edit.
LEMMA DiscardCloneEdits ==
    ASSUME TypeOK, NEW d \in Devices, Mine(d), DiscardClone(d), Accounted(d)
    PROVE  Accounted(d)'
<1>1. /\ committed'[d] = {} /\ ~detached'[d] /\ conflicts'[d] = {} /\ pc'[d] = "idle"
  BY DEF DiscardClone, TypeOK, callVars, ghostVars, Mine, Own, Starting, Rebasing, Accounted
<1> QED
  BY <1>1 DEF Accounted, Midway

\* The first checkout loses no committed edit.
LEMMA FirstCheckoutEdits ==
    ASSUME TypeOK, NEW d \in Devices, Mine(d), FirstCheckout(d), Accounted(d)
    PROVE  Accounted(d)'
<1>1. /\ pc'[d] = "initRef" /\ ~detached[d] /\ conflicts'[d] = {}
      /\ UNCHANGED <<remote, setupVars, refVars, ghostVars>>
  BY DEF FirstCheckout, TypeOK, Goto, Mine, Own, Starting, CallPlace, FirstFetch, Rebasing
<1> QED
  BY <1>1 DEF setupVars, refVars, ghostVars, Accounted, Safe, Midway, Answered

\* The first ref loses no committed edit.
LEMMA FirstRefEdits ==
    ASSUME TypeOK, NEW d \in Devices, Mine(d), FirstRef(d), Accounted(d)
    PROVE  Accounted(d)'
<1>1. /\ pc'[d] \in {"openClone", "idle"} /\ op'[d] \in {"init", "clone"}
      /\ ~detached'[d] /\ ~detached[d] /\ conflicts'[d] = {} /\ branch[d] = <<>>
      /\ UNCHANGED <<notebook, ghostVars>>
  BY DEF FirstRef, Bootstrapped, Goto, Return, TypeOK, Mine, Own, Starting, CallPlace,
     FirstFetch, Rebasing, fileVars
<1>2. committed[d] \subseteq dropped
  BY <1>1, EditsOfNothing DEF Accounted, Safe
<1> QED
  BY <1>1, <1>2 DEF ghostVars, Accounted, Safe, Midway, Answered

\* StageAll loses no committed edit.
LEMMA StageAllEdits ==
    ASSUME TypeOK, NEW d \in Devices, Mine(d), StageAll(d), Accounted(d)
    PROVE  Accounted(d)'
<1>1. /\ conflicts'[d] = {} /\ pc'[d] = "commit"
      /\ UNCHANGED <<setupVars, refVars, ghostVars>>
  BY DEF StageAll, Goto, TypeOK
<1> QED
  BY <1>1 DEF setupVars, refVars, ghostVars, Accounted, Safe, Midway, Answered

\* What a commit has is in the history it makes, with all that was in it before.
LEMMA CommitIndexHas ==
    ASSUME TypeOK, NEW d \in Devices, CommitIndex(d)
    PROVE  \E h \in Seq(Commit):
              /\ EditsIn(HeadHistory(d)) \subseteq EditsIn(h)
              /\ EditsOf(index[d]) \subseteq EditsIn(h)
              /\ EditsOf(TipTree(h)) \subseteq EditsIn(h)
              /\ committed'[d] = committed[d] \cup EditsOf(TipTree(h))
              /\ pending'[d] = pending[d] \ EditsIn(h)
              /\ detached[d] => head'[d] = h /\ branch'[d] = branch[d]
              /\ ~detached[d] => branch'[d] = h /\ head'[d] = head[d]
<1>1. HeadHistory(d) \in Seq(Commit) /\ index[d] \in Tree
  BY DEF HeadHistory, TypeOK
<1>2. PICK h: h = IF NothingToCommit(d) THEN HeadHistory(d)
                  ELSE NewCommit(HeadHistory(d), index[d], d)
  OBVIOUS
<1>3. h \in Seq(Commit)
  BY <1>1, <1>2, CommitMade
<1>4. /\ committed'[d] = committed[d] \cup EditsOf(TipTree(h))
      /\ pending'[d] = pending[d] \ EditsIn(h)
      /\ detached[d] => head'[d] = h /\ branch'[d] = branch[d]
      /\ ~detached[d] => branch'[d] = h /\ head'[d] = head[d]
  BY <1>2 DEF CommitIndex, TypeOK
<1>5. EditsIn(HeadHistory(d)) \subseteq EditsIn(h) /\ EditsOf(index[d]) \subseteq EditsIn(h)
  <2>1. CASE NothingToCommit(d)
    <3>1. h = HeadHistory(d) /\ index[d] = TipTree(h)
      BY <1>2, <2>1 DEF NothingToCommit
    <3> QED
      BY <1>3, <3>1, EditsOfTip
  <2>2. CASE ~NothingToCommit(d)
    <3>1. h = NewCommit(HeadHistory(d), index[d], d)
      BY <1>2, <2>2
    <3>2. EditsIn(h) = EditsIn(HeadHistory(d)) \cup EditsOf(index[d])
      BY <1>1, <3>1, EditsCommitted
    <3> QED
      BY <3>2
  <2> QED
    BY <2>1, <2>2
<1>6. EditsOf(TipTree(h)) \subseteq EditsIn(h)
  BY <1>3, EditsOfTip
<1> QED
  BY <1>3, <1>4, <1>5, <1>6

\* A commit loses no committed edit.
LEMMA CommitIndexEdits ==
    ASSUME TypeOK, NEW d \in Devices, Mine(d), Unmarked(d), CommitIndex(d), Accounted(d)
    PROVE  Accounted(d)'
<1>1. PICK h \in Seq(Commit):
         /\ EditsIn(HeadHistory(d)) \subseteq EditsIn(h)
         /\ EditsOf(TipTree(h)) \subseteq EditsIn(h)
         /\ committed'[d] = committed[d] \cup EditsOf(TipTree(h))
         /\ detached[d] => head'[d] = h /\ branch'[d] = branch[d]
         /\ ~detached[d] => branch'[d] = h /\ head'[d] = head[d]
  BY CommitIndexHas
<1>2. /\ notebook'[d] /\ detached' = detached /\ dropped' = dropped /\ conflicts'[d] = {}
      /\ pc'[d] \in {"idle", "push", "fetch"} /\ op'[d] = op[d]
      /\ pc'[d] = "idle" => op[d] = "stage"
  BY DEF CommitIndex, Goto, Return, TypeOK, setupVars, fileVars, Mine, Opened, CallPlace,
     Unmarked
<1>3. ~Midway(d)' /\ ~Answered(d)'
  BY <1>2 DEF Midway, Answered
<1>4. CASE detached[d]
  BY <1>1, <1>2, <1>3, <1>4 DEF Accounted, Safe, HeadHistory
<1>5. CASE ~detached[d]
  BY <1>1, <1>2, <1>3, <1>5 DEF Accounted, Safe, HeadHistory
<1> QED
  BY <1>4, <1>5

\* A fetch loses no committed edit.
LEMMA FetchOriginEdits ==
    ASSUME TypeOK, NEW d \in Devices, Mine(d), FetchOrigin(d), Accounted(d)
    PROVE  Accounted(d)'
<1>1. /\ pc[d] = "fetch" /\ pc'[d] \in {"checkout", "rebase"}
      /\ UNCHANGED <<remote, setupVars, branch, detached, head, todo, fileVars, ghostVars>>
  BY DEF FetchOrigin, Goto, TypeOK
<1>2. (Replayable(d) => Replayable(d)') /\ (Shown(d) => Shown(d)') /\ Midway(d)' = Midway(d)
  BY <1>1 DEF fileVars, ghostVars, Replayable, Shown, Midway, Safe
<1> QED
  BY <1>1, <1>2 DEF setupVars, fileVars, ghostVars, Accounted, Safe, Answered

\* The checkout of a fast-forward loses no committed edit.
LEMMA FastForwardCheckoutEdits ==
    ASSUME TypeOK, NEW d \in Devices, Mine(d), FastForwardCheckout(d), Accounted(d)
    PROVE  Accounted(d)'
<1>1. /\ pc'[d] = "ffRef" /\ ~detached[d] /\ conflicts'[d] = {}
      /\ IsPrefix(branch[d], track[d])
      /\ UNCHANGED <<setupVars, refVars, ghostVars>>
  BY DEF FastForwardCheckout, RemoteAhead, IsStrictPrefix, TypeOK, Goto, Mine, Rebasing
<1>2. Extends(track'[d], branch'[d])
  <2>1. branch[d] \in Seq(Commit) /\ track[d] \in Seq(Commit)
    BY DEF TypeOK
  <2> QED
    BY <1>1, <2>1, PrefixMeans DEF refVars
<1> QED
  BY <1>1, <1>2 DEF setupVars, refVars, ghostVars, Accounted, Safe, Midway, Answered

\* The ref of a fast-forward loses no committed edit.
LEMMA FastForwardRefEdits ==
    ASSUME TypeOK, NEW d \in Devices, Mine(d), FastForwardRef(d), Accounted(d)
    PROVE  Accounted(d)'
<1>1. /\ branch'[d] = track[d] /\ pc[d] = "ffRef" /\ pc'[d] = "push" /\ ~detached[d]
      /\ conflicts'[d] = {} /\ UNCHANGED <<setupVars, track, detached, head, ghostVars>>
  BY DEF FastForwardRef, Goto, TypeOK, fileVars, Mine, Rebasing
<1>2. EditsIn(branch[d]) \subseteq EditsIn(track[d])
  <2>1. branch[d] \in Seq(Commit) /\ track[d] \in Seq(Commit)
    BY DEF TypeOK
  <2> QED
    BY <1>1, <2>1, EditsExtend DEF Accounted
<1> QED
  BY <1>1, <1>2 DEF setupVars, ghostVars, Accounted, Safe, Midway, Answered

\* The start of a rebase loses no committed edit.
LEMMA RebaseInitEdits ==
    ASSUME TypeOK, NEW d \in Devices, Mine(d), RebaseInit(d), Accounted(d)
    PROVE  Accounted(d)'
<1>1. /\ head'[d] = track[d] /\ todo'[d] = PatchesSince(branch[d], track[d])
      /\ pc'[d] = "replay" /\ ~detached[d] /\ detached'[d] /\ conflicts'[d] = {}
      /\ UNCHANGED <<setupVars, branch, ghostVars>>
  BY DEF RebaseInit, Diverged, TypeOK, Goto, Mine, Rebasing
<1>2. branch[d] \in Seq(Commit) /\ track[d] \in Seq(Commit)
  BY DEF TypeOK
<1>3. /\ EditsIn(branch[d]) \subseteq EditsIn(head'[d]) \cup PatchEdits(todo'[d])
      /\ Chained(todo'[d])
      /\ todo'[d] # <<>> => EditsOf(todo'[d][1].base) \subseteq EditsIn(head'[d])
  BY <1>1, <1>2, PatchesStart
<1>4. Replayable(d)'
  BY <1>1, <1>3 DEF ghostVars, Accounted, Replayable, Safe
<1> QED
  BY <1>1, <1>4 DEF setupVars, ghostVars, Accounted, Safe, Answered

\* A replay that stops at a conflict loses no committed edit.
LEMMA ReplayConflictEdits ==
    ASSUME TypeOK, NEW d \in Devices, Mine(d), ReplayConflict(d), Accounted(d)
    PROVE  Accounted(d)'
<1>1. /\ index'[d] = StepTree(d) /\ conflicts'[d] = StepConflicts(d) /\ todo[d] # <<>>
      /\ pc[d] = "replay" /\ detached[d] /\ pc'[d] = "idle" /\ op'[d] = op[d]
      /\ res'[d] = "ok" => op[d] = "resolve"
      /\ UNCHANGED <<setupVars, refVars, todo, ghostVars>>
  BY DEF ReplayConflict, Replaying, Return, TypeOK, Mine, Rebasing
<1>2. Midway(d) /\ Replayable(d) /\ EditsOf(todo[d][1].base) \subseteq Safe(head[d])
  BY <1>1 DEF Midway, Accounted, Replayable
<1>3. Replayable(d)'
  BY <1>1, <1>2 DEF refVars, ghostVars, Replayable, Safe
<1>4. PICK p \in Patch: p = todo[d][1]
  BY <1>1, TreesAre
<1>5. p.base \in Tree /\ Ours(d) \in Tree
  BY TreesAre DEF Patch, Ours
<1>6. /\ p.base.copies \subseteq Safe(head[d])
      /\ \A f \in Files: p.base.notes[f] \subseteq Safe(head[d])
  BY <1>2, <1>4, <1>5, EditsRead
<1>7. p.tree.copies \subseteq p.base.copies \cup index'[d].copies
  BY <1>1, <1>4, <1>5, MergedCopies DEF StepTree
<1>8. \A f \in Files \ conflicts'[d]:
         p.tree.notes[f] = p.base.notes[f] \/ index'[d].notes[f] = p.tree.notes[f]
  BY <1>1, <1>4, <1>5, MergedNotes DEF StepTree, StepConflicts
<1>9. Shown(d)'
  BY <1>1, <1>4, <1>6, <1>7, <1>8 DEF refVars, ghostVars, Shown, Safe
<1> QED
  BY <1>1, <1>3, <1>9 DEF setupVars, refVars, ghostVars, Accounted, Safe, Answered

\* The patch at hand is in HEAD: the next one is at hand.
LEMMA PatchDone ==
    ASSUME NEW s \in Seq(Patch), s # <<>>, NEW C, NEW S, Chained(s),
           C \subseteq S \cup PatchEdits(s), EditsOf(s[1].tree) \subseteq S
    PROVE  /\ C \subseteq S \cup PatchEdits(Tail(s))
           /\ Chained(Tail(s))
           /\ Tail(s) # <<>> => EditsOf(Tail(s)[1].base) \subseteq S
BY PatchesRest

\* A replayed patch loses no committed edit.
LEMMA ReplayCommitEdits ==
    ASSUME TypeOK, NEW d \in Devices, Mine(d), ReplayCommit(d), Accounted(d)
    PROVE  Accounted(d)'
<1>1. /\ StepConflicts(d) = {} /\ todo[d] # <<>> /\ pc[d] = "replay" /\ detached[d]
      /\ conflicts'[d] = {} /\ UNCHANGED <<setupVars, branch, track, detached, ghostVars>>
  BY DEF ReplayCommit, Replaying, TypeOK, Mine, Rebasing
<1>2. \/ pc'[d] = "idle" /\ res'[d] = "error" /\ head'[d] = head[d]
      \/ /\ pc'[d] = "replay" /\ todo'[d] = Tail(todo[d])
         /\ \/ head'[d] = head[d] /\ EmptyStep(d)
            \/ head'[d] = NewCommit(head[d], StepTree(d), d)
  BY DEF ReplayCommit, TypeOK, Return, Goto
<1>3. CASE pc'[d] = "idle" /\ res'[d] = "error" /\ head'[d] = head[d]
  BY <1>1, <1>3 DEF setupVars, ghostVars, Accounted, Safe, Midway, Answered
<1>4. CASE /\ pc'[d] = "replay" /\ todo'[d] = Tail(todo[d])
           /\ \/ head'[d] = head[d] /\ EmptyStep(d)
              \/ head'[d] = NewCommit(head[d], StepTree(d), d)
  <2>1. Replayable(d)
    BY <1>1 DEF Midway, Accounted
  <2>2. head[d] \in Seq(Commit) /\ StepTree(d) \in Tree
    <3>1. todo[d][1] \in Patch /\ Ours(d) \in Tree
      BY <1>1, TreesAre DEF Ours
    <3> QED
      BY <3>1, MergedIsTree DEF StepTree, TypeOK
  <2>3. EditsIn(head[d]) \subseteq EditsIn(head'[d])
    BY <1>4, <2>2, EditsCommitted
  <2>4. EditsOf(StepTree(d)) \subseteq EditsIn(head'[d])
    BY <1>4, <2>2, EditsCommitted, EditsOfTip DEF EmptyStep, Ours
  <2>5. EditsOf(todo[d][1].tree) \subseteq EditsOf(todo[d][1].base) \cup EditsOf(StepTree(d))
    <3>1. todo[d][1] \in Patch /\ Ours(d) \in Tree
      BY <1>1, TreesAre DEF Ours
    <3> QED
      BY <1>1, <3>1, EditsMerged DEF StepTree, StepConflicts
  <2>6. Safe(head[d]) \subseteq Safe(head[d])'
    BY <1>1, <2>3 DEF ghostVars, Safe
  <2>7. EditsOf(todo[d][1].tree) \subseteq Safe(head[d])'
    BY <1>1, <2>1, <2>4, <2>5, <2>6 DEF Replayable, Safe
  <2>8. committed[d] \subseteq Safe(head[d])' \cup PatchEdits(todo[d]) /\ Chained(todo[d])
    BY <2>1, <2>6 DEF Replayable
  <2>9. todo[d] \in Seq(Patch)
    BY DEF TypeOK
  <2>10. Replayable(d)'
    <3>1. PICK S: S = Safe(head[d])'
      OBVIOUS
    <3>2. /\ committed[d] \subseteq S \cup PatchEdits(Tail(todo[d]))
          /\ Chained(Tail(todo[d]))
          /\ Tail(todo[d]) # <<>> => EditsOf(Tail(todo[d])[1].base) \subseteq S
      <4>1. todo[d] \in Seq(Patch) /\ todo[d] # <<>> /\ Chained(todo[d])
        BY <1>1, <2>9, <2>8
      <4>2. committed[d] \subseteq S \cup PatchEdits(todo[d])
        BY <2>8, <3>1
      <4>3. EditsOf(todo[d][1].tree) \subseteq S
        BY <2>7, <3>1
      <4> QED
        BY <4>1, <4>2, <4>3, PatchDone
    <3> QED
      BY <1>1, <1>4, <3>1, <3>2 DEF ghostVars, Replayable
  <2> QED
    BY <1>1, <1>4, <2>3, <2>10 DEF setupVars, ghostVars, Accounted, Safe, Answered
<1> QED
  BY <1>2, <1>3, <1>4

\* The end of a rebase loses no committed edit.
LEMMA FinishRebaseEdits ==
    ASSUME TypeOK, NEW d \in Devices, Mine(d), FinishRebase(d), Accounted(d)
    PROVE  Accounted(d)'
<1>1. /\ branch'[d] = head[d] /\ ~detached'[d]
      /\ pc[d] = "replay" /\ pc'[d] \in {"idle", "push"}
      /\ detached[d] /\ conflicts'[d] = {} /\ todo[d] = <<>> /\ op'[d] = op[d]
      /\ pc'[d] = "idle" => op[d] = "resolve"
      /\ UNCHANGED <<setupVars, ghostVars>>
  BY DEF FinishRebase, Goto, Return, TypeOK, fileVars, Mine, Rebasing
<1>2. PatchEdits(todo[d]) = {}
  BY <1>1 DEF PatchEdits
<1>3. committed[d] \subseteq Safe(head[d])
  BY <1>1, <1>2 DEF Accounted, Midway, Replayable
<1> QED
  BY <1>1, <1>3 DEF setupVars, ghostVars, Accounted, Safe, Midway, Answered

\* It loses no committed edit.
LEMMA PushEdits ==
    ASSUME TypeOK, NEW d \in Devices, Mine(d), PushOrigin(d) \/ PushFails(d), Accounted(d)
    PROVE  Accounted(d)'
<1>1. /\ pc'[d] \in {"idle", "fetch"} /\ ~detached[d] /\ conflicts'[d] = {}
      /\ res'[d] = "ok" /\ pc'[d] = "idle" => remote' = branch[d]
      /\ UNCHANGED <<notebook, branch, detached, head, ghostVars>>
  BY DEF PushOrigin, PushFails, HasBranch, PushedRef, Retry, Return, TypeOK, setupVars,
     refVars, fileVars, Mine, Rebasing
<1> QED
  BY <1>1 DEF ghostVars, Accounted, Safe, Midway, Answered

\* A resolution loses no committed edit.
LEMMA ResolveConflictEdits ==
    ASSUME TypeOK, TypeOK', NEW d \in Devices, Mine(d), NEW f \in Files,
           NEW r \in Resolutions, ResolveConflict(d, f, r), Accounted(d)
    PROVE  Accounted(d)'
<1>1. /\ index'[d] = Resolve(index[d], d, f, r) /\ conflicts'[d] = conflicts[d] \ {f}
      /\ detached[d] /\ todo[d] # <<>> /\ f \in conflicts[d] /\ pc[d] = "idle"
      /\ op'[d] = "resolve"
      /\ dropped' = IF r = "keepRemote" THEN dropped \cup LocalSide(d, f) ELSE dropped
      /\ UNCHANGED <<remote, setupVars, branch, track, detached, committed>>
  BY DEF ResolveConflict, TypeOK, Mine, Rebasing
<1>2. \/ pc'[d] = "idle" /\ UNCHANGED <<head, todo>>
      \/ /\ pc'[d] = "replay" /\ todo'[d] = Tail(todo[d]) /\ conflicts'[d] = {}
         /\ \/ head'[d] = head[d] /\ index'[d] = Ours(d)
            \/ head'[d] = NewCommit(head[d], index'[d], d)
  <2>1. \/ pc' = pc /\ UNCHANGED <<head, todo>>
        \/ /\ pc' = [pc EXCEPT ![d] = "replay"] /\ todo' = [todo EXCEPT ![d] = Tail(@)]
           /\ conflicts'[d] = {}
           /\ head' = IF index'[d] = Ours(d) THEN head
                      ELSE [head EXCEPT ![d] = NewCommit(@, index'[d], d)]
    BY DEF ResolveConflict
  <2> QED
    BY <1>1, <2>1 DEF TypeOK
<1>3. Replayable(d) /\ Shown(d)
  BY <1>1 DEF Accounted, Midway
<1>4. PICK T \in Tree: T = index'[d]
  BY DEF TypeOK
<1>5. /\ \A g \in Files \ {f}: T.notes[g] = index[d].notes[g]
      /\ index[d].copies \subseteq T.copies
      /\ LocalSide(d, f) \subseteq T.notes[f] \cup T.copies \cup dropped'
      /\ dropped \subseteq dropped'
  BY <1>1, <1>4, TreesAre, ResolvedNotes
<1>6. /\ todo[d][1].tree.copies \subseteq dropped' \cup EditsIn(head[d]) \cup T.copies
      /\ \A g \in Files \ conflicts'[d]:
            todo[d][1].tree.notes[g] \subseteq
                dropped' \cup EditsIn(head[d]) \cup T.copies \cup T.notes[g]
  BY <1>1, <1>3, <1>5 DEF Shown, Safe, LocalSide
<1>7. committed[d] \subseteq Safe(branch[d])' \cup EditsIn(head[d])
  BY <1>1, <1>5 DEF Accounted, Safe
<1>8. CASE pc'[d] = "idle" /\ UNCHANGED <<head, todo>>
  <2>1. Replayable(d)'
    BY <1>1, <1>3, <1>5, <1>8 DEF Replayable, Safe
  <2>2. Shown(d)'
    BY <1>4, <1>6, <1>8 DEF Shown, Safe
  <2> QED
    BY <1>1, <1>7, <1>8, <2>1, <2>2 DEF setupVars, Accounted, Answered
<1>9. CASE /\ pc'[d] = "replay" /\ todo'[d] = Tail(todo[d]) /\ conflicts'[d] = {}
           /\ \/ head'[d] = head[d] /\ index'[d] = Ours(d)
              \/ head'[d] = NewCommit(head[d], index'[d], d)
  <2>1. head[d] \in Seq(Commit) /\ todo[d] \in Seq(Patch)
    BY DEF TypeOK
  <2>2. EditsIn(head[d]) \subseteq EditsIn(head'[d])
    BY <1>4, <1>9, <2>1, EditsCommitted
  <2>3. EditsOf(T) \subseteq EditsIn(head'[d])
    BY <1>4, <1>9, <2>1, EditsCommitted, EditsOfTip DEF Ours
  <2>4. Safe(head[d]) \subseteq Safe(head[d])'
    BY <1>5, <2>2 DEF Safe
  <2>5. EditsOf(todo[d][1].tree) \subseteq Safe(head[d])'
    <3>1. todo[d][1].tree \in Tree
      BY <1>1, TreesAre DEF Patch
    <3>2. /\ T.copies \subseteq EditsIn(head'[d])
          /\ \A g \in Files: T.notes[g] \subseteq EditsIn(head'[d])
      BY <2>3, EditsRead
    <3> QED
      BY <1>6, <1>9, <2>2, <3>1, <3>2, EditsRead DEF Safe
  <2>6. committed[d] \subseteq Safe(head[d])' \cup PatchEdits(todo[d]) /\ Chained(todo[d])
    BY <1>3, <2>4 DEF Replayable
  <2>7. Replayable(d)'
    <3>1. PICK S: S = Safe(head[d])'
      OBVIOUS
    <3>2. /\ committed[d] \subseteq S \cup PatchEdits(Tail(todo[d]))
          /\ Chained(Tail(todo[d]))
          /\ Tail(todo[d]) # <<>> => EditsOf(Tail(todo[d])[1].base) \subseteq S
      <4>1. todo[d] \in Seq(Patch) /\ todo[d] # <<>> /\ Chained(todo[d])
        BY <1>1, <2>1, <2>6
      <4>2. committed[d] \subseteq S \cup PatchEdits(todo[d])
        BY <2>6, <3>1
      <4>3. EditsOf(todo[d][1].tree) \subseteq S
        BY <2>5, <3>1
      <4> QED
        BY <4>1, <4>2, <4>3, PatchDone
    <3> QED
      BY <1>1, <1>9, <3>1, <3>2 DEF Replayable
  <2> QED
    BY <1>1, <1>7, <1>9, <2>2, <2>7 DEF setupVars, Accounted, Answered
<1> QED
  BY <1>2, <1>8, <1>9

-----------------------------------------------------------------------------
(* No saved edit is lost *)

\* Edits in the notes are among those one can read.
LEMMA NotesRead ==
    ASSUME NEW T \in Tree
    PROVE  NotesOf(T) \subseteq EditsOf(T)
BY DEF NotesOf, EditsOf

\* A save loses no saved edit.
LEMMA SaveFileSaved ==
    ASSUME TypeOK, NEW d \in Devices, NEW f \in Files, NEW e \in Edits, SaveFile(d, f, e),
           WholeCalls, Saved(d)
    PROVE  Saved(d)'
<1>1. /\ work'[d] = WithNote(work[d], f, {e})
      /\ pending'[d] = (pending[d] \ work[d].notes[f]) \cup {e}
      /\ notebook[d] /\ pc[d] = "idle" /\ conflicts[d] = {}
      /\ UNCHANGED <<setupVars, conflicts, index, callVars>>
  BY DEF SaveFile, TypeOK, WholeCalls, Saved
<1>2. /\ work'[d].notes[f] = {e}
      /\ \A g \in Files \ {f}: work'[d].notes[g] = work[d].notes[g]
  BY <1>1, TreesAre, WithNoteSets
<1>3. pending'[d] \subseteq NotesOf(work'[d])
  BY <1>1, <1>2 DEF Saved, NotesOf
<1> QED
  BY <1>1, <1>3 DEF setupVars, callVars, Saved, AfterCommit, Treeless, Unborn

\* The creation of a notebook loses no saved edit.
LEMMA CreateNotebookSaved ==
    ASSUME TypeOK, NEW d \in Devices, Mine(d), NEW e \in Edits, CreateNotebook(d, e),
           Saved(d)
    PROVE  Saved(d)'
<1>1. /\ work'[d] = WithNote(work[d], Meta, {e}) /\ Meta \in Files
      /\ pending'[d] = {e}
      /\ notebook'[d] /\ pc[d] = "idle" /\ conflicts[d] = {}
      /\ UNCHANGED <<repo, conflicts, index, callVars>>
  BY ConstantsAssumption DEF ConstantsAssumption, CreateNotebook, TypeOK, Mine, Opened, Own,
     Starting, Rebasing
<1>2. work'[d].notes[Meta] = {e}
  BY <1>1, TreesAre, WithNoteSets
<1>3. pending'[d] \subseteq NotesOf(work'[d])
  BY <1>1, <1>2 DEF NotesOf
<1> QED
  BY <1>1, <1>3 DEF callVars, Saved, AfterCommit, Treeless, Unborn

\* The removal of a failed clone loses no saved edit.
LEMMA DiscardCloneSaved ==
    ASSUME TypeOK, NEW d \in Devices, DiscardClone(d), Saved(d)
    PROVE  Saved(d)'
<1>1. /\ pending'[d] = {} /\ index'[d] = Empty /\ pc'[d] = "idle" /\ op'[d] # "network"
  BY DEF DiscardClone, TypeOK, callVars, ghostVars, Saved
<1> QED
  BY <1>1 DEF Saved, Treeless

\* What the first checkout finds in the files is not in the index: it stays, or the
\* checkout is refused.
LEMMA FirstCheckoutSaved ==
    ASSUME TypeOK, NEW d \in Devices, Mine(d), FirstCheckout(d), Saved(d)
    PROVE  Saved(d)'
<1>1. /\ work'[d] = SafeCheckout(d, TipTree(track[d])) /\ ~FirstObstructed(d)
      /\ pc[d] = "checkout" /\ pc'[d] = "initRef" /\ op[d] \in {"init", "clone"}
      /\ repo[d] # "none" /\ UNCHANGED <<setupVars, conflicts, op, ghostVars>>
  BY DEF FirstCheckout, TypeOK, Goto, Mine, Own, Starting, CallPlace
<1>2. index[d] = Empty
  BY <1>1 DEF Saved, Treeless
<1>3. \A f \in Files: index[d].notes[f] = {}
  BY <1>2 DEF Empty
<1>4. ASSUME NEW f \in Files PROVE work[d].notes[f] \subseteq work'[d].notes[f]
  BY <1>1, <1>3 DEF FirstObstructed, Obstructed, SafeCheckout
<1>5. pending'[d] \subseteq NotesOf(work'[d])
  BY <1>1, <1>4 DEF ghostVars, Saved, NotesOf
<1> QED
  BY <1>1, <1>5 DEF setupVars, ghostVars, Saved, AfterCommit, Treeless, Unborn

\* The first ref loses no saved edit.
LEMMA FirstRefSaved ==
    ASSUME TypeOK, NEW d \in Devices, Mine(d), FirstRef(d), Saved(d)
    PROVE  Saved(d)'
<1>1. /\ pc'[d] \in {"openClone", "idle"} /\ repo'[d] # "none"
      /\ UNCHANGED <<notebook, op, fileVars, ghostVars>>
  BY DEF FirstRef, Bootstrapped, Goto, Return, TypeOK, Mine, Own, Starting
<1> QED
  BY <1>1 DEF fileVars, ghostVars, Saved, AfterCommit, Treeless, Unborn

\* StageAll loses no saved edit.
LEMMA StageAllSaved ==
    ASSUME TypeOK, NEW d \in Devices, Mine(d), StageAll(d), Saved(d)
    PROVE  Saved(d)'
<1>1. /\ index'[d] = work[d] /\ conflicts'[d] = {} /\ pc'[d] = "commit" /\ repo'[d] # "none"
      /\ UNCHANGED <<notebook, op, work, ghostVars>>
  BY DEF StageAll, Goto, TypeOK, setupVars, Mine, Own, Starting
<1> QED
  BY <1>1 DEF ghostVars, Saved, AfterCommit, Treeless, Unborn

\* A commit loses no saved edit.
LEMMA CommitIndexSaved ==
    ASSUME TypeOK, NEW d \in Devices, Mine(d), CommitIndex(d), Saved(d)
    PROVE  Saved(d)'
<1>1. /\ pc[d] = "commit" /\ op[d] \in {"sync", "stage", "init"} /\ repo[d] # "none"
      /\ op'[d] = op[d] /\ UNCHANGED <<setupVars, fileVars>>
      /\ pc'[d] = "idle" \/ (pc'[d] = "push") \/ (pc'[d] = "fetch" /\ op[d] # "init")
  BY DEF CommitIndex, Goto, Return, TypeOK, Mine, Own, Starting, CallPlace
<1>2. PICK h \in Seq(Commit):
         EditsOf(index[d]) \subseteq EditsIn(h) /\ pending'[d] = pending[d] \ EditsIn(h)
  BY CommitIndexHas
<1>3. pending[d] \subseteq EditsOf(index[d])
  BY <1>1, TreesAre, NotesRead DEF Saved
<1>4. pending'[d] = {}
  BY <1>2, <1>3
<1> QED
  BY <1>1, <1>4 DEF setupVars, fileVars, Saved, Treeless, Unborn

\* A fetch loses no saved edit.
LEMMA FetchOriginSaved ==
    ASSUME TypeOK, NEW d \in Devices, Mine(d), FetchOrigin(d), Saved(d)
    PROVE  Saved(d)'
<1>1. /\ pc[d] = "fetch" /\ repo[d] # "none" /\ op'[d] = op[d]
      /\ pc'[d] = IF op[d] \in {"init", "clone"} THEN "checkout" ELSE "rebase"
      /\ UNCHANGED <<setupVars, fileVars, ghostVars>>
  BY DEF FetchOrigin, Goto, TypeOK, Mine, Own, Starting
<1> QED
  BY <1>1 DEF setupVars, fileVars, ghostVars, Saved, AfterCommit, Treeless, Unborn

\* Fast-forward and rebase: everything saved is committed before, so there is nothing
\* to lose.
LEMMA RebaseSaved ==
    ASSUME TypeOK, NEW d \in Devices, Mine(d), Saved(d),
           \/ FastForwardCheckout(d) \/ FastForwardRef(d) \/ RebaseInit(d)
           \/ ReplayConflict(d) \/ ReplayCommit(d) \/ FinishRebase(d)
    PROVE  Saved(d)'
<1>1. pc[d] \in {"rebase", "ffRef", "replay"}
  BY DEF FastForwardCheckout, FastForwardRef, RebaseInit, ReplayConflict, ReplayCommit,
     FinishRebase, Replaying
<1>2. AfterCommit(d) /\ repo[d] # "none"
  BY <1>1 DEF AfterCommit, Mine, CallPlace, Own, Starting
<1>3. /\ pending'[d] = {} /\ op'[d] = op[d] /\ repo'[d] # "none"
      /\ pc'[d] \in {"idle", "ffRef", "push", "replay"}
  <2>1. UNCHANGED <<op, repo, pending>>
    BY DEF FastForwardCheckout, FastForwardRef, RebaseInit, ReplayConflict, ReplayCommit,
       FinishRebase, Goto, Return, setupVars, ghostVars
  <2>2. pc'[d] \in {"idle", "ffRef", "push", "replay"}
    BY DEF FastForwardCheckout, FastForwardRef, RebaseInit, ReplayConflict, ReplayCommit,
       FinishRebase, Goto, Return, TypeOK
  <2> QED
    BY <1>2, <2>1, <2>2 DEF Saved
<1> QED
  BY <1>2, <1>3 DEF Saved, AfterCommit, Treeless, Unborn

\* It loses no saved edit.
LEMMA PushSaved ==
    ASSUME TypeOK, NEW d \in Devices, Mine(d), PushOrigin(d) \/ PushFails(d), Saved(d)
    PROVE  Saved(d)'
<1>1. /\ pc[d] = "push" /\ repo[d] # "none" /\ op'[d] = op[d]
      /\ pc'[d] = "idle" \/ (pc'[d] = "fetch" /\ op[d] \notin {"init", "clone"})
      /\ UNCHANGED <<notebook, repo, fileVars, ghostVars>>
  BY DEF PushOrigin, PushFails, Retry, Return, TypeOK, setupVars, Mine, Own, Starting,
     CallPlace
<1> QED
  BY <1>1 DEF fileVars, ghostVars, Saved, AfterCommit, Treeless, Unborn

\* A resolution loses no saved edit.
LEMMA ResolveConflictSaved ==
    ASSUME TypeOK, NEW d \in Devices, Mine(d), NEW f \in Files, NEW r \in Resolutions,
           ResolveConflict(d, f, r), Saved(d)
    PROVE  Saved(d)'
<1>1. /\ pending'[d] = {} /\ op'[d] = "resolve" /\ pc'[d] \in {"idle", "replay"}
      /\ repo'[d] # "none"
  BY DEF ResolveConflict, TypeOK, Saved, setupVars, Mine, Rebasing, Own, Starting, Unborn
<1> QED
  BY <1>1 DEF Saved, Treeless, Unborn

-----------------------------------------------------------------------------
(* The invariants hold *)

\* A step of d keeps the three invariants of d.
KeptEdits(d) ==
    /\ Marks => Unmarked(d)' /\ OneIn(remote)'
    /\ Marks /\ Accounted(d) => Accounted(d)'
    /\ WholeCalls /\ Saved(d) => Saved(d)'

\* A quiet step keeps them.
LEMMA QuietEdits ==
    ASSUME NEW d \in Devices, Mine(d), Quiet(d)
    PROVE  KeptEdits(d)
<1>1. remote' = remote
  BY DEF Quiet
<1> QED
  BY <1>1, QuietKeepsEdits DEF KeptEdits, Marks

\* Only a push changes the remote.
LEMMA RemoteStays ==
    ASSUME NEW d \in Devices, Step(d), ~PushOrigin(d), ~PushFails(d)
    PROVE  remote' = remote
<1>1. ASSUME NEW f \in Files, NEW e \in Edits, SaveFile(d, f, e) PROVE remote' = remote
  BY <1>1 DEF SaveFile
<1>2. ASSUME NEW e \in Edits, CreateNotebook(d, e) PROVE remote' = remote
  BY <1>2 DEF CreateNotebook
<1>3. CASE Enable(d) \/ CloneNotebook(d) \/ CloneCancelled(d) \/ DiscardClone(d) \/ Restart(d)
  BY <1>3 DEF Enable, InitializeRefused, OpenExistingRepo, Bootstrap, BootstrapUnchecked,
     CloneNotebook, CloneCancelled, DiscardClone, Restart
<1>4. CASE Call(d)
  BY <1>4 DEF Call, StartCall
<1>5. CASE Settle(d)
  BY <1>5 DEF Settle, ResolveConflict
<1>6. ASSUME NEW f \in Files, ResolveNothing(d, f) PROVE remote' = remote
  BY <1>6 DEF ResolveNothing
<1>7. CASE Continue(d)
  BY <1>7 DEF Continue, InitRepo, AddOrigin, OpenClone, NothingToCheckOut,
     FirstCheckoutRefused, FirstCheckout, FirstRef, StageAll, CommitIndex, FetchOrigin,
     FetchFails, SkipRebase, FastForwardCheckout, FastForwardRef, RebaseInit,
     RebaseRefused, ReplayObstructed, ReplayConflict, ReplayCommit, FinishRebase,
     PushWithoutBranch, PushRejected
<1> QED
  BY <1>1, <1>2, <1>3, <1>4, <1>5, <1>6, <1>7 DEF Step

\* The steps of a call under way keep them.
LEMMA ContinueKeepsEdits ==
    ASSUME TypeOK, NEW d \in Devices, Mine(d), Continue(d)
    PROVE  KeptEdits(d)
<1> USE DEF KeptEdits, Marks
<1>1. CASE \/ InitRepo(d) \/ AddOrigin(d) \/ OpenClone(d) \/ NothingToCheckOut(d)
           \/ FirstCheckoutRefused(d) \/ FetchFails(d) \/ SkipRebase(d) \/ RebaseRefused(d)
           \/ ReplayObstructed(d) \/ PushWithoutBranch(d) \/ PushRejected(d)
  BY <1>1, QuietProgress, QuietEdits
<1>2. CASE PushOrigin(d) \/ PushFails(d)
  BY <1>2, PushTrees, PushEdits, PushSaved
<1>3. ~PushOrigin(d) /\ ~PushFails(d) => remote' = remote
  BY RemoteStays DEF Step
<1>4. ~PushOrigin(d) /\ ~PushFails(d) /\ OneIn(remote) => OneIn(remote)'
  BY <1>3
<1>5. CASE FirstCheckout(d)
  BY <1>2, <1>4, <1>5, FirstCheckoutTrees, FirstCheckoutEdits, FirstCheckoutSaved
<1>6. CASE FirstRef(d)
  BY <1>2, <1>4, <1>6, FirstRefTrees, FirstRefEdits, FirstRefSaved
<1>7. CASE StageAll(d)
  BY <1>2, <1>4, <1>7, StageAllTrees, StageAllEdits, StageAllSaved
<1>8. CASE CommitIndex(d)
  BY <1>2, <1>4, <1>8, CommitIndexTrees, CommitIndexEdits, CommitIndexSaved
<1>9. CASE FetchOrigin(d)
  BY <1>2, <1>4, <1>9, FetchOriginTrees, FetchOriginEdits, FetchOriginSaved
<1>10. CASE FastForwardCheckout(d)
  BY <1>2, <1>4, <1>10, FastForwardCheckoutTrees, FastForwardCheckoutEdits, RebaseSaved
<1>11. CASE FastForwardRef(d)
  BY <1>2, <1>4, <1>11, FastForwardRefTrees, FastForwardRefEdits, RebaseSaved
<1>12. CASE RebaseInit(d)
  BY <1>2, <1>4, <1>12, RebaseInitTrees, RebaseInitEdits, RebaseSaved
<1>13. CASE ReplayConflict(d)
  BY <1>2, <1>4, <1>13, ReplayConflictTrees, ReplayConflictEdits, RebaseSaved
<1>14. CASE ReplayCommit(d)
  BY <1>2, <1>4, <1>14, ReplayCommitTrees, ReplayCommitEdits, RebaseSaved
<1>15. CASE FinishRebase(d)
  BY <1>2, <1>4, <1>15, FinishRebaseTrees, FinishRebaseEdits, RebaseSaved
<1> QED
  BY <1>1, <1>2, <1>5, <1>6, <1>7, <1>8, <1>9, <1>10, <1>11, <1>12, <1>13, <1>14, <1>15
     DEF Continue

\* Every step of a device keeps them.
LEMMA StepKeepsEdits ==
    ASSUME TypeOK, TypeOK', NEW d \in Devices, Mine(d), Step(d)
    PROVE  KeptEdits(d)
<1> USE DEF KeptEdits, Marks
<1>1. CASE Continue(d)
  BY <1>1, ContinueKeepsEdits
<1>2. CASE PushOrigin(d) \/ PushFails(d)
  BY <1>2, PushTrees, PushEdits, PushSaved
<1>3. ~PushOrigin(d) /\ ~PushFails(d) /\ OneIn(remote) => OneIn(remote)'
  BY RemoteStays
<1>4. ASSUME NEW f \in Files, NEW e \in Edits, SaveFile(d, f, e) PROVE KeptEdits(d)
  BY <1>2, <1>3, <1>4, SaveFileTrees, SaveFileEdits, SaveFileSaved
<1>5. ASSUME NEW e \in Edits, CreateNotebook(d, e) PROVE KeptEdits(d)
  BY <1>2, <1>3, <1>5, CreateNotebookTrees, CreateNotebookEdits, CreateNotebookSaved
<1>6. CASE DiscardClone(d)
  BY <1>2, <1>3, <1>6, DiscardCloneTrees, DiscardCloneEdits, DiscardCloneSaved
<1>7. ASSUME NEW f \in Files, NEW r \in Resolutions, ResolveConflict(d, f, r)
      PROVE  KeptEdits(d)
  BY <1>2, <1>3, <1>7, ResolveConflictTrees, ResolveConflictEdits, ResolveConflictSaved
<1>8. CASE \/ Enable(d) \/ CloneNotebook(d) \/ CloneCancelled(d) \/ Restart(d)
           \/ Call(d) \/ (\E f \in Files: ResolveNothing(d, f))
  BY <1>8, QuietCalls, QuietEdits DEF Enable
<1> QED
  BY <1>1, <1>4, <1>5, <1>6, <1>7, <1>8 DEF Step, Settle

\* The three invariants, one step.
LEMMA EditsStep ==
    ASSUME IInv, IInv', [Next]_vars
    PROVE  /\ Marks => Marks'
           /\ Marks /\ Accounts => Accounts'
           /\ WholeCalls /\ Saves => Saves'
<1>1. CASE UNCHANGED vars
  BY <1>1 DEF vars, Marks, Accounts, Saves, Unmarked, Accounted, Saved, Midway, Replayable,
     Shown, Safe, Answered, AfterCommit, Treeless, Unborn
<1>2. CASE Next
  <2>1. PICK d \in Devices: Step(d)
    BY <1>2 DEF Next, Step
  <2>2. TypeOK /\ TypeOK' /\ \A c \in Devices: Mine(c)
    BY DEF IInv
  <2>3. Apart(d) /\ Shared(d) /\ Aside(d)
    BY <2>1, <2>2, DeviceStep, StepAside DEF Kept
  <2>4. KeptEdits(d)
    BY <2>1, <2>2, StepKeepsEdits
  <2>5. ASSUME NEW c \in Devices \ {d}
        PROVE  /\ Unmarked(c) => Unmarked(c)'
               /\ Accounted(c) => Accounted(c)'
               /\ Saved(c) => Saved(c)'
    BY <2>2, <2>3, OthersKeepEdits
  <2> QED
    BY <2>4, <2>5 DEF KeptEdits, Marks, Accounts, Saves
<1> QED
  BY <1>1, <1>2

\* The initial trees have no markers, nothing is committed yet and what the founder of
\* a notebook has saved is in its files.
LEMMA InitEdits ==
    ASSUME Init
    PROVE  Marks /\ Accounts /\ Saves
<1>1. OneIn(Root)
  <2>1. CASE Cloned
    <3>1. PICK c: c = [tree |-> Empty, by |-> None]
      OBVIOUS
    <3>2. c.tree = Empty /\ Root = <<c>>
      BY <2>1, <3>1 DEF Root
    <3>3. Len(<<c>>) = 1 /\ <<c>>[1] = c
      OBVIOUS
    <3> QED
      BY <3>2, <3>3, OneEmpty DEF OneIn
  <2>2. CASE ~Cloned
    BY <2>2, OneEmpty DEF Root
  <2> QED
    BY <2>1, <2>2
<1>2. ~Cloned => OneEach(Founding) /\ EditsOf(Founding) \subseteq NotesOf(Founding)
  <2> DEFINE text == CHOOSE g \in [Files -> Edits]: IsInjective(g)
             n == [f \in Files |-> {text[f]}]
  <2>1. Founding = [notes |-> n, copies |-> {}]
    BY DEF Founding
  <2>2. Founding.notes = n /\ Founding.copies = {}
    BY <2>1
  <2>3. \A f \in Files: n[f] = {text[f]}
    OBVIOUS
  <2> HIDE DEF n, text
  <2> QED
    BY <2>2, <2>3, OneText DEF OneEach, EditsOf, NotesOf
<1>3. ASSUME NEW d \in Devices
      PROVE  Unmarked(d) /\ Accounted(d) /\ Saved(d)
  <2>1. /\ remote = Root /\ branch[d] = Root /\ track[d] = Root /\ ~detached[d]
        /\ conflicts[d] = {} /\ pc[d] = "idle" /\ op[d] = "none" /\ index[d] = Empty
        /\ committed[d] = {}
        /\ notebook[d] = (Cloned \/ d = Founder)
        /\ work[d] = IF Cloned \/ d # Founder THEN Empty ELSE Founding
        /\ pending[d] = IF Cloned \/ d # Founder THEN {} ELSE EditsOf(Founding)
    BY DEF Init
  <2>2. Unmarked(d)
    BY <1>1, <1>2, <2>1, OneEmpty DEF Unmarked, Midway
  <2>3. Accounted(d)
    BY <2>1 DEF Accounted, Midway, Answered
  <2>4. Saved(d)
    BY <1>2, <2>1, ConstantsAssumption DEF ConstantsAssumption, Saved, AfterCommit, Treeless
  <2> QED
    BY <2>2, <2>3, <2>4
<1> QED
  BY <1>1, <1>3 DEF Init, Marks, Accounts, Saves

\* Where conflict markers are.
THEOREM MarksInvariant == Spec => []Marks
<1>1. Init => Marks
  BY InitEdits
<1>2. IInv /\ IInv' /\ Marks /\ [Next]_vars => Marks'
  BY EditsStep
<1> QED
  BY <1>1, <1>2, Invariant, PTL DEF Spec

\* Where committed edits are.
THEOREM AccountsInvariant == Spec => []Accounts
<1>1. Init => Accounts
  BY InitEdits
<1>2. IInv /\ IInv' /\ Marks /\ Accounts /\ [Next]_vars => Accounts'
  BY EditsStep
<1> QED
  BY <1>1, <1>2, Invariant, MarksInvariant, PTL DEF Spec

\* Conflict markers never reach the remote, whatever the consumer and the users do.
THEOREM NoMarkersPublished == Spec => []MarkersNeverPublished
<1>1. IInv /\ Marks => MarkersNeverPublished
  <2> SUFFICES ASSUME IInv, Marks, NEW i \in DOMAIN remote, NEW f \in Files
               PROVE  Cardinality(remote[i].tree.notes[f]) <= 1
    BY DEF MarkersNeverPublished
  <2>1. PICK c: c = remote[i].tree.notes[f]
    OBVIOUS
  <2>2. One(c)
    <3>1. remote \in Seq(Commit)
      BY DEF IInv, TypeOK
    <3>2. i \in 1..Len(remote)
      BY <3>1
    <3> QED
      BY <2>1, <3>2 DEF Marks, OneIn, OneEach
  <2>3. CASE c = {}
    BY <2>1, <2>3, FS_EmptySet
  <2>4. CASE c # {}
    <3>1. PICK e: e \in c
      BY <2>4
    <3>2. c = {e}
      BY <2>2, <3>1 DEF One
    <3>3. Cardinality({e}) = 1
      BY FS_Singleton
    <3> QED
      BY <2>1, <3>2, <3>3
  <2> QED
    BY <2>3, <2>4
<1> QED
  BY <1>1, Invariant, MarksInvariant, PTL

\* What a device has committed stays in its branch, in the rebase it has not finished
\* or is given up by a user's resolution: no fast-forward, rebase, retry, crash or
\* removal loses it.
THEOREM NoCommittedEditLost == Spec => []CommittedEditsSurvive
<1>1. Accounts => CommittedEditsSurvive
  BY DEF Accounts, Accounted, Safe, CommittedEditsSurvive
<1> QED
  BY <1>1, AccountsInvariant, PTL

\* A Sync or FetchRebasePush that answers VXCORE_OK has published what is committed.
THEOREM OkMeansPublished == Spec => []SyncedMeansPublished
<1>1. Accounts => SyncedMeansPublished
  BY DEF Accounts, Accounted, Answered, Safe, SyncedMeansPublished
<1> QED
  BY <1>1, AccountsInvariant, PTL

\* An edit a user has saved is in the files until it is committed, if the consumer
\* holds its lock through whole calls and users resolve a conflict before they save.
THEOREM WholeCallsKeepSaves ==
    ASSUME WholeCalls
    PROVE  Spec => []SavedEditsSurvive
<1>1. Init => Saves
  BY InitEdits
<1>2. IInv /\ IInv' /\ Saves /\ [Next]_vars => Saves'
  BY EditsStep
<1>3. IInv /\ Saves => SavedEditsSurvive
  <2> SUFFICES ASSUME IInv, Saves, NEW d \in Devices
               PROVE  pending[d] \subseteq EditsOf(work[d])
    BY DEF SavedEditsSurvive
  <2>1. pending[d] \subseteq NotesOf(work[d])
    BY DEF Saves, Saved
  <2>2. work[d] \in Tree
    BY DEF IInv, TypeOK
  <2> QED
    BY <2>1, <2>2, NotesRead
<1> QED
  BY <1>1, <1>2, <1>3, Invariant, PTL DEF Spec
=============================================================================
