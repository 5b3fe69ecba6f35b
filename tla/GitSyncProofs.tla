---------------------------- MODULE GitSyncProofs ----------------------------
(***************************************************************************)
(* Proofs about GitSync, for every number of devices, notes, edits and     *)
(* attempts, and for every way the consumer calls it.                      *)
(***************************************************************************)
EXTENDS GitSync, FiniteSetTheorems, SequenceTheorems, TLAPS

-----------------------------------------------------------------------------
(* Trees and histories *)

\* Every operator that makes a tree makes one.
LEMMA EmptyIsTree == Empty \in Tree
BY DEF Empty, Tree

\* What a tree is made of.
LEMMA TreeParts ==
    ASSUME NEW T \in Tree
    PROVE  /\ T.notes \in [Files -> SUBSET Edits] /\ T.copies \in SUBSET Edits
           /\ \A f \in Files: T.notes[f] \in SUBSET Edits
BY DEF Tree

\* A tree made of its parts is one.
LEMMA TreeMade ==
    ASSUME NEW n \in [Files -> SUBSET Edits], NEW c \in SUBSET Edits
    PROVE  /\ [notes |-> n, copies |-> c] \in Tree
           /\ [notes |-> n, copies |-> c].notes = n
           /\ [notes |-> n, copies |-> c].copies = c
BY DEF Tree

\* A tree with another note is a tree.
LEMMA WithNoteIsTree ==
    ASSUME NEW T \in Tree, NEW f \in Files, NEW c \in SUBSET Edits
    PROVE  WithNote(T, f, c) \in Tree
BY DEF WithNote, Tree

\* A merge is a tree.
LEMMA MergedIsTree ==
    ASSUME NEW p \in Patch, NEW T \in Tree
    PROVE  Merged(p, T) \in Tree
<1>1. p.tree \in Tree /\ p.base \in Tree
  BY DEF Patch
<1> DEFINE n == [f \in Files |->
              IF f \in Conflicting(p, T) THEN T.notes[f] \cup p.tree.notes[f]
              ELSE IF p.tree.notes[f] = p.base.notes[f] THEN T.notes[f]
              ELSE p.tree.notes[f]]
           c == T.copies \cup (p.tree.copies \ p.base.copies)
<1>2. n \in [Files -> SUBSET Edits]
  BY <1>1, TreeParts
<1>3. c \in SUBSET Edits
  BY <1>1, TreeParts
<1> HIDE DEF n, c
<1>4. [notes |-> n, copies |-> c] \in Tree
  BY <1>2, <1>3, TreeMade
<1> QED
  BY <1>4 DEF Merged, n, c

\* A checkout leaves a tree.
LEMMA CheckoutIsTree ==
    ASSUME NEW T \in Tree, NEW d, index[d] \in Tree, work[d] \in Tree
    PROVE  SafeCheckout(d, T) \in Tree /\ ForceCheckout(d, T) \in Tree
BY TreeMade, TreeParts DEF SafeCheckout, ForceCheckout

\* The tip of a history is a tree.
LEMMA TipIsTree ==
    ASSUME NEW h \in Seq(Commit)
    PROVE  TipTree(h) \in Tree
<1>1. CASE h = <<>>
  BY <1>1, EmptyIsTree DEF TipTree
<1>2. CASE h # <<>>
  <2>1. Len(h) \in 1..Len(h)
    BY <1>2
  <2>2. h[Len(h)] \in Commit
    BY <2>1
  <2> QED
    BY <1>2, <2>2 DEF TipTree, Commit
<1> QED
  BY <1>1, <1>2

\* The initial history is one.
LEMMA RootIsHistory == Root \in Seq(Commit)
<1>1. [tree |-> Empty, by |-> None] \in Commit
  BY EmptyIsTree DEF Commit
<1> QED
  BY <1>1 DEF Root

\* The first notebook is a tree.
LEMMA FoundingIsTree ==
    ASSUME ~Cloned
    PROVE  Founding \in Tree
<1> DEFINE text == CHOOSE g \in [Files -> Edits]: IsInjective(g)
<1>1. text \in [Files -> Edits]
  BY ConstantsAssumption DEF ConstantsAssumption
<1> HIDE DEF text
<1>2. [f \in Files |-> {text[f]}] \in [Files -> SUBSET Edits]
  BY <1>1
<1>3. [notes |-> [f \in Files |-> {text[f]}], copies |-> {}] \in Tree
  BY <1>2, TreeMade
<1> QED
  BY <1>3 DEF Founding, text

\* What a new commit adds to a history.
LEMMA CommitMade ==
    ASSUME NEW h \in Seq(Commit), NEW T \in Tree, NEW d \in Devices
    PROVE  /\ NewCommit(h, T, d) \in Seq(Commit)
           /\ Len(NewCommit(h, T, d)) = Len(h) + 1
           /\ \A i \in 1..Len(h): NewCommit(h, T, d)[i] = h[i]
           /\ NewCommit(h, T, d)[Len(h) + 1] = [tree |-> T, by |-> d]
           /\ \A i \in 1..Len(NewCommit(h, T, d)): i > Len(h) => NewCommit(h, T, d)[i].by = d
<1>1. [tree |-> T, by |-> d] \in Commit
  BY DEF Commit
<1>2. /\ NewCommit(h, T, d) \in Seq(Commit)
      /\ Len(NewCommit(h, T, d)) = Len(h) + 1
      /\ \A i \in 1..Len(h): NewCommit(h, T, d)[i] = h[i]
      /\ NewCommit(h, T, d)[Len(h) + 1] = [tree |-> T, by |-> d]
  BY <1>1 DEF NewCommit
<1>3. Len(h) \in Nat /\ [tree |-> T, by |-> d].by = d
  OBVIOUS
<1> QED
  BY <1>2, <1>3

\* h has k as a prefix.
Extends(h, k) == Len(k) <= Len(h) /\ \A i \in 1..Len(k): h[i] = k[i]

\* IsPrefix, element by element.
LEMMA PrefixMeans ==
    ASSUME NEW S, NEW h \in Seq(S), NEW k \in Seq(S)
    PROVE  IsPrefix(k, h) <=> Extends(h, k)
BY DEF IsPrefix, Extends

\* The merge base is the longest common prefix.
LEMMA BaseIsCommon ==
    ASSUME NEW h \in Seq(Commit), NEW k \in Seq(Commit)
    PROVE  /\ BaseLength(h, k) \in 0..Len(h)
           /\ BaseLength(h, k) <= Len(k)
           /\ \A i \in 1..BaseLength(h, k): h[i] = k[i]
<1> DEFINE S == {n \in 1..Len(h): IsPrefix(SubSeq(h, 1, n), k)}
           c == Cardinality(S)
<1>1. \A n \in 1..Len(h): n \in S <=> n <= Len(k) /\ \A i \in 1..n: h[i] = k[i]
  <2> SUFFICES ASSUME NEW n \in 1..Len(h)
               PROVE  n \in S <=> n <= Len(k) /\ \A i \in 1..n: h[i] = k[i]
    OBVIOUS
  <2>1. SubSeq(h, 1, n) \in Seq(Commit) /\ Len(SubSeq(h, 1, n)) = n
    OBVIOUS
  <2>2. \A i \in 1..n: SubSeq(h, 1, n)[i] = h[i]
    OBVIOUS
  <2>3. n \in S <=> Extends(k, SubSeq(h, 1, n))
    BY <2>1, PrefixMeans
  <2> QED
    BY <2>1, <2>2, <2>3 DEF Extends
<1>2. IsFiniteSet(1..Len(h)) /\ Cardinality(1..Len(h)) = Len(h)
  BY FS_Interval
<1>3. IsFiniteSet(S) /\ c <= Len(h)
  BY <1>2, FS_Subset
<1>4. c \in Nat
  BY <1>3, FS_CardinalityType
<1>5. S \subseteq 1..c
  <2> SUFFICES ASSUME NEW n \in S PROVE n <= c
    BY <1>4
  <2>1. 1..n \subseteq S
    BY <1>1
  <2>2. Cardinality(1..n) = n
    BY FS_Interval
  <2> QED
    BY <1>3, <2>1, <2>2, FS_Subset
<1>6. IsFiniteSet(1..c) /\ Cardinality(1..c) = c
  BY <1>4, FS_Interval
<1>7. S = 1..c
  BY <1>5, <1>6, FS_Subset
<1>8. c = BaseLength(h, k)
  BY DEF BaseLength
<1> HIDE DEF S, c
<1>9. c # 0 => c \in S
  BY <1>4, <1>7
<1> QED
  BY <1>1, <1>3, <1>4, <1>8, <1>9

\* What a rebase replays is patches.
LEMMA PatchesMade ==
    ASSUME NEW h \in Seq(Commit), NEW k \in Seq(Commit)
    PROVE  PatchesSince(h, k) \in Seq(Patch)
<1> DEFINE n == BaseLength(h, k)
           m == Len(h) - n
           before(i) == IF i = 1 THEN Empty ELSE h[i - 1].tree
           p == [i \in 1..m |-> [base |-> before(n + i), tree |-> h[n + i].tree]]
<1>1. n \in Nat /\ m \in Nat /\ n + m = Len(h)
  BY BaseIsCommon
<1> HIDE DEF n, m
<1>2. ASSUME NEW i \in 1..m
      PROVE  before(n + i) \in Tree /\ h[n + i].tree \in Tree
  <2>1. n + i \in 1..Len(h) /\ (n + i # 1 => n + i - 1 \in 1..Len(h))
    BY <1>1
  <2>2. h[n + i] \in Commit /\ (n + i # 1 => h[n + i - 1] \in Commit)
    BY <2>1
  <2>3. \A x \in Commit: x.tree \in Tree
    BY DEF Commit
  <2> QED
    BY <1>1, <2>2, <2>3, EmptyIsTree
<1>3. ASSUME NEW i \in 1..m
      PROVE  [base |-> before(n + i), tree |-> h[n + i].tree] \in Patch
  BY <1>2 DEF Patch
<1>4. p \in [1..m -> Patch]
  BY <1>3
<1>5. p = PatchesSince(h, k)
  BY DEF PatchesSince, n, m
<1> HIDE DEF p
<1>6. p \in Seq(Patch)
  BY <1>1, <1>4
<1> QED
  BY <1>5, <1>6

\* One reads edits in a tree.
LEMMA EditsOfTree ==
    ASSUME NEW T \in Tree
    PROVE  EditsOf(T) \subseteq Edits
BY TreeParts DEF EditsOf

-----------------------------------------------------------------------------
(* The invariant *)

\* Which call a place belongs to.
CallPlace(d) ==
    /\ pc[d] \in {"initRepo", "addOrigin", "checkout", "initRef"} =>
          op[d] \in {"init", "clone"}
    /\ pc[d] = "openClone" => op[d] = "clone"
    /\ pc[d] \in {"stage", "commit"} => op[d] \in {"sync", "stage", "init"}
    /\ pc[d] = "fetch" => op[d] \in {"sync", "network", "init", "clone"}
    /\ pc[d] \in {"rebase", "ffRef"} => op[d] \in {"sync", "network"}
    /\ pc[d] = "replay" => op[d] \in {"sync", "network", "resolve"}
    /\ pc[d] = "push" => op[d] \in {"sync", "network", "init"}

\* Sync is for notebooks, and only CloneNotebook works where there is none yet.
Opened(d) ==
    /\ Cloned => notebook[d]
    /\ enabled[d] => notebook[d]
    /\ pc[d] # "idle" => (~notebook[d] <=> op[d] = "clone")

\* Conflicts are those of the first patch of a rebase, which goes on without any.
Rebasing(d) ==
    /\ conflicts[d] # {} => detached[d] /\ todo[d] # <<>>
    /\ pc[d] = "replay" => detached[d] /\ conflicts[d] = {}
    /\ pc[d] = "ffRef" => ~detached[d]

\* Where a device has no repository yet, and the three ways a new one goes on.
Unborn(d) == repo[d] = "none" \/ pc[d] \in {"initRepo", "addOrigin"}
FirstCommit(d) == op[d] = "init" /\ pc[d] \in {"stage", "commit"}
FirstFetch(d) == op[d] \in {"init", "clone"} /\ pc[d] \in {"fetch", "checkout", "initRef"}
FirstPush(d) == op[d] = "init" /\ pc[d] = "push"

NothingOf(h, d) == \A i \in 1..Len(h): h[i].by # d

\* Whoever has no repository, or its first commit not yet pushed, is new to the remote.
Starting(d) ==
    /\ Unborn(d) \/ FirstCommit(d) \/ FirstFetch(d) => branch[d] = <<>> /\ ~detached[d]
    /\ Unborn(d) \/ FirstCommit(d) \/ FirstPush(d) => track[d] = <<>>
    /\ Unborn(d) \/ FirstCommit(d) \/ FirstPush(d) \/ ~notebook[d] => NothingOf(remote, d)
    /\ ~notebook[d] => NothingOf(branch[d], d) /\ ~detached[d]
    /\ ~notebook[d] /\ Unborn(d) => \A f \in Files: work[d].notes[f] = {}
    /\ repo[d] = "none" => pc[d] \in {"idle", "initRepo"} /\ ~enabled[d]

\* h is what d knows of the shared history, up to some commit, and then d's own commits.
Grown(h, d) ==
    \A i \in 1..Len(h): \/ h[i].by = d
                        \/ i <= Len(track[d]) /\ \A j \in 1..i: h[j] = track[d][j]

Known(d) ==
    /\ Extends(remote, track[d])
    /\ Grown(branch[d], d)
    /\ detached[d] => Grown(head[d], d)

\* Between its fetch and its push d cannot have published anything it does not know of,
\* and what it is going to push is on top of what it knows.
Fetched(d) ==
    /\ pc[d] \in {"rebase", "ffRef", "push"} \/ (pc[d] = "replay" /\ op[d] # "resolve") =>
          \A i \in Len(track[d]) + 1 .. Len(remote): remote[i].by # d
    /\ pc[d] = "push" /\ ~detached[d] /\ branch[d] # <<>> => Extends(branch[d], track[d])
    /\ pc[d] = "replay" /\ op[d] # "resolve" => Extends(head[d], track[d])

Own(d) == Starting(d) /\ Known(d) /\ Fetched(d)

\* The invariant, device by device.
Mine(d) == CallPlace(d) /\ Opened(d) /\ Rebasing(d) /\ Own(d)

IInv == TypeOK /\ \A d \in Devices: Mine(d)

-----------------------------------------------------------------------------
(* Types *)
CallsOK ==
    /\ pc \in [Devices -> {"idle", "stage", "commit", "fetch", "rebase", "ffRef",
                           "replay", "push", "initRepo", "addOrigin", "checkout", "initRef",
                           "openClone"}]
    /\ op \in [Devices -> {"none", "sync", "stage", "network", "resolve", "init", "clone"}]
    /\ attempt \in [Devices -> 0..MaxAttempts]
    /\ res \in [Devices -> {"none", "ok", "conflict", "error"}]

\* The ways a step ends.
LEMMA ReturnTypes ==
    ASSUME CallsOK, NEW d \in Devices, NEW r \in {"none", "ok", "conflict", "error"},
           Return(d, r)
    PROVE  CallsOK'
BY ConstantsAssumption DEF ConstantsAssumption, CallsOK, Return

\* A step that goes on keeps the types.
LEMMA GotoTypes ==
    ASSUME CallsOK, NEW d \in Devices,
           NEW l \in {"idle", "stage", "commit", "fetch", "rebase", "ffRef", "replay", "push",
                      "initRepo", "addOrigin", "checkout", "initRef", "openClone"},
           Goto(d, l)
    PROVE  CallsOK'
BY DEF CallsOK, Goto

\* A retry keeps the types.
LEMMA RetryTypes ==
    ASSUME CallsOK, NEW d \in Devices, Retry(d)
    PROVE  CallsOK'
<1>1. CASE op[d] # "init" /\ attempt[d] < MaxAttempts
  BY <1>1, ConstantsAssumption DEF ConstantsAssumption, CallsOK, Retry
<1>2. CASE ~(op[d] # "init" /\ attempt[d] < MaxAttempts)
  BY <1>2, ReturnTypes DEF Retry
<1> QED
  BY <1>1, <1>2

\* The variables of the calls have their types.
LEMMA CallTypes == TypeOK => CallsOK
BY DEF TypeOK, CallsOK

\* A save keeps the types.
LEMMA SaveFileTypes ==
    ASSUME TypeOK, NEW d \in Devices, Mine(d), NEW f \in Files, NEW e \in Edits,
           SaveFile(d, f, e)
    PROVE  TypeOK'
BY ConstantsAssumption, WithNoteIsTree DEF ConstantsAssumption, TypeOK, Mine, Opened,
   Rebasing, CallPlace, SaveFile, setupVars, refVars, callVars

\* The creation of a notebook keeps the types.
LEMMA CreateNotebookTypes ==
    ASSUME TypeOK, NEW d \in Devices, Mine(d), NEW e \in Edits, CreateNotebook(d, e)
    PROVE  TypeOK'
BY ConstantsAssumption, WithNoteIsTree DEF ConstantsAssumption, TypeOK, Mine, Opened,
   Rebasing, CallPlace, CreateNotebook, refVars, callVars

\* A refused Initialize keeps the types.
LEMMA InitializeRefusedTypes ==
    ASSUME TypeOK, NEW d \in Devices, Mine(d), InitializeRefused(d)
    PROVE  TypeOK'
BY ConstantsAssumption DEF ConstantsAssumption, TypeOK, Mine, Opened, Rebasing,
   CallPlace, InitializeRefused, setupVars, refVars, fileVars, ghostVars,
   InitializeCalled

\* Initialize of an existing repository keeps the types.
LEMMA OpenExistingRepoTypes ==
    ASSUME TypeOK, NEW d \in Devices, Mine(d), OpenExistingRepo(d)
    PROVE  TypeOK'
BY ConstantsAssumption DEF ConstantsAssumption, TypeOK, Mine, Opened, Rebasing,
   CallPlace, OpenExistingRepo, refVars, fileVars, ghostVars, InitializeCalled

\* The start of Initialize keeps the types.
LEMMA BootstrapTypes ==
    ASSUME TypeOK, NEW d \in Devices, Mine(d), Bootstrap(d)
    PROVE  TypeOK'
BY ConstantsAssumption DEF ConstantsAssumption, TypeOK, Mine, Opened, Rebasing,
   CallPlace, Bootstrap, setupVars, refVars, fileVars, ghostVars, Begin,
   InitializeCalled

\* The start of Initialize with the remote out of reach keeps the types.
LEMMA BootstrapUncheckedTypes ==
    ASSUME TypeOK, NEW d \in Devices, Mine(d), BootstrapUnchecked(d)
    PROVE  TypeOK'
BY ConstantsAssumption DEF ConstantsAssumption, TypeOK, Mine, Opened, Rebasing,
   CallPlace, BootstrapUnchecked, setupVars, refVars, fileVars, ghostVars, Begin,
   InitializeCalled

\* The start of a clone keeps the types.
LEMMA CloneNotebookTypes ==
    ASSUME TypeOK, NEW d \in Devices, Mine(d), CloneNotebook(d)
    PROVE  TypeOK'
BY ConstantsAssumption DEF ConstantsAssumption, TypeOK, Mine, Opened, Rebasing,
   CallPlace, CloneNotebook, setupVars, refVars, fileVars, ghostVars, Begin

\* The cancellation of a clone keeps the types.
LEMMA CloneCancelledTypes ==
    ASSUME TypeOK, NEW d \in Devices, Mine(d), CloneCancelled(d)
    PROVE  TypeOK'
BY ConstantsAssumption DEF ConstantsAssumption, TypeOK, Mine, Opened, Rebasing,
   CallPlace, CloneCancelled, setupVars, refVars, fileVars, ghostVars, Return

\* The removal of a failed clone keeps the types.
LEMMA DiscardCloneTypes ==
    ASSUME TypeOK, NEW d \in Devices, Mine(d), DiscardClone(d)
    PROVE  TypeOK'
BY ConstantsAssumption, EmptyIsTree, EmptySeq DEF ConstantsAssumption, TypeOK, Mine,
   Opened, Rebasing, CallPlace, DiscardClone, callVars, ghostVars

\* The end of the process keeps the types.
LEMMA RestartTypes ==
    ASSUME TypeOK, NEW d \in Devices, Restart(d)
    PROVE  TypeOK'
<1>1. restarts' \in 0..MaxRestarts
  BY ConstantsAssumption DEF ConstantsAssumption, TypeOK, Restart
<1>2. CallsOK'
  BY ConstantsAssumption DEF ConstantsAssumption, TypeOK, CallsOK, Restart
<1>3. repo' \in [Devices -> {"none", "noHead", "noOrigin", "ready"}]
  BY DEF TypeOK, Restart, Left
<1> QED
  BY <1>1, <1>2, <1>3 DEF TypeOK, CallsOK, Restart, refVars, fileVars, ghostVars

\* The start of a call keeps the types.
LEMMA StartCallTypes ==
    ASSUME TypeOK, NEW d \in Devices, Mine(d), NEW o \in Calls, StartCall(d, o)
    PROVE  TypeOK'
BY ConstantsAssumption DEF ConstantsAssumption, TypeOK, Mine, Opened, Rebasing,
   CallPlace, StartCall, setupVars, refVars, fileVars, ghostVars, Begin, FirstStep

\* The new repository keeps the types.
LEMMA InitRepoTypes ==
    ASSUME TypeOK, NEW d \in Devices, Mine(d), InitRepo(d)
    PROVE  TypeOK'
BY ConstantsAssumption DEF ConstantsAssumption, TypeOK, Mine, Opened, Rebasing,
   CallPlace, InitRepo, refVars, fileVars, ghostVars, Goto

\* Its origin keeps the types.
LEMMA AddOriginTypes ==
    ASSUME TypeOK, NEW d \in Devices, Mine(d), AddOrigin(d)
    PROVE  TypeOK'
BY ConstantsAssumption DEF ConstantsAssumption, TypeOK, Mine, Opened, Rebasing,
   CallPlace, AddOrigin, refVars, fileVars, ghostVars, Goto

\* The opening of a clone keeps the types.
LEMMA OpenCloneTypes ==
    ASSUME TypeOK, NEW d \in Devices, OpenClone(d)
    PROVE  TypeOK'
<1>1. CallsOK'
  BY CallTypes, ReturnTypes DEF OpenClone
<1>2. notebook' = [notebook EXCEPT ![d] = TRUE] \/ notebook' = notebook
  BY DEF OpenClone
<1>3. notebook' \in [Devices -> BOOLEAN]
  BY <1>2 DEF TypeOK
<1> QED
  BY <1>1, <1>3 DEF TypeOK, CallsOK, OpenClone, refVars, fileVars, ghostVars

\* The end of Initialize keeps the types.
LEMMA BootstrappedTypes ==
    ASSUME TypeOK, NEW d \in Devices, Bootstrapped(d)
    PROVE  CallsOK' /\ enabled' \in [Devices -> BOOLEAN]
<1>1. CASE op[d] = "clone"
  BY <1>1, CallTypes, GotoTypes DEF Bootstrapped, TypeOK
<1>2. CASE op[d] # "clone"
  BY <1>2, CallTypes, ReturnTypes DEF Bootstrapped, TypeOK
<1> QED
  BY <1>1, <1>2

\* An empty remote keeps the types.
LEMMA NothingToCheckOutTypes ==
    ASSUME TypeOK, NEW d \in Devices, NothingToCheckOut(d)
    PROVE  TypeOK'
<1>1. CallsOK' /\ enabled' \in [Devices -> BOOLEAN]
  BY BootstrappedTypes DEF NothingToCheckOut
<1> QED
  BY <1>1 DEF TypeOK, CallsOK, NothingToCheckOut, refVars, fileVars, ghostVars

\* A refused first checkout keeps the types.
LEMMA FirstCheckoutRefusedTypes ==
    ASSUME TypeOK, NEW d \in Devices, Mine(d), FirstCheckoutRefused(d)
    PROVE  TypeOK'
BY ConstantsAssumption DEF ConstantsAssumption, TypeOK, Mine, Opened, Rebasing,
   CallPlace, FirstCheckoutRefused, setupVars, refVars, fileVars, ghostVars, Return,
   FirstObstructed

\* The first checkout keeps the types.
LEMMA FirstCheckoutTypes ==
    ASSUME TypeOK, NEW d \in Devices, Mine(d), FirstCheckout(d)
    PROVE  TypeOK'
BY ConstantsAssumption, TipIsTree, CheckoutIsTree DEF ConstantsAssumption, TypeOK, Mine,
   Opened, Rebasing, CallPlace, FirstCheckout, setupVars, refVars, ghostVars, Goto,
   FirstObstructed

\* The first ref keeps the types.
LEMMA FirstRefTypes ==
    ASSUME TypeOK, NEW d \in Devices, FirstRef(d)
    PROVE  TypeOK'
<1>1. CallsOK' /\ enabled' \in [Devices -> BOOLEAN]
  BY BootstrappedTypes DEF FirstRef
<1> QED
  BY <1>1 DEF TypeOK, CallsOK, FirstRef, fileVars, ghostVars

\* StageAll keeps the types.
LEMMA StageAllTypes ==
    ASSUME TypeOK, NEW d \in Devices, Mine(d), StageAll(d)
    PROVE  TypeOK'
BY ConstantsAssumption DEF ConstantsAssumption, TypeOK, Mine, Opened, Rebasing,
   CallPlace, StageAll, setupVars, refVars, ghostVars, Goto

\* A commit keeps the types.
LEMMA CommitIndexTypes ==
    ASSUME TypeOK, NEW d \in Devices, CommitIndex(d)
    PROVE  TypeOK'
<1> DEFINE h == IF NothingToCommit(d) THEN HeadHistory(d)
                ELSE NewCommit(HeadHistory(d), index[d], d)
<1>1. CallsOK'
  BY CallTypes, ReturnTypes, GotoTypes DEF CommitIndex
<1>2. HeadHistory(d) \in Seq(Commit)
  BY DEF TypeOK, HeadHistory
<1>3. h \in Seq(Commit)
  BY <1>2, CommitMade DEF TypeOK
<1>4. EditsOf(TipTree(h)) \subseteq Edits
  BY <1>3, TipIsTree, EditsOfTree
<1>5. /\ \/ head' = [head EXCEPT ![d] = h] /\ branch' = branch
         \/ branch' = [branch EXCEPT ![d] = h] /\ head' = head
      /\ pending' = [pending EXCEPT ![d] = @ \ EditsIn(h)]
      /\ committed' = [committed EXCEPT ![d] = @ \cup EditsOf(TipTree(h))]
  BY DEF CommitIndex
<1>6. UNCHANGED <<remote, setupVars, track, detached, todo, fileVars, handle, failures,
                  restarts, dropped>>
  BY DEF CommitIndex
<1> HIDE DEF h
<1> QED
  BY <1>1, <1>3, <1>4, <1>5, <1>6 DEF TypeOK, CallsOK, setupVars, fileVars

\* A fetch keeps the types.
LEMMA FetchOriginTypes ==
    ASSUME TypeOK, NEW d \in Devices, Mine(d), FetchOrigin(d)
    PROVE  TypeOK'
BY ConstantsAssumption DEF ConstantsAssumption, TypeOK, Mine, Opened, Rebasing,
   CallPlace, FetchOrigin, setupVars, fileVars, ghostVars, Goto

\* A failed fetch keeps the types.
LEMMA FetchFailsTypes ==
    ASSUME TypeOK, NEW d \in Devices, Mine(d), FetchFails(d)
    PROVE  TypeOK'
BY ConstantsAssumption DEF ConstantsAssumption, TypeOK, Mine, Opened, Rebasing,
   CallPlace, FetchFails, setupVars, refVars, fileVars, ghostVars, Return

\* A rebase that has nothing to do keeps the types.
LEMMA SkipRebaseTypes ==
    ASSUME TypeOK, NEW d \in Devices, Mine(d), SkipRebase(d)
    PROVE  TypeOK'
BY ConstantsAssumption DEF ConstantsAssumption, TypeOK, Mine, Opened, Rebasing,
   CallPlace, SkipRebase, setupVars, refVars, fileVars, ghostVars, Goto

\* The checkout of a fast-forward keeps the types.
LEMMA FastForwardCheckoutTypes ==
    ASSUME TypeOK, NEW d \in Devices, Mine(d), FastForwardCheckout(d)
    PROVE  TypeOK'
BY ConstantsAssumption, TipIsTree, CheckoutIsTree DEF ConstantsAssumption, TypeOK, Mine,
   Opened, Rebasing, CallPlace, FastForwardCheckout, setupVars, refVars, ghostVars,
   Goto, RemoteAhead

\* The ref of a fast-forward keeps the types.
LEMMA FastForwardRefTypes ==
    ASSUME TypeOK, NEW d \in Devices, Mine(d), FastForwardRef(d)
    PROVE  TypeOK'
BY ConstantsAssumption DEF ConstantsAssumption, TypeOK, Mine, Opened, Rebasing,
   CallPlace, FastForwardRef, setupVars, fileVars, ghostVars, Goto

\* The start of a rebase keeps the types.
LEMMA RebaseInitTypes ==
    ASSUME TypeOK, NEW d \in Devices, Mine(d), RebaseInit(d)
    PROVE  TypeOK'
BY ConstantsAssumption, TipIsTree, CheckoutIsTree, PatchesMade DEF ConstantsAssumption,
   TypeOK, Mine, Opened, Rebasing, CallPlace, RebaseInit, setupVars, ghostVars, Goto,
   Diverged, RemoteAhead

\* A refused rebase keeps the types.
LEMMA RebaseRefusedTypes ==
    ASSUME TypeOK, NEW d \in Devices, Mine(d), RebaseRefused(d)
    PROVE  TypeOK'
<1>1. CallsOK'
  BY CallTypes, ReturnTypes, GotoTypes, RetryTypes DEF RebaseRefused, setupVars,
     refVars, fileVars, ghostVars, Diverged, RemoteAhead
<1> QED
  BY <1>1, ConstantsAssumption DEF ConstantsAssumption, CallsOK, TypeOK, Mine, Opened,
     Rebasing, CallPlace, RebaseRefused, setupVars, refVars, fileVars, ghostVars,
     Diverged, RemoteAhead

\* A replay that would overwrite a change keeps the types.
LEMMA ReplayObstructedTypes ==
    ASSUME TypeOK, NEW d \in Devices, Mine(d), ReplayObstructed(d)
    PROVE  TypeOK'
BY ConstantsAssumption DEF ConstantsAssumption, TypeOK, Mine, Opened, Rebasing,
   CallPlace, ReplayObstructed, setupVars, refVars, fileVars, ghostVars, Return,
   StepTree, Ours, Replaying

\* A replay that stops at a conflict keeps the types.
LEMMA ReplayConflictTypes ==
    ASSUME TypeOK, NEW d \in Devices, Mine(d), ReplayConflict(d)
    PROVE  TypeOK'
BY ConstantsAssumption, TipIsTree, MergedIsTree, CheckoutIsTree DEF ConstantsAssumption,
   TypeOK, Mine, Opened, Rebasing, CallPlace, ReplayConflict, setupVars, refVars,
   ghostVars, Return, StepTree, Ours, StepConflicts, Replaying, Conflicting

\* A replayed patch keeps the types.
LEMMA ReplayCommitTypes ==
    ASSUME TypeOK, NEW d \in Devices, ReplayCommit(d)
    PROVE  TypeOK'
<1>1. CallsOK'
  BY CallTypes, ReturnTypes, GotoTypes DEF ReplayCommit
<1>2. todo[d] # <<>> /\ todo[d] \in Seq(Patch) /\ head[d] \in Seq(Commit)
  BY DEF TypeOK, ReplayCommit, Replaying
<1>3. StepTree(d) \in Tree
  BY <1>2, TipIsTree, MergedIsTree DEF StepTree, Ours
<1>4. SafeCheckout(d, StepTree(d)) \in Tree
  BY <1>3, CheckoutIsTree DEF TypeOK
<1>5. NewCommit(head[d], StepTree(d), d) \in Seq(Commit) /\ Tail(todo[d]) \in Seq(Patch)
  <2>1. NewCommit(head[d], StepTree(d), d) \in Seq(Commit)
    BY <1>2, <1>3, CommitMade
  <2>2. Tail(todo[d]) \in Seq(Patch)
    BY <1>2
  <2> QED
    BY <2>1, <2>2
<1>6. \/ head' = head /\ todo' = todo
      \/ head' = head /\ todo' = [todo EXCEPT ![d] = Tail(@)]
      \/ /\ head' = [head EXCEPT ![d] = NewCommit(head[d], StepTree(d), d)]
         /\ todo' = [todo EXCEPT ![d] = Tail(@)]
  BY DEF ReplayCommit
<1>7. head' \in [Devices -> Seq(Commit)] /\ todo' \in [Devices -> Seq(Patch)]
  BY <1>5, <1>6 DEF TypeOK
<1>8. work' \in [Devices -> Tree] /\ index' \in [Devices -> Tree]
  BY <1>3, <1>4 DEF TypeOK, ReplayCommit
<1>9. handle' \in [Devices -> BOOLEAN]
  BY DEF TypeOK, ReplayCommit
<1> QED
  BY <1>1, <1>7, <1>8, <1>9 DEF TypeOK, CallsOK, ReplayCommit, setupVars, ghostVars

\* The end of a rebase keeps the types.
LEMMA FinishRebaseTypes ==
    ASSUME TypeOK, NEW d \in Devices, Mine(d), FinishRebase(d)
    PROVE  TypeOK'
<1>1. CallsOK'
  BY CallTypes, ReturnTypes, GotoTypes, RetryTypes DEF FinishRebase, setupVars,
     fileVars, ghostVars
<1> QED
  BY <1>1, ConstantsAssumption, EmptySeq DEF ConstantsAssumption, CallsOK, TypeOK, Mine,
     Opened, Rebasing, CallPlace, FinishRebase, setupVars, fileVars, ghostVars

\* A push of no branch keeps the types.
LEMMA PushWithoutBranchTypes ==
    ASSUME TypeOK, NEW d \in Devices, Mine(d), PushWithoutBranch(d)
    PROVE  TypeOK'
BY ConstantsAssumption DEF ConstantsAssumption, TypeOK, Mine, Opened, Rebasing,
   CallPlace, PushWithoutBranch, setupVars, refVars, fileVars, ghostVars, Return,
   HasBranch

\* An accepted push keeps the types.
LEMMA PushOriginTypes ==
    ASSUME TypeOK, NEW d \in Devices, Mine(d), PushOrigin(d)
    PROVE  TypeOK'
BY ConstantsAssumption DEF ConstantsAssumption, TypeOK, Mine, Opened, Rebasing,
   CallPlace, PushOrigin, fileVars, ghostVars, Return, HasBranch, PushedRef, FastForward

\* A rejected push keeps the types.
LEMMA PushRejectedTypes ==
    ASSUME TypeOK, NEW d \in Devices, Mine(d), PushRejected(d)
    PROVE  TypeOK'
<1>1. CallsOK'
  BY CallTypes, ReturnTypes, GotoTypes, RetryTypes DEF PushRejected, setupVars, refVars,
     fileVars, ghostVars, HasBranch, FastForward, PushedRef
<1> QED
  BY <1>1, ConstantsAssumption DEF ConstantsAssumption, CallsOK, TypeOK, Mine, Opened,
     Rebasing, CallPlace, PushRejected, setupVars, refVars, fileVars, ghostVars,
     HasBranch, FastForward, PushedRef

\* A push whose connection breaks keeps the types.
LEMMA PushFailsTypes ==
    ASSUME TypeOK, NEW d \in Devices, Mine(d), PushFails(d)
    PROVE  TypeOK'
<1>1. CallsOK'
  BY CallTypes, ReturnTypes, GotoTypes, RetryTypes DEF PushFails, setupVars, refVars,
     fileVars, ghostVars, HasBranch, PushedRef, FastForward
<1> QED
  BY <1>1, ConstantsAssumption DEF ConstantsAssumption, CallsOK, TypeOK, Mine, Opened,
     Rebasing, CallPlace, PushFails, setupVars, refVars, fileVars, ghostVars, HasBranch,
     PushedRef, FastForward

\* A resolution keeps the types.
LEMMA ResolveConflictTypes ==
    ASSUME TypeOK, NEW d \in Devices, Mine(d), NEW f \in Files, NEW r \in Resolutions,
           ResolveConflict(d, f, r)
    PROVE  TypeOK'
<1>1. todo[d] # <<>> /\ todo[d] \in Seq(Patch) /\ head[d] \in Seq(Commit)
  BY DEF TypeOK, Mine, Rebasing, ResolveConflict
<1>2. todo[d][1] \in Patch
  BY <1>1
<1>3. LocalSide(d, f) \in SUBSET Edits /\ RemoteSide(d, f) \in SUBSET Edits
  BY <1>1, <1>2, TipIsTree, TreeParts DEF Patch, LocalSide, RemoteSide, Ours
<1>4. \A T \in Tree: Resolve(T, d, f, r) \in Tree
  BY <1>3, WithNoteIsTree, TreeMade, TreeParts DEF Resolve, Resolutions
<1>5. work' \in [Devices -> Tree] /\ index' \in [Devices -> Tree]
  BY <1>4 DEF TypeOK, ResolveConflict
<1>6. CallsOK'
  BY DEF TypeOK, CallsOK, ResolveConflict
<1>7. head' \in [Devices -> Seq(Commit)] /\ todo' \in [Devices -> Seq(Patch)]
  <2>1. NewCommit(head[d], index'[d], d) \in Seq(Commit)
    BY <1>1, <1>5, CommitMade
  <2>2. Tail(todo[d]) \in Seq(Patch)
    BY <1>1
  <2>3. \/ head' = head /\ todo' = todo
        \/ head' = head /\ todo' = [todo EXCEPT ![d] = Tail(@)]
        \/ /\ head' = [head EXCEPT ![d] = NewCommit(head[d], index'[d], d)]
           /\ todo' = [todo EXCEPT ![d] = Tail(@)]
    BY DEF ResolveConflict
  <2> QED
    BY <2>1, <2>2, <2>3 DEF TypeOK
<1>8. dropped' \subseteq Edits /\ pending' \in [Devices -> SUBSET Edits]
  BY <1>3 DEF TypeOK, ResolveConflict
<1> QED
  BY <1>5, <1>6, <1>7, <1>8 DEF TypeOK, CallsOK, ResolveConflict, setupVars

\* A resolution of no conflict keeps the types.
LEMMA ResolveNothingTypes ==
    ASSUME TypeOK, NEW d \in Devices, Mine(d), NEW f \in Files, ResolveNothing(d, f)
    PROVE  TypeOK'
BY ConstantsAssumption DEF ConstantsAssumption, TypeOK, Mine, Opened, Rebasing,
   CallPlace, ResolveNothing, setupVars, refVars, fileVars, ghostVars

-----------------------------------------------------------------------------
(* One shared history *)

\* A step of d leaves the other devices alone ...
Apart(d) ==
    \A c \in Devices \ {d}:
        /\ notebook'[c] = notebook[c] /\ repo'[c] = repo[c] /\ enabled'[c] = enabled[c]
        /\ branch'[c] = branch[c] /\ track'[c] = track[c] /\ detached'[c] = detached[c]
        /\ head'[c] = head[c] /\ todo'[c] = todo[c] /\ conflicts'[c] = conflicts[c]
        /\ work'[c] = work[c] /\ pc'[c] = pc[c] /\ op'[c] = op[c]

\* ... and adds to the remote, at its end, commits of its own if any.
Shared(d) ==
    /\ Extends(remote', remote)
    /\ \A i \in Len(remote) + 1 .. Len(remote'): remote'[i].by = d

\* What a step of d leaves alone keeps its invariant.
LEMMA OthersKeep ==
    ASSUME TypeOK, TypeOK', NEW d \in Devices, NEW c \in Devices \ {d}, Mine(c), Apart(d),
           Shared(d)
    PROVE  Mine(c)'
<1>1. CallPlace(c)' /\ Opened(c)' /\ Rebasing(c)'
  BY DEF Mine, Apart, CallPlace, Opened, Rebasing
<1>2. /\ Len(remote) \in Nat /\ Len(remote') \in Nat /\ Len(track[c]) \in Nat
      /\ track'[c] = track[c] /\ branch'[c] = branch[c] /\ head'[c] = head[c]
  <2>1. remote \in Seq(Commit) /\ remote' \in Seq(Commit) /\ track[c] \in Seq(Commit)
    BY DEF TypeOK
  <2> QED
    BY <2>1 DEF Apart
<1>3. NothingOf(remote, c) => NothingOf(remote, c)'
  BY <1>2 DEF NothingOf, Shared, Extends
<1>4. Starting(c)'
  BY <1>2, <1>3 DEF Mine, Own, Starting, Apart, Unborn, FirstCommit, FirstFetch, FirstPush,
     NothingOf
<1>5. Known(c)'
  BY <1>2 DEF Mine, Own, Known, Apart, Shared, Extends, Grown
<1>6. Fetched(c)'
  <2>1. (\A i \in Len(track[c]) + 1 .. Len(remote): remote[i].by # c) =>
           (\A i \in Len(track'[c]) + 1 .. Len(remote'): remote'[i].by # c)
    BY <1>2 DEF Mine, Own, Known, Shared, Extends
  <2> QED
    BY <1>2, <2>1 DEF Mine, Own, Fetched, Apart, Extends
<1> QED
  BY <1>1, <1>4, <1>5, <1>6 DEF Mine, Own

\* Every step keeps the order of calls and leaves the other devices alone.

\* A save keeps the calls in order, and the others apart.
LEMMA SaveFileOrder ==
    ASSUME TypeOK, NEW d \in Devices, Mine(d), NEW f \in Files, NEW e \in Edits,
           SaveFile(d, f, e)
    PROVE  Apart(d) /\ CallPlace(d)' /\ Opened(d)' /\ Rebasing(d)'
BY ConstantsAssumption DEF ConstantsAssumption, TypeOK, Mine, Own, Starting, Apart,
   CallPlace, Opened, Rebasing, Unborn, SaveFile, setupVars, refVars, callVars

\* The creation of a notebook keeps the calls in order, and the others apart.
LEMMA CreateNotebookOrder ==
    ASSUME TypeOK, NEW d \in Devices, Mine(d), NEW e \in Edits, CreateNotebook(d, e)
    PROVE  Apart(d) /\ CallPlace(d)' /\ Opened(d)' /\ Rebasing(d)'
BY ConstantsAssumption DEF ConstantsAssumption, TypeOK, Mine, Own, Starting, Apart,
   CallPlace, Opened, Rebasing, Unborn, CreateNotebook, refVars, callVars

\* A refused Initialize keeps the calls in order, and the others apart.
LEMMA InitializeRefusedOrder ==
    ASSUME TypeOK, NEW d \in Devices, Mine(d), InitializeRefused(d)
    PROVE  Apart(d) /\ CallPlace(d)' /\ Opened(d)' /\ Rebasing(d)'
BY ConstantsAssumption DEF ConstantsAssumption, TypeOK, Mine, Own, Starting, Apart,
   CallPlace, Opened, Rebasing, Unborn, InitializeRefused, setupVars, refVars, fileVars,
   ghostVars, InitializeCalled

\* Initialize of an existing repository keeps the calls in order, and the others apart.
LEMMA OpenExistingRepoOrder ==
    ASSUME TypeOK, NEW d \in Devices, Mine(d), OpenExistingRepo(d)
    PROVE  Apart(d) /\ CallPlace(d)' /\ Opened(d)' /\ Rebasing(d)'
BY ConstantsAssumption DEF ConstantsAssumption, TypeOK, Mine, Own, Starting, Apart,
   CallPlace, Opened, Rebasing, Unborn, OpenExistingRepo, refVars, fileVars, ghostVars,
   InitializeCalled

\* The start of Initialize keeps the calls in order, and the others apart.
LEMMA BootstrapOrder ==
    ASSUME TypeOK, NEW d \in Devices, Mine(d), Bootstrap(d)
    PROVE  Apart(d) /\ CallPlace(d)' /\ Opened(d)' /\ Rebasing(d)'
BY ConstantsAssumption DEF ConstantsAssumption, TypeOK, Mine, Own, Starting, Apart,
   CallPlace, Opened, Rebasing, Unborn, Bootstrap, setupVars, refVars, fileVars,
   ghostVars, Begin, InitializeCalled

\* The start of Initialize with the remote out of reach keeps the calls in order, and the
\* others apart.
LEMMA BootstrapUncheckedOrder ==
    ASSUME TypeOK, NEW d \in Devices, Mine(d), BootstrapUnchecked(d)
    PROVE  Apart(d) /\ CallPlace(d)' /\ Opened(d)' /\ Rebasing(d)'
BY ConstantsAssumption DEF ConstantsAssumption, TypeOK, Mine, Own, Starting, Apart,
   CallPlace, Opened, Rebasing, Unborn, BootstrapUnchecked, setupVars, refVars,
   fileVars, ghostVars, Begin, InitializeCalled

\* The start of a clone keeps the calls in order, and the others apart.
LEMMA CloneNotebookOrder ==
    ASSUME TypeOK, NEW d \in Devices, Mine(d), CloneNotebook(d)
    PROVE  Apart(d) /\ CallPlace(d)' /\ Opened(d)' /\ Rebasing(d)'
BY ConstantsAssumption DEF ConstantsAssumption, TypeOK, Mine, Own, Starting, Apart,
   CallPlace, Opened, Rebasing, Unborn, CloneNotebook, setupVars, refVars, fileVars,
   ghostVars, Begin

\* The cancellation of a clone keeps the calls in order, and the others apart.
LEMMA CloneCancelledOrder ==
    ASSUME TypeOK, NEW d \in Devices, Mine(d), CloneCancelled(d)
    PROVE  Apart(d) /\ CallPlace(d)' /\ Opened(d)' /\ Rebasing(d)'
BY ConstantsAssumption DEF ConstantsAssumption, TypeOK, Mine, Own, Starting, Apart,
   CallPlace, Opened, Rebasing, Unborn, CloneCancelled, setupVars, refVars, fileVars,
   ghostVars, Return

\* The removal of a failed clone keeps the calls in order, and the others apart.
LEMMA DiscardCloneOrder ==
    ASSUME TypeOK, NEW d \in Devices, Mine(d), DiscardClone(d)
    PROVE  Apart(d) /\ CallPlace(d)' /\ Opened(d)' /\ Rebasing(d)'
BY ConstantsAssumption DEF ConstantsAssumption, TypeOK, Mine, Own, Starting, Apart,
   CallPlace, Opened, Rebasing, Unborn, DiscardClone, callVars, ghostVars

\* The end of the process keeps the calls in order, and the others apart.
LEMMA RestartOrder ==
    ASSUME TypeOK, NEW d \in Devices, Mine(d), Restart(d)
    PROVE  Apart(d) /\ CallPlace(d)' /\ Opened(d)' /\ Rebasing(d)'
BY ConstantsAssumption DEF ConstantsAssumption, TypeOK, Mine, Own, Starting, Apart,
   CallPlace, Opened, Rebasing, Unborn, Restart, refVars, fileVars, ghostVars, Left

\* The start of a call keeps the calls in order, and the others apart.
LEMMA StartCallOrder ==
    ASSUME TypeOK, NEW d \in Devices, Mine(d), NEW o \in Calls, StartCall(d, o)
    PROVE  Apart(d) /\ CallPlace(d)' /\ Opened(d)' /\ Rebasing(d)'
BY ConstantsAssumption DEF ConstantsAssumption, TypeOK, Mine, Own, Starting, Apart,
   CallPlace, Opened, Rebasing, Unborn, StartCall, setupVars, refVars, fileVars,
   ghostVars, Begin, FirstStep

\* The new repository keeps the calls in order, and the others apart.
LEMMA InitRepoOrder ==
    ASSUME TypeOK, NEW d \in Devices, Mine(d), InitRepo(d)
    PROVE  Apart(d) /\ CallPlace(d)' /\ Opened(d)' /\ Rebasing(d)'
BY ConstantsAssumption DEF ConstantsAssumption, TypeOK, Mine, Own, Starting, Apart,
   CallPlace, Opened, Rebasing, Unborn, InitRepo, refVars, fileVars, ghostVars, Goto

\* Its origin keeps the calls in order, and the others apart.
LEMMA AddOriginOrder ==
    ASSUME TypeOK, NEW d \in Devices, Mine(d), AddOrigin(d)
    PROVE  Apart(d) /\ CallPlace(d)' /\ Opened(d)' /\ Rebasing(d)'
BY ConstantsAssumption DEF ConstantsAssumption, TypeOK, Mine, Own, Starting, Apart,
   CallPlace, Opened, Rebasing, Unborn, AddOrigin, refVars, fileVars, ghostVars, Goto,
   HasUserFiles

\* The opening of a clone keeps the calls in order, and the others apart.
LEMMA OpenCloneOrder ==
    ASSUME TypeOK, NEW d \in Devices, Mine(d), OpenClone(d)
    PROVE  Apart(d) /\ CallPlace(d)' /\ Opened(d)' /\ Rebasing(d)'
BY ConstantsAssumption DEF ConstantsAssumption, TypeOK, Mine, Own, Starting, Apart,
   CallPlace, Opened, Rebasing, Unborn, OpenClone, refVars, fileVars, ghostVars, Return

\* An empty remote keeps the calls in order, and the others apart.
LEMMA NothingToCheckOutOrder ==
    ASSUME TypeOK, NEW d \in Devices, Mine(d), NothingToCheckOut(d)
    PROVE  Apart(d) /\ CallPlace(d)' /\ Opened(d)' /\ Rebasing(d)'
BY ConstantsAssumption DEF ConstantsAssumption, TypeOK, Mine, Own, Starting, Apart,
   CallPlace, Opened, Rebasing, Unborn, NothingToCheckOut, refVars, fileVars, ghostVars,
   Bootstrapped, Goto, Return

\* A refused first checkout keeps the calls in order, and the others apart.
LEMMA FirstCheckoutRefusedOrder ==
    ASSUME TypeOK, NEW d \in Devices, Mine(d), FirstCheckoutRefused(d)
    PROVE  Apart(d) /\ CallPlace(d)' /\ Opened(d)' /\ Rebasing(d)'
BY ConstantsAssumption DEF ConstantsAssumption, TypeOK, Mine, Own, Starting, Apart,
   CallPlace, Opened, Rebasing, Unborn, FirstCheckoutRefused, setupVars, refVars,
   fileVars, ghostVars, Return, FirstObstructed

\* The first checkout keeps the calls in order, and the others apart.
LEMMA FirstCheckoutOrder ==
    ASSUME TypeOK, NEW d \in Devices, Mine(d), FirstCheckout(d)
    PROVE  Apart(d) /\ CallPlace(d)' /\ Opened(d)' /\ Rebasing(d)'
BY ConstantsAssumption DEF ConstantsAssumption, TypeOK, Mine, Own, Starting, Apart,
   CallPlace, Opened, Rebasing, Unborn, FirstCheckout, setupVars, refVars, ghostVars,
   Goto, FirstObstructed

\* The first ref keeps the calls in order, and the others apart.
LEMMA FirstRefOrder ==
    ASSUME TypeOK, NEW d \in Devices, Mine(d), FirstRef(d)
    PROVE  Apart(d) /\ CallPlace(d)' /\ Opened(d)' /\ Rebasing(d)'
BY ConstantsAssumption DEF ConstantsAssumption, TypeOK, Mine, Own, Starting, Apart,
   CallPlace, Opened, Rebasing, Unborn, FirstRef, fileVars, ghostVars, Bootstrapped,
   Goto, Return

\* StageAll keeps the calls in order, and the others apart.
LEMMA StageAllOrder ==
    ASSUME TypeOK, NEW d \in Devices, Mine(d), StageAll(d)
    PROVE  Apart(d) /\ CallPlace(d)' /\ Opened(d)' /\ Rebasing(d)'
BY ConstantsAssumption DEF ConstantsAssumption, TypeOK, Mine, Own, Starting, Apart,
   CallPlace, Opened, Rebasing, Unborn, StageAll, setupVars, refVars, ghostVars, Goto

\* A commit keeps the calls in order, and the others apart.
LEMMA CommitIndexOrder ==
    ASSUME TypeOK, NEW d \in Devices, Mine(d), CommitIndex(d)
    PROVE  Apart(d) /\ CallPlace(d)' /\ Opened(d)' /\ Rebasing(d)'
<1>1. /\ op[d] = "stage" => pc' = [pc EXCEPT ![d] = "idle"]
      /\ op[d] = "init" => pc' = [pc EXCEPT ![d] = "push"]
      /\ op[d] \notin {"stage", "init"} => pc' = [pc EXCEPT ![d] = "fetch"]
      /\ op' = op
  BY DEF CommitIndex, Goto, Return
<1>2. /\ pc[d] = "commit"
      /\ \A c \in Devices \ {d}: branch'[c] = branch[c] /\ head'[c] = head[c]
      /\ UNCHANGED <<setupVars, track, detached, todo, fileVars>>
  BY DEF CommitIndex, TypeOK
<1> QED
  BY <1>1, <1>2 DEF TypeOK, Mine, Apart, CallPlace, Opened, Rebasing, setupVars, fileVars

\* A fetch keeps the calls in order, and the others apart.
LEMMA FetchOriginOrder ==
    ASSUME TypeOK, NEW d \in Devices, Mine(d), FetchOrigin(d)
    PROVE  Apart(d) /\ CallPlace(d)' /\ Opened(d)' /\ Rebasing(d)'
BY ConstantsAssumption DEF ConstantsAssumption, TypeOK, Mine, Own, Starting, Apart,
   CallPlace, Opened, Rebasing, Unborn, FetchOrigin, setupVars, fileVars, ghostVars,
   Goto

\* A failed fetch keeps the calls in order, and the others apart.
LEMMA FetchFailsOrder ==
    ASSUME TypeOK, NEW d \in Devices, Mine(d), FetchFails(d)
    PROVE  Apart(d) /\ CallPlace(d)' /\ Opened(d)' /\ Rebasing(d)'
BY ConstantsAssumption DEF ConstantsAssumption, TypeOK, Mine, Own, Starting, Apart,
   CallPlace, Opened, Rebasing, Unborn, FetchFails, setupVars, refVars, fileVars,
   ghostVars, Return

\* A rebase that has nothing to do keeps the calls in order, and the others apart.
LEMMA SkipRebaseOrder ==
    ASSUME TypeOK, NEW d \in Devices, Mine(d), SkipRebase(d)
    PROVE  Apart(d) /\ CallPlace(d)' /\ Opened(d)' /\ Rebasing(d)'
BY ConstantsAssumption DEF ConstantsAssumption, TypeOK, Mine, Own, Starting, Apart,
   CallPlace, Opened, Rebasing, Unborn, SkipRebase, setupVars, refVars, fileVars,
   ghostVars, Goto

\* The checkout of a fast-forward keeps the calls in order, and the others apart.
LEMMA FastForwardCheckoutOrder ==
    ASSUME TypeOK, NEW d \in Devices, Mine(d), FastForwardCheckout(d)
    PROVE  Apart(d) /\ CallPlace(d)' /\ Opened(d)' /\ Rebasing(d)'
BY ConstantsAssumption DEF ConstantsAssumption, TypeOK, Mine, Own, Starting, Apart,
   CallPlace, Opened, Rebasing, Unborn, FastForwardCheckout, setupVars, refVars,
   ghostVars, Goto, RemoteAhead

\* The ref of a fast-forward keeps the calls in order, and the others apart.
LEMMA FastForwardRefOrder ==
    ASSUME TypeOK, NEW d \in Devices, Mine(d), FastForwardRef(d)
    PROVE  Apart(d) /\ CallPlace(d)' /\ Opened(d)' /\ Rebasing(d)'
BY ConstantsAssumption DEF ConstantsAssumption, TypeOK, Mine, Own, Starting, Apart,
   CallPlace, Opened, Rebasing, Unborn, FastForwardRef, setupVars, fileVars, ghostVars,
   Goto

\* The start of a rebase keeps the calls in order, and the others apart.
LEMMA RebaseInitOrder ==
    ASSUME TypeOK, NEW d \in Devices, Mine(d), RebaseInit(d)
    PROVE  Apart(d) /\ CallPlace(d)' /\ Opened(d)' /\ Rebasing(d)'
BY ConstantsAssumption DEF ConstantsAssumption, TypeOK, Mine, Own, Starting, Apart,
   CallPlace, Opened, Rebasing, Unborn, RebaseInit, setupVars, ghostVars, Goto,
   Diverged, RemoteAhead

\* A refused rebase keeps the calls in order, and the others apart.
LEMMA RebaseRefusedOrder ==
    ASSUME TypeOK, NEW d \in Devices, Mine(d), RebaseRefused(d)
    PROVE  Apart(d) /\ CallPlace(d)' /\ Opened(d)' /\ Rebasing(d)'
BY ConstantsAssumption DEF ConstantsAssumption, TypeOK, Mine, Own, Starting, Apart,
   CallPlace, Opened, Rebasing, Unborn, RebaseRefused, setupVars, refVars, fileVars,
   ghostVars, Return, Diverged, RemoteAhead

\* A replay that would overwrite a change keeps the calls in order, and the others apart.
LEMMA ReplayObstructedOrder ==
    ASSUME TypeOK, NEW d \in Devices, Mine(d), ReplayObstructed(d)
    PROVE  Apart(d) /\ CallPlace(d)' /\ Opened(d)' /\ Rebasing(d)'
BY ConstantsAssumption DEF ConstantsAssumption, TypeOK, Mine, Own, Starting, Apart,
   CallPlace, Opened, Rebasing, Unborn, ReplayObstructed, setupVars, refVars, fileVars,
   ghostVars, Return, StepTree, Ours, Replaying

\* A replay that stops at a conflict keeps the calls in order, and the others apart.
LEMMA ReplayConflictOrder ==
    ASSUME TypeOK, NEW d \in Devices, Mine(d), ReplayConflict(d)
    PROVE  Apart(d) /\ CallPlace(d)' /\ Opened(d)' /\ Rebasing(d)'
BY ConstantsAssumption DEF ConstantsAssumption, TypeOK, Mine, Own, Starting, Apart,
   CallPlace, Opened, Rebasing, Unborn, ReplayConflict, setupVars, refVars, ghostVars,
   Return, StepTree, Ours, StepConflicts, Replaying

\* A replayed patch keeps the calls in order, and the others apart.
LEMMA ReplayCommitOrder ==
    ASSUME TypeOK, NEW d \in Devices, Mine(d), ReplayCommit(d)
    PROVE  Apart(d) /\ CallPlace(d)' /\ Opened(d)' /\ Rebasing(d)'
BY ConstantsAssumption DEF ConstantsAssumption, TypeOK, Mine, Own, Starting, Apart,
   CallPlace, Opened, Rebasing, Unborn, ReplayCommit, setupVars, ghostVars, Goto,
   Return, StepTree, Ours, StepConflicts, Replaying, EmptyStep, AllowEapplied

\* The end of a rebase keeps the calls in order, and the others apart.
LEMMA FinishRebaseOrder ==
    ASSUME TypeOK, NEW d \in Devices, Mine(d), FinishRebase(d)
    PROVE  Apart(d) /\ CallPlace(d)' /\ Opened(d)' /\ Rebasing(d)'
BY ConstantsAssumption DEF ConstantsAssumption, TypeOK, Mine, Own, Starting, Apart,
   CallPlace, Opened, Rebasing, Unborn, FinishRebase, setupVars, fileVars, ghostVars,
   Goto, Return

\* A push of no branch keeps the calls in order, and the others apart.
LEMMA PushWithoutBranchOrder ==
    ASSUME TypeOK, NEW d \in Devices, Mine(d), PushWithoutBranch(d)
    PROVE  Apart(d) /\ CallPlace(d)' /\ Opened(d)' /\ Rebasing(d)'
BY ConstantsAssumption DEF ConstantsAssumption, TypeOK, Mine, Own, Starting, Apart,
   CallPlace, Opened, Rebasing, Unborn, PushWithoutBranch, setupVars, refVars, fileVars,
   ghostVars, Return, HasBranch

\* An accepted push keeps the calls in order, and the others apart.
LEMMA PushOriginOrder ==
    ASSUME TypeOK, NEW d \in Devices, Mine(d), PushOrigin(d)
    PROVE  Apart(d) /\ CallPlace(d)' /\ Opened(d)' /\ Rebasing(d)'
BY ConstantsAssumption DEF ConstantsAssumption, TypeOK, Mine, Own, Starting, Apart,
   CallPlace, Opened, Rebasing, Unborn, PushOrigin, fileVars, ghostVars, Return,
   HasBranch, PushedRef, FastForward

\* A rejected push keeps the calls in order, and the others apart.
LEMMA PushRejectedOrder ==
    ASSUME TypeOK, NEW d \in Devices, Mine(d), PushRejected(d)
    PROVE  Apart(d) /\ CallPlace(d)' /\ Opened(d)' /\ Rebasing(d)'
BY ConstantsAssumption DEF ConstantsAssumption, TypeOK, Mine, Own, Starting, Apart,
   CallPlace, Opened, Rebasing, Unborn, PushRejected, setupVars, refVars, fileVars,
   ghostVars, HasBranch, FastForward, PushedRef, Retry, Return

\* A push whose connection breaks keeps the calls in order, and the others apart.
LEMMA PushFailsOrder ==
    ASSUME TypeOK, NEW d \in Devices, Mine(d), PushFails(d)
    PROVE  Apart(d) /\ CallPlace(d)' /\ Opened(d)' /\ Rebasing(d)'
BY ConstantsAssumption DEF ConstantsAssumption, TypeOK, Mine, Own, Starting, Apart,
   CallPlace, Opened, Rebasing, Unborn, PushFails, setupVars, refVars, fileVars,
   ghostVars, Return, HasBranch, PushedRef, FastForward, Retry

\* A resolution keeps the calls in order, and the others apart.
LEMMA ResolveConflictOrder ==
    ASSUME TypeOK, NEW d \in Devices, Mine(d), NEW f \in Files, NEW r \in Resolutions,
           ResolveConflict(d, f, r)
    PROVE  Apart(d) /\ CallPlace(d)' /\ Opened(d)' /\ Rebasing(d)'
BY ConstantsAssumption DEF ConstantsAssumption, TypeOK, Mine, Own, Starting, Apart,
   CallPlace, Opened, Rebasing, Unborn, ResolveConflict, setupVars, Ours, LocalSide

\* A resolution of no conflict keeps the calls in order, and the others apart.
LEMMA ResolveNothingOrder ==
    ASSUME TypeOK, NEW d \in Devices, Mine(d), NEW f \in Files, ResolveNothing(d, f)
    PROVE  Apart(d) /\ CallPlace(d)' /\ Opened(d)' /\ Rebasing(d)'
BY ConstantsAssumption DEF ConstantsAssumption, TypeOK, Mine, Own, Starting, Apart,
   CallPlace, Opened, Rebasing, Unborn, ResolveNothing, setupVars, refVars, fileVars,
   ghostVars

\* What d has is sequences of commits.
Histories(d) ==
    /\ remote \in Seq(Commit) /\ branch[d] \in Seq(Commit)
    /\ track[d] \in Seq(Commit) /\ head[d] \in Seq(Commit)
    /\ Len(remote) \in Nat /\ Len(branch[d]) \in Nat
    /\ Len(track[d]) \in Nat /\ Len(head[d]) \in Nat

\* All that d has are histories.
LEMMA HistoriesAre ==
    ASSUME TypeOK, NEW d \in Devices
    PROVE  Histories(d)
<1>1. /\ remote \in Seq(Commit) /\ branch[d] \in Seq(Commit)
      /\ track[d] \in Seq(Commit) /\ head[d] \in Seq(Commit)
  BY DEF TypeOK
<1> QED
  BY <1>1 DEF Histories

\* k is h with commits of d on top, if any.
OwnMore(k, h, d) ==
    /\ k \in Seq(Commit) /\ Len(h) <= Len(k)
    /\ \A i \in 1..Len(h): k[i] = h[i]
    /\ \A i \in 1..Len(k): i > Len(h) => k[i].by = d

\* A commit is d's own.
LEMMA CommitIsOwn ==
    ASSUME NEW h \in Seq(Commit), NEW T \in Tree, NEW d \in Devices
    PROVE  OwnMore(NewCommit(h, T, d), h, d)
<1>1. PICK c \in Commit: c = [tree |-> T, by |-> d]
  BY DEF Commit
<1>2. c.by = d /\ NewCommit(h, T, d) = Append(h, c)
  BY <1>1 DEF NewCommit
<1>3. OwnMore(Append(h, c), h, d)
  BY <1>2 DEF OwnMore
<1> QED
  BY <1>2, <1>3

\* No commit is none of the others'.
LEMMA NoneIsOwn ==
    ASSUME NEW h \in Seq(Commit), NEW d \in Devices
    PROVE  OwnMore(h, h, d)
<1>1. Len(h) \in Nat
  OBVIOUS
<1> QED
  BY <1>1 DEF OwnMore

\* What has grown by d's own commits may grow by more of them.
LEMMA GrownByOwn ==
    ASSUME NEW d \in Devices, NEW h \in Seq(Commit), NEW k, Grown(h, d), OwnMore(k, h, d)
    PROVE  Grown(k, d)
<1>1. Len(h) \in Nat /\ k \in Seq(Commit) /\ Len(k) \in Nat
  BY DEF OwnMore
<1> QED
  BY <1>1 DEF Grown, OwnMore

\* Every step keeps to the shared history.

\* A save keeps to the shared history.
LEMMA SaveFileOwn ==
    ASSUME TypeOK, NEW d \in Devices, Mine(d), NEW f \in Files, NEW e \in Edits,
           SaveFile(d, f, e)
    PROVE  Own(d)' /\ Shared(d)
BY HistoriesAre, ConstantsAssumption DEF ConstantsAssumption, Histories, TypeOK, Mine,
   Own, Starting, Known, Fetched, Grown, Extends, NothingOf, Shared, CallPlace, Opened,
   Rebasing, Unborn, FirstCommit, FirstFetch, FirstPush, SaveFile, setupVars, refVars,
   callVars

\* The creation of a notebook keeps to the shared history.
LEMMA CreateNotebookOwn ==
    ASSUME TypeOK, NEW d \in Devices, Mine(d), NEW e \in Edits, CreateNotebook(d, e)
    PROVE  Own(d)' /\ Shared(d)
BY HistoriesAre, ConstantsAssumption DEF ConstantsAssumption, Histories, TypeOK, Mine,
   Own, Starting, Known, Fetched, Grown, Extends, NothingOf, Shared, CallPlace, Opened,
   Rebasing, Unborn, FirstCommit, FirstFetch, FirstPush, CreateNotebook, refVars,
   callVars

\* A refused Initialize keeps to the shared history.
LEMMA InitializeRefusedOwn ==
    ASSUME TypeOK, NEW d \in Devices, Mine(d), InitializeRefused(d)
    PROVE  Own(d)' /\ Shared(d)
BY HistoriesAre, ConstantsAssumption DEF ConstantsAssumption, Histories, TypeOK, Mine,
   Own, Starting, Known, Fetched, Grown, Extends, NothingOf, Shared, CallPlace, Opened,
   Rebasing, Unborn, FirstCommit, FirstFetch, FirstPush, InitializeRefused, setupVars,
   refVars, fileVars, ghostVars, InitializeCalled

\* Initialize of an existing repository keeps to the shared history.
LEMMA OpenExistingRepoOwn ==
    ASSUME TypeOK, NEW d \in Devices, Mine(d), OpenExistingRepo(d)
    PROVE  Own(d)' /\ Shared(d)
BY HistoriesAre, ConstantsAssumption DEF ConstantsAssumption, Histories, TypeOK, Mine,
   Own, Starting, Known, Fetched, Grown, Extends, NothingOf, Shared, CallPlace, Opened,
   Rebasing, Unborn, FirstCommit, FirstFetch, FirstPush, OpenExistingRepo, refVars,
   fileVars, ghostVars, InitializeCalled

\* The start of Initialize keeps to the shared history.
LEMMA BootstrapOwn ==
    ASSUME TypeOK, NEW d \in Devices, Mine(d), Bootstrap(d)
    PROVE  Own(d)' /\ Shared(d)
BY HistoriesAre, ConstantsAssumption DEF ConstantsAssumption, Histories, TypeOK, Mine,
   Own, Starting, Known, Fetched, Grown, Extends, NothingOf, Shared, CallPlace, Opened,
   Rebasing, Unborn, FirstCommit, FirstFetch, FirstPush, Bootstrap, setupVars, refVars,
   fileVars, ghostVars, Begin, InitializeCalled

\* The start of Initialize while the remote is out of reach keeps to the shared history.
LEMMA BootstrapUncheckedOwn ==
    ASSUME TypeOK, NEW d \in Devices, Mine(d), BootstrapUnchecked(d)
    PROVE  Own(d)' /\ Shared(d)
BY HistoriesAre, ConstantsAssumption DEF ConstantsAssumption, Histories, TypeOK, Mine,
   Own, Starting, Known, Fetched, Grown, Extends, NothingOf, Shared, CallPlace, Opened,
   Rebasing, Unborn, FirstCommit, FirstFetch, FirstPush, BootstrapUnchecked, setupVars,
   refVars, fileVars, ghostVars, Begin, InitializeCalled

\* The start of a clone keeps to the shared history.
LEMMA CloneNotebookOwn ==
    ASSUME TypeOK, NEW d \in Devices, Mine(d), CloneNotebook(d)
    PROVE  Own(d)' /\ Shared(d)
BY HistoriesAre, ConstantsAssumption DEF ConstantsAssumption, Histories, TypeOK, Mine,
   Own, Starting, Known, Fetched, Grown, Extends, NothingOf, Shared, CallPlace, Opened,
   Rebasing, Unborn, FirstCommit, FirstFetch, FirstPush, CloneNotebook, setupVars,
   refVars, fileVars, ghostVars, Begin

\* The cancellation of a clone keeps to the shared history.
LEMMA CloneCancelledOwn ==
    ASSUME TypeOK, NEW d \in Devices, Mine(d), CloneCancelled(d)
    PROVE  Own(d)' /\ Shared(d)
BY HistoriesAre, ConstantsAssumption DEF ConstantsAssumption, Histories, TypeOK, Mine,
   Own, Starting, Known, Fetched, Grown, Extends, NothingOf, Shared, CallPlace, Opened,
   Rebasing, Unborn, FirstCommit, FirstFetch, FirstPush, CloneCancelled, setupVars,
   refVars, fileVars, ghostVars, Return

\* The removal of a failed clone keeps to the shared history.
LEMMA DiscardCloneOwn ==
    ASSUME TypeOK, NEW d \in Devices, Mine(d), DiscardClone(d)
    PROVE  Own(d)' /\ Shared(d)
<1>h. Histories(d)
  BY HistoriesAre
<1>1. /\ repo'[d] = "none" /\ branch'[d] = <<>> /\ track'[d] = <<>> /\ work'[d] = Empty
      /\ pc[d] = "idle" /\ ~notebook[d]
      /\ UNCHANGED <<remote, notebook, enabled, detached, head, pc, op>>
  BY DEF DiscardClone, TypeOK, callVars
<1>2. \A f \in Files: Empty.notes[f] = {}
  BY DEF Empty
<1> QED
  BY <1>1, <1>2, <1>h DEF Histories, TypeOK, Mine, Own, Starting, Known, Fetched, Grown,
     Extends, NothingOf, Shared, CallPlace, Opened, Rebasing, Unborn, FirstCommit,
     FirstFetch, FirstPush

\* The end of the process keeps to the shared history.
LEMMA RestartOwn ==
    ASSUME TypeOK, NEW d \in Devices, Mine(d), Restart(d)
    PROVE  Own(d)' /\ Shared(d)
BY HistoriesAre, ConstantsAssumption DEF ConstantsAssumption, Histories, TypeOK, Mine,
   Own, Starting, Known, Fetched, Grown, Extends, NothingOf, Shared, CallPlace, Opened,
   Rebasing, Unborn, FirstCommit, FirstFetch, FirstPush, Restart, refVars, fileVars,
   ghostVars, Left

\* The start of a call keeps to the shared history.
LEMMA StartCallOwn ==
    ASSUME TypeOK, NEW d \in Devices, Mine(d), NEW o \in Calls, StartCall(d, o)
    PROVE  Own(d)' /\ Shared(d)
BY HistoriesAre, ConstantsAssumption DEF ConstantsAssumption, Histories, TypeOK, Mine,
   Own, Starting, Known, Fetched, Grown, Extends, NothingOf, Shared, CallPlace, Opened,
   Rebasing, Unborn, FirstCommit, FirstFetch, FirstPush, StartCall, setupVars, refVars,
   fileVars, ghostVars, Begin, FirstStep

\* The new repository keeps to the shared history.
LEMMA InitRepoOwn ==
    ASSUME TypeOK, NEW d \in Devices, Mine(d), InitRepo(d)
    PROVE  Own(d)' /\ Shared(d)
BY HistoriesAre, ConstantsAssumption DEF ConstantsAssumption, Histories, TypeOK, Mine,
   Own, Starting, Known, Fetched, Grown, Extends, NothingOf, Shared, CallPlace, Opened,
   Rebasing, Unborn, FirstCommit, FirstFetch, FirstPush, InitRepo, refVars, fileVars,
   ghostVars, Goto

\* Its origin keeps to the shared history.
LEMMA AddOriginOwn ==
    ASSUME TypeOK, NEW d \in Devices, Mine(d), AddOrigin(d)
    PROVE  Own(d)' /\ Shared(d)
BY HistoriesAre, ConstantsAssumption DEF ConstantsAssumption, Histories, TypeOK, Mine,
   Own, Starting, Known, Fetched, Grown, Extends, NothingOf, Shared, CallPlace, Opened,
   Rebasing, Unborn, FirstCommit, FirstFetch, FirstPush, AddOrigin, refVars, fileVars,
   ghostVars, Goto

\* The opening of a clone keeps to the shared history.
LEMMA OpenCloneOwn ==
    ASSUME TypeOK, NEW d \in Devices, Mine(d), OpenClone(d)
    PROVE  Own(d)' /\ Shared(d)
<1>h. Histories(d)
  BY HistoriesAre
<1>1. /\ pc[d] = "openClone" /\ pc'[d] = "idle" /\ op' = op
      /\ notebook'[d] = TRUE \/ notebook' = notebook
      /\ UNCHANGED <<remote, repo, enabled, refVars, todo, fileVars>>
  BY DEF OpenClone, Return, TypeOK
<1> QED
  BY <1>1, <1>h DEF Histories, refVars, fileVars, TypeOK, Mine, Own, Starting, Known,
     Fetched, Grown, Extends, NothingOf, Shared, CallPlace, Opened, Rebasing, Unborn,
     FirstCommit, FirstFetch, FirstPush

\* An empty remote keeps to the shared history.
LEMMA NothingToCheckOutOwn ==
    ASSUME TypeOK, NEW d \in Devices, Mine(d), NothingToCheckOut(d)
    PROVE  Own(d)' /\ Shared(d)
<1>h. Histories(d)
  BY HistoriesAre
<1>1. /\ pc[d] = "checkout" /\ pc'[d] \in {"idle", "openClone"} /\ op' = op
      /\ enabled' = enabled \/ op[d] # "clone"
      /\ UNCHANGED <<remote, notebook, repo, refVars, todo, fileVars>>
  BY DEF NothingToCheckOut, Bootstrapped, Goto, Return, TypeOK
<1>x. Known(d)' /\ Shared(d)
  BY <1>1, <1>h DEF Histories, refVars, fileVars, Mine, Own, Known, Grown, Shared,
     Extends
<1>y. Starting(d)'
  BY <1>1, <1>h DEF Histories, refVars, fileVars, Mine, Own, Starting, CallPlace,
     Opened, Unborn, FirstCommit, FirstFetch, FirstPush, NothingOf
<1>z. Fetched(d)'
  BY <1>1, <1>h DEF Histories, refVars, fileVars, Mine, Own, Starting, Fetched,
     CallPlace, FirstPush, NothingOf, Extends
<1> QED
  BY <1>x, <1>y, <1>z DEF Own

\* A refused first checkout keeps to the shared history.
LEMMA FirstCheckoutRefusedOwn ==
    ASSUME TypeOK, NEW d \in Devices, Mine(d), FirstCheckoutRefused(d)
    PROVE  Own(d)' /\ Shared(d)
BY HistoriesAre, ConstantsAssumption DEF ConstantsAssumption, Histories, TypeOK, Mine,
   Own, Starting, Known, Fetched, Grown, Extends, NothingOf, Shared, CallPlace, Opened,
   Rebasing, Unborn, FirstCommit, FirstFetch, FirstPush, FirstCheckoutRefused,
   setupVars, refVars, fileVars, ghostVars, Return, FirstObstructed

\* The first checkout keeps to the shared history.
LEMMA FirstCheckoutOwn ==
    ASSUME TypeOK, NEW d \in Devices, Mine(d), FirstCheckout(d)
    PROVE  Own(d)' /\ Shared(d)
BY HistoriesAre, ConstantsAssumption DEF ConstantsAssumption, Histories, TypeOK, Mine,
   Own, Starting, Known, Fetched, Grown, Extends, NothingOf, Shared, CallPlace, Opened,
   Rebasing, Unborn, FirstCommit, FirstFetch, FirstPush, FirstCheckout, setupVars,
   refVars, ghostVars, Goto, FirstObstructed

\* The first ref keeps to the shared history.
LEMMA FirstRefOwn ==
    ASSUME TypeOK, NEW d \in Devices, Mine(d), FirstRef(d)
    PROVE  Own(d)' /\ Shared(d)
<1>h. Histories(d)
  BY HistoriesAre
<1>1. /\ pc[d] = "initRef" /\ pc'[d] \in {"idle", "openClone"} /\ op' = op
      /\ branch'[d] = track[d]
      /\ enabled' = enabled \/ op[d] # "clone"
      /\ UNCHANGED <<remote, notebook, repo, track, detached, head, todo, fileVars>>
  BY DEF FirstRef, Bootstrapped, Goto, Return, TypeOK
<1>2. ~notebook[d] => NothingOf(track[d], d)
  BY <1>h DEF Histories, Mine, Own, Starting, Known, Extends, NothingOf
<1>3. ~detached[d]
  BY <1>1 DEF Mine, Own, Starting, FirstFetch, CallPlace
<1>x. Known(d)' /\ Shared(d)
  BY <1>1, <1>3, <1>h DEF Histories, fileVars, Mine, Own, Known, Grown, Shared, Extends
<1>y. Starting(d)'
  BY <1>1, <1>2, <1>3, <1>h DEF Histories, fileVars, Mine, Own, Starting, CallPlace,
     Opened, Unborn, FirstCommit, FirstFetch, FirstPush, NothingOf
<1>z. Fetched(d)'
  BY <1>1, <1>h DEF Histories, fileVars, Mine, Own, Starting, Fetched, CallPlace,
     FirstPush, NothingOf, Extends
<1> QED
  BY <1>x, <1>y, <1>z DEF Own

\* StageAll keeps to the shared history.
LEMMA StageAllOwn ==
    ASSUME TypeOK, NEW d \in Devices, Mine(d), StageAll(d)
    PROVE  Own(d)' /\ Shared(d)
BY HistoriesAre, ConstantsAssumption DEF ConstantsAssumption, Histories, TypeOK, Mine,
   Own, Starting, Known, Fetched, Grown, Extends, NothingOf, Shared, CallPlace, Opened,
   Rebasing, Unborn, FirstCommit, FirstFetch, FirstPush, StageAll, setupVars, refVars,
   ghostVars, Goto

\* A commit keeps to the shared history.
LEMMA CommitIndexOwn ==
    ASSUME TypeOK, NEW d \in Devices, Mine(d), CommitIndex(d)
    PROVE  Own(d)' /\ Shared(d)
<1>h. Histories(d)
  BY HistoriesAre
<1> DEFINE h == IF NothingToCommit(d) THEN HeadHistory(d)
                ELSE NewCommit(HeadHistory(d), index[d], d)
<1>1. /\ op[d] = "stage" => pc'[d] = "idle"
      /\ op[d] = "init" => pc'[d] = "push"
      /\ op[d] \notin {"stage", "init"} => pc'[d] = "fetch"
      /\ op' = op /\ pc[d] = "commit"
      /\ UNCHANGED <<remote, setupVars, track, detached, todo, fileVars>>
  BY DEF CommitIndex, Goto, Return, TypeOK
<1>2. /\ detached[d] => head' = [head EXCEPT ![d] = h] /\ branch' = branch
      /\ ~detached[d] => branch' = [branch EXCEPT ![d] = h] /\ head' = head
  BY DEF CommitIndex
<1>3. HeadHistory(d) \in Seq(Commit) /\ (detached[d] => HeadHistory(d) = head[d])
      /\ (~detached[d] => HeadHistory(d) = branch[d]) /\ Grown(HeadHistory(d), d)
  BY <1>h DEF Histories, HeadHistory, Mine, Own, Known
<1>4. h \in Seq(Commit) /\ Grown(h, d)
  <2>1. CASE NothingToCommit(d)
    BY <1>3, <2>1
  <2>2. CASE ~NothingToCommit(d)
    <3>1. h = NewCommit(HeadHistory(d), index[d], d) /\ index[d] \in Tree
      BY <2>2 DEF TypeOK
    <3>2. OwnMore(h, HeadHistory(d), d)
      BY <1>3, <3>1, CommitIsOwn
    <3> HIDE DEF h
    <3> QED
      BY <1>3, <3>2, GrownByOwn DEF OwnMore
  <2> QED
    BY <2>1, <2>2
<1>5. head'[d] \in Seq(Commit) /\ branch'[d] \in Seq(Commit)
      /\ (detached[d] => Grown(head'[d], d)) /\ Grown(branch'[d], d)
  BY <1>2, <1>3, <1>4, <1>h DEF Histories, TypeOK, Mine, Own, Known
<1> HIDE DEF h
<1>6. Known(d)' /\ Shared(d)
  BY <1>1, <1>5, <1>h DEF Histories, Mine, Own, Known, Grown, Shared, Extends
<1>7. Starting(d)'
  BY <1>1 DEF setupVars, fileVars, Mine, Own, Starting, CallPlace, Opened, Unborn,
     FirstCommit, FirstFetch, FirstPush, NothingOf
<1>8. Fetched(d)'
  BY <1>1, <1>h DEF Histories, setupVars, fileVars, Mine, Own, Starting, Fetched,
     CallPlace, FirstCommit, NothingOf, Extends
<1> QED
  BY <1>6, <1>7, <1>8 DEF Own

\* A fetch keeps to the shared history.
LEMMA FetchOriginOwn ==
    ASSUME TypeOK, NEW d \in Devices, Mine(d), FetchOrigin(d)
    PROVE  Own(d)' /\ Shared(d)
BY HistoriesAre, ConstantsAssumption DEF ConstantsAssumption, Histories, TypeOK, Mine,
   Own, Starting, Known, Fetched, Grown, Extends, NothingOf, Shared, CallPlace, Opened,
   Rebasing, Unborn, FirstCommit, FirstFetch, FirstPush, FetchOrigin, setupVars,
   fileVars, ghostVars, Goto

\* A failed fetch keeps to the shared history.
LEMMA FetchFailsOwn ==
    ASSUME TypeOK, NEW d \in Devices, Mine(d), FetchFails(d)
    PROVE  Own(d)' /\ Shared(d)
BY HistoriesAre, ConstantsAssumption DEF ConstantsAssumption, Histories, TypeOK, Mine,
   Own, Starting, Known, Fetched, Grown, Extends, NothingOf, Shared, CallPlace, Opened,
   Rebasing, Unborn, FirstCommit, FirstFetch, FirstPush, FetchFails, setupVars, refVars,
   fileVars, ghostVars, Return

\* A rebase that has nothing to do keeps to the shared history.
LEMMA SkipRebaseOwn ==
    ASSUME TypeOK, NEW d \in Devices, Mine(d), SkipRebase(d)
    PROVE  Own(d)' /\ Shared(d)
<1>h. Histories(d)
  BY HistoriesAre
<1>1. /\ pc[d] = "rebase" /\ pc'[d] = "push" /\ op' = op
      /\ UNCHANGED <<remote, setupVars, refVars, todo, fileVars>>
  BY DEF SkipRebase, Goto, TypeOK
<1>2. branch[d] = <<>> \/ detached[d] \/ Extends(branch[d], track[d])
  BY <1>h, PrefixMeans DEF Histories, SkipRebase
<1>3. pc'[d] = "push" /\ ~detached'[d] /\ branch'[d] # <<>> => Extends(branch'[d], track'[d])
  BY <1>1, <1>2 DEF refVars
<1>x. Known(d)' /\ Shared(d)
  BY <1>1, <1>h DEF Histories, refVars, Mine, Own, Known, Grown, Shared, Extends
<1>y. Starting(d)'
  BY <1>1, <1>h DEF Histories, setupVars, refVars, fileVars, Mine, Own, Starting,
     CallPlace, Opened, Unborn, FirstCommit, FirstFetch, FirstPush, NothingOf
<1>z. Fetched(d)'
  BY <1>1, <1>3 DEF refVars, Mine, Own, Fetched
<1> QED
  BY <1>x, <1>y, <1>z DEF Own

\* The checkout of a fast-forward keeps to the shared history.
LEMMA FastForwardCheckoutOwn ==
    ASSUME TypeOK, NEW d \in Devices, Mine(d), FastForwardCheckout(d)
    PROVE  Own(d)' /\ Shared(d)
<1>h. Histories(d)
  BY HistoriesAre
<1>1. /\ pc[d] = "rebase" /\ pc'[d] = "ffRef" /\ op' = op /\ ~detached[d]
      /\ branch[d] # <<>>
      /\ UNCHANGED <<remote, setupVars, refVars, todo>>
  BY DEF FastForwardCheckout, Goto, TypeOK, RemoteAhead
<1>x. Known(d)' /\ Shared(d)
  BY <1>1, <1>h DEF Histories, refVars, Mine, Own, Known, Grown, Shared, Extends
<1>y. Starting(d)'
  BY <1>1, <1>h DEF Histories, setupVars, refVars, Mine, Own, Starting, CallPlace, Opened,
     Unborn, FirstCommit, FirstFetch, FirstPush, NothingOf
<1>z. Fetched(d)'
  BY <1>1 DEF refVars, Mine, Own, Fetched
<1> QED
  BY <1>x, <1>y, <1>z DEF Own

\* The ref of a fast-forward keeps to the shared history.
LEMMA FastForwardRefOwn ==
    ASSUME TypeOK, NEW d \in Devices, Mine(d), FastForwardRef(d)
    PROVE  Own(d)' /\ Shared(d)
BY HistoriesAre, ConstantsAssumption DEF ConstantsAssumption, Histories, TypeOK, Mine,
   Own, Starting, Known, Fetched, Grown, Extends, NothingOf, Shared, CallPlace, Opened,
   Rebasing, Unborn, FirstCommit, FirstFetch, FirstPush, FastForwardRef, setupVars,
   fileVars, ghostVars, Goto

\* The start of a rebase keeps to the shared history.
LEMMA RebaseInitOwn ==
    ASSUME TypeOK, NEW d \in Devices, Mine(d), RebaseInit(d)
    PROVE  Own(d)' /\ Shared(d)
BY HistoriesAre, ConstantsAssumption DEF ConstantsAssumption, Histories, TypeOK, Mine,
   Own, Starting, Known, Fetched, Grown, Extends, NothingOf, Shared, CallPlace, Opened,
   Rebasing, Unborn, FirstCommit, FirstFetch, FirstPush, RebaseInit, setupVars,
   ghostVars, Goto, Diverged, RemoteAhead

\* A refused rebase keeps to the shared history.
LEMMA RebaseRefusedOwn ==
    ASSUME TypeOK, NEW d \in Devices, Mine(d), RebaseRefused(d)
    PROVE  Own(d)' /\ Shared(d)
<1>h. Histories(d)
  BY HistoriesAre
<1>1. /\ pc[d] = "rebase" /\ pc'[d] = "idle" /\ op' = op
      /\ UNCHANGED <<remote, setupVars, refVars, todo, fileVars>>
  BY DEF RebaseRefused, Return, TypeOK
<1> QED
  BY <1>1, <1>h DEF Histories, setupVars, refVars, fileVars, TypeOK, Mine, Own,
     Starting, Known, Fetched, Grown, Extends, NothingOf, Shared, CallPlace, Opened,
     Rebasing, Unborn, FirstCommit, FirstFetch, FirstPush

\* A replay that would overwrite a change keeps to the shared history.
LEMMA ReplayObstructedOwn ==
    ASSUME TypeOK, NEW d \in Devices, Mine(d), ReplayObstructed(d)
    PROVE  Own(d)' /\ Shared(d)
BY HistoriesAre, ConstantsAssumption DEF ConstantsAssumption, Histories, TypeOK, Mine,
   Own, Starting, Known, Fetched, Grown, Extends, NothingOf, Shared, CallPlace, Opened,
   Rebasing, Unborn, FirstCommit, FirstFetch, FirstPush, ReplayObstructed, setupVars,
   refVars, fileVars, ghostVars, Return, StepTree, Ours, Replaying

\* A replay that stops at a conflict keeps to the shared history.
LEMMA ReplayConflictOwn ==
    ASSUME TypeOK, NEW d \in Devices, Mine(d), ReplayConflict(d)
    PROVE  Own(d)' /\ Shared(d)
BY HistoriesAre, ConstantsAssumption DEF ConstantsAssumption, Histories, TypeOK, Mine,
   Own, Starting, Known, Fetched, Grown, Extends, NothingOf, Shared, CallPlace, Opened,
   Rebasing, Unborn, FirstCommit, FirstFetch, FirstPush, ReplayConflict, setupVars,
   refVars, ghostVars, Return, StepTree, Ours, StepConflicts, Replaying

\* A replayed patch keeps to the shared history.
LEMMA ReplayCommitOwn ==
    ASSUME TypeOK, NEW d \in Devices, Mine(d), ReplayCommit(d)
    PROVE  Own(d)' /\ Shared(d)
<1>h. Histories(d)
  BY HistoriesAre
<1>1. /\ pc[d] = "replay" /\ pc'[d] \in {"idle", "replay"} /\ op' = op
      /\ head' = head \/ head' = [head EXCEPT ![d] = NewCommit(head[d], StepTree(d), d)]
      /\ UNCHANGED <<remote, setupVars, branch, track, detached, conflicts>>
  BY DEF ReplayCommit, Replaying, Goto, Return, TypeOK
<1>2. StepTree(d) \in Tree
  <2>1. todo[d] # <<>> /\ todo[d] \in Seq(Patch)
    BY DEF TypeOK, ReplayCommit, Replaying
  <2> QED
    BY <1>h, <2>1, TipIsTree, MergedIsTree DEF Histories, StepTree, Ours
<1>3. OwnMore(head'[d], head[d], d) /\ head[d] \in Seq(Commit)
  <2>1. head[d] \in Seq(Commit)
    BY <1>h DEF Histories
  <2>2. head' = head => OwnMore(head'[d], head[d], d)
    BY <2>1, NoneIsOwn
  <2>3. head' = [head EXCEPT ![d] = NewCommit(head[d], StepTree(d), d)] =>
           head'[d] = NewCommit(head[d], StepTree(d), d)
    BY DEF TypeOK
  <2>4. OwnMore(NewCommit(head[d], StepTree(d), d), head[d], d)
    BY <2>1, <1>2, CommitIsOwn
  <2> QED
    BY <1>1, <2>1, <2>2, <2>3, <2>4
<1>4. detached[d]
  BY <1>1 DEF Mine, Rebasing
<1>g. Grown(head'[d], d)
  BY <1>3, <1>4, <1>h, GrownByOwn DEF Histories, Mine, Own, Known
<1>5. Known(d)' /\ Shared(d)
  <2>1. track' = track /\ branch' = branch /\ remote' = remote
    BY <1>1
  <2>2. Shared(d)
    BY <2>1, <1>h DEF Histories, Shared, Extends
  <2> QED
    BY <2>1, <2>2, <1>g DEF Mine, Own, Known, Grown, Extends
<1>6. Starting(d)'
  BY <1>1, <1>4 DEF setupVars, Mine, Own, Starting, CallPlace, Opened, Unborn,
     FirstCommit, FirstFetch, FirstPush, NothingOf
<1>7. Fetched(d)'
  BY <1>1, <1>3, <1>h DEF OwnMore, Histories, Mine, Own, Fetched, Extends
<1> QED
  BY <1>5, <1>6, <1>7 DEF Own

\* The end of a rebase keeps to the shared history.
LEMMA FinishRebaseOwn ==
    ASSUME TypeOK, NEW d \in Devices, Mine(d), FinishRebase(d)
    PROVE  Own(d)' /\ Shared(d)
<1>h. Histories(d)
  BY HistoriesAre
<1>1. /\ pc[d] = "replay" /\ op' = op
      /\ op[d] = "resolve" => pc'[d] = "idle"
      /\ op[d] # "resolve" => pc'[d] = "push"
      /\ branch'[d] = head[d] /\ ~detached'[d]
      /\ UNCHANGED <<remote, setupVars, track, todo, fileVars>>
  BY DEF FinishRebase, Goto, Return, TypeOK
<1>2. detached[d] /\ notebook[d]
  BY <1>1 DEF Mine, Rebasing, Own, Starting
<1>3. Known(d)' /\ Shared(d)
  BY <1>1, <1>2, <1>h DEF Histories, Mine, Own, Known, Grown, Shared, Extends
<1>4. Starting(d)'
  BY <1>1, <1>2 DEF setupVars, Mine, Own, Starting, CallPlace, Opened, Unborn,
     FirstCommit, FirstFetch, FirstPush, NothingOf
<1>5. Fetched(d)'
  BY <1>1, <1>h DEF Histories, Mine, Own, Fetched, Extends
<1> QED
  BY <1>3, <1>4, <1>5 DEF Own

\* A push of no branch keeps to the shared history.
LEMMA PushWithoutBranchOwn ==
    ASSUME TypeOK, NEW d \in Devices, Mine(d), PushWithoutBranch(d)
    PROVE  Own(d)' /\ Shared(d)
BY HistoriesAre, ConstantsAssumption DEF ConstantsAssumption, Histories, TypeOK, Mine,
   Own, Starting, Known, Fetched, Grown, Extends, NothingOf, Shared, CallPlace, Opened,
   Rebasing, Unborn, FirstCommit, FirstFetch, FirstPush, PushWithoutBranch, setupVars,
   refVars, fileVars, ghostVars, Return, HasBranch

\* A push the server accepts is one of a device that knows all there is.
LEMMA PushKnowsRemote ==
    ASSUME TypeOK, NEW d \in Devices, Mine(d), pc[d] = "push", HasBranch(d), FastForward(d)
    PROVE  remote = track[d] /\ Extends(branch[d], remote)
<1>h. Histories(d)
  BY HistoriesAre
<1>1. Extends(branch[d], remote)
  BY <1>h, PrefixMeans DEF Histories, FastForward, PushedRef
<1>2. Len(remote) = Len(track[d])
  BY <1>h, <1>1 DEF Histories, HasBranch, Mine, Own, Known, Fetched, Grown, Extends
<1> QED
  BY <1>h, <1>1, <1>2, SeqEqual DEF Histories, Mine, Own, Known, Extends

\* An accepted push keeps to the shared history.
LEMMA PushOriginOwn ==
    ASSUME TypeOK, NEW d \in Devices, Mine(d), PushOrigin(d)
    PROVE  Own(d)' /\ Shared(d)
<1>h. Histories(d)
  BY HistoriesAre
<1>1. /\ pc[d] = "push" /\ pc'[d] = "idle" /\ op' = op /\ ~detached[d]
      /\ remote = track[d] /\ Extends(branch[d], remote)
      /\ remote' = branch[d] /\ track'[d] = branch[d]
      /\ UNCHANGED <<notebook, repo, branch, detached, head, todo, fileVars>>
  BY PushKnowsRemote DEF PushOrigin, Return, TypeOK, HasBranch, PushedRef
<1>2. notebook[d] /\ repo[d] # "none"
  BY <1>1 DEF Mine, Own, Starting, CallPlace, Opened
<1>3. \A i \in Len(remote) + 1 .. Len(branch[d]): branch[d][i].by = d
  BY <1>1, <1>h DEF Histories, Mine, Own, Known, Grown
<1> QED
  BY <1>1, <1>2, <1>3, <1>h DEF Histories, fileVars, TypeOK, Mine, Own, Starting, Known,
     Fetched, Grown, Extends, NothingOf, Shared, CallPlace, Opened, Rebasing, Unborn,
     FirstCommit, FirstFetch, FirstPush

\* A rejected push keeps to the shared history.
LEMMA PushRejectedOwn ==
    ASSUME TypeOK, NEW d \in Devices, Mine(d), PushRejected(d)
    PROVE  Own(d)' /\ Shared(d)
<1>h. Histories(d)
  BY HistoriesAre
<1>1. /\ pc[d] = "push" /\ pc'[d] \in {"idle", "fetch"} /\ op' = op
      /\ pc'[d] = "fetch" => op[d] # "init"
      /\ UNCHANGED <<remote, setupVars, refVars, todo, fileVars>>
  BY DEF PushRejected, Retry, Return, TypeOK
<1>x. Known(d)' /\ Shared(d)
  BY <1>1, <1>h DEF Histories, setupVars, refVars, fileVars, Mine, Own, Known, Grown,
     Shared, Extends
<1>y. Starting(d)'
  BY <1>1, <1>h DEF Histories, setupVars, refVars, fileVars, Mine, Own, Starting,
     CallPlace, Opened, Unborn, FirstCommit, FirstFetch, FirstPush, NothingOf
<1>z. Fetched(d)'
  BY <1>1, <1>h DEF Histories, setupVars, refVars, fileVars, Mine, Own, Starting,
     Fetched, CallPlace, FirstPush, NothingOf, Extends
<1> QED
  BY <1>x, <1>y, <1>z DEF Own

\* A push whose connection breaks keeps to the shared history.
LEMMA PushFailsOwn ==
    ASSUME TypeOK, NEW d \in Devices, Mine(d), PushFails(d)
    PROVE  Own(d)' /\ Shared(d)
<1>h. Histories(d)
  BY HistoriesAre
<1>1. /\ pc[d] = "push" /\ pc'[d] \in {"idle", "fetch"} /\ op' = op /\ ~detached[d]
      /\ pc'[d] = "fetch" => op[d] # "init"
      /\ \/ remote' = remote
         \/ remote = track[d] /\ Extends(branch[d], remote) /\ remote' = branch[d]
      /\ UNCHANGED <<setupVars, refVars, todo, fileVars>>
  BY PushKnowsRemote DEF PushFails, Retry, Return, TypeOK, HasBranch, PushedRef
<1>2. notebook[d] /\ repo[d] # "none"
  BY <1>1 DEF Mine, Own, Starting, CallPlace, Opened
<1>3. remote' # remote => \A i \in Len(remote) + 1 .. Len(branch[d]): branch[d][i].by = d
  BY <1>1, <1>h DEF Histories, Mine, Own, Known, Grown
<1>x. Extends(remote', track[d]) /\ Shared(d)
  <2>1. CASE remote' = remote
    BY <2>1, <1>h DEF Histories, Mine, Own, Known, Shared, Extends
  <2>2. CASE remote' # remote
    <3>1. remote = track[d] /\ Extends(branch[d], remote) /\ remote' = branch[d]
      BY <1>1, <2>2
    <3> QED
      BY <3>1, <1>3, <2>2 DEF Shared
  <2> QED
    BY <2>1, <2>2
<1>w. Known(d)'
  BY <1>1, <1>x DEF refVars, Mine, Own, Known, Grown
<1>y. Starting(d)'
  BY <1>1, <1>2, <1>h DEF Histories, setupVars, refVars, fileVars, Mine, Own, Starting,
     CallPlace, Opened, Unborn, FirstCommit, FirstFetch, FirstPush, NothingOf
<1>z. Fetched(d)'
  BY <1>1, <1>h DEF Histories, setupVars, refVars, fileVars, Mine, Own, Starting,
     Fetched, CallPlace, FirstPush, NothingOf, Extends
<1> QED
  BY <1>x, <1>w, <1>y, <1>z DEF Own

\* A resolution keeps to the shared history.
LEMMA ResolveConflictOwn ==
    ASSUME TypeOK, NEW d \in Devices, Mine(d), NEW f \in Files, NEW r \in Resolutions,
           ResolveConflict(d, f, r)
    PROVE  Own(d)' /\ Shared(d)
<1>h. Histories(d)
  BY HistoriesAre
<1>1. /\ pc[d] = "idle" /\ pc'[d] \in {"idle", "replay"} /\ op'[d] = "resolve" /\ enabled[d]
      /\ detached[d] /\ todo[d] # <<>>
      /\ head' = head \/ head' = [head EXCEPT ![d] = NewCommit(head[d], index'[d], d)]
      /\ UNCHANGED <<remote, setupVars, branch, track, detached>>
  BY DEF ResolveConflict, TypeOK, Mine, Rebasing
<1>2. index'[d] \in Tree
  <2>1. TypeOK'
    BY ResolveConflictTypes
  <2> QED
    BY <2>1 DEF TypeOK
<1>3. OwnMore(head'[d], head[d], d) /\ head[d] \in Seq(Commit)
  <2>1. head[d] \in Seq(Commit)
    BY <1>h DEF Histories
  <2>2. head' = head => OwnMore(head'[d], head[d], d)
    BY <2>1, NoneIsOwn
  <2>3. head' = [head EXCEPT ![d] = NewCommit(head[d], index'[d], d)] =>
           head'[d] = NewCommit(head[d], index'[d], d)
    BY DEF TypeOK
  <2>4. OwnMore(NewCommit(head[d], index'[d], d), head[d], d)
    BY <2>1, <1>2, CommitIsOwn
  <2> QED
    BY <1>1, <2>1, <2>2, <2>3, <2>4
<1>g. Grown(head'[d], d)
  BY <1>1, <1>3, <1>h, GrownByOwn DEF Histories, Mine, Own, Known
<1>5. Known(d)' /\ Shared(d)
  <2>1. track' = track /\ branch' = branch /\ remote' = remote
    BY <1>1
  <2>2. Shared(d)
    BY <2>1, <1>h DEF Histories, Shared, Extends
  <2> QED
    BY <2>1, <2>2, <1>g DEF Mine, Own, Known, Grown, Extends
<1>6. Starting(d)'
  BY <1>1 DEF setupVars, Mine, Own, Starting, CallPlace, Opened, Unborn, FirstCommit,
     FirstFetch, FirstPush, NothingOf
<1>7. Fetched(d)'
  BY <1>1, <1>3, <1>h DEF OwnMore, Histories, Mine, Own, Fetched, Extends
<1> QED
  BY <1>5, <1>6, <1>7 DEF Own

\* A resolution of no conflict keeps to the shared history.
LEMMA ResolveNothingOwn ==
    ASSUME TypeOK, NEW d \in Devices, Mine(d), NEW f \in Files, ResolveNothing(d, f)
    PROVE  Own(d)' /\ Shared(d)
BY HistoriesAre, ConstantsAssumption DEF ConstantsAssumption, Histories, TypeOK, Mine,
   Own, Starting, Known, Fetched, Grown, Extends, NothingOf, Shared, CallPlace, Opened,
   Rebasing, Unborn, FirstCommit, FirstFetch, FirstPush, ResolveNothing, setupVars,
   refVars, fileVars, ghostVars

-----------------------------------------------------------------------------
(* The invariant holds *)

\* What a step of d gives.
Kept(d) == TypeOK' /\ Apart(d) /\ Shared(d) /\ Mine(d)'

\* Initialize keeps the invariant.
LEMMA EnableStep ==
    ASSUME TypeOK, NEW d \in Devices, Mine(d), Enable(d)
    PROVE  Kept(d)
<1> USE DEF Kept, Mine
<1>1. CASE InitializeRefused(d)
  BY <1>1, InitializeRefusedTypes, InitializeRefusedOrder, InitializeRefusedOwn
<1>2. CASE OpenExistingRepo(d)
  BY <1>2, OpenExistingRepoTypes, OpenExistingRepoOrder, OpenExistingRepoOwn
<1>3. CASE Bootstrap(d)
  BY <1>3, BootstrapTypes, BootstrapOrder, BootstrapOwn
<1>4. CASE BootstrapUnchecked(d)
  BY <1>4, BootstrapUncheckedTypes, BootstrapUncheckedOrder, BootstrapUncheckedOwn
<1> QED
  BY <1>1, <1>2, <1>3, <1>4 DEF Enable

\* The steps of a call under way keep it.
LEMMA ContinueStep ==
    ASSUME TypeOK, NEW d \in Devices, Mine(d), Continue(d)
    PROVE  Kept(d)
<1> USE DEF Kept, Mine
<1>1. CASE InitRepo(d)
  BY <1>1, InitRepoTypes, InitRepoOrder, InitRepoOwn
<1>2. CASE AddOrigin(d)
  BY <1>2, AddOriginTypes, AddOriginOrder, AddOriginOwn
<1>3. CASE OpenClone(d)
  BY <1>3, OpenCloneTypes, OpenCloneOrder, OpenCloneOwn
<1>4. CASE NothingToCheckOut(d)
  BY <1>4, NothingToCheckOutTypes, NothingToCheckOutOrder, NothingToCheckOutOwn
<1>5. CASE FirstCheckoutRefused(d)
  BY <1>5, FirstCheckoutRefusedTypes, FirstCheckoutRefusedOrder, FirstCheckoutRefusedOwn
<1>6. CASE FirstCheckout(d)
  BY <1>6, FirstCheckoutTypes, FirstCheckoutOrder, FirstCheckoutOwn
<1>7. CASE FirstRef(d)
  BY <1>7, FirstRefTypes, FirstRefOrder, FirstRefOwn
<1>8. CASE StageAll(d)
  BY <1>8, StageAllTypes, StageAllOrder, StageAllOwn
<1>9. CASE CommitIndex(d)
  BY <1>9, CommitIndexTypes, CommitIndexOrder, CommitIndexOwn
<1>10. CASE FetchOrigin(d)
  BY <1>10, FetchOriginTypes, FetchOriginOrder, FetchOriginOwn
<1>11. CASE FetchFails(d)
  BY <1>11, FetchFailsTypes, FetchFailsOrder, FetchFailsOwn
<1>12. CASE SkipRebase(d)
  BY <1>12, SkipRebaseTypes, SkipRebaseOrder, SkipRebaseOwn
<1>13. CASE FastForwardCheckout(d)
  BY <1>13, FastForwardCheckoutTypes, FastForwardCheckoutOrder, FastForwardCheckoutOwn
<1>14. CASE FastForwardRef(d)
  BY <1>14, FastForwardRefTypes, FastForwardRefOrder, FastForwardRefOwn
<1>15. CASE RebaseInit(d)
  BY <1>15, RebaseInitTypes, RebaseInitOrder, RebaseInitOwn
<1>16. CASE RebaseRefused(d)
  BY <1>16, RebaseRefusedTypes, RebaseRefusedOrder, RebaseRefusedOwn
<1>17. CASE ReplayObstructed(d)
  BY <1>17, ReplayObstructedTypes, ReplayObstructedOrder, ReplayObstructedOwn
<1>18. CASE ReplayConflict(d)
  BY <1>18, ReplayConflictTypes, ReplayConflictOrder, ReplayConflictOwn
<1>19. CASE ReplayCommit(d)
  BY <1>19, ReplayCommitTypes, ReplayCommitOrder, ReplayCommitOwn
<1>20. CASE FinishRebase(d)
  BY <1>20, FinishRebaseTypes, FinishRebaseOrder, FinishRebaseOwn
<1>21. CASE PushWithoutBranch(d)
  BY <1>21, PushWithoutBranchTypes, PushWithoutBranchOrder, PushWithoutBranchOwn
<1>22. CASE PushOrigin(d)
  BY <1>22, PushOriginTypes, PushOriginOrder, PushOriginOwn
<1>23. CASE PushRejected(d)
  BY <1>23, PushRejectedTypes, PushRejectedOrder, PushRejectedOwn
<1>24. CASE PushFails(d)
  BY <1>24, PushFailsTypes, PushFailsOrder, PushFailsOwn
<1> QED
  BY <1>1, <1>2, <1>3, <1>4, <1>5, <1>6, <1>7, <1>8, <1>9, <1>10, <1>11, <1>12, <1>13,
     <1>14, <1>15, <1>16, <1>17, <1>18, <1>19, <1>20, <1>21, <1>22, <1>23, <1>24 DEF
     Continue

\* One device takes a step.
Step(d) ==
    \/ \E f \in Files, e \in Edits: SaveFile(d, f, e)
    \/ \E e \in Edits: CreateNotebook(d, e)
    \/ Enable(d) \/ CloneNotebook(d) \/ CloneCancelled(d) \/ DiscardClone(d)
    \/ Restart(d)
    \/ Call(d) \/ Continue(d) \/ Settle(d)
    \/ \E f \in Files: ResolveNothing(d, f)

\* Every step of a device keeps it.
LEMMA DeviceStep ==
    ASSUME TypeOK, NEW d \in Devices, Mine(d), Step(d)
    PROVE  Kept(d)
<1> USE DEF Kept, Mine
<1>1. ASSUME NEW f \in Files, NEW e \in Edits, SaveFile(d, f, e) PROVE Kept(d)
  BY <1>1, SaveFileTypes, SaveFileOrder, SaveFileOwn
<1>2. ASSUME NEW e \in Edits, CreateNotebook(d, e) PROVE Kept(d)
  BY <1>2, CreateNotebookTypes, CreateNotebookOrder, CreateNotebookOwn
<1>3. CASE CloneNotebook(d)
  BY <1>3, CloneNotebookTypes, CloneNotebookOrder, CloneNotebookOwn
<1>4. CASE CloneCancelled(d)
  BY <1>4, CloneCancelledTypes, CloneCancelledOrder, CloneCancelledOwn
<1>5. CASE DiscardClone(d)
  BY <1>5, DiscardCloneTypes, DiscardCloneOrder, DiscardCloneOwn
<1>6. CASE Restart(d)
  BY <1>6, RestartTypes, RestartOrder, RestartOwn
<1>7. ASSUME NEW o \in Calls, StartCall(d, o) PROVE Kept(d)
  BY <1>7, StartCallTypes, StartCallOrder, StartCallOwn
<1>8. ASSUME NEW f \in Files, NEW r \in Resolutions, ResolveConflict(d, f, r) PROVE Kept(d)
  BY <1>8, ResolveConflictTypes, ResolveConflictOrder, ResolveConflictOwn
<1>9. ASSUME NEW f \in Files, ResolveNothing(d, f) PROVE Kept(d)
  BY <1>9, ResolveNothingTypes, ResolveNothingOrder, ResolveNothingOwn
<1>10. CASE Enable(d)
  BY <1>10, EnableStep
<1>11. CASE Continue(d)
  BY <1>11, ContinueStep
<1> QED
  BY <1>1, <1>2, <1>3, <1>4, <1>5, <1>6, <1>7, <1>8, <1>9, <1>10, <1>11 DEF Step, Call,
     Settle

\* A device that takes a step keeps its own part, and leaves the others theirs.
LEMMA InvariantStep == IInv /\ [Next]_vars => IInv'
<1> SUFFICES ASSUME IInv, [Next]_vars PROVE IInv'
  OBVIOUS
<1>1. CASE UNCHANGED vars
  BY <1>1 DEF vars, IInv, TypeOK, Mine, CallPlace, Opened, Rebasing, Own, Starting, Known,
     Fetched, Unborn, FirstCommit, FirstFetch, FirstPush, NothingOf, Grown, Extends
<1>2. CASE Next
  <2>1. PICK d \in Devices: Step(d)
    BY <1>2 DEF Next, Step
  <2>2. Kept(d)
    BY <2>1, DeviceStep DEF IInv
  <2>3. ASSUME NEW c \in Devices PROVE Mine(c)'
    <3>1. CASE c = d
      BY <2>2, <3>1 DEF Kept
    <3>2. CASE c # d
      BY <2>2, <3>2, OthersKeep DEF Kept, IInv
    <3> QED
      BY <3>1, <3>2
  <2> QED
    BY <2>2, <2>3 DEF Kept, IInv
<1> QED
  BY <1>1, <1>2

\* The initial state satisfies it.
LEMMA InitInv == Init => IInv
<1> SUFFICES ASSUME Init PROVE IInv
  OBVIOUS
<1>1. Root \in Seq(Commit) /\ Len(Root) \in Nat /\ <<>> \in Seq(Commit) /\ <<>> \in Seq(Patch)
  BY RootIsHistory
<1>2. Empty \in Tree /\ (~Cloned => Founding \in Tree /\ EditsOf(Founding) \subseteq Edits)
  BY EmptyIsTree, FoundingIsTree, EditsOfTree
<1>3. TypeOK
  BY <1>1, <1>2, ConstantsAssumption DEF ConstantsAssumption, Init, TypeOK
<1>4. ASSUME NEW d \in Devices PROVE Mine(d)
  <2>1. /\ pc[d] = "idle" /\ op[d] = "none" /\ ~detached[d] /\ conflicts[d] = {}
        /\ remote = Root /\ branch[d] = Root /\ track[d] = Root
        /\ enabled[d] = Cloned /\ repo[d] = (IF Cloned THEN "ready" ELSE "none")
        /\ notebook[d] = (Cloned \/ d = Founder)
    BY DEF Init
  <2>2. ~Cloned => Root = <<>> /\ Len(Root) = 0
    BY DEF Root
  <2>3. ~notebook[d] => work[d] = Empty
    BY DEF Init
  <2>4. \A f \in Files: Empty.notes[f] = {}
    BY DEF Empty
  <2>5. CallPlace(d) /\ Opened(d) /\ Rebasing(d)
    BY <2>1, ConstantsAssumption DEF ConstantsAssumption, CallPlace, Opened, Rebasing
  <2>6. Starting(d)
    BY <2>1, <2>2, <2>3, <2>4, ConstantsAssumption DEF ConstantsAssumption, Starting, Unborn,
       FirstCommit, FirstFetch, FirstPush, NothingOf
  <2>7. Known(d) /\ Fetched(d)
    BY <1>1, <2>1 DEF Known, Fetched, Grown, Extends
  <2> QED
    BY <2>5, <2>6, <2>7 DEF Mine, Own
<1> QED
  BY <1>3, <1>4 DEF IInv

\* The invariant of git sync.
THEOREM Invariant == Spec => []IInv
<1>1. Init => IInv
  BY InitInv
<1>2. IInv /\ [Next]_vars => IInv'
  BY InvariantStep
<1> QED
  BY <1>1, <1>2, PTL DEF Spec

\* Every variable of every device keeps its type.
THEOREM TypeCorrect == Spec => []TypeOK
<1>1. IInv => TypeOK
  BY DEF IInv
<1> QED
  BY <1>1, Invariant, PTL

-----------------------------------------------------------------------------
(* Fetch, push and retry implement the shared history *)

\* What a step of d is to the shared history.
Shares(d) == History!Learn(d) \/ History!Extend(d) \/ History!Forget(d)

\* Only fetch and push touch the remote or what a device knows of it, and a clone that
\* is given up.
LEMMA QuietSteps ==
    ASSUME TypeOK, NEW d \in Devices, Step(d),
           ~FetchOrigin(d), ~PushOrigin(d), ~PushFails(d), ~DiscardClone(d)
    PROVE  UNCHANGED <<remote, track>>
<1>1. ASSUME NEW f \in Files, NEW e \in Edits, SaveFile(d, f, e)
      PROVE  UNCHANGED <<remote, track>>
  BY <1>1 DEF SaveFile, refVars
<1>2. ASSUME NEW e \in Edits, CreateNotebook(d, e)
      PROVE  UNCHANGED <<remote, track>>
  BY <1>2 DEF CreateNotebook, refVars
<1>3. CASE Enable(d) \/ CloneNotebook(d) \/ CloneCancelled(d) \/ Restart(d)
  BY <1>3 DEF Enable, InitializeRefused, OpenExistingRepo, Bootstrap, BootstrapUnchecked,
     CloneNotebook, CloneCancelled, Restart, refVars
<1>4. CASE Call(d)
  BY <1>4 DEF Call, StartCall, refVars
<1>5. CASE Settle(d)
  BY <1>5 DEF Settle, ResolveConflict
<1>6. ASSUME NEW f \in Files, ResolveNothing(d, f)
      PROVE  UNCHANGED <<remote, track>>
  BY <1>6 DEF ResolveNothing, refVars
<1>7. CASE \/ InitRepo(d) \/ AddOrigin(d) \/ OpenClone(d)
           \/ NothingToCheckOut(d) \/ FirstCheckoutRefused(d) \/ FirstCheckout(d)
           \/ FirstRef(d) \/ StageAll(d) \/ CommitIndex(d) \/ FetchFails(d)
  BY <1>7 DEF InitRepo, AddOrigin, OpenClone, NothingToCheckOut, FirstCheckoutRefused,
     FirstCheckout, FirstRef, StageAll, CommitIndex, FetchFails, refVars
<1>8. CASE \/ SkipRebase(d) \/ FastForwardCheckout(d) \/ FastForwardRef(d)
           \/ RebaseInit(d) \/ RebaseRefused(d) \/ ReplayObstructed(d)
           \/ ReplayConflict(d) \/ ReplayCommit(d) \/ FinishRebase(d)
           \/ PushWithoutBranch(d) \/ PushRejected(d)
  BY <1>8 DEF SkipRebase, FastForwardCheckout, FastForwardRef, RebaseInit, RebaseRefused,
     ReplayObstructed, ReplayConflict, ReplayCommit, FinishRebase, PushWithoutBranch,
     PushRejected, refVars
<1> QED
  BY <1>1, <1>2, <1>3, <1>4, <1>5, <1>6, <1>7, <1>8 DEF Step, Continue

\* A push the server accepts extends what everyone shares by commits of its device.
LEMMA PushExtends ==
    ASSUME TypeOK, NEW d \in Devices, Mine(d), PushOrigin(d) \/ PushFails(d)
    PROVE  UNCHANGED <<remote, track>> \/ Shares(d)
<1>h. Histories(d)
  BY HistoriesAre
<1>1. \/ UNCHANGED <<remote, track>>
      \/ /\ remote = track[d] /\ Extends(branch[d], remote)
         /\ remote' = branch[d]
         /\ track' = track \/ track' = [track EXCEPT ![d] = branch[d]]
  BY PushKnowsRemote DEF PushOrigin, PushFails, HasBranch, PushedRef, refVars
<1>2. CASE /\ remote = track[d] /\ Extends(branch[d], remote)
           /\ remote' = branch[d]
           /\ track' = track \/ track' = [track EXCEPT ![d] = branch[d]]
  <2>1. \A i \in Len(remote) + 1 .. Len(branch[d]): branch[d][i].by = d
    BY <1>2, <1>h DEF Histories, Mine, Own, Known, Grown
  <2>2. CASE branch[d] = remote
    BY <1>2, <2>2 DEF Shares, History!Learn
  <2>3. CASE branch[d] # remote
    <3>1. IsPrefix(remote, branch[d])
      BY <1>2, <1>h, PrefixMeans DEF Histories
    <3>2. IsStrictPrefix(remote, remote')
      BY <1>2, <2>3, <3>1 DEF IsStrictPrefix
    <3>3. track[d] = remote /\ \A i \in Len(remote) + 1 .. Len(remote'): remote'[i].by = d
      BY <1>2, <2>1
    <3>4. track' = track \/ track' = [track EXCEPT ![d] = remote']
      BY <1>2
    <3>5. History!Extend(d)
      BY <3>2, <3>3, <3>4 DEF History!Extend, IsStrictPrefix, IsPrefix,
         History!IsStrictPrefix, History!IsPrefix
    <3> QED
      BY <3>5 DEF Shares
  <2> QED
    BY <2>2, <2>3
<1> QED
  BY <1>1, <1>2

\* Every step is one of the shared history or leaves it alone.
LEMMA HistoryStep == IInv /\ [Next]_vars => [History!Next]_<<remote, track>>
<1> SUFFICES ASSUME IInv, [Next]_vars PROVE History!Next \/ UNCHANGED <<remote, track>>
  OBVIOUS
<1>1. CASE UNCHANGED vars
  BY <1>1 DEF vars
<1>2. CASE Next
  <2>1. PICK d \in Devices: Step(d)
    BY <1>2 DEF Next, Step
  <2>2. TypeOK /\ Mine(d)
    BY DEF IInv
  <2>3. CASE FetchOrigin(d)
    BY <2>3 DEF FetchOrigin, History!Next, History!Learn
  <2>4. CASE PushOrigin(d) \/ PushFails(d)
    BY <2>2, <2>4, PushExtends DEF Shares, History!Next
  <2>5. CASE DiscardClone(d)
    <3>1. ~Cloned
      BY <2>2, <2>5 DEF DiscardClone, Mine, Opened
    <3>2. Root = <<>>
      BY <3>1 DEF Root
    <3> QED
      BY <2>5, <3>2 DEF DiscardClone, History!Next, History!Forget
  <2> QED
    BY <2>1, <2>2, <2>3, <2>4, <2>5, QuietSteps
<1> QED
  BY <1>1, <1>2

\* Every behaviour of the devices is one of SharedHistory: fetch is Learn, a push the
\* server accepts, even if its answer is lost, is Extend, removing a clone is Forget.
THEOREM OneSharedHistory == Spec => ImplementsSharedHistory
<1>1. Init => History!Init
  BY DEF Init, History!Init
<1>2. IInv /\ [Next]_vars => [History!Next]_<<remote, track>>
  BY HistoryStep
<1> QED
  BY <1>1, <1>2, Invariant, PTL DEF Spec, ImplementsSharedHistory, History!Spec
=============================================================================
