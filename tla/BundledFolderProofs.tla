------------------------- MODULE BundledFolderProofs -------------------------
(***************************************************************************)
(* NothingLost of BundledFolder, for every tree, every set of names, every *)
(* sequence of calls and any number of failures and crashes, also for the  *)
(* calls of NestedCalls and for writes that leave a torn vx.json.          *)
(***************************************************************************)
EXTENDS BundledFolder, FiniteSetTheorems, SequenceTheorems, TLAPS

Segments == Names \cup Files
Places == Seq(Segments)
Folders == Seq(Names)

-----------------------------------------------------------------------------
(* Paths *)

\* Folders are places.
LEMMA FoldersArePlaces == Folders \subseteq Places
BY DEF Folders, Places, Segments

\* A prefix, name by name.
LEMMA PrefixPoints ==
    ASSUME NEW p \in Places, NEW q \in Places
    PROVE  Within(p, q) <=> Len(p) <= Len(q) /\ \A i \in 1 .. Len(p): p[i] = q[i]
<1>1. SubSeq(p, 1, Len(p)) = p
  BY DEF Places
<1>2. CASE Len(p) <= Len(q)
  <2>1. SubSeq(q, 1, Len(p)) \in Places /\ Len(SubSeq(q, 1, Len(p))) = Len(p)
    BY <1>2 DEF Places
  <2>2. \A i \in 1 .. Len(p): SubSeq(q, 1, Len(p))[i] = q[i]
    BY <1>2 DEF Places
  <2>3. p = SubSeq(q, 1, Len(p)) <=> \A i \in 1 .. Len(p): p[i] = q[i]
    BY <2>1, <2>2, SeqEqual DEF Places
  <2> QED
    BY <1>1, <1>2, <2>3 DEF Within, IsPrefix
<1>3. CASE ~(Len(p) <= Len(q))
  BY <1>3 DEF Within, IsPrefix
<1> QED
  BY <1>2, <1>3

\* What is at or below a path, moved below another.
LEMMA RebasePoints ==
    ASSUME NEW p \in Places, NEW q \in Places, NEW r \in Places, Within(p, r)
    PROVE  /\ Rebase(r, p, q) \in Places
           /\ Len(Rebase(r, p, q)) = Len(q) + Len(r) - Len(p)
           /\ \A i \in 1 .. Len(q): Rebase(r, p, q)[i] = q[i]
           /\ \A i \in Len(q) + 1 .. Len(q) + Len(r) - Len(p):
                 Rebase(r, p, q)[i] = r[i - Len(q) + Len(p)]
           /\ r \in Folders /\ q \in Folders => Rebase(r, p, q) \in Folders
<1>1. Len(p) <= Len(r) /\ Len(p) \in Nat /\ Len(q) \in Nat /\ Len(r) \in Nat
  BY PrefixPoints DEF Places
<1> DEFINE t == SubSeq(r, Len(p) + 1, Len(r))
<1>2. /\ t \in Places /\ Len(t) = Len(r) - Len(p)
      /\ \A i \in 1 .. Len(r) - Len(p): t[i] = r[i + Len(p)]
  <2>1. \A i \in Len(p) + 1 .. Len(r): r[i] \in Segments
    BY <1>1 DEF Places
  <2>2. /\ t \in Seq(Segments)
        /\ Len(t) = IF Len(p) + 1 <= Len(r) THEN Len(r) - (Len(p) + 1) + 1 ELSE 0
        /\ \A i \in 1 .. Len(r) - (Len(p) + 1) + 1: t[i] = r[Len(p) + 1 + i - 1]
    BY <1>1, <2>1, SubSeqProperties
  <2>3. \A i \in 1 .. Len(r) - Len(p): i \in 1 .. Len(r) - (Len(p) + 1) + 1
                                          /\ Len(p) + 1 + i - 1 = i + Len(p)
    BY <1>1
  <2> HIDE DEF t
  <2> QED
    BY <1>1, <2>2, <2>3 DEF Places
<1>3. r \in Folders => t \in Folders
  BY <1>1 DEF Places, Folders
<1>4. Rebase(r, p, q) = q \o t
  BY DEF Rebase
<1> HIDE DEF t
<1>5. /\ q \o t \in Places /\ Len(q \o t) = Len(q) + Len(t)
      /\ \A i \in 1 .. Len(q) + Len(t):
            (q \o t)[i] = IF i <= Len(q) THEN q[i] ELSE t[i - Len(q)]
  <2>1. q \in Seq(Segments) /\ t \in Seq(Segments)
    BY <1>2 DEF Places
  <2>2. q \o t \in Seq(Segments) /\ Len(q \o t) = Len(q) + Len(t)
    BY <2>1, ConcatProperties
  <2>3. \A i \in 1 .. Len(q) + Len(t):
            (q \o t)[i] = IF i <= Len(q) THEN q[i] ELSE t[i - Len(q)]
    BY <2>1, ConcatProperties, Zenon
  <2> QED
    BY <2>2, <2>3 DEF Places
<1>6. \A i \in 1 .. Len(q): (q \o t)[i] = q[i]
  BY <1>1, <1>2, <1>5
<1>7. \A i \in Len(q) + 1 .. Len(q) + Len(t): (q \o t)[i] = t[i - Len(q)]
  BY <1>1, <1>2, <1>5
<1>8. r \in Folders /\ q \in Folders => q \o t \in Folders
  BY <1>3 DEF Folders
<1>9. ASSUME NEW i \in Len(q) + 1 .. Len(q) + Len(r) - Len(p)
      PROVE  (q \o t)[i] = r[i - Len(q) + Len(p)]
  <2>1. i - Len(q) \in 1 .. Len(r) - Len(p)
    BY <1>1
  <2> QED
    BY <1>1, <1>2, <1>7, <2>1
<1> QED
  BY <1>1, <1>2, <1>4, <1>5, <1>6, <1>8, <1>9

\* It is below the other, and moving back gives the first again.
LEMMA RebaseBack ==
    ASSUME NEW p \in Places, NEW q \in Places, NEW r \in Places, Within(p, r)
    PROVE  Within(q, Rebase(r, p, q)) /\ Rebase(Rebase(r, p, q), q, p) = r
<1> DEFINE s == Rebase(r, p, q)
           u == Rebase(s, q, p)
<1>1. Len(p) <= Len(r) /\ Len(p) \in Nat /\ Len(q) \in Nat /\ Len(r) \in Nat
  BY PrefixPoints DEF Places
<1>2. /\ s \in Places /\ Len(s) = Len(q) + Len(r) - Len(p)
      /\ \A i \in 1 .. Len(q): s[i] = q[i]
      /\ \A i \in Len(q) + 1 .. Len(q) + Len(r) - Len(p): s[i] = r[i - Len(q) + Len(p)]
  BY RebasePoints
<1> HIDE DEF s
<1>3. Within(q, s)
  BY <1>1, <1>2, PrefixPoints
<1>4. /\ u \in Places /\ Len(u) = Len(p) + Len(s) - Len(q)
      /\ \A i \in 1 .. Len(p): u[i] = p[i]
      /\ \A i \in Len(p) + 1 .. Len(p) + Len(s) - Len(q): u[i] = s[i - Len(p) + Len(q)]
  BY <1>2, <1>3, RebasePoints
<1> HIDE DEF u
<1>5. Len(u) = Len(r)
  BY <1>1, <1>2, <1>4
<1>6. ASSUME NEW i \in 1 .. Len(r)
      PROVE  u[i] = r[i]
  <2>1. CASE i <= Len(p)
    BY <1>1, <1>4, <2>1, PrefixPoints
  <2>2. CASE i > Len(p)
    <3>1. i \in Len(p) + 1 .. Len(p) + Len(s) - Len(q)
      BY <1>1, <1>2, <2>2
    <3>2. i - Len(p) + Len(q) \in Len(q) + 1 .. Len(q) + Len(r) - Len(p)
      BY <1>1, <2>2
    <3>3. (i - Len(p) + Len(q)) - Len(q) + Len(p) = i
      BY <1>1
    <3> QED
      BY <1>2, <1>4, <3>1, <3>2, <3>3
  <2> QED
    BY <1>1, <2>1, <2>2
<1>7. u = r
  BY <1>4, <1>5, <1>6, SeqEqual DEF Places
<1> QED
  BY <1>3, <1>7 DEF s, u

\* Prefixes of prefixes.
LEMMA PrefixChain ==
    ASSUME NEW p \in Places, NEW q \in Places, NEW r \in Places
    PROVE  /\ Within(p, p)
           /\ Within(p, q) /\ Within(q, r) => Within(p, r)
           /\ Within(p, r) /\ Within(q, r) /\ Len(p) <= Len(q) => Within(p, q)
<1>1. Len(p) \in Nat /\ Len(q) \in Nat /\ Len(r) \in Nat
  BY DEF Places
<1> QED
  BY <1>1, PrefixPoints

\* A path and what is above it.
LEMMA PrefixesOf ==
    ASSUME NEW d \in Folders
    PROVE  Prefixes(d) = {p \in Folders: Within(p, d)}
<1>1. d \in Places /\ Len(d) \in Nat /\ d \in Seq(Names)
  BY FoldersArePlaces DEF Folders
<1>2. ASSUME NEW l \in 0 .. Len(d)
      PROVE  SubSeq(d, 1, l) \in Folders /\ Within(SubSeq(d, 1, l), d)
  <2> DEFINE q == SubSeq(d, 1, l)
  <2>1. \A i \in 1 .. l: d[i] \in Names
    BY <1>1, <1>2
  <2>2. /\ q \in Seq(Names)
        /\ Len(q) = IF 1 <= l THEN l - 1 + 1 ELSE 0
        /\ \A i \in 1 .. l - 1 + 1: q[i] = d[1 + i - 1]
    BY <1>2, <2>1, SubSeqProperties
  <2> HIDE DEF q
  <2>3. Len(q) = l /\ \A i \in 1 .. l: q[i] = d[i]
    BY <1>2, <2>2
  <2>4. q \in Folders /\ q \in Places
    BY <2>2, FoldersArePlaces DEF Folders
  <2>5. Within(q, d)
    BY <1>1, <1>2, <2>3, <2>4, PrefixPoints
  <2> QED
    BY <2>4, <2>5 DEF q
<1>3. ASSUME NEW p \in Folders, Within(p, d)
      PROVE  Len(p) \in 0 .. Len(d) /\ p = SubSeq(d, 1, Len(p))
  <2>1. p \in Places /\ p \in Seq(Names)
    BY FoldersArePlaces DEF Folders
  <2>2. Len(p) <= Len(d) /\ Len(p) \in Nat /\ SubSeq(p, 1, Len(p)) = SubSeq(d, 1, Len(p))
    BY <1>3, <2>1 DEF Within, IsPrefix
  <2>3. SubSeq(p, 1, Len(p)) = p
    BY <2>1
  <2> QED
    BY <1>1, <2>2, <2>3
<1> QED
  BY <1>2, <1>3 DEF Prefixes

-----------------------------------------------------------------------------
(* Directories and notes *)

Homes(D) == {Append(d, f): d \in D, f \in Files}

\* Where there can be something.
AnyPath == Folders \cup Homes(Folders)

\* Directories are in directories.
Closed(D) == D \subseteq Folders /\ IsFiniteSet(D) /\ \A d \in D: Prefixes(d) \subseteq D

\* And so are notes.
Rooted(D, N) == Closed(D) /\ DOMAIN N \subseteq Homes(D) /\ IsFiniteSet(DOMAIN N)

\* The place of a note.
LEMMA NotePlace ==
    ASSUME NEW d \in Folders, NEW f \in Files
    PROVE  /\ Append(d, f) \in Places /\ Append(d, f) \in AnyPath
           /\ Len(d) \in Nat /\ Len(Append(d, f)) = Len(d) + 1
           /\ Append(d, f)[Len(d) + 1] = f /\ \A i \in 1 .. Len(d): Append(d, f)[i] = d[i]
           /\ Front(Append(d, f)) = d
           /\ \A i \in 1 .. Len(d): d[i] \in Names
<1>1. d \in Places /\ f \in Segments /\ d \in Seq(Segments) /\ Len(d) \in Nat /\ d \in Seq(Names)
  BY FoldersArePlaces DEF Places, Folders, Segments
<1>2. /\ Append(d, f) \in Seq(Segments) /\ Len(Append(d, f)) = Len(d) + 1
      /\ \A i \in 1 .. Len(d): Append(d, f)[i] = d[i]
      /\ Append(d, f)[Len(d) + 1] = f
  BY <1>1, AppendProperties
<1>3. SubSeq(Append(d, f), 1, Len(d)) = d
  BY <1>1
<1>4. Front(Append(d, f)) = d
  BY <1>1, <1>2, <1>3 DEF Front
<1> QED
  BY <1>1, <1>2, <1>4 DEF Places, AnyPath, Homes

\* Every path is a place.
LEMMA PathsArePlaces == AnyPath \subseteq Places
<1> SUFFICES ASSUME NEW n \in Homes(Folders) PROVE n \in Places
  BY FoldersArePlaces DEF AnyPath
<1>1. PICK d \in Folders, f \in Files: n = Append(d, f)
  BY DEF Homes
<1> QED
  BY <1>1, NotePlace

\* What is above and below a note, names of notes not being those of folders.
LEMMA NoteNeighbours ==
    ASSUME NEW d \in Folders, NEW f \in Files, NEW p \in AnyPath
    PROVE  /\ p \in Folders => (Within(p, Append(d, f)) <=> Within(p, d))
           /\ p \in Folders => ~Within(Append(d, f), p)
           /\ p \notin Folders /\ Within(p, Append(d, f)) => p = Append(d, f)
<1> DEFINE n == Append(d, f)
<1>1. /\ n \in Places /\ Len(d) \in Nat /\ Len(n) = Len(d) + 1 /\ d \in Places
      /\ n[Len(d) + 1] = f /\ \A i \in 1 .. Len(d): n[i] = d[i] /\ d[i] \in Names
  BY NotePlace, FoldersArePlaces
<1> HIDE DEF n
<1>2. Names \cap Files = {}
  BY ConstantsAssumption
<1>3. ASSUME p \in Folders
      PROVE  /\ Within(p, n) <=> Within(p, d)
             /\ ~Within(n, p)
  <2>1. p \in Places /\ Len(p) \in Nat /\ \A i \in 1 .. Len(p): p[i] \in Names
    BY <1>3, FoldersArePlaces DEF Folders
  <2>2. ASSUME Within(p, n) PROVE Len(p) # Len(d) + 1
    BY <1>1, <1>2, <2>1, <2>2, PrefixPoints
  <2>3. ASSUME Within(n, p) PROVE FALSE
    BY <1>1, <1>2, <2>1, <2>3, PrefixPoints
  <2> QED
    BY <1>1, <2>1, <2>2, <2>3, PrefixPoints
<1>4. ASSUME p \notin Folders, Within(p, n)
      PROVE  p = n
  <2>1. PICK e \in Folders, g \in Files: p = Append(e, g)
    BY <1>4 DEF AnyPath, Homes
  <2>2. /\ p \in Places /\ Len(e) \in Nat /\ Len(p) = Len(e) + 1
        /\ p[Len(e) + 1] = g
    BY <2>1, NotePlace
  <2>3. Len(e) + 1 <= Len(d) + 1 /\ \A i \in 1 .. Len(e) + 1: p[i] = n[i]
    BY <1>1, <1>4, <2>2, PrefixPoints
  <2>4. ~(Len(e) + 1 <= Len(d))
    BY <1>1, <1>2, <2>2, <2>3
  <2>5. Len(p) = Len(n)
    BY <1>1, <2>2, <2>3, <2>4
  <2> QED
    BY <1>1, <2>2, <2>3, <2>5, SeqEqual DEF Places
<1> QED
  BY <1>3, <1>4 DEF n

\* Nothing lies below a folder that is not there.
LEMMA NothingBelow ==
    ASSUME NEW D, NEW N, Rooted(D, N), NEW p \in Folders, p \notin D
    PROVE  Below(p, D) = {} /\ Below(p, DOMAIN N) = {}
<1>1. \A d \in D: d \in Folders /\ ~Within(p, d)
  BY PrefixesOf DEF Rooted, Closed
<1>2. ASSUME NEW n \in DOMAIN N PROVE ~Within(p, n)
  <2>1. PICK d \in D, f \in Files: n = Append(d, f)
    BY DEF Rooted, Homes
  <2> QED
    BY <1>1, <2>1, NoteNeighbours DEF AnyPath
<1> QED
  BY <1>1, <1>2 DEF Below

\* Nor below a note, but the note itself.
LEMMA NothingBelowNotes ==
    ASSUME NEW D, NEW N, Rooted(D, N), NEW p \in AnyPath \ Folders
    PROVE  Below(p, D) = {} /\ Below(p, DOMAIN N) \subseteq {p}
<1>1. PICK e \in Folders, g \in Files: p = Append(e, g)
  BY DEF AnyPath, Homes
<1>2. \A d \in D: ~Within(p, d)
  BY <1>1, NoteNeighbours DEF Rooted, Closed, AnyPath
<1>3. ASSUME NEW n \in DOMAIN N, Within(p, n) PROVE n = p
  <2>1. PICK d \in D, f \in Files: n = Append(d, f) /\ d \in Folders
    BY DEF Rooted, Homes, Closed
  <2> QED
    BY <1>3, <2>1, NoteNeighbours
<1> QED
  BY <1>2, <1>3 DEF Below

-----------------------------------------------------------------------------
(* What the steps on the content do *)

\* Finite images, which FS_Surjection gives for a function.
LEMMA FiniteImage ==
    ASSUME NEW S, NEW T, IsFiniteSet(S), NEW f \in [S -> T], T = {f[x]: x \in S}
    PROVE  IsFiniteSet(T)
<1>1. f \in Surjection(S, T)
  BY DEF Surjection
<1> QED
  BY <1>1, FS_Surjection

\* Directories and notes come.
LEMMA GrowRoots ==
    ASSUME NEW D, NEW N, Rooted(D, N), NEW E, Closed(E), NEW M,
           IsFiniteSet(DOMAIN M), DOMAIN M \subseteq Homes(Folders)
    PROVE  /\ Rooted(D \cup E, N)
           /\ (\A n \in DOMAIN M: Front(n) \in D \cup E) => Rooted(D \cup E, Over(M, N))
           /\ DOMAIN M \cap DOMAIN N = {} => Range(N) \subseteq Range(Over(M, N))
           /\ \A n \in DOMAIN Over(M, N):
                 \/ n \in DOMAIN N /\ Over(M, N)[n] = N[n]
                 \/ n \in DOMAIN M /\ Over(M, N)[n] = M[n]
<1>1. Closed(D \cup E) /\ Homes(D) \subseteq Homes(D \cup E)
  <2>1. IsFiniteSet(D \cup E)
    BY FS_Union DEF Rooted, Closed
  <2> QED
    BY <2>1 DEF Rooted, Closed, Homes
<1>2. DOMAIN Over(M, N) = DOMAIN M \cup DOMAIN N
  BY DEF Over
<1>3. IsFiniteSet(DOMAIN M \cup DOMAIN N)
  BY FS_Union DEF Rooted
<1>4. ASSUME \A n \in DOMAIN M: Front(n) \in D \cup E
      PROVE  DOMAIN M \subseteq Homes(D \cup E)
  <2> SUFFICES ASSUME NEW n \in DOMAIN M PROVE n \in Homes(D \cup E)
    OBVIOUS
  <2>1. PICK d \in Folders, f \in Files: n = Append(d, f)
    BY DEF Homes
  <2>2. d \in D \cup E
    BY <1>4, <2>1, NotePlace
  <2> QED
    BY <2>1, <2>2 DEF Homes
<1>5. \A n \in DOMAIN M \cup DOMAIN N: Over(M, N)[n] = IF n \in DOMAIN M THEN M[n] ELSE N[n]
  BY DEF Over
<1> DEFINE K == Over(M, N)
<1> HIDE DEF K
<1>6. DOMAIN K = DOMAIN M \cup DOMAIN N
      /\ \A n \in DOMAIN M \cup DOMAIN N: K[n] = IF n \in DOMAIN M THEN M[n] ELSE N[n]
  BY <1>2, <1>5 DEF K
<1>7. Rooted(D \cup E, N)
  BY <1>1 DEF Rooted
<1>8. (\A n \in DOMAIN M: Front(n) \in D \cup E) => Rooted(D \cup E, K)
  BY <1>1, <1>3, <1>4, <1>6 DEF Rooted
<1>9. DOMAIN M \cap DOMAIN N = {} => Range(N) \subseteq Range(K)
  BY <1>6 DEF Range
<1>10. \A n \in DOMAIN K:
           \/ n \in DOMAIN N /\ K[n] = N[n]
           \/ n \in DOMAIN M /\ K[n] = M[n]
  BY <1>6
<1> QED
  BY <1>7, <1>8, <1>9, <1>10 DEF K

\* What is left when whatever is at or below the paths of U goes.
DirsLeft(D, U) == D \ UNION {Below(p, D): p \in U}
NotesLeft(N, U) == Without(N, UNION {Below(p, DOMAIN N): p \in U})

\* Whatever is at or below some paths goes.
LEMMA RemoveRoots ==
    ASSUME NEW D, NEW N, Rooted(D, N), NEW U \in SUBSET AnyPath
    PROVE  /\ Rooted(DirsLeft(D, U), NotesLeft(N, U))
           /\ \A n \in DOMAIN NotesLeft(N, U): n \in DOMAIN N /\ NotesLeft(N, U)[n] = N[n]
           /\ \A n \in DOMAIN N: (\A p \in U: ~Within(p, n)) => n \in DOMAIN NotesLeft(N, U)
<1> DEFINE A == D \ UNION {Below(p, D): p \in U}
           X == UNION {Below(p, DOMAIN N): p \in U}
           M == Without(N, X)
<1>1. /\ \A d \in A: d \in D /\ \A p \in U: ~Within(p, d)
      /\ \A d \in D: (\A p \in U: ~Within(p, d)) => d \in A
  BY DEF Below
<1>2. \A n \in DOMAIN N: n \in X <=> \E p \in U: Within(p, n)
  BY DEF Below
<1>3. DOMAIN M = DOMAIN N \ X /\ \A n \in DOMAIN N \ X: M[n] = N[n]
  BY DEF Without, Restrict
<1> HIDE DEF A, X, M
<1>4. U \subseteq Places
  BY PathsArePlaces
<1>5. Closed(A)
  <2>1. IsFiniteSet(A) /\ A \subseteq D /\ A \subseteq Folders
    <3>1. A \in SUBSET D
      BY <1>1
    <3> QED
      BY <3>1, FS_Subset DEF Rooted, Closed
  <2>2. ASSUME NEW d \in A, NEW q \in Prefixes(d) PROVE q \in A
    <3>1. d \in Folders /\ d \in D
      BY <1>1 DEF Rooted, Closed
    <3>2. q \in D /\ q \in Folders /\ Within(q, d)
      BY <2>2, <3>1, PrefixesOf DEF Rooted, Closed
    <3>3. \A p \in U: ~Within(p, q)
      BY <1>1, <1>4, <3>1, <3>2, PrefixChain, FoldersArePlaces
    <3> QED
      BY <1>1, <3>2, <3>3
  <2> QED
    BY <2>1, <2>2 DEF Closed
<1>6. IsFiniteSet(DOMAIN M)
  <2>1. DOMAIN M \in SUBSET (DOMAIN N)
    BY <1>3
  <2> QED
    BY <2>1, FS_Subset DEF Rooted
<1>7. ASSUME NEW n \in DOMAIN M PROVE n \in Homes(A)
  <2>1. PICK d \in D, f \in Files: n = Append(d, f) /\ d \in Folders
    BY <1>3 DEF Rooted, Homes, Closed
  <2>2. \A p \in U: ~Within(p, n)
    BY <1>2, <1>3
  <2>3. n \in Places /\ d \in Places /\ Within(d, n)
    <3>1. d \in Places
      BY <2>1, FoldersArePlaces
    <3>2. Within(d, d) /\ d \in AnyPath
      BY <2>1, <3>1, PrefixChain DEF AnyPath
    <3> QED
      BY <2>1, <3>1, <3>2, NotePlace, NoteNeighbours
  <2>4. d \in A
    BY <1>1, <1>4, <2>1, <2>2, <2>3, PrefixChain
  <2> QED
    BY <2>1, <2>4 DEF Homes
<1>8. Rooted(A, M)
  BY <1>5, <1>6, <1>7 DEF Rooted
<1> QED
  BY <1>2, <1>3, <1>8 DEF A, X, M, DirsLeft, NotesLeft

\* A path without its last name.
LEMMA FrontOf ==
    ASSUME NEW p \in AnyPath, p # <<>>
    PROVE  /\ Front(p) \in Folders \/ p \in Folders
           /\ p \notin Folders => \E f \in Files: p = Append(Front(p), f) /\ Front(p) \in Folders
           /\ \A q \in Places: Within(q, p) /\ Len(q) < Len(p) /\ Front(p) \in Folders =>
                 Within(q, Front(p))
<1>1. CASE p \in Folders
  <2>1. p \in Seq(Names) /\ p \in Places /\ Len(p) \in Nat \ {0}
    BY <1>1, FoldersArePlaces, EmptySeq DEF Folders
  <2>2. /\ Len(Front(p)) = Len(p) - 1 /\ \A i \in 1 .. Len(p) - 1: Front(p)[i] = p[i]
    <3>1. \A i \in 1 .. Len(p) - 1: p[i] \in Names
      BY <2>1
    <3>2. /\ Len(SubSeq(p, 1, Len(p) - 1)) =
                 IF 1 <= Len(p) - 1 THEN Len(p) - 1 - 1 + 1 ELSE 0
          /\ \A i \in 1 .. Len(p) - 1 - 1 + 1: SubSeq(p, 1, Len(p) - 1)[i] = p[1 + i - 1]
      BY <2>1, <3>1, SubSeqProperties
    <3> QED
      BY <2>1, <3>2 DEF Front
  <2>3. ASSUME NEW q \in Places, Within(q, p), Len(q) < Len(p), Front(p) \in Folders
        PROVE  Within(q, Front(p))
    <3>1. Front(p) \in Places /\ Len(q) \in Nat
      BY <2>3, FoldersArePlaces DEF Places
    <3> QED
      BY <2>1, <2>2, <2>3, <3>1, PrefixPoints
  <2> QED
    BY <1>1, <2>3
<1>2. CASE p \notin Folders
  <2>1. PICK d \in Folders, f \in Files: p = Append(d, f)
    BY <1>2 DEF AnyPath, Homes
  <2>2. /\ p \in Places /\ d \in Places /\ Front(p) = d
        /\ Len(d) \in Nat /\ Len(p) = Len(d) + 1 /\ \A i \in 1 .. Len(d): p[i] = d[i]
    BY <2>1, NotePlace, FoldersArePlaces
  <2>3. ASSUME NEW q \in Places, Within(q, p), Len(q) < Len(p)
        PROVE  Within(q, d)
    <3>1. Len(q) \in Nat
      BY DEF Places
    <3> QED
      BY <2>2, <2>3, <3>1, PrefixPoints
  <2> QED
    BY <1>2, <2>1, <2>2, <2>3
<1> QED
  BY <1>1, <1>2

\* A note of a folder moves with it.
LEMMA RebaseNote ==
    ASSUME NEW from \in Folders, NEW to \in Folders, NEW d \in Folders, NEW f \in Files,
           Within(from, d)
    PROVE  Rebase(Append(d, f), from, to) = Append(Rebase(d, from, to), f)
<1> DEFINE n == Append(d, f)
           e == Rebase(d, from, to)
           m == Rebase(n, from, to)
           k == Append(e, f)
<1>1. /\ from \in Places /\ to \in Places /\ d \in Places
      /\ Len(from) \in Nat /\ Len(to) \in Nat
  BY FoldersArePlaces DEF Places
<1>2. /\ n \in Places /\ n \in AnyPath /\ Len(d) \in Nat /\ Len(n) = Len(d) + 1
      /\ n[Len(d) + 1] = f /\ \A i \in 1 .. Len(d): n[i] = d[i]
  BY NotePlace
<1>3. /\ e \in Folders /\ Len(e) = Len(to) + Len(d) - Len(from)
      /\ \A i \in 1 .. Len(to): e[i] = to[i]
      /\ \A i \in Len(to) + 1 .. Len(to) + Len(d) - Len(from): e[i] = d[i - Len(to) + Len(from)]
  BY <1>1, RebasePoints
<1>4. /\ k \in Places /\ Len(e) \in Nat /\ Len(k) = Len(e) + 1
      /\ k[Len(e) + 1] = f /\ \A i \in 1 .. Len(e): k[i] = e[i]
  <2> HIDE DEF e
  <2> QED
    BY <1>3, NotePlace
<1>5. Within(from, n)
  BY NoteNeighbours DEF AnyPath
<1>6. /\ m \in Places /\ Len(m) = Len(to) + Len(n) - Len(from)
      /\ \A i \in 1 .. Len(to): m[i] = to[i]
      /\ \A i \in Len(to) + 1 .. Len(to) + Len(n) - Len(from): m[i] = n[i - Len(to) + Len(from)]
  <2> HIDE DEF n
  <2> QED
    BY <1>1, <1>2, <1>5, RebasePoints
<1>7. Len(from) <= Len(d)
  BY <1>1, PrefixPoints
<1> HIDE DEF n, e, m, k
<1>8. Len(m) = Len(k)
  BY <1>1, <1>2, <1>3, <1>4, <1>6
<1>9. ASSUME NEW i \in 1 .. Len(m) PROVE m[i] = k[i]
  <2>1. CASE i <= Len(to)
    <3>1. i \in 1 .. Len(to) /\ i \in 1 .. Len(e)
      BY <1>1, <1>2, <1>3, <1>7, <2>1
    <3> QED
      BY <1>3, <1>4, <1>6, <3>1
  <2>2. CASE i > Len(to) /\ i <= Len(e)
    <3>1. /\ i \in Len(to) + 1 .. Len(to) + Len(d) - Len(from) /\ i \in 1 .. Len(e)
          /\ i \in Len(to) + 1 .. Len(to) + Len(n) - Len(from)
          /\ i - Len(to) + Len(from) \in 1 .. Len(d)
      BY <1>1, <1>2, <1>3, <1>7, <2>2
    <3> QED
      BY <1>2, <1>3, <1>4, <1>6, <3>1
  <2>3. CASE i = Len(e) + 1
    <3>1. /\ i \in Len(to) + 1 .. Len(to) + Len(n) - Len(from)
          /\ i - Len(to) + Len(from) = Len(d) + 1
      BY <1>1, <1>2, <1>3, <1>7, <2>3
    <3> QED
      BY <1>2, <1>4, <1>6, <2>3, <3>1
  <2> QED
    BY <1>1, <1>2, <1>3, <1>4, <1>8, <2>1, <2>2, <2>3
<1>10. m = k
  BY <1>4, <1>6, <1>8, <1>9, SeqEqual DEF Places
<1> QED
  BY <1>10 DEF m, n, k, e

\* Directories and notes move, to where nothing is.
LEMMA MoveRoots ==
    ASSUME NEW D, NEW N, Rooted(D, N), NEW from \in AnyPath, NEW to \in AnyPath \ {<<>>},
           from \in Folders <=> to \in Folders, Front(to) \in D, ~Within(from, to),
           Below(to, DOMAIN N) = {}
    PROVE  /\ Rooted((D \ Below(from, D)) \cup {Rebase(d, from, to): d \in Below(from, D)},
                     Relocate(N, from, to))
           /\ Range(N) \subseteq Range(Relocate(N, from, to))
<1> DEFINE A == (D \ Below(from, D)) \cup {Rebase(d, from, to): d \in Below(from, D)}
           B == Below(from, DOMAIN N)
           K == Relocate(N, from, to)
<1>1. /\ from \in Places /\ to \in Places /\ D \subseteq Folders /\ D \subseteq Places
      /\ DOMAIN N \subseteq Places
  <2>1. Homes(D) \subseteq Homes(Folders)
    BY DEF Rooted, Closed, Homes
  <2> QED
    BY <2>1, PathsArePlaces, FoldersArePlaces DEF Rooted, Closed, AnyPath
<1>2. B = {r \in DOMAIN N: Within(from, r)} /\ B \subseteq Places
  BY <1>1 DEF Below
<1>3. \A r \in DOMAIN N: ~Within(to, r)
  BY DEF Below
<1>4. DOMAIN K = (DOMAIN N \ B) \cup {Rebase(r, from, to): r \in B}
  BY DEF Relocate
<1>5. /\ \A r \in DOMAIN N \ B: r \in DOMAIN K /\ K[r] = N[r]
      /\ \A r \in B: /\ Rebase(r, from, to) \in DOMAIN K
                     /\ K[Rebase(r, from, to)] = N[r]
  <2>1. \A q \in DOMAIN K: K[q] = IF Within(to, q) /\ Rebase(q, to, from) \in DOMAIN N
                                  THEN N[Rebase(q, to, from)] ELSE N[q]
    BY DEF Relocate
  <2>2. \A r \in B: Within(to, Rebase(r, from, to))
                    /\ Rebase(Rebase(r, from, to), to, from) = r
    BY <1>1, <1>2, RebaseBack
  <2> HIDE DEF K, B
  <2> QED
    BY <1>2, <1>3, <1>4, <2>1, <2>2
<1>6. Range(N) \subseteq Range(K)
  <2> HIDE DEF K, B
  <2> QED
    BY <1>5 DEF Range
<1>7. IsFiniteSet(DOMAIN K)
  <2> DEFINE f == [r \in B |-> Rebase(r, from, to)]
             T == {Rebase(r, from, to): r \in B}
  <2>1. IsFiniteSet(B)
    <3>1. B \in SUBSET (DOMAIN N)
      BY <1>2
    <3> QED
      BY <3>1, FS_Subset DEF Rooted
  <2>2. f \in [B -> T] /\ T = {f[r]: r \in B}
    OBVIOUS
  <2>3. IsFiniteSet(T)
    <3> HIDE DEF f, T, B
    <3> QED
      BY <2>1, <2>2, FiniteImage
  <2>4. IsFiniteSet(DOMAIN N \ B)
    <3>1. DOMAIN N \ B \in SUBSET (DOMAIN N)
      OBVIOUS
    <3> QED
      BY <3>1, FS_Subset DEF Rooted
  <2> QED
    BY <1>4, <2>3, <2>4, FS_Union
<1>8. ASSUME from \in Folders PROVE Rooted(A, K)
  <2>1. /\ to \in Folders /\ Front(to) \in Folders
        /\ \A d \in D: Within(from, d) =>
              /\ Rebase(d, from, to) \in Folders /\ Within(to, Rebase(d, from, to))
    BY <1>1, <1>8, RebasePoints, RebaseBack
  <2>2. A \subseteq Folders
    BY <1>1, <2>1 DEF Below
  <2>3. IsFiniteSet(A)
    <3> DEFINE C == Below(from, D)
               f == [r \in C |-> Rebase(r, from, to)]
               T == {Rebase(r, from, to): r \in C}
    <3>1. C \in SUBSET D /\ D \ C \in SUBSET D
      BY DEF Below
    <3>2. IsFiniteSet(C) /\ IsFiniteSet(D \ C)
      <4> HIDE DEF C
      <4> QED
        BY <3>1, FS_Subset DEF Rooted, Closed
    <3>3. f \in [C -> T] /\ T = {f[r]: r \in C}
      OBVIOUS
    <3>4. IsFiniteSet(T)
      <4> HIDE DEF f, T, C
      <4> QED
        BY <3>2, <3>3, FiniteImage
    <3> QED
      BY <3>2, <3>4, FS_Union
  <2>4. ASSUME NEW d \in A, NEW x \in Prefixes(d) PROVE x \in A
    <3>1. d \in Folders /\ x \in Folders /\ Within(x, d) /\ d \in Places /\ x \in Places
      BY <2>2, <2>4, PrefixesOf, FoldersArePlaces
    <3>2. CASE d \in D \ Below(from, D)
      <4>1. x \in D
        BY <1>1, <3>2, <2>4 DEF Rooted, Closed
      <4>2. ~Within(from, x)
        BY <1>1, <3>1, <3>2, PrefixChain DEF Below
      <4> QED
        BY <4>1, <4>2 DEF Below
    <3>3. CASE \E e \in D: Within(from, e) /\ d = Rebase(e, from, to)
      <4>1. PICK e \in D: Within(from, e) /\ d = Rebase(e, from, to)
        BY <3>3
      <4>2. /\ Len(d) = Len(to) + Len(e) - Len(from) /\ Within(to, d)
            /\ \A i \in 1 .. Len(to): d[i] = to[i]
            /\ \A i \in Len(to) + 1 .. Len(to) + Len(e) - Len(from):
                  d[i] = e[i - Len(to) + Len(from)]
            /\ e \in Places /\ e \in Folders
        <5>1. e \in Places /\ e \in Folders
          BY <1>1
        <5>2. Within(to, d)
          BY <1>1, <4>1, <5>1, RebaseBack
        <5>3. /\ Len(Rebase(e, from, to)) = Len(to) + Len(e) - Len(from)
              /\ \A i \in 1 .. Len(to): Rebase(e, from, to)[i] = to[i]
              /\ \A i \in Len(to) + 1 .. Len(to) + Len(e) - Len(from):
                    Rebase(e, from, to)[i] = e[i - Len(to) + Len(from)]
          <6>1. from \in Places /\ to \in Places /\ Within(from, e)
            BY <1>1, <4>1
          <6> QED
            BY <5>1, <6>1, RebasePoints, Zenon
        <5>4. /\ Len(d) = Len(to) + Len(e) - Len(from)
              /\ \A i \in 1 .. Len(to): d[i] = to[i]
              /\ \A i \in Len(to) + 1 .. Len(to) + Len(e) - Len(from):
                    d[i] = e[i - Len(to) + Len(from)]
          BY <4>1, <5>3, Zenon
        <5> QED
          BY <5>1, <5>2, <5>4
      <4>3. /\ Len(to) \in Nat /\ Len(from) \in Nat /\ Len(x) \in Nat /\ Len(e) \in Nat
            /\ Len(x) <= Len(d) /\ \A i \in 1 .. Len(x): x[i] = d[i]
            /\ Len(from) <= Len(e) /\ \A i \in 1 .. Len(from): from[i] = e[i]
        <5>1. /\ Len(to) \in Nat /\ Len(from) \in Nat /\ Len(x) \in Nat /\ Len(e) \in Nat
          BY <1>1, <3>1, <4>2 DEF Places
        <5> QED
          BY <1>1, <3>1, <4>1, <4>2, <5>1, PrefixPoints
      <4>4. CASE Len(x) < Len(to)
        <5>1. Within(x, to)
          BY <1>1, <3>1, <4>2, <4>3, <4>4, PrefixChain
        <5>2. Within(x, Front(to))
          BY <1>1, <2>1, <3>1, <4>4, <5>1, FrontOf
        <5>3. x \in D
          BY <2>1, <3>1, <5>2, PrefixesOf DEF Rooted, Closed
        <5>4. ~Within(from, x)
          BY <1>1, <3>1, <5>1, PrefixChain
        <5> QED
          BY <5>3, <5>4 DEF Below
      <4>5. CASE Len(to) <= Len(x)
        <5> DEFINE y == Rebase(x, to, from)
        <5>1. Within(to, x)
          BY <1>1, <3>1, <4>2, <4>5, PrefixChain
        <5>2. /\ y \in Folders /\ y \in Places /\ Len(y) = Len(from) + Len(x) - Len(to)
              /\ \A i \in 1 .. Len(from): y[i] = from[i]
              /\ \A i \in Len(from) + 1 .. Len(from) + Len(x) - Len(to):
                    y[i] = x[i - Len(from) + Len(to)]
          BY <1>1, <1>8, <3>1, <5>1, RebasePoints
        <5>3. Within(from, y) /\ Rebase(y, from, to) = x
          BY <1>1, <3>1, <5>1, RebaseBack
        <5> HIDE DEF y
        <5>4. ASSUME NEW i \in 1 .. Len(y) PROVE y[i] = e[i]
          <6>1. CASE i <= Len(from)
            BY <4>3, <5>2, <6>1
          <6>2. CASE i > Len(from)
            <7>1. /\ i \in Len(from) + 1 .. Len(from) + Len(x) - Len(to)
                  /\ i - Len(from) + Len(to) \in 1 .. Len(x)
                  /\ i - Len(from) + Len(to) \in Len(to) + 1 .. Len(to) + Len(e) - Len(from)
                  /\ (i - Len(from) + Len(to)) - Len(to) + Len(from) = i
              BY <4>2, <4>3, <5>2, <6>2
            <7> QED
              BY <4>2, <4>3, <5>2, <7>1
          <6> QED
            BY <4>3, <5>2, <6>1, <6>2
        <5>5. Within(y, e)
          <6>1. Len(y) <= Len(e)
            BY <4>2, <4>3, <5>2
          <6> QED
            BY <4>2, <5>2, <5>4, <6>1, PrefixPoints
        <5>6. y \in D
          BY <4>1, <4>2, <5>2, <5>5, PrefixesOf DEF Rooted, Closed
        <5> QED
          BY <5>3, <5>6 DEF Below
      <4> QED
        BY <4>3, <4>4, <4>5
    <3> QED
      BY <3>2, <3>3 DEF Below
  <2>5. Closed(A)
    <3> HIDE DEF A
    <3> QED
      BY <2>2, <2>3, <2>4 DEF Closed
  <2>6. ASSUME NEW n \in DOMAIN K PROVE n \in Homes(A)
    <3>1. CASE n \in DOMAIN N \ B
      <4>1. PICK d \in D, f \in Files: n = Append(d, f) /\ d \in Folders
        BY <3>1 DEF Rooted, Homes, Closed
      <4>2. ~Within(from, d)
        BY <1>2, <1>8, <3>1, <4>1, NoteNeighbours DEF AnyPath
      <4> QED
        BY <4>1, <4>2 DEF Homes, Below
    <3>2. CASE \E m \in B: n = Rebase(m, from, to)
      <4>1. PICK m \in B: n = Rebase(m, from, to)
        BY <3>2
      <4>2. PICK d \in D, f \in Files: m = Append(d, f) /\ d \in Folders
        BY <1>2, <4>1 DEF Rooted, Homes, Closed
      <4>3. Within(from, d)
        BY <1>2, <1>8, <4>1, <4>2, NoteNeighbours DEF AnyPath
      <4>4. n = Append(Rebase(d, from, to), f)
        BY <1>8, <2>1, <4>1, <4>2, <4>3, RebaseNote
      <4>5. Rebase(d, from, to) \in A
        BY <4>2, <4>3 DEF Below
      <4> HIDE DEF A
      <4> QED
        BY <4>4, <4>5 DEF Homes
    <3> HIDE DEF K, A, B
    <3> QED
      BY <1>4, <2>6, <3>1, <3>2
  <2> HIDE DEF K, A, B
  <2> QED
    BY <1>7, <2>5, <2>6 DEF Rooted
<1>9. ASSUME from \notin Folders PROVE Rooted(A, K)
  <2>1. Below(from, D) = {} /\ B \subseteq {from}
    BY <1>9, NothingBelowNotes
  <2>2. A = D
    BY <2>1
  <2>3. PICK g \in Files: to = Append(Front(to), g)
    BY <1>9, FrontOf
  <2>4. Rebase(from, from, to) = to
    <3>1. Within(from, from) /\ Len(from) \in Nat /\ Len(to) \in Nat
      BY <1>1, PrefixChain DEF Places
    <3>2. /\ Rebase(from, from, to) \in Places
          /\ Len(Rebase(from, from, to)) = Len(to) + Len(from) - Len(from)
          /\ \A i \in 1 .. Len(to): Rebase(from, from, to)[i] = to[i]
      BY <1>1, <3>1, RebasePoints
    <3> QED
      BY <1>1, <3>1, <3>2, SeqEqual DEF Places
  <2>5. DOMAIN K \subseteq DOMAIN N \cup {to}
    BY <1>4, <2>1, <2>4
  <2>6. to \in Homes(D)
    BY <2>3 DEF Homes
  <2> HIDE DEF K, A, B
  <2> QED
    BY <1>7, <2>2, <2>5, <2>6 DEF Rooted
<1> HIDE DEF K, A, B
<1>10. Rooted(A, K)
  BY <1>8, <1>9
<1> QED
  BY <1>6, <1>10 DEF A, K

-----------------------------------------------------------------------------
(* What the steps of a call may be *)

\* No text that is to be kept is at or below a path.
Removable(p, N, X) == p \in AnyPath /\ \A n \in Below(p, DOMAIN N): N[n] \notin X

\* A step that takes no note, whatever there is.
Harmless(s) ==
    \/ s.do \notin {"grow", "move", "delete", "save"}
    \/ s.do = "save" /\ s.undo = {}
    \/ s.do = "grow" /\ Closed(s.dirs) /\ DOMAIN s.notes = {}

\* A step that takes no text of X from the notes N.
Quiet(s, N, X) ==
    \/ Harmless(s)
    \/ s.do = "save" /\ \A p \in s.undo: Removable(p, N, X)
    \/ s.do = "delete" /\ Removable(s.at, N, X)

\* Notes come where there are none, with other texts.
Grows(s, N, X) ==
    /\ s.do = "grow" /\ Closed(s.dirs)
    /\ IsFiniteSet(DOMAIN s.notes) /\ DOMAIN s.notes \subseteq Homes(Folders)
    /\ DOMAIN s.notes \cap DOMAIN N = {} /\ \A n \in DOMAIN s.notes: s.notes[n] \notin X

\* Folders or a note move to where no note is.
Moves(s, N) ==
    /\ s.do = "move" /\ s.from \in AnyPath /\ s.to \in AnyPath \ {<<>>}
    /\ s.from \in Folders <=> s.to \in Folders
    /\ Below(s.to, DOMAIN N) = {}

AreSteps(T) == \E S: T \in Seq(S)

AllHarmless(T) == AreSteps(T) /\ \A i \in 1 .. Len(T): Harmless(T[i])
AllQuiet(T, N, X) == AreSteps(T) /\ \A i \in 1 .. Len(T): Quiet(T[i], N, X)
GrowsFirst(T, N, X) ==
    /\ AreSteps(T) /\ Len(T) > 0 /\ Grows(T[1], N, X)
    /\ \A i \in 2 .. Len(T): Quiet(T[i], N, X)
MovesOnce(T, N) ==
    /\ AreSteps(T)
    /\ \E k \in 1 .. Len(T): /\ Moves(T[k], N)
                             /\ \A i \in 1 .. Len(T): i # k => Harmless(T[i])

\* The steps of a call that has still to be done.
Pending(T, N, X) == AllQuiet(T, N, X) \/ GrowsFirst(T, N, X) \/ MovesOnce(T, N)

\* Concatenation, element by element.
LEMMA ConcatSteps ==
    ASSUME NEW A, NEW B, AreSteps(A), AreSteps(B)
    PROVE  /\ AreSteps(A \o B) /\ Len(A) \in Nat /\ Len(B) \in Nat
           /\ Len(A \o B) = Len(A) + Len(B)
           /\ \A i \in 1 .. Len(A) + Len(B):
                 (A \o B)[i] = IF i <= Len(A) THEN A[i] ELSE B[i - Len(A)]
<1>1. PICK S: A \in Seq(S)
  BY DEF AreSteps
<1>2. PICK T: B \in Seq(T)
  BY DEF AreSteps
<1>3. A \in Seq(S \cup T) /\ B \in Seq(S \cup T)
  BY <1>1, <1>2, SeqMonotonic
<1>4. A \o B \in Seq(S \cup T) /\ Len(A \o B) = Len(A) + Len(B)
  BY <1>3, ConcatProperties
<1>5. \A i \in 1 .. Len(A) + Len(B):
         (A \o B)[i] = IF i <= Len(A) THEN A[i] ELSE B[i - Len(A)]
  BY <1>3, ConcatProperties, Zenon
<1> QED
  BY <1>3, <1>4, <1>5 DEF AreSteps

\* Steps after steps.
LEMMA StepsAfter ==
    ASSUME NEW A, NEW B, NEW N, NEW X
    PROVE  /\ AllHarmless(A) => AllQuiet(A, N, X)
           /\ AllHarmless(A) /\ AllHarmless(B) => AllHarmless(A \o B)
           /\ AllQuiet(A, N, X) /\ AllQuiet(B, N, X) => AllQuiet(A \o B, N, X)
           /\ GrowsFirst(A, N, X) /\ AllQuiet(B, N, X) => GrowsFirst(A \o B, N, X)
           /\ MovesOnce(A, N) /\ AllHarmless(B) => MovesOnce(A \o B, N)
           /\ AllHarmless(A) /\ MovesOnce(B, N) => MovesOnce(A \o B, N)
<1> DEFINE C == A \o B
<1>1. AllHarmless(A) => AllQuiet(A, N, X)
  BY DEF AllHarmless, AllQuiet, Quiet
<1>2. ASSUME AreSteps(A), AreSteps(B)
      PROVE  /\ AreSteps(C) /\ Len(C) = Len(A) + Len(B) /\ Len(A) \in Nat /\ Len(B) \in Nat
             /\ \A i \in 1 .. Len(A): C[i] = A[i] /\ i \in 1 .. Len(C)
             /\ \A i \in 1 .. Len(B): C[i + Len(A)] = B[i] /\ i + Len(A) \in 1 .. Len(C)
             /\ \A i \in 1 .. Len(C): \/ i \in 1 .. Len(A)
                                      \/ i - Len(A) \in 1 .. Len(B) /\ C[i] = B[i - Len(A)]
  <2>1. /\ AreSteps(C) /\ Len(C) = Len(A) + Len(B) /\ Len(A) \in Nat /\ Len(B) \in Nat
        /\ \A i \in 1 .. Len(A) + Len(B): C[i] = IF i <= Len(A) THEN A[i] ELSE B[i - Len(A)]
    BY <1>2, ConcatSteps
  <2> HIDE DEF C
  <2>2. \A i \in 1 .. Len(B): /\ i + Len(A) \in 1 .. Len(A) + Len(B)
                              /\ ~(i + Len(A) <= Len(A)) /\ i + Len(A) - Len(A) = i
    BY <2>1
  <2>3. \A i \in 1 .. Len(B): C[i + Len(A)] = B[i] /\ i + Len(A) \in 1 .. Len(C)
    BY <2>1, <2>2
  <2>4. \A i \in 1 .. Len(C): \/ i \in 1 .. Len(A)
                              \/ i - Len(A) \in 1 .. Len(B) /\ C[i] = B[i - Len(A)]
    BY <2>1
  <2>5. \A i \in 1 .. Len(A): C[i] = A[i] /\ i \in 1 .. Len(C)
    BY <2>1
  <2> QED
    BY <2>1, <2>3, <2>4, <2>5
<1> HIDE DEF C
<1>3. ASSUME AllHarmless(A), AllHarmless(B) PROVE AllHarmless(C)
  BY <1>2, <1>3 DEF AllHarmless
<1>4. ASSUME AllQuiet(A, N, X), AllQuiet(B, N, X) PROVE AllQuiet(C, N, X)
  BY <1>2, <1>4 DEF AllQuiet
<1>5. ASSUME GrowsFirst(A, N, X), AllQuiet(B, N, X) PROVE GrowsFirst(C, N, X)
  <2>1. AreSteps(A) /\ AreSteps(B) /\ Len(A) > 0
    BY <1>5 DEF AllQuiet, GrowsFirst
  <2>2. Grows(C[1], N, X)
    BY <1>2, <1>5, <2>1 DEF GrowsFirst
  <2>3. ASSUME NEW i \in 2 .. Len(C) PROVE Quiet(C[i], N, X)
    <3>1. CASE i \in 1 .. Len(A)
      BY <1>2, <1>5, <2>1, <3>1 DEF GrowsFirst
    <3>2. CASE i - Len(A) \in 1 .. Len(B) /\ C[i] = B[i - Len(A)]
      BY <1>5, <3>2 DEF AllQuiet
    <3> QED
      BY <1>2, <2>1, <3>1, <3>2
  <2> QED
    BY <1>2, <2>1, <2>2, <2>3 DEF GrowsFirst
<1>6. ASSUME MovesOnce(A, N), AllHarmless(B) PROVE MovesOnce(C, N)
  <2>1. AreSteps(A) /\ AreSteps(B)
    BY <1>6 DEF MovesOnce, AllHarmless
  <2>2. PICK k \in 1 .. Len(A): /\ Moves(A[k], N)
                                /\ \A i \in 1 .. Len(A): i # k => Harmless(A[i])
    BY <1>6 DEF MovesOnce
  <2>3. k \in 1 .. Len(C) /\ Moves(C[k], N)
    BY <1>2, <2>1, <2>2
  <2>4. ASSUME NEW i \in 1 .. Len(C), i # k PROVE Harmless(C[i])
    BY <1>2, <1>6, <2>1, <2>2, <2>4 DEF AllHarmless
  <2> QED
    BY <1>2, <2>1, <2>3, <2>4 DEF MovesOnce
<1>7. ASSUME AllHarmless(A), MovesOnce(B, N) PROVE MovesOnce(C, N)
  <2>1. AreSteps(A) /\ AreSteps(B)
    BY <1>7 DEF MovesOnce, AllHarmless
  <2>2. PICK k \in 1 .. Len(B): /\ Moves(B[k], N)
                                /\ \A i \in 1 .. Len(B): i # k => Harmless(B[i])
    BY <1>7 DEF MovesOnce
  <2>3. k + Len(A) \in 1 .. Len(C) /\ Moves(C[k + Len(A)], N)
    BY <1>2, <2>1, <2>2
  <2>4. ASSUME NEW i \in 1 .. Len(C), i # k + Len(A) PROVE Harmless(C[i])
    <3>1. CASE i \in 1 .. Len(A)
      BY <1>2, <1>7, <2>1, <3>1 DEF AllHarmless
    <3>2. CASE i - Len(A) \in 1 .. Len(B) /\ C[i] = B[i - Len(A)]
      <4>1. i - Len(A) # k
        BY <1>2, <2>1, <2>4
      <4> QED
        BY <2>2, <3>2, <4>1
    <3> QED
      BY <1>2, <2>1, <3>1, <3>2
  <2> QED
    BY <1>2, <2>1, <2>3, <2>4 DEF MovesOnce
<1> QED
  BY <1>1, <1>3, <1>4, <1>5, <1>6, <1>7 DEF C

\* Nothing to do.
LEMMA NothingPending ==
    ASSUME NEW N, NEW X
    PROVE  /\ AllHarmless(<<>>) /\ Pending(<<>>, N, X)
<1>1. <<>> \in Seq({}) /\ Len(<<>>) = 0
  BY EmptySeq
<1>2. AreSteps(<<>>)
  BY <1>1 DEF AreSteps
<1> QED
  BY <1>1, <1>2 DEF AllHarmless, AllQuiet, Pending

\* What remains to be done after a step, when only notes went, ...
LEMMA RestAfterOther ==
    ASSUME NEW T, NEW N, NEW X, NEW K, Pending(T, N, X), T # <<>>,
           DOMAIN K \subseteq DOMAIN N, \A n \in DOMAIN K: K[n] = N[n],
           ~Moves(T[1], N), ~Grows(T[1], N, X) \/ Harmless(T[1])
    PROVE  Pending(Tail(T), K, X)
<1>1. PICK S: T \in Seq(S)
  BY DEF Pending, AllQuiet, GrowsFirst, MovesOnce, AreSteps
<1> DEFINE R == Tail(T)
<1>2. /\ R \in Seq(S) /\ Len(R) = Len(T) - 1 /\ Len(T) \in Nat \ {0}
      /\ \A i \in 1 .. Len(R): R[i] = T[i + 1] /\ i + 1 \in 2 .. Len(T)
  <2>1. Len(T) \in Nat \ {0}
    BY <1>1, EmptySeq
  <2>2. /\ R \in Seq(S) /\ Len(R) = Len(T) - 1
        /\ \A i \in 1 .. Len(R): R[i] = T[i + 1]
    BY <1>1, HeadTailProperties
  <2> HIDE DEF R
  <2> QED
    BY <2>1, <2>2
<1> HIDE DEF R
<1>3. AreSteps(R)
  BY <1>2 DEF AreSteps
<1>4. \A p: Below(p, DOMAIN K) \subseteq Below(p, DOMAIN N)
  BY DEF Below
<1>5. \A s: Quiet(s, N, X) => Quiet(s, K, X)
  <2>1. \A p: Removable(p, N, X) => Removable(p, K, X)
    BY <1>4 DEF Removable, Below
  <2> QED
    BY <2>1 DEF Quiet
<1>6. ASSUME AllQuiet(T, N, X) PROVE Pending(R, K, X)
  BY <1>2, <1>3, <1>5, <1>6 DEF AllQuiet, Pending
<1>7. ASSUME GrowsFirst(T, N, X) PROVE Pending(R, K, X)
  BY <1>2, <1>3, <1>5, <1>7 DEF AllQuiet, GrowsFirst, Pending
<1>8. ASSUME MovesOnce(T, N) PROVE Pending(R, K, X)
  <2>1. PICK k \in 1 .. Len(T): /\ Moves(T[k], N)
                                /\ \A i \in 1 .. Len(T): i # k => Harmless(T[i])
    BY <1>8 DEF MovesOnce
  <2>2. k # 1 /\ k - 1 \in 1 .. Len(R) /\ R[k - 1] = T[k]
    BY <1>2, <2>1
  <2>3. Moves(R[k - 1], K)
    BY <1>4, <2>1, <2>2 DEF Moves
  <2>4. ASSUME NEW i \in 1 .. Len(R), i # k - 1 PROVE Harmless(R[i])
    BY <1>2, <2>1, <2>4
  <2> QED
    BY <1>3, <2>2, <2>3, <2>4 DEF MovesOnce, Pending
<1> QED
  BY <1>6, <1>7, <1>8 DEF Pending, R

\* ... after one that brought notes, ...
LEMMA RestAfterGrow ==
    ASSUME NEW T, NEW N, NEW X, NEW K, Pending(T, N, X), T # <<>>, Grows(T[1], N, X),
           ~Harmless(T[1]), \A n \in DOMAIN K: (n \in DOMAIN N /\ K[n] = N[n]) \/ K[n] \notin X
    PROVE  Pending(Tail(T), K, X)
<1>1. PICK S: T \in Seq(S)
  BY DEF Pending, AllQuiet, GrowsFirst, MovesOnce, AreSteps
<1> DEFINE R == Tail(T)
<1>2. /\ R \in Seq(S) /\ Len(R) = Len(T) - 1 /\ Len(T) \in Nat \ {0}
      /\ \A i \in 1 .. Len(R): R[i] = T[i + 1] /\ i + 1 \in 2 .. Len(T)
  <2>1. Len(T) \in Nat \ {0}
    BY <1>1, EmptySeq
  <2>2. /\ R \in Seq(S) /\ Len(R) = Len(T) - 1
        /\ \A i \in 1 .. Len(R): R[i] = T[i + 1]
    BY <1>1, HeadTailProperties
  <2> HIDE DEF R
  <2> QED
    BY <2>1, <2>2
<1> HIDE DEF R
<1>3. ~Quiet(T[1], N, X) /\ ~Moves(T[1], N)
  BY DEF Quiet, Grows, Moves
<1>4. GrowsFirst(T, N, X)
  <2>1. ~AllQuiet(T, N, X)
    BY <1>2, <1>3 DEF AllQuiet
  <2>2. ~MovesOnce(T, N)
    BY <1>2, <1>3 DEF MovesOnce
  <2> QED
    BY <2>1, <2>2 DEF Pending
<1>5. \A s: Quiet(s, N, X) => Quiet(s, K, X)
  <2>1. \A p: Removable(p, N, X) => Removable(p, K, X)
    BY DEF Removable, Below
  <2> QED
    BY <2>1 DEF Quiet
<1>6. AreSteps(R)
  BY <1>2 DEF AreSteps
<1> QED
  BY <1>2, <1>4, <1>5, <1>6 DEF GrowsFirst, AllQuiet, Pending, R

\* ... and after one that moved some.
LEMMA RestAfterMove ==
    ASSUME NEW T, NEW N, NEW X, NEW K, Pending(T, N, X), T # <<>>, T[1].do = "move"
    PROVE  Moves(T[1], N) /\ Pending(Tail(T), K, X)
<1>1. PICK S: T \in Seq(S)
  BY DEF Pending, AllQuiet, GrowsFirst, MovesOnce, AreSteps
<1> DEFINE R == Tail(T)
<1>2. /\ R \in Seq(S) /\ Len(R) = Len(T) - 1 /\ Len(T) \in Nat \ {0}
      /\ \A i \in 1 .. Len(R): R[i] = T[i + 1] /\ i + 1 \in 2 .. Len(T)
  <2>1. Len(T) \in Nat \ {0}
    BY <1>1, EmptySeq
  <2>2. /\ R \in Seq(S) /\ Len(R) = Len(T) - 1
        /\ \A i \in 1 .. Len(R): R[i] = T[i + 1]
    BY <1>1, HeadTailProperties
  <2> HIDE DEF R
  <2> QED
    BY <2>1, <2>2
<1> HIDE DEF R
<1>3. ~Quiet(T[1], N, X) /\ ~Grows(T[1], N, X) /\ ~Harmless(T[1])
  BY DEF Quiet, Harmless, Grows
<1>4. MovesOnce(T, N)
  BY <1>2, <1>3 DEF Pending, AllQuiet, GrowsFirst
<1>5. PICK k \in 1 .. Len(T): /\ Moves(T[k], N)
                              /\ \A i \in 1 .. Len(T): i # k => Harmless(T[i])
  BY <1>4 DEF MovesOnce
<1>6. k = 1
  BY <1>2, <1>3, <1>5
<1>7. AllHarmless(R)
  BY <1>2, <1>5, <1>6 DEF AllHarmless, AreSteps
<1> QED
  BY <1>5, <1>6, <1>7, StepsAfter DEF Pending, R

-----------------------------------------------------------------------------
(* The invariant *)

\* What is on the disk hangs together.
Tree == Rooted(dirs, notes) /\ IsFiniteSet(DOMAIN conf)

\* Ids and texts were given out.
Numbers == next \in Nat \ {0} /\ known \cup call.gain \cup texts \subseteq 1 .. next - 1

\* What is left of the running call.
Calls ==
    /\ DOMAIN call = {"todo", "about", "gain"}
    /\ Running => call.todo # <<>>
    /\ Pending(call.todo, notes, texts)

IInv == Tree /\ Numbers /\ Calls /\ NothingLost

\* The steps of the running call.
LEMMA StepsLeft ==
    ASSUME IInv, Running
    PROVE  /\ Len(call.todo) \in Nat \ {0} /\ Step = call.todo[1]
           /\ Len(call.todo) # 1 => Tail(call.todo) # <<>>
           /\ Pending(call.todo, notes, texts) /\ call.todo # <<>>
<1>1. PICK S: call.todo \in Seq(S)
  BY DEF IInv, Calls, Pending, AllQuiet, GrowsFirst, MovesOnce, AreSteps
<1>2. call.todo # <<>> /\ Pending(call.todo, notes, texts)
  BY DEF IInv, Calls
<1>3. Len(call.todo) \in Nat \ {0}
  BY <1>1, <1>2, EmptySeq
<1>4. Len(Tail(call.todo)) = Len(call.todo) - 1 /\ Step = call.todo[1]
  BY <1>1, <1>2, HeadTailProperties DEF Step
<1>5. Len(<<>>) = 0
  BY EmptySeq
<1>6. ASSUME Tail(call.todo) = <<>> PROVE Len(call.todo) = 1
  <2>1. Len(Tail(call.todo)) = 0
    BY <1>5, <1>6
  <2> QED
    BY <1>3, <1>4, <2>1
<1> QED
  BY <1>2, <1>3, <1>4, <1>6

\* No call is running.
LEMMA IdlePending == Idle.todo = <<>> /\ Idle.gain = {} /\ DOMAIN Idle = {"todo", "about", "gain"}
BY DEF Idle

\* A call that returns, with an error or because the process ends.
LEMMA ReturnKeeps ==
    ASSUME IInv, call' = Idle, next' = next, known' = known, texts' = texts,
           Rooted(dirs', notes'), IsFiniteSet(DOMAIN conf'), texts \subseteq Range(notes')
    PROVE  IInv'
<1>1. Tree' /\ NothingLost'
  BY DEF Tree, NothingLost
<1>2. Numbers'
  BY IdlePending DEF IInv, Numbers
<1>3. Calls'
  BY IdlePending, NothingPending DEF Calls, Running
<1> QED
  BY <1>1, <1>2, <1>3 DEF IInv

\* A step after which the call goes on.
LEMMA TailKeeps ==
    ASSUME IInv, Running, next' = next, known' \subseteq known \cup call.gain,
           NEW G \in SUBSET call.gain, Len(call.todo) # 1,
           call' = [call EXCEPT !.todo = Tail(@)]
               \/ call' = [call EXCEPT !.todo = Tail(@), !.gain = {}],
           texts' = texts, Rooted(dirs', notes'), IsFiniteSet(DOMAIN conf'),
           texts \subseteq Range(notes'), Pending(Tail(call.todo), notes', texts)
    PROVE  IInv'
<1>1. Tree' /\ NothingLost'
  BY DEF Tree, NothingLost
<1>2. call'.todo = Tail(call.todo) /\ call'.gain \subseteq call.gain /\ DOMAIN call' = DOMAIN call
  BY DEF IInv, Calls
<1>3. Numbers'
  BY <1>2 DEF IInv, Numbers
<1>4. Calls'
  BY <1>2, StepsLeft DEF IInv, Calls
<1> QED
  BY <1>1, <1>3, <1>4 DEF IInv

\* A step that was done: what is reported at the end has texts of notes that are there.
LEMMA DoneKeeps ==
    ASSUME IInv, Running, Done, Rooted(dirs', notes'), IsFiniteSet(DOMAIN conf'),
           texts \subseteq Range(notes'), Pending(Tail(call.todo), notes', texts)
    PROVE  IInv'
<1>1. next' = next
  BY DEF Done
<1>2. CASE Len(call.todo) = 1
  <2>1. /\ call' = Idle /\ known' \subseteq known \cup call.gain
        /\ texts' = texts \cup (call.gain \cap Range(notes'))
    BY <1>2 DEF Done
  <2>2. Tree' /\ NothingLost'
    BY <2>1 DEF Tree, NothingLost
  <2>3. Numbers'
    BY <1>1, <2>1, IdlePending DEF IInv, Numbers
  <2>4. Calls'
    BY <2>1, IdlePending, NothingPending DEF Calls, Running
  <2> QED
    BY <2>2, <2>3, <2>4 DEF IInv
<1>3. CASE Len(call.todo) # 1
  <2>1. /\ call' = [call EXCEPT !.todo = Tail(@)] /\ known' \subseteq known \cup call.gain
        /\ texts' = texts
    BY <1>3 DEF Done
  <2> QED
    BY <1>1, <1>3, <2>1, TailKeeps
<1> QED
  BY <1>2, <1>3

\* A step that failed.
LEMMA FailureKeeps ==
    ASSUME IInv, Running, FailureOf(Step), Rooted(dirs', notes'), IsFiniteSet(DOMAIN conf'),
           texts \subseteq Range(notes'), Step.soft => Pending(Tail(call.todo), notes', texts)
    PROVE  IInv'
<1>1. CASE Step.soft
  <2>1. GoOn
    BY <1>1 DEF FailureOf
  <2>2. next' = next /\ known' = known /\ texts' = texts
    BY <2>1 DEF GoOn
  <2>3. CASE Len(call.todo) = 1
    BY <2>1, <2>2, <2>3, ReturnKeeps DEF GoOn
  <2>4. CASE Len(call.todo) # 1
    <3>1. call' = [call EXCEPT !.todo = Tail(@), !.gain = {}]
      BY <2>1, <2>4 DEF GoOn
    <3> QED
      BY <1>1, <2>2, <2>4, <3>1, TailKeeps
  <2> QED
    BY <2>3, <2>4
<1>2. CASE ~Step.soft
  <2>1. GiveUp
    BY <1>2 DEF FailureOf
  <2> QED
    BY <2>1, ReturnKeeps DEF GiveUp
<1> QED
  BY <1>1, <1>2

\* A step that leaves the content alone.
LEMMA OtherStep ==
    ASSUME IInv, Running, dirs' = dirs, notes' = notes, IsFiniteSet(DOMAIN conf'),
           Step.do \notin {"grow", "move"}, Done \/ FailureOf(Step) \/ GiveUp
    PROVE  IInv'
<1>1. Rooted(dirs', notes') /\ texts \subseteq Range(notes')
  BY DEF IInv, Tree, NothingLost
<1>2. Pending(Tail(call.todo), notes', texts)
  <2>1. /\ ~Moves(call.todo[1], notes) /\ ~Grows(call.todo[1], notes, texts)
    BY StepsLeft DEF Moves, Grows
  <2> QED
    BY <2>1, StepsLeft, RestAfterOther
<1>3. CASE Done
  BY <1>1, <1>2, <1>3, DoneKeeps
<1>4. CASE FailureOf(Step)
  BY <1>1, <1>2, <1>4, FailureKeeps
<1>5. CASE GiveUp
  BY <1>1, <1>5, ReturnKeeps DEF GiveUp
<1> QED
  BY <1>3, <1>4, <1>5

\* A call that begins.
LEMMA BeginKeeps ==
    ASSUME IInv, NEW todo, NEW about, NEW lose, NEW gain, NEW count \in Nat,
           Begin(todo, about, lose, gain, count), texts' \subseteq texts,
           gain \subseteq 1 .. next + count - 1, todo # <<>>, Pending(todo, notes, texts')
    PROVE  IInv'
<1>1. /\ call' = [todo |-> todo, about |-> about, gain |-> gain]
      /\ known' \subseteq known /\ next' = next + count
      /\ dirs' = dirs /\ notes' = notes /\ conf' = conf
  BY DEF Begin, disk
<1>2. Tree' /\ NothingLost'
  BY <1>1 DEF IInv, Tree, NothingLost
<1>3. Numbers'
  <2>1. next \in Nat \ {0} /\ known \cup texts \subseteq 1 .. next - 1
    BY DEF IInv, Numbers
  <2>2. next' \in Nat \ {0} /\ next - 1 <= next' - 1 /\ next' - 1 = next + count - 1
    BY <1>1, <2>1
  <2>3. known' \subseteq 1 .. next' - 1 /\ texts' \subseteq 1 .. next' - 1
    BY <1>1, <2>1, <2>2
  <2>4. call'.gain = gain /\ gain \subseteq 1 .. next' - 1
    BY <1>1, <2>2
  <2> QED
    BY <2>2, <2>3, <2>4 DEF Numbers
<1>4. Calls'
  BY <1>1 DEF Calls
<1> QED
  BY <1>2, <1>3, <1>4 DEF IInv

-----------------------------------------------------------------------------
(* The steps *)

\* Rows, configs and the cache are about folders; the disk keeps its finitely many.
LEMMA FiniteConfigs ==
    ASSUME NEW f, IsFiniteSet(DOMAIN f)
    PROVE  /\ \A x, v: IsFiniteSet(DOMAIN With(f, x, v))
           /\ \A S: IsFiniteSet(DOMAIN Without(f, S))
           /\ \A ids: IsFiniteSet(DOMAIN CaughtUp(f, ids))
           /\ \A from, to: IsFiniteSet(DOMAIN Relocate(f, from, to))
<1>1. ASSUME NEW x, NEW v PROVE IsFiniteSet(DOMAIN With(f, x, v))
  <2>1. DOMAIN With(f, x, v) = DOMAIN f \cup {x}
    BY DEF With, Over, Single
  <2> QED
    BY <2>1, FS_AddElement
<1>2. ASSUME NEW S PROVE IsFiniteSet(DOMAIN Without(f, S))
  <2>1. DOMAIN Without(f, S) \in SUBSET (DOMAIN f)
    BY DEF Without, Restrict
  <2> QED
    BY <2>1, FS_Subset
<1>3. ASSUME NEW ids PROVE IsFiniteSet(DOMAIN CaughtUp(f, ids))
  BY DEF CaughtUp
<1>4. ASSUME NEW from, NEW to PROVE IsFiniteSet(DOMAIN Relocate(f, from, to))
  <2> DEFINE B == Below(from, DOMAIN f)
             T == {Rebase(r, from, to): r \in B}
             g == [r \in B |-> Rebase(r, from, to)]
  <2>1. DOMAIN Relocate(f, from, to) = (DOMAIN f \ B) \cup T
    BY DEF Relocate
  <2>2. B \in SUBSET (DOMAIN f) /\ DOMAIN f \ B \in SUBSET (DOMAIN f)
    BY DEF Below
  <2>3. g \in [B -> T] /\ T = {g[r]: r \in B}
    OBVIOUS
  <2> HIDE DEF B, T, g
  <2>4. IsFiniteSet(B) /\ IsFiniteSet(DOMAIN f \ B)
    BY <2>2, FS_Subset
  <2>5. IsFiniteSet(T)
    BY <2>3, <2>4, FiniteImage
  <2> QED
    BY <2>1, <2>4, <2>5, FS_Union
<1> QED
  BY <1>1, <1>2, <1>3, <1>4

\* The steps on the content keep the tree and its texts.
LEMMA ContentSteps ==
    ASSUME IInv,
           \/ Grown \/ Moved \/ MoveFails \/ Deleted \/ DeleteFails
           \/ \E partly \in BOOLEAN: GrowFails(partly)
    PROVE  IInv'
<1>1. Rooted(dirs, notes) /\ IsFiniteSet(DOMAIN conf) /\ texts \subseteq Range(notes)
  BY DEF IInv, Tree, NothingLost
<1>2. ASSUME Running, At("grow")
      PROVE  /\ Closed(Step.dirs) /\ IsFiniteSet(DOMAIN Step.notes)
             /\ DOMAIN Step.notes \subseteq Homes(Folders)
             /\ DOMAIN Step.notes \cap DOMAIN notes = {}
             /\ \A K: (\A n \in DOMAIN K: \/ n \in DOMAIN notes /\ K[n] = notes[n]
                                          \/ n \in DOMAIN Step.notes /\ K[n] = Step.notes[n])
                          => Pending(Tail(call.todo), K, texts)
  <2>1. Step.do = "grow" /\ Step = call.todo[1] /\ Pending(call.todo, notes, texts)
        /\ call.todo # <<>> /\ Len(call.todo) \in Nat \ {0}
    BY <1>2, StepsLeft DEF At
  <2>2. CASE Harmless(Step)
    <3>1. Closed(Step.dirs) /\ DOMAIN Step.notes = {}
      BY <2>1, <2>2 DEF Harmless
    <3>2. ~Moves(Step, notes)
      BY <2>1 DEF Moves
    <3> QED
      BY <2>1, <2>2, <3>1, <3>2, RestAfterOther, FS_EmptySet
  <2>3. CASE ~Harmless(Step)
    <3>1. Grows(Step, notes, texts)
      <4>1. ~Quiet(Step, notes, texts) /\ ~Moves(Step, notes)
        BY <2>1, <2>3 DEF Quiet, Moves
      <4> QED
        BY <2>1, <2>3, <4>1 DEF Pending, AllQuiet, GrowsFirst, MovesOnce
    <3>2. ASSUME NEW K,
                 \A n \in DOMAIN K: \/ n \in DOMAIN notes /\ K[n] = notes[n]
                                    \/ n \in DOMAIN Step.notes /\ K[n] = Step.notes[n]
          PROVE  Pending(Tail(call.todo), K, texts)
      <4>1. \A n \in DOMAIN K: (n \in DOMAIN notes /\ K[n] = notes[n]) \/ K[n] \notin texts
        BY <3>1, <3>2 DEF Grows
      <4> QED
        BY <2>1, <2>3, <3>1, <4>1, RestAfterGrow
    <3> QED
      BY <3>1, <3>2 DEF Grows
  <2> QED
    BY <2>2, <2>3
<1>3. CASE Grown
  <2>1. /\ At("grow") /\ Running /\ Done /\ conf' = conf
        /\ \A n \in DOMAIN Step.notes: Front(n) \in dirs \cup Step.dirs
        /\ dirs' = dirs \cup Step.dirs /\ notes' = Over(Step.notes, notes)
    BY <1>3 DEF Grown, At
  <2>2. /\ Rooted(dirs', notes') /\ Range(notes) \subseteq Range(notes')
        /\ \A n \in DOMAIN notes': \/ n \in DOMAIN notes /\ notes'[n] = notes[n]
                                   \/ n \in DOMAIN Step.notes /\ notes'[n] = Step.notes[n]
    BY <1>1, <1>2, <2>1, GrowRoots
  <2>3. Pending(Tail(call.todo), notes', texts)
    BY <1>2, <2>1, <2>2
  <2> QED
    BY <1>1, <2>1, <2>2, <2>3, DoneKeeps
<1>4. ASSUME NEW partly \in BOOLEAN, GrowFails(partly) PROVE IInv'
  <2>1. At("grow") /\ Running /\ FailureOf(Step) /\ conf' = conf
    BY <1>4 DEF GrowFails, At
  <2>2. CASE partly
    <3>1. /\ \A n \in DOMAIN Step.notes: Front(n) \in dirs \cup Step.dirs
          /\ dirs' = dirs \cup Step.dirs
          /\ notes' = Over(Step.notes, notes) \/ notes' = notes
      BY <1>4, <2>2 DEF GrowFails
    <3>2. /\ Rooted(dirs', notes') /\ Range(notes) \subseteq Range(notes')
          /\ \A n \in DOMAIN notes': \/ n \in DOMAIN notes /\ notes'[n] = notes[n]
                                     \/ n \in DOMAIN Step.notes /\ notes'[n] = Step.notes[n]
      <4>1. /\ Rooted(dirs', notes)
            /\ Rooted(dirs', Over(Step.notes, notes))
            /\ Range(notes) \subseteq Range(Over(Step.notes, notes))
            /\ \A n \in DOMAIN Over(Step.notes, notes):
                  \/ n \in DOMAIN notes /\ Over(Step.notes, notes)[n] = notes[n]
                  \/ n \in DOMAIN Step.notes /\ Over(Step.notes, notes)[n] = Step.notes[n]
        BY <1>1, <1>2, <2>1, <3>1, GrowRoots
      <4>2. CASE notes' = notes
        BY <4>1, <4>2
      <4>3. CASE notes' = Over(Step.notes, notes)
        BY <4>1, <4>3
      <4> QED
        BY <3>1, <4>2, <4>3
    <3>3. Pending(Tail(call.todo), notes', texts)
      BY <1>2, <2>1, <3>2
    <3> QED
      BY <1>1, <2>1, <3>2, <3>3, FailureKeeps
  <2>3. CASE ~partly
    <3>1. dirs' = dirs /\ notes' = notes
      BY <1>4, <2>3 DEF GrowFails
    <3>2. Pending(Tail(call.todo), notes', texts)
      BY <1>2, <2>1, <3>1
    <3> QED
      BY <1>1, <2>1, <3>1, <3>2, FailureKeeps
  <2> QED
    BY <2>2, <2>3
<1>5. CASE Moved
  <2>1. /\ Step.do = "move" /\ Running /\ Done /\ conf' = conf
        /\ Front(Step.to) \in dirs /\ ~Within(Step.from, Step.to)
        /\ dirs' = (dirs \ Below(Step.from, dirs))
                      \cup {Rebase(d, Step.from, Step.to): d \in Below(Step.from, dirs)}
        /\ notes' = Relocate(notes, Step.from, Step.to)
    BY <1>5 DEF Moved, At, CanMove
  <2>2. Moves(Step, notes) /\ Pending(Tail(call.todo), notes', texts)
    BY <2>1, StepsLeft, RestAfterMove
  <2>3. Rooted(dirs', notes') /\ Range(notes) \subseteq Range(notes')
    BY <1>1, <2>1, <2>2, MoveRoots DEF Moves
  <2> QED
    BY <1>1, <2>1, <2>2, <2>3, DoneKeeps
<1>6. CASE MoveFails \/ DeleteFails
  <2>1. GiveUp /\ dirs' = dirs /\ notes' = notes /\ conf' = conf
    BY <1>6 DEF MoveFails, DeleteFails, disk
  <2> QED
    BY <1>1, <2>1, ReturnKeeps DEF GiveUp
<1>7. CASE Deleted
  <2> DEFINE p == Step.at
             K == NotesLeft(notes, {p})
             D == DirsLeft(dirs, {p})
  <2>1. /\ Step.do = "delete" /\ Running /\ Done /\ conf' = conf
        /\ dirs' = D /\ notes' = K
    <3>1. D = dirs \ Below(p, dirs) /\ K = Without(notes, Below(p, DOMAIN notes))
      BY DEF DirsLeft, NotesLeft
    <3> QED
      BY <1>7, <3>1 DEF Deleted, At
  <2>2. Removable(p, notes, texts)
    <3>1. /\ Step.do = "delete" /\ Step = call.todo[1] /\ Pending(call.todo, notes, texts)
          /\ Len(call.todo) \in Nat \ {0}
      BY <2>1, StepsLeft
    <3>2. ~Moves(Step, notes) /\ ~Harmless(Step) /\ ~Grows(Step, notes, texts)
      BY <3>1 DEF Moves, Harmless, Grows
    <3>3. Quiet(Step, notes, texts)
      BY <3>1, <3>2 DEF Pending, AllQuiet, GrowsFirst, MovesOnce
    <3> QED
      BY <3>1, <3>2, <3>3 DEF Quiet
  <2>3. {p} \in SUBSET AnyPath
    BY <2>2 DEF Removable
  <2> HIDE DEF p
  <2>4. /\ Rooted(D, K)
        /\ \A n \in DOMAIN K: n \in DOMAIN notes /\ K[n] = notes[n]
        /\ \A n \in DOMAIN notes: (\A x \in {p}: ~Within(x, n)) => n \in DOMAIN K
    BY <1>1, <2>3, RemoveRoots
  <2> HIDE DEF K, D
  <2>5. texts \subseteq Range(K)
    BY <1>1, <2>2, <2>4 DEF Removable, Below, Range
  <2>6. Pending(Tail(call.todo), K, texts)
    <3>1. ~Moves(call.todo[1], notes) /\ ~Grows(call.todo[1], notes, texts)
      BY <2>1, StepsLeft DEF Moves, Grows
    <3> QED
      BY <2>1, <2>4, <3>1, StepsLeft, RestAfterOther
  <2> QED
    BY <1>1, <2>1, <2>4, <2>5, <2>6, DoneKeeps
<1> QED
  BY <1>3, <1>4, <1>5, <1>6, <1>7

\* So do the steps on the vx.json files, the cache and the rows.
LEMMA OtherSteps ==
    ASSUME IInv,
           \/ Saved \/ \E remains \in WriteRemains: SaveFails(remains)
           \/ ConfigMoved \/ ConfigsMoved \/ ConfigsCopied \/ ConfigsDropped \/ ConfigStepFails
           \/ MemoryStep \/ RowStep
    PROVE  IInv'
<1>1. Rooted(dirs, notes) /\ IsFiniteSet(DOMAIN conf) /\ texts \subseteq Range(notes)
  BY DEF IInv, Tree, NothingLost
<1>2. ASSUME Saved \/ ConfigMoved \/ ConfigsMoved \/ ConfigsDropped PROVE IInv'
  <2>1. /\ Running /\ Done /\ dirs' = dirs /\ notes' = notes /\ Step.do \notin {"grow", "move"}
    BY <1>2 DEF Saved, ConfigMoved, ConfigsMoved, ConfigsDropped, At
  <2>2. IsFiniteSet(DOMAIN conf')
    <3>1. CASE Saved
      BY <1>1, <3>1, FiniteConfigs DEF Saved
    <3>2. CASE ConfigMoved
      <4>1. IsFiniteSet(DOMAIN Without(conf, {Step.from}))
        BY <1>1, FiniteConfigs
      <4> QED
        BY <3>2, <4>1, FiniteConfigs DEF ConfigMoved
    <3>3. CASE ConfigsMoved
      BY <1>1, <3>3, FiniteConfigs DEF ConfigsMoved
    <3>4. CASE ConfigsDropped
      BY <1>1, <3>4, FiniteConfigs DEF ConfigsDropped
    <3> QED
      BY <1>2, <3>1, <3>2, <3>3, <3>4
  <2> QED
    BY <2>1, <2>2, OtherStep
<1>3. ASSUME ConfigsCopied PROVE IInv'
  <2> DEFINE B == Below(Step.from, DOMAIN conf)
             T == {Rebase(r, Step.from, Step.to): r \in B}
             g == [r \in B |-> Rebase(r, Step.from, Step.to)]
  <2>1. /\ Running /\ Done /\ dirs' = dirs /\ notes' = notes /\ Step.do \notin {"grow", "move"}
        /\ DOMAIN conf' = T \cup DOMAIN conf
    BY <1>3 DEF ConfigsCopied, At, Over
  <2>2. B \in SUBSET (DOMAIN conf) /\ g \in [B -> T] /\ T = {g[r]: r \in B}
    BY DEF Below
  <2> HIDE DEF B, T, g
  <2>3. IsFiniteSet(DOMAIN conf')
    <3>1. IsFiniteSet(B)
      BY <1>1, <2>2, FS_Subset
    <3>2. IsFiniteSet(T)
      BY <2>2, <3>1, FiniteImage
    <3> QED
      BY <1>1, <2>1, <3>2, FS_Union
  <2> QED
    BY <2>1, <2>3, OtherStep
<1>4. ASSUME NEW remains \in WriteRemains, SaveFails(remains) PROVE IInv'
  <2> DEFINE U == Step.undo
             K == NotesLeft(notes, U)
             D == DirsLeft(dirs, U)
  <2>1. /\ Step.do = "save" /\ Running /\ FailureOf(Step)
        /\ dirs' = D /\ notes' = K
        /\ conf' = conf \/ conf' = With(conf, Step.at, TornConfig)
    BY <1>4 DEF SaveFails, At, DirsLeft, NotesLeft
  <2>2. IsFiniteSet(DOMAIN conf')
    BY <1>1, <2>1, FiniteConfigs
  <2>3. \A p \in U: Removable(p, notes, texts)
    <3>1. /\ Step.do = "save" /\ Step = call.todo[1] /\ Pending(call.todo, notes, texts)
          /\ Len(call.todo) \in Nat \ {0}
      BY <2>1, StepsLeft
    <3>2. ~Moves(Step, notes) /\ ~Grows(Step, notes, texts)
      BY <3>1 DEF Moves, Grows
    <3>3. Quiet(Step, notes, texts)
      BY <3>1, <3>2 DEF Pending, AllQuiet, GrowsFirst, MovesOnce, Quiet
    <3> QED
      BY <3>1, <3>3 DEF Quiet, Harmless
  <2>4. U \in SUBSET AnyPath
    BY <2>3 DEF Removable
  <2> HIDE DEF U
  <2>5. /\ Rooted(D, K)
        /\ \A n \in DOMAIN K: n \in DOMAIN notes /\ K[n] = notes[n]
        /\ \A n \in DOMAIN notes: (\A p \in U: ~Within(p, n)) => n \in DOMAIN K
    BY <1>1, <2>4, RemoveRoots
  <2> HIDE DEF K, D
  <2>6. texts \subseteq Range(K)
    <3> SUFFICES ASSUME NEW x \in texts PROVE x \in Range(K)
      OBVIOUS
    <3>1. PICK n \in DOMAIN notes: notes[n] = x
      BY <1>1 DEF Range
    <3>2. \A p \in U: ~Within(p, n)
      BY <2>3, <3>1 DEF Removable, Below
    <3> QED
      BY <2>5, <3>1, <3>2 DEF Range
  <2>7. Pending(Tail(call.todo), K, texts)
    <3>1. ~Moves(call.todo[1], notes) /\ ~Grows(call.todo[1], notes, texts)
      BY <2>1, StepsLeft DEF Moves, Grows
    <3> QED
      BY <2>1, <2>5, <3>1, StepsLeft, RestAfterOther
  <2> QED
    BY <2>1, <2>2, <2>5, <2>6, <2>7, FailureKeeps
<1>5. ASSUME ConfigStepFails PROVE IInv'
  <2>1. /\ Running /\ FailureOf(Step) /\ dirs' = dirs /\ notes' = notes /\ conf' = conf
        /\ Step.do \notin {"grow", "move"}
    BY <1>5 DEF ConfigStepFails, At, disk
  <2> QED
    BY <1>1, <2>1, OtherStep
<1>6. ASSUME MemoryStep PROVE IInv'
  <2>1. /\ Running /\ (Done \/ GiveUp)
        /\ dirs' = dirs /\ notes' = notes /\ conf' = conf
        /\ Step.do \notin {"grow", "move"}
    BY <1>6 DEF MemoryStep, Remembered, Forgotten, Returned, At, disk
  <2> QED
    BY <1>1, <2>1, OtherStep
<1>7. ASSUME RowStep PROVE IInv'
  <2>1. /\ Running /\ Done /\ dirs' = dirs /\ notes' = notes
        /\ conf' = conf \/ \E ids: conf' = CaughtUp(conf, ids)
        /\ Step.do \notin {"grow", "move"}
    <3>1. CASE FolderRowPut
      BY <3>1 DEF FolderRowPut, RowIsLater, At
    <3>2. CASE FolderRowUpdated
      BY <3>2 DEF FolderRowUpdated, RowIsLater, At, disk
    <3>3. CASE FolderRowMoved
      BY <3>3 DEF FolderRowMoved, RowIsLater, At, disk
    <3>4. CASE FolderRowDropped \/ NoteRowsPut \/ NoteRowUpdated \/ NoteRowMoved
                  \/ NoteRowTagged \/ NoteRowDropped
      BY <3>4 DEF FolderRowDropped, NoteRowsPut, NoteRowUpdated, NoteRowMoved, NoteRowTagged,
                  NoteRowDropped, At, disk
    <3> QED
      BY <1>7, <3>1, <3>2, <3>3, <3>4 DEF RowStep
  <2>2. IsFiniteSet(DOMAIN conf')
    BY <1>1, <2>1, FiniteConfigs
  <2> QED
    BY <2>1, <2>2, OtherStep
<1> QED
  BY <1>2, <1>3, <1>4, <1>5, <1>6, <1>7

\* And what happens between and instead of calls.
LEMMA ProcessSteps ==
    ASSUME IInv,
           \/ \E p \in Listed: OpenFolder(p)
           \/ RebuildCache \/ Quit \/ CloseNotebook
           \/ \E remains \in WriteRemains: Crash(remains)
    PROVE  IInv'
<1>1. Rooted(dirs, notes) /\ IsFiniteSet(DOMAIN conf) /\ texts \subseteq Range(notes)
  BY DEF IInv, Tree, NothingLost
<1>2. ASSUME Quit \/ CloseNotebook \/ \E remains \in WriteRemains: Crash(remains) PROVE IInv'
  <2>1. /\ call' = Idle /\ next' = next /\ known' = known /\ texts' = texts
        /\ dirs' = dirs /\ notes' = notes
        /\ conf' = conf \/ conf' = With(conf, Step.at, TornConfig)
    BY <1>2 DEF Quit, CloseNotebook, Crash, Restarted, disk
  <2>2. IsFiniteSet(DOMAIN conf')
    BY <1>1, <2>1, FiniteConfigs
  <2> QED
    BY <1>1, <2>1, <2>2, ReturnKeeps
<1>3. ASSUME RebuildCache \/ \E p \in Listed: OpenFolder(p) PROVE IInv'
  <2>1. /\ dirs' = dirs /\ notes' = notes /\ call' = call /\ texts' = texts
        /\ known' = known /\ next' = next /\ \E ids: conf' = CaughtUp(conf, ids)
    BY <1>3 DEF RebuildCache, OpenFolder, observed
  <2>2. IsFiniteSet(DOMAIN conf')
    BY <1>1, <2>1, FiniteConfigs
  <2> QED
    BY <2>1, <2>2 DEF IInv, Tree, Numbers, Calls, Running, NothingLost
<1> QED
  BY <1>2, <1>3

-----------------------------------------------------------------------------
(* What calls leave to be done *)

\* The paths of the model.
LEMMA ShownFolders ==
    /\ Paths \subseteq Folders /\ Listed \subseteq Folders /\ Shown \subseteq Folders
    /\ Folders \subseteq AnyPath
BY DEF Paths, Folders, Listed, Shown, AnyPath

\* A folder's subfolder and its parent.
LEMMA FolderPlace ==
    /\ \A d \in Folders, n \in Names:
          Append(d, n) \in Folders /\ Append(d, n) # <<>> /\ Within(d, Append(d, n))
    /\ \A d \in Folders \ {Root}: Front(d) \in Folders /\ Last(d) \in Names
<1>1. ASSUME NEW d \in Folders, NEW n \in Names
      PROVE  Append(d, n) \in Folders /\ Append(d, n) # <<>> /\ Within(d, Append(d, n))
  <2>1. d \in Seq(Names)
    BY DEF Folders
  <2>2. /\ Append(d, n) \in Seq(Names) /\ Append(d, n) # <<>>
        /\ Len(Append(d, n)) = Len(d) + 1 /\ Len(d) \in Nat
        /\ \A i \in 1 .. Len(d): Append(d, n)[i] = d[i]
    BY <2>1, AppendProperties
  <2>3. Append(d, n) \in Places /\ d \in Places
    BY <2>1, <2>2, FoldersArePlaces DEF Folders
  <2>4. Within(d, Append(d, n))
    <3> DEFINE c == Append(d, n)
    <3>1. c \in Places /\ Len(c) = Len(d) + 1 /\ Len(d) \in Nat /\ \A i \in 1 .. Len(d): c[i] = d[i]
      BY <2>2, <2>3
    <3> HIDE DEF c
    <3>2. Within(d, c)
      BY <2>3, <3>1, PrefixPoints
    <3> QED
      BY <3>2 DEF c
  <2> QED
    BY <2>2, <2>4 DEF Folders
<1>2. ASSUME NEW d \in Folders \ {Root}
      PROVE  Front(d) \in Folders /\ Last(d) \in Names
  <2>1. d \in Seq(Names) /\ Len(d) \in Nat \ {0}
    BY EmptySeq DEF Folders, Root
  <2>2. \A i \in 1 .. Len(d) - 1: d[i] \in Names
    BY <2>1
  <2>3. SubSeq(d, 1, Len(d) - 1) \in Seq(Names)
    BY <2>1, <2>2, SubSeqProperties
  <2> QED
    BY <2>1, <2>3 DEF Front, Last, Folders
<1> QED
  BY <1>1, <1>2

\* A note is no folder.
LEMMA NoteIsNoFolder ==
    ASSUME NEW d \in Folders, NEW f \in Files
    PROVE  Append(d, f) \in AnyPath \ Folders /\ Append(d, f) # <<>>
<1>1. /\ Append(d, f) \in AnyPath /\ Append(d, f) \in Places
      /\ Len(d) \in Nat /\ Len(Append(d, f)) = Len(d) + 1
  BY NotePlace
<1>2. Append(d, f) \notin Folders
  BY <1>1, NoteNeighbours, PrefixChain
<1>3. Len(<<>>) = 0
  BY EmptySeq
<1> QED
  BY <1>1, <1>2, <1>3

\* A few steps.
LEMMA FewSteps ==
    /\ \A a: AreSteps(<<a>>) /\ Len(<<a>>) = 1 /\ <<a>>[1] = a
    /\ \A a, b: AreSteps(<<a, b>>) /\ Len(<<a, b>>) = 2 /\ <<a, b>>[1] = a /\ <<a, b>>[2] = b
    /\ \A a, b, c:
          /\ AreSteps(<<a, b, c>>) /\ Len(<<a, b, c>>) = 3
          /\ <<a, b, c>>[1] = a /\ <<a, b, c>>[2] = b /\ <<a, b, c>>[3] = c
    /\ \A a, b, c, d:
          /\ AreSteps(<<a, b, c, d>>) /\ Len(<<a, b, c, d>>) = 4
          /\ <<a, b, c, d>>[1] = a /\ <<a, b, c, d>>[2] = b /\ <<a, b, c, d>>[3] = c
          /\ <<a, b, c, d>>[4] = d
    /\ \A a, b, c, d, e:
          /\ AreSteps(<<a, b, c, d, e>>) /\ Len(<<a, b, c, d, e>>) = 5
          /\ <<a, b, c, d, e>>[1] = a /\ <<a, b, c, d, e>>[2] = b /\ <<a, b, c, d, e>>[3] = c
          /\ <<a, b, c, d, e>>[4] = d /\ <<a, b, c, d, e>>[5] = e
<1>1. ASSUME NEW a, NEW b, NEW c, NEW d, NEW e, NEW S, S = {a, b, c, d, e}
      PROVE  /\ <<a>> \in Seq(S) /\ <<a, b>> \in Seq(S) /\ <<a, b, c>> \in Seq(S)
             /\ <<a, b, c, d>> \in Seq(S) /\ <<a, b, c, d, e>> \in Seq(S)
  BY <1>1
<1>2. ASSUME NEW a, NEW b, NEW c, NEW d, NEW e
      PROVE  /\ AreSteps(<<a>>) /\ AreSteps(<<a, b>>) /\ AreSteps(<<a, b, c>>)
             /\ AreSteps(<<a, b, c, d>>) /\ AreSteps(<<a, b, c, d, e>>)
  BY <1>1, Zenon DEF AreSteps
<1>3. \A a: AreSteps(<<a>>) /\ Len(<<a>>) = 1 /\ <<a>>[1] = a
  BY <1>2
<1>4. \A a, b: AreSteps(<<a, b>>) /\ Len(<<a, b>>) = 2 /\ <<a, b>>[1] = a /\ <<a, b>>[2] = b
  BY <1>2
<1>5. \A a, b, c:
         /\ AreSteps(<<a, b, c>>) /\ Len(<<a, b, c>>) = 3
         /\ <<a, b, c>>[1] = a /\ <<a, b, c>>[2] = b /\ <<a, b, c>>[3] = c
  BY <1>2
<1>6. \A a, b, c, d:
         /\ AreSteps(<<a, b, c, d>>) /\ Len(<<a, b, c, d>>) = 4
         /\ <<a, b, c, d>>[1] = a /\ <<a, b, c, d>>[2] = b /\ <<a, b, c, d>>[3] = c
         /\ <<a, b, c, d>>[4] = d
  BY <1>2
<1>7. \A a, b, c, d, e:
         /\ AreSteps(<<a, b, c, d, e>>) /\ Len(<<a, b, c, d, e>>) = 5
         /\ <<a, b, c, d, e>>[1] = a /\ <<a, b, c, d, e>>[2] = b /\ <<a, b, c, d, e>>[3] = c
         /\ <<a, b, c, d, e>>[4] = d /\ <<a, b, c, d, e>>[5] = e
  <2> TAKE a, b, c, d, e
  <2>1. AreSteps(<<a, b, c, d, e>>)
    BY <1>2
  <2>2. /\ Len(<<a, b, c, d, e>>) = 5
        /\ <<a, b, c, d, e>>[1] = a /\ <<a, b, c, d, e>>[2] = b /\ <<a, b, c, d, e>>[3] = c
        /\ <<a, b, c, d, e>>[4] = d /\ <<a, b, c, d, e>>[5] = e
    OBVIOUS
  <2> QED
    BY <2>1, <2>2
<1> QED
  BY <1>3, <1>4, <1>5, <1>6, <1>7

\* The same, none of which takes a note ...
LEMMA FewHarmless ==
    ASSUME NEW a, Harmless(a), NEW b, Harmless(b), NEW c, Harmless(c), NEW d, Harmless(d),
           NEW e, Harmless(e)
    PROVE  /\ AllHarmless(<<a>>) /\ AllHarmless(<<a, b>>) /\ AllHarmless(<<a, b, c>>)
           /\ AllHarmless(<<a, b, c, d>>) /\ AllHarmless(<<a, b, c, d, e>>)
<1>1. AllHarmless(<<a>>)
  BY FewSteps DEF AllHarmless
<1>2. AllHarmless(<<a, b>>)
  BY FewSteps DEF AllHarmless
<1>3. AllHarmless(<<a, b, c>>)
  BY FewSteps DEF AllHarmless
<1>4. AllHarmless(<<a, b, c, d>>)
  BY FewSteps DEF AllHarmless
<1>5. AllHarmless(<<a, b, c, d, e>>)
  BY FewSteps DEF AllHarmless
<1> QED
  BY <1>1, <1>2, <1>3, <1>4, <1>5

\* ... and such that do.
LEMMA FewOthers ==
    ASSUME NEW N, NEW X, NEW a, NEW b, NEW c, NEW d
    PROVE  /\ Quiet(a, N, X) => AllQuiet(<<a>>, N, X)
           /\ Quiet(a, N, X) /\ Quiet(b, N, X) /\ Quiet(c, N, X) => AllQuiet(<<a, b, c>>, N, X)
           /\ Moves(a, N) => MovesOnce(<<a>>, N)
           /\ Moves(a, N) /\ Harmless(b) /\ Harmless(c) => MovesOnce(<<a, b, c>>, N)
           /\ Moves(a, N) /\ Harmless(b) /\ Harmless(c) /\ Harmless(d)
                 => MovesOnce(<<a, b, c, d>>, N)
           /\ Grows(a, N, X) => GrowsFirst(<<a>>, N, X)
           /\ Grows(a, N, X) /\ Quiet(b, N, X) => GrowsFirst(<<a, b>>, N, X)
           /\ Grows(a, N, X) /\ Quiet(b, N, X) /\ Quiet(c, N, X)
                 => GrowsFirst(<<a, b, c>>, N, X)
<1>1. ASSUME Quiet(a, N, X) PROVE AllQuiet(<<a>>, N, X)
  BY <1>1, FewSteps DEF AllQuiet
<1>2. ASSUME Quiet(a, N, X), Quiet(b, N, X), Quiet(c, N, X) PROVE AllQuiet(<<a, b, c>>, N, X)
  BY <1>2, FewSteps DEF AllQuiet
<1>3. ASSUME Moves(a, N) PROVE MovesOnce(<<a>>, N)
  BY <1>3, FewSteps DEF MovesOnce
<1>4. ASSUME Moves(a, N), Harmless(b), Harmless(c) PROVE MovesOnce(<<a, b, c>>, N)
  <2>1. \A i \in 1 .. 3: i # 1 => Harmless(<<a, b, c>>[i])
    BY <1>4, FewSteps
  <2>2. 1 \in 1 .. 3 /\ Len(<<a, b, c>>) = 3 /\ <<a, b, c>>[1] = a /\ AreSteps(<<a, b, c>>)
    BY FewSteps
  <2> QED
    BY <1>4, <2>1, <2>2 DEF MovesOnce
<1>5. ASSUME Moves(a, N), Harmless(b), Harmless(c), Harmless(d)
      PROVE  MovesOnce(<<a, b, c, d>>, N)
  <2>1. \A i \in 1 .. 4: i # 1 => Harmless(<<a, b, c, d>>[i])
    BY <1>5, FewSteps
  <2>2. /\ 1 \in 1 .. 4 /\ Len(<<a, b, c, d>>) = 4 /\ <<a, b, c, d>>[1] = a
        /\ AreSteps(<<a, b, c, d>>)
    BY FewSteps
  <2> QED
    BY <1>5, <2>1, <2>2 DEF MovesOnce
<1>6. ASSUME Grows(a, N, X) PROVE GrowsFirst(<<a>>, N, X)
  BY <1>6, FewSteps DEF GrowsFirst
<1>7. ASSUME Grows(a, N, X), Quiet(b, N, X) PROVE GrowsFirst(<<a, b>>, N, X)
  BY <1>7, FewSteps DEF GrowsFirst
<1>8. ASSUME Grows(a, N, X), Quiet(b, N, X), Quiet(c, N, X) PROVE GrowsFirst(<<a, b, c>>, N, X)
  BY <1>8, FewSteps DEF GrowsFirst
<1> QED
  BY <1>1, <1>2, <1>3, <1>4, <1>5, <1>6, <1>7, <1>8

\* Which of the steps take no note.
LEMMA HarmlessSteps ==
    /\ \A p, c: Harmless(SaveCached(p, c)) /\ Harmless(SaveNew(p, c))
                /\ Harmless(SaveNewSoftly(p, c)) /\ Harmless(Remember(p, c))
    /\ \A p, held, c, soft: Harmless(SaveStep(p, held, c, {}, soft))
    /\ \A p, q: Harmless(MoveConfig(p, q)) /\ Harmless(MoveConfigs(p, q))
                /\ Harmless(CopyConfigs(p, q)) /\ Harmless(DropConfigs(p, q))
    /\ \A i, p, n: Harmless(PutRow(i, p, n)) /\ Harmless(UpdateRow(i, n))
                   /\ Harmless(MoveRow(i, p)) /\ Harmless(DropRow(i))
    /\ \A c, f: Harmless(PutNoteRows(c)) /\ Harmless(PutNoteRow(c, f))
    /\ \A i, x: Harmless(UpdateNoteRow(i, x)) /\ Harmless(MoveNoteRow(i, x))
                /\ Harmless(TagNoteRow(i, x)) /\ Harmless(DropNoteRow(i))
    /\ \A x: Harmless(Forget(x)) /\ Harmless(Return(x))
<1>1. \A p, held, c, soft: Harmless(SaveStep(p, held, c, {}, soft))
  BY DEF Harmless, SaveStep
<1>2. \A p, c: Harmless(SaveCached(p, c)) /\ Harmless(SaveNew(p, c))
               /\ Harmless(SaveNewSoftly(p, c)) /\ Harmless(Remember(p, c))
  BY <1>1 DEF Harmless, SaveCached, SaveNew, SaveNewSoftly, Remember
<1>3. \A p, q: Harmless(MoveConfig(p, q)) /\ Harmless(MoveConfigs(p, q))
               /\ Harmless(CopyConfigs(p, q)) /\ Harmless(DropConfigs(p, q))
  BY DEF Harmless, MoveConfig, MoveConfigs, CopyConfigs, DropConfigs
<1>4. \A i, p, n: Harmless(PutRow(i, p, n)) /\ Harmless(UpdateRow(i, n))
                  /\ Harmless(MoveRow(i, p)) /\ Harmless(DropRow(i))
  BY DEF Harmless, PutRow, UpdateRow, MoveRow, DropRow
<1>5. \A c, f: Harmless(PutNoteRows(c)) /\ Harmless(PutNoteRow(c, f))
  BY DEF Harmless, PutNoteRows, PutNoteRow
<1>6. \A i, x: Harmless(UpdateNoteRow(i, x)) /\ Harmless(MoveNoteRow(i, x))
               /\ Harmless(TagNoteRow(i, x)) /\ Harmless(DropNoteRow(i))
  BY DEF Harmless, UpdateNoteRow, MoveNoteRow, TagNoteRow, DropNoteRow
<1>7. \A x: Harmless(Forget(x)) /\ Harmless(Return(x))
  BY DEF Harmless, Forget, Return
<1> QED
  BY <1>1, <1>2, <1>3, <1>4, <1>5, <1>6, <1>7

\* A plan with a step in it is not empty.
LEMMA PlansNotEmpty ==
    ASSUME NEW A, NEW B, NEW N, NEW X
    PROVE  /\ GrowsFirst(A, N, X) \/ MovesOnce(A, N) => A # <<>>
           /\ AreSteps(A) /\ AreSteps(B) /\ A # <<>> => A \o B # <<>>
<1>1. Len(<<>>) = 0
  BY EmptySeq
<1>2. ASSUME GrowsFirst(A, N, X) PROVE A # <<>>
  BY <1>1, <1>2 DEF GrowsFirst
<1>3. ASSUME MovesOnce(A, N) PROVE A # <<>>
  BY <1>1, <1>3 DEF MovesOnce
<1>4. ASSUME AreSteps(A), AreSteps(B), A # <<>> PROVE A \o B # <<>>
  <2>1. PICK S: A \in Seq(S)
    BY <1>4 DEF AreSteps
  <2>2. Len(A) \in Nat \ {0}
    BY <1>4, <2>1, EmptySeq
  <2>3. Len(A \o B) = Len(A) + Len(B) /\ Len(B) \in Nat
    BY <1>4, ConcatSteps
  <2>4. Len(A \o B) # 0
    BY <2>2, <2>3
  <2> QED
    BY <1>1, <2>4
<1> QED
  BY <1>2, <1>3, <1>4

\* Calls that touch the indexes only.
LEMMA HarmlessCall ==
    ASSUME IInv, NEW todo, NEW about, NEW lose, NEW gain, NEW count \in Nat,
           Begin(todo, about, lose, gain, count), texts' = texts,
           gain \subseteq 1 .. next + count - 1, todo # <<>>, AllHarmless(todo)
    PROVE  IInv'
BY BeginKeeps, StepsAfter DEF Pending

\* What calls report was there or is new.
LEMMA Gains ==
    ASSUME IInv
    PROVE  /\ {} \subseteq 1 .. next + 0 - 1 /\ {next} \subseteq 1 .. next + 1 - 1
           /\ \A S: known \cap S \subseteq 1 .. next + 0 - 1
           /\ next \notin texts /\ 0 \in Nat /\ 1 \in Nat
BY DEF IInv, Numbers

\* Folders and those they are in.
LEMMA ParentsClosed ==
    ASSUME NEW S, IsFiniteSet(S), S \subseteq Folders
    PROVE  Closed(AndParents(S))
<1>1. \A d \in S: Prefixes(d) = {p \in Folders: Within(p, d)}
  BY PrefixesOf
<1>2. AndParents(S) = UNION {Prefixes(d): d \in S}
  BY DEF AndParents
<1>3. ASSUME NEW d \in S PROVE IsFiniteSet(Prefixes(d))
  <2> DEFINE L == 0 .. Len(d)
             f == [l \in L |-> SubSeq(d, 1, l)]
             T == Prefixes(d)
  <2>1. Len(d) \in Nat
    BY DEF Folders
  <2>2. IsFiniteSet(L)
    BY <2>1, FS_Interval
  <2>3. T = {f[l]: l \in L} /\ f \in [L -> T]
    BY DEF Prefixes
  <2> HIDE DEF L, f, T
  <2>4. IsFiniteSet(T)
    BY <2>2, <2>3, FiniteImage
  <2> QED
    BY <2>4 DEF T
<1>4. IsFiniteSet(AndParents(S))
  <2> DEFINE T == {Prefixes(d): d \in S}
             f == [d \in S |-> Prefixes(d)]
  <2>1. f \in [S -> T] /\ T = {f[d]: d \in S} /\ \A x \in T: IsFiniteSet(x)
    BY <1>3
  <2>2. AndParents(S) = UNION T
    BY <1>2
  <2> HIDE DEF T, f
  <2>3. IsFiniteSet(T)
    BY <2>1, FiniteImage
  <2> QED
    BY <2>1, <2>2, <2>3, FS_UNION
<1>5. AndParents(S) \subseteq Folders
  BY <1>1, <1>2
<1>6. ASSUME NEW p \in AndParents(S) PROVE Prefixes(p) \subseteq AndParents(S)
  <2>1. PICK d \in S: p \in Prefixes(d)
    BY <1>2
  <2>2. p \in Folders /\ Within(p, d) /\ d \in Folders
    BY <1>1, <2>1
  <2>3. Prefixes(p) = {q \in Folders: Within(q, p)}
    BY <2>2, PrefixesOf
  <2>4. \A q \in Prefixes(p): q \in Prefixes(d)
    BY <1>1, <2>2, <2>3, PrefixChain, FoldersArePlaces
  <2> QED
    BY <1>2, <2>4
<1> QED
  BY <1>4, <1>5, <1>6 DEF Closed

\* New folders take no note.
LEMMA NewFolders ==
    ASSUME NEW p \in Folders
    PROVE  Harmless(MkDirs(p))
<1>1. Closed(AndParents({p}))
  BY ParentsClosed, FS_Singleton
<1>2. DOMAIN <<>> = {}
  OBVIOUS
<1> QED
  BY <1>1, <1>2 DEF MkDirs, Grow, Harmless

\* The calls on a folder that move and delete nothing.
LEMMA IndexCalls ==
    ASSUME IInv,
           \/ \E p \in Shown, n \in Names: CreateFolder(p, n) \/ IndexFolder(p, n)
           \/ \E p \in Listed \ {Root}: UnindexFolder(p)
           \/ \E p \in Shown: UpdateFolderMetadata(p) \/ SetChildrenOrder(p)
           \/ \E p \in Shown, f \in Files:
                 \/ UpdateFileMetadata(p, f) \/ IndexFile(p, f) \/ UnindexFile(p, f)
                 \/ \E tagged \in BOOLEAN: Tagging(p, f, tagged)
    PROVE  IInv'
<1>1. ASSUME NEW p \in Shown, NEW n \in Names, CreateFolder(p, n) PROVE IInv'
  <2> DEFINE q == Append(p, n)
             new == NewConfig(next)
             a == MkDirs(q)
             b == SaveCached(p, AddFolder(cache[p], n))
             c == SaveNew(q, new)
             d == PutRow(next, cache[p].id, n)
             e == Remember(q, new)
  <2>1. Begin(<<a, b, c, d, e>>, {p, q}, {}, {next}, 1) /\ texts' = texts
    BY <1>1 DEF CreateFolder
  <2>2. Harmless(a)
    BY ShownFolders, FolderPlace, NewFolders
  <2>3. Harmless(b) /\ Harmless(c) /\ Harmless(d) /\ Harmless(e)
    BY HarmlessSteps
  <2> HIDE DEF a, b, c, d, e
  <2>4. AllHarmless(<<a, b, c, d, e>>) /\ <<a, b, c, d, e>> # <<>>
    BY <2>2, <2>3, FewHarmless
  <2>5. {next} \subseteq 1 .. next + 1 - 1 /\ 1 \in Nat
    BY Gains
  <2> QED
    BY <2>1, <2>4, <2>5, HarmlessCall
<1>2. ASSUME NEW p \in Shown, NEW n \in Names, IndexFolder(p, n) PROVE IInv'
  <2> DEFINE q == Append(p, n)
             new == NewConfig(next)
             a == SaveNew(q, new)
             b == SaveCached(p, AddFolder(cache[p], n))
             c == PutRow(next, cache[p].id, n)
             d == Remember(q, new)
  <2>1. Begin(<<a, b, c, d>>, {p, q}, {}, {next}, 1) /\ texts' = texts
    BY <1>2 DEF IndexFolder
  <2>2. Harmless(a) /\ Harmless(b) /\ Harmless(c) /\ Harmless(d)
    BY HarmlessSteps
  <2> HIDE DEF a, b, c, d
  <2>3. AllHarmless(<<a, b, c, d>>) /\ <<a, b, c, d>> # <<>>
    BY <2>2, FewHarmless
  <2> QED
    BY <2>1, <2>3, HarmlessCall, Gains
<1>3. ASSUME NEW p \in Listed \ {Root}, UnindexFolder(p) PROVE IInv'
  <2> DEFINE parent == Front(p)
             A == <<SaveCached(parent, DropFolder(cache[parent], Last(p)))>>
             B == If(p \in DOMAIN conf, <<DropConfigs(p, TRUE)>>)
             C == If(p \in DOMAIN cache, <<DropRow(cache[p].id)>>)
             D == <<Forget({p})>>
  <2>1. Begin(A \o B \o C \o D, {parent, p}, IdsAt(p), {}, 0) /\ texts' = texts
    BY <1>3 DEF UnindexFolder
  <2>2. AllHarmless(A) /\ AllHarmless(D) /\ A # <<>>
    BY HarmlessSteps, FewHarmless
  <2>3. AllHarmless(B) /\ AllHarmless(C)
    <3>1. AllHarmless(<<DropConfigs(p, TRUE)>>) /\ AllHarmless(<<DropRow(cache[p].id)>>)
      BY HarmlessSteps, FewHarmless
    <3> QED
      BY <3>1, NothingPending DEF If
  <2> HIDE DEF A, B, C, D
  <2>4. AllHarmless(A \o B) /\ A \o B # <<>>
    BY <2>2, <2>3, StepsAfter, PlansNotEmpty DEF AllHarmless
  <2>5. AllHarmless(A \o B \o C) /\ A \o B \o C # <<>>
    BY <2>3, <2>4, StepsAfter, PlansNotEmpty DEF AllHarmless
  <2>6. AllHarmless(A \o B \o C \o D) /\ A \o B \o C \o D # <<>>
    BY <2>2, <2>5, StepsAfter, PlansNotEmpty DEF AllHarmless
  <2>7. {} \subseteq 1 .. next + 0 - 1 /\ 0 \in Nat
    BY Gains
  <2> DEFINE T == A \o B \o C \o D
  <2>8. Begin(T, {parent, p}, IdsAt(p), {}, 0) /\ texts' = texts /\ AllHarmless(T) /\ T # <<>>
    BY <2>1, <2>6
  <2> HIDE DEF T, parent
  <2> QED
    BY <2>7, <2>8, HarmlessCall
<1>4. ASSUME NEW p \in Shown, UpdateFolderMetadata(p) PROVE IInv'
  <2> DEFINE a == SaveCached(p, Touch(cache[p]))
             b == UpdateRow(cache[p].id, NameOf(p))
  <2>1. Begin(<<a, b>>, {p}, {}, {}, 0) /\ texts' = texts
    BY <1>4 DEF UpdateFolderMetadata
  <2>2. Harmless(a) /\ Harmless(b)
    BY HarmlessSteps
  <2> HIDE DEF a, b
  <2>3. AllHarmless(<<a, b>>) /\ <<a, b>> # <<>>
    BY <2>2, FewHarmless
  <2> QED
    BY <2>1, <2>3, HarmlessCall, Gains
<1>5. ASSUME NEW p \in Shown, SetChildrenOrder(p) PROVE IInv'
  <2> DEFINE a == SaveCached(p, Touch(cache[p]))
  <2>1. Begin(<<a>>, {p}, {}, {}, 0) /\ texts' = texts
    BY <1>5 DEF SetChildrenOrder
  <2>2. Harmless(a)
    BY HarmlessSteps
  <2> HIDE DEF a
  <2>3. AllHarmless(<<a>>) /\ <<a>> # <<>>
    BY <2>2, FewHarmless
  <2> QED
    BY <2>1, <2>3, HarmlessCall, Gains
<1>6. ASSUME NEW p \in Shown, NEW f \in Files, UpdateFileMetadata(p, f) PROVE IInv'
  <2> DEFINE a == SaveCached(p, Touch(cache[p]))
             b == UpdateNoteRow(IdOf(p, f), f)
  <2>1. Begin(<<a, b>>, {p}, {}, {}, 0) /\ texts' = texts
    BY <1>6 DEF UpdateFileMetadata
  <2>2. Harmless(a) /\ Harmless(b)
    BY HarmlessSteps
  <2> HIDE DEF a, b
  <2>3. AllHarmless(<<a, b>>) /\ <<a, b>> # <<>>
    BY <2>2, FewHarmless
  <2> QED
    BY <2>1, <2>3, HarmlessCall, Gains
<1>7. ASSUME NEW p \in Shown, NEW f \in Files, IndexFile(p, f) PROVE IInv'
  <2> DEFINE x == AddFile(cache[p], f, NewRecord(next))
             a == SaveCached(p, x)
             b == PutNoteRow(x, f)
  <2>1. Begin(<<a, b>>, {p}, {}, {next}, 1) /\ texts' = texts
    BY <1>7 DEF IndexFile
  <2>2. Harmless(a) /\ Harmless(b)
    BY HarmlessSteps
  <2> HIDE DEF a, b
  <2>3. AllHarmless(<<a, b>>) /\ <<a, b>> # <<>>
    BY <2>2, FewHarmless
  <2> QED
    BY <2>1, <2>3, HarmlessCall, Gains
<1>8. ASSUME NEW p \in Shown, NEW f \in Files, UnindexFile(p, f) PROVE IInv'
  <2> DEFINE a == SaveCached(p, DropFile(cache[p], f))
             b == DropNoteRow(IdOf(p, f))
  <2>1. Begin(<<a, b>>, {p}, {IdOf(p, f)}, {}, 0) /\ texts' = texts
    BY <1>8 DEF UnindexFile
  <2>2. Harmless(a) /\ Harmless(b)
    BY HarmlessSteps
  <2> HIDE DEF a, b
  <2>3. AllHarmless(<<a, b>>) /\ <<a, b>> # <<>>
    BY <2>2, FewHarmless
  <2> QED
    BY <2>1, <2>3, HarmlessCall, Gains
<1>9. ASSUME NEW p \in Shown, NEW f \in Files, NEW tagged \in BOOLEAN, Tagging(p, f, tagged)
      PROVE  IInv'
  <2> DEFINE a == SaveCached(p, [Touch(cache[p]) EXCEPT !.files[f].tagged = tagged])
             b == TagNoteRow(IdOf(p, f), tagged)
  <2>1. Begin(<<a, b>>, {p}, {}, {}, 0) /\ texts' = texts
    BY <1>9 DEF Tagging
  <2>2. Harmless(a) /\ Harmless(b)
    BY HarmlessSteps
  <2> HIDE DEF a, b
  <2>3. AllHarmless(<<a, b>>) /\ <<a, b>> # <<>>
    BY <2>2, FewHarmless
  <2> QED
    BY <2>1, <2>3, HarmlessCall, Gains
<1> QED
  BY <1>1, <1>2, <1>3, <1>4, <1>5, <1>6, <1>7, <1>8, <1>9

\* The calls that delete: what is deleted is no longer to be kept.
LEMMA DeletingCalls ==
    ASSUME IInv,
           \/ \E p \in Listed \ {Root}: DeleteFolder(p)
           \/ \E p \in Shown, f \in Files: DeleteFile(p, f)
    PROVE  IInv'
<1>1. ASSUME NEW p \in Listed \ {Root}, DeleteFolder(p) PROVE IInv'
  <2> DEFINE parent == Front(p)
             A == <<SaveCached(parent, DropFolder(cache[parent], Last(p)))>>
             B == If(p \in dirs, <<Delete(p)>>)
             C == If(p \in DOMAIN conf, <<DropConfigs(p, FALSE)>>)
             D == If(p \in DOMAIN cache, <<DropRow(cache[p].id)>>)
  <2>1. /\ Begin(A \o B \o C \o D, {parent, p}, IdsAt(p), {}, 0)
        /\ texts' = texts \ {notes[n]: n \in Below(p, DOMAIN notes)}
    BY <1>1 DEF DeleteFolder
  <2>2. Quiet(Delete(p), notes, texts')
    BY <2>1, ShownFolders DEF Quiet, Delete, Removable
  <2>3. AllQuiet(A, notes, texts') /\ A # <<>>
    BY HarmlessSteps, FewHarmless, StepsAfter
  <2>4. AllQuiet(B, notes, texts')
    <3>1. AllQuiet(<<Delete(p)>>, notes, texts') /\ AllQuiet(<<>>, notes, texts')
      BY <2>2, FewOthers, NothingPending, StepsAfter
    <3> QED
      BY <3>1 DEF If
  <2>5. AllQuiet(C, notes, texts') /\ AllQuiet(D, notes, texts')
    <3>1. AllHarmless(<<DropConfigs(p, FALSE)>>) /\ AllHarmless(<<DropRow(cache[p].id)>>)
      BY HarmlessSteps, FewHarmless
    <3>2. AllHarmless(C) /\ AllHarmless(D)
      BY <3>1, NothingPending DEF If
    <3> QED
      BY <3>2, StepsAfter
  <2>6. texts' \subseteq texts
    BY <2>1
  <2> HIDE DEF A, B, C, D
  <2>7. AllQuiet(A \o B, notes, texts') /\ A \o B # <<>>
    BY <2>3, <2>4, StepsAfter, PlansNotEmpty DEF AllQuiet
  <2>8. AllQuiet(A \o B \o C, notes, texts') /\ A \o B \o C # <<>>
    BY <2>5, <2>7, StepsAfter, PlansNotEmpty DEF AllQuiet
  <2>9. AllQuiet(A \o B \o C \o D, notes, texts') /\ A \o B \o C \o D # <<>>
    BY <2>5, <2>8, StepsAfter, PlansNotEmpty DEF AllQuiet
  <2> QED
    <3> DEFINE T == A \o B \o C \o D
    <3>1. Begin(T, {parent, p}, IdsAt(p), {}, 0) /\ Pending(T, notes, texts') /\ T # <<>>
      BY <2>1, <2>9 DEF Pending
    <3>2. {} \subseteq 1 .. next + 0 - 1 /\ 0 \in Nat
      BY Gains
    <3> HIDE DEF T, parent
    <3> QED
      BY <2>6, <3>1, <3>2, BeginKeeps
<1>2. ASSUME NEW p \in Shown, NEW f \in Files, DeleteFile(p, f) PROVE IInv'
  <2> DEFINE n == Append(p, f)
             a == SaveCached(p, DropFile(cache[p], f))
             b == Delete(n)
             c == DropNoteRow(IdOf(p, f))
  <2>1. /\ Begin(<<a, b, c>>, {p}, {IdOf(p, f)}, {}, 0)
        /\ texts' = texts \ {notes[m]: m \in {n} \cap DOMAIN notes}
    BY <1>2 DEF DeleteFile
  <2>2. n \in AnyPath \ Folders /\ Below(n, DOMAIN notes) \subseteq {n}
    <3>1. n \in AnyPath \ Folders
      BY ShownFolders, NoteIsNoFolder
    <3> QED
      BY <3>1, NothingBelowNotes DEF IInv, Tree
  <2>3. Quiet(b, notes, texts')
    BY <2>1, <2>2 DEF Quiet, Delete, Removable, Below
  <2>4. Quiet(a, notes, texts') /\ Quiet(c, notes, texts')
    BY HarmlessSteps DEF Quiet
  <2>5. texts' \subseteq texts
    BY <2>1
  <2> HIDE DEF a, b, c, n
  <2>6. AllQuiet(<<a, b, c>>, notes, texts') /\ <<a, b, c>> # <<>>
    BY <2>3, <2>4, FewOthers
  <2> QED
    BY <2>1, <2>5, <2>6, BeginKeeps, Gains DEF Pending
<1> QED
  BY <1>1, <1>2

\* The calls that move: nothing is where things are moved to.
LEMMA MovingCalls ==
    ASSUME IInv,
           \/ \E p \in Shown \ {Root}, n \in Names: RenameFolder(p, n)
           \/ \E p \in Shown \ {Root}, d \in Shown: MoveFolder(p, d)
           \/ \E p \in Shown, f \in Files: \/ \E g \in Files: RenameFile(p, f, g)
                                           \/ \E d \in Shown: MoveFile(p, f, d)
    PROVE  IInv'
<1>1. Rooted(dirs, notes)
  BY DEF IInv, Tree
<1>2. ASSUME NEW p \in Shown, NEW d \in Folders, NEW n \in Names, Append(d, n) \notin dirs
      PROVE  Moves(Move(p, Append(d, n)), notes)
  <2>1. Append(d, n) \in Folders /\ Append(d, n) # <<>> /\ p \in Folders
    BY FolderPlace, ShownFolders
  <2>2. Below(Append(d, n), DOMAIN notes) = {}
    BY <1>1, <1>2, <2>1, NothingBelow
  <2> QED
    BY <2>1, <2>2, ShownFolders DEF Moves, Move
<1>3. ASSUME NEW p \in Shown, NEW f \in Files, NEW d \in Shown, NEW g \in Files, Free(d, g)
      PROVE  Moves(Move(Append(p, f), Append(d, g)), notes)
  <2>1. /\ Append(p, f) \in AnyPath \ Folders
        /\ Append(d, g) \in AnyPath \ Folders /\ Append(d, g) # <<>>
    BY ShownFolders, NoteIsNoFolder
  <2>2. Below(Append(d, g), DOMAIN notes) \subseteq {Append(d, g)} \cap DOMAIN notes
    BY <1>1, <2>1, NothingBelowNotes DEF Below
  <2>3. Below(Append(d, g), DOMAIN notes) = {}
    BY <1>3, <2>2 DEF Free
  <2> QED
    BY <2>1, <2>3 DEF Moves, Move
<1>4. ASSUME NEW p \in Shown \ {Root}, NEW n \in Names, RenameFolder(p, n) PROVE IInv'
  <2> DEFINE parent == Front(p)
             q == Append(parent, n)
             renamed == AddFolder(DropFolder(cache[parent], Last(p)), n)
             A == <<Move(p, q)>>
             B == If(p \in DOMAIN conf, <<MoveConfig(p, q), DropConfigs(p, FALSE)>>)
             C == <<SaveStep(q, {p}, Touch(cache[p]), {}, FALSE),
                    SaveCached(parent, renamed), UpdateRow(cache[p].id, n), Forget({p, q})>>
  <2>1. /\ Begin(A \o B \o C, {parent, p, q}, IdsAt(p), known \cap IdsAt(p), 0)
        /\ texts' = texts /\ q \notin dirs
    BY <1>4 DEF RenameFolder
  <2>2. MovesOnce(A, notes)
    <3>1. parent \in Folders
      BY FolderPlace, ShownFolders
    <3> QED
      BY <1>2, <2>1, <3>1, FewOthers
  <2>3. AllHarmless(B)
    <3>1. AllHarmless(<<MoveConfig(p, q), DropConfigs(p, FALSE)>>)
      BY HarmlessSteps, FewHarmless
    <3> QED
      BY <3>1, NothingPending DEF If
  <2>4. AllHarmless(C)
    BY HarmlessSteps, FewHarmless
  <2> HIDE DEF A, B, C
  <2>5. MovesOnce(A \o B, notes)
    BY <2>2, <2>3, StepsAfter
  <2>6. MovesOnce(A \o B \o C, notes)
    BY <2>4, <2>5, StepsAfter
  <2>7. A \o B \o C # <<>>
    BY <2>6, PlansNotEmpty
  <2> QED
    BY <2>1, <2>6, <2>7, BeginKeeps, Gains DEF Pending
<1>5. ASSUME NEW p \in Shown \ {Root}, NEW d \in Shown, MoveFolder(p, d) PROVE IInv'
  <2> DEFINE parent == Front(p)
             q == Append(d, Last(p))
             A == If(d \notin dirs, <<MkDirs(d)>>)
             B == <<Move(p, q)>>
             C == If(p \in DOMAIN conf, <<MoveConfigs(p, q)>>)
             D == <<SaveCached(parent, DropFolder(cache[parent], Last(p))),
                    SaveCached(d, AddFolder(cache[d], Last(p))),
                    MoveRow(cache[p].id, cache[d].id), Forget({p, q})>>
  <2>1. /\ Begin(A \o B \o C \o D, {parent, p, d, q}, IdsAt(p), known \cap IdsAt(p), 0)
        /\ texts' = texts /\ q \notin dirs
    BY <1>5 DEF MoveFolder
  <2>2. AllHarmless(A)
    <3>1. AllHarmless(<<MkDirs(d)>>)
      BY ShownFolders, NewFolders, FewHarmless
    <3> QED
      BY <3>1, NothingPending DEF If
  <2>3. MovesOnce(B, notes)
    <3>1. d \in Folders /\ Last(p) \in Names
      BY FolderPlace, ShownFolders
    <3> QED
      BY <1>2, <2>1, <3>1, FewOthers
  <2>4. AllHarmless(C)
    <3>1. AllHarmless(<<MoveConfigs(p, q)>>)
      BY HarmlessSteps, FewHarmless
    <3> QED
      BY <3>1, NothingPending DEF If
  <2>5. AllHarmless(D)
    BY HarmlessSteps, FewHarmless
  <2> HIDE DEF A, B, C, D
  <2>6. MovesOnce(A \o B, notes)
    BY <2>2, <2>3, StepsAfter
  <2>7. MovesOnce(A \o B \o C, notes)
    BY <2>4, <2>6, StepsAfter
  <2>8. MovesOnce(A \o B \o C \o D, notes)
    BY <2>5, <2>7, StepsAfter
  <2>9. A \o B \o C \o D # <<>>
    BY <2>8, PlansNotEmpty
  <2> QED
    BY <2>1, <2>8, <2>9, BeginKeeps, Gains DEF Pending
<1>6. ASSUME NEW p \in Shown, NEW f \in Files, NEW g \in Files, RenameFile(p, f, g) PROVE IInv'
  <2> DEFINE x == AddFile(DropFile(cache[p], f), g, cache[p].files[f])
             a == Move(Append(p, f), Append(p, g))
             b == SaveCached(p, x)
             c == UpdateNoteRow(IdOf(p, f), g)
  <2>1. /\ Begin(<<a, b, c>>, {p}, {IdOf(p, f)}, known \cap {IdOf(p, f)}, 0)
        /\ texts' = texts /\ Free(p, g)
    BY <1>6 DEF RenameFile
  <2>2. Moves(a, notes)
    BY <1>3, <2>1
  <2>3. Harmless(b) /\ Harmless(c)
    BY HarmlessSteps
  <2> HIDE DEF a, b, c
  <2>4. MovesOnce(<<a, b, c>>, notes) /\ <<a, b, c>> # <<>>
    BY <2>2, <2>3, FewOthers
  <2> QED
    BY <2>1, <2>4, BeginKeeps, Gains DEF Pending
<1>7. ASSUME NEW p \in Shown, NEW f \in Files, NEW d \in Shown, MoveFile(p, f, d) PROVE IInv'
  <2> DEFINE a == Move(Append(p, f), Append(d, f))
             b == SaveCached(p, DropFile(cache[p], f))
             c == SaveCached(d, AddFile(cache[d], f, cache[p].files[f]))
             e == MoveNoteRow(IdOf(p, f), cache[d].id)
  <2>1. /\ Begin(<<a, b, c, e>>, {p, d}, {IdOf(p, f)}, known \cap {IdOf(p, f)}, 0)
        /\ texts' = texts /\ Free(d, f)
    BY <1>7 DEF MoveFile
  <2>2. Moves(a, notes)
    BY <1>3, <2>1
  <2>3. Harmless(b) /\ Harmless(c) /\ Harmless(e)
    BY HarmlessSteps
  <2> HIDE DEF a, b, c, e
  <2>4. MovesOnce(<<a, b, c, e>>, notes) /\ <<a, b, c, e>> # <<>>
    BY <2>2, <2>3, FewOthers
  <2> QED
    BY <2>1, <2>4, BeginKeeps, Gains DEF Pending
<1> QED
  BY <1>4, <1>5, <1>6, <1>7

\* The calls that bring one note, with a new text, where there is none.
LEMMA NewNoteCalls ==
    ASSUME IInv,
           \E p \in Shown, f \in Files:
               \/ CreateFile(p, f) \/ ImportFile(p, f)
               \/ \E d \in Shown, g \in Files: CopyFile(p, f, d, g)
    PROVE  IInv'
<1>1. Rooted(dirs, notes)
  BY DEF IInv, Tree
<1>2. ASSUME NEW p \in Shown, NEW f \in Files, Free(p, f), NEW soft
      PROVE  Grows(Grow({}, Single(Append(p, f), next), soft), notes, texts)
  <2> DEFINE M == Single(Append(p, f), next)
  <2>1. AndParents({}) = {} /\ Closed({})
    BY FS_EmptySet DEF AndParents, Closed
  <2>2. /\ DOMAIN M = {Append(p, f)} /\ M[Append(p, f)] = next
        /\ Append(p, f) \in Homes(Folders) /\ Append(p, f) \notin DOMAIN notes
    BY <1>2, ShownFolders DEF Single, Free, Homes
  <2> HIDE DEF M
  <2>3. /\ IsFiniteSet(DOMAIN M) /\ DOMAIN M \subseteq Homes(Folders)
        /\ DOMAIN M \cap DOMAIN notes = {} /\ \A n \in DOMAIN M: M[n] \notin texts
    <3>1. IsFiniteSet(DOMAIN M)
      BY <2>2, FS_Singleton
    <3>2. next \notin texts
      BY Gains
    <3> QED
      BY <2>2, <3>1, <3>2
  <2>4. Grows(Grow({}, M, soft), notes, texts)
    BY <2>1, <2>3 DEF Grow, Grows
  <2> QED
    BY <2>4 DEF M
<1>3. ASSUME NEW p \in Shown, NEW f \in Files, CreateFile(p, f) PROVE IInv'
  <2> DEFINE x == AddFile(cache[p], f, NewRecord(next))
             a == Grow({}, Single(Append(p, f), next), TRUE)
             b == SaveCached(p, x)
             c == PutNoteRow(x, f)
  <2>1. /\ Begin(<<a, b, c>>, {p}, {}, {next}, 1)
        /\ texts' = texts /\ Free(p, f)
    BY <1>3 DEF CreateFile
  <2>2. Grows(a, notes, texts)
    BY <1>2, <2>1
  <2>3. Quiet(b, notes, texts) /\ Quiet(c, notes, texts)
    BY HarmlessSteps DEF Quiet
  <2> HIDE DEF a, b, c
  <2>4. GrowsFirst(<<a, b, c>>, notes, texts) /\ <<a, b, c>> # <<>>
    BY <2>2, <2>3, FewOthers
  <2> QED
    BY <2>1, <2>4, BeginKeeps, Gains DEF Pending
<1>4. ASSUME NEW p \in Shown, NEW f \in Files, ImportFile(p, f) PROVE IInv'
  <2> DEFINE x == AddFile(cache[p], f, NewRecord(next))
             a == Grow({}, Single(Append(p, f), next), FALSE)
             b == SaveOrUndo(p, x, Append(p, f))
             c == PutNoteRow(x, f)
  <2>1. /\ Begin(<<a, b, c>>, {p}, {}, {next}, 1)
        /\ texts' = texts /\ Free(p, f)
    BY <1>4 DEF ImportFile
  <2>2. Grows(a, notes, texts)
    BY <1>2, <2>1
  <2>3. Removable(Append(p, f), notes, texts)
    <3>1. Append(p, f) \in AnyPath \ Folders
      BY ShownFolders, NoteIsNoFolder
    <3>2. Below(Append(p, f), DOMAIN notes) \subseteq {Append(p, f)} \cap DOMAIN notes
      BY <1>1, <3>1, NothingBelowNotes DEF Below
    <3> QED
      BY <2>1, <3>1, <3>2 DEF Free, Removable
  <2>4. Quiet(b, notes, texts) /\ Quiet(c, notes, texts)
    BY <2>3, HarmlessSteps DEF Quiet, SaveOrUndo, SaveStep
  <2> HIDE DEF a, b, c
  <2>5. GrowsFirst(<<a, b, c>>, notes, texts) /\ <<a, b, c>> # <<>>
    BY <2>2, <2>4, FewOthers
  <2> QED
    BY <2>1, <2>5, BeginKeeps, Gains DEF Pending
<1>5. ASSUME NEW p \in Shown, NEW f \in Files, NEW d \in Shown, NEW g \in Files,
             CopyFile(p, f, d, g)
      PROVE  IInv'
  <2> DEFINE x == AddFile(cache[d], g, CopyOfRecord(cache[p].files[f], next))
             a == Grow({}, Single(Append(d, g), next), FALSE)
             b == SaveCached(d, x)
             c == PutNoteRow(x, g)
  <2>1. /\ Begin(<<a, b, c>>, {d}, {}, {next}, 1)
        /\ texts' = texts /\ Free(d, g)
    BY <1>5 DEF CopyFile
  <2>2. Grows(a, notes, texts)
    BY <1>2, <2>1
  <2>3. Quiet(b, notes, texts) /\ Quiet(c, notes, texts)
    BY HarmlessSteps DEF Quiet
  <2> HIDE DEF a, b, c
  <2>4. GrowsFirst(<<a, b, c>>, notes, texts) /\ <<a, b, c>> # <<>>
    BY <2>2, <2>3, FewOthers
  <2> QED
    BY <2>1, <2>4, BeginKeeps, Gains DEF Pending
<1> QED
  BY <1>3, <1>4, <1>5

-----------------------------------------------------------------------------
(* Lists of steps that are computed *)

\* Induction over numbers, for a set of them: what FS_Injection says of k |-> k + 1.
LEMMA Induction ==
    ASSUME NEW S, 0 \in S, \A k \in Nat: k \in S => k + 1 \in S
    PROVE  \A n \in Nat: n \in S
<1> SUFFICES ASSUME NEW n \in Nat, n \notin S PROVE FALSE
  OBVIOUS
<1> DEFINE T == {k \in 0 .. n: k \in S}
           f == [k \in T |-> k + 1]
<1>1. IsFiniteSet(T)
  <2>1. IsFiniteSet(0 .. n) /\ T \in SUBSET (0 .. n)
    BY FS_Interval
  <2> QED
    BY <2>1, FS_Subset
<1>2. 0 \in T
  OBVIOUS
<1>3. IsFiniteSet(T \ {0}) /\ Cardinality(T \ {0}) = Cardinality(T) - 1
  BY <1>1, <1>2, FS_RemoveElement
<1>4. \A k \in T: k + 1 \in T \ {0}
  OBVIOUS
<1>5. f \in Injection(T, T \ {0})
  BY <1>4 DEF Injection, IsInjective
<1>6. Cardinality(T) <= Cardinality(T \ {0})
  <2> HIDE DEF T, f
  <2> QED
    BY <1>1, <1>3, <1>5, FS_Injection
<1>7. Cardinality(T) \in Nat
  BY <1>1, FS_CardinalityType
<1> QED
  BY <1>3, <1>6, <1>7

\* f is what the definition of FlattenSeq computes for the first n sequences.
IsFlat(f, s, n) == f = [i \in 1 .. n |-> IF i = 1 THEN s[i] ELSE f[i - 1] \o s[i]]

\* The recursive function of FlattenSeq exists.
LEMMA FlatExists ==
    ASSUME NEW s, Len(s) \in Nat \ {0}
    PROVE  \E f: IsFlat(f, s, Len(s)) /\ FlattenSeq(s) = f[Len(s)]
<1> DEFINE Reached == {n \in Nat: \E f: IsFlat(f, s, n)}
<1>1. 0 \in Reached
  <2> DEFINE f == [i \in 1 .. 0 |-> s[i]]
  <2>1. IsFlat(f, s, 0)
    BY DEF IsFlat
  <2> HIDE DEF f
  <2> QED
    BY <2>1
<1>2. \A k \in Nat: k \in Reached => k + 1 \in Reached
  <2> SUFFICES ASSUME NEW k \in Nat, NEW f, IsFlat(f, s, k)
               PROVE  \E g: IsFlat(g, s, k + 1)
    OBVIOUS
  <2> DEFINE g == [i \in 1 .. k + 1 |-> IF i <= k THEN f[i]
                                        ELSE IF i = 1 THEN s[i] ELSE f[k] \o s[i]]
  <2>1. \A i \in 1 .. k + 1: g[i] = IF i = 1 THEN s[i] ELSE g[i - 1] \o s[i]
    <3> SUFFICES ASSUME NEW i \in 1 .. k + 1
                 PROVE  g[i] = IF i = 1 THEN s[i] ELSE g[i - 1] \o s[i]
      OBVIOUS
    <3>1. CASE i <= k
      <4>1. i \in 1 .. k /\ (i # 1 => i - 1 \in 1 .. k)
        BY <3>1
      <4>2. f[i] = IF i = 1 THEN s[i] ELSE f[i - 1] \o s[i]
        <5> HIDE DEF g
        <5> QED
          BY <4>1 DEF IsFlat
      <4>3. g[i] = f[i] /\ (i # 1 => g[i - 1] = f[i - 1])
        BY <3>1, <4>1
      <4> QED
        BY <4>2, <4>3
    <3>2. CASE i = k + 1
      <4>1. i # 1 => k \in 1 .. k + 1 /\ k <= k /\ i - 1 = k
        BY <3>2
      <4>2. i # 1 => g[i - 1] = f[k]
        BY <4>1
      <4>3. g[i] = IF i = 1 THEN s[i] ELSE f[k] \o s[i]
        BY <3>2
      <4> HIDE DEF g
      <4> QED
        BY <4>2, <4>3
    <3> QED
      BY <3>1, <3>2
  <2>2. IsFlat(g, s, k + 1)
    BY <2>1 DEF IsFlat
  <2> HIDE DEF g
  <2> QED
    BY <2>2
<1>3. Len(s) \in Reached
  <2> HIDE DEF Reached
  <2> QED
    BY <1>1, <1>2, Induction
<1>4. PICK f: IsFlat(f, s, Len(s))
  BY <1>3
<1> DEFINE h == CHOOSE flatten: flatten = [i \in 1 .. Len(s) |->
                    IF i = 1 THEN s[i] ELSE flatten[i - 1] \o s[i]]
<1>5. h = [i \in 1 .. Len(s) |-> IF i = 1 THEN s[i] ELSE h[i - 1] \o s[i]]
  BY <1>4 DEF IsFlat
<1>6. FlattenSeq(s) = h[Len(s)]
  BY DEF FlattenSeq
<1> HIDE DEF h
<1> QED
  BY <1>5, <1>6 DEF IsFlat

\* Lists of steps that take no note, one after the other.
LEMMA FlattenHarmless ==
    ASSUME NEW n \in Nat, NEW s, s = [i \in 1 .. n |-> s[i]], \A i \in 1 .. n: AllHarmless(s[i])
    PROVE  AllHarmless(FlattenSeq(s))
<1> DEFINE S == {s[i]: i \in 1 .. n}
<1>1. s \in [1 .. n -> S]
  OBVIOUS
<1>2. s \in Seq(S)
  <2> HIDE DEF S
  <2> QED
    BY <1>1, SeqDef
<1>3. Len(s) = n
  <2>1. Len(s) \in Nat /\ 1 .. Len(s) = 1 .. n
    BY <1>1, <1>2, LenProperties
  <2> QED
    BY <2>1
<1>4. CASE n = 0
  <2>1. FlattenSeq(s) = s
    BY <1>3, <1>4 DEF FlattenSeq
  <2>2. AllHarmless(s)
    BY <1>2, <1>3, <1>4 DEF AllHarmless, AreSteps
  <2> QED
    BY <2>1, <2>2
<1>5. CASE n # 0
  <2>1. PICK f: IsFlat(f, s, n) /\ FlattenSeq(s) = f[n]
    BY <1>3, <1>5, FlatExists
  <2>5. \A i \in 1 .. n: f[i] = IF i = 1 THEN s[i] ELSE f[i - 1] \o s[i]
    BY <2>1 DEF IsFlat
  <2> DEFINE Good == {k \in Nat: k \in 1 .. n => AllHarmless(f[k])}
  <2>2. 0 \in Good
    OBVIOUS
  <2>3. \A k \in Nat: k \in Good => k + 1 \in Good
    <3> SUFFICES ASSUME NEW k \in Nat, k \in Good, k + 1 \in 1 .. n
                 PROVE  AllHarmless(f[k + 1])
      OBVIOUS
    <3>1. f[k + 1] = IF k + 1 = 1 THEN s[k + 1] ELSE f[k + 1 - 1] \o s[k + 1]
      <4> HIDE DEF Good
      <4> QED
        BY <2>5
    <3>2. AllHarmless(s[k + 1])
      OBVIOUS
    <3>3. CASE k = 0
      BY <3>1, <3>2, <3>3
    <3>4. CASE k # 0
      <4>1. k \in 1 .. n /\ k + 1 - 1 = k /\ k + 1 # 1
        BY <3>4
      <4>2. AllHarmless(f[k]) /\ f[k + 1] = f[k] \o s[k + 1]
        BY <3>1, <4>1
      <4> QED
        BY <3>2, <4>2, StepsAfter
    <3> QED
      BY <3>3, <3>4
  <2>4. n \in Good
    <3> HIDE DEF Good
    <3> QED
      BY <2>2, <2>3, Induction
  <2> QED
    BY <1>5, <2>1, <2>4
<1> QED
  BY <1>4, <1>5

\* A set as a sequence.
LEMMA SetInOrder ==
    ASSUME NEW S, IsFiniteSet(S)
    PROVE  /\ Cardinality(S) \in Nat /\ SetToSeq(S) \in [1 .. Cardinality(S) -> S]
           /\ \A x \in S: \E i \in 1 .. Cardinality(S): SetToSeq(S)[i] = x
<1> DEFINE n == Cardinality(S)
           s == SetToSeq(S)
<1>1. n \in Nat /\ ExistsBijection(1 .. n, S)
  BY FS_CardinalityType
<1>2. PICK f: f \in Bijection(1 .. n, S)
  BY <1>1 DEF ExistsBijection
<1>3. f \in [1 .. n -> S] /\ IsInjective(f)
  BY <1>2 DEF Bijection, Injection
<1>4. s \in [1 .. n -> S] /\ IsInjective(s)
  BY <1>3 DEF SetToSeq
<1>5. IsFiniteSet(1 .. n) /\ Cardinality(1 .. n) = n
  <2>1. Cardinality(1 .. n) = IF 1 > n THEN 0 ELSE n - 1 + 1
    BY <1>1, FS_Interval
  <2> QED
    BY <1>1, <2>1, FS_Interval
<1>6. s \in Injection(1 .. n, S)
  BY <1>4 DEF Injection
<1> HIDE DEF s
<1>7. s \in Surjection(1 .. n, S)
  BY <1>5, <1>6, FS_Injection
<1> QED
  BY <1>1, <1>4, <1>7 DEF Surjection, s

\* New ids are beyond those that were given out.
LEMMA NewIds ==
    ASSUME NEW S, IsFiniteSet(S), next \in Nat \ {0}
    PROVE  /\ Cardinality(S) \in Nat /\ DOMAIN FreshIds(S) = S
           /\ \A x \in S: FreshIds(S)[x] \in next .. next + Cardinality(S) - 1
<1> DEFINE n == Cardinality(S)
           s == SetToSeq(S)
<1>1. n \in Nat /\ s \in [1 .. n -> S] /\ \A x \in S: \E i \in 1 .. n: s[i] = x
  BY SetInOrder
<1>2. FreshIds(S) = [x \in S |-> next - 1 + CHOOSE i \in DOMAIN s: s[i] = x]
  BY DEF FreshIds
<1> HIDE DEF s
<1>3. ASSUME NEW x \in S PROVE FreshIds(S)[x] \in next .. next + n - 1
  <2> DEFINE i == CHOOSE j \in DOMAIN s: s[j] = x
  <2>1. i \in 1 .. n
    BY <1>1
  <2>2. FreshIds(S)[x] = next - 1 + i
    BY <1>2
  <2> HIDE DEF i
  <2> QED
    BY <1>1, <2>1, <2>2
<1> QED
  BY <1>1, <1>2, <1>3

-----------------------------------------------------------------------------
(* The calls that bring a tree *)

\* Notes of folders come where there are none, with new texts.
LEMMA NewTree ==
    ASSUME IInv, NEW D, IsFiniteSet(D), D \subseteq Folders, NEW M, IsFiniteSet(DOMAIN M),
           DOMAIN M \subseteq Homes(Folders), DOMAIN M \cap DOMAIN notes = {},
           \A n \in DOMAIN M: M[n] \in Nat /\ M[n] >= next, NEW soft
    PROVE  Grows(Grow(D, M, soft), notes, texts)
<1>1. Closed(AndParents(D))
  BY ParentsClosed
<1>2. \A n \in DOMAIN M: M[n] \notin texts
  BY DEF IInv, Numbers
<1> QED
  BY <1>1, <1>2 DEF Grow, Grows

\* A folder that comes where there is none, with a subfolder and their notes.
LEMMA ImportKeeps ==
    ASSUME IInv, NEW p \in Shown, NEW n \in Names, NEW f \in Files,
           NEW s \in Names \cup {None}, ImportFolder(p, n, f, s)
    PROVE  IInv'
<1> DEFINE q == Append(p, n)
           subs == {Append(q, m): m \in {s} \ {None}}
           folders == {q} \cup subs
           texted == {Append(r, f): r \in folders}
           new == folders \cup texted
           ids == FreshIds(new)
           ConfigOf(r) == [NewConfig(ids[r]) EXCEPT
               !.folders = IF r = q THEN {s} \ {None} ELSE {},
               !.files = Single(f, NewRecord(ids[Append(r, f)]))]
           M == [m \in texted |-> ids[m]]
           order == SetToSeq(subs)
           A == <<Grow(folders, M, FALSE), SaveOrUndo(p, AddFolder(cache[p], n), q)>>
           B == [i \in 1 .. Cardinality(subs) |->
                    <<SaveNewSoftly(order[i], ConfigOf(order[i])), PutRow(ids[order[i]], ids[q], s),
                      PutNoteRows(ConfigOf(order[i])), Remember(order[i], ConfigOf(order[i]))>>]
           C == <<SaveNew(q, ConfigOf(q)), PutRow(ids[q], cache[p].id, n),
                  PutNoteRows(ConfigOf(q)), Remember(q, ConfigOf(q))>>
           T == A \o FlattenSeq(B) \o C
           gain == {ids[r]: r \in new}
<1>1. /\ Begin(T, {p} \cup folders, {}, gain, Cardinality(new))
      /\ texts' = texts /\ q \notin dirs
  BY DEF ImportFolder
<1>2. Rooted(dirs, notes) /\ next \in Nat \ {0}
  BY DEF IInv, Tree, Numbers
<1>3. /\ p \in Folders /\ q \in Folders
      /\ folders \subseteq Folders /\ \A r \in folders: r \notin dirs
  <2>1. p \in Folders /\ q \in Folders
    BY ShownFolders, FolderPlace
  <2>2. ASSUME NEW r \in subs PROVE r \in Folders /\ r \notin dirs
    <3>1. PICK m \in Names: r = Append(q, m)
      OBVIOUS
    <3>2. r \in Folders /\ Within(q, r)
      <4> HIDE DEF q
      <4> QED
        BY <2>1, <3>1, FolderPlace
    <3>3. q \in Prefixes(r)
      <4> HIDE DEF q, subs
      <4> QED
        BY <2>1, <3>2, PrefixesOf
    <3> QED
      BY <1>1, <1>2, <3>2, <3>3 DEF Rooted, Closed
  <2> QED
    BY <1>1, <2>1, <2>2
<1>4. IsFiniteSet(subs) /\ IsFiniteSet(folders) /\ IsFiniteSet(texted) /\ IsFiniteSet(new)
  <2>1. IsFiniteSet(subs)
    <3>1. CASE s = None
      <4>1. subs = {}
        BY <3>1
      <4> QED
        BY <4>1, FS_EmptySet
    <3>2. CASE s # None
      <4>1. subs = {Append(q, s)}
        BY <3>2
      <4> QED
        BY <4>1, FS_Singleton
    <3> QED
      BY <3>1, <3>2
  <2>2. IsFiniteSet(folders)
    <3> HIDE DEF subs, q
    <3> QED
      BY <2>1, FS_Singleton, FS_Union
  <2>3. IsFiniteSet(texted)
    <3> DEFINE g == [r \in folders |-> Append(r, f)]
    <3>1. g \in [folders -> texted] /\ texted = {g[r]: r \in folders}
      OBVIOUS
    <3> HIDE DEF g, texted, folders
    <3> QED
      BY <2>2, <3>1, FiniteImage
  <2> HIDE DEF subs, folders, texted
  <2> QED
    BY <2>1, <2>2, <2>3, FS_Union
<1>5. texted \subseteq Homes(Folders) /\ texted \cap DOMAIN notes = {}
  <2>1. texted \subseteq Homes(Folders)
    <3> HIDE DEF folders
    <3> QED
      BY <1>3 DEF Homes
  <2>2. ASSUME NEW r \in folders, Append(r, f) \in DOMAIN notes PROVE FALSE
    <3>1. PICK d \in dirs, g \in Files: Append(r, f) = Append(d, g)
      <4>1. Append(r, f) \in Homes(dirs)
        BY <1>2, <2>2 DEF Rooted
      <4> HIDE DEF folders, texted
      <4> QED
        BY <4>1 DEF Homes
    <3>2. d \in Folders /\ r \in Folders
      BY <1>2, <1>3 DEF Rooted, Closed
    <3> HIDE DEF folders
    <3>3. Front(Append(r, f)) = r /\ Front(Append(d, g)) = d
      BY <3>2, NotePlace
    <3> QED
      BY <1>3, <3>1, <3>3
  <2> HIDE DEF folders
  <2> QED
    BY <2>1, <2>2
<1>6. /\ Cardinality(new) \in Nat
      /\ \A x \in new: ids[x] \in next .. next + Cardinality(new) - 1
  <2> HIDE DEF new
  <2> QED
    BY <1>2, <1>4, NewIds
<1>7. /\ DOMAIN M = texted /\ \A m \in texted: M[m] \in Nat /\ M[m] >= next
  <2>1. texted \subseteq new
    OBVIOUS
  <2> HIDE DEF new, texted, ids
  <2> QED
    BY <1>2, <1>6, <2>1
<1>8. gain \subseteq 1 .. next + Cardinality(new) - 1
  <2> HIDE DEF new, ids
  <2> QED
    BY <1>2, <1>6
<1>9. Grows(Grow(folders, M, FALSE), notes, texts)
  <2> HIDE DEF M, folders, texted
  <2> QED
    BY <1>3, <1>4, <1>5, <1>7, NewTree
<1>10. Quiet(SaveOrUndo(p, AddFolder(cache[p], n), q), notes, texts)
  <2>1. Removable(q, notes, texts)
    <3>1. Below(q, DOMAIN notes) = {} /\ q \in AnyPath
      BY <1>1, <1>2, <1>3, NothingBelow, ShownFolders
    <3> QED
      BY <3>1 DEF Removable
  <2> HIDE DEF q
  <2> QED
    BY <2>1 DEF Quiet, SaveOrUndo, SaveStep
<1>11. GrowsFirst(A, notes, texts)
  <2> DEFINE a == Grow(folders, M, FALSE)
             b == SaveOrUndo(p, AddFolder(cache[p], n), q)
  <2>1. Grows(a, notes, texts) /\ Quiet(b, notes, texts) /\ A = <<a, b>>
    BY <1>9, <1>10
  <2> HIDE DEF a, b, A
  <2> QED
    BY <2>1, FewOthers
<1>12. AllHarmless(C)
  <2> HIDE DEF ConfigOf, q, ids
  <2> QED
    BY HarmlessSteps, FewHarmless
<1>13. AllHarmless(FlattenSeq(B))
  <2>1. Cardinality(subs) \in Nat
    BY <1>4, FS_CardinalityType
  <2>2. \A i \in 1 .. Cardinality(subs): AllHarmless(B[i])
    <3> HIDE DEF ConfigOf, q, ids, order, subs
    <3> QED
      BY HarmlessSteps, FewHarmless
  <2>3. B = [i \in 1 .. Cardinality(subs) |-> B[i]]
    OBVIOUS
  <2> HIDE DEF B, subs
  <2> QED
    BY <2>1, <2>2, <2>3, FlattenHarmless
<1>14. GrowsFirst(T, notes, texts) /\ T # <<>>
  <2> HIDE DEF A, B, C
  <2>1. GrowsFirst(A \o FlattenSeq(B), notes, texts)
    BY <1>11, <1>13, StepsAfter
  <2>2. GrowsFirst(A \o FlattenSeq(B) \o C, notes, texts)
    BY <1>12, <2>1, StepsAfter
  <2> QED
    BY <2>2, PlansNotEmpty
<1> HIDE DEF T, gain, new, folders
<1> QED
  BY <1>1, <1>6, <1>8, <1>14, BeginKeeps DEF Pending

\* How many directories there are at and below one.
Size(r) == Cardinality(Below(r, dirs))

\* The subfolders that a copy goes on with are below the folder.
LEMMA CopiedSubfolders ==
    ASSUME Rooted(dirs, notes), NEW p \in Folders, NEW r \in Below(p, dirs)
    PROVE  /\ Cardinality(CopiedFolders(r)) \in Nat
           /\ \A i \in 1 .. Cardinality(CopiedFolders(r)):
                 LET c == Append(r, SetToSeq(CopiedFolders(r))[i])
                 IN  c \in Below(p, dirs) /\ Size(c) < Size(r)
           /\ Size(r) \in Nat
<1> DEFINE C == CopiedFolders(r)
           g == [n \in C |-> Append(r, n)]
<1>1. /\ dirs \subseteq Folders /\ IsFiniteSet(dirs) /\ r \in Folders /\ r \in dirs
      /\ Within(p, r) /\ p \in Places /\ r \in Places
  BY FoldersArePlaces DEF Rooted, Closed, Below
<1>2. ASSUME NEW n \in C PROVE n \in Names /\ Append(r, n) \in dirs
  <2>1. Append(r, n) \in dirs /\ Append(r, n) \in Seq(Names)
    BY <1>1 DEF CopiedFolders, Folders
  <2>2. r \in Seq(Names \cup {n}) /\ n \in Names \cup {n}
    BY <1>1, SeqMonotonic DEF Folders
  <2>3. Len(Append(r, n)) = Len(r) + 1 /\ Append(r, n)[Len(r) + 1] = n /\ Len(r) \in Nat
    BY <2>2, AppendProperties
  <2>4. Append(r, n)[Len(r) + 1] \in Names
    BY <2>1, <2>3, ElementOfSeq
  <2> QED
    BY <2>1, <2>3, <2>4
<1>3. g \in Injection(C, dirs)
  <2>1. g \in [C -> dirs]
    BY <1>2
  <2>2. ASSUME NEW m \in C, NEW n \in C, g[m] = g[n] PROVE m = n
    <3>1. Append(r, m) = Append(r, n) /\ m \in Names /\ n \in Names /\ r \in Seq(Names)
      BY <1>1, <1>2, <2>2 DEF Folders
    <3> QED
      BY <3>1, AppendInjective
  <2> QED
    BY <2>1, <2>2 DEF Injection, IsInjective
<1>4. IsFiniteSet(C)
  <2> HIDE DEF C, g
  <2> QED
    BY <1>1, <1>3, FS_Injection
<1>5. Cardinality(C) \in Nat /\ \A i \in 1 .. Cardinality(C): SetToSeq(C)[i] \in C
  <2> HIDE DEF C
  <2> QED
    BY <1>4, SetInOrder
<1>6. IsFiniteSet(Below(r, dirs)) /\ Size(r) \in Nat /\ r \in Below(r, dirs)
  <2>1. Below(r, dirs) \in SUBSET dirs /\ r \in Below(r, dirs)
    BY <1>1, PrefixChain DEF Below
  <2>2. IsFiniteSet(Below(r, dirs))
    BY <1>1, <2>1, FS_Subset
  <2> QED
    BY <2>1, <2>2, FS_CardinalityType DEF Size
<1>7. ASSUME NEW n \in C
      PROVE  Append(r, n) \in Below(p, dirs) /\ Size(Append(r, n)) < Size(r)
  <2> DEFINE c == Append(r, n)
  <2>1. c \in dirs /\ c \in Folders /\ c \in Places /\ Within(r, c) /\ Len(c) = Len(r) + 1
        /\ Len(r) \in Nat
    <3>1. n \in Names /\ c \in dirs /\ r \in Seq(Names)
      BY <1>1, <1>2 DEF Folders
    <3>2. Within(r, c)
      BY <1>1, <3>1, FolderPlace
    <3>3. Len(c) = Len(r) + 1 /\ Len(r) \in Nat
      BY <3>1, AppendProperties
    <3> HIDE DEF c
    <3> QED
      BY <1>1, <3>1, <3>2, <3>3, FoldersArePlaces
  <2> HIDE DEF c
  <2>2. c \in Below(p, dirs)
    BY <1>1, <2>1, PrefixChain DEF Below
  <2>3. ~Within(c, r)
    BY <1>1, <2>1, PrefixPoints
  <2>4. Below(c, dirs) \in SUBSET (Below(r, dirs) \ {r})
    <3> SUFFICES ASSUME NEW x \in dirs, Within(c, x)
                 PROVE  Within(r, x) /\ x # r
      BY DEF Below
    <3>1. x \in Places /\ r \in Places
      BY <1>1, FoldersArePlaces DEF Closed
    <3>2. Within(r, x)
      BY <2>1, <3>1, PrefixChain
    <3> QED
      BY <2>3, <3>2
  <2>5. IsFiniteSet(Below(r, dirs) \ {r}) /\ Cardinality(Below(r, dirs) \ {r}) = Size(r) - 1
    BY <1>6, FS_RemoveElement DEF Size
  <2>6. Size(c) <= Size(r) - 1 /\ Size(c) \in Nat
    BY <2>4, <2>5, FS_Subset, FS_CardinalityType DEF Size
  <2>7. Size(c) < Size(r)
    BY <1>6, <2>6
  <2> QED
    BY <2>2, <2>7 DEF c
<1> QED
  BY <1>5, <1>6, <1>7

\* What CopySteps makes of the steps f of the subfolders of r.
CopyOf(r, ids) ==
    [NewConfig(ids[r]) EXCEPT
        !.folders = CopiedFolders(r),
        !.files = [g \in CopiedFiles(r) |-> CopyOfRecord(conf[r].files[g], ids[Append(r, g)])]]
Subfolders(f, r) ==
    [i \in 1 .. Cardinality(CopiedFolders(r)) |-> f[Append(r, SetToSeq(CopiedFolders(r))[i])]]
StepsOf(f, r, p, q, ids, parent) ==
    IF ~Readable(r) THEN <<Return("error")>>
    ELSE <<SaveNew(Rebase(r, p, q), CopyOf(r, ids)),
           PutRow(ids[r], IF r = p THEN parent ELSE ids[Front(r)], Last(Rebase(r, p, q))),
           PutNoteRows(CopyOf(r, ids))>>
         \o FlattenSeq(Subfolders(f, r))
         \o <<Remember(Rebase(r, p, q), CopyOf(r, ids))>>

\* The folders below p that have at most k directories.
Small(p, k) == {r \in Below(p, dirs): Size(r) <= k}

\* f is what the definition of CopySteps computes for the folders of S.
IsCopySteps(f, S, p, q, ids, parent) == f = [r \in S |-> StepsOf(f, r, p, q, ids, parent)]

\* The recursive function of CopySteps exists.
LEMMA CopyStepsExist ==
    ASSUME Rooted(dirs, notes), NEW p \in Folders, NEW q, NEW ids, NEW parent
    PROVE  \E f: /\ IsCopySteps(f, Below(p, dirs), p, q, ids, parent)
                 /\ CopySteps(p, q, ids, parent) = f[p]
<1> DEFINE Reached == {k \in Nat: \E f: IsCopySteps(f, Small(p, k), p, q, ids, parent)}
<1>1. \A r \in Below(p, dirs): Size(r) \in Nat
  BY CopiedSubfolders
<1>2. 0 \in Reached
  <2>1. Small(p, 0) = {}
    <3>1. ASSUME NEW r \in Below(p, dirs), Size(r) <= 0 PROVE FALSE
      <4>1. IsFiniteSet(Below(r, dirs)) /\ r \in Below(r, dirs)
        <5>1. Below(r, dirs) \in SUBSET dirs /\ r \in Below(r, dirs)
          BY FoldersArePlaces, PrefixChain DEF Below, Rooted, Closed
        <5> QED
          BY <5>1, FS_Subset DEF Rooted, Closed
      <4>2. Size(r) = 0
        BY <1>1, <3>1
      <4> QED
        BY <4>1, <4>2, FS_EmptySet DEF Size
    <3> QED
      BY <3>1 DEF Small
  <2> DEFINE f == [r \in {} |-> <<>>]
  <2>2. IsCopySteps(f, {}, p, q, ids, parent)
    BY DEF IsCopySteps
  <2> HIDE DEF f
  <2> QED
    BY <2>1, <2>2
<1>3. \A k \in Nat: k \in Reached => k + 1 \in Reached
  <2> SUFFICES ASSUME NEW k \in Nat, NEW f, IsCopySteps(f, Small(p, k), p, q, ids, parent)
               PROVE  \E g: IsCopySteps(g, Small(p, k + 1), p, q, ids, parent)
    OBVIOUS
  <2> DEFINE S == Small(p, k)
             U == Small(p, k + 1)
             g == [r \in U |-> StepsOf(f, r, p, q, ids, parent)]
  <2>1. \A r \in S: r \in U /\ f[r] = StepsOf(f, r, p, q, ids, parent)
    <3>1. S \subseteq U
      BY <1>1 DEF Small
    <3> QED
      BY <3>1 DEF IsCopySteps
  <2>2. \A r \in S: g[r] = f[r]
    BY <2>1
  <2>3. ASSUME NEW r \in U PROVE Subfolders(g, r) = Subfolders(f, r)
    <3>1. r \in Below(p, dirs) /\ Size(r) <= k + 1
      BY DEF Small
    <3>2. ASSUME NEW i \in 1 .. Cardinality(CopiedFolders(r))
          PROVE  Append(r, SetToSeq(CopiedFolders(r))[i]) \in S
      BY <1>1, <3>1, CopiedSubfolders DEF Small
    <3> HIDE DEF g, S, U
    <3> QED
      BY <2>2, <3>2 DEF Subfolders
  <2>4. \A r \in U: StepsOf(g, r, p, q, ids, parent) = StepsOf(f, r, p, q, ids, parent)
    <3> HIDE DEF g, U
    <3> QED
      BY <2>3 DEF StepsOf
  <2>5. IsCopySteps(g, U, p, q, ids, parent)
    BY <2>4 DEF IsCopySteps
  <2> HIDE DEF g
  <2> QED
    BY <2>5
<1>4. \E k \in Nat: Small(p, k) = Below(p, dirs)
  <2>1. IsFiniteSet(dirs) /\ Cardinality(dirs) \in Nat
    BY FS_CardinalityType DEF Rooted, Closed
  <2>2. ASSUME NEW r \in Below(p, dirs) PROVE Size(r) <= Cardinality(dirs)
    <3>1. Below(r, dirs) \in SUBSET dirs
      BY DEF Below
    <3> QED
      BY <2>1, <3>1, FS_Subset DEF Size
  <2>3. Small(p, Cardinality(dirs)) = Below(p, dirs)
    BY <2>2 DEF Small
  <2> QED
    BY <2>1, <2>3
<1>5. PICK k \in Nat: Small(p, k) = Below(p, dirs) /\ k \in Reached
  <2> HIDE DEF Reached
  <2>1. \A k \in Nat: k \in Reached
    BY <1>2, <1>3, Induction
  <2> QED
    BY <1>4, <2>1
<1>6. PICK f: IsCopySteps(f, Below(p, dirs), p, q, ids, parent)
  BY <1>5
<1> DEFINE h == CHOOSE steps: IsCopySteps(steps, Below(p, dirs), p, q, ids, parent)
<1>7. IsCopySteps(h, Below(p, dirs), p, q, ids, parent)
  BY <1>6
<1>8. CopySteps(p, q, ids, parent) = h[p]
  BY DEF CopySteps, IsCopySteps, StepsOf, Subfolders, CopyOf
<1> HIDE DEF h
<1> QED
  BY <1>7, <1>8

\* They take no note.
LEMMA CopyStepsHarmless ==
    ASSUME Rooted(dirs, notes), NEW p \in Folders, p \in dirs, NEW q, NEW ids, NEW parent
    PROVE  AllHarmless(CopySteps(p, q, ids, parent))
<1>1. PICK f: /\ IsCopySteps(f, Below(p, dirs), p, q, ids, parent)
              /\ CopySteps(p, q, ids, parent) = f[p]
  BY CopyStepsExist
<1>2. \A r \in Below(p, dirs): f[r] = StepsOf(f, r, p, q, ids, parent)
  BY <1>1 DEF IsCopySteps
<1> DEFINE Good == {k \in Nat: \A r \in Small(p, k): AllHarmless(f[r])}
<1>3. 0 \in Good
  <2>1. ASSUME NEW r \in Small(p, 0) PROVE FALSE
    <3>1. r \in Below(p, dirs) /\ Size(r) <= 0 /\ Size(r) \in Nat
      BY CopiedSubfolders DEF Small
    <3>2. IsFiniteSet(Below(r, dirs)) /\ r \in Below(r, dirs)
      <4>1. Below(r, dirs) \in SUBSET dirs /\ r \in Below(r, dirs)
        BY <3>1, FoldersArePlaces, PrefixChain DEF Below, Rooted, Closed
      <4> QED
        BY <4>1, FS_Subset DEF Rooted, Closed
    <3>3. Size(r) = 0
      BY <3>1
    <3> QED
      BY <3>2, <3>3, FS_EmptySet DEF Size
  <2> QED
    BY <2>1
<1>4. \A k \in Nat: k \in Good => k + 1 \in Good
  <2> SUFFICES ASSUME NEW k \in Nat, k \in Good, NEW r \in Small(p, k + 1)
               PROVE  AllHarmless(f[r])
    OBVIOUS
  <2>1. r \in Below(p, dirs) /\ Size(r) <= k + 1
    BY DEF Small
  <2>2. ASSUME NEW i \in 1 .. Cardinality(CopiedFolders(r))
        PROVE  AllHarmless(Subfolders(f, r)[i])
    <3>1. Append(r, SetToSeq(CopiedFolders(r))[i]) \in Small(p, k)
      <4>1. \A x \in Below(p, dirs): Size(x) \in Nat
        BY CopiedSubfolders
      <4> QED
        BY <2>1, <4>1, CopiedSubfolders DEF Small
    <3>2. AllHarmless(f[Append(r, SetToSeq(CopiedFolders(r))[i])])
      BY <3>1
    <3> QED
      BY <3>2 DEF Subfolders
  <2>3. AllHarmless(FlattenSeq(Subfolders(f, r)))
    <3>1. Cardinality(CopiedFolders(r)) \in Nat
      BY <2>1, CopiedSubfolders
    <3>2. Subfolders(f, r) = [i \in 1 .. Cardinality(CopiedFolders(r)) |-> Subfolders(f, r)[i]]
      BY DEF Subfolders
    <3> HIDE DEF Good
    <3> QED
      BY <2>2, <3>1, <3>2, FlattenHarmless
  <2> HIDE DEF Good
  <2> DEFINE A == <<SaveNew(Rebase(r, p, q), CopyOf(r, ids)),
                    PutRow(ids[r], IF r = p THEN parent ELSE ids[Front(r)],
                           Last(Rebase(r, p, q))),
                    PutNoteRows(CopyOf(r, ids))>>
             B == FlattenSeq(Subfolders(f, r))
             C == <<Remember(Rebase(r, p, q), CopyOf(r, ids))>>
  <2>4. AllHarmless(A) /\ AllHarmless(C) /\ AllHarmless(<<Return("error")>>)
    BY HarmlessSteps, FewHarmless
  <2>5. f[r] = IF ~Readable(r) THEN <<Return("error")>> ELSE A \o B \o C
    BY <1>2, <2>1 DEF StepsOf
  <2> HIDE DEF A, B, C
  <2>6. AllHarmless(A \o B)
    BY <2>3, <2>4, StepsAfter DEF B
  <2>7. AllHarmless(A \o B \o C)
    BY <2>4, <2>6, StepsAfter
  <2> QED
    BY <2>4, <2>5, <2>7
<1>5. p \in Below(p, dirs) /\ p \in Small(p, Size(p)) /\ Size(p) \in Nat
  <2>1. p \in Below(p, dirs)
    BY FoldersArePlaces, PrefixChain DEF Below
  <2>2. Size(p) \in Nat
    BY <2>1, CopiedSubfolders
  <2> QED
    BY <2>1, <2>2 DEF Small
<1>6. Size(p) \in Good
  <2> HIDE DEF Good
  <2> QED
    BY <1>3, <1>4, <1>5, Induction
<1> QED
  BY <1>1, <1>5, <1>6

\* The copy of a folder, with all below it, comes where there is none.
LEMMA CopyKeeps ==
    ASSUME IInv, NEW p \in Shown \ {Root}, NEW d \in Shown, NEW n \in Names, CopyFolder(p, d, n)
    PROVE  IInv'
<1> DEFINE q == Append(d, n)
           copied == CopiedTree(p)
           texted == Below(p, DOMAIN notes)
           new == copied \cup texted
           ids == FreshIds(new)
           D == {Rebase(r, p, q): r \in Below(p, dirs)}
           R == {Rebase(r, p, q): r \in texted}
           M == [m \in R |-> ids[Rebase(m, q, p)]]
           A == <<Grow(D, M, FALSE)>>
           B == <<CopyConfigs(p, q)>>
           C == CopySteps(p, q, ids, cache[d].id)
           E == <<SaveCached(d, AddFolder(cache[d], n))>>
           T == A \o B \o C \o E
           gain == {ids[r]: r \in copied \cup {m \in texted:
                        Front(m) \in copied /\ Last(m) \in DOMAIN conf[Front(m)].files}}
<1>1. /\ Begin(T, {d, q}, {}, gain, Cardinality(new))
      /\ texts' = texts /\ q \notin dirs /\ p \in dirs
  BY DEF CopyFolder
<1>2. /\ Rooted(dirs, notes) /\ next \in Nat \ {0} /\ IsFiniteSet(DOMAIN conf)
      /\ IsFiniteSet(DOMAIN notes) /\ IsFiniteSet(dirs) /\ dirs \subseteq Folders
  BY DEF IInv, Tree, Numbers, Rooted, Closed
<1>3. p \in Folders /\ q \in Folders /\ p \in Places /\ q \in Places
  BY ShownFolders, FolderPlace, FoldersArePlaces
<1> HIDE DEF q
<1>4. IsFiniteSet(new) /\ IsFiniteSet(texted) /\ gain \subseteq {ids[r]: r \in new}
  <2>1. copied \in SUBSET (DOMAIN conf) /\ texted \in SUBSET (DOMAIN notes)
    BY DEF CopiedTree, Below
  <2> HIDE DEF copied, texted
  <2> QED
    BY <1>2, <2>1, FS_Subset, FS_Union
<1>5. IsFiniteSet(D) /\ D \subseteq Folders
  <2>1. Below(p, dirs) \in SUBSET dirs
    BY DEF Below
  <2>2. IsFiniteSet(Below(p, dirs))
    BY <1>2, <2>1, FS_Subset
  <2> DEFINE g == [r \in Below(p, dirs) |-> Rebase(r, p, q)]
  <2>3. g \in [Below(p, dirs) -> D] /\ D = {g[r]: r \in Below(p, dirs)}
    OBVIOUS
  <2>4. ASSUME NEW r \in Below(p, dirs) PROVE Rebase(r, p, q) \in Folders
    BY <1>2, <1>3, FoldersArePlaces, RebasePoints DEF Below
  <2> HIDE DEF g
  <2>5. IsFiniteSet(D)
    <3> HIDE DEF D
    <3> QED
      BY <2>2, <2>3, FiniteImage
  <2> QED
    BY <2>4, <2>5
<1>6. IsFiniteSet(R)
  <2> DEFINE g == [r \in texted |-> Rebase(r, p, q)]
  <2>1. g \in [texted -> R] /\ R = {g[r]: r \in texted}
    OBVIOUS
  <2> HIDE DEF g, texted, R
  <2> QED
    BY <1>4, <2>1, FiniteImage
<1>7. ASSUME NEW r \in texted
      PROVE  /\ Rebase(r, p, q) \in Homes(Folders) /\ Within(q, Rebase(r, p, q))
             /\ Rebase(Rebase(r, p, q), q, p) = r
  <2>1. r \in DOMAIN notes /\ Within(p, r)
    BY DEF Below
  <2>2. PICK e \in dirs, f \in Files: r = Append(e, f)
    BY <1>2, <2>1 DEF Rooted, Homes
  <2>3. e \in Folders /\ r \in Places
    BY <1>2, <2>2, NotePlace
  <2>4. Within(p, e)
    BY <1>3, <2>1, <2>2, <2>3, ShownFolders, NoteNeighbours
  <2>5. Rebase(r, p, q) = Append(Rebase(e, p, q), f)
    BY <1>3, <2>2, <2>3, <2>4, RebaseNote
  <2>6. Rebase(e, p, q) \in Folders
    BY <1>3, <2>3, <2>4, FoldersArePlaces, RebasePoints
  <2>7. Rebase(r, p, q) \in Homes(Folders)
    BY <2>5, <2>6 DEF Homes
  <2> QED
    BY <1>3, <2>1, <2>3, <2>7, RebaseBack
<1>8. Cardinality(new) \in Nat /\ \A x \in new: ids[x] \in next .. next + Cardinality(new) - 1
  <2> HIDE DEF new
  <2> QED
    BY <1>2, <1>4, NewIds
<1>9. /\ DOMAIN M = R /\ R \subseteq Homes(Folders) /\ R \cap DOMAIN notes = {}
      /\ \A m \in R: M[m] \in Nat /\ M[m] >= next
  <2>1. ASSUME NEW m \in R
        PROVE  m \in Homes(Folders) /\ m \notin DOMAIN notes /\ M[m] \in Nat /\ M[m] >= next
    <3>1. PICK r \in texted: m = Rebase(r, p, q)
      OBVIOUS
    <3>2. m \in Homes(Folders) /\ Within(q, m) /\ Rebase(m, q, p) = r
      BY <1>7, <3>1
    <3>3. m \notin DOMAIN notes
      <4>1. Below(q, DOMAIN notes) = {}
        BY <1>1, <1>2, <1>3, NothingBelow
      <4> QED
        BY <3>2, <4>1 DEF Below
    <3>4. M[m] = ids[r] /\ r \in new
      BY <3>2
    <3> HIDE DEF new, ids, M, R
    <3> QED
      BY <1>2, <1>8, <3>2, <3>3, <3>4
  <2> HIDE DEF R, ids
  <2> QED
    BY <2>1
<1>10. gain \subseteq 1 .. next + Cardinality(new) - 1
  <2> HIDE DEF new, ids, gain
  <2> QED
    BY <1>2, <1>4, <1>8
<1>11. GrowsFirst(A, notes, texts)
  <2> DEFINE a == Grow(D, M, FALSE)
  <2>1. Grows(a, notes, texts)
    <3> HIDE DEF D, M, R
    <3> QED
      BY <1>5, <1>6, <1>9, NewTree
  <2>2. A = <<a>>
    OBVIOUS
  <2> HIDE DEF a, A
  <2> QED
    BY <2>1, <2>2, FewOthers
<1>12. AllHarmless(B) /\ AllHarmless(C) /\ AllHarmless(E)
  <2>1. AllHarmless(C)
    <3> HIDE DEF ids
    <3> QED
      BY <1>1, <1>2, <1>3, CopyStepsHarmless
  <2>2. Harmless(CopyConfigs(p, q)) /\ Harmless(SaveCached(d, AddFolder(cache[d], n)))
    BY HarmlessSteps
  <2> HIDE DEF C
  <2> QED
    BY <2>1, <2>2, FewHarmless
<1>13. GrowsFirst(T, notes, texts) /\ T # <<>>
  <2> HIDE DEF A, B, C, E
  <2>1. GrowsFirst(A \o B, notes, texts)
    BY <1>11, <1>12, StepsAfter
  <2>2. GrowsFirst(A \o B \o C, notes, texts)
    BY <1>12, <2>1, StepsAfter
  <2>3. GrowsFirst(A \o B \o C \o E, notes, texts)
    BY <1>12, <2>2, StepsAfter
  <2> QED
    BY <2>3, PlansNotEmpty
<1> HIDE DEF T, gain, new
<1> QED
  BY <1>1, <1>8, <1>10, <1>13, BeginKeeps DEF Pending

-----------------------------------------------------------------------------
(* The start *)

\* Folders with the folders they are in hold all prefixes of theirs.
LEMMA FoldersWithFronts ==
    ASSUME NEW D, D \subseteq Folders, Root \in D, \A p \in D \ {Root}: Front(p) \in D
    PROVE  \A d \in D: Prefixes(d) \subseteq D
<1> DEFINE Good == {k \in Nat: \A d \in D: Len(d) = k => Prefixes(d) \subseteq D}
<1>1. 0 \in Good
  <2> SUFFICES ASSUME NEW d \in D, Len(d) = 0, NEW q \in Prefixes(d)
               PROVE  q \in D
    OBVIOUS
  <2>1. q \in Folders /\ Within(q, d) /\ d \in Places /\ q \in Places
    BY PrefixesOf, FoldersArePlaces
  <2>2. Len(q) <= 0 /\ Len(q) \in Nat
    <3>1. Len(q) <= Len(d)
      BY <2>1, PrefixPoints
    <3>2. Len(q) \in Nat
      BY <2>1 DEF Places
    <3> QED
      BY <3>1, <3>2
  <2>3. q = <<>>
    BY <2>1, <2>2, EmptySeq DEF Folders
  <2> QED
    BY <2>3 DEF Root
<1>2. \A k \in Nat: k \in Good => k + 1 \in Good
  <2> SUFFICES ASSUME NEW k \in Nat, k \in Good, NEW d \in D, Len(d) = k + 1, NEW q \in Prefixes(d)
               PROVE  q \in D
    OBVIOUS
  <2>1. q \in Folders /\ Within(q, d) /\ d \in Places /\ q \in Places /\ d \in Folders
    BY PrefixesOf, FoldersArePlaces
  <2>2. Len(q) \in Nat /\ Len(q) <= k + 1
    BY <2>1, PrefixPoints DEF Places
  <2>3. d # Root /\ d # <<>>
    BY EmptySeq DEF Root
  <2>4. Front(d) \in D /\ Front(d) \in Folders /\ Len(Front(d)) = k
    <3>1. Front(d) \in D
      BY <2>3
    <3>2. d \in Seq(Names) /\ \A i \in 1 .. k: d[i] \in Names
      BY <2>1 DEF Folders
    <3>3. Len(SubSeq(d, 1, k)) = IF 1 <= k THEN k - 1 + 1 ELSE 0
      BY <3>2, SubSeqProperties
    <3> QED
      BY <3>1, <3>3 DEF Front
  <2>5. CASE Len(q) = k + 1
    <3>1. q = d
      BY <2>1, <2>5, PrefixPoints, SeqEqual DEF Places
    <3> QED
      BY <3>1
  <2>6. CASE Len(q) # k + 1
    <3>1. Within(q, Front(d))
      <4>1. d \in AnyPath /\ Len(q) < Len(d)
        BY <2>1, <2>2, <2>6, ShownFolders
      <4> QED
        BY <2>1, <2>3, <2>4, <4>1, FrontOf
    <3>2. q \in Prefixes(Front(d))
      BY <2>1, <2>4, <3>1, PrefixesOf
    <3> QED
      BY <2>4, <3>2
  <2> QED
    BY <2>5, <2>6
<1>3. \A k \in Nat: k \in Good
  <2> HIDE DEF Good
  <2> QED
    BY <1>1, <1>2, Induction
<1>4. ASSUME NEW d \in D PROVE Prefixes(d) \subseteq D
  <2>1. Len(d) \in Nat
    BY DEF Folders
  <2> QED
    BY <1>3, <2>1
<1> QED
  BY <1>4

\* The notebook as it is opened.
LEMMA InitInvariant == Init => IInv
<1> SUFFICES ASSUME Init PROVE IInv
  OBVIOUS
<1> DEFINE S == StartFolders \cup StartNotes
<1>1. /\ dirs = StartFolders /\ notes = [n \in StartNotes |-> StartId[n]]
      /\ DOMAIN conf = StartFolders /\ call = Idle /\ known = Range(StartId)
      /\ texts = Range(notes) /\ next = Cardinality(DOMAIN StartId) + 1
  BY DEF Init
<1>2. /\ StartFolders \subseteq Folders /\ Root \in StartFolders /\ IsFiniteSet(S)
      /\ \A p \in StartFolders \ {Root}: Front(p) \in StartFolders
      /\ StartId \in [S -> 1 .. Cardinality(S)]
  BY ConstantsAssumption, ShownFolders DEF Bijection, Injection
<1>3. IsFiniteSet(StartFolders) /\ IsFiniteSet(StartNotes) /\ Cardinality(S) \in Nat
  <2>1. StartFolders \in SUBSET S /\ StartNotes \in SUBSET S
    OBVIOUS
  <2> HIDE DEF S
  <2> QED
    BY <1>2, <2>1, FS_Subset, FS_CardinalityType
<1>4. StartNotes \subseteq Homes(StartFolders)
  <2> SUFFICES ASSUME NEW n \in StartNotes PROVE n \in Homes(StartFolders)
    OBVIOUS
  <2>1. n \in NotePaths /\ Front(n) \in StartFolders
    BY ConstantsAssumption
  <2>2. PICK p \in Paths, f \in Files: n = Append(p, f)
    BY <2>1 DEF NotePaths
  <2>3. Front(n) = p
    BY <2>2, ShownFolders, NotePlace
  <2> QED
    BY <2>1, <2>2, <2>3 DEF Homes
<1>5. Tree
  <2>1. Closed(StartFolders)
    BY <1>2, <1>3, FoldersWithFronts DEF Closed
  <2> QED
    BY <1>1, <1>3, <1>4, <2>1 DEF Tree, Rooted
<1>6. Numbers
  <2>1. DOMAIN StartId = S /\ Range(StartId) \subseteq 1 .. Cardinality(S)
    <3> HIDE DEF S
    <3> QED
      BY <1>2 DEF Range
  <2>2. Range(notes) \subseteq Range(StartId)
    BY <1>1, <2>1 DEF Range
  <2>3. call.gain = {}
    BY <1>1, IdlePending
  <2> HIDE DEF S
  <2> QED
    BY <1>1, <1>3, <2>1, <2>2, <2>3 DEF Numbers
<1>7. Calls
  BY <1>1, IdlePending, NothingPending DEF Calls, Running
<1>8. NothingLost
  BY <1>1 DEF NothingLost
<1> QED
  BY <1>5, <1>6, <1>7, <1>8 DEF IInv

-----------------------------------------------------------------------------
(* The theorem *)

\* Each step keeps the invariant.
LEMMA NextKeeps == IInv /\ [Next]_vars => IInv'
<1> SUFFICES ASSUME IInv, [Next]_vars PROVE IInv'
  OBVIOUS
<1>1. CASE FolderCall
  BY <1>1, IndexCalls, DeletingCalls, MovingCalls, ImportKeeps, CopyKeeps DEF FolderCall
<1>2. CASE NoteCall
  BY <1>2, IndexCalls, DeletingCalls, MovingCalls, NewNoteCalls DEF NoteCall
<1>3. CASE DiskStep
  BY <1>3, ContentSteps, OtherSteps DEF DiskStep
<1>4. CASE MemoryStep \/ RowStep
  BY <1>4, OtherSteps
<1>5. CASE \/ \E p \in Listed: OpenFolder(p)
           \/ RebuildCache \/ Quit \/ CloseNotebook
           \/ \E remains \in WriteRemains: Crash(remains)
  BY <1>5, ProcessSteps
<1>6. CASE UNCHANGED vars
  BY <1>6 DEF vars, disk, store, observed, bounds, IInv, Tree, Numbers, Calls, Running, NothingLost
<1> QED
  BY <1>1, <1>2, <1>3, <1>4, <1>5, <1>6 DEF Next

\* The directories, notes and plans of BundledFolderManager stay as they have to be: what is
\* left of a running call takes no text that is to be kept, whichever steps failed.
THEOREM Invariant == Spec => []IInv
<1> QED
  BY InitInvariant, NextKeeps, PTL DEF Spec

\* Only a call to delete a note, or a folder it is in, takes its text from the disk: no
\* rename, move, copy or import does, nor a failure, rollback or crash within one.
THEOREM ContentStays == Spec => []NothingLost
<1>1. IInv => NothingLost
  BY DEF IInv
<1> QED
  BY <1>1, Invariant, PTL

==============================================================================
