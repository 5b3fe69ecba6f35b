---------------------------- MODULE SessionProofs ----------------------------
(* Proofs about Session, for any folders, notebooks, buffers and workspaces and any
   number of calls, starts and failing writes. LoadOpenNotebooks and Only are recursive
   functions: what they return is proved by induction over numbers (Induction), which
   FS_Injection gives for sets. *)
EXTENDS Session, FiniteSetTheorems, SequenceTheorems, TLAPS

-----------------------------------------------------------------------------
(* Induction, and lists *)

\* Induction over numbers, for a set of them: what FS_Injection says of k |-> k + 1.
LEMMA Induction ==
    ASSUME NEW S, 0 \in S, \A k \in Nat: k \in S => k + 1 \in S
    PROVE  \A n \in Nat: n \in S
<1> SUFFICES ASSUME NEW n \in Nat, n \notin S PROVE FALSE
  OBVIOUS
<1> DEFINE T == {k \in 0..n: k \in S}
           f == [k \in T |-> k + 1]
<1>1. IsFiniteSet(T)
  <2>1. IsFiniteSet(0..n)
    BY FS_Interval
  <2>2. T \subseteq 0..n
    OBVIOUS
  <2> QED
    BY <2>1, <2>2, FS_Subset
<1>2. 0 \in T
  OBVIOUS
<1>3. IsFiniteSet(T \ {0}) /\ Cardinality(T \ {0}) = Cardinality(T) - 1
  BY <1>1, <1>2, FS_RemoveElement
<1>4. \A k \in T: k + 1 \in T \ {0}
  OBVIOUS
<1>5. f \in Injection(T, T \ {0})
  BY <1>4 DEF Injection, IsInjective
<1>6. Cardinality(T) <= Cardinality(T \ {0})
  <2> HIDE DEF T, f
  <2> QED
    BY <1>1, <1>3, <1>5, FS_Injection
<1>7. Cardinality(T) \in Nat
  BY <1>1, FS_CardinalityType
<1> QED
  BY <1>3, <1>6, <1>7

\* f is what the definition of Only computes for the first n elements.
IsOnly(f, s, S, n) ==
    f = [i \in 0..n |-> IF i = 0 THEN <<>>
                        ELSE IF s[i] \in S THEN Append(f[i - 1], s[i])
                        ELSE f[i - 1]]

\* The recursive function of Only exists.
LEMMA OnlyExists ==
    ASSUME NEW s, NEW S, Len(s) \in Nat
    PROVE  \E f: IsOnly(f, s, S, Len(s)) /\ Only(s, S) = f[Len(s)]
<1> DEFINE Done == {n \in Nat: \E f: IsOnly(f, s, S, n)}
<1>1. 0 \in Done
  <2>1. IsOnly([i \in 0..0 |-> <<>>], s, S, 0)
    BY DEF IsOnly
  <2> QED
    BY <2>1
<1>2. \A k \in Nat: k \in Done => k + 1 \in Done
  <2> SUFFICES ASSUME NEW k \in Nat, NEW f, IsOnly(f, s, S, k)
               PROVE  \E g: IsOnly(g, s, S, k + 1)
    OBVIOUS
  <2> DEFINE g == [i \in 0..k + 1 |-> IF i <= k THEN f[i]
                                      ELSE IF s[i] \in S THEN Append(f[k], s[i]) ELSE f[k]]
  <2>1. \A i \in 0..k + 1: g[i] = IF i = 0 THEN <<>>
                        ELSE IF s[i] \in S THEN Append(g[i - 1], s[i])
                        ELSE g[i - 1]
    <3> SUFFICES ASSUME NEW i \in 0..k + 1
                 PROVE  g[i] = IF i = 0 THEN <<>>
                        ELSE IF s[i] \in S THEN Append(g[i - 1], s[i])
                        ELSE g[i - 1]
      OBVIOUS
    <3>1. CASE i <= k
      <4>1. i \in 0..k /\ (i # 0 => i - 1 \in 0..k)
        BY <3>1
      <4>2. f[i] = IF i = 0 THEN <<>>
                   ELSE IF s[i] \in S THEN Append(f[i - 1], s[i]) ELSE f[i - 1]
        <5> HIDE DEF g
        <5> QED
          BY <4>1 DEF IsOnly
      <4>3. g[i] = f[i] /\ (i # 0 => g[i - 1] = f[i - 1])
        BY <3>1, <4>1
      <4> QED
        BY <4>2, <4>3
    <3>2. CASE i = k + 1
      BY <3>2
    <3> QED
      BY <3>1, <3>2
  <2>2. IsOnly(g, s, S, k + 1)
    BY <2>1 DEF IsOnly
  <2> QED
    BY <2>2
<1>3. Len(s) \in Done
  <2> HIDE DEF Done
  <2> QED
    BY <1>1, <1>2, Induction
<1>4. PICK f: IsOnly(f, s, S, Len(s))
  BY <1>3
<1> DEFINE h == CHOOSE only: only = [i \in 0..Len(s) |-> IF i = 0 THEN <<>>
                        ELSE IF s[i] \in S THEN Append(only[i - 1], s[i])
                        ELSE only[i - 1]]
<1>5. h = [i \in 0..Len(s) |-> IF i = 0 THEN <<>>
                        ELSE IF s[i] \in S THEN Append(h[i - 1], s[i])
                        ELSE h[i - 1]]
  BY <1>4 DEF IsOnly
<1>6. Only(s, S) = h[Len(s)]
  BY DEF Only
<1> QED
  BY <1>5, <1>6 DEF IsOnly

\* Only of nothing.
LEMMA OnlyEmpty ==
    ASSUME NEW S
    PROVE  Only(<<>>, S) = <<>>
<1>1. Len(<<>>) = 0
  OBVIOUS
<1>2. PICK f: IsOnly(f, <<>>, S, 0) /\ Only(<<>>, S) = f[0]
  BY <1>1, OnlyExists
<1> QED
  BY <1>2 DEF IsOnly

\* Only of a longer list.
LEMMA OnlyAppend ==
    ASSUME NEW T, NEW t \in Seq(T), NEW x \in T, NEW S
    PROVE  Only(Append(t, x), S)
             = IF x \in S THEN Append(Only(t, S), x) ELSE Only(t, S)
<1> DEFINE s == Append(t, x)
           n == Len(t)
<1>1. /\ n \in Nat /\ Len(s) = n + 1 /\ s[n + 1] = x
      /\ \A i \in 1..n: s[i] = t[i]
  OBVIOUS
<1> HIDE DEF s
<1>2. PICK f: IsOnly(f, s, S, n + 1) /\ Only(s, S) = f[n + 1]
  BY <1>1, OnlyExists
<1>3. PICK g: IsOnly(g, t, S, n) /\ Only(t, S) = g[n]
  BY <1>1, OnlyExists
<1> HIDE DEF n
<1> DEFINE Same == {k \in Nat: k <= n => f[k] = g[k]}
<1>4. 0 \in Same
  BY <1>1, <1>2, <1>3 DEF IsOnly
<1>5. \A k \in Nat: k \in Same => k + 1 \in Same
  <2> SUFFICES ASSUME NEW k \in Nat, k + 1 <= n, f[k] = g[k]
               PROVE  f[k + 1] = g[k + 1]
    BY <1>1
  <2>1. /\ k + 1 \in 1..n /\ k + 1 \in 0..n /\ k + 1 \in 0..n + 1 /\ k + 1 # 0
        /\ (k + 1) - 1 = k
    BY <1>1
  <2>2. f[k + 1] = IF s[k + 1] \in S THEN Append(f[k], s[k + 1]) ELSE f[k]
    BY <1>2, <2>1 DEF IsOnly
  <2>3. g[k + 1] = IF t[k + 1] \in S THEN Append(g[k], t[k + 1]) ELSE g[k]
    BY <1>3, <2>1 DEF IsOnly
  <2> QED
    BY <1>1, <2>1, <2>2, <2>3
<1>6. n \in Same
  <2> HIDE DEF Same
  <2> QED
    BY <1>1, <1>4, <1>5, Induction
<1>7. f[n + 1] = IF s[n + 1] \in S THEN Append(f[n], s[n + 1]) ELSE f[n]
  <2>1. n + 1 \in 0..n + 1 /\ n + 1 # 0 /\ (n + 1) - 1 = n
    BY <1>1
  <2> QED
    BY <1>2, <2>1 DEF IsOnly
<1> QED
  BY <1>1, <1>2, <1>3, <1>6, <1>7 DEF s

\* Induction over sequences, for a set of them.
LEMMA SequenceInduction ==
    ASSUME NEW T, NEW P, <<>> \in P,
           \A t \in Seq(T): \A x \in T: t \in P => Append(t, x) \in P
    PROVE  \A s \in Seq(T): s \in P
<1> DEFINE Lengths == {n \in Nat: \A s \in Seq(T): Len(s) = n => s \in P}
<1>1. 0 \in Lengths
  BY EmptySeq
<1>2. \A k \in Nat: k \in Lengths => k + 1 \in Lengths
  <2> SUFFICES ASSUME NEW k \in Nat, k \in Lengths, NEW s \in Seq(T), Len(s) = k + 1
               PROVE  s \in P
    OBVIOUS
  <2>1. PICK t \in Seq(T), x \in T: s = Append(t, x)
    BY SequenceEmptyOrAppend
  <2>2. Len(t) = k
    BY <2>1
  <2> QED
    BY <2>1, <2>2
<1>3. \A n \in Nat: n \in Lengths
  <2> HIDE DEF Lengths
  <2> QED
    BY <1>1, <1>2, Induction
<1> QED
  BY <1>3

\* The elements of a longer list.
LEMMA ElementsAppend ==
    ASSUME NEW T, NEW q \in Seq(T), NEW x \in T
    PROVE  Append(q, x) \in Seq(T) /\ ToSet(Append(q, x)) = ToSet(q) \cup {x}
<1> DEFINE r == Append(q, x)
           n == Len(q)
<1>1. /\ r \in Seq(T) /\ n \in Nat /\ DOMAIN q = 1..n /\ DOMAIN r = 1..n + 1
      /\ r[n + 1] = x /\ \A i \in 1..n: r[i] = q[i]
  OBVIOUS
<1> HIDE DEF r, n
<1>2. ToSet(r) = {r[i]: i \in 1..n + 1}
  BY <1>1 DEF ToSet
<1>3. ToSet(q) = {q[i]: i \in 1..n}
  BY <1>1 DEF ToSet
<1>4. 1..n + 1 = 1..n \cup {n + 1}
  BY <1>1
<1>5. ToSet(r) = ToSet(q) \cup {x}
  BY <1>1, <1>2, <1>3, <1>4
<1> QED
  BY <1>1, <1>5 DEF r

\* What Only keeps.
LEMMA OnlyKeeps ==
    ASSUME NEW T, NEW S
    PROVE  \A s \in Seq(T): Only(s, S) \in Seq(T) /\ ToSet(Only(s, S)) = ToSet(s) \cap S
<1> DEFINE P == {s \in Seq(T): Only(s, S) \in Seq(T) /\ ToSet(Only(s, S)) = ToSet(s) \cap S}
<1>1. <<>> \in P
  <2>1. ToSet(<<>>) = {}
    BY EmptySeq DEF ToSet
  <2> QED
    BY <2>1, OnlyEmpty, EmptySeq
<1>2. \A t \in Seq(T): \A x \in T: t \in P => Append(t, x) \in P
  <2> SUFFICES ASSUME NEW t \in Seq(T), NEW x \in T, t \in P
               PROVE  Append(t, x) \in P
    OBVIOUS
  <2>1. Only(Append(t, x), S) = IF x \in S THEN Append(Only(t, S), x) ELSE Only(t, S)
    BY OnlyAppend
  <2>2. \A q \in Seq(T): Append(q, x) \in Seq(T) /\ ToSet(Append(q, x)) = ToSet(q) \cup {x}
    BY ElementsAppend
  <2> QED
    BY <2>1, <2>2
<1> QED
  <2> HIDE DEF P
  <2>1. \A s \in Seq(T): s \in P
    BY <1>1, <1>2, SequenceInduction
  <2> QED
    BY <2>1 DEF P

\* Only twice.
LEMMA OnlyTwice ==
    ASSUME NEW T, NEW A, NEW B
    PROVE  \A s \in Seq(T): Only(Only(s, A), B) = Only(s, A \cap B)
<1> DEFINE P == {s \in Seq(T): Only(Only(s, A), B) = Only(s, A \cap B)}
<1>1. <<>> \in P
  BY OnlyEmpty, EmptySeq
<1>2. \A t \in Seq(T): \A x \in T: t \in P => Append(t, x) \in P
  <2> SUFFICES ASSUME NEW t \in Seq(T), NEW x \in T, t \in P
               PROVE  Append(t, x) \in P
    OBVIOUS
  <2>1. Only(t, A) \in Seq(T)
    BY OnlyKeeps
  <2>2. Only(Append(t, x), A) = IF x \in A THEN Append(Only(t, A), x) ELSE Only(t, A)
    BY OnlyAppend
  <2>3. Only(Append(Only(t, A), x), B)
          = IF x \in B THEN Append(Only(Only(t, A), B), x) ELSE Only(Only(t, A), B)
    BY <2>1, OnlyAppend
  <2>4. Only(Append(t, x), A \cap B)
          = IF x \in A \cap B THEN Append(Only(t, A \cap B), x) ELSE Only(t, A \cap B)
    BY OnlyAppend
  <2>5. Only(Only(t, A), B) = Only(t, A \cap B)
    OBVIOUS
  <2>6. Only(Only(Append(t, x), A), B) = Only(Append(t, x), A \cap B)
    <3>1. CASE x \in A
      <4>1. Only(Append(t, x), A) = Append(Only(t, A), x)
        BY <2>2, <3>1
      <4>2. CASE x \in B
        <5>1. Only(Append(Only(t, A), x), B) = Append(Only(Only(t, A), B), x)
          BY <2>3, <4>2
        <5>2. Only(Append(t, x), A \cap B) = Append(Only(t, A \cap B), x)
          BY <2>4, <3>1, <4>2
        <5> HIDE DEF P
        <5> QED
          BY <4>1, <5>1, <5>2, <2>5, Zenon
      <4>3. CASE x \notin B
        <5>1. Only(Append(Only(t, A), x), B) = Only(Only(t, A), B)
          BY <2>3, <4>3
        <5>2. Only(Append(t, x), A \cap B) = Only(t, A \cap B)
          BY <2>4, <4>3
        <5> HIDE DEF P
        <5> QED
          BY <4>1, <5>1, <5>2, <2>5, Zenon
      <4> QED
        BY <4>2, <4>3
    <3>2. CASE x \notin A
      BY <2>2, <2>4, <2>5, <3>2
    <3> QED
      BY <3>1, <3>2
  <2> QED
    BY <2>6
<1> QED
  <2> HIDE DEF P
  <2>1. \A s \in Seq(T): s \in P
    BY <1>1, <1>2, SequenceInduction
  <2> QED
    BY <2>1 DEF P

\* Only looks at the elements of the list.
LEMMA OnlySame ==
    ASSUME NEW T, NEW A, NEW B
    PROVE  \A s \in Seq(T): ToSet(s) \cap A = ToSet(s) \cap B => Only(s, A) = Only(s, B)
<1> DEFINE P == {s \in Seq(T): ToSet(s) \cap A = ToSet(s) \cap B => Only(s, A) = Only(s, B)}
<1>1. <<>> \in P
  BY OnlyEmpty, EmptySeq
<1>2. \A t \in Seq(T): \A x \in T: t \in P => Append(t, x) \in P
  <2> SUFFICES ASSUME NEW t \in Seq(T), NEW x \in T, t \in P,
                      ToSet(Append(t, x)) \cap A = ToSet(Append(t, x)) \cap B
               PROVE  Only(Append(t, x), A) = Only(Append(t, x), B)
    OBVIOUS
  <2>1. ToSet(Append(t, x)) = ToSet(t) \cup {x}
    BY ElementsAppend
  <2>2. Only(Append(t, x), A) = IF x \in A THEN Append(Only(t, A), x) ELSE Only(t, A)
    BY OnlyAppend
  <2>3. Only(Append(t, x), B) = IF x \in B THEN Append(Only(t, B), x) ELSE Only(t, B)
    BY OnlyAppend
  <2>4. ToSet(t) \cap A = ToSet(t) \cap B /\ (x \in A <=> x \in B)
    BY <2>1
  <2>5. Only(t, A) = Only(t, B)
    BY <2>4
  <2> QED
    BY <2>2, <2>3, <2>4, <2>5
<1> QED
  <2> HIDE DEF P
  <2>1. \A s \in Seq(T): s \in P
    BY <1>1, <1>2, SequenceInduction
  <2> QED
    BY <2>1 DEF P

\* Only of everything.
LEMMA OnlyAll ==
    ASSUME NEW T
    PROVE  \A s \in Seq(T): Only(s, T) = s
<1> DEFINE P == {s \in Seq(T): Only(s, T) = s}
<1>1. <<>> \in P
  BY OnlyEmpty, EmptySeq
<1>2. \A t \in Seq(T): \A x \in T: t \in P => Append(t, x) \in P
  BY OnlyAppend
<1> QED
  <2> HIDE DEF P
  <2>1. \A s \in Seq(T): s \in P
    BY <1>1, <1>2, SequenceInduction
  <2> QED
    BY <2>1 DEF P

-----------------------------------------------------------------------------
(* LoadOpenNotebooks *)

\* Before the first record.
Record0 == [open |-> [n \in Notebooks |-> None], loaded |-> {}, recs |-> <<>>]

\* f is what LoadOpenNotebooks computes for the first n records.
IsLoad(f, recs, n) ==
    f = [i \in 0..n |->
            IF i = 0 THEN Record0
            ELSE IF Loads(recs[i].root) THEN LoadedRecord(f[i - 1], recs[i])
            ELSE KeepPhantom(f[i - 1], recs[i])]

\* The loop over the records ends.
LEMMA LoadExists ==
    ASSUME NEW recs, Len(recs) \in Nat
    PROVE  \E f: IsLoad(f, recs, Len(recs)) /\ LoadOpenNotebooks(recs) = f[Len(recs)]
<1> DEFINE Done == {n \in Nat: \E f: IsLoad(f, recs, n)}
<1>1. 0 \in Done
  <2>1. IsLoad([i \in 0..0 |-> Record0], recs, 0)
    BY DEF IsLoad
  <2> QED
    BY <2>1
<1>2. \A k \in Nat: k \in Done => k + 1 \in Done
  <2> SUFFICES ASSUME NEW k \in Nat, NEW f, IsLoad(f, recs, k)
               PROVE  \E g: IsLoad(g, recs, k + 1)
    OBVIOUS
  <2> DEFINE Step(a, i) == IF Loads(recs[i].root) THEN LoadedRecord(a, recs[i])
                           ELSE KeepPhantom(a, recs[i])
             g == [i \in 0..k + 1 |-> IF i <= k THEN f[i] ELSE Step(f[k], i)]
  <2>0. f = [i \in 0..k |-> IF i = 0 THEN Record0 ELSE Step(f[i - 1], i)]
    BY DEF IsLoad
  <2> HIDE DEF Step
  <2>1. \A i \in 0..k + 1: g[i] = IF i = 0 THEN Record0 ELSE Step(g[i - 1], i)
    <3> SUFFICES ASSUME NEW i \in 0..k + 1
                 PROVE  g[i] = IF i = 0 THEN Record0 ELSE Step(g[i - 1], i)
      OBVIOUS
    <3>1. CASE i <= k
      <4>1. i \in 0..k /\ (i # 0 => i - 1 \in 0..k)
        BY <3>1
      <4>2. f[i] = IF i = 0 THEN Record0 ELSE Step(f[i - 1], i)
        <5> HIDE DEF g
        <5> QED
          BY <2>0, <4>1
      <4>3. g[i] = f[i] /\ (i # 0 => g[i - 1] = f[i - 1])
        BY <3>1, <4>1
      <4> QED
        BY <4>2, <4>3
    <3>2. CASE i = k + 1
      <4>1. g[i] = Step(f[k], i) /\ i # 0 /\ i - 1 = k
        BY <3>2
      <4>2. g[k] = f[k]
        OBVIOUS
      <4> QED
        BY <4>1, <4>2
    <3> QED
      BY <3>1, <3>2
  <2>2. g = [i \in 0..k + 1 |-> IF i = 0 THEN Record0 ELSE Step(g[i - 1], i)]
    BY <2>1
  <2>3. IsLoad(g, recs, k + 1)
    BY <2>2 DEF IsLoad, Step
  <2> QED
    BY <2>3
<1>3. Len(recs) \in Done
  <2> HIDE DEF Done
  <2> QED
    BY <1>1, <1>2, Induction
<1>4. PICK f: IsLoad(f, recs, Len(recs))
  BY <1>3
<1> DEFINE h == CHOOSE load: load =
                [i \in 0..Len(recs) |->
                    IF i = 0
                    THEN [open |-> [n \in Notebooks |-> None], loaded |-> {}, recs |-> <<>>]
                    ELSE IF Loads(recs[i].root) THEN LoadedRecord(load[i - 1], recs[i])
                    ELSE KeepPhantom(load[i - 1], recs[i])]
<1>5. IsLoad(h, recs, Len(recs))
  BY <1>4 DEF IsLoad, Record0
<1>6. LoadOpenNotebooks(recs) = h[Len(recs)]
  BY DEF LoadOpenNotebooks
<1> QED
  BY <1>5, <1>6

\* What the loop has after its first n records: notebooks under the ids of their
\* folders, and for each root of these records a record of the same mode.
Loaded(acc, recs, n) ==
    /\ acc.open \in [Notebooks -> NotebookObjects \cup {None}]
    /\ acc.recs \in Seq(NotebookRecords)
    /\ \A m \in Notebooks: acc.open[m] # None => config[acc.open[m].root] = m
    /\ \A i \in 1..n: Listing(acc.recs, recs[i].root)
    /\ \A k \in DOMAIN acc.recs: \E i \in 1..n:
          recs[i].root = acc.recs[k].root /\ recs[i].readOnly = acc.recs[k].readOnly

\* A record that loads.
LEMMA LoadedRecordLoads ==
    ASSUME ConstantsAssumption, config \in [Roots -> Notebooks \cup {None}],
           NEW recs \in Seq(NotebookRecords), NEW n \in 1..Len(recs), NEW acc,
           Loaded(acc, recs, n - 1), Loads(recs[n].root)
    PROVE  Loaded(LoadedRecord(acc, recs[n]), recs, n)
<1> DEFINE r == recs[n]
           id == config[r.root]
           kept == Record(id, r.root, r.readOnly)
           new == LoadedRecord(acc, r)
<1>1. r \in NotebookRecords /\ id \in Notebooks /\ kept \in NotebookRecords
  <2>1. r \in NotebookRecords
    BY ElementOfSeq
  <2> QED
    BY <2>1 DEF NotebookRecords, Record, Loads
<1>2. /\ new.open = [acc.open EXCEPT ![id] = [root |-> r.root, readOnly |-> r.readOnly]]
      /\ new.recs = IF ~Listing(acc.recs, r.root) THEN Append(acc.recs, kept)
                    ELSE IF r.root \in acc.loaded THEN acc.recs
                    ELSE [i \in DOMAIN acc.recs |->
                            IF acc.recs[i].root = r.root THEN kept ELSE acc.recs[i]]
  BY DEF LoadedRecord, Record
<1>k. kept.root = r.root /\ kept.readOnly = r.readOnly
  BY DEF Record
<1>n. n \in Nat /\ n - 1 \in Nat /\ Len(recs) \in Nat
  OBVIOUS
<1> HIDE DEF new, kept, id, r
<1>a. /\ acc.open \in [Notebooks -> NotebookObjects \cup {None}]
      /\ acc.recs \in Seq(NotebookRecords)
      /\ \A m \in Notebooks: acc.open[m] # None => config[acc.open[m].root] = m
      /\ \A i \in 1..n - 1: Listing(acc.recs, recs[i].root)
      /\ \A k \in DOMAIN acc.recs: \E i \in 1..n - 1:
            recs[i].root = acc.recs[k].root /\ recs[i].readOnly = acc.recs[k].readOnly
  BY DEF Loaded
<1>3. /\ new.open \in [Notebooks -> NotebookObjects \cup {None}]
      /\ \A m \in Notebooks: new.open[m] # None => config[new.open[m].root] = m
  <2>1. [root |-> r.root, readOnly |-> r.readOnly] \in NotebookObjects
    BY <1>1 DEF NotebookRecords, NotebookObjects
  <2> QED
    BY <1>1, <1>2, <1>a, <2>1 DEF id
<1>4. \E i \in 1..n: recs[i].root = r.root /\ recs[i].readOnly = r.readOnly
  BY <1>n DEF r
<1>5. CASE ~Listing(acc.recs, r.root)
  <2>1. new.recs = Append(acc.recs, kept)
    BY <1>2, <1>5
  <2> DEFINE old == acc.recs
             l == Len(old)
  <2>2. /\ new.recs \in Seq(NotebookRecords) /\ l \in Nat /\ DOMAIN old = 1..l
        /\ DOMAIN new.recs = 1..l + 1 /\ new.recs[l + 1] = kept
        /\ \A i \in 1..l: new.recs[i] = old[i]
    BY <1>1, <1>a, <2>1
  <2> HIDE DEF old, l
  <2>3. \A i \in 1..n: Listing(new.recs, recs[i].root)
    <3>0. \A q: Listing(old, q) => Listing(new.recs, q)
      BY <2>2 DEF Listing
    <3>1. \A i \in 1..n - 1: Listing(new.recs, recs[i].root)
      BY <1>a, <3>0 DEF old
    <3>2. Listing(new.recs, r.root)
      <4>1. l + 1 \in DOMAIN new.recs /\ new.recs[l + 1].root = r.root
        BY <1>k, <2>2
      <4> QED
        BY <4>1 DEF Listing
    <3> QED
      BY <1>n, <3>1, <3>2 DEF r
  <2>4. \A k \in DOMAIN new.recs: \E i \in 1..n:
            recs[i].root = new.recs[k].root /\ recs[i].readOnly = new.recs[k].readOnly
    <3> SUFFICES ASSUME NEW k \in 1..l + 1
                 PROVE  \E i \in 1..n: recs[i].root = new.recs[k].root
                                       /\ recs[i].readOnly = new.recs[k].readOnly
      BY <2>2
    <3>1. CASE k = l + 1
      BY <1>4, <1>k, <2>2, <3>1
    <3>2. CASE k \in 1..l
      <4>1. PICK i \in 1..n - 1: recs[i].root = old[k].root
                                  /\ recs[i].readOnly = old[k].readOnly
        BY <1>a, <2>2, <3>2 DEF old
      <4>2. new.recs[k] = old[k] /\ i \in 1..n
        BY <1>n, <2>2, <3>2
      <4> QED
        BY <4>1, <4>2
    <3> QED
      BY <2>2, <3>1, <3>2
  <2> QED
    BY <1>3, <2>2, <2>3, <2>4 DEF Loaded, new, r
<1>6. CASE Listing(acc.recs, r.root) /\ r.root \in acc.loaded
  <2>1. new.recs = acc.recs
    BY <1>2, <1>6
  <2>2. \A i \in 1..n: Listing(new.recs, recs[i].root)
    BY <1>a, <1>n, <1>6, <2>1 DEF r
  <2>3. \A k \in DOMAIN new.recs: \E i \in 1..n:
            recs[i].root = new.recs[k].root /\ recs[i].readOnly = new.recs[k].readOnly
    BY <1>a, <1>n, <2>1
  <2> QED
    BY <1>3, <1>a, <2>1, <2>2, <2>3 DEF Loaded, new, r
<1>7. CASE Listing(acc.recs, r.root) /\ r.root \notin acc.loaded
  <2> DEFINE old == acc.recs
             l == Len(old)
  <2>1. new.recs = [i \in DOMAIN old |-> IF old[i].root = r.root THEN kept ELSE old[i]]
    BY <1>2, <1>7
  <2>2. l \in Nat /\ DOMAIN old = 1..l /\ \A i \in 1..l: old[i] \in NotebookRecords
    BY <1>a
  <2> HIDE DEF old, l
  <2>3. new.recs \in Seq(NotebookRecords) /\ DOMAIN new.recs = 1..l
    <3>1. new.recs \in [1..l -> NotebookRecords]
      BY <1>1, <2>1, <2>2
    <3> QED
      BY <2>2, <3>1, IsASeq
  <2>4. \A i \in 1..l: new.recs[i].root = old[i].root
    BY <1>k, <2>1, <2>2
  <2>5. \A i \in 1..n: Listing(new.recs, recs[i].root)
    <3>1. \A q: Listing(old, q) => Listing(new.recs, q)
      BY <2>2, <2>3, <2>4 DEF Listing
    <3> QED
      BY <1>a, <1>n, <1>7, <3>1 DEF r, old
  <2>6. \A k \in DOMAIN new.recs: \E i \in 1..n:
            recs[i].root = new.recs[k].root /\ recs[i].readOnly = new.recs[k].readOnly
    <3> SUFFICES ASSUME NEW k \in 1..l
                 PROVE  \E i \in 1..n: recs[i].root = new.recs[k].root
                                       /\ recs[i].readOnly = new.recs[k].readOnly
      BY <2>3
    <3>1. CASE old[k].root = r.root
      BY <1>4, <1>k, <2>1, <2>2, <3>1
    <3>2. CASE old[k].root # r.root
      <4>1. PICK i \in 1..n - 1: recs[i].root = old[k].root
                                  /\ recs[i].readOnly = old[k].readOnly
        BY <1>a, <2>2 DEF old
      <4>2. new.recs[k] = old[k] /\ i \in 1..n
        BY <1>n, <2>1, <2>2, <3>2
      <4> QED
        BY <4>1, <4>2
    <3> QED
      BY <3>1, <3>2
  <2> QED
    BY <1>3, <2>3, <2>5, <2>6 DEF Loaded, new, r
<1> QED
  BY <1>5, <1>6, <1>7 DEF r

\* A record that does not load.
LEMMA KeptPhantomLoads ==
    ASSUME NEW recs \in Seq(NotebookRecords), NEW n \in 1..Len(recs), NEW acc,
           Loaded(acc, recs, n - 1)
    PROVE  Loaded(KeepPhantom(acc, recs[n]), recs, n)
<1> DEFINE r == recs[n]
           new == KeepPhantom(acc, r)
<1>1. r \in NotebookRecords
  BY ElementOfSeq
<1>2. /\ new.open = acc.open
      /\ new.recs = IF Listing(acc.recs, r.root) THEN acc.recs ELSE Append(acc.recs, r)
  BY DEF KeepPhantom
<1>n. n \in Nat /\ n - 1 \in Nat /\ Len(recs) \in Nat
  OBVIOUS
<1> HIDE DEF new, r
<1>a. /\ acc.open \in [Notebooks -> NotebookObjects \cup {None}]
      /\ acc.recs \in Seq(NotebookRecords)
      /\ \A m \in Notebooks: acc.open[m] # None => config[acc.open[m].root] = m
      /\ \A i \in 1..n - 1: Listing(acc.recs, recs[i].root)
      /\ \A k \in DOMAIN acc.recs: \E i \in 1..n - 1:
            recs[i].root = acc.recs[k].root /\ recs[i].readOnly = acc.recs[k].readOnly
  BY DEF Loaded
<1>4. \E i \in 1..n: recs[i].root = r.root /\ recs[i].readOnly = r.readOnly
  BY <1>n DEF r
<1>5. CASE ~Listing(acc.recs, r.root)
  <2>1. new.recs = Append(acc.recs, r)
    BY <1>2, <1>5
  <2> DEFINE old == acc.recs
             l == Len(old)
  <2>2. /\ new.recs \in Seq(NotebookRecords) /\ l \in Nat /\ DOMAIN old = 1..l
        /\ DOMAIN new.recs = 1..l + 1 /\ new.recs[l + 1] = r
        /\ \A i \in 1..l: new.recs[i] = old[i]
    BY <1>1, <1>a, <2>1
  <2> HIDE DEF old, l
  <2>3. \A i \in 1..n: Listing(new.recs, recs[i].root)
    <3>0. \A q: Listing(old, q) => Listing(new.recs, q)
      BY <2>2 DEF Listing
    <3>1. \A i \in 1..n - 1: Listing(new.recs, recs[i].root)
      BY <1>a, <3>0 DEF old
    <3>2. Listing(new.recs, r.root)
      <4>1. l + 1 \in DOMAIN new.recs /\ new.recs[l + 1].root = r.root
        BY <2>2
      <4> QED
        BY <4>1 DEF Listing
    <3> QED
      BY <1>n, <3>1, <3>2 DEF r
  <2>4. \A k \in DOMAIN new.recs: \E i \in 1..n:
            recs[i].root = new.recs[k].root /\ recs[i].readOnly = new.recs[k].readOnly
    <3> SUFFICES ASSUME NEW k \in 1..l + 1
                 PROVE  \E i \in 1..n: recs[i].root = new.recs[k].root
                                       /\ recs[i].readOnly = new.recs[k].readOnly
      BY <2>2
    <3>1. CASE k = l + 1
      BY <1>4, <2>2, <3>1
    <3>2. CASE k \in 1..l
      <4>1. PICK i \in 1..n - 1: recs[i].root = old[k].root
                                  /\ recs[i].readOnly = old[k].readOnly
        BY <1>a, <2>2, <3>2 DEF old
      <4>2. new.recs[k] = old[k] /\ i \in 1..n
        BY <1>n, <2>2, <3>2
      <4> QED
        BY <4>1, <4>2
    <3> QED
      BY <2>2, <3>1, <3>2
  <2> QED
    BY <1>2, <1>a, <2>2, <2>3, <2>4 DEF Loaded, new, r
<1>6. CASE Listing(acc.recs, r.root)
  <2>1. new.recs = acc.recs
    BY <1>2, <1>6
  <2>2. \A i \in 1..n: Listing(new.recs, recs[i].root)
    BY <1>a, <1>n, <1>6, <2>1 DEF r
  <2>3. \A k \in DOMAIN new.recs: \E i \in 1..n:
            recs[i].root = new.recs[k].root /\ recs[i].readOnly = new.recs[k].readOnly
    BY <1>a, <1>n, <2>1
  <2> QED
    BY <1>2, <1>a, <2>1, <2>2, <2>3 DEF Loaded, new, r
<1> QED
  BY <1>5, <1>6 DEF r

\* What a start loads.
LEMMA NotebooksLoad ==
    ASSUME ConstantsAssumption, config \in [Roots -> Notebooks \cup {None}],
           NEW recs \in Seq(NotebookRecords)
    PROVE  Loaded(LoadOpenNotebooks(recs), recs, Len(recs))
<1>1. Len(recs) \in Nat
  OBVIOUS
<1>2. PICK f: IsLoad(f, recs, Len(recs)) /\ LoadOpenNotebooks(recs) = f[Len(recs)]
  BY <1>1, LoadExists
<1> DEFINE Good == {k \in Nat: k <= Len(recs) => Loaded(f[k], recs, k)}
<1>3. 0 \in Good
  <2>1. f[0] = Record0
    BY <1>1, <1>2 DEF IsLoad
  <2>2. Loaded(Record0, recs, 0)
    BY EmptySeq DEF Loaded, Record0
  <2> QED
    BY <2>1, <2>2
<1>4. \A k \in Nat: k \in Good => k + 1 \in Good
  <2> SUFFICES ASSUME NEW k \in Nat, k + 1 <= Len(recs), Loaded(f[k], recs, k)
               PROVE  Loaded(f[k + 1], recs, k + 1)
    BY <1>1
  <2>1. k + 1 \in 1..Len(recs) /\ k + 1 \in 0..Len(recs) /\ k + 1 # 0 /\ (k + 1) - 1 = k
    BY <1>1
  <2>2. f[k + 1] = IF Loads(recs[k + 1].root) THEN LoadedRecord(f[k], recs[k + 1])
                   ELSE KeepPhantom(f[k], recs[k + 1])
    BY <1>2, <2>1 DEF IsLoad
  <2>3. CASE Loads(recs[k + 1].root)
    BY <2>1, <2>2, <2>3, LoadedRecordLoads
  <2>4. CASE ~Loads(recs[k + 1].root)
    BY <2>1, <2>2, <2>4, KeptPhantomLoads
  <2> QED
    BY <2>3, <2>4
<1>5. Len(recs) \in Good
  <2> HIDE DEF Good
  <2> QED
    BY <1>1, <1>3, <1>4, Induction
<1> QED
  BY <1>1, <1>2, <1>5

-----------------------------------------------------------------------------
(* Types *)

\* The other records of a list.
LEMMA OthersAre ==
    ASSUME NEW recs \in Seq(NotebookRecords), NEW id, NEW root
    PROVE  /\ Others(recs, id, root) \in Seq(NotebookRecords)
           /\ ToSet(Others(recs, id, root)) = {r \in ToSet(recs): Other(r, id, root)}
BY OnlyKeeps DEF Others

\* A session with other records.
LEMMA NotedSession ==
    ASSUME NEW s \in Sessions, NEW recs \in Seq(NotebookRecords)
    PROVE  /\ WithNotebooks(s, recs) \in Sessions
           /\ WithNotebooks(s, recs).notebooks = recs
           /\ WithNotebooks(s, recs).buffers = s.buffers
           /\ WithNotebooks(s, recs).workspaces = s.workspaces
           /\ WithNotebooks(s, recs).current = s.current
BY DEF WithNotebooks, SessionOf, Sessions

\* A session with one record more.
LEMMA WithRecordTyped ==
    ASSUME TypeOK, NEW id \in Notebooks, NEW root \in Roots, NEW readOnly \in BOOLEAN
    PROVE  WithRecord(id, root, readOnly) \in Sessions
<1>1. Others(session.notebooks, id, root) \in Seq(NotebookRecords)
  BY OthersAre DEF TypeOK, Sessions
<1>2. Record(id, root, readOnly) \in NotebookRecords
  BY DEF Record, NotebookRecords
<1>3. Append(Others(session.notebooks, id, root), Record(id, root, readOnly))
        \in Seq(NotebookRecords)
  BY <1>1, <1>2
<1> QED
  BY <1>3, NotedSession DEF WithRecord, TypeOK

\* A save.
LEMMA SaveTyped ==
    ASSUME TypeOK, SaveSessionConfig, session' \in Sessions
    PROVE  saved' \in Sessions \cup {Torn}
BY DEF SaveSessionConfig, TypeOK

\* What is persisted.
LEMMA PersistedTyped ==
    ASSUME ConstantsAssumption, NEW s \in Sessions,
           NEW ws \in [Workspaces -> WorkspaceStates \cup {None}],
           NEW bufs \in [Bufs -> [nb: Notebooks, root: Roots] \cup {Virtual, None}],
           NEW cur \in Workspaces \cup {None}
    PROVE  Persisted(s, bufs, ws, cur) \in Sessions
<1>1. BufferRecords(bufs) \in [Bufs -> Notebooks \cup {None}]
  BY DEF BufferRecords
<1> QED
  BY <1>1 DEF Persisted, SessionOf, Sessions

\* The calls that persist the session.
LEMMA PersistTyped ==
    ASSUME ConstantsAssumption, TypeOK, PersistSession, UNCHANGED runVars,
           workspaces' \in [Workspaces -> WorkspaceStates \cup {None}],
           buffers' \in [Bufs -> [nb: Notebooks, root: Roots] \cup {Virtual, None}],
           current' \in Workspaces \cup {None}
    PROVE  session' \in Sessions /\ saved' \in Sessions \cup {Torn}
<1>1. CASE shutdown
  BY <1>1 DEF PersistSession, NoSave, TypeOK
<1>2. CASE ~shutdown
  <2>1. session' \in Sessions
    BY <1>2, PersistedTyped DEF PersistSession, TypeOK
  <2> QED
    BY <1>2, <2>1, SaveTyped DEF PersistSession
<1> QED
  BY <1>1, <1>2

\* What the user knows.
LEMMA ForgottenTyped ==
    ASSUME TypeOK, NEW id, NEW root
    PROVE  Forgotten(id, root) \in [Roots -> {None, "rw", "ro"}]
BY DEF Forgotten, TypeOK

\* The first workspace is one.
LEMMA FirstIs ==
    ASSUME NEW ws
    PROVE  /\ FirstWorkspace(ws) \in Workspaces \cup {None}
           /\ FirstWorkspace(ws) # None => ws[FirstWorkspace(ws)] # None
BY DEF FirstWorkspace, First

\* The types at the beginning.
LEMMA InitTyped ==
    ASSUME ConstantsAssumption, Init
    PROVE  TypeOK
<1>1. EmptySession \in Sessions
  BY EmptySeq DEF EmptySession, SessionOf, Sessions
<1>2. \A root \in Roots, n \in Notebooks: config[root] # None =>
        Legacy(config[root], n, root) \in Sessions
  <2> SUFFICES ASSUME NEW root \in Roots, NEW n \in Notebooks, config[root] # None
               PROVE  Legacy(config[root], n, root) \in Sessions
    OBVIOUS
  <2>1. config[root] \in Notebooks
    BY DEF Init
  <2>2. <<Record(n, root, FALSE), Record(config[root], root, TRUE)>> \in Seq(NotebookRecords)
    BY <2>1 DEF Record, NotebookRecords
  <2> QED
    BY <1>1, <2>2, NotedSession DEF Legacy
<1>3. saved \in Sessions /\ session = saved /\ known \in [Roots -> {None, "rw", "ro"}]
  BY <1>1, <1>2 DEF Init
<1> QED
  BY <1>3 DEF Init, TypeOK

\* Opening keeps the types.
LEMMA OpenExTyped ==
    ASSUME ConstantsAssumption, TypeOK, NEW root \in Roots, NEW readOnly \in BOOLEAN,
           NotebookOpenEx(root, readOnly)
    PROVE  TypeOK'
<1>1. CASE NotebookReopen(root, readOnly)
  <2>1. PICK n \in Notebooks: /\ open[n] # None
                              /\ IF readOnly
                                 THEN /\ RecordNotebookReadOnly(root, n)
                                      /\ known' = [Forgotten(n, root) EXCEPT ![root] = "ro"]
                                 ELSE UNCHANGED <<open, known>> /\ NoSave
    BY <1>1 DEF NotebookReopen, OpenAt
  <2>2. CASE readOnly
    <3>1. session' \in Sessions /\ saved' \in Sessions \cup {Torn}
      BY <2>1, <2>2, WithRecordTyped, SaveTyped DEF RecordNotebookReadOnly
    <3>2. open' \in [Notebooks -> NotebookObjects \cup {None}]
      BY <2>1, <2>2 DEF RecordNotebookReadOnly, TypeOK, NotebookObjects
    <3>3. known' \in [Roots -> {None, "rw", "ro"}]
      BY <2>1, <2>2, ForgottenTyped
    <3> QED
      BY <3>1, <3>2, <3>3 DEF NotebookOpenEx, TypeOK, worldVars, runVars, wsVars
  <2>3. CASE ~readOnly
    BY <2>1, <2>3 DEF NotebookOpenEx, NoSave, TypeOK, worldVars, runVars, wsVars
  <2> QED
    BY <2>2, <2>3
<1>2. CASE OpenNotebook(root) \/ OpenReadOnly(root)
  <2>1. PICK mode \in BOOLEAN:
            /\ session' = WithRecord(config[root], root, mode)
            /\ open' = [open EXCEPT ![config[root]] = [root |-> root, readOnly |-> mode]]
    BY <1>2 DEF OpenNotebook, OpenReadOnly
  <2>2. config[root] \in Notebooks
    BY <1>2 DEF OpenNotebook, OpenReadOnly, Loads, TypeOK
  <2>3. session' \in Sessions /\ WithRecord(config[root], root, FALSE) \in Sessions
    BY <2>1, <2>2, WithRecordTyped
  <2>4. saved' \in Sessions \cup {Torn}
    BY <1>2, <2>3, SaveTyped DEF OpenNotebook, OpenReadOnly, SaveTwice, WithRecord, TypeOK
  <2>5. open' \in [Notebooks -> NotebookObjects \cup {None}]
    BY <2>1, <2>2 DEF TypeOK, NotebookObjects
  <2>6. known' \in [Roots -> {None, "rw", "ro"}]
    <3>1. Forgotten(config[root], root) \in [Roots -> {None, "rw", "ro"}]
      BY ForgottenTyped
    <3>2. PICK mark \in {"rw", "ro"}:
              known' = [Forgotten(config[root], root) EXCEPT ![root] = mark]
      BY <1>2 DEF OpenNotebook, OpenReadOnly
    <3> QED
      BY <3>1, <3>2
  <2> QED
    BY <2>3, <2>4, <2>5, <2>6 DEF NotebookOpenEx, TypeOK, worldVars, runVars, wsVars
<1> QED
  BY <1>1, <1>2 DEF NotebookOpenEx

\* Creating keeps the types.
LEMMA CreateTyped ==
    ASSUME ConstantsAssumption, TypeOK, NEW root \in Roots, NotebookCreate(root)
    PROVE  TypeOK'
<1>1. CASE CreateNotebook(root)
  <2>1. PICK n \in Notebooks:
            /\ config' = [config EXCEPT ![root] = n]
            /\ session' = WithRecord(n, root, FALSE)
            /\ open' = [open EXCEPT ![n] = [root |-> root, readOnly |-> FALSE]]
            /\ known' = [Forgotten(n, root) EXCEPT ![root] = "rw"]
    BY <1>1 DEF CreateNotebook, Fresh
  <2>2. session' \in Sessions /\ saved' \in Sessions \cup {Torn}
    BY <1>1, <2>1, WithRecordTyped, SaveTyped DEF CreateNotebook
  <2>3. open' \in [Notebooks -> NotebookObjects \cup {None}]
    BY <2>1 DEF TypeOK, NotebookObjects
  <2>4. known' \in [Roots -> {None, "rw", "ro"}]
    <3>1. Forgotten(n, root) \in [Roots -> {None, "rw", "ro"}]
      BY ForgottenTyped
    <3> QED
      BY <2>1, <3>1
  <2>5. config' \in [Roots -> Notebooks \cup {None}]
    BY <2>1 DEF TypeOK
  <2> QED
    BY <2>2, <2>3, <2>4, <2>5 DEF NotebookCreate, TypeOK, runVars, wsVars
<1>2. CASE UNCHANGED <<config, open, known>> /\ NoSave
  BY <1>2 DEF NotebookCreate, NoSave, TypeOK, runVars, wsVars
<1>3. CASE OpenNotebook(root) /\ UNCHANGED config
  <2>1. NotebookOpenEx(root, FALSE)
    BY <1>3 DEF NotebookCreate, NotebookOpenEx, worldVars
  <2> QED
    BY <2>1, OpenExTyped
<1> QED
  BY <1>1, <1>2, <1>3 DEF NotebookCreate

\* Closing keeps the types.
LEMMA CloseTyped ==
    ASSUME ConstantsAssumption, TypeOK, NEW n \in Notebooks, NotebookClose(n)
    PROVE  TypeOK'
<1>1. Others(session.notebooks, n, open[n].root) \in Seq(NotebookRecords)
  BY OthersAre DEF TypeOK, Sessions
<1>2. session' \in Sessions /\ saved' \in Sessions \cup {Torn}
  BY <1>1, NotedSession, SaveTyped DEF NotebookClose, CloseNotebook, TypeOK
<1>3. known' \in [Roots -> {None, "rw", "ro"}]
  BY ForgottenTyped DEF NotebookClose
<1>4. buffers' \in [Bufs -> [nb: Notebooks, root: Roots] \cup {Virtual, None}]
  BY DEF NotebookClose, CloseBuffersForNotebook, TypeOK
<1>5. open' \in [Notebooks -> NotebookObjects \cup {None}]
  BY DEF NotebookClose, CloseNotebook, TypeOK
<1> QED
  BY <1>2, <1>3, <1>4, <1>5 DEF NotebookClose, TypeOK, worldVars, runVars, wsVars

\* The calls on buffers keep the types.
LEMMA BufferCallsTyped ==
    ASSUME ConstantsAssumption, TypeOK,
           \/ \E root \in Roots: BufferOpen(root)
           \/ BufferOpenVirtual
           \/ \E b \in Open: BufferClose(b)
    PROVE  TypeOK'
<1>1. buffers' \in [Bufs -> [nb: Notebooks, root: Roots] \cup {Virtual, None}]
  <2>1. ASSUME NEW root \in Roots, BufferOpen(root)
        PROVE  buffers' \in [Bufs -> [nb: Notebooks, root: Roots] \cup {Virtual, None}]
    BY <2>1 DEF BufferOpen, OpenAt, TypeOK
  <2>2. CASE BufferOpenVirtual
    BY <2>2 DEF BufferOpenVirtual, TypeOK
  <2>3. ASSUME NEW b \in Open, BufferClose(b)
        PROVE  buffers' \in [Bufs -> [nb: Notebooks, root: Roots] \cup {Virtual, None}]
    BY <2>3 DEF BufferClose, CloseBuffer, TypeOK
  <2> QED
    BY <2>1, <2>2, <2>3
<1>2. UNCHANGED <<worldVars, runVars, open, wsVars, known>>
  BY DEF BufferOpen, BufferOpenVirtual, BufferClose
<1>3. session' \in Sessions /\ saved' \in Sessions \cup {Torn}
  <2>1. CASE PersistSession
    BY <1>1, <1>2, <2>1, PersistTyped DEF TypeOK, wsVars
  <2>2. CASE UNCHANGED <<session, saved>>
    BY <2>2 DEF TypeOK
  <2> QED
    BY <2>1, <2>2 DEF BufferOpen, BufferOpenVirtual, BufferClose
<1> QED
  BY <1>1, <1>2, <1>3 DEF TypeOK, worldVars, runVars, wsVars

\* A list in another order.
LEMMA ReorderedTyped ==
    ASSUME NEW list \in Seq(Bufs), NEW order \in Orders
    PROVE  Reordered(list, order) \in Seq(Bufs)
<1>1. order \in Seq(Bufs)
  BY IsASeq DEF Orders
<1>2. Only(order, ToSet(list)) \in Seq(Bufs)
  BY <1>1, OnlyKeeps
<1>3. Only(list, Bufs \ ToSet(Only(order, ToSet(list)))) \in Seq(Bufs)
  BY OnlyKeeps
<1> QED
  BY <1>2, <1>3 DEF Reordered

\* The calls on workspaces keep the types of what they change.
LEMMA WorkspacesTyped ==
    ASSUME ConstantsAssumption, TypeOK, NEW w \in Workspaces, OnWorkspaces(w) \/ OnBufferLists(w)
    PROVE  /\ workspaces' \in [Workspaces -> WorkspaceStates \cup {None}]
           /\ buffers' \in [Bufs -> [nb: Notebooks, root: Roots] \cup {Virtual, None}]
           /\ current' \in Workspaces \cup {None}
           /\ ~DeleteWorkspace(w) =>
                \A v \in Workspaces: workspaces[v] # None => workspaces'[v] # None
<1>1. \A bufs \in Seq(Bufs), cur \in Bufs \cup {None}: Workspace(bufs, cur) \in WorkspaceStates
  BY DEF Workspace, WorkspaceStates
<1>2. workspaces[w] # None =>
        workspaces[w].bufs \in Seq(Bufs) /\ workspaces[w].current \in Bufs \cup {None}
  BY DEF TypeOK, WorkspaceStates
<1> DEFINE Kept ==
               /\ workspaces' \in [Workspaces -> WorkspaceStates \cup {None}]
               /\ \A v \in Workspaces: workspaces[v] # None => workspaces'[v] # None
<1>3. ASSUME NEW v \in WorkspaceStates, workspaces' = [workspaces EXCEPT ![w] = v]
      PROVE  Kept
  BY <1>3 DEF TypeOK, ConstantsAssumption, WorkspaceStates
<1>4. CASE CreateWorkspace(w)
  <2>1. Workspace(<<>>, None) \in WorkspaceStates
    BY <1>1, EmptySeq
  <2> QED
    BY <1>3, <1>4, <2>1 DEF CreateWorkspace, TypeOK
<1>5. CASE DeleteWorkspace(w)
  <2>1. current' \in Workspaces \cup {None}
    BY <1>5, FirstIs DEF DeleteWorkspace, CurrentWithout, TypeOK
  <2> QED
    BY <1>5, <2>1 DEF DeleteWorkspace, TypeOK
<1>6. CASE SetCurrentWorkspace(w)
  BY <1>6 DEF SetCurrentWorkspace, TypeOK
<1>7. ASSUME NEW b \in Bufs, AddBufferToWorkspace(w, b)
      PROVE  Kept
  <2> DEFINE list == IF Lists(w, b) THEN workspaces[w].bufs ELSE Append(workspaces[w].bufs, b)
             new == Workspace(list, workspaces[w].current)
  <2>1. list \in Seq(Bufs)
    BY <1>2, <1>7 DEF AddBufferToWorkspace
  <2>2. new \in WorkspaceStates
    BY <1>1, <1>2, <1>7, <2>1 DEF AddBufferToWorkspace
  <2>3. workspaces' = [workspaces EXCEPT ![w] = new]
    BY <1>7 DEF AddBufferToWorkspace, TypeOK
  <2> QED
    BY <1>3, <2>2, <2>3
<1>8. ASSUME NEW b \in Bufs, SetCurrentBuffer(w, b)
      PROVE  Kept
  <2> DEFINE new == Workspace(workspaces[w].bufs, b)
  <2>1. new \in WorkspaceStates
    BY <1>1, <1>2, <1>8 DEF SetCurrentBuffer
  <2>2. workspaces' = [workspaces EXCEPT ![w] = new]
    BY <1>8 DEF SetCurrentBuffer, TypeOK
  <2> QED
    BY <1>3, <2>1, <2>2
<1>9. ASSUME NEW b \in Bufs, RemoveBufferFromWorkspace(w, b)
      PROVE  /\ Kept
             /\ buffers' \in [Bufs -> [nb: Notebooks, root: Roots] \cup {Virtual, None}]
  <2> DEFINE list == Only(workspaces[w].bufs, Bufs \ {b})
             cur == IF workspaces[w].current = b THEN None ELSE workspaces[w].current
             new == Workspace(list, cur)
  <2>1. list \in Seq(Bufs)
    BY <1>2, <1>9, OnlyKeeps DEF RemoveBufferFromWorkspace
  <2>2. cur \in Bufs \cup {None}
    BY <1>2, <1>9 DEF RemoveBufferFromWorkspace
  <2>3. new \in WorkspaceStates
    BY <1>1, <2>1, <2>2
  <2>4. workspaces' = [workspaces EXCEPT ![w] = new]
    BY <1>9 DEF RemoveBufferFromWorkspace, TypeOK
  <2>5. buffers' \in [Bufs -> [nb: Notebooks, root: Roots] \cup {Virtual, None}]
    BY <1>9 DEF RemoveBufferFromWorkspace, CloseBuffer, TypeOK
  <2> QED
    BY <1>3, <2>3, <2>4, <2>5
<1>10. ASSUME NEW order \in Orders, SetBufferOrder(w, order)
      PROVE  Kept
  <2> DEFINE new == Workspace(Reordered(workspaces[w].bufs, order), workspaces[w].current)
  <2>1. new \in WorkspaceStates
    BY <1>1, <1>2, <1>10, ReorderedTyped DEF SetBufferOrder
  <2>2. workspaces' = [workspaces EXCEPT ![w] = new]
    BY <1>10 DEF SetBufferOrder, TypeOK
  <2> QED
    BY <1>3, <2>1, <2>2
<1>11. CASE OnBufferLists(w)
  <2>1. Kept
    BY <1>7, <1>8, <1>9, <1>10, <1>11 DEF OnBufferLists
  <2>2. current' = current
    BY <1>11 DEF OnBufferLists, AddBufferToWorkspace, SetCurrentBuffer,
       RemoveBufferFromWorkspace, SetBufferOrder
  <2>3. buffers' \in [Bufs -> [nb: Notebooks, root: Roots] \cup {Virtual, None}]
    BY <1>9, <1>11 DEF OnBufferLists, AddBufferToWorkspace, SetCurrentBuffer, SetBufferOrder, TypeOK
  <2> QED
    BY <2>1, <2>2, <2>3 DEF TypeOK
<1> QED
  BY <1>4, <1>5, <1>6, <1>11 DEF OnWorkspaces

\* The buffers that a start loads.
LEMMA LoadedBuffersTyped ==
    ASSUME ConstantsAssumption, TypeOK, NEW s \in Sessions,
           NEW nbs \in [Notebooks -> NotebookObjects \cup {None}]
    PROVE  LoadBuffers(s, nbs) \in [Bufs -> [nb: Notebooks, root: Roots] \cup {Virtual, None}]
<1>1. \A b \in Bufs: s.buffers[b] \in Notebooks \cup {None}
  BY DEF Sessions
<1> QED
  BY <1>1 DEF LoadBuffers, TypeOK, NotebookObjects

\* A workspace that a start loads.
LEMMA LoadedWorkspaceTyped ==
    ASSUME NEW rec \in WorkspaceStates, NEW bufs
    PROVE  /\ LoadWorkspace(rec, bufs) \in WorkspaceStates
           /\ LoadWorkspace(rec, bufs).bufs = Only(rec.bufs, {b \in Bufs: bufs[b] # None})
<1> DEFINE listed == Only(rec.bufs, {b \in Bufs: bufs[b] # None})
<1>1. rec.bufs \in Seq(Bufs) /\ rec.current \in Bufs \cup {None}
  BY DEF WorkspaceStates
<1>2. listed \in Seq(Bufs)
  BY <1>1, OnlyKeeps
<1>3. listed # <<>> => listed[1] \in Bufs
  BY <1>2
<1> QED
  BY <1>1, <1>2, <1>3 DEF LoadWorkspace, WorkspaceStates

\* The workspaces that a start loads.
LEMMA LoadedWorkspacesTyped ==
    ASSUME ConstantsAssumption, NEW s \in Sessions, NEW bufs
    PROVE  LoadWorkspaces(s, bufs) \in [Workspaces -> WorkspaceStates \cup {None}]
<1>1. \A w \in Workspaces: s.workspaces[w] \in WorkspaceStates \cup {None}
  BY DEF Sessions
<1> QED
  BY <1>1, LoadedWorkspaceTyped DEF LoadWorkspaces

\* A start keeps the types, and loads what NotebooksLoad says.
LEMMA StartTyped ==
    ASSUME ConstantsAssumption, TypeOK, ContextCreate
    PROVE  /\ TypeOK'
           /\ saved \in Sessions
           /\ \E nbs: /\ Loaded(nbs, saved.notebooks, Len(saved.notebooks))
                      /\ open' = nbs.open
                      /\ session' = Cleared(WithNotebooks(saved, nbs.recs))
                      /\ session'.notebooks = nbs.recs
<1> DEFINE nbs == LoadOpenNotebooks(saved.notebooks)
<1>1. saved \in Sessions /\ saved.notebooks \in Seq(NotebookRecords)
  BY DEF ContextCreate, LoadConfigs, TypeOK, Sessions
<1>2. Loaded(nbs, saved.notebooks, Len(saved.notebooks))
  BY <1>1, NotebooksLoad DEF TypeOK
<1>3. /\ open' = nbs.open
      /\ buffers' = LoadBuffers(saved, nbs.open)
      /\ workspaces' = LoadWorkspaces(saved, buffers')
      /\ current' = LoadCurrent(saved, workspaces')
      /\ session' = Cleared(WithNotebooks(saved, nbs.recs))
      /\ saved' \in {WithNotebooks(saved, nbs.recs), saved, Torn}
      /\ known' = IF saved = session THEN known ELSE [r \in Roots |-> None]
      /\ running' = TRUE /\ shutdown' = FALSE /\ UNCHANGED worldVars
  BY DEF ContextCreate
<1> HIDE DEF nbs
<1>4. /\ nbs.open \in [Notebooks -> NotebookObjects \cup {None}]
      /\ nbs.recs \in Seq(NotebookRecords)
  BY <1>2 DEF Loaded
<1>5. /\ WithNotebooks(saved, nbs.recs) \in Sessions
      /\ WithNotebooks(saved, nbs.recs).notebooks = nbs.recs
  BY <1>1, <1>4, NotedSession
<1>6. EmptySession \in Sessions
  BY EmptySeq DEF EmptySession, SessionOf, Sessions
<1>7. session' \in Sessions /\ session'.notebooks = nbs.recs
  BY <1>3, <1>4, <1>5, <1>6, NotedSession DEF Cleared
<1>8. saved' \in Sessions \cup {Torn}
  BY <1>1, <1>3, <1>5
<1>9. buffers' \in [Bufs -> [nb: Notebooks, root: Roots] \cup {Virtual, None}]
  BY <1>1, <1>3, <1>4, LoadedBuffersTyped
<1>10. workspaces' \in [Workspaces -> WorkspaceStates \cup {None}]
  BY <1>1, <1>3, LoadedWorkspacesTyped
<1>11. current' \in Workspaces \cup {None}
  BY <1>1, <1>3, FirstIs DEF LoadCurrent, Sessions
<1>12. known' \in [Roots -> {None, "rw", "ro"}]
  BY <1>3 DEF TypeOK
<1>13. TypeOK'
  BY <1>3, <1>4, <1>7, <1>8, <1>9, <1>10, <1>11, <1>12 DEF TypeOK, worldVars
<1> QED
  BY <1>1, <1>2, <1>3, <1>7, <1>13

\* The ends of a run keep the types.
LEMMA EndsTyped ==
    ASSUME ConstantsAssumption, TypeOK,
           \/ RemoveSessionFile \/ PrepareShutdown \/ CancelShutdown \/ ContextDestroy \/ Crash
    PROVE  TypeOK'
<1>1. Persisted(session, buffers, workspaces, current) \in Sessions
  BY PersistedTyped DEF TypeOK
<1>2. EmptySession \in Sessions
  BY EmptySeq DEF EmptySession, SessionOf, Sessions
<1>3. CASE RemoveSessionFile
  BY <1>2, <1>3 DEF RemoveSessionFile, TypeOK, worldVars, runVars, wsVars
<1>4. CASE PrepareShutdown
  <2>1. session' \in Sessions /\ saved' \in Sessions \cup {Torn}
    BY <1>1, <1>4, SaveTyped DEF PrepareShutdown
  <2> QED
    BY <1>4, <2>1 DEF PrepareShutdown, TypeOK, worldVars, wsVars
<1>5. CASE CancelShutdown
  BY <1>5 DEF CancelShutdown, TypeOK, worldVars, wsVars
<1>6. CASE ContextDestroy
  <2>1. session' \in Sessions /\ saved' \in Sessions \cup {Torn}
    BY <1>1, <1>6, SaveTyped DEF ContextDestroy, NoSave, TypeOK
  <2> QED
    BY <1>6, <2>1 DEF ContextDestroy, TypeOK, worldVars, wsVars
<1>7. CASE Crash
  BY <1>7 DEF Crash, TypeOK, worldVars, wsVars
<1> QED
  BY <1>3, <1>4, <1>5, <1>6, <1>7

\* The folders keep the types.
LEMMA OutsideTyped ==
    ASSUME TypeOK, NEW root \in Roots,
           OutOfReach(root) \/ NoteGone(root) \/ \E n \in Notebooks: Replaced(root, n)
    PROVE  TypeOK'
BY DEF OutOfReach, NoteGone, Replaced, TypeOK, runVars, wsVars

\* Every step keeps the types.
LEMMA TypesStep ==
    ASSUME ConstantsAssumption, TypeOK, [Next]_vars
    PROVE  TypeOK'
<1>1. CASE UNCHANGED vars
  BY <1>1 DEF vars, TypeOK, worldVars, runVars, wsVars
<1>2. ASSUME NEW w \in Workspaces, OnWorkspaces(w) \/ OnBufferLists(w), WorkspaceCall
      PROVE  TypeOK'
  <2>1. /\ workspaces' \in [Workspaces -> WorkspaceStates \cup {None}]
        /\ buffers' \in [Bufs -> [nb: Notebooks, root: Roots] \cup {Virtual, None}]
        /\ current' \in Workspaces \cup {None}
    BY <1>2, WorkspacesTyped
  <2>2. session' \in Sessions /\ saved' \in Sessions \cup {Torn}
    BY <1>2, <2>1, PersistTyped DEF WorkspaceCall
  <2> QED
    BY <1>2, <2>1, <2>2 DEF WorkspaceCall, TypeOK, worldVars, runVars
<1>3. CASE Calls
  BY <1>2, <1>3, OpenExTyped, CreateTyped, CloseTyped, BufferCallsTyped DEF Calls
<1>4. CASE Surroundings
  BY <1>4, StartTyped, EndsTyped, OutsideTyped DEF Surroundings
<1> QED
  BY <1>1, <1>3, <1>4 DEF Next

\* Type correctness, for any number of notebooks, buffers, workspaces and starts.
THEOREM TypeCorrect == Spec => []TypeOK
<1>1. Init => TypeOK
  BY InitTyped, ConstantsAssumption
<1>2. TypeOK /\ [Next]_vars => TypeOK'
  BY TypesStep, ConstantsAssumption
<1> QED
  BY <1>1, <1>2, PTL DEF Spec

-----------------------------------------------------------------------------
(* Buffers and their notebooks *)

\* No two folders hold one notebook.
OneFolder == \A r, s \in Roots: config[r] # None /\ config[r] = config[s] => r = s

\* An open notebook has the id its folder holds: nobody replaces the folder below it.
InPlace == running => \A n \in Notebooks: open[n] # None => config[open[n].root] = n

Placed == OneFolder /\ InPlace /\ BuffersHaveTheirNotebook

\* At the beginning no program runs.
LEMMA InitPlaced ==
    ASSUME ConstantsAssumption, Init
    PROVE  Placed
BY DEF Init, Placed, OneFolder, InPlace, BuffersHaveTheirNotebook

\* A notebook that is opened at a root has no object elsewhere.
LEMMA NotOpenElsewhere ==
    ASSUME TypeOK, Placed, running, NEW root \in Roots, OpenAt(root) = {}, config[root] # None
    PROVE  config[root] \in Notebooks /\ open[config[root]] = None
<1>1. config[root] \in Notebooks
  BY DEF TypeOK
<1>2. open[config[root]] # None => open[config[root]].root \in Roots
  BY <1>1 DEF TypeOK, NotebookObjects
<1>3. open[config[root]] # None => open[config[root]].root = root
  BY <1>1, <1>2 DEF Placed, InPlace, OneFolder
<1> QED
  BY <1>1, <1>3 DEF OpenAt

\* A new object under an id that had none keeps buffers and notebooks together.
LEMMA NewObjectPlaced ==
    ASSUME ConstantsAssumption, TypeOK, Placed, running, NEW root \in Roots, NEW n \in Notebooks,
           NEW mode \in BOOLEAN, open[n] = None, config' \in [Roots -> Notebooks \cup {None}],
           config'[root] = n, OneFolder', OpenAt(root) = {},
           \A r \in Roots \ {root}: config'[r] = config[r],
           open' = [open EXCEPT ![n] = [root |-> root, readOnly |-> mode]],
           running' = running, buffers' = buffers
    PROVE  Placed'
<1>1. /\ open'[n].root = root /\ open'[n] # None
      /\ \A m \in Notebooks \ {n}: open'[m] = open[m]
  BY DEF TypeOK, ConstantsAssumption
<1>2. InPlace'
  <2> SUFFICES ASSUME NEW m \in Notebooks, open'[m] # None
               PROVE  config'[open'[m].root] = m
    BY DEF InPlace
  <2>1. CASE m = n
    BY <1>1, <2>1
  <2>2. CASE m # n
    <3>1. open[m] # None /\ open'[m] = open[m]
      BY <1>1, <2>2
    <3>2. open[m].root # root
      BY <3>1 DEF OpenAt
    <3>3. open[m].root \in Roots
      BY <3>1 DEF TypeOK, NotebookObjects
    <3> QED
      BY <3>1, <3>2, <3>3 DEF Placed, InPlace
  <2> QED
    BY <2>1, <2>2
<1>3. BuffersHaveTheirNotebook'
  <2> SUFFICES ASSUME NEW b \in Bufs, buffers[b] # None, buffers[b] # Virtual
               PROVE  open'[buffers[b].nb] # None /\ open'[buffers[b].nb].root = buffers[b].root
    BY DEF BuffersHaveTheirNotebook, Open
  <2>1. /\ open[buffers[b].nb] # None /\ open[buffers[b].nb].root = buffers[b].root
        /\ buffers[b].nb \in Notebooks
    BY DEF Placed, BuffersHaveTheirNotebook, Open, TypeOK
  <2> QED
    BY <1>1, <2>1
<1> QED
  BY <1>2, <1>3 DEF Placed

\* Opening keeps buffers and notebooks together.
LEMMA OpenExPlaced ==
    ASSUME ConstantsAssumption, TypeOK, Placed, NEW root \in Roots, NEW readOnly \in BOOLEAN,
           NotebookOpenEx(root, readOnly)
    PROVE  Placed'
<1>0. running /\ running' /\ config' = config /\ buffers' = buffers
  BY DEF NotebookOpenEx, worldVars, runVars
<1>1. CASE NotebookReopen(root, readOnly)
  <2>1. \A m \in Notebooks: /\ open'[m] = None <=> open[m] = None
                            /\ open'[m] # None => open'[m].root = open[m].root
    <3>1. PICK n \in Notebooks: /\ open[n] # None
                                /\ open' \in {open, [open EXCEPT ![n].readOnly = TRUE]}
      BY <1>1 DEF NotebookReopen, OpenAt, RecordNotebookReadOnly
    <3>2. open[n] \in NotebookObjects
      BY <3>1 DEF TypeOK
    <3>3. [open[n] EXCEPT !.readOnly = TRUE] \in NotebookObjects
          /\ [open[n] EXCEPT !.readOnly = TRUE].root = open[n].root
      BY <3>2 DEF NotebookObjects
    <3>4. [open[n] EXCEPT !.readOnly = TRUE] # None
      BY <3>3 DEF ConstantsAssumption, NotebookObjects
    <3> QED
      BY <3>1, <3>3, <3>4 DEF TypeOK
  <2> QED
    BY <1>0, <2>1 DEF Placed, OneFolder, InPlace, BuffersHaveTheirNotebook, Open, TypeOK
<1>2. CASE OpenNotebook(root) \/ OpenReadOnly(root)
  <2>1. PICK mode \in BOOLEAN:
            open' = [open EXCEPT ![config[root]] = [root |-> root, readOnly |-> mode]]
    BY <1>2 DEF OpenNotebook, OpenReadOnly
  <2>2. OpenAt(root) = {} /\ config[root] # None
    BY <1>2 DEF OpenNotebook, OpenReadOnly, Loads
  <2>3. config[root] \in Notebooks /\ open[config[root]] = None
    BY <1>0, <2>2, NotOpenElsewhere
  <2>4. OneFolder' /\ config' \in [Roots -> Notebooks \cup {None}]
    BY <1>0 DEF Placed, OneFolder, TypeOK
  <2> QED
    BY <1>0, <2>1, <2>2, <2>3, <2>4, NewObjectPlaced
<1> QED
  BY <1>1, <1>2 DEF NotebookOpenEx

\* Creating keeps them together.
LEMMA CreatePlaced ==
    ASSUME ConstantsAssumption, TypeOK, Placed, NEW root \in Roots, NotebookCreate(root)
    PROVE  Placed'
<1>0. running /\ running' /\ buffers' = buffers
  BY DEF NotebookCreate, runVars
<1>1. CASE CreateNotebook(root)
  <2>1. PICK n \in Notebooks:
            /\ open[n] = None /\ \A r \in Roots: config[r] # n
            /\ config' = [config EXCEPT ![root] = n]
            /\ open' = [open EXCEPT ![n] = [root |-> root, readOnly |-> FALSE]]
    <3>1. PICK n \in Fresh:
              /\ config' = [config EXCEPT ![root] = n]
              /\ open' = [open EXCEPT ![n] = [root |-> root, readOnly |-> FALSE]]
      BY <1>1 DEF CreateNotebook
    <3>2. n \in Notebooks /\ open[n] = None /\ n \notin {config[r]: r \in Roots}
      BY DEF Fresh
    <3> QED
      BY <3>1, <3>2
  <2>2. OpenAt(root) = {}
    BY <1>1 DEF CreateNotebook
  <2>3. /\ config' \in [Roots -> Notebooks \cup {None}] /\ config'[root] = n
        /\ \A r \in Roots \ {root}: config'[r] = config[r]
    BY <2>1 DEF TypeOK
  <2>4. OneFolder'
    BY <2>1, <2>3 DEF Placed, OneFolder
  <2> QED
    BY <1>0, <2>1, <2>2, <2>3, <2>4, NewObjectPlaced
<1>2. CASE UNCHANGED <<config, open, known>> /\ NoSave
  BY <1>0, <1>2 DEF Placed, OneFolder, InPlace, BuffersHaveTheirNotebook, Open
<1>3. CASE OpenNotebook(root) /\ UNCHANGED config
  <2>1. NotebookOpenEx(root, FALSE)
    BY <1>3 DEF NotebookCreate, NotebookOpenEx, worldVars
  <2> QED
    BY <2>1, OpenExPlaced
<1> QED
  BY <1>1, <1>2, <1>3 DEF NotebookCreate

\* Closing keeps them together.
LEMMA ClosePlaced ==
    ASSUME ConstantsAssumption, TypeOK, Placed, NEW n \in Notebooks, NotebookClose(n)
    PROVE  Placed'
<1>0. /\ running /\ running' /\ config' = config
      /\ open' = [open EXCEPT ![n] = None] /\ buffers' = CloseBuffersForNotebook(n)
  BY DEF NotebookClose, CloseNotebook, worldVars, runVars
<1>1. \A m \in Notebooks: open'[m] = IF m = n THEN None ELSE open[m]
  BY <1>0 DEF TypeOK
<1>2. OneFolder' /\ InPlace'
  BY <1>0, <1>1 DEF Placed, OneFolder, InPlace
<1>3. \A b \in Bufs: buffers'[b] # None =>
          /\ buffers[b] # None /\ buffers'[b] = buffers[b] /\ buffers[b].nb # n
  BY <1>0 DEF CloseBuffersForNotebook, Open
<1>4. BuffersHaveTheirNotebook'
  <2> SUFFICES ASSUME NEW b \in Bufs, buffers'[b] # None, buffers'[b] # Virtual
               PROVE  open'[buffers'[b].nb] # None /\ open'[buffers'[b].nb].root = buffers'[b].root
    BY DEF BuffersHaveTheirNotebook, Open
  <2>1. /\ open[buffers[b].nb] # None /\ open[buffers[b].nb].root = buffers[b].root
        /\ buffers[b].nb \in Notebooks /\ buffers[b].nb # n /\ buffers'[b] = buffers[b]
    BY <1>0, <1>3 DEF Placed, BuffersHaveTheirNotebook, Open, TypeOK
  <2> QED
    BY <1>1, <2>1
<1> QED
  BY <1>2, <1>4 DEF Placed

\* A step that opens no buffer but one of an open notebook keeps them together.
LEMMA BuffersPlaced ==
    ASSUME ConstantsAssumption, TypeOK, Placed, running, UNCHANGED <<config, open, running>>,
           \A b \in Bufs: \/ buffers'[b] \in {buffers[b], None, Virtual}
                          \/ \E n \in Notebooks: /\ open[n] # None
                                                 /\ buffers'[b] = [nb |-> n, root |-> open[n].root]
    PROVE  Placed'
<1>1. BuffersHaveTheirNotebook'
  <2> SUFFICES ASSUME NEW b \in Bufs, buffers'[b] # None, buffers'[b] # Virtual
               PROVE  open[buffers'[b].nb] # None /\ open[buffers'[b].nb].root = buffers'[b].root
    BY DEF BuffersHaveTheirNotebook, Open
  <2>1. CASE buffers'[b] = buffers[b]
    BY <2>1 DEF Placed, BuffersHaveTheirNotebook, Open
  <2>2. CASE buffers'[b] # buffers[b]
    <3>1. PICK n \in Notebooks: open[n] # None /\ buffers'[b] = [nb |-> n, root |-> open[n].root]
      BY <2>2
    <3> QED
      BY <3>1
  <2> QED
    BY <2>1, <2>2
<1> QED
  BY <1>1 DEF Placed, OneFolder, InPlace

\* The calls on buffers and workspaces keep them together.
LEMMA CallsPlaced ==
    ASSUME ConstantsAssumption, TypeOK, Placed,
           \/ \E root \in Roots: BufferOpen(root)
           \/ BufferOpenVirtual
           \/ \E b \in Open: BufferClose(b)
           \/ \E w \in Workspaces: (OnWorkspaces(w) \/ OnBufferLists(w)) /\ WorkspaceCall
    PROVE  Placed'
<1>1. running /\ UNCHANGED <<config, open, running>>
  BY DEF BufferOpen, BufferOpenVirtual, BufferClose, WorkspaceCall, worldVars, runVars
<1>2. ASSUME NEW root \in Roots, BufferOpen(root)
      PROVE  \A b \in Bufs:
                \/ buffers'[b] = buffers[b]
                \/ \E n \in Notebooks:
                     open[n] # None /\ buffers'[b] = [nb |-> n, root |-> open[n].root]
  <2>1. PICK n \in OpenAt(root):
            \/ UNCHANGED buffers
            \/ \E b \in Bufs \ Open: buffers' = [buffers EXCEPT ![b] = [nb |-> n, root |-> root]]
    BY <1>2 DEF BufferOpen
  <2>2. n \in Notebooks /\ open[n] # None /\ open[n].root = root
    BY DEF OpenAt
  <2> QED
    BY <2>1, <2>2 DEF TypeOK
<1>3. ASSUME BufferOpenVirtual \/ \E b \in Open: BufferClose(b)
      PROVE  \A b \in Bufs: buffers'[b] \in {buffers[b], None, Virtual}
  BY <1>3 DEF BufferOpenVirtual, BufferClose, CloseBuffer, TypeOK
<1>4. ASSUME NEW w \in Workspaces, OnWorkspaces(w) \/ OnBufferLists(w)
      PROVE  \A b \in Bufs: buffers'[b] \in {buffers[b], None}
  BY <1>4 DEF OnWorkspaces, OnBufferLists, CreateWorkspace, DeleteWorkspace, SetCurrentWorkspace,
     AddBufferToWorkspace, SetCurrentBuffer, RemoveBufferFromWorkspace, SetBufferOrder,
     CloseBuffer, TypeOK
<1>5. \A b \in Bufs: \/ buffers'[b] \in {buffers[b], None, Virtual}
                     \/ \E n \in Notebooks: /\ open[n] # None
                                            /\ buffers'[b] = [nb |-> n, root |-> open[n].root]
  BY <1>2, <1>3, <1>4
<1> QED
  BY <1>1, <1>5, BuffersPlaced

\* A start opens notebooks and then their buffers.
LEMMA StartPlaced ==
    ASSUME ConstantsAssumption, TypeOK, Placed, ContextCreate
    PROVE  Placed'
<1>1. PICK nbs: Loaded(nbs, saved.notebooks, Len(saved.notebooks)) /\ open' = nbs.open
  BY StartTyped
<1>2. config' = config /\ buffers' = LoadBuffers(saved, open') /\ saved \in Sessions
  BY StartTyped DEF ContextCreate, worldVars
<1>3. OneFolder' /\ InPlace'
  BY <1>1, <1>2 DEF Loaded, Placed, OneFolder, InPlace
<1>4. BuffersHaveTheirNotebook'
  BY <1>2 DEF LoadBuffers, BuffersHaveTheirNotebook, Open
<1> QED
  BY <1>3, <1>4 DEF Placed

\* What happens outside keeps them together, as long as no folder holds a copy.
LEMMA OutsidePlaced ==
    ASSUME ConstantsAssumption, ~Copies, TypeOK, Placed, NEW root \in Roots,
           OutOfReach(root) \/ NoteGone(root) \/ \E n \in Notebooks: Replaced(root, n)
    PROVE  Placed'
<1>1. UNCHANGED <<open, buffers, running>>
  BY DEF OutOfReach, NoteGone, Replaced, runVars
<1>2. CASE config' = config
  BY <1>1, <1>2 DEF Placed, OneFolder, InPlace, BuffersHaveTheirNotebook, Open
<1>3. ASSUME NEW n \in Notebooks, Replaced(root, n)
      PROVE  Placed'
  <2>1. \A r \in Roots: config'[r] = IF r = root THEN n ELSE config[r]
    BY <1>3 DEF Replaced, TypeOK
  <2>2. \A r \in Roots: config[r] # n
    BY <1>3 DEF Replaced
  <2>3. OneFolder'
    BY <2>1, <2>2 DEF Placed, OneFolder
  <2>4. ASSUME running, NEW m \in Notebooks, open[m] # None
        PROVE  open[m].root \in Roots \ {root}
    BY <1>3, <2>4 DEF Replaced, OpenAt, TypeOK, NotebookObjects
  <2>5. InPlace'
    BY <1>1, <2>1, <2>4 DEF Placed, InPlace
  <2>6. BuffersHaveTheirNotebook'
    BY <1>1 DEF Placed, BuffersHaveTheirNotebook, Open
  <2> QED
    BY <2>3, <2>5, <2>6 DEF Placed
<1> QED
  BY <1>2, <1>3 DEF OutOfReach, NoteGone

\* Every step keeps them together.
LEMMA PlacedStep ==
    ASSUME ConstantsAssumption, ~Copies, TypeOK, Placed, [Next]_vars
    PROVE  Placed'
<1>1. ASSUME UNCHANGED <<config, open, buffers>>, running' = running \/ running' = FALSE
      PROVE  Placed'
  BY <1>1 DEF Placed, OneFolder, InPlace, BuffersHaveTheirNotebook, Open
<1>2. CASE UNCHANGED vars
  BY <1>1, <1>2 DEF vars, worldVars, runVars
<1>3. CASE RemoveSessionFile \/ PrepareShutdown \/ CancelShutdown \/ ContextDestroy \/ Crash
  BY <1>1, <1>3 DEF RemoveSessionFile, PrepareShutdown, CancelShutdown, ContextDestroy, Crash,
     worldVars, runVars
<1>4. CASE Calls
  BY <1>4, OpenExPlaced, CreatePlaced, ClosePlaced, CallsPlaced DEF Calls
<1>5. CASE Surroundings
  BY <1>3, <1>5, StartPlaced, OutsidePlaced DEF Surroundings
<1> QED
  BY <1>2, <1>4, <1>5 DEF Next

\* As long as no two folders hold one notebook, every buffer points to the notebook
\* that is open under its id: neither an open, nor a close, nor a start leaves a buffer
\* with an object that was replaced or destroyed.
THEOREM BuffersKeepTheirNotebook ==
    ASSUME ~Copies
    PROVE  Spec => []BuffersHaveTheirNotebook
<1>1. Init => Placed
  BY InitPlaced, ConstantsAssumption
<1>2. TypeOK /\ Placed /\ [Next]_vars => Placed'
  BY PlacedStep, ConstantsAssumption
<1>3. Placed => BuffersHaveTheirNotebook
  BY DEF Placed
<1> QED
  BY <1>1, <1>2, <1>3, TypeCorrect, PTL DEF Spec

-----------------------------------------------------------------------------
(* Records of notebooks *)

\* What the user has opened has a record, and no record of it is writable if it was
\* opened to be read only.
Remembered ==
    \A root \in Roots: known[root] # None =>
        /\ \E r \in ToSet(session.notebooks): r.root = root
        /\ known[root] = "ro" =>
            \A r \in ToSet(session.notebooks): r.root = root => r.readOnly

\* A new record takes the place of those it forgets.
LEMMA RecordRemembered ==
    ASSUME ConstantsAssumption, TypeOK, Remembered, NEW id \in Notebooks, NEW root \in Roots,
           NEW readOnly \in BOOLEAN, NEW mark \in {"rw", "ro"}, mark = "ro" => readOnly,
           session' = WithRecord(id, root, readOnly),
           known' = [Forgotten(id, root) EXCEPT ![root] = mark]
    PROVE  Remembered'
<1> DEFINE old == session.notebooks
           kept == {r \in ToSet(old): Other(r, id, root)}
           rec == Record(id, root, readOnly)
<1>1. old \in Seq(NotebookRecords)
  BY DEF TypeOK, Sessions
<1>2. Others(old, id, root) \in Seq(NotebookRecords) /\ ToSet(Others(old, id, root)) = kept
  BY <1>1, OthersAre
<1>3. rec \in NotebookRecords /\ rec.root = root /\ rec.readOnly = readOnly
  BY DEF Record, NotebookRecords
<1>4. session'.notebooks = Append(Others(old, id, root), rec)
  BY DEF WithRecord, WithNotebooks, SessionOf
<1>5. ToSet(session'.notebooks) = kept \cup {rec}
  BY <1>2, <1>3, <1>4, ElementsAppend
<1>6. \A s \in Roots: known'[s] = IF s = root THEN mark ELSE Forgotten(id, root)[s]
  BY ForgottenTyped
<1>7. ASSUME NEW s \in Roots, s # root, known'[s] # None
      PROVE  /\ known'[s] = known[s]
             /\ \A r \in ToSet(old): r.root = s => r \in kept
  BY <1>6, <1>7 DEF Forgotten
<1>8. \A r \in kept: r \in ToSet(old) /\ r.root # root
  BY DEF Other
<1> HIDE DEF kept, rec, old
<1> SUFFICES ASSUME NEW s \in Roots, known'[s] # None
             PROVE  /\ \E r \in ToSet(session'.notebooks): r.root = s
                    /\ known'[s] = "ro" =>
                        \A r \in ToSet(session'.notebooks): r.root = s => r.readOnly
  BY DEF Remembered
<1>9. CASE s = root
  BY <1>3, <1>5, <1>6, <1>8, <1>9
<1>10. CASE s # root
  <2>1. /\ \E r \in ToSet(old): r.root = s
        /\ known[s] = "ro" => \A r \in ToSet(old): r.root = s => r.readOnly
    BY <1>7, <1>10 DEF Remembered, old
  <2> QED
    BY <1>3, <1>5, <1>7, <1>8, <1>10, <2>1
<1> QED
  BY <1>9, <1>10

\* Closing forgets what it removes.
LEMMA CloseRemembered ==
    ASSUME ConstantsAssumption, TypeOK, Remembered, NEW n \in Notebooks, NotebookClose(n)
    PROVE  Remembered'
<1> DEFINE old == session.notebooks
           root == open[n].root
           kept == {r \in ToSet(old): Other(r, n, root)}
<1>1. old \in Seq(NotebookRecords)
  BY DEF TypeOK, Sessions
<1>2. session' = WithNotebooks(session, Others(old, n, root)) /\ known' = Forgotten(n, root)
  BY DEF NotebookClose, CloseNotebook
<1>3. ToSet(session'.notebooks) = kept
  BY <1>1, <1>2, OthersAre DEF WithNotebooks, SessionOf
<1>4. ASSUME NEW s \in Roots, known'[s] # None
      PROVE  /\ known'[s] = known[s]
             /\ \A r \in ToSet(old): r.root = s => r \in kept
  BY <1>2, <1>4 DEF Forgotten
<1>5. kept \subseteq ToSet(old)
  OBVIOUS
<1> HIDE DEF kept, old, root
<1>6. \A s \in Roots: known[s] # None =>
          /\ \E r \in ToSet(old): r.root = s
          /\ known[s] = "ro" => \A r \in ToSet(old): r.root = s => r.readOnly
  BY DEF Remembered, old
<1> QED
  BY <1>3, <1>4, <1>5, <1>6 DEF Remembered

\* Opening and creating.
LEMMA OpensRemembered ==
    ASSUME ConstantsAssumption, TypeOK, Remembered, NEW root \in Roots,
           \/ \E readOnly \in BOOLEAN: NotebookOpenEx(root, readOnly)
           \/ NotebookCreate(root)
    PROVE  Remembered'
<1>1. ASSUME NEW readOnly \in BOOLEAN, NotebookReopen(root, readOnly)
      PROVE  Remembered'
  <2>1. PICK n \in Notebooks:
            \/ UNCHANGED known /\ NoSave
            \/ /\ session' = WithRecord(n, root, TRUE)
               /\ known' = [Forgotten(n, root) EXCEPT ![root] = "ro"]
    BY <1>1 DEF NotebookReopen, OpenAt, RecordNotebookReadOnly
  <2>2. CASE UNCHANGED known /\ NoSave
    BY <2>2 DEF NoSave, Remembered
  <2>3. CASE /\ session' = WithRecord(n, root, TRUE)
             /\ known' = [Forgotten(n, root) EXCEPT ![root] = "ro"]
    BY <2>3, RecordRemembered
  <2> QED
    BY <2>1, <2>2, <2>3
<1>2. ASSUME OpenNotebook(root) \/ OpenReadOnly(root)
      PROVE  Remembered'
  <2>1. config[root] \in Notebooks
    BY <1>2 DEF OpenNotebook, OpenReadOnly, Loads, TypeOK
  <2> QED
    BY <1>2, <2>1, RecordRemembered DEF OpenNotebook, OpenReadOnly
<1>3. ASSUME CreateNotebook(root)
      PROVE  Remembered'
  <2>1. PICK n \in Notebooks: /\ session' = WithRecord(n, root, FALSE)
                              /\ known' = [Forgotten(n, root) EXCEPT ![root] = "rw"]
    BY <1>3 DEF CreateNotebook, Fresh
  <2> QED
    BY <2>1, RecordRemembered
<1>4. ASSUME UNCHANGED <<config, open, known>>, NoSave
      PROVE  Remembered'
  BY <1>4 DEF NoSave, Remembered
<1> QED
  BY <1>1, <1>2, <1>3, <1>4 DEF NotebookOpenEx, NotebookCreate

\* A start keeps a record for each root that has one, of the mode of one of them.
LEMMA StartRemembered ==
    ASSUME ConstantsAssumption, TypeOK, Remembered, ContextCreate
    PROVE  Remembered'
<1>1. PICK nbs: /\ Loaded(nbs, saved.notebooks, Len(saved.notebooks))
                /\ session'.notebooks = nbs.recs
  BY StartTyped
<1>2. saved.notebooks \in Seq(NotebookRecords)
  BY StartTyped DEF Sessions
<1>3. CASE saved = session
  <2> DEFINE old == saved.notebooks
             new == nbs.recs
             l == Len(old)
  <2>1. l \in Nat /\ DOMAIN old = 1..l /\ new \in Seq(NotebookRecords)
    BY <1>1, <1>2 DEF Loaded
  <2>2. /\ \A i \in 1..l: Listing(new, old[i].root)
        /\ \A k \in DOMAIN new: \E i \in 1..l:
              old[i].root = new[k].root /\ old[i].readOnly = new[k].readOnly
    BY <1>1 DEF Loaded
  <2>3. known' = known /\ session'.notebooks = new /\ session.notebooks = old
    BY <1>1, <1>3 DEF ContextCreate
  <2> HIDE DEF old, new, l
  <2>4. \A r \in ToSet(old): \E q \in ToSet(new): q.root = r.root
    <3> SUFFICES ASSUME NEW i \in 1..l PROVE \E q \in ToSet(new): q.root = old[i].root
      BY <2>1 DEF ToSet
    <3>1. PICK k \in DOMAIN new: new[k].root = old[i].root
      BY <2>2 DEF Listing
    <3>2. new[k] \in ToSet(new)
      BY DEF ToSet
    <3> QED
      BY <3>1, <3>2
  <2>5. \A q \in ToSet(new): \E r \in ToSet(old): r.root = q.root /\ r.readOnly = q.readOnly
    BY <2>1, <2>2 DEF ToSet
  <2> QED
    BY <2>3, <2>4, <2>5 DEF Remembered
<1>4. CASE saved # session
  BY <1>4 DEF ContextCreate, Remembered
<1> QED
  BY <1>3, <1>4

\* Every other step leaves the records alone.
LEMMA RememberedStep ==
    ASSUME ConstantsAssumption, TypeOK, Remembered, [Next]_vars
    PROVE  Remembered'
<1>1. ASSUME session'.notebooks = session.notebooks, known' = known
      PROVE  Remembered'
  BY <1>1 DEF Remembered
<1>2. \A s, bufs, ws, cur: Persisted(s, bufs, ws, cur).notebooks = s.notebooks
  BY DEF Persisted, SessionOf
<1>3. CASE UNCHANGED vars
  BY <1>1, <1>3 DEF vars
<1>4. ASSUME \/ \E root \in Roots: BufferOpen(root)
             \/ BufferOpenVirtual
             \/ \E b \in Open: BufferClose(b)
             \/ WorkspaceCall
      PROVE  Remembered'
  BY <1>1, <1>2, <1>4 DEF BufferOpen, BufferOpenVirtual, BufferClose, WorkspaceCall,
     PersistSession, NoSave
<1>5. CASE RemoveSessionFile
  BY <1>5 DEF RemoveSessionFile, Remembered
<1>6. ASSUME PrepareShutdown \/ CancelShutdown \/ ContextDestroy \/ Crash
      PROVE  Remembered'
  BY <1>1, <1>2, <1>6 DEF PrepareShutdown, CancelShutdown, ContextDestroy, Crash, NoSave
<1>7. ASSUME NEW root \in Roots,
             OutOfReach(root) \/ NoteGone(root) \/ \E n \in Notebooks: Replaced(root, n)
      PROVE  Remembered'
  BY <1>1, <1>7 DEF OutOfReach, NoteGone, Replaced
<1>8. CASE Calls
  BY <1>4, <1>8, OpensRemembered, CloseRemembered DEF Calls
<1>9. CASE Surroundings
  BY <1>5, <1>6, <1>7, <1>9, StartRemembered DEF Surroundings
<1> QED
  BY <1>3, <1>8, <1>9 DEF Next

\* A root that is known at the beginning has a record that is not read-only.
LEMMA InitRemembered ==
    ASSUME ConstantsAssumption, Init
    PROVE  Remembered
<1>1. CASE known = [r \in Roots |-> None]
  BY <1>1 DEF Remembered
<1>2. ASSUME NEW root \in Roots, NEW n \in Notebooks, session = Legacy(config[root], n, root),
             known = [r \in Roots |-> IF r = root THEN "rw" ELSE None]
      PROVE  Remembered
  <2>1. session.notebooks = <<Record(n, root, FALSE), Record(config[root], root, TRUE)>>
    BY <1>2 DEF Legacy, WithNotebooks, SessionOf
  <2>2. Record(n, root, FALSE) \in ToSet(session.notebooks)
    <3>1. 1 \in DOMAIN session.notebooks /\ session.notebooks[1] = Record(n, root, FALSE)
      BY <2>1
    <3> HIDE <2>1
    <3> QED
      BY <3>1 DEF ToSet
  <2>3. Record(n, root, FALSE).root = root
    BY DEF Record
  <2> QED
    BY <1>2, <2>2, <2>3 DEF Remembered
<1> QED
  BY <1>1, <1>2 DEF Init

\* A notebook that was opened and not closed keeps its record, for any number of starts
\* with its folder out of reach or holding another id, and after any failing write.
THEOREM OpenedNotebooksStay == Spec => []KnownNotebooksStay
<1>1. Init => Remembered
  BY InitRemembered, ConstantsAssumption
<1>2. TypeOK /\ Remembered /\ [Next]_vars => Remembered'
  BY RememberedStep, ConstantsAssumption
<1>3. Remembered => KnownNotebooksStay
  BY DEF Remembered, KnownNotebooksStay
<1> QED
  BY <1>1, <1>2, <1>3, TypeCorrect, PTL DEF Spec

-----------------------------------------------------------------------------
(* What is saved before the teardown *)

\* After prepare_shutdown nothing but the records of notebooks is written.
LEMMA SnapshotStep ==
    ASSUME SnapshotSurvivesTeardown, [Next]_vars
    PROVE  SnapshotSurvivesTeardown'
<1>1. ASSUME session'.buffers = session.buffers, session'.workspaces = session.workspaces,
             session'.current = session.current, shutdown' = shutdown, snapshot' = snapshot
      PROVE  SnapshotSurvivesTeardown'
  BY <1>1 DEF SnapshotSurvivesTeardown
<1>2. \A s, recs: /\ WithNotebooks(s, recs).buffers = s.buffers
                  /\ WithNotebooks(s, recs).workspaces = s.workspaces
                  /\ WithNotebooks(s, recs).current = s.current
  BY DEF WithNotebooks, SessionOf
<1>3. \A id, root, mode: /\ WithRecord(id, root, mode).buffers = session.buffers
                         /\ WithRecord(id, root, mode).workspaces = session.workspaces
                         /\ WithRecord(id, root, mode).current = session.current
  BY <1>2 DEF WithRecord
<1>4. ASSUME NEW root \in Roots, NEW readOnly \in BOOLEAN, NotebookOpenEx(root, readOnly)
      PROVE  SnapshotSurvivesTeardown'
  <2>1. session' = session \/ \E id, mode: session' = WithRecord(id, root, mode)
    BY <1>4 DEF NotebookOpenEx, NotebookReopen, OpenNotebook, OpenReadOnly,
       RecordNotebookReadOnly, NoSave
  <2>2. shutdown' = shutdown /\ snapshot' = snapshot
    BY <1>4 DEF NotebookOpenEx, runVars
  <2> QED
    BY <1>1, <1>3, <2>1, <2>2
<1>5. ASSUME NEW root \in Roots, NotebookCreate(root)
      PROVE  SnapshotSurvivesTeardown'
  <2>1. session' = session \/ \E id, mode: session' = WithRecord(id, root, mode)
    BY <1>5 DEF NotebookCreate, CreateNotebook, OpenNotebook, NoSave
  <2>2. shutdown' = shutdown /\ snapshot' = snapshot
    BY <1>5 DEF NotebookCreate, runVars
  <2> QED
    BY <1>1, <1>3, <2>1, <2>2
<1>6. ASSUME NEW n \in Notebooks, NotebookClose(n)
      PROVE  SnapshotSurvivesTeardown'
  BY <1>1, <1>2, <1>6 DEF NotebookClose, CloseNotebook, runVars
<1>7. ASSUME PersistSession, shutdown' = shutdown, snapshot' = snapshot
      PROVE  SnapshotSurvivesTeardown'
  BY <1>1, <1>7 DEF PersistSession, NoSave, SnapshotSurvivesTeardown
<1>8. ASSUME \/ \E root \in Roots: BufferOpen(root)
             \/ BufferOpenVirtual
             \/ \E b \in Open: BufferClose(b)
             \/ WorkspaceCall
      PROVE  SnapshotSurvivesTeardown'
  BY <1>1, <1>7, <1>8 DEF BufferOpen, BufferOpenVirtual, BufferClose, WorkspaceCall, runVars
<1>9. CASE Calls
  BY <1>4, <1>5, <1>6, <1>8, <1>9 DEF Calls
<1>10. CASE Surroundings
  <2>1. ASSUME NEW root \in Roots,
               OutOfReach(root) \/ NoteGone(root) \/ \E n \in Notebooks: Replaced(root, n)
        PROVE  SnapshotSurvivesTeardown'
    BY <1>1, <2>1 DEF OutOfReach, NoteGone, Replaced, runVars
  <2>2. ASSUME RemoveSessionFile \/ Crash
        PROVE  SnapshotSurvivesTeardown'
    BY <1>1, <2>2 DEF RemoveSessionFile, Crash, runVars
  <2>3. ASSUME PrepareShutdown \/ CancelShutdown \/ ContextCreate
        PROVE  SnapshotSurvivesTeardown'
    BY <2>3 DEF PrepareShutdown, CancelShutdown, ContextCreate, SnapshotSurvivesTeardown
  <2>4. ASSUME ContextDestroy
        PROVE  SnapshotSurvivesTeardown'
    BY <1>1, <2>4 DEF ContextDestroy, NoSave, SnapshotSurvivesTeardown
  <2> QED
    BY <1>10, <2>1, <2>2, <2>3, <2>4 DEF Surroundings
<1>11. CASE UNCHANGED vars
  BY <1>1, <1>11 DEF vars, runVars
<1> QED
  BY <1>9, <1>10, <1>11 DEF Next

\* Whatever is called between prepare_shutdown and the end, or the crash, of the
\* program, and however often the shutdown is cancelled.
THEOREM TeardownIsNotSaved == Spec => []SnapshotSurvivesTeardown
<1>1. Init => SnapshotSurvivesTeardown
  BY DEF Init, SnapshotSurvivesTeardown
<1>2. SnapshotSurvivesTeardown /\ [Next]_vars => SnapshotSurvivesTeardown'
  BY SnapshotStep
<1> QED
  BY <1>1, <1>2, PTL DEF Spec

-----------------------------------------------------------------------------
(* What a start restores *)

\* The current workspace is one there is.
CurrentIsThere == current # None => workspaces[current] # None

\* A workspace, and what the session has of it: its list with nothing left out but some
\* buffers that the start could not load.
PartOf(ws, kept) ==
    \/ ws = None /\ kept = None
    \/ /\ ws # None /\ kept # None
       /\ \E A \in SUBSET Bufs: ws.bufs = Only(kept.bufs, A)

\* Until the shutdown is prepared the session has every buffer, workspace and current
\* workspace there is.
Held ==
    ~shutdown =>
        /\ \A b \in Bufs: buffers[b] \notin {None, Virtual} => session.buffers[b] = buffers[b].nb
        /\ recover => \A w \in Workspaces: PartOf(workspaces[w], session.workspaces[w])
        /\ recover /\ current # None => current = LoadCurrent(session, workspaces)

\* The current workspace of a session is there.
LEMMA LoadedCurrentIsThere ==
    ASSUME NEW s, NEW ws, LoadCurrent(s, ws) # None
    PROVE  ws[LoadCurrent(s, ws)] # None
BY FirstIs DEF LoadCurrent

\* The calls on workspaces leave a current one that is there.
LEMMA WorkspacesCurrent ==
    ASSUME ConstantsAssumption, TypeOK, CurrentIsThere, NEW w \in Workspaces,
           OnWorkspaces(w) \/ OnBufferLists(w)
    PROVE  CurrentIsThere'
<1>1. /\ current \in Workspaces \cup {None}
      /\ workspaces \in [Workspaces -> WorkspaceStates \cup {None}]
  BY DEF TypeOK
<1>5. CASE DeleteWorkspace(w)
  BY <1>1, <1>5, FirstIs DEF DeleteWorkspace, CurrentWithout, CurrentIsThere
<1>6. CASE SetCurrentWorkspace(w)
  BY <1>6 DEF SetCurrentWorkspace, CurrentIsThere
<1>7. CASE current' = current /\ ~DeleteWorkspace(w)
  BY <1>1, <1>7, WorkspacesTyped DEF CurrentIsThere
<1>8. CASE OnBufferLists(w) \/ CreateWorkspace(w)
  <2>1. current' = current
    BY <1>8 DEF OnBufferLists, AddBufferToWorkspace, SetCurrentBuffer,
       RemoveBufferFromWorkspace, SetBufferOrder, CreateWorkspace
  <2> QED
    BY <1>5, <1>7, <2>1
<1> QED
  BY <1>5, <1>6, <1>8 DEF OnWorkspaces

\* Every step leaves a current workspace that is there.
LEMMA CurrentStep ==
    ASSUME ConstantsAssumption, TypeOK, CurrentIsThere, [Next]_vars
    PROVE  CurrentIsThere'
<1>1. ASSUME UNCHANGED wsVars
      PROVE  CurrentIsThere'
  BY <1>1 DEF wsVars, CurrentIsThere
<1>2. CASE ContextCreate
  BY <1>2, LoadedCurrentIsThere DEF ContextCreate, CurrentIsThere
<1>3. CASE Calls
  BY <1>1, <1>3, WorkspacesCurrent DEF Calls, NotebookOpenEx, NotebookCreate, NotebookClose,
     BufferOpen, BufferOpenVirtual, BufferClose
<1>4. CASE Surroundings
  BY <1>1, <1>2, <1>4 DEF Surroundings, RemoveSessionFile, PrepareShutdown, CancelShutdown,
     ContextDestroy, Crash, OutOfReach, NoteGone, Replaced
<1>5. CASE UNCHANGED vars
  BY <1>1, <1>5 DEF vars
<1> QED
  BY <1>3, <1>4, <1>5 DEF Next

\* A session that has just been written from the buffers and workspaces has them.
LEMMA PersistedHolds ==
    ASSUME ConstantsAssumption, TypeOK', CurrentIsThere', NEW s,
           session' = Persisted(s, buffers', workspaces', current')
    PROVE  Held'
<1>1. /\ session'.buffers = BufferRecords(buffers')
      /\ session'.workspaces = workspaces' /\ session'.current = current'
  BY DEF Persisted, SessionOf
<1>2. ASSUME NEW w \in Workspaces
      PROVE  PartOf(workspaces'[w], workspaces'[w])
  <2>1. CASE workspaces'[w] # None
    <3>1. workspaces'[w].bufs \in Seq(Bufs)
      BY <2>1 DEF TypeOK, WorkspaceStates
    <3>2. Only(workspaces'[w].bufs, Bufs) = workspaces'[w].bufs
      BY <3>1, OnlyAll
    <3> QED
      BY <2>1, <3>2 DEF PartOf
  <2> QED
    BY <2>1 DEF PartOf
<1>3. \A b \in Bufs: buffers'[b] \notin {None, Virtual} => session'.buffers[b] = buffers'[b].nb
  BY <1>1 DEF BufferRecords
<1>4. current' # None => current' = LoadCurrent(session', workspaces')
  BY <1>1 DEF LoadCurrent, CurrentIsThere
<1> QED
  BY <1>1, <1>2, <1>3, <1>4 DEF Held

\* A step that closes buffers, or opens virtual ones, and writes other records.
LEMMA SameHeld ==
    ASSUME Held, shutdown' = shutdown, recover' = recover, UNCHANGED wsVars,
           session'.buffers = session.buffers, session'.workspaces = session.workspaces,
           session'.current = session.current,
           \A b \in Bufs: buffers'[b] \in {buffers[b], None, Virtual}
    PROVE  Held'
<1>1. LoadCurrent(session', workspaces') = LoadCurrent(session, workspaces)
  BY DEF LoadCurrent, wsVars
<1> QED
  BY <1>1 DEF Held, wsVars

\* At the beginning there is nothing to be held.
LEMMA InitHeld ==
    ASSUME Init
    PROVE  CurrentIsThere /\ Held
<1>1. \A w \in Workspaces: session.workspaces[w] = None
  <2>1. \A w \in Workspaces: EmptySession.workspaces[w] = None
    BY DEF EmptySession, SessionOf
  <2>2. \A id, n, root: Legacy(id, n, root).workspaces = EmptySession.workspaces
    BY DEF Legacy, WithNotebooks, SessionOf
  <2>3. session = EmptySession \/ \E id, n, root: session = Legacy(id, n, root)
    BY DEF Init
  <2> QED
    BY <2>1, <2>2, <2>3
<1>2. /\ \A w \in Workspaces: workspaces[w] = None
      /\ \A b \in Bufs: buffers[b] = None
      /\ current = None
  BY DEF Init
<1> QED
  BY <1>1, <1>2 DEF CurrentIsThere, Held, PartOf

\* A start: what the session has, and what is loaded from it.
LEMMA StartLoads ==
    ASSUME ConstantsAssumption, TypeOK, ContextCreate, recover
    PROVE  /\ session'.buffers = saved.buffers /\ session'.workspaces = saved.workspaces
           /\ session'.current = saved.current
           /\ buffers' = LoadBuffers(saved, open')
           /\ current' = LoadCurrent(saved, workspaces')
           /\ \A w \in Workspaces:
                /\ saved.workspaces[w] = None => workspaces'[w] = None
                /\ saved.workspaces[w] # None =>
                    /\ saved.workspaces[w].bufs \in Seq(Bufs)
                    /\ workspaces'[w] # None
                    /\ workspaces'[w].bufs
                         = Only(saved.workspaces[w].bufs, {b \in Bufs: buffers'[b] # None})
<1>1. saved \in Sessions
  BY StartTyped
<1>2. /\ buffers' = LoadBuffers(saved, open')
      /\ workspaces' = LoadWorkspaces(saved, buffers')
      /\ current' = LoadCurrent(saved, workspaces')
  BY DEF ContextCreate
<1>3. \E recs: session' = WithNotebooks(saved, recs)
  BY DEF ContextCreate, Cleared
<1>4. ASSUME NEW w \in Workspaces, saved.workspaces[w] # None
      PROVE  /\ saved.workspaces[w] \in WorkspaceStates
             /\ workspaces'[w] = LoadWorkspace(saved.workspaces[w], buffers')
  BY <1>1, <1>2, <1>4 DEF LoadWorkspaces, Sessions
<1>5. ASSUME NEW w \in Workspaces, saved.workspaces[w] # None
      PROVE  /\ saved.workspaces[w].bufs \in Seq(Bufs)
             /\ workspaces'[w] # None
             /\ workspaces'[w].bufs
                  = Only(saved.workspaces[w].bufs, {b \in Bufs: buffers'[b] # None})
  <2>1. LoadWorkspace(saved.workspaces[w], buffers') \in WorkspaceStates
    BY <1>4, <1>5, LoadedWorkspaceTyped
  <2>2. workspaces'[w] # None
    BY <1>4, <1>5, <2>1 DEF ConstantsAssumption, WorkspaceStates
  <2>3. workspaces'[w].bufs
                  = Only(saved.workspaces[w].bufs, {b \in Bufs: buffers'[b] # None})
    BY <1>4, <1>5, LoadedWorkspaceTyped
  <2> QED
    BY <1>4, <1>5, <2>2, <2>3 DEF WorkspaceStates
<1>6. ASSUME NEW w \in Workspaces, saved.workspaces[w] = None
      PROVE  workspaces'[w] = None
  BY <1>2, <1>6 DEF LoadWorkspaces
<1>7. /\ session'.buffers = saved.buffers /\ session'.workspaces = saved.workspaces
      /\ session'.current = saved.current
  BY <1>3 DEF WithNotebooks, SessionOf
<1> QED
  BY <1>2, <1>5, <1>6, <1>7

\* A start leaves buffers and workspaces that the session has.
LEMMA StartHeld ==
    ASSUME ConstantsAssumption, TypeOK, ContextCreate
    PROVE  Held'
<1>0. recover' = recover
  BY DEF ContextCreate, worldVars
<1>1. CASE recover
  <2>1. \A b \in Bufs: buffers'[b] # None => buffers'[b].nb = session'.buffers[b]
    BY <1>1, StartLoads DEF LoadBuffers
  <2>2. ASSUME NEW w \in Workspaces
        PROVE  PartOf(workspaces'[w], session'.workspaces[w])
    <3> DEFINE B == {b \in Bufs: buffers'[b] # None}
    <3>1. B \in SUBSET Bufs
      OBVIOUS
    <3>2. /\ session'.workspaces = saved.workspaces
          /\ saved.workspaces[w] = None => workspaces'[w] = None
          /\ saved.workspaces[w] # None =>
              workspaces'[w] # None /\ workspaces'[w].bufs = Only(saved.workspaces[w].bufs, B)
      BY <1>1, StartLoads
    <3> HIDE DEF B
    <3> QED
      BY <3>1, <3>2 DEF PartOf
  <2>3. current' = LoadCurrent(session', workspaces')
    BY <1>1, StartLoads DEF LoadCurrent
  <2> QED
    BY <2>1, <2>2, <2>3 DEF Held
<1>2. CASE ~recover
  <2>1. \A b \in Bufs: buffers'[b] = None
    BY <1>2 DEF ContextCreate, LoadBuffers
  <2> QED
    BY <1>0, <1>2, <2>1 DEF Held
<1> QED
  BY <1>1, <1>2

\* Every step keeps buffers and workspaces in the session.
LEMMA HeldStep ==
    ASSUME ConstantsAssumption, TypeOK, CurrentIsThere, Held, [Next]_vars
    PROVE  Held'
<1>0. TypeOK' /\ CurrentIsThere'
  BY TypesStep, CurrentStep
<1>1. \A s, recs: /\ WithNotebooks(s, recs).buffers = s.buffers
                  /\ WithNotebooks(s, recs).workspaces = s.workspaces
                  /\ WithNotebooks(s, recs).current = s.current
  BY DEF WithNotebooks, SessionOf
<1>2. ASSUME NEW recs, session' \in {session, WithNotebooks(session, recs)}, shutdown' = shutdown,
             recover' = recover, UNCHANGED wsVars,
             \A b \in Bufs: buffers'[b] \in {buffers[b], None, Virtual}
      PROVE  Held'
  BY <1>1, <1>2, SameHeld
<1>3. ASSUME NEW s, session' = Persisted(s, buffers', workspaces', current')
      PROVE  Held'
  BY <1>0, <1>3, PersistedHolds, ConstantsAssumption
<1>4. ASSUME PersistSession, shutdown' = shutdown
      PROVE  Held'
  BY <1>3, <1>4 DEF PersistSession, Held
<1>5. ASSUME NEW root \in Roots,
             \/ \E readOnly \in BOOLEAN: NotebookOpenEx(root, readOnly)
             \/ NotebookCreate(root)
      PROVE  Held'
  <2>1. \E recs: session' \in {session, WithNotebooks(session, recs)}
    BY <1>5 DEF NotebookOpenEx, NotebookCreate, NotebookReopen, OpenNotebook, OpenReadOnly,
       CreateNotebook, RecordNotebookReadOnly, NoSave, WithRecord
  <2>2. shutdown' = shutdown /\ recover' = recover /\ UNCHANGED <<wsVars, buffers>>
    BY <1>5 DEF NotebookOpenEx, NotebookCreate, worldVars, runVars
  <2> QED
    BY <1>2, <2>1, <2>2
<1>6. ASSUME NEW n \in Notebooks, NotebookClose(n)
      PROVE  Held'
  <2>1. \A b \in Bufs: buffers'[b] \in {buffers[b], None, Virtual}
    BY <1>6 DEF NotebookClose, CloseBuffersForNotebook
  <2> QED
    BY <1>2, <1>6, <2>1 DEF NotebookClose, CloseNotebook, worldVars, runVars
<1>7. CASE BufferOpenVirtual
  <2>1. \A b \in Bufs: buffers'[b] \in {buffers[b], None, Virtual}
    BY <1>7 DEF BufferOpenVirtual, TypeOK
  <2> QED
    BY <1>2, <1>7, <2>1 DEF BufferOpenVirtual, worldVars, runVars
<1>8. CASE Calls
  BY <1>4, <1>5, <1>6, <1>7, <1>8 DEF Calls, BufferOpen, BufferClose, WorkspaceCall, runVars
<1>9. CASE PrepareShutdown
  BY <1>9 DEF PrepareShutdown, Held
<1>10. CASE CancelShutdown
  BY <1>3, <1>10 DEF CancelShutdown, wsVars
<1>11. CASE ContextDestroy
  BY <1>3, <1>11 DEF ContextDestroy, Held, wsVars
<1>12. ASSUME NEW root \in Roots,
              \/ RemoveSessionFile \/ Crash
              \/ OutOfReach(root) \/ NoteGone(root) \/ \E n \in Notebooks: Replaced(root, n)
       PROVE  Held'
  <2>1. /\ session' = session /\ shutdown' = shutdown /\ recover' = recover
        /\ UNCHANGED <<wsVars, buffers>>
    BY <1>12 DEF RemoveSessionFile, Crash, OutOfReach, NoteGone, Replaced, worldVars, runVars
  <2> QED
    BY <1>2, <2>1
<1>13. CASE RemoveSessionFile \/ Crash
  BY <1>2, <1>13 DEF RemoveSessionFile, Crash, worldVars, runVars
<1>14. CASE Surroundings
  BY <1>9, <1>10, <1>11, <1>12, <1>13, <1>14, StartHeld DEF Surroundings
<1>15. CASE UNCHANGED vars
  BY <1>2, <1>15 DEF vars, worldVars, runVars
<1> QED
  BY <1>8, <1>14, <1>15 DEF Next

\* A start that follows a run whose session reached the file.
LEMMA RestoresStep ==
    ASSUME ConstantsAssumption, TypeOK, Held,
           ContextCreate, recover, ~shutdown, saved = session
    PROVE  /\ \A b \in Bufs: Restorable(b) => buffers'[b] # None
           /\ \A w \in Workspaces: workspaces[w] # None =>
               /\ workspaces'[w] # None
               /\ Only(workspaces'[w].bufs, ToSet(workspaces[w].bufs))
                    = Only(workspaces[w].bufs, {b \in Bufs: buffers'[b] # None})
           /\ current # None => current' = current
<1>1. /\ buffers' = LoadBuffers(session, open')
      /\ current' = LoadCurrent(session, workspaces')
      /\ \A w \in Workspaces:
           /\ session.workspaces[w] = None => workspaces'[w] = None
           /\ session.workspaces[w] # None =>
               /\ session.workspaces[w].bufs \in Seq(Bufs)
               /\ workspaces'[w] # None
               /\ workspaces'[w].bufs
                    = Only(session.workspaces[w].bufs, {b \in Bufs: buffers'[b] # None})
  BY StartLoads
<1>2. ASSUME NEW b \in Bufs, Restorable(b)
      PROVE  buffers'[b] # None
  <2>1. buffers[b].nb \in Notebooks /\ session.buffers[b] = buffers[b].nb
    BY <1>2 DEF Restorable, Held, TypeOK
  <2>2. open'[buffers[b].nb].root \in Roots
    <3>1. TypeOK'
      BY StartTyped
    <3> QED
      BY <1>2, <2>1, <3>1 DEF Restorable, TypeOK, NotebookObjects
  <2>3. buffers'[b] = [nb |-> buffers[b].nb, root |-> open'[buffers[b].nb].root]
    BY <1>1, <1>2, <2>1 DEF Restorable, LoadBuffers, ConstantsAssumption
  <2> QED
    BY <2>1, <2>2, <2>3 DEF ConstantsAssumption
<1>3. ASSUME NEW w \in Workspaces, workspaces[w] # None
      PROVE  /\ workspaces'[w] # None
             /\ Only(workspaces'[w].bufs, ToSet(workspaces[w].bufs))
                  = Only(workspaces[w].bufs, {b \in Bufs: buffers'[b] # None})
  <2> DEFINE kept == session.workspaces[w].bufs
             B == {b \in Bufs: buffers'[b] # None}
  <2>1. session.workspaces[w] # None
    BY <1>3 DEF Held, PartOf
  <2>2. PICK A \in SUBSET Bufs: workspaces[w].bufs = Only(kept, A)
    BY <1>3 DEF Held, PartOf
  <2>3. kept \in Seq(Bufs) /\ workspaces'[w] # None /\ workspaces'[w].bufs = Only(kept, B)
    BY <1>1, <2>1
  <2> HIDE DEF kept, B
  <2> DEFINE here == ToSet(Only(kept, A))
  <2>4. here = ToSet(kept) \cap A
    BY <2>3, OnlyKeeps
  <2> HIDE DEF here
  <2>5. Only(Only(kept, B), here) = Only(kept, B \cap here)
    BY <2>3, OnlyTwice
  <2>6. Only(Only(kept, A), B) = Only(kept, A \cap B)
    BY <2>3, OnlyTwice
  <2>7. ToSet(kept) \cap (B \cap here) = ToSet(kept) \cap (A \cap B)
    BY <2>4
  <2>8. Only(kept, B \cap here) = Only(kept, A \cap B)
    BY <2>3, <2>7, OnlySame
  <2> QED
    BY <2>2, <2>3, <2>5, <2>6, <2>8 DEF here, B
<1>4. ASSUME current # None
      PROVE  current' = current
  <2>1. \A w \in Workspaces: workspaces[w] # None <=> workspaces'[w] # None
    BY <1>1 DEF Held, PartOf
  <2>2. FirstWorkspace(workspaces) = FirstWorkspace(workspaces')
    <3>1. {w \in Workspaces: workspaces[w] # None} = {w \in Workspaces: workspaces'[w] # None}
      BY <2>1
    <3> QED
      BY <3>1 DEF FirstWorkspace
  <2>3. session.current \in Workspaces \cup {None}
    BY DEF TypeOK, Sessions
  <2>4. current = LoadCurrent(session, workspaces)
    BY <1>4 DEF Held
  <2> QED
    BY <1>1, <2>1, <2>2, <2>3, <2>4 DEF LoadCurrent
<1> QED
  BY <1>2, <1>3, <1>4

\* A start brings back the buffers, the lists of buffers and the current workspace, after
\* any number of earlier starts and whatever they could not load.
THEOREM StartsRestore == Spec => StartRestores
<1>1. Init => CurrentIsThere /\ Held
  BY InitHeld
<1>2. TypeOK /\ CurrentIsThere /\ Held /\ [Next]_vars => (CurrentIsThere /\ Held)'
  BY CurrentStep, HeldStep, ConstantsAssumption
<1>3. TypeOK /\ Held /\ [Next]_vars =>
        [ContextCreate /\ recover /\ starts > 0 /\ ~shutdown /\ saved = session =>
            /\ \A b \in Bufs: Restorable(b) => buffers'[b] # None
            /\ \A w \in Workspaces: workspaces[w] # None =>
                /\ workspaces'[w] # None
                /\ Only(workspaces'[w].bufs, ToSet(workspaces[w].bufs))
                     = Only(workspaces[w].bufs, {b \in Bufs: buffers'[b] # None})
            /\ current # None => current' = current]_vars
  BY RestoresStep, ConstantsAssumption
<1> QED
  BY <1>1, <1>2, <1>3, TypeCorrect, PTL DEF Spec, StartRestores

==============================================================================
