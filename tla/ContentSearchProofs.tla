------------------------ MODULE ContentSearchProofs ------------------------
(* Proofs about ContentSearch, for any calls, threads, files and queries: where the items
   of a call are, how many a call waits for, and that none outlives its call. *)
EXTENDS ContentSearch, FiniteSetTheorems, SequenceTheorems, TLAPS

-----------------------------------------------------------------------------
(* Queues *)

Items == [of: Searches, chunk: Nat \ {0}]

\* An element taken from the front of a queue that holds nothing twice.
LEMMA TakeFirst ==
    ASSUME NEW T, NEW q \in Seq(T), q # <<>>, IsInjective(q)
    PROVE  /\ Head(q) \in T /\ Tail(q) \in Seq(T) /\ IsInjective(Tail(q))
           /\ Head(q) \notin ToSet(Tail(q)) /\ ToSet(q) = {Head(q)} \cup ToSet(Tail(q))
<1> DEFINE n == Len(q)
           r == Tail(q)
<1>1. /\ n \in Nat \ {0} /\ DOMAIN q = 1..n /\ r \in Seq(T) /\ DOMAIN r = 1..n - 1
      /\ \A i \in 1..n - 1: r[i] = q[i + 1]
      /\ Head(q) = q[1] /\ q[1] \in T
  OBVIOUS
<1> HIDE DEF n, r
<1>2. IsInjective(r)
  <2> SUFFICES ASSUME NEW i \in 1..n - 1, NEW k \in 1..n - 1, r[i] = r[k]
               PROVE  i = k
    BY <1>1 DEF IsInjective
  <2>1. q[i + 1] = q[k + 1] /\ i + 1 \in 1..n /\ k + 1 \in 1..n
    BY <1>1
  <2>2. i + 1 = k + 1
    BY <1>1, <2>1 DEF IsInjective
  <2> QED
    BY <1>1, <2>2
<1>3. ToSet(q) = {q[i]: i \in 1..n} /\ ToSet(r) = {r[i]: i \in 1..n - 1}
  BY <1>1 DEF ToSet
<1>4. \A i \in 1..n - 1: i + 1 \in 1..n /\ i + 1 # 1
  BY <1>1
<1>5. q[1] \notin ToSet(r)
  BY <1>1, <1>3, <1>4 DEF IsInjective
<1>6. \A i \in 1..n: i = 1 \/ (i - 1 \in 1..n - 1 /\ r[i - 1] = q[i])
  BY <1>1
<1>7. ToSet(q) = {q[1]} \cup ToSet(r)
  BY <1>1, <1>3, <1>4, <1>6
<1> QED
  BY <1>1, <1>2, <1>5, <1>7 DEF r

\* An element put at the end of a queue that does not hold it.
LEMMA PutLast ==
    ASSUME NEW T, NEW q \in Seq(T), NEW x \in T, IsInjective(q), x \notin ToSet(q)
    PROVE  /\ Append(q, x) \in Seq(T) /\ IsInjective(Append(q, x))
           /\ ToSet(Append(q, x)) = ToSet(q) \cup {x}
<1> DEFINE n == Len(q)
           r == Append(q, x)
<1>1. /\ n \in Nat /\ DOMAIN q = 1..n /\ r \in Seq(T) /\ DOMAIN r = 1..n + 1
      /\ \A i \in 1..n: r[i] = q[i]
      /\ r[n + 1] = x
  OBVIOUS
<1> HIDE DEF n, r
<1>2. ToSet(r) = {r[i]: i \in 1..n + 1} /\ ToSet(q) = {q[i]: i \in 1..n}
  BY <1>1 DEF ToSet
<1>3. 1..n + 1 = 1..n \cup {n + 1}
  BY <1>1
<1>4. ToSet(r) = ToSet(q) \cup {x}
  BY <1>1, <1>2, <1>3
<1>5. \A i \in 1..n: q[i] # x
  BY <1>2
<1>6. IsInjective(r)
  BY <1>1, <1>3, <1>5 DEF IsInjective
<1> QED
  BY <1>1, <1>4, <1>6 DEF r

\* Nothing is in an empty queue.
LEMMA NoneQueued == ToSet(<<>>) = {} /\ IsInjective(<<>>)
BY DEF ToSet, IsInjective

-----------------------------------------------------------------------------
(* Where the items are *)

Ats == {"begin", "scan", "emit", "hand out", "end"}
HandItem(t) == Item(hand[t].of, hand[t].chunk)
HandItems(t) == IF hand[t] = Free THEN {} ELSE {HandItem(t)}
Mine(t) == HandItems(t) \cup ToSet(batch[t])
Live == ToSet(queue) \cup UNION {Mine(t): t \in Threads}
LiveOf(s) == {b \in Nat: Item(s, b) \in Live}

HandFields == {"of", "chunk", "at", "next", "found"}

Held(h) == /\ h.of \in Searches /\ h.chunk \in Nat \ {0} /\ h.at \in Ats
           /\ DOMAIN h = HandFields

\* Items and threads.
Places ==
    /\ queue \in Seq(Items) /\ batch \in [Threads -> Seq(Items)]
    /\ hand = [t \in Threads |-> hand[t]]
    /\ \A t \in Threads: hand[t] = Free \/ Held(hand[t])
    /\ \A t \in Threads: hand[t] = Free => batch[t] = <<>>
    /\ \A s \in Searches: batch[s] = <<>>

\* No item is in two places.
Once ==
    /\ IsInjective(queue)
    /\ \A t \in Threads: /\ IsInjective(batch[t])
                         /\ HandItems(t) \cap ToSet(batch[t]) = {}
                         /\ ToSet(queue) \cap Mine(t) = {}
    /\ \A t, u \in Threads: t # u => Mine(t) \cap Mine(u) = {}

Pool == Places /\ Once

\* An item of a thread is not free, and what an item is.
LEMMA BegunIsHeld ==
    ASSUME NEW i \in Items, NEW at \in Ats
    PROVE  /\ Held(Begun(i, at)) /\ Begun(i, at) # Free
           /\ Item(Begun(i, at).of, Begun(i, at).chunk) = i
<1>1. Begun(i, at).at # Free.at
  BY DEF Begun, Free, Ats
<1> QED
  BY <1>1 DEF Begun, Held, Items, Item, Ats, HandFields

\* What a thread has in hand is not the idle value.
LEMMA HeldIsNotFree ==
    ASSUME NEW h, Held(h)
    PROVE  h # Free
<1>1. h.at # Free.at
  BY DEF Held, Free, Begun, Ats
<1> QED
  BY <1>1

\* The thread keeps its item: another step of it, or of another thread.
LEMMA PoolKept ==
    ASSUME Pool, UNCHANGED <<queue, batch>>, hand' = [t \in Threads |-> hand'[t]],
           \A t \in Threads: \/ hand'[t] = hand[t]
                             \/ /\ hand[t] # Free /\ hand'[t] # Free /\ Held(hand'[t])
                                /\ hand'[t].of = hand[t].of /\ hand'[t].chunk = hand[t].chunk
    PROVE  Pool' /\ Live' = Live /\ \A t \in Threads: HandItems(t)' = HandItems(t)
<1>1. \A t \in Threads: HandItems(t)' = HandItems(t)
  BY DEF HandItems, HandItem
<1>2. \A t \in Threads: Mine(t)' = Mine(t)
  BY <1>1 DEF Mine
<1>3. Live' = Live
  BY <1>2 DEF Live
<1>4. Places'
  BY DEF Pool, Places
<1>5. Once'
  BY <1>1, <1>2 DEF Pool, Once
<1> QED
  BY <1>1, <1>3, <1>4, <1>5 DEF Pool

\* A thread that has no item takes the first of the queue, and the others or none.
LEMMA PoolTaken ==
    ASSUME Pool, NEW t \in Threads, hand[t] = Free, queue # <<>>,
           hand' = [hand EXCEPT ![t] = Begun(Head(queue), "begin")],
           \/ queue' = Tail(queue) /\ batch' = batch
           \/ queue' = <<>> /\ batch' = [batch EXCEPT ![t] = Tail(queue)] /\ t \notin Searches
    PROVE  /\ Pool' /\ Live' = Live
           /\ \A u \in Threads \ {t}: HandItems(u)' = HandItems(u)
<1> DEFINE i == Head(queue)
           rest == Tail(queue)
<1>1. /\ i \in Items /\ rest \in Seq(Items) /\ IsInjective(rest)
      /\ i \notin ToSet(rest) /\ ToSet(queue) = {i} \cup ToSet(rest)
  BY TakeFirst DEF Pool, Places, Once
<1>2. /\ Held(Begun(i, "begin")) /\ Begun(i, "begin") # Free
      /\ Item(Begun(i, "begin").of, Begun(i, "begin").chunk) = i
  BY <1>1, BegunIsHeld DEF Ats
<1> HIDE DEF i, rest
<1>3. /\ hand'[t] = Begun(i, "begin") /\ \A u \in Threads \ {t}: hand'[u] = hand[u]
      /\ hand' = [u \in Threads |-> hand'[u]]
  BY DEF Pool, Places, i
<1>4. HandItems(t)' = {i} /\ \A u \in Threads \ {t}: HandItems(u)' = HandItems(u)
  BY <1>2, <1>3 DEF HandItems, HandItem
<1>5. /\ queue' \in Seq(Items) /\ IsInjective(queue')
      /\ batch' \in [Threads -> Seq(Items)]
      /\ \A u \in Threads \ {t}: batch'[u] = batch[u]
      /\ \A u \in Searches: batch'[u] = <<>>
      /\ IsInjective(batch'[t])
      /\ ToSet(queue') \cap ToSet(batch'[t]) = {}
      /\ ToSet(queue') \cup ToSet(batch'[t]) = ToSet(rest)
  <2>1. batch[t] = <<>> /\ batch \in [Threads -> Seq(Items)] /\ \A u \in Searches: batch[u] = <<>>
    BY DEF Pool, Places
  <2>2. CASE queue' = rest /\ batch' = batch
    BY <1>1, <2>1, <2>2, NoneQueued
  <2>3. CASE queue' = <<>> /\ batch' = [batch EXCEPT ![t] = rest] /\ t \notin Searches
    BY <1>1, <2>1, <2>3, NoneQueued, EmptySeq
  <2> QED
    BY <2>2, <2>3 DEF rest
<1>6. Mine(t) = {} /\ Mine(t)' = {i} \cup ToSet(batch'[t])
  BY <1>4, NoneQueued DEF Mine, HandItems, Pool, Places
<1>7. \A u \in Threads \ {t}: Mine(u)' = Mine(u)
  BY <1>4, <1>5 DEF Mine
<1>8. Live' = Live
  <2>1. \A x: x \in Live' <=> \/ x \in ToSet(queue')
                              \/ x \in Mine(t)'
                              \/ \E u \in Threads \ {t}: x \in Mine(u)'
    BY DEF Live
  <2>2. \A x: x \in Live <=> \/ x \in ToSet(queue)
                             \/ x \in Mine(t)
                             \/ \E u \in Threads \ {t}: x \in Mine(u)
    BY DEF Live
  <2>3. \A x: x \in ToSet(queue') \/ x \in Mine(t)' <=> x \in ToSet(queue)
    BY <1>1, <1>5, <1>6
  <2>4. \A x: x \in Live' <=> x \in Live
    BY <1>6, <1>7, <2>1, <2>2, <2>3
  <2> QED
    BY <2>4
<1>9. Places'
  BY <1>2, <1>3, <1>5 DEF Pool, Places
<1>10. ToSet(queue') \subseteq ToSet(queue) /\ Mine(t)' \subseteq ToSet(queue)
       /\ ToSet(queue') \cap Mine(t)' = {}
  BY <1>1, <1>5, <1>6
<1>11. \A u \in Threads \ {t}: ToSet(queue) \cap Mine(u) = {}
  BY DEF Pool, Once
<1>12. Once'
  <2>1. \A u \in Threads: /\ IsInjective(batch'[u])
                          /\ HandItems(u)' \cap ToSet(batch'[u]) = {}
                          /\ ToSet(queue') \cap Mine(u)' = {}
    <3>1. HandItems(t)' \cap ToSet(batch'[t]) = {}
      BY <1>1, <1>4, <1>5
    <3> QED
      BY <3>1, <1>4, <1>5, <1>7, <1>10, <1>11 DEF Pool, Once
  <2>2. ASSUME NEW u \in Threads, NEW v \in Threads, u # v
        PROVE  Mine(u)' \cap Mine(v)' = {}
    BY <2>2, <1>7, <1>10, <1>11 DEF Pool, Once
  <2> QED
    BY <1>5, <2>1, <2>2 DEF Once
<1> QED
  BY <1>4, <1>8, <1>9, <1>12 DEF Pool

\* A calling thread that has no item makes one of its own, which nobody has.
LEMMA PoolOwn ==
    ASSUME Pool, NEW s \in Searches, hand[s] = Free, NEW h, Held(h),
           Item(h.of, h.chunk) \notin Live, h # Free,
           hand' = [hand EXCEPT ![s] = h], UNCHANGED <<queue, batch>>
    PROVE  /\ Pool' /\ Live' = Live \cup {Item(h.of, h.chunk)}
           /\ HandItems(s)' = {Item(h.of, h.chunk)}
           /\ \A u \in Threads \ {s}: HandItems(u)' = HandItems(u)
<1> DEFINE i == Item(h.of, h.chunk)
<1>1. /\ s \in Threads /\ hand'[s] = h /\ \A u \in Threads \ {s}: hand'[u] = hand[u]
      /\ hand' = [u \in Threads |-> hand'[u]]
  BY DEF Pool, Places, Threads
<1>2. HandItems(s)' = {i} /\ \A u \in Threads \ {s}: HandItems(u)' = HandItems(u)
  BY <1>1 DEF HandItems, HandItem
<1>3. Mine(s) = {} /\ batch[s] = <<>> /\ Mine(s)' = {i}
  BY <1>2, NoneQueued DEF Pool, Places, Mine, HandItems
<1>4. \A u \in Threads \ {s}: Mine(u)' = Mine(u)
  BY <1>2 DEF Mine
<1>5. i \notin ToSet(queue) /\ \A u \in Threads: i \notin Mine(u)
  BY DEF Live
<1> HIDE DEF i
<1>6. Live' = Live \cup {i}
  <2>1. \A x: x \in Live' <=> x \in Live \/ x = i
    BY <1>1, <1>3, <1>4 DEF Live
  <2> QED
    BY <2>1
<1>7. Places'
  BY <1>1 DEF Pool, Places
<1>8. Once'
  <2>1. \A u \in Threads: /\ IsInjective(batch'[u])
                          /\ HandItems(u)' \cap ToSet(batch'[u]) = {}
                          /\ ToSet(queue') \cap Mine(u)' = {}
    <3>1. HandItems(s)' \cap ToSet(batch'[s]) = {}
      BY <1>3, NoneQueued
    <3> QED
      BY <3>1, <1>2, <1>3, <1>4, <1>5 DEF Pool, Once
  <2>2. ASSUME NEW u \in Threads, NEW v \in Threads, u # v
        PROVE  Mine(u)' \cap Mine(v)' = {}
    BY <2>2, <1>3, <1>4, <1>5 DEF Pool, Once
  <2> QED
    BY <2>1, <2>2 DEF Pool, Once
<1> QED
  BY <1>2, <1>6, <1>7, <1>8 DEF Pool, i

\* A new item comes into the queue.
LEMMA PoolQueued ==
    ASSUME Pool, NEW i \in Items, i \notin Live, queue' = Append(queue, i),
           UNCHANGED <<hand, batch>>
    PROVE  /\ Pool' /\ Live' = Live \cup {i}
           /\ \A u \in Threads: HandItems(u)' = HandItems(u)
<1>1. i \notin ToSet(queue) /\ \A u \in Threads: i \notin Mine(u)
  BY DEF Live
<1>2. queue' \in Seq(Items) /\ IsInjective(queue') /\ ToSet(queue') = ToSet(queue) \cup {i}
  BY <1>1, PutLast DEF Pool, Places, Once
<1>3. \A u \in Threads: HandItems(u)' = HandItems(u) /\ Mine(u)' = Mine(u)
  BY DEF HandItems, HandItem, Mine
<1>4. Live' = Live \cup {i}
  <2>1. \A x: x \in Live' <=> x \in Live \/ x = i
    BY <1>2, <1>3 DEF Live
  <2> QED
    BY <2>1
<1>5. Places'
  BY <1>2 DEF Pool, Places
<1>6. Once'
  BY <1>1, <1>2, <1>3 DEF Pool, Once
<1> QED
  BY <1>3, <1>4, <1>5, <1>6 DEF Pool

\* A thread is done with its item, and goes on with those it took.
LEMMA PoolEnded ==
    ASSUME Pool, NEW t \in Threads, hand[t] # Free, queue' = queue,
           hand' = [hand EXCEPT ![t] = IF batch[t] = <<>> THEN Free
                                       ELSE Begun(Head(batch[t]), "begin")],
           batch' = [batch EXCEPT ![t] = IF @ = <<>> THEN @ ELSE Tail(@)]
    PROVE  /\ Pool' /\ Live' = Live \ {HandItem(t)} /\ HandItem(t) \in Live
           /\ t \in Searches => HandItems(t)' = {}
           /\ \A u \in Threads \ {t}: HandItems(u)' = HandItems(u)
<1> DEFINE i == HandItem(t)
<1>1. /\ batch[t] \in Seq(Items) /\ IsInjective(batch[t])
      /\ i \notin ToSet(batch[t]) /\ HandItems(t) = {i} /\ Mine(t) = {i} \cup ToSet(batch[t])
  BY DEF Pool, Places, Once, HandItems, Mine
<1>2. /\ hand'[t] = IF batch[t] = <<>> THEN Free ELSE Begun(Head(batch[t]), "begin")
      /\ batch'[t] = IF batch[t] = <<>> THEN <<>> ELSE Tail(batch[t])
      /\ \A u \in Threads \ {t}: hand'[u] = hand[u] /\ batch'[u] = batch[u]
      /\ hand' = [u \in Threads |-> hand'[u]]
  BY DEF Pool, Places
<1> HIDE DEF i
<1>3. /\ hand'[t] = Free \/ Held(hand'[t])
      /\ batch'[t] \in Seq(Items) /\ IsInjective(batch'[t])
      /\ hand'[t] = Free => batch'[t] = <<>>
      /\ HandItems(t)' \cap ToSet(batch'[t]) = {}
      /\ HandItems(t)' \cup ToSet(batch'[t]) = ToSet(batch[t])
      /\ batch[t] = <<>> => HandItems(t)' = {}
  <2>1. CASE batch[t] = <<>>
    <3>1. hand'[t] = Free /\ batch'[t] = <<>>
      BY <1>2, <2>1
    <3>2. HandItems(t)' = {}
      BY <3>1 DEF HandItems
    <3> QED
      BY <2>1, <3>1, <3>2, NoneQueued, EmptySeq
  <2>2. CASE batch[t] # <<>>
    <3> DEFINE k == Head(batch[t])
               rest == Tail(batch[t])
    <3>1. /\ k \in Items /\ rest \in Seq(Items) /\ IsInjective(rest)
          /\ k \notin ToSet(rest) /\ ToSet(batch[t]) = {k} \cup ToSet(rest)
      BY <1>1, <2>2, TakeFirst
    <3>2. Held(Begun(k, "begin")) /\ Begun(k, "begin") # Free
          /\ Item(Begun(k, "begin").of, Begun(k, "begin").chunk) = k
      BY <3>1, BegunIsHeld DEF Ats
    <3>3. hand'[t] = Begun(k, "begin") /\ batch'[t] = rest
      BY <1>2, <2>2
    <3> HIDE DEF k, rest
    <3>4. HandItems(t)' = {k}
      BY <3>2, <3>3 DEF HandItems, HandItem
    <3> QED
      BY <2>2, <3>1, <3>2, <3>3, <3>4
  <2> QED
    BY <2>1, <2>2
<1>4. Mine(t)' = Mine(t) \ {i} /\ \A u \in Threads \ {t}: Mine(u)' = Mine(u)
  BY <1>1, <1>2, <1>3 DEF Mine, HandItems, HandItem
<1>5. i \in Live /\ i \notin ToSet(queue) /\ \A u \in Threads \ {t}: i \notin Mine(u)
  BY <1>1 DEF Live, Pool, Once
<1>6. Live' = Live \ {i}
  <2>1. \A x: x \in Live' <=> \/ x \in ToSet(queue)
                              \/ x \in Mine(t)'
                              \/ \E u \in Threads \ {t}: x \in Mine(u)'
    BY DEF Live
  <2>2. \A x: x \in Live <=> \/ x \in ToSet(queue)
                             \/ x \in Mine(t)
                             \/ \E u \in Threads \ {t}: x \in Mine(u)
    BY DEF Live
  <2>3. \A x: x \in Live' <=> x \in Live /\ x # i
    BY <1>4, <1>5, <2>1, <2>2
  <2> QED
    BY <2>3
<1>7. Places'
  <2>1. batch' \in [Threads -> Seq(Items)]
    BY <1>3 DEF Pool, Places
  <2>2. \A s \in Searches: batch'[s] = <<>>
    BY <1>2 DEF Pool, Places, Threads
  <2> QED
    BY <1>2, <1>3, <2>1, <2>2 DEF Pool, Places
<1>8. Once'
  <2>1. \A u \in Threads: Mine(u)' \subseteq Mine(u)
    BY <1>4
  <2>2. \A u \in Threads: /\ IsInjective(batch'[u])
                          /\ HandItems(u)' \cap ToSet(batch'[u]) = {}
    BY <1>2, <1>3 DEF Pool, Once, HandItems, HandItem
  <2> QED
    BY <2>1, <2>2 DEF Pool, Once
<1>9. t \in Searches => HandItems(t)' = {}
  BY <1>3 DEF Pool, Places
<1>10. \A u \in Threads \ {t}: HandItems(u)' = HandItems(u)
  BY <1>2 DEF HandItems, HandItem
<1> QED
  BY <1>5, <1>6, <1>7, <1>8, <1>9, <1>10 DEF Pool, i

-----------------------------------------------------------------------------
(* What a call waits for *)

Chunks(s) == Total(call[s].files, call[s].q)

\* A call and the items it has.
Busy(s) ==
    /\ call[s].phase \in Phases
    /\ call[s].phase \in {"idle", "enqueue", "help", "done"} => HandItems(s) = {}
    /\ Direct(s) => /\ call[s].next \in Nat \ {0}
                    /\ \A i \in HandItems(s): i.of = s
                    /\ \A b \in LiveOf(s): HandItems(s) = {Item(s, b)}
    /\ call[s].phase = "idle" => call[s].next = 1
    /\ call[s].phase \in {"idle", "done"} => LiveOf(s) = {}
    /\ call[s].phase = "enqueue" =>
        /\ Chunks(s) \in Nat /\ call[s].next \in 1..Chunks(s)
        /\ LiveOf(s) \subseteq 1..call[s].next - 1
        /\ call[s].left = Cardinality(LiveOf(s) \cup call[s].next..Chunks(s))
    /\ call[s].phase \in {"drain", "help"} =>
        /\ Chunks(s) \in Nat /\ LiveOf(s) \subseteq 1..Chunks(s)
        /\ call[s].left = Cardinality(LiveOf(s))

CallFields == {"phase", "q", "files", "next", "left", "thrown", "chunks", "missed"}

Records ==
    /\ asks \in Asks
    /\ call = [s \in Searches |-> call[s]]
    /\ \A s \in Searches: DOMAIN call[s] = CallFields

Counted == Records /\ Pool /\ \A s \in Searches: Busy(s)

\* A call that is not touched, nor its items.
LEMMA SameBusy ==
    ASSUME NEW s \in Searches, Busy(s), call'[s].phase = call[s].phase, call'[s].next = call[s].next,
           call'[s].left = call[s].left, call'[s].q = call[s].q, call'[s].files = call[s].files,
           HandItems(s)' = HandItems(s), LiveOf(s)' = LiveOf(s)
    PROVE  Busy(s)'
BY DEF Busy, Direct, Chunks

\* The same items: the same of every call.
LEMMA LiveSame ==
    ASSUME Live' = Live
    PROVE  \A s \in Searches: LiveOf(s)' = LiveOf(s)
BY DEF LiveOf

\* One more item: one more of its call, the same of the others.
LEMMA LiveMore ==
    ASSUME NEW u \in Searches, NEW b \in Nat, Live' = Live \cup {Item(u, b)}
    PROVE  /\ LiveOf(u)' = LiveOf(u) \cup {b}
           /\ \A s \in Searches \ {u}: LiveOf(s)' = LiveOf(s)
<1>1. \A s, c: Item(s, c) = Item(u, b) <=> s = u /\ c = b
  BY DEF Item
<1> QED
  BY <1>1 DEF LiveOf

\* One less item: one less of its call, the same of the others.
LEMMA LiveLess ==
    ASSUME NEW u \in Searches, NEW b \in Nat, Live' = Live \ {Item(u, b)}
    PROVE  /\ LiveOf(u)' = LiveOf(u) \ {b}
           /\ \A s \in Searches \ {u}: LiveOf(s)' = LiveOf(s)
<1>1. \A s, c: Item(s, c) = Item(u, b) <=> s = u /\ c = b
  BY DEF Item
<1> QED
  BY <1>1 DEF LiveOf

\* At the beginning there are no items.
LEMMA InitCounted ==
    ASSUME SearchAssumption, Init
    PROVE  Counted
<1>1. hand = [t \in Threads |-> Free] /\ batch = [t \in Threads |-> <<>>] /\ queue = <<>>
  BY DEF Init
<1>2. \A t \in Threads: HandItems(t) = {} /\ Mine(t) = {}
  BY <1>1, NoneQueued DEF HandItems, Mine
<1>3. Live = {} /\ \A s \in Searches: LiveOf(s) = {}
  BY <1>1, <1>2, NoneQueued DEF Live, LiveOf
<1>4. Pool
  BY <1>1, <1>2, NoneQueued, EmptySeq DEF Pool, Places, Once, Threads
<1>5. Records
  BY DEF Init, Records, CallFields
<1>6. \A s \in Searches: call[s].phase = "idle" /\ call[s].next = 1
  BY DEF Init
<1>7. \A s \in Searches: Busy(s)
  BY <1>2, <1>3, <1>6 DEF Busy, Direct, Phases, Threads
<1> QED
  BY <1>4, <1>5, <1>7 DEF Counted

\* The fields of a call that are counted.
SameCall(s) ==
    /\ call'[s].phase = call[s].phase /\ call'[s].next = call[s].next
    /\ call'[s].left = call[s].left /\ call'[s].q = call[s].q /\ call'[s].files = call[s].files

\* A step of an item that goes on with it.
LEMMA ItemGoesOn ==
    ASSUME SearchAssumption, Counted, NEW t \in Threads,
           Begin(t) \/ ScanFile(t) \/ Emit(t) \/ HandOut(t)
    PROVE  Counted'
<1>1. hand[t] # Free /\ Held(hand[t])
  <2>1. hand[t].at # "free"
    BY DEF Begin, ScanFile, Emit, HandOut
  <2>2. Free.at = "free"
    BY DEF Free, Begun
  <2> QED
    BY <2>1, <2>2 DEF Counted, Pool, Places
<1>2. UNCHANGED <<asks, queue, batch>>
  BY DEF Begin, ScanFile, Emit, HandOut
<1>3. /\ \A u \in Threads \ {t}: hand'[u] = hand[u]
      /\ hand' = [u \in Threads |-> hand'[u]]
      /\ Held(hand'[t]) /\ hand'[t].of = hand[t].of /\ hand'[t].chunk = hand[t].chunk
  <2>0. hand = [u \in Threads |-> hand[u]]
    BY DEF Counted, Pool, Places
  <2>1. ASSUME NEW at \in Ats, hand' = [hand EXCEPT ![t].at = at]
        PROVE  /\ \A u \in Threads \ {t}: hand'[u] = hand[u]
               /\ hand' = [u \in Threads |-> hand'[u]]
               /\ Held(hand'[t]) /\ hand'[t].of = hand[t].of /\ hand'[t].chunk = hand[t].chunk
    BY <1>1, <2>0, <2>1 DEF Held, HandFields
  <2>2. ASSUME NEW at \in Ats, NEW found, NEW next,
               hand' = [hand EXCEPT ![t] = [@ EXCEPT !.found = found, !.next = next, !.at = at]]
        PROVE  /\ \A u \in Threads \ {t}: hand'[u] = hand[u]
               /\ hand' = [u \in Threads |-> hand'[u]]
               /\ Held(hand'[t]) /\ hand'[t].of = hand[t].of /\ hand'[t].chunk = hand[t].chunk
    BY <1>1, <2>0, <2>2 DEF Held, HandFields
  <2>3. \/ \E at \in Ats: hand' = [hand EXCEPT ![t].at = at]
        \/ \E at \in Ats: \E found, next:
              hand' = [hand EXCEPT ![t] = [@ EXCEPT !.found = found, !.next = next, !.at = at]]
    <3>1. CASE Begin(t)
      BY <3>1 DEF Begin, Step, Ats
    <3>2. CASE Emit(t)
      BY <3>2 DEF Emit, Step, Ats
    <3>3. CASE HandOut(t)
      BY <3>3 DEF HandOut, Step, Ats
    <3>4. CASE ScanFile(t)
      <4> DEFINE s == hand[t].of
                 chunk == Chunk(s, hand[t].chunk)
                 n == chunk[hand[t].next]
                 at == IF hand[t].next = Len(chunk) THEN "emit" ELSE "scan"
      <4>1. CASE flag[s]
        BY <3>4, <4>1 DEF ScanFile, Step, Ats
      <4>2. CASE ~flag[s]
        <5>1. PICK matches: hand' = [hand EXCEPT ![t] = [@ EXCEPT
                        !.found = IF matches = <<>> THEN @ ELSE Append(@, Found(n, matches)),
                        !.next = @ + 1, !.at = at]]
          BY <3>4, <4>2 DEF ScanFile
        <5>2. at \in Ats
          BY DEF Ats
        <5> QED
          BY <5>1, <5>2
      <4> QED
        BY <4>1, <4>2
    <3> QED
      BY <3>1, <3>2, <3>3, <3>4
  <2> QED
    BY <2>1, <2>2, <2>3
<1>3n. hand'[t] # Free
  BY <1>3, HeldIsNotFree
<1>4. Pool' /\ Live' = Live /\ \A u \in Threads: HandItems(u)' = HandItems(u)
  BY <1>1, <1>2, <1>3, <1>3n, PoolKept DEF Counted
<1>5. Records' /\ \A s \in Searches: SameCall(s)
  <2>0. /\ call = [s \in Searches |-> call[s]] /\ hand[t].of \in Searches
        /\ \A s \in Searches: DOMAIN call[s] = CallFields
    BY <1>1 DEF Counted, Records, Held
  <2>1. CASE call' = call
    BY <1>2, <2>1 DEF Counted, Records, SameCall
  <2>2. ASSUME NEW v, call' = [call EXCEPT ![hand[t].of].thrown = v]
        PROVE  Records' /\ \A s \in Searches: SameCall(s)
    BY <1>2, <2>0, <2>2 DEF Counted, Records, SameCall, CallFields
  <2>3. ASSUME NEW v, NEW c, call' = [call EXCEPT ![hand[t].of].chunks[c] = v]
        PROVE  Records' /\ \A s \in Searches: SameCall(s)
    BY <1>2, <2>0, <2>3 DEF Counted, Records, SameCall, CallFields
  <2>4. \/ call' = call
        \/ \E v: call' = [call EXCEPT ![hand[t].of].thrown = v]
        \/ \E v, c: call' = [call EXCEPT ![hand[t].of].chunks[c] = v]
    BY DEF Begin, ScanFile, Emit, HandOut
  <2> QED
    BY <2>1, <2>2, <2>3, <2>4
<1>6. \A s \in Searches: Busy(s)'
  BY <1>4, <1>5, LiveSame, SameBusy DEF Counted, SameCall, Threads
<1> QED
  BY <1>4, <1>5, <1>6 DEF Counted

\* A step that changes one call, and no item.
LEMMA OneCall ==
    ASSUME Counted, NEW s \in Searches, UNCHANGED <<asks, queue, hand, batch>>,
           call' = [call EXCEPT ![s] = call'[s]], DOMAIN call'[s] = CallFields,
           HandItems(s) = HandItems(s)' /\ LiveOf(s) = LiveOf(s)' => Busy(s)'
    PROVE  Counted'
<1>1. hand' = [u \in Threads |-> hand'[u]]
  BY DEF Counted, Pool, Places
<1>2. Pool' /\ Live' = Live /\ \A u \in Threads: HandItems(u)' = HandItems(u)
  BY <1>1, PoolKept DEF Counted
<1>3. /\ call' = [u \in Searches |-> call'[u]] /\ \A u \in Searches \ {s}: call'[u] = call[u]
  BY DEF Counted, Records
<1>4. Records'
  BY <1>3 DEF Counted, Records
<1>5. \A u \in Searches: LiveOf(u)' = LiveOf(u) /\ HandItems(u)' = HandItems(u)
  BY <1>2, LiveSame DEF Threads
<1>6. \A u \in Searches \ {s}: Busy(u)'
  BY <1>3, <1>5, SameBusy DEF Counted
<1> QED
  BY <1>2, <1>4, <1>5, <1>6 DEF Counted

\* The number of chunks.
LEMMA TotalIs ==
    ASSUME SearchAssumption, NEW a \in Asks, NEW s \in Searches, NEW q \in a[s],
           NEW T, NEW files \in Seq(T), files # <<>>
    PROVE  Total(files, q) \in Nat /\ Total(files, q) >= 1
<1> DEFINE l == Len(files)
           n == Size(q)
<1>1. l \in Nat /\ l >= 1
  OBVIOUS
<1>2. n \in Nat /\ n >= 1
  BY DEF SearchAssumption, Size
<1> HIDE DEF l, n
<1>3. (l + n - 1) \div n \in Nat /\ (l + n - 1) \div n >= 1
  BY <1>1, <1>2, Z3
<1> QED
  BY <1>3 DEF Total, l, n

\* A search of the text begins.
LEMMA ContentCounted ==
    ASSUME SearchAssumption, WalksEnd, Counted, NEW s \in Searches, SearchContent(s)
    PROVE  Counted'
<1>1. PICK q \in asks[s]:
          LET files == FetchFilesToSearch(q, FALSE)
              start == Start(s, q, files)
          IN  /\ call[s].phase = "idle"
              /\ call' = [call EXCEPT ![s] = [@ EXCEPT !.phase = start.phase, !.q = q, !.files = files,
                              !.left = start.chunks, !.chunks = [b \in 1 .. start.chunks |-> <<>>]]]
              /\ UNCHANGED <<asks, queue, hand, batch>>
  BY DEF SearchContent
<1> DEFINE files == FetchFilesToSearch(q, FALSE)
           start == Start(s, q, files)
<1>2. asks \in Asks /\ files \in Seq(DOMAIN Card)
  BY DEF Counted, Records, WalksEnd
<1>3. files # <<>> => Total(files, q) \in Nat /\ Total(files, q) >= 1
  BY <1>2, TotalIs
<1>4. \/ start.phase \in {"done", "rg", "sweep", "inline"}
      \/ start.phase = "enqueue" /\ start.chunks = Total(files, q) /\ files # <<>>
  BY DEF Start, Ended, GoesOn
<1> HIDE DEF files, start
<1>5. /\ call[s].phase = "idle"
      /\ call'[s].phase = start.phase /\ call'[s].q = q /\ call'[s].files = files
      /\ call'[s].left = start.chunks /\ call'[s].next = call[s].next
      /\ DOMAIN call'[s] = CallFields /\ call' = [call EXCEPT ![s] = call'[s]]
      /\ UNCHANGED <<asks, queue, hand, batch>>
  <2>1. DOMAIN call[s] = CallFields /\ call = [u \in Searches |-> call[u]]
    BY DEF Counted, Records
  <2> QED
    BY <1>1, <2>1 DEF files, start, CallFields
<1>6. Busy(s) /\ HandItems(s) = {} /\ LiveOf(s) = {} /\ call[s].next = 1
  BY <1>5 DEF Counted, Busy
<1>7. ASSUME HandItems(s) = HandItems(s)', LiveOf(s) = LiveOf(s)'
      PROVE  Busy(s)'
  <2>1. HandItems(s)' = {} /\ LiveOf(s)' = {}
    BY <1>6, <1>7
  <2>2. CASE start.phase \in {"done", "rg", "sweep", "inline"}
    BY <1>5, <1>6, <2>1, <2>2 DEF Busy, Direct, Phases
  <2>3. CASE start.phase = "enqueue" /\ start.chunks = Total(files, q) /\ files # <<>>
    <3>1. Chunks(s)' = Total(files, q) /\ Total(files, q) \in Nat /\ Total(files, q) >= 1
      BY <1>3, <1>5, <2>3 DEF Chunks
    <3>2. Cardinality(1..Total(files, q)) = Total(files, q)
      BY <3>1, FS_Interval
    <3>3. LiveOf(s)' \cup call'[s].next..Chunks(s)' = 1..Total(files, q)
      BY <1>5, <1>6, <2>1, <3>1
    <3>4. call'[s].left = Cardinality(LiveOf(s)' \cup call'[s].next..Chunks(s)')
      BY <1>5, <2>3, <3>2, <3>3
    <3>5. Chunks(s)' \in Nat /\ call'[s].next \in 1..Chunks(s)'
      BY <1>5, <1>6, <3>1
    <3> QED
      BY <1>5, <2>1, <2>3, <3>4, <3>5 DEF Busy, Direct, Phases
  <2> QED
    BY <1>4, <2>2, <2>3
<1> QED
  BY <1>5, <1>7, OneCall

\* A search by name or by tags.
LEMMA NodesCounted ==
    ASSUME Counted, NEW s \in Searches, SearchNodes(s)
    PROVE  Counted'
<1>1. PICK q: call' = [call EXCEPT ![s] = [@ EXCEPT !.phase = "done", !.q = q]]
  BY DEF SearchNodes
<1>2. call[s].phase = "idle" /\ UNCHANGED <<asks, queue, hand, batch>>
  BY DEF SearchNodes
<1>3. DOMAIN call[s] = CallFields /\ call = [u \in Searches |-> call[u]]
  BY DEF Counted, Records
<1>4. /\ call'[s].phase = "done" /\ DOMAIN call'[s] = CallFields
      /\ call' = [call EXCEPT ![s] = call'[s]]
  BY <1>1, <1>3 DEF CallFields
<1>5. HandItems(s) = HandItems(s)' /\ LiveOf(s) = LiveOf(s)' => Busy(s)'
  BY <1>2, <1>4 DEF Counted, Busy, Direct, Phases
<1> QED
  BY <1>2, <1>4, <1>5, OneCall

\* A call returns that has no item.
LEMMA ReturnCounted ==
    ASSUME Counted, NEW s \in Searches, hand[s] = Free, LiveOf(s) = {},
           call' = [call EXCEPT ![s] = [@ EXCEPT !.phase = "done"]],
           UNCHANGED <<asks, queue, hand, batch>>
    PROVE  Counted'
<1>3. DOMAIN call[s] = CallFields /\ call = [u \in Searches |-> call[u]]
  BY DEF Counted, Records
<1>4. /\ call'[s].phase = "done" /\ DOMAIN call'[s] = CallFields
      /\ call' = [call EXCEPT ![s] = call'[s]]
  BY <1>3 DEF CallFields
<1>5. HandItems(s) = HandItems(s)' /\ LiveOf(s) = LiveOf(s)' => Busy(s)'
  BY <1>4 DEF Counted, Busy, Direct, Phases, HandItems
<1> QED
  BY <1>4, <1>5, OneCall

\* A call that scans its chunks itself and has no item in hand has none.
LEMMA DirectIdle ==
    ASSUME NEW s \in Searches, Busy(s), Direct(s), hand[s] = Free
    PROVE  LiveOf(s) = {} /\ call[s].next \in Nat \ {0}
<1>1. HandItems(s) = {}
  BY DEF HandItems
<1> QED
  BY <1>1 DEF Busy

\* A calling thread begins with a chunk of its own.
LEMMA OwnCounted ==
    ASSUME SearchAssumption, Counted, NEW s \in Searches, Direct(s), hand[s] = Free,
           NEW h, Held(h), h.of = s,
           hand' = [hand EXCEPT ![s] = h], UNCHANGED <<asks, queue, batch, call>>
    PROVE  Counted'
<1>1. LiveOf(s) = {} /\ call[s].next \in Nat \ {0}
  BY DirectIdle DEF Counted
<1> DEFINE c == h.chunk
<1>2. c \in Nat /\ Item(s, c) \notin Live
  BY <1>1 DEF Held, LiveOf
<1>3. h # Free
  BY HeldIsNotFree
<1> HIDE DEF c
<1>4. /\ Pool' /\ Live' = Live \cup {Item(s, c)} /\ HandItems(s)' = {Item(s, c)}
      /\ \A u \in Threads \ {s}: HandItems(u)' = HandItems(u)
  BY <1>2, <1>3, PoolOwn DEF Counted, c
<1>5. LiveOf(s)' = {c} /\ \A u \in Searches \ {s}: LiveOf(u)' = LiveOf(u)
  BY <1>1, <1>2, <1>4, LiveMore
<1>6. Busy(s)'
  <2>1. call[s].phase \in {"inline", "sweep", "rg"} /\ call'[s] = call[s]
    BY DEF Direct
  <2>2. Item(s, c).of = s
    BY DEF Item
  <2> QED
    BY <1>1, <1>4, <1>5, <2>1, <2>2 DEF Busy, Direct, Phases
<1>7. \A u \in Searches \ {s}: Busy(u)'
  BY <1>4, <1>5, SameBusy DEF Counted, Threads
<1> QED
  BY <1>4, <1>6, <1>7 DEF Counted, Records

\* The next chunk of a calling thread.
LEMMA ChunkCounted ==
    ASSUME SearchAssumption, Counted, NEW s \in Searches, NextChunk(s)
    PROVE  Counted'
<1>1. Direct(s) /\ hand[s] = Free /\ UNCHANGED <<asks, queue, batch>>
  BY DEF NextChunk, Direct
<1>2. LiveOf(s) = {} /\ call[s].next \in Nat \ {0}
  BY <1>1, DirectIdle DEF Counted
<1>3. CASE flag[s]
  <2>1. call' = [call EXCEPT ![s] = [@ EXCEPT !.phase = "done"]] /\ hand' = hand
    BY <1>3 DEF NextChunk, Return
  <2> QED
    BY <1>1, <1>2, <2>1, ReturnCounted
<1>4. CASE ~flag[s]
  <2> DEFINE at == IF call[s].phase = "inline" THEN "scan" ELSE "emit"
             h == Begun(Item(s, call[s].next), at)
  <2>1. hand' = [hand EXCEPT ![s] = h] /\ call' = call
    BY <1>4 DEF NextChunk
  <2>2. at \in Ats /\ Item(s, call[s].next) \in Items
    BY <1>2 DEF Ats, Item, Items
  <2>3. Held(h) /\ h.of = s
    BY <2>2, BegunIsHeld DEF Begun, Item
  <2> HIDE DEF h
  <2> QED
    BY <1>1, <2>1, <2>3, OwnCounted
<1> QED
  BY <1>3, <1>4

\* The run of the external program.
LEMMA RgCounted ==
    ASSUME SearchAssumption, Counted, NEW s \in Searches, RgSearch(s)
    PROVE  Counted'
<1>1. Direct(s) /\ hand[s] = Free /\ UNCHANGED <<asks, queue, batch>>
  BY DEF RgSearch, Direct
<1>2. LiveOf(s) = {} /\ call[s].next \in Nat \ {0}
  BY <1>1, DirectIdle DEF Counted
<1>3. \/ call' = [call EXCEPT ![s] = [@ EXCEPT !.phase = "done", !.missed = {1}]] /\ hand' = hand
      \/ call' = [call EXCEPT ![s] = [@ EXCEPT !.phase = "done"]] /\ hand' = hand
      \/ \E found: /\ hand' = [hand EXCEPT ![s] = [Begun(Item(s, 1), "emit") EXCEPT !.found = found]]
                   /\ call' = call
  BY DEF RgSearch, Return
<1>4. CASE call' = [call EXCEPT ![s] = [@ EXCEPT !.phase = "done", !.missed = {1}]] /\ hand' = hand
  <2>1. DOMAIN call[s] = CallFields /\ call = [u \in Searches |-> call[u]]
    BY DEF Counted, Records
  <2>2. /\ call'[s].phase = "done" /\ DOMAIN call'[s] = CallFields
        /\ call' = [call EXCEPT ![s] = call'[s]]
    BY <1>4, <2>1 DEF CallFields
  <2>3. HandItems(s) = HandItems(s)' /\ LiveOf(s) = LiveOf(s)' => Busy(s)'
    BY <1>1, <1>2, <2>2 DEF Counted, Busy, Direct, Phases, HandItems
  <2> QED
    BY <1>1, <1>4, <2>2, <2>3, OneCall
<1>5. CASE call' = [call EXCEPT ![s] = [@ EXCEPT !.phase = "done"]] /\ hand' = hand
  BY <1>1, <1>2, <1>5, ReturnCounted
<1>6. ASSUME NEW found, call' = call,
             hand' = [hand EXCEPT ![s] = [Begun(Item(s, 1), "emit") EXCEPT !.found = found]]
      PROVE  Counted'
  <2> DEFINE h == [Begun(Item(s, 1), "emit") EXCEPT !.found = found]
  <2>1. Held(h) /\ h.of = s
    BY DEF Held, Begun, Item, Ats, HandFields
  <2>2. hand' = [hand EXCEPT ![s] = h]
    BY <1>6
  <2> HIDE DEF h
  <2> QED
    BY <1>1, <1>6, <2>1, <2>2, OwnCounted
<1> QED
  BY <1>3, <1>4, <1>5, <1>6

\* The next item of a call comes into the queue, or is refused.
LEMMA EnqueueCounted ==
    ASSUME SearchAssumption, Counted, NEW s \in Searches, Enqueue(s)
    PROVE  Counted'
<1> DEFINE b == call[s].next
           n == Chunks(s)
           missed == IF open THEN {} ELSE {b}
           phase == IF b = n THEN "drain" ELSE "enqueue"
           old == LiveOf(s)
<1>1. /\ call[s].phase = "enqueue" /\ UNCHANGED <<asks, hand, batch>>
      /\ queue' = IF open THEN Append(queue, Item(s, b)) ELSE queue
      /\ call' = [call EXCEPT ![s].next = b + 1, ![s].left = @ - Cardinality(missed),
                              ![s].missed = @ \cup missed, ![s].phase = phase]
  BY DEF Enqueue, Chunks
<1>2. /\ DOMAIN call[s] = CallFields /\ call = [u \in Searches |-> call[u]] /\ Busy(s) /\ Pool
      /\ \A u \in Searches: Busy(u)
  BY DEF Counted, Records
<1>3. /\ HandItems(s) = {} /\ n \in Nat /\ b \in 1..n /\ old \subseteq 1..b - 1
      /\ call[s].left = Cardinality(old \cup b..n)
  BY <1>1, <1>2 DEF Busy
<1> HIDE DEF b, n, missed, phase, old
<1>4. /\ call'[s].phase = phase /\ call'[s].next = b + 1
      /\ call'[s].left = call[s].left - Cardinality(missed)
      /\ call'[s].q = call[s].q /\ call'[s].files = call[s].files
      /\ DOMAIN call'[s] = CallFields /\ call' = [u \in Searches |-> call'[u]]
      /\ \A u \in Searches \ {s}: call'[u] = call[u]
      /\ Chunks(s)' = n
  <2>1. /\ call' = [u \in Searches |-> call'[u]]
        /\ \A u \in Searches \ {s}: call'[u] = call[u]
    BY <1>1, <1>2
  <2>3. /\ call'[s].phase = phase /\ call'[s].next = b + 1
        /\ call'[s].q = call[s].q /\ call'[s].files = call[s].files
        /\ DOMAIN call'[s] = CallFields
    BY <1>1, <1>2 DEF CallFields
  <2>4. call'[s].left = call[s].left - Cardinality(missed)
    BY <1>1, <1>2 DEF CallFields
  <2>2. Chunks(s)' = n
    BY <2>3 DEF Chunks, n
  <2> QED
    BY <2>1, <2>2, <2>3, <2>4
<1>5. /\ Pool' /\ \A u \in Threads: HandItems(u)' = HandItems(u)
      /\ LiveOf(s)' = old \cup (IF open THEN {b} ELSE {})
      /\ \A u \in Searches \ {s}: LiveOf(u)' = LiveOf(u)
  <2>1. CASE open
    <3>1. Item(s, b) \in Items /\ b \in Nat
      BY <1>3 DEF Items, Item
    <3>2. Item(s, b) \notin Live
      BY <1>3 DEF LiveOf, old
    <3>3. /\ Pool' /\ Live' = Live \cup {Item(s, b)}
          /\ \A u \in Threads: HandItems(u)' = HandItems(u)
      BY <1>1, <1>2, <2>1, <3>1, <3>2, PoolQueued
    <3>4. /\ LiveOf(s)' = old \cup {b}
          /\ \A u \in Searches \ {s}: LiveOf(u)' = LiveOf(u)
      BY <3>1, <3>3, LiveMore DEF old
    <3> QED
      BY <2>1, <3>3, <3>4
  <2>2. CASE ~open
    <3>1. hand' = [u \in Threads |-> hand'[u]]
      BY <1>1, <1>2 DEF Pool, Places
    <3>2. Pool' /\ Live' = Live /\ \A u \in Threads: HandItems(u)' = HandItems(u)
      BY <1>1, <1>2, <2>2, <3>1, PoolKept
    <3> QED
      BY <2>2, <3>2, LiveSame DEF old
  <2> QED
    BY <2>1, <2>2
<1>6. /\ call'[s].left = Cardinality(LiveOf(s)' \cup (b + 1)..n)
      /\ LiveOf(s)' \subseteq 1..b
  <2>1. CASE open
    <3>1. missed = {} /\ LiveOf(s)' = old \cup {b}
      BY <1>5, <2>1 DEF missed
    <3>2. LiveOf(s)' \cup (b + 1)..n = old \cup b..n
      BY <1>3, <3>1
    <3>3. Cardinality({}) = 0 /\ IsFiniteSet(old \cup b..n)
      <4>1. IsFiniteSet(1..n)
        BY <1>3, FS_Interval
      <4>2. old \cup b..n \subseteq 1..n
        BY <1>3
      <4>3. IsFiniteSet(old \cup b..n)
        BY <4>1, <4>2, FS_Subset
      <4> QED
        BY <4>3, FS_EmptySet
    <3>4. Cardinality(old \cup b..n) \in Nat
      BY <3>3, FS_CardinalityType
    <3>5. LiveOf(s)' \subseteq 1..b
      <4>1. b \in Nat \ {0} /\ 1..b - 1 \subseteq 1..b /\ b \in 1..b
        BY <1>3
      <4> QED
        BY <1>3, <3>1, <4>1
    <3>6. call'[s].left = Cardinality(old \cup b..n)
      BY <1>3, <1>4, <3>1, <3>3, <3>4
    <3> QED
      BY <3>2, <3>5, <3>6
  <2>2. CASE ~open
    <3> DEFINE all == old \cup b..n
    <3>1. missed = {b} /\ LiveOf(s)' = old
      BY <1>5, <2>2 DEF missed
    <3>2. old \cup (b + 1)..n = all \ {b}
      BY <1>3
    <3>3. IsFiniteSet(all) /\ b \in all
      <4>1. IsFiniteSet(1..n)
        BY <1>3, FS_Interval
      <4>2. all \subseteq 1..n /\ b \in all
        BY <1>3
      <4> HIDE DEF all
      <4> QED
        BY <4>1, <4>2, FS_Subset
    <3> HIDE DEF all
    <3>4. Cardinality(all \ {b}) = Cardinality(all) - 1
      BY <3>3, FS_RemoveElement
    <3>5. Cardinality({b}) = 1
      BY FS_Singleton
    <3> QED
      <4>0. b \in Nat \ {0} /\ 1..b - 1 \subseteq 1..b
        BY <1>3
      <4>1. LiveOf(s)' \subseteq 1..b
        BY <1>3, <3>1, <4>0
      <4>2. call[s].left = Cardinality(all) /\ call'[s].left = call[s].left - 1
        BY <1>3, <1>4, <3>1, <3>5 DEF all
      <4>3. LiveOf(s)' \cup (b + 1)..n = all \ {b}
        BY <3>1, <3>2
      <4> QED
        BY <4>1, <4>2, <4>3, <3>4
  <2> QED
    BY <2>1, <2>2
<1>7. Busy(s)'
  <2>0. HandItems(s)' = {} /\ s \in Threads
    BY <1>3, <1>5 DEF Threads
  <2>1. CASE b = n
    <3>1. (b + 1)..n = {}
      BY <1>3, <2>1
    <3>2. call'[s].left = Cardinality(LiveOf(s)')
      BY <1>6, <3>1
    <3>3. call'[s].phase = "drain"
      BY <1>4, <2>1 DEF phase
    <3> QED
      BY <1>3, <1>4, <1>6, <2>0, <2>1, <3>2, <3>3 DEF Busy, Direct, Phases
  <2>2. CASE b # n
    <3>1. b + 1 \in 1..n /\ (b + 1) - 1 = b
      BY <1>3, <2>2
    <3>2. call'[s].phase = "enqueue"
      BY <1>4, <2>2 DEF phase
    <3> QED
      BY <1>3, <1>4, <1>6, <2>0, <3>1, <3>2 DEF Busy, Direct, Phases
  <2> QED
    BY <2>1, <2>2
<1>8. \A u \in Searches \ {s}: Busy(u)'
  BY <1>2, <1>4, <1>5, SameBusy DEF Threads
<1>9. Records'
  BY <1>1, <1>4 DEF Counted, Records
<1> QED
  BY <1>5, <1>7, <1>8, <1>9 DEF Counted

\* The calling thread looks whether it may return.
LEMMA PollCounted ==
    ASSUME Counted, NEW s \in Searches, Poll(s)
    PROVE  Counted'
<1>1. /\ call[s].phase = "drain" /\ hand[s] = Free /\ UNCHANGED <<asks, queue, hand, batch>>
      /\ Busy(s) /\ DOMAIN call[s] = CallFields /\ call = [u \in Searches |-> call[u]]
  BY DEF Poll, Counted, Records
<1>2. /\ Chunks(s) \in Nat /\ LiveOf(s) \subseteq 1..Chunks(s)
      /\ call[s].left = Cardinality(LiveOf(s))
  BY <1>1 DEF Busy
<1>3. IsFiniteSet(LiveOf(s)) /\ Cardinality(LiveOf(s)) \in Nat
  <2>1. IsFiniteSet(1..Chunks(s))
    BY <1>2, FS_Interval
  <2> QED
    BY <1>2, <2>1, FS_Subset, FS_CardinalityType
<1>4. CASE call[s].left > 0
  <2>1. call' = [call EXCEPT ![s].phase = "help"]
    BY <1>4 DEF Poll
  <2>2. /\ call'[s].phase = "help" /\ DOMAIN call'[s] = CallFields
        /\ call' = [call EXCEPT ![s] = call'[s]]
        /\ call'[s].left = call[s].left /\ Chunks(s)' = Chunks(s)
    BY <1>1, <2>1 DEF CallFields, Chunks
  <2>3. HandItems(s) = {}
    BY <1>1 DEF HandItems
  <2>4. HandItems(s) = HandItems(s)' /\ LiveOf(s) = LiveOf(s)' => Busy(s)'
    BY <1>2, <2>2, <2>3 DEF Busy, Direct, Phases
  <2> QED
    BY <1>1, <2>2, <2>4, OneCall
<1>5. CASE ~(call[s].left > 0)
  <2>1. call' = [call EXCEPT ![s] = [@ EXCEPT !.phase = "done"]]
    BY <1>5 DEF Poll, Return
  <2>2. Cardinality(LiveOf(s)) = 0
    BY <1>2, <1>3, <1>5
  <2>3. LiveOf(s) = {}
    BY <1>3, <2>2, FS_EmptySet
  <2> QED
    BY <1>1, <2>1, <2>3, ReturnCounted
<1> QED
  BY <1>4, <1>5

\* A thread takes items from the queue; the call it may wait for is looked at again.
LEMMA TakenCounted ==
    ASSUME Counted, NEW t \in Threads, hand[t] = Free, asks' = asks,
           t \in Searches => call[t].phase = "help",
           Pool', Live' = Live, \A u \in Threads \ {t}: HandItems(u)' = HandItems(u),
           IF t \in Searches THEN call' = [call EXCEPT ![t].phase = "drain"] ELSE call' = call
    PROVE  Counted'
<1>1. /\ call = [u \in Searches |-> call[u]] /\ \A u \in Searches: Busy(u)
      /\ \A u \in Searches: DOMAIN call[u] = CallFields
  BY DEF Counted, Records
<1>2. \A u \in Searches: LiveOf(u)' = LiveOf(u)
  BY LiveSame
<1>3. /\ call' = [u \in Searches |-> call'[u]] /\ \A u \in Searches \ {t}: call'[u] = call[u]
      /\ \A u \in Searches: DOMAIN call'[u] = CallFields
  BY <1>1 DEF CallFields
<1>4. \A u \in Searches \ {t}: Busy(u)'
  BY <1>1, <1>2, <1>3, SameBusy DEF Threads
<1>5. ASSUME t \in Searches
      PROVE  Busy(t)'
  <2>1. /\ call'[t].phase = "drain" /\ call'[t].left = call[t].left
        /\ Chunks(t)' = Chunks(t)
    BY <1>1, <1>5 DEF CallFields, Chunks
  <2>2. /\ Chunks(t) \in Nat /\ LiveOf(t) \subseteq 1..Chunks(t)
        /\ call[t].left = Cardinality(LiveOf(t))
    BY <1>1, <1>5 DEF Busy
  <2> QED
    BY <1>2, <1>5, <2>1, <2>2 DEF Busy, Direct, Phases
<1> QED
  BY <1>3, <1>4, <1>5 DEF Counted, Records

\* The calling thread helps.
LEMMA HelpCounted ==
    ASSUME Counted, NEW s \in Searches, Help(s)
    PROVE  Counted'
<1>1. /\ s \in Threads /\ call[s].phase = "help" /\ asks' = asks
      /\ call' = [call EXCEPT ![s].phase = "drain"] /\ batch' = batch
  BY DEF Help, Threads
<1>2. hand[s] = Free
  <2>1. HandItems(s) = {}
    BY <1>1 DEF Counted, Busy
  <2> QED
    BY <2>1 DEF HandItems
<1>3. CASE queue = <<>>
  <2>1. queue' = queue /\ hand' = hand /\ hand' = [u \in Threads |-> hand'[u]]
    BY <1>3 DEF Help, Counted, Pool, Places
  <2>2. Pool' /\ Live' = Live /\ \A u \in Threads: HandItems(u)' = HandItems(u)
    BY <1>1, <2>1, PoolKept DEF Counted
  <2> QED
    BY <1>1, <1>2, <2>2, TakenCounted
<1>4. CASE queue # <<>>
  <2>1. queue' = Tail(queue) /\ hand' = [hand EXCEPT ![s] = Begun(Head(queue), "begin")]
    BY <1>4 DEF Help
  <2>2. Pool' /\ Live' = Live /\ \A u \in Threads \ {s}: HandItems(u)' = HandItems(u)
    BY <1>1, <1>2, <1>4, <2>1, PoolTaken DEF Counted
  <2> QED
    BY <1>1, <1>2, <2>2, TakenCounted
<1> QED
  BY <1>3, <1>4

\* Another thread takes one item, or all.
LEMMA ProcessCounted ==
    ASSUME SearchAssumption, Counted, NEW w \in Workers, ProcessNext(w) \/ ProcessAll(w)
    PROVE  Counted'
<1>1. /\ w \in Threads /\ w \notin Searches /\ hand[w] = Free /\ queue # <<>>
      /\ asks' = asks /\ call' = call
      /\ hand' = [hand EXCEPT ![w] = Begun(Head(queue), "begin")]
      /\ \/ queue' = Tail(queue) /\ batch' = batch
         \/ queue' = <<>> /\ batch' = [batch EXCEPT ![w] = Tail(queue)]
  BY DEF SearchAssumption, ProcessNext, ProcessAll, Threads
<1>2. Pool' /\ Live' = Live /\ \A u \in Threads \ {w}: HandItems(u)' = HandItems(u)
  BY <1>1, PoolTaken DEF Counted
<1> QED
  BY <1>1, <1>2, TakenCounted

\* An item of the queue is done: its call waits for one less.
LEMMA EndItemCounted ==
    ASSUME SearchAssumption, Counted, NEW t \in Threads, EndItem(t)
    PROVE  Counted'
<1>1. hand[t] # Free /\ Held(hand[t])
  <2>1. hand[t].at = "end" /\ Free.at = "free"
    BY DEF EndItem, Free, Begun
  <2> QED
    BY <2>1 DEF Counted, Pool, Places
<1>1n. PICK u \in Searches, c \in Nat: u = hand[t].of /\ c = hand[t].chunk
  BY <1>1 DEF Held
<1>2. /\ u \in Searches /\ c \in Nat /\ ~Direct(u) /\ UNCHANGED <<asks, queue>>
      /\ call' = [call EXCEPT ![u].left = @ - 1]
  BY <1>1n DEF EndItem
<1>3. /\ Pool' /\ Live' = Live \ {Item(u, c)} /\ Item(u, c) \in Live
      /\ t \in Searches => HandItems(t)' = {}
      /\ \A v \in Threads \ {t}: HandItems(v)' = HandItems(v)
  BY <1>1, <1>1n, PoolEnded DEF EndItem, Counted, HandItem
<1>4. /\ LiveOf(u)' = LiveOf(u) \ {c} /\ c \in LiveOf(u)
      /\ \A v \in Searches \ {u}: LiveOf(v)' = LiveOf(v)
  BY <1>2, <1>3, LiveLess DEF LiveOf
<1>5. /\ call = [v \in Searches |-> call[v]] /\ \A v \in Searches: Busy(v)
      /\ \A v \in Searches: DOMAIN call[v] = CallFields
  BY DEF Counted, Records
<1>6. /\ call' = [v \in Searches |-> call'[v]]
      /\ \A v \in Searches: /\ DOMAIN call'[v] = CallFields /\ call'[v].phase = call[v].phase
                            /\ call'[v].next = call[v].next /\ call'[v].q = call[v].q
                            /\ call'[v].files = call[v].files /\ Chunks(v)' = Chunks(v)
      /\ call'[u].left = call[u].left - 1
      /\ \A v \in Searches \ {u}: call'[v].left = call[v].left
  BY <1>2, <1>5 DEF CallFields, Chunks
<1>7. call[u].phase \in {"enqueue", "drain", "help"}
  BY <1>2, <1>4, <1>5 DEF Busy, Direct, Phases
<1>8. HandItems(u)' = HandItems(u) \/ HandItems(u)' = {}
  BY <1>2, <1>3 DEF Threads
<1>9. Busy(u)'
  <2>1. CASE call[u].phase = "enqueue"
    <3> DEFINE all == LiveOf(u) \cup call[u].next..Chunks(u)
    <3>1. /\ Chunks(u) \in Nat /\ call[u].next \in 1..Chunks(u)
          /\ LiveOf(u) \subseteq 1..call[u].next - 1 /\ HandItems(u) = {}
          /\ call[u].left = Cardinality(all)
      BY <1>2, <1>5, <2>1 DEF Busy
    <3>2. c \in all /\ IsFiniteSet(all)
      <4>1. IsFiniteSet(1..Chunks(u))
        BY <3>1, FS_Interval
      <4>2. all \subseteq 1..Chunks(u)
        BY <3>1
      <4>3. c \in all
        BY <1>4
      <4> HIDE DEF all
      <4> QED
        BY <4>1, <4>2, <4>3, FS_Subset
    <3>3. LiveOf(u)' \cup call'[u].next..Chunks(u)' = all \ {c}
      BY <1>2, <1>4, <1>6, <3>1
    <3> HIDE DEF all
    <3>4. Cardinality(all \ {c}) = Cardinality(all) - 1
      BY <3>2, FS_RemoveElement
    <3>5. call'[u].left = Cardinality(LiveOf(u)' \cup call'[u].next..Chunks(u)')
      BY <1>6, <3>1, <3>3, <3>4
    <3>6. LiveOf(u)' \subseteq 1..call'[u].next - 1 /\ HandItems(u)' = {}
      BY <1>2, <1>4, <1>6, <1>8, <3>1
    <3> QED
      BY <1>2, <1>6, <2>1, <3>1, <3>5, <3>6 DEF Busy, Direct, Phases
  <2>2. CASE call[u].phase \in {"drain", "help"}
    <3>1. /\ Chunks(u) \in Nat /\ LiveOf(u) \subseteq 1..Chunks(u)
          /\ call[u].left = Cardinality(LiveOf(u))
          /\ call[u].phase = "help" => HandItems(u) = {}
      BY <1>2, <1>5, <2>2 DEF Busy
    <3>2. IsFiniteSet(LiveOf(u))
      <4>1. IsFiniteSet(1..Chunks(u))
        BY <3>1, FS_Interval
      <4> QED
        BY <3>1, <4>1, FS_Subset
    <3>3. Cardinality(LiveOf(u) \ {c}) = Cardinality(LiveOf(u)) - 1
      BY <1>4, <3>2, FS_RemoveElement
    <3>4. call'[u].left = Cardinality(LiveOf(u)') /\ LiveOf(u)' \subseteq 1..Chunks(u)
      BY <1>4, <1>6, <3>1, <3>3
    <3> QED
      BY <1>2, <1>6, <1>8, <2>2, <3>1, <3>4 DEF Busy, Direct, Phases
  <2> QED
    BY <1>7, <2>1, <2>2
<1>10. ASSUME NEW v \in Searches \ {u}
       PROVE  Busy(v)'
  <2>1. CASE v # t
    BY <1>3, <1>4, <1>5, <1>6, <2>1, SameBusy DEF Threads
  <2>2. CASE v = t
    <3>1. HandItems(v)' = {} /\ LiveOf(v)' = LiveOf(v) /\ Busy(v)
      BY <1>3, <1>4, <1>5, <2>2
    <3>2. ~Direct(v)
      <4>1. HandItems(t) = {Item(u, c)}
        BY <1>1, <1>1n DEF HandItems, HandItem
      <4>2. Item(u, c).of # v
        BY DEF Item
      <4> QED
        BY <2>2, <3>1, <4>1, <4>2 DEF Busy
    <3> QED
      BY <1>6, <3>1, <3>2 DEF Busy, Direct
  <2> QED
    BY <2>1, <2>2
<1> QED
  BY <1>2, <1>3, <1>6, <1>9, <1>10 DEF Counted, Records

\* A chunk of the calling thread is done: it goes on with the next, or the call returns.
LEMMA EndChunkCounted ==
    ASSUME SearchAssumption, Counted, NEW s \in Searches, EndChunk(s)
    PROVE  Counted'
<1> DEFINE u == hand[s].of
           c == hand[s].chunk
<1>1. hand[s] # Free /\ Held(hand[s]) /\ s \in Threads
  <2>1. hand[s].at = "end" /\ Free.at = "free"
    BY DEF EndChunk, Free, Begun
  <2> QED
    BY <2>1 DEF Counted, Pool, Places, Threads
<1>2. /\ u \in Searches /\ c \in Nat /\ Direct(u) /\ UNCHANGED <<asks, queue, batch>>
      /\ hand' = [hand EXCEPT ![s] = Free]
  BY <1>1 DEF EndChunk, Held
<1>3. HandItems(s) = {Item(u, c)} /\ Item(u, c) \in Live
  BY <1>1 DEF HandItems, HandItem, Live, Mine
<1>4. batch[s] = <<>> /\ batch \in [Threads -> Seq(Items)]
  BY DEF Counted, Pool, Places
<1>5. /\ Pool' /\ Live' = Live \ {Item(u, c)} /\ HandItems(s)' = {}
      /\ \A v \in Threads \ {s}: HandItems(v)' = HandItems(v)
  <2>1. /\ hand' = [hand EXCEPT ![s] = IF batch[s] = <<>> THEN Free
                                       ELSE Begun(Head(batch[s]), "begin")]
        /\ batch' = [batch EXCEPT ![s] = IF @ = <<>> THEN @ ELSE Tail(@)]
    BY <1>2, <1>4
  <2> QED
    BY <1>1, <1>2, <2>1, PoolEnded DEF Counted, HandItem
<1> HIDE DEF u, c
<1>6. u = s
  <2>1. c \in LiveOf(u)
    BY <1>2, <1>3 DEF LiveOf
  <2>2. HandItems(u) = {Item(u, c)}
    BY <1>2, <2>1 DEF Counted, Busy
  <2>3. u # s => Mine(u) \cap Mine(s) = {}
    BY <1>2 DEF Counted, Pool, Once, Threads
  <2> QED
    BY <1>3, <2>2, <2>3 DEF Mine
<1>7. LiveOf(s)' = {} /\ \A v \in Searches \ {s}: LiveOf(v)' = LiveOf(v)
  <2>1. \A b \in LiveOf(s): HandItems(s) = {Item(s, b)}
    BY <1>2, <1>6 DEF Counted, Busy
  <2>2. \A b \in LiveOf(s): b = c
    BY <1>3, <1>6, <2>1 DEF Item
  <2>3. /\ LiveOf(s)' = LiveOf(s) \ {c}
        /\ \A v \in Searches \ {s}: LiveOf(v)' = LiveOf(v)
    BY <1>2, <1>5, <1>6, LiveLess
  <2> QED
    BY <2>2, <2>3
<1>8. /\ DOMAIN call[s] = CallFields /\ call = [v \in Searches |-> call[v]] /\ Busy(s)
      /\ \A v \in Searches: Busy(v)
  BY DEF Counted, Records
<1>9. /\ \A v \in Searches \ {s}: call'[v] = call[v]
      /\ call' = [v \in Searches |-> call'[v]] /\ DOMAIN call'[s] = CallFields
      /\ \/ call'[s].phase = "done"
         \/ call'[s].phase = call[s].phase /\ call'[s].next = call[s].next + 1
  <2>1. \/ call' = [call EXCEPT ![s].phase = "done"]
        \/ call' = [call EXCEPT ![s].next = @ + 1]
    BY DEF EndChunk, Return
  <2>2. CASE call' = [call EXCEPT ![s].phase = "done"]
    BY <1>8, <2>2 DEF CallFields
  <2>3. CASE call' = [call EXCEPT ![s].next = @ + 1]
    BY <1>8, <2>3 DEF CallFields
  <2> QED
    BY <2>1, <2>2, <2>3
<1>10. Busy(s)'
  <2>1. CASE call'[s].phase = "done"
    BY <1>5, <1>7, <2>1 DEF Busy, Direct, Phases
  <2>2. CASE call'[s].phase = call[s].phase /\ call'[s].next = call[s].next + 1
    <3>1. call[s].phase \in {"inline", "sweep", "rg"}
      BY <1>2, <1>6 DEF Direct
    <3>2. call[s].next \in Nat \ {0}
      BY <1>2, <1>6, <1>8 DEF Busy
    <3>3. call'[s].next \in Nat \ {0}
      BY <2>2, <3>2
    <3> QED
      BY <1>5, <1>7, <2>2, <3>1, <3>3 DEF Busy, Direct, Phases
  <2> QED
    BY <1>9, <2>1, <2>2
<1>11. \A v \in Searches \ {s}: Busy(v)'
  BY <1>5, <1>7, <1>8, <1>9, SameBusy DEF Threads
<1> QED
  BY <1>2, <1>5, <1>8, <1>9, <1>10, <1>11 DEF Counted, Records

\* Steps that touch neither calls nor items.
LEMMA RestCounted ==
    ASSUME Counted, UNCHANGED <<asks, queue, call, hand, batch>>
    PROVE  Counted'
<1>1. hand' = [t \in Threads |-> hand'[t]]
  BY DEF Counted, Pool, Places
<1>2. Pool' /\ Live' = Live /\ \A t \in Threads: HandItems(t)' = HandItems(t)
  BY <1>1, PoolKept DEF Counted
<1>3. \A s \in Searches: Busy(s)'
  BY <1>2, LiveSame, SameBusy DEF Counted, Threads
<1> QED
  BY <1>2, <1>3 DEF Counted, Records

-----------------------------------------------------------------------------
\* What a call waits for is the number of its items, wherever they are: in the queue, in the
\* batch of a thread or in hand; and a call that scans by itself has no other item.  (The
\* counter `remaining` of SearchStreaming.)
THEOREM ItemsAreCounted == Spec => []Counted
<1>1. SearchAssumption /\ WalksEnd
  BY SearchAssumption, WalksEnd
<1>2. Init => Counted
  BY <1>1, InitCounted
<1>3. ASSUME Counted, [Next]_vars
      PROVE  Counted'
  <2>1. ASSUME NEW s \in Searches, SearchContent(s) \/ SearchNodes(s) \/ CallStep(s)
        PROVE  Counted'
    BY <1>1, <1>3, <2>1, ContentCounted, NodesCounted, ChunkCounted, RgCounted, EnqueueCounted,
       PollCounted, HelpCounted, EndChunkCounted DEF CallStep
  <2>2. ASSUME NEW t \in Threads, ItemStep(t)
        PROVE  Counted'
    BY <1>1, <1>3, <2>2, ItemGoesOn, EndItemCounted DEF ItemStep
  <2>3. ASSUME NEW w \in Workers, ProcessNext(w) \/ ProcessAll(w)
        PROVE  Counted'
    BY <1>1, <1>3, <2>3, ProcessCounted
  <2>4. CASE (\E s \in Searches: Cancel(s)) \/ Shutdown \/ UNCHANGED vars
    BY <1>3, <2>4, RestCounted DEF Cancel, Shutdown, vars
  <2> QED
    BY <1>3, <2>1, <2>2, <2>3, <2>4 DEF Next
<1> QED
  BY <1>2, <1>3, PTL DEF Spec

\* The property of ContentSearch: no item that refers to a call is run, queued or taken by a
\* thread when the call has returned, whoever ran its items, and whether it was cancelled, the
\* queue shut down or an item threw.
THEOREM CallsKeepTheirItems == Spec => []NothingOutlivesItsCall
<1>1. ASSUME Counted
      PROVE  NothingOutlivesItsCall
  <2> SUFFICES ASSUME NEW s \in Searches, call[s].phase = "done"
               PROVE  /\ \A t \in Threads: ~Refers(t, s)
                      /\ \A i \in DOMAIN queue: queue[i].of # s
    BY DEF NothingOutlivesItsCall
  <2>1. LiveOf(s) = {}
    BY <1>1 DEF Counted, Busy
  <2>2. ASSUME NEW i \in Items, i \in Live
        PROVE  i.of # s
    <3>1. i.of = s => i = Item(s, i.chunk) /\ i.chunk \in Nat
      BY DEF Items, Item
    <3> QED
      BY <2>1, <2>2, <3>1 DEF LiveOf
  <2>3. \A i \in DOMAIN queue: queue[i] \in Items /\ queue[i] \in Live
    BY <1>1 DEF Counted, Pool, Places, Live, ToSet
  <2>4. ASSUME NEW t \in Threads, Refers(t, s)
        PROVE  FALSE
    <3>1. CASE hand[t].of = s
      <4>1. hand[t] # Free
        <5>1. Free.of = None
          BY DEF Free, Begun, Item
        <5> QED
          BY <3>1, <5>1, SearchAssumption DEF SearchAssumption
      <4>2. Held(hand[t]) /\ HandItem(t) \in Live
        BY <1>1, <4>1 DEF Counted, Pool, Places, Live, Mine, HandItems
      <4>3. HandItem(t) \in Items /\ HandItem(t).of = s
        BY <3>1, <4>2 DEF HandItem, Item, Items, Held
      <4> QED
        BY <2>2, <4>2, <4>3
    <3>2. ASSUME NEW i \in DOMAIN batch[t], batch[t][i].of = s
          PROVE  FALSE
      <4>1. batch[t][i] \in Items /\ batch[t][i] \in Live
        BY <1>1 DEF Counted, Pool, Places, Live, Mine, ToSet
      <4> QED
        BY <2>2, <3>2, <4>1
    <3> QED
      BY <2>4, <3>1, <3>2 DEF Refers
  <2> QED
    BY <2>2, <2>3, <2>4
<1> QED
  BY <1>1, ItemsAreCounted, PTL

==============================================================================
