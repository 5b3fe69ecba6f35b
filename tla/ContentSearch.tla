---------------------------- MODULE ContentSearch ----------------------------
(***************************************************************************)
(* Searching the text of notes on several threads.                         *)
(*                                                                         *)
(* A call to vxcore_search_content_streaming, or to _ex, which collects    *)
(* the batches of the same scan into one answer, cuts the files in scope   *)
(* into chunks and puts an item for each into the queue "vxcore.search".   *)
(* The queue is shared by all calls.  Threads of the consumer take items   *)
(* from it, one or all at a time, and the calling thread helps: it runs    *)
(* items, its own or those of another call, until its own are done.  An    *)
(* item reads the locals of its call by reference.                         *)
(*                                                                         *)
(* The consumer may cancel a call from another thread, and the queue may   *)
(* be shut down.  The files in scope and the matches in a file are those   *)
(* of SearchScope; they do not change while the searches run.              *)
(***************************************************************************)
EXTENDS SearchScope

CONSTANTS
    Searches,   \* calls of the consumer, each on a thread of its own
    Workers,    \* other threads of the consumer that process the queue
    Asks,       \* each gives the queries that each call may make
    DefaultChunkSize, None

Contents == {"blob", "stream"}    \* kinds of query that search in the text

ASSUME SearchAssumption ==
    /\ Searches \cap Workers = {} /\ DefaultChunkSize \in Nat \ {0}
    /\ \A a \in Asks, s \in Searches: \A q \in a[s]:
        /\ q.kind \in Contents \cup {"files", "tags"} /\ q.pattern \in {"text", "empty", "bad"}
        /\ q.batch \in Nat /\ q.max \in Nat \ {0} /\ ~(q.rg /\ q.excludes)
    /\ None \notin Searches

\* No folder is below itself: a walk collects a list of nodes.
ASSUME WalksEnd ==
    \A a \in Asks, s \in Searches: \A q \in a[s]: FetchFilesToSearch(q, FALSE) \in Seq(DOMAIN Card)

VARIABLES
    asks,    \* the queries of the calls, one of Asks
    queue,   \* the items waiting in the queue
    open,    \* ~shutdown_
    flag,    \* flag[s]: call s was cancelled
    call,    \* call[s]: the locals of a call that items and the calling thread share
    hand,    \* hand[t]: the item thread t runs, Free if none
    batch,   \* batch[t]: the items ProcessAll took for thread t and that it has not begun
    heard,   \* heard[s]: the batches given to the callback of a streaming call
    answer   \* answer[s]: what the call returned

vars == <<asks, queue, open, flag, call, hand, batch, heard, answer>>

Threads == Searches \cup Workers

-----------------------------------------------------------------------------
(***************************************************************************)
(* Chunks and items                                                        *)
(***************************************************************************)
Size(q) == IF q.kind = "blob" \/ q.batch = 0 THEN DefaultChunkSize ELSE q.batch
Total(files, q) == (Len(files) + Size(q) - 1) \div Size(q)
Chunk(s, b) == LET last == b * Size(call[s].q)
               IN  SubSeq(call[s].files, last - Size(call[s].q) + 1,
                          IF last < Len(call[s].files) THEN last ELSE Len(call[s].files))

Item(s, b) == [of |-> s, chunk |-> b]
Begun(item, at) == [of |-> item.of, chunk |-> item.chunk, at |-> at, next |-> 1, found |-> <<>>]
Free == Begun(Item(None, 0), "free")

\* A call whose locals no item refers to: it scans its chunks itself.
Direct(s) == call[s].phase \in {"inline", "sweep", "rg"}

Init ==
    /\ asks \in Asks
    /\ queue = <<>> /\ open = TRUE
    /\ flag = [s \in Searches |-> FALSE]
    /\ call = [s \in Searches |-> [phase |-> "idle", q |-> None, files |-> <<>>, next |-> 1, left |-> 0,
                                   thrown |-> FALSE, chunks |-> <<>>, missed |-> {}]]
    /\ hand = [t \in Threads |-> Free]
    /\ batch = [t \in Threads |-> <<>>]
    /\ heard = [s \in Searches |-> <<>>]
    /\ answer = [s \in Searches |-> None]

-----------------------------------------------------------------------------
(***************************************************************************)
(* How a call ends                                                         *)
(***************************************************************************)
Answer(code, found, truncated) == [code |-> code, found |-> found, truncated |-> truncated]
Nothing(code) == Answer(code, <<>>, FALSE)

Return(s, a) ==
    /\ call' = [call EXCEPT ![s].phase = "done"]
    /\ answer' = [answer EXCEPT ![s] = a]

\* What SearchContent and SearchContentStreaming make of an error of the backend: the one answers as
\* if nothing had been found.
Failed(q, error) == Nothing(IF q.kind = "blob" THEN "OK" ELSE error)

\* SearchContent: the answer is written as JSON.
Encoded(cut) == IF Encodable(cut.found) THEN Answer("OK", cut.found, cut.truncated) ELSE Nothing("JSON_PARSE")

\* The end of SearchStreaming and of its callers.  The first exception of an item is thrown again; a
\* call that was cancelled says so; an answer is put together in the order of the chunks.
Outcome(s) ==
    IF call[s].thrown THEN Nothing("JSON_PARSE")
    ELSE IF flag[s] THEN Nothing("CANCELLED")
    ELSE IF call[s].q.kind = "stream" THEN Nothing("OK")
    ELSE Encoded(CutAt(FlattenSeq(call[s].chunks), call[s].q.max))

(***************************************************************************)
(* How a call begins                                                       *)
(***************************************************************************)
\* What becomes of a call before its first chunk: it ends, or how it goes on and in how many chunks.
Ended(a) == [phase |-> "done", chunks |-> 0, answer |-> a]
GoesOn(phase, n) == [phase |-> phase, chunks |-> n, answer |-> None]
Start(s, q, files) ==
    IF flag[s] THEN Ended(Nothing("CANCELLED"))
    ELSE IF files = <<>> THEN Ended(Nothing("OK"))
    ELSE IF q.rg THEN GoesOn("rg", 1)
    ELSE IF q.pattern = "empty" THEN GoesOn("sweep", Total(files, q))
    ELSE IF q.pattern = "bad" THEN Ended(Failed(q, "INVALID_PARAM"))
    ELSE GoesOn(IF Total(files, q) = 1 THEN "inline" ELSE "enqueue", Total(files, q))

\* vxcore_search_content(_ex) and vxcore_search_content_streaming.
SearchContent(s) ==
    \E q \in {a \in asks[s]: a.kind \in Contents}: \E files \in {FetchFilesToSearch(q, FALSE)}:
      \E start \in {Start(s, q, files)}:
        /\ call[s].phase = "idle"
        /\ call' = [call EXCEPT ![s] = [@ EXCEPT !.phase = start.phase, !.q = q, !.files = files,
                                        !.left = start.chunks, !.chunks = [b \in 1 .. start.chunks |-> <<>>]]]
        /\ answer' = [answer EXCEPT ![s] = start.answer]
        /\ UNCHANGED <<asks, queue, open, flag, hand, batch, heard>>

\* vxcore_search_files and vxcore_search_by_tags.
SearchNodes(s) ==
    \E q \in {a \in asks[s]: a.kind \notin Contents}:
        /\ call[s].phase = "idle"
        /\ call' = [call EXCEPT ![s] = [@ EXCEPT !.phase = "done", !.q = q]]
        /\ \E r \in {IF q.kind = "files" THEN SearchFiles(q) ELSE SearchByTags(q)}:
               answer' = [answer EXCEPT ![s] = Answer("OK", r.found, r.truncated)]
        /\ UNCHANGED <<asks, queue, open, flag, hand, batch, heard>>

\* SimpleSearchBackend::SearchStreaming without the queue: the next chunk, on the calling thread.
NextChunk(s) ==
    /\ call[s].phase \in {"inline", "sweep"} /\ hand[s] = Free
    /\ IF flag[s] THEN Return(s, Nothing("CANCELLED")) /\ UNCHANGED hand
       ELSE /\ hand' = [hand EXCEPT ![s] = Begun(Item(s, call[s].next),
                                                IF call[s].phase = "inline" THEN "scan" ELSE "emit")]
            /\ UNCHANGED <<call, answer>>
    /\ UNCHANGED <<asks, queue, open, flag, batch, heard>>

\* RgSearchBackend: one run of an external program, which reports the files in any order.  A pattern it
\* does not understand, or a program that does not start, is an error.
RgSearch(s) ==
    /\ call[s].phase = "rg" /\ hand[s] = Free
    /\ \/ /\ call' = [call EXCEPT ![s] = [@ EXCEPT !.phase = "done", !.missed = {1}]]
          /\ answer' = [answer EXCEPT ![s] = Failed(call[s].q, "IO")]
          /\ UNCHANGED hand
       \/ LET q == call[s].q
              max == IF q.kind = "blob" THEN q.max ELSE 0
              matched == {n \in Range(call[s].files): RgMatches(n, q, max) # <<>>}
          IN  /\ q.pattern # "bad"
              /\ \E order \in SetToSeqs(matched):
                 \E found \in {[i \in DOMAIN order |-> Found(order[i], RgMatches(order[i], q, max))]}:
                    IF q.kind = "blob"
                    THEN /\ \E cut \in {RgCutAt(found, max)}:
                                Return(s, IF flag[s] THEN Nothing("CANCELLED")
                                          ELSE Answer("OK", cut.found, cut.truncated))
                         /\ UNCHANGED hand
                    ELSE /\ hand' = [hand EXCEPT ![s] = [Begun(Item(s, 1), "emit") EXCEPT !.found = found]]
                         /\ UNCHANGED <<call, answer>>
    /\ UNCHANGED <<asks, queue, open, flag, batch, heard>>

(***************************************************************************)
(* The calling thread and the queue                                        *)
(***************************************************************************)
\* mutant: an item the queue refused is waited for
EnqueueStranded(s) ==
    /\ call[s].phase = "enqueue"
    /\ LET b == call[s].next
           missed == IF open THEN {} ELSE {b}
       IN  /\ queue' = IF open THEN Append(queue, Item(s, b)) ELSE queue
           /\ call' = [call EXCEPT
                  ![s].next = b + 1, ![s].missed = @ \cup missed,
                  ![s].phase = IF b = Total(call[s].files, call[s].q) THEN "drain" ELSE "enqueue"]
    /\ UNCHANGED <<asks, open, flag, hand, batch, heard, answer>>

\* SearchStreaming, the loop over the chunks.  The queue refuses an item when it is shut down; the
\* chunk is not scanned then.
Enqueue(s) ==
    /\ call[s].phase = "enqueue"
    /\ LET b == call[s].next
           missed == IF open THEN {} ELSE {b}
       IN  /\ queue' = IF open THEN Append(queue, Item(s, b)) ELSE queue
           /\ call' = [call EXCEPT
                  ![s].next = b + 1, ![s].left = @ - Cardinality(missed), ![s].missed = @ \cup missed,
                  ![s].phase = IF b = Total(call[s].files, call[s].q) THEN "drain" ELSE "enqueue"]
    /\ UNCHANGED <<asks, open, flag, hand, batch, heard, answer>>

\* mutant: the call is over when the queue is empty
PollQueue(s) ==
    /\ call[s].phase = "drain" /\ hand[s] = Free
    /\ IF queue # <<>> THEN call' = [call EXCEPT ![s].phase = "help"] /\ UNCHANGED answer
                           ELSE Return(s, Outcome(s))
    /\ UNCHANGED <<asks, queue, open, flag, hand, batch, heard>>

\* The loop that waits: the call is over when no item is left, else the thread looks into the queue.
Poll(s) ==
    /\ call[s].phase = "drain" /\ hand[s] = Free
    /\ IF call[s].left > 0 THEN call' = [call EXCEPT ![s].phase = "help"] /\ UNCHANGED answer
                           ELSE Return(s, Outcome(s))
    /\ UNCHANGED <<asks, queue, open, flag, hand, batch, heard>>

\* WorkQueue::ProcessNext with a timeout, from the waiting loop: an item of any call, or none in time.
Help(s) ==
    /\ call[s].phase = "help"
    /\ call' = [call EXCEPT ![s].phase = "drain"]
    /\ IF queue = <<>> THEN UNCHANGED <<asks, queue, hand>>
       ELSE queue' = Tail(queue) /\ hand' = [hand EXCEPT ![s] = Begun(Head(queue), "begin")]
    /\ UNCHANGED <<asks, open, flag, batch, heard, answer>>

\* vxcore_work_queue_process_next on another thread.
ProcessNext(w) ==
    /\ hand[w] = Free /\ queue # <<>>
    /\ queue' = Tail(queue)
    /\ hand' = [hand EXCEPT ![w] = Begun(Head(queue), "begin")]
    /\ UNCHANGED <<asks, open, flag, call, batch, heard, answer>>

\* vxcore_work_queue_process_all: the thread takes every item there is and runs one after the other.
ProcessAll(w) ==
    /\ hand[w] = Free /\ queue # <<>>
    /\ queue' = <<>>
    /\ hand' = [hand EXCEPT ![w] = Begun(Head(queue), "begin")]
    /\ batch' = [batch EXCEPT ![w] = Tail(queue)]
    /\ UNCHANGED <<asks, open, flag, call, heard, answer>>

-----------------------------------------------------------------------------
(***************************************************************************)
(* An item, on the thread that runs it                                     *)
(***************************************************************************)
Step(t, at) == hand' = [hand EXCEPT ![t].at = at]

\* The beginning of an item: a call that was cancelled is not scanned for.
Begin(t) ==
    /\ hand[t].at = "begin"
    /\ Step(t, IF flag[hand[t].of] THEN "end" ELSE "scan")
    /\ UNCHANGED <<asks, queue, open, flag, call, batch, heard, answer>>

\* ScanChunk, one file: it looks at the flag before each and leaves with what it has.
ScanFile(t) ==
    /\ hand[t].at = "scan"
    /\ LET s == hand[t].of
           chunk == Chunk(s, hand[t].chunk)
           n == chunk[hand[t].next]
       IN  IF flag[s] THEN Step(t, "emit")
           ELSE \E matches \in {Matches(n, call[s].q)}:
                    hand' = [hand EXCEPT ![t] = [@ EXCEPT
                        !.found = IF matches = <<>> THEN @ ELSE Append(@, Found(n, matches)),
                        !.next = @ + 1,
                        !.at = IF hand[t].next = Len(chunk) THEN "emit" ELSE "scan"]]
    /\ UNCHANGED <<asks, queue, open, flag, call, batch, heard, answer>>

\* mutant: a batch is handed out though the call was cancelled
EmitUnchecked(t) ==
    /\ hand[t].at = "emit"
    /\ LET s == hand[t].of
           found == hand[t].found
           broken == ~call[s].q.rg /\ ~Encodable(found)
       IN  IF call[s].q.kind = "blob"
           THEN Step(t, "end") /\ call' = [call EXCEPT ![s].chunks[hand[t].chunk] = found]
           ELSE IF broken THEN Step(t, "end") /\ call' = [call EXCEPT ![s].thrown = TRUE]
           ELSE Step(t, "hand out") /\ UNCHANGED call
    /\ UNCHANGED <<asks, queue, open, flag, batch, heard, answer>>

\* mutant: the files of the chunks are stored in the order they come
EmitInTurn(t) ==
    /\ hand[t].at = "emit"
    /\ LET s == hand[t].of
           found == hand[t].found
           broken == ~call[s].q.rg /\ ~Encodable(found)
       IN  IF call[s].q.kind = "blob"
           THEN Step(t, "end") /\ call' = [call EXCEPT ![s].chunks = SelectSeq(@, LAMBDA f: f # <<>>) \o <<found>>]
           ELSE IF flag[s] THEN Step(t, "end") /\ UNCHANGED call
           ELSE IF broken THEN Step(t, "end") /\ call' = [call EXCEPT ![s].thrown = TRUE]
           ELSE Step(t, "hand out") /\ UNCHANGED call
    /\ UNCHANGED <<asks, queue, open, flag, batch, heard, answer>>

\* The emit of SearchContentStreaming: nothing is handed out once the call was cancelled, and what
\* cannot be encoded throws.  That of Search stores the files of the chunk.
Emit(t) ==
    /\ hand[t].at = "emit"
    /\ LET s == hand[t].of
           found == hand[t].found
           broken == ~call[s].q.rg /\ ~Encodable(found)
       IN  IF call[s].q.kind = "blob"
           THEN Step(t, "end") /\ call' = [call EXCEPT ![s].chunks[hand[t].chunk] = found]
           ELSE IF flag[s] THEN Step(t, "end") /\ UNCHANGED call
           ELSE IF broken THEN Step(t, "end") /\ call' = [call EXCEPT ![s].thrown = TRUE]
           ELSE Step(t, "hand out") /\ UNCHANGED call
    /\ UNCHANGED <<asks, queue, open, flag, batch, heard, answer>>

\* The callback of the consumer.
HandOut(t) ==
    /\ hand[t].at = "hand out"
    /\ heard' = [heard EXCEPT ![hand[t].of] = Append(@, [chunk |-> hand[t].chunk, found |-> hand[t].found])]
    /\ Step(t, "end")
    /\ UNCHANGED <<asks, queue, open, flag, call, batch, answer>>

\* The end of an item in the queue: one less to wait for, however it ended.  The thread goes on with
\* the batch it took.
EndItem(t) ==
    /\ hand[t].at = "end" /\ ~Direct(hand[t].of)
    /\ call' = [call EXCEPT ![hand[t].of].left = @ - 1]
    /\ hand' = [hand EXCEPT ![t] = IF batch[t] = <<>> THEN Free ELSE Begun(Head(batch[t]), "begin")]
    /\ batch' = [batch EXCEPT ![t] = IF @ = <<>> THEN @ ELSE Tail(@)]
    /\ UNCHANGED <<asks, queue, open, flag, heard, answer>>

\* The end of a chunk the calling thread scans without the queue.
EndChunk(s) ==
    /\ hand[s].at = "end" /\ Direct(hand[s].of)
    /\ hand' = [hand EXCEPT ![s] = Free]
    /\ IF call[s].thrown \/ call[s].next = Len(call[s].chunks) THEN Return(s, Outcome(s))
       ELSE call' = [call EXCEPT ![s].next = @ + 1] /\ UNCHANGED answer
    /\ UNCHANGED <<asks, queue, open, flag, batch, heard>>

-----------------------------------------------------------------------------
\* The consumer sets the flag it passed to a call, if it passed one.
Cancel(s) ==
    /\ call[s].phase # "done" /\ ~flag[s] /\ \A q \in asks[s]: q.cancellable
    /\ flag' = [flag EXCEPT ![s] = TRUE]
    /\ UNCHANGED <<asks, queue, open, call, hand, batch, heard, answer>>

\* vxcore_work_queue_shutdown: what is queued is still processed.
Shutdown ==
    /\ open /\ open' = FALSE
    /\ UNCHANGED <<asks, queue, flag, call, hand, batch, heard, answer>>

ItemStep(t) == Begin(t) \/ ScanFile(t) \/ Emit(t) \/ HandOut(t) \/ EndItem(t)
CallStep(s) == NextChunk(s) \/ RgSearch(s) \/ Enqueue(s) \/ Poll(s) \/ Help(s) \/ EndChunk(s)

Next ==
    \/ \E s \in Searches: SearchContent(s) \/ SearchNodes(s) \/ CallStep(s) \/ Cancel(s)
    \/ \E t \in Threads: ItemStep(t)
    \/ \E w \in Workers: ProcessNext(w) \/ ProcessAll(w)
    \/ Shutdown

\* A call in progress and an item begun go on.  No thread but the calling ones has to look into the
\* queue.
Fairness == /\ \A s \in Searches: WF_vars(CallStep(s) \/ ItemStep(s))
            /\ \A w \in Workers: WF_vars(ItemStep(w))

Spec == Init /\ [][Next]_vars /\ Fairness

-----------------------------------------------------------------------------
(***************************************************************************)
(* Properties                                                              *)
(***************************************************************************)
Phases == {"idle", "sweep", "inline", "rg", "enqueue", "drain", "help", "done"}
Codes == {"OK", "CANCELLED", "JSON_PARSE", "INVALID_PARAM", "IO"}

\* Every variable has its type; a call waits for no more items than it has chunks.
TypeOK ==
    /\ queue \in Seq([of: Searches, chunk: Nat \ {0}]) /\ open \in BOOLEAN /\ flag \in [Searches -> BOOLEAN]
    /\ \A s \in Searches:
        /\ call[s].phase \in Phases /\ call[s].left \in 0 .. Len(call[s].chunks)
        /\ call[s].thrown \in BOOLEAN /\ call[s].missed \subseteq DOMAIN call[s].chunks
        /\ answer[s] = None \/ answer[s].code \in Codes
    /\ \A t \in Threads: hand[t] = Free \/ hand[t].at \in {"begin", "scan", "emit", "hand out", "end"}
    /\ \A t \in Searches: batch[t] = <<>>

Refers(t, s) == hand[t].of = s \/ \E i \in DOMAIN batch[t]: batch[t][i].of = s

\* An item refers to the locals of the call that made it: none is run, queued or held in the batch of
\* a thread when the call has returned (the captures of SearchStreaming's lambda).
NothingOutlivesItsCall ==
    \A s \in Searches: call[s].phase = "done" =>
        /\ \A t \in Threads: ~Refers(t, s)
        /\ \A i \in DOMAIN queue: queue[i].of # s

\* Every match in a sequence of files, and in the order the files were collected.
Pairs(found) == FlattenSeq([i \in DOMAIN found |-> [k \in DOMAIN found[i].matches |-> <<found[i].file, found[i].matches[k]>>]])
Reference(files, q) == Pairs([i \in DOMAIN files |-> Found(files[i], Matches(files[i], q))])

\* A batch given to the callback holds every match of its chunk, though a scan that sees the call
\* cancelled stops in the middle of one, and no chunk is given out twice (emit in
\* SearchContentStreaming).
BatchesAreWhole ==
    \A s \in Searches: call[s].q # None /\ ~call[s].q.rg /\ call[s].q.pattern = "text" =>
        \A i \in DOMAIN heard[s]:
            /\ Pairs(heard[s][i].found) = Reference(Chunk(s, heard[s][i].chunk), call[s].q)
            /\ \A j \in DOMAIN heard[s]: heard[s][i].chunk = heard[s][j].chunk => i = j

\* A call that ends well and had no chunk refused answers what one thread reading the files in order
\* would answer, cut at the number of results asked for, whoever ran its items and in which order; a
\* streaming call has given every chunk to the callback.
AnswersAreExact ==
    \A s \in Searches: call[s].phase = "done" /\ answer[s].code = "OK" /\ call[s].q.pattern = "text"
                       /\ call[s].missed = {} /\ call[s].q.kind \in Contents =>
        LET q == call[s].q
            all == Reference(call[s].files, q)
        IN  IF q.rg
            THEN q.kind = "blob" /\ ~answer[s].truncated =>
                    {p[1]: p \in Range(Pairs(answer[s].found))} = {p[1]: p \in Range(all)}
            ELSE IF q.kind = "blob"
            THEN /\ Pairs(answer[s].found) = UpTo(all, q.max)
                 /\ answer[s].truncated <=> Len(all) >= q.max
            ELSE {heard[s][i].chunk: i \in DOMAIN heard[s]} = 1 .. Total(call[s].files, q)

\* The folders the walk of a scope enters: those it begins in, and below.
Entered(q) ==
    LET start == IF q.files = <<>> /\ q.folders = <<>> THEN {q.scope.start} ELSE Range(q.folders)
        entered[f \in DOMAIN Folder] ==
            /\ f \notin q.scope.hidden
            /\ \/ f \in start
               \/ q.scope.recursive /\ \E g \in DOMAIN Folder: f \in Range(Folder[g].folders) /\ entered[g]
    IN  {f \in DOMAIN Folder: entered[f]}

InReach(n, q) ==
    \/ n \in Range(q.files) /\ ~IsFolder(n)
    \/ \E f \in Entered(q): n \notin q.scope.hidden /\
        \/ n \in Range(Folder[f].files) /\ n \in q.scope.shown
        \/ n \in Range(Folder[f].folders) /\ q.kind = "files"

Wanted(n, q) ==
    /\ InReach(n, q) /\ InScope(n, q.scope)
    /\ IF q.kind = "files"
       THEN (IF IsFolder(n) THEN q.withFolders ELSE q.withFiles) /\ (q.pattern = "empty" \/ n \in q.name \cup q.path)
       ELSE MatchesTags(Card[n].tags, q.tags, q.operator)

\* A search by name or by tags whose answer is not marked as truncated found every node asked for, and
\* what it found was asked for; more than the number asked for are never listed.
NodesAreFound ==
    \A s \in Searches: call[s].phase = "done" /\ call[s].q # None /\ call[s].q.kind \notin Contents =>
        LET found == Range(answer[s].found)
            wanted == {n \in DOMAIN Card: Wanted(n, call[s].q)}
        IN  /\ found \subseteq wanted /\ Len(answer[s].found) <= call[s].q.max
            /\ answer[s].truncated \/ found = wanted

\* Every call returns, whichever thread took its items and whether or not the queue was shut down, the
\* call cancelled or an item threw (RemainingGuard, and the items the queue refused).
EveryCallReturns == \A s \in Searches: (call[s].phase # "idle") ~> (call[s].phase = "done")
===============================================================================
