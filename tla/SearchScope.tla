------------------------------ MODULE SearchScope ------------------------------
(***************************************************************************)
(* What a search looks at and what it finds, without its threads: the      *)
(* files of a notebook that are in the scope of a query, the matches in    *)
(* the text of a file, the answers to a search for files by name or by     *)
(* tags, and how an answer is cut at the number of results asked for.      *)
(*                                                                         *)
(* The strings are abstracted to what is decided about them.  A query      *)
(* holds the sets of nodes its patterns match; a line of text is how often *)
(* the searched pattern occurs in it, whether an exclusion of the query    *)
(* matches it and whether it is valid UTF-8.                               *)
(***************************************************************************)
EXTENDS Integers, FiniteSets, SequencesExt

CONSTANTS
    Folder,    \* Folder[f].files and Folder[f].folders: the nodes listed in folder f, in order
    Card,      \* Card[n]: the tags and the two times recorded of a node
    Text,      \* Text[n]: the lines of a file, NoText when it cannot be opened
    NoText

ASSUME NotebookAssumption ==
    /\ \A f \in DOMAIN Folder: Range(Folder[f].files) \cup Range(Folder[f].folders) \subseteq DOMAIN Card
    /\ \A f \in DOMAIN Folder: Range(Folder[f].folders) \subseteq DOMAIN Folder
    /\ \A n \in DOMAIN Text \ DOMAIN Folder: Text[n] = NoText \/ Text[n] \in Seq([hits: Nat, excluded: BOOLEAN, utf8: BOOLEAN])

IsFolder(n) == n \in DOMAIN Folder
AllFiles == UNION {Range(Folder[f].files): f \in DOMAIN Folder}

(***************************************************************************)
(* The scope                                                               *)
(***************************************************************************)
\* SearchManager::CollectFilesInFolder: the files of a folder, then each subfolder and what it holds.
CollectFilesInFolder(start, scope, withFolders) ==
    LET below[f \in DOMAIN Folder] ==
            IF f \in scope.hidden THEN <<>>
            ELSE SelectSeq(Folder[f].files, LAMBDA n: n \notin scope.hidden /\ n \in scope.shown)
                 \o FlattenSeq([i \in DOMAIN Folder[f].folders |->
                        LET g == Folder[f].folders[i]
                        IN  IF g \in scope.hidden THEN <<>>
                            ELSE (IF withFolders THEN <<g>> ELSE <<>>)
                                 \o (IF scope.recursive THEN below[g] ELSE <<>>)])
    IN  IF start \in DOMAIN Folder THEN below[start] ELSE <<>>

\* SearchManager::GetAllFiles.  A file named by the consumer is taken whatever the patterns say.
GetAllFiles(q, withFolders) ==
    IF q.files = <<>> /\ q.folders = <<>> THEN CollectFilesInFolder(q.scope.start, q.scope, withFolders)
    ELSE SelectSeq(q.files, LAMBDA n: n \in AllFiles)
         \o FlattenSeq([i \in DOMAIN q.folders |-> CollectFilesInFolder(q.folders[i], q.scope, withFolders)])

MatchesTags(has, wanted, operator) ==
    wanted = {} \/ (IF operator = "AND" THEN wanted \subseteq has ELSE wanted \cap has # {})

\* The time an unknown field names is 0.
MatchesDate(n, scope) ==
    \/ scope.field = "none"
    \/ LET time == CASE scope.field = "created" -> Card[n].created
                     [] scope.field = "modified" -> Card[n].modified
                     [] OTHER -> 0
       IN  (scope.from > 0 => time >= scope.from) /\ (scope.to > 0 => time <= scope.to)

\* SearchManager::FilterFilesByTagsAndDate: the tags are asked of files only, the date of folders too.
InScope(n, scope) ==
    /\ IsFolder(n) \/ (/\ MatchesTags(Card[n].tags, scope.tags, scope.operator)
                       /\ Card[n].tags \cap scope.without = {})
    /\ MatchesDate(n, scope)

FetchFilesToSearch(q, withFolders) ==
    SelectSeq(GetAllFiles(q, withFolders), LAMBDA n: InScope(n, q.scope))

(***************************************************************************)
(* Search for files                                                        *)
(***************************************************************************)
UpTo(s, max) == SubSeq(s, 1, IF Len(s) < max THEN Len(s) ELSE max)

\* SearchManager::GetMatchedFilesByPattern.  The walk stops when max files match in either way;
\* those whose name matches come first.
GetMatchedFilesByPattern(nodes, q) ==
    LET asked == SelectSeq(nodes, LAMBDA n: IF IsFolder(n) THEN q.withFolders ELSE q.withFiles)
        found == UpTo(SelectSeq(asked, LAMBDA n: q.pattern = "empty" \/ n \in q.name \cup q.path), q.max)
        named(n) == n \in q.name
        other(n) == n \notin q.name
    IN  IF q.pattern = "empty" THEN found ELSE SelectSeq(found, named) \o SelectSeq(found, other)

\* SearchManager::GetMatchedFilesByTags.
GetMatchedFilesByTags(nodes, q) ==
    UpTo(SelectSeq(nodes, LAMBDA n: ~IsFolder(n) /\ MatchesTags(Card[n].tags, q.tags, q.operator)), q.max)

\* mutant: an answer of exactly as many as were asked for is not marked
FileResultsOver(found, max) == [found |-> found, truncated |-> Len(found) > max]

\* SearchManager::SerializeFileResults.
FileResults(found, max) == [found |-> found, truncated |-> Len(found) >= max]

\* SearchManager::SearchFiles and SearchByTags.
SearchFiles(q) == FileResults(GetMatchedFilesByPattern(FetchFilesToSearch(q, TRUE), q), q.max)
SearchByTags(q) == FileResults(GetMatchedFilesByTags(FetchFilesToSearch(q, FALSE), q), q.max)

(***************************************************************************)
(* Search in the text                                                      *)
(***************************************************************************)
\* The reading loop of ScanChunk, with DoPatternMatch and DoRegexMatch: the matches of a file, a line
\* and a number in the line each.
Matches(n, q) ==
    IF Text[n] = NoText THEN <<>>
    ELSE FlattenSeq([l \in DOMAIN Text[n] |->
            IF q.excludes /\ Text[n][l].excluded THEN <<>>
            ELSE [k \in 1 .. Text[n][l].hits |-> <<l, k>>]])

\* What ripgrep reports of a file, one match for every line that matches; an empty pattern matches
\* every line.  It is asked for no more than 2 * max lines of a file.
RgMatches(n, q, max) ==
    IF Text[n] = NoText THEN <<>>
    ELSE LET lines == SelectSeq([l \in DOMAIN Text[n] |-> l],
                                LAMBDA l: q.pattern = "empty" \/ Text[n][l].hits > 0)
         IN  LET all == [i \in DOMAIN lines |-> <<lines[i], 1>>]
             IN  IF max > 0 THEN UpTo(all, 2 * max) ELSE all

Found(n, matches) == [file |-> n, matches |-> matches]

\* EncodeMatchedFileJson and dump: a match in a line that is not UTF-8 cannot be written as JSON.
Encodable(found) == \A i \in DOMAIN found: \A k \in DOMAIN found[i].matches:
                        Text[found[i].file][found[i].matches[k][1]].utf8

MatchesIn(found) == FoldLeft(LAMBDA total, f: total + Len(f.matches), 0, found)

\* The end of SimpleSearchBackend::Search: the answer ends with the match that reaches max.
CutAt(found, max) ==
    LET before(i) == MatchesIn(SubSeq(found, 1, i - 1))
        full == {i \in DOMAIN found: max > 0 /\ before(i) + Len(found[i].matches) >= max}
    IN  IF full = {} THEN [found |-> found, truncated |-> FALSE]
        ELSE LET i == CHOOSE j \in full: \A k \in full: j <= k
             IN  [found |-> Append(SubSeq(found, 1, i - 1),
                                   Found(found[i].file, UpTo(found[i].matches, max - before(i)))),
                  truncated |-> TRUE]

\* The end of RgSearchBackend::Search: only matches that were left out count as truncation.
RgCutAt(found, max) ==
    LET cut == CutAt(found, max)
    IN  IF max > 0 THEN [cut EXCEPT !.truncated = MatchesIn(found) > max] ELSE cut
===============================================================================
