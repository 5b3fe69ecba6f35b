--------------------------- MODULE MCContentSearch ---------------------------
(***************************************************************************)
(* Two calls and one other thread over a notebook of four files in three   *)
(* folders.                                                                *)
(***************************************************************************)
EXTENDS ContentSearch

CONSTANTS root, sub, deep, n1, n2, n3, n4, s1, s2, w1, no_text

MCFolder == root :> [files |-> <<n1, n2>>, folders |-> <<sub>>]
            @@ sub :> [files |-> <<n3>>, folders |-> <<deep>>]
            @@ deep :> [files |-> <<n4>>, folders |-> <<>>]

Line(hits, excluded, utf8) == [hits |-> hits, excluded |-> excluded, utf8 |-> utf8]
MCText == n1 :> <<Line(2, FALSE, TRUE), Line(1, TRUE, TRUE)>>
          @@ n2 :> <<Line(0, FALSE, TRUE)>>
          @@ n3 :> <<Line(1, FALSE, TRUE)>>
          @@ n4 :> <<Line(1, FALSE, FALSE)>>

MCCard == [n \in {root, sub, deep, n1, n2, n3, n4} |->
              [tags |-> CASE n = n1 -> {"a"} [] n = n3 -> {"a", "b"} [] n = n4 -> {"b"} [] OTHER -> {},
               created |-> IF n \in {n1, sub} THEN 1 ELSE 3,
               modified |-> IF n = n3 THEN 4 ELSE 3]]

AllNodes == {root, sub, deep, n1, n2, n3, n4}
Everything == [start |-> root, recursive |-> TRUE, hidden |-> {}, shown |-> AllNodes, tags |-> {},
               operator |-> "AND", without |-> {}, field |-> "none", from |-> 0, to |-> 0]
Plain == [kind |-> "stream", rg |-> FALSE, pattern |-> "text", max |-> 3, batch |-> 1, excludes |-> FALSE, cancellable |-> TRUE,
          scope |-> Everything, files |-> <<>>, folders |-> <<>>, name |-> {n2, n4}, path |-> {n3, n4, deep},
          withFiles |-> TRUE, withFolders |-> TRUE, tags |-> {"a", "b"}, operator |-> "OR"]

NotDeep == [Everything EXCEPT !.hidden = {deep}]

\* Calls that put two items into the queue, and three.
Stream == [Plain EXCEPT !.files = <<n1, n3>>]
Blob == [Plain EXCEPT !.kind = "blob", !.files = <<n1, n3>>, !.max = 2, !.cancellable = FALSE]
Longer == {[Plain EXCEPT !.kind = "blob", !.scope = NotDeep, !.max = 2, !.excludes = TRUE],
           [Plain EXCEPT !.batch = 2], [Plain EXCEPT !.files = <<n3, n4>>]}

\* Calls that search the text without the queue.
Alone ==
    {[Plain EXCEPT !.files = <<n4, n3>>, !.batch = 2],
     [Plain EXCEPT !.kind = "blob", !.files = <<n2, n3>>],
     [Plain EXCEPT !.kind = "blob", !.files = <<n4>>],
     [Plain EXCEPT !.files = <<n4, n2>>, !.pattern = "empty"],
     [Plain EXCEPT !.pattern = "bad"],
     [Plain EXCEPT !.kind = "blob", !.scope.tags = {"a", "b"}],
     [Plain EXCEPT !.kind = "blob", !.scope.tags = {"c"}]}
    \cup {[Plain EXCEPT !.rg = TRUE, !.kind = k, !.max = m]: k \in Contents, m \in {1, 2, 4}}

\* Searches for files and folders.
Named ==
    {[Plain EXCEPT !.kind = "files", !.pattern = p, !.max = m, !.scope = [Everything EXCEPT
         !.recursive = r, !.hidden = h, !.field = d, !.to = 3]]:
           p \in {"text", "empty"}, m \in {1, 2, 7}, r \in BOOLEAN, h \in {{}, {sub}, {n2}},
           d \in {"none", "created", "modified"}}
Tagged ==
    {[Plain EXCEPT !.kind = "tags", !.operator = o, !.max = m, !.folders = f, !.scope.without = w]:
           o \in {"AND", "OR"}, m \in {1, 2, 7}, f \in {<<>>, <<sub>>}, w \in {{}, {"b"}}}

MCAsks == {s1 :> {[Stream EXCEPT !.cancellable = FALSE]} @@ s2 :> {Blob},
           s1 :> Longer @@ s2 :> {},
           s1 :> Alone \cup Named \cup Tagged @@ s2 :> {}}
===============================================================================
