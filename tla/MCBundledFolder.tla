--------------------------- MODULE MCBundledFolder ---------------------------
(* Instances of BundledFolder for TLC *)
EXTENDS BundledFolder

CONSTANTS a, b, z, x, y, root

TwoNames == {a, b}
ThreeNames == {a, b, z}
OneFile == {x}
TwoFiles == {x, y}

\* A folder with a subfolder; a note in each, and one in the root folder.
SmallFolders == {Root, <<a>>, <<a, b>>}
SmallNotes == {<<x>>, <<a, x>>, <<a, b, x>>}
SmallIds == (Root :> 1) @@ (<<a>> :> 2) @@ (<<a, b>> :> 3)
                @@ (<<x>> :> 4) @@ (<<a, x>> :> 5) @@ (<<a, b, x>> :> 6)

\* Two folders side by side, and a note in one of them.
FlatFolders == {Root, <<a>>, <<b>>}
FlatNotes == {<<a, x>>}
FlatIds == (Root :> 1) @@ (<<a>> :> 2) @@ (<<b>> :> 3) @@ (<<a, x>> :> 4)

\* One folder, and a note in it.
OneFolder == {Root, <<a>>}
OneNote == {<<a, x>>}
OneIds == (Root :> 1) @@ (<<a>> :> 2) @@ (<<a, x>> :> 3)

\* Two folders side by side, and a subfolder in one of them.
TwoLevelFolders == {Root, <<a>>, <<b>>, <<a, a>>}
TwoLevelIds == (Root :> 1) @@ (<<a>> :> 2) @@ (<<b>> :> 3) @@ (<<a, a>> :> 4)
NoNotes == {}

Old == {"old"}
OldOrTorn == {"old", "torn"}
NoNestedCalls == {}
NestedMove == {"move"}
NestedRename == {"rename"}
NestedImport == {"import"}
==============================================================================
