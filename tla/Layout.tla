------------------------------- MODULE Layout -------------------------------
(***************************************************************************)
(* The tree of panes in the window, as a function from the paths of its    *)
(* leaves (0 is the first half of a split, 1 the second) to pane ids.      *)
(* Axes and ratios only say where a pane is on the screen.                 *)
(***************************************************************************)
EXTENDS Naturals, Sequences, FiniteSets, SequencesExt

Leaf(id)     == [path \in {<<>>} |-> id]
NoTree       == <<>>
Leaves(tree) == Range(tree)             \* layout_tree; pane_tree_contains

\* The drop zones and the commands put the new pane in either half.
InsertPane(tree, target, new, half) ==
    LET split == {path \in DOMAIN tree : tree[path] = target}
        kept  == DOMAIN tree \ split
    IN  [path \in kept \cup {Append(at, k) : at \in split, k \in {0, 1}} |->
            IF path \in kept THEN tree[path] ELSE IF Last(path) = half THEN new ELSE target]

\* The other half of the split takes its place; NoTree if there is none.
RemovePane(tree, target) ==
    LET gone  == CHOOSE path \in DOMAIN tree : tree[path] = target
        split == Front(gone)
        lifted(path) == IF IsPrefix(split, path)
                        THEN split \o SubSeq(path, Len(gone) + 1, Len(path)) ELSE path
        kept == DOMAIN tree \ {gone}
    IN  IF target \notin Leaves(tree) THEN tree
        ELSE IF kept = {} THEN NoTree
        ELSE [path \in {lifted(p) : p \in kept} |-> tree[CHOOSE p \in kept : lifted(p) = path]]

\* The first leaf, in the order of the layout, of those.
LeftOf(a, b) == \E k \in DOMAIN a \cap DOMAIN b :
    a[k] < b[k] /\ \A j \in 1 .. k - 1 : a[j] = b[j]
FirstLeaf(tree, ids) ==
    LET paths == {path \in DOMAIN tree : tree[path] \in ids}
    IN  tree[CHOOSE path \in paths : \A other \in paths \ {path} : LeftOf(path, other)]
=============================================================================
