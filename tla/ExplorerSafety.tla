--------------------------- MODULE ExplorerSafety ---------------------------
(***************************************************************************)
(* What the file tree promises while listings arrive late, out of order or *)
(* not at all.                                                             *)
(***************************************************************************)
EXTENDS Explorer

rows == ex.entries

\* The rows are a walk through the tree: each path once, a directory before
\* what it holds, and only an open directory holds rows; a row stands for the
\* selection (toggle and apply_remote_dir_listing cut and splice by depth).
ParentOf(i) == {j \in 1 .. i - 1 : rows[j].depth = rows[i].depth - 1}
LastOf(places) == CHOOSE j \in places : \A k \in places : k <= j
RowsAreAWalk ==
    /\ \A i, j \in DOMAIN rows : rows[i].path = rows[j].path => i = j
    /\ \A i \in DOMAIN rows :
          IF rows[i].depth = 0 THEN Front(rows[i].path) = ex.root
          ELSE /\ ParentOf(i) # {}
               /\ LET parent == rows[LastOf(ParentOf(i))]
                  IN  parent.dir /\ parent.expanded /\ parent.path = Front(rows[i].path)
    /\ rows # <<>> => ex.selected \in DOMAIN rows

\* A listing touches one directory: rows elsewhere stay as they are, a
\* directory that the listing still names stays open with all that is below
\* it, and the selection stays with its path where that is still shown.
Elsewhere(tree, dir) ==
    SelectSeq(tree.entries, LAMBDA row : ~(dir # row.path /\ IsPrefix(dir, row.path)))
StillOpen(event) ==
    {row \in ToSet(rows) : /\ row.dir /\ row.expanded
                           /\ \E thing \in event.things : thing.path = row.path /\ thing.dir
                           /\ ex.hidden \/ Name(row.path) \notin Hidden}
OneDirectory(event) ==
    /\ Elsewhere(ex', event.path) = Elsewhere(ex, event.path)
    /\ \A row \in StillOpen(event), other \in ToSet(rows) :
          IsPrefix(row.path, other.path) => other \in ToSet(ex'.entries)
    /\ \A i \in DOMAIN rows, j \in DOMAIN ex'.entries :
          i = ex.selected /\ rows[i].path = ex'.entries[j].path => ex'.selected = j
ListingsKeepTheRest ==
    [][mail # <<>> /\ mail' = Tail(mail) /\ Head(mail).type = "listing"
           => OneDirectory(Head(mail))]_exVars

\* Once the files and the user come to rest, the tree comes to show the files
\* as they are, however many listings failed, were late or overtook another:
\* what it shows in the end is what reading the whole tree anew would show
\* (the poll, and pending_remote_listings, which holds it back).
InStep == rows = Grown(files, ex.root, ex.hidden, Expanded(rows))
TreeCatchesUp == <>[]InStep
=============================================================================
