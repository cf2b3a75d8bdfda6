---------------------------- MODULE MCWorkbench ----------------------------
(***************************************************************************)
(* What one window does between its user, its threads and the disk: files  *)
(* in tabs, terminals, panes, the search panel and the quick finder.  They *)
(* have no variable in common, so a behaviour is of one of them, while the *)
(* others stay as they begin.                                              *)
(***************************************************************************)
EXTENDS DocumentsSafety, TerminalSafety, PanesSafety, SearchSafety, FinderSafety, TLC

VARIABLE subject

\* Documents: a local and two remote files in two panes; the window begins
\* with a blank tab, or with the local file and a connection.
CONSTANTS pane1, pane2, local1, far1, far2, noText, one, two
Disk(a, b, c) == (local1 :> a) @@ (far1 :> b) @@ (far2 :> c)
MCOpenings ==
    {[disk |-> Disk(one, two, NoFile), path |-> NoPath, conn |-> "None", steps |-> 3],
     [disk |-> Disk(one, two, NoFile), path |-> local1, conn |-> "Connected", steps |-> 3]}

\* Terminal: a shell that has printed something, at three sizes.
MCShells == {[size |-> <<2, 2>>, text |-> <<"a", "b", NewLine, "c">>],
             [size |-> <<3, 3>>, text |-> <<"a", "b", "c", NewLine, "d", "e", NewLine>>],
             [size |-> <<0, 0>>, text |-> <<"a">>]}
MCSizes == {<<1, 2>>, <<2, 2>>, <<3, 1>>, <<2, 3>>, <<3, 3>>}

\* Panes: the window begins with a blank tab, or with a markdown file.
MCBegins == {[tab |-> [kind |-> "blank", book |-> 0], clicks |-> 4],
             [tab |-> [kind |-> "md", book |-> 1], clicks |-> 5]}

\* Search panel: two files; in one case with a character of two bytes, and one
\* of three whose lower case is of one (the Kelvin sign).
MCBytes == [c \in {"a", "b", "c", "k", "e'", "K"} |-> CASE c = "e'" -> 2 [] c = "K" -> 3 [] OTHER -> 1]
MCUnits == [c \in DOMAIN MCBytes |-> 1]
MCLower == [c \in DOMAIN MCBytes |-> IF c = "K" THEN "k" ELSE c]
MCSources ==
    {[path \in 1 .. 2 |->
        [lines |-> IF path = 1 THEN <<<<"a", "a">>, <<"b">>>> ELSE <<<<"b", "a", "b">>>>,
         newline |-> TRUE]],
     [path \in 1 .. 2 |->
        [lines |-> IF path = 1 THEN <<<<"e'", "a", "b">>>> ELSE <<<<"K", "a">>>>,
         newline |-> FALSE]]}
MCNeedles == {<<>>, <<"a">>, <<"a", "b">>}
MCReplacement == <<"b", "c">>
Spot(path, row, at) == [path |-> path, row |-> row, at |-> at]
MCKeeps == {<<Spot(1, 1, 0), Spot(1, 1, 1), Spot(1, 1, 0)>>, <<Spot(1, 1, 2), Spot(2, 1, 2)>>,
            <<Spot(1, 2, 1)>>, <<>>}

\* Finder: three files, one of which the walk does not find.
MCLines == ("f" :> 4) @@ ("g" :> 2) @@ ("h" :> 3)
MCWalked == <<"f", "g">>
MCHosts == <<"r">>
MCQueries == {NoQuery, Palette, Colon, Asking("goto", 3, <<>>, Nowhere),
              Asking("files", 4, <<"g">>, Nowhere), Asking("files", 0, <<"g", "f">>, Nowhere),
              Asking("files", 2, <<>>, "h")}

\* The others begin in one way.  The panes of Documents are alike.
MCInit ==
    /\ subject \in {"documents", "terminal", "panes", "search", "finder"}
    /\ DocInit    /\ front = pane1 /\ (subject # "documents" => conn = "None")
    /\ TermInit   /\ (subject # "terminal" => grid.rows = 0)
    /\ PaneInit   /\ (subject # "panes" => clicks = 4)
    /\ SearchInit /\ (subject # "search" => content[1].newline)
    /\ FinderInit /\ (subject # "finder" => editing /\ Len(pages) = 1)

MCNext ==
    \/ /\ subject = "documents" /\ DocNext
       /\ UNCHANGED <<termVars, paneVars, searchVars, finderVars, subject>>
    \/ /\ subject = "terminal" /\ TermNext
       /\ UNCHANGED <<docVars, paneVars, searchVars, finderVars, subject>>
    \/ /\ subject = "panes" /\ PaneNext
       /\ UNCHANGED <<docVars, termVars, searchVars, finderVars, subject>>
    \/ /\ subject = "search" /\ SearchNext
       /\ UNCHANGED <<docVars, termVars, paneVars, finderVars, subject>>
    \/ /\ subject = "finder" /\ FinderNext
       /\ UNCHANGED <<docVars, termVars, paneVars, searchVars, subject>>

MCSpec == MCInit /\ [][MCNext]_<<docVars, termVars, paneVars, searchVars, finderVars, subject>>
=============================================================================
