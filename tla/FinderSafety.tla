---------------------------- MODULE FinderSafety ----------------------------
(***************************************************************************)
(* What the quick finder promises about the texts below it.                *)
(***************************************************************************)
EXTENDS Finder

\* Leaving go to line, with Escape or by editing the query, puts every tab back
\* where it was when it was entered, whichever tab is shown by then and
\* whenever the walk through the files ends ("Restore cursor if we were in ':'
\* goto live-preview mode"); Enter moves the tab that was in front, and no
\* other.  Except when the finder is opened anew over a preview, which keeps
\* what it remembered, and when the user goes back, clicks in the text or
\* closes a tab meanwhile.
\* Enter on a file opens it at the line that was typed, or where it was; with
\* nothing typed since the finder opened, the line of an earlier query is
\* still there.
PreviewIsUndone ==
    [][/\ finder.open /\ finder.query.mode = "goto" /\ ~disturbed
          => /\ Escape => pages' = beforeGoto
             /\ (finder'.query.mode # "goto" /\ finder'.token = finder.token)
                    => pages' = beforeGoto
             /\ GoToLine => \A i \in DOMAIN pages :
                    \/ pages'[i] = beforeGoto[i]
                    \/ /\ i \in {k.tab : k \in preview}
                       /\ pages'[i].head = AtMost(finder.query.line, pages[i].path)
       /\ (finder.query # NoQuery /\ \E path \in DOMAIN Lines : EnterFile(path))
          => \A i \in DOMAIN pages : pages[i] # pages'[i]
                 => i = page' /\ pages'[i].head \in {1, AtMost(finder.query.line, pages'[i].path)}
      ]_finderVars
=============================================================================
