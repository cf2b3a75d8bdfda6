----------------------------- MODULE PanesSafety -----------------------------
(***************************************************************************)
(* What the panes promise, whoever opens, closes or moves them.            *)
(***************************************************************************)
EXTENDS Panes

\* Panes and layout fit: no pane stands in it twice, only the output of a
\* language server is ever out of sight, and the pane that takes the keys is in
\* sight ("Pane-removal paths keep this in sync", ensure_active_pane).
LayoutFits ==
    /\ IsInjective(layout)
    /\ Leaves(layout) \subseteq DOMAIN panes
    /\ DOMAIN panes \ Leaves(layout) \subseteq outputPanes
    /\ focus \in Leaves(layout)

\* What panes hold fits: "an editor pane is never tab-empty", the index of
\* what is shown is one, every terminal is in one pane and every preview
\* has its pane.
HoldsTerm(id, i, term) == i \in DOMAIN panes[id].terms /\ panes[id].terms[i] = term
ContentsFit ==
    /\ \A id \in DOMAIN panes : \/ panes[id].kind = "MarkdownPreview"
                                \/ panes[id].shown \in DOMAIN Items(panes[id])
    /\ terminals = UNION {Range(panes[id].terms) : id \in DOMAIN panes}
    /\ \A a, b \in DOMAIN panes : \A i \in DOMAIN panes[a].terms, j \in DOMAIN panes[b].terms :
          panes[a].terms[i] = panes[b].terms[j] => a = b /\ i = j
    /\ DOMAIN previews = {id \in DOMAIN panes : panes[id].kind = "MarkdownPreview"}
    /\ IsInjective(previews)

\* The program panics on none of these paths, and as long as it runs both hold.
\* Except after a drop whose source or target was closed during the drag, after
\* the last pane in sight was hidden, and for a command that needs a tab in a
\* pane that has none (perform_drop, hide_lsp_output_pane, execute_command).
PanesSound == ~strayed => ended # "panicked" /\ (ended = "no" => LayoutFits /\ ContentsFit)
=============================================================================
