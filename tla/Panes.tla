-------------------------------- MODULE Panes --------------------------------
(***************************************************************************)
(* The panes of the window (Pane, PaneTree, DragState and their handlers   *)
(* in main.rs): they are split, closed and hidden, tabs and terminals are  *)
(* dragged between them, language servers bring panes of their own and     *)
(* events change them while the user is at it.                             *)
(***************************************************************************)
EXTENDS Layout, Functions

CONSTANTS
    Books,      \* bound: the buffers of Markdown files
    MaxPane,    \* bound: ids given to panes and terminals
    MaxItems,   \* bound: tabs or terminals of a pane
    Begins      \* bound: the first tab, and how many steps of the user and
                \* events follow, motions of the mouse aside

ASSUME PanesAssumption == MaxPane \in Nat /\ MaxItems \in Nat

VARIABLES
    panes,      \* State::panes, by id
    layout,     \* State::pane_tree
    focus,      \* State::active_pane
    nextPane,   \* State::next_pane_id
    terminals,  \* the ids in State::term_panes
    servers,    \* the ids in State::lsp.servers, of the panes with their output
    previews,   \* State::md_panes: the buffer each shows
    drag,       \* State::drag_pending, State::drag or none
    clicks,     \* steps left
    ended,      \* no, exited or panicked
    outputPanes,\* history: all servers there were
    strayed     \* history: a drop came too late, the last pane was hidden, or
                \* a command needed a tab that is not there

paneVars == <<panes, layout, focus, nextPane, terminals, servers, previews, drag, clicks,
              ended, outputPanes, strayed>>

-----------------------------------------------------------------------------

\* Only Markdown buffers are told apart.
NoBook == 0
AnyTab(kind) == [kind |-> kind, book |-> NoBook]
NewPane(kind, tabs, terms) == [kind |-> kind, tabs |-> tabs, terms |-> terms, shown |-> 1]
EditorPane(tab)  == NewPane("Editor", <<tab>>, <<>>)
TerminalPane(id) == NewPane("Terminal", <<>>, <<id>>)

Items(pane) == IF pane.kind = "Terminal" THEN pane.terms ELSE pane.tabs
WithItems(pane, items) ==
    IF pane.kind = "Terminal" THEN [pane EXCEPT !.terms = items] ELSE [pane EXCEPT !.tabs = items]
KindOf(id)   == IF id \in DOMAIN panes THEN panes[id].kind ELSE "Editor"
With(entries, key, value) ==
    [k \in DOMAIN entries \cup {key} |-> IF k = key THEN value ELSE entries[k]]
Clamp(shown, count) == IF shown > count /\ count > 0 THEN count ELSE shown

\* The tail of close_editor_tab, close_terminal_tab and perform_drop.
\* Mutant of Removed: the index of the tab shown is not clamped.
RemovedUnclamped(pane, i) == WithItems(pane, RemoveAt(Items(pane), i))
Removed(pane, i) ==
    LET rest == RemoveAt(Items(pane), i)
    IN  [WithItems(pane, rest) EXCEPT !.shown = Clamp(@, Len(rest))]
Added(pane, item) ==
    [WithItems(pane, Append(Items(pane), item)) EXCEPT !.shown = Len(Items(pane)) + 1]

PaneInit ==
    /\ \E begin \in Begins : panes = [id \in {0} |-> EditorPane(begin.tab)] /\ clicks = begin.clicks
    /\ layout = Leaf(0) /\ focus = 0 /\ nextPane = 1
    /\ terminals = {} /\ servers = {} /\ outputPanes = {}
    /\ previews = [id \in {} |-> NoBook]
    /\ drag = [stage |-> "none"]
    /\ ended = "no" /\ strayed = FALSE

NoDrag == [stage |-> "none"]
Runs   == ended = "no" /\ clicks > 0 /\ clicks' = clicks - 1
\* Window events begin with ensure_active_pane.
Acts   == Runs /\ focus \in DOMAIN panes
Front_ == panes[focus]
Panics == /\ ended' = "panicked"
          /\ UNCHANGED <<panes, layout, focus, nextPane, terminals, servers, previews, drag,
                         outputPanes>>

EnsureActivePane ==
    /\ Runs /\ focus \notin DOMAIN panes
    /\ focus' \in DOMAIN panes
    /\ UNCHANGED <<panes, layout, nextPane, terminals, servers, previews, drag, ended,
                   outputPanes, strayed>>

\* remove_pane_from_layout, when the panes are `left`; it says whether to exit,
\* which a pane that is only hidden ignores.
Live(tree, left) == Leaves(tree) \cap DOMAIN left
RemoveFromLayout(id, from, left, hiding) ==
    LET tree == RemovePane(layout, id)
    IN  IF Live(tree, left) = {}
        THEN /\ layout' = Leaf(0) /\ focus' = 0
             /\ panes' = IF hiding THEN left ELSE [p \in {} |-> left[p]]
             /\ ended' = IF hiding THEN ended ELSE "exited"
             /\ strayed' = hiding
        ELSE /\ layout' = tree /\ panes' = left
             /\ focus' = IF from \in Live(tree, left) THEN from ELSE FirstLeaf(tree, DOMAIN left)
             /\ UNCHANGED <<ended, strayed>>

Without(id) == [other \in DOMAIN panes \ {id} |-> panes[other]]

-----------------------------------------------------------------------------
(* Closing: the cross of a tab, its menu, or the key.                      *)

HideOutput(id) ==
    /\ id \in servers
    /\ RemoveFromLayout(id, id, panes, TRUE)
    /\ UNCHANGED <<terminals, previews>>

CloseLast(id) ==
    /\ Len(Items(panes[id])) = 1
    /\ RemoveFromLayout(id, id, Without(id), FALSE)
CloseOneOf(id, i) ==
    /\ Len(Items(panes[id])) > 1
    /\ panes' = [panes EXCEPT ![id] = Removed(@, i)]
    /\ focus' = id
    /\ UNCHANGED <<layout, ended, strayed>>

CloseItem(id, i) ==
    /\ Acts /\ id \in Live(layout, panes) /\ i \in DOMAIN Items(panes[id])
    /\ \/ /\ KindOf(id) = "Terminal"
          /\ HideOutput(id)
       \/ /\ KindOf(id) = "Terminal" /\ id \notin servers
          /\ CloseLast(id) \/ CloseOneOf(id, i)
          /\ terminals' = terminals \ {panes[id].terms[i]}
          /\ UNCHANGED previews
       \/ /\ KindOf(id) = "Editor"
          /\ CloseLast(id) \/ CloseOneOf(id, i)
          /\ UNCHANGED <<terminals, previews>>
    /\ UNCHANGED <<nextPane, servers, drag, outputPanes>>

ClosePreview ==
    /\ Acts /\ Front_.kind = "MarkdownPreview"
    /\ RemoveFromLayout(focus, focus, Without(focus), FALSE)
    /\ previews' = [id \in DOMAIN previews \ {focus} |-> previews[id]]
    /\ UNCHANGED <<nextPane, terminals, servers, drag, outputPanes>>

-----------------------------------------------------------------------------
(* New panes and tabs.                                                     *)

Ids(n) == nextPane + n - 1 <= MaxPane /\ nextPane' = nextPane + n
Beside(target, pane, half) ==
    /\ panes' = With(panes, nextPane, pane)
    /\ layout' = InsertPane(layout, target, nextPane, half)
    /\ focus' = nextPane

\* The keys for a split copy the tab, in editor panes.
SplitByKey ==
    /\ Acts /\ Front_.kind = "Editor"
    /\ Ids(1)
    /\ Beside(focus, EditorPane(Front_.tabs[Front_.shown]), 1)
    /\ UNCHANGED <<terminals, servers, previews, drag, ended, outputPanes, strayed>>

\* The Split commands take the text and path of the tab, whatever the pane.
SplitByCommand(half) ==
    /\ Acts
    /\ \/ /\ Front_.shown \in DOMAIN Front_.tabs
          /\ Ids(1)
          /\ LET tab == Front_.tabs[Front_.shown]
             IN  Beside(focus, EditorPane(IF tab.kind \in {"GitDiff", "Settings"}
                                          THEN AnyTab("text") ELSE tab), half)
          /\ UNCHANGED <<terminals, servers, previews, drag, ended, outputPanes, strayed>>
       \/ Front_.shown \notin DOMAIN Front_.tabs /\ Panics /\ strayed' = TRUE

\* open_or_reuse_tab and open_diff_tab for a file that is not open yet:
\* ensure_editor_pane, then the blank tab or a new one.
Fresh(book) == /\ \A id \in DOMAIN panes : \A i \in DOMAIN panes[id].tabs :
                      panes[id].tabs[i].book # book
               /\ book \notin Range(previews)
Put(pane, tab) ==
    IF pane.tabs[pane.shown].kind = "blank" THEN [pane EXCEPT !.tabs[pane.shown] = tab]
    ELSE Added(pane, tab)
OpenIn(id, tab) ==
    /\ Len(panes[id].tabs) < MaxItems
    /\ panes' = [panes EXCEPT ![id] = Put(@, tab)]
    /\ focus' = id
    /\ UNCHANGED <<layout, nextPane>>
OpenTab(tab) ==
    /\ Acts
    /\ LET editors == {id \in Live(layout, panes) : panes[id].kind = "Editor"}
       IN  \/ Front_.kind = "Editor" /\ OpenIn(focus, tab)
           \/ /\ Front_.kind # "Editor" /\ editors # {}
              /\ OpenIn(FirstLeaf(layout, editors), tab)
           \/ /\ Front_.kind # "Editor" /\ editors = {}
              /\ Ids(1)
              /\ panes' = With(panes, nextPane, EditorPane(tab))
              /\ layout' = IF Live(layout, panes) = {} THEN Leaf(nextPane)
                           ELSE InsertPane(layout, FirstLeaf(layout, DOMAIN panes), nextPane, 1)
              /\ focus' = nextPane
    /\ UNCHANGED <<terminals, servers, previews, drag, ended, outputPanes, strayed>>
OpenFile == \/ \E kind \in {"text", "GitDiff"} : OpenTab(AnyTab(kind))
            \/ \E book \in Books : Fresh(book) /\ OpenTab([kind |-> "md", book |-> book])

\* open_settings_tab, and Cmd+T.
NewTab ==
    /\ Acts /\ Front_.kind = "Editor" /\ Len(Front_.tabs) < MaxItems
    /\ \E kind \in {"blank", "Settings"} :
          panes' = [panes EXCEPT ![focus] =
              IF kind = "Settings" /\ \E i \in DOMAIN @.tabs : @.tabs[i].kind = kind
              THEN [@ EXCEPT !.shown = CHOOSE i \in DOMAIN Front_.tabs : Front_.tabs[i].kind = kind]
              ELSE Added(@, AnyTab(kind))]
    /\ UNCHANGED <<layout, focus, nextPane, terminals, servers, previews, drag, ended,
                   outputPanes, strayed>>

\* open_terminal_pane_at, and the key that duplicates a terminal.
OpenTerminal ==
    /\ Acts
    /\ Ids(2)
    /\ Beside(focus, TerminalPane(nextPane + 1), 1)
    /\ terminals' = terminals \cup {nextPane + 1}
    /\ UNCHANGED <<servers, previews, drag, ended, outputPanes, strayed>>

OpenPreview ==
    /\ Acts /\ Front_.kind = "Editor" /\ Front_.tabs[Front_.shown].kind = "md"
    /\ LET book == Front_.tabs[Front_.shown].book
           open == {id \in DOMAIN previews : previews[id] = book}
       IN  \/ /\ open # {}
              /\ focus' \in open
              /\ UNCHANGED <<panes, layout, nextPane, previews>>
           \/ /\ open = {}
              /\ Ids(1)
              /\ Beside(focus, NewPane("MarkdownPreview", <<>>, <<>>), 1)
              /\ previews' = With(previews, nextPane, book)
    /\ UNCHANGED <<terminals, servers, drag, ended, outputPanes, strayed>>

-----------------------------------------------------------------------------
(* Language servers, each with a pane for its output.                      *)

ShowPane(id) ==
    /\ layout' = IF id \in Leaves(layout) THEN layout
                 ELSE IF Live(layout, panes) = {} THEN Leaf(id)
                 ELSE InsertPane(layout, IF focus \in Live(layout, panes) THEN focus
                                         ELSE FirstLeaf(layout, DOMAIN panes), id, 1)
    /\ focus' = id
Show(id) == IF id \in DOMAIN panes THEN ShowPane(id) ELSE UNCHANGED <<layout, focus>>

StartServer ==
    /\ Runs
    /\ Ids(1)
    /\ panes' = With(panes, nextPane, TerminalPane(nextPane))
    /\ terminals' = terminals \cup {nextPane}
    /\ servers' = servers \cup {nextPane}
    /\ outputPanes' = outputPanes \cup {nextPane}
    /\ UNCHANGED <<layout, focus, previews, drag, ended, strayed>>

\* It ends by itself, or is stopped from the list of servers.
StopServer(id) ==
    /\ Runs /\ id \in servers
    /\ servers' = servers \ {id}
    /\ Show(id) \/ UNCHANGED <<layout, focus>>
    /\ UNCHANGED <<panes, nextPane, terminals, previews, drag, ended, outputPanes, strayed>>

ShowOutput(id) ==
    /\ Acts /\ id \in servers
    /\ Show(id)
    /\ UNCHANGED <<panes, nextPane, terminals, servers, previews, drag, ended, outputPanes,
                   strayed>>

WithoutDiffs(tabs) ==
    FoldLeft(LAMBDA kept, tab : IF tab.kind = "GitDiff" THEN kept ELSE Append(kept, tab), <<>>, tabs)

\* GitOpDone closes diff tabs everywhere, and gives every pane without tabs
\* one, terminals and previews too.
GitOpDone ==
    /\ Runs
    /\ \E id \in DOMAIN panes : \E i \in DOMAIN panes[id].tabs : panes[id].tabs[i].kind = "GitDiff"
    /\ panes' = [id \in DOMAIN panes |->
           LET kept == WithoutDiffs(panes[id].tabs)
               last == IF kept = <<>> THEN 1 ELSE Len(kept)
           IN  [panes[id] EXCEPT !.tabs = IF kept = <<>> THEN <<AnyTab("blank")>> ELSE kept,
                                 !.shown = IF @ > last THEN last ELSE @]]
    /\ UNCHANGED <<layout, focus, nextPane, terminals, servers, previews, drag, ended,
                   outputPanes, strayed>>

-----------------------------------------------------------------------------
(* The mouse.  Keys, events and the menus go on while a button is held.    *)

ClickItem(id, i) ==
    /\ Acts /\ drag = NoDrag
    /\ id \in Live(layout, panes) /\ i \in DOMAIN Items(panes[id])
    /\ panes' = [panes EXCEPT ![id].shown = i]
    /\ focus' = id
    /\ drag' = [stage |-> "pending", source |-> id, item |-> i]
    /\ UNCHANGED <<layout, nextPane, terminals, servers, previews, ended, outputPanes,
                   strayed>>

ClickPane(id) ==
    /\ Acts /\ drag = NoDrag /\ id \in Leaves(layout)
    /\ \/ /\ id \in DOMAIN panes /\ id # focus
          /\ focus' = id
          /\ UNCHANGED <<panes, layout, nextPane, terminals, servers, previews, drag, ended,
                         outputPanes, strayed>>
       \/ id \notin DOMAIN panes /\ Panics /\ UNCHANGED strayed

\* The last motion before the release: those before it leave no trace.
DragOver(id, zone) ==
    /\ ended = "no" /\ focus \in DOMAIN panes /\ clicks' = clicks
    /\ drag.stage = "pending" /\ id \in Leaves(layout)
    /\ drag' = [stage |-> "over", source |-> drag.source, item |-> drag.item,
                target |-> id, zone |-> zone]
    /\ UNCHANGED <<panes, layout, focus, nextPane, terminals, servers, previews, ended,
                   outputPanes, strayed>>

\* A release without a zone, or Escape in an editor.
DragEnds ==
    /\ Acts
    /\ drag.stage = "pending" \/ (drag.stage = "over" /\ Front_.kind = "Editor")
    /\ drag' = NoDrag
    /\ UNCHANGED <<panes, layout, focus, nextPane, terminals, servers, previews, ended,
                   outputPanes, strayed>>

Center == "center"
Half(zone) == IF zone = "before" THEN 0 ELSE 1

\* perform_drop.  The source may be gone by now, or the target.
Stale == drag.source \notin DOMAIN panes \/ drag.target \notin Leaves(layout)
Refused ==
    LET src == drag.source
        dst == drag.target
        kind == KindOf(src)
    IN  \/ kind = "MarkdownPreview" /\ (src = dst \/ drag.zone = Center)
        \/ kind # "MarkdownPreview" /\ drag.zone = Center /\ KindOf(dst) # kind
        \/ /\ kind # "MarkdownPreview" /\ src \in DOMAIN panes
           /\ \/ drag.item > Len(Items(panes[src]))
              \/ src = dst /\ (drag.zone = Center \/ Len(Items(panes[src])) = 1)
DropPanics ==
    /\ ~Refused
    /\ \/ drag.source \notin DOMAIN panes
       \/ drag.zone = Center /\ drag.target \notin DOMAIN panes

\* The item goes to the target, or to a new pane beside it; an emptied source
\* is removed.
DropItem ==
    LET src   == drag.source
        item  == Items(panes[src])[drag.item]
        left  == [panes EXCEPT ![src] = Removed(@, drag.item)]
        empty == Len(Items(panes[src])) = 1 /\ src # drag.target
        kept(ps) == IF empty THEN [id \in DOMAIN ps \ {src} |-> ps[id]] ELSE ps
        pruned(tree) == IF ~empty THEN tree
                        ELSE IF RemovePane(tree, src) = NoTree THEN Leaf(0)
                        ELSE RemovePane(tree, src)
    IN  \/ /\ drag.zone = Center
           /\ Len(Items(panes[drag.target])) < MaxItems
           /\ panes' = kept([left EXCEPT ![drag.target] = Added(@, item)])
           /\ layout' = pruned(layout)
           /\ focus' = drag.target
           /\ nextPane' = nextPane
        \/ /\ drag.zone # Center
           /\ Ids(1)
           /\ panes' = With(kept(left), nextPane,
                  IF panes[src].kind = "Terminal" THEN TerminalPane(item) ELSE EditorPane(item))
           /\ layout' = pruned(InsertPane(layout, drag.target, nextPane, Half(drag.zone)))
           /\ focus' = nextPane

\* A preview moves as a whole.
DropPreview ==
    LET trimmed == RemovePane(layout, drag.source)
    IN  /\ layout' = IF trimmed = NoTree THEN Leaf(0)
                     ELSE InsertPane(trimmed, drag.target, drag.source, Half(drag.zone))
        /\ focus' = IF trimmed = NoTree THEN focus ELSE drag.source
        /\ UNCHANGED <<panes, nextPane>>

Release ==
    /\ Acts /\ drag.stage = "over"
    /\ strayed' = (strayed \/ Stale)
    /\ \/ DropPanics /\ Panics
       \/ /\ ~DropPanics
          /\ drag' = NoDrag
          /\ \/ Refused /\ UNCHANGED <<panes, layout, focus, nextPane>>
             \/ ~Refused /\ KindOf(drag.source) = "MarkdownPreview" /\ DropPreview
             \/ ~Refused /\ KindOf(drag.source) # "MarkdownPreview" /\ DropItem
          /\ UNCHANGED <<terminals, servers, previews, ended, outputPanes>>

-----------------------------------------------------------------------------

PaneNext ==
    \/ EnsureActivePane
    \/ \E id \in DOMAIN panes : \E i \in 1 .. MaxItems : CloseItem(id, i) \/ ClickItem(id, i)
    \/ ClosePreview
    \/ SplitByKey \/ OpenFile \/ NewTab \/ OpenTerminal \/ OpenPreview
    \/ \E half \in {0, 1} : SplitByCommand(half)
    \/ StartServer \/ GitOpDone
    \/ \E id \in servers : StopServer(id) \/ ShowOutput(id)
    \/ \E id \in Leaves(layout) : \/ ClickPane(id)
                                  \/ \E zone \in {Center, "before", "after"} : DragOver(id, zone)
    \/ DragEnds \/ Release

PaneSpec == PaneInit /\ [][PaneNext]_paneVars
=============================================================================
