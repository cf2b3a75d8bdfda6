------------------------------- MODULE Finder -------------------------------
(***************************************************************************)
(* The quick finder (Cmd+P, the command palette and go to line, which      *)
(* previews the line in the text below) and the history of places.  There  *)
(* is one editor pane; a place is its line, and every text ends with an    *)
(* empty line.                                                             *)
(***************************************************************************)
EXTENDS Naturals, Sequences, FiniteSets, SequencesExt

CONSTANTS
    Lines,      \* the number of lines of each file
    Walked,     \* what walk_files finds, in its order
    Hosts,      \* the directories of recent_remote_hosts
    Queries,    \* bound: what may be typed
    MaxPages, MaxVisits, MaxStrokes  \* bounds

\* A query, parsed: mode, the line it asks for (0 if none), the entries it
\* matches with the best first, and the existing file it is the absolute path
\* of (split_path_line_col, parse_goto_line_query, fuzzy_score_path).
Nowhere == "nowhere"
Asking(mode, line, hits, direct) == [mode |-> mode, line |-> line, hits |-> hits, direct |-> direct]
NoQuery == Asking("files", 0, <<>>, Nowhere)

VARIABLES
    pages,      \* the tabs of the pane: [path, head]
    page,       \* the tab shown
    editing,    \* the active pane is the editor
    finder,     \* QuickFinder: what it keeps when it is closed as well
    preview,    \* preview_tab_idx and preview_saved_char, a set of at most one
    walks,      \* tokens of the threads that walk the files
    visitedBack, visitedFwd,    \* cursor_back and cursor_fwd
    strokes,
    beforeGoto, \* history: the tabs when go to line began
    disturbed   \* history: something else has happened to them since

finderVars == <<pages, page, editing, finder, preview, walks, visitedBack, visitedFwd, strokes,
                beforeGoto, disturbed>>

\* Line 1 of a text is there, and the window may begin in line 2 of the second.
ASSUME FinderAssumption ==
    /\ \A path \in DOMAIN Lines : Lines[path] \in Nat \ {0} /\ path # Nowhere
    /\ \A i \in 1 .. 2 : Walked[i] \in DOMAIN Lines /\ i <= Lines[Walked[i]]
    /\ \A query \in Queries : query.line \in Nat

FinderInit ==
    /\ pages \in {<<[path |-> Nowhere, head |-> 1]>>,
                  [i \in 1 .. 2 |-> [path |-> Walked[i], head |-> i]]}
    /\ page = 1 /\ editing \in BOOLEAN
    /\ finder = [open |-> FALSE, query |-> NoQuery, entries |-> <<>>, filtered |-> <<>>,
                 selected |-> 1, token |-> 0, remote |-> FALSE, line |-> 0, direct |-> Nowhere]
    /\ preview = {} /\ walks = {}
    /\ visitedBack = <<>> /\ visitedFwd = <<>> /\ strokes = MaxStrokes
    /\ beforeGoto = pages /\ disturbed = FALSE

Stroke == strokes > 0 /\ strokes' = strokes - 1

-----------------------------------------------------------------------------
(* Tabs.                                                                   *)

Last_(path) == IF path = Nowhere THEN 1 ELSE Lines[path]
AtMost(line, path) == IF line > Last_(path) THEN Last_(path) ELSE line
HeadAt(views, i, line) ==
    IF i \notin DOMAIN views THEN views
    ELSE [views EXCEPT ![i].head = AtMost(line, views[i].path)]

\* open_or_reuse_tab, whose ensure_editor_pane makes the editor active.
Holds_(path) == {i \in DOMAIN pages : pages[i].path = path}
Opened(path) ==
    LET fresh == [path |-> path, head |-> 1]
    IN  IF Holds_(path) # {}
        THEN [pages |-> pages, page |-> CHOOSE i \in Holds_(path) : \A j \in Holds_(path) : i <= j]
        ELSE IF pages[page].path = Nowhere
        THEN [pages |-> [pages EXCEPT ![page] = fresh], page |-> page]
        ELSE [pages |-> Append(pages, fresh), page |-> Len(pages) + 1]
Room(path) == Holds_(path) # {} \/ pages[page].path = Nowhere \/ Len(pages) < MaxPages
\* jump_to_path_line_col, once the file is open.
Jumped(at, line) ==
    /\ pages' = IF line = 0 THEN at.pages ELSE HeadAt(at.pages, at.page, line)
    /\ page' = at.page /\ editing' = TRUE

\* push_cursor_history.
Here_ == IF editing /\ pages[page].path # Nowhere THEN <<pages[page]>> ELSE <<>>
RecordPlace ==
    /\ visitedBack' = visitedBack \o Here_
    /\ visitedFwd' = IF Here_ = <<>> THEN visitedFwd ELSE <<>>

\* cursor_go_back and cursor_go_fwd: the end of a text is out of their reach.
BeforeEnd(place) == [place EXCEPT !.head =
    IF @ = Lines[place.path] /\ @ > 1 THEN @ - 1 ELSE @]
Revisit(place) ==
    /\ Room(place.path)
    /\ Jumped(Opened(place.path), BeforeEnd(place).head)
    /\ disturbed' = TRUE
    /\ UNCHANGED <<finder, preview, walks, beforeGoto>>
GoBack ==
    /\ Stroke /\ visitedBack # <<>>
    /\ Revisit(Last(visitedBack))
    /\ visitedBack' = Front(visitedBack) /\ visitedFwd' = visitedFwd \o Here_
GoForward ==
    /\ Stroke /\ visitedFwd # <<>>
    /\ Revisit(Last(visitedFwd))
    /\ visitedFwd' = Front(visitedFwd) /\ visitedBack' = visitedBack \o Here_

\* A click beside the finder, which stays open.
ClickTab(i) ==
    /\ Stroke
    /\ page' = i /\ editing' = TRUE
    /\ UNCHANGED <<pages, finder, preview, walks, visitedBack, visitedFwd, beforeGoto, disturbed>>
ClickText(line) ==
    /\ Stroke /\ pages[page].head # line
    /\ pages' = HeadAt(pages, page, line) /\ editing' = TRUE /\ disturbed' = TRUE
    /\ UNCHANGED <<page, finder, preview, walks, visitedBack, visitedFwd, beforeGoto>>
CloseTab(i) ==
    /\ Stroke /\ Len(pages) > 1
    /\ pages' = RemoveAt(pages, i)
    /\ page' = IF page > Len(pages) - 1 THEN Len(pages) - 1 ELSE page
    /\ disturbed' = TRUE
    /\ UNCHANGED <<editing, finder, preview, walks, visitedBack, visitedFwd, beforeGoto>>
ClickElsewhere ==
    /\ Stroke /\ editing
    /\ editing' = FALSE
    /\ UNCHANGED <<pages, page, finder, preview, walks, visitedBack, visitedFwd, beforeGoto,
                   disturbed>>

-----------------------------------------------------------------------------
(* The finder.                                                             *)

\* refilter_quick_finder: in go to line, goto_line_preview moves the cursor of
\* the tab that is remembered, if it is still there.
Refiltered(f, query, entries) ==
    [f EXCEPT
        !.query = query, !.entries = entries, !.selected = 1,
        !.filtered = IF query.mode # "files" THEN <<>>
                     ELSE IF query = NoQuery THEN entries
                     ELSE SelectSeq(query.hits, LAMBDA e : e \in ToSet(entries)),
        !.line = IF query.mode = "files" THEN query.line ELSE 0,
        !.direct = IF query.mode = "files" THEN query.direct ELSE Nowhere]
Previewed(query, kept) ==
    IF query.mode # "goto" \/ query.line = 0 \/ kept = {} THEN pages
    ELSE HeadAt(pages, (CHOOSE k \in kept : TRUE).tab, query.line)
\* Mutant of Restored: into the tab that is shown.
RestoredInFront ==
    IF preview = {} THEN pages ELSE HeadAt(pages, page, (CHOOSE k \in preview : TRUE).head)
Restored ==
    IF preview = {} THEN pages
    ELSE LET kept == CHOOSE k \in preview : TRUE IN HeadAt(pages, kept.tab, kept.head)
Remembered == IF editing THEN {[tab |-> page, head |-> pages[page].head]} ELSE {}

\* open_quick_finder: line, direct and the preview stay as they were.
Reopened == [finder EXCEPT
    !.open = TRUE, !.query = NoQuery, !.entries = <<>>, !.filtered = <<>>, !.selected = 1,
    !.token = @ + 1, !.remote = FALSE]
StartWalk == walks' = walks \cup {finder.token + 1}

\* Cmd+P.
OpenFinder ==
    /\ Stroke
    /\ finder' = Reopened /\ StartWalk
    /\ UNCHANGED <<pages, page, editing, preview, visitedBack, visitedFwd, beforeGoto, disturbed>>
\* Cmd+Shift+P.
Palette == Asking("command", 0, <<>>, Nowhere)
OpenPalette ==
    /\ Stroke
    /\ finder' = Refiltered(Reopened, Palette, <<>>) /\ StartWalk
    /\ UNCHANGED <<pages, page, editing, preview, visitedBack, visitedFwd, beforeGoto, disturbed>>
\* Cmd+G.
Colon == Asking("goto", 0, <<>>, Nowhere)
OpenGoto ==
    /\ Stroke
    /\ preview' = Remembered
    /\ finder' = Refiltered(Reopened, Colon, <<>>) /\ StartWalk
    /\ beforeGoto' = pages /\ disturbed' = FALSE
    /\ UNCHANGED <<pages, page, editing, visitedBack, visitedFwd>>

TypeQuery(query) ==
    /\ Stroke /\ finder.open /\ query # finder.query
    /\ LET was == finder.query.mode = "goto"
           is  == query.mode = "goto"
           kept == IF is /\ ~was /\ preview = {} THEN Remembered ELSE preview
       IN  /\ preview' = IF was /\ ~is THEN {} ELSE kept
           /\ pages' = IF was /\ ~is THEN Restored ELSE Previewed(query, kept)
           /\ beforeGoto' = IF is /\ ~was THEN pages ELSE beforeGoto
           /\ disturbed' = IF is /\ ~was THEN preview # {} ELSE disturbed
    /\ finder' = Refiltered(finder, query, finder.entries)
    /\ UNCHANGED <<page, editing, walks, visitedBack, visitedFwd>>

Escape ==
    /\ Stroke /\ finder.open
    /\ finder' = [finder EXCEPT !.open = FALSE, !.remote = FALSE]
    /\ IF finder.query.mode = "goto" THEN pages' = Restored /\ preview' = {}
       ELSE UNCHANGED <<pages, preview>>
    /\ UNCHANGED <<page, editing, walks, visitedBack, visitedFwd, beforeGoto, disturbed>>

\* The arrows; command mode has as many entries as there are commands.
Arrow_ ==
    /\ Stroke /\ finder.open
    /\ \/ finder.selected > 1 /\ finder' = [finder EXCEPT !.selected = @ - 1]
       \/ finder.selected < Len(finder.filtered) /\ finder' = [finder EXCEPT !.selected = @ + 1]
    /\ UNCHANGED <<pages, page, editing, preview, walks, visitedBack, visitedFwd, beforeGoto,
                   disturbed>>

\* Enter in go to line; without a number it does nothing.
GoToLine ==
    /\ Stroke /\ finder.open /\ finder.query.mode = "goto" /\ finder.query.line # 0
    /\ finder' = [finder EXCEPT !.open = FALSE] /\ preview' = {}
    /\ UNCHANGED <<pages, page, editing, walks, visitedBack, visitedFwd, beforeGoto, disturbed>>

\* Enter on a command; the one that changes the finder is Open Remote Directory.
RunCommand ==
    /\ Stroke /\ finder.open /\ finder.query.mode = "command"
    /\ \/ finder' = [finder EXCEPT !.open = FALSE]
       \/ finder' = [finder EXCEPT !.query = NoQuery, !.token = @ + 1, !.remote = TRUE,
                                   !.entries = Hosts, !.filtered = Hosts, !.selected = 1]
    /\ UNCHANGED <<pages, page, editing, preview, walks, visitedBack, visitedFwd, beforeGoto,
                   disturbed>>

\* Enter on a directory of another machine (open_remote_directory: Explorer).
EnterRemote ==
    /\ Stroke /\ finder.open /\ finder.query.mode = "files" /\ finder.remote
    /\ finder' = [finder EXCEPT !.open = FALSE, !.remote = FALSE]
    /\ UNCHANGED <<pages, page, editing, preview, walks, visitedBack, visitedFwd, beforeGoto,
                   disturbed>>

\* Enter on a file.
EnterFile(path) ==
    /\ Stroke /\ finder.open /\ finder.query.mode = "files" /\ ~finder.remote
    /\ \/ /\ path = finder.direct /\ path # Nowhere
          /\ finder.selected = 1 /\ finder.filtered = <<>>
       \/ finder.selected \in DOMAIN finder.filtered /\ path = finder.filtered[finder.selected]
    /\ Len(visitedBack) < MaxVisits /\ Room(path)
    /\ finder' = [finder EXCEPT !.open = FALSE]
    /\ RecordPlace
    /\ Jumped(Opened(path), finder.line)
    /\ UNCHANGED <<preview, walks, beforeGoto, disturbed>>

\* QuickFinderFiles, when the finder may be closed again.
OnFiles(walk) ==
    /\ walks' = walks \ {walk}
    /\ \/ /\ walk = finder.token /\ ~finder.remote
          /\ \/ /\ finder.query = NoQuery
                /\ finder' = [finder EXCEPT !.entries = Walked, !.filtered = Walked]
                /\ UNCHANGED pages
             \/ /\ finder.query # NoQuery
                /\ finder' = Refiltered(finder, finder.query, Walked)
                /\ pages' = Previewed(finder.query, preview)
       \/ /\ walk # finder.token \/ finder.remote
          /\ UNCHANGED <<finder, pages>>
    /\ UNCHANGED <<page, editing, preview, visitedBack, visitedFwd, strokes, beforeGoto, disturbed>>

-----------------------------------------------------------------------------

FinderNext ==
    \/ GoBack \/ GoForward \/ ClickElsewhere
    \/ \E i \in DOMAIN pages : ClickTab(i) \/ CloseTab(i)
    \/ \E line \in 1 .. Last_(pages[page].path) : ClickText(line)
    \/ OpenFinder \/ OpenPalette \/ OpenGoto
    \/ \E query \in Queries : TypeQuery(query)
    \/ Escape \/ Arrow_ \/ GoToLine \/ RunCommand \/ EnterRemote
    \/ \E path \in DOMAIN Lines : EnterFile(path)
    \/ \E walk \in walks : OnFiles(walk)

FinderSpec == FinderInit /\ [][FinderNext]_finderVars
=============================================================================
