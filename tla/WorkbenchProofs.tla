--------------------------- MODULE WorkbenchProofs ---------------------------
(***************************************************************************)
(* The parts of one window that its user, its threads and the disk change: *)
(* what the quick finder, the search panel, terminals, panes and tabs      *)
(* promise for any files, texts, sizes and queries, and any number of      *)
(* steps.                                                                  *)
(***************************************************************************)
EXTENDS DocumentsSafety, TerminalSafety, PanesSafety, SearchSafety, FinderSafety,
        SequenceTheorems, FiniteSetTheorems, WellFoundedInduction, TLAPS

-----------------------------------------------------------------------------
(* The quick finder: go to line previews in a tab and puts it back.        *)


\* A tab or place: its line is one of its text.
PagePaths == DOMAIN Lines \cup {Nowhere}
Page  == {p \in [path : PagePaths, head : Nat] : p.head <= Last_(p.path)}

FinderShape(f) ==
    f = [open |-> f.open, query |-> f.query, entries |-> f.entries, filtered |-> f.filtered,
         selected |-> f.selected, token |-> f.token, remote |-> f.remote, line |-> f.line,
         direct |-> f.direct]

\* The line of a query is kept with it; a closed go to line has no preview.
PreviewShape(f, kept) ==
    /\ FinderShape(f)
    /\ f.query.line \in Nat /\ f.line \in Nat /\ f.token \in Nat
    /\ f.query.mode = "files" /\ f.query # NoQuery => f.line = f.query.line
    /\ f.query.mode = "goto" /\ ~f.open => kept = {}

Typed ==
    /\ pages \in Seq(Page) /\ page \in DOMAIN pages /\ beforeGoto \in Seq(Page)
    /\ visitedBack \in Seq(Page) /\ visitedFwd \in Seq(Page)
    /\ PreviewShape(finder, preview)
    /\ \A k, l \in preview : k = l
    /\ \A k \in preview : k.head \in Nat

\* What the tabs were is known: they are as before but for the line of the
\* one that is remembered, whose line is remembered too.
Known(now, query, kept, before) ==
    /\ DOMAIN now = DOMAIN before
    /\ \A i \in DOMAIN before :
          \/ now[i] = before[i]
          \/ now[i].path = before[i].path /\ \E k \in kept : k.tab = i
    /\ \A k \in kept : k.tab \in DOMAIN before =>
          /\ k.head = before[k.tab].head
          /\ query.line # 0 => now[k.tab].head = AtMost(query.line, now[k.tab].path)

Previewing ==
    /\ Typed
    /\ finder.open /\ finder.query.mode = "goto" /\ ~disturbed
           => Known(pages, finder.query, preview, beforeGoto)

-----------------------------------------------------------------------------
(* Lines and tabs.                                                         *)

\* A set of numbers that is not empty has a least one.
LEMMA LeastOf ==
  ASSUME NEW T, T \subseteq Nat, T # {}
  PROVE  \E x \in T : \A y \in T : x <= y
<1>1. PICK R : R = OpToRel(<, Nat)
  OBVIOUS
<1>2. IsWellFoundedOn(R, Nat)
  BY <1>1, NatLessThanWellFounded, Zenon
<1>3. \A x, y \in Nat : y < x => <<y, x>> \in R
  BY <1>1 DEF OpToRel
<1>4. PICK x \in T : \A y \in T : ~(<<y, x>> \in R)
  BY <1>2, WFMin
<1>5. \A y \in T : ~(y < x)
  BY <1>3, <1>4
<1> QED
  BY <1>5

\* A line is brought into its text.
LEMMA AtMostTyped ==
  ASSUME NEW path \in PagePaths, NEW line \in Nat
  PROVE  /\ Last_(path) \in Nat \ {0}
         /\ AtMost(line, path) \in Nat /\ AtMost(line, path) <= Last_(path)
         /\ line <= Last_(path) => AtMost(line, path) = line
  BY FinderAssumption DEF PagePaths, Last_, AtMost

\* HeadAt moves one tab and leaves the others.
LEMMA HeadAtMoves ==
  ASSUME NEW views \in Seq(Page), NEW i, NEW line \in Nat
  PROVE  /\ HeadAt(views, i, line) \in Seq(Page)
         /\ DOMAIN HeadAt(views, i, line) = DOMAIN views
         /\ \A j \in DOMAIN views : j # i => HeadAt(views, i, line)[j] = views[j]
         /\ i \in DOMAIN views => HeadAt(views, i, line)[i] =
                [path |-> views[i].path, head |-> AtMost(line, views[i].path)]
<1>1. CASE i \notin DOMAIN views
  BY <1>1 DEF HeadAt
<1>2. CASE i \in DOMAIN views
  <2>1. views[i] \in Page /\ views[i].path \in PagePaths
    BY <1>2 DEF Page
  <2> DEFINE turned == [path |-> views[i].path, head |-> AtMost(line, views[i].path)]
  <2>2. turned \in Page
    BY <2>1, AtMostTyped DEF Page
  <2>6. [views[i] EXCEPT !.head = AtMost(line, views[i].path)] = turned
    BY <2>1 DEF Page
  <2>7. HeadAt(views, i, line) =
            [views EXCEPT ![i] = [views[i] EXCEPT !.head = AtMost(line, views[i].path)]]
    BY <1>2 DEF HeadAt
  <2> HIDE DEF turned
  <2>3. HeadAt(views, i, line) = [views EXCEPT ![i] = turned]
    BY <2>6, <2>7
  <2>4. HeadAt(views, i, line) \in Seq(Page) /\ HeadAt(views, i, line)[i] = turned
    BY <1>2, <2>2, <2>3
  <2>5. /\ DOMAIN HeadAt(views, i, line) = DOMAIN views
        /\ \A j \in DOMAIN views : j # i => HeadAt(views, i, line)[j] = views[j]
    BY <2>3
  <2> QED
    BY <2>4, <2>5 DEF turned
<1> QED
  BY <1>1, <1>2

\* A tab that is reused or added begins at its first line.
LEMMA OpenedTyped ==
  ASSUME pages \in Seq(Page), page \in DOMAIN pages, NEW path \in PagePaths
  PROVE  /\ Opened(path).pages \in Seq(Page) /\ Opened(path).page \in DOMAIN Opened(path).pages
         /\ \A i \in DOMAIN pages : \/ Opened(path).pages[i] = pages[i]
                                    \/ i = Opened(path).page /\ Opened(path).pages[i].head = 1
<1> DEFINE fresh == [path |-> path, head |-> 1]
<1>1. fresh \in Page /\ fresh.head = 1
  BY AtMostTyped DEF Page
<1>2. CASE Holds_(path) # {}
  <2>1. Holds_(path) \subseteq DOMAIN pages /\ DOMAIN pages \subseteq Nat
    BY DEF Holds_
  <2>2. \E i \in Holds_(path) : \A j \in Holds_(path) : i <= j
    BY <1>2, <2>1, LeastOf
  <2>3. Opened(path).page \in Holds_(path) /\ Opened(path).pages = pages
    BY <1>2, <2>2 DEF Opened
  <2> QED
    BY <2>1, <2>3
<1>3. CASE Opened(path).pages = [pages EXCEPT ![page] = fresh] /\ Opened(path).page = page
  <2> HIDE DEF fresh
  <2>1. /\ [pages EXCEPT ![page] = fresh] \in Seq(Page)
        /\ DOMAIN [pages EXCEPT ![page] = fresh] = DOMAIN pages
        /\ \A i \in DOMAIN pages :
              [pages EXCEPT ![page] = fresh][i] = IF i = page THEN fresh ELSE pages[i]
    BY <1>1
  <2> QED
    BY <1>1, <1>3, <2>1
<1>4. CASE Opened(path).pages = Append(pages, fresh) /\ Opened(path).page = Len(pages) + 1
  <2> HIDE DEF fresh
  <2>1. /\ Append(pages, fresh) \in Seq(Page)
        /\ DOMAIN Append(pages, fresh) = 1 .. Len(pages) + 1 /\ Len(pages) \in Nat
        /\ \A i \in DOMAIN pages : Append(pages, fresh)[i] = pages[i]
    BY <1>1
  <2> QED
    BY <1>4, <2>1
<1> QED
  BY <1>2, <1>3, <1>4 DEF Opened

\* Whatever is jumped to, one tab changes, and begins or stands where it was
\* asked to.
LEMMA JumpedTyped ==
  ASSUME pages \in Seq(Page), page \in DOMAIN pages, NEW path \in PagePaths, NEW line \in Nat,
         Jumped(Opened(path), line)
  PROVE  /\ pages' \in Seq(Page) /\ page' \in DOMAIN pages'
         /\ \A i \in DOMAIN pages :
               \/ pages'[i] = pages[i]
               \/ i = page' /\ pages'[i].head \in {1, AtMost(line, pages'[i].path)}
<1> DEFINE at == Opened(path)
<1>1. /\ at.pages \in Seq(Page) /\ at.page \in DOMAIN at.pages
      /\ \A i \in DOMAIN pages : \/ at.pages[i] = pages[i]
                                 \/ i = at.page /\ at.pages[i].head = 1
  BY OpenedTyped
<1>2. page' = at.page /\ pages' = IF line = 0 THEN at.pages ELSE HeadAt(at.pages, at.page, line)
  BY DEF Jumped
<1> HIDE DEF at
<1>3. CASE line = 0
  BY <1>1, <1>2, <1>3
<1>4. CASE line # 0
  <2>1. /\ pages' \in Seq(Page) /\ DOMAIN pages' = DOMAIN at.pages
        /\ \A j \in DOMAIN at.pages : j # at.page => pages'[j] = at.pages[j]
        /\ pages'[at.page] = [path |-> at.pages[at.page].path,
                              head |-> AtMost(line, at.pages[at.page].path)]
    BY <1>1, <1>2, <1>4, HeadAtMoves
  <2>2. \A i \in DOMAIN pages : i # at.page => i \in DOMAIN at.pages /\ pages'[i] = pages[i]
    <3>1. ASSUME NEW i \in DOMAIN pages, i # at.page PROVE i \in DOMAIN at.pages
      BY <3>1 DEF at, Opened, Holds_
    <3> QED
      BY <1>1, <2>1, <3>1
  <2>3. pages'[page'].head = AtMost(line, pages'[page'].path)
    BY <1>2, <2>1
  <2> QED
    BY <1>1, <1>2, <2>1, <2>2, <2>3
<1> QED
  BY <1>3, <1>4

\* The place in front is one of a text.
LEMMA HereTyped == Typed => Here_ \in Seq(Page)
  BY DEF Typed, Here_

-----------------------------------------------------------------------------
(* The finder and its preview.                                             *)

\* Every query names a line, or 0 for none.
LEMMA QueriesTyped ==
  \A query \in Queries \cup {NoQuery, Colon, Palette} : query.line \in Nat
  BY FinderAssumption DEF NoQuery, Colon, Palette, Asking

\* The finder is opened with no query.
LEMMA ReopenedShape ==
  ASSUME FinderShape(finder), finder.token \in Nat
  PROVE  /\ FinderShape(Reopened)
         /\ Reopened.query = NoQuery /\ Reopened.open = TRUE /\ Reopened.line = finder.line
         /\ Reopened.token = finder.token + 1
<1>1. PICK query, stamp, none :
         /\ query = NoQuery /\ stamp = finder.token + 1
         /\ Reopened = [finder EXCEPT !.open = TRUE, !.query = query, !.entries = none,
                                      !.filtered = none, !.selected = 1, !.token = stamp,
                                      !.remote = FALSE]
  BY DEF Reopened
<1>2. Reopened = [open |-> TRUE, query |-> query, entries |-> none, filtered |-> none,
                  selected |-> 1, token |-> stamp, remote |-> FALSE,
                  line |-> finder.line, direct |-> finder.direct]
  BY <1>1 DEF FinderShape
<1> QED
  BY <1>1, <1>2 DEF FinderShape

\* A key in it only changes the query and what it finds.
LEMMA RefilteredShape ==
  ASSUME NEW f, FinderShape(f), NEW query, NEW entries
  PROVE  LET g == Refiltered(f, query, entries)
         IN  /\ FinderShape(g) /\ g.query = query /\ g.open = f.open /\ g.token = f.token
             /\ g.line = IF query.mode = "files" THEN query.line ELSE 0
<1>1. PICK filtered, line, direct :
         /\ Refiltered(f, query, entries) =
                [f EXCEPT !.query = query, !.entries = entries, !.selected = 1,
                          !.filtered = filtered, !.line = line, !.direct = direct]
         /\ line = IF query.mode = "files" THEN query.line ELSE 0
  BY DEF Refiltered
<1>2. Refiltered(f, query, entries) =
          [open |-> f.open, query |-> query, entries |-> entries, filtered |-> filtered,
           selected |-> 1, token |-> f.token, remote |-> f.remote, line |-> line,
           direct |-> direct]
  BY <1>1 DEF FinderShape
<1> QED
  BY <1>1, <1>2 DEF FinderShape

\* A line typed after a colon is shown in the tab that is remembered.
LEMMA PreviewedTyped ==
  ASSUME pages \in Seq(Page), NEW query, query.line \in Nat, NEW kept
  PROVE  Previewed(query, kept) \in Seq(Page) /\ DOMAIN Previewed(query, kept) = DOMAIN pages
  BY HeadAtMoves DEF Previewed

\* A preview keeps what the tabs were known.
LEMMA PreviewedKnown ==
  ASSUME pages \in Seq(Page), NEW before \in Seq(Page), NEW query, query.line \in Nat,
         query.mode = "goto", NEW kept, \A k, l \in kept : k = l,
         NEW old, Known(pages, old, kept, before)
  PROVE  Known(Previewed(query, kept), query, kept, before)
<1>1. CASE query.line = 0 \/ kept = {}
  BY <1>1 DEF Previewed, Known
<1>2. CASE query.line # 0 /\ kept # {}
  <2>1. PICK k \in kept : kept = {k} /\ (CHOOSE l \in kept : TRUE) = k
    BY <1>2
  <2>2. Previewed(query, kept) = HeadAt(pages, k.tab, query.line)
    BY <1>2, <2>1 DEF Previewed
  <2> DEFINE now == HeadAt(pages, k.tab, query.line)
  <2>3. /\ DOMAIN now = DOMAIN pages
        /\ \A j \in DOMAIN pages : j # k.tab => now[j] = pages[j]
        /\ k.tab \in DOMAIN pages => now[k.tab] =
               [path |-> pages[k.tab].path, head |-> AtMost(query.line, pages[k.tab].path)]
    BY HeadAtMoves
  <2> HIDE DEF now
  <2>4. DOMAIN now = DOMAIN before
    BY <2>3 DEF Known
  <2>5. k.tab \in DOMAIN before => now[k.tab].path = pages[k.tab].path
                                   /\ now[k.tab].head = AtMost(query.line, now[k.tab].path)
    BY <2>3, <2>4
  <2>6. ASSUME NEW i \in DOMAIN before
        PROVE  now[i] = before[i] \/ (now[i].path = before[i].path /\ \E l \in kept : l.tab = i)
    BY <2>1, <2>3, <2>4, <2>5 DEF Known
  <2>7. \A l \in kept : l.tab \in DOMAIN before =>
            l.head = before[l.tab].head /\ now[l.tab].head = AtMost(query.line, now[l.tab].path)
    BY <2>1, <2>5 DEF Known
  <2>8. Known(now, query, kept, before)
    BY <2>4, <2>6, <2>7 DEF Known
  <2> QED
    BY <2>2, <2>8 DEF now
<1> QED
  BY <1>1, <1>2

\* Putting a preview back leaves tabs of texts.
LEMMA RestoredTyped ==
  ASSUME pages \in Seq(Page), \A k \in preview : k.head \in Nat
  PROVE  Restored \in Seq(Page) /\ DOMAIN Restored = DOMAIN pages
<1>1. CASE preview = {}
  BY <1>1 DEF Restored
<1>2. CASE preview # {}
  <2>1. PICK k \in preview : Restored = HeadAt(pages, k.tab, k.head)
    BY <1>2 DEF Restored
  <2> QED
    BY <2>1, HeadAtMoves
<1> QED
  BY <1>1, <1>2

\* What is known to have been is put back.
LEMMA RestoredIsBefore ==
  ASSUME pages \in Seq(Page), beforeGoto \in Seq(Page), \A k, l \in preview : k = l,
         NEW query, Known(pages, query, preview, beforeGoto)
  PROVE  Restored = beforeGoto
<1>1. \A i \in DOMAIN beforeGoto : beforeGoto[i] \in Page
  OBVIOUS
<1>2. CASE preview = {}
  <2>1. DOMAIN pages = DOMAIN beforeGoto /\ \A i \in DOMAIN pages : pages[i] = beforeGoto[i]
    BY <1>2 DEF Known
  <2> QED
    BY <1>2, <2>1 DEF Restored
<1>3. CASE preview # {}
  <2>1. PICK k \in preview : preview = {k} /\ (CHOOSE l \in preview : TRUE) = k
    BY <1>3
  <2>2. Restored = HeadAt(pages, k.tab, k.head)
    BY <1>3, <2>1 DEF Restored
  <2>3. CASE k.tab \notin DOMAIN beforeGoto
    <3>1. Restored = pages
      BY <2>2, <2>3 DEF HeadAt, Known
    <3>2. DOMAIN pages = DOMAIN beforeGoto /\ \A i \in DOMAIN pages : pages[i] = beforeGoto[i]
      BY <2>1, <2>3 DEF Known
    <3> QED
      BY <3>1, <3>2
  <2>4. CASE k.tab \in DOMAIN beforeGoto
    <3>1. /\ DOMAIN pages = DOMAIN beforeGoto
          /\ k.head = beforeGoto[k.tab].head
          /\ pages[k.tab].path = beforeGoto[k.tab].path
          /\ \A i \in DOMAIN pages : i # k.tab => pages[i] = beforeGoto[i]
      BY <2>1, <2>4 DEF Known
    <3>2. /\ k.head \in Nat /\ beforeGoto[k.tab].path \in PagePaths
          /\ k.head <= Last_(beforeGoto[k.tab].path)
          /\ beforeGoto[k.tab] = [path |-> beforeGoto[k.tab].path, head |-> k.head]
      BY <1>1, <2>4, <3>1 DEF Page
    <3>3. AtMost(k.head, pages[k.tab].path) = k.head
      BY <3>1, <3>2, AtMostTyped
    <3>4. /\ Restored \in Seq(Page) /\ DOMAIN Restored = DOMAIN pages
          /\ \A j \in DOMAIN pages : j # k.tab => Restored[j] = pages[j]
          /\ Restored[k.tab] = [path |-> pages[k.tab].path,
                                head |-> AtMost(k.head, pages[k.tab].path)]
      BY <2>2, <2>4, <3>1, <3>2, HeadAtMoves
    <3>5. \A i \in DOMAIN Restored : Restored[i] = beforeGoto[i]
      BY <3>1, <3>2, <3>3, <3>4
    <3> QED
      BY <3>1, <3>4, <3>5
  <2> QED
    BY <2>3, <2>4
<1> QED
  BY <1>2, <1>3

\* What is remembered of the tab in front is what it is.
LEMMA RememberedKnown ==
  ASSUME Typed
  PROVE  /\ \A k, l \in Remembered : k = l
         /\ \A k \in Remembered : k.head \in Nat
         /\ Known(pages, NoQuery, Remembered, pages) /\ Known(pages, Colon, Remembered, pages)
<1>1. pages[page].head \in Nat
  BY DEF Typed, Page
<1> QED
  BY <1>1 DEF Remembered, Known, NoQuery, Colon, Asking

-----------------------------------------------------------------------------
(* The steps.                                                              *)

\* Nothing is previewed at first.
LEMMA InitPreviewing == FinderInit => Previewing
<1> SUFFICES ASSUME FinderInit PROVE Previewing
  OBVIOUS
<1>1. pages \in Seq(Page) /\ page \in DOMAIN pages
  <2>1. CASE pages = <<[path |-> Nowhere, head |-> 1]>>
    <3>1. [path |-> Nowhere, head |-> 1] \in Page
      BY DEF Page, PagePaths, Last_
    <3> QED
      BY <2>1, <3>1 DEF FinderInit
  <2>2. CASE pages = [i \in 1 .. 2 |-> [path |-> Walked[i], head |-> i]]
    <3>1. \A i \in 1 .. 2 : [path |-> Walked[i], head |-> i] \in Page
      <4> SUFFICES ASSUME NEW i \in 1 .. 2 PROVE [path |-> Walked[i], head |-> i] \in Page
        OBVIOUS
      <4>1. Walked[i] \in DOMAIN Lines /\ i <= Lines[Walked[i]] /\ Lines[Walked[i]] \in Nat \ {0}
        BY FinderAssumption
      <4>2. i <= Last_(Walked[i])
        BY <4>1, FinderAssumption DEF Last_
      <4> QED
        BY <4>1, <4>2 DEF Page, PagePaths
    <3>2. pages \in [1 .. 2 -> Page]
      BY <2>2, <3>1
    <3>3. pages \in Seq(Page) /\ DOMAIN pages = 1 .. 2
      BY <3>2, SeqDef
    <3> QED
      BY <3>3 DEF FinderInit
  <2> QED
    BY <2>1, <2>2 DEF FinderInit
<1>2. PreviewShape(finder, preview) /\ ~finder.open
  BY DEF FinderInit, PreviewShape, FinderShape, NoQuery, Asking
<1>3. Typed
  BY <1>1, <1>2 DEF FinderInit, Typed
<1> QED
  BY <1>2, <1>3 DEF Previewing

\* Elsewhere in the editor: the finder stays as it is.
LEMMA EditorSteps ==
  ASSUME Previewing,
         \/ GoBack \/ GoForward \/ ClickElsewhere
         \/ \E i \in DOMAIN pages : ClickTab(i) \/ CloseTab(i)
         \/ \E line \in 1 .. Last_(pages[page].path) : ClickText(line)
  PROVE  Previewing'
<1> USE DEF Previewing
<1>1. ASSUME NEW place \in Page, Revisit(place)
      PROVE  /\ pages' \in Seq(Page) /\ page' \in DOMAIN pages' /\ disturbed'
             /\ UNCHANGED <<finder, preview, beforeGoto>>
  <2>1. place.path \in PagePaths /\ BeforeEnd(place).head \in Nat
    <3>1. place = [path |-> place.path, head |-> place.head] /\ place.head \in Nat
      BY DEF Page
    <3>2. BeforeEnd(place).head =
              IF place.head = Lines[place.path] /\ place.head > 1 THEN place.head - 1
              ELSE place.head
      BY <3>1 DEF BeforeEnd
    <3> QED
      BY <3>1, <3>2 DEF Page
  <2> QED
    BY <1>1, <2>1, JumpedTyped DEF Revisit, Typed
<1>2. CASE GoBack
  <2>1. /\ Last(visitedBack) \in Page /\ Front(visitedBack) \in Seq(Page)
        /\ visitedFwd \o Here_ \in Seq(Page)
    BY <1>2, HereTyped DEF GoBack, Typed, Last, Front
  <2> QED
    BY <1>1, <1>2, <2>1 DEF GoBack, Typed
<1>3. CASE GoForward
  <2>1. /\ Last(visitedFwd) \in Page /\ Front(visitedFwd) \in Seq(Page)
        /\ visitedBack \o Here_ \in Seq(Page)
    BY <1>3, HereTyped DEF GoForward, Typed, Last, Front
  <2> QED
    BY <1>1, <1>3, <2>1 DEF GoForward, Typed
<1>4. CASE ClickElsewhere
  BY <1>4 DEF ClickElsewhere, Typed
<1>5. ASSUME NEW i \in DOMAIN pages, ClickTab(i) PROVE Previewing'
  BY <1>5 DEF ClickTab, Typed
<1>6. ASSUME NEW i \in DOMAIN pages, CloseTab(i) PROVE Previewing'
  <2>1. /\ RemoveAt(pages, i) \in Seq(Page)
        /\ DOMAIN RemoveAt(pages, i) = 1 .. Len(pages) - 1
        /\ Len(pages) \in Nat
    <3> DEFINE left == SubSeq(pages, 1, i - 1)
               right == SubSeq(pages, i + 1, Len(pages))
    <3>1. pages \in Seq(Page) /\ Len(pages) \in Nat /\ i \in 1 .. Len(pages)
      BY DEF Typed
    <3>2. /\ left \in Seq(Page) /\ Len(left) = i - 1
          /\ right \in Seq(Page) /\ Len(right) = Len(pages) - i
      BY <3>1
    <3> HIDE DEF left, right
    <3>3. left \o right \in Seq(Page) /\ Len(left \o right) = Len(pages) - 1
      BY <3>1, <3>2
    <3>4. RemoveAt(pages, i) = left \o right
      BY DEF RemoveAt, left, right
    <3> QED
      BY <3>1, <3>3, <3>4
  <2>2. /\ pages' = RemoveAt(pages, i) /\ disturbed'
        /\ page' = IF page > Len(pages) - 1 THEN Len(pages) - 1 ELSE page
        /\ UNCHANGED <<finder, preview, visitedBack, visitedFwd, beforeGoto>>
        /\ Len(pages) > 1
    BY <1>6 DEF CloseTab
  <2>3. page' \in DOMAIN pages'
    BY <2>1, <2>2 DEF Typed
  <2> QED
    BY <2>1, <2>2, <2>3 DEF Typed
<1>7. ASSUME NEW line \in 1 .. Last_(pages[page].path), ClickText(line) PROVE Previewing'
  <2>1. line \in Nat
    BY AtMostTyped DEF Typed, Page
  <2> QED
    BY <1>7, <2>1, HeadAtMoves DEF ClickText, Typed
<1> QED
  BY <1>2, <1>3, <1>4, <1>5, <1>6, <1>7

\* Opening the finder.
LEMMA OpeningSteps ==
  ASSUME Previewing, OpenFinder \/ OpenPalette \/ OpenGoto
  PROVE  Previewing' /\ finder'.token # finder.token
<1>1. PreviewShape(finder, preview) /\ FinderShape(finder)
  BY DEF Previewing, Typed, PreviewShape
<1>2. /\ FinderShape(Reopened) /\ Reopened.query = NoQuery /\ Reopened.open = TRUE
      /\ Reopened.line \in Nat /\ Reopened.token \in Nat /\ Reopened.token # finder.token
  <2>1. finder.token \in Nat /\ finder.line \in Nat
    BY <1>1 DEF PreviewShape
  <2>2. finder.token + 1 # finder.token /\ finder.token + 1 \in Nat
    BY <2>1
  <2> QED
    BY <1>1, <2>1, <2>2, ReopenedShape
<1>3. CASE OpenFinder
  <2>1. PreviewShape(Reopened, preview) /\ Reopened.query.mode # "goto"
    BY <1>2 DEF PreviewShape, NoQuery, Asking
  <2> QED
    BY <1>2, <1>3, <2>1 DEF OpenFinder, Previewing, Typed
<1>4. ASSUME NEW query \in {Palette, Colon}, NEW kept
      PROVE  LET f == Refiltered(Reopened, query, <<>>)
             IN  /\ PreviewShape(f, kept) /\ f.query = query /\ f.token # finder.token /\ f.open = TRUE
  <2>1. query.line = 0 /\ query.mode # "files"
    BY DEF Palette, Colon, Asking
  <2> QED
    BY <1>2, <2>1, RefilteredShape DEF PreviewShape
<1>5. CASE OpenPalette
  <2>1. Palette.mode # "goto"
    BY DEF Palette, Asking
  <2> QED
    BY <1>4, <1>5, <2>1 DEF OpenPalette, Previewing, Typed
<1>6. CASE OpenGoto
  <2>1. Typed
    BY DEF Previewing
  <2>2. /\ preview' = Remembered /\ beforeGoto' = pages
        /\ finder' = Refiltered(Reopened, Colon, <<>>)
        /\ UNCHANGED <<pages, page, visitedBack, visitedFwd>>
    BY <1>6 DEF OpenGoto
  <2>3. PreviewShape(finder', preview') /\ finder'.query = Colon /\ finder'.token # finder.token
    BY <1>4, <2>2
  <2>4. Typed'
    BY <2>1, <2>2, <2>3, RememberedKnown DEF Typed
  <2> QED
    BY <2>1, <2>2, <2>3, <2>4, RememberedKnown DEF Previewing
<1> QED
  BY <1>3, <1>5, <1>6

\* A key in the finder: a line is previewed, or another one.
LEMMA TypeQueryStep ==
  ASSUME Previewing, NEW query \in Queries, TypeQuery(query)
  PROVE  /\ Previewing'
         /\ finder.open /\ finder.query.mode = "goto" /\ ~disturbed
                /\ finder'.query.mode # "goto" => pages' = beforeGoto
<1> DEFINE was  == finder.query.mode = "goto"
           is   == query.mode = "goto"
           kept == IF is /\ ~was /\ preview = {} THEN Remembered ELSE preview
<1>1. /\ finder' = Refiltered(finder, query, finder.entries) /\ finder.open
      /\ preview' = IF was /\ ~is THEN {} ELSE kept
      /\ pages' = IF was /\ ~is THEN Restored ELSE Previewed(query, kept)
      /\ beforeGoto' = IF is /\ ~was THEN pages ELSE beforeGoto
      /\ disturbed' = IF is /\ ~was THEN preview # {} ELSE disturbed
      /\ UNCHANGED <<page, visitedBack, visitedFwd>>
  BY DEF TypeQuery
<1>2. Typed
  BY DEF Previewing
<1>3. query.line \in Nat
  BY QueriesTyped
<1>4. PreviewShape(finder', preview') /\ finder'.query = query /\ finder'.open
  BY <1>1, <1>2, <1>3, RefilteredShape DEF Typed, PreviewShape
<1>5. (\A k, l \in kept : k = l) /\ \A k \in kept : k.head \in Nat
  BY <1>2, RememberedKnown DEF Typed
<1>6. pages' \in Seq(Page) /\ DOMAIN pages' = DOMAIN pages
  BY <1>1, <1>2, <1>3, PreviewedTyped, RestoredTyped DEF Typed
<1>7. Typed'
  <2> HIDE DEF kept
  <2>1. (\A k, l \in preview' : k = l) /\ \A k \in preview' : k.head \in Nat
    BY <1>1, <1>5
  <2>2. beforeGoto' \in Seq(Page)
    BY <1>1, <1>2 DEF Typed
  <2> QED
    BY <1>1, <1>2, <1>4, <1>6, <2>1, <2>2 DEF Typed
<1>8. ASSUME is, ~disturbed' PROVE Known(pages', query, preview', beforeGoto')
  <2>1. pages \in Seq(Page) /\ beforeGoto \in Seq(Page)
    BY <1>2 DEF Typed
  <2>2. pages' = Previewed(query, kept) /\ preview' = kept
    BY <1>1, <1>8
  <2>3. CASE was
    <3>1. Known(pages, finder.query, preview, beforeGoto) /\ kept = preview
      BY <1>1, <1>8, <2>3 DEF Previewing
    <3> HIDE DEF kept
    <3>2. Known(Previewed(query, kept), query, kept, beforeGoto)
      BY <1>3, <1>5, <1>8, <2>1, <3>1, PreviewedKnown
    <3> QED
      BY <1>1, <2>2, <2>3, <3>2
  <2>4. CASE ~was
    <3>1. kept = Remembered
      BY <1>1, <1>8, <2>4
    <3>2. Known(pages, NoQuery, kept, pages)
      BY <1>2, <3>1, RememberedKnown
    <3> HIDE DEF kept
    <3>3. Known(Previewed(query, kept), query, kept, pages)
      BY <1>3, <1>5, <1>8, <2>1, <3>2, PreviewedKnown
    <3> QED
      BY <1>1, <1>8, <2>2, <2>4, <3>3
  <2> QED
    BY <2>3, <2>4
<1>9. ASSUME was, ~is, ~disturbed PROVE pages' = beforeGoto
  <2>1. Known(pages, finder.query, preview, beforeGoto)
    BY <1>1, <1>9 DEF Previewing
  <2> QED
    BY <1>1, <1>2, <1>9, <2>1, RestoredIsBefore DEF Typed
<1> QED
  BY <1>4, <1>7, <1>8, <1>9 DEF Previewing

\* Escape puts the preview back.
LEMMA EscapeStep ==
  ASSUME Previewing, Escape
  PROVE  /\ Previewing'
         /\ finder.query.mode = "goto" /\ ~disturbed => pages' = beforeGoto
<1>1. Typed
  BY DEF Previewing
<1>2. /\ FinderShape(finder') /\ finder'.query = finder.query /\ finder'.open = FALSE
      /\ finder'.line = finder.line /\ finder'.token = finder.token
  <2>1. finder' = [open |-> FALSE, query |-> finder.query, entries |-> finder.entries,
                   filtered |-> finder.filtered, selected |-> finder.selected,
                   token |-> finder.token, remote |-> FALSE, line |-> finder.line,
                   direct |-> finder.direct]
    BY <1>1 DEF Typed, PreviewShape, FinderShape, Escape
  <2> QED
    BY <2>1 DEF FinderShape
<1>3. pages' \in Seq(Page) /\ DOMAIN pages' = DOMAIN pages
  BY <1>1, RestoredTyped DEF Typed, Escape
<1>4. /\ preview' = IF finder.query.mode = "goto" THEN {} ELSE preview
      /\ UNCHANGED <<page, visitedBack, visitedFwd, beforeGoto>>
  BY DEF Escape
<1>5. PreviewShape(finder', preview')
  BY <1>1, <1>2, <1>4 DEF Typed, PreviewShape
<1>6. Typed'
  BY <1>1, <1>3, <1>4, <1>5 DEF Typed
<1>7. ASSUME finder.query.mode = "goto", ~disturbed PROVE pages' = beforeGoto
  <2>1. Known(pages, finder.query, preview, beforeGoto) /\ pages' = Restored
    BY <1>7 DEF Previewing, Escape
  <2> QED
    BY <1>1, <2>1, RestoredIsBefore DEF Typed
<1> QED
  BY <1>2, <1>6, <1>7 DEF Previewing

\* Enter in go to line.
LEMMA GoToLineStep ==
  ASSUME Previewing, GoToLine
  PROVE  /\ Previewing'
         /\ ~disturbed => \A i \in DOMAIN pages :
                \/ pages'[i] = beforeGoto[i]
                \/ /\ i \in {k.tab : k \in preview}
                   /\ pages'[i].head = AtMost(finder.query.line, pages[i].path)
<1>1. Typed
  BY DEF Previewing
<1>2. /\ FinderShape(finder') /\ finder'.query = finder.query /\ finder'.open = FALSE
      /\ finder'.line = finder.line /\ finder'.token = finder.token
  <2>1. finder' = [open |-> FALSE, query |-> finder.query, entries |-> finder.entries,
                   filtered |-> finder.filtered, selected |-> finder.selected,
                   token |-> finder.token, remote |-> finder.remote, line |-> finder.line,
                   direct |-> finder.direct]
    BY <1>1 DEF Typed, PreviewShape, FinderShape, GoToLine
  <2> QED
    BY <2>1 DEF FinderShape
<1>3. /\ preview' = {} /\ UNCHANGED <<pages, page, visitedBack, visitedFwd, beforeGoto>>
      /\ finder.open /\ finder.query.mode = "goto" /\ finder.query.line # 0
  BY DEF GoToLine
<1>4. Typed'
  BY <1>1, <1>2, <1>3 DEF Typed, PreviewShape
<1>5. ASSUME ~disturbed, NEW i \in DOMAIN pages
      PROVE  \/ pages'[i] = beforeGoto[i]
             \/ /\ i \in {k.tab : k \in preview}
                /\ pages'[i].head = AtMost(finder.query.line, pages[i].path)
  <2>1. Known(pages, finder.query, preview, beforeGoto)
    BY <1>3, <1>5 DEF Previewing
  <2> QED
    BY <1>3, <2>1 DEF Known
<1> QED
  BY <1>2, <1>4, <1>5 DEF Previewing

\* What does not touch the texts.
LEMMA QuietSteps ==
  ASSUME Previewing, Arrow_ \/ RunCommand \/ EnterRemote
  PROVE  /\ Previewing'
         /\ finder.query.mode = "goto" => finder'.query = finder.query
<1>1. Typed
  BY DEF Previewing
<1>2. PICK open, query, entries, filtered, chosen, stamp, away :
         /\ finder' = [open |-> open, query |-> query, entries |-> entries,
                       filtered |-> filtered, selected |-> chosen, token |-> stamp,
                       remote |-> away, line |-> finder.line, direct |-> finder.direct]
         /\ stamp \in {finder.token, finder.token + 1}
         /\ \/ query = finder.query /\ open = finder.open
            \/ finder.query.mode # "goto" /\ query \in {finder.query, NoQuery}
  <2>1. CASE Arrow_
    <3>1. PICK k : finder' = [finder EXCEPT !.selected = k]
      BY <2>1 DEF Arrow_
    <3> QED
      BY <1>1, <3>1 DEF Typed, PreviewShape, FinderShape
  <2>2. CASE EnterRemote
    <3>1. finder' = [open |-> FALSE, query |-> finder.query, entries |-> finder.entries,
                       filtered |-> finder.filtered, selected |-> finder.selected, token |-> finder.token,
                       remote |-> FALSE, line |-> finder.line, direct |-> finder.direct]
      BY <1>1, <2>2 DEF EnterRemote, Typed, PreviewShape, FinderShape
    <3>2. finder.query.mode # "goto"
      BY <2>2 DEF EnterRemote
    <3> QED
      BY <3>1, <3>2
  <2>3. CASE RunCommand
    <3>4. finder.query.mode # "goto"
      BY <2>3 DEF RunCommand
    <3>1. CASE finder' = [finder EXCEPT !.open = FALSE]
      <4>1. finder' = [open |-> FALSE, query |-> finder.query, entries |-> finder.entries,
                       filtered |-> finder.filtered, selected |-> finder.selected, token |-> finder.token,
                       remote |-> finder.remote, line |-> finder.line, direct |-> finder.direct]
        BY <1>1, <3>1 DEF Typed, PreviewShape, FinderShape
      <4> QED
        BY <3>4, <4>1
    <3>2. PICK query, stamp : query = NoQuery /\ stamp = finder.token + 1
      OBVIOUS
    <3>3. CASE finder' = [finder EXCEPT !.query = query, !.token = stamp, !.remote = TRUE,
                                        !.entries = Hosts, !.filtered = Hosts, !.selected = 1]
      <4>1. finder' = [open |-> finder.open, query |-> query, entries |-> Hosts,
                       filtered |-> Hosts, selected |-> 1, token |-> stamp,
                       remote |-> TRUE, line |-> finder.line, direct |-> finder.direct]
        BY <1>1, <3>3 DEF Typed, PreviewShape, FinderShape
      <4> QED
        BY <3>2, <3>4, <4>1
    <3> QED
      BY <2>3, <3>1, <3>2, <3>3 DEF RunCommand
  <2> QED
    BY <2>1, <2>2, <2>3
<1>3. /\ FinderShape(finder') /\ finder'.query = query /\ finder'.open = open
      /\ finder'.line = finder.line /\ finder'.token = stamp
  BY <1>2 DEF FinderShape
<1>4. UNCHANGED <<pages, page, preview, visitedBack, visitedFwd, beforeGoto, disturbed>>
  BY DEF Arrow_, RunCommand, EnterRemote
<1>5. PreviewShape(finder', preview')
  <2>1. NoQuery.line = 0 /\ NoQuery.mode = "files"
    BY DEF NoQuery, Asking
  <2>2. PreviewShape(finder, preview) /\ stamp \in Nat
    BY <1>1, <1>2 DEF Typed, PreviewShape
  <2> QED
    BY <1>2, <1>3, <1>4, <2>1, <2>2 DEF PreviewShape
<1>6. Typed'
  BY <1>1, <1>4, <1>5 DEF Typed
<1>7. finder'.query.mode = "goto" => finder'.query = finder.query /\ finder'.open = finder.open
  BY <1>2, <1>3 DEF NoQuery, Asking
<1> QED
  BY <1>2, <1>3, <1>4, <1>6, <1>7 DEF Previewing

\* Enter on a file.
LEMMA EnterFileStep ==
  ASSUME Previewing, NEW path \in DOMAIN Lines, EnterFile(path)
  PROVE  /\ Previewing' /\ finder.query.mode # "goto"
         /\ finder.query # NoQuery => \A i \in DOMAIN pages : pages[i] # pages'[i]
                => i = page' /\ pages'[i].head \in {1, AtMost(finder.query.line, pages'[i].path)}
<1>1. Typed /\ path \in PagePaths
  BY DEF Previewing, PagePaths
<1>2. /\ FinderShape(finder') /\ finder'.query = finder.query /\ finder'.open = FALSE
      /\ finder'.line = finder.line /\ finder'.token = finder.token
  <2>1. finder' = [open |-> FALSE, query |-> finder.query, entries |-> finder.entries,
                   filtered |-> finder.filtered, selected |-> finder.selected,
                   token |-> finder.token, remote |-> finder.remote, line |-> finder.line,
                   direct |-> finder.direct]
    BY <1>1 DEF Typed, PreviewShape, FinderShape, EnterFile
  <2> QED
    BY <2>1 DEF FinderShape
<1>3. /\ finder.query.mode = "files" /\ RecordPlace /\ Jumped(Opened(path), finder.line)
      /\ UNCHANGED <<preview, beforeGoto>>
  BY DEF EnterFile
<1>4. /\ pages' \in Seq(Page) /\ page' \in DOMAIN pages'
      /\ \A i \in DOMAIN pages :
            \/ pages'[i] = pages[i]
            \/ i = page' /\ pages'[i].head \in {1, AtMost(finder.line, pages'[i].path)}
  BY <1>1, <1>3, JumpedTyped DEF Typed, PreviewShape
<1>5. visitedBack' \in Seq(Page) /\ visitedFwd' \in Seq(Page)
  BY <1>1, <1>3, HereTyped DEF RecordPlace, Typed
<1>6. Typed'
  BY <1>1, <1>2, <1>3, <1>4, <1>5 DEF Typed, PreviewShape
<1>7. finder.query # NoQuery => finder.line = finder.query.line
  BY <1>1, <1>3 DEF Typed, PreviewShape
<1> QED
  BY <1>2, <1>3, <1>4, <1>6, <1>7 DEF Previewing

\* A walk ends, perhaps after the finder was closed.
LEMMA OnFilesStep ==
  ASSUME Previewing, NEW walk \in walks, OnFiles(walk)
  PROVE  Previewing' /\ finder'.query = finder.query
<1>1. Typed /\ FinderShape(finder) /\ finder.query.line \in Nat
  BY DEF Previewing, Typed, PreviewShape
<1>2. UNCHANGED <<page, preview, visitedBack, visitedFwd, beforeGoto, disturbed>>
  BY DEF OnFiles
<1>3. CASE UNCHANGED <<finder, pages>>
  BY <1>1, <1>2, <1>3 DEF Previewing, Typed
<1>4. CASE finder' = [finder EXCEPT !.entries = Walked, !.filtered = Walked] /\ UNCHANGED pages
  <2>1. finder' = [open |-> finder.open, query |-> finder.query, entries |-> Walked,
                   filtered |-> Walked, selected |-> finder.selected,
                   token |-> finder.token, remote |-> finder.remote, line |-> finder.line,
                   direct |-> finder.direct]
    BY <1>1, <1>4 DEF FinderShape
  <2>2. /\ FinderShape(finder') /\ finder'.query = finder.query /\ finder'.open = finder.open
        /\ finder'.line = finder.line /\ finder'.token = finder.token
    BY <2>1 DEF FinderShape
  <2>3. Typed'
    BY <1>1, <1>2, <1>4, <2>2 DEF Typed, PreviewShape
  <2> QED
    BY <1>2, <1>4, <2>2, <2>3 DEF Previewing
<1>5. CASE /\ finder' = Refiltered(finder, finder.query, Walked)
           /\ pages' = Previewed(finder.query, preview)
  <2>1. /\ FinderShape(finder') /\ finder'.query = finder.query /\ finder'.open = finder.open
        /\ finder'.token = finder.token
        /\ finder'.line = IF finder.query.mode = "files" THEN finder.query.line ELSE 0
    BY <1>1, <1>5, RefilteredShape
  <2>2. pages' \in Seq(Page) /\ DOMAIN pages' = DOMAIN pages
    BY <1>1, <1>5, PreviewedTyped DEF Typed
  <2>3. Typed'
    BY <1>1, <1>2, <2>1, <2>2 DEF Typed, PreviewShape
  <2>4. ASSUME finder.open, finder.query.mode = "goto", ~disturbed
        PROVE  Known(pages', finder.query, preview, beforeGoto)
    <3>1. Known(pages, finder.query, preview, beforeGoto)
      BY <2>4 DEF Previewing
    <3> QED
      BY <1>1, <1>5, <2>4, <3>1, PreviewedKnown DEF Typed
  <2> QED
    BY <1>2, <2>1, <2>3, <2>4 DEF Previewing
<1> QED
  BY <1>3, <1>4, <1>5 DEF OnFiles

-----------------------------------------------------------------------------

\* What leaves go to line, by what it does to the tabs.
Undone ==
    /\ finder.open /\ finder.query.mode = "goto" /\ ~disturbed
          => /\ Escape => pages' = beforeGoto
             /\ (finder'.query.mode # "goto" /\ finder'.token = finder.token)
                    => pages' = beforeGoto
             /\ GoToLine => \A i \in DOMAIN pages :
                    \/ pages'[i] = beforeGoto[i]
                    \/ /\ i \in {k.tab : k \in preview}
                       /\ pages'[i].head = AtMost(finder.query.line, pages[i].path)
    /\ (finder.query # NoQuery /\ \E path \in DOMAIN Lines : EnterFile(path))
          => \A i \in DOMAIN pages : pages[i] # pages'[i]
                 => i = page' /\ pages'[i].head \in {1, AtMost(finder.query.line, pages'[i].path)}

\* Every step keeps what the tabs were known.
LEMMA StepPreviewing ==
  ASSUME Previewing, [FinderNext]_finderVars
  PROVE  Previewing' /\ Undone
<1>1. Escape /\ finder.query.mode = "goto" /\ ~disturbed => pages' = beforeGoto
  BY EscapeStep
<1>2. GoToLine /\ ~disturbed => \A i \in DOMAIN pages :
          \/ pages'[i] = beforeGoto[i]
          \/ /\ i \in {k.tab : k \in preview}
             /\ pages'[i].head = AtMost(finder.query.line, pages[i].path)
  BY GoToLineStep
<1>3. (finder.query # NoQuery /\ \E path \in DOMAIN Lines : EnterFile(path))
          => \A i \in DOMAIN pages : pages[i] # pages'[i]
                 => i = page' /\ pages'[i].head \in {1, AtMost(finder.query.line, pages'[i].path)}
  BY EnterFileStep
<1>4. /\ Previewing'
      /\ finder.open /\ finder.query.mode = "goto" /\ ~disturbed
         /\ finder'.query.mode # "goto" /\ finder'.token = finder.token => pages' = beforeGoto
  <2>1. CASE UNCHANGED finderVars
    BY <2>1 DEF finderVars, Previewing, Typed
  <2>2. CASE \/ GoBack \/ GoForward \/ ClickElsewhere
             \/ \E i \in DOMAIN pages : ClickTab(i) \/ CloseTab(i)
             \/ \E line \in 1 .. Last_(pages[page].path) : ClickText(line)
    <3>1. finder' = finder
      BY <2>2 DEF GoBack, GoForward, Revisit, ClickElsewhere, ClickTab, CloseTab, ClickText
    <3> QED
      BY <2>2, <3>1, EditorSteps
  <2>3. CASE OpenFinder \/ OpenPalette \/ OpenGoto
    BY <2>3, OpeningSteps
  <2>4. CASE \E query \in Queries : TypeQuery(query)
    BY <2>4, TypeQueryStep
  <2>5. CASE Escape
    BY <2>5, EscapeStep
  <2>6. CASE GoToLine
    <3>1. finder'.query = finder.query
      BY <2>6 DEF GoToLine, Previewing, Typed, PreviewShape, FinderShape
    <3> QED
      BY <2>6, <3>1, GoToLineStep
  <2>7. CASE Arrow_ \/ RunCommand \/ EnterRemote
    BY <2>7, QuietSteps
  <2>8. CASE \E path \in DOMAIN Lines : EnterFile(path)
    BY <2>8, EnterFileStep
  <2>9. CASE \E walk \in walks : OnFiles(walk)
    BY <2>9, OnFilesStep
  <2> QED
    BY <2>1, <2>2, <2>3, <2>4, <2>5, <2>6, <2>7, <2>8, <2>9 DEF FinderNext
<1> QED
  BY <1>1, <1>2, <1>3, <1>4 DEF Undone

(* Whatever is typed, clicked and walked meanwhile, leaving go to line puts *)
(* every tab back where it was or, with Enter, moves the one that was in    *)
(* front (refilter_quick_finder and goto_line_preview in main.rs).          *)
THEOREM PreviewAlwaysUndone == FinderSpec => PreviewIsUndone
<1>1. FinderInit => Previewing
  BY InitPreviewing
<1>2. Previewing /\ [FinderNext]_finderVars => Previewing' /\ Undone
  BY StepPreviewing
<1>3. FinderSpec => [][Undone]_finderVars
  BY <1>1, <1>2, PTL DEF FinderSpec
<1>4. [][Undone]_finderVars => PreviewIsUndone
  BY DEF Undone, PreviewIsUndone
<1> QED
  BY <1>3, <1>4

-----------------------------------------------------------------------------
(* The search panel: its answers and its replacements.                     *)


\* The folds of a search and of a replacement, over what is fixed.
Finding == INSTANCE FoldFacts WITH
    Op <- LAMBDA k, found, i :
              IF /\ Occurs(k.line, k.word, i)
                 /\ found = <<>> \/ found[Len(found)] + Len(k.word) <= i
              THEN Append(found, i) ELSE found
Reading == INSTANCE FoldFacts WITH
    Op <- LAMBDA k, found, row : found \o InRow(k.path, row, k.word)
Walking == INSTANCE FoldFacts WITH Op <- LAMBDA k, found, path : found \o InFile(path, k)
Adding == INSTANCE FoldFacts WITH Op <- LAMBDA k, sum, c : sum + k[c]
Replacing == INSTANCE FoldFacts WITH
    Op <- LAMBDA k, now, at : Put_(now, at, Copies(k[at]))
Joining == INSTANCE FoldFacts WITH
    Op <- LAMBDA k, whole, i : whole \o (Copies(k.times[i - 1]) \o Remains(k.line, i))

-----------------------------------------------------------------------------
(* Columns.                                                                *)

Widths == [Character -> Nat]

\* The column of a place is a number.
LEMMA ColumnTyped ==
  ASSUME NEW line \in Line, NEW at \in 0 .. Len(line), NEW width \in Widths
  PROVE  Column(line, at, width) \in Nat
<1> DEFINE q == SubSeq(line, 1, at)
<1>1. q \in Seq(Character)
  BY DEF Line
<1>2. Column(line, at, width) = Adding!Fold(width, 0, q)
  BY DEF Column, FoldLeft, MapThenFoldSet, Max, Adding!Fold, Adding!Iterates, Adding!Top
<1>3. \A a \in Nat, m \in Character : a + width[m] \in Nat
  BY DEF Widths
<1> HIDE DEF q
<1>4. Adding!Fold(width, 0, q) \in Nat
  BY <1>1, <1>3, Adding!FoldKeeps
<1> QED
  BY <1>2, <1>4

\* The next place is as much further as the character between them is long.
LEMMA ColumnGrows ==
  ASSUME NEW line \in Line, NEW at \in Nat, at + 1 <= Len(line), NEW width \in Widths
  PROVE  Column(line, at + 1, width) = Column(line, at, width) + width[line[at + 1]]
<1> DEFINE q == SubSeq(line, 1, at)
           r == SubSeq(line, 1, at + 1)
<1>1. q \in Seq(Character) /\ line[at + 1] \in Character
  BY DEF Line
<1>2. r = Append(q, line[at + 1])
  <2>0. line \in Seq(Character) /\ Len(line) \in Nat
    BY DEF Line
  <2>1. /\ r \in Seq(Character) /\ Len(r) = at + 1 /\ \A i \in 1 .. at + 1 : r[i] = line[i]
        /\ Len(q) = at /\ \A i \in 1 .. at : q[i] = line[i]
    BY <2>0
  <2> DEFINE l == Append(q, line[at + 1])
  <2>2. l \in Seq(Character) /\ Len(l) = at + 1 /\ \A i \in 1 .. at + 1 : l[i] = line[i]
    <3> HIDE DEF q
    <3> QED
      BY <1>1, <2>1
  <2> HIDE DEF q, r, l
  <2>3. r = l
    BY <2>1, <2>2, SeqEqual
  <2> QED
    BY <2>3 DEF l
<1>3. \A x \in Nat : Column(line, x, width) = Adding!Fold(width, 0, SubSeq(line, 1, x))
  BY DEF Column, FoldLeft, MapThenFoldSet, Max, Adding!Fold, Adding!Iterates, Adding!Top
<1>4. Column(line, at, width) = Adding!Fold(width, 0, q)
      /\ Column(line, at + 1, width) = Adding!Fold(width, 0, r)
  BY <1>3
<1> HIDE DEF q, r
<1>5. Adding!Fold(width, 0, Append(q, line[at + 1])) = Adding!Fold(width, 0, q) + width[line[at + 1]]
  BY <1>1, Adding!FoldAppend
<1> QED
  BY <1>2, <1>4, <1>5

\* No two places of a line have one column in bytes.
Apart_(line, at) == \A a \in 0 .. at : a # at => Column(line, a, Bytes) < Column(line, at, Bytes)
LEMMA ColumnsRise == ASSUME NEW line \in Line PROVE \A at \in 0 .. Len(line) : Apart_(line, at)
<1>0. Len(line) \in Nat /\ Bytes \in Widths /\ \A c \in Character : Bytes[c] >= 1
  <2>1. \A c \in Character : Bytes[c] \in 1 .. 4
    BY SearchAssumption
  <2>2. \A c \in Character : Bytes[c] \in Nat /\ Bytes[c] >= 1
    BY <2>1
  <2>3. Bytes \in Widths
    BY <2>2, SearchAssumption DEF Widths
  <2> QED
    BY <2>2, <2>3 DEF Line
<1> DEFINE I == {b \in Nat : b <= Len(line) => Apart_(line, b)}
<1>1. 0 \in I
  BY DEF Apart_
<1>2. ASSUME NEW b \in Nat, b \in I PROVE b + 1 \in I
  <2>1. CASE b + 1 <= Len(line)
    <3>1. /\ b \in 0 .. Len(line) /\ b + 1 \in 0 .. Len(line) /\ line[b + 1] \in Character
          /\ Apart_(line, b)
      BY <1>0, <1>2, <2>1 DEF Line
    <3>2. Column(line, b + 1, Bytes) = Column(line, b, Bytes) + Bytes[line[b + 1]]
      BY <1>0, <2>1, ColumnGrows
    <3>3. Column(line, b, Bytes) \in Nat /\ Bytes[line[b + 1]] \in Nat /\ Bytes[line[b + 1]] >= 1
      BY <1>0, <3>1, ColumnTyped DEF Widths
    <3>4. Column(line, b, Bytes) < Column(line, b + 1, Bytes)
      BY <3>2, <3>3
    <3>5. ASSUME NEW a \in 0 .. b + 1, a # b + 1
          PROVE  Column(line, a, Bytes) < Column(line, b + 1, Bytes)
      <4>1. a \in 0 .. b /\ a \in 0 .. Len(line)
        BY <1>0, <2>1, <3>5
      <4>2. Column(line, a, Bytes) \in Nat /\ Column(line, b + 1, Bytes) \in Nat
        BY <1>0, <3>1, <4>1, ColumnTyped
      <4>3. a = b \/ Column(line, a, Bytes) < Column(line, b, Bytes)
        BY <3>1, <4>1 DEF Apart_
      <4> QED
        BY <3>3, <3>4, <4>2, <4>3
    <3> QED
      BY <3>5 DEF Apart_
  <2>2. CASE ~(b + 1 <= Len(line))
    BY <2>2
  <2> QED
    BY <2>1, <2>2
<1>3. Nat \subseteq I
  <2> HIDE DEF I
  <2> QED
    BY <1>1, <1>2, Adding!SetInduction
<1> QED
  BY <1>3

\* So the column tells the place.
LEMMA ColumnsDiffer ==
  ASSUME NEW line \in Line, NEW a \in 0 .. Len(line), NEW b \in 0 .. Len(line)
  PROVE  Column(line, a, Bytes) = Column(line, b, Bytes) <=> a = b
<1>1. Apart_(line, a) /\ Apart_(line, b)
  BY ColumnsRise
<1>2. Column(line, a, Bytes) \in Nat /\ Column(line, b, Bytes) \in Nat
  BY ColumnTyped, SearchAssumption DEF Widths
<1>3. a \in 0 .. b \/ b \in 0 .. a
  BY DEF Line
<1> QED
  BY <1>1, <1>2, <1>3 DEF Apart_

-----------------------------------------------------------------------------
(* What a search returns is a list of places.                              *)

\* A line's matches are numbered by where they begin.
LEMMA FindsTyped ==
  ASSUME NEW line \in Line, NEW word \in Line
  PROVE  Finds(line, word) \in Seq(DOMAIN line)
<1> DEFINE k == [line |-> line, word |-> word]
           D == DOMAIN line
           q == [i \in D |-> i]
<1>1. \A h : Finds(h.line, h.word) = Finding!Fold(h, <<>>, [i \in DOMAIN h.line |-> i])
  BY DEF Finds, FoldLeftDomain, FoldLeft, MapThenFoldSet, Max,
         Finding!Fold, Finding!Iterates, Finding!Top
<1>2. k.line = line /\ k.word = word
  OBVIOUS
<1>3. q \in Seq(D) /\ <<>> \in Seq(D)
  BY DEF Line
<1> HIDE DEF k
<1>4. Finds(line, word) = Finding!Fold(k, <<>>, q)
  <2>1. Finds(k.line, k.word) = Finding!Fold(k, <<>>, [i \in DOMAIN k.line |-> i])
    BY <1>1
  <2> QED
    BY <1>2, <2>1
<1> HIDE DEF q, D
<1>5. \A a \in Seq(D), m \in D :
         (IF /\ Occurs(k.line, k.word, m)
             /\ a = <<>> \/ a[Len(a)] + Len(k.word) <= m
          THEN Append(a, m) ELSE a) \in Seq(D)
  OBVIOUS
<1>6. Finding!Fold(k, <<>>, q) \in Seq(D)
  BY <1>3, <1>5, Finding!FoldKeeps
<1> QED
  BY <1>4, <1>6 DEF D

\* A line in lower case is a line.
LEMMA LoweredTyped == \A line \in Line : Lowered(line) \in Line /\ Len(Lowered(line)) = Len(line)
<1> SUFFICES ASSUME NEW line \in Line
             PROVE  Lowered(line) \in Line /\ Len(Lowered(line)) = Len(line)
  OBVIOUS
<1>1. DOMAIN line = 1 .. Len(line) /\ Len(line) \in Nat /\ \A i \in DOMAIN line : line[i] \in Character
  BY DEF Line
<1>2. \A i \in DOMAIN line : Lower[line[i]] \in Character
  BY <1>1, SearchAssumption
<1> QED
  BY <1>1, <1>2 DEF Lowered, Line

\* Each is a place of its file.
LEMMA InRowTyped ==
  ASSUME content \in [FileNames -> File_], NEW path \in FileNames,
         NEW row \in DOMAIN content[path].lines, NEW word \in Line
  PROVE  InRow(path, row, word) \in Seq(Place_)
<1>1. /\ content[path].lines \in Seq(Line) /\ content[path].lines[row] \in Line /\ row \in Nat
  BY DEF File_
<1> DEFINE line   == Lowered(content[path].lines[row])
           starts == Finds(line, Lowered(word))
<1>2. line \in Line
  BY <1>1, LoweredTyped
<1>3. starts \in Seq(DOMAIN line)
  BY <1>2, LoweredTyped, FindsTyped
<1> DEFINE Found(i) == Hit(path, row, Column(line, starts[i] - 1, Bytes), starts[i] - 1)
<1>4. InRow(path, row, word) = [i \in DOMAIN starts |-> Found(i)]
  BY DEF InRow
<1> HIDE DEF line, starts
<1>5. ASSUME NEW i \in DOMAIN starts PROVE Found(i) \in Place_
  <2>1. starts[i] \in DOMAIN line
    BY <1>3, <1>5
  <2>2. starts[i] - 1 \in 0 .. Len(line)
    BY <1>2, <2>1 DEF Line
  <2>3. Column(line, starts[i] - 1, Bytes) \in Nat
    BY <1>2, <2>2, ColumnTyped, SearchAssumption DEF Widths
  <2> QED
    BY <1>1, <2>2, <2>3 DEF Hit, Place_, FileNames
<1>6. DOMAIN starts = 1 .. Len(starts) /\ Len(starts) \in Nat
  BY <1>3
<1>7. [i \in DOMAIN starts |-> Found(i)] \in Seq(Place_)
  <2> HIDE DEF Found
  <2> QED
    BY <1>5, <1>6
<1> QED
  BY <1>4, <1>7

\* The same for a file.
LEMMA InFileTyped ==
  ASSUME content \in [FileNames -> File_], NEW path \in FileNames, NEW word \in Line
  PROVE  InFile(path, word) \in Seq(Place_)
<1> DEFINE k == [path |-> path, word |-> word]
           rows == DOMAIN content[path].lines
           q == [i \in rows |-> i]
<1>1. \A h : InFile(h.path, h.word) =
                 Reading!Fold(h, <<>>, [i \in DOMAIN content[h.path].lines |-> i])
  BY DEF InFile, FoldLeftDomain, FoldLeft, MapThenFoldSet, Max,
         Reading!Fold, Reading!Iterates, Reading!Top
<1>2. k.path = path /\ k.word = word
  OBVIOUS
<1>3. q \in Seq(rows) /\ <<>> \in Seq(Place_)
  <2>1. content[path].lines \in Seq(Line)
    BY DEF File_
  <2> QED
    BY <2>1
<1> HIDE DEF k
<1>4. InFile(path, word) = Reading!Fold(k, <<>>, q)
  <2>1. InFile(k.path, k.word) =
            Reading!Fold(k, <<>>, [i \in DOMAIN content[k.path].lines |-> i])
    BY <1>1
  <2> QED
    BY <1>2, <2>1
<1>5. \A m \in rows : InRow(k.path, m, k.word) \in Seq(Place_)
  BY <1>2, InRowTyped
<1> HIDE DEF q, rows
<1>6. \A a \in Seq(Place_), m \in rows : a \o InRow(k.path, m, k.word) \in Seq(Place_)
  BY <1>5
<1>7. Reading!Fold(k, <<>>, q) \in Seq(Place_)
  BY <1>3, <1>6, Reading!FoldKeeps
<1> QED
  BY <1>4, <1>7

\* And for all of them.
LEMMA SearchTyped ==
  ASSUME content \in [FileNames -> File_], NEW order \in Seq(FileNames), NEW word \in Line
  PROVE  Search(word, order) \in Seq(Place_)
<1>1. <<>> \in Seq(Place_)
  OBVIOUS
<1>2. \A a \in Seq(Place_), m \in FileNames : a \o InFile(m, word) \in Seq(Place_)
  BY InFileTyped
<1>3. Walking!Fold(word, <<>>, order) \in Seq(Place_)
  BY <1>1, <1>2, Walking!FoldKeeps
<1>4. FoldLeft(LAMBDA found, path : found \o InFile(path, word), <<>>, order) =
          Walking!Fold(word, <<>>, order)
  BY DEF FoldLeft, MapThenFoldSet, Max, Walking!Fold, Walking!Iterates, Walking!Top
<1> QED
  BY <1>1, <1>3, <1>4 DEF Search

-----------------------------------------------------------------------------
(* Replace All: from the last place to the first is as if at once.         *)

\* Copies of the replacement are a line.
LEMMA CopiesTyped == \A n \in Nat : Copies(n) \in Line
<1> SUFFICES ASSUME NEW n \in Nat PROVE Copies(n) \in Line
  OBVIOUS
<1> DEFINE size == Len(Replacement)
<1>1. size \in Nat \ {0} /\ Replacement \in Seq(Character)
  BY SearchAssumption DEF Line
<1> HIDE DEF size
<1>2. \A a, b \in Nat : a * b \in Nat
  OBVIOUS
<1>3. n * size \in Nat
  BY <1>1, <1>2
<1>4. ASSUME NEW i \in 1 .. n * size PROVE Replacement[((i - 1) % size) + 1] \in Character
  <2>1. \A a \in Nat, b \in Nat \ {0} : a % b \in 0 .. b - 1
    OBVIOUS
  <2>2. i - 1 \in Nat
    BY <1>3
  <2>3. (i - 1) % size \in 0 .. size - 1
    BY <1>1, <2>1, <2>2
  <2>4. ((i - 1) % size) + 1 \in 1 .. size
    BY <1>1, <2>3
  <2> QED
    BY <1>1, <2>4 DEF size
<1>5. [i \in 1 .. n * size |-> Replacement[((i - 1) % size) + 1]] \in Seq(Character)
  BY <1>3, <1>4
<1> QED
  BY <1>5 DEF Copies, Line, size

\* What stands before the next place is untouched; what stands behind it is
\* what AtOnce makes of the rest.
Split_(now, line, m, whole, before) ==
    \E rest \in Line : /\ now = SubSeq(line, 1, m) \o rest
                       /\ whole = before \o rest

\* Concatenations may be grouped.
Grouped(a, b, c) == (a \o b) \o c = a \o (b \o c)
LEMMA Grouping ==
  ASSUME NEW S, NEW a \in Seq(S), NEW b \in Seq(S), NEW c \in Seq(S)
  PROVE  Grouped(a, b, c)
BY ConcatAssociative DEF Grouped

\* How often the replacement is put in at each place.
Times(line) == [0 .. Len(line) -> Nat]

\* What AtOnce makes of one place.
LEMMA PieceTyped ==
  ASSUME NEW line \in Line, NEW times \in Times(line), NEW i \in 1 .. Len(line) + 1
  PROVE  /\ Copies(times[i - 1]) \in Line
         /\ Remains(line, i) \in Line
         /\ Copies(times[i - 1]) \o Remains(line, i) \in Line
<1>0. Len(line) \in Nat /\ \A j \in 1 .. Len(line) : line[j] \in Character
  BY DEF Line
<1>1. Copies(times[i - 1]) \in Line
  <2>1. i - 1 \in 0 .. Len(line)
    BY <1>0
  <2>2. times[i - 1] \in Nat
    BY <2>1 DEF Times
  <2> QED
    BY <2>2, CopiesTyped
<1>2. Remains(line, i) \in Line
  <2>1. CASE i > Len(line)
    <3>1. Remains(line, i) = <<>> /\ <<>> \in Seq(Character)
      BY <2>1 DEF Remains
    <3> QED
      BY <3>1 DEF Line
  <2>2. CASE ~(i > Len(line))
    <3>1. line[i] \in Character
      BY <1>0, <2>2
    <3>2. <<line[i]>> \in Seq(Character)
      BY <3>1
    <3> QED
      BY <2>2, <3>2 DEF Line, Remains
  <2> QED
    BY <2>1, <2>2
<1>3. Copies(times[i - 1]) \o Remains(line, i) \in Line
  BY <1>1, <1>2, ConcatProperties DEF Line
<1> QED
  BY <1>1, <1>2, <1>3

\* The first: at the end of the line.
LEMMA SplitFirst ==
  ASSUME NEW line \in Line, NEW put \in Line, NEW before \in Line, NEW n, n = Len(line)
  PROVE  Split_(Put_(line, n, put), line, n, before \o (put \o Remains(line, n + 1)), before)
<1>0. n \in Nat /\ put \in Seq(Character)
  BY DEF Line
<1>1. SubSeq(line, n + 1, Len(line)) = <<>> /\ Remains(line, n + 1) = <<>>
  BY <1>0 DEF Remains, Line
<1>2. put \o <<>> = put
  BY <1>0, ConcatEmptySeq
<1>3. Put_(line, n, put) = SubSeq(line, 1, n) \o put
  BY <1>1, <1>2 DEF Put_
<1> QED
  BY <1>1, <1>2, <1>3 DEF Split_

\* Every other: before the character of its place.
LEMMA SplitNext ==
  ASSUME NEW line \in Line, NEW m \in 1 .. Len(line), NEW put \in Line,
         NEW now, NEW whole, NEW before \in Line,
         Split_(now, line, m, whole, before \o (put \o Remains(line, m)))
  PROVE  Split_(Put_(now, m - 1, put), line, m - 1, whole, before)
<1> DEFINE head == SubSeq(line, 1, m - 1)
           one  == <<line[m]>>
<1>0. /\ Len(line) \in Nat /\ line \in Seq(Character) /\ line[m] \in Character
      /\ one \in Seq(Character) /\ Len(one) = 1 /\ m - 1 \in Nat
  BY DEF Line
<1>1. put \in Seq(Character) /\ Remains(line, m) = one
  BY <1>0 DEF Line, Remains
<1>3. head \in Seq(Character) /\ Len(head) = m - 1
  BY <1>0
<1>4. SubSeq(line, 1, m) = head \o one
  <2>1. SubSeq(line, m, m) = one
    <3> DEFINE l == SubSeq(line, m, m)
    <3>1. l \in Seq(Character) /\ Len(l) = 1 /\ l[1] = line[m]
      BY <1>0
    <3> HIDE DEF l
    <3>2. \A i \in 1 .. Len(l) : l[i] = one[i]
      BY <3>1
    <3> HIDE DEF one
    <3>3. l = one
      BY <1>0, <3>1, <3>2, SeqEqual
    <3> QED
      BY <3>3 DEF l
  <2>2. SubSeq(line, 1, m - 1) \o SubSeq(line, (m - 1) + 1, m) = SubSeq(line, 1, m)
    BY <1>0, ConcatAdjacentSubSeq
  <2>3. (m - 1) + 1 = m
    BY <1>0
  <2> QED
    BY <2>1, <2>2, <2>3
<1> HIDE DEF head, one
<1>5. PICK rest \in Line : /\ now = SubSeq(line, 1, m) \o rest
                           /\ whole = (before \o (put \o one)) \o rest
  BY <1>1 DEF Split_
<1> DEFINE tail == one \o rest
           more == put \o tail
<1>6. rest \in Seq(Character) /\ before \in Seq(Character) /\ tail \in Seq(Character)
  BY <1>0, <1>5, ConcatProperties DEF Line
<1>7. now = head \o tail
  <2>1. Grouped(head, one, rest)
    BY <1>0, <1>3, <1>6, Grouping
  <2>2. (head \o one) \o rest = head \o (one \o rest)
    BY <2>1 DEF Grouped
  <2> QED
    BY <1>4, <1>5, <2>2
<1>8. more \in Seq(Character) /\ whole = before \o more
  <2>1. put \o one \in Seq(Character)
    BY <1>0, <1>1, ConcatProperties
  <2>2. whole = before \o ((put \o one) \o rest)
    <3>1. Grouped(before, put \o one, rest)
      BY <1>6, <2>1, Grouping
    <3> QED
      BY <1>5, <3>1 DEF Grouped
  <2>3. (put \o one) \o rest = more
    <3>1. Grouped(put, one, rest)
      BY <1>0, <1>1, <1>6, Grouping
    <3> QED
      BY <3>1 DEF Grouped
  <2>4. more \in Seq(Character)
    BY <1>1, <1>6, ConcatProperties
  <2> QED
    BY <2>2, <2>3, <2>4
<1> HIDE DEF tail
<1>9. Put_(now, m - 1, put) = head \o more
  <2>1. Len(now) = (m - 1) + Len(tail) /\ Len(tail) \in Nat /\ now \in Seq(Character)
    <3>1. /\ head \o tail \in Seq(Character)
          /\ Len(head \o tail) = Len(head) + Len(tail)
      BY <1>3, <1>6, ConcatProperties
    <3>2. Len(tail) \in Nat
      BY <1>6
    <3> QED
      BY <1>3, <1>7, <3>1, <3>2
  <2>2. SubSeq(now, 1, m - 1) = head
    <3> DEFINE l == SubSeq(now, 1, m - 1)
    <3>1. l \in Seq(Character) /\ Len(l) = m - 1 /\ \A i \in 1 .. m - 1 : l[i] = now[i]
      BY <1>0, <2>1
    <3>2. \A i \in 1 .. m - 1 : now[i] = head[i]
      BY <1>3, <1>6, <1>7, ConcatProperties
    <3> HIDE DEF l
    <3>3. l = head
      BY <1>3, <3>1, <3>2, SeqEqual
    <3> QED
      BY <3>3 DEF l
  <2>3. SubSeq(now, (m - 1) + 1, Len(now)) = tail
    <3> DEFINE l == SubSeq(now, (m - 1) + 1, Len(now))
    <3>1. /\ l \in Seq(Character) /\ Len(l) = Len(tail)
          /\ \A i \in 1 .. Len(tail) : l[i] = now[m - 1 + i]
      <4>1. PICK h \in Nat : h = m - 1
        BY <1>0
      <4>2. PICK t \in Nat : t = Len(tail)
        BY <2>1
      <4>3. Len(now) = h + t /\ l = SubSeq(now, h + 1, h + t)
        BY <2>1, <4>1, <4>2
      <4> HIDE DEF l
      <4>4. l \in Seq(Character) /\ Len(l) = t /\ \A i \in 1 .. t : l[i] = now[h + i]
        BY <2>1, <4>3
      <4> QED
        BY <4>1, <4>2, <4>4
    <3>2. \A i \in 1 .. Len(tail) : now[m - 1 + i] = tail[i]
      <4>1. ASSUME NEW i \in 1 .. Len(tail) PROVE now[m - 1 + i] = tail[i]
        <5>1. /\ m - 1 + i \in 1 .. Len(head) + Len(tail) /\ ~(m - 1 + i <= Len(head))
              /\ (m - 1 + i) - Len(head) = i
          BY <1>0, <1>3, <2>1
        <5> QED
          <6>1. (head \o tail)[m - 1 + i] = tail[(m - 1 + i) - Len(head)]
            BY <1>3, <1>6, <5>1, ConcatProperties
          <6> QED
            BY <1>7, <5>1, <6>1
      <4> QED
        BY <4>1
    <3> HIDE DEF l
    <3>3. l = tail
      BY <1>6, <3>1, <3>2, SeqEqual
    <3> QED
      BY <3>3 DEF l
  <2> QED
    BY <2>2, <2>3 DEF Put_
<1>10. more \in Line
  BY <1>8 DEF Line
<1> HIDE DEF more
<1> QED
  BY <1>8, <1>9, <1>10 DEF Split_, head

\* Replacing from the last place of a line to the first is replacing at once,
\* and leaves a line.
LEMMA ReplacedIsAtOnce ==
  ASSUME NEW line \in Line, NEW times \in Times(line)
  PROVE  ReplacedIn(line, times) = AtOnce(line, times) /\ ReplacedIn(line, times) \in Line
<1> DEFINE k == [line |-> line, times |-> times]
           p == [i \in 1 .. Len(line) + 1 |-> i]
           q == FromTheEnd(line)
           n == Len(line)
<1>0. n \in Nat /\ <<>> \in Seq(Character)
  BY DEF Line
<1>k. k.line = line /\ k.times = times
  OBVIOUS
<1>2. \A h : AtOnce(h.line, h.times)
                = Joining!Fold(h, <<>>, [i \in 1 .. Len(h.line) + 1 |-> i])
  BY DEF AtOnce, FoldLeft, MapThenFoldSet, Max,
         Joining!Fold, Joining!Iterates, Joining!Top
<1> HIDE DEF k
<1>3. ReplacedIn(line, times) = Replacing!Fold(times, line, q)
  BY DEF ReplacedIn, FoldLeft, MapThenFoldSet, Max,
         Replacing!Fold, Replacing!Iterates, Replacing!Top
<1>4. AtOnce(line, times) = Joining!Fold(k, <<>>, p)
  <2>1. AtOnce(k.line, k.times) = Joining!Fold(k, <<>>, [i \in 1 .. Len(k.line) + 1 |-> i])
    BY <1>2
  <2> QED
    BY <1>k, <2>1
<1>5. /\ q \in Seq(Nat) /\ Len(q) = n + 1 /\ \A j \in 1 .. n + 1 : q[j] = n + 1 - j
      /\ p \in Seq(Nat) /\ Len(p) = n + 1 /\ \A j \in 1 .. n + 1 : p[j] = j
  BY <1>0 DEF FromTheEnd
<1> HIDE DEF p, q, n
<1>6. PICK g : Replacing!Trace(g, times, line, q)
  BY <1>5, Replacing!FoldTrace
<1>7. PICK h : Joining!Trace(h, k, <<>>, p)
  BY <1>5, Joining!FoldTrace
<1>8. /\ g[0] = line /\ g[n + 1] = ReplacedIn(line, times)
      /\ \A j \in 1 .. n + 1 : g[j] = Put_(g[j - 1], n + 1 - j, Copies(times[n + 1 - j]))
  <2>1. ASSUME NEW j \in 1 .. n + 1
        PROVE  g[j] = Put_(g[j - 1], n + 1 - j, Copies(times[n + 1 - j]))
    BY <1>5, <1>6 DEF Replacing!Trace
  <2> QED
    BY <1>3, <1>5, <1>6, <2>1 DEF Replacing!Trace
<1>9. /\ h[0] = <<>> /\ h[n + 1] = AtOnce(line, times)
      /\ \A j \in 1 .. n + 1 : h[j] = h[j - 1] \o (Copies(times[j - 1]) \o Remains(line, j))
  <2>1. ASSUME NEW j \in 1 .. n + 1
        PROVE  h[j] = h[j - 1] \o (Copies(times[j - 1]) \o Remains(line, j))
    BY <1>5, <1>7, <1>k DEF Joining!Trace
  <2> QED
    BY <1>4, <1>5, <1>7, <2>1 DEF Joining!Trace
\* What is joined so far is a line.
<1>10. \A j \in 0 .. n + 1 : h[j] \in Line
  <2> DEFINE I == {j \in Nat : j <= n + 1 => h[j] \in Line}
  <2>1. 0 \in I
    BY <1>0, <1>9 DEF Line
  <2>2. ASSUME NEW j \in Nat, j \in I PROVE j + 1 \in I
    <3>1. CASE j + 1 <= n + 1
      <4>1. j + 1 \in 1 .. n + 1 /\ (j + 1) - 1 = j /\ h[j] \in Line
        BY <1>0, <2>2, <3>1
      <4>2. h[j + 1] = h[j] \o (Copies(times[j]) \o Remains(line, j + 1))
        BY <1>9, <4>1
      <4>3. Copies(times[j]) \o Remains(line, j + 1) \in Line
        <5>1. Copies(times[(j + 1) - 1]) \o Remains(line, j + 1) \in Line
          BY <4>1, PieceTyped DEF n
        <5> QED
          BY <4>1, <5>1
      <4>4. h[j + 1] \in Line
        BY <4>1, <4>2, <4>3, ConcatProperties DEF Line
      <4> QED
        BY <4>4
    <3>2. CASE ~(j + 1 <= n + 1)
      BY <3>2
    <3> QED
      BY <3>1, <3>2
  <2>3. Nat \subseteq I
    <3> HIDE DEF I
    <3> QED
      BY <2>1, <2>2, Joining!SetInduction
  <2> QED
    BY <1>0, <2>3
\* After j + 1 places, n - j characters are still as they were.
<1>11. \A j \in 0 .. n : Split_(g[j + 1], line, n - j, h[n + 1], h[n - j])
  <2> DEFINE I == {j \in Nat : j <= n => Split_(g[j + 1], line, n - j, h[n + 1], h[n - j])}
  <2>1. 0 \in I
    <3>1. g[1] = Put_(line, n, Copies(times[n]))
      <4>1. 1 \in 1 .. n + 1 /\ n + 1 - 1 = n /\ 1 - 1 = 0
        BY <1>0
      <4>2. g[1] = Put_(g[1 - 1], n + 1 - 1, Copies(times[n + 1 - 1]))
        BY <1>8, <4>1
      <4> QED
        BY <1>8, <4>1, <4>2
    <3>2. /\ h[n + 1] = h[n] \o (Copies(times[n]) \o Remains(line, n + 1))
          /\ Copies(times[n]) \in Line
      <4>1. n + 1 \in 1 .. n + 1 /\ (n + 1) - 1 = n
        BY <1>0
      <4>2. Copies(times[(n + 1) - 1]) \in Line
        BY <4>1, PieceTyped DEF n
      <4> QED
        BY <1>9, <4>1, <4>2
    <3>3. h[n] \in Line /\ n = Len(line)
      BY <1>0, <1>10 DEF n
    <3>4. Split_(g[1], line, n, h[n + 1], h[n])
      BY <3>1, <3>2, <3>3, SplitFirst
    <3> QED
      BY <1>0, <3>4
  <2>2. ASSUME NEW j \in Nat, j \in I PROVE j + 1 \in I
    <3>1. CASE j + 1 <= n
      <4>1. PICK m : m = n - j
        OBVIOUS
      <4>2. /\ m \in 1 .. n /\ m \in 1 .. n + 1 /\ m - 1 = n - (j + 1) /\ m - 1 \in 0 .. n + 1
            /\ (j + 1) + 1 \in 1 .. n + 1 /\ n + 1 - ((j + 1) + 1) = m - 1
            /\ ((j + 1) + 1) - 1 = j + 1 /\ j <= n
        BY <1>0, <3>1, <4>1
      <4>3. Split_(g[j + 1], line, m, h[n + 1], h[m])
        BY <2>2, <4>1, <4>2
      <4>4. h[m] = h[m - 1] \o (Copies(times[m - 1]) \o Remains(line, m))
        BY <1>9, <4>2
      <4>5. g[(j + 1) + 1] = Put_(g[j + 1], m - 1, Copies(times[m - 1]))
        <5>1. g[(j + 1) + 1] = Put_(g[((j + 1) + 1) - 1], n + 1 - ((j + 1) + 1),
                                    Copies(times[n + 1 - ((j + 1) + 1)]))
          BY <1>8, <4>2
        <5> QED
          BY <4>2, <5>1
      <4>6. h[m - 1] \in Line /\ m \in 1 .. Len(line) /\ Copies(times[m - 1]) \in Line
        <5>1. m \in 1 .. Len(line) + 1
          BY <4>2 DEF n
        <5> QED
          BY <1>10, <4>2, <5>1, PieceTyped DEF n
      <4>7. Split_(g[(j + 1) + 1], line, m - 1, h[n + 1], h[m - 1])
        BY <4>3, <4>4, <4>5, <4>6, SplitNext
      <4> QED
        BY <4>2, <4>7
    <3>2. CASE ~(j + 1 <= n)
      BY <3>2
    <3> QED
      BY <3>1, <3>2
  <2>3. Nat \subseteq I
    <3> HIDE DEF I
    <3> QED
      BY <2>1, <2>2, Joining!SetInduction
  <2> QED
    BY <1>0, <2>3
<1>12. Split_(g[n + 1], line, 0, h[n + 1], <<>>)
  <2>1. n \in 0 .. n /\ n - n = 0
    BY <1>0
  <2> QED
    BY <1>9, <1>11, <2>1
<1>13. PICK rest \in Line : /\ g[n + 1] = SubSeq(line, 1, 0) \o rest
                            /\ h[n + 1] = <<>> \o rest
  BY <1>12 DEF Split_
<1>14. SubSeq(line, 1, 0) = <<>>
  BY DEF Line
<1>15. h[n + 1] \in Line
  BY <1>0, <1>10
<1> QED
  BY <1>8, <1>9, <1>13, <1>14, <1>15

\* How often a place is named is a number.
LEMMA TimesTyped ==
  ASSUME results \in Seq(Place_), NEW path, NEW row, NEW line \in Line
  PROVE  TimesAt(path, row, line) \in Times(line) /\ NamedAt(path, row, line) \in Times(line)
<1>1. IsFiniteSet(DOMAIN results)
  <2>1. DOMAIN results = 1 .. Len(results) /\ Len(results) \in Nat
    OBVIOUS
  <2> QED
    BY <2>1, FS_Interval
<1>2. \A S \in SUBSET DOMAIN results : Cardinality(S) \in Nat
  BY <1>1, FS_Subset, FS_CardinalityType
<1>3. EntriesOf(path, row) \subseteq DOMAIN results
  BY DEF EntriesOf
<1>4. \A at : {k \in EntriesOf(path, row) : results[k].col = Column(line, at, Bytes)}
                  \in SUBSET DOMAIN results
  BY <1>3
<1>5. \A at : {k \in EntriesOf(path, row) : results[k].at = at} \in SUBSET DOMAIN results
  BY <1>3
<1>6. TimesAt(path, row, line) \in Times(line)
  BY <1>2, <1>4 DEF TimesAt, Times
<1>7. NamedAt(path, row, line) \in Times(line)
  BY <1>2, <1>5 DEF NamedAt, Times
<1> QED
  BY <1>6, <1>7

\* And a file stays a file.
LEMMA ReplacedTyped ==
  ASSUME results \in Seq(Place_), NEW path, content[path].lines \in Seq(Line)
  PROVE  Replaced(path) \in Seq(Line)
<1> DEFINE lines == content[path].lines
           Row(row) == ReplacedIn(lines[row], TimesAt(path, row, lines[row]))
<1>1. DOMAIN lines = 1 .. Len(lines) /\ Len(lines) \in Nat
  OBVIOUS
<1>2. ASSUME NEW row \in DOMAIN lines PROVE Row(row) \in Line
  <2>1. lines[row] \in Line
    BY <1>2
  <2> QED
    BY <2>1, TimesTyped, ReplacedIsAtOnce
<1>3. Replaced(path) = [row \in DOMAIN lines |-> Row(row)]
  BY DEF Replaced
<1> HIDE DEF Row, lines
<1> QED
  BY <1>1, <1>2, <1>3

-----------------------------------------------------------------------------
(* Searches and their answers.                                             *)

Asked   == [token : Nat, word : Line]
Answer_ == [token : Nat, word : Line, hits : Seq(Place_)]
SearchTypes ==
    /\ content \in [FileNames -> File_] /\ shownText \in [FileNames -> File_]
    /\ needle \in Line /\ results \in Seq(Place_) /\ selected \in Nat \ {0} /\ token \in Nat
    /\ searches \subseteq Asked /\ answers \in Seq(Answer_)

\* Every search has a number of its own, none is above the last; references
\* have none.
Numbered(asked, given, last) ==
    /\ \A a \in asked : a.token <= last /\ (a.token = 0 => a = References)
    /\ \A k \in DOMAIN given : given[k].token # 0 /\ given[k].token <= last
    /\ \A a, b \in asked : a.token = b.token => a = b
    /\ \A a \in asked : \A k \in DOMAIN given : a.token # given[k].token
    /\ \A k, l \in DOMAIN given : given[k].token = given[l].token => k = l

\* While the last search runs or its answer is on the way, and no references
\* came, nothing is shown.
StillAwaited ==
    /\ results # <<>> => answered[1] = token
    /\ searching => token # 0 /\ Under_(token)
    /\ token # 0 /\ Under_(token) /\ ~overtaken =>
           searching /\ results = <<>> /\ selected = 1
    /\ ~overtaken /\ results # <<>> => selected \in DOMAIN results

Searched == SearchTypes /\ Numbered(searches, answers, token) /\ StillAwaited

Pending(asked, given, number) ==
    \/ \E a \in asked : a.token = number
    \/ \E k \in DOMAIN given : given[k].token = number

\* A search begins with the next number.
LEMMA BegunNumbered ==
  ASSUME NEW A \in SUBSET Asked, NEW G \in Seq(Answer_), NEW t \in Nat, NEW w \in Line,
         Numbered(A, G, t)
  PROVE  LET B == A \cup {[token |-> t + 1, word |-> w]}
         IN  B \subseteq Asked /\ Numbered(B, G, t + 1) /\ Pending(B, G, t + 1)
<1> DEFINE b == [token |-> t + 1, word |-> w]
<1>1. b \in Asked /\ b.token = t + 1 /\ b.token # 0
  BY DEF Asked
<1>2. \A a \in A : a.token \in Nat
  BY DEF Asked
<1>3. \A k \in DOMAIN G : G[k].token \in Nat
  <2>1. \A k \in DOMAIN G : G[k] \in Answer_
    OBVIOUS
  <2> QED
    BY <2>1 DEF Answer_
<1> HIDE DEF b
<1>4. Numbered(A \cup {b}, G, t + 1)
  BY <1>1, <1>2, <1>3 DEF Numbered
<1> QED
  BY <1>1, <1>4 DEF Pending, b

\* It ends with an answer of its number.
LEMMA EndedNumbered ==
  ASSUME NEW A \in SUBSET Asked, NEW G \in Seq(Answer_), NEW t \in Nat, NEW a \in A,
         a # References, NEW g \in Answer_, g.token = a.token, Numbered(A, G, t)
  PROVE  /\ Numbered(A \ {a}, Append(G, g), t)
         /\ \A n : Pending(A \ {a}, Append(G, g), n) <=> Pending(A, G, n)
<1> DEFINE r == Append(G, g)
<1>1. /\ Len(G) \in Nat /\ DOMAIN G = 1 .. Len(G) /\ DOMAIN r = 1 .. Len(G) + 1
      /\ r[Len(G) + 1] = g /\ \A k \in DOMAIN G : r[k] = G[k]
  OBVIOUS
<1>2. \A k \in DOMAIN r : k \in DOMAIN G \/ k = Len(G) + 1
  BY <1>1
<1>3. \A k \in DOMAIN G : k \in DOMAIN r
  BY <1>1
<1>4. Len(G) + 1 \in DOMAIN r
  BY <1>1
<1>5. a.token # 0 /\ a.token <= t
  BY DEF Numbered
<1> HIDE DEF r
<1>6. Numbered(A \ {a}, r, t)
  <2>1. \A x \in A \ {a} : x.token # a.token
    BY DEF Numbered
  <2>2. \A k \in DOMAIN r : r[k].token # 0 /\ r[k].token <= t
    BY <1>1, <1>2, <1>5 DEF Numbered
  <2>3. \A x \in A \ {a} : \A k \in DOMAIN r : x.token # r[k].token
    BY <1>1, <1>2, <2>1 DEF Numbered
  <2>4. \A k, l \in DOMAIN r : r[k].token = r[l].token => k = l
    BY <1>1, <1>2 DEF Numbered
  <2> QED
    BY <2>2, <2>3, <2>4 DEF Numbered
<1>7. ASSUME NEW n PROVE Pending(A \ {a}, r, n) <=> Pending(A, G, n)
  <2>1. ASSUME Pending(A, G, n) PROVE Pending(A \ {a}, r, n)
    <3>1. CASE n = a.token
      BY <1>1, <1>4, <3>1 DEF Pending
    <3>2. CASE n # a.token
      BY <1>1, <1>3, <2>1, <3>2 DEF Pending
    <3> QED
      BY <3>1, <3>2
  <2>2. ASSUME Pending(A \ {a}, r, n) PROVE Pending(A, G, n)
    BY <1>1, <1>2, <2>2 DEF Pending
  <2> QED
    BY <2>1, <2>2
<1> QED
  BY <1>6, <1>7 DEF r

\* The answer is taken.
LEMMA TakenNumbered ==
  ASSUME NEW A \in SUBSET Asked, NEW G \in Seq(Answer_), G # <<>>, NEW t \in Nat,
         Numbered(A, G, t)
  PROVE  /\ Numbered(A, Tail(G), t)
         /\ \A n : Pending(A, Tail(G), n) <=> Pending(A, G, n) /\ n # Head(G).token
<1> DEFINE r == Tail(G)
<1>1. /\ Len(G) \in Nat \ {0} /\ DOMAIN G = 1 .. Len(G) /\ DOMAIN r = 1 .. Len(G) - 1
      /\ Head(G) = G[1] /\ \A k \in DOMAIN r : r[k] = G[k + 1]
  OBVIOUS
<1>2. \A k \in DOMAIN r : k + 1 \in DOMAIN G /\ k + 1 # 1
  BY <1>1
<1>3. \A k \in DOMAIN G : k = 1 \/ (k - 1 \in DOMAIN r /\ r[k - 1] = G[k])
  BY <1>1
<1>4. 1 \in DOMAIN G /\ \A k, l \in DOMAIN r : k + 1 = l + 1 => k = l
  BY <1>1
<1> HIDE DEF r
<1>5. Numbered(A, r, t)
  <2>1. \A k \in DOMAIN r : r[k].token # 0 /\ r[k].token <= t
    BY <1>1, <1>2 DEF Numbered
  <2>2. \A x \in A : \A k \in DOMAIN r : x.token # r[k].token
    BY <1>1, <1>2 DEF Numbered
  <2>3. \A k, l \in DOMAIN r : r[k].token = r[l].token => k + 1 = l + 1
    BY <1>1, <1>2 DEF Numbered
  <2> QED
    BY <1>4, <2>1, <2>2, <2>3 DEF Numbered
<1>6. ASSUME NEW n PROVE Pending(A, r, n) <=> Pending(A, G, n) /\ n # G[1].token
  <2>1. ASSUME Pending(A, r, n) PROVE Pending(A, G, n) /\ n # G[1].token
    <3>1. CASE \E a \in A : a.token = n
      BY <1>4, <3>1 DEF Pending, Numbered
    <3>2. CASE \E k \in DOMAIN r : r[k].token = n
      BY <1>1, <1>2, <1>4, <3>2 DEF Pending, Numbered
    <3> QED
      BY <2>1, <3>1, <3>2 DEF Pending
  <2>2. ASSUME Pending(A, G, n), n # G[1].token PROVE Pending(A, r, n)
    BY <1>3, <2>2 DEF Pending
  <2> QED
    BY <2>1, <2>2
<1> QED
  BY <1>1, <1>5, <1>6 DEF r

\* References are asked for and come without a number.
LEMMA ReferencesNumbered ==
  ASSUME NEW A \in SUBSET Asked, NEW G \in Seq(Answer_), NEW t \in Nat, Numbered(A, G, t)
  PROVE  /\ A \cup {References} \subseteq Asked
         /\ Numbered(A \cup {References}, G, t) /\ Numbered(A \ {References}, G, t)
         /\ \A n \in Nat \ {0} :
               /\ Pending(A \cup {References}, G, n) <=> Pending(A, G, n)
               /\ Pending(A \ {References}, G, n) <=> Pending(A, G, n)
<1>1. References.token = 0 /\ References \in Asked
  BY SearchAssumption DEF References, Asked
<1>2. \A a \in A : a.token = 0 <=> a = References
  BY <1>1 DEF Numbered
<1>3. Numbered(A \cup {References}, G, t)
  BY <1>1, <1>2 DEF Numbered
<1>4. Numbered(A \ {References}, G, t)
  BY DEF Numbered
<1>5. ASSUME NEW n \in Nat \ {0}
      PROVE  /\ Pending(A \cup {References}, G, n) <=> Pending(A, G, n)
             /\ Pending(A \ {References}, G, n) <=> Pending(A, G, n)
  BY <1>1, <1>5 DEF Pending
<1> QED
  BY <1>1, <1>3, <1>4, <1>5

-----------------------------------------------------------------------------
(* Every step keeps them.                                                  *)

\* Nothing was found at first.
LEMMA SearchedFirst == SearchInit => Searched
<1> SUFFICES ASSUME SearchInit PROVE Searched
  OBVIOUS
<1> USE DEF SearchInit
<1>1. content \in [FileNames -> File_] /\ shownText \in [FileNames -> File_]
  BY SearchAssumption
<1>2. SearchTypes
  BY <1>1, SearchAssumption DEF SearchTypes
<1>3. Numbered(searches, answers, token)
  BY DEF Numbered
<1>4. StillAwaited
  BY DEF StillAwaited
<1> QED
  BY <1>2, <1>3, <1>4 DEF Searched

\* What a new search leaves.
LEMMA SearchBegins ==
  ASSUME Searched, SpawnSearch, UNCHANGED <<content, shownText, needle, answers, overtaken>>
  PROVE  Searched'
<1> USE DEF Searched, SpawnSearch
<1> DEFINE B == searches \cup {[token |-> token + 1, word |-> needle]}
<1>1. B \subseteq Asked /\ Numbered(B, answers, token + 1) /\ Pending(B, answers, token + 1)
  BY BegunNumbered DEF SearchTypes
<1>2. SearchTypes'
  <2>1. token + 1 \in Nat /\ <<>> \in Seq(Place_) /\ 1 \in Nat \ {0}
    BY DEF SearchTypes
  <2> QED
    BY <1>1, <2>1 DEF SearchTypes
<1>3. Numbered(searches, answers, token)'
  BY <1>1 DEF Numbered
<1>4. Under_(token)' /\ token' # 0
  BY <1>1 DEF Under_, Pending, SearchTypes
<1>5. StillAwaited'
  BY <1>4 DEF StillAwaited
<1> QED
  BY <1>2, <1>3, <1>5

\* Most steps leave searches and answers alone.
LEMMA SearchApart ==
  ASSUME Searched, UNCHANGED <<token, searches, answers, searching, overtaken>>,
         content' \in [FileNames -> File_], shownText' \in [FileNames -> File_],
         needle' \in Line,
         \/ UNCHANGED <<results, answered>>
         \/ results # <<>> /\ results' = <<>> /\ UNCHANGED answered,
         selected' = selected \/ (results # <<>> /\ selected' \in DOMAIN results)
  PROVE  Searched'
<1> USE DEF Searched
<1>0. results \in Seq(Place_) /\ <<>> \in Seq(Place_) /\ selected \in Nat \ {0}
  BY DEF SearchTypes
<1>1. results' \in Seq(Place_)
  BY <1>0
<1>2. selected' \in Nat \ {0}
  <2>1. DOMAIN results = 1 .. Len(results)
    BY <1>0
  <2> QED
    BY <1>0, <2>1
<1>3. SearchTypes'
  BY <1>1, <1>2 DEF SearchTypes
<1>4. Numbered(searches, answers, token)'
  BY DEF Numbered
<1>5. \A n : Under_(n)' <=> Under_(n)
  BY DEF Under_
<1>6. results' # <<>> => results' = results /\ answered'[1] = token
  BY DEF StillAwaited
<1>7. token' # 0 /\ Under_(token)' /\ ~overtaken' =>
          results = <<>> /\ searching' /\ results' = <<>> /\ selected' = 1
  BY <1>5 DEF StillAwaited
<1>8. searching' => token' # 0 /\ Under_(token)'
  BY <1>5 DEF StillAwaited
<1>9. ~overtaken' /\ results' # <<>> => selected' \in DOMAIN results'
  BY <1>6 DEF StillAwaited
<1>10. StillAwaited'
  BY <1>6, <1>7, <1>8, <1>9 DEF StillAwaited
<1> QED
  BY <1>3, <1>4, <1>10

\* What a language server answers is a list of places.
LEMMA ShownPlaces ==
  ASSUME shownText \in [FileNames -> File_], NEW spots \in Keeps, OnReferences(spots)
  PROVE  results' \in Seq(Place_)
<1> DEFINE Entry(spot) == Hit(spot.path, spot.row,
                              Column(shownText[spot.path].lines[spot.row], spot.at, Units), spot.at)
<1>1. spots \in Seq(Spot_) /\ results' = [k \in DOMAIN spots |-> Entry(spots[k])]
  BY SearchAssumption DEF OnReferences
<1>2. ASSUME NEW k \in DOMAIN spots PROVE Entry(spots[k]) \in Place_
  <2>1. PICK spot \in Spot_ : spot = spots[k]
    BY <1>1
  <2>2. spot.path \in FileNames /\ spot.row \in Nat /\ spot.at \in Nat
    BY DEF Spot_
  <2> DEFINE line == shownText[spot.path].lines[spot.row]
  <2>3. spot.row \in DOMAIN shownText[spot.path].lines /\ spot.at <= Len(line)
    BY <2>1 DEF OnReferences, Known_
  <2>4. line \in Line
    BY <2>2, <2>3 DEF File_
  <2> HIDE DEF line
  <2>5. spot.at \in 0 .. Len(line) /\ Units \in Widths
    <3>1. \A c \in Character : Units[c] \in 1 .. 2
      BY SearchAssumption
    <3>2. \A c \in Character : Units[c] \in Nat
      BY <3>1
    <3> QED
      BY <2>2, <2>3, <2>4, <3>2, SearchAssumption DEF Line, Widths
  <2>6. Column(line, spot.at, Units) \in Nat
    BY <2>4, <2>5, ColumnTyped
  <2>7. Hit(spot.path, spot.row, Column(line, spot.at, Units), spot.at) \in Place_
    BY <2>2, <2>6 DEF Hit, Place_
  <2> QED
    BY <2>1, <2>7 DEF line
<1>3. DOMAIN spots = 1 .. Len(spots) /\ Len(spots) \in Nat
  BY <1>1
<1> HIDE DEF Entry
<1> QED
  BY <1>1, <1>2, <1>3

\* Every step keeps what was found for the query at hand.
LEMMA SearchedNext == Searched /\ [SearchNext]_searchVars => Searched'
<1> SUFFICES ASSUME Searched, [SearchNext]_searchVars PROVE Searched'
  OBVIOUS
<1>0. /\ content \in [FileNames -> File_] /\ shownText \in [FileNames -> File_]
      /\ needle \in Line /\ results \in Seq(Place_)
      /\ selected \in Nat \ {0} /\ token \in Nat /\ searches \in SUBSET Asked
      /\ answers \in Seq(Answer_) /\ Numbered(searches, answers, token)
  BY DEF Searched, SearchTypes
<1>1. ASSUME NEW word \in Needles, TypeNeedle(word) PROVE Searched'
  <2>1. word \in Line
    BY SearchAssumption
  <2> QED
    BY <1>0, <1>1, <2>1, SearchApart DEF TypeNeedle, Task
<1>2. CASE ToggleLive
  BY <1>0, <1>2, SearchApart DEF ToggleLive, Task
<1>3. CASE AskSearch
  BY <1>3, SearchBegins DEF AskSearch, Task
<1>4. CASE ReplaceEverywhere
  <2>1. CASE needle # <<>>
    BY <1>4, <2>1, SearchBegins DEF ReplaceEverywhere, Task
  <2>2. CASE needle = <<>>
    <3> DEFINE text(path) == [lines |-> Replaced(path), newline |-> FALSE]
    <3>1. ASSUME NEW path \in FileNames PROVE text(path) \in File_
      <4>1. content[path].lines \in Seq(Line)
        BY <1>0 DEF File_
      <4>2. Replaced(path) \in Seq(Line)
        BY <1>0, <4>1, ReplacedTyped
      <4> QED
        BY <4>2 DEF File_
    <3>2. PICK written :
            /\ content' = [path \in DOMAIN content |->
                              IF path \in written THEN text(path) ELSE content[path]]
            /\ shownText' = [path \in DOMAIN content |->
                                IF path \in written THEN text(path) ELSE shownText[path]]
      BY <1>4, <2>2 DEF ReplaceEverywhere
    <3>3. /\ results # <<>> /\ results' = <<>>
          /\ UNCHANGED <<selected, searching, token, searches, needle, answers, answered,
                         overtaken>>
      BY <1>4, <2>2 DEF ReplaceEverywhere
    <3> HIDE DEF text
    <3>4. content' \in [FileNames -> File_] /\ shownText' \in [FileNames -> File_]
      BY <1>0, <3>1, <3>2
    <3> QED
      BY <1>0, <3>3, <3>4, SearchApart
  <2> QED
    BY <2>1, <2>2
<1>5. CASE FocusField
  BY <1>0, <1>5, SearchApart DEF FocusField, Task
<1>6. CASE OpenResult
  BY <1>0, <1>6, SearchApart DEF OpenResult, Task
<1>7. CASE AskReferences
  <2> USE <1>7 DEF AskReferences, Task
  <2> DEFINE B == searches \cup {References}
  <2>1. /\ B \subseteq Asked /\ Numbered(B, answers, token)
        /\ \A n \in Nat \ {0} : Pending(B, answers, n) <=> Pending(searches, answers, n)
    BY <1>0, ReferencesNumbered
  <2>2. searches' = B
    OBVIOUS
  <2> HIDE DEF B
  <2>3. SearchTypes'
    BY <1>0, <2>1, <2>2 DEF SearchTypes
  <2>4. Numbered(searches, answers, token)'
    BY <2>1, <2>2 DEF Numbered
  <2>5. token # 0 => (Under_(token)' <=> Under_(token))
    BY <1>0, <2>1, <2>2 DEF Under_, Pending
  <2>6. StillAwaited'
    BY <2>5 DEF Searched, StillAwaited
  <2> QED
    BY <2>3, <2>4, <2>6 DEF Searched
<1>8. CASE Arrow
  <2>1. results # <<>> /\ Len(results) \in Nat \ {0} /\ DOMAIN results = 1 .. Len(results)
    BY <1>0, <1>8 DEF Arrow
  <2>2. selected' \in Nat \ {0}
    BY <1>0, <1>8, <2>1 DEF Arrow
  <2>3. selected \in DOMAIN results => selected' \in DOMAIN results
    BY <1>0, <1>8, <2>1 DEF Arrow
  <2>4. UNCHANGED <<content, shownText, needle, results, searching, token, searches, answers,
                    answered, overtaken>>
    BY <1>8 DEF Arrow
  <2>5. SearchTypes'
    BY <1>0, <2>2, <2>4 DEF SearchTypes
  <2>6. Numbered(searches, answers, token)'
    BY <1>0, <2>4 DEF Numbered
  <2>7. StillAwaited'
    BY <2>1, <2>3, <2>4 DEF Searched, StillAwaited, Under_
  <2> QED
    BY <2>5, <2>6, <2>7 DEF Searched
<1>9. ASSUME NEW i \in DOMAIN results, ClickResult(i) PROVE Searched'
  <2>1. results # <<>>
    BY <1>9
  <2> QED
    BY <1>0, <1>9, <2>1, SearchApart DEF ClickResult
<1>10. CASE Debounced
  BY <1>10, SearchBegins DEF Debounced
<1>11. CASE OnSearchDone
  <2> DEFINE g == Head(answers)
             G == Tail(answers)
  <2>1. /\ ~halted /\ answers # <<>> /\ answers' = G
        /\ UNCHANGED <<content, shownText, needle, selected, token, searches, overtaken>>
    BY <1>11 DEF OnSearchDone
  <2>2. /\ Numbered(searches, G, token) /\ G \in Seq(Answer_) /\ g \in Answer_ /\ g.token # 0
        /\ \A n : Pending(searches, G, n) <=> Pending(searches, answers, n) /\ n # g.token
    <3>1. g = answers[1] /\ 1 \in DOMAIN answers /\ G \in Seq(Answer_) /\ g \in Answer_
      BY <1>0, <2>1
    <3>2. g.token # 0
      BY <1>0, <3>1 DEF Numbered
    <3>3. /\ Numbered(searches, G, token)
          /\ \A n : Pending(searches, G, n) <=> Pending(searches, answers, n) /\ n # g.token
      BY <1>0, <2>1, TakenNumbered
    <3> QED
      BY <3>1, <3>2, <3>3
  <2>3. \/ /\ g.token = token /\ results' = g.hits /\ searching' = FALSE
           /\ answered' = <<token, g.word>>
        \/ g.token # token /\ UNCHANGED <<results, searching, answered>>
    BY <1>11 DEF OnSearchDone
  <2>4. g.hits \in Seq(Place_)
    BY <2>2 DEF Answer_
  <2>5. g.token = token => Under_(token)
    BY <1>0, <2>1 DEF Under_
  <2> HIDE DEF g, G
  <2>6. SearchTypes'
    BY <1>0, <2>1, <2>2, <2>3, <2>4 DEF SearchTypes
  <2>7. Numbered(searches, answers, token)'
    BY <2>1, <2>2 DEF Numbered
  <2>8. Under_(token)' <=> Under_(token) /\ token # g.token
    BY <2>1, <2>2 DEF Under_, Pending
  <2>9. StillAwaited'
    <3>1. CASE g.token = token
      <4>1. ~overtaken => selected = 1
        BY <2>2, <2>5, <3>1 DEF Searched, StillAwaited
      <4>2. results' # <<>> => 1 \in DOMAIN results'
        BY <2>6 DEF SearchTypes
      <4>3. results' = g.hits /\ searching' = FALSE /\ answered'[1] = token /\ ~Under_(token)'
        BY <2>3, <2>8, <3>1
      <4> QED
        BY <2>1, <4>1, <4>2, <4>3 DEF StillAwaited
    <3>2. CASE g.token # token
      BY <2>1, <2>3, <2>8, <3>2 DEF Searched, StillAwaited
    <3> QED
      BY <3>1, <3>2
  <2> QED
    BY <2>6, <2>7, <2>9 DEF Searched
<1>12. ASSUME NEW thread \in searches, EndSearch(thread) PROVE Searched'
  <2>1. thread # References
    BY <1>12 DEF EndSearch
  <2>2. PICK order \in SetToSeqs(DOMAIN content) :
           answers' = Append(answers, [token |-> thread.token, word |-> thread.word,
                                       hits |-> Search(thread.word, order)])
    BY <1>12 DEF EndSearch
  <2>3. order \in Seq(FileNames)
    <3>1. DOMAIN content = FileNames /\ Cardinality(FileNames) \in Nat
      BY <1>0, SearchAssumption, FS_CardinalityType
    <3> QED
      BY <3>1 DEF SetToSeqs
  <2> DEFINE g == [token |-> thread.token, word |-> thread.word,
                   hits |-> Search(thread.word, order)]
  <2>4. g \in Answer_ /\ g.token = thread.token
    <3>1. thread \in Asked
      BY <1>0
    <3>2. Search(thread.word, order) \in Seq(Place_)
      BY <1>0, <2>3, <3>1, SearchTyped DEF Asked
    <3> QED
      BY <3>1, <3>2 DEF Asked, Answer_
  <2> HIDE DEF g
  <2>5. answers' = Append(answers, g) /\ searches' = searches \ {thread}
    BY <1>12, <2>2 DEF EndSearch, g
  <2>6. /\ Numbered(searches \ {thread}, Append(answers, g), token)
        /\ \A n : Pending(searches \ {thread}, Append(answers, g), n) <=>
                      Pending(searches, answers, n)
    BY <1>0, <2>1, <2>4, EndedNumbered
  <2>7. UNCHANGED <<content, shownText, needle, results, selected, searching, token, answered,
                    overtaken>>
    BY <1>12 DEF EndSearch
  <2>8. SearchTypes'
    BY <1>0, <2>4, <2>5, <2>7 DEF SearchTypes
  <2>9. Numbered(searches, answers, token)'
    BY <2>5, <2>6, <2>7 DEF Numbered
  <2>10. Under_(token)' <=> Under_(token)
    BY <2>5, <2>6, <2>7 DEF Under_, Pending
  <2>11. StillAwaited'
    BY <2>7, <2>10 DEF Searched, StillAwaited
  <2> QED
    BY <2>8, <2>9, <2>11 DEF Searched
<1>13. ASSUME NEW spots \in Keeps, OnReferences(spots) PROVE Searched'
  <2> USE <1>13 DEF OnReferences
  <2>1. /\ Numbered(searches \ {References}, answers, token)
        /\ \A n \in Nat \ {0} : Pending(searches \ {References}, answers, n) <=>
                                    Pending(searches, answers, n)
    BY <1>0, ReferencesNumbered
  <2>2. results' \in Seq(Place_)
    BY <1>0, ShownPlaces
  <2>3. SearchTypes'
    BY <1>0, <2>2 DEF SearchTypes
  <2>4. Numbered(searches, answers, token)'
    BY <2>1 DEF Numbered
  <2>5. token # 0 => (Under_(token)' <=> Under_(token))
    BY <1>0, <2>1 DEF Under_, Pending
  <2>6. results' # <<>> => 1 \in DOMAIN results'
    BY <2>2
  <2>7. answered'[1] = token
    OBVIOUS
  <2>8. StillAwaited'
    BY <2>5, <2>6, <2>7 DEF Searched, StillAwaited
  <2> QED
    BY <2>3, <2>4, <2>8 DEF Searched
<1>14. ASSUME NEW other \in Sources, NEW path \in DOMAIN content, FileWritten(path, other[path])
       PROVE  Searched'
  <2>1. other[path] \in File_
    BY <1>0, SearchAssumption
  <2> QED
    BY <1>0, <1>14, <2>1, SearchApart DEF FileWritten, Task
<1>15. CASE UNCHANGED searchVars
  BY <1>0, <1>15, SearchApart DEF searchVars
<1> QED
  BY <1>1, <1>2, <1>3, <1>4, <1>5, <1>6, <1>7, <1>8, <1>9, <1>10, <1>11, <1>12, <1>13,
     <1>14, <1>15 DEF SearchNext

\* AnswersAreCurrent (SearchSafety): the list is of the last search, "searching"
\* is shown only while it runs, and the selection is an entry, whatever is
\* searched for, in any files, in any order of the threads.
THEOREM AnswersAreAlwaysCurrent == SearchSpec => []AnswersAreCurrent
<1>1. Searched => AnswersAreCurrent
  BY DEF Searched, StillAwaited, AnswersAreCurrent
<1> QED
  BY <1>1, SearchedFirst, SearchedNext, PTL DEF SearchSpec

-----------------------------------------------------------------------------
(* Tabs and files: what is read is awaited, and unmarked texts were saved. *)

Prose      == Texts \cup {Blank}
LocalPaths == Local \cup {Relative(path) : path \in Local}
TabPaths   == LocalPaths \cup Remote \cup {NoPath}
Tab_ == [kind : {"Editor", "GitDiff"}, buf : Nat, path : TabPaths, text : Prose,
         dirty : BOOLEAN, token : Nat, gen : Nat]

ReadJob   == [kind : {"read"}, token : Nat, path : Remote]
WriteJob  == [kind : {"write"}, path : Remote, text : Prose]
RenameJob == [kind : {"rename"}, old : Remote, new : Remote]
CreateJob == [kind : {"create"}, path : Remote]
FormatJob == [kind : {"format"}, path : LocalPaths]
Job == ReadJob \cup WriteJob \cup RenameJob \cup CreateJob \cup FormatJob
       \cup [kind : {"connect", "dial"}]

ContentEvent == [type : {"RemoteFileContent"}, token : Nat, path : Remote, text : Prose]
ErrorEvent   == [type : {"RemoteFileError"}, token : Nat, path : Remote]
WroteEvent   == [type : {"RemoteWriteDone"}, path : Remote, text : Prose]
RenamedEvent == [type : {"RemoteFsOpDone"}, old : Remote, new : Remote, open : {NoPath}]
CreatedEvent == [type : {"RemoteFsOpDone"}, old : {NoPath}, new : {NoPath}, open : Remote]
FormattedEvent == [type : {"FormatterDone"}, path : LocalPaths]
Event_ == ContentEvent \cup ErrorEvent \cup WroteEvent \cup RenamedEvent \cup CreatedEvent
          \cup FormattedEvent
          \cup [type : {"SshConnecting", "SshConnected", "SshError", "RemoteFsOpError"}]

\* The tab in front is there, and panes have tabs or are not there.
InFront(ts, act, f) ==
    /\ f \in Panes /\ ts[f] # <<>>
    /\ act \in [Panes -> Nat \ {0}]
    /\ \A p \in Panes : ts[p] # <<>> => act[p] \in DOMAIN ts[p]

DiskTyped == /\ disk \in [Paths -> Prose \cup {NoFile}]
             /\ known \in [Paths -> SUBSET Prose]
             /\ \A f \in Paths : disk[f] # NoFile => disk[f] \in known[f]
JobsTyped == IsABag(jobs) /\ BagToSet(jobs) \subseteq Job /\ inbox_ \in Seq(Event_)
TabsTyped == /\ tabs \in [Panes -> Seq(Tab_)]
             /\ InFront(tabs, active, front)
             /\ nextBuf \in Nat /\ nextRead \in Nat \ {0}
DocTyped == DiskTyped /\ JobsTyped /\ TabsTyped

\* All tabs.
TabsOf(ts) == UNION {Range(ts[p]) : p \in Panes}

\* What threads read, or have read, for whom.
Reading_ ==
    {<<job.token, job.path>> : job \in Running("read")}
    \cup {<<e.token, e.path>> :
             e \in {m \in Range(inbox_) : m.type \in {"RemoteFileContent", "RemoteFileError"}}}
WellAwaited(ts, lost, reads) ==
    \A t \in TabsOf(ts) : t.token \notin lost \cup {NoRead} => <<t.token, t.path>> \in reads

-----------------------------------------------------------------------------
(* Places and their tabs.                                                  *)

\* A place is a pane and an index in it, and every tab is at one.
LEMMA PlacesAreTabs ==
  /\ \A q \in Places : At(q) \in TabsOf(tabs) /\ q[1] \in Panes /\ q[2] \in DOMAIN tabs[q[1]]
                       /\ q = <<q[1], q[2]>> /\ At(q) = tabs[q[1]][q[2]]
  /\ \A p \in Panes : \A i \in DOMAIN tabs[p] : <<p, i>> \in Places /\ At(<<p, i>>) = tabs[p][i]
                                                /\ tabs[p][i] \in TabsOf(tabs)
  /\ \A t \in TabsOf(tabs) : \E q \in Places : At(q) = t
<1>1. \A q \in Places : \E p \in Panes : \E i \in DOMAIN tabs[p] : q = <<p, i>>
  BY DEF Places
<1>2. \A p \in Panes : \A i \in DOMAIN tabs[p] : <<p, i>> \in Places
  BY DEF Places
<1>3. \A p, i : At(<<p, i>>) = tabs[p][i]
  BY DEF At
<1>4. \A p \in Panes : \A i \in DOMAIN tabs[p] : tabs[p][i] \in TabsOf(tabs)
  BY DEF TabsOf, Range
<1>5. ASSUME NEW t \in TabsOf(tabs) PROVE \E p \in Panes : \E i \in DOMAIN tabs[p] : t = tabs[p][i]
  <2>1. PICK p \in Panes : t \in Range(tabs[p])
    BY DEF TabsOf
  <2> QED
    BY <2>1 DEF Range
<1>6. ASSUME NEW t \in TabsOf(tabs) PROVE \E q \in Places : At(q) = t
  <2>0. PICK p \in Panes : \E i \in DOMAIN tabs[p] : t = tabs[p][i]
    BY <1>5
  <2>1. PICK i \in DOMAIN tabs[p] : t = tabs[p][i]
    BY <2>0
  <2>2. <<p, i>> \in Places /\ At(<<p, i>>) = t
    BY <1>2, <1>3, <2>1
  <2> QED
    BY <2>2
<1>7. \A q \in Places : At(q) \in TabsOf(tabs) /\ q[1] \in Panes /\ q[2] \in DOMAIN tabs[q[1]]
                       /\ q = <<q[1], q[2]>> /\ At(q) = tabs[q[1]][q[2]]
  BY <1>1, <1>3, <1>4
<1> QED
  BY <1>2, <1>3, <1>4, <1>6, <1>7

\* A tab is awaited as the property says.
LEMMA AwaitedIsOutstanding ==
  LoadsAreAwaited <=> WellAwaited(tabs, moved, Reading_)
<1>1. \A t : Outstanding(t) <=> <<t.token, t.path>> \in Reading_
  <2> TAKE t
  <2>1. (\E k \in DOMAIN inbox_ : /\ inbox_[k].type \in {"RemoteFileContent", "RemoteFileError"}
                                  /\ inbox_[k].token = t.token /\ inbox_[k].path = t.path)
        <=> \E e \in {m \in Range(inbox_) : m.type \in {"RemoteFileContent", "RemoteFileError"}} :
               e.token = t.token /\ e.path = t.path
    BY DEF Range
  <2>2. ASSUME NEW e PROVE <<t.token, t.path>> = <<e.token, e.path>> <=> e.token = t.token /\ e.path = t.path
    OBVIOUS
  <2> QED
    BY <2>1, <2>2 DEF Outstanding, Reading_
<1> QED
  BY <1>1, PlacesAreTabs DEF LoadsAreAwaited, WellAwaited

-----------------------------------------------------------------------------
(* Bags of jobs.                                                           *)

\* A bag that is given elements has those it had and the new ones.
LEMMA SpawnJobs ==
  ASSUME NEW B, IsABag(B), NEW S
  PROVE  IsABag(B (+) SetToBag(S)) /\ BagToSet(B (+) SetToBag(S)) = BagToSet(B) \cup S
<1> DEFINE C == B (+) SetToBag(S)
<1>1. DOMAIN C = DOMAIN B \cup S
  BY DEF SetToBag, (+)
<1>2. \A e \in DOMAIN C : C[e] \in Nat /\ C[e] > 0
  BY DEF SetToBag, (+), IsABag
<1>3. C = [e \in DOMAIN C |-> C[e]]
  BY DEF SetToBag, (+)
<1> HIDE DEF C
<1>4. C \in [DOMAIN C -> {n \in Nat : n > 0}]
  BY <1>2, <1>3
<1> QED
  BY <1>1, <1>4 DEF C, IsABag, BagToSet

\* A bag that gives up one copy of an element loses at most that element.
LEMMA EndJob ==
  ASSUME NEW B, IsABag(B), NEW j
  PROVE  LET C == B (-) SetToBag({j})
         IN  IsABag(C) /\ BagToSet(C) \subseteq BagToSet(B) /\ BagToSet(B) \ {j} \subseteq BagToSet(C)
<1> DEFINE C == B (-) SetToBag({j})
           S == SetToBag({j})
           D == [e \in DOMAIN B |-> IF e \in DOMAIN S THEN B[e] - S[e] ELSE B[e]]
           K == {d \in DOMAIN D : D[d] > 0}
<1>1. C = [e \in K |-> D[e]]
  BY DEF (-)
<1>2. DOMAIN S = {j} /\ S[j] = 1
  BY DEF SetToBag
<1> HIDE DEF S
<1>3. \A e \in DOMAIN B : B[e] \in Nat /\ B[e] > 0
  BY DEF IsABag
<1>4. \A e \in K : D[e] \in Nat /\ D[e] > 0
  BY <1>2, <1>3
<1>5. K \subseteq DOMAIN B /\ DOMAIN B \ {j} \subseteq K
  BY <1>2, <1>3
<1>6. DOMAIN C = K
  BY <1>1
<1>7. C \in [DOMAIN C -> {n \in Nat : n > 0}]
  BY <1>1, <1>4, <1>6
<1> HIDE DEF C, K
<1> QED
  BY <1>5, <1>6, <1>7 DEF C, IsABag, BagToSet

-----------------------------------------------------------------------------
(* Changing tabs.                                                          *)

\* A set in some order: everything of it, once.
LEMMA OrderOfSet ==
  ASSUME NEW S, IsFiniteSet(S)
  PROVE  /\ Cardinality(S) \in Nat
         /\ SetToSeq(S) \in [1 .. Cardinality(S) -> S]
         /\ \A x \in S : \E k \in 1 .. Cardinality(S) : SetToSeq(S)[k] = x
<1> DEFINE n == Cardinality(S)
           f == SetToSeq(S)
<1>1. n \in Nat /\ ExistsBijection(1 .. n, S)
  BY FS_CardinalityType
<1>2. \E g \in [1 .. n -> S] : IsInjective(g)
  BY <1>1 DEF ExistsBijection, Bijection, Injection
<1>3. f \in [1 .. n -> S] /\ IsInjective(f)
  BY <1>2 DEF SetToSeq
<1>4. f \in Injection(1 .. n, S)
  BY <1>3 DEF Injection
<1>5. IsFiniteSet(1 .. n) /\ Cardinality(1 .. n) = n
  BY <1>1, FS_Interval
<1> HIDE DEF f
<1>6. f \in Surjection(1 .. n, S)
  BY <1>4, <1>5, FS_Injection
<1>7. \A x \in S : \E k \in 1 .. n : f[k] = x
  BY <1>6 DEF Surjection
<1> QED
  BY <1>1, <1>3, <1>7 DEF f

TabTyped(ts) == ts \in [Panes -> Seq(Tab_)]
SameShape(new, old) ==
    TabTyped(new) /\ \A p \in Panes : DOMAIN new[p] = DOMAIN old[p] /\ (new[p] = <<>> <=> old[p] = <<>>)

\* Every tab has become one by some rule.
LEMMA TabsBecome ==
  ASSUME NEW ts, TabTyped(ts), NEW new,
         new = [p \in Panes |-> [i \in DOMAIN ts[p] |-> new[p][i]]],
         \A p \in Panes : \A i \in DOMAIN ts[p] : new[p][i] \in Tab_
  PROVE  SameShape(new, ts)
<1>1. ASSUME NEW p \in Panes
      PROVE  new[p] \in Seq(Tab_) /\ DOMAIN new[p] = DOMAIN ts[p] /\ (new[p] = <<>> <=> ts[p] = <<>>)
  <2>1. new[p] = [i \in DOMAIN ts[p] |-> new[p][i]]
    BY <1>1
  <2>2. ts[p] \in Seq(Tab_) /\ DOMAIN ts[p] = 1 .. Len(ts[p]) /\ Len(ts[p]) \in Nat
    BY <1>1 DEF TabTyped
  <2>3. new[p] \in [1 .. Len(ts[p]) -> Tab_]
    BY <2>1, <2>2
  <2>4. new[p] \in Seq(Tab_) /\ Len(new[p]) = Len(ts[p])
    BY <2>2, <2>3
  <2> QED
    BY <2>2, <2>4
<1>2. new \in [Panes -> Seq(Tab_)]
  BY <1>1
<1> QED
  BY <1>1, <1>2 DEF SameShape, TabTyped

PutAt(new, ts, p, i, t) ==
    /\ SameShape(new, ts) /\ TabsOf(new) \subseteq TabsOf(ts) \cup {t}
    /\ \A q \in Panes : \A j \in DOMAIN ts[q] :
          new[q][j] = IF q = p /\ j = i THEN t ELSE ts[q][j]

\* A tab put in the place of another leaves the rest as they are.
LEMMA TabPut ==
  ASSUME NEW ts, TabTyped(ts), NEW p \in Panes, NEW i \in DOMAIN ts[p], NEW t \in Tab_
  PROVE  PutAt([ts EXCEPT ![p][i] = t], ts, p, i, t)
<1> DEFINE new == [ts EXCEPT ![p][i] = t]
<1>1. \A q \in Panes : ts[q] \in Seq(Tab_) /\ DOMAIN ts[q] = 1 .. Len(ts[q]) /\ Len(ts[q]) \in Nat
  BY DEF TabTyped
<1>2. new = [q \in Panes |-> IF q = p THEN [ts[p] EXCEPT ![i] = t] ELSE ts[q]]
  BY DEF TabTyped
<1>3. [ts[p] EXCEPT ![i] = t] \in Seq(Tab_) /\ Len([ts[p] EXCEPT ![i] = t]) = Len(ts[p])
  BY <1>1
<1>4. \A q \in Panes : new[q] \in Seq(Tab_) /\ Len(new[q]) = Len(ts[q])
  BY <1>1, <1>2, <1>3
<1>5. \A q \in Panes : \A j \in DOMAIN ts[q] :
         new[q][j] = IF q = p /\ j = i THEN t ELSE ts[q][j]
  BY <1>1, <1>2
<1>6. new \in [Panes -> Seq(Tab_)]
  BY <1>2, <1>4
<1> HIDE DEF new
<1>7. \A q \in Panes : DOMAIN new[q] = DOMAIN ts[q] /\ (new[q] = <<>> <=> ts[q] = <<>>)
  BY <1>1, <1>4
<1>8. TabsOf(new) \subseteq TabsOf(ts) \cup {t}
  <2>1. ASSUME NEW q \in Panes, NEW j \in DOMAIN new[q] PROVE new[q][j] \in TabsOf(ts) \cup {t}
    BY <1>5, <1>7, <2>1 DEF TabsOf, Range
  <2> QED
    BY <2>1 DEF TabsOf, Range
<1> QED
  BY <1>5, <1>6, <1>7, <1>8 DEF SameShape, TabTyped, PutAt, new

SetAt(new, ts, p, s) ==
    /\ TabTyped(new) /\ TabsOf(new) \subseteq TabsOf(ts) \cup Range(s)
    /\ \A q \in Panes : new[q] = IF q = p THEN s ELSE ts[q]

\* A pane given other tabs leaves the other panes as they are.
LEMMA PaneSet ==
  ASSUME NEW ts, TabTyped(ts), NEW p \in Panes, NEW s \in Seq(Tab_)
  PROVE  SetAt([ts EXCEPT ![p] = s], ts, p, s)
<1> DEFINE new == [ts EXCEPT ![p] = s]
<1>1. new = [q \in Panes |-> IF q = p THEN s ELSE ts[q]] /\ new \in [Panes -> Seq(Tab_)]
  BY DEF TabTyped
<1>2. \A q \in Panes : new[q] = IF q = p THEN s ELSE ts[q]
  BY <1>1
<1> HIDE DEF new
<1>3. TabsOf(new) \subseteq TabsOf(ts) \cup Range(s)
  <2>1. ASSUME NEW q \in Panes, NEW t \in Range(new[q]) PROVE t \in TabsOf(ts) \cup Range(s)
    <3>1. CASE q = p
      BY <1>2, <3>1
    <3>2. CASE q # p
      BY <1>2, <3>2 DEF TabsOf
    <3> QED
      BY <3>1, <3>2
  <2> QED
    BY <2>1 DEF TabsOf
<1> QED
  BY <1>1, <1>2, <1>3 DEF TabTyped, SetAt, new

\* A new tab comes last and moves no other.
LEMMA TabAppended ==
  ASSUME NEW s \in Seq(Tab_), NEW t \in Tab_
  PROVE  /\ Append(s, t) \in Seq(Tab_) /\ Range(Append(s, t)) \subseteq Range(s) \cup {t}
         /\ Append(s, t) # <<>> /\ DOMAIN Append(s, t) = 1 .. Len(s) + 1 /\ Len(s) \in Nat
         /\ Append(s, t)[Len(s) + 1] = t /\ DOMAIN s = 1 .. Len(s)
         /\ \A i \in DOMAIN s : Append(s, t)[i] = s[i]
<1> DEFINE a == Append(s, t)
<1>1. /\ a \in Seq(Tab_) /\ Len(s) \in Nat /\ Len(a) = Len(s) + 1 /\ DOMAIN a = 1 .. Len(s) + 1
      /\ DOMAIN s = 1 .. Len(s) /\ a[Len(s) + 1] = t /\ \A i \in 1 .. Len(s) : a[i] = s[i]
  OBVIOUS
<1> HIDE DEF a
<1>2. Range(a) \subseteq Range(s) \cup {t}
  BY <1>1 DEF Range
<1> QED
  BY <1>1, <1>2 DEF a

\* What remains when a tab is closed are tabs of that pane, one fewer.
LEMMA TabRemoved ==
  ASSUME NEW s \in Seq(Tab_), NEW i \in DOMAIN s
  PROVE  LET rest == RemoveAt(s, i)
         IN  /\ rest \in Seq(Tab_) /\ Range(rest) \subseteq Range(s)
             /\ Len(rest) = Len(s) - 1 /\ Len(s) \in Nat /\ DOMAIN rest = 1 .. Len(rest)
<1> DEFINE rest == RemoveAt(s, i)
           a == SubSeq(s, 1, i - 1)
           b == SubSeq(s, i + 1, Len(s))
<1>1. Len(s) \in Nat /\ i \in 1 .. Len(s) /\ DOMAIN s = 1 .. Len(s)
  OBVIOUS
<1>2. a \in Seq(Tab_) /\ Len(a) = i - 1 /\ \A k \in 1 .. i - 1 : a[k] = s[k]
  BY <1>1
<1>3. b \in Seq(Tab_) /\ Len(b) = Len(s) - i /\ \A k \in 1 .. Len(s) - i : b[k] = s[i + k]
  BY <1>1
<1>4. rest = a \o b
  BY DEF RemoveAt
<1> HIDE DEF a, b, rest
<1>5. /\ rest \in Seq(Tab_) /\ Len(rest) = Len(a) + Len(b) /\ DOMAIN rest = 1 .. Len(rest)
      /\ \A k \in 1 .. Len(a) : rest[k] = a[k]
      /\ \A k \in Len(a) + 1 .. Len(a) + Len(b) : rest[k] = b[k - Len(a)]
  <2>1. a \in Seq(Tab_) /\ b \in Seq(Tab_) /\ Len(a) \in Nat /\ Len(b) \in Nat
    BY <1>2, <1>3
  <2>2. /\ a \o b \in Seq(Tab_) /\ Len(a \o b) = Len(a) + Len(b)
        /\ \A k \in 1 .. Len(a) + Len(b) :
              (a \o b)[k] = IF k <= Len(a) THEN a[k] ELSE b[k - Len(a)]
    BY ONLY <2>1, ConcatProperties
  <2>3. DOMAIN rest = 1 .. Len(rest)
    BY <1>4, <2>2
  <2> QED
    BY ONLY <1>4, <2>1, <2>2, <2>3
<1>6. ASSUME NEW k \in 1 .. Len(rest) PROVE rest[k] \in Range(s)
  <2>0. k \in Nat /\ i \in Nat
    BY <1>1, <1>2, <1>3, <1>5
  <2>1. CASE k < i
    <3>1. k \in 1 .. Len(a) /\ k \in 1 .. i - 1 /\ k \in DOMAIN s
      BY <1>1, <1>2, <2>0, <2>1
    <3>2. rest[k] = s[k]
      BY <1>2, <1>5, <3>1
    <3> QED
      BY <3>1, <3>2 DEF Range
  <2>2. CASE k >= i
    <3>0. k \in Len(a) + 1 .. Len(a) + Len(b) /\ k - (i - 1) \in 1 .. Len(s) - i
      BY <1>1, <1>2, <1>3, <1>5, <2>0, <2>2
    <3>1. rest[k] = b[k - (i - 1)] /\ k - (i - 1) \in 1 .. Len(s) - i
      BY <1>2, <1>5, <3>0
    <3>2. rest[k] = s[i + (k - (i - 1))] /\ i + (k - (i - 1)) \in DOMAIN s
      BY <1>1, <1>3, <3>1
    <3> QED
      BY <3>2 DEF Range
  <2> QED
    BY <2>0, <2>1, <2>2
<1>7. Range(rest) \subseteq Range(s)
  BY <1>5, <1>6 DEF Range
<1> QED
  BY <1>1, <1>2, <1>3, <1>5, <1>7 DEF rest

\* begin_remote_tab_read: some tabs get tokens, a thread each; nothing else
\* of a tab changes.
Asked_(was, is, threads) ==
    /\ is = [was EXCEPT !.token = is.token]
    /\ \/ is.token = was.token
       \/ [kind |-> "read", token |-> is.token, path |-> was.path] \in threads
AreAsked(was, is, threads) ==
    \A p \in Panes : \A i \in DOMAIN was[p] : Asked_(was[p][i], is[p][i], threads)
Readable(ts, places) ==
    /\ IsFiniteSet(places)
    /\ \A q \in places : /\ q = <<q[1], q[2]>> /\ q[1] \in Panes /\ q[2] \in DOMAIN ts[q[1]]
                         /\ ts[q[1]][q[2]].path \in Remote

\* begin_remote_tab_read gives fresh tokens only, each with its thread.
LEMMA ReadsBegin ==
  ASSUME JobsTyped, nextRead \in Nat \ {0}, NEW after, TabTyped(after), NEW places,
         Readable(after, places), BeginReads(after, places)
  PROVE  /\ SameShape(tabs', after) /\ nextRead' \in Nat \ {0}
         /\ IsABag(jobs') /\ BagToSet(jobs') \subseteq Job /\ BagToSet(jobs) \subseteq BagToSet(jobs')
         /\ AreAsked(after, tabs', BagToSet(jobs'))
<1> DEFINE order == SetToSeq(places)
           number(k) == nextRead + k - 1
           rank(p, i) == CHOOSE k \in DOMAIN order : order[k] = <<p, i>>
           file(k) == after[order[k][1]][order[k][2]].path
           reads == {[kind |-> "read", token |-> number(k), path |-> file(k)] : k \in DOMAIN order}
           n == Cardinality(places)
<1>0. \A p \in Panes : \A i \in DOMAIN after[p] : after[p][i] \in Tab_
  BY DEF TabTyped
<1>1. CASE places = {}
  <2>1. tabs' = after /\ nextRead' = nextRead /\ jobs' = jobs
    BY <1>1 DEF BeginReads
  <2>2. \A p \in Panes : \A i \in DOMAIN after[p] : Asked_(after[p][i], after[p][i], BagToSet(jobs))
    BY <1>0 DEF Asked_, Tab_
  <2> QED
    BY <2>1, <2>2 DEF SameShape, AreAsked, JobsTyped
<1>2. CASE places # {}
  <2>1. /\ n \in Nat /\ order \in [1 .. n -> places]
        /\ \A x \in places : \E k \in 1 .. n : order[k] = x
    BY OrderOfSet DEF Readable
  <2>2. order \in Seq(places) /\ Len(order) = n /\ DOMAIN order = 1 .. n
    BY <2>1
  <2>3. /\ tabs' = [p \in Panes |-> [i \in DOMAIN after[p] |->
                      IF <<p, i>> \in places THEN [after[p][i] EXCEPT !.token = number(rank(p, i))]
                      ELSE after[p][i]]]
        /\ nextRead' = nextRead + Len(order)
        /\ jobs' = jobs (+) SetToBag(reads)
    BY <1>2 DEF BeginReads
  <2> HIDE DEF order
  <2>4. \A k \in 1 .. n : number(k) \in Nat /\ file(k) \in Remote
    <3> SUFFICES ASSUME NEW k \in 1 .. n PROVE number(k) \in Nat /\ file(k) \in Remote
      OBVIOUS
    <3>1. order[k] \in places
      BY <2>1
    <3>2. number(k) \in Nat
      BY <2>1
    <3> QED
      BY <3>1, <3>2 DEF Readable
  <2>5. reads \subseteq Job
    BY <2>2, <2>4 DEF Job, ReadJob
  <2>6. IsABag(jobs') /\ BagToSet(jobs') = BagToSet(jobs) \cup reads
    BY <2>3, SpawnJobs DEF JobsTyped
  <2>7. ASSUME NEW p \in Panes, NEW i \in DOMAIN after[p]
        PROVE  tabs'[p][i] \in Tab_ /\ Asked_(after[p][i], tabs'[p][i], BagToSet(jobs'))
    <3>1. after[p][i] \in Tab_
      BY <1>0
    <3>2. CASE <<p, i>> \in places
      <4>1. rank(p, i) \in 1 .. n /\ order[rank(p, i)] = <<p, i>>
        BY <2>1, <2>2, <3>2
      <4>2. PICK k \in 1 .. n : k = rank(p, i) /\ order[k] = <<p, i>>
        BY <4>1
      <4>3. tabs'[p][i] = [after[p][i] EXCEPT !.token = number(k)]
        BY <2>3, <3>2, <4>2
      <4>4. number(k) \in Nat /\ file(k) = after[p][i].path
        BY <2>4, <4>2
      <4>5. [kind |-> "read", token |-> number(k), path |-> file(k)] \in reads
        BY <2>2
      <4> HIDE DEF reads, number, file
      <4>6. tabs'[p][i].token = number(k) /\ tabs'[p][i] \in Tab_
        BY <3>1, <4>3, <4>4 DEF Tab_
      <4> QED
        BY <2>6, <3>1, <4>3, <4>4, <4>5, <4>6 DEF Asked_, Tab_
    <3>3. CASE <<p, i>> \notin places
      <4>1. tabs'[p][i] = after[p][i]
        BY <2>3, <3>3
      <4> QED
        BY <3>1, <4>1 DEF Asked_, Tab_
    <3> QED
      BY <3>2, <3>3
  <2>8. tabs' = [p \in Panes |-> [i \in DOMAIN after[p] |-> tabs'[p][i]]]
    BY <2>3
  <2> HIDE DEF reads, number, file, rank
  <2>9. SameShape(tabs', after)
    BY <2>7, <2>8, TabsBecome
  <2>10. nextRead' \in Nat \ {0}
    BY <2>1, <2>2, <2>3
  <2> QED
    BY <2>5, <2>6, <2>7, <2>9, <2>10 DEF AreAsked, JobsTyped
<1> QED
  BY <1>1, <1>2

\* There are so many places only.
LEMMA PlacesFinite ==
  ASSUME TabTyped(tabs)
  PROVE  IsFiniteSet(Places)
<1>1. ASSUME NEW p \in Panes PROVE IsFiniteSet({p} \X DOMAIN tabs[p])
  <2> DEFINE D == DOMAIN tabs[p]
             f == [i \in D |-> <<p, i>>]
             T == {p} \X D
  <2>1. D = 1 .. Len(tabs[p]) /\ Len(tabs[p]) \in Nat
    BY DEF TabTyped
  <2>2. IsFiniteSet(D)
    BY <2>1, FS_Interval
  <2> HIDE DEF D
  <2>3. f \in [D -> T]
    OBVIOUS
  <2>4. IsInjective(f)
    BY DEF IsInjective
  <2>5. \A t \in T : \E i \in D : f[i] = t
    OBVIOUS
  <2> HIDE DEF f, T
  <2>6. f \in Bijection(D, T)
    BY <2>3, <2>4, <2>5 DEF Bijection, Injection, Surjection
  <2>7. IsFiniteSet(T)
    BY <2>2, <2>6, FS_Bijection DEF ExistsBijection
  <2> QED
    BY <2>7 DEF T, D
<1>2. PICK p \in Panes, q \in Panes : Panes = {p, q}
  BY DocumentsAssumption
<1>3. Places = ({p} \X DOMAIN tabs[p]) \cup ({q} \X DOMAIN tabs[q])
  BY <1>2 DEF Places
<1> QED
  BY <1>1, <1>3, FS_Union

\* A set of numbers has a least one.
LEMMA LeastExists ==
  ASSUME NEW S \in SUBSET Nat, S # {}
  PROVE  \E i \in S : \A j \in S : i <= j
<1>1. PICK R : R = OpToRel(<, Nat)
  OBVIOUS
<1>2. IsWellFoundedOn(R, Nat)
  BY <1>1, NatLessThanWellFounded, Zenon
<1>3. \E x \in S : \A y \in S : <<y, x>> \notin R
  BY <1>2, WFMin
<1>4. \A x, y \in Nat : y < x => <<y, x>> \in R
  BY <1>1 DEF OpToRel
<1>5. PICK x \in S : \A y \in S : <<y, x>> \notin R
  BY <1>3
<1>6. ASSUME NEW y \in S PROVE x <= y
  <2>1. ~(y < x)
    BY <1>4, <1>5
  <2> QED
    BY <2>1
<1> QED
  BY <1>6

TabHereTyped == HereTab \in Tab_ /\ HereTab \in TabsOf(tabs) /\ Here \in Places /\ At(Here) = HereTab
             /\ active[front] \in DOMAIN tabs[front] /\ front \in Panes

\* There is a tab in front.
LEMMA TabInFront == TabsTyped => TabHereTyped
<1> SUFFICES ASSUME TabsTyped PROVE TabHereTyped
  OBVIOUS
<1>1. front \in Panes /\ active[front] \in DOMAIN tabs[front]
  BY DEF TabsTyped, InFront
<1>2. tabs[front][active[front]] \in Tab_
  BY <1>1 DEF TabsTyped
<1>3. /\ <<front, active[front]>> \in Places
      /\ At(<<front, active[front]>>) = tabs[front][active[front]]
      /\ tabs[front][active[front]] \in TabsOf(tabs)
  BY <1>1, PlacesAreTabs
<1> QED
  BY <1>1, <1>2, <1>3 DEF TabHereTyped, HereTab, Here

\* The tab that opening a path makes, but for what it will read.
NewTab_(u, path) ==
    /\ u \in Tab_ /\ u.kind = "Editor" /\ u.token = NoRead
    /\ \/ u.buf = nextBuf /\ nextBuf' = nextBuf + 1
       \/ u.buf = HereTab.buf /\ HereTab.kind = "Editor"
    /\ \/ u.text = Blank
       \/ path \in Local /\ disk[path] # NoFile /\ u.text = disk[path] /\ u.path = path

Opens(path, rest) ==
    /\ TabTyped(tabs') /\ InFront(tabs', active', front)
    /\ nextBuf' \in Nat /\ nextBuf' >= nextBuf /\ nextRead' \in Nat \ {0}
    /\ IsABag(jobs') /\ BagToSet(jobs') \subseteq Job
    /\ Running("read") \subseteq BagToSet(jobs')
    /\ inbox_' \in {rest, Append(rest, [type |-> "SshConnected"])}
    /\ wronged \subseteq wronged'
    /\ \A t \in TabsOf(tabs') : \E u \in Tab_ :
          (u \in TabsOf(tabs) \/ NewTab_(u, path)) /\ Asked_(u, t, BagToSet(jobs'))

\* open_or_reuse_tab, in all its branches: the tabs it leaves are those there
\* were, or one new tab, asked to be read or not.
LEMMA OpenTabs ==
  ASSUME DocTyped, NEW path \in Paths, NEW rest \in Seq(Event_), OpenOrReuse(path, rest)
  PROVE  Opens(path, rest)
<1> DEFINE mine == tabs[front]
           there == {i \in DOMAIN mine : mine[i].path = path}
           reuse == Blankish(HereTab)
           blank == IF reuse THEN HereTab ELSE Untitled(nextBuf)
           index == IF reuse THEN active[front] ELSE Len(mine) + 1
           put(tab) == [tabs EXCEPT ![front] = IF reuse THEN [@ EXCEPT ![index] = tab]
                                               ELSE Append(@, tab)]
           loaded == [blank EXCEPT !.path = path, !.dirty = FALSE, !.token = NoRead]
           read_ == [loaded EXCEPT !.text = disk[path], !.gen = @ + 1]
           act == [active EXCEPT ![front] = index]
<1>1. TabHereTyped /\ TabTyped(tabs) /\ mine \in Seq(Tab_) /\ nextBuf \in Nat /\ nextRead \in Nat \ {0}
  BY TabInFront DEF DocTyped, TabsTyped, TabTyped, TabHereTyped
<1>2. wronged \subseteq wronged'
  BY DEF OpenOrReuse
<1>3. path \in TabPaths
  BY DEF TabPaths, LocalPaths, Paths
<1>4. NoPath \in TabPaths /\ Blank \in Prose
  BY DEF TabPaths, Prose
<1>5. Untitled(nextBuf) \in Tab_
  BY <1>1, <1>4 DEF Untitled, Tab_, NoRead
<1>6. blank \in Tab_ /\ blank.kind = "Editor" /\ blank.text = Blank
  BY <1>1, <1>5 DEF TabHereTyped, Untitled, Blankish
<1>7. /\ loaded \in Tab_ /\ loaded.kind = "Editor" /\ loaded.text = Blank /\ loaded.token = NoRead
      /\ loaded.buf = blank.buf /\ loaded.path = path
  BY <1>3, <1>6 DEF Tab_, NoRead
<1>8. ASSUME disk[path] # NoFile
      PROVE  /\ read_ \in Tab_ /\ read_.kind = "Editor" /\ read_.token = NoRead
             /\ read_.text = disk[path] /\ read_.buf = blank.buf /\ read_.path = path
  <2>1. disk[path] \in Prose
    BY <1>8 DEF DocTyped, DiskTyped
  <2>2. loaded.gen \in Nat
    BY <1>7 DEF Tab_
  <2>3. PICK l : l = loaded
    OBVIOUS
  <2>4. PICK text : text = disk[path]
    OBVIOUS
  <2>5. [l EXCEPT !.text = text, !.gen = @ + 1] \in Tab_
    <3>1. l \in Tab_ /\ text \in Prose /\ l.gen + 1 \in Nat
      BY <1>7, <2>1, <2>2, <2>3, <2>4
    <3> QED
      BY ONLY <3>1 DEF Tab_
  <2>6. read_ = [l EXCEPT !.text = text, !.gen = @ + 1]
    BY <2>3, <2>4
  <2>7. l \in Tab_ /\ l.kind = "Editor" /\ l.token = NoRead /\ l.buf = blank.buf /\ l.path = path
    BY <1>7, <2>3
  <2> HIDE DEF loaded, read_, blank
  <2> QED
    BY <2>4, <2>5, <2>6, <2>7 DEF Tab_
<1>9. ASSUME NEW t \in Tab_
      PROVE  /\ TabTyped(put(t)) /\ TabsOf(put(t)) \subseteq TabsOf(tabs) \cup {t}
             /\ InFront(put(t), act, front) /\ index \in DOMAIN put(t)[front] /\ put(t)[front][index] = t
  <2> HIDE DEF blank, loaded, read_
  <2>0. /\ front \in Panes /\ active[front] \in DOMAIN tabs[front] /\ active \in [Panes -> Nat \ {0}]
        /\ \A p \in Panes : tabs[p] # <<>> => active[p] \in DOMAIN tabs[p]
    BY DEF DocTyped, TabsTyped, InFront
  <2>1. CASE reuse
    <3>1. put(t) = [tabs EXCEPT ![front][active[front]] = t]
      BY <2>1
    <3> DEFINE new == [tabs EXCEPT ![front][active[front]] = t]
    <3>2. /\ SameShape(new, tabs) /\ TabsOf(new) \subseteq TabsOf(tabs) \cup {t}
          /\ new[front][active[front]] = t
      <4>1. TabTyped(tabs) /\ front \in Panes /\ active[front] \in DOMAIN tabs[front] /\ t \in Tab_
        BY <1>1, <2>0
      <4>2. PutAt(new, tabs, front, active[front], t)
        BY ONLY <4>1, TabPut
      <4> HIDE DEF new
      <4> QED
        BY <4>1, <4>2 DEF PutAt
    <3> HIDE DEF new
    <3>3. act = active
      BY <2>0, <2>1
    <3>4. InFront(new, active, front)
      BY <2>0, <3>2 DEF SameShape, InFront
    <3> QED
      BY <2>0, <2>1, <3>1, <3>2, <3>3, <3>4 DEF SameShape, new
  <2>2. CASE ~reuse
    <3>1. put(t) = [tabs EXCEPT ![front] = Append(mine, t)]
      BY <2>2
    <3>2. /\ Append(mine, t) \in Seq(Tab_) /\ Range(Append(mine, t)) \subseteq Range(mine) \cup {t}
          /\ Append(mine, t) # <<>> /\ DOMAIN Append(mine, t) = 1 .. Len(mine) + 1 /\ Len(mine) \in Nat
          /\ Append(mine, t)[Len(mine) + 1] = t
      BY <1>1, TabAppended
    <3> DEFINE s == Append(mine, t)
               new == [tabs EXCEPT ![front] = s]
    <3> HIDE DEF s
    <3>3. /\ TabTyped(new) /\ TabsOf(new) \subseteq TabsOf(tabs) \cup Range(s)
          /\ \A q \in Panes : new[q] = IF q = front THEN s ELSE tabs[q]
      <4>1. TabTyped(tabs) /\ front \in Panes /\ s \in Seq(Tab_)
        BY <1>1, <2>0, <3>2 DEF s
      <4>2. SetAt(new, tabs, front, s)
        BY ONLY <4>1, PaneSet
      <4> QED
        BY <4>2 DEF SetAt
    <3>4. Range(mine) \subseteq TabsOf(tabs)
      BY <2>0 DEF TabsOf
    <3> HIDE DEF new
    <3>5. act \in [Panes -> Nat \ {0}] /\ \A p \in Panes : act[p] = IF p = front THEN Len(mine) + 1 ELSE active[p]
      BY <2>0, <2>2, <3>2
    <3>6. InFront(new, act, front) /\ index \in DOMAIN new[front] /\ new[front][index] = t
      <4> DEFINE n == Len(mine) + 1
      <4>0. front \in Panes /\ index = n
        BY <2>0, <2>2
      <4>1. new[front] = s /\ s # <<>> /\ n \in DOMAIN s /\ s[n] = t /\ index = n /\ act[front] = n
        <5>1. new[front] = s /\ act[front] = n
          BY <3>3, <3>5, <4>0
        <5>2. n \in 1 .. n
          BY <3>2
        <5> QED
          BY <3>2, <4>0, <5>1, <5>2 DEF s
      <4>2. \A p \in Panes : p # front => new[p] = tabs[p] /\ act[p] = active[p]
        BY <3>3, <3>5
      <4> HIDE DEF n, act, index, mine
      <4> QED
        BY <2>0, <3>5, <4>1, <4>2 DEF InFront
    <3> QED
      BY <3>1, <3>2, <3>3, <3>4, <3>6 DEF new, s
  <2> QED
    BY <2>1, <2>2
<1>10. BagToSet(jobs) \subseteq Job /\ IsABag(jobs) /\ Running("read") \subseteq BagToSet(jobs)
  BY DEF DocTyped, JobsTyped, Running
<1>11. \A t \in Tab_ : \A J : Asked_(t, t, J)
  BY DEF Asked_, Tab_
<1>12. ASSUME NEW u \in Tab_, u.kind = "Editor", u.token = NoRead, u.buf = blank.buf,
              nextBuf' = IF reuse THEN nextBuf ELSE nextBuf + 1,
              \/ u.text = Blank
              \/ path \in Local /\ disk[path] # NoFile /\ u.text = disk[path] /\ u.path = path
       PROVE  NewTab_(u, path)
  <2>1. CASE reuse
    BY <1>12, <2>1 DEF NewTab_, Blankish
  <2>2. CASE ~reuse
    BY <1>12, <2>2 DEF NewTab_, Untitled
  <2> QED
    BY <2>1, <2>2
<1> HIDE DEF blank, loaded, read_, act
<1>13. CASE there # {}
  <2>1. /\ active' = [active EXCEPT ![front] = CHOOSE i \in there : \A j \in there : i <= j]
        /\ inbox_' = rest /\ tabs' = tabs /\ nextBuf' = nextBuf /\ nextRead' = nextRead /\ jobs' = jobs
    BY <1>13 DEF OpenOrReuse
  <2>2. (CHOOSE i \in there : \A j \in there : i <= j) \in there
    <3>1. there \subseteq Nat
      BY <1>1
    <3> DEFINE S == there
    <3>2. S # {} /\ S \in SUBSET Nat
      BY <1>13, <3>1
    <3> HIDE DEF S
    <3>3. \E i \in S : \A j \in S : i <= j
      BY <3>2, LeastExists
    <3> QED
      BY <3>3 DEF S
  <2>3. InFront(tabs', active', front)
    <3> DEFINE k == CHOOSE i \in there : \A j \in there : i <= j
    <3>1. k \in DOMAIN tabs[front] /\ k \in Nat \ {0}
      <4>1. DOMAIN mine \subseteq Nat \ {0} /\ there \subseteq DOMAIN mine
        BY <1>1
      <4> HIDE DEF k, there
      <4>2. k \in there
        BY <2>2 DEF k
      <4> QED
        BY <4>1, <4>2
    <3>2. active' = [active EXCEPT ![front] = k] /\ tabs' = tabs
      BY <2>1
    <3> HIDE DEF k
    <3>3. InFront(tabs, active, front)
      BY DEF DocTyped, TabsTyped
    <3> QED
      BY ONLY <3>1, <3>2, <3>3 DEF InFront
  <2>4. \A t \in TabsOf(tabs) : t \in Tab_
    BY <1>1 DEF TabsOf, TabTyped, Range
  <2>5. nextBuf' \in Nat /\ nextBuf' >= nextBuf
    BY <1>1, <2>1
  <2> HIDE DEF there, mine
  <2> QED
    BY <1>1, <1>2, <1>10, <1>11, <2>1, <2>3, <2>4, <2>5 DEF Opens
<1>14. CASE there = {}
  <2>1. nextBuf' = (IF reuse THEN nextBuf ELSE nextBuf + 1) /\ active' = act
    BY <1>14 DEF OpenOrReuse, act
  <2>2. nextBuf' \in Nat /\ nextBuf' >= nextBuf
    BY <1>1, <2>1
  <2>3. \/ /\ path \in Local /\ disk[path] # NoFile
           /\ tabs' = put(read_)
           /\ inbox_' = rest /\ nextRead' = nextRead /\ jobs' = jobs
        \/ /\ path \in Local
           /\ tabs' = put(blank)
           /\ inbox_' = rest /\ nextRead' = nextRead /\ jobs' = jobs
        \/ /\ path \in Remote /\ conn = "Connected"
           /\ inbox_' = rest
           /\ BeginReads(put(loaded), {<<front, index>>})
        \/ /\ path \in Remote /\ conn # "Connected"
           /\ tabs' = put(loaded)
           /\ inbox_' = IF master THEN Append(rest, [type |-> "SshConnected"]) ELSE rest
           /\ jobs' = IF master THEN jobs ELSE Spawned([kind |-> "connect"])
           /\ nextRead' = nextRead
    BY <1>14 DEF OpenOrReuse, read_, loaded, blank
  <2>4. ASSUME NEW u \in Tab_, u \in TabsOf(tabs) \/ NewTab_(u, path), tabs' = put(u)
        PROVE  /\ TabTyped(tabs') /\ InFront(tabs', active', front)
               /\ \A t \in TabsOf(tabs') : \E v \in Tab_ :
                     (v \in TabsOf(tabs) \/ NewTab_(v, path)) /\ Asked_(v, t, BagToSet(jobs'))
    <3>1. TabTyped(tabs') /\ InFront(tabs', active', front) /\ TabsOf(tabs') \subseteq TabsOf(tabs) \cup {u}
      BY <1>9, <2>1, <2>4
    <3>2. TabsOf(tabs) \subseteq Tab_
      BY <1>1 DEF TabsOf, TabTyped, Range
    <3> QED
      BY <1>11, <2>4, <3>1, <3>2
  <2>5. blank \in TabsOf(tabs) \/ (blank.token = NoRead /\ ~reuse)
    BY <1>1 DEF blank, Untitled, TabHereTyped
  <2>6. blank \in TabsOf(tabs) \/ NewTab_(blank, path)
    BY <1>6, <1>12, <2>1, <2>5
  <2>7. NewTab_(loaded, path)
    BY <1>7, <1>12, <2>1
  <2> HIDE DEF put, reuse, index
  <2>8. ASSUME tabs' = put(blank) \/ tabs' = put(loaded)
                  \/ (path \in Local /\ disk[path] # NoFile /\ tabs' = put(read_))
        PROVE  /\ TabTyped(tabs') /\ InFront(tabs', active', front)
               /\ \A t \in TabsOf(tabs') : \E v \in Tab_ :
                     (v \in TabsOf(tabs) \/ NewTab_(v, path)) /\ Asked_(v, t, BagToSet(jobs'))
    <3>1. CASE tabs' = put(blank)
      BY <1>6, <2>4, <2>6, <3>1
    <3>2. CASE tabs' = put(loaded)
      BY <1>7, <2>4, <2>7, <3>2
    <3>3. CASE path \in Local /\ disk[path] # NoFile /\ tabs' = put(read_)
      <4>1. read_ \in Tab_ /\ NewTab_(read_, path)
        BY <1>8, <1>12, <2>1, <3>3
      <4> QED
        BY <2>4, <3>3, <4>1
    <3> QED
      BY <2>8, <3>1, <3>2, <3>3
  <2>9. CASE /\ inbox_' = rest /\ nextRead' = nextRead /\ jobs' = jobs
             /\ tabs' = put(blank) \/ (path \in Local /\ disk[path] # NoFile /\ tabs' = put(read_))
    BY <1>1, <1>2, <1>10, <2>2, <2>8, <2>9 DEF Opens
  <2>10. CASE /\ path \in Remote /\ conn # "Connected"
              /\ tabs' = put(loaded)
              /\ inbox_' = IF master THEN Append(rest, [type |-> "SshConnected"]) ELSE rest
              /\ jobs' = IF master THEN jobs ELSE Spawned([kind |-> "connect"])
              /\ nextRead' = nextRead
    <3>1. [kind |-> "connect"] \in Job
      BY DEF Job
    <3>2. IsABag(Spawned([kind |-> "connect"])) /\ BagToSet(Spawned([kind |-> "connect"])) = BagToSet(jobs) \cup {[kind |-> "connect"]}
      BY <1>10, SpawnJobs DEF Spawned
    <3>3. IsABag(jobs') /\ BagToSet(jobs') \subseteq Job /\ BagToSet(jobs) \subseteq BagToSet(jobs')
      BY <1>10, <2>10, <3>1, <3>2
    <3> QED
      BY <1>1, <1>2, <1>10, <2>2, <2>8, <2>10, <3>3 DEF Opens
  <2>11. CASE /\ path \in Remote /\ conn = "Connected" /\ inbox_' = rest
              /\ BeginReads(put(loaded), {<<front, index>>})
    <3> DEFINE after == put(loaded)
    <3>1. /\ TabTyped(after) /\ TabsOf(after) \subseteq TabsOf(tabs) \cup {loaded}
          /\ InFront(after, active', front) /\ index \in DOMAIN after[front]
          /\ after[front][index] = loaded
      BY <1>7, <1>9, <2>1
    <3>2. BeginReads(after, {<<front, index>>})
      BY <2>11
    <3> HIDE DEF after
    <3>3. Readable(after, {<<front, index>>})
      <4>1. IsFiniteSet({<<front, index>>})
        BY FS_Singleton
      <4> QED
        BY <1>1, <1>7, <2>11, <3>1, <4>1 DEF Readable, TabHereTyped
    <3>4. /\ SameShape(tabs', after) /\ nextRead' \in Nat \ {0}
          /\ IsABag(jobs') /\ BagToSet(jobs') \subseteq Job /\ BagToSet(jobs) \subseteq BagToSet(jobs')
          /\ AreAsked(after, tabs', BagToSet(jobs'))
      BY <1>1, <3>1, <3>2, <3>3, ReadsBegin DEF DocTyped
    <3>5. TabTyped(tabs') /\ InFront(tabs', active', front)
      BY <3>1, <3>4 DEF SameShape, InFront
    <3>6. ASSUME NEW t \in TabsOf(tabs')
          PROVE \E v \in Tab_ : (v \in TabsOf(tabs) \/ NewTab_(v, path)) /\ Asked_(v, t, BagToSet(jobs'))
      <4>1. PICK p \in Panes : t \in Range(tabs'[p])
        BY <3>6 DEF TabsOf
      <4>2. PICK i \in DOMAIN tabs'[p] : t = tabs'[p][i]
        BY <4>1 DEF Range
      <4>3. i \in DOMAIN after[p] /\ Asked_(after[p][i], t, BagToSet(jobs'))
        BY <3>4, <4>2 DEF SameShape, AreAsked
      <4>4. after[p][i] \in TabsOf(after) /\ after[p][i] \in Tab_
        BY <3>1, <4>3 DEF TabsOf, Range, TabTyped
      <4> QED
        BY <2>7, <3>1, <4>3, <4>4
    <3> QED
      BY <1>2, <1>10, <2>2, <2>11, <3>4, <3>5, <3>6 DEF Opens
  <2> QED
    BY <2>3, <2>9, <2>10, <2>11
<1> QED
  BY <1>13, <1>14

-----------------------------------------------------------------------------
(* Types.                                                                  *)

\* The kind of a thread says what it carries.
LEMMA JobShapes ==
  ASSUME NEW job \in Job
  PROVE  /\ job.kind = "read" => job \in ReadJob
         /\ job.kind = "write" => job \in WriteJob
         /\ job.kind = "rename" => job \in RenameJob
         /\ job.kind = "create" => job \in CreateJob
         /\ job.kind = "format" => job \in FormatJob
  BY DEF Job, ReadJob, WriteJob, RenameJob, CreateJob, FormatJob

\* The type of an event says what it carries.
LEMMA EventShapes ==
  ASSUME NEW e \in Event_
  PROVE  /\ e.type = "RemoteFileContent" => e \in ContentEvent
         /\ e.type = "RemoteFileError" => e \in ErrorEvent
         /\ e.type = "RemoteWriteDone" => e \in WroteEvent
         /\ e.type = "FormatterDone" => e \in FormattedEvent
         /\ e.type = "RemoteFsOpDone" => e \in RenamedEvent \cup CreatedEvent
  BY DEF Event_, ContentEvent, ErrorEvent, WroteEvent, RenamedEvent, CreatedEvent, FormattedEvent

\* Which file the path of a tab is of.
LEMMA FilesOfPaths ==
  /\ \A path \in Local : FileOf(path) = path /\ FileOf(Relative(path)) = path
  /\ \A path \in Remote : FileOf(path) = path
  /\ \A path \in LocalPaths : FileOf(path) \in Local
  /\ \A path \in TabPaths : path # NoPath => FileOf(path) \in Paths
  /\ \A path \in Local : Relative(path) \notin Paths \cup {NoPath}
<1>1. \A path \in Local : FileOf(path) = path /\ FileOf(Relative(path)) = path
                          /\ Relative(path) \notin Paths \cup {NoPath}
  BY DocumentsAssumption DEF FileOf, Relative, Paths
<1>2. \A path \in Remote : FileOf(path) = path
  BY DEF FileOf, Paths
<1> QED
  BY <1>1, <1>2 DEF LocalPaths, TabPaths, Paths

KnownKept == \A f \in Paths : known[f] \subseteq known'[f]

\* A file that is moved takes its history along.
LEMMA DiskMoved ==
  ASSUME DiskTyped, NEW old \in Paths, NEW new \in Paths, disk[old] # NoFile, disk[new] = NoFile,
         MoveFile(old, new)
  PROVE  /\ DiskTyped' /\ KnownKept
         /\ known[old] \subseteq known'[new]
<1>1. old # new
  OBVIOUS
<1>2. /\ disk' \in [Paths -> Prose \cup {NoFile}] /\ known' \in [Paths -> SUBSET Prose]
      /\ \A f \in Paths : /\ disk'[f] = IF f = old THEN NoFile ELSE IF f = new THEN disk[old] ELSE disk[f]
                          /\ known'[f] = IF f = new THEN known[new] \cup known[old] ELSE known[f]
  BY <1>1 DEF MoveFile, DiskTyped
<1> QED
  BY <1>1, <1>2 DEF DiskTyped, KnownKept

\* A text that is written is known from then on.
LEMMA DiskWritten ==
  ASSUME DiskTyped, NEW f \in Paths, NEW text \in Prose,
         disk' = [disk EXCEPT ![f] = text], known' = Learned(f, text)
  PROVE  DiskTyped' /\ KnownKept /\ text \in known'[f]
<1>1. /\ disk' \in [Paths -> Prose \cup {NoFile}] /\ known' \in [Paths -> SUBSET Prose]
      /\ \A g \in Paths : /\ disk'[g] = IF g = f THEN text ELSE disk[g]
                          /\ known'[g] = IF g = f THEN known[f] \cup {text} ELSE known[g]
  BY DEF Learned, DiskTyped
<1> QED
  BY <1>1 DEF DiskTyped, KnownKept

\* The same for many files at once.
LEMMA DiskReplaced ==
  ASSUME DiskTyped, NEW files \in SUBSET Local, NEW text \in [files -> Texts \cup {Blank}],
         NEW written \in SUBSET files,
         disk' = [file \in Paths |-> IF file \in written THEN text[file] ELSE disk[file]],
         known' = [file \in Paths |-> known[file] \cup
                                         IF file \in written THEN {text[file]} ELSE {}]
  PROVE  DiskTyped' /\ KnownKept /\ \A file \in written : text[file] \in known'[file]
<1>1. ASSUME NEW file \in written PROVE file \in Paths /\ text[file] \in Prose
  BY DEF Paths, Prose
<1>2. disk' \in [Paths -> Prose \cup {NoFile}] /\ known' \in [Paths -> SUBSET Prose]
  BY <1>1 DEF DiskTyped
<1>3. \A file \in Paths : known[file] \subseteq known'[file]
  OBVIOUS
<1>4. \A file \in written : text[file] \in known'[file]
  BY <1>1
<1>5. \A file \in Paths : disk'[file] # NoFile => disk'[file] \in known'[file]
  <2> SUFFICES ASSUME NEW file \in Paths, disk'[file] # NoFile PROVE disk'[file] \in known'[file]
    OBVIOUS
  <2>1. CASE file \in written
    BY <1>4, <2>1
  <2>2. CASE file \notin written
    BY <1>3, <2>2 DEF DiskTyped
  <2> QED
    BY <2>1, <2>2
<1> QED
  BY <1>2, <1>3, <1>4, <1>5 DEF DiskTyped, KnownKept

\* Every step keeps the disk typed, and forgets nothing it has shown.
LEMMA DiskKept ==
  ASSUME DocTyped, [DocNext]_docVars
  PROVE  DiskTyped' /\ KnownKept
<1>0. DiskTyped /\ TabHereTyped
  BY TabInFront DEF DocTyped
<1>1. ASSUME UNCHANGED <<disk, known>> PROVE DiskTyped' /\ KnownKept
  BY <1>0, <1>1 DEF DiskTyped, KnownKept
<1>2. ASSUME NEW path \in Paths, OpenPath(path) PROVE DiskTyped' /\ KnownKept
  BY <1>1, <1>2 DEF OpenPath
<1>3. ASSUME NEW path, CreateRemote(path) \/ OpenDiff(path) PROVE DiskTyped' /\ KnownKept
  BY <1>1, <1>3 DEF CreateRemote, FsOp, OpenDiff
<1>4. ASSUME NEW text, EditText(text) \/ ReplaceMatches(text) PROVE DiskTyped' /\ KnownKept
  BY <1>1, <1>4 DEF EditText, ReplaceMatches
<1>20. ASSUME NEW files \in SUBSET Local, ReplaceInFiles(files) PROVE DiskTyped' /\ KnownKept
  BY <1>0, <1>20, DiskReplaced DEF ReplaceInFiles
<1>5. ASSUME NEW p, NEW i, CloseDoc(p, i) \/ Switch(p, i) PROVE DiskTyped' /\ KnownKept
  BY <1>1, <1>5 DEF CloseDoc, Switch
<1>6. ASSUME NEW whole, SplitPane(whole) PROVE DiskTyped' /\ KnownKept
  BY <1>1, <1>6 DEF SplitPane
<1>7. ASSUME NEW old \in Local, NEW new \in Local, RenameLocal(old, new) PROVE DiskTyped' /\ KnownKept
  <2>1. old \in Paths /\ new \in Paths
    BY DEF Paths
  <2> QED
    BY <1>0, <1>7, <2>1, DiskMoved DEF RenameLocal, KnownKept
<1>8. ASSUME NEW old, NEW new, RenameRemote(old, new) PROVE DiskTyped' /\ KnownKept
  BY <1>1, <1>8 DEF RenameRemote, FsOp
<1>9. CASE SaveText
  <2>1. FileOf(HereTab.path) \in Paths /\ HereTab.text \in Prose
    BY <1>0, <1>9, FilesOfPaths DEF SaveText, TabHereTyped, Tab_
  <2>2. \/ UNCHANGED <<disk, known>>
        \/ /\ disk' = [disk EXCEPT ![FileOf(HereTab.path)] = HereTab.text]
           /\ known' = Learned(FileOf(HereTab.path), HereTab.text)
    BY <1>9 DEF SaveText
  <2> QED
    BY <1>0, <1>1, <2>1, <2>2, DiskWritten DEF KnownKept
<1>10. CASE StartConnecting \/ EndConnecting \/ EndRead \/ MasterEnds
  BY <1>1, <1>10 DEF StartConnecting, EndConnecting, EndRead, MasterEnds
<1>11. ASSUME NEW job \in BagToSet(jobs) PROVE job \in Job
  BY <1>11 DEF DocTyped, JobsTyped
<1>12. CASE EndWrite
  <2>1. PICK job \in Running("write") :
          \/ UNCHANGED <<disk, known>>
          \/ disk' = [disk EXCEPT ![job.path] = job.text] /\ known' = Learned(job.path, job.text)
    BY <1>12 DEF EndWrite
  <2>2. job.path \in Paths /\ job.text \in Prose
    BY <1>11, JobShapes DEF Running, WriteJob, Paths
  <2> QED
    BY <1>0, <1>1, <2>1, <2>2, DiskWritten DEF KnownKept
<1>13. CASE EndRename
  <2>1. PICK job \in Running("rename") :
          \/ UNCHANGED <<disk, known>>
          \/ disk[job.old] # NoFile /\ disk[job.new] = NoFile /\ MoveFile(job.old, job.new)
    BY <1>13 DEF EndRename
  <2>2. job.old \in Paths /\ job.new \in Paths
    BY <1>11, JobShapes DEF Running, RenameJob, Paths
  <2> QED
    BY <1>0, <1>1, <2>1, <2>2, DiskMoved DEF KnownKept
<1>14. CASE EndCreate
  <2>1. PICK job \in Running("create") :
          \/ UNCHANGED <<disk, known>>
          \/ disk' = [disk EXCEPT ![job.path] = Blank] /\ known' = Learned(job.path, Blank)
    BY <1>14 DEF EndCreate
  <2>2. job.path \in Paths /\ Blank \in Prose
    BY <1>11, JobShapes DEF Running, CreateJob, Paths, Prose
  <2> QED
    BY <1>0, <1>1, <2>1, <2>2, DiskWritten DEF KnownKept
<1>15. CASE EndFormat
  <2>1. PICK job \in Running("format") :
          \/ UNCHANGED <<disk, known>>
          \/ \E text \in Texts : /\ disk' = [disk EXCEPT ![FileOf(job.path)] = text]
                                 /\ known' = Learned(FileOf(job.path), text)
    BY <1>15 DEF EndFormat
  <2>2. FileOf(job.path) \in Paths /\ Texts \subseteq Prose
    BY <1>11, JobShapes, FilesOfPaths DEF Running, FormatJob, Paths, Prose
  <2> QED
    BY <1>0, <1>1, <2>1, <2>2, DiskWritten DEF KnownKept
<1>16. CASE OnConnecting \/ OnSshError \/ OnConnected
  BY <1>1, <1>16 DEF OnConnecting, OnSshError, ConnEvent, OnConnected, Quiet
<1>17. CASE OnContent \/ OnFileError \/ OnWriteDone \/ OnFormatterDone \/ OnFsOpError
  BY <1>1, <1>17 DEF OnContent, OnFileError, OnWriteDone, OnFormatterDone, OnFsOpError, Quiet
<1>18. CASE OnFsOpDone \/ OnGitOpDone \/ Redraw
  BY <1>1, <1>18 DEF OnFsOpDone, OnGitOpDone, Redraw
<1>19. CASE UNCHANGED docVars
  BY <1>1, <1>19 DEF docVars
<1> QED
  BY <1>2, <1>3, <1>4, <1>5, <1>6, <1>7, <1>8, <1>9, <1>10, <1>12, <1>13, <1>14, <1>15, <1>16,
     <1>17, <1>18, <1>19, <1>20 DEF DocNext, UserNext

Answers == {"RemoteFileContent", "RemoteFileError"}

\* A read stays answered for as long as its thread, or else its event, is
\* there.
LEMMA ReadsCarried ==
  ASSUME \A job \in Running("read") : \/ job \in BagToSet(jobs')
                                      \/ \E e \in Range(inbox_') : /\ e.type \in Answers
                                                                   /\ e.token = job.token /\ e.path = job.path,
         \A e \in Range(inbox_) : e.type \in Answers => e \in Range(inbox_')
  PROVE  Reading_ \subseteq Reading_'
<1> DEFINE G == {e \in Range(inbox_') : e.type \in Answers}
<1>1. \A e \in G : <<e.token, e.path>> \in Reading_'
  BY DEF Reading_, Answers
<1>2. ASSUME NEW job \in Running("read") PROVE <<job.token, job.path>> \in Reading_'
  <2>1. CASE job \in BagToSet(jobs')
    <3>1. job \in Running("read")'
      BY <2>1 DEF Running
    <3> QED
      BY <3>1 DEF Reading_
  <2>2. CASE job \notin BagToSet(jobs')
    <3>1. PICK e \in G : e.token = job.token /\ e.path = job.path
      BY <1>2, <2>2
    <3> QED
      BY <1>1, <3>1
  <2> QED
    BY <2>1, <2>2
<1>3. ASSUME NEW e \in Range(inbox_), e.type \in Answers PROVE <<e.token, e.path>> \in Reading_'
  BY <1>1, <1>3
<1> QED
  BY <1>2, <1>3 DEF Reading_, Answers

\* The elements of the inbox when one is posted or handled.
LEMMA EventsRange ==
  ASSUME NEW q \in Seq(Event_)
  PROVE  /\ Range(q) \subseteq Event_
         /\ \A e \in Event_ : Append(q, e) \in Seq(Event_) /\ Range(Append(q, e)) = Range(q) \cup {e}
         /\ q # <<>> => /\ Head(q) \in Range(q) /\ Tail(q) \in Seq(Event_)
                        /\ Range(q) = {Head(q)} \cup Range(Tail(q))
<1>1. Range(q) \subseteq Event_
  BY DEF Range
<1>2. ASSUME NEW e \in Event_
      PROVE  Append(q, e) \in Seq(Event_) /\ Range(Append(q, e)) = Range(q) \cup {e}
  <2> DEFINE a == Append(q, e)
  <2>1. /\ a \in Seq(Event_) /\ DOMAIN a = 1 .. Len(q) + 1 /\ DOMAIN q = 1 .. Len(q) /\ Len(q) \in Nat
        /\ a[Len(q) + 1] = e /\ \A i \in 1 .. Len(q) : a[i] = q[i]
    OBVIOUS
  <2> HIDE DEF a
  <2>2. 1 .. Len(q) + 1 = (1 .. Len(q)) \cup {Len(q) + 1}
    BY <2>1
  <2>3. Range(a) \subseteq Range(q) \cup {e}
    BY <2>1 DEF Range
  <2>4. Range(q) \cup {e} \subseteq Range(a)
    BY <2>1, <2>2 DEF Range
  <2> QED
    BY <2>1, <2>3, <2>4 DEF a
<1>3. ASSUME q # <<>>
      PROVE  /\ Head(q) \in Range(q) /\ Tail(q) \in Seq(Event_)
             /\ Range(q) = {Head(q)} \cup Range(Tail(q))
  <2> DEFINE r == Tail(q)
  <2>1. /\ Len(q) \in Nat \ {0} /\ DOMAIN q = 1 .. Len(q) /\ Head(q) = q[1]
        /\ r \in Seq(Event_) /\ Len(r) = Len(q) - 1 /\ DOMAIN r = 1 .. Len(q) - 1
        /\ \A i \in 1 .. Len(q) - 1 : r[i] = q[i + 1]
    BY <1>3
  <2> HIDE DEF r
  <2>2. ASSUME NEW i \in 1 .. Len(q) PROVE q[i] \in {q[1]} \cup Range(r)
    <3>1. CASE i = 1
      BY <3>1
    <3>2. CASE i # 1
      <4>1. i - 1 \in 1 .. Len(q) - 1 /\ (i - 1) + 1 = i
        BY <2>1, <3>2
      <4>2. r[i - 1] = q[i]
        BY <2>1, <4>1
      <4> QED
        BY <2>1, <4>1, <4>2 DEF Range
    <3> QED
      BY <3>1, <3>2
  <2>3. ASSUME NEW i \in 1 .. Len(q) - 1 PROVE r[i] \in Range(q)
    <3>1. i + 1 \in DOMAIN q /\ r[i] = q[i + 1]
      BY <2>1
    <3> QED
      BY <3>1 DEF Range
  <2>4. q[1] \in Range(q)
    BY <2>1 DEF Range
  <2>5. Range(q) \subseteq {q[1]} \cup Range(r)
    BY <2>1, <2>2 DEF Range
  <2>6. Range(r) \subseteq Range(q)
    BY <2>1, <2>3 DEF Range
  <2> QED
    BY <2>1, <2>4, <2>5, <2>6 DEF r
<1> QED
  BY <1>1, <1>2, <1>3

ReadsGoOn == JobsTyped' /\ Reading_ \subseteq Reading_'

\* A thread ends with an event, the answer if it reads.
LEMMA FinishedJob ==
  ASSUME JobsTyped, NEW job \in BagToSet(jobs), NEW event \in Event_, Finish(job, event),
         job.kind = "read" => event.type \in Answers /\ event.token = job.token /\ event.path = job.path
  PROVE  ReadsGoOn
<1>1. jobs' = jobs (-) SetToBag({job}) /\ inbox_' = Append(inbox_, event)
  BY DEF Finish
<1>2. IsABag(jobs') /\ BagToSet(jobs') \subseteq BagToSet(jobs) /\ BagToSet(jobs) \ {job} \subseteq BagToSet(jobs')
  BY <1>1, EndJob DEF JobsTyped
<1>3. inbox_' \in Seq(Event_) /\ Range(inbox_') = Range(inbox_) \cup {event}
  BY <1>1, EventsRange DEF JobsTyped
<1>4. Reading_ \subseteq Reading_'
  BY <1>2, <1>3, ReadsCarried DEF Running
<1> QED
  BY <1>2, <1>3, <1>4 DEF ReadsGoOn, JobsTyped

\* Another event is handled, and threads may begin.
LEMMA OtherHandled ==
  ASSUME JobsTyped, inbox_ # <<>>, Head(inbox_).type \notin Answers, inbox_' = Tail(inbox_),
         IsABag(jobs'), BagToSet(jobs') \subseteq Job, Running("read") \subseteq BagToSet(jobs')
  PROVE  ReadsGoOn
<1>1. inbox_' \in Seq(Event_) /\ Range(inbox_) = {Head(inbox_)} \cup Range(inbox_')
  BY EventsRange DEF JobsTyped
<1>2. Reading_ \subseteq Reading_'
  BY <1>1, ReadsCarried
<1> QED
  BY <1>1, <1>2 DEF ReadsGoOn, JobsTyped

\* What opening a path does to threads and events.
LEMMA OpeningGoesOn ==
  ASSUME JobsTyped, NEW path, NEW rest \in Seq(Event_), Opens(path, rest),
         \A e \in Range(inbox_) : e.type \in Answers => e \in Range(rest)
  PROVE  ReadsGoOn
<1> DEFINE up == [type |-> "SshConnected"]
<1>1. up \in Event_
  BY DEF Event_
<1>2. IsABag(jobs') /\ BagToSet(jobs') \subseteq Job /\ Running("read") \subseteq BagToSet(jobs')
      /\ inbox_' \in {rest, Append(rest, up)}
  BY DEF Opens
<1> HIDE DEF up
<1>3. inbox_' \in Seq(Event_) /\ Range(rest) \subseteq Range(inbox_')
  <2>1. Append(rest, up) \in Seq(Event_) /\ Range(Append(rest, up)) = Range(rest) \cup {up}
    BY <1>1, EventsRange
  <2> QED
    BY <1>2, <2>1
<1>4. Reading_ \subseteq Reading_'
  BY <1>2, <1>3, ReadsCarried
<1> QED
  BY <1>2, <1>3, <1>4 DEF ReadsGoOn, JobsTyped

\* Once connected, empty remote tabs are given tokens and threads.
LEMMA ConnectedReads ==
  ASSUME DocTyped, OnConnected
  PROVE  /\ SameShape(tabs', tabs) /\ nextRead' \in Nat \ {0}
         /\ IsABag(jobs') /\ BagToSet(jobs') \subseteq Job /\ BagToSet(jobs) \subseteq BagToSet(jobs')
         /\ AreAsked(tabs, tabs', BagToSet(jobs'))
<1> DEFINE places == {q \in Places : /\ At(q).kind = "Editor" /\ At(q).path \in Remote
                                     /\ At(q).text = Blank /\ At(q).token = NoRead}
<1>1. BeginReads(tabs, places)
  BY DEF OnConnected
<1>2. TabTyped(tabs) /\ JobsTyped /\ nextRead \in Nat \ {0}
  BY DEF DocTyped, TabsTyped, TabTyped
<1>3. IsFiniteSet(places)
  BY <1>2, PlacesFinite, FS_Subset
<1>4. Readable(tabs, places)
  BY <1>3, PlacesAreTabs DEF Readable
<1> HIDE DEF places
<1> QED
  BY <1>1, <1>2, <1>4, ReadsBegin

\* Every step keeps the reads under way, except that handling an answer ends
\* that one.
LEMMA JobsKept ==
  ASSUME DocTyped, [DocNext]_docVars
  PROVE  \/ ReadsGoOn
         \/ /\ OnContent \/ OnFileError
            /\ JobsTyped'
            /\ Reading_ \ {<<Head(inbox_).token, Head(inbox_).path>>} \subseteq Reading_'
<1> DEFINE Goal == \/ ReadsGoOn
                   \/ /\ OnContent \/ OnFileError
                      /\ JobsTyped'
                      /\ Reading_ \ {<<Head(inbox_).token, Head(inbox_).path>>} \subseteq Reading_'
<1> SUFFICES Goal
  OBVIOUS
<1>0. /\ JobsTyped /\ TabHereTyped /\ inbox_ \in Seq(Event_) /\ IsABag(jobs) /\ BagToSet(jobs) \subseteq Job
      /\ Running("read") \subseteq BagToSet(jobs)
  BY TabInFront DEF DocTyped, JobsTyped, Running
<1>1. ASSUME UNCHANGED <<jobs, inbox_>> PROVE Goal
  <2>1. JobsTyped'
    BY <1>0, <1>1 DEF JobsTyped
  <2>2. Reading_' = Reading_
    BY <1>1 DEF Reading_, Running
  <2> QED
    BY <2>1, <2>2 DEF ReadsGoOn
<1>2. ASSUME NEW job \in Job, jobs' = Spawned(job), inbox_' = inbox_ PROVE Goal
  <2>1. IsABag(jobs') /\ BagToSet(jobs') = BagToSet(jobs) \cup {job}
    BY <1>0, <1>2, SpawnJobs DEF Spawned
  <2>2. Reading_ \subseteq Reading_'
    BY <1>0, <1>2, <2>1, ReadsCarried
  <2> QED
    BY <1>0, <1>2, <2>1, <2>2 DEF ReadsGoOn, JobsTyped
<1>3. ASSUME NEW path \in Paths, OpenPath(path) PROVE Goal
  <2>1. Opens(path, inbox_)
    BY <1>0, <1>3, OpenTabs DEF OpenPath
  <2> QED
    BY <1>0, <2>1, OpeningGoesOn
<1>4. ASSUME NEW path \in Remote, CreateRemote(path) PROVE Goal
  <2>1. [kind |-> "create", path |-> path] \in Job
    BY DEF Job, CreateJob
  <2> QED
    BY <1>2, <1>4, <2>1 DEF CreateRemote, FsOp
<1>5. ASSUME NEW old \in Remote, NEW new \in Remote, RenameRemote(old, new) PROVE Goal
  <2>1. [kind |-> "rename", old |-> old, new |-> new] \in Job
    BY DEF Job, RenameJob
  <2> QED
    BY <1>2, <1>5, <2>1 DEF RenameRemote, FsOp
<1>6. CASE SaveText
  <2>1. HereTab.path \in TabPaths /\ HereTab.path # NoPath /\ HereTab.text \in Prose
    BY <1>0, <1>6 DEF SaveText, TabHereTyped, Tab_
  <2>2. \/ UNCHANGED <<jobs, inbox_>>
        \/ /\ FileOf(HereTab.path) \in Local
           /\ jobs' = Spawned([kind |-> "format", path |-> HereTab.path]) /\ inbox_' = inbox_
        \/ /\ FileOf(HereTab.path) \in Remote
           /\ jobs' = Spawned([kind |-> "write", path |-> FileOf(HereTab.path), text |-> HereTab.text])
           /\ inbox_' = inbox_
    BY <1>6 DEF SaveText
  <2>3. FileOf(HereTab.path) \in Local => HereTab.path \in LocalPaths
    BY <2>1, FilesOfPaths, DocumentsAssumption DEF TabPaths
  <2>4. FileOf(HereTab.path) \in Local => [kind |-> "format", path |-> HereTab.path] \in Job
    BY <2>3 DEF Job, FormatJob
  <2>5. FileOf(HereTab.path) \in Remote =>
           [kind |-> "write", path |-> FileOf(HereTab.path), text |-> HereTab.text] \in Job
    BY <2>1 DEF Job, WriteJob
  <2> QED
    BY <1>1, <1>2, <2>2, <2>4, <2>5
<1>7. CASE MasterEnds \/ OnGitOpDone \/ Redraw
  BY <1>1, <1>7 DEF MasterEnds, OnGitOpDone, Redraw
<1>24. ASSUME NEW text, EditText(text) \/ ReplaceMatches(text) PROVE Goal
  BY <1>1, <1>24 DEF EditText, ReplaceMatches
<1>29. ASSUME NEW files, ReplaceInFiles(files) PROVE Goal
  BY <1>1, <1>29 DEF ReplaceInFiles
<1>25. ASSUME NEW p, NEW i, CloseDoc(p, i) \/ Switch(p, i) PROVE Goal
  BY <1>1, <1>25 DEF CloseDoc, Switch
<1>26. ASSUME NEW whole, SplitPane(whole) PROVE Goal
  BY <1>1, <1>26 DEF SplitPane
<1>27. ASSUME NEW path, OpenDiff(path) PROVE Goal
  BY <1>1, <1>27 DEF OpenDiff
<1>28. ASSUME NEW old, NEW new, RenameLocal(old, new) PROVE Goal
  BY <1>1, <1>28 DEF RenameLocal
<1>8. CASE UNCHANGED docVars
  BY <1>1, <1>8 DEF docVars
<1>9. CASE StartConnecting
  <2>1. PICK job \in Running("connect") :
          /\ jobs' = (jobs (-) SetToBag({job})) (+) SetToBag({[kind |-> "dial"]})
          /\ inbox_' = Append(inbox_, [type |-> "SshConnecting"])
    BY <1>9 DEF StartConnecting
  <2> DEFINE less == jobs (-) SetToBag({job})
             dial == [kind |-> "dial"]
             event == [type |-> "SshConnecting"]
  <2>2. IsABag(less) /\ BagToSet(less) \subseteq BagToSet(jobs) /\ BagToSet(jobs) \ {job} \subseteq BagToSet(less)
    BY <1>0, EndJob
  <2>3. jobs' = less (+) SetToBag({dial}) /\ inbox_' = Append(inbox_, event)
    BY <2>1
  <2>4. dial \in Job /\ event \in Event_ /\ job \notin Running("read")
    BY DEF Job, Event_, Running
  <2> HIDE DEF less, dial, event
  <2>5. IsABag(jobs') /\ BagToSet(jobs') = BagToSet(less) \cup {dial}
    BY <2>2, <2>3, SpawnJobs
  <2>6. inbox_' \in Seq(Event_) /\ Range(inbox_) \subseteq Range(inbox_')
    BY <1>0, <2>3, <2>4, EventsRange
  <2>7. Reading_ \subseteq Reading_'
    BY <1>0, <2>2, <2>4, <2>5, <2>6, ReadsCarried
  <2> QED
    BY <1>0, <2>2, <2>4, <2>5, <2>6, <2>7 DEF ReadsGoOn, JobsTyped
<1>10. ASSUME NEW job \in Job PROVE
          /\ job.kind = "read" => job \in ReadJob
          /\ job.kind = "write" => job \in WriteJob
          /\ job.kind = "rename" => job \in RenameJob
          /\ job.kind = "create" => job \in CreateJob
          /\ job.kind = "format" => job \in FormatJob
  BY JobShapes
<1>11. CASE EndConnecting
  <2>1. PICK job \in Running("dial") : Finish(job, [type |-> "SshConnected"]) \/ Finish(job, SshError)
    BY <1>11 DEF EndConnecting
  <2>2. [type |-> "SshConnected"] \in Event_ /\ SshError \in Event_
    BY DEF Event_, SshError
  <2> QED
    BY <1>0, <2>1, <2>2, FinishedJob DEF Running
<1>12. CASE EndRead
  <2>1. PICK job \in Running("read") :
          \/ /\ disk[job.path] # NoFile
             /\ Finish(job, [type |-> "RemoteFileContent", token |-> job.token, path |-> job.path,
                             text |-> disk[job.path]])
          \/ Finish(job, [type |-> "RemoteFileError", token |-> job.token, path |-> job.path])
    BY <1>12 DEF EndRead
  <2> DEFINE came == [type |-> "RemoteFileContent", token |-> job.token, path |-> job.path,
                         text |-> disk[job.path]]
             lost == [type |-> "RemoteFileError", token |-> job.token, path |-> job.path]
  <2>2. job \in ReadJob /\ job \in BagToSet(jobs) /\ job.token \in Nat /\ job.path \in Remote
    BY <1>0, <1>10 DEF Running, ReadJob
  <2>3. disk[job.path] # NoFile => disk[job.path] \in Prose
    BY <2>2 DEF DocTyped, DiskTyped, Paths
  <2>4. disk[job.path] # NoFile => came \in Event_
    BY <2>2, <2>3 DEF Event_, ContentEvent
  <2>5. lost \in Event_
    BY <2>2 DEF Event_, ErrorEvent
  <2>6. came.type \in Answers /\ came.token = job.token /\ came.path = job.path
        /\ lost.type \in Answers /\ lost.token = job.token /\ lost.path = job.path
    BY DEF Answers
  <2>7. (disk[job.path] # NoFile /\ Finish(job, came)) \/ Finish(job, lost)
    BY <2>1
  <2> HIDE DEF came, lost
  <2> QED
    BY <1>0, <2>2, <2>4, <2>5, <2>6, <2>7, FinishedJob
<1>13. CASE EndWrite
  <2>1. PICK job \in Running("write") :
          \/ Finish(job, [type |-> "RemoteWriteDone", path |-> job.path, text |-> job.text])
          \/ Finish(job, SshError)
    BY <1>13 DEF EndWrite
  <2>2. job \in WriteJob /\ job \in BagToSet(jobs) /\ job.kind # "read"
    BY <1>0, <1>10 DEF Running
  <2>3. [type |-> "RemoteWriteDone", path |-> job.path, text |-> job.text] \in Event_ /\ SshError \in Event_
    BY <2>2 DEF Event_, WroteEvent, WriteJob, SshError
  <2> QED
    BY <1>0, <2>1, <2>2, <2>3, FinishedJob
<1>14. CASE EndRename
  <2>1. PICK job \in Running("rename") :
          Finish(job, FsOpDone(job.old, job.new, NoPath)) \/ Finish(job, FsOpError)
    BY <1>14 DEF EndRename
  <2>2. job \in RenameJob /\ job \in BagToSet(jobs) /\ job.kind # "read"
    BY <1>0, <1>10 DEF Running
  <2>3. FsOpDone(job.old, job.new, NoPath) \in Event_ /\ FsOpError \in Event_
    BY <2>2 DEF Event_, RenamedEvent, RenameJob, FsOpDone, FsOpError
  <2> QED
    BY <1>0, <2>1, <2>2, <2>3, FinishedJob
<1>15. CASE EndCreate
  <2>1. PICK job \in Running("create") :
          Finish(job, FsOpDone(NoPath, NoPath, job.path)) \/ Finish(job, FsOpError)
    BY <1>15 DEF EndCreate
  <2>2. job \in CreateJob /\ job \in BagToSet(jobs) /\ job.kind # "read"
    BY <1>0, <1>10 DEF Running
  <2>3. FsOpDone(NoPath, NoPath, job.path) \in Event_ /\ FsOpError \in Event_
    BY <2>2 DEF Event_, CreatedEvent, CreateJob, FsOpDone, FsOpError
  <2> QED
    BY <1>0, <2>1, <2>2, <2>3, FinishedJob
<1>16. CASE EndFormat
  <2>1. PICK job \in Running("format") : Finish(job, [type |-> "FormatterDone", path |-> job.path])
    BY <1>16 DEF EndFormat
  <2>2. job \in FormatJob /\ job \in BagToSet(jobs) /\ job.kind # "read"
    BY <1>0, <1>10 DEF Running
  <2>3. [type |-> "FormatterDone", path |-> job.path] \in Event_
    BY <2>2 DEF Event_, FormattedEvent, FormatJob
  <2> QED
    BY <1>0, <2>1, <2>2, <2>3, FinishedJob
<1>17. CASE OnConnecting \/ OnSshError \/ OnWriteDone \/ OnFormatterDone \/ OnFsOpError
  <2>1. /\ inbox_ # <<>> /\ Head(inbox_).type \notin Answers /\ inbox_' = Tail(inbox_) /\ jobs' = jobs
    BY <1>17 DEF OnConnecting, OnSshError, ConnEvent, OnWriteDone, OnFormatterDone, OnFsOpError, Arrives, Answers
  <2> QED
    BY <1>0, <2>1, OtherHandled
<1>18. CASE OnConnected
  <2>1. /\ inbox_ # <<>> /\ Head(inbox_).type \notin Answers /\ inbox_' = Tail(inbox_)
    BY <1>18 DEF OnConnected, Arrives, Answers
  <2>2. IsABag(jobs') /\ BagToSet(jobs') \subseteq Job /\ BagToSet(jobs) \subseteq BagToSet(jobs')
    BY <1>18, ConnectedReads
  <2> QED
    BY <1>0, <2>1, <2>2, OtherHandled
<1>19. CASE OnFsOpDone
  <2>1. inbox_ # <<>> /\ Head(inbox_).type = "RemoteFsOpDone"
    BY <1>19 DEF OnFsOpDone, Arrives
  <2>2. Head(inbox_).type \notin Answers
    BY <2>1 DEF Answers
  <2>3. CASE inbox_' = Tail(inbox_) /\ jobs' = jobs
    BY <1>0, <2>1, <2>2, <2>3, OtherHandled
  <2>4. CASE Head(inbox_).open # NoPath /\ OpenOrReuse(Head(inbox_).open, Tail(inbox_))
    <3>1. Head(inbox_) \in Event_ /\ Tail(inbox_) \in Seq(Event_)
          /\ Range(inbox_) = {Head(inbox_)} \cup Range(Tail(inbox_))
      BY <1>0, <2>1, EventsRange
    <3>2. Head(inbox_).open \in Paths
      BY <2>1, <2>4, <3>1, EventShapes DEF RenamedEvent, CreatedEvent, Paths
    <3>3. Opens(Head(inbox_).open, Tail(inbox_))
      BY <2>4, <3>1, <3>2, OpenTabs
    <3>4. \A e \in Range(inbox_) : e.type \in Answers => e \in Range(Tail(inbox_))
      BY <2>2, <3>1
    <3> QED
      BY <1>0, <3>1, <3>3, <3>4, OpeningGoesOn
  <2> QED
    BY <1>19, <2>3, <2>4 DEF OnFsOpDone
<1>20. CASE OnContent \/ OnFileError
  <2> DEFINE h == Head(inbox_)
  <2>1. inbox_ # <<>> /\ inbox_' = Tail(inbox_) /\ jobs' = jobs
    BY <1>20 DEF OnContent, OnFileError, Arrives
  <2>2. inbox_' \in Seq(Event_) /\ Range(inbox_) = {h} \cup Range(inbox_')
    BY <1>0, <2>1, EventsRange
  <2>3. JobsTyped'
    BY <1>0, <2>1, <2>2 DEF JobsTyped
  <2> HIDE DEF h
  <2>4. Reading_ \ {<<h.token, h.path>>} \subseteq Reading_'
    BY <2>1, <2>2 DEF Reading_, Running
  <2> QED
    BY <1>20, <2>3, <2>4 DEF h
<1> HIDE DEF Goal
<1>21. CASE UserNext
  BY <1>3, <1>4, <1>5, <1>6, <1>21, <1>24, <1>25, <1>26, <1>27, <1>28, <1>29 DEF UserNext
<1>22. CASE \/ StartConnecting \/ EndConnecting \/ EndRead \/ EndWrite \/ EndRename \/ EndCreate
            \/ EndFormat \/ MasterEnds \/ OnGitOpDone \/ Redraw
  BY <1>7, <1>9, <1>11, <1>12, <1>13, <1>14, <1>15, <1>16, <1>22
<1> QED
  BY <1>8, <1>17, <1>18, <1>19, <1>20, <1>21, <1>22 DEF DocNext

-----------------------------------------------------------------------------
(* What each step makes of the tabs.                                       *)

AllTabs == TabsOf(tabs)
SameFront == active' = active /\ front' = front /\ nextBuf' = nextBuf /\ nextRead' = nextRead

\* Only the tab in front becomes another.
LEMMA EditedTabs ==
  ASSUME DocTyped, NEW t \in Tab_, tabs' = PutFront(t), SameFront
  PROVE  TabsTyped' /\ TabsOf(tabs') \subseteq AllTabs \cup {t}
<1>1. TabHereTyped /\ TabTyped(tabs) /\ InFront(tabs, active, front)
  BY TabInFront DEF DocTyped, TabsTyped, TabTyped
<1>2. PutAt(tabs', tabs, front, active[front], t)
  BY <1>1, TabPut DEF PutFront, TabHereTyped
<1>3. TabTyped(tabs') /\ \A p \in Panes : DOMAIN tabs'[p] = DOMAIN tabs[p] /\ (tabs'[p] = <<>> <=> tabs[p] = <<>>)
  BY <1>2 DEF PutAt, SameShape
<1>4. InFront(tabs', active', front')
  BY <1>1, <1>3 DEF InFront, SameFront
<1> QED
  BY <1>2, <1>3, <1>4 DEF PutAt, TabsTyped, TabTyped, SameFront, DocTyped, AllTabs

\* Closing a tab adds none, and another pane comes to the front with the
\* last.
LEMMA ClosedTabs ==
  ASSUME DocTyped, NEW p, NEW i, CloseDoc(p, i)
  PROVE  TabsTyped' /\ TabsOf(tabs') \subseteq AllTabs
<1> DEFINE rest == RemoveAt(tabs[p], i)
<1>1. TabTyped(tabs) /\ InFront(tabs, active, front)
  BY DEF DocTyped, TabsTyped, TabTyped
<1>2. p \in Panes /\ i \in DOMAIN tabs[p] /\ tabs[p] \in Seq(Tab_)
  <2>1. <<p, i>> \in Places
    BY DEF CloseDoc
  <2> QED
    BY <1>1, <2>1, PlacesAreTabs DEF TabTyped
<1>3. /\ rest \in Seq(Tab_) /\ Range(rest) \subseteq Range(tabs[p])
      /\ Len(rest) = Len(tabs[p]) - 1 /\ Len(tabs[p]) \in Nat /\ DOMAIN rest = 1 .. Len(rest)
  BY <1>2, TabRemoved
<1>4. /\ tabs' = [tabs EXCEPT ![p] = rest]
      /\ active' = [active EXCEPT ![p] =
                        IF rest = <<>> THEN 1 ELSE IF @ > Len(rest) THEN Len(rest) ELSE @]
      /\ front' = IF front = p /\ rest = <<>> THEN Other(p) ELSE front
      /\ nextBuf' = nextBuf /\ nextRead' = nextRead
      /\ Cardinality(Places) > 1
  BY DEF CloseDoc
<1> HIDE DEF rest
<1>5. SetAt(tabs', tabs, p, rest)
  BY <1>1, <1>2, <1>3, <1>4, PaneSet
<1>6. TabsOf(tabs') \subseteq AllTabs
  BY <1>2, <1>3, <1>5 DEF SetAt, TabsOf, AllTabs
<1>7. ASSUME front = p, rest = <<>> PROVE Other(p) \in Panes /\ Other(p) # p /\ tabs[Other(p)] # <<>>
  <2>1. PICK q \in Panes : q # p /\ Panes = {p, q}
    BY <1>2, DocumentsAssumption
  <2>2. Other(p) = q
    BY <2>1 DEF Other
  <2>3. ASSUME tabs[q] = <<>> PROVE FALSE
    <3>1. Len(tabs[p]) = 1
      BY <1>3, <1>7
    <3>2. DOMAIN tabs[p] = {1} /\ DOMAIN tabs[q] = {}
      BY <1>2, <2>3, <3>1
    <3>3. Places = {<<p, 1>>}
      BY <2>1, <3>2 DEF Places
    <3>4. Cardinality(Places) = 1
      BY <3>3, FS_Singleton
    <3> QED
      BY <1>4, <3>4
  <2> QED
    BY <2>1, <2>2, <2>3
<1>8. active' \in [Panes -> Nat \ {0}] /\ \A q \in Panes : tabs'[q] # <<>> => active'[q] \in DOMAIN tabs'[q]
  <2>1. active \in [Panes -> Nat \ {0}] /\ active[p] \in Nat \ {0} /\ Len(rest) \in Nat
        /\ (rest # <<>> => Len(rest) # 0)
    BY <1>1, <1>2, <1>3 DEF InFront
  <2>2. active'[p] = IF rest = <<>> THEN 1 ELSE IF active[p] > Len(rest) THEN Len(rest) ELSE active[p]
    BY <1>2, <1>4, <2>1
  <2>3. \A q \in Panes : q # p => active'[q] = active[q] /\ tabs'[q] = tabs[q]
    BY <1>4, <1>5, <2>1 DEF SetAt
  <2>4. active'[p] \in Nat \ {0} /\ (rest # <<>> => active'[p] \in 1 .. Len(rest))
    BY <2>1, <2>2
  <2>5. active' \in [Panes -> Nat \ {0}]
    BY <1>4, <2>1, <2>2, <2>4
  <2>6. tabs'[p] = rest
    BY <1>2, <1>5 DEF SetAt
  <2> QED
    BY <1>1, <1>3, <2>3, <2>4, <2>5, <2>6 DEF InFront
<1>9. front' \in Panes /\ tabs'[front'] # <<>>
  <2>1. CASE front = p /\ rest = <<>>
    BY <1>4, <1>5, <1>7, <2>1 DEF SetAt
  <2>2. CASE front = p /\ rest # <<>>
    BY <1>2, <1>4, <1>5, <2>2 DEF SetAt
  <2>3. CASE front # p
    BY <1>1, <1>4, <1>5, <2>3 DEF SetAt, InFront
  <2> QED
    BY <2>1, <2>2, <2>3
<1> QED
  BY <1>4, <1>5, <1>6, <1>8, <1>9 DEF TabsTyped, InFront, SetAt, TabTyped, DocTyped

Copied(whole) == IF whole THEN HereTab
                 ELSE [Untitled(HereTab.buf) EXCEPT !.text = HereTab.text, !.path = HereTab.path]
\* A split adds one copy of the tab in front.
LEMMA SplitTabs ==
  ASSUME DocTyped, NEW whole \in BOOLEAN, SplitPane(whole)
  PROVE  TabsTyped' /\ TabsOf(tabs') \subseteq AllTabs \cup {Copied(whole)} /\ Copied(whole) \in Tab_
<1> DEFINE c == Copied(whole)
           p == Other(front)
<1>1. TabHereTyped /\ TabTyped(tabs) /\ InFront(tabs, active, front) /\ nextBuf \in Nat /\ nextRead \in Nat \ {0}
  BY TabInFront DEF DocTyped, TabsTyped, TabTyped
<1>2. c \in Tab_
  BY <1>1 DEF Copied, Untitled, TabHereTyped, Tab_, NoRead
<1>3. /\ tabs' = [tabs EXCEPT ![p] = <<c>>] /\ active' = [active EXCEPT ![p] = 1] /\ front' = p
      /\ nextBuf' \in {nextBuf, nextBuf + 1} /\ nextRead' = nextRead
  BY DEF SplitPane, Copied
<1>4. p \in Panes
  BY <1>1, DocumentsAssumption DEF Other, InFront
<1> DEFINE s == <<c>>
<1>5. s \in Seq(Tab_) /\ Range(s) = {c} /\ s # <<>> /\ 1 \in DOMAIN s
  BY <1>2 DEF Range
<1> HIDE DEF s, c, p
<1>6. SetAt(tabs', tabs, p, s)
  BY <1>1, <1>3, <1>4, <1>5, PaneSet DEF s
<1>7. active' \in [Panes -> Nat \ {0}] /\ \A q \in Panes : active'[q] = IF q = p THEN 1 ELSE active[q]
  BY <1>1, <1>3, <1>4 DEF InFront
<1>8. InFront(tabs', active', front')
  BY <1>1, <1>3, <1>4, <1>5, <1>6, <1>7 DEF SetAt, InFront
<1> QED
  <2>1. nextBuf' \in Nat /\ nextRead' \in Nat \ {0}
    BY <1>1, <1>3
  <2>2. TabsTyped'
    BY <1>6, <1>8, <2>1 DEF TabsTyped, SetAt, TabTyped
  <2>3. TabsOf(tabs') \subseteq AllTabs \cup {c} /\ c \in Tab_
    BY <1>2, <1>5, <1>6 DEF SetAt, AllTabs
  <2> QED
    BY <2>2, <2>3 DEF c

\* A click on a tab changes none.
LEMMA SwitchedTabs ==
  ASSUME DocTyped, NEW p, NEW i, Switch(p, i)
  PROVE  TabsTyped' /\ tabs' = tabs
<1>1. TabTyped(tabs) /\ InFront(tabs, active, front)
  BY DEF DocTyped, TabsTyped, TabTyped
<1>2. p \in Panes /\ i \in DOMAIN tabs[p] /\ tabs[p] \in Seq(Tab_)
  <2>1. <<p, i>> \in Places
    BY DEF Switch
  <2> QED
    BY <1>1, <2>1, PlacesAreTabs DEF TabTyped
<1>3. tabs' = tabs /\ front' = p /\ active' = [active EXCEPT ![p] = i] /\ nextBuf' = nextBuf /\ nextRead' = nextRead
  BY DEF Switch
<1>4. i \in Nat \ {0} /\ tabs[p] # <<>>
  BY <1>2
<1>5. InFront(tabs', active', front')
  BY <1>1, <1>2, <1>3, <1>4 DEF InFront
<1> QED
  BY <1>3, <1>5 DEF TabsTyped, DocTyped

DiffTab(path) == [Untitled(nextBuf) EXCEPT !.kind = "GitDiff", !.path = Relative(path)]
\* A diff tab comes alone.
LEMMA DiffTabs ==
  ASSUME DocTyped, NEW path \in Local, OpenDiff(path)
  PROVE  TabsTyped' /\ TabsOf(tabs') \subseteq AllTabs \cup {DiffTab(path)} /\ DiffTab(path) \in Tab_
<1> DEFINE t == DiffTab(path)
           s == Append(tabs[front], t)
<1>1. TabHereTyped /\ TabTyped(tabs) /\ InFront(tabs, active, front) /\ nextBuf \in Nat /\ nextRead \in Nat \ {0}
      /\ front \in Panes
  BY TabInFront DEF DocTyped, TabsTyped, TabTyped, InFront
<1>2. t \in Tab_
  BY <1>1 DEF DiffTab, Untitled, Tab_, NoRead, TabPaths, LocalPaths, Prose
<1>3. nextBuf' = nextBuf + 1 /\ front' = front /\ nextRead' = nextRead
  BY DEF OpenDiff
<1>4. \/ tabs' = PutFront(t) /\ active' = active
      \/ tabs' = [tabs EXCEPT ![front] = s] /\ active' = [active EXCEPT ![front] = Len(tabs[front]) + 1]
  BY DEF OpenDiff, DiffTab
<1> HIDE DEF t
<1>5. CASE tabs' = PutFront(t) /\ active' = active
  <2>1. PutAt(tabs', tabs, front, active[front], t)
    BY <1>1, <1>2, <1>5, TabPut DEF PutFront, TabHereTyped
  <2>2. TabTyped(tabs') /\ \A p \in Panes : DOMAIN tabs'[p] = DOMAIN tabs[p] /\ (tabs'[p] = <<>> <=> tabs[p] = <<>>)
    BY <2>1 DEF PutAt, SameShape
  <2>3. InFront(tabs', active', front')
    BY <1>1, <1>3, <1>5, <2>2 DEF InFront
  <2> QED
    BY <1>1, <1>2, <1>3, <2>1, <2>2, <2>3 DEF PutAt, TabsTyped, TabTyped, AllTabs, t
<1>6. CASE tabs' = [tabs EXCEPT ![front] = s] /\ active' = [active EXCEPT ![front] = Len(tabs[front]) + 1]
  <2>1. /\ s \in Seq(Tab_) /\ Range(s) \subseteq Range(tabs[front]) \cup {t} /\ Len(tabs[front]) \in Nat
        /\ s # <<>> /\ DOMAIN s = 1 .. Len(tabs[front]) + 1
    BY <1>1, <1>2, TabAppended DEF TabTyped
  <2> HIDE DEF s
  <2>2. SetAt(tabs', tabs, front, s)
    BY <1>1, <1>6, <2>1, PaneSet
  <2> DEFINE n == Len(tabs[front]) + 1
  <2>3. n \in Nat \ {0} /\ n \in DOMAIN s
    BY <2>1
  <2>4. active' = [active EXCEPT ![front] = n]
    BY <1>6
  <2> HIDE DEF n
  <2>5. InFront(tabs', active', front')
    BY <1>1, <1>3, <2>1, <2>2, <2>3, <2>4 DEF InFront, SetAt
  <2>6. TabsOf(tabs') \subseteq AllTabs \cup {t}
    BY <1>1, <2>1, <2>2 DEF SetAt, TabsOf, AllTabs
  <2> QED
    BY <1>1, <1>2, <1>3, <2>2, <2>5, <2>6 DEF SetAt, TabsTyped, TabTyped, t
<1> QED
  BY <1>4, <1>5, <1>6

\* Steps that change every tab by a rule.
ByRule == \A t \in TabsOf(tabs') : \E p \in Panes : \E i \in DOMAIN tabs[p] :
             t = tabs'[p][i] /\ tabs[p][i] \in AllTabs /\ tabs[p][i] \in Tab_ /\ t \in Tab_
\* Tabs changed one by one stay where they are.
LEMMA RuledTabs ==
  ASSUME DocTyped, SameFront,
         tabs' = [p \in Panes |-> [i \in DOMAIN tabs[p] |-> tabs'[p][i]]],
         \A p \in Panes : \A i \in DOMAIN tabs[p] : tabs'[p][i] \in Tab_
  PROVE  TabsTyped' /\ ByRule
<1>1. TabTyped(tabs) /\ InFront(tabs, active, front)
  BY DEF DocTyped, TabsTyped, TabTyped
<1>2. SameShape(tabs', tabs)
  <2> DEFINE new == tabs'
  <2>1. /\ new = [p \in Panes |-> [i \in DOMAIN tabs[p] |-> new[p][i]]]
        /\ \A p \in Panes : \A i \in DOMAIN tabs[p] : new[p][i] \in Tab_
    OBVIOUS
  <2> HIDE DEF new
  <2>2. SameShape(new, tabs)
    BY <1>1, <2>1, TabsBecome
  <2> QED
    BY <2>2 DEF new
<1>3. InFront(tabs', active', front')
  BY <1>1, <1>2 DEF InFront, SameShape, SameFront
<1>4. ASSUME NEW t \in TabsOf(tabs')
      PROVE  \E p \in Panes : \E i \in DOMAIN tabs[p] :
               t = tabs'[p][i] /\ tabs[p][i] \in AllTabs /\ tabs[p][i] \in Tab_ /\ t \in Tab_
  <2>1. PICK p \in Panes : t \in Range(tabs'[p])
    BY <1>4 DEF TabsOf
  <2>2. PICK i \in DOMAIN tabs'[p] : t = tabs'[p][i]
    BY <2>1 DEF Range
  <2>3. i \in DOMAIN tabs[p]
    BY <1>2, <2>2 DEF SameShape
  <2> QED
    <3>1. tabs[p][i] \in AllTabs
      BY <2>3, PlacesAreTabs DEF AllTabs
    <3>2. tabs[p][i] \in Tab_
      BY <1>1, <2>3 DEF TabTyped
    <3>3. i \in DOMAIN tabs'[p] /\ tabs'[p][i] \in Tab_
      BY <1>2, <2>2 DEF SameShape, TabTyped
    <3> QED
      BY <2>2, <2>3, <3>1, <3>2, <3>3
<1> QED
  BY <1>2, <1>3, <1>4 DEF ByRule, TabsTyped, SameShape, TabTyped, SameFront, DocTyped

\* Diff tabs leave a pane.
Leaving == INSTANCE FoldFacts WITH
    Op <- LAMBDA k, rest, tab : IF tab.kind # "GitDiff" THEN Append(rest, tab) ELSE rest
Kept_(q) == FoldLeft(LAMBDA rest, tab : IF tab.kind # "GitDiff" THEN Append(rest, tab) ELSE rest,
                     <<>>, q)
\* What is left without diff tabs are tabs that were there.
LEMMA KeptTabs ==
  ASSUME NEW q \in Seq(Tab_)
  PROVE  Kept_(q) \in Seq(Tab_) /\ Range(Kept_(q)) \subseteq Range(q)
<1> DEFINE V == Seq(Range(q))
<1>1. \A r : Kept_(r) = Leaving!Fold(0, <<>>, r)
  BY DEF Kept_, FoldLeft, MapThenFoldSet, Max, Leaving!Fold, Leaving!Iterates, Leaving!Top
<1>2. q \in Seq(Range(q)) /\ Range(q) \subseteq Tab_
  BY DEF Range
<1>3. \A a \in V, m \in Range(q) : (IF m.kind # "GitDiff" THEN Append(a, m) ELSE a) \in V
  OBVIOUS
<1>4. <<>> \in V
  OBVIOUS
<1>5. Leaving!Fold(0, <<>>, q) \in V
  BY <1>2, <1>3, <1>4, Leaving!FoldKeeps
<1>6. Kept_(q) \in V
  BY <1>1, <1>5
<1> QED
  BY <1>2, <1>6 DEF Range

\* After a git operation there are the tabs that were there, and untitled
\* ones with fresh buffers.
LEMMA GitTabs ==
  ASSUME DocTyped, OnGitOpDone
  PROVE  /\ TabsTyped' /\ nextBuf' >= nextBuf /\ wronged \subseteq wronged'
         /\ \A t \in TabsOf(tabs') : \/ t \in AllTabs
                                     \/ \E n \in nextBuf .. nextBuf' - 1 : t = Untitled(n)
<1> DEFINE kept(p) == Kept_(tabs[p])
           emptied == {p \in Panes : tabs[p] # <<>> /\ kept(p) = <<>>}
           number(p) == nextBuf + Cardinality(emptied \ {front, p})
<1>1. TabTyped(tabs) /\ InFront(tabs, active, front) /\ nextBuf \in Nat /\ nextRead \in Nat \ {0}
  BY DEF DocTyped, TabsTyped, TabTyped
<1>2. /\ tabs' = [p \in Panes |-> IF p \in emptied THEN <<Untitled(number(p))>> ELSE kept(p)]
      /\ nextBuf' = nextBuf + Cardinality(emptied)
      /\ active' = [p \in Panes |-> IF kept(p) = <<>> THEN 1
                                    ELSE IF active[p] > Len(kept(p)) THEN Len(kept(p))
                                    ELSE active[p]]
      /\ front' = front /\ nextRead' = nextRead /\ wronged \subseteq wronged'
  BY DEF OnGitOpDone, Kept_
<1>3. \A p \in Panes : tabs[p] \in Seq(Tab_)
  BY <1>1 DEF TabTyped
<1>4. \A p \in Panes : kept(p) \in Seq(Tab_) /\ Range(kept(p)) \subseteq Range(tabs[p])
  BY <1>3, KeptTabs
<1>5. IsFiniteSet(emptied)
  <2>1. PICK p \in Panes, q \in Panes : Panes = {p, q}
    BY DocumentsAssumption
  <2>2. IsFiniteSet({p}) /\ IsFiniteSet({q}) /\ Panes = {p} \cup {q}
    BY <2>1, FS_Singleton
  <2>3. IsFiniteSet(Panes)
    BY <2>2, FS_Union
  <2> QED
    BY <2>3, FS_Subset
<1> HIDE DEF emptied
<1>6. Cardinality(emptied) \in Nat
  BY <1>5, FS_CardinalityType
<1>7. ASSUME NEW p \in Panes, p \in emptied
      PROVE  number(p) \in nextBuf .. nextBuf' - 1
  <2> DEFINE less == emptied \ {front, p}
             some == emptied \ {p}
  <2>1. IsFiniteSet(some) /\ Cardinality(some) = Cardinality(emptied) - 1
    BY <1>5, <1>7, FS_RemoveElement
  <2>2. less \subseteq some
    OBVIOUS
  <2> HIDE DEF some
  <2>3. IsFiniteSet(less) /\ Cardinality(less) <= Cardinality(some)
    BY <2>1, <2>2, FS_Subset
  <2>4. Cardinality(less) \in Nat
    BY <2>3, FS_CardinalityType
  <2> HIDE DEF less
  <2>5. nextBuf + Cardinality(less) \in nextBuf .. nextBuf' - 1
    BY <1>1, <1>2, <1>6, <2>1, <2>3, <2>4
  <2> QED
    BY <2>5 DEF less
<1> HIDE DEF number
<1>8. nextBuf' \in Nat /\ nextBuf' >= nextBuf
  BY <1>1, <1>2, <1>6
<1>9. ASSUME NEW p \in Panes
      PROVE  /\ tabs'[p] \in Seq(Tab_)
             /\ \A t \in Range(tabs'[p]) : \/ t \in AllTabs
                                           \/ \E n \in nextBuf .. nextBuf' - 1 : t = Untitled(n)
             /\ tabs'[p] # <<>> => active'[p] \in DOMAIN tabs'[p]
             /\ active'[p] \in Nat \ {0}
             /\ tabs[p] # <<>> => tabs'[p] # <<>>
  <2>1. CASE p \in emptied
    <3> DEFINE n == number(p)
               s == <<Untitled(n)>>
    <3>1. n \in nextBuf .. nextBuf' - 1 /\ n \in Nat
      BY <1>1, <1>7, <1>8, <2>1
    <3>2. Untitled(n) \in Tab_
      BY <3>1 DEF Untitled, Tab_, NoRead, TabPaths, Prose
    <3>3. tabs'[p] = s /\ active'[p] = 1
      BY <1>2, <2>1 DEF emptied
    <3> HIDE DEF n
    <3>4. s \in Seq(Tab_) /\ Range(s) = {Untitled(n)} /\ s # <<>> /\ 1 \in DOMAIN s
      BY <3>2 DEF Range
    <3> HIDE DEF s
    <3> QED
      BY <3>1, <3>3, <3>4
  <2>2. CASE p \notin emptied
    <3> DEFINE k == kept(p)
    <3>1. tabs'[p] = k /\ k \in Seq(Tab_) /\ Range(k) \subseteq Range(tabs[p]) /\ DOMAIN k = 1 .. Len(k) /\ Len(k) \in Nat
      <4>1. tabs'[p] = kept(p)
        BY <1>2, <2>2
      <4>2. kept(p) \in Seq(Tab_) /\ Range(kept(p)) \subseteq Range(tabs[p])
        BY <1>4
      <4> HIDE DEF kept
      <4>3. DOMAIN k = 1 .. Len(k) /\ Len(k) \in Nat
        BY <4>2
      <4> QED
        BY <4>1, <4>2, <4>3
    <3>2. active'[p] = IF k = <<>> THEN 1 ELSE IF active[p] > Len(k) THEN Len(k) ELSE active[p]
      BY <1>2
    <3>3. tabs[p] # <<>> => k # <<>>
      BY <2>2 DEF emptied
    <3> HIDE DEF k
    <3>4. Range(k) \subseteq AllTabs
      BY <3>1 DEF AllTabs, TabsOf
    <3>5. active[p] \in Nat \ {0} /\ (k # <<>> => Len(k) \in Nat \ {0})
      BY <1>1, <3>1 DEF InFront
    <3>6. active'[p] \in Nat \ {0} /\ (k # <<>> => active'[p] \in 1 .. Len(k))
      BY <3>2, <3>5
    <3> QED
      BY <3>1, <3>3, <3>4, <3>6
  <2> QED
    BY <2>1, <2>2
<1>10. tabs' \in [Panes -> Seq(Tab_)] /\ active' \in [Panes -> Nat \ {0}]
  <2>1. tabs' = [p \in Panes |-> tabs'[p]] /\ active' = [p \in Panes |-> active'[p]]
    BY <1>2
  <2> QED
    BY <1>9, <2>1
<1>11. InFront(tabs', active', front')
  BY <1>1, <1>2, <1>9, <1>10 DEF InFront
<1>12. TabsTyped'
  BY <1>1, <1>2, <1>8, <1>10, <1>11 DEF TabsTyped
<1>13. \A t \in TabsOf(tabs') : \/ t \in AllTabs
                                \/ \E n \in nextBuf .. nextBuf' - 1 : t = Untitled(n)
  BY <1>9 DEF TabsOf
<1> QED
  BY <1>2, <1>8, <1>12, <1>13

-----------------------------------------------------------------------------
(* Where each tab comes from.                                              *)

\* A rename gives the tabs of the old path the new one; reads under way for
\* them are lost.
RenamedFrom(t, u, old, new) ==
    t = Renamed(u, old, new) /\ (t.path # u.path => u.token \in moved' \cup {NoRead})
\* update_paths_after_rename, tab by tab.
LEMMA RenamedTabs ==
  ASSUME DocTyped, SameFront, NEW old, NEW new \in TabPaths, UpdatePaths(old, new)
  PROVE  /\ TabsTyped' /\ moved \subseteq moved'
         /\ \A t \in TabsOf(tabs') : \E u \in AllTabs : u \in Tab_ /\ RenamedFrom(t, u, old, new)
<1>1. tabs' = [p \in Panes |-> [i \in DOMAIN tabs[p] |-> Renamed(tabs[p][i], old, new)]]
      /\ moved' = moved \cup Misled
  BY DEF UpdatePaths, EachTab
<1>2. ASSUME NEW p \in Panes, NEW i \in DOMAIN tabs[p]
      PROVE  /\ tabs'[p][i] = Renamed(tabs[p][i], old, new) /\ tabs'[p][i] \in Tab_
             /\ tabs'[p][i].path # tabs[p][i].path => tabs[p][i].token \in moved' \cup {NoRead}
  <2>1. tabs[p][i] \in Tab_
    BY DEF DocTyped, TabsTyped
  <2>2. tabs'[p][i] = Renamed(tabs[p][i], old, new)
    BY <1>1
  <2>3. tabs'[p][i] \in Tab_
    BY <2>1, <2>2 DEF Renamed, Tab_
  <2>4. ASSUME tabs'[p][i].path # tabs[p][i].path PROVE tabs[p][i].token \in moved' \cup {NoRead}
    <3> DEFINE q == <<p, i>>
    <3>1. q \in Places /\ q[1] = p /\ q[2] = i /\ At(q) = tabs[p][i]
      BY PlacesAreTabs
    <3> HIDE DEF q
    <3>2. At(q).token \in Misled \cup {NoRead}
      BY <2>4, <3>1 DEF Misled
    <3> QED
      BY <1>1, <3>1, <3>2
  <2> QED
    BY <2>2, <2>3, <2>4
<1>3. tabs' = [p \in Panes |-> [i \in DOMAIN tabs[p] |-> tabs'[p][i]]]
  BY <1>1
<1>4. TabsTyped' /\ ByRule
  BY <1>2, <1>3, RuledTabs
<1>5. ASSUME NEW t \in TabsOf(tabs') PROVE \E u \in AllTabs : u \in Tab_ /\ RenamedFrom(t, u, old, new)
  <2>1. PICK p \in Panes : \E i \in DOMAIN tabs[p] :
             t = tabs'[p][i] /\ tabs[p][i] \in AllTabs /\ tabs[p][i] \in Tab_ /\ t \in Tab_
    BY <1>4 DEF ByRule
  <2>2. PICK i \in DOMAIN tabs[p] :
             t = tabs'[p][i] /\ tabs[p][i] \in AllTabs /\ tabs[p][i] \in Tab_ /\ t \in Tab_
    BY <2>1
  <2> QED
    BY <1>2, <2>2 DEF RenamedFrom
<1> QED
  BY <1>1, <1>4, <1>5

\* The answer of a read changes only the tabs that await it, which then
\* await nothing.
AnsweredFrom(t, u, event) ==
    /\ t.path = u.path /\ t.dirty = u.dirty /\ t.buf = u.buf /\ t.kind = u.kind
    /\ \/ Awaited(u, event) /\ t.token = NoRead
       \/ ~Awaited(u, event) /\ t = u
    /\ \/ t.text = u.text
       \/ event.type = "RemoteFileContent" /\ Awaited(u, event) /\ t.text = event.text
\* RemoteFileContent and RemoteFileError, tab by tab.
LEMMA AnsweredTabs ==
  ASSUME DocTyped, OnContent \/ OnFileError
  PROVE  /\ TabsTyped' /\ moved' = moved
         /\ \A t \in TabsOf(tabs') : \E u \in AllTabs : u \in Tab_ /\ AnsweredFrom(t, u, Head(inbox_))
<1> DEFINE h == Head(inbox_)
           Lost(tab) == IF Awaited(tab, h) THEN [tab EXCEPT !.token = NoRead] ELSE tab
<1>1. h \in Event_ /\ (h.type = "RemoteFileContent" => h \in ContentEvent) /\ SameFront /\ moved' = moved
  <2>1. inbox_ # <<>> /\ inbox_ \in Seq(Event_)
    BY DEF OnContent, OnFileError, Arrives, DocTyped, JobsTyped
  <2>2. h \in Event_
    BY <2>1
  <2> QED
    BY <2>2, EventShapes DEF OnContent, OnFileError, Quiet, SameFront
<1>2. \/ /\ h.type = "RemoteFileContent"
         /\ tabs' = [p \in Panes |-> [i \in DOMAIN tabs[p] |-> Answer(tabs[p][i], h)]]
      \/ tabs' = [p \in Panes |-> [i \in DOMAIN tabs[p] |-> Lost(tabs[p][i])]]
  BY DEF OnContent, OnFileError, EachTab, Arrives
<1>3. tabs' = [p \in Panes |-> [i \in DOMAIN tabs[p] |-> tabs'[p][i]]]
  BY <1>2
<1>4. ASSUME NEW p \in Panes, NEW i \in DOMAIN tabs[p]
      PROVE  tabs'[p][i] \in Tab_ /\ AnsweredFrom(tabs'[p][i], tabs[p][i], h)
  <2>1. PICK u : u = tabs[p][i]
    OBVIOUS
  <2>2. PICK t : t = tabs'[p][i]
    OBVIOUS
  <2>3. u \in Tab_
    BY <2>1 DEF DocTyped, TabsTyped
  <2>4. \/ h.type = "RemoteFileContent" /\ t = Answer(u, h)
        \/ t = Lost(u)
    BY <1>2, <2>1, <2>2
  <2>5. u.gen + 1 \in Nat /\ (h.type = "RemoteFileContent" => h.text \in Prose)
    BY <1>1, <2>3 DEF Tab_, ContentEvent
  <2>9. \A v \in Tab_ : \A text \in Prose : \A n \in Nat :
           /\ [v EXCEPT !.token = NoRead] \in Tab_
           /\ [v EXCEPT !.token = NoRead, !.text = text, !.gen = n] \in Tab_
    BY DEF Tab_, NoRead
  <2> HIDE DEF h
  <2>6. t \in Tab_ /\ AnsweredFrom(t, u, h)
    <3>1. CASE ~Awaited(u, h)
      <4>1. t = u
        BY <2>4, <3>1 DEF Answer
      <4> QED
        BY <2>3, <3>1, <4>1 DEF AnsweredFrom
    <3>2. CASE Awaited(u, h) /\ t = [u EXCEPT !.token = NoRead]
      <4>1. t \in Tab_
        BY <2>3, <2>9, <3>2 DEF Tab_
      <4> QED
        BY <2>3, <3>2, <4>1 DEF AnsweredFrom, Tab_
    <3>3. CASE /\ Awaited(u, h) /\ h.type = "RemoteFileContent"
               /\ t = [u EXCEPT !.token = NoRead, !.text = h.text, !.gen = @ + 1]
      <4>1. t \in Tab_
        BY <2>3, <2>5, <2>9, <3>3
      <4> QED
        BY <2>3, <3>3, <4>1 DEF AnsweredFrom, Tab_
    <3> QED
      BY <2>4, <3>1, <3>2, <3>3 DEF Answer
  <2> QED
    BY <2>1, <2>2, <2>6
<1> HIDE DEF h
<1>5. TabsTyped' /\ ByRule
  BY <1>1, <1>3, <1>4, RuledTabs
<1>6. ASSUME NEW t \in TabsOf(tabs') PROVE \E u \in AllTabs : u \in Tab_ /\ AnsweredFrom(t, u, h)
  <2>1. PICK p \in Panes : \E i \in DOMAIN tabs[p] :
             t = tabs'[p][i] /\ tabs[p][i] \in AllTabs /\ tabs[p][i] \in Tab_ /\ t \in Tab_
    BY <1>5 DEF ByRule
  <2>2. PICK i \in DOMAIN tabs[p] :
             t = tabs'[p][i] /\ tabs[p][i] \in AllTabs /\ tabs[p][i] \in Tab_ /\ t \in Tab_
    BY <2>1
  <2> QED
    BY <1>4, <2>2
<1> QED
  BY <1>1, <1>5, <1>6 DEF h

\* A write that is done unmarks the tabs of its path.
WrittenFrom(t, u, event) ==
    \/ t = u /\ u.path # event.path
    \/ /\ t = [u EXCEPT !.dirty = FALSE] /\ u.path = event.path
       /\ u.dirty /\ u.text # event.text => u.buf \in wronged'
\* RemoteWriteDone, tab by tab.
LEMMA WrittenTabs ==
  ASSUME DocTyped, OnWriteDone
  PROVE  /\ TabsTyped' /\ moved' = moved /\ wronged \subseteq wronged'
         /\ \A t \in TabsOf(tabs') : \E u \in AllTabs : u \in Tab_ /\ WrittenFrom(t, u, Head(inbox_))
<1> DEFINE h == Head(inbox_)
           Written(tab) == IF tab.path = h.path THEN [tab EXCEPT !.dirty = FALSE] ELSE tab
           late == {r \in Places : At(r).path = h.path /\ At(r).dirty /\ At(r).text # h.text}
<1>1. /\ tabs' = [p \in Panes |-> [i \in DOMAIN tabs[p] |-> Written(tabs[p][i])]]
      /\ wronged' = wronged \cup {At(q).buf : q \in late}
      /\ SameFront /\ moved' = moved
  BY DEF OnWriteDone, EachTab, Quiet, SameFront
<1> HIDE DEF h, late
<1>2. tabs' = [p \in Panes |-> [i \in DOMAIN tabs[p] |-> tabs'[p][i]]]
  BY <1>1
<1>3. ASSUME NEW p \in Panes, NEW i \in DOMAIN tabs[p]
      PROVE  tabs'[p][i] \in Tab_ /\ WrittenFrom(tabs'[p][i], tabs[p][i], h)
  <2>1. PICK u : u = tabs[p][i]
    OBVIOUS
  <2>2. u \in Tab_
    BY <2>1 DEF DocTyped, TabsTyped
  <2>3. tabs'[p][i] = Written(u)
    BY <1>1, <2>1
  <2>4. Written(u) \in Tab_
    BY <2>2 DEF Tab_
  <2>5. ASSUME u.path = h.path, u.dirty, u.text # h.text PROVE u.buf \in wronged'
    <3> DEFINE q == <<p, i>>
    <3>1. q \in Places /\ At(q) = u
      BY <2>1, PlacesAreTabs
    <3> HIDE DEF q
    <3>2. q \in late
      BY <2>5, <3>1 DEF late
    <3> QED
      BY <1>1, <3>1, <3>2
  <2> QED
    BY <2>1, <2>3, <2>4, <2>5 DEF WrittenFrom
<1>4. TabsTyped' /\ ByRule
  BY <1>1, <1>2, <1>3, RuledTabs
<1>5. ASSUME NEW t \in TabsOf(tabs') PROVE \E u \in AllTabs : u \in Tab_ /\ WrittenFrom(t, u, h)
  <2>1. PICK p \in Panes : \E i \in DOMAIN tabs[p] :
             t = tabs'[p][i] /\ tabs[p][i] \in AllTabs /\ tabs[p][i] \in Tab_ /\ t \in Tab_
    BY <1>4 DEF ByRule
  <2>2. PICK i \in DOMAIN tabs[p] :
             t = tabs'[p][i] /\ tabs[p][i] \in AllTabs /\ tabs[p][i] \in Tab_ /\ t \in Tab_
    BY <2>1
  <2> QED
    BY <1>3, <2>2
<1> QED
  BY <1>1, <1>4, <1>5 DEF h

\* A replacement in files gives their tabs another text, that of the file unless
\* its buffer is given up, and takes their mark.
ReplacedFrom(t, u) ==
    \/ t = u
    \/ /\ u.path \in Local
       /\ t.kind = u.kind /\ t.buf = u.buf /\ t.path = u.path /\ t.token = u.token
       /\ t.text \in known'[u.path] \/ u.buf \in wronged'

\* global_replace, tab by tab.
LEMMA ReplacedTabs ==
  ASSUME DocTyped, NEW files \in SUBSET Local, ReplaceInFiles(files)
  PROVE  /\ TabsTyped' /\ SameFront /\ moved' = moved
         /\ wronged \cup Behind(tabs') \subseteq wronged'
         /\ tabs' = [p \in Panes |-> [i \in DOMAIN tabs[p] |-> tabs'[p][i]]]
         /\ \A p \in Panes : \A i \in DOMAIN tabs[p] : tabs'[p][i].buf = tabs[p][i].buf
         /\ \A t \in TabsOf(tabs') : \E u \in AllTabs : u \in Tab_ /\ ReplacedFrom(t, u)
<1>0. PICK text \in [files -> Texts \cup {Blank}], written \in SUBSET files :
        /\ disk' = [file \in Paths |-> IF file \in written THEN text[file] ELSE disk[file]]
        /\ known' = [file \in Paths |-> known[file] \cup
                                        IF file \in written THEN {text[file]} ELSE {}]
        /\ tabs' = [p \in Panes |-> [i \in DOMAIN tabs[p] |->
                      IF tabs[p][i].path \notin files THEN tabs[p][i]
                      ELSE [tabs[p][i] EXCEPT !.text = text[tabs[p][i].path], !.dirty = FALSE]]]
        /\ wronged' = wronged \cup Behind(tabs')
                      \cup {At(q).buf : q \in {r \in Places : At(r).path \in files \ written}}
  BY DEF ReplaceInFiles, EachTab
<1>1. SameFront /\ moved' = moved
  BY DEF ReplaceInFiles, SameFront
<1> DEFINE Rewritten(tab) == IF tab.path \notin files THEN tab
                             ELSE [tab EXCEPT !.text = text[tab.path], !.dirty = FALSE]
           late == {r \in Places : At(r).path \in files \ written}
<1>2. /\ tabs' = [p \in Panes |-> [i \in DOMAIN tabs[p] |-> Rewritten(tabs[p][i])]]
      /\ wronged' = wronged \cup Behind(tabs') \cup {At(q).buf : q \in late}
  BY <1>0
<1>3. tabs' = [p \in Panes |-> [i \in DOMAIN tabs[p] |-> tabs'[p][i]]]
  <2> HIDE DEF Rewritten
  <2> QED
    BY <1>2
<1>4. \A file \in written : text[file] \in known'[file]
  BY <1>0, DiskReplaced DEF DocTyped
<1> HIDE DEF late
<1>5. ASSUME NEW p \in Panes, NEW i \in DOMAIN tabs[p]
      PROVE  /\ tabs'[p][i] \in Tab_ /\ tabs'[p][i].buf = tabs[p][i].buf
             /\ ReplacedFrom(tabs'[p][i], tabs[p][i])
  <2>1. PICK u : u = tabs[p][i]
    OBVIOUS
  <2>2. u \in Tab_
    BY <2>1 DEF DocTyped, TabsTyped
  <2>3. tabs'[p][i] = Rewritten(u)
    BY <1>2, <2>1
  <2>4. CASE u.path \notin files
    BY <2>1, <2>2, <2>3, <2>4 DEF ReplacedFrom
  <2>5. CASE u.path \in files
    <3>1. PICK new \in Prose : new = text[u.path]
      BY <2>5 DEF Prose
    <3>2. PICK t : t = [u EXCEPT !.text = new, !.dirty = FALSE]
      OBVIOUS
    <3>3. tabs'[p][i] = t
      BY <2>3, <2>5, <3>1, <3>2
    <3>4. /\ t \in Tab_ /\ t.kind = u.kind /\ t.buf = u.buf /\ t.path = u.path
          /\ t.token = u.token /\ t.text = new
      BY ONLY <2>2, <3>1, <3>2 DEF Tab_
    <3>5. ASSUME u.path \notin written PROVE u.buf \in wronged'
      <4> DEFINE q == <<p, i>>
      <4>1. q \in Places /\ At(q) = u
        BY <2>1, PlacesAreTabs
      <4> HIDE DEF q
      <4>2. q \in late
        BY <2>5, <3>5, <4>1 DEF late
      <4> QED
        BY <1>2, <4>1, <4>2
    <3>6. u.path \in written => t.text \in known'[u.path]
      BY <1>4, <3>1, <3>4
    <3> QED
      BY <2>1, <2>5, <3>3, <3>4, <3>5, <3>6 DEF ReplacedFrom
  <2> QED
    BY <2>4, <2>5
<1> HIDE DEF Rewritten
<1>6. TabsTyped' /\ ByRule
  BY <1>1, <1>3, <1>5, RuledTabs
<1>7. ASSUME NEW t \in TabsOf(tabs') PROVE \E u \in AllTabs : u \in Tab_ /\ ReplacedFrom(t, u)
  <2>1. PICK p \in Panes : \E i \in DOMAIN tabs[p] :
             t = tabs'[p][i] /\ tabs[p][i] \in AllTabs /\ tabs[p][i] \in Tab_ /\ t \in Tab_
    BY <1>6 DEF ByRule
  <2>2. PICK i \in DOMAIN tabs[p] :
             t = tabs'[p][i] /\ tabs[p][i] \in AllTabs /\ tabs[p][i] \in Tab_ /\ t \in Tab_
    BY <2>1
  <2> QED
    BY <1>5, <2>2
<1>8. wronged \cup Behind(tabs') \subseteq wronged'
  BY <1>2
<1> QED
  BY <1>1, <1>3, <1>5, <1>6, <1>7, <1>8

\* After the formatter its file's tabs show what the disk has.
FormattedFrom(t, u, path) ==
    /\ t.token = u.token /\ t.path = u.path /\ t.kind = u.kind /\ t.buf = u.buf
    /\ \/ t = u
       \/ u.path = path /\ disk[FileOf(path)] # NoFile /\ t.text = disk[FileOf(path)]
\* FormatterDone, tab by tab.
LEMMA FormattedTabs ==
  ASSUME DocTyped, OnFormatterDone
  PROVE  /\ TabsTyped' /\ moved' = moved /\ wronged \subseteq wronged'
         /\ Head(inbox_).path \in LocalPaths
         /\ \A t \in TabsOf(tabs') : \E u \in AllTabs : u \in Tab_ /\ FormattedFrom(t, u, Head(inbox_).path)
<1> DEFINE path == Head(inbox_).path
           text == disk[FileOf(path)]
           Formatted_(tab) == IF text # NoFile /\ tab.path = path
                         THEN [tab EXCEPT !.text = text, !.dirty = FALSE, !.gen = @ + 1] ELSE tab
<1>0. path \in LocalPaths
  <2>1. inbox_ # <<>> /\ inbox_ \in Seq(Event_) /\ Head(inbox_).type = "FormatterDone"
    BY DEF OnFormatterDone, Arrives, DocTyped, JobsTyped
  <2>2. Head(inbox_) \in Event_
    BY <2>1
  <2> QED
    BY <2>1, <2>2, EventShapes DEF FormattedEvent
<1>1. /\ \/ text = NoFile /\ tabs' = tabs
         \/ /\ text # NoFile
            /\ tabs' = [p \in Panes |-> [i \in DOMAIN tabs[p] |->
                           IF tabs[p][i].path = path
                           THEN [tabs[p][i] EXCEPT !.text = text, !.dirty = FALSE, !.gen = @ + 1]
                           ELSE tabs[p][i]]]
      /\ wronged \subseteq wronged' /\ SameFront /\ moved' = moved
  BY DEF OnFormatterDone, EachTab, Quiet, SameFront
<1>2. text # NoFile => text \in Prose
  BY <1>0, FilesOfPaths DEF DocTyped, DiskTyped, Paths
<1> HIDE DEF path, text
<1>3. ASSUME NEW p \in Panes, NEW i \in DOMAIN tabs[p]
      PROVE  tabs'[p][i] = Formatted_(tabs[p][i])
  <2>1. CASE text = NoFile
    BY <1>1, <2>1
  <2>2. CASE text # NoFile
    <3>1. tabs'[p][i] = IF tabs[p][i].path = path
                        THEN [tabs[p][i] EXCEPT !.text = text, !.dirty = FALSE, !.gen = @ + 1]
                        ELSE tabs[p][i]
      BY <1>1, <2>2
    <3> QED
      BY <2>2, <3>1
  <2> QED
    BY <2>1, <2>2
<1>4. tabs' = [p \in Panes |-> [i \in DOMAIN tabs[p] |-> tabs'[p][i]]]
  <2>1. CASE tabs' = tabs
    <3>1. tabs = [p \in Panes |-> [i \in DOMAIN tabs[p] |-> tabs[p][i]]]
      BY DEF DocTyped, TabsTyped
    <3> QED
      BY <2>1, <3>1
  <2>2. CASE tabs' # tabs
    BY <1>1, <2>2
  <2> QED
    BY <2>1, <2>2
<1>5. ASSUME NEW p \in Panes, NEW i \in DOMAIN tabs[p]
      PROVE  tabs'[p][i] \in Tab_ /\ FormattedFrom(tabs'[p][i], tabs[p][i], path)
  <2>1. PICK u : u = tabs[p][i]
    OBVIOUS
  <2>2. u \in Tab_
    BY <2>1 DEF DocTyped, TabsTyped
  <2>3. tabs'[p][i] = Formatted_(u)
    BY <1>3, <2>1
  <2>4. u.gen + 1 \in Nat
    BY <2>2 DEF Tab_
  <2>5. \A v \in Tab_ : \A w \in Prose : \A n \in Nat :
           [v EXCEPT !.text = w, !.dirty = FALSE, !.gen = n] \in Tab_
    BY DEF Tab_
  <2>6. Formatted_(u) \in Tab_
    BY <1>2, <2>2, <2>4, <2>5
  <2>7. FormattedFrom(Formatted_(u), u, path)
    BY <2>2 DEF FormattedFrom, Tab_, text
  <2> QED
    BY <2>1, <2>3, <2>6, <2>7
<1>6. TabsTyped' /\ ByRule
  BY <1>1, <1>4, <1>5, RuledTabs
<1>7. ASSUME NEW t \in TabsOf(tabs') PROVE \E u \in AllTabs : u \in Tab_ /\ FormattedFrom(t, u, path)
  <2>1. PICK p \in Panes : \E i \in DOMAIN tabs[p] :
             t = tabs'[p][i] /\ tabs[p][i] \in AllTabs /\ tabs[p][i] \in Tab_ /\ t \in Tab_
    BY <1>6 DEF ByRule
  <2>2. PICK i \in DOMAIN tabs[p] :
             t = tabs'[p][i] /\ tabs[p][i] \in AllTabs /\ tabs[p][i] \in Tab_ /\ t \in Tab_
    BY <2>1
  <2> QED
    BY <1>5, <2>2
<1> QED
  BY <1>0, <1>1, <1>6, <1>7 DEF path

\* Drawing copies text, path and mark of the tab in front to its siblings.
RedrawnFrom(t, u) ==
    /\ t.token = u.token /\ t.kind = u.kind /\ t.buf = u.buf
    /\ t.path # u.path => u.token \in moved' \cup {NoRead}
    /\ \/ t = u
       \/ u.buf = HereTab.buf /\ t.text = HereTab.text /\ t.path = HereTab.path /\ t.dirty = HereTab.dirty
\* The copying between the tabs of one buffer, tab by tab.
LEMMA RedrawnTabs ==
  ASSUME DocTyped, Redraw
  PROVE  /\ TabsTyped' /\ moved \subseteq moved' /\ wronged' = wronged
         /\ \A t \in TabsOf(tabs') : \E u \in AllTabs : u \in Tab_ /\ RedrawnFrom(t, u)
<1> DEFINE Drawn(tab) == IF tab.buf # HereTab.buf THEN tab
                         ELSE [tab EXCEPT !.text = HereTab.text, !.path = HereTab.path,
                                          !.dirty = HereTab.dirty]
<1>1. /\ tabs' = [p \in Panes |-> [i \in DOMAIN tabs[p] |-> Drawn(tabs[p][i])]]
      /\ moved' = moved \cup Misled /\ SameFront /\ wronged' = wronged
  BY DEF Redraw, EachTab, SameFront
<1>2. HereTab \in Tab_
  BY TabInFront DEF DocTyped, TabHereTyped
<1>3. tabs' = [p \in Panes |-> [i \in DOMAIN tabs[p] |-> tabs'[p][i]]]
  BY <1>1
<1>4. ASSUME NEW p \in Panes, NEW i \in DOMAIN tabs[p]
      PROVE  tabs'[p][i] \in Tab_ /\ RedrawnFrom(tabs'[p][i], tabs[p][i])
  <2>1. PICK u : u = tabs[p][i]
    OBVIOUS
  <2>2. u \in Tab_
    BY <2>1 DEF DocTyped, TabsTyped
  <2>3. tabs'[p][i] = Drawn(u)
    BY <1>1, <2>1
  <2>4. Drawn(u) \in Tab_
    BY <1>2, <2>2 DEF Tab_
  <2>5. ASSUME Drawn(u).path # u.path PROVE u.token \in moved' \cup {NoRead}
    <3> DEFINE q == <<p, i>>
    <3>1. q \in Places /\ q[1] = p /\ q[2] = i /\ At(q) = u
      BY <2>1, PlacesAreTabs
    <3> HIDE DEF q, Drawn
    <3>2. At(q).token \in Misled \cup {NoRead}
      BY <2>3, <2>5, <3>1 DEF Misled
    <3> QED
      BY <1>1, <3>1, <3>2
  <2>6. /\ Drawn(u).token = u.token /\ Drawn(u).kind = u.kind /\ Drawn(u).buf = u.buf
        /\ \/ Drawn(u) = u
           \/ /\ u.buf = HereTab.buf /\ Drawn(u).text = HereTab.text /\ Drawn(u).path = HereTab.path
              /\ Drawn(u).dirty = HereTab.dirty
    BY <2>2 DEF Tab_
  <2> HIDE DEF Drawn
  <2> QED
    BY <2>1, <2>3, <2>4, <2>5, <2>6 DEF RedrawnFrom
<1> HIDE DEF Drawn
<1>5. TabsTyped' /\ ByRule
  BY <1>1, <1>3, <1>4, RuledTabs
<1>6. ASSUME NEW t \in TabsOf(tabs') PROVE \E u \in AllTabs : u \in Tab_ /\ RedrawnFrom(t, u)
  <2>1. PICK p \in Panes : \E i \in DOMAIN tabs[p] :
             t = tabs'[p][i] /\ tabs[p][i] \in AllTabs /\ tabs[p][i] \in Tab_ /\ t \in Tab_
    BY <1>5 DEF ByRule
  <2>2. PICK i \in DOMAIN tabs[p] :
             t = tabs'[p][i] /\ tabs[p][i] \in AllTabs /\ tabs[p][i] \in Tab_ /\ t \in Tab_
    BY <2>1
  <2> QED
    BY <1>4, <2>2
<1> QED
  BY <1>1, <1>5, <1>6

\* A tab waits as one did before, or for a new read, or in vain because of a rename.
Carried(t) == \/ t.token \in moved' \cup {NoRead}
              \/ [kind |-> "read", token |-> t.token, path |-> t.path] \in BagToSet(jobs')
              \/ \E u \in AllTabs : u.token = t.token /\ u.path = t.path
TabsCarried == TabsTyped' /\ moved \subseteq moved' /\ \A t \in TabsOf(tabs') : Carried(t)

\* Opening a path makes no tab wait in vain.
LEMMA OpenedTabs ==
  ASSUME DocTyped, NEW path \in Paths, NEW rest \in Seq(Event_), OpenOrReuse(path, rest),
         front' = front, moved' = moved
  PROVE  TabsCarried
<1>1. Opens(path, rest)
  BY OpenTabs
<1>2. TabsTyped'
  BY <1>1 DEF Opens, TabsTyped, TabTyped
<1>3. ASSUME NEW t \in TabsOf(tabs') PROVE Carried(t)
  <2>1. PICK u \in Tab_ : (u \in TabsOf(tabs) \/ NewTab_(u, path)) /\ Asked_(u, t, BagToSet(jobs'))
    BY <1>1 DEF Opens
  <2>2. t.path = u.path
    BY <2>1 DEF Asked_, Tab_
  <2>3. \/ t.token = u.token
        \/ [kind |-> "read", token |-> t.token, path |-> u.path] \in BagToSet(jobs')
    BY <2>1 DEF Asked_
  <2>4. u \in AllTabs \/ u.token = NoRead
    BY <2>1 DEF NewTab_, AllTabs
  <2> QED
    BY <2>2, <2>3, <2>4 DEF Carried
<1> QED
  BY <1>2, <1>3 DEF TabsCarried

\* No step but an answer makes a tab wait for nothing that comes.
LEMMA TabsGoOn ==
  ASSUME DocTyped, [DocNext]_docVars, ~(OnContent \/ OnFileError)
  PROVE  TabsCarried
<1>0. TabHereTyped /\ inbox_ \in Seq(Event_) /\ TabsTyped
  BY TabInFront DEF DocTyped, JobsTyped
<1>1. \A t \in AllTabs : Carried(t)
  BY DEF Carried
<1>2. ASSUME TabsTyped', moved' = moved, NEW t, Carried(t), TabsOf(tabs') \subseteq AllTabs \cup {t}
      PROVE  TabsCarried
  BY <1>1, <1>2 DEF TabsCarried
<1>3. ASSUME UNCHANGED <<tabs, active, front, nextBuf, nextRead, moved>>
      PROVE  TabsCarried
  <2>1. TabsTyped'
    BY <1>0, <1>3 DEF TabsTyped, InFront
  <2> QED
    BY <1>1, <1>3, <2>1 DEF TabsCarried, AllTabs
<1>4. ASSUME NEW path \in Paths, OpenPath(path) PROVE TabsCarried
  BY <1>0, <1>4, OpenedTabs DEF OpenPath
<1>5. ASSUME NEW path \in Remote, CreateRemote(path) PROVE TabsCarried
  BY <1>3, <1>5 DEF CreateRemote, FsOp
<1>6. ASSUME NEW path \in Local, OpenDiff(path) PROVE TabsCarried
  <2>1. Carried(DiffTab(path))
    BY DEF Carried, DiffTab, Untitled
  <2> QED
    BY <1>2, <1>6, <2>1, DiffTabs DEF OpenDiff
<1>7. ASSUME NEW t \in Tab_, tabs' = PutFront(t), SameFront, moved' = moved,
             t.token = HereTab.token, t.path = HereTab.path
      PROVE  TabsCarried
  <2>1. Carried(t)
    BY <1>0, <1>7 DEF Carried, TabHereTyped, AllTabs
  <2> QED
    BY <1>2, <1>7, <2>1, EditedTabs
<1>8. ASSUME NEW text \in Texts \cup {Blank}, EditText(text) PROVE TabsCarried
  <2> DEFINE t == [HereTab EXCEPT !.text = text, !.dirty = TRUE, !.gen = @ + 1]
  <2>1. HereTab.gen + 1 \in Nat /\ HereTab \in Tab_
    BY <1>0 DEF TabHereTyped, Tab_
  <2>2. t \in Tab_ /\ t.token = HereTab.token /\ t.path = HereTab.path
    BY ONLY <2>1, text \in Texts \cup {Blank} DEF Tab_, Prose
  <2>3. tabs' = PutFront(t) /\ SameFront /\ moved' = moved
    BY <1>8 DEF EditText, SameFront
  <2> HIDE DEF t
  <2> QED
    BY <1>7, <2>2, <2>3
<1>26. ASSUME NEW text \in Texts \cup {Blank}, ReplaceMatches(text) PROVE TabsCarried
  <2> DEFINE t == [HereTab EXCEPT !.text = text, !.dirty = TRUE]
  <2>1. HereTab \in Tab_
    BY <1>0 DEF TabHereTyped
  <2>2. t \in Tab_ /\ t.token = HereTab.token /\ t.path = HereTab.path
    BY ONLY <2>1, text \in Texts \cup {Blank} DEF Tab_, Prose
  <2>3. tabs' = PutFront(t) /\ SameFront /\ moved' = moved
    BY <1>26 DEF ReplaceMatches, SameFront
  <2> HIDE DEF t
  <2> QED
    BY <1>7, <2>2, <2>3
<1>27. ASSUME NEW files \in SUBSET Local, ReplaceInFiles(files) PROVE TabsCarried
  <2>1. ASSUME NEW t \in TabsOf(tabs') PROVE Carried(t)
    BY <1>27, <2>1, ReplacedTabs DEF ReplacedFrom, Carried
  <2> QED
    BY <1>27, <2>1, ReplacedTabs DEF TabsCarried
<1>9. CASE SaveText
  <2> DEFINE t == [HereTab EXCEPT !.dirty = FALSE]
  <2>1. t \in Tab_ /\ t.token = HereTab.token /\ t.path = HereTab.path
    BY <1>0 DEF TabHereTyped, Tab_
  <2>2. (tabs' = PutFront(t) \/ tabs' = tabs) /\ SameFront /\ moved' = moved
    BY <1>9 DEF SaveText, SameFront
  <2> HIDE DEF t
  <2> QED
    BY <1>3, <1>7, <2>1, <2>2 DEF SameFront
<1>10. ASSUME NEW p, NEW i, CloseDoc(p, i) PROVE TabsCarried
  <2>1. TabsTyped' /\ TabsOf(tabs') \subseteq AllTabs /\ moved' = moved
    BY <1>10, ClosedTabs DEF CloseDoc
  <2> QED
    BY <1>1, <2>1 DEF TabsCarried
<1>11. ASSUME NEW p, NEW i, Switch(p, i) PROVE TabsCarried
  <2>1. TabsTyped' /\ tabs' = tabs /\ moved' = moved
    BY <1>11, SwitchedTabs DEF Switch
  <2> QED
    BY <1>1, <2>1 DEF TabsCarried, AllTabs
<1>12. ASSUME NEW whole \in BOOLEAN, SplitPane(whole) PROVE TabsCarried
  <2>1. Carried(Copied(whole))
    BY <1>0 DEF Copied, Carried, TabHereTyped, AllTabs, Untitled
  <2> QED
    BY <1>2, <1>12, <2>1, SplitTabs DEF SplitPane
<1>13. ASSUME NEW old, NEW new \in TabPaths, UpdatePaths(old, new), SameFront PROVE TabsCarried
  <2>1. /\ TabsTyped' /\ moved \subseteq moved'
        /\ \A t \in TabsOf(tabs') : \E u \in AllTabs : u \in Tab_ /\ RenamedFrom(t, u, old, new)
    BY <1>13, RenamedTabs
  <2>2. ASSUME NEW t \in TabsOf(tabs') PROVE Carried(t)
    <3>1. PICK u \in AllTabs : u \in Tab_ /\ RenamedFrom(t, u, old, new)
      BY <2>1
    <3>2. t.token = u.token /\ (t.path # u.path => u.token \in moved' \cup {NoRead})
      BY <3>1 DEF RenamedFrom, Renamed, Tab_
    <3> QED
      BY <3>2 DEF Carried
  <2> QED
    BY <2>1, <2>2 DEF TabsCarried
<1>14. ASSUME NEW old \in Local, NEW new \in Local, RenameLocal(old, new) PROVE TabsCarried
  BY <1>13, <1>14 DEF RenameLocal, SameFront, TabPaths, LocalPaths
<1>15. ASSUME NEW old, NEW new, RenameRemote(old, new) PROVE TabsCarried
  BY <1>3, <1>15 DEF RenameRemote, FsOp
<1>16. CASE MasterEnds \/ StartConnecting \/ OnConnecting \/ OnSshError \/ OnFsOpError
  BY <1>3, <1>16 DEF MasterEnds, StartConnecting, OnConnecting, OnSshError, OnFsOpError, ConnEvent, Quiet
<1>17. CASE EndConnecting \/ EndRead \/ EndWrite \/ EndRename \/ EndCreate \/ EndFormat
  <2>1. \E job, event : Finish(job, event)
    BY <1>17 DEF EndConnecting, EndRead, EndWrite, EndRename, EndCreate, EndFormat
  <2> QED
    BY <1>3, <2>1 DEF Finish
<1>18. CASE OnConnected
  <2>1. /\ SameShape(tabs', tabs) /\ nextRead' \in Nat \ {0}
        /\ AreAsked(tabs, tabs', BagToSet(jobs'))
    BY <1>18, ConnectedReads
  <2>2. TabTyped(tabs') /\ \A p \in Panes : DOMAIN tabs'[p] = DOMAIN tabs[p] /\ (tabs'[p] = <<>> <=> tabs[p] = <<>>)
    BY <2>1 DEF SameShape
  <2>3. UNCHANGED <<active, front, nextBuf, moved>>
    BY <1>18 DEF OnConnected, Quiet
  <2>4. InFront(tabs', active', front')
    BY <1>0, <2>2, <2>3 DEF InFront, TabsTyped
  <2>5. TabsTyped'
    BY <1>0, <2>1, <2>2, <2>3, <2>4 DEF TabsTyped, TabTyped
  <2>6. ASSUME NEW t \in TabsOf(tabs') PROVE Carried(t)
    <3>1. PICK p \in Panes : t \in Range(tabs'[p])
      BY <2>6 DEF TabsOf
    <3>2. PICK i \in DOMAIN tabs'[p] : t = tabs'[p][i]
      BY <3>1 DEF Range
    <3>3. i \in DOMAIN tabs[p]
      BY <2>2, <3>2
    <3>4. Asked_(tabs[p][i], t, BagToSet(jobs')) /\ tabs[p][i] \in AllTabs /\ tabs[p][i] \in Tab_
      <4>1. tabs[p][i] \in AllTabs
        BY <3>3, PlacesAreTabs DEF AllTabs
      <4>3. tabs[p][i] \in Tab_
        BY <1>0, <3>3 DEF TabsTyped
      <4>2. Asked_(tabs[p][i], tabs'[p][i], BagToSet(jobs'))
        BY <2>1, <3>3 DEF AreAsked
      <4> QED
        BY <3>2, <4>1, <4>2, <4>3
    <3>5. PICK u : u = tabs[p][i]
      OBVIOUS
    <3>6. u \in AllTabs /\ t.path = u.path
      BY <3>4, <3>5 DEF Asked_, Tab_
    <3>7. \/ t.token = u.token
          \/ [kind |-> "read", token |-> t.token, path |-> u.path] \in BagToSet(jobs')
      BY <3>4, <3>5 DEF Asked_
    <3> QED
      BY <3>6, <3>7 DEF Carried
  <2> QED
    BY <2>3, <2>5, <2>6 DEF TabsCarried
<1>19. CASE OnWriteDone
  <2>1. ASSUME NEW t \in TabsOf(tabs') PROVE Carried(t)
    <3>1. PICK u \in AllTabs : u \in Tab_ /\ WrittenFrom(t, u, Head(inbox_))
      BY <1>19, <2>1, WrittenTabs
    <3>2. t.token = u.token /\ t.path = u.path
      BY <3>1 DEF WrittenFrom, Tab_
    <3> QED
      BY <3>2 DEF Carried
  <2> QED
    BY <1>19, <2>1, WrittenTabs DEF TabsCarried
<1>20. CASE OnFormatterDone
  <2>1. ASSUME NEW t \in TabsOf(tabs') PROVE Carried(t)
    BY <1>20, <2>1, FormattedTabs DEF FormattedFrom, Carried
  <2> QED
    BY <1>20, <2>1, FormattedTabs DEF TabsCarried
<1>21. CASE Redraw
  <2>1. ASSUME NEW t \in TabsOf(tabs') PROVE Carried(t)
    BY <1>21, <2>1, RedrawnTabs DEF RedrawnFrom, Carried
  <2> QED
    BY <1>21, <2>1, RedrawnTabs DEF TabsCarried
<1>22. CASE OnGitOpDone
  <2>1. \A n : Carried(Untitled(n))
    BY DEF Carried, Untitled
  <2>2. moved' = moved
    BY <1>22 DEF OnGitOpDone
  <2> QED
    BY <1>1, <1>22, <2>1, <2>2, GitTabs DEF TabsCarried
<1>23. CASE OnFsOpDone
  <2> DEFINE h == Head(inbox_)
  <2>1. /\ h \in RenamedEvent \cup CreatedEvent /\ Tail(inbox_) \in Seq(Event_)
    <3>1. inbox_ # <<>> /\ h.type = "RemoteFsOpDone"
      BY <1>23 DEF OnFsOpDone, Arrives
    <3>2. h \in Event_ /\ Tail(inbox_) \in Seq(Event_)
      BY <1>0, <3>1
    <3> QED
      BY <3>1, <3>2, EventShapes
  <2>2. \/ h.open = NoPath /\ UpdatePaths(h.old, h.new) /\ SameFront
        \/ h.open # NoPath /\ OpenOrReuse(h.open, Tail(inbox_)) /\ moved' = moved /\ front' = front
    BY <1>23 DEF OnFsOpDone, SameFront
  <2> HIDE DEF h
  <2>3. CASE h.open = NoPath /\ UpdatePaths(h.old, h.new) /\ SameFront
    <3>1. h.new \in TabPaths
      BY <2>1 DEF RenamedEvent, CreatedEvent, TabPaths
    <3> QED
      BY <1>13, <2>3, <3>1
  <2>4. CASE h.open # NoPath /\ OpenOrReuse(h.open, Tail(inbox_)) /\ moved' = moved /\ front' = front
    <3>1. h.open \in Paths
      BY <2>1, <2>4 DEF RenamedEvent, CreatedEvent, Paths
    <3> QED
      BY <2>1, <2>4, <3>1, OpenedTabs
  <2> QED
    BY <2>2, <2>3, <2>4
<1>24. CASE UNCHANGED docVars
  BY <1>3, <1>24 DEF docVars
<1>25. CASE UserNext
  BY <1>4, <1>5, <1>6, <1>8, <1>9, <1>10, <1>11, <1>12, <1>14, <1>15, <1>25, <1>26, <1>27
     DEF UserNext
<1> QED
  BY <1>16, <1>17, <1>18, <1>19, <1>20, <1>21, <1>22, <1>23, <1>24, <1>25 DEF DocNext

\* Init, and every step, keep that reads are awaited.
LEMMA BeginsAwaited == DocInit => DocTyped /\ LoadsAreAwaited
<1> SUFFICES ASSUME DocInit PROVE DocTyped /\ LoadsAreAwaited
  OBVIOUS
<1>1. PICK opening \in Openings, p \in Panes :
        /\ disk = opening.disk
        /\ known = [f \in Paths |-> {disk[f]} \ {NoFile}]
        /\ tabs = [q \in Panes |-> IF q # p THEN <<>> ELSE
               <<IF opening.path = NoPath THEN Untitled(1)
                 ELSE [Untitled(1) EXCEPT !.path = opening.path, !.text = disk[opening.path],
                                          !.gen = 1]>>]
        /\ active = [q \in Panes |-> 1]
        /\ front = p
        /\ nextBuf = 2 /\ nextRead = 1
        /\ jobs = EmptyBag /\ inbox_ = <<>>
  BY DEF DocInit
<1>2. /\ disk \in [Paths -> Prose \cup {NoFile}]
      /\ opening.path = NoPath \/ (opening.path \in Local /\ disk[opening.path] # NoFile)
  BY <1>1, DocumentsAssumption DEF Paths, NoFile, Prose
<1>3. DiskTyped
  BY <1>1, <1>2 DEF DiskTyped
<1> DEFINE t == IF opening.path = NoPath THEN Untitled(1)
                ELSE [Untitled(1) EXCEPT !.path = opening.path, !.text = disk[opening.path],
                                         !.gen = 1]
           s == <<t>>
<1>4. t \in Tab_ /\ t.token = NoRead
  BY <1>2 DEF Untitled, Tab_, NoRead, TabPaths, LocalPaths, Prose, Paths
<1>5. tabs = [q \in Panes |-> IF q # p THEN <<>> ELSE s]
  BY <1>1
<1> HIDE DEF t
<1>6. s \in Seq(Tab_) /\ Range(s) = {t} /\ s # <<>> /\ 1 \in DOMAIN s
  BY <1>4 DEF Range
<1> HIDE DEF s
<1>7. tabs \in [Panes -> Seq(Tab_)] /\ TabsOf(tabs) \subseteq {t}
  <2>1. <<>> \in Seq(Tab_) /\ Range(<<>>) = {}
    BY DEF Range
  <2>2. tabs \in [Panes -> Seq(Tab_)]
    BY <1>5, <1>6, <2>1
  <2>3. \A q \in Panes : Range(tabs[q]) \subseteq {t}
    BY <1>5, <1>6, <2>1
  <2> QED
    BY <2>2, <2>3 DEF TabsOf
<1>8. InFront(tabs, active, front)
  BY <1>1, <1>5, <1>6 DEF InFront
<1>9. JobsTyped
  <2>1. IsABag(EmptyBag) /\ BagToSet(EmptyBag) = {}
    BY DEF EmptyBag, SetToBag, IsABag, BagToSet
  <2> QED
    BY <1>1, <2>1 DEF JobsTyped
<1>10. LoadsAreAwaited
  BY <1>4, <1>7, AwaitedIsOutstanding DEF WellAwaited
<1> QED
  BY <1>1, <1>3, <1>7, <1>8, <1>9, <1>10 DEF DocTyped, TabsTyped

\* Every step keeps the types.
LEMMA TypesKept ==
  DocTyped /\ [DocNext]_docVars => DocTyped'
<1> SUFFICES ASSUME DocTyped, [DocNext]_docVars PROVE DocTyped'
  OBVIOUS
<1>1. DiskTyped'
  BY DiskKept
<1>2. JobsTyped'
  BY JobsKept DEF ReadsGoOn
<1>3. TabsTyped'
  BY AnsweredTabs, TabsGoOn DEF TabsCarried
<1> QED
  BY <1>1, <1>2, <1>3 DEF DocTyped

\* Every step keeps that what tabs wait for is on its way.
LEMMA AwaitedKept ==
  DocTyped /\ LoadsAreAwaited /\ [DocNext]_docVars => LoadsAreAwaited'
<1> SUFFICES ASSUME DocTyped, LoadsAreAwaited, [DocNext]_docVars PROVE LoadsAreAwaited'
  OBVIOUS
<1>1. WellAwaited(tabs, moved, Reading_)
  BY AwaitedIsOutstanding
<1>2. \A u \in AllTabs : u.token \notin moved \cup {NoRead} => <<u.token, u.path>> \in Reading_
  BY <1>1 DEF WellAwaited, AllTabs
<1>3. LoadsAreAwaited' <=> WellAwaited(tabs', moved', Reading_')
  <2>1. LoadsAreAwaited' <=> WellAwaited(tabs, moved, Reading_)'
    BY AwaitedIsOutstanding, PTL
  <2> QED
    BY <2>1
<1>4. CASE OnContent \/ OnFileError
  <2> DEFINE h == Head(inbox_)
  <2>1. Reading_ \ {<<h.token, h.path>>} \subseteq Reading_'
    BY JobsKept DEF ReadsGoOn
  <2>2. ASSUME NEW t \in TabsOf(tabs'), t.token \notin moved' \cup {NoRead}
        PROVE  <<t.token, t.path>> \in Reading_'
    <3>1. PICK u \in AllTabs : u \in Tab_ /\ AnsweredFrom(t, u, h)
      BY <1>4, <2>2, AnsweredTabs
    <3>2. moved' = moved
      BY <1>4, AnsweredTabs
    <3> HIDE DEF h
    <3>3. t = u /\ ~Awaited(u, h)
      BY <2>2, <3>1 DEF AnsweredFrom
    <3>4. <<u.token, u.path>> \in Reading_
      BY <1>2, <2>2, <3>2, <3>3
    <3>5. <<u.token, u.path>> # <<h.token, h.path>>
      BY <3>3 DEF Awaited
    <3> QED
      BY <2>1, <3>3, <3>4, <3>5
  <2> QED
    BY <1>3, <2>2 DEF WellAwaited
<1>5. CASE ~(OnContent \/ OnFileError)
  <2>1. Reading_ \subseteq Reading_'
    BY <1>5, JobsKept DEF ReadsGoOn
  <2>2. TabsCarried
    BY <1>5, TabsGoOn
  <2>3. ASSUME NEW t \in TabsOf(tabs'), t.token \notin moved' \cup {NoRead}
        PROVE  <<t.token, t.path>> \in Reading_'
    <3>1. Carried(t) /\ moved \subseteq moved'
      BY <2>2, <2>3 DEF TabsCarried
    <3>2. CASE [kind |-> "read", token |-> t.token, path |-> t.path] \in BagToSet(jobs')
      <4> DEFINE job == [kind |-> "read", token |-> t.token, path |-> t.path]
      <4>1. job \in Running("read")' /\ job.token = t.token /\ job.path = t.path
        BY <3>2 DEF Running
      <4> HIDE DEF job
      <4> QED
        BY <4>1 DEF Reading_
    <3>3. ASSUME NEW u \in AllTabs, u.token = t.token, u.path = t.path
          PROVE  <<t.token, t.path>> \in Reading_'
      BY <1>2, <2>1, <2>3, <3>1, <3>3
    <3> QED
      BY <2>3, <3>1, <3>2, <3>3 DEF Carried
  <2> QED
    BY <1>3, <2>3 DEF WellAwaited
<1> QED
  BY <1>4, <1>5

\* A tab that waits for a remote read is one that the read will answer: its
\* thread runs or its event is in the inbox, whatever was opened, saved,
\* split, closed or drawn meanwhile (begin_remote_tab_read and the
\* RemoteFileContent and RemoteFileError handlers).
THEOREM LoadsAreAlwaysAwaited == DocSpec => []LoadsAreAwaited
<1> DEFINE Inv_ == DocTyped /\ LoadsAreAwaited
<1>1. DocInit => Inv_
  BY BeginsAwaited
<1>2. Inv_ /\ [DocNext]_docVars => Inv_'
  BY TypesKept, AwaitedKept
<1>3. Inv_ => LoadsAreAwaited
  OBVIOUS
<1> HIDE DEF Inv_
<1> QED
  BY <1>1, <1>2, <1>3, PTL DEF DocSpec

-----------------------------------------------------------------------------
(* Texts that were on the host's disk.                                     *)

\* What each remote file was known to have had when each event of the inbox
\* was posted: pasts[k] for the kth, pasts[0] for those handled already.
Past   == [Remote -> SUBSET Prose]
Grows(a, b) == \A f \in Remote : a[f] \subseteq b[f]
Texted == {"RemoteFileContent", "RemoteWriteDone"}
IsRename(e) == e.type = "RemoteFsOpDone" /\ e.open = NoPath
True_(e, a, b) == /\ e.type \in Texted => e.text \in b[e.path]
                  /\ IsRename(e) => a[e.old] \subseteq b[e.new]
Remembers(pasts, q, kn) ==
    /\ pasts \in [0 .. Len(q) -> Past]
    /\ \A k \in 1 .. Len(q) : Grows(pasts[k - 1], pasts[k]) /\ True_(q[k], pasts[k - 1], pasts[k])
    /\ Grows(pasts[Len(q)], kn)

\* Files only come to have had more texts.
LEMMA StillRemembers ==
  ASSUME NEW pasts, NEW q \in Seq(Event_), Remembers(pasts, q, known), KnownKept
  PROVE  Remembers(pasts, q, known')
<1>1. Grows(pasts[Len(q)], known')
  BY DEF Remembers, Grows, KnownKept, Paths
<1> QED
  BY <1>1 DEF Remembers

\* An event is posted that is true of what is known by then.
LEMMA PostedRemembered ==
  ASSUME NEW pasts, NEW q \in Seq(Event_), NEW e \in Event_, Remembers(pasts, q, known),
         DiskTyped', KnownKept, True_(e, known, known')
  PROVE  \E after : Remembers(after, Append(q, e), known') /\ after[0] = pasts[0]
<1> DEFINE n == Len(q)
           now == [f \in Remote |-> known'[f]]
           after == [k \in 0 .. n + 1 |-> IF k = n + 1 THEN now ELSE pasts[k]]
           a == Append(q, e)
<1>1. n \in Nat /\ Len(a) = n + 1 /\ a[n + 1] = e /\ \A k \in 1 .. n : a[k] = q[k]
  OBVIOUS
<1>2. now \in Past
  BY DEF DiskTyped, Paths, Past
<1>3. /\ pasts \in [0 .. n -> Past] /\ Grows(pasts[n], known)
      /\ \A k \in 1 .. n : Grows(pasts[k - 1], pasts[k]) /\ True_(q[k], pasts[k - 1], pasts[k])
  BY DEF Remembers
<1>4. Grows(pasts[n], now) /\ Grows(now, known')
  BY <1>3 DEF Grows, KnownKept, Paths
<1>5. True_(e, pasts[n], now)
  <2>1. ASSUME e.type \in Texted PROVE e.text \in now[e.path]
    <3>1. e.path \in Remote /\ e.text \in known'[e.path]
      BY <2>1, EventShapes DEF Texted, ContentEvent, WroteEvent, True_
    <3> QED
      BY <3>1
  <2>2. ASSUME IsRename(e) PROVE pasts[n][e.old] \subseteq now[e.new]
    <3>1. e.old \in Remote /\ e.new \in Remote /\ known[e.old] \subseteq known'[e.new]
      BY <2>2, EventShapes, DocumentsAssumption DEF IsRename, RenamedEvent, CreatedEvent, True_
    <3> QED
      BY <1>3, <3>1 DEF Grows
  <2> QED
    BY <2>1, <2>2 DEF True_
<1> HIDE DEF a, now
<1>6. after \in [0 .. n + 1 -> Past]
  BY <1>1, <1>2, <1>3
<1>7. after[n + 1] = now /\ \A k \in 0 .. n : after[k] = pasts[k]
  BY <1>1
<1> HIDE DEF after
<1>8. ASSUME NEW k \in 1 .. n + 1
      PROVE  Grows(after[k - 1], after[k]) /\ True_(a[k], after[k - 1], after[k])
  <2>1. CASE k = n + 1
    <3>1. after[k] = now /\ after[k - 1] = pasts[n] /\ a[k] = e
      BY <1>1, <1>7, <2>1
    <3> QED
      BY <1>4, <1>5, <3>1
  <2>2. CASE k \in 1 .. n
    <3>1. after[k] = pasts[k] /\ after[k - 1] = pasts[k - 1] /\ a[k] = q[k]
      BY <1>1, <1>7, <2>2
    <3> QED
      BY <1>3, <2>2, <3>1
  <2> QED
    BY <1>1, <2>1, <2>2
<1>9. Remembers(after, a, known')
  BY <1>1, <1>4, <1>6, <1>7, <1>8 DEF Remembers
<1>10. after[0] = pasts[0]
  BY <1>1, <1>7
<1> QED
  BY <1>9, <1>10 DEF a

\* The first event is handled.
LEMMA HandledRemembered ==
  ASSUME NEW pasts, NEW q \in Seq(Event_), q # <<>>, NEW kn, Remembers(pasts, q, kn)
  PROVE  \E after : /\ Remembers(after, Tail(q), kn)
                    /\ Grows(pasts[0], after[0]) /\ True_(Head(q), pasts[0], after[0])
<1> DEFINE n == Len(q)
           after == [k \in 0 .. n - 1 |-> pasts[k + 1]]
           r == Tail(q)
<1>1. n \in Nat \ {0} /\ Len(r) = n - 1 /\ Head(q) = q[1] /\ \A k \in 1 .. n - 1 : r[k] = q[k + 1]
  OBVIOUS
<1>2. /\ pasts \in [0 .. n -> Past] /\ Grows(pasts[n], kn)
      /\ \A k \in 1 .. n : Grows(pasts[k - 1], pasts[k]) /\ True_(q[k], pasts[k - 1], pasts[k])
  BY DEF Remembers
<1> HIDE DEF r
<1>3. after \in [0 .. n - 1 -> Past] /\ \A k \in 0 .. n - 1 : after[k] = pasts[k + 1]
  BY <1>1, <1>2
<1> HIDE DEF after
<1>4. ASSUME NEW k \in 1 .. n - 1
      PROVE  Grows(after[k - 1], after[k]) /\ True_(r[k], after[k - 1], after[k])
  <2> DEFINE j == k + 1
  <2>1. j \in 1 .. n /\ j - 1 = k /\ k \in 0 .. n - 1 /\ k - 1 \in 0 .. n - 1 /\ (k - 1) + 1 = k
    BY <1>1
  <2>2. r[k] = q[j] /\ after[k] = pasts[j] /\ after[k - 1] = pasts[k]
    BY <1>1, <1>3, <2>1
  <2> HIDE DEF j
  <2>3. Grows(pasts[j - 1], pasts[j]) /\ True_(q[j], pasts[j - 1], pasts[j])
    BY <1>2, <2>1
  <2> QED
    BY <2>1, <2>2, <2>3
<1>5. Grows(after[n - 1], kn)
  BY <1>1, <1>2, <1>3
<1>6. Remembers(after, r, kn)
  BY <1>1, <1>3, <1>4, <1>5 DEF Remembers
<1>7. Grows(pasts[0], after[0]) /\ True_(q[1], pasts[0], after[0])
  <2>1. after[0] = pasts[1] /\ 1 \in 1 .. n /\ 1 - 1 = 0
    BY <1>1, <1>3
  <2> QED
    BY <1>2, <2>1
<1> QED
  BY <1>1, <1>6, <1>7 DEF r

Handled == OnContent \/ OnWriteDone \/ OnFsOpDone
Recalls(pasts, after) == Remembers(after, inbox_', known') /\ Grows(pasts[0], after[0])

\* A step that tells tabs nothing of a text or a rename only extends what is
\* remembered.
LEMMA PastsExtend ==
  ASSUME DocTyped, NEW pasts, Remembers(pasts, inbox_, known), [DocNext]_docVars, ~Handled
  PROVE  \E after : Recalls(pasts, after)
<1> DEFINE Goal == \E after : Recalls(pasts, after)
<1> SUFFICES Goal
  OBVIOUS
<1>0. /\ DiskTyped' /\ KnownKept /\ DiskTyped /\ inbox_ \in Seq(Event_) /\ BagToSet(jobs) \subseteq Job
      /\ TabHereTyped
  BY DiskKept, TabInFront DEF DocTyped, JobsTyped
<1>1. ASSUME inbox_' = inbox_ PROVE Goal
  <2>1. Recalls(pasts, pasts)
    BY <1>0, <1>1, StillRemembers DEF Recalls, Grows
  <2> QED
    BY <2>1
<1>2. ASSUME NEW e \in Event_, inbox_' = Append(inbox_, e), True_(e, known, known') PROVE Goal
  <2>1. PICK after : Remembers(after, Append(inbox_, e), known') /\ after[0] = pasts[0]
    BY <1>0, <1>2, PostedRemembered
  <2>2. Recalls(pasts, after)
    BY <1>2, <2>1 DEF Recalls, Grows
  <2> QED
    BY <2>2
<1>3. ASSUME inbox_ # <<>>, inbox_' = Tail(inbox_) PROVE Goal
  <2>1. Remembers(pasts, inbox_, known')
    BY <1>0, StillRemembers
  <2>2. PICK after : /\ Remembers(after, Tail(inbox_), known')
                     /\ Grows(pasts[0], after[0]) /\ True_(Head(inbox_), pasts[0], after[0])
    BY <1>0, <1>3, <2>1, HandledRemembered
  <2>3. Recalls(pasts, after)
    BY <1>3, <2>2 DEF Recalls
  <2> QED
    BY <2>3
<1>4. ASSUME NEW e \in Event_, inbox_' = Append(inbox_, e), e.type \notin Texted \cup {"RemoteFsOpDone"}
      PROVE  Goal
  BY <1>2, <1>4 DEF True_, IsRename
<1>5. ASSUME NEW path \in Paths, OpenPath(path) PROVE Goal
  <2> DEFINE up == [type |-> "SshConnected"]
  <2>1. Opens(path, inbox_)
    BY <1>0, <1>5, OpenTabs DEF OpenPath
  <2>2. up \in Event_ /\ up.type \notin Texted \cup {"RemoteFsOpDone"}
    BY DEF Event_, Texted
  <2>3. inbox_' \in {inbox_, Append(inbox_, up)}
    BY <2>1 DEF Opens
  <2> HIDE DEF up, Goal
  <2> QED
    BY <1>1, <1>4, <2>2, <2>3
<1>6. ASSUME NEW path, CreateRemote(path) \/ OpenDiff(path) PROVE Goal
  BY <1>1, <1>6 DEF CreateRemote, FsOp, OpenDiff
<1>7. ASSUME NEW text, EditText(text) \/ ReplaceMatches(text) PROVE Goal
  BY <1>1, <1>7 DEF EditText, ReplaceMatches
<1>22. ASSUME NEW files, ReplaceInFiles(files) PROVE Goal
  BY <1>1, <1>22 DEF ReplaceInFiles
<1>8. ASSUME NEW p, NEW i, CloseDoc(p, i) \/ Switch(p, i) PROVE Goal
  BY <1>1, <1>8 DEF CloseDoc, Switch
<1>9. ASSUME NEW whole, SplitPane(whole) PROVE Goal
  BY <1>1, <1>9 DEF SplitPane
<1>10. ASSUME NEW old, NEW new, RenameLocal(old, new) \/ RenameRemote(old, new) PROVE Goal
  BY <1>1, <1>10 DEF RenameLocal, RenameRemote, FsOp
<1>11. CASE SaveText \/ MasterEnds \/ OnGitOpDone \/ Redraw
  BY <1>1, <1>11 DEF SaveText, MasterEnds, OnGitOpDone, Redraw
<1>12. CASE UNCHANGED docVars
  BY <1>1, <1>12 DEF docVars
<1>13. CASE OnConnecting \/ OnSshError \/ OnConnected \/ OnFileError \/ OnFormatterDone \/ OnFsOpError
  BY <1>3, <1>13 DEF OnConnecting, OnSshError, ConnEvent, OnConnected, OnFileError, OnFormatterDone,
     OnFsOpError, Arrives
<1>14. ASSUME NEW e \in {[type |-> "SshConnecting"], [type |-> "SshConnected"], SshError, FsOpError},
              inbox_' = Append(inbox_, e)
       PROVE  Goal
  <2>1. e \in Event_ /\ e.type \notin Texted \cup {"RemoteFsOpDone"}
    BY DEF Event_, SshError, FsOpError, Texted
  <2> HIDE DEF Goal
  <2> QED
    BY <1>4, <1>14, <2>1
<1>15. CASE StartConnecting \/ EndConnecting
  <2> HIDE DEF Goal
  <2>1. \E e \in {[type |-> "SshConnecting"], [type |-> "SshConnected"], SshError} : inbox_' = Append(inbox_, e)
    BY <1>15 DEF StartConnecting, EndConnecting, Finish
  <2> QED
    BY <1>14, <2>1
<1>16. CASE EndRead
  <2>1. PICK job \in Running("read") :
          \/ /\ disk[job.path] # NoFile
             /\ Finish(job, [type |-> "RemoteFileContent", token |-> job.token, path |-> job.path,
                             text |-> disk[job.path]])
          \/ Finish(job, [type |-> "RemoteFileError", token |-> job.token, path |-> job.path])
    BY <1>16 DEF EndRead
  <2> DEFINE came == [type |-> "RemoteFileContent", token |-> job.token, path |-> job.path,
                         text |-> disk[job.path]]
             lost == [type |-> "RemoteFileError", token |-> job.token, path |-> job.path]
  <2>2. job.token \in Nat /\ job.path \in Remote /\ job.path \in Paths
    BY <1>0, JobShapes DEF Running, ReadJob, Paths
  <2>3. ASSUME disk[job.path] # NoFile PROVE came \in Event_ /\ True_(came, known, known')
    <3>1. disk[job.path] \in Prose /\ disk[job.path] \in known'[job.path]
      BY <1>0, <2>2, <2>3 DEF DiskTyped, KnownKept
    <3> QED
      BY <2>2, <3>1 DEF Event_, ContentEvent, True_, IsRename
  <2>4. lost \in Event_ /\ lost.type \notin Texted \cup {"RemoteFsOpDone"}
    BY <2>2 DEF Event_, ErrorEvent, Texted
  <2>5. (disk[job.path] # NoFile /\ inbox_' = Append(inbox_, came)) \/ inbox_' = Append(inbox_, lost)
    BY <2>1 DEF Finish
  <2> HIDE DEF came, lost, Goal
  <2> QED
    BY <1>2, <1>4, <2>3, <2>4, <2>5
<1>17. CASE EndWrite
  <2>1. PICK job \in Running("write") :
          \/ /\ disk' = [disk EXCEPT ![job.path] = job.text]
             /\ known' = Learned(job.path, job.text)
             /\ Finish(job, [type |-> "RemoteWriteDone", path |-> job.path, text |-> job.text])
          \/ Finish(job, SshError)
    BY <1>17 DEF EndWrite
  <2> DEFINE done == [type |-> "RemoteWriteDone", path |-> job.path, text |-> job.text]
  <2>2. job.path \in Remote /\ job.path \in Paths /\ job.text \in Prose
    BY <1>0, JobShapes DEF Running, WriteJob, Paths
  <2>3. ASSUME disk' = [disk EXCEPT ![job.path] = job.text], known' = Learned(job.path, job.text)
        PROVE  done \in Event_ /\ True_(done, known, known')
    <3>1. job.text \in known'[job.path]
      BY <1>0, <2>2, <2>3, DiskWritten
    <3> QED
      BY <2>2, <3>1 DEF Event_, WroteEvent, True_, IsRename
  <2>4. \/ /\ disk' = [disk EXCEPT ![job.path] = job.text] /\ known' = Learned(job.path, job.text)
           /\ inbox_' = Append(inbox_, done)
        \/ inbox_' = Append(inbox_, SshError)
    BY <2>1 DEF Finish
  <2> HIDE DEF done, Goal
  <2> QED
    BY <1>2, <1>14, <2>3, <2>4
<1>18. CASE EndRename
  <2>1. PICK job \in Running("rename") :
          \/ /\ disk[job.old] # NoFile /\ disk[job.new] = NoFile
             /\ MoveFile(job.old, job.new)
             /\ Finish(job, FsOpDone(job.old, job.new, NoPath))
          \/ Finish(job, FsOpError)
    BY <1>18 DEF EndRename
  <2> DEFINE done == FsOpDone(job.old, job.new, NoPath)
  <2>2. job.old \in Remote /\ job.new \in Remote /\ job.old \in Paths /\ job.new \in Paths
    BY <1>0, JobShapes DEF Running, RenameJob, Paths
  <2>3. ASSUME disk[job.old] # NoFile, disk[job.new] = NoFile, MoveFile(job.old, job.new)
        PROVE  done \in Event_ /\ True_(done, known, known')
    <3>1. known[job.old] \subseteq known'[job.new]
      BY <1>0, <2>2, <2>3, DiskMoved
    <3> QED
      BY <2>2, <3>1 DEF Event_, RenamedEvent, True_, IsRename, FsOpDone, Texted
  <2>4. \/ /\ disk[job.old] # NoFile /\ disk[job.new] = NoFile /\ MoveFile(job.old, job.new)
           /\ inbox_' = Append(inbox_, done)
        \/ inbox_' = Append(inbox_, FsOpError)
    BY <2>1 DEF Finish
  <2> HIDE DEF done, Goal
  <2> QED
    BY <1>2, <1>14, <2>3, <2>4
<1>19. CASE EndCreate
  <2>1. PICK job \in Running("create") :
          Finish(job, FsOpDone(NoPath, NoPath, job.path)) \/ Finish(job, FsOpError)
    BY <1>19 DEF EndCreate
  <2> DEFINE done == FsOpDone(NoPath, NoPath, job.path)
  <2>2. job.path \in Remote /\ job.path # NoPath
    BY <1>0, JobShapes, DocumentsAssumption DEF Running, CreateJob
  <2>3. done \in Event_ /\ True_(done, known, known')
    BY <2>2 DEF Event_, CreatedEvent, True_, IsRename, FsOpDone, Texted
  <2>4. inbox_' = Append(inbox_, done) \/ inbox_' = Append(inbox_, FsOpError)
    BY <2>1 DEF Finish
  <2> HIDE DEF done, Goal
  <2> QED
    BY <1>2, <1>14, <2>3, <2>4
<1>20. CASE EndFormat
  <2>1. PICK job \in Running("format") : Finish(job, [type |-> "FormatterDone", path |-> job.path])
    BY <1>20 DEF EndFormat
  <2> DEFINE done == [type |-> "FormatterDone", path |-> job.path]
  <2>2. job.path \in LocalPaths
    BY <1>0, JobShapes DEF Running, FormatJob
  <2>3. done \in Event_ /\ done.type \notin Texted \cup {"RemoteFsOpDone"}
    BY <2>2 DEF Event_, FormattedEvent, Texted
  <2>4. inbox_' = Append(inbox_, done)
    BY <2>1 DEF Finish
  <2> HIDE DEF done, Goal
  <2> QED
    BY <1>4, <2>3, <2>4
<1> HIDE DEF Goal
<1>21. CASE UserNext
  <2>1. CASE SaveText
    BY <1>11, <2>1
  <2> QED
    BY <1>5, <1>6, <1>7, <1>8, <1>9, <1>10, <1>21, <1>22, <2>1 DEF UserNext
<1> QED
  BY <1>11, <1>12, <1>13, <1>15, <1>16, <1>17, <1>18, <1>19, <1>20, <1>21 DEF DocNext, Handled

\* An event that tells of a text or a rename is true of what was known when
\* it was posted.
LEMMA PastsPass ==
  ASSUME DocTyped, NEW pasts, Remembers(pasts, inbox_, known), [DocNext]_docVars, Handled
  PROVE  \E after : Recalls(pasts, after) /\ True_(Head(inbox_), pasts[0], after[0])
<1>0. DiskTyped' /\ KnownKept /\ inbox_ \in Seq(Event_) /\ inbox_ # <<>> /\ known' = known
  BY DiskKept DEF DocTyped, JobsTyped, Handled, OnContent, OnWriteDone, OnFsOpDone, Arrives, Quiet
<1>1. PICK after : /\ Remembers(after, Tail(inbox_), known)
                   /\ Grows(pasts[0], after[0]) /\ True_(Head(inbox_), pasts[0], after[0])
  BY <1>0, HandledRemembered
<1>2. CASE inbox_' = Tail(inbox_)
  BY <1>0, <1>1, <1>2 DEF Recalls
<1> DEFINE up == [type |-> "SshConnected"]
<1>3. CASE inbox_' = Append(Tail(inbox_), up)
  <2>1. up \in Event_ /\ True_(up, known, known')
    BY DEF Event_, True_, IsRename, Texted
  <2>2. Tail(inbox_) \in Seq(Event_)
    BY <1>0
  <2> HIDE DEF up
  <2>3. PICK later : Remembers(later, Append(Tail(inbox_), up), known') /\ later[0] = after[0]
    BY <1>0, <1>1, <2>1, <2>2, PostedRemembered
  <2>4. Recalls(pasts, later) /\ True_(Head(inbox_), pasts[0], later[0])
    BY <1>1, <1>3, <2>3 DEF Recalls
  <2> QED
    BY <2>4
<1>4. inbox_' \in {Tail(inbox_), Append(Tail(inbox_), up)}
  BY DEF Handled, OnContent, OnWriteDone, OnFsOpDone, OpenOrReuse
<1> HIDE DEF up
<1> QED
  BY <1>2, <1>3, <1>4

\* An unmarked tab, but for those excepted, shows a text its file has had; of
\* a remote one, that was known when the events handled so far were posted.
Clean(t, past, kn, wr) ==
    t.kind = "Editor" /\ t.path # NoPath /\ ~t.dirty /\ t.buf \notin wr =>
        \/ t.text = Blank
        \/ t.path \in Remote /\ t.text \in past[t.path]
        \/ t.path \in LocalPaths /\ t.text \in kn[FileOf(t.path)]
AllClean(past) == \A u \in AllTabs : Clean(u, past, known, wronged)

\* The tabs of a buffer are of one kind.
Kinds == \A t \in AllTabs : /\ t.buf < nextBuf
                            /\ \A u \in AllTabs : t.buf = u.buf /\ t.buf \notin wronged => t.kind = u.kind

\* A tab has the buffer of another, or a new one.
Kin(t, kind) ==
    \/ \E u \in AllTabs : u.buf = t.buf /\ (u.kind = t.kind \/ t.buf \in wronged')
    \/ t.buf >= nextBuf /\ t.buf < nextBuf' /\ t.kind = kind
Sound(t, kind, past) == Kin(t, kind) /\ Clean(t, past, known', wronged')
AllSound(past) ==
    /\ nextBuf <= nextBuf' /\ wronged \subseteq wronged'
    /\ \E kind : \A t \in TabsOf(tabs') : Sound(t, kind, past)

\* A clean tab stays so while files come to have had more texts.
LEMMA StillClean ==
  ASSUME NEW a, NEW b, Grows(a, b), KnownKept, wronged \subseteq wronged', NEW t \in Tab_,
         Clean(t, a, known, wronged)
  PROVE  Clean(t, b, known', wronged')
<1>1. t.path \in LocalPaths => known[FileOf(t.path)] \subseteq known'[FileOf(t.path)]
  BY FilesOfPaths DEF KnownKept, Paths
<1> QED
  BY <1>1 DEF Clean, Grows

\* Every step leaves clean only tabs that show what their files have had: one
\* case for each action.
LEMMA TabsStaySound ==
  ASSUME DocTyped, Kinds, NEW a, NEW b, AllClean(a), Grows(a, b), [DocNext]_docVars,
         Handled => True_(Head(inbox_), a, b)
  PROVE  AllSound(b)
<1>0. /\ TabHereTyped /\ inbox_ \in Seq(Event_) /\ TabsTyped /\ nextBuf \in Nat /\ DiskTyped /\ DiskTyped'
      /\ KnownKept /\ HereTab \in AllTabs /\ HereTab \in Tab_
  BY DiskKept, TabInFront DEF DocTyped, JobsTyped, TabsTyped, TabHereTyped, AllTabs
<1>1. AllTabs \subseteq Tab_
  BY <1>0 DEF AllTabs, TabsOf, TabsTyped, Range
<1>2. ASSUME wronged \subseteq wronged', NEW u \in AllTabs PROVE Clean(u, b, known', wronged')
  BY <1>0, <1>1, <1>2, StillClean DEF AllClean
<1>3. ASSUME wronged \subseteq wronged', NEW u \in AllTabs, NEW kind PROVE Sound(u, kind, b)
  BY <1>2, <1>3 DEF Sound, Kin
\* A tab like another but for what it waits for.
<1>4. ASSUME wronged \subseteq wronged', NEW u \in AllTabs, NEW kind, NEW t,
             t.kind = u.kind, t.buf = u.buf, t.path = u.path, t.dirty = u.dirty, t.text = u.text
      PROVE  Sound(t, kind, b)
  <2>1. Clean(u, b, known', wronged')
    BY <1>2, <1>4
  <2>2. Clean(t, b, known', wronged')
    BY <1>4, <2>1 DEF Clean
  <2> QED
    BY <1>4, <2>2 DEF Sound, Kin
<1>5. ASSUME wronged \subseteq wronged', nextBuf' = nextBuf, TabsOf(tabs') \subseteq AllTabs
      PROVE  AllSound(b)
  BY <1>0, <1>3, <1>5 DEF AllSound
<1>6. ASSUME wronged \subseteq wronged', nextBuf' >= nextBuf, nextBuf' \in Nat, NEW t, NEW kind,
             Sound(t, kind, b), TabsOf(tabs') \subseteq AllTabs \cup {t}
      PROVE  AllSound(b)
  BY <1>0, <1>3, <1>6 DEF AllSound
<1>7. ASSUME UNCHANGED <<tabs, nextBuf, wronged>> PROVE AllSound(b)
  BY <1>5, <1>7 DEF AllTabs
<1>8. ASSUME NEW path \in Paths, NEW rest \in Seq(Event_), OpenOrReuse(path, rest)
      PROVE  AllSound(b)
  <2>1. Opens(path, rest)
    BY <1>8, OpenTabs
  <2>2. wronged \subseteq wronged' /\ nextBuf' \in Nat /\ nextBuf' >= nextBuf
    BY <2>1 DEF Opens
  <2>3. ASSUME NEW t \in TabsOf(tabs') PROVE Sound(t, "Editor", b)
    <3>1. PICK u \in Tab_ : (u \in TabsOf(tabs) \/ NewTab_(u, path)) /\ Asked_(u, t, BagToSet(jobs'))
      BY <2>1, <2>3 DEF Opens
    <3>2. t.kind = u.kind /\ t.buf = u.buf /\ t.path = u.path /\ t.dirty = u.dirty /\ t.text = u.text
      BY <3>1 DEF Asked_, Tab_
    <3>3. CASE u \in TabsOf(tabs)
      BY <1>4, <2>2, <3>2, <3>3 DEF AllTabs
    <3>4. CASE NewTab_(u, path)
      <4>1. Kin(t, "Editor")
        BY <1>0, <3>2, <3>4 DEF NewTab_, Kin
      <4>2. \/ u.text = Blank
            \/ path \in Local /\ disk[path] # NoFile /\ u.text = disk[path] /\ u.path = path
        BY <3>4 DEF NewTab_
      <4>3. ASSUME path \in Local, disk[path] # NoFile
            PROVE  disk[path] \in known'[FileOf(path)] /\ path \in LocalPaths
        <5>1. FileOf(path) = path /\ path \in Paths
          BY <4>3, FilesOfPaths DEF Paths
        <5> QED
          BY <1>0, <4>3, <5>1 DEF DiskTyped, KnownKept, LocalPaths
      <4>4. Clean(t, b, known', wronged')
        BY <3>2, <4>2, <4>3 DEF Clean
      <4> QED
        BY <4>1, <4>4 DEF Sound
    <3> QED
      BY <3>1, <3>3, <3>4
  <2> QED
    BY <1>0, <2>2, <2>3 DEF AllSound
<1>9. ASSUME NEW path \in Paths, OpenPath(path) PROVE AllSound(b)
  BY <1>0, <1>8, <1>9 DEF OpenPath
<1>10. ASSUME NEW path \in Remote, CreateRemote(path) PROVE AllSound(b)
  BY <1>7, <1>10 DEF CreateRemote, FsOp
<1>11. ASSUME NEW path \in Local, OpenDiff(path) PROVE AllSound(b)
  <2>1. nextBuf' = nextBuf + 1 /\ wronged \subseteq wronged'
    BY <1>11 DEF OpenDiff
  <2>2. Sound(DiffTab(path), "GitDiff", b)
    BY <1>0, <2>1 DEF Sound, Kin, Clean, DiffTab, Untitled
  <2>3. TabsOf(tabs') \subseteq AllTabs \cup {DiffTab(path)}
    BY <1>11, DiffTabs
  <2> QED
    BY <1>0, <1>6, <2>1, <2>2, <2>3
<1>12. ASSUME NEW text \in Texts \cup {Blank}, EditText(text) PROVE AllSound(b)
  <2> DEFINE t == [HereTab EXCEPT !.text = text, !.dirty = TRUE, !.gen = @ + 1]
  <2>1. HereTab.gen + 1 \in Nat /\ HereTab \in Tab_
    BY <1>0 DEF TabHereTyped, Tab_
  <2>2. t \in Tab_ /\ t.buf = HereTab.buf /\ t.kind = HereTab.kind /\ t.dirty
    BY ONLY <2>1, text \in Texts \cup {Blank} DEF Tab_, Prose
  <2>3. tabs' = PutFront(t) /\ SameFront /\ wronged \subseteq wronged'
    BY <1>12 DEF EditText, SameFront
  <2> HIDE DEF t
  <2>4. Sound(t, "Editor", b)
    BY <1>0, <2>2 DEF Sound, Kin, Clean
  <2>5. TabsOf(tabs') \subseteq AllTabs \cup {t} /\ nextBuf' = nextBuf
    BY <2>2, <2>3, EditedTabs DEF SameFront
  <2> QED
    BY <1>0, <1>6, <2>3, <2>4, <2>5
<1>31. ASSUME NEW text \in Texts \cup {Blank}, ReplaceMatches(text) PROVE AllSound(b)
  <2> DEFINE t == [HereTab EXCEPT !.text = text, !.dirty = TRUE]
  <2>1. HereTab \in Tab_
    BY <1>0
  <2>2. t \in Tab_ /\ t.buf = HereTab.buf /\ t.kind = HereTab.kind /\ t.dirty
    BY ONLY <2>1, text \in Texts \cup {Blank} DEF Tab_, Prose
  <2>3. tabs' = PutFront(t) /\ SameFront /\ wronged \subseteq wronged'
    BY <1>31 DEF ReplaceMatches, SameFront
  <2> HIDE DEF t
  <2>4. Sound(t, "Editor", b)
    BY <1>0, <2>2 DEF Sound, Kin, Clean
  <2>5. TabsOf(tabs') \subseteq AllTabs \cup {t} /\ nextBuf' = nextBuf
    BY <2>2, <2>3, EditedTabs DEF SameFront
  <2> QED
    BY <1>0, <1>6, <2>3, <2>4, <2>5
<1>32. ASSUME NEW files \in SUBSET Local, ReplaceInFiles(files) PROVE AllSound(b)
  <2>1. wronged \subseteq wronged' /\ nextBuf' = nextBuf
    BY <1>32, ReplacedTabs DEF SameFront
  <2>2. ASSUME NEW t \in TabsOf(tabs') PROVE Sound(t, "Editor", b)
    <3>1. PICK u \in AllTabs : u \in Tab_ /\ ReplacedFrom(t, u)
      BY <1>32, <2>2, ReplacedTabs
    <3>2. CASE t = u
      BY <1>3, <2>1, <3>1, <3>2
    <3>3. CASE /\ u.path \in Local
               /\ t.kind = u.kind /\ t.buf = u.buf /\ t.path = u.path /\ t.token = u.token
               /\ t.text \in known'[u.path] \/ u.buf \in wronged'
      <4>1. u.path \in LocalPaths /\ FileOf(u.path) = u.path
        BY <3>3, FilesOfPaths DEF Paths, LocalPaths
      <4>2. Clean(t, b, known', wronged')
        BY <3>3, <4>1 DEF Clean
      <4> QED
        BY <3>1, <3>3, <4>2 DEF Sound, Kin
    <3> QED
      BY <3>1, <3>2, <3>3 DEF ReplacedFrom
  <2> QED
    BY <1>0, <2>1, <2>2 DEF AllSound
<1>13. CASE SaveText
  <2> DEFINE t == [HereTab EXCEPT !.dirty = FALSE]
             file == FileOf(HereTab.path)
  <2>1. /\ t \in Tab_ /\ t.buf = HereTab.buf /\ t.kind = HereTab.kind /\ t.path = HereTab.path
        /\ t.text = HereTab.text /\ HereTab.text \in Prose
    BY <1>0 DEF Tab_
  <2>2. /\ HereTab.path # NoPath /\ SameFront /\ wronged' = wronged
        /\ \/ tabs' = tabs
           \/ /\ file \in Local /\ disk' = [disk EXCEPT ![file] = HereTab.text]
              /\ known' = Learned(file, HereTab.text) /\ tabs' = PutFront(t)
    BY <1>13 DEF SaveText, SameFront
  <2> HIDE DEF t
  <2>3. CASE tabs' = tabs
    BY <1>7, <2>2, <2>3 DEF SameFront
  <2>4. CASE /\ file \in Local /\ disk' = [disk EXCEPT ![file] = HereTab.text]
             /\ known' = Learned(file, HereTab.text) /\ tabs' = PutFront(t)
    <3>1. HereTab.text \in known'[file] /\ file \in Paths
      BY <1>0, <2>1, <2>4, DiskWritten DEF Paths
    <3>2. HereTab.path \in LocalPaths
      BY <1>0, <2>2, <2>4, FilesOfPaths, DocumentsAssumption DEF TabPaths, Tab_
    <3>3. Sound(t, "Editor", b)
      BY <1>0, <2>1, <3>1, <3>2 DEF Sound, Kin, Clean
    <3>4. TabsOf(tabs') \subseteq AllTabs \cup {t} /\ nextBuf' = nextBuf
      BY <2>1, <2>2, <2>4, EditedTabs DEF SameFront
    <3> QED
      BY <1>0, <1>6, <2>2, <3>3, <3>4
  <2> QED
    BY <2>2, <2>3, <2>4
<1>14. ASSUME NEW p, NEW i, CloseDoc(p, i) PROVE AllSound(b)
  BY <1>5, <1>14, ClosedTabs DEF CloseDoc
<1>15. ASSUME NEW p, NEW i, Switch(p, i) PROVE AllSound(b)
  BY <1>5, <1>15 DEF Switch, AllTabs
<1>16. ASSUME NEW whole \in BOOLEAN, SplitPane(whole) PROVE AllSound(b)
  <2> DEFINE c == Copied(whole)
  <2>1. TabsOf(tabs') \subseteq AllTabs \cup {c} /\ c \in Tab_
    BY <1>16, SplitTabs
  <2>2. /\ nextBuf' \in {nextBuf, nextBuf + 1}
        /\ wronged' = IF [c EXCEPT !.gen = HereTab.gen] = HereTab
                      THEN wronged \cup Abandoned
                      ELSE wronged \cup Abandoned \cup {c.buf}
    BY <1>16 DEF SplitPane, Copied
  <2>3. c.buf = HereTab.buf
    BY <1>0 DEF Copied, Untitled
  <2> HIDE DEF c
  <2>4. Sound(c, "Editor", b)
    <3>1. CASE [c EXCEPT !.gen = HereTab.gen] = HereTab
      <4>1. /\ c.kind = HereTab.kind /\ c.path = HereTab.path /\ c.dirty = HereTab.dirty
            /\ c.text = HereTab.text
        BY <2>1, <3>1 DEF Tab_
      <4> QED
        BY <1>0, <1>4, <2>2, <2>3, <4>1
    <3>2. CASE [c EXCEPT !.gen = HereTab.gen] # HereTab
      BY <1>0, <2>2, <2>3, <3>2 DEF Sound, Kin, Clean
    <3> QED
      BY <3>1, <3>2
  <2>5. wronged \subseteq wronged' /\ nextBuf' \in Nat /\ nextBuf' >= nextBuf
    BY <1>0, <2>2
  <2> QED
    BY <1>6, <2>1, <2>4, <2>5
<1>17. ASSUME NEW old \in Paths, NEW new \in Paths, UpdatePaths(old, new), SameFront, wronged' = wronged,
              \/ old \in Local /\ new \in Local /\ known[old] \subseteq known'[new]
              \/ old \in Remote /\ new \in Remote /\ a[old] \subseteq b[new]
       PROVE  AllSound(b)
  <2>1. new \in TabPaths
    BY DEF TabPaths, LocalPaths, Paths
  <2>2. \A t \in TabsOf(tabs') : \E u \in AllTabs : u \in Tab_ /\ RenamedFrom(t, u, old, new)
    BY <1>17, <2>1, RenamedTabs
  <2>3. ASSUME NEW t \in TabsOf(tabs') PROVE Sound(t, "Editor", b)
    <3>1. PICK u \in AllTabs : u \in Tab_ /\ RenamedFrom(t, u, old, new)
      BY <2>2
    <3>2. CASE u.path # old
      BY <1>3, <1>17, <3>1, <3>2 DEF RenamedFrom, Renamed
    <3>3. CASE u.path = old
      <4>1. /\ t.kind = u.kind /\ t.buf = u.buf /\ t.path = new /\ t.dirty = u.dirty
            /\ t.text = u.text
        BY <3>1, <3>3 DEF RenamedFrom, Renamed, Tab_
      <4>2. Clean(u, a, known, wronged)
        BY <3>1 DEF AllClean
      <4>3. FileOf(old) = old /\ FileOf(new) = new /\ (new \in Local => new \in LocalPaths)
            /\ old # NoPath
        BY FilesOfPaths, DocumentsAssumption DEF Paths, LocalPaths
      <4>4. old \in Remote => old \notin LocalPaths
        BY FilesOfPaths, DocumentsAssumption
      <4>5. old \in Local => old \notin Remote
        BY DocumentsAssumption
      <4>6. Clean(t, b, known', wronged')
        BY <1>17, <3>3, <4>1, <4>2, <4>3, <4>4, <4>5 DEF Clean
      <4> QED
        BY <4>1, <4>6, <3>1 DEF Sound, Kin
    <3> QED
      BY <3>2, <3>3
  <2> QED
    BY <1>0, <1>17, <2>3 DEF AllSound, SameFront
<1>18. ASSUME NEW old \in Local, NEW new \in Local, RenameLocal(old, new) PROVE AllSound(b)
  <2>1. old \in Paths /\ new \in Paths
    BY DEF Paths
  <2>2. known[old] \subseteq known'[new]
    BY <1>0, <1>18, <2>1, DiskMoved DEF RenameLocal
  <2> QED
    BY <1>17, <1>18, <2>1, <2>2 DEF RenameLocal, SameFront
<1>19. ASSUME NEW old, NEW new, RenameRemote(old, new) PROVE AllSound(b)
  BY <1>7, <1>19 DEF RenameRemote, FsOp
<1>20. CASE MasterEnds \/ StartConnecting \/ OnConnecting \/ OnSshError \/ OnFsOpError
  BY <1>7, <1>20 DEF MasterEnds, StartConnecting, OnConnecting, OnSshError, OnFsOpError, ConnEvent, Quiet
<1>21. CASE EndConnecting \/ EndRead \/ EndWrite \/ EndRename \/ EndCreate \/ EndFormat
  <2>1. \E job, event : Finish(job, event)
    BY <1>21 DEF EndConnecting, EndRead, EndWrite, EndRename, EndCreate, EndFormat
  <2> QED
    BY <1>7, <2>1 DEF Finish
<1>22. CASE OnConnected
  <2>1. SameShape(tabs', tabs) /\ AreAsked(tabs, tabs', BagToSet(jobs'))
    BY <1>22, ConnectedReads
  <2>2. UNCHANGED <<nextBuf, wronged>>
    BY <1>22 DEF OnConnected, Quiet
  <2>3. ASSUME NEW t \in TabsOf(tabs') PROVE Sound(t, "Editor", b)
    <3>1. PICK p \in Panes : t \in Range(tabs'[p])
      BY <2>3 DEF TabsOf
    <3>2. PICK i \in DOMAIN tabs'[p] : t = tabs'[p][i]
      BY <3>1 DEF Range
    <3>3. i \in DOMAIN tabs[p]
      BY <2>1, <3>2 DEF SameShape
    <3>4. PICK u : u = tabs[p][i]
      OBVIOUS
    <3>5. u \in AllTabs
      BY <3>3, <3>4, PlacesAreTabs DEF AllTabs
    <3>6. Asked_(u, t, BagToSet(jobs')) /\ u \in Tab_
      BY <1>1, <2>1, <3>2, <3>3, <3>4, <3>5 DEF AreAsked
    <3>7. t.kind = u.kind /\ t.buf = u.buf /\ t.path = u.path /\ t.dirty = u.dirty /\ t.text = u.text
      BY <3>6 DEF Asked_, Tab_
    <3> QED
      BY <1>4, <2>2, <3>5, <3>7
  <2> QED
    BY <1>0, <2>2, <2>3 DEF AllSound
<1>23. CASE OnContent \/ OnFileError
  <2>1. wronged \subseteq wronged' /\ nextBuf' = nextBuf /\ inbox_ # <<>>
        /\ (Head(inbox_).type = "RemoteFileContent" => OnContent)
    BY <1>23 DEF OnContent, OnFileError, Quiet, Arrives
  <2>2. ASSUME NEW t \in TabsOf(tabs') PROVE Sound(t, "Editor", b)
    <3>1. PICK u \in AllTabs : u \in Tab_ /\ AnsweredFrom(t, u, Head(inbox_))
      BY <1>23, <2>2, AnsweredTabs
    <3>2. CASE t.text = u.text
      BY <1>4, <2>1, <3>1, <3>2 DEF AnsweredFrom
    <3>3. CASE t.text # u.text
      <4>1. /\ Head(inbox_).type = "RemoteFileContent" /\ Awaited(u, Head(inbox_))
            /\ t.text = Head(inbox_).text /\ t.path = u.path /\ t.buf = u.buf /\ t.kind = u.kind
        BY <3>1, <3>3 DEF AnsweredFrom
      <4>2. Head(inbox_) \in Event_
        BY <1>0, <2>1
      <4>3. t.path = Head(inbox_).path /\ t.path \in Remote
        BY <4>1, <4>2, EventShapes DEF Awaited, ContentEvent
      <4>4. t.text \in b[t.path]
        BY <2>1, <4>1, <4>3 DEF Handled, True_, Texted
      <4> QED
        BY <3>1, <4>1, <4>3, <4>4 DEF Sound, Kin, Clean
    <3> QED
      BY <3>2, <3>3
  <2> QED
    BY <1>0, <2>1, <2>2 DEF AllSound
<1>24. CASE OnWriteDone
  <2>1. wronged \subseteq wronged' /\ nextBuf' = nextBuf /\ inbox_ # <<>>
        /\ Head(inbox_).type = "RemoteWriteDone"
    BY <1>24 DEF OnWriteDone, Quiet, Arrives
  <2>2. PICK h : h = Head(inbox_)
    OBVIOUS
  <2>3. h \in WroteEvent /\ True_(h, a, b)
    <3>1. h \in Event_
      BY <1>0, <2>1, <2>2
    <3> QED
      BY <1>24, <2>1, <2>2, <3>1, EventShapes DEF Handled
  <2>4. h.path \in Remote /\ h.text \in b[h.path]
    BY <2>1, <2>2, <2>3 DEF WroteEvent, True_, Texted
  <2>5. ASSUME NEW t \in TabsOf(tabs') PROVE Sound(t, "Editor", b)
    <3>1. PICK u \in AllTabs : u \in Tab_ /\ WrittenFrom(t, u, h)
      BY <1>24, <2>2, <2>5, WrittenTabs
    <3>2. CASE t = u
      BY <1>3, <2>1, <3>1, <3>2
    <3>3. CASE /\ t = [u EXCEPT !.dirty = FALSE] /\ u.path = h.path
               /\ u.dirty /\ u.text # h.text => u.buf \in wronged'
      <4>1. t.kind = u.kind /\ t.buf = u.buf /\ t.path = u.path /\ t.text = u.text
        BY <3>1, <3>3 DEF Tab_
      <4>2. Clean(u, b, known', wronged')
        BY <1>2, <2>1, <3>1
      <4>3. u.dirty \in BOOLEAN
        BY <3>1 DEF Tab_
      <4>4. Clean(t, b, known', wronged')
        BY <2>4, <3>3, <4>1, <4>2, <4>3 DEF Clean
      <4> QED
        BY <3>1, <4>1, <4>4 DEF Sound, Kin
    <3> QED
      BY <3>1, <3>2, <3>3 DEF WrittenFrom
  <2> QED
    BY <1>0, <2>1, <2>5 DEF AllSound
<1>25. CASE OnFormatterDone
  <2> DEFINE path == Head(inbox_).path
  <2>1. wronged \subseteq wronged' /\ nextBuf' = nextBuf /\ path \in LocalPaths
    BY <1>25, FormattedTabs DEF OnFormatterDone, Quiet
  <2>2. disk[FileOf(path)] # NoFile => disk[FileOf(path)] \in known'[FileOf(path)]
    BY <1>0, <2>1, FilesOfPaths DEF DiskTyped, KnownKept, Paths
  <2>3. ASSUME NEW t \in TabsOf(tabs') PROVE Sound(t, "Editor", b)
    <3>1. PICK u \in AllTabs : u \in Tab_ /\ FormattedFrom(t, u, path)
      BY <1>25, <2>3, FormattedTabs
    <3> HIDE DEF path
    <3>2. CASE t = u
      BY <1>3, <2>1, <3>1, <3>2
    <3>3. CASE t # u
      BY <2>1, <2>2, <3>1, <3>3 DEF FormattedFrom, Sound, Kin, Clean
    <3> QED
      BY <3>2, <3>3
  <2> QED
    BY <1>0, <2>1, <2>3 DEF AllSound
<1>26. CASE Redraw
  <2>1. wronged' = wronged /\ nextBuf' = nextBuf
    BY <1>26 DEF Redraw
  <2>2. ASSUME NEW t \in TabsOf(tabs') PROVE Sound(t, "Editor", b)
    <3>1. PICK u \in AllTabs : u \in Tab_ /\ RedrawnFrom(t, u)
      BY <1>26, <2>2, RedrawnTabs
    <3>2. CASE t = u
      BY <1>3, <2>1, <3>1, <3>2
    <3>3. CASE t # u
      <4>1. /\ t.kind = u.kind /\ t.buf = u.buf /\ u.buf = HereTab.buf
            /\ t.text = HereTab.text /\ t.path = HereTab.path /\ t.dirty = HereTab.dirty
        BY <3>1, <3>3 DEF RedrawnFrom
      <4>2. Clean(HereTab, b, known', wronged')
        BY <1>0, <1>2, <2>1
      <4>3. t.buf \notin wronged' => t.kind = HereTab.kind
        BY <1>0, <2>1, <3>1, <4>1 DEF Kinds
      <4>4. Clean(t, b, known', wronged')
        BY <4>1, <4>2, <4>3 DEF Clean
      <4> QED
        BY <3>1, <4>1, <4>4 DEF Sound, Kin
    <3> QED
      BY <3>2, <3>3
  <2> QED
    BY <1>0, <2>1, <2>2 DEF AllSound
<1>27. CASE OnGitOpDone
  <2>1. /\ nextBuf' >= nextBuf /\ wronged \subseteq wronged' /\ nextBuf' \in Nat
        /\ \A t \in TabsOf(tabs') : \/ t \in AllTabs
                                    \/ \E n \in nextBuf .. nextBuf' - 1 : t = Untitled(n)
    BY <1>27, GitTabs DEF TabsTyped
  <2>2. ASSUME NEW n \in nextBuf .. nextBuf' - 1 PROVE Sound(Untitled(n), "Editor", b)
    BY <1>0, <2>1 DEF Untitled, Sound, Kin, Clean
  <2> QED
    BY <1>0, <1>3, <2>1, <2>2 DEF AllSound
<1>28. CASE OnFsOpDone
  <2>1. PICK h : h = Head(inbox_)
    OBVIOUS
  <2>2. /\ h \in RenamedEvent \cup CreatedEvent /\ Tail(inbox_) \in Seq(Event_) /\ True_(h, a, b)
        /\ h.type = "RemoteFsOpDone"
    <3>1. inbox_ # <<>> /\ h.type = "RemoteFsOpDone"
      BY <1>28, <2>1 DEF OnFsOpDone, Arrives
    <3>2. h \in Event_ /\ Tail(inbox_) \in Seq(Event_)
      BY <1>0, <2>1, <3>1
    <3> QED
      BY <1>28, <2>1, <3>1, <3>2, EventShapes DEF Handled
  <2>3. \/ h.open = NoPath /\ UpdatePaths(h.old, h.new) /\ SameFront /\ wronged' = wronged
        \/ h.open # NoPath /\ OpenOrReuse(h.open, Tail(inbox_))
    BY <1>28, <2>1 DEF OnFsOpDone, SameFront
  <2>4. CASE h.open = NoPath /\ UpdatePaths(h.old, h.new) /\ SameFront /\ wronged' = wronged
    <3>1. h.old \in Remote /\ h.new \in Remote
      BY <2>2, <2>4, DocumentsAssumption DEF RenamedEvent, CreatedEvent
    <3>2. a[h.old] \subseteq b[h.new]
      BY <2>2, <2>4 DEF True_, IsRename
    <3>3. h.old \in Paths /\ h.new \in Paths
      BY <3>1 DEF Paths
    <3> QED
      BY <1>17, <2>4, <3>1, <3>2, <3>3
  <2>5. CASE h.open # NoPath /\ OpenOrReuse(h.open, Tail(inbox_))
    <3>1. h.open \in Paths
      BY <2>2, <2>5 DEF RenamedEvent, CreatedEvent, Paths
    <3> QED
      BY <1>8, <2>2, <2>5, <3>1
  <2> QED
    BY <2>3, <2>4, <2>5
<1>29. CASE UNCHANGED docVars
  BY <1>7, <1>29 DEF docVars
<1>30. CASE UserNext
  BY <1>9, <1>10, <1>11, <1>12, <1>13, <1>14, <1>15, <1>16, <1>18, <1>19, <1>30, <1>31, <1>32
     DEF UserNext
<1> QED
  BY <1>20, <1>21, <1>22, <1>23, <1>24, <1>25, <1>26, <1>27, <1>28, <1>29, <1>30 DEF DocNext

\* Invariant: what unmarked tabs show was on the disk.
CleanInv ==
    /\ DocTyped /\ Kinds
    /\ \E pasts : Remembers(pasts, inbox_, known) /\ AllClean(pasts[0])

\* The invariant holds when the window begins.
LEMMA CleanBegins == DocInit => CleanInv
<1> SUFFICES ASSUME DocInit PROVE CleanInv
  OBVIOUS
<1>1. DocTyped
  BY BeginsAwaited
<1>2. PICK opening \in Openings, p \in Panes :
        /\ disk = opening.disk
        /\ tabs = [q \in Panes |-> IF q # p THEN <<>> ELSE
               <<IF opening.path = NoPath THEN Untitled(1)
                 ELSE [Untitled(1) EXCEPT !.path = opening.path, !.text = disk[opening.path],
                                          !.gen = 1]>>]
        /\ nextBuf = 2 /\ inbox_ = <<>>
  BY DEF DocInit
<1>3. opening.path = NoPath \/ (opening.path \in Local /\ disk[opening.path] # NoFile)
  BY <1>2, DocumentsAssumption DEF NoFile
<1> DEFINE t == IF opening.path = NoPath THEN Untitled(1)
                ELSE [Untitled(1) EXCEPT !.path = opening.path, !.text = disk[opening.path],
                                         !.gen = 1]
           none == [f \in Remote |-> {}]
           pasts == [k \in 0 .. 0 |-> none]
<1>4. AllTabs \subseteq {t}
  <2> DEFINE s == <<t>>
  <2>1. tabs = [q \in Panes |-> IF q # p THEN <<>> ELSE s]
    BY <1>2
  <2> HIDE DEF t
  <2>2. Range(s) = {t} /\ Range(<<>>) = {}
    BY DEF Range
  <2> HIDE DEF s
  <2>3. \A q \in Panes : Range(tabs[q]) \subseteq {t}
    BY <2>1, <2>2
  <2> QED
    BY <2>3 DEF AllTabs, TabsOf
<1>5. t.buf = 1
  BY DEF Untitled
<1>6. Kinds
  <2> HIDE DEF t
  <2>1. \A u \in AllTabs : u = t
    BY <1>4
  <2> QED
    BY <1>2, <1>5, <2>1 DEF Kinds
<1>7. Clean(t, none, known, wronged)
  <2>1. CASE opening.path = NoPath
    BY <2>1 DEF Clean, Untitled
  <2>2. CASE opening.path \in Local /\ disk[opening.path] # NoFile
    <3>1. opening.path \in Paths /\ opening.path \in LocalPaths /\ FileOf(opening.path) = opening.path
          /\ opening.path # NoPath
      BY <2>2, FilesOfPaths, DocumentsAssumption DEF Paths, LocalPaths
    <3>2. disk[opening.path] \in known[opening.path]
      BY <1>1, <2>2, <3>1 DEF DocTyped, DiskTyped
    <3>3. t.path = opening.path /\ t.text = disk[opening.path]
      BY <3>1 DEF Untitled
    <3> HIDE DEF t
    <3> QED
      BY <3>1, <3>2, <3>3 DEF Clean
  <2> QED
    BY <1>3, <2>1, <2>2
<1> HIDE DEF t
<1>8. none \in Past /\ Grows(none, known)
  BY DEF Past, Grows
<1> HIDE DEF none
<1>9. pasts \in [0 .. 0 -> Past] /\ pasts[0] = none
  BY <1>8
<1> HIDE DEF pasts
<1>10. Remembers(pasts, <<>>, known)
  <2>1. Len(<<>>) = 0 /\ 1 .. 0 = {}
    OBVIOUS
  <2> QED
    BY <1>8, <1>9, <2>1 DEF Remembers
<1>11. AllClean(pasts[0])
  BY <1>4, <1>7, <1>9 DEF AllClean
<1> QED
  BY <1>1, <1>2, <1>6, <1>10, <1>11 DEF CleanInv

\* Every step keeps the invariant.
LEMMA CleanKept == CleanInv /\ [DocNext]_docVars => CleanInv'
<1> SUFFICES ASSUME CleanInv, [DocNext]_docVars PROVE CleanInv'
  OBVIOUS
<1>0. DocTyped /\ Kinds
  BY DEF CleanInv
<1>1. PICK pasts : Remembers(pasts, inbox_, known) /\ AllClean(pasts[0])
  BY DEF CleanInv
<1>2. DocTyped'
  BY <1>0, TypesKept
<1>3. PICK after : Recalls(pasts, after) /\ (Handled => True_(Head(inbox_), pasts[0], after[0]))
  <2>1. CASE Handled
    BY <1>0, <1>1, <2>1, PastsPass
  <2>2. CASE ~Handled
    BY <1>0, <1>1, <2>2, PastsExtend
  <2> QED
    BY <2>1, <2>2
<1>4. Remembers(after, inbox_', known') /\ Grows(pasts[0], after[0])
  BY <1>3 DEF Recalls
<1> DEFINE a == pasts[0]
           b == after[0]
<1>5. AllClean(a) /\ Grows(a, b) /\ (Handled => True_(Head(inbox_), a, b))
  BY <1>1, <1>3, <1>4
<1> HIDE DEF a, b
<1>6. AllSound(b)
  BY <1>0, <1>5, TabsStaySound
<1>7. PICK kind : \A t \in TabsOf(tabs') : Sound(t, kind, b)
  BY <1>6 DEF AllSound
<1>8. AllClean(b)'
  BY <1>7 DEF AllClean, AllTabs, Sound
<1>9. Kinds'
  <2>0. nextBuf <= nextBuf' /\ wronged \subseteq wronged' /\ nextBuf \in Nat /\ nextBuf' \in Nat
    BY <1>0, <1>2, <1>6 DEF AllSound, DocTyped, TabsTyped
  <2>00. \A u \in AllTabs : u.buf \in Nat /\ u.buf < nextBuf
    <3>1. AllTabs \subseteq Tab_
      BY <1>0 DEF AllTabs, DocTyped, TabsTyped, TabsOf, Range
    <3> QED
      BY <1>0, <3>1 DEF Kinds, Tab_
  <2>1. ASSUME NEW t \in TabsOf(tabs') PROVE t.buf < nextBuf'
    <3>1. Kin(t, kind)
      BY <1>7, <2>1 DEF Sound
    <3> QED
      BY <2>0, <2>00, <3>1 DEF Kin
  <2>2. ASSUME NEW t \in TabsOf(tabs'), NEW u \in TabsOf(tabs'), t.buf = u.buf, t.buf \notin wronged'
        PROVE  t.kind = u.kind
    <3>1. Kin(t, kind) /\ Kin(u, kind)
      BY <1>7, <2>2 DEF Sound
    <3>2. CASE t.buf >= nextBuf
      <4>1. ~ \E v \in AllTabs : v.buf = t.buf
        BY <2>0, <2>00, <3>2
      <4> QED
        BY <2>2, <3>1, <4>1 DEF Kin
    <3>3. CASE ~(t.buf >= nextBuf)
      <4>1. PICK v \in AllTabs : v.buf = t.buf /\ v.kind = t.kind
        BY <2>2, <3>1, <3>3 DEF Kin
      <4>2. PICK w \in AllTabs : w.buf = u.buf /\ w.kind = u.kind
        BY <2>2, <3>1, <3>3 DEF Kin
      <4>3. v.buf \notin wronged
        BY <2>0, <2>2, <4>1
      <4> QED
        BY <1>0, <2>2, <4>1, <4>2, <4>3 DEF Kinds
    <3> QED
      BY <3>2, <3>3
  <2> QED
    BY <2>1, <2>2 DEF Kinds, AllTabs
<1> QED
  BY <1>2, <1>4, <1>8, <1>9 DEF CleanInv, b

\* The invariant implies the property: what was known when an event was
\* posted is still known.
LEMMA CleanIsOnDisk == CleanInv => CleanTextsWereOnDisk
<1> SUFFICES ASSUME CleanInv, NEW q \in Places,
                    At(q).kind = "Editor", At(q).path # NoPath, ~At(q).dirty, At(q).buf \notin wronged
             PROVE  At(q).text \in known[FileOf(At(q).path)] \cup {Blank}
  BY DEF CleanTextsWereOnDisk
<1>1. PICK pasts : Remembers(pasts, inbox_, known) /\ AllClean(pasts[0])
  BY DEF CleanInv
<1>2. inbox_ \in Seq(Event_)
  BY DEF CleanInv, DocTyped, JobsTyped
<1> DEFINE n == Len(inbox_)
<1>3. n \in Nat
  BY <1>2
<1>4. Grows(pasts[n], known) /\ \A k \in 1 .. n : Grows(pasts[k - 1], pasts[k])
  BY <1>1 DEF Remembers
<1> HIDE DEF n
<1>5. Grows(pasts[0], known)
  <2> DEFINE late == {k \in 0 .. n : Grows(pasts[k], known)}
  <2>1. late \in SUBSET Nat /\ late # {}
    BY <1>3, <1>4
  <2>2. PICK k \in late : \A j \in late : k <= j
    BY <2>1, LeastExists
  <2>3. ASSUME k # 0 PROVE FALSE
    <3>1. k \in 1 .. n /\ k - 1 \in 0 .. n /\ Grows(pasts[k], known)
      BY <1>3, <2>3
    <3>2. Grows(pasts[k - 1], pasts[k])
      BY <1>4, <3>1
    <3>3. Grows(pasts[k - 1], known)
      BY <3>1, <3>2 DEF Grows
    <3>4. k - 1 \in late
      BY <3>1, <3>3
    <3> QED
      BY <2>2, <3>1, <3>4
  <2> QED
    BY <2>3
<1>6. Clean(At(q), pasts[0], known, wronged)
  BY <1>1, PlacesAreTabs DEF AllClean, AllTabs
<1>7. At(q).path \in Remote => FileOf(At(q).path) = At(q).path
  BY FilesOfPaths
<1> QED
  BY <1>5, <1>6, <1>7 DEF Clean, Grows

\* An unmarked tab shows a text that its file has had on the disk, or an
\* empty one, in whatever order reads, saves, renames, formatters, splits and
\* their late events come, but for the buffers the property names.
THEOREM CleanTextsAlwaysWereOnDisk == DocSpec => []CleanTextsWereOnDisk
<1>1. DocInit => CleanInv
  BY CleanBegins
<1>2. CleanInv /\ [DocNext]_docVars => CleanInv'
  BY CleanKept
<1>3. CleanInv => CleanTextsWereOnDisk
  BY CleanIsOnDisk
<1> QED
  BY <1>1, <1>2, <1>3, PTL DEF DocSpec

-----------------------------------------------------------------------------
(* Two tabs of one buffer.                                                 *)

\* The tabs of a buffer that is not in front have one text; those of the one
\* in front have its text once it is drawn.
OthersAgree(ts, here, wr) ==
    \A t, u \in TabsOf(ts) : t.buf = u.buf /\ t.buf \notin wr /\ t.buf # here.buf => t.text = u.text
FrontAgrees(ts, here, wr) ==
    here.buf \notin wr => \A t \in TabsOf(ts) : t.buf = here.buf => t.text = here.text
Agree == /\ OthersAgree(tabs, HereTab, wronged)
         /\ ~SyncDue => FrontAgrees(tabs, HereTab, wronged)

\* All buffers agree but some.
Settled(ts, wr) == \A t, u \in TabsOf(ts) : t.buf = u.buf /\ t.buf \notin wr => t.text = u.text

\* Where every buffer agrees, those in front and behind do.
LEMMA SettledAgree == Settled(tabs', wronged') /\ DocTyped' => Agree'
<1> SUFFICES ASSUME Settled(tabs', wronged'), DocTyped' PROVE Agree'
  OBVIOUS
<1>1. HereTab' \in TabsOf(tabs')
  <2>1. DocTyped => HereTab \in TabsOf(tabs)
    BY TabInFront DEF DocTyped, TabHereTyped
  <2>2. (DocTyped => HereTab \in TabsOf(tabs))'
    BY <2>1, TabInFront, PTL DEF DocTyped, TabHereTyped
  <2> QED
    BY <2>2
<1>2. OthersAgree(tabs', HereTab', wronged') /\ FrontAgrees(tabs', HereTab', wronged')
  BY <1>1 DEF Settled, OthersAgree, FrontAgrees
<1> QED
  BY <1>2 DEF Agree

\* Leaving the tab in front settles what is not given up.
LEMMA LeavingSettles ==
  ASSUME DocTyped, Agree, NEW wr, wronged \cup Abandoned \subseteq wr
  PROVE  Settled(tabs, wr)
<1> SUFFICES ASSUME NEW t \in TabsOf(tabs), NEW u \in TabsOf(tabs), t.buf = u.buf, t.buf \notin wr
             PROVE  t.text = u.text
  BY DEF Settled
<1>1. ASSUME NEW v \in TabsOf(tabs), v.buf = HereTab.buf, v.buf \notin wr PROVE v.text = HereTab.text
  <2>1. PICK q \in Places : At(q) = v
    BY PlacesAreTabs
  <2>2. v.text # HereTab.text => v.buf \in Abandoned
    BY <1>1, <2>1 DEF Abandoned
  <2> QED
    BY <1>1, <2>2
<1> QED
  BY <1>1 DEF Agree, OthersAgree

\* Every tab has buffer and text of an old one, or they are new and the same.
Descends(t, text) ==
    \/ \E u \in AllTabs : u.buf = t.buf /\ u.text = t.text
    \/ t.buf >= nextBuf /\ t.text = text
\* A step that leaves the tab in front, and gives up what it changed, leaves
\* the buffers in agreement, whichever tab comes to the front.
LEMMA LeftAgree ==
  ASSUME DocTyped, DocTyped', Kinds, Agree, wronged \cup Abandoned \subseteq wronged',
         NEW text, \A t \in TabsOf(tabs') : Descends(t, text)
  PROVE  Agree'
<1>1. Settled(tabs, wronged')
  BY LeavingSettles
<1>2. AllTabs \subseteq Tab_ /\ nextBuf \in Nat
  BY DEF AllTabs, DocTyped, TabsTyped, TabsOf, Range
<1>3. \A u \in AllTabs : u.buf \in Nat /\ ~(u.buf >= nextBuf)
  BY <1>2 DEF Kinds, Tab_
<1>4. Settled(tabs', wronged')
  <2> SUFFICES ASSUME NEW t \in TabsOf(tabs'), NEW u \in TabsOf(tabs'), t.buf = u.buf, t.buf \notin wronged'
               PROVE  t.text = u.text
    BY DEF Settled
  <2>1. Descends(t, text) /\ Descends(u, text)
    OBVIOUS
  <2> QED
    BY <1>1, <1>3, <2>1 DEF Descends, Settled, AllTabs
<1> QED
  BY <1>4, SettledAgree

-----------------------------------------------------------------------------
(* Steps that leave each tab where it is.                                  *)

IsHere(p, i) == p = front /\ i = active[front]
\* What may become of the tab at a place.
Turned(is, was, here) ==
    /\ is.buf = was.buf
    /\ is.text # was.text =>
           was.buf \in wronged' \/ (here /\ synced # <<front, active[front], is.gen>>)
    /\ here /\ is.gen # was.gen =>
           was.buf \in wronged' \/ synced # <<front, active[front], is.gen>>
AllTurn == \A p \in Panes : /\ DOMAIN tabs'[p] = DOMAIN tabs[p]
                            /\ \A i \in DOMAIN tabs[p] : Turned(tabs'[p][i], tabs[p][i], IsHere(p, i))
StaysInFront == active' = active /\ front' = front /\ synced' = synced

\* So does a step that leaves all tabs in place, if what it changes is in
\* front and yet to be drawn, or is given up.
LEMMA TurnedAgree ==
  ASSUME DocTyped, Agree, StaysInFront, wronged \subseteq wronged', AllTurn
  PROVE  Agree'
<1>0. TabHereTyped
  BY TabInFront DEF DocTyped
<1>1. HereTab' = tabs'[front][active[front]] /\ Turned(HereTab', HereTab, TRUE)
  BY <1>0 DEF StaysInFront, HereTab, AllTurn, IsHere, TabHereTyped
<1>2. ASSUME NEW t \in TabsOf(tabs')
      PROVE  \E u \in TabsOf(tabs) : \/ Turned(t, u, FALSE)
                                     \/ u = HereTab /\ t = HereTab'
  <2>1. PICK p \in Panes : t \in Range(tabs'[p])
    BY <1>2 DEF TabsOf
  <2>2. PICK i \in DOMAIN tabs'[p] : t = tabs'[p][i]
    BY <2>1 DEF Range
  <2>3. i \in DOMAIN tabs[p] /\ Turned(t, tabs[p][i], IsHere(p, i))
    BY <2>2 DEF AllTurn
  <2>4. tabs[p][i] \in TabsOf(tabs)
    BY <2>3, PlacesAreTabs
  <2>5. CASE IsHere(p, i)
    BY <1>1, <2>2, <2>4, <2>5 DEF IsHere, HereTab
  <2>6. CASE ~IsHere(p, i)
    BY <2>3, <2>4, <2>6 DEF Turned
  <2> QED
    BY <2>5, <2>6
<1>3. HereTab'.buf = HereTab.buf
  BY <1>1 DEF Turned
<1>4. OthersAgree(tabs', HereTab', wronged')
  <2> SUFFICES ASSUME NEW t \in TabsOf(tabs'), NEW u \in TabsOf(tabs'), t.buf = u.buf,
                      t.buf \notin wronged', t.buf # HereTab'.buf
               PROVE  t.text = u.text
    BY DEF OthersAgree
  <2>1. PICK v \in TabsOf(tabs) : Turned(t, v, FALSE)
    BY <1>2
  <2>2. PICK w \in TabsOf(tabs) : Turned(u, w, FALSE)
    BY <1>2
  <2>3. t.text = v.text /\ t.buf = v.buf /\ u.text = w.text /\ u.buf = w.buf
    BY <2>1, <2>2 DEF Turned
  <2> QED
    BY <1>3, <2>3 DEF Agree, OthersAgree
<1>5. ASSUME ~SyncDue', HereTab'.buf \notin wronged', NEW t \in TabsOf(tabs'), t.buf = HereTab'.buf
      PROVE  t.text = HereTab'.text
  <2>1. synced = <<front, active[front], HereTab'.gen>>
    BY <1>5 DEF SyncDue, StaysInFront
  <2>2. HereTab'.gen = HereTab.gen /\ HereTab'.text = HereTab.text
    BY <1>1, <1>3, <1>5, <2>1 DEF Turned
  <2>3. ~SyncDue
    BY <2>1, <2>2 DEF SyncDue
  <2>4. PICK u \in TabsOf(tabs) : Turned(t, u, FALSE) \/ (u = HereTab /\ t = HereTab')
    BY <1>2
  <2>5. t.buf = u.buf /\ t.text = u.text
    BY <1>3, <1>5, <2>2, <2>4 DEF Turned
  <2> QED
    BY <1>3, <1>5, <2>2, <2>3, <2>5 DEF Agree, FrontAgrees
<1> QED
  BY <1>4, <1>5 DEF Agree, FrontAgrees

\* Steps that change no text and no version.
Alike(t, u) == t.buf = u.buf /\ t.text = u.text /\ t.gen = u.gen
AllAlike(new, old) == \A p \in Panes : /\ DOMAIN new[p] = DOMAIN old[p]
                                       /\ \A i \in DOMAIN old[p] : Alike(new[p][i], old[p][i])
\* So does one that changes neither texts nor versions.
LEMMA AlikeAgree ==
  ASSUME DocTyped, Agree, StaysInFront, wronged \subseteq wronged', AllAlike(tabs', tabs)
  PROVE  Agree'
<1>1. AllTurn
  BY DEF AllAlike, Alike, AllTurn, Turned
<1> QED
  BY <1>1, TurnedAgree

\* Steps that except what changes unseen.
AllAtHome == \A p \in Panes : /\ DOMAIN tabs'[p] = DOMAIN tabs[p]
                              /\ \A i \in DOMAIN tabs[p] : tabs'[p][i].buf = tabs[p][i].buf
\* A place with a version is what the redraw remembers.
LEMMA VersionedPlace == \A n : Here \o <<n>> = <<front, active[front], n>>
<1> SUFFICES ASSUME NEW n PROVE Here \o <<n>> = <<front, active[front], n>>
  OBVIOUS
<1> DEFINE a == front
           b == active[front]
           V == {a, b, n}
           s == <<a, b>> \o <<n>>
<1>1. <<a, b>> \in Seq(V) /\ <<n>> \in Seq(V) /\ Len(<<a, b>>) = 2 /\ Len(<<n>>) = 1
  OBVIOUS
<1> HIDE DEF a, b, V
<1>2. s \in Seq(V) /\ Len(s) = 3 /\ s[1] = a /\ s[2] = b /\ s[3] = n
  BY <1>1, ConcatProperties
<1> HIDE DEF s
<1>3. s = <<s[1], s[2], s[3]>>
  BY <1>2
<1> QED
  BY <1>2, <1>3 DEF Here, s, a, b

\* So does one that gives up just what it changed unseen.
LEMMA SeenAgree ==
  ASSUME DocTyped, Agree, StaysInFront, wronged \cup Behind(tabs') \subseteq wronged', AllAtHome
  PROVE  Agree'
<1>1. ASSUME NEW p \in Panes, NEW i \in DOMAIN tabs[p]
      PROVE  Turned(tabs'[p][i], tabs[p][i], IsHere(p, i))
  <2> DEFINE q == <<p, i>>
             n == tabs'[p][i].gen
  <2>1. q \in Places /\ At(q) = tabs[p][i] /\ q[1] = p /\ q[2] = i
    BY PlacesAreTabs
  <2>2. q = Here <=> IsHere(p, i)
    BY DEF Here, IsHere
  <2>3. Here \o <<n>> = <<front, active[front], n>>
    BY VersionedPlace
  <2>4. tabs'[p][i].buf = tabs[p][i].buf
    BY DEF AllAtHome
  <2> HIDE DEF q, n
  <2>5. (IF q # Here THEN tabs'[q[1]][q[2]].text # At(q).text
         ELSE /\ Changed(At(q), tabs'[q[1]][q[2]])
              /\ synced = Here \o <<tabs'[q[1]][q[2]].gen>>)
        => At(q).buf \in wronged'
    BY <2>1 DEF Behind
  <2>6. CASE IsHere(p, i)
    BY <2>1, <2>2, <2>3, <2>4, <2>5, <2>6 DEF Turned, Changed, Here, n
  <2>7. CASE ~IsHere(p, i)
    BY <2>1, <2>2, <2>4, <2>5, <2>7 DEF Turned
  <2> QED
    BY <2>6, <2>7
<1>2. AllTurn
  BY <1>1 DEF AllTurn, AllAtHome
<1> QED
  BY <1>2, TurnedAgree

-----------------------------------------------------------------------------
(* What opening a path does to buffers.                                    *)

\* A token is neither text nor version.
LEMMA TokensAlike == \A r \in Tab_ : \A n : Alike([r EXCEPT !.token = n], r) /\ Alike(r, r)
  BY DEF Tab_, Alike

\* begin_remote_tab_read changes neither texts nor versions.
LEMMA ReadsAlike ==
  ASSUME NEW after, TabTyped(after), NEW places, BeginReads(after, places)
  PROVE  AllAlike(tabs', after)
<1> DEFINE order == SetToSeq(places)
           number(k) == nextRead + k - 1
           rank(p, i) == CHOOSE k \in DOMAIN order : order[k] = <<p, i>>
<1>1. \A p \in Panes : \A i \in DOMAIN after[p] : after[p][i] \in Tab_
  BY DEF TabTyped
<1>2. CASE places = {}
  <2>1. tabs' = after
    BY <1>2 DEF BeginReads
  <2> QED
    BY <1>1, <2>1, TokensAlike DEF AllAlike
<1>3. CASE places # {}
  <2>1. tabs' = [p \in Panes |-> [i \in DOMAIN after[p] |->
                   IF <<p, i>> \in places THEN [after[p][i] EXCEPT !.token = number(rank(p, i))]
                   ELSE after[p][i]]]
    BY <1>3 DEF BeginReads
  <2> HIDE DEF order, number, rank
  <2>2. ASSUME NEW p \in Panes, NEW i \in DOMAIN after[p] PROVE Alike(tabs'[p][i], after[p][i])
    <3>1. PICK r \in Tab_ : r = after[p][i]
      BY <1>1
    <3>2. tabs'[p][i] = r \/ \E n : tabs'[p][i] = [r EXCEPT !.token = n]
      BY <2>1, <3>1
    <3> QED
      BY <3>1, <3>2, TokensAlike
  <2>3. \A p \in Panes : DOMAIN tabs'[p] = DOMAIN after[p]
    BY <2>1
  <2> QED
    BY <2>2, <2>3 DEF AllAlike
<1> QED
  BY <1>2, <1>3

FreshTab == IF Blankish(HereTab) THEN HereTab ELSE Untitled(nextBuf)
PutOpened(n) == [tabs EXCEPT ![front] = IF Blankish(HereTab) THEN [@ EXCEPT ![active[front]] = n]
                                        ELSE Append(@, n)]
IsThere(path) == \E i \in DOMAIN tabs[front] : tabs[front][i].path = path

\* Where open_or_reuse_tab puts the tab it opens.
LEMMA PutsOpened ==
  ASSUME DocTyped, NEW n \in Tab_
  PROVE  /\ TabTyped(PutOpened(n)) /\ TabsOf(PutOpened(n)) \subseteq AllTabs \cup {n}
         /\ Blankish(HereTab) => PutAt(PutOpened(n), tabs, front, active[front], n)
<1>1. TabHereTyped /\ TabTyped(tabs)
  BY TabInFront DEF DocTyped, TabsTyped, TabTyped
<1>2. CASE Blankish(HereTab)
  <2>1. PutOpened(n) = [tabs EXCEPT ![front][active[front]] = n]
    BY <1>2 DEF PutOpened
  <2>2. PutAt([tabs EXCEPT ![front][active[front]] = n], tabs, front, active[front], n)
    BY <1>1, TabPut DEF TabHereTyped
  <2>3. PICK new : new = PutOpened(n)
    OBVIOUS
  <2>4. PutAt(new, tabs, front, active[front], n)
    BY <2>1, <2>2, <2>3
  <2> QED
    BY <2>3, <2>4 DEF PutAt, SameShape, AllTabs
<1>3. CASE ~Blankish(HereTab)
  <2> DEFINE mine == tabs[front]
             s == Append(mine, n)
  <2>1. mine \in Seq(Tab_) /\ front \in Panes
    BY <1>1 DEF TabTyped, TabHereTyped
  <2> HIDE DEF mine
  <2>2. s \in Seq(Tab_) /\ Range(s) \subseteq Range(mine) \cup {n}
    BY <2>1, TabAppended
  <2>3. PutOpened(n) = [tabs EXCEPT ![front] = s]
    BY <1>3 DEF PutOpened, mine
  <2> HIDE DEF s
  <2>0. TabTyped(tabs) /\ front \in Panes /\ s \in Seq(Tab_)
    BY <1>1, <2>1, <2>2
  <2>4. SetAt(PutOpened(n), tabs, front, s)
    <3>1. SetAt([tabs EXCEPT ![front] = s], tabs, front, s)
      BY ONLY <2>0, PaneSet
    <3> QED
      BY <2>3, <3>1
  <2>5. Range(mine) \subseteq TabsOf(tabs)
    BY <2>1 DEF TabsOf, mine
  <2> QED
    BY <1>3, <2>2, <2>4, <2>5 DEF SetAt, AllTabs
<1> QED
  BY <1>2, <1>3

\* The tab that is opened.
FreshFrom(n) == n \in Tab_ /\ n.buf = FreshTab.buf /\ (n.gen # FreshTab.gen \/ n.text = FreshTab.text)

\* open_or_reuse_tab puts one tab, of the blank tab's buffer or a new one,
\* and leaves the texts of the others.
LEMMA OpenedAlike ==
  ASSUME DocTyped, NEW path \in Paths, NEW rest, OpenOrReuse(path, rest), ~IsThere(path)
  PROVE  \E n : FreshFrom(n) /\ AllAlike(tabs', PutOpened(n))
<1> DEFINE mine == tabs[front]
           there == {i \in DOMAIN mine : mine[i].path = path}
           reuse == Blankish(HereTab)
           index == IF reuse THEN active[front] ELSE Len(mine) + 1
           loaded == [FreshTab EXCEPT !.path = path, !.dirty = FALSE, !.token = NoRead]
           read_ == [loaded EXCEPT !.text = disk[path], !.gen = @ + 1]
<1>1. TabHereTyped /\ nextBuf \in Nat
  BY TabInFront DEF DocTyped, TabsTyped
<1>2. there = {}
  BY DEF IsThere
<1>3. NoPath \in TabPaths /\ Blank \in Prose /\ path \in TabPaths
  BY DEF TabPaths, LocalPaths, Paths, Prose
<1>4. Untitled(nextBuf) \in Tab_
  BY <1>1, <1>3 DEF Untitled, Tab_, NoRead
<1>5. FreshTab \in Tab_
  BY <1>1, <1>4 DEF FreshTab, TabHereTyped
<1>6. FreshFrom(FreshTab)
  BY <1>5 DEF FreshFrom
<1>7. PICK fresh : fresh = FreshTab
  OBVIOUS
<1>8. loaded \in Tab_ /\ loaded.buf = fresh.buf /\ loaded.text = fresh.text /\ loaded.gen = fresh.gen
  <2>1. loaded = [fresh EXCEPT !.path = path, !.dirty = FALSE, !.token = NoRead] /\ fresh \in Tab_
    BY <1>5, <1>7
  <2> HIDE DEF loaded
  <2> QED
    BY <1>3, <2>1 DEF Tab_, NoRead
<1>9. FreshFrom(loaded)
  BY <1>7, <1>8 DEF FreshFrom
<1>10. ASSUME disk[path] # NoFile PROVE FreshFrom(read_)
  <2>1. PICK text : text = disk[path]
    OBVIOUS
  <2>2. PICK l : l = loaded
    OBVIOUS
  <2>3. text \in Prose
    BY <1>10, <2>1 DEF DocTyped, DiskTyped
  <2>4. read_ = [l EXCEPT !.text = text, !.gen = @ + 1] /\ l \in Tab_ /\ l.buf = fresh.buf /\ l.gen = fresh.gen
    BY <1>8, <2>1, <2>2
  <2>5. l.gen \in Nat /\ l.gen + 1 \in Nat /\ l.gen + 1 # l.gen
    BY <2>4 DEF Tab_
  <2> HIDE DEF read_, loaded
  <2>6. read_ \in Tab_ /\ read_.buf = l.buf /\ read_.gen = l.gen + 1
    BY <2>3, <2>4, <2>5 DEF Tab_
  <2> QED
    BY <1>7, <2>4, <2>5, <2>6 DEF FreshFrom
<1>11. \/ disk[path] # NoFile /\ tabs' = PutOpened(read_)
       \/ tabs' = PutOpened(FreshTab)
       \/ tabs' = PutOpened(loaded)
       \/ BeginReads(PutOpened(loaded), {<<front, index>>})
  <2>1. \A n : PutOpened(n) = [tabs EXCEPT ![front] = IF reuse THEN [@ EXCEPT ![index] = n]
                                                     ELSE Append(@, n)]
    BY DEF PutOpened
  <2>2. \/ disk[path] # NoFile /\ tabs' = [tabs EXCEPT ![front] = IF reuse THEN [@ EXCEPT ![index] = read_]
                                                                   ELSE Append(@, read_)]
        \/ tabs' = [tabs EXCEPT ![front] = IF reuse THEN [@ EXCEPT ![index] = FreshTab]
                                           ELSE Append(@, FreshTab)]
        \/ tabs' = [tabs EXCEPT ![front] = IF reuse THEN [@ EXCEPT ![index] = loaded]
                                           ELSE Append(@, loaded)]
        \/ BeginReads([tabs EXCEPT ![front] = IF reuse THEN [@ EXCEPT ![index] = loaded]
                                              ELSE Append(@, loaded)], {<<front, index>>})
    BY <1>2 DEF OpenOrReuse, FreshTab
  <2> HIDE DEF reuse, index, loaded, read_
  <2> QED
    BY <2>1, <2>2
<1> HIDE DEF loaded, read_, index
<1>12. ASSUME NEW n, FreshFrom(n), tabs' = PutOpened(n) \/ BeginReads(PutOpened(n), {<<front, index>>})
       PROVE  AllAlike(tabs', PutOpened(n))
  <2>1. TabTyped(PutOpened(n))
    BY <1>12, PutsOpened DEF FreshFrom
  <2>2. CASE tabs' = PutOpened(n)
    <3>1. \A p \in Panes : \A i \in DOMAIN tabs'[p] : tabs'[p][i] \in Tab_
      BY <2>1, <2>2 DEF TabTyped
    <3> QED
      BY <2>2, <3>1, TokensAlike DEF AllAlike
  <2>3. CASE BeginReads(PutOpened(n), {<<front, index>>})
    BY <2>1, <2>3, ReadsAlike
  <2> QED
    BY <1>12, <2>2, <2>3
<1> QED
  BY <1>6, <1>9, <1>10, <1>11, <1>12

\* Opening a path keeps the buffers in agreement.
LEMMA OpenAgrees ==
  ASSUME DocTyped, DocTyped', Kinds, Agree, NEW path \in Paths, NEW rest, OpenOrReuse(path, rest),
         front' = front, synced' = synced
  PROVE  Agree'
<1>0. TabHereTyped /\ TabTyped(tabs) /\ active \in [Panes -> Nat \ {0}]
  BY TabInFront DEF DocTyped, TabsTyped, TabTyped, InFront
<1>1. CASE IsThere(path)
  <2>1. tabs' = tabs /\ wronged' = wronged \cup Abandoned
    BY <1>1 DEF OpenOrReuse, IsThere
  <2>2. \A t \in TabsOf(tabs') : Descends(t, Blank)
    BY <2>1 DEF Descends, AllTabs
  <2> QED
    BY <2>1, <2>2, LeftAgree
<1>2. CASE ~IsThere(path)
  <2>1. PICK n : FreshFrom(n) /\ AllAlike(tabs', PutOpened(n))
    BY <1>2, OpenedAlike
  <2>2. n \in Tab_
    BY <2>1 DEF FreshFrom
  <2>3. CASE ~Blankish(HereTab)
    <3>1. wronged' = wronged \cup Abandoned
      BY <2>3 DEF OpenOrReuse
    <3>2. n.buf = nextBuf /\ nextBuf \in Nat
      BY <2>1, <2>3 DEF FreshFrom, FreshTab, Untitled, DocTyped, TabsTyped
    <3>3. TabsOf(PutOpened(n)) \subseteq AllTabs \cup {n}
      BY <2>2, PutsOpened
    <3>4. ASSUME NEW t \in TabsOf(tabs') PROVE Descends(t, n.text)
      <4>1. PICK p \in Panes : t \in Range(tabs'[p])
        BY <3>4 DEF TabsOf
      <4>2. PICK i \in DOMAIN tabs'[p] : t = tabs'[p][i]
        BY <4>1 DEF Range
      <4>3. i \in DOMAIN PutOpened(n)[p] /\ Alike(t, PutOpened(n)[p][i])
        BY <2>1, <4>2 DEF AllAlike
      <4>4. PICK u : u = PutOpened(n)[p][i]
        OBVIOUS
      <4>5. u \in TabsOf(PutOpened(n))
        BY <4>3, <4>4 DEF TabsOf, Range
      <4> QED
        BY <3>2, <3>3, <4>3, <4>4, <4>5 DEF Descends, Alike
    <3> QED
      BY <3>1, <3>4, LeftAgree
  <2>4. CASE Blankish(HereTab)
    <3>1. wronged' = wronged \cup Behind(tabs') /\ active' = [active EXCEPT ![front] = active[front]]
      BY <1>2, <2>4 DEF OpenOrReuse, IsThere
    <3>2. StaysInFront
      BY <1>0, <3>1 DEF StaysInFront
    <3>3. PutAt(PutOpened(n), tabs, front, active[front], n)
      BY <2>2, <2>4, PutsOpened
    <3>4. ASSUME NEW p \in Panes, NEW i \in DOMAIN tabs[p]
          PROVE  tabs'[p][i].buf = tabs[p][i].buf
      <4>1. DOMAIN PutOpened(n)[p] = DOMAIN tabs[p]
            /\ PutOpened(n)[p][i] = IF p = front /\ i = active[front] THEN n ELSE tabs[p][i]
        BY <3>3 DEF PutAt, SameShape
      <4>2. Alike(tabs'[p][i], PutOpened(n)[p][i])
        BY <2>1, <4>1 DEF AllAlike
      <4>3. CASE IsHere(p, i)
        <5>1. tabs[p][i] = HereTab /\ PutOpened(n)[p][i] = n
          BY <4>1, <4>3 DEF IsHere, HereTab
        <5> QED
          BY <2>1, <2>4, <4>2, <5>1 DEF Alike, FreshFrom, FreshTab
      <4>4. CASE ~IsHere(p, i)
        <5>1. PutOpened(n)[p][i] = tabs[p][i]
          BY <4>1, <4>4 DEF IsHere
        <5> QED
          BY <4>2, <4>4, <5>1 DEF Alike
      <4> QED
        BY <4>3, <4>4
    <3>5. \A p \in Panes : DOMAIN tabs'[p] = DOMAIN tabs[p]
      BY <2>1, <3>3 DEF AllAlike, PutAt, SameShape
    <3>6. AllAtHome
      BY <3>4, <3>5 DEF AllAtHome
    <3> QED
      BY <3>1, <3>2, <3>6, SeenAgree
  <2> QED
    BY <2>3, <2>4
<1> QED
  BY <1>1, <1>2

-----------------------------------------------------------------------------
(* Every step keeps the tabs of a buffer in agreement.                     *)

\* Drawing brings the tabs of the buffer in front into agreement.
LEMMA RedrawAgrees ==
  ASSUME DocTyped, Agree, Redraw
  PROVE  Agree'
<1> DEFINE Drawn(tab) == IF tab.buf # HereTab.buf THEN tab
                         ELSE [tab EXCEPT !.text = HereTab.text, !.path = HereTab.path,
                                          !.dirty = HereTab.dirty]
<1>1. /\ tabs' = [p \in Panes |-> [i \in DOMAIN tabs[p] |-> Drawn(tabs[p][i])]]
      /\ active' = active /\ front' = front /\ wronged' = wronged
  BY DEF Redraw, EachTab
<1>2. TabHereTyped /\ TabTyped(tabs)
  BY TabInFront DEF DocTyped, TabsTyped, TabTyped
<1>3. ASSUME NEW t \in TabsOf(tabs')
      PROVE  \E u \in TabsOf(tabs) : /\ t.buf = u.buf
                                     /\ t.text = IF u.buf = HereTab.buf THEN HereTab.text ELSE u.text
  <2>1. PICK p \in Panes : t \in Range(tabs'[p])
    BY <1>3 DEF TabsOf
  <2>2. PICK i \in DOMAIN tabs'[p] : t = tabs'[p][i]
    BY <2>1 DEF Range
  <2>3. PICK u : u = tabs[p][i]
    OBVIOUS
  <2>4. t = Drawn(u) /\ i \in DOMAIN tabs[p]
    BY <1>1, <2>2, <2>3
  <2>5. u \in Tab_ /\ u \in TabsOf(tabs)
    <3>1. u \in TabsOf(tabs)
      BY <2>3, <2>4, PlacesAreTabs
    <3>2. u \in Tab_
      BY <1>2, <2>3, <2>4 DEF TabTyped
    <3> QED
      BY <3>1, <3>2
  <2>6. t.buf = u.buf /\ t.text = IF u.buf = HereTab.buf THEN HereTab.text ELSE u.text
    BY <2>4, <2>5 DEF Tab_
  <2> QED
    BY <2>5, <2>6
<1>4. HereTab'.buf = HereTab.buf /\ HereTab'.text = HereTab.text
  <2>1. HereTab' = Drawn(HereTab)
    BY <1>1, <1>2 DEF HereTab, TabHereTyped
  <2>2. HereTab \in Tab_
    BY <1>2 DEF TabHereTyped
  <2> QED
    BY <2>1, <2>2 DEF Tab_
<1> HIDE DEF Drawn
<1>5. OthersAgree(tabs', HereTab', wronged')
  <2> SUFFICES ASSUME NEW t \in TabsOf(tabs'), NEW u \in TabsOf(tabs'), t.buf = u.buf,
                      t.buf \notin wronged', t.buf # HereTab'.buf
               PROVE  t.text = u.text
    BY DEF OthersAgree
  <2>1. PICK v \in TabsOf(tabs) : /\ t.buf = v.buf
                                  /\ t.text = IF v.buf = HereTab.buf THEN HereTab.text ELSE v.text
    BY <1>3
  <2>2. PICK w \in TabsOf(tabs) : /\ u.buf = w.buf
                                  /\ u.text = IF w.buf = HereTab.buf THEN HereTab.text ELSE w.text
    BY <1>3
  <2> QED
    BY <1>1, <1>4, <2>1, <2>2 DEF Agree, OthersAgree
<1>6. FrontAgrees(tabs', HereTab', wronged')
  BY <1>3, <1>4 DEF FrontAgrees
<1> QED
  BY <1>5, <1>6 DEF Agree

\* Every step keeps the invariant, one case for each action.
LEMMA AgreeKept ==
  ASSUME DocTyped, Kinds, Agree, [DocNext]_docVars
  PROVE  Agree'
<1>0. /\ TabHereTyped /\ inbox_ \in Seq(Event_) /\ nextBuf \in Nat /\ DocTyped'
      /\ HereTab \in AllTabs /\ HereTab \in Tab_ /\ TabTyped(tabs)
  BY TypesKept, TabInFront DEF DocTyped, JobsTyped, TabsTyped, TabHereTyped, AllTabs, TabTyped
<1>1. ASSUME UNCHANGED <<tabs, active, front, synced, wronged>> PROVE Agree'
  BY <1>1 DEF Agree, SyncDue, HereTab
<1>2. \A p \in Panes : \A i \in DOMAIN tabs[p] : tabs[p][i] \in Tab_
  BY <1>0 DEF TabTyped
<1>3. ASSUME StaysInFront, wronged \subseteq wronged',
             tabs' = [p \in Panes |-> [i \in DOMAIN tabs[p] |-> tabs'[p][i]]],
             \A p \in Panes : \A i \in DOMAIN tabs[p] : Alike(tabs'[p][i], tabs[p][i])
      PROVE  Agree'
  <2>1. \A p \in Panes : DOMAIN tabs'[p] = DOMAIN tabs[p]
    BY <1>3
  <2>2. AllAlike(tabs', tabs)
    BY <1>3, <2>1 DEF AllAlike
  <2> QED
    BY <1>3, <2>2, AlikeAgree
<1>4. ASSUME StaysInFront, wronged \cup Behind(tabs') \subseteq wronged',
             tabs' = [p \in Panes |-> [i \in DOMAIN tabs[p] |-> tabs'[p][i]]],
             \A p \in Panes : \A i \in DOMAIN tabs[p] : tabs'[p][i].buf = tabs[p][i].buf
      PROVE  Agree'
  <2>1. \A p \in Panes : DOMAIN tabs'[p] = DOMAIN tabs[p]
    BY <1>4
  <2>2. AllAtHome
    BY <1>4, <2>1 DEF AllAtHome
  <2> QED
    BY <1>4, <2>2, SeenAgree
<1>5. ASSUME NEW t \in Tab_, t.buf = HereTab.buf, StaysInFront,
             tabs' = PutFront(t),
             \/ t.text = HereTab.text /\ t.gen = HereTab.gen /\ wronged' = wronged
             \/ wronged' = wronged \cup Behind(tabs')
      PROVE  Agree'
  <2>1. PutAt(tabs', tabs, front, active[front], t)
    BY <1>0, <1>5, TabPut DEF PutFront, TabHereTyped
  <2>2. \A p \in Panes : DOMAIN tabs'[p] = DOMAIN tabs[p]
    BY <2>1 DEF PutAt, SameShape
  <2>3. \A p \in Panes : \A i \in DOMAIN tabs[p] :
           tabs'[p][i] = IF p = front /\ i = active[front] THEN t ELSE tabs[p][i]
    BY <2>1 DEF PutAt
  <2>4. HereTab = tabs[front][active[front]]
    BY DEF HereTab
  <2>5. CASE t.text = HereTab.text /\ t.gen = HereTab.gen /\ wronged' = wronged
    <3>1. AllAlike(tabs', tabs)
      BY <1>5, <2>2, <2>3, <2>4, <2>5 DEF AllAlike, Alike
    <3> QED
      BY <1>5, <2>5, <3>1, AlikeAgree
  <2>6. CASE wronged' = wronged \cup Behind(tabs')
    <3>1. AllAtHome
      BY <1>5, <2>2, <2>3, <2>4 DEF AllAtHome
    <3> QED
      BY <1>5, <2>6, <3>1, SeenAgree
  <2> QED
    BY <1>5, <2>5, <2>6
<1>6. ASSUME wronged \cup Abandoned \subseteq wronged', NEW text, NEW t, Descends(t, text),
             TabsOf(tabs') \subseteq AllTabs \cup {t}
      PROVE  Agree'
  <2>1. \A u \in TabsOf(tabs') : Descends(u, text)
    BY <1>6 DEF Descends
  <2> QED
    BY <1>0, <1>6, <2>1, LeftAgree
<1>7. ASSUME NEW path \in Paths, OpenPath(path) PROVE Agree'
  BY <1>0, <1>7, OpenAgrees DEF OpenPath
<1>8. ASSUME NEW path, CreateRemote(path) PROVE Agree'
  BY <1>1, <1>8 DEF CreateRemote, FsOp
<1>9. ASSUME NEW path \in Local, OpenDiff(path) PROVE Agree'
  <2>1. wronged' = wronged \cup Abandoned
    BY <1>9 DEF OpenDiff
  <2>2. Descends(DiffTab(path), Blank)
    BY <1>0 DEF Descends, DiffTab, Untitled
  <2>3. TabsOf(tabs') \subseteq AllTabs \cup {DiffTab(path)}
    BY <1>9, DiffTabs
  <2> QED
    BY <1>6, <2>1, <2>2, <2>3
<1>10. ASSUME NEW text \in Texts \cup {Blank}, EditText(text) PROVE Agree'
  <2> DEFINE t == [HereTab EXCEPT !.text = text, !.dirty = TRUE, !.gen = @ + 1]
  <2>1. HereTab.gen + 1 \in Nat /\ HereTab \in Tab_
    BY <1>0 DEF Tab_
  <2>2. t \in Tab_ /\ t.buf = HereTab.buf
    BY ONLY <2>1, text \in Texts \cup {Blank} DEF Tab_, Prose
  <2>3. tabs' = PutFront(t) /\ StaysInFront /\ wronged' = wronged \cup Behind(tabs')
    BY <1>10 DEF EditText, StaysInFront
  <2> HIDE DEF t
  <2> QED
    BY <1>5, <2>2, <2>3
<1>11. CASE SaveText
  <2> DEFINE t == [HereTab EXCEPT !.dirty = FALSE]
  <2>1. t \in Tab_ /\ t.buf = HereTab.buf /\ t.gen = HereTab.gen /\ t.text = HereTab.text
    BY <1>0 DEF Tab_
  <2>2. StaysInFront /\ wronged' = wronged /\ (tabs' = tabs \/ tabs' = PutFront(t))
    BY <1>11 DEF SaveText, StaysInFront
  <2> HIDE DEF t
  <2> QED
    BY <1>1, <1>5, <2>1, <2>2 DEF StaysInFront
<1>12. ASSUME NEW p, NEW i, CloseDoc(p, i) PROVE Agree'
  <2>1. wronged' = wronged \cup Abandoned /\ TabsOf(tabs') \subseteq AllTabs
    BY <1>12, ClosedTabs DEF CloseDoc
  <2>2. Descends(HereTab, Blank)
    BY <1>0 DEF Descends
  <2> QED
    BY <1>6, <2>1, <2>2
<1>13. ASSUME NEW p, NEW i, Switch(p, i) PROVE Agree'
  <2>1. wronged' = wronged \cup Abandoned /\ TabsOf(tabs') \subseteq AllTabs
    BY <1>13 DEF Switch, AllTabs
  <2>2. Descends(HereTab, Blank)
    BY <1>0 DEF Descends
  <2> QED
    BY <1>6, <2>1, <2>2
<1>14. ASSUME NEW whole \in BOOLEAN, SplitPane(whole) PROVE Agree'
  <2> DEFINE c == Copied(whole)
  <2>1. TabsOf(tabs') \subseteq AllTabs \cup {c}
    BY <1>14, SplitTabs
  <2>2. wronged \cup Abandoned \subseteq wronged'
    BY <1>14 DEF SplitPane
  <2>3. c.buf = HereTab.buf /\ c.text = HereTab.text
    BY DEF Copied, Untitled
  <2> HIDE DEF c
  <2>4. Descends(c, Blank)
    BY <1>0, <2>3 DEF Descends
  <2> QED
    BY <1>6, <2>1, <2>2, <2>4
<1>15. ASSUME NEW old, NEW new, UpdatePaths(old, new), StaysInFront, wronged' = wronged PROVE Agree'
  <2> DEFINE rule(u) == Renamed(u, old, new)
  <2>1. tabs' = [p \in Panes |-> [i \in DOMAIN tabs[p] |-> rule(tabs[p][i])]]
    BY <1>15 DEF UpdatePaths, EachTab
  <2>2. \A u \in Tab_ : Alike(rule(u), u)
    BY DEF Renamed, Alike, Tab_
  <2> HIDE DEF rule
  <2>3. tabs' = [p \in Panes |-> [i \in DOMAIN tabs[p] |-> tabs'[p][i]]]
    BY <2>1
  <2>4. \A p \in Panes : \A i \in DOMAIN tabs[p] : Alike(tabs'[p][i], tabs[p][i])
    BY <1>2, <2>1, <2>2
  <2> QED
    BY <1>3, <1>15, <2>3, <2>4
<1>16. ASSUME NEW old, NEW new, RenameLocal(old, new) PROVE Agree'
  BY <1>15, <1>16 DEF RenameLocal, StaysInFront
<1>17. ASSUME NEW old, NEW new, RenameRemote(old, new) PROVE Agree'
  BY <1>1, <1>17 DEF RenameRemote, FsOp
<1>18. CASE MasterEnds \/ StartConnecting \/ OnConnecting \/ OnSshError \/ OnFsOpError
  BY <1>1, <1>18 DEF MasterEnds, StartConnecting, OnConnecting, OnSshError, OnFsOpError, ConnEvent, Quiet
<1>19. CASE EndConnecting \/ EndRead \/ EndWrite \/ EndRename \/ EndCreate \/ EndFormat
  <2>1. \E job, event : Finish(job, event)
    BY <1>19 DEF EndConnecting, EndRead, EndWrite, EndRename, EndCreate, EndFormat
  <2> QED
    BY <1>1, <2>1 DEF Finish
<1>20. CASE OnConnected
  <2>1. \E places : BeginReads(tabs, places)
    BY <1>20 DEF OnConnected
  <2>2. StaysInFront /\ wronged' = wronged
    BY <1>20 DEF OnConnected, Quiet, StaysInFront
  <2>3. AllAlike(tabs', tabs)
    BY <1>0, <2>1, ReadsAlike
  <2> QED
    BY <2>2, <2>3, AlikeAgree
<1>21. CASE OnContent
  <2> DEFINE rule(u) == Answer(u, Head(inbox_))
  <2>1. /\ tabs' = [p \in Panes |-> [i \in DOMAIN tabs[p] |-> rule(tabs[p][i])]]
        /\ StaysInFront /\ wronged' = wronged \cup Behind(tabs')
    BY <1>21 DEF OnContent, EachTab, Quiet, StaysInFront
  <2>2. ASSUME NEW u \in Tab_
        PROVE  rule(u).buf = u.buf
    <3>1. PICK text : text = Head(inbox_).text
      OBVIOUS
    <3>2. rule(u) \in {u, [u EXCEPT !.token = NoRead],
                       [u EXCEPT !.token = NoRead, !.text = text, !.gen = @ + 1]}
      BY <3>1 DEF Answer
    <3> HIDE DEF rule
    <3> QED
      BY <3>2 DEF Tab_
  <2> HIDE DEF rule
  <2>3. tabs' = [p \in Panes |-> [i \in DOMAIN tabs[p] |-> tabs'[p][i]]]
    BY <2>1
  <2>4. \A p \in Panes : \A i \in DOMAIN tabs[p] : tabs'[p][i].buf = tabs[p][i].buf
    BY <1>2, <2>1, <2>2
  <2> QED
    BY <1>4, <2>1, <2>3, <2>4
<1>22. CASE OnFileError
  <2> DEFINE rule(u) == IF Awaited(u, Head(inbox_)) THEN [u EXCEPT !.token = NoRead] ELSE u
  <2>1. /\ tabs' = [p \in Panes |-> [i \in DOMAIN tabs[p] |-> rule(tabs[p][i])]]
        /\ StaysInFront /\ wronged' = wronged
    BY <1>22 DEF OnFileError, EachTab, Quiet, StaysInFront
  <2>2. \A u \in Tab_ : Alike(rule(u), u)
    BY TokensAlike
  <2> HIDE DEF rule
  <2>3. tabs' = [p \in Panes |-> [i \in DOMAIN tabs[p] |-> tabs'[p][i]]]
    BY <2>1
  <2>4. \A p \in Panes : \A i \in DOMAIN tabs[p] : Alike(tabs'[p][i], tabs[p][i])
    BY <1>2, <2>1, <2>2
  <2> QED
    BY <1>3, <2>1, <2>3, <2>4
<1>23. CASE OnWriteDone
  <2> DEFINE rule(u) == IF u.path = Head(inbox_).path THEN [u EXCEPT !.dirty = FALSE] ELSE u
  <2>1. /\ tabs' = [p \in Panes |-> [i \in DOMAIN tabs[p] |-> rule(tabs[p][i])]]
        /\ StaysInFront /\ wronged \subseteq wronged'
    BY <1>23 DEF OnWriteDone, EachTab, Quiet, StaysInFront
  <2>2. \A u \in Tab_ : Alike(rule(u), u)
    BY DEF Alike, Tab_
  <2> HIDE DEF rule
  <2>3. tabs' = [p \in Panes |-> [i \in DOMAIN tabs[p] |-> tabs'[p][i]]]
    BY <2>1
  <2>4. \A p \in Panes : \A i \in DOMAIN tabs[p] : Alike(tabs'[p][i], tabs[p][i])
    BY <1>2, <2>1, <2>2
  <2> QED
    BY <1>3, <2>1, <2>3, <2>4
<1>24. CASE OnFormatterDone
  <2> DEFINE text == disk[FileOf(Head(inbox_).path)]
             rule(u) == IF text # NoFile /\ u.path = Head(inbox_).path
                        THEN [u EXCEPT !.text = text, !.dirty = FALSE, !.gen = @ + 1] ELSE u
  <2>1. /\ StaysInFront /\ wronged' = wronged \cup Behind(tabs')
        /\ \/ tabs' = tabs
           \/ tabs' = [p \in Panes |-> [i \in DOMAIN tabs[p] |-> rule(tabs[p][i])]]
    <3>1. /\ StaysInFront /\ wronged' = wronged \cup Behind(tabs')
          /\ \/ tabs' = tabs
             \/ /\ text # NoFile
                /\ tabs' = [p \in Panes |-> [i \in DOMAIN tabs[p] |->
                     IF tabs[p][i].path = Head(inbox_).path
                     THEN [tabs[p][i] EXCEPT !.text = text, !.dirty = FALSE, !.gen = @ + 1]
                     ELSE tabs[p][i]]]
      BY <1>24 DEF OnFormatterDone, EachTab, Quiet, StaysInFront
    <3> HIDE DEF text
    <3> QED
      BY <3>1
  <2>2. ASSUME NEW u \in Tab_
        PROVE  rule(u).buf = u.buf
    <3> HIDE DEF text
    <3> QED
      BY DEF Tab_
  <2> HIDE DEF rule
  <2>3. CASE tabs' = tabs
    <3>1. AllAlike(tabs', tabs)
      BY <2>3 DEF AllAlike, Alike
    <3> QED
      BY <2>1, <3>1, AlikeAgree
  <2>4. CASE tabs' = [p \in Panes |-> [i \in DOMAIN tabs[p] |-> rule(tabs[p][i])]]
    <3>1. tabs' = [p \in Panes |-> [i \in DOMAIN tabs[p] |-> tabs'[p][i]]]
      BY <2>4
    <3>2. \A p \in Panes : \A i \in DOMAIN tabs[p] : tabs'[p][i].buf = tabs[p][i].buf
      BY <1>2, <2>2, <2>4
    <3> QED
      BY <1>4, <2>1, <3>1, <3>2
  <2> QED
    BY <2>1, <2>3, <2>4
<1>25. CASE Redraw
  BY <1>25, RedrawAgrees
<1>26. CASE OnGitOpDone
  <2>1. /\ wronged' = wronged \cup Abandoned /\ nextBuf' \in Nat
        /\ \A t \in TabsOf(tabs') : \/ t \in AllTabs
                                    \/ \E n \in nextBuf .. nextBuf' - 1 : t = Untitled(n)
    BY <1>26, GitTabs DEF TabsTyped, OnGitOpDone
  <2>2. \A n \in nextBuf .. nextBuf' - 1 : Descends(Untitled(n), Blank)
    BY <1>0, <2>1 DEF Descends, Untitled
  <2>3. \A u \in AllTabs : Descends(u, Blank)
    BY DEF Descends
  <2> QED
    BY <1>0, <2>1, <2>2, <2>3, LeftAgree
<1>27. CASE OnFsOpDone
  <2>1. PICK h : h = Head(inbox_)
    OBVIOUS
  <2>2. h \in RenamedEvent \cup CreatedEvent
    <3>1. inbox_ # <<>> /\ h.type = "RemoteFsOpDone"
      BY <1>27, <2>1 DEF OnFsOpDone, Arrives
    <3>2. h \in Event_
      BY <1>0, <2>1, <3>1
    <3> QED
      BY <3>1, <3>2, EventShapes
  <2>3. \/ UpdatePaths(h.old, h.new) /\ StaysInFront /\ wronged' = wronged
        \/ h.open # NoPath /\ OpenOrReuse(h.open, Tail(inbox_)) /\ front' = front /\ synced' = synced
    BY <1>27, <2>1 DEF OnFsOpDone, StaysInFront
  <2>4. CASE h.open # NoPath /\ OpenOrReuse(h.open, Tail(inbox_)) /\ front' = front /\ synced' = synced
    <3>1. h.open \in Paths
      BY <2>2, <2>4 DEF RenamedEvent, CreatedEvent, Paths
    <3> QED
      BY <1>0, <2>4, <3>1, OpenAgrees
  <2> QED
    BY <1>15, <2>3, <2>4
<1>28. CASE UNCHANGED docVars
  BY <1>1, <1>28 DEF docVars
<1>29. ASSUME NEW text \in Texts \cup {Blank}, ReplaceMatches(text) PROVE Agree'
  <2> DEFINE t == [HereTab EXCEPT !.text = text, !.dirty = TRUE]
  <2>1. t \in Tab_ /\ t.buf = HereTab.buf
    BY ONLY <1>0, text \in Texts \cup {Blank} DEF Tab_, Prose
  <2>2. tabs' = PutFront(t) /\ StaysInFront /\ wronged' = wronged \cup Behind(tabs')
    BY <1>29 DEF ReplaceMatches, StaysInFront
  <2> HIDE DEF t
  <2> QED
    BY <1>5, <2>1, <2>2
<1>30. ASSUME NEW files \in SUBSET Local, ReplaceInFiles(files) PROVE Agree'
  <2>1. StaysInFront
    BY <1>30 DEF ReplaceInFiles, StaysInFront
  <2> QED
    BY <1>4, <1>30, <2>1, ReplacedTabs
<1>31. CASE UserNext
  BY <1>7, <1>8, <1>9, <1>10, <1>11, <1>12, <1>13, <1>14, <1>16, <1>17, <1>29, <1>30, <1>31 DEF UserNext
<1> QED
  BY <1>18, <1>19, <1>20, <1>21, <1>22, <1>23, <1>24, <1>25, <1>26, <1>27, <1>28, <1>31 DEF DocNext

\* A window begins with one tab.
LEMMA AgreeBegins == DocInit => Agree
<1> SUFFICES ASSUME DocInit PROVE Agree
  OBVIOUS
<1>1. PICK opening \in Openings, p \in Panes :
        tabs = [q \in Panes |-> IF q # p THEN <<>> ELSE
               <<IF opening.path = NoPath THEN Untitled(1)
                 ELSE [Untitled(1) EXCEPT !.path = opening.path, !.text = disk[opening.path],
                                          !.gen = 1]>>]
  BY DEF DocInit
<1> DEFINE t == IF opening.path = NoPath THEN Untitled(1)
                ELSE [Untitled(1) EXCEPT !.path = opening.path, !.text = disk[opening.path],
                                         !.gen = 1]
           s == <<t>>
<1>2. tabs = [q \in Panes |-> IF q # p THEN <<>> ELSE s]
  BY <1>1
<1> HIDE DEF t
<1>3. Range(s) = {t} /\ Range(<<>>) = {}
  BY DEF Range
<1> HIDE DEF s
<1>4. TabsOf(tabs) \subseteq {t}
  BY <1>2, <1>3 DEF TabsOf
<1>5. HereTab \in TabsOf(tabs)
  BY BeginsAwaited, TabInFront DEF DocTyped, TabHereTyped
<1> QED
  BY <1>4, <1>5 DEF Agree, OthersAgree, FrontAgrees

\* In whatever order tabs are split, closed, clicked, edited, read, written,
\* renamed and drawn: after a redraw the tabs of the buffer in front show one
\* text, but for the buffers the property names.
THEOREM SiblingsAlwaysAgree == DocSpec => []SiblingsAgree
<1>1. DocInit => CleanInv /\ Agree
  BY CleanBegins, AgreeBegins
<1>2. CleanInv /\ Agree /\ [DocNext]_docVars => CleanInv' /\ Agree'
  BY CleanKept, AgreeKept DEF CleanInv
<1>3. Agree => SiblingsAgree
  BY PlacesAreTabs DEF Agree, FrontAgrees, SiblingsAgree
<1> QED
  BY <1>1, <1>2, <1>3, PTL DEF DocSpec

-----------------------------------------------------------------------------
(* Replace All, of a list whose columns are right.                         *)

\* It counts every entry at the place that the entry is about.
LEMMA AptTimes ==
  ASSUME results \in Seq(Place_), NEW path, NEW row \in DOMAIN content[path].lines,
         NEW line \in Line, line = content[path].lines[row],
         \A k \in DOMAIN results : Apt(results[k])
  PROVE  /\ TimesAt(path, row, line) = NamedAt(path, row, line)
         /\ \A k \in EntriesOf(path, row) :
               \E at \in 0 .. Len(line) : results[k].col = Column(line, at, Bytes)
<1>1. ASSUME NEW k \in EntriesOf(path, row)
      PROVE  /\ results[k].at \in 0 .. Len(line)
             /\ results[k].col = Column(line, results[k].at, Bytes)
  <2>1. /\ k \in DOMAIN results /\ Apt(results[k])
        /\ results[k].path = path /\ results[k].row = row
    BY DEF EntriesOf
  <2>2. results[k].at \in Nat
    <3>1. results[k] \in Place_
      BY <2>1
    <3> QED
      BY <3>1 DEF Place_
  <2>3. results[k].at <= Len(line) /\ results[k].col = Column(line, results[k].at, Bytes)
    BY <2>1 DEF Apt
  <2> QED
    BY <2>2, <2>3 DEF Line
<1>2. ASSUME NEW at \in 0 .. Len(line)
      PROVE  {k \in EntriesOf(path, row) : results[k].col = Column(line, at, Bytes)}
             = {k \in EntriesOf(path, row) : results[k].at = at}
  <2>1. ASSUME NEW k \in EntriesOf(path, row)
        PROVE  results[k].col = Column(line, at, Bytes) <=> results[k].at = at
    BY <1>1, ColumnsDiffer
  <2> QED
    BY <2>1
<1>3. TimesAt(path, row, line) = NamedAt(path, row, line)
  BY <1>2 DEF TimesAt, NamedAt
<1> QED
  BY <1>1, <1>3

\* ReplacesAtOnce (SearchSafety): of a list whose columns are the bytes before
\* the places it is about, Replace All does not panic, leaves every line as if
\* all entries were replaced at once, and the tabs show it (global_replace), for
\* any files, lists and replacement, in any order of the files.
THEOREM AllReplacedAtOnce == SearchSpec => ReplacesAtOnce
<1> DEFINE Whole == ReplaceEverywhere /\ needle = <<>> /\ (\A k \in DOMAIN results : Apt(results[k]))
                       => ~halted' /\ WrittenAtOnce
<1>1. ASSUME Searched, [SearchNext]_searchVars PROVE [Whole]_searchVars
  <2> SUFFICES ASSUME ReplaceEverywhere, needle = <<>>, \A k \in DOMAIN results : Apt(results[k])
               PROVE  ~halted' /\ WrittenAtOnce
    OBVIOUS
  <2>0. content \in [FileNames -> File_] /\ results \in Seq(Place_)
    BY <1>1 DEF Searched, SearchTypes
  <2>1. ASSUME NEW path \in DOMAIN content, NEW row \in DOMAIN content[path].lines
        PROVE  LET line == content[path].lines[row]
               IN  /\ ReplacedIn(line, TimesAt(path, row, line))
                          = AtOnce(line, NamedAt(path, row, line))
                   /\ \A k \in EntriesOf(path, row) :
                         \E at \in 0 .. Len(line) : results[k].col = Column(line, at, Bytes)
    <3> DEFINE line == content[path].lines[row]
    <3>1. line \in Line
      BY <2>0 DEF File_
    <3> HIDE DEF line
    <3>2. line = content[path].lines[row]
      BY DEF line
    <3>3. /\ TimesAt(path, row, line) = NamedAt(path, row, line)
          /\ \A k \in EntriesOf(path, row) :
                \E at \in 0 .. Len(line) : results[k].col = Column(line, at, Bytes)
      BY <2>0, <3>1, <3>2, AptTimes
    <3>4. NamedAt(path, row, line) \in Times(line)
      BY <2>0, <3>1, TimesTyped
    <3>5. ReplacedIn(line, NamedAt(path, row, line)) = AtOnce(line, NamedAt(path, row, line))
      BY <3>1, <3>4, ReplacedIsAtOnce
    <3> QED
      BY <3>3, <3>5 DEF line
  <2>2. \A path \in Listed : path \in DOMAIN content /\ ~Cuts(path)
    BY <2>1 DEF Listed, Cuts
  <2> DEFINE text(path) == [lines |-> Replaced(path), newline |-> FALSE]
  <2>3. ~halted' /\ content' = [path \in DOMAIN content |->
                                  IF path \in Listed THEN text(path) ELSE content[path]]
        /\ shownText' = [path \in DOMAIN content |->
                                  IF path \in Listed THEN text(path) ELSE shownText[path]]
    BY <2>2 DEF ReplaceEverywhere
  <2>4. ASSUME NEW path \in Listed
        PROVE  /\ content'[path].lines = [row \in DOMAIN content[path].lines |->
                      LET line == content[path].lines[row]
                      IN  AtOnce(line, NamedAt(path, row, line))]
               /\ shownText'[path] = content'[path]
    <3>1. path \in DOMAIN content /\ content'[path] = text(path) /\ shownText'[path] = text(path)
      BY <2>2, <2>3, <2>4
    <3>2. text(path).lines = Replaced(path)
      OBVIOUS
    <3> HIDE DEF text
    <3> QED
      BY <2>1, <3>1, <3>2 DEF Replaced
  <2> QED
    BY <2>3, <2>4 DEF WrittenAtOnce
<1>2. SearchInit => Searched
  BY SearchedFirst
<1>3. Searched /\ [SearchNext]_searchVars => Searched'
  BY SearchedNext
<1>4. Searched /\ [SearchNext]_searchVars => [Whole]_searchVars
  BY <1>1
<1> QED
  BY <1>2, <1>3, <1>4, PTL DEF SearchSpec, ReplacesAtOnce

=============================================================================
