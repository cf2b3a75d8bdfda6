------------------------------ MODULE Terminal ------------------------------
(***************************************************************************)
(* The screen of a terminal tab (TermGrid and VteHandler of terminal.rs):  *)
(* what the bytes from the pty and the changes of the pane's size do to    *)
(* the cells, the cursor, the scrolling region, the alternate screen and   *)
(* the lines that were scrolled away.  A cell is its character.            *)
(***************************************************************************)
EXTENDS Integers, Sequences, FiniteSets, SequencesExt

CONSTANTS
    Letters,    \* bound: characters that show and are printed
    Space,      \* the one that does not
    Limit,      \* lines that are kept above the screen (1000 in the code)
    Sizes,      \* bound: <<cols, rows>> a pane gives its terminals
    Shells,     \* bound: a grid's size and what was printed on it, characters
                \* and NewLine
    NewLine,
    MaxParam,   \* bound: the parameters of the escape sequences
    Outputs     \* bound: escape sequences and sizes that come

\* resize_terminal_panes and spawn_terminal give a terminal a row and a column
\* at least; only the tests begin without any.
ASSUME TerminalAssumption ==
    /\ Space \notin Letters /\ Limit \in Nat /\ NewLine \notin Letters /\ MaxParam \in Nat
    /\ Sizes \subseteq (Nat \ {0}) \X (Nat \ {0})
    /\ \A start \in Shells : /\ start.size \in {<<0, 0>>} \cup (Nat \ {0}) \X (Nat \ {0})
                             /\ start.text \in Seq(Range(start.text))

VARIABLES grid, outputs
termVars == <<grid, outputs>>

-----------------------------------------------------------------------------
(* Slices of the flat vector of cells, counted from 0.                     *)

Lesser(a, b)  == IF a < b THEN a ELSE b
Minus(a, b)   == IF a < b THEN 0 ELSE a - b        \* saturating_sub
Larger1(n)    == IF n = 0 THEN 1 ELSE n            \* max(1)
Size(cells)   == Cardinality(DOMAIN cells)
Wiped(n)      == [k \in 0 .. n - 1 |-> Space]
Slice(cells, lo, hi) == [k \in 1 .. hi - lo |-> cells[lo + k - 1]]

\* A range that is not in the vector ends the program.
Panic == [k \in {-1} |-> Space]
InRange(cells, lo, hi) == cells # Panic /\ lo <= hi /\ hi <= Size(cells)
Cleared(cells, lo, hi) ==
    IF ~InRange(cells, lo, hi) THEN Panic
    ELSE [k \in DOMAIN cells |-> IF k \in lo .. hi - 1 THEN Space ELSE cells[k]]
CopiedTo(cells, lo, hi, to) ==                     \* copy_within
    IF ~InRange(cells, lo, hi) \/ to + (hi - lo) > Size(cells) THEN Panic
    ELSE [k \in DOMAIN cells |-> IF k \in to .. to + (hi - lo) - 1 THEN cells[lo + k - to]
                                 ELSE cells[k]]
\* Nothing is moved when nothing is left to move.
Moved(cells, lo, hi, to) == IF hi > lo THEN CopiedTo(cells, lo, hi, to) ELSE cells

-----------------------------------------------------------------------------
(* The grid.                                                               *)

NoScreen == <<>>
New(cols, rows) ==
    [cols |-> cols, rows |-> rows, cells |-> Wiped(cols * rows), col |-> 0, row |-> 0,
     top |-> 0, bot |-> Minus(rows, 1), alt |-> NoScreen, savedCol |-> 0, savedRow |-> 0,
     back |-> <<>>, offset |-> 0]

LastCol(g)  == Minus(g.cols, 1)
LastRow(g)  == Minus(g.rows, 1)
RegionEnd(g) == Lesser(g.bot, LastRow(g))
\* Mutant of Flat: the end of an erased range is not clamped.
FlatUnclamped(g, row, col) == row * g.cols + col
Flat(g, row, col) == Lesser(row * g.cols + col, Size(g.cells))
Goto(g, row, col) == [g EXCEPT !.row = Lesser(row, LastRow(g)), !.col = Lesser(col, LastCol(g))]
WithCells(g, cells) == [g EXCEPT !.cells = cells]

\* The scrollback's oldest lines go when it is full.
Kept(back, lines) ==
    LET all == back \o lines IN SubSeq(all, Minus(Len(all), Limit) + 1, Len(all))

ScrollUp(g) ==
    LET bot  == RegionEnd(g)
        all  == g.top = 0 /\ bot = LastRow(g)
        from == g.top * g.cols
        up   == IF (bot + 1) * g.cols > from + g.cols
                THEN CopiedTo(g.cells, from + g.cols, (bot + 1) * g.cols, from) ELSE g.cells
    IN  [g EXCEPT !.back = IF all THEN Kept(@, <<Slice(g.cells, 0, g.cols)>>) ELSE @,
                  !.cells = Cleared(up, bot * g.cols, bot * g.cols + g.cols)]
ScrollDown(g) ==
    LET from == g.top * g.cols
        to   == (RegionEnd(g) + 1) * g.cols
        down == IF to > from + g.cols THEN CopiedTo(g.cells, from, to - g.cols, from + g.cols)
                ELSE g.cells
    IN  WithCells(g, Cleared(down, from, from + g.cols))
Repeated(Op(_), g, n) == FoldLeft(LAMBDA h, k : Op(h), g, [k \in 1 .. n |-> k])

LineFeed(g) ==
    IF g.row = g.bot THEN ScrollUp(g) ELSE [g EXCEPT !.row = Lesser(@ + 1, LastRow(g))]

\* A character that does not fit on the line goes to the next one, and not
\* before it comes.
Printed(g, char) ==
    IF Size(g.cells) = 0 THEN g
    ELSE LET h == IF g.col >= g.cols THEN LineFeed([g EXCEPT !.col = 0]) ELSE g
             i == Lesser(h.row * h.cols + h.col, Minus(Size(h.cells), 1))
         IN  [h EXCEPT !.cells[i] = char, !.col = @ + 1]

-----------------------------------------------------------------------------
(* A new size (resize_screen): every row remains a line of its own and is  *)
(* wrapped if it has become too long; rows above the screen are returned.  *)

Joined(lines) == FoldLeft(LAMBDA all, some : all \o some, <<>>, lines)
Rewrapped(cells, oldCols, oldRows, col, row, cols, rows) ==
    LET start(k) == Lesser(k * oldCols, Size(cells))
        source(k) == Slice(cells, start(k), Lesser(start(k) + oldCols, Size(cells)))
        filled(k) == {i \in DOMAIN source(k) : source(k)[i] # Space}
        content  == {k \in 0 .. oldRows - 1 : filled(k) # {}} \cup {0}
        last     == Max(content \cup {row})
        used(k)  == Max(filled(k) \cup {IF k = row THEN Lesser(col + 1, oldCols) ELSE 0})
        chunks(k) == (Larger1(used(k)) + cols - 1) \div cols
        piece(k, j) == [i \in 1 .. cols |->
                           IF j * cols + i <= Lesser(Len(source(k)), used(k))
                           THEN source(k)[j * cols + i] ELSE Space]
        lines(n) == Joined([k \in 1 .. n |-> [j \in 1 .. chunks(k - 1) |-> piece(k - 1, j - 1)]])
        wrapped  == lines(Lesser(last + 1, oldRows))
        all      == IF wrapped = <<>> THEN <<[i \in 1 .. cols |-> Space]>> ELSE wrapped
        first    == Minus(Len(all), rows)
        shown(k) == k \div cols + 1 + first \in DOMAIN all
        atRow    == IF row < oldRows THEN Len(lines(row)) + col \div cols ELSE 0
        atCol    == IF row < oldRows THEN col % cols ELSE 0
    IN  [cells |-> [k \in 0 .. cols * rows - 1 |->
                       IF shown(k) THEN all[k \div cols + 1 + first][(k % cols) + 1] ELSE Space],
         col |-> Lesser(atCol, cols - 1), row |-> Lesser(Minus(atRow, first), rows - 1),
         above |-> SubSeq(all, 1, first)]

\* Mutant of Resized: the primary screen's lines are not kept while the
\* alternate one is shown.
ResizedForgets(g, cols, rows) ==
    IF <<cols, rows>> = <<g.cols, g.rows>> THEN g
    ELSE LET new   == Rewrapped(g.cells, g.cols, g.rows, g.col, g.row, cols, rows)
             saved == Rewrapped(g.alt.cells, g.cols, g.rows, g.alt.col, g.alt.row, cols, rows)
         IN  [g EXCEPT !.cols = cols, !.rows = rows, !.cells = new.cells,
                       !.col = new.col, !.row = new.row, !.top = 0, !.bot = rows - 1,
                       !.back = IF g.alt = NoScreen THEN Kept(@, new.above) ELSE @,
                       !.alt = IF @ = NoScreen THEN @
                               ELSE [cells |-> saved.cells, col |-> saved.col, row |-> saved.row,
                                     top |-> 0, bot |-> rows - 1]]

\* While the alternate screen is shown, alt holds the primary one, whose lines
\* are kept.
Resized(g, cols, rows) ==
    IF <<cols, rows>> = <<g.cols, g.rows>> THEN g
    ELSE LET new   == Rewrapped(g.cells, g.cols, g.rows, g.col, g.row, cols, rows)
             saved == Rewrapped(g.alt.cells, g.cols, g.rows, g.alt.col, g.alt.row, cols, rows)
         IN  [g EXCEPT !.cols = cols, !.rows = rows, !.cells = new.cells,
                       !.col = new.col, !.row = new.row, !.top = 0, !.bot = rows - 1,
                       !.back = Kept(@, IF g.alt = NoScreen THEN new.above ELSE saved.above),
                       !.alt = IF @ = NoScreen THEN @
                               ELSE [cells |-> saved.cells, col |-> saved.col, row |-> saved.row,
                                     top |-> 0, bot |-> rows - 1]]

\* The lines on the screen, a way up into those above it.
VisibleRows(g) ==
    LET screen == [r \in 1 .. g.rows |-> Slice(g.cells, (r - 1) * g.cols, r * g.cols)]
        from   == Minus(Len(g.back), g.offset)
    IN  SubSeq(SubSeq(g.back, from + 1, Len(g.back)) \o screen, 1, g.rows)

-----------------------------------------------------------------------------
(* The pty's bytes.                                                        *)

Shell(start) ==
    FoldLeft(LAMBDA g, c : IF c = NewLine THEN LineFeed([g EXCEPT !.col = 0]) ELSE Printed(g, c),
             New(start.size[1], start.size[2]), start.text)
TermInit == outputs = Outputs /\ grid \in {Shell(start) : start \in Shells}

Becomes(g) == grid.cells # Panic /\ outputs > 0 /\ outputs' = outputs - 1 /\ grid' = g

PrintChar    == \E char \in Letters : Becomes(Printed(grid, char))
Execute      == \/ Becomes([grid EXCEPT !.col = 0])                               \* \r
                \/ Becomes(LineFeed(grid))                                        \* \n
                \/ grid.col > 0 /\ Becomes([grid EXCEPT !.col = @ - 1])           \* \b
Tab          == LET col == (grid.col \div 8 + 1) * 8
                IN  Becomes([grid EXCEPT !.col = IF col >= grid.cols THEN LastCol(grid) ELSE col])

MoveCursor(n) ==                                                         \* A B C D
    \/ Becomes([grid EXCEPT !.row = Minus(@, Larger1(n))])
    \/ Becomes([grid EXCEPT !.row = Lesser(@ + Larger1(n), LastRow(grid))])
    \/ Becomes([grid EXCEPT !.col = Lesser(@ + Larger1(n), LastCol(grid))])
    \/ Becomes([grid EXCEPT !.col = Minus(@, Larger1(n))])
PlaceCursor(n, m) ==                                                     \* H f G d
    \/ Becomes(Goto(grid, Minus(n, 1), Minus(m, 1)))
    \/ Becomes([grid EXCEPT !.col = Lesser(Minus(n, 1), LastCol(grid))])
    \/ Becomes([grid EXCEPT !.row = Lesser(Minus(n, 1), LastRow(grid))])

Erased(lo, hi) == WithCells(grid, Cleared(grid.cells, lo, hi))
EraseDisplay ==                                                          \* J
    \/ Becomes(Erased(Flat(grid, grid.row, grid.col), Size(grid.cells)))
    \/ Becomes(Erased(0, Flat(grid, grid.row, grid.col + 1)))
    \/ Becomes([Erased(0, Size(grid.cells)) EXCEPT !.row = 0, !.col = 0])
EraseLine ==                                                             \* K
    \/ Becomes(Erased(Flat(grid, grid.row, grid.col), Flat(grid, grid.row, grid.cols)))
    \/ Becomes(Erased(Flat(grid, grid.row, 0), Flat(grid, grid.row, grid.col + 1)))
    \/ Becomes(Erased(Flat(grid, grid.row, 0), Flat(grid, grid.row, grid.cols)))

ScrollRegion(n) == \/ Becomes(Repeated(ScrollUp, grid, Larger1(n)))        \* S T
                   \/ Becomes(Repeated(ScrollDown, grid, Larger1(n)))
SetRegion(n, m) ==                                                       \* r
    LET top == Lesser(Minus(n, 1), LastRow(grid))
        bot == IF m = 0 THEN LastRow(grid) ELSE Lesser(m - 1, LastRow(grid))
    IN  Becomes([grid EXCEPT !.top = IF top < bot THEN top ELSE 0,
                             !.bot = IF top < bot THEN bot ELSE LastRow(grid),
                             !.row = 0, !.col = 0])

\* L and M move whole rows, of the region's if the cursor is in it.
RowsLeft(n) == Lesser(Larger1(n), Minus(RegionEnd(grid), grid.row) + 1)
InsertLines(n) ==
    LET here  == grid.row * grid.cols
        there == (grid.row + RowsLeft(n)) * grid.cols
        end   == Minus(RegionEnd(grid), RowsLeft(n) - 1) * grid.cols
    IN  Becomes(WithCells(grid, Cleared(Moved(grid.cells, here, end, there), here, there)))
DeleteLines(n) ==
    LET here  == grid.row * grid.cols
        there == (grid.row + RowsLeft(n)) * grid.cols
        end   == (RegionEnd(grid) + 1) * grid.cols
        blank == (RegionEnd(grid) + 1 - RowsLeft(n)) * grid.cols
    IN  Becomes(WithCells(grid, Cleared(Moved(grid.cells, there, end, here), blank, end)))

\* P, X and @ work on the rest of the cursor's line.
CharsLeft(n) == Lesser(Larger1(n), Minus(grid.cols, grid.col))
Chars(n) ==
    LET here == grid.row * grid.cols + grid.col
        end  == grid.row * grid.cols + grid.cols
        some == CharsLeft(n)
    IN  \/ Becomes(WithCells(grid, Cleared(Moved(grid.cells, here + some, end, here), end - some, end)))
        \/ Becomes(Erased(here, here + some))
        \/ Becomes(WithCells(grid, Cleared(Moved(grid.cells, here, end - some, here + some),
                                           here, here + some)))

SaveCursor    == Becomes([grid EXCEPT !.savedCol = grid.col, !.savedRow = grid.row])  \* s, ESC 7
RestoreCursor == Becomes(Goto(grid, grid.savedRow, grid.savedCol))                    \* u, ESC 8
ReverseIndex  ==                                                                      \* ESC M
    Becomes(IF grid.row = grid.top THEN ScrollDown(grid) ELSE [grid EXCEPT !.row = Minus(@, 1)])

EnterAlternate ==
    /\ grid.alt = NoScreen
    /\ Becomes([grid EXCEPT !.alt = [cells |-> grid.cells, col |-> grid.col, row |-> grid.row,
                                     top |-> grid.top, bot |-> grid.bot],
                            !.cells = Wiped(Size(@)), !.col = 0, !.row = 0,
                            !.top = 0, !.bot = LastRow(grid)])
LeaveAlternate ==
    /\ grid.alt # NoScreen
    /\ Becomes([grid EXCEPT !.cells = grid.alt.cells, !.col = grid.alt.col, !.row = grid.alt.row,
                            !.top = grid.alt.top, !.bot = Lesser(grid.alt.bot, LastRow(grid)),
                            !.alt = NoScreen])

\* The window or a divider is moved: resize_terminal_panes.
Resize(size) == size # <<grid.cols, grid.rows>> /\ Becomes(Resized(grid, size[1], size[2]))

\* The wheel.
ScrollView(n) == \/ Becomes([grid EXCEPT !.offset = Lesser(@ + n, Len(grid.back))])
                 \/ Becomes([grid EXCEPT !.offset = Minus(@, n)])

-----------------------------------------------------------------------------

TermNext ==
    \/ PrintChar \/ Execute \/ Tab \/ EraseDisplay \/ EraseLine
    \/ SaveCursor \/ RestoreCursor \/ ReverseIndex \/ EnterAlternate \/ LeaveAlternate
    \/ \E n \in 0 .. MaxParam : \/ MoveCursor(n) \/ ScrollRegion(n) \/ InsertLines(n)
                                \/ DeleteLines(n) \/ Chars(n) \/ ScrollView(n)
    \/ \E n, m \in 0 .. MaxParam : PlaceCursor(n, m) \/ SetRegion(n, m)
    \/ \E size \in Sizes : Resize(size)

TermSpec == TermInit /\ [][TermNext]_termVars
=============================================================================
