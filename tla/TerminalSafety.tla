--------------------------- MODULE TerminalSafety ---------------------------
(***************************************************************************)
(* What a terminal's grid promises whatever program writes to it and       *)
(* however its pane is resized meanwhile.                                  *)
(***************************************************************************)
EXTENDS Terminal

\* No sequence of escape codes and sizes reaches a cell that is not there: the
\* vectors fit the size, the cursor is on the screen or just behind its line,
\* the region and a saved screen are within it, and as many rows can be shown
\* as it has (cell_mut, flat and the clamps of csi_dispatch; visible_rows).
Within(g, screen, size) ==
    /\ Size(size) = g.cols * g.rows /\ size # Panic
    /\ screen.row \in 0 .. LastRow(g) /\ screen.col \in 0 .. g.cols
    /\ screen.top <= screen.bot /\ screen.bot <= LastRow(g)
GridSound ==
    /\ Within(grid, grid, grid.cells)
    /\ grid.alt # NoScreen => Within(grid, grid.alt, grid.alt.cells)
    /\ Len(grid.back) <= Limit /\ Len(VisibleRows(grid)) = grid.rows

\* A new size loses nothing of the shell's session: the text above and on the
\* primary screen is the same, less only the oldest of a full scrollback; and
\* a cursor behind all text stays behind it, so that the next output does not
\* overwrite what is there ("Rewrap a screen without losing rows that no
\* longer fit", resize_screen).  Except for a cursor that waits behind a full
\* line, which is put back into it.
Screen(g)  == IF g.alt = NoScreen THEN g ELSE g.alt
Shown(cells) == SelectSeq(cells, LAMBDA char : char # Space)
Session(g) == Shown(FlattenSeq(g.back) \o Slice(Screen(g).cells, 0, Size(Screen(g).cells)))
AtPrompt(g) == /\ Screen(g).col < g.cols
               /\ \A k \in DOMAIN Screen(g).cells :
                     k >= Screen(g).row * g.cols + Screen(g).col => Screen(g).cells[k] = Space
KeepsSession ==
    /\ IsSuffix(Session(grid'), Session(grid))
    /\ Len(grid'.back) < Limit => Session(grid') = Session(grid)
    /\ AtPrompt(grid) => AtPrompt(grid')
ResizeKeepsSession ==
    [][<<grid'.cols, grid'.rows>> # <<grid.cols, grid.rows>> => KeepsSession]_termVars
=============================================================================
