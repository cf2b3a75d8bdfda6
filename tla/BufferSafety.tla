----------------------------- MODULE BufferSafety -----------------------------
(***************************************************************************)
(* What is right about the text buffer of Buffer.                          *)
(***************************************************************************)
EXTENDS Buffer

-----------------------------------------------------------------------------
(* Undo and redo.                                                          *)

(* A run of typing that may still coalesce has an entry to return to, and  *)
(* nothing to redo: a further character pushes and clears nothing, so a    *)
(* redo that survived would bring back a text without it (2198-2205).      *)
TypingRunIsNewest == lastTyping => undoStack # <<>> /\ redoStack = <<>>

(* No step makes a stack longer than the limit (2200, 2213, 2231); after   *)
(* the limit is lowered a longer stack only stops growing.                 *)
Grows(stack, new) == Len(new) > Len(stack)
StacksRespectLimit ==
    [][limit # NoLimit =>
        /\ Grows(undoStack, undoStack') => Len(undoStack') <= limit
        /\ Grows(redoStack, redoStack') => Len(redoStack') <= limit]_vars

TextsOf(stack) == [k \in DOMAIN stack |-> stack[k].text]

\* What undo leads back to, the present text, and what redo leads on to.
Versions(past, t, future) == Append(TextsOf(past), t) \o Reverse(TextsOf(future))

Timeline == INSTANCE UndoTimeline WITH
    versions <- Versions(undoStack, text, redoStack),
    now      <- Len(undoStack) + 1

\* What changes the text and records nothing.
Unrecorded ==
    \/ FormatterDone
    \/ \E query \in Queries, new \in Inserts \cup {<<>>}, wholeWord \in BOOLEAN :
        ReplaceEvery(query, new, wholeWord)

(* push_undo, undo and redo (2176-2242) implement the line in time of      *)
(* UndoTimeline, under limits that change meanwhile.  Replace-all and the  *)
(* formatter are outside of it: they rewrite the present, and no undo      *)
(* brings back what it was.                                                *)
ImplementsUndoTimeline ==
    /\ Timeline!Init
    /\ [][Timeline!Next \/ (Unrecorded /\ Timeline!Rewritten)]_(Timeline!timeline)

-----------------------------------------------------------------------------
(* Multi-cursor edits.                                                     *)

Within(c, len) == c.head <= len /\ c.tail <= len
InText(cs, t)  == \A i \in DOMAIN cs : Within(cs[i], Len(t))

\* No cursor overlaps or touches another, as dedup_cursors leaves them.
Separated(cs) ==
    \A i, j \in DOMAIN cs : i # j => Hi(cs[i]) < Lo(cs[j]) \/ Hi(cs[j]) < Lo(cs[i])

RangeOf(command, c) == IF HasSel(c) THEN <<Lo(c), Hi(c)>> ELSE Reach(command, text, c.head)
Ranges(command)     == {RangeOf(command, cursors[i]) : i \in DOMAIN cursors}
RangesApart(command) ==
    \A q, r \in Ranges(command) : q # r => q[2] < r[1] \/ r[2] < q[1]

\* Nobody is skipped: skipped cursors are not shifted.
AllAct(command) ==
    \A i \in DOMAIN cursors : Acts(command, cursors[i], RangeOf(command, cursors[i]))

\* Every range of the text is replaced by new at the same time.
Simultaneous(ranges, new) ==
    LET removed(p) == \E r \in ranges : r[1] < p /\ p <= r[2]
        starts(p)  == \E r \in ranges : r[1] = p
    IN  FoldLeft(LAMBDA whole, k :
                     whole \o ((IF starts(k - 1) THEN new ELSE <<>>) \o
                               (IF k <= Len(text) /\ ~removed(k) THEN <<text[k]>> ELSE <<>>)),
                 <<>>, [k \in 1 .. Len(text) + 1 |-> k])

\* Where the cursor of a range is then: behind what replaced it.
HeadBehind(r, ranges, new) ==
    LET removed(p) == \E q \in ranges : q[1] < p /\ p <= q[2]
    IN  Cardinality({p \in 1 .. r[1] : ~removed(p)})
        + Len(new) * Cardinality({q \in ranges : q[1] <= r[1]})

\* Cursors that are apart, and for the commands that look for a word's or a
\* line's end, what they remove too: no cursor then reaches over another.
OnWordsOrLines == Deletions \ {"backspace", "delete_fwd"}
Independent(command) ==
    /\ Separated(cursors)
    /\ command \in OnWordsOrLines => RangesApart(command)

(* The running delta (2252-2268 and its copies) does what replacing every  *)
(* cursor's range at once would do, for independent cursors.               *)
EditsAreSimultaneous ==
    \A command \in Commands : InText(cursors, text) /\ Independent(command) =>
        LET ranges == Ranges(command)
            new    == IF command = "insert" THEN <<"w", "s">> ELSE <<>>
            done   == Edited(command, text, cursors, Everywhere(new))
        IN  /\ done.text = Simultaneous(ranges, new)
            /\ AllAct(command) =>
                {c.head : c \in ToSet(done.cursors)} =
                {HeadBehind(r, ranges, new) : r \in ranges}

(* After an edit no cursor overlaps or touches another, which is what the  *)
(* next edit's running delta relies on, even if they did before it (a      *)
(* click with Alt, a drag).  The merging of 2155-2171 takes over heads     *)
(* without looking back.                                                   *)
EditsLeaveCursorsApart ==
    \A command \in Commands :
        Separated(Edited(command, text, cursors, Everywhere(<<"w">>)).cursors)

(* No edit puts a cursor behind the end of the text, where slicing at it   *)
(* would end the program, for independent cursors.  One with nothing to    *)
(* remove stays where it was while the text gets shorter: going backwards  *)
(* only the first can be such a cursor; for a cut, and forwards, the       *)
(* property holds if all of them act.                                      *)
MaySkip == {"delete_fwd", "delete_word_fwd", "delete_to_line_end", "cut"}
EditsKeepCursorsInText ==
    \A command \in Commands :
        /\ InText(cursors, text) /\ Independent(command)
        /\ command \in MaySkip => AllAct(command)
        =>
        LET new  == IF command = "insert" THEN <<"w", "s">> ELSE <<>>
            done == Edited(command, text, cursors, Everywhere(new))
        IN  InText(done.cursors, done.text)

(* Both: a batch of edits leaves cursors that the next batch can rely on.   *)
EditsLeaveCursorsSound == EditsLeaveCursorsApart /\ EditsKeepCursorsInText

Forward(cs) == \A i \in DOMAIN cs : cs[i].tail <= cs[i].head
Covered(cs) == UNION {Lo(cs[i]) + 1 .. Hi(cs[i]) : i \in DOMAIN cs}

(* Adding a cursor (Cmd+D, Cmd+Alt+Up and Down) deselects nothing, though  *)
(* it may merge with selections it meets, as long as these run forwards.   *)
AddingKeepsSelections ==
    [][/\ AddCursorAbove \/ AddCursorBelow
          \/ \E wholeWord \in BOOLEAN : AddNextMatch(wholeWord)
       /\ Forward(cursors)
       => Covered(cursors) \subseteq Covered(cursors')]_vars
=============================================================================
