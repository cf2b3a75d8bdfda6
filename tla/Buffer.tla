------------------------------- MODULE Buffer -------------------------------
(***************************************************************************)
(* One editor tab outside of a collaborative session (src/main.rs, Tab and *)
(* the editing half of State): the text, its cursors, the undo and redo    *)
(* stacks with typing that coalesces and a limit, and the texts that are   *)
(* written into the tab without an edit.                                   *)
(***************************************************************************)
EXTENDS MultiCursor

CONSTANTS
    Starts,     \* bound: text, cursors, limit and number of steps of each behaviour
    Inserts,    \* what can be typed or pasted at every cursor
    Pastes,     \* clipboards with one line per cursor
    Queries,    \* what the find bar may hold
    Formatted,  \* what an external formatter can leave in the file
    NoLimit,        \* undo_limit: None
    DefaultLimit,   \* what switching the limit on sets it to
    LimitStep,      \* the settings buttons move the limit by this, never below it
    MaxLimit        \* ... and never above this

\* A limit of 0 is left out: the first edit then removes from an empty stack.
ASSUME LimitsAssumption ==
    /\ LimitStep \in Nat \ {0} /\ MaxLimit \in Nat \ {0} /\ LimitStep <= MaxLimit
    /\ DefaultLimit \in Nat \ {0} /\ NoLimit \notin Nat
    /\ \A start \in Starts : start.limit \in (Nat \ {0}) \cup {NoLimit}

\* Texts are made of characters, and there is always a cursor.
Text == Seq(Chars)
ASSUME TextsAssumption ==
    /\ \A start \in Starts :
          /\ start.text \in Text
          /\ start.cursors \in Seq(CursorRecord) /\ start.cursors # <<>>
    /\ Inserts \subseteq Text /\ Queries \subseteq Text /\ Formatted \subseteq Text
    /\ Pastes \subseteq Seq(Text)

VARIABLES
    text, cursors,          \* Tab::text and Tab::cursors, the last one primary
    undoStack, redoStack,   \* entries with a text and its cursors
    lastTyping,             \* last_typing
    limit,                  \* Settings::undo_limit
    steps                   \* bound: the steps other than undo and redo that are left

vars == <<text, cursors, undoStack, redoStack, lastTyping, limit, steps>>

Primary == Last(cursors)

Init ==
    /\ \E start \in Starts :
        /\ text = start.text /\ cursors = start.cursors
        /\ limit = start.limit /\ steps = start.steps
    /\ undoStack = <<>> /\ redoStack = <<>>
    /\ lastTyping = FALSE

Step == steps > 0 /\ steps' = steps - 1

-----------------------------------------------------------------------------
(* Undo and redo.                                                          *)

Present == [text |-> text, cursors |-> cursors]

\* Mutant of Pushed: one entry too many.
PushedLate(stack, entry) ==
    IF limit # NoLimit /\ Len(stack) > limit
    THEN Append(Tail(stack), entry) ELSE Append(stack, entry)

\* Pushing onto a stack that has reached the limit costs its oldest entry.
Pushed(stack, entry) ==
    IF limit # NoLimit /\ Len(stack) >= limit
    THEN Append(Tail(stack), entry) ELSE Append(stack, entry)

\* Mutant of PushUndo: what could be redone stays.
PushUndoUncleared(coalesce) ==
    /\ IF coalesce /\ lastTyping THEN UNCHANGED <<undoStack, redoStack>>
       ELSE undoStack' = Pushed(undoStack, Present) /\ redoStack' = redoStack
    /\ lastTyping' = coalesce

PushUndo(coalesce) ==
    /\ IF coalesce /\ lastTyping THEN UNCHANGED <<undoStack, redoStack>>
       ELSE undoStack' = Pushed(undoStack, Present) /\ redoStack' = <<>>
    /\ lastTyping' = coalesce

\* Mutant of Undo: typing goes on coalescing.
UndoWhileTyping ==
    /\ undoStack # <<>>
    /\ undoStack' = Front(undoStack)
    /\ redoStack' = Pushed(redoStack, Present)
    /\ text' = Last(undoStack).text /\ cursors' = Last(undoStack).cursors
    /\ UNCHANGED <<lastTyping, limit, steps>>

Undo ==
    /\ undoStack # <<>>
    /\ undoStack' = Front(undoStack)
    /\ redoStack' = Pushed(redoStack, Present)
    /\ text' = Last(undoStack).text /\ cursors' = Last(undoStack).cursors
    /\ lastTyping' = FALSE
    /\ UNCHANGED <<limit, steps>>

Redo ==
    /\ redoStack # <<>>
    /\ redoStack' = Front(redoStack)
    /\ undoStack' = Pushed(undoStack, Present)
    /\ text' = Last(redoStack).text /\ cursors' = Last(redoStack).cursors
    /\ lastTyping' = FALSE
    /\ UNCHANGED <<limit, steps>>

-----------------------------------------------------------------------------
(* Edits.                                                                  *)

\* The same new text at every cursor.
Everywhere(new) == [i \in DOMAIN cursors |-> new]

Become(command, new) ==
    LET done == Edited(command, text, cursors, new)
    IN  text' = done.text /\ cursors' = done.cursors

\* A single character typed without a selection coalesces.
Coalesces(new) ==
    /\ Len(new) = 1 /\ new # <<"n">>
    /\ \A i \in DOMAIN cursors : ~HasSel(cursors[i])

\* insert_str: typing, Enter, a paste.
Insert(new) ==
    /\ Step
    /\ PushUndo(Coalesces(new)) /\ Become("insert", Everywhere(new))
    /\ UNCHANGED limit

\* Cmd+V of as many lines as there are cursors: one line for each.
PastePerCursor(lines) ==
    /\ Step
    /\ Len(cursors) > 1 /\ Len(lines) = Len(cursors)
    /\ PushUndo(FALSE) /\ Become("insert", lines)
    /\ UNCHANGED limit

Delete(command) ==
    /\ Step
    /\ PushUndo(FALSE) /\ Become(command, Everywhere(<<>>))
    /\ UNCHANGED limit

\* The selections are copied first; one outside the text ends the program.
Cut ==
    /\ Step
    /\ \E i \in DOMAIN cursors : HasSel(cursors[i])
    /\ \A i \in DOMAIN cursors : HasSel(cursors[i]) => Hi(cursors[i]) <= Len(text)
    /\ PushUndo(FALSE) /\ Become("cut", Everywhere(<<>>))
    /\ UNCHANGED limit

Select(match, query) == <<Cursor(match + Len(query), match)>>

\* find_step from the given cursors, in the given text.
Stepped(in, from, query, wholeWord, backwards) ==
    LET matches == FindMatches(in, query, wholeWord)
    IN  IF matches = {} THEN from
        ELSE Select(IF backwards THEN PreviousMatch(matches, Lo(Last(from)))
                    ELSE NextMatch(matches, Hi(Last(from))), query)

\* replace_current: insert_str at every cursor, then on to the next match.
ReplaceCurrent(query, new, wholeWord) ==
    /\ Step
    /\ HasSel(Primary)
    /\ PushUndo(Coalesces(new))
    /\ LET done == Edited("insert", text, cursors, Everywhere(new))
       IN  /\ text' = done.text
           /\ cursors' = Stepped(done.text, done.cursors, query, wholeWord, FALSE)
    /\ UNCHANGED limit

\* replace_all: from the last match to the first, with no entry for undo.  Of
\* overlapping matches the first may reach past the end, which ends the program.
ReplaceEvery(query, new, wholeWord) ==
    LET matches == FindMatches(text, query, wholeWord)
        order   == Reverse(Ascending(text, matches))
        replace(done, p) ==
            [text |-> Splice(done.text, p, p + Len(query), new),
             fits |-> done.fits /\ p + Len(query) <= Len(done.text)]
        done    == FoldLeft(replace, [text |-> text, fits |-> TRUE], order)
    IN  /\ Step
        /\ matches # {} /\ done.fits
        /\ text' = done.text
        /\ cursors' = <<Caret(0)>>
        /\ UNCHANGED <<undoStack, redoStack, lastTyping, limit>>

\* FormatterDone: the file as the formatter left it; nothing else is touched.
FormatterDone ==
    /\ Step
    /\ text' \in Formatted
    /\ UNCHANGED <<cursors, undoStack, redoStack, lastTyping, limit>>

-----------------------------------------------------------------------------
(* Cursors.                                                                *)

Place(new) ==
    /\ Step
    /\ cursors' = new
    /\ UNCHANGED <<text, undoStack, redoStack, lastTyping, limit>>

Move(direction, selecting) == Place(Moved(direction, text, cursors, selecting))

AddCursorAbove ==
    LET pos == Lesser(Primary.head, Len(text))
    IN  /\ LineStart(text, pos) # 0
        /\ Place(DedupCursors(Append(cursors, Caret(HeadAbove(text, pos)))))

AddCursorBelow ==
    LET pos == Lesser(Primary.head, Len(text))
    IN  /\ ~OnLastLine(text, pos)
        /\ Place(DedupCursors(Append(cursors, Caret(HeadBelow(text, pos)))))

\* The primary cursor, or the word at it when it selects nothing.
WordSelected ==
    LET pos  == Lesser(Primary.head, Len(text))
        word == WordBounds(text, pos)
    IN  IF HasSel(Primary) \/ word[1] = word[2] THEN Primary ELSE Cursor(word[2], word[1])

Selected(c) == SubSeq(text, Lo(c) + 1, Hi(c))

\* Cmd+D: the word at the cursor, then one more match of what is selected.
AddNextMatch(wholeWord) ==
    LET primary == WordSelected
        kept    == Append(Front(cursors), primary)
        query   == Selected(primary)
        matches == FindMatches(text, query, wholeWord)
        next    == NextMatch(matches, Hi(primary))
    IN  /\ Hi(primary) <= Len(text)
        /\ Place(IF matches = {} \/ next = Lo(primary) THEN kept
                 ELSE DedupCursors(Append(kept, Cursor(next + Len(query), next))))

\* Cmd+Shift+L: every match of it.
SelectMatches(wholeWord) ==
    LET primary == WordSelected
        query   == Selected(primary)
        order   == Ascending(text, FindMatches(text, query, wholeWord))
    IN  /\ Hi(primary) <= Len(text)
        /\ Place(IF order = <<>> THEN Append(Front(cursors), primary)
                 ELSE DedupCursors([k \in DOMAIN order |->
                                       Cursor(order[k] + Len(query), order[k])]))

\* Cmd+G, Enter in the find bar.
FindStep(query, wholeWord, backwards) ==
    Place(Stepped(text, cursors, query, wholeWord, backwards))

\* Escape.
Collapse == Len(cursors) > 1 /\ Place(<<Caret(Primary.head)>>)

SelectAll == Place(<<Cursor(Len(text), 0)>>)

\* A click and the drag that follows it, up to the release.
Drag(from, to) == Place(<<Cursor(to, from)>>)

ShiftDrag(to) == Place(<<Cursor(to, Primary.tail)>>)

DoubleClick(pos) ==
    LET word == WordBounds(text, pos) IN Place(<<Cursor(word[2], word[1])>>)

TripleClick(pos) ==
    Place(<<Cursor(Lesser(LineEnd(text, pos) + 1, Len(text)), LineStart(text, pos))>>)

\* A click with Alt adds a cursor, and with Shift its drag selects.  Nothing
\* is merged: the new cursor may lie in a selection and is the last one.
AltDrag(from, to) ==
    Place(Append(FoldLeft(LAMBDA others, c : IF HasSel(c) \/ c.head # from
                                             THEN Append(others, c) ELSE others,
                          <<>>, cursors),
                 Cursor(to, from)))

AltDoubleClick(pos) ==
    LET word == WordBounds(text, pos)
        apart == FoldLeft(LAMBDA others, c : IF Hi(c) <= word[1] \/ Lo(c) >= word[2]
                                             THEN Append(others, c) ELSE others,
                          <<>>, cursors)
    IN  /\ word[1] < word[2]
        /\ Place(Append(apart, Cursor(word[2], word[1])))

Mouse ==
    \E pos \in 0 .. Len(text) :
        \/ ShiftDrag(pos) \/ DoubleClick(pos) \/ TripleClick(pos) \/ AltDoubleClick(pos)
        \/ \E to \in 0 .. Len(text) : Drag(pos, to) \/ AltDrag(pos, to)

-----------------------------------------------------------------------------
(* The settings page.                                                      *)

SetLimit ==
    /\ Step
    /\ \/ limit = NoLimit /\ limit' = DefaultLimit
       \/ limit # NoLimit /\ limit' \in {NoLimit, Most(limit - LimitStep, LimitStep),
                                         Lesser(limit + LimitStep, MaxLimit)}
    /\ UNCHANGED <<text, cursors, undoStack, redoStack, lastTyping>>

-----------------------------------------------------------------------------
Next ==
    \/ Undo \/ Redo
    \/ \E new \in Inserts : Insert(new)
    \/ \E lines \in Pastes : PastePerCursor(lines)
    \/ \E command \in Deletions : Delete(command)
    \/ Cut
    \/ \E query \in Queries, new \in Inserts \cup {<<>>}, wholeWord \in BOOLEAN :
        ReplaceCurrent(query, new, wholeWord) \/ ReplaceEvery(query, new, wholeWord)
    \/ FormatterDone
    \/ \E direction \in Directions, selecting \in BOOLEAN : Move(direction, selecting)
    \/ AddCursorAbove \/ AddCursorBelow
    \/ \E wholeWord \in BOOLEAN : AddNextMatch(wholeWord) \/ SelectMatches(wholeWord)
    \/ \E query \in Queries, wholeWord, backwards \in BOOLEAN :
        FindStep(query, wholeWord, backwards)
    \/ Collapse \/ SelectAll \/ Mouse
    \/ SetLimit

Spec == Init /\ [][Next]_vars
=============================================================================
