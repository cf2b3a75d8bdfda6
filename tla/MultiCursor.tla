---------------------------- MODULE MultiCursor ----------------------------
(***************************************************************************)
(* The multi-cursor commands of the editor (src/main.rs, the Cursor type   *)
(* and the "Multi-cursor helpers", "Editing" and "Cursor movement" parts   *)
(* of State) as operators on a text and its cursors.                       *)
(*                                                                         *)
(* Positions are the 0-based char offsets of the code.  A character is     *)
(* what the commands tell apart: "w" belongs to words (is_word_char), "n"  *)
(* ends a line, "s" is any other.                                          *)
(***************************************************************************)
EXTENDS Integers, Sequences, FiniteSets, SequencesExt, FiniteSetsExt

Cursor(head, tail) == [head |-> head, tail |-> tail]
Caret(pos)         == Cursor(pos, pos)

Lesser(a, b) == IF a <= b THEN a ELSE b
Most(a, b)  == IF a >= b THEN a ELSE b

Lo(c)     == Lesser(c.head, c.tail)
Hi(c)     == Most(c.head, c.tail)
HasSel(c) == c.head # c.tail

-----------------------------------------------------------------------------
(* Lines and words.                                                        *)

Chars  == {"w", "n", "s"}
IsWord(ch) == ch = "w"

\* line_to_char(char_to_line(pos)), and that plus line_len.
LineStart(text, pos) == Max({0} \cup {p \in 1 .. pos : text[p] = "n"})
LineEnd(text, pos)   ==
    Min({Len(text)} \cup {p \in pos .. Len(text) - 1 : text[p + 1] = "n"})

WordBack(text, pos) ==
    LET end == Max({0} \cup {p \in 1 .. pos : IsWord(text[p])})
    IN  Max({0} \cup {p \in 1 .. end : ~IsWord(text[p])})

WordForward(text, pos) ==
    LET start == Min({Len(text)} \cup {p \in pos .. Len(text) - 1 : IsWord(text[p + 1])})
    IN  Min({Len(text)} \cup {p \in start .. Len(text) - 1 : ~IsWord(text[p + 1])})

\* The word around or left of pos, <<pos, pos>> when there is none.
WordBounds(text, pos) ==
    LET inWord == pos < Len(text) /\ IsWord(text[pos + 1])
        atEnd  == pos > 0 /\ IsWord(text[pos])
    IN  IF inWord \/ atEnd
        THEN <<Max({0} \cup {p \in 1 .. pos : ~IsWord(text[p])}),
               Min({Len(text)} \cup {p \in pos .. Len(text) - 1 : ~IsWord(text[p + 1])})>>
        ELSE <<pos, pos>>

\* Where query occurs, overlapping occurrences included; never across lines.
FindMatches(text, query, wholeWord) ==
    {p \in 0 .. Len(text) - Len(query) :
        /\ query # <<>> /\ \A i \in DOMAIN query : query[i] # "n"
        /\ SubSeq(text, p + 1, p + Len(query)) = query
        /\ wholeWord => \A q \in {p, p + Len(query) + 1} \cap DOMAIN text : ~IsWord(text[q])}

\* find_matches returns them from the first to the last.
Ascending(text, matches) ==
    FoldLeftDomain(LAMBDA found, i : IF i - 1 \in matches THEN Append(found, i - 1) ELSE found,
                   <<>>, text)

\* The first match at or after pos, else the first one.
NextMatch(matches, pos) ==
    IF \E m \in matches : m >= pos THEN Min({m \in matches : m >= pos}) ELSE Min(matches)

\* The last match before pos, else the last one.
PreviousMatch(matches, pos) ==
    IF \E m \in matches : m < pos THEN Max({m \in matches : m < pos}) ELSE Max(matches)

-----------------------------------------------------------------------------
(* Order and merging of cursors.                                           *)

CursorRecord == [head : Nat, tail : Nat]

\* Cursor indices by ascending lo(); the sort is stable.
CursorOrder(cursors) ==
    LET before(i, j) == \/ Lo(cursors[i]) < Lo(cursors[j])
                        \/ Lo(cursors[i]) = Lo(cursors[j]) /\ i < j
    IN  CHOOSE order \in [DOMAIN cursors -> DOMAIN cursors] :
            \A k, l \in DOMAIN cursors : k < l => before(order[k], order[l])

\* Mutant of MergeInto: cursors that only touch stay apart.
MergeOverlapping(merged, c) ==
    IF merged # <<>> /\ Lo(c) < Hi(Last(merged))
    THEN IF Hi(c) > Hi(Last(merged))
         THEN Append(Front(merged), Cursor(c.head, Last(merged).tail))
         ELSE merged
    ELSE Append(merged, c)

\* Mutant of MergeInto: the merged cursor does not grow.
MergeShort(merged, c) ==
    IF merged # <<>> /\ Lo(c) <= Hi(Last(merged)) THEN merged ELSE Append(merged, c)

\* A cursor that starts within the last one is dropped; when it reaches
\* further the last one takes over its head.
MergeInto(merged, c) ==
    IF merged # <<>> /\ Lo(c) <= Hi(Last(merged))
    THEN IF Hi(c) > Hi(Last(merged))
         THEN Append(Front(merged), Cursor(c.head, Last(merged).tail))
         ELSE merged
    ELSE Append(merged, c)

DedupCursors(cursors) ==
    LET order == CursorOrder(cursors)
    IN  FoldLeft(MergeInto, <<>>, [k \in DOMAIN cursors |-> cursors[order[k]]])

-----------------------------------------------------------------------------
(* Edits.  A command acts at each cursor from left to right; the running   *)
(* delta is what the earlier ones have added to and removed from the text. *)

ApplyDelta(pos, delta, len) == Lesser(Most(pos + delta, 0), len)

Deletions == {"backspace", "delete_fwd", "delete_word_back", "delete_word_fwd",
              "delete_to_line_start", "delete_to_line_end"}
Commands == Deletions \cup {"insert", "cut"}

\* The range a command removes at a caret.
Reach(command, text, pos) ==
    CASE command = "backspace"            -> <<Most(pos - 1, 0), pos>>
      [] command = "delete_fwd"           -> <<pos, Lesser(pos + 1, Len(text))>>
      [] command = "delete_word_back"     -> <<WordBack(text, pos), pos>>
      [] command = "delete_word_fwd"      -> <<pos, WordForward(text, pos)>>
      [] command = "delete_to_line_start" ->
           <<IF LineStart(text, pos) < pos THEN LineStart(text, pos)
             ELSE Most(pos - 1, 0), pos>>
      [] command = "delete_to_line_end"   ->
           <<pos, IF LineEnd(text, pos) > pos THEN LineEnd(text, pos)
                  ELSE Lesser(pos + 1, Len(text))>>
      [] OTHER                            -> <<pos, pos>>

Splice(text, from, to, new) == SubSeq(text, 1, from) \o new \o SubSeq(text, to + 1, Len(text))

\* Whether a cursor takes part: the others are left as they are, unshifted.
Acts(command, c, range) == command = "insert" \/ HasSel(c) \/ range[1] < range[2]

\* Mutant of EditAt: the insertions are not counted in the delta.
EditAtUncounted(command, batch, c, i, new) ==
    LET at(pos) == ApplyDelta(pos, batch.delta, Len(batch.text))
        range   == IF HasSel(c) THEN <<at(Lo(c)), at(Hi(c))>>
                   ELSE Reach(command, batch.text, at(c.head))
    IN  IF Acts(command, c, range)
        THEN [text    |-> Splice(batch.text, range[1], range[2], new),
              delta   |-> batch.delta - (range[2] - range[1]),
              cursors |-> [batch.cursors EXCEPT ![i] = Caret(range[1] + Len(new))]]
        ELSE batch

EditAt(command, batch, c, i, new) ==
    LET at(pos) == ApplyDelta(pos, batch.delta, Len(batch.text))
        range   == IF HasSel(c) THEN <<at(Lo(c)), at(Hi(c))>>
                   ELSE Reach(command, batch.text, at(c.head))
    IN  IF Acts(command, c, range)
        THEN [text    |-> Splice(batch.text, range[1], range[2], new),
              delta   |-> batch.delta - (range[2] - range[1]) + Len(new),
              cursors |-> [batch.cursors EXCEPT ![i] = Caret(range[1] + Len(new))]]
        ELSE batch

\* new[k] is the text for the k-th cursor from the left.
Edited(command, text, cursors, new) ==
    LET order == CursorOrder(cursors)
        step(batch, k) == EditAt(command, batch, cursors[order[k]], order[k], new[k])
        done  == FoldLeft(step, [text |-> text, delta |-> 0, cursors |-> cursors],
                          [k \in DOMAIN cursors |-> k])
    IN  [text |-> done.text, cursors |-> DedupCursors(done.cursors)]

-----------------------------------------------------------------------------
(* Movement.                                                               *)

Directions == {"left", "right", "up", "down", "home", "end",
               "word_left", "word_right", "doc_start", "doc_end"}

\* The same column of the line before or after, as far as that line goes.
HeadAbove(text, pos) ==
    LET start == LineStart(text, pos)
        above == LineStart(text, start - 1)
    IN  IF start = 0 THEN 0 ELSE above + Lesser(pos - start, start - 1 - above)

\* last_line does not count the empty line after a final newline.
OnLastLine(text, pos) == LineEnd(text, pos) + 1 >= Len(text)

HeadBelow(text, pos) ==
    LET below == LineEnd(text, pos) + 1
    IN  IF OnLastLine(text, pos) THEN Len(text)
        ELSE below + Lesser(pos - LineStart(text, pos), LineEnd(text, below) - below)

MovedHead(direction, text, head) ==
    LET pos == Lesser(head, Len(text))
    IN  CASE direction = "left"       -> Most(head - 1, 0)
          [] direction = "right"      -> IF head < Len(text) THEN head + 1 ELSE head
          [] direction = "up"         -> HeadAbove(text, pos)
          [] direction = "down"       -> HeadBelow(text, pos)
          [] direction = "home"       -> LineStart(text, pos)
          [] direction = "end"        -> LineEnd(text, pos)
          [] direction = "word_left"  -> WordBack(text, pos)
          [] direction = "word_right" -> WordForward(text, pos)
          [] direction = "doc_start"  -> 0
          [] direction = "doc_end"    -> Len(text)

\* When selecting the tails stay, otherwise they follow the heads.
Moved(direction, text, cursors, selecting) ==
    DedupCursors([i \in DOMAIN cursors |->
        LET head == MovedHead(direction, text, cursors[i].head)
        IN  Cursor(head, IF selecting THEN cursors[i].tail ELSE head)])
=============================================================================
