----------------------------- MODULE TextEdits -----------------------------
(***************************************************************************)
(* The edits a language server answers with, and how they are applied      *)
(* (apply_text_edits, main.rs 2858-2885).  A position is a line and the    *)
(* UTF-16 units before it there, and the code counts characters.           *)
(***************************************************************************)
EXTENDS Naturals, Sequences, FiniteSets, SequencesExt

CONSTANTS
    LineBreak,  \* the character that ends a line
    Units       \* of each character its length in UTF-16

ASSUME UnitsAssumption == Units \in [DOMAIN Units -> 1 .. 2] /\ LineBreak \in DOMAIN Units

Breaks(text) == {i \in DOMAIN text : text[i] = LineBreak}

\* line_to_char: what stands before line l, counted from 0; the line behind the
\* last is the end of the text, and one further ends the program.
HasLine(text, l) == l <= Cardinality(Breaks(text)) + 1
LineStart(text, l) ==
    IF l = 0 THEN 0
    ELSE IF l > Cardinality(Breaks(text)) THEN Len(text)
    ELSE CHOOSE i \in Breaks(text) : Cardinality({j \in Breaks(text) : j <= i}) = l

\* What the server sends for the place behind the first characters of a text.
LineOf(text, at) == Cardinality({i \in Breaks(text) : i <= at})
Position(text, at) ==
    [line |-> LineOf(text, at),
     col  |-> FoldLeft(LAMBDA sum, c : sum + Units[c], 0,
                       SubSeq(text, LineStart(text, LineOf(text, at)) + 1, at))]

\* Replace what is between from and to, counted from 0, by new; the same as it
\* is sent, and as apply_text_edits understands it.
Edit(from, to, new) == [from |-> from, to |-> to, new |-> new]
Sent(text, edits) ==
    [i \in DOMAIN edits |-> [start |-> Position(text, edits[i].from),
                             end   |-> Position(text, edits[i].to), new |-> edits[i].new]]
Offset(text, position) == LineStart(text, position.line) + position.col
Taken(text, sent) ==
    [i \in DOMAIN sent |-> Edit(Offset(text, sent[i].start), Offset(text, sent[i].end), sent[i].new)]

\* text.remove and text.insert end the program outside of the text.
FitsIn(text, e) == e.from <= e.to /\ e.to <= Len(text)
Replaced(text, e) ==
    SubSeq(text, 1, e.from) \o e.new \o SubSeq(text, e.to + 1, Len(text))

\* Mutant of LastFirst: in the order they came in.
AsTheyCame(edits) == edits

\* From the last to the first; edits at one place in the order they came in.
Sooner(edits, i, j) == \/ edits[i].from > edits[j].from
                       \/ edits[i].from = edits[j].from /\ i < j
LastFirst(edits) ==
    LET rank(i) == 1 + Cardinality({j \in DOMAIN edits : Sooner(edits, j, i)})
    IN  [k \in DOMAIN edits |-> edits[CHOOSE i \in DOMAIN edits : rank(i) = k]]

Outcome(ok, text) == [ok |-> ok, text |-> text]
ApplyOne(done, e) ==
    IF done.ok /\ FitsIn(done.text, e) THEN Outcome(TRUE, Replaced(done.text, e))
    ELSE Outcome(FALSE, <<>>)

\* line_to_char of every edit comes first, on the text as it was.
ApplyTextEdits(text, sent) ==
    IF \A i \in DOMAIN sent : HasLine(text, sent[i].start.line) /\ HasLine(text, sent[i].end.line)
    THEN FoldLeft(ApplyOne, Outcome(TRUE, text), LastFirst(Taken(text, sent)))
    ELSE Outcome(FALSE, <<>>)

-----------------------------------------------------------------------------

\* What the protocol means: every edit refers to the text before all of them.
\* What is put in at a place, where one edit begins at most, and the character
\* behind it, if it stays.
PutIn(edits, place) ==
    LET there == {i \in DOMAIN edits : edits[i].from = place}
    IN  IF there = {} THEN <<>> ELSE edits[CHOOSE i \in there : TRUE].new
Staying(text, edits, p) ==
    IF p > Len(text) \/ \E i \in DOMAIN edits : edits[i].from < p /\ p <= edits[i].to
    THEN <<>> ELSE <<text[p]>>
AtOnce(text, edits) ==
    FoldLeft(LAMBDA whole, p : whole \o (PutIn(edits, p - 1) \o Staying(text, edits, p)),
             <<>>, [p \in 1 .. Len(text) + 1 |-> p])

\* No edit reaches into another (the protocol demands it), and moreover no two
\* begin at one place.
Disjoint(edits) ==
    \A i, j \in DOMAIN edits :
        i # j => edits[i].to <= edits[j].from \/ edits[j].to <= edits[i].from
Separate(edits) ==
    /\ Disjoint(edits)
    /\ \A i, j \in DOMAIN edits : edits[i].from = edits[j].from => i = j

\* No character of two units stands before the places of the edits on their
\* lines, so that their columns count characters.
NarrowBefore(text, at) ==
    \A i \in DOMAIN text :
        LineStart(text, LineOf(text, at)) < i /\ i <= at => Units[text[i]] = 1
Narrow(text, edits) ==
    \A i \in DOMAIN edits : NarrowBefore(text, edits[i].from) /\ NarrowBefore(text, edits[i].to)
=============================================================================
