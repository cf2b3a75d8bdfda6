---------------------------- MODULE SearchSafety ----------------------------
(***************************************************************************)
(* What the search panel promises while searches overtake one another.     *)
(***************************************************************************)
EXTENDS GlobalSearch

\* The list holds what the last search found, never what an earlier one did
\* that took longer; "searching" is shown only while its thread runs or its
\* answer is on the way; the selection is an entry of the list, so that Enter
\* never reaches beyond it (spawn_search, SearchDone).  Except for a search
\* that ends after references took the list, which replaces them and forgets
\* what was selected.
Under_(number) == \/ \E thread \in searches : thread.token = number
                  \/ \E k \in DOMAIN answers : answers[k].token = number
AnswersAreCurrent ==
    /\ results # <<>> => answered[1] = token
    /\ searching => Under_(token)
    /\ ~overtaken /\ results # <<>> => selected \in DOMAIN results

\* Replace All, which acts while the query is empty, does not panic and leaves
\* the lines as if the replacement were put in at once at every place the list
\* is about, as often as the list names it, and the tabs of those files show
\* what was written (global_replace: "sort by line descending, then col
\* descending for safe replacement").  For lists whose columns are the bytes
\* before those places in the lines as they are by now: entries of a search
\* count the bytes of the line in lower case, references UTF-16 units, and the
\* file may have changed.
Apt(entry) ==
    LET lines == content[entry.path].lines
    IN  /\ entry.row \in DOMAIN lines /\ entry.at <= Len(lines[entry.row])
        /\ entry.col = Column(lines[entry.row], entry.at, Bytes)
NamedAt(path, row, line) ==
    [at \in 0 .. Len(line) |-> Cardinality({k \in EntriesOf(path, row) : results[k].at = at})]
Remains(line, i) == IF i > Len(line) THEN <<>> ELSE <<line[i]>>
AtOnce(line, times) ==
    FoldLeft(LAMBDA whole, i : whole \o (Copies(times[i - 1]) \o Remains(line, i)),
             <<>>, [i \in 1 .. Len(line) + 1 |-> i])
WrittenAtOnce ==
    \A path \in Listed :
        /\ content'[path].lines = [row \in DOMAIN content[path].lines |->
               LET line == content[path].lines[row] IN AtOnce(line, NamedAt(path, row, line))]
        /\ shownText'[path] = content'[path]
ReplacesAtOnce ==
    [][ReplaceEverywhere /\ needle = <<>> /\ (\A k \in DOMAIN results : Apt(results[k]))
           => ~halted' /\ WrittenAtOnce]_searchVars

\* "For safe replacement" (main.rs 6168): Replace All never ends the program.
\* The code breaks it where a column ends within a character of the line.
ReplacementIsSafe == [][ReplaceEverywhere => ~halted']_searchVars
=============================================================================
