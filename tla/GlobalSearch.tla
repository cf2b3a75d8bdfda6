---------------------------- MODULE GlobalSearch ----------------------------
(***************************************************************************)
(* The search panel (GlobalFind, spawn_search, global_replace): searches   *)
(* run in threads and end in an event with a token, a language server's    *)
(* references come into the same list, and Replace All writes the files    *)
(* that the list names.                                                    *)
(***************************************************************************)
EXTENDS Naturals, Sequences, FiniteSets, SequencesExt

CONSTANTS
    Sources,    \* bound: what the searched files may hold at first, a function
                \* from paths to [lines, newline] records
    Needles,    \* bound: what is typed as a query
    Replacement,\* what is typed to replace it with
    Keeps,      \* bound: the places a language server may answer with
    MaxTasks,   \* bound: steps of the user and of other programs
    Bytes, Units, Lower \* of each character: its length in UTF-8 and in UTF-16,
                        \* and the character it is in lower case

Character == DOMAIN Bytes
FileNames == UNION {DOMAIN source : source \in Sources}
Line   == Seq(Character)
File_  == [lines : Seq(Line), newline : BOOLEAN]
Spot_  == [path : FileNames, row : Nat, at : Nat]
Place_ == [path : FileNames, row : Nat, col : Nat, at : Nat]
ASSUME SearchAssumption ==
    /\ Bytes \in [Character -> 1 .. 4] /\ Units \in [Character -> 1 .. 2]
    /\ Lower \in [Character -> Character]
    /\ Sources \subseteq [FileNames -> File_] /\ IsFiniteSet(FileNames)
    /\ Needles \subseteq Line /\ <<>> \in Needles
    /\ Replacement \in Line /\ Replacement # <<>>
    /\ Keeps \subseteq Seq(Spot_)

VARIABLES
    content,    \* external: the files
    shownText,  \* the text of the tab each file is open in, for a language
                \* server the text of the file
    needle, results, selected, searching, token, live, armed, inField,
                \* query, results, selected, searching, search_token,
                \* live_search, search_fire_at and focus of GlobalFind
    searches,   \* the threads, and the references asked for
    answers,    \* events
    tasks,
    halted,     \* the program has panicked
    answered,   \* history: the token and query of the results shown
    overtaken   \* history: references came while a search ran

searchVars == <<content, shownText, needle, results, selected, searching, token, live, armed,
                inField, searches, answers, tasks, halted, answered, overtaken>>

-----------------------------------------------------------------------------

\* Occurrences that do not overlap, from the left.
Occurs(line, word, i) ==
    i + Len(word) - 1 <= Len(line) /\ SubSeq(line, i, i + Len(word) - 1) = word
Finds(line, word) ==
    FoldLeftDomain(LAMBDA found, i :
                       IF /\ Occurs(line, word, i)
                          /\ found = <<>> \/ found[Len(found)] + Len(word) <= i
                       THEN Append(found, i) ELSE found,
                   <<>>, line)

\* The width of what stands before a place of a line.
Column(line, at, width) == FoldLeft(LAMBDA sum, c : sum + width[c], 0, SubSeq(line, 1, at))

\* An entry of the list: match_col is col; at is history, the number of
\* characters that stand before the place it is about.
Hit(path, row, col, at) == [path |-> path, row |-> row, col |-> col, at |-> at]

\* global_search, in some order of the files.  case_sensitive is never set, so
\* that it looks in lines in lower case, whose bytes it counts.
Lowered(line) == [i \in DOMAIN line |-> Lower[line[i]]]
InRow(path, row, word) ==
    LET line   == Lowered(content[path].lines[row])
        starts == Finds(line, Lowered(word))
    IN  [k \in DOMAIN starts |->
            Hit(path, row, Column(line, starts[k] - 1, Bytes), starts[k] - 1)]
InFile(path, word) ==
    FoldLeftDomain(LAMBDA found, row : found \o InRow(path, row, word),
                   <<>>, content[path].lines)
Search(word, order) ==
    IF word = <<>> THEN <<>>
    ELSE FoldLeft(LAMBDA found, path : found \o InFile(path, word), <<>>, order)

\* global_replace with an empty query, for one file: nothing goes, and in each
\* line the replacement is put in from the last entry to the first, where the
\* entry's bytes end; several entries of one place are one after the other.
\* An entry behind the line is skipped; one that ends within a character
\* panics.  Mutant of FromTheEnd: from the first to the last.
FromTheStart(line) == [k \in 1 .. Len(line) + 1 |-> k - 1]
FromTheEnd(line)   == [k \in 1 .. Len(line) + 1 |-> Len(line) + 1 - k]
Copies(n) == [k \in 1 .. n * Len(Replacement) |-> Replacement[((k - 1) % Len(Replacement)) + 1]]
Put_(line, at, word) == SubSeq(line, 1, at) \o (word \o SubSeq(line, at + 1, Len(line)))
ReplacedIn(line, times) ==
    FoldLeft(LAMBDA now, at : Put_(now, at, Copies(times[at])), line, FromTheEnd(line))

EntriesOf(path, row) == {k \in DOMAIN results : results[k].path = path /\ results[k].row = row}
TimesAt(path, row, line) ==
    [at \in 0 .. Len(line) |->
        Cardinality({k \in EntriesOf(path, row) : results[k].col = Column(line, at, Bytes)})]
Replaced(path) ==
    [row \in DOMAIN content[path].lines |->
        LET line == content[path].lines[row] IN ReplacedIn(line, TimesAt(path, row, line))]

Listed == {path \in DOMAIN content : \E k \in DOMAIN results : results[k].path = path}
Cuts(path) ==
    \E row \in DOMAIN content[path].lines : \E k \in EntriesOf(path, row) :
        LET line == content[path].lines[row]
        IN  /\ results[k].col <= Column(line, Len(line), Bytes)
            /\ \A at \in 0 .. Len(line) : results[k].col # Column(line, at, Bytes)

SearchInit ==
    /\ content \in Sources
    /\ shownText = content
    /\ needle = <<>> /\ results = <<>> /\ selected = 1
    /\ searching = FALSE /\ token = 0 /\ live = FALSE /\ armed = FALSE /\ inField = TRUE
    /\ searches = {} /\ answers = <<>>
    /\ tasks = MaxTasks /\ halted = FALSE
    /\ answered = <<0, <<>>>> /\ overtaken = FALSE

Task == ~halted /\ tasks > 0 /\ tasks' = tasks - 1

-----------------------------------------------------------------------------
(* The user.                                                               *)

\* spawn_search.
SpawnSearch ==
    /\ token' = token + 1 /\ searching' = TRUE
    /\ results' = <<>> /\ selected' = 1
    /\ searches' = searches \cup {[token |-> token + 1, word |-> needle]}

TypeNeedle(word) ==
    /\ Task /\ inField /\ word # needle
    /\ needle' = word
    /\ armed' = (armed \/ live)
    /\ UNCHANGED <<content, shownText, results, selected, searching, token, live, inField,
                   searches, answers, halted, answered, overtaken>>

ToggleLive ==
    /\ Task
    /\ live' = ~live
    /\ armed' = (armed \/ (live' /\ needle # <<>>))
    /\ UNCHANGED <<content, shownText, needle, results, selected, searching, token, inField,
                   searches, answers, halted, answered, overtaken>>

\* Enter, or a click on Search.
AskSearch ==
    /\ Task /\ needle # <<>>
    /\ SpawnSearch
    /\ inField' = FALSE
    /\ UNCHANGED <<content, shownText, needle, live, armed, answers, halted, answered,
                   overtaken>>

\* Replace All stands to the right of Search, and a click on it searches too,
\* which empties the list unless the query is empty.  It takes the files in any
\* order, so that those it wrote before a panic may be any of the others.  A
\* write that fails is in Documents (ReplaceInFiles).
ReplaceEverywhere ==
    /\ Task
    /\ \/ /\ needle # <<>>
          /\ SpawnSearch
          /\ inField' = FALSE
          /\ UNCHANGED <<content, shownText, halted>>
       \/ /\ needle = <<>> /\ results # <<>>
          /\ halted' = \E path \in Listed : Cuts(path)
          /\ \E written \in SUBSET {path \in Listed : ~Cuts(path)} :
                LET text(path) == [lines |-> Replaced(path), newline |-> FALSE]
                IN  /\ ~halted' => written = Listed
                    /\ content' = [path \in DOMAIN content |->
                                      IF path \in written THEN text(path) ELSE content[path]]
                    /\ shownText' = [path \in DOMAIN content |->
                                        IF path \in written THEN text(path) ELSE shownText[path]]
          /\ results' = <<>>
          /\ UNCHANGED <<selected, searching, token, inField, searches>>
    /\ UNCHANGED <<needle, live, armed, answers, answered, overtaken>>

\* Cmd+Shift+F or a click in a field; Escape.
FocusField ==
    /\ Task
    /\ inField' = ~inField
    /\ UNCHANGED <<content, shownText, needle, results, selected, searching, token, live, armed,
                   searches, answers, halted, answered, overtaken>>

\* The arrows and Enter, which opens what is selected; a click on a result.
Arrow ==
    /\ ~halted /\ ~inField /\ results # <<>>
    /\ \/ selected' = IF selected + 1 > Len(results) THEN Len(results) ELSE selected + 1
       \/ selected' = IF selected > 1 THEN selected - 1 ELSE 1
    /\ UNCHANGED <<content, shownText, needle, results, searching, token, live, armed, inField,
                   searches, answers, tasks, halted, answered, overtaken>>
ClickResult(i) ==
    /\ ~halted
    /\ selected' = i /\ inField' = FALSE
    /\ UNCHANGED <<content, shownText, needle, results, searching, token, live, armed, searches,
                   answers, tasks, halted, answered, overtaken>>
OpenResult ==
    /\ Task /\ ~inField /\ results # <<>>
    /\ halted' = (selected \notin DOMAIN results)
    /\ UNCHANGED <<content, shownText, needle, results, selected, searching, token, live, armed,
                   inField, searches, answers, answered, overtaken>>

\* Find References asks the language server.
References == [token |-> 0, word |-> <<>>]
AskReferences ==
    /\ Task
    /\ searches' = searches \cup {References}
    /\ UNCHANGED <<content, shownText, needle, results, selected, searching, token, live, armed,
                   inField, answers, halted, answered, overtaken>>

-----------------------------------------------------------------------------
(* Threads, time and others.                                               *)

\* 300 ms after the last key.
Debounced ==
    /\ ~halted /\ armed
    /\ armed' = FALSE
    /\ SpawnSearch
    /\ UNCHANGED <<content, shownText, needle, live, inField, answers, tasks, halted, answered,
                   overtaken>>

EndSearch(thread) ==
    /\ thread # References
    /\ \E order \in SetToSeqs(DOMAIN content) :
          answers' = Append(answers, [token |-> thread.token, word |-> thread.word,
                                      hits |-> Search(thread.word, order)])
    /\ searches' = searches \ {thread}
    /\ UNCHANGED <<content, shownText, needle, results, selected, searching, token, live, armed,
                   inField, tasks, halted, answered, overtaken>>

\* Another program writes a file.
FileWritten(path, text) ==
    /\ Task /\ text # content[path]
    /\ content' = [content EXCEPT ![path] = text]
    /\ UNCHANGED <<shownText, needle, results, selected, searching, token, live, armed, inField,
                   searches, answers, halted, answered, overtaken>>

\* Mutant of OnSearchDone: the token is not looked at.
AnyAnswer ==
    /\ ~halted /\ answers # <<>>
    /\ answers' = Tail(answers)
    /\ results' = Head(answers).hits /\ searching' = FALSE
    /\ answered' = <<Head(answers).token, Head(answers).word>>
    /\ UNCHANGED <<content, shownText, needle, selected, token, live, armed, inField, searches,
                   tasks, halted, overtaken>>
OnSearchDone ==
    /\ ~halted /\ answers # <<>>
    /\ answers' = Tail(answers)
    /\ LET answer == Head(answers)
       IN  \/ /\ answer.token = token
              /\ results' = answer.hits /\ searching' = FALSE
              /\ answered' = <<token, answer.word>>
           \/ /\ answer.token # token
              /\ UNCHANGED <<results, searching, answered>>
    /\ UNCHANGED <<content, shownText, needle, selected, token, live, armed, inField, searches,
                   tasks, halted, overtaken>>

\* apply_references, whatever is searched for meanwhile.  The server counts
\* UTF-16 units, in the text it knows.
Known_(spot) == LET lines == shownText[spot.path].lines
                IN  spot.row \in DOMAIN lines /\ spot.at <= Len(lines[spot.row])
OnReferences(spots) ==
    /\ ~halted /\ References \in searches /\ \A k \in DOMAIN spots : Known_(spots[k])
    /\ searches' = searches \ {References}
    /\ results' = [k \in DOMAIN spots |->
                      LET spot == spots[k]
                          line == shownText[spot.path].lines[spot.row]
                      IN  Hit(spot.path, spot.row, Column(line, spot.at, Units), spot.at)]
    /\ selected' = 1 /\ inField' = FALSE
    /\ answered' = <<token, needle>>
    /\ overtaken' = (overtaken \/ searching)
    /\ UNCHANGED <<content, shownText, needle, searching, token, live, armed, answers, tasks,
                   halted>>

-----------------------------------------------------------------------------

SearchNext ==
    \/ \E word \in Needles : TypeNeedle(word)
    \/ ToggleLive \/ AskSearch \/ ReplaceEverywhere \/ FocusField \/ OpenResult \/ AskReferences
    \/ Arrow
    \/ \E i \in DOMAIN results : ClickResult(i)
    \/ Debounced \/ OnSearchDone
    \/ \E thread \in searches : EndSearch(thread)
    \/ \E spots \in Keeps : OnReferences(spots)
    \/ \E other \in Sources : \E path \in DOMAIN content : FileWritten(path, other[path])

SearchSpec == SearchInit /\ [][SearchNext]_searchVars
=============================================================================
