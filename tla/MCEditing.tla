------------------------------ MODULE MCEditing ------------------------------
(***************************************************************************)
(* A text that is edited: by the commands of one tab, or by two sides at   *)
(* once (near is guest 1, far is the host, which wins ties, or guest 2,    *)
(* which loses them).  The two have no variable in common, so a behaviour  *)
(* is of one of them, while the other stays as it begins.                  *)
(***************************************************************************)
EXTENDS BufferSafety, MCConcurrentEdits

VARIABLE subject

\* Tab: any cursor, and any second one added by a click with Alt.
AnyCursors(t) ==
    LET one == {Cursor(head, tail) : head, tail \in 0 .. Len(t)}
    IN  {<<c>> : c \in one} \cup
        {pair \in one \X one : HasSel(pair[1]) \/ pair[1].head # pair[2].tail}

WideTexts == {<<"w", "s", "w">>, <<"w", "n", "w">>, <<"n", "n", "s">>, <<"w", "w", "s", "w">>}

\* Wide behaviours begin with any two cursors and take one step besides undo
\* and redo, or two; long ones, for the limits, begin with one character and
\* take three.
Start(t, cs, l, n) == [text |-> t, cursors |-> cs, limit |-> l, steps |-> n]
MCStarts ==
    UNION {{Start(t, cs, 1, 1) : cs \in AnyCursors(t)} : t \in WideTexts}
    \cup {Start(<<"w", "s">>, cs, NoLimit, 2) : cs \in AnyCursors(<<"w", "s">>)}
    \cup {Start(<<"w">>, <<Caret(1)>>, l, 3) : l \in {1, 2, NoLimit}}

MCInserts   == {<<"w">>, <<"n">>}
MCPastes    == {<<<<"w">>, <<>>>>}
MCQueries   == {<<"w">>}
MCFormatted == {<<"w">>}

MCInit ==
    /\ subject \in {"tab", "both sides"}
    /\ Init      /\ (subject = "both sides" => steps = 3 /\ limit = 1)
    /\ CrossInit /\ (subject = "tab" => farSite = 0 /\ nearCursor = 0)

MCNext ==
    \/ subject = "tab"        /\ Next      /\ UNCHANGED <<crossVars, subject>>
    \/ subject = "both sides" /\ CrossNext /\ UNCHANGED <<vars, subject>>

MCSpec == MCInit /\ [][MCNext]_<<vars, crossVars, subject>>
=============================================================================
