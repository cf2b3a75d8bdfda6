----------------------------- MODULE LspClient -----------------------------
(***************************************************************************)
(* One window and its language server (lsp.rs, and its callers and events  *)
(* in main.rs): the messages on the server's stdin, the events its reader  *)
(* thread posts, the versions and pending requests kept here.  Seen for    *)
(* one language on one host; each start is a new process with an id of its *)
(* own, and what an old one still had to say may come after it was         *)
(* replaced.                                                               *)
(*                                                                         *)
(* The server is external: it reads its input in order, may answer         *)
(* requests in any order, and may end at any time.                         *)
(***************************************************************************)
EXTENDS TextEdits, FiniteSets

CONSTANTS
    Tabs, Docs,     \* editor tabs, files of the language
    Texts,          \* bound: what is typed makes one of these texts
    EditLists,      \* bound: the server answers with one of these that fits
    MaxStarts,      \* bound: servers started
    Starts          \* bound: how it may begin, and the steps the user then takes

VARIABLES
    tab,        \* per tab NoTab or the file and the text it shows
    srv,        \* the LspServer in LspManager::servers, or NoServer
    startError, \* lsp_start_errors holds an entry
    nextId,     \* next_pane_id, where servers take their ids from
    wire,       \* per server: stdin, written and not yet read
    peer,       \* external: what each server process knows
    events,     \* UserEvents of the reader threads, in order
    alive,      \* the window has not panicked
    left        \* steps the user still takes

clientVars == <<tab, srv, startError, nextId, wire, peer, events, alive, left>>

Ids      == 1 .. MaxStarts
NoTab    == [open |-> FALSE]
NoServer == [id |-> 0]
Shows(t, d) == tab[t].open /\ tab[t].doc = d
Shown(d)    == \E t \in Tabs : Shows(t, d)

NewServer(id) == [id |-> id, initialized |-> FALSE, requestId |-> 1, pending |-> {},
                  version |-> [d \in Docs |-> 0]]     \* 0: no entry in doc_version
Unread == [open |-> FALSE, version |-> 0]
NewPeer == [alive |-> FALSE, asked |-> {}, docs |-> [d \in Docs |-> Unread],
            confused |-> FALSE]

\* Nothing is open yet, or a file is and its first server has been initialized.
Begun(t, d, text) ==
    [tab  |-> [u \in Tabs |-> IF u = t THEN [open |-> TRUE, doc |-> d, text |-> text] ELSE NoTab],
     srv  |-> [NewServer(1) EXCEPT !.initialized = TRUE, !.version[d] = 1],
     next |-> 2,
     peer |-> [i \in Ids |-> IF i # 1 THEN NewPeer ELSE
                  [NewPeer EXCEPT !.alive = TRUE,
                                  !.docs[d] = [open |-> TRUE, version |-> 1, text |-> text]]]]
Empty == [tab |-> [t \in Tabs |-> NoTab], srv |-> NoServer, next |-> 1,
          peer |-> [i \in Ids |-> NewPeer]]

ASSUME ClientAssumption ==
    /\ MaxStarts \in Nat \ {0}
    /\ \A start \in Starts : \/ start.from = Empty
                              \/ \E t \in Tabs, d \in Docs :
                                    /\ start.from.tab[t].open
                                    /\ start.from = Begun(t, d, start.from.tab[t].text)

ClientInit ==
    /\ \E start \in Starts :
           /\ tab = start.from.tab
           /\ srv = start.from.srv
           /\ nextId = start.from.next
           /\ peer = start.from.peer
           /\ left = start.steps
    /\ startError = FALSE
    /\ wire = [i \in Ids |-> <<>>]
    /\ events = <<>>
    /\ alive = TRUE

-----------------------------------------------------------------------------
(* Messages to the server.  Documents are always sent whole.               *)

Initialize         == [method |-> "initialize"]
Initialized        == [method |-> "initialized"]
DidOpen(d, t)      == [method |-> "didOpen", doc |-> d, version |-> 1, text |-> t]
DidChange(d, v, t) == [method |-> "didChange", doc |-> d, version |-> v, text |-> t]
DidClose(d)        == [method |-> "didClose", doc |-> d]
Request(id, k, d)  == [method |-> "request", id |-> id, kind |-> k, doc |-> d]

\* What ensure_lsp_server_running may leave: the server there is, a new one
\* that was sent initialize, or none if it cannot start or must not.
Ensured ==
    IF srv # NoServer THEN {[srv |-> srv, error |-> startError, out |-> <<>>]}
    ELSE {[srv |-> NoServer, error |-> e, out |-> <<>>] : e \in {startError, TRUE}}
         \cup (IF nextId \in Ids
               THEN {[srv |-> NewServer(nextId), error |-> FALSE, out |-> <<Initialize>>]}
               ELSE {})

\* Mutant of Notified: a text some tab already shows is taken for known.
NotifiedIfNew(ensured, d, text) ==
    IF ensured.srv = NoServer THEN ensured
    ELSE LET v == ensured.srv.version[d]
         IN  IF v > 0 /\ \E t \in Tabs : tab[t] = [open |-> TRUE, doc |-> d, text |-> text]
             THEN ensured
             ELSE [ensured EXCEPT
                 !.srv.version[d] = v + 1,
                 !.out = Append(@, IF v = 0 THEN DidOpen(d, text)
                                   ELSE DidChange(d, v + 1, text))]

\* The end of notify_lsp_open and of notify_lsp_change: didChange with the
\* next version if the document was opened at this server, else didOpen.
Notified(ensured, d, text) ==
    IF ensured.srv = NoServer THEN ensured
    ELSE LET v == ensured.srv.version[d]
         IN  [ensured EXCEPT
                 !.srv.version[d] = v + 1,
                 !.out = Append(@, IF v = 0 THEN DidOpen(d, text)
                                   ELSE DidChange(d, v + 1, text))]

\* The manager's state after it, and what went to the server's stdin.
Becomes(ensured) ==
    LET started == srv = NoServer /\ ensured.srv # NoServer
    IN  /\ srv' = ensured.srv
        /\ startError' = ensured.error
        /\ nextId' = IF started THEN nextId + 1 ELSE nextId
        /\ peer' = IF started THEN [peer EXCEPT ![nextId].alive = TRUE] ELSE peer
        /\ wire' = IF ensured.srv = NoServer THEN wire
                   ELSE [wire EXCEPT ![ensured.srv.id] = @ \o ensured.out]

Tell(message) == wire' = [wire EXCEPT ![srv.id] = Append(@, message)]

-----------------------------------------------------------------------------
(* The user.                                                               *)

UserStep == alive /\ left > 0 /\ left' = left - 1

\* open_or_reuse_tab for d, then notify_lsp_open: it takes the text of some
\* tab that shows d, whichever comes first in the map of panes.
OpensInto(d, t, text) ==
    IF Shows(t, d) THEN tab' = tab
    ELSE /\ ~tab[t].open
         /\ tab' = [tab EXCEPT ![t] = [open |-> TRUE, doc |-> d, text |-> text]]
NotifyOpen(d) ==
    \E t \in Tabs, ensured \in Ensured :
        tab'[t].open /\ tab'[t].doc = d /\ Becomes(Notified(ensured, d, tab'[t].text))

OpenFile(d, t) ==
    /\ UserStep
    /\ \E text \in Texts : OpensInto(d, t, text)
    /\ NotifyOpen(d)
    /\ UNCHANGED <<events, alive>>

\* Any key in the editor, whether it changes the text or not: notify_lsp_change
\* (9657), which starts a server only if the last start did not fail.
Keystroke(t) ==
    /\ UserStep /\ tab[t].open
    /\ \E text \in Texts \cup {tab[t].text} :
           /\ tab' = [tab EXCEPT ![t].text = text]
           /\ \E ensured \in IF startError
                             THEN {[srv |-> srv, error |-> TRUE, out |-> <<>>]}
                             ELSE Ensured :
                  Becomes(Notified(ensured, tab[t].doc, text))
    /\ UNCHANGED <<events, alive>>

\* Mutant of CloseTab: the version is kept for the next time it is opened.
CloseTabKeepsVersion(t) ==
    /\ UserStep /\ tab[t].open
    /\ tab' = [tab EXCEPT ![t] = NoTab]
    /\ IF srv = NoServer THEN wire' = wire ELSE Tell(DidClose(tab[t].doc))
    /\ UNCHANGED <<srv, startError, nextId, peer, events, alive>>

\* close_editor_tab and notify_lsp_tab_closed, whether the document was
\* opened at this server, and whether another tab shows it, or not.
CloseTab(t) ==
    /\ UserStep /\ tab[t].open
    /\ tab' = [tab EXCEPT ![t] = NoTab]
    /\ IF srv = NoServer THEN UNCHANGED <<srv, wire>>
       ELSE /\ srv' = [srv EXCEPT !.version[tab[t].doc] = 0]
            /\ Tell(DidClose(tab[t].doc))
    /\ UNCHANGED <<startError, nextId, peer, events, alive>>

\* execute_command: definition, references, formatting, organizing imports
\* (also on save), for a server that has been initialized.
Kinds == {"definition", "references", "edits"}
Ask(t, kind) ==
    /\ UserStep /\ tab[t].open /\ srv # NoServer /\ srv.initialized
    /\ LET id == srv.requestId + 1
       IN  /\ srv' = [srv EXCEPT !.requestId = id,
                          !.pending = @ \cup {[id |-> id, kind |-> kind, doc |-> tab[t].doc]}]
           /\ Tell(Request(id, kind, tab[t].doc))
    /\ UNCHANGED <<tab, startError, nextId, peer, events, alive>>

\* FormatterDone, a late remote read, undo of another pane: what changes a
\* text without notify_lsp_change.
ReplaceText(t) ==
    /\ UserStep /\ tab[t].open
    /\ \E text \in Texts : tab' = [tab EXCEPT ![t].text = text]
    /\ UNCHANGED <<srv, startError, nextId, wire, peer, events, alive>>

\* The panel, or another window, stops the server (LspStopRequested).  What
\* it has written may still come, then the end of its output.
StopServer ==
    /\ UserStep /\ srv # NoServer
    /\ srv' = NoServer
    /\ UNCHANGED <<tab, startError, nextId, wire, peer, events, alive>>

-----------------------------------------------------------------------------
(* The server, external.                                                   *)

\* What a document is after a message; a server is confused by a second
\* didOpen, by a change of what is not open, and by a version that is not new.
DocAfter(doc, message) ==
    CASE message.method = "didOpen"   -> [open |-> TRUE, version |-> message.version,
                                          text |-> message.text]
      [] message.method = "didChange" -> [open |-> TRUE, version |-> message.version,
                                          text |-> message.text]
      [] message.method = "didClose"  -> Unread
Confusing(doc, message) ==
    \/ message.method = "didOpen" /\ doc.open
    \/ message.method = "didChange" /\ (~doc.open \/ message.version <= doc.version)

Told(server, message) ==
    [server EXCEPT !.docs[message.doc] = DocAfter(@, message),
                   !.confused = @ \/ Confusing(server.docs[message.doc], message)]

PeerReads(i) ==
    /\ peer[i].alive /\ wire[i] # <<>>
    /\ wire' = [wire EXCEPT ![i] = Tail(@)]
    /\ LET message == Head(wire[i])
       IN  CASE message.method = "initialize" ->
                   /\ events' = Append(events, [type |-> "LspOutput", server |-> i])
                   /\ peer' = peer
             [] message.method = "initialized" -> UNCHANGED <<events, peer>>
             [] message.method = "request" ->
                   /\ peer' = [peer EXCEPT ![i].asked = @ \cup {message}]
                   /\ events' = events
             [] OTHER ->
                   /\ peer' = [peer EXCEPT ![i] = Told(@, message)]
                   /\ events' = events
    /\ UNCHANGED <<tab, srv, startError, nextId, alive, left>>

\* An answer to any request; edits are computed for the text it has by then
\* (base and meant are history).
PeerAnswers(i) ==
    /\ peer[i].alive
    /\ \E request \in peer[i].asked :
           /\ peer' = [peer EXCEPT ![i].asked = @ \ {request}]
           /\ \E edits \in EditLists, to \in Docs :
                 LET doc == peer[i].docs[request.doc]
                     base == IF doc.open THEN doc.text ELSE <<>>
                     meant == IF request.kind = "edits" THEN edits ELSE <<>>
                 IN  /\ \A k \in DOMAIN edits : FitsIn(base, edits[k])
                     /\ events' = Append(events, [type |-> "LspResponse", server |-> i,
                            id |-> request.id, request |-> request, base |-> base,
                            meant |-> meant, edits |-> Sent(base, meant),
                            to |-> IF request.kind = "definition" THEN to ELSE request.doc])
    /\ UNCHANGED <<tab, srv, startError, nextId, wire, alive, left>>

\* It crashes or fails to initialize: its output ends.
PeerDies(i) ==
    /\ peer[i].alive
    /\ peer' = [peer EXCEPT ![i].alive = FALSE]
    /\ events' = Append(events, [type |-> "LspServerStopped", server |-> i])
    /\ UNCHANGED <<tab, srv, startError, nextId, wire, alive, left>>

-----------------------------------------------------------------------------
(* The main loop.                                                          *)

EventIs(type) == alive /\ events # <<>> /\ Head(events).type = type

\* The answer to initialize, from the server there is.
ServerReady ==
    /\ EventIs("LspOutput")
    /\ events' = Tail(events)
    /\ IF srv.id = Head(events).server /\ ~srv.initialized
       THEN /\ srv' = [srv EXCEPT !.initialized = TRUE]
            /\ startError' = FALSE
            /\ Tell(Initialized)
       ELSE UNCHANGED <<srv, startError, wire>>
    /\ UNCHANGED <<tab, nextId, peer, alive, left>>

ServerGone ==
    /\ EventIs("LspServerStopped")
    /\ events' = Tail(events)
    /\ IF srv.id = Head(events).server
       THEN srv' = NoServer /\ startError' = TRUE
       ELSE UNCHANGED <<srv, startError>>
    /\ UNCHANGED <<tab, nextId, wire, peer, alive, left>>

PendingEntry(event) == {r \in srv.pending : r.id = event.id}
\* Mutant of Expected: whichever server it came from.
ExpectedOfAny(event) == srv # NoServer /\ PendingEntry(event) # {}
Expected(event) == srv.id = event.server /\ PendingEntry(event) # {}

\* pending has no such id, or there is no such server any more.
IgnoreResponse ==
    /\ EventIs("LspResponse") /\ ~Expected(Head(events))
    /\ events' = Tail(events)
    /\ UNCHANGED <<tab, srv, startError, nextId, wire, peer, alive, left>>

\* The entry is taken out; what is done depends on its kind.
Answered(event) == [srv EXCEPT !.pending = @ \ PendingEntry(event)]
PendingAs(event, kind) == Expected(event) /\ \E r \in PendingEntry(event) : r.kind = kind

\* apply_references fills the list of the search panel.
ApplyReferences ==
    /\ EventIs("LspResponse") /\ PendingAs(Head(events), "references")
    /\ srv' = Answered(Head(events))
    /\ events' = Tail(events)
    /\ UNCHANGED <<tab, startError, nextId, wire, peer, alive, left>>

\* apply_goto_definition: jump to a file, which may have to be opened.
ApplyDefinition ==
    /\ EventIs("LspResponse") /\ PendingAs(Head(events), "definition")
    /\ events' = Tail(events)
    /\ LET d == Head(events).to
           answered == [srv |-> Answered(Head(events)), error |-> startError, out |-> <<>>]
       IN  \E t \in Tabs, text \in Texts :
               /\ OpensInto(d, t, text)
               /\ Becomes(Notified(answered, d, tab'[t].text))
    /\ UNCHANGED <<alive, left>>

\* apply_text_edits, for some tab that shows the file of the entry, if any.
\* The server is not told of the new text.
ApplyEdits ==
    /\ EventIs("LspResponse") /\ PendingAs(Head(events), "edits")
    /\ srv' = Answered(Head(events))
    /\ events' = Tail(events)
    /\ LET event == Head(events)
           d == (CHOOSE r \in PendingEntry(event) : TRUE).doc
       IN  \/ ~Shown(d) /\ UNCHANGED <<tab, alive>>
           \/ \E t \in Tabs :
                 /\ Shows(t, d)
                 /\ LET done == ApplyTextEdits(tab[t].text, event.edits)
                    IN  /\ alive' = done.ok
                        /\ tab' = IF done.ok THEN [tab EXCEPT ![t].text = done.text] ELSE tab
    /\ UNCHANGED <<startError, nextId, wire, peer, left>>

-----------------------------------------------------------------------------

ClientNext ==
    \/ \E d \in Docs, t \in Tabs : OpenFile(d, t)
    \/ \E t \in Tabs : Keystroke(t) \/ CloseTab(t) \/ ReplaceText(t)
    \/ \E t \in Tabs, kind \in Kinds : Ask(t, kind)
    \/ StopServer
    \/ \E i \in Ids : PeerReads(i) \/ PeerAnswers(i) \/ PeerDies(i)
    \/ ServerReady \/ ServerGone \/ IgnoreResponse
    \/ ApplyReferences \/ ApplyDefinition \/ ApplyEdits

ClientSpec == ClientInit /\ [][ClientNext]_clientVars
=============================================================================
