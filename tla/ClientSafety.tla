---------------------------- MODULE ClientSafety ----------------------------
(***************************************************************************)
(* What is right about the language client of LspClient.                   *)
(***************************************************************************)
EXTENDS LspClient

\* A document at a server once all that is on the wire has been read.
Heard(d, state, m) ==
    IF m.method \in {"didOpen", "didChange", "didClose"} /\ m.doc = d
    THEN [doc |-> DocAfter(state.doc, m),
          confused |-> state.confused \/ Confusing(state.doc, m)]
    ELSE state
Ahead(i, d) ==
    FoldLeft(LAMBDA state, m : Heard(d, state, m),
             [doc |-> peer[i].docs[d], confused |-> peer[i].confused], wire[i])

(* doc_version (lsp.rs 59, 416-454) says what the server knows: whether a  *)
(* document is open there, at which version.  No didOpen comes twice and   *)
(* no version goes back, across closing one of two tabs, restarts, and     *)
(* answers that open files.                                                *)
VersionsMatchServer ==
    srv # NoServer => \A d \in Docs :
        LET ahead == Ahead(srv.id, d)
        IN  /\ ~ahead.confused
            /\ ahead.doc.open <=> srv.version[d] > 0
            /\ ahead.doc.version = srv.version[d]

(* After a key was pressed the server has been sent the text of that tab,  *)
(* whatever has happened to the text or to the server before.              *)
KeystrokesReachServer ==
    [][\A t \in Tabs, i \in Ids, d \in Docs :
          Keystroke(t) /\ srv'.id = i /\ Shows(t, d) =>
              Ahead(i, d)'.doc.text = tab'[t].text]_clientVars

(* An answer is taken for what the server answered: its entry in pending   *)
(* has the same kind and file (lsp.rs 455-497, main.rs 9726-9746), though  *)
(* the ids of every server begin anew.                                     *)
AnswersMeetTheirRequest ==
    \A k \in DOMAIN events : events[k].type = "LspResponse" /\ Expected(events[k]) =>
        \A r \in PendingEntry(events[k]) :
            /\ r.kind = events[k].request.kind
            /\ r.doc = events[k].request.doc

(* Edits for the text they are applied to, none of which reaches into      *)
(* another, never end the program, and if no two begin at one place make   *)
(* what the server meant (2858-2885).  Except where a character of two     *)
(* UTF-16 units stands before one of them on its line: then the code takes *)
(* the column for another place, or for one behind the text.               *)
(* Applied to another text they may do anything: nothing compares versions. *)
EditsForThisText(event, t) ==
    event.type = "LspResponse" /\ tab[t].open /\ event.base = tab[t].text
CurrentEditsApply ==
    \A k \in DOMAIN events, t \in Tabs : EditsForThisText(events[k], t) =>
        LET text  == tab[t].text
            meant == events[k].meant
            done  == ApplyTextEdits(text, events[k].edits)
        IN  Narrow(text, meant) =>
                /\ Disjoint(meant) => done.ok
                /\ Separate(meant) => done.text = AtOnce(text, meant)
=============================================================================
