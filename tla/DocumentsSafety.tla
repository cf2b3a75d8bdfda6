--------------------------- MODULE DocumentsSafety ---------------------------
(***************************************************************************)
(* What tabs promise about the files they show: that reads under way come  *)
(* to an end in the tab, that an unmarked tab shows what was on the disk,  *)
(* and that two tabs of one buffer agree.                                  *)
(***************************************************************************)
EXTENDS Documents

\* A tab waits for a read only while the read's thread runs or its event is on
\* the way: no tab waits for ever, which would also keep it from being read
\* again.  Except where a rename or the copying between tabs gave it another
\* path during the read, which loses it (begin_remote_tab_read;
\* RemoteFileContent and RemoteFileError).
Outstanding(tab) ==
    \/ \E job \in Running("read") : job.token = tab.token /\ job.path = tab.path
    \/ \E k \in DOMAIN inbox_ : /\ inbox_[k].type \in {"RemoteFileContent", "RemoteFileError"}
                                /\ inbox_[k].token = tab.token /\ inbox_[k].path = tab.path
LoadsAreAwaited ==
    \A q \in Places : At(q).token \notin moved \cup {NoRead} => Outstanding(At(q))

\* A tab without the mark of unsaved changes shows a text that its file has
\* had, or is still empty because it waits to be read: closing it loses
\* nothing.  Except for buffers that a split, a late RemoteWriteDone or a
\* Replace All whose write failed unmarked by mistake, or that changed behind
\* the tab in front.
CleanTextsWereOnDisk ==
    \A q \in Places : LET tab == At(q) IN
        tab.kind = "Editor" /\ tab.path # NoPath /\ ~tab.dirty /\ tab.buf \notin wronged
            => tab.text \in known[FileOf(tab.path)] \cup {Blank}

\* After a redraw both tabs of the buffer in front show one text (the copying
\* in render), except for the buffers named above and those that were changed
\* unseen.  "The active pane/tab and text version" of last time are an index
\* and a number: another tab can come to have them, and a tab that was drawn
\* keeps them when the Replace All of the find bar or of the search panel
\* changes its text (EditsRaiseVersion below is what they break).
SiblingsAgree ==
    ~SyncDue /\ HereTab.buf \notin wronged =>
        \A q \in Places : At(q).buf = HereTab.buf => At(q).text = HereTab.text

\* The version of a tab is "incremented on every text mutation; used to skip
\* redundant syncs" (Tab::edit_generation): a step that changes the text of the
\* tab in front, which stays in front, leaves a copying due.  The code breaks
\* it: neither replace_all nor global_replace raises the version.
EditsRaiseVersion ==
    [][/\ Here' = Here
       /\ HereTab'.buf = HereTab.buf
       /\ HereTab'.text # HereTab.text
       => SyncDue']_docVars
=============================================================================
