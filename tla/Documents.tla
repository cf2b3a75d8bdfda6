----------------------------- MODULE Documents -----------------------------
(***************************************************************************)
(* Editor tabs and the files they show (Tab, open_or_reuse_tab, Save,      *)
(* update_paths_after_rename and the SSH events of main.rs; ssh.rs): local *)
(* files are read and written at once, remote ones by a thread for each    *)
(* command, which ends in one event.  One window with two panes, one       *)
(* remote host.  A buffer shown in both panes is copied between its tabs   *)
(* when the window is drawn.                                               *)
(***************************************************************************)
EXTENDS Naturals, Sequences, FiniteSets, Bags, SequencesExt

CONSTANTS
    Panes,          \* the two places a pane can be in
    Local, Remote,  \* files: paths on this machine, paths on the host
    Blank,          \* the empty text
    Texts,          \* bound: the other texts there are
    NoPath,         \* a tab that has no file yet
    Openings,       \* bound: whether the window begins connected, and with
                    \* which file in front; and how many steps the user takes
    MaxTabs         \* bound: tabs of a pane

\* The paths of diff tabs are of no other tab; a window begins with a file that is there.
ASSUME DocumentsAssumption ==
    /\ \E p, q \in Panes : p # q /\ Panes = {p, q}
    /\ Blank \notin Texts /\ NoPath \notin Local \cup Remote /\ Local \cap Remote = {}
    /\ \A path \in Local : <<path>> \notin Local \cup Remote \cup {NoPath}
    /\ \A opening \in Openings :
          /\ opening.disk \in [Local \cup Remote -> Texts \cup {Blank, "absent"}]
          /\ \/ opening.path = NoPath
             \/ opening.path \in Local /\ opening.disk[opening.path] # "absent"

VARIABLES
    tabs,       \* Pane::tabs; <<>> is a pane that is not there
    active,     \* Pane::active
    front,      \* State::active_pane
    synced,     \* last_sync_pane, last_sync_tab and last_sync_gen
    nextBuf, nextRead,  \* next_buf_id, next_remote_read_token
    conn,       \* ssh_connections of the host
    master,     \* external: the ControlMaster's socket is there
    disk,       \* external: the files' texts, or Absent
    jobs,       \* the threads, a bag: two of them may do the same
    inbox_,     \* events for the main loop
    steps,      \* steps the user still takes
    known,      \* history: texts that each path has had on its disk
    wronged,    \* history: buffers marked clean, or given a text, by mistake
    moved       \* history: reads whose tab was given another path meanwhile

docVars == <<tabs, active, front, synced, nextBuf, nextRead, conn, master, disk, jobs,
             inbox_, steps, known, wronged, moved>>

Paths  == Local \cup Remote
NoFile == "absent"
NoRead == 0                                     \* remote_load_token: None

Untitled(buf) == [kind |-> "Editor", buf |-> buf, path |-> NoPath, text |-> Blank,
                  dirty |-> FALSE, token |-> NoRead, gen |-> 0]
Places     == UNION {{p} \X DOMAIN tabs[p] : p \in Panes}
At(place)  == tabs[place[1]][place[2]]
Here      == <<front, active[front]>>
HereTab   == tabs[front][active[front]]
Other(p)   == CHOOSE q \in Panes : q # p

\* Every tab changed by its own rule.
EachTab(Rule(_)) == [p \in Panes |-> [i \in DOMAIN tabs[p] |-> Rule(tabs[p][i])]]

\* A buffer that is given a text in a tab that is not in front, or in front
\* under the version that was drawn last of the tab in that place, is not in
\* agreement with its other tabs until it is in front and changes again.  The
\* version is the old one after a replacement, which does not raise it.
Changed(old, new) == old.gen # new.gen \/ old.text # new.text
Behind(after) == LET turned(r) == after[r[1]][r[2]]
                     hidden(r) == IF r # Here THEN turned(r).text # At(r).text
                                  ELSE /\ Changed(At(r), turned(r))
                                       /\ synced = Here \o <<turned(r).gen>>
                 IN  {At(q).buf : q \in {r \in Places : hidden(r)}}

\* A buffer whose tab in front changed and is left before it was drawn.
Abandoned == LET changed == {r \in Places : At(r).buf = HereTab.buf /\ At(r).text # HereTab.text}
             IN  {At(q).buf : q \in changed}
PutFront(tab) == [tabs EXCEPT ![front][active[front]] = tab]
Blankish(tab)  == tab.kind = "Editor" /\ tab.path = NoPath /\ tab.text = Blank

\* A diff tab's path is relative to the directory the window was started in,
\* so that it is the path of no other tab, but of the same file.
Relative(path) == <<path>>
FileOf(path)   == IF path \in Paths THEN path ELSE path[1]

DocInit ==
    \E opening \in Openings, p \in Panes :
        /\ disk = opening.disk
        /\ known = [f \in Paths |-> {disk[f]} \ {NoFile}]
        /\ tabs = [q \in Panes |-> IF q # p THEN <<>> ELSE
               <<IF opening.path = NoPath THEN Untitled(1)
                 ELSE [Untitled(1) EXCEPT !.path = opening.path, !.text = disk[opening.path],
                                          !.gen = 1]>>]
        /\ active = [q \in Panes |-> 1]
        /\ front = p
        /\ conn = opening.conn
        /\ master = (opening.conn = "Connected")
        /\ synced = <<p, 1, 0>>
        /\ nextBuf = 2 /\ nextRead = 1
        /\ jobs = EmptyBag /\ inbox_ = <<>>
        /\ steps = opening.steps
        /\ wronged = {} /\ moved = {}

-----------------------------------------------------------------------------
(* Reading.                                                                *)

Spawned(job) == jobs (+) SetToBag({job})

\* begin_remote_tab_read for the tabs at some places: connect first, or give
\* each a token and a thread.  ensure_control_master answers by itself if the
\* socket is there.
BeginReads(after, places) ==
    LET order == SetToSeq(places)
        token(k) == nextRead + k - 1
        rank(p, i) == CHOOSE k \in DOMAIN order : order[k] = <<p, i>>
        file(k) == after[order[k][1]][order[k][2]].path
        reads == {[kind |-> "read", token |-> token(k), path |-> file(k)] : k \in DOMAIN order}
    IN  IF places = {} THEN tabs' = after /\ UNCHANGED <<nextRead, jobs>>
        ELSE /\ tabs' = [p \in Panes |-> [i \in DOMAIN after[p] |->
                    IF <<p, i>> \in places THEN [after[p][i] EXCEPT !.token = token(rank(p, i))]
                    ELSE after[p][i]]]
             /\ nextRead' = nextRead + Len(order)
             /\ jobs' = jobs (+) SetToBag(reads)

\* open_or_reuse_tab in the pane in front (the events that were handled
\* before are gone).  A local file may not be readable; then a new tab stays
\* without a file.
OpenOrReuse(path, rest) ==
    LET mine   == tabs[front]
        there  == {i \in DOMAIN mine : mine[i].path = path}
        reuse  == Blankish(HereTab)
        blank  == IF reuse THEN HereTab ELSE Untitled(nextBuf)
        index  == IF reuse THEN active[front] ELSE Len(mine) + 1
        put(tab) == [tabs EXCEPT ![front] = IF reuse THEN [@ EXCEPT ![index] = tab]
                                            ELSE Append(@, tab)]
        loaded == [blank EXCEPT !.path = path, !.dirty = FALSE, !.token = NoRead]
    IN  /\ IF there # {}
           THEN /\ active' = [active EXCEPT ![front] = CHOOSE i \in there : \A j \in there : i <= j]
                /\ inbox_' = rest
                /\ UNCHANGED <<tabs, nextBuf, nextRead, jobs>>
           ELSE /\ reuse \/ Len(mine) < MaxTabs
                /\ active' = [active EXCEPT ![front] = index]
                /\ nextBuf' = IF reuse THEN nextBuf ELSE nextBuf + 1
                /\ \/ /\ path \in Local /\ disk[path] # NoFile
                      /\ tabs' = put([loaded EXCEPT !.text = disk[path], !.gen = @ + 1])
                      /\ inbox_' = rest /\ UNCHANGED <<nextRead, jobs>>
                   \/ /\ path \in Local
                      /\ tabs' = put(blank)
                      /\ inbox_' = rest /\ UNCHANGED <<nextRead, jobs>>
                   \/ /\ path \in Remote /\ conn = "Connected"
                      /\ inbox_' = rest
                      /\ BeginReads(put(loaded), {<<front, index>>})
                   \/ /\ path \in Remote /\ conn # "Connected"
                      /\ tabs' = put(loaded)
                      /\ inbox_' = IF master THEN Append(rest, [type |-> "SshConnected"]) ELSE rest
                      /\ jobs' = IF master THEN jobs ELSE Spawned([kind |-> "connect"])
                      /\ UNCHANGED nextRead
        /\ wronged' = wronged \cup IF there = {} /\ reuse THEN Behind(tabs') ELSE Abandoned

-----------------------------------------------------------------------------
(* The user.                                                               *)

UserActs == steps > 0 /\ steps' = steps - 1

\* From the explorer, the finder or a search.
OpenPath(path) ==
    /\ UserActs
    /\ OpenOrReuse(path, inbox_)
    /\ UNCHANGED <<front, synced, conn, master, disk, known, moved>>

\* The commands that raise the version of the text in front (push_undo, undo,
\* redo, pretty printing, a server's edits): all but the two below.
EditText(text) ==
    /\ UserActs /\ text # HereTab.text
    /\ tabs' = PutFront([HereTab EXCEPT !.text = text, !.dirty = TRUE, !.gen = @ + 1])
    /\ wronged' = wronged \cup Behind(tabs')
    /\ UNCHANGED <<active, front, synced, nextBuf, nextRead, conn, master, disk, jobs,
                   inbox_, known, moved>>

\* replace_all of the find bar: the version stays.
ReplaceMatches(text) ==
    /\ UserActs /\ HereTab.text # Blank
    /\ tabs' = PutFront([HereTab EXCEPT !.text = text, !.dirty = TRUE])
    /\ wronged' = wronged \cup Behind(tabs')
    /\ UNCHANGED <<active, front, synced, nextBuf, nextRead, conn, master, disk, jobs,
                   inbox_, known, moved>>

\* global_replace, for the local files that the search panel lists and that can
\* be read: every tab of each shows what was to be written, unmarked, whether
\* the write failed or not, and its version stays.
ReplaceInFiles(files) ==
    /\ UserActs /\ \A file \in files : disk[file] # NoFile
    /\ \E text \in [files -> Texts \cup {Blank}], written \in SUBSET files :
          /\ disk' = [file \in Paths |-> IF file \in written THEN text[file] ELSE disk[file]]
          /\ known' = [file \in Paths |-> known[file] \cup
                                          IF file \in written THEN {text[file]} ELSE {}]
          /\ tabs' = EachTab(LAMBDA tab : IF tab.path \notin files THEN tab
                                 ELSE [tab EXCEPT !.text = text[tab.path], !.dirty = FALSE])
          /\ wronged' = wronged \cup Behind(tabs')
                        \cup {At(q).buf : q \in {r \in Places : At(r).path \in files \ written}}
    /\ UNCHANGED <<active, front, synced, nextBuf, nextRead, conn, master, jobs, inbox_, moved>>

\* Mutant of SaveText: a remote tab is marked clean when its write begins.
SaveTextAtOnce ==
    /\ UserActs /\ HereTab.path \in Remote
    /\ jobs' = Spawned([kind |-> "write", path |-> HereTab.path, text |-> HereTab.text])
    /\ tabs' = PutFront([HereTab EXCEPT !.dirty = FALSE])
    /\ UNCHANGED <<active, front, synced, nextBuf, nextRead, conn, master, disk, inbox_, known,
                   wronged, moved>>

\* What a diff tab shows is not its text, which begins empty.  A local file
\* may be given to the format command, even if writing it failed, which leaves
\* the mark.
Learned(path, text) == [known EXCEPT ![path] = @ \cup {text}]
SaveText ==
    /\ UserActs /\ HereTab.path # NoPath
    /\ LET tab == HereTab
           file == FileOf(tab.path)
       IN  \/ /\ file \in Local
              /\ \/ /\ disk' = [disk EXCEPT ![file] = tab.text]
                    /\ known' = Learned(file, tab.text)
                    /\ tabs' = PutFront([tab EXCEPT !.dirty = FALSE])
                 \/ UNCHANGED <<disk, known, tabs>>
              /\ \/ jobs' = jobs
                 \/ jobs' = Spawned([kind |-> "format", path |-> tab.path])
           \/ /\ file \in Remote
              /\ jobs' = Spawned([kind |-> "write", path |-> file, text |-> tab.text])
              /\ UNCHANGED <<disk, known, tabs>>
    /\ UNCHANGED <<active, front, synced, nextBuf, nextRead, conn, master, inbox_,
                   wronged, moved>>

\* close_editor_tab.  The last tab of a pane takes it along; the last of all
\* ends the program, and is not closed here.
CloseDoc(p, i) ==
    /\ UserActs /\ <<p, i>> \in Places /\ Cardinality(Places) > 1
    /\ LET rest == RemoveAt(tabs[p], i)
       IN  /\ tabs' = [tabs EXCEPT ![p] = rest]
           /\ active' = [active EXCEPT ![p] =
                             IF rest = <<>> THEN 1 ELSE IF @ > Len(rest) THEN Len(rest) ELSE @]
           /\ front' = IF front = p /\ rest = <<>> THEN Other(p) ELSE front
    /\ wronged' = wronged \cup Abandoned
    /\ UNCHANGED <<synced, nextBuf, nextRead, conn, master, disk, jobs, inbox_, known,
                   moved>>

\* The keys for a split copy the tab, the Split commands its text, path and
\* buffer; only the former keep that it is dirty, or being read, or a diff.
SplitPane(whole) ==
    /\ UserActs /\ tabs[Other(front)] = <<>>
    /\ LET copy == IF whole THEN HereTab
                   ELSE [Untitled(HereTab.buf) EXCEPT !.text = HereTab.text,
                                                       !.path = HereTab.path]
       IN  /\ tabs' = [tabs EXCEPT ![Other(front)] = <<copy>>]
           /\ wronged' = IF [copy EXCEPT !.gen = HereTab.gen] = HereTab
                         THEN wronged \cup Abandoned
                         ELSE wronged \cup Abandoned \cup {copy.buf}
    /\ nextBuf' = IF whole THEN nextBuf ELSE nextBuf + 1
    /\ active' = [active EXCEPT ![Other(front)] = 1]
    /\ front' = Other(front)
    /\ synced' = IF synced[1] = front' THEN <<front', 0, 0>> ELSE synced  \* a fresh pane id
    /\ UNCHANGED <<nextRead, conn, master, disk, jobs, inbox_, known, moved>>

\* A click on a tab.
Switch(p, i) ==
    /\ UserActs /\ <<p, i>> \in Places /\ <<p, i>> # Here
    /\ front' = p
    /\ active' = [active EXCEPT ![p] = i]
    /\ wronged' = wronged \cup Abandoned
    /\ UNCHANGED <<tabs, synced, nextBuf, nextRead, conn, master, disk, jobs, inbox_,
                   known, moved>>

\* open_diff_tab for a file that has no diff tab in the pane yet.
OpenDiff(path) ==
    /\ UserActs
    /\ ~\E i \in DOMAIN tabs[front] : /\ tabs[front][i].kind = "GitDiff"
                                    /\ tabs[front][i].path = Relative(path)
    /\ LET reuse == Blankish(HereTab)
           tab == [Untitled(nextBuf) EXCEPT !.kind = "GitDiff", !.path = Relative(path)]
       IN  /\ reuse \/ Len(tabs[front]) < MaxTabs
           /\ tabs' = IF reuse THEN PutFront(tab) ELSE [tabs EXCEPT ![front] = Append(@, tab)]
           /\ active' = IF reuse THEN active ELSE [active EXCEPT ![front] = Len(tabs[front]) + 1]
    /\ nextBuf' = nextBuf + 1
    /\ wronged' = wronged \cup Abandoned
    /\ UNCHANGED <<front, synced, nextRead, conn, master, disk, jobs, inbox_, known,
                   moved>>

-----------------------------------------------------------------------------
(* Renaming, from the explorer.                                            *)

\* update_paths_after_rename; a read under way is for the old path.
Misled == {At(q).token : q \in {r \in Places : tabs'[r[1]][r[2]].path # At(r).path}} \ {NoRead}
Renamed(tab, old, new) == IF tab.path = old THEN [tab EXCEPT !.path = new] ELSE tab
UpdatePaths(old, new) ==
    /\ tabs' = EachTab(LAMBDA tab : Renamed(tab, old, new))
    /\ moved' = moved \cup Misled
MoveFile(old, new) ==
    /\ disk' = [disk EXCEPT ![new] = disk[old], ![old] = NoFile]
    /\ known' = [known EXCEPT ![new] = @ \cup known[old]]

RenameLocal(old, new) ==
    /\ UserActs /\ disk[old] # NoFile /\ disk[new] = NoFile
    /\ MoveFile(old, new)
    /\ UpdatePaths(old, new)
    /\ UNCHANGED <<active, front, synced, nextBuf, nextRead, conn, master, jobs, inbox_,
                   wronged>>

\* ssh_rename_path and ssh_create_file.
FsOp(job) ==
    /\ UserActs
    /\ jobs' = Spawned(job)
    /\ UNCHANGED <<tabs, active, front, synced, nextBuf, nextRead, conn, master, disk,
                   inbox_, known, wronged, moved>>
RenameRemote(old, new) == FsOp([kind |-> "rename", old |-> old, new |-> new])
CreateRemote(path) == FsOp([kind |-> "create", path |-> path])

-----------------------------------------------------------------------------
(* The threads, and the host.                                              *)

Finish(job, event) ==
    /\ jobs' = jobs (-) SetToBag({job})
    /\ inbox_' = Append(inbox_, event)
    /\ UNCHANGED <<tabs, active, front, synced, nextBuf, nextRead, conn, steps, wronged,
                   moved>>

Running(kind) == {job \in BagToSet(jobs) : job.kind = kind}
SshError == [type |-> "SshError"]

\* ensure_control_master's thread says that it starts, then how it went.
StartConnecting == \E job \in Running("connect") :
    /\ jobs' = (jobs (-) SetToBag({job})) (+) SetToBag({[kind |-> "dial"]})
    /\ inbox_' = Append(inbox_, [type |-> "SshConnecting"])
    /\ UNCHANGED <<tabs, active, front, synced, nextBuf, nextRead, conn, steps, wronged,
                   moved, master, disk, known>>
EndConnecting == \E job \in Running("dial") :
    /\ \/ master' = TRUE /\ Finish(job, [type |-> "SshConnected"])
       \/ master' = master /\ Finish(job, SshError)
    /\ UNCHANGED <<disk, known>>

EndRead == \E job \in Running("read") :
    /\ \/ /\ master /\ disk[job.path] # NoFile
          /\ Finish(job, [type |-> "RemoteFileContent", token |-> job.token, path |-> job.path,
                          text |-> disk[job.path]])
       \/ Finish(job, [type |-> "RemoteFileError", token |-> job.token, path |-> job.path])
    /\ UNCHANGED <<master, disk, known>>

EndWrite == \E job \in Running("write") :
    /\ \/ /\ master
          /\ disk' = [disk EXCEPT ![job.path] = job.text]
          /\ known' = Learned(job.path, job.text)
          /\ Finish(job, [type |-> "RemoteWriteDone", path |-> job.path, text |-> job.text])
       \/ Finish(job, SshError) /\ UNCHANGED <<disk, known>>
    /\ UNCHANGED master

FsOpDone(old, new, open) ==
    [type |-> "RemoteFsOpDone", old |-> old, new |-> new, open |-> open]
FsOpError == [type |-> "RemoteFsOpError"]
EndRename == \E job \in Running("rename") :
    /\ \/ /\ master /\ disk[job.old] # NoFile /\ disk[job.new] = NoFile
          /\ MoveFile(job.old, job.new)
          /\ Finish(job, FsOpDone(job.old, job.new, NoPath))
       \/ Finish(job, FsOpError) /\ UNCHANGED <<disk, known>>
    /\ UNCHANGED master
EndCreate == \E job \in Running("create") :
    /\ \/ /\ master /\ disk[job.path] = NoFile
          /\ disk' = [disk EXCEPT ![job.path] = Blank]
          /\ known' = Learned(job.path, Blank)
          /\ Finish(job, FsOpDone(NoPath, NoPath, job.path))
       \/ Finish(job, FsOpError) /\ UNCHANGED <<disk, known>>
    /\ UNCHANGED master

\* The formatter makes some text of the file, or leaves it, or fails.
EndFormat == \E job \in Running("format") :
    /\ LET file == FileOf(job.path)
       IN  \/ \E text \in Texts : /\ disk[file] # NoFile
                                  /\ disk' = [disk EXCEPT ![file] = text]
                                  /\ known' = Learned(file, text)
           \/ UNCHANGED <<disk, known>>
    /\ Finish(job, [type |-> "FormatterDone", path |-> job.path])
    /\ UNCHANGED master

\* The master ends by itself; nothing here hears of it.
MasterEnds ==
    /\ master /\ master' = FALSE
    /\ UNCHANGED <<tabs, active, front, synced, nextBuf, nextRead, conn, disk, jobs,
                   inbox_, steps, known, wronged, moved>>

-----------------------------------------------------------------------------
(* The main loop.                                                          *)

Arrives(type) == inbox_ # <<>> /\ Head(inbox_).type = type
Quiet == UNCHANGED <<active, front, synced, nextBuf, master, disk, steps, known>>

ConnEvent(type, state) ==
    /\ Arrives(type)
    /\ conn' = state
    /\ inbox_' = Tail(inbox_)
    /\ Quiet /\ UNCHANGED <<tabs, nextRead, jobs, wronged, moved>>
OnConnecting == ConnEvent("SshConnecting", "Connecting")
OnSshError   == ConnEvent("SshError", "Failed")

\* Every empty remote tab that waits for nothing is read.
OnConnected ==
    /\ Arrives("SshConnected")
    /\ conn' = "Connected"
    /\ inbox_' = Tail(inbox_)
    /\ BeginReads(tabs, {q \in Places : /\ At(q).kind = "Editor" /\ At(q).path \in Remote
                                        /\ At(q).text = Blank /\ At(q).token = NoRead})
    /\ Quiet /\ UNCHANGED <<wronged, moved>>

Awaited(tab, event) == tab.path = event.path /\ tab.token = event.token
\* Mutant of Answer: an answer that is not wanted any more leaves the tab waiting.
AnswerOrIgnore(tab, event) ==
    IF ~Awaited(tab, event) \/ tab.dirty \/ tab.text # Blank THEN tab
    ELSE [tab EXCEPT !.token = NoRead, !.text = event.text, !.gen = @ + 1]
Answer(tab, event) ==
    IF ~Awaited(tab, event) THEN tab
    ELSE IF tab.dirty \/ tab.text # Blank THEN [tab EXCEPT !.token = NoRead]
    ELSE [tab EXCEPT !.token = NoRead, !.text = event.text, !.gen = @ + 1]

OnContent ==
    /\ Arrives("RemoteFileContent")
    /\ tabs' = EachTab(LAMBDA tab : Answer(tab, Head(inbox_)))
    /\ wronged' = wronged \cup Behind(tabs')
    /\ inbox_' = Tail(inbox_)
    /\ Quiet /\ UNCHANGED <<conn, nextRead, jobs, moved>>

OnFileError ==
    /\ Arrives("RemoteFileError")
    /\ tabs' = EachTab(LAMBDA tab : IF Awaited(tab, Head(inbox_)) THEN [tab EXCEPT !.token = NoRead]
                                    ELSE tab)
    /\ inbox_' = Tail(inbox_)
    /\ Quiet /\ UNCHANGED <<conn, nextRead, jobs, wronged, moved>>

\* Whatever the tab holds by now is marked clean.
OnWriteDone ==
    /\ Arrives("RemoteWriteDone")
    /\ LET event == Head(inbox_)
           marks(tab) == tab.path = event.path
       IN  /\ tabs' = EachTab(LAMBDA tab : IF marks(tab) THEN [tab EXCEPT !.dirty = FALSE] ELSE tab)
           /\ wronged' = wronged \cup {At(q).buf : q \in
                  {r \in Places : marks(At(r)) /\ At(r).dirty /\ At(r).text # event.text}}
    /\ inbox_' = Tail(inbox_)
    /\ Quiet /\ UNCHANGED <<conn, nextRead, jobs, moved>>

\* The file replaces whatever the tabs hold by now.
OnFormatterDone ==
    /\ Arrives("FormatterDone")
    /\ LET path == Head(inbox_).path
       IN  tabs' = IF disk[FileOf(path)] = NoFile THEN tabs
                   ELSE EachTab(LAMBDA tab : IF tab.path = path
                            THEN [tab EXCEPT !.text = disk[FileOf(path)], !.dirty = FALSE, !.gen = @ + 1]
                            ELSE tab)
    /\ wronged' = wronged \cup Behind(tabs')
    /\ inbox_' = Tail(inbox_)
    /\ Quiet /\ UNCHANGED <<conn, nextRead, jobs, moved>>

OnFsOpDone ==
    /\ Arrives("RemoteFsOpDone")
    /\ LET event == Head(inbox_)
       IN  \/ /\ event.open = NoPath
              /\ UpdatePaths(event.old, event.new)
              /\ inbox_' = Tail(inbox_)
              /\ UNCHANGED <<active, nextBuf, nextRead, jobs, wronged>>
           \/ /\ event.open # NoPath
              /\ OpenOrReuse(event.open, Tail(inbox_))
              /\ moved' = moved
    /\ UNCHANGED <<front, synced, conn, master, disk, steps, known>>

\* RemoteFsOpError only changes the status line.
OnFsOpError ==
    /\ Arrives("RemoteFsOpError")
    /\ inbox_' = Tail(inbox_)
    /\ Quiet /\ UNCHANGED <<conn, tabs, nextRead, jobs, wronged, moved>>

\* GitOpDone: diff tabs are closed in every pane; one that is left without
\* tabs gets an untitled one.
OnGitOpDone ==
    /\ \E q \in Places : At(q).kind = "GitDiff"
    /\ LET kept(p) == FoldLeft(LAMBDA rest, tab :
                                  IF tab.kind # "GitDiff" THEN Append(rest, tab) ELSE rest,
                              <<>>, tabs[p])
           emptied == {p \in Panes : tabs[p] # <<>> /\ kept(p) = <<>>}
       IN  /\ tabs' = [p \in Panes |-> 
                         IF p \in emptied THEN <<Untitled(nextBuf + Cardinality(emptied \ {front, p}))>>
                         ELSE kept(p)]
           /\ nextBuf' = nextBuf + Cardinality(emptied)
           /\ active' = [p \in Panes |-> IF kept(p) = <<>> THEN 1
                                         ELSE IF active[p] > Len(kept(p)) THEN Len(kept(p))
                                         ELSE active[p]]
    /\ wronged' = wronged \cup Abandoned
    /\ UNCHANGED <<front, synced, nextRead, conn, master, disk, jobs, inbox_, steps,
                   known, moved>>

\* Mutant of SyncDue: a tab that was drawn already is not copied again.
SyncDueOnce == <<synced[1], synced[2]>> # <<front, active[front]>>

\* The window is drawn: the tab in front gives its text, path and mark to the
\* tabs of its buffer, unless it is the one, and the version, of last time.
SyncDue == synced # <<front, active[front], HereTab.gen>>
Redraw ==
    /\ SyncDue
    /\ tabs' = EachTab(LAMBDA tab : IF tab.buf # HereTab.buf THEN tab
                                    ELSE [tab EXCEPT !.text = HereTab.text,
                                                     !.path = HereTab.path,
                                                     !.dirty = HereTab.dirty])
    /\ synced' = <<front, active[front], HereTab.gen>>
    /\ moved' = moved \cup Misled
    /\ UNCHANGED <<active, front, nextBuf, nextRead, conn, master, disk, jobs, inbox_,
                   steps, known, wronged>>

-----------------------------------------------------------------------------

UserNext ==
    \/ \E path \in Paths : OpenPath(path)
    \/ \E path \in Remote : CreateRemote(path)
    \/ \E path \in Local : OpenDiff(path)
    \/ \E text \in Texts \cup {Blank} : EditText(text) \/ ReplaceMatches(text)
    \/ \E files \in SUBSET Local \ {{}} : ReplaceInFiles(files)
    \/ \E q \in Places : CloseDoc(q[1], q[2]) \/ Switch(q[1], q[2])
    \/ \E whole \in BOOLEAN : SplitPane(whole)
    \/ \E old, new \in Local : RenameLocal(old, new)
    \/ \E old, new \in Remote : old # new /\ RenameRemote(old, new)
    \/ SaveText

DocNext ==
    \/ UserNext
    \/ StartConnecting \/ EndConnecting \/ EndRead \/ EndWrite \/ EndRename \/ EndCreate
    \/ EndFormat \/ MasterEnds
    \/ OnConnecting \/ OnSshError \/ OnConnected \/ OnContent \/ OnFileError \/ OnWriteDone
    \/ OnFormatterDone \/ OnFsOpDone \/ OnFsOpError \/ OnGitOpDone
    \/ Redraw

DocSpec == DocInit /\ [][DocNext]_docVars
=============================================================================
