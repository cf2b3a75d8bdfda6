# local-text: verification of an editor and its collaborative sessions

local-text is a text editor written in Rust (one event-loop thread that owns all
state, worker threads that talk to it through events). This directory holds TLA+
models of its text buffer, collaborative editing, tabs and files, panes, file tree,
search, finder, terminal and language servers, the TLC configurations that check them
and proofs checked by TLAPS. `PROJECT.json` lists the components, the runs, what each
definition translates, the hazards and the theorems.

## 1. The system

The process has one event loop (`State` in `src/src/main.rs`, 1892) that runs key
and mouse handlers and `user_event` (9692). Everything slow runs in threads that
end by posting a `UserEvent`. There is no shared mutable state besides the
collaboration's registry of guest channels; the hard behaviours are therefore
events that arrive later than the state they were meant for.

| Component | State | Operations | Interactions |
|---|---|---|---|
| Operational transformation (`collab.rs` 466-646) | none | `extract_ops`, `apply_ops_to_rope`, `xform_*`, `integrate_remote_against_inflight`, `adjust_cursor` | called by the collab handlers |
| Collaborative session (`collab.rs` 239-390, 750-1029; `main.rs` 3228-3268, 5092-5336, 10095-10245) | `CollabSession`: peers, in-flight queues, clocks, remote cursors, permissions; registry of guest channels; `collab_before` | host, join, leave, edit, save, permission and role changes | TCP connection per guest, a reader and a writer thread per side, events |
| Frames, encryption, invitations (`collab.rs` 392-464) | session key | encode, decode | used by the session |
| Guest file access (`collab.rs` 655-735, `main.rs` 5209-5313) | file list | FileList, FileRequest | the session |
| Text buffer (`main.rs` 269-282, 2095-2690, 4470-4567, 8243-8284, 9311-9651) | rope, cursors, undo and redo stacks, `last_typing`, the limit | multi-cursor edits, undo, redo, movement, find and replace, clicks | notifies LSP and collaboration |
| Tabs, saving, remote files (`main.rs` 553-705, 2740-2880, 5380-5470, 9820-10060, 10383-10407) | tabs, mark of unsaved changes, read token, SSH state | open, edit, save, split, close, rename, late contents and write results | SSH threads, formatter threads |
| LSP client (`lsp.rs`, `main.rs` 2858-3226, 9706-9800) | server, versions, pending requests | start, initialize, notify, ask, answer, stop | child processes, reader threads |
| LSP registry (`lsp_registry.rs`, `main.rs` 3070-3110, 8620-8760, 9747-9800) | files and sockets shared by processes | register, list, reap, stop, move | other local-text processes |
| SSH (`ssh.rs`) | control sockets | connect, read, write, list, rename | remote hosts |
| Paths (`vpath.rs`) | none | parse, format | everything |
| File explorer (`main.rs` 707-1005, 6260-6300, 10030-10060) | rows, selection, listings awaited | unfold, hide, refresh, merge listings, poll | SSH |
| Panes and layout (`main.rs` 1010-1530 and their callers) | pane tree, panes, active pane, drag | split, drop, close, hide, the events that open and close panes | everything |
| Terminal (`terminal.rs`) | cells, cursor, region, two screens, scrollback | escape sequences, resize | child shell |
| Global search (`main.rs` 6030-6260, 9840-9880) | query, results, selection, token | search, references, Replace All, Enter | worker threads, LSP |
| Quick finder (`main.rs` 4840-5060, 8500-8600) | query and its mode, entries, preview, history of places | type, choose, Escape, go back | worker thread |
| Git panel, settings, rendering | panel state | runs of git, JSON, drawing | worker threads |

What is hard, and where: concurrent edits crossing on the wire; a guest that is
registered before it is a member and whose frames outlive its connection; two
copies of the permission matrix; text captured by one edit and compared by a later
event; answers of servers, formatters and remote hosts that arrive after the text
has changed; several processes sharing a registry directory. The list of hazards in
`PROJECT.json` gives the lines.

What would make each component correct: both sides of a concurrent edit end with
one document, and cursors keep their place (transformation); every guest is given
every edit once and in order, a queue of in-flight edits matches the wire, rosters
and roles follow the host, nobody outside the peer list is obeyed (session); no edit
is lost by undo at its limits (buffer); a late answer changes only what it was asked
for, a text that is not marked as changed is on the disk (tabs); the server is told every
text, and an answer is taken for what it answered (LSP); a server limit is respected, a
dead process's entries go and a living server's stay (registry); the tree comes to show
the files (explorer); the active pane always exists and is in sight, and a tab or terminal
is in one pane (layout); no sequence of bytes and sizes reaches a cell that is not there
(terminal); results are of the last query (search); a preview is undone (finder).

## 2. Modules

    TextOps            the transformation algebra, no state
      TextOpsProofs      theorems about the algebra (with FoldFacts), and what sending,
                         receiving and losing do to a channel
      ConcurrentEdits    two sides of one document, one exchange
        MCConcurrentEdits
      CollabSession      host, connections, guests
        CollabSafety       its properties (INSTANCE OrderAuthority)
          MCCollab
            MCEventually     CollabSession and Explorer, with fairness
          CollabProofs       theorems: members, roles, rosters; ConcurrentEdits
                             (with TextOpsProofs and FoldFacts)
            CollabEditProofs   theorems: texts, queues, order (with TextOpsProofs)
    OrderAuthority     abstract specification of the host's promise to the guests

    MultiCursor        the multi-cursor commands as operators, no state
      Buffer             one tab: text, cursors, undo and redo
        BufferSafety       its properties (INSTANCE UndoTimeline)
          MCEditing          Buffer and ConcurrentEdits (with MCConcurrentEdits)
          BufferProofs       theorems: undo and redo, several cursors (with FoldFacts)
    UndoTimeline       abstract specification of undo and redo

    LspRegistry        the windows of one user and their registry of servers
      RegistrySafety
    TextEdits          how a server's edits are applied, no state
      LspClient          one window and its language server
        ClientSafety
          MCServers        registry and client
          ServersProofs    theorems of both (with TextOpsProofs)

    Documents          tabs and files, local and remote
      DocumentsSafety
    Terminal           the grid behind a terminal tab
      TerminalSafety
    Layout             the tree of panes, no state
      Panes              the panes and everything that moves them
        PanesSafety
    GlobalSearch       the search panel
      SearchSafety
    Finder             the quick finder and the history of places
      FinderSafety
          MCWorkbench      Documents, Terminal, Panes, GlobalSearch and Finder
          WorkbenchProofs  theorems about Documents, GlobalSearch and Finder (with FoldFacts)
          WindowProofs     theorems about Panes, its Layout and Terminal (with FoldFacts)
    Explorer           the file tree
      ExplorerSafety
          MCEventually     (see CollabSession)

    FoldFacts          what a fold computes over a sequence of any length

The components of a window share its user and event loop, and no variable: what one says
to another (a tab is opened, a server answers with references, a diff tab is closed) is an
action of each of the two. `MCServers`, `MCWorkbench`, `MCEditing` and `MCEventually` therefore put several
components into one run as a sum: a variable `subject` chooses one, which runs alone while the others
stay at their beginning. This checks each component as a run of its own would; a component
at its beginning has no fair action that could change anything, so `MCEventually` may
assume the fairness of both of its parts.

**TextOps** translates `collab.rs` 466-646. Documents are sequences of characters,
positions the 0-based offsets of the code, an `Option` that is `None` is `NoOp`.
Clamping is kept: `ApplyOp` is `apply_ops_to_rope` with its `min`s, `Monus` is
`saturating_sub`. Loops that mutate a vector in place are folds over it. A cursor is
its head; the code adjusts the tail by the same function.

**ConcurrentEdits** puts the algebra to work as the guest's Op arm does: up to
`MaxEntries` unacknowledged edits near, one edit far, from the same text, then
`IntegrateRemoteAgainstInflight`, `ApplyOps` and `AdjustCursor`. What is left in
`nearInflight` is what the other side would have to apply. The document (`Base`) is any
sequence of different characters, near types characters of its own (`Fresh`), far new
ones or one of the document again (`FarTexts`).

**CollabSession** is the session with its threads.

- Node 0 is the host, node s the guest of the s-th accepted connection. A direction
  of a connection passes a channel, a writer thread, a socket, a reader thread and the
  event loop's queue; all are first in, first out, so each direction is one sequence:
  `toHost[s]`, `toGuest[s]`. The host's own operations and cursors also pass the
  channel `hostOut` and the host writer thread (`HostWriter`).
- `guestTxs` is the registry of channels; `linkUp` says whether the socket works. A
  frame for a registered guest whose socket is dead is lost (`Send`). `ConnectionLost`
  loses any suffix of both directions; `ReaderEof` is the host's reader thread seeing
  the end, removing the registry entry at once and queueing the `Left` event behind
  what the guest had sent.
- `phase` of a guest: `idle`, `connecting` (Join sent, waiting in `connect_guest` for
  Welcome), `joined`, `detached` (Welcome came while the active pane was no editor:
  the session is dropped and the connection lives on), `closed`.
- Local input is one key event: `KeyEvent` is the tail every key handler ends in,
  `notify_collab_change` and `send_collab_cursor_if_needed`. `Edit`, `Move`, `Undo`
  and `Save` say what happens before. `DeferredEdit` is `replace_current`, which edits
  and does not notify, so the captured text (`snapshot`, `collab_before`) stays for a
  later event, perhaps on another tab (`SwitchTab`).
- Each arm of `handle_collab_msg` and each `Collab*` event is an action: `HostJoin`,
  `HostOp`, `HostCursor`, `HostRoleRequest`, `HostLeft`; `GuestWelcome`, `GuestOp`,
  `GuestAck`, `GuestCursor`, `GuestRoster`, `GuestFileSaved`, `GuestDisconnected`;
  `GuestSkips` is what a connecting or detached guest throws away.
- Abstractions: an edit replaces at most one character by at most one character, which
  is its author's; names, colours, keys and the file list are left out; permissions are
  sets, the code's bit masks; the 50 ms debounce of cursor frames is a choice to send
  or not. `RequestRole` stands for a peer that speaks the protocol, since no handler of
  this client sends that frame.
- `log`, `seen` and `orderly` are history, `budget` bounds the behaviours.

**OrderAuthority** is the abstract promise: a growing order of edits, a point at
which each subscriber enters it, and delivery of each later element exactly once.
`CollabSafety` maps to it the guests' edits in the host's order, `server_clock` of a
guest's Welcome as its point of entry, and the operations and acks the guest handled.

**MultiCursor** translates the editing, movement and search commands of `main.rs`
(269-282, 2095-2690, 4470-4540, 5822) as operators on a text and a sequence of cursors.
The six deletions, the insertion and the cut share one loop in the code, written out
eight times: sort the cursors, shift each by the running delta, remove its selection or
what the command reaches from a caret, merge. Here `Reach` says how far a command
reaches, `EditAt` is one turn of the loop, `Edited` the loop and the merging.
A cursor that has nothing to remove is skipped and not shifted (`Acts`), as in the code.
Characters are what the commands tell apart: word, newline, other.

**Buffer** is one tab outside of a session: `Insert`, `PastePerCursor`, `Delete`, `Cut`,
`ReplaceCurrent`, `ReplaceEvery`, `FormatterDone` write the text; `Move`,
`AddCursorAbove`, `AddCursorBelow`, `AddNextMatch`, `SelectMatches`, `FindStep`,
`Collapse`, `SelectAll` and the clicks and drags of `Mouse` place cursors; `Undo`,
`Redo`, and `SetLimit` on the settings page. Every edit calls `PushUndo` first.
Steps that would end the program (a cut of a selection behind the end of the text, a
replace-all of overlapping matches) are not taken.

**UndoTimeline** is what undo promises: the texts a buffer has had are a line in time
and one of them is the present. `BufferSafety` maps to it the texts of the undo stack,
the present text and the texts of the redo stack from its top down.

**LspRegistry** is seen for one language on one host. Each process has a phase (not
started, starting its first servers before it listens, running, dead), its servers and
its control socket; `entries` is the directory. `list_live` is not atomic: `Scanning`
reads the directory, `Probe` looks at one entry, `Reap` removes one that did not answer
and its socket, and `Counted` or `Listed` use the result; other processes start, stop,
end and crash between any two of them. A stop request is a thread (`Deliver`, `GiveUp`,
`TakeReply`) that meets the other's main loop (`StopRequested`) and may give up first.
`raced` is history.

**LspClient** has the tabs' texts, the server record with its versions and pending
requests, what is on each server's stdin (`wire`), and the events of the reader threads.
The server is external: it reads in order, answers in any order, may die at any time, and
is restarted with a new id while events of the old one are still under way. `peer` is what
it knows. `TextEdits` is the application of a list of edits, last first. A server counts
lines and UTF-16 units (`Position`); the code adds the units to the character its line
begins at (`Offset`), so that the two differ behind a character of two units. An answer
carries what was sent (`edits`) and, as history, the places that were meant (`meant`).

**Documents** has two panes with their tabs, a local disk that is read and written at once
and a remote host where every read, write, rename and creation is a thread that ends in
any order (`jobs`, ended by `EndRead`, `EndWrite`, `EndRename`, `EndCreate`, `EndFormat`)
and posts one event (`inbox_`). `Redraw` is the copying between tabs of one buffer, keyed
by `edit_generation` as in the code. `EditText` stands for the commands that raise that
number, `ReplaceMatches` and `ReplaceInFiles` for the two that do not: Replace All of the
find bar and of the search panel. `known` (the texts a file has had), `wronged` and
`moved` are history: the last two hold the buffers and tokens to which something of
section 5 happened.

**Explorer** keeps the rows with depth and expansion as the code does. Unfolding a remote
directory spawns a listing thread; its event is merged by cutting and splicing rows. The
poll refreshes what is open unless a listing is awaited. The file system and the
connection are external and change by themselves a bounded number of times.

**Layout** and **Panes**: the tree is a function from paths of halves to pane ids. Panes
are editors, terminals, Markdown previews and outputs of language servers. The drag of a
tab or terminal is several actions (`ClickItem`, `DragOver`, then `DragEnds` or `Release`),
between which keys and events go on. `strayed` is history.

**Terminal** is the grid: a vector of cells, cursor, region, saved cursor, alternate
screen, scrollback. One action is one printed character, escape sequence or size. `Panic`
marks an access outside of the vector.

**GlobalSearch**: a search is a thread with a token; `OnSearchDone`, references from a
server, typing, the mouse, Enter and Replace All act on one list. An entry's column is what
the code holds: bytes of the line in lower case if a search found it, UTF-16 units if a
server named it; `Bytes`, `Units` and `Lower` say how wide a character is and what it is in
lower case, and `at` is, as history, the place that is meant. Replace All reads columns as
bytes of the line of then, and panics within a character (`Cuts`). It acts on the list while
the query is empty: on references, and on results that were found before the query was
cleared; with any other query it starts a search first, which empties the list. **Finder** has its modes
(files, hosts, palette, go to line), the thread that walks the files, the preview that
moves the cursor below, and the history of places. `overtaken` and `disturbed` are
history.

## 3. Runs

| Run | Shows | Distinct states |
|---|---|---|
| `session_ops` | in-flight queues, convergence, cursors, refinement | 246,915 |
| `eventually` | welcome and acknowledgement under fairness; the tree under late listings, and that it catches up (203,551 of the states) | 254,899 |
| `session_roster` | membership, rosters, roles, with a second, untitled tab | 396,462 |
| `editing` | multi-cursor edits, merging, undo and redo under limits (100,795); the algebra on edits that cross (29,380) | 130,175 |
| `servers` | the registry between two windows, and the client of a server | 1,333,341 |
| `workbench` | documents, terminal, panes, search and finder, each on its own | 1,195,848 |
| `rebase_contract`, `host_order`, `role_config`, `dropped_writes`, `unraised_version`, `unsafe_replace` | six statements of the code's comments that the code does not keep | until the counterexample |

`session_ops` has two connections, one file, and any two user actions or failures
(edits, deferred edits, saves, cursor frames, moves, undo, exits, lost connections).
- `InflightMatchesWire`: a guest's in-flight queue equals the acks on their way to it
  followed by its edits on their way to the host.
- `TurnsConverge`: when nothing is on its way and no edit raced another (`orderly`),
  every guest has the host's document. `orderly` becomes false when somebody edits,
  or saves, while an edit is in transit, when a refused write is applied, when a guest
  joins while a host edit waits in `hostOut` or with another tab in front, after a
  deferred edit and after an undo. In each of these the code does diverge.
- `CursorsStayInDocument`: applying a received edit does not take a cursor out.
- `ImplementsOrderAuthority`: the refinement.

`eventually` bounds the session's edits and failures and asks that a connecting guest is
welcomed or fails and that an edit is acknowledged while the connection lives. Fairness: weak
fairness of the host's writer thread, of each handler of a queued event and of the end
of a reader thread. The event loop takes events in arrival order and threads block only
on their own channel, so an enabled step is taken. Nothing is assumed of users or of
the network.

`session_roster` has Moderator guests, role requests, one cell of the permission
matrix, crashes and exits: `SendersAreMembers`, `RostersCatchUp` (the frames on the way
to a guest turn its roster and role into the host's, at every moment),
`RolesChangeByManagers`.

`editing` begins a tab with any one or two cursors (selections in both directions, carets
inside and at the edges of selections, as clicks with Alt make them) in four texts with
words, blanks and line ends, and takes any command and then undo and redo; from a text of
two characters it takes two commands and from one character, under limits 1, 2 and none,
three. In every state it also tries every command on the state (the properties about
`Edits`), so that two commands in a row are covered from every start. Two
cursors are what one turn of the loop and one comparison of the merge see; three commands
are what fills a stack of two and one more.
- `EditsAreSimultaneous`: the running delta gives what replacing every cursor's range at
  the same time would. It holds for cursors that are apart (`Separated`) and, where a
  command looks for the end of a word or a line, ranges that are apart. Without that
  the code does delete twice or too far: a caret right of a selection whose word reaches
  back over it is the shortest example.
- `EditsLeaveCursorsSound` joins two. `EditsLeaveCursorsApart`: after any edit cursors
  neither overlap nor touch, even if a click with Alt had put them into each other.
  `EditsKeepCursorsInText`: no cursor ends behind the end of the text. For the forward
  deletions and cut it holds if every cursor has something to delete: one that has not
  is left where it was, and with a shorter text it is outside.
- `AddingKeepsSelections`: adding a cursor deselects nothing as long as selections run
  forwards; merging with one that runs backwards forgets its beginning.
- `TypingRunIsNewest`, `StacksRespectLimit`, `ImplementsUndoTimeline`: coalescing, the
  limits while they change, and the refinement. Replace-all and the formatter are the
  exceptions the refinement names: they rewrite the present version and push nothing.

`editing` also takes, for the algebra alone, every edit of a three-character document near
(up to two in flight) against every edit far, the far side winning or losing ties. Three
characters give every relation of two ranges (disjoint, touching, overlapping, nested,
equal); two entries reach the rebasing of a compound over a compound. Its properties:
`ExtractedOpsReproduceEdits`, `CursorKeepsItsPlace` and `SimpleEditsConverge`, which joins
`InsertionsConverge`, `InsertionAndDeletionConverge` and `OverlappingDeletionsMerge`. The
last two say exactly where the code converges; outside of them it does not (section 5).

`servers`, a registry of two windows with a limit of one server. One window may start a
server twice, the other once and has the manager panel; either may list, stop, be asked to
stop, end or crash. Two processes are what one scan distinguishes, the scanner and the one
that is scanned; a limit of one is what two starts exceed.
- `NoGhostEntries`, `AnsweringServersStayListed`, `CrashedSlotsReclaimed`: what a scan may
  remove and must remove while others start, end and crash between its halves.
- `LimitHoldsUnlessRaced`: `raced` is set where a server starts while another process
  counts, an entry cannot be written, or one is removed whose server runs. All three happen;
  nothing else breaks it.
- `StoppedMeansFree`: a reply that a server was stopped is true when it arrives, though the
  request may have been given up or its process may have ended.

The client there has two tabs of one file, up to two servers one after the other, three
steps of the user from the beginning and four from a window with an open document. That is
what a late answer needs: a request, a restart and a second request with the same id.
- `VersionsMatchServer`: the versions held here are those of the server once it has read
  its pipe, across the closing of one of two tabs and restarts.
- `KeystrokesReachServer`: after a key the server has been sent the text of that tab.
- `AnswersMeetTheirRequest`: whatever answers came late or from a server that was stopped.
- `CurrentEditsApply`: edits for the text they are applied to do what the server meant,
  unless a character of two UTF-16 units stands before one of their places on its line
  (`Narrow`); for such a character and for another text see section 5. The texts have two
  lines and such a character, so that the run meets both sides of the condition.

`workbench`, five components, each with bounds of its own:
- Documents, one local and two remote files (one of them absent), two panes with up to two
  tabs, three steps of the user, beginning with a blank tab or with the local file and a
  connection. Threads and the connection move at will. `LoadsAreAwaited`,
  `CleanTextsWereOnDisk`, `SiblingsAgree`. `unraised_version` adds `EditsRaiseVersion`,
  which the code breaks. Three steps open a file, change or split it and
  save, rename, close or open again, which is where an event meets a tab it was not meant
  for.
- Terminal, after some output, at sizes 2×2, 3×3 and 0×0: three sequences or changes of
  size out of all the model has, with parameters up to 2 and a scrollback of 2. `GridSound`,
  `ResizeKeepsSession`. The parameters reach behind every edge of such a grid.
- Panes, four or five steps with up to four pane ids and two items in a pane. `PanesSound`.
  Five steps press on a tab, move it, close a pane, have an event and let go.
- GlobalSearch, two files, five tasks, three queries (one of them empty). In one case the
  files have a character of two bytes and one of three bytes whose lower case has one.
  `AnswersAreCurrent`; `ReplacesAtOnce`, for lists whose columns are the bytes before the
  places meant (`Apt`), with one place named twice; `unsafe_replace` shows what happens to
  others. Five tasks are two searches that overtake one another, references or a cleared
  query, a file written by another program, and Replace All.
- Finder, five strokes, three files of which the walk finds two, three pages and two
  visits. `PreviewIsUndone`. Five strokes open it, preview, change mode, preview again and
  leave.

`eventually` begins the tree in five ways, four on a host and one on this machine: a fresh tree, trees with
one or two open directories, and a hidden name that is a file or becomes a directory; the
user and the host have one or two steps each.
- `RowsAreAWalk`: the rows are a walk through a tree, and one of them is selected.
- `ListingsKeepTheRest`: a listing touches its directory alone and keeps open what is open.
- `TreeCatchesUp`: the rows come to be what reading the tree anew would show. `ExFairness`
  is weak fairness of the end of each thread, of taking an event, of the two polls (a timer
  of the event loop) and of the return of the connection: a tree whose host never answers
  again shows the past. Nothing is assumed of the user and the host's files but that they
  come to rest, which the bounds see to.

Where code and property part, a history variable marks the exception and section 5 names
it: `orderly`, `raced`, `wronged`, `moved`, `strayed`, `overtaken`, `disturbed`. Each is set
by the step after which the property may fail; of everything else the property holds.

Deadlock is not checked: a window in which everybody is idle, or whose bounds are
spent, has no next step.

Bounds of the session are constants: `MaxSites` connections, `Limits` user actions and
failures of each kind and in total. Two connections are what the code distinguishes (the sender and
the others; a peer that is there and one that comes or goes); reconnecting is a new
connection and is covered by the second. One limit of two per behaviour is what two
racing actors need. Those of the other modules are constants as well (`MaxOps`, `Starts`, `Trees`,
`Openings`, `Outputs`, `Begins`, `MaxTasks`, `MaxStrokes`). The theorems hold for any
bounds.

## 4. Proofs

The module constants are arbitrary but for the named assumptions of each module, so a
theorem holds for any number of connections, files, permissions, windows, texts and limits.

`FoldFacts` has what every proof about a fold needs, for an operator `Op`
that is a parameter of the module: the values the fold passes through (`FoldTrace`), one
element more at either end, two sequences joined, what each application preserves. The
provers cannot instantiate a lemma with an operator, but `INSTANCE FoldFacts WITH Op <- ...`
can, and one line per fold says that `FoldLeft` is the fold of the instance. This is how
what a loop does to a list of unknown length is proved; where the models filter they do so
by a fold. `TLC`'s `:>` and `@@` are not known to the provers, so the models build functions
by their definition.

`TextOpsProofs`, about the algebra on any text:
- `ConcurrentInsertionsConverge`, `InsertionOutsideDeletionConverges`,
  `OverlappingDeletionsAgree`: the three cases in which single concurrent edits meet;
- `ExtractedOpsRebuild`: `ApplyOps` of what `extract_ops` returns gives the new text;
- `CursorStaysInText` for one operation, and `CursorKeepsPlace` for any sequence: a cursor
  that follows the operations is on the same side of every character that survives them;
- `IntegratedCompound`: integrating a compound leaves operations to apply and each entry in
  flight in its place, under its clock.
At its end stand the lemmas about channels that the proofs of the session and of the servers
share: what sending, receiving and losing frames do to the set of frames on their way.

`BufferProofs`, undo and redo, for any texts, inserts, queries and limits of at least 1
(`LimitsAssumption`; a limit of 0 ends the program at the first edit):
- `TypingRunAlwaysNewest` and `StacksAlwaysRespectLimit`, from the invariant `Stacks`
  (both stacks are sequences, the limit is one, and a typing run has an entry and no
  future), which is inductive. `StepKinds` sorts all steps into undo, redo, recorded
  edits, unrecorded writes, placing of cursors and changes of the limit; the first four
  are all that the proofs look at.
- `BufferImplementsTimeline`: `Spec => ImplementsUndoTimeline`. `VersionsAt` gives the
  versions by their index; `EditedVersions`, `UndoneVersions`, `RedoneVersions` and
  `RewrittenVersions` say how the line changes when a stack is pushed (with or without
  the loss of its oldest entry) and popped; one lemma per kind of step follows.

`BufferProofs`, several cursors, for any texts, cursors, commands and inserts
(`TextsAssumption`: texts are made of characters, and a buffer begins with a cursor):
- `BufferAlwaysTyped`: `Spec => []Typed`, inductive together with `Stacks`. Each action has
  a lemma; the ends of words and lines, the merging, the batch, the searches and the filters
  are functions or folds into cursors and texts. In particular there is always a cursor.
- `AddingAlwaysKeepsSelections`: `Spec => AddingKeepsSelections`. `Keeps` follows
  `dedup_cursors` from the left: what is merged so far covers what the cursors so far cover,
  and still runs forwards (`MergeKeeps`).
- `EditsAlwaysLeaveCursorsSound`: `Spec => []EditsLeaveCursorsSound`. That cursors are apart
  follows from the merging alone (`MergedInTurn`). That they are in the text needs the batch:
  `Ranges` of independent cursors stand in a row (`RangesInTurn`), each shifted by the delta
  so far is the range the command would find in the text of then (`RangeMoves`), and that
  text is what is built from the ranges so far, and behind it the text as it was
  (`BatchInTurn`, with `GoesOn`). A cursor is then at the end of what was built for it
  (`Arrived`), or, where it does not act, where it was, which is within the text in the cases
  the property names.
- `EditsAreAlwaysSimultaneous`: `Spec => []EditsAreSimultaneous`. The batch goes from range
  to range, replacing at once from place to place. `BuiltPlaceByPlace` lets the second catch
  up with the first: behind the k-th range both have built the same (`PlacesDone`), for between
  two ranges every place stays (`StaysThere`) and within one none does. `HeadsCounted` does
  the same for the carets, counting the places that stay and the ranges that begin
  (`Counted`). The one walk takes a place once, the other each range once: where two ranges
  begin at one place they would part. Cursors are apart, so two begin together only at the
  start of the text, where the first has nothing left to remove and nothing is put in
  (`Twice`, `TwiceAtStart`).
The model sorts cursors by a `CHOOSE` over all orders and filters by folds, since the provers
know nothing of `SortSeq` and `SelectSeq`.

`CollabProofs` (`ConstantsAssumption`):
- `SessionTypeCorrect`: `Spec => []TypeOK`. `TypeOK` is not inductive: a guest's peer
  list and clock come from frames. `Typed` adds what each frame on its way carries
  (`GuestFrame`, `HostFrame`) and that what waits in `hostOut` are operations and
  cursors. One lemma per action.
- `SendersAlwaysMembers`: `Spec => []SendersAreMembers`. Whether a frame finds its
  sender in the peer list depends on where Join and Left stand in its channel. The
  invariant `Membership` says, for each connection: before it is accepted nothing is
  queued and it is no member; Join is the first frame and then the guest is no member
  yet; Left is the last frame and then the guest is not registered; whoever has a
  request queued is a member; whoever is joined, or has a Welcome on its way, over a
  working connection is a member.
- `RolesOnlyChangedByManagers`: `Spec => RolesChangeByManagers`, from `Typed`, one
  case per action that changes the host's peers.
- `RostersAlwaysCatchUp`: `Spec => []RostersCatchUp`. The invariant `Rosters` folds the
  frames behind each point from which a guest may start to read (what it has joined with,
  or a Welcome on its way) into the list of peers and the role it will then have, and says
  that they are the host's; a frame that is lost is lost with everything behind it.

`CollabProofs`, two editors alone (`DocumentAssumption`: the document is not empty, its
characters differ, and near's are new to it; sites differ as the host gives them out). The
invariant `Sides` holds until the two sides meet: near's entries in flight
are those that lead, text by text, from the document to near's (`Typing`), near's
characters differ, and far's operations are extracted from its one edit. `Met` says that the
properties hold once they have met; no step follows.
- `OpsAlwaysReproduceEdits`: `CrossSpec => []ExtractedOpsReproduceEdits`.
- `SimpleEditsAlwaysConverge`: `CrossSpec => []SimpleEditsConverge`. For insertions the fold
  of `integrate_remote_against_inflight` is followed entry by entry: near's text after the
  k-th edit with what is left of far's insertion is far's text with the first k entries as
  rebased (`Meeting`), and `ConcurrentInsertionsConverge` carries this one entry further
  (`MeetingGoesOn`). For single operations `SinglesMeet` computes what either side has, and
  `KeptIsDeletion` says that what both sides kept is the text without the joined range.
- `CursorAlwaysKeepsItsPlace`: `CrossSpec => []CursorKeepsItsPlace`, from `CursorKeepsPlace`
  with what far typed as the characters that are new.

`CollabEditProofs`, about the edits of the session:
- `CursorsAlwaysStayInDocument`: `Spec => CursorsStayInDocument`, from the invariant
  `Documents`: texts, snapshots, entries in flight and operations on their way are made of
  the session's characters. What a guest integrates is an operation by `IntegratedCompound`,
  and a cursor that follows it stays in the text. It speaks of the step that applies an
  edit and of the window's own cursor in its active tab: one that was outside before, as
  CollabConnected may leave it, may stay outside.
- `InflightAlwaysMatchesWire`: `EveryoneMayWrite => (Spec => []InflightMatchesWire)`. The
  invariant `Flight` adds that the clocks of a queue rise up to the guest's own, so that an
  Ack's `retain` removes one entry, the first; that queues of a guest without a session are
  empty; and that the host's permissions are those it began with. The assumption that every
  role may write is needed: the host answers a write it refuses neither with an Ack nor to
  the others, so its author's queue keeps the entry (section 5, no. 4). `session_ops`, which
  checks the property, has only such roles, and the default permissions of the code refuse
  writes to Viewers alone.
- `SessionImplementsOrderAuthority`: `Spec => ImplementsOrderAuthority`. The invariant
  `Ordered` says of each guest that what it was given, followed by what the frames behind
  its start will give it, is the host's order from the point where it entered, up to its end
  as long as the link is up. `OrderStep` is then a commit when the host takes an edit, a
  delivery when a guest takes an operation or an Ack, an entry when it takes its Welcome,
  and a stutter otherwise.

`ServersProofs`, the registry, for any set of processes and any limit (`RegistryAssumption`):
- `LivingHaveNoGhosts`, `CrashedSlotsAlwaysReclaimed` and `AnsweringServersAlwaysListed`
  from `Listing`: types; the id of an entry is below its process's next one; an entry of a
  living process has a server there; and for each scan under way, who was dead when it
  began is still dead, was not counted, and has its entries ahead of the scan or condemned.
- `StoppedAlwaysMeansFree` from `Requests`, which adds to `Listing` that every request in
  an inbox or a call, every server in a panel and every server that runs has an id that was
  given out, so that no later server takes the id of one that was stopped.
- `LimitAlwaysHoldsUnlessRaced` from `Limited`: as long as nothing has raced, every
  server that runs is listed, a process that counts has seen it or has still to look at its
  entry, and no more run than the limit.

`ServersProofs`, the client, for any files, texts, edits and number of servers
(`ClientAssumption`):
- `AnswersAlwaysMeetTheirRequest`. The invariant `Traffic` follows a request from the pipe
  to the server's memory to the events: what the current server was asked has an id that was
  given out, and agrees with the entry in `pending` that has this id (`Traced`); an answer
  carries its request's id (`Labelled`); and nothing has been asked of a server that was not
  yet started (`Unasked`).
- `VersionsAlwaysMatchServer` and `KeystrokesAlwaysReachServer`, from `Traffic` with what
  the messages on a server's pipe will make of its documents, a fold of `Heard`: for each
  tab and each document of the current server, the version held here is the one it will
  have, 0 if it will have none, and no message on the pipe finds the document in a state it
  is not for (`Versions`); nothing was told to a server not yet started (`Told_`); what the
  window shows and what an event aims at is a tab or document that exists (`Shown_`,
  `Targets`). A key then adds one message (`TellingOf`)
  and leaves the server with the tab's text.

`WorkbenchProofs`, the tabs, for any files, texts, openings and number of tabs
(`DocumentsAssumption`: there are two panes; a path is local or remote, not both; the
relative path of a diff tab is no other tab's; a window begins blank or with a local file
that is there):
- `LoadsAreAlwaysAwaited`. The invariant is the types of tabs, threads and events
  (`DocTyped`) and the property itself, said of the set `Reading_` of tokens with their
  paths that a thread reads or an event brings. `JobsKept` follows that set through every
  end of a thread and every event; `OpenTabs`, `RenamedTabs` and their like say for each
  action where each tab comes from, whatever becomes of its index.
- `CleanTextsAlwaysWereOnDisk`. `CleanInv` gives every event in the inbox a past: what
  each remote file was known to have had when the event was posted (`Remembers`). An event
  tells of texts that were known then, and a rename carries what was known of the old path
  over to the new one, between its past and the next. An unmarked tab of a remote file shows
  a text from the past of the next event; the last past is below `known`. This is needed
  because `known` of a path is what the disk had under that name, which a tab follows only
  when the rename's event is handled. Besides, the tabs of a buffer are of one kind
  (`Kinds`), since a redraw copies path and mark from one to the other.
- `SiblingsAlwaysAgree`. The property speaks of the buffer in front after a redraw; the
  invariant `Agree` adds that of every buffer that is not in front all tabs have one text.
  Leaving a tab that was changed and not drawn gives its buffer up (`LeftAgree`); a step that
  leaves all tabs in place changes the one in front, with a version that is yet to be drawn,
  or gives up what it changed (`TurnedAgree`). Neither Replace All raises the version: a
  buffer that one changes in front under the version drawn last is given up (`Behind`), and
  that this is needed is what `unraised_version` shows.

`WorkbenchProofs`, the panels:
- `PreviewAlwaysUndone`, for any files, queries, hosts and pages (`FinderAssumption`). The
  invariant `Previewing` says what is known of the tabs as they were when go to line was
  entered: they differ from it at most in the tab the preview remembers, with the place it
  had, and that tab is at the line of the query.
- `AnswersAreAlwaysCurrent`, for any files, texts and queries (`SearchAssumption`). The
  invariant `Searched` says that tokens number the searches, under way or answered, up to the
  last one given, each token one of the two and once (`Numbered`); that what is shown answers
  the last search; and that, as long as nothing was overtaken, nothing is shown while the
  last search is under way (`StillAwaited`).
- `AllReplacedAtOnce`: `SearchSpec => ReplacesAtOnce`, from `Searched`, for characters of
  any width. A character has at least one byte, so columns rise with places and tell them
  apart (`ColumnsRise`, `ColumnsDiffer`): of a list whose columns are right no entry ends
  within a character, and each place is counted as often as the list names it (`AptTimes`).
  Only a replacement with an empty query writes files, so nothing is taken out of a line
  (`ReplacedIsAtOnce`): after each step from the end, what stands before the place is the
  line's beginning and what stands behind it is the end of what replacing at once gives
  (`Split_`).

`WindowProofs`, the panes, for any number of panes, tabs and steps (`PanesAssumption`):
- `PanesAlwaysSound`. The invariant `Sound` says what a pane is (`IsPane`: its kind, and an
  item that is shown), that each terminal is in one pane (`TermsFit`), that previews, servers
  and drag name what there is, and that the layout is a tree (`Tree`): finitely many paths of
  which any two stand in an order (`Ordered`), none being the beginning of another. What
  `InsertPane` and `RemovePane` make of a tree is a tree with the leaves one expects
  (`InsertKeepsTree`, `RemoveKeepsTree`), and every tree with leaves has a first one
  (`FirstLeafFound`), which takes the focus. `Sound` is not inductive by itself: a drag
  remembers an item while panes are closed, so a drop finds its source smaller or gone. The
  code checks the one and not the other, which is what `strayed` marks; `Fine` says of each
  step that it strays, ends the program by the user's wish, or keeps `Sound`.

`WindowProofs`, the terminal, for any sizes, scrollback, parameters and outputs
(`TerminalAssumption`: a pane gives its terminal a row and a column at least; tests begin
with neither):
- `GridsAreAlwaysSound`. The invariant `IsGrid` says that there is a cell for each place and
  no other, that the cursor is on the screen or just behind its line, the region within it,
  and the same of the screen that is saved while the alternate one is shown, for the size of
  now and not of then. A row ends within the vector (`RowsFit`), so the ranges of every
  sequence do; `RewrappedFits` follows `resize_screen` from the lines it wraps to the rows
  it returns, and `KeptFits` bounds the scrollback.

Only model-checked:
- liveness, which needs ENABLED and fairness: `GuestsAreWelcomed`, `EditsAreAcknowledged`,
  `TreeCatchesUp`;
- `TurnsConverge`. When nothing is on its way everybody has the host's text: its invariant
  would have to say, for every state in between, what the texts will be when all frames
  have arrived, while each frame is rebased on the way. `orderly` makes this a sequence of
  operations applied in one order; the argument remains to be written;
- `CurrentEditsApply`: a fold over edits in the order of their starts, with a choice of the
  line break that a position counts from, against replacing at once;
- `RowsAreAWalk` and `ListingsKeepTheRest`: the explorer merges listings by `SelectSeq` and
  by splices of rows;
- `ResizeKeepsSession`: what text is on the screen after a new size, over `FlattenSeq` and
  `SelectSeq` of all rows.

## 5. Where the code and its comments part

1. `collab.rs` 540-541 promises two rebased sides. `xform_dd` merges deletions of
   ranges that do not touch into one range, an insertion strictly inside a concurrently
   deleted range is lost on one side only, and a consumed in-flight operation keeps its
   old form (`rebase_contract`).
2. `collab.rs` 4 calls the host the total-order authority. Its own operations take the
   writer thread and relayed ones do not, so a guest can see another order
   (`host_order`). For the guests' edits alone the promise holds (`session_ops`).
3. `collab.rs` 253 calls the permissions host-authoritative; the click in the matrix
   changes the settings and the guests, not the host's session (`role_config`).
4. `main.rs` 5156 drops unauthorized writes silently, after applying them to the host's
   document (`dropped_writes`).
5. `main.rs` 569 says that `edit_generation` is incremented on every text mutation. Replace
   All of the find bar (4560) and of the search panel (6185) change texts without it, so the
   redraw does not copy them to the other pane (`unraised_version`); when the tab there comes
   to the front, it gives its old text back.
6. `main.rs` 6167 sorts the list for a safe replacement. Its columns are UTF-16 units (2845)
   or bytes of the line in lower case (6135-6139), and the line is sliced at that many of its
   own bytes (6175): the program panics within a character (`unsafe_replace`), after it wrote
   some of the files, or puts the text in elsewhere.

Modelled without a run of their own: a guest that joins while an edit waits in
`hostOut` receives it twice; FileSaved overtakes the host's own edits in the same way;
undo on the host restores a text from before the session and sends nothing;
CollabConnected writes the host's document into whichever tab is in front; cursors are
not relayed between guests; the host's in-flight queue is never emptied. Of the buffer:
the conditions in `EditsAreSimultaneous`, `EditsKeepCursorsInText` and
`AddingKeepsSelections` mark where the commands go wrong; a typing run goes on over cursor
moves, so that one undo removes what was typed in several places; replace-all cannot be
undone.

What the history variables of the other modules mark, and what else the models do because
the code does:

- **Documents** (`wronged`, `moved`). Splitting by command copies text, path and buffer
  without the mark of unsaved changes, and the next redraw spreads that to the other tab.
  A redraw copies nothing when pane, index and version are those of the last one, but
  another tab can come to have them: when the tab drawn last is closed, the one that moves to
  its index may be edited up to that version before the window is drawn, and its buffer's
  other tab goes on showing the old text until the next edit. It takes five steps of the
  user (open, split, click, close, edit); `Behind` excepts it from `SiblingsAgree`, as it
  does a replacement under the version drawn last (no. 5). Replace All of the search panel
  shows what was to be written, unmarked, even if the write failed.
  RemoteWriteDone unmarks a tab that has been edited since; FormatterDone replaces later
  edits. A remote tab that is still loading can be saved, which writes an empty file. A
  remote file opened in a blank tab that is reused does not bump `edit_generation`, so the
  buffer's other tab does not learn its path; a rename during a read loses the read. Cmd+S
  on a diff tab writes its text. Split and Preview of a tab's menu act on the active tab.
- **LSP.** Two windows that start servers at once exceed the limit, and a window that
  starts servers before its socket is bound (`resumed`) loses their entries to another's
  scan; so does an entry that could not be written, of which nobody hears. Edits are applied
  to whatever text the tab has by then; their columns, UTF-16 units, are counted as
  characters, so that behind a character of two units they hit another place or end the
  program; several edits at one start are applied in the order of the array, so that the last
  stands first. didClose is sent for documents that
  were never opened.
- **Panes** (`strayed`). A drop whose source or target pane was closed during the drag
  panics or loses the pane; hiding the only pane in sight leaves a tree that names a pane
  that is gone; palette commands for a tab panic in a terminal pane. Dragging a server's
  output away from its pane orphans that pane.
- **GlobalSearch** (`overtaken`). A search that ends after references took the list
  replaces it and leaves the selection behind its end: Enter panics. Replace All drops the
  final newline and CRLF, overwrites unsaved edits of open tabs, and starts a search before
  it reads the list, which leaves it something to replace only for an empty query. Its
  columns are bytes or UTF-16 units (no. 6). In GlobalSearch
  every write succeeds; one that fails is in Documents.
- **Finder** (`disturbed`). Cmd+P over a preview keeps what the preview remembered, so that
  a later Escape moves another tab. The line and the path of an earlier query are not
  forgotten when the finder is opened, and Enter with nothing typed uses them. The history
  clamps to the last character, so the end of a file cannot be returned to.
- **Terminal.** A size that changes while the cursor waits behind a full line puts it back
  into the line; inserting and deleting lines with the cursor below the region erases
  rows elsewhere; what scrolls off the alternate screen goes to the shell's scrollback.
- **Explorer.** Showing hidden files on a host does not list anew, the next poll does; a
  remote directory that was removed lists as empty.

## 6. Not modelled

Of the modelled components:

- session: redo; edits of a guest that is still connecting (it has no session yet and they
  are replaced by the document); replace-all, formatting and LSP edits, which change text
  without capturing it; a second session in the same process, whose old threads still post
  events;
- buffer: the indentation Enter adds in Python files, loading another content into a tab,
  scrolling. The session's branch of `push_undo` is in CollabSession, the copies of a buffer
  in several panes in Documents, a language server's edits in TextEdits and LspClient;
- Documents: files that are too large, reloading a tab from the session's file list, two
  windows on one file (the code has no lock and no check of the time of change);
- LSP: the JSON of the messages, diagnostics, which are only drawn, several languages at
  once, whose servers share nothing but the code;
- Explorer: the filter above the tree; Panes: the dividers; Terminal: colours, titles, the
  encoding of keys and the pty; Finder and GlobalSearch: scores, globs and the editing of
  the fields.

Not modelled at all, and why:

- the session's file list and file requests answer without keeping state, and no code of
  the client asks;
- frames, encryption and invitations encode and decode: a connection is a first-in
  first-out channel of decoded frames that may break;
- paths are parsed and formatted by pure string functions that have unit tests;
- the git panel runs git and shows what it printed; what it does to tabs is in Documents
  and Panes. Settings are read and written as a whole;
- rendering, highlighting and the platform layer draw.

The hazards in `PROJECT.json` without a property are those where the code goes wrong and
the models follow it: in the session (the steps that end `orderly`, and the second session),
a formatter's edits for a text of the past, and a Replace All whose write fails; and the
replacement of overlapping matches, which Buffer does not take. Each has a note.
The next steps that would add most: a second session in one process (its threads post
events without saying whose they are), redo in a session, and two windows that edit one
file.
