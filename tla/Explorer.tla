------------------------------ MODULE Explorer ------------------------------
(***************************************************************************)
(* The file tree (FileExplorer of main.rs).  A local tree is read again as *)
(* a whole; a remote one one directory at a time, by threads whose         *)
(* listings arrive late and are merged into the rows that are there.       *)
(***************************************************************************)
EXTENDS Integers, Sequences, FiniteSets, Bags, SequencesExt

CONSTANTS
    Things,     \* bound: what the file system may hold, [path, dir] records;
                \* a path is the sequence of its names below the first root
    Hidden,     \* the names that begin with a dot
    Trees       \* bound: the files, whether they are remote, which directories
                \* are open by then (none of a tree that is still to be
                \* listed), and how many steps the user and others take

ASSUME ThingsAssumption == \A thing \in Things : thing.path # <<>> /\ thing.dir \in BOOLEAN

VARIABLES
    ex,         \* State::explorer: root, entries, selected, show_hidden, pending
    remote,     \* the root's kind
    files,      \* external: the file system
    link,       \* external: whether commands reach the host
    threads,    \* a bag of commands under way
    mail,       \* events for the main loop
    userLeft, hostLeft

exVars == <<ex, remote, files, link, threads, mail, userLeft, hostLeft>>

-----------------------------------------------------------------------------
(* Rows.                                                                   *)

Row(thing, depth) == [path |-> thing.path, dir |-> thing.dir, expanded |-> FALSE, depth |-> depth]
Name(path)     == path[Len(path)]
InDir(fs, dir) == {thing \in fs : Front(thing.path) = dir}

\* Directories first, then by name: the order of rows at one depth, and, step
\* by step along their paths, of a whole tree.
Rank(thing, k) == <<IF k < Len(thing.path) \/ thing.dir THEN 0 ELSE 1, thing.path[k]>>
Less(a, b)     == a[1] < b[1] \/ (a[1] = b[1] /\ a[2] < b[2])
Before(a, b) ==
    \/ Len(a.path) < Len(b.path) /\ IsPrefix(a.path, b.path)
    \/ \E k \in DOMAIN a.path \cap DOMAIN b.path :
          /\ \A j \in 1 .. k - 1 : a.path[j] = b.path[j]
          /\ Less(Rank(a, k), Rank(b, k))
InOrder(rows) ==
    [k \in 1 .. Cardinality(rows) |->
        CHOOSE row \in rows : Cardinality({other \in rows : Before(other, row)}) = k - 1]

\* load_dir_entries and remote_listing_to_file_entries: without hidden names
\* unless they are wanted.
Rows(things, depth, hidden) ==
    InOrder({Row(thing, depth) : thing \in
                 {t \in things : hidden \/ Name(t.path) \notin Hidden}})

\* The last row below row i.
EndOf(rows, i) ==
    CHOOSE e \in i .. Len(rows) :
        /\ \A k \in i + 1 .. e : rows[k].depth > rows[i].depth
        /\ e < Len(rows) => rows[e + 1].depth <= rows[i].depth
Below(rows, i) == SubSeq(rows, i + 1, EndOf(rows, i))
PlacesOf(rows, path) == {i \in DOMAIN rows : rows[i].path = path}
FirstOf(places) == CHOOSE i \in places : \A j \in places : i <= j

\* append_refreshed_entries: all rows of a tree with these directories open.
Grown(fs, root, hidden, expanded) ==
    LET depth(t) == Len(t.path) - Len(root) - 1
        shown(t) == /\ depth(t) >= 0 /\ IsPrefix(root, t.path)
                    /\ \A k \in Len(root) + 1 .. Len(t.path) :
                          /\ hidden \/ t.path[k] \notin Hidden
                          /\ k < Len(t.path) => SubSeq(t.path, 1, k) \in expanded
    IN  InOrder({[Row(t, depth(t)) EXCEPT !.expanded = t.dir /\ t.path \in expanded] :
                     t \in {u \in fs : shown(u)}})

Expanded(rows) == {rows[i].path : i \in {k \in DOMAIN rows : rows[k].dir /\ rows[k].expanded}}

\* Mutant of Merged: what was there is listed again, closed.
MergedClosed(old, rows, depth) == rows

\* merge_remote_children: what was there keeps its expansion and its rows.
Merged(old, rows, depth) ==
    LET was(row)  == {i \in PlacesOf(old, row.path) : old[i].depth = depth}
        keep(row) == IF was(row) = {} THEN <<row>>
                     ELSE LET i == FirstOf(was(row))
                              open == row.dir /\ old[i].expanded
                          IN  <<[row EXCEPT !.expanded = open]>>
                              \o (IF open THEN Below(old, i) ELSE <<>>)
    IN  FlattenSeq([k \in DOMAIN rows |-> keep(rows[k])])

Clamped(selected, rows) ==
    IF rows = <<>> THEN 1 ELSE IF selected > Len(rows) THEN Len(rows) ELSE selected

\* The selection stays with its path, else with its place.
Reselected(tree, rows) ==
    LET places == IF tree.selected \in DOMAIN tree.entries
                  THEN PlacesOf(rows, tree.entries[tree.selected].path) ELSE {}
    IN  [tree EXCEPT !.entries = rows,
                     !.selected = IF places = {} THEN Clamped(@, rows) ELSE FirstOf(places)]

\* apply_remote_dir_listing.
Applied(tree, dir, things) ==
    LET rows   == tree.entries
        places == PlacesOf(rows, dir)
        i      == FirstOf(places)
        depth  == rows[i].depth + 1
        merged == Merged(Below(rows, i), Rows(things, depth, tree.hidden), depth)
    IN  Reselected(tree,
            IF dir = tree.root THEN Merged(rows, Rows(things, 0, tree.hidden), 0)
            ELSE IF places # {} /\ rows[i].expanded
            THEN SubSeq(rows, 1, i) \o merged \o SubSeq(rows, EndOf(rows, i) + 1, Len(rows))
            ELSE rows)

\* FileExplorer::new.
Opened(root, isRemote) ==
    [root |-> root, entries |-> IF isRemote THEN <<>> ELSE Rows(InDir(files, root), 0, FALSE),
     selected |-> 1, hidden |-> FALSE, pending |-> {}]

-----------------------------------------------------------------------------

ListDir(dir) == [kind |-> "list", path |-> dir]
Mkdir(thing) == [kind |-> "mkdir", thing |-> thing]
ConnectRoot  == [kind |-> "connect"]
Start(jobs)  == threads' = threads (+) SetToBag(jobs)

ExInit ==
    \E start \in Trees :
        /\ remote = start.remote /\ files = start.files
        /\ userLeft = start.user /\ hostLeft = start.host
        /\ ex = [Opened(<<>>, remote) EXCEPT !.entries =
                      IF remote /\ start.fresh THEN @
                      ELSE Grown(files, <<>>, FALSE, start.open)]
        /\ link = TRUE
        /\ threads = IF remote /\ start.fresh THEN SetToBag({ConnectRoot}) ELSE EmptyBag
        /\ mail = <<>>

ExUser == userLeft > 0 /\ userLeft' = userLeft - 1
ExHost == hostLeft > 0 /\ hostLeft' = hostLeft - 1

\* Mutant of Collapsed: the rows below the first level stay.
CollapsedFirstLevel(i) ==
    LET rows == ex.entries
        gone == {k \in i + 1 .. EndOf(rows, i) : rows[k].depth = rows[i].depth + 1}
    IN  SubSeq(rows, 1, i - 1) \o <<[rows[i] EXCEPT !.expanded = FALSE]>>
        \o FlattenSeq([k \in 1 .. Len(rows) - i |->
               IF i + k \in gone THEN <<>> ELSE <<rows[i + k]>>])

\* A click on a row selects it; on a directory, toggle too.
Collapsed(i) ==
    LET rows == ex.entries
    IN  SubSeq(rows, 1, i - 1) \o <<[rows[i] EXCEPT !.expanded = FALSE]>>
        \o SubSeq(rows, EndOf(rows, i) + 1, Len(rows))
Unfolded(i, children) ==
    SubSeq(ex.entries, 1, i - 1) \o <<[ex.entries[i] EXCEPT !.expanded = TRUE]>> \o children
    \o SubSeq(ex.entries, i + 1, Len(ex.entries))
ClickRow(i) ==
    /\ ExUser /\ i \in DOMAIN ex.entries
    /\ LET row == ex.entries[i]
           shown(rows) == [ex EXCEPT !.entries = rows, !.selected = Clamped(i, rows)]
       IN  \/ /\ ~row.dir
              /\ ex' = [ex EXCEPT !.selected = i]
              /\ UNCHANGED threads
           \/ /\ row.dir /\ row.expanded
              /\ ex' = shown(Collapsed(i))
              /\ UNCHANGED threads
           \/ /\ row.dir /\ ~row.expanded /\ ~remote
              /\ ex' = shown(Unfolded(i, Rows(InDir(files, row.path), row.depth + 1, ex.hidden)))
              /\ UNCHANGED threads
           \/ /\ row.dir /\ ~row.expanded /\ remote
              /\ ex' = [shown(Unfolded(i, <<>>)) EXCEPT !.pending = @ \cup {row.path}]
              /\ Start({ListDir(row.path)})
    /\ UNCHANGED <<remote, files, link, mail, hostLeft>>

\* toggle_hidden: a remote tree waits for its next listings.
ToggleHidden ==
    /\ ExUser
    /\ ex' = [ex EXCEPT !.hidden = ~@, !.selected = 1,
                        !.entries = IF remote THEN @ ELSE Rows(InDir(files, ex.root), 0, ~ex.hidden)]
    /\ UNCHANGED <<remote, files, link, threads, mail, hostLeft>>

\* "Open as root": open_remote_directory connects first, which is done at once
\* or by a thread.
OpenAsRoot(i) ==
    /\ ExUser /\ i \in DOMAIN ex.entries /\ ex.entries[i].dir
    /\ ex' = Opened(ex.entries[i].path, remote)
    /\ IF remote THEN Start({ConnectRoot}) ELSE UNCHANGED threads
    /\ UNCHANGED <<remote, files, link, mail, hostLeft>>

\* New folder, from the menu (ssh_create_dir; a local one is made at once and
\* refresh_explorer_now follows).
RefreshedLocal(tree, fs) ==
    LET rows == Grown(fs, tree.root, tree.hidden, Expanded(tree.entries))
    IN  IF rows = tree.entries THEN tree ELSE Reselected(tree, rows)
Fits(thing) ==
    /\ \A other \in files : other.path # thing.path
    /\ Len(thing.path) = 1 \/ \E other \in files : other.dir /\ other.path = Front(thing.path)
NewFolder(thing) ==
    /\ ExUser /\ thing.dir /\ Fits(thing)
    /\ \/ /\ remote
          /\ Start({Mkdir(thing)})
          /\ UNCHANGED <<ex, files>>
       \/ /\ ~remote
          /\ files' = files \cup {thing}
          /\ ex' = RefreshedLocal(ex, files')
          /\ UNCHANGED threads
    /\ UNCHANGED <<remote, link, mail, hostLeft>>

-----------------------------------------------------------------------------
(* The poll of the main loop, once a second while the tree is shown, and   *)
(* for a local tree twice.                                                 *)

PollRemote ==
    /\ remote
    /\ LET due == ({ex.root} \cup Expanded(ex.entries)) \ ex.pending
       IN  /\ due # {}
           /\ ex' = [ex EXCEPT !.pending = @ \cup due]
           /\ Start({ListDir(dir) : dir \in due})
    /\ UNCHANGED <<remote, files, link, mail, userLeft, hostLeft>>

PollLocal ==
    /\ ~remote
    /\ ex' = RefreshedLocal(ex, files)
    /\ ex' # ex
    /\ UNCHANGED <<remote, files, link, threads, mail, userLeft, hostLeft>>

-----------------------------------------------------------------------------
(* The threads and the files.                                              *)

Ends(job, event) ==
    /\ BagIn(job, threads)
    /\ threads' = threads (-) SetToBag({job})
    /\ mail' = Append(mail, event)
    /\ UNCHANGED <<ex, remote, link, userLeft, hostLeft>>

\* What cannot be reached is an error; a directory that is gone lists nothing.
EndListing(dir) ==
    /\ \/ link /\ Ends(ListDir(dir), [type |-> "listing", path |-> dir, things |-> InDir(files, dir)])
       \/ ~link /\ Ends(ListDir(dir), [type |-> "listingError", path |-> dir])
    /\ UNCHANGED files
EndConnect ==
    /\ Ends(ConnectRoot, [type |-> IF link THEN "connected" ELSE "error"])
    /\ UNCHANGED files
EndMkdir(thing) ==
    LET ends(type) == Ends(Mkdir(thing), [type |-> type, dir |-> Front(thing.path)])
    IN  \/ /\ link /\ Fits(thing)
           /\ files' = files \cup {thing}
           /\ ends("opDone")
        \/ /\ ~(link /\ Fits(thing))
           /\ UNCHANGED files
           /\ ends("opError")

HostAdds(thing) ==
    /\ ExHost /\ Fits(thing)
    /\ files' = files \cup {thing}
    /\ UNCHANGED <<ex, remote, link, threads, mail, userLeft>>
HostRemoves(thing) ==
    /\ ExHost /\ thing \in files
    /\ files' = {other \in files : ~IsPrefix(thing.path, other.path)}
    /\ UNCHANGED <<ex, remote, link, threads, mail, userLeft>>
LinkDrops ==
    /\ ExHost /\ remote /\ link
    /\ link' = FALSE
    /\ UNCHANGED <<ex, remote, files, threads, mail, userLeft>>
LinkReturns ==
    /\ ~link
    /\ link' = TRUE
    /\ UNCHANGED <<ex, remote, files, threads, mail, userLeft, hostLeft>>

-----------------------------------------------------------------------------
(* The main loop.                                                          *)

Handle(type) ==
    /\ mail # <<>> /\ Head(mail).type = type
    /\ mail' = Tail(mail)
    /\ UNCHANGED <<remote, files, link, userLeft, hostLeft>>

OnListing ==
    /\ Handle("listing")
    /\ LET event == Head(mail)
       IN  ex' = Applied([ex EXCEPT !.pending = @ \ {event.path}], event.path, event.things)
    /\ UNCHANGED threads
\* Mutant of OnListingError: what could not be listed stays pending.
OnListingErrorPending == Handle("listingError") /\ UNCHANGED <<ex, threads>>

OnListingError ==
    /\ Handle("listingError")
    /\ ex' = [ex EXCEPT !.pending = @ \ {Head(mail).path}]
    /\ UNCHANGED threads

\* RemoteFsOpDone lists the directory whether or not one is awaited.
ListNow(dir) ==
    /\ ex' = [ex EXCEPT !.pending = @ \cup {dir}]
    /\ Start({ListDir(dir)})
OnOpDone ==
    /\ Handle("opDone")
    /\ ListNow(Head(mail).dir)
OnRootConnected == Handle("connected") /\ ListNow(ex.root)
OnError ==
    /\ Handle("error") \/ Handle("opError")
    /\ UNCHANGED <<ex, threads>>

-----------------------------------------------------------------------------

Dirs == {<<>>} \cup {thing.path : thing \in {t \in Things : t.dir}}

OnMail == OnListing \/ OnListingError \/ OnOpDone \/ OnRootConnected \/ OnError
ExNext ==
    \/ \E i \in DOMAIN ex.entries : ClickRow(i) \/ OpenAsRoot(i)
    \/ ToggleHidden
    \/ \E thing \in Things : \/ NewFolder(thing) \/ EndMkdir(thing)
                             \/ HostAdds(thing) \/ HostRemoves(thing)
    \/ PollRemote \/ PollLocal
    \/ \E dir \in Dirs : EndListing(dir)
    \/ EndConnect
    \/ LinkDrops \/ LinkReturns
    \/ OnMail

\* The threads end, the loop takes its events and polls; the host can be
\* reached again some time.
Done(job) == BagIn(job, threads) /\ threads' = threads (-) SetToBag({job})
Taken     == mail # <<>> /\ mail' = Tail(mail)
ExFairness ==
    /\ \A dir \in Dirs : WF_threads(Done(ListDir(dir)))
    /\ \A thing \in Things : WF_threads(Done(Mkdir(thing)))
    /\ WF_threads(Done(ConnectRoot)) /\ WF_mail(Taken) /\ WF_exVars(LinkReturns)
    /\ WF_exVars(PollRemote) /\ WF_exVars(PollLocal)

ExSpec == ExInit /\ [][ExNext]_exVars /\ ExFairness
=============================================================================
