---------------------------- MODULE CollabSession ----------------------------
(***************************************************************************)
(* A collaborative session: the host's main loop and writer thread, one    *)
(* connection (accept, per-guest reader and writer threads, socket) per    *)
(* guest, and the guests' main loops.  Sources: src/collab.rs and the      *)
(* collab handlers of src/main.rs.                                         *)
(*                                                                         *)
(* Node 0 is the host; node s > 0 is the guest of the s-th accepted        *)
(* connection, so a guest that reconnects is a new node.  The threads of a *)
(* direction of a connection (mpsc channel, writer thread, socket, reader  *)
(* thread, event loop proxy) form one FIFO: toHost[s] and toGuest[s].  The *)
(* host's own operations and cursors take one more hop, the channel        *)
(* hostOut that the host's writer thread fans out.                         *)
(*                                                                         *)
(* Every node has the same files open, one tab each, with one cursor.      *)
(***************************************************************************)
EXTENDS TextOps, FiniteSets, TLC, Functions

CONSTANTS
    MaxSites,      \* bound on accepted connections
    Files,         \* the open tabs of a node
    Untitled,      \* a tab without a path (its path string is empty on the wire)
    DocFile,       \* the host's active tab when it started the session
    HiddenFiles,   \* files with a path component that starts with a dot
    Chars,         \* characters; a node types its own number
    DiskText,      \* [Files -> text]: what the tabs hold before the session
    OldText,       \* the host's undo entry for DocFile, pushed before the session
    DefaultRole,   \* settings.collab_role_perms.default_role
    InitialPerms,  \* settings.collab_role_perms, [Roles -> SUBSET Perms]
    Toggles,       \* the cells of the settings' permission matrix a host may click
    Limits         \* bounds on user actions and failures: one per kind, one in total

Roles == {"Viewer", "Contributor", "SystemAccess", "Moderator"}
Perms == {"VIEW_FILES", "WRITE_FILES", "VIEW_HIDDEN", "WRITE_HIDDEN",
          "VIEW_TERMINALS", "OPEN_TERMINALS", "MANAGE_ROLES"}
LimitKinds == {"edits", "moves", "deferred", "undos", "switches", "saves",
               "cursors", "toggles", "requests", "exits", "losses", "total"}

ASSUME ConstantsAssumption ==
    /\ MaxSites \in Nat \ {0}
    /\ DocFile \in Files
    /\ HiddenFiles \subseteq Files
    /\ 0 .. MaxSites \subseteq Chars
    /\ DiskText \in [Files -> Seq(Chars)] /\ OldText \in Seq(Chars)
    /\ DefaultRole \in Roles
    /\ InitialPerms \in [Roles -> SUBSET Perms]
    /\ Toggles \subseteq Roles \X Perms
    /\ Limits \in [LimitKinds -> Nat]

Host  == 0
Sites == 1 .. MaxSites
Nodes == 0 .. MaxSites

VARIABLES
    \* connections
    nextSiteId,     \* the accept loop's counter
    guestTxs,       \* domain of the guest_txs registry
    linkUp,         \* connections whose socket works
    toHost, toGuest, hostOut,
    \* session membership
    phase,          \* guest: "idle" "connecting" "joined" "detached" "closed"
    peers,          \* CollabSession.peers, site -> role
    myRole, rolePerms,
    settings,       \* the host's settings.collab_role_perms
    \* documents
    text, dirty, active, cursor,
    snapshot,       \* State.collab_before, <<>> or <<text>>
    undoStack,      \* the host's undo entries for DocFile
    inflight, localClock, serverClock, remoteCursors,
    \* history
    log,            \* operations in the order the host applied them
    seen,           \* per guest: operations and acks in the order it handled them
    orderly,        \* no edit so far raced another or bypassed the session
    budget          \* what is left of Limits

netVars    == <<nextSiteId, guestTxs, linkUp, toHost, toGuest, hostOut>>
memberVars == <<phase, peers, myRole, rolePerms, settings>>
tabVars    == <<text, dirty, active, cursor, snapshot, undoStack>>
opVars     == <<inflight, localClock, serverClock, remoteCursors>>
histVars   == <<log, seen, orderly>>
vars       == <<netVars, memberVars, tabVars, opVars, histVars, budget>>

EmptyMap  == [x \in {} |-> 0]
NoSession == -1   \* a guest that has not received Welcome has no clock

Init ==
    /\ nextSiteId = 1 /\ guestTxs = {} /\ linkUp = {}
    /\ toHost = [s \in Sites |-> <<>>] /\ toGuest = [s \in Sites |-> <<>>]
    /\ hostOut = <<>>
    /\ phase = [s \in Sites |-> "idle"]
    /\ peers = [n \in Nodes |-> EmptyMap]
    /\ myRole = [s \in Sites |-> "Viewer"]
    /\ rolePerms = [n \in Nodes |-> InitialPerms]
    /\ settings = InitialPerms
    /\ text = [n \in Nodes |-> DiskText]
    /\ dirty = [n \in Nodes |-> [f \in Files |-> FALSE]]
    /\ active = [n \in Nodes |-> DocFile]
    /\ cursor = [n \in Nodes |-> [f \in Files |-> 0]]
    /\ snapshot = [n \in Nodes |-> <<>>]
    /\ undoStack = <<OldText>>
    /\ inflight = [n \in Nodes |-> [f \in Files |-> <<>>]]
    /\ localClock = [n \in Nodes |-> 0]
    /\ serverClock = [n \in Nodes |-> IF n = Host THEN 0 ELSE NoSession]
    /\ remoteCursors = [n \in Nodes |-> EmptyMap]
    /\ log = <<>> /\ seen = [s \in Sites |-> <<>>] /\ orderly = TRUE
    /\ budget = Limits

-----------------------------------------------------------------------------
(* Frames and channels.                                                    *)

SpendAll(kinds) ==
    /\ \A k \in kinds : budget[k] > 0
    /\ budget["total"] >= Cardinality(kinds)
    /\ budget' = [k \in LimitKinds |->
                     IF k = "total" THEN budget[k] - Cardinality(kinds)
                     ELSE IF k \in kinds THEN budget[k] - 1 ELSE budget[k]]
Spend(kind) == SpendAll({kind})

\* Mutant of Send: only to guests already in the peer list.
SendToPeers(q, sites, m) ==
    [s \in Sites |-> IF s \in sites \cap guestTxs \cap linkUp \cap DOMAIN peers[Host]
                     THEN Append(q[s], m) ELSE q[s]]
\* A frame reaches a guest that is registered and whose socket still works.
Send(q, sites, m) ==
    [s \in Sites |-> IF s \in sites \cap guestTxs \cap linkUp THEN Append(q[s], m) ELSE q[s]]
\* Mutant of Broadcast: the author of an operation gets it back.
BroadcastToAll(q, except, m) == Send(q, Sites, m)
Broadcast(q, except, m) == Send(q, Sites \ except, m)

FromGuest(s, m) == IF s \in linkUp THEN [toHost EXCEPT ![s] = Append(@, m)] ELSE toHost

Carries(q, type) == \E m \in ToSet(q) : m.type = type
EditsInTransit ==
    \/ Carries(hostOut, "Op")
    \/ \E s \in Sites : Carries(toHost[s], "Op")
    \/ \E s \in linkUp : Carries(toGuest[s], "Op") \/ Carries(toGuest[s], "FileSaved")

\* A map with one entry inserted or replaced.
Put(map, key, value) ==
    [k \in DOMAIN map \union {key} |-> IF k = key THEN value ELSE map[k]]

HasSession(n) == n \in {Host} \union {s \in Sites : phase[s] = "joined"}

\* peer_perms and guest_can_write as the Op arm uses them.
PeerPerms(s) == IF s \in DOMAIN peers[Host] THEN rolePerms[Host][peers[Host][s]] ELSE {}
CanWrite(s, f) == (IF f \in HiddenFiles THEN "WRITE_HIDDEN" ELSE "WRITE_FILES") \in PeerPerms(s)

-----------------------------------------------------------------------------
(* Connections: accept, exit, failure, end of the host's reader thread.    *)

\* connect_guest opens the socket and sends Join; the accept loop numbers and
\* registers the connection.  The guest may have any of its tabs in front.
Connect ==
    /\ nextSiteId <= MaxSites
    /\ nextSiteId' = nextSiteId + 1
    /\ guestTxs' = guestTxs \union {nextSiteId}
    /\ linkUp' = linkUp \union {nextSiteId}
    /\ toHost' = [toHost EXCEPT ![nextSiteId] = <<[type |-> "Join"]>>]
    /\ phase' = [phase EXCEPT ![nextSiteId] = "connecting"]
    /\ \E f \in Files : active' = [active EXCEPT ![nextSiteId] = f]
    /\ UNCHANGED <<toGuest, hostOut, peers, myRole, rolePerms, settings, text, dirty, cursor,
                   snapshot, undoStack, opVars, histVars, budget>>

\* The guest's program ends.
GuestExit(s) ==
    /\ phase[s] \in {"connecting", "joined", "detached"}
    /\ Spend("exits")
    /\ phase' = [phase EXCEPT ![s] = "closed"]
    /\ linkUp' = linkUp \ {s}
    /\ toGuest' = [toGuest EXCEPT ![s] = <<>>]
    /\ UNCHANGED <<nextSiteId, guestTxs, toHost, hostOut, peers, myRole, rolePerms, settings,
                   tabVars, opVars, histVars>>

\* The connection breaks: each direction loses a suffix of what it carried.
ConnectionLost(s) ==
    /\ s \in linkUp
    /\ Spend("losses")
    /\ linkUp' = linkUp \ {s}
    /\ \E i \in 0 .. Len(toHost[s]) : \E j \in 0 .. Len(toGuest[s]) :
        /\ toHost' = [toHost EXCEPT ![s] = SubSeq(@, 1, i)]
        /\ toGuest' = [toGuest EXCEPT ![s] =
                          Append(SubSeq(@, 1, j), [type |-> "Disconnected"])]
    /\ UNCHANGED <<nextSiteId, guestTxs, hostOut, memberVars, tabVars, opVars, histVars>>

\* Mutant of ReaderEof: the event overtakes what the guest had sent.
LeftOvertakes(s) ==
    /\ s \in guestTxs \ linkUp
    /\ guestTxs' = guestTxs \ {s}
    /\ toHost' = [toHost EXCEPT ![s] = <<[type |-> "Left"]>> \o @]
    /\ UNCHANGED <<nextSiteId, linkUp, toGuest, hostOut, memberVars, tabVars, opVars, histVars,
                   budget>>

\* Mutant of ReaderEof: the reader gives up on a connection that works.
ReaderGivesUp(s) ==
    /\ s \in guestTxs
    /\ guestTxs' = guestTxs \ {s}
    /\ toHost' = [toHost EXCEPT ![s] = Append(@, [type |-> "Left"])]
    /\ UNCHANGED <<nextSiteId, linkUp, toGuest, hostOut, memberVars, tabVars, opVars, histVars,
                   budget>>

\* handle_guest's read error: the registry entry goes at once, the event queues.
ReaderEof(s) ==
    /\ s \in guestTxs \ linkUp
    /\ guestTxs' = guestTxs \ {s}
    /\ toHost' = [toHost EXCEPT ![s] = Append(@, [type |-> "Left"])]
    /\ UNCHANGED <<nextSiteId, linkUp, toGuest, hostOut, memberVars, tabVars, opVars, histVars,
                   budget>>

\* The host's writer thread.
HostWriter ==
    /\ hostOut # <<>>
    /\ hostOut' = Tail(hostOut)
    /\ toGuest' = Broadcast(toGuest, {}, Head(hostOut))
    /\ UNCHANGED <<nextSiteId, guestTxs, linkUp, toHost, memberVars, tabVars, opVars, histVars,
                   budget>>

-----------------------------------------------------------------------------
(* Local input.  A key event on a tab ends in a common tail: push_undo has *)
(* captured the text from before the first edit, notify_collab_change      *)
(* turns the difference to the active tab into an Op and forgets the       *)
(* capture, and the cursor goes out if the 50 ms debounce has passed.      *)

KeyEvent(n, newText, newCursor, captured, kind) ==
    LET f       == active[n]
        ops     == ExtractOps(captured[1], newText, n)
        changes == captured # <<>> /\ ops # <<>>
        clock   == localClock[n] + 1
        op      == [type |-> "Op", site |-> n, clock |-> clock, ops |-> ops, path |-> f]
        moved   == [type |-> "CursorUpdate", site |-> n, pos |-> newCursor, path |-> f]
    IN  /\ HasSession(n)
        /\ text' = [text EXCEPT ![n][f] = newText]
        /\ cursor' = [cursor EXCEPT ![n][f] = newCursor]
        /\ snapshot' = [snapshot EXCEPT ![n] = <<>>]
        /\ localClock' = IF changes THEN [localClock EXCEPT ![n] = clock] ELSE localClock
        /\ inflight' = IF changes
                       THEN [inflight EXCEPT ![n][f] =
                                Append(@, [clock |-> clock, ops |-> ops])]
                       ELSE inflight
        /\ log' = IF changes /\ n = Host THEN Append(log, <<Host, clock>>) ELSE log
        /\ \E sent \in SUBSET {"cursors"} :
            LET out == (IF changes THEN <<op>> ELSE <<>>) \o
                       (IF sent # {} THEN <<moved>> ELSE <<>>)
            IN  /\ SpendAll(sent \union {kind})
                /\ hostOut' = IF n = Host THEN hostOut \o out ELSE hostOut
                /\ toHost' = IF n \in linkUp THEN [toHost EXCEPT ![n] = @ \o out] ELSE toHost
        /\ UNCHANGED <<nextSiteId, guestTxs, linkUp, memberVars, active, serverClock,
                       remoteCursors, seen>>

\* The texts and cursors one edit command can produce: at most one character
\* selected, at most one character (the author's) inserted in its place.
EditsOf(n) ==
    LET t == text[n][active[n]]
    IN  {[text |-> SubSeq(t, 1, lo) \o new \o SubSeq(t, lo + selected + 1, Len(t)),
          cursor |-> lo + Len(new)] :
            lo \in 0 .. Len(t), selected \in {0, 1}, new \in {<<>>, <<n>>}}

\* push_undo: the text from before the first edit since the last notification.
Captured(n) == IF snapshot[n] = <<>> THEN <<text[n][active[n]]>> ELSE snapshot[n]

\* Typing, deleting, pasting: an edit command run by the keyboard handler.
Edit(n) ==
    \E e \in EditsOf(n) :
        /\ e.text # text[n][active[n]]
        /\ KeyEvent(n, e.text, e.cursor, Captured(n), "edits")
        /\ dirty' = [dirty EXCEPT ![n][active[n]] = TRUE]
        /\ orderly' = (orderly /\ ~EditsInTransit)
        /\ UNCHANGED <<toGuest, undoStack>>

\* A key event that edits nothing; it flushes a capture an earlier edit left.
Move(n) ==
    \E c \in {0, Len(text[n][active[n]])} :
        /\ KeyEvent(n, text[n][active[n]], c, snapshot[n], "moves")
        /\ UNCHANGED <<toGuest, dirty, undoStack, orderly>>

\* replace_current from the find bar: push_undo captures, nothing notifies, and
\* find_step takes the cursor to the next match, wherever that is.
DeferredEdit(n) ==
    LET f == active[n]
    IN  /\ HasSession(n) /\ Spend("deferred")
        /\ \E e \in EditsOf(n) :
            /\ e.text # text[n][f] /\ Len(e.text) = Len(text[n][f])
            /\ text' = [text EXCEPT ![n][f] = e.text]
            /\ \E c \in 0 .. Len(e.text) : cursor' = [cursor EXCEPT ![n][f] = c]
        /\ snapshot' = [snapshot EXCEPT ![n] = Captured(n)]
        /\ dirty' = [dirty EXCEPT ![n][f] = TRUE]
        /\ orderly' = FALSE
        /\ UNCHANGED <<netVars, memberVars, active, undoStack, opVars, log, seen>>

\* undo pops a snapshot taken before the session and captures nothing.
Undo ==
    /\ active[Host] = DocFile /\ undoStack # <<>>
    /\ KeyEvent(Host, Head(undoStack), 0, snapshot[Host], "undos")
    /\ undoStack' = Tail(undoStack)
    /\ dirty' = [dirty EXCEPT ![Host][DocFile] = TRUE]
    /\ orderly' = FALSE
    /\ UNCHANGED toGuest

SwitchTab(n) ==
    /\ HasSession(n) /\ Spend("switches")
    /\ \E f \in Files \ {active[n]} : active' = [active EXCEPT ![n] = f]
    /\ UNCHANGED <<netVars, memberVars, text, dirty, cursor, snapshot, undoStack, opVars, histVars>>

\* Cmd+S on a local file.  The host sends FileSaved straight to the guests.
Save(n) ==
    LET f     == active[n]
        saved == [type |-> "FileSaved", path |-> f, content |-> text[n][f]]
    IN  /\ f # Untitled
        /\ KeyEvent(n, text[n][f], cursor[n][f], snapshot[n], "saves")
        /\ dirty' = [dirty EXCEPT ![n][f] = FALSE]
        /\ toGuest' = IF n = Host THEN Broadcast(toGuest, {}, saved) ELSE toGuest
        /\ orderly' = (orderly /\ ~EditsInTransit)
        /\ UNCHANGED undoStack

\* A click in the settings' permission matrix: saved and broadcast.
TogglePerm(role, perm) ==
    /\ Spend("toggles")
    /\ settings' = [settings EXCEPT ![role] =
                       IF perm \in @ THEN @ \ {perm} ELSE @ \union {perm}]
    /\ toGuest' = Broadcast(toGuest, {}, [type |-> "RoleConfig", perms |-> settings'])
    /\ UNCHANGED <<nextSiteId, guestTxs, linkUp, toHost, hostOut, phase, peers, myRole, rolePerms,
                   tabVars, opVars, histVars>>

\* The one frame no handler of this client sends: a peer that speaks the
\* protocol asks the host to change a role.
RequestRole(s) ==
    /\ phase[s] = "joined" /\ Spend("requests")
    /\ \E target \in Sites, role \in Roles :
        toHost' = FromGuest(s, [type |-> "RoleChangeRequest", target |-> target, role |-> role])
    /\ UNCHANGED <<nextSiteId, guestTxs, linkUp, toGuest, hostOut, memberVars, tabVars, opVars,
                   histVars>>

-----------------------------------------------------------------------------
(* Applying an operation: the tab that owns the path, its cursor if it is  *)
(* the active tab, and the sender's cursor as this node knows it.          *)

ApplyRemote(n, m, ops) ==
    LET open == m.path # Untitled
    IN  /\ text' = IF open THEN [text EXCEPT ![n][m.path] = ApplyOps(@, ops)] ELSE text
        /\ dirty' = IF open THEN [dirty EXCEPT ![n][m.path] = TRUE] ELSE dirty
        /\ cursor' = IF open /\ m.path = active[n]
                     THEN [cursor EXCEPT ![n][m.path] = AdjustCursor(@, ops, n)]
                     ELSE cursor
        /\ remoteCursors' = IF m.site \in DOMAIN remoteCursors[n]
                            THEN [remoteCursors EXCEPT ![n][m.site].pos = AdjustCursor(@, ops, 0)]
                            ELSE remoteCursors
        /\ UNCHANGED <<active, snapshot, undoStack>>

(* The host's main loop: one event of guest s. *)

HostGets(s, type) ==
    /\ toHost[s] # <<>> /\ Head(toHost[s]).type = type
    /\ toHost' = [toHost EXCEPT ![s] = Tail(@)]

\* CollabGuestJoined.
HostJoin(s) ==
    LET doc     == IF DocFile = Untitled THEN <<>> ELSE text[Host][DocFile]
        welcome == [type |-> "Welcome", doc |-> doc, clock |-> serverClock[Host],
                    peers |-> peers[Host], role |-> DefaultRole, perms |-> rolePerms[Host]]
        joined  == [type |-> "PeerJoined", site |-> s, role |-> DefaultRole]
    IN  /\ HostGets(s, "Join")
        /\ toGuest' = Broadcast(Send(toGuest, {s}, welcome), {s}, joined)
        /\ peers' = [peers EXCEPT ![Host] = Put(@, s, DefaultRole)]
        /\ orderly' = (orderly /\ ~Carries(hostOut, "Op"))
        /\ UNCHANGED <<nextSiteId, guestTxs, linkUp, hostOut, phase, myRole, rolePerms, settings,
                       tabVars, opVars, log, seen, budget>>

\* The Op arm on the host: applied as received, then checked, then sequenced.
HostOp(s) ==
    LET m  == Head(toHost[s])
        ok == CanWrite(m.site, m.path)
    IN  /\ HostGets(s, "Op")
        /\ ApplyRemote(Host, m, m.ops)
        /\ IF ok
           THEN /\ serverClock' = [serverClock EXCEPT ![Host] = @ + 1]
                /\ toGuest' = Send(Broadcast(toGuest, {m.site}, m), {m.site},
                                   [type |-> "Ack", clock |-> m.clock, path |-> m.path])
                /\ log' = Append(log, <<m.site, m.clock>>)
           ELSE UNCHANGED <<serverClock, toGuest, log>>
        /\ orderly' = (orderly /\ ok)
        /\ UNCHANGED <<nextSiteId, guestTxs, linkUp, hostOut, memberVars, inflight, localClock,
                       seen, budget>>

\* The CursorUpdate arm: stored, not relayed.
HostCursor(s) ==
    LET m == Head(toHost[s])
    IN  /\ HostGets(s, "CursorUpdate")
        /\ remoteCursors' = [remoteCursors EXCEPT ![Host] =
                                Put(@, m.site, [path |-> m.path, pos |-> m.pos])]
        /\ UNCHANGED <<nextSiteId, guestTxs, linkUp, toGuest, hostOut, memberVars, tabVars,
                       inflight, localClock, serverClock, histVars, budget>>

\* Mutant of Grants: whoever asks.
GrantsToAll(s, role) == role \notin {"SystemAccess", "Moderator"}
Grants(s, role) == "MANAGE_ROLES" \in PeerPerms(s) /\ role \notin {"SystemAccess", "Moderator"}

\* The RoleChangeRequest arm; a refused request has no effect.
HostRoleRequest(s) ==
    LET m       == Head(toHost[s])
        granted == Grants(s, m.role)
    IN  /\ HostGets(s, "RoleChangeRequest")
        /\ peers' = IF granted /\ m.target \in DOMAIN peers[Host]
                    THEN [peers EXCEPT ![Host][m.target] = m.role] ELSE peers
        /\ toGuest' = IF granted
                      THEN Broadcast(toGuest, {}, [type |-> "PeerRoleChanged", site |-> m.target,
                                                   role |-> m.role])
                      ELSE toGuest
        /\ UNCHANGED <<nextSiteId, guestTxs, linkUp, hostOut, phase, myRole, rolePerms, settings,
                       tabVars, opVars, histVars, budget>>

\* CollabGuestLeft.
HostLeft(s) ==
    /\ HostGets(s, "Left")
    /\ peers' = [peers EXCEPT ![Host] = Restrict(@, DOMAIN @ \ {s})]
    /\ remoteCursors' = [remoteCursors EXCEPT ![Host] = Restrict(@, DOMAIN @ \ {s})]
    /\ toGuest' = Broadcast(toGuest, {}, [type |-> "PeerLeft", site |-> s])
    /\ UNCHANGED <<nextSiteId, guestTxs, linkUp, hostOut, phase, myRole, rolePerms, settings,
                   tabVars, inflight, localClock, serverClock, histVars, budget>>

HostEvent(s) == HostJoin(s) \/ HostOp(s) \/ HostCursor(s) \/ HostRoleRequest(s) \/ HostLeft(s)
-----------------------------------------------------------------------------
(* A guest's main loop: one event of its connection.                       *)

GuestGets(s, type) ==
    /\ toGuest[s] # <<>> /\ Head(toGuest[s]).type = type
    /\ toGuest' = [toGuest EXCEPT ![s] = Tail(@)]

\* connect_guest reads Welcome and builds the session; CollabConnected puts the
\* document in the active tab, whichever it is, or drops the session when the
\* active pane is no editor.
GuestWelcome(s) ==
    LET m == Head(toGuest[s])
        f == active[s]
    IN  /\ phase[s] = "connecting" /\ GuestGets(s, "Welcome")
        /\ \/ /\ phase' = [phase EXCEPT ![s] = "joined"]
              /\ text' = [text EXCEPT ![s][f] = m.doc]
              /\ dirty' = [dirty EXCEPT ![s][f] = FALSE]
              /\ peers' = [peers EXCEPT ![s] = m.peers]
              /\ myRole' = [myRole EXCEPT ![s] = m.role]
              /\ rolePerms' = [rolePerms EXCEPT ![s] = m.perms]
              /\ serverClock' = [serverClock EXCEPT ![s] = m.clock]
              /\ orderly' = (orderly /\ f = DocFile)
           \/ /\ phase' = [phase EXCEPT ![s] = "detached"]
              /\ UNCHANGED <<text, dirty, peers, myRole, rolePerms, serverClock, orderly>>
        /\ UNCHANGED <<nextSiteId, guestTxs, linkUp, toHost, hostOut, settings, active, cursor,
                       snapshot, undoStack, inflight, localClock, remoteCursors, log, seen, budget>>

\* Frames before Welcome, and frames to a program without a session.
GuestSkips(s) ==
    /\ toGuest[s] # <<>>
    /\ \/ phase[s] = "connecting" /\ Head(toGuest[s]).type \notin {"Welcome", "Disconnected"}
       \/ phase[s] = "detached" /\ Head(toGuest[s]).type \notin {"FileSaved", "Disconnected"}
    /\ toGuest' = [toGuest EXCEPT ![s] = Tail(@)]
    /\ UNCHANGED <<nextSiteId, guestTxs, linkUp, toHost, hostOut, memberVars, tabVars, opVars,
                   histVars, budget>>

\* The Op arm on a guest: rebased over the in-flight edits of that file, applied.
GuestOp(s) ==
    LET m == Head(toGuest[s])
        r == IntegrateRemoteAgainstInflight(m.ops, inflight[s][m.path])
    IN  /\ phase[s] = "joined" /\ GuestGets(s, "Op")
        /\ inflight' = [inflight EXCEPT ![s][m.path] = r.inflight]
        /\ ApplyRemote(s, m, r.remote)
        /\ seen' = [seen EXCEPT ![s] = Append(@, <<m.site, m.clock>>)]
        /\ UNCHANGED <<nextSiteId, guestTxs, linkUp, toHost, hostOut, memberVars, localClock,
                       serverClock, log, orderly, budget>>

\* Mutant of Unacked: the acknowledged entry itself stays.
UnackedFrom(queue, clock) ==
    FoldLeft(LAMBDA kept, entry : IF entry.clock >= clock THEN Append(kept, entry) ELSE kept,
             <<>>, queue)
\* retain, one entry after the other.
Unacked(queue, clock) ==
    FoldLeft(LAMBDA kept, entry : IF entry.clock > clock THEN Append(kept, entry) ELSE kept,
             <<>>, queue)

\* The Ack arm.
GuestAck(s) ==
    LET m == Head(toGuest[s])
    IN  /\ phase[s] = "joined" /\ GuestGets(s, "Ack")
        /\ inflight' = [inflight EXCEPT ![s][m.path] = Unacked(@, m.clock)]
        /\ seen' = [seen EXCEPT ![s] = Append(@, <<s, m.clock>>)]
        /\ UNCHANGED <<nextSiteId, guestTxs, linkUp, toHost, hostOut, memberVars, tabVars,
                       localClock, serverClock, remoteCursors, log, orderly, budget>>

GuestCursor(s) ==
    LET m == Head(toGuest[s])
    IN  /\ phase[s] = "joined" /\ GuestGets(s, "CursorUpdate")
        /\ remoteCursors' = [remoteCursors EXCEPT ![s] =
                                Put(@, m.site, [path |-> m.path, pos |-> m.pos])]
        /\ UNCHANGED <<nextSiteId, guestTxs, linkUp, toHost, hostOut, memberVars, tabVars,
                       inflight, localClock, serverClock, histVars, budget>>

\* Mutant of RosterAfter: no PeerRoleChanged arm.
RosterKeepsRoles(roster, m) ==
    CASE m.type = "PeerJoined" /\ m.site \notin DOMAIN roster -> Put(roster, m.site, m.role)
      [] m.type = "PeerLeft"   -> Restrict(roster, DOMAIN roster \ {m.site})
      [] OTHER -> roster

\* What the PeerJoined, PeerLeft and PeerRoleChanged arms make of a peer list.
RosterAfter(roster, m) ==
    CASE m.type = "PeerJoined" /\ m.site \notin DOMAIN roster -> Put(roster, m.site, m.role)
      [] m.type = "PeerLeft"   -> Restrict(roster, DOMAIN roster \ {m.site})
      [] m.type = "PeerRoleChanged" /\ m.site \in DOMAIN roster ->
            [roster EXCEPT ![m.site] = m.role]
      [] OTHER -> roster

GuestRoster(s) ==
    LET m == Head(toGuest[s])
    IN  /\ phase[s] = "joined"
        /\ \E type \in {"PeerJoined", "PeerLeft", "PeerRoleChanged", "RoleConfig"} :
            GuestGets(s, type)
        /\ peers' = [peers EXCEPT ![s] = RosterAfter(@, m)]
        /\ myRole' = IF m.type = "PeerRoleChanged" /\ m.site = s
                     THEN [myRole EXCEPT ![s] = m.role] ELSE myRole
        /\ rolePerms' = IF m.type = "RoleConfig"
                        THEN [rolePerms EXCEPT ![s] = m.perms] ELSE rolePerms
        /\ remoteCursors' = IF m.type = "PeerLeft"
                            THEN [remoteCursors EXCEPT ![s] = Restrict(@, DOMAIN @ \ {m.site})]
                            ELSE remoteCursors
        /\ UNCHANGED <<nextSiteId, guestTxs, linkUp, toHost, hostOut, phase, settings, tabVars,
                       inflight, localClock, serverClock, histVars, budget>>

\* The FileSaved arm works without a session; a tab with edits keeps its text.
GuestFileSaved(s) ==
    LET m == Head(toGuest[s])
    IN  /\ phase[s] \in {"joined", "detached"} /\ GuestGets(s, "FileSaved")
        /\ text' = IF dirty[s][m.path] THEN text ELSE [text EXCEPT ![s][m.path] = m.content]
        /\ UNCHANGED <<nextSiteId, guestTxs, linkUp, toHost, hostOut, memberVars, dirty, active,
                       cursor, snapshot, undoStack, opVars, histVars, budget>>

\* CollabDisconnected, or CollabError before Welcome.
GuestDisconnected(s) ==
    /\ GuestGets(s, "Disconnected")
    /\ phase' = [phase EXCEPT ![s] = "closed"]
    /\ snapshot' = [snapshot EXCEPT ![s] = <<>>]
    /\ UNCHANGED <<nextSiteId, guestTxs, linkUp, toHost, hostOut, peers, myRole, rolePerms,
                   settings, text, dirty, active, cursor, undoStack, opVars, histVars, budget>>

GuestEvent(s) ==
    \/ GuestWelcome(s) \/ GuestSkips(s) \/ GuestOp(s) \/ GuestAck(s) \/ GuestCursor(s)
    \/ GuestRoster(s) \/ GuestFileSaved(s) \/ GuestDisconnected(s)

-----------------------------------------------------------------------------
UserAction ==
    \/ \E n \in Nodes : Edit(n) \/ Move(n) \/ DeferredEdit(n) \/ SwitchTab(n) \/ Save(n)
    \/ Undo
    \/ \E cell \in Toggles : TogglePerm(cell[1], cell[2])
    \/ \E s \in Sites : RequestRole(s)

Next ==
    \/ Connect \/ HostWriter
    \/ \E s \in Sites : \/ HostEvent(s) \/ GuestEvent(s) \/ ReaderEof(s)
                        \/ GuestExit(s) \/ ConnectionLost(s)
    \/ UserAction

Spec == Init /\ [][Next]_vars

\* The event loops and the threads run whenever they have something to do; the
\* users and the network owe nothing.
Fairness ==
    /\ WF_vars(HostWriter)
    /\ \A s \in Sites : WF_vars(HostEvent(s)) /\ WF_vars(GuestEvent(s)) /\ WF_vars(ReaderEof(s))

FairSpec == Spec /\ Fairness
=============================================================================
