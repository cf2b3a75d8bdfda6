---------------------------- MODULE LspRegistry ----------------------------
(***************************************************************************)
(* The registry of language servers that the windows of one user share,    *)
(* each window a process of its own (lsp_registry.rs and its callers in    *)
(* main.rs): one file per running server, one control socket per process.  *)
(*                                                                         *)
(* It is seen for one language on one host.  Processes are told apart by   *)
(* their pid, and no pid returns while a scan still holds an entry of it;  *)
(* a pid that an unrelated program got answers on no socket, as a dead     *)
(* process does (145-154).                                                 *)
(***************************************************************************)
EXTENDS Naturals, Sequences, FiniteSets

CONSTANTS
    Processes,  \* the windows that may be open
    Limit,      \* settings.lsp_server_limits for the language, or NoLimit
    NoLimit,
    Managers,   \* bound: the windows whose user opens the manager panel
    MaxOps      \* bound: servers each process tries to start in its life

ASSUME RegistryAssumption == MaxOps \in [Processes -> Nat] /\ Limit \in Nat \cup {NoLimit}
                             /\ NoLimit \notin Nat /\ Managers \subseteq Processes

VARIABLES
    phase,      \* "off", "starting", "running", "dead"
    entries,    \* the files <pid>-<op_id>.json
    sock,       \* does the file p-<pid>.sock exist?
    servers,    \* LspManager::servers of each process, its op ids
    children,   \* the server processes that still run, killed ones too
    nextOp,     \* State::next_pane_id, as far as servers take their ids from it
    firstOp,    \* nextOp when the socket was bound: what started earlier is below
    scan,       \* list_live in progress on the main thread, or NoScan
    panel,      \* the entries the manager panel shows, or Closed
    inbox,      \* events for the main loop of each process
    call,       \* request_stop of each process, on a thread of its own
    raced       \* history: was a launch unseen by a count, or an entry lost or
                \* never written?

registryVars == <<phase, entries, sock, servers, children, nextOp, firstOp, scan, panel,
          inbox, call, raced>>

Slot(p, op) == [pid |-> p, op |-> op]
NoScan == [goal |-> "none"]
Closed == [open |-> FALSE, shown |-> {}]
NoCall == [state |-> "none"]

Up(p)       == phase[p] \in {"starting", "running"}
Connects(p) == phase[p] = "running" /\ sock[p]
Idle(p)     == scan[p] = NoScan
Free(p)     == phase[p] = "running" /\ Idle(p)

StopEvent(op, from) == [type |-> "LspStopRequested", op |-> op, from |-> from]
StoppedEvent(op)    == [type |-> "LspServerStopped", op |-> op]
FreedEvent          == [type |-> "LspSlotFreed"]

RegistryInit ==
    /\ phase = [p \in Processes |-> "off"]
    /\ entries = {}
    /\ sock = [p \in Processes |-> FALSE]
    /\ servers = [p \in Processes |-> {}]
    /\ children = [p \in Processes |-> {}]
    /\ nextOp = [p \in Processes |-> 1]
    /\ firstOp = [p \in Processes |-> 1]
    /\ scan = [p \in Processes |-> NoScan]
    /\ panel = [p \in Processes |-> Closed]
    /\ inbox = [p \in Processes |-> <<>>]
    /\ call = [p \in Processes |-> NoCall]
    /\ raced = FALSE

-----------------------------------------------------------------------------
(* The life of a process.                                                  *)

\* resumed: the window is there, servers for its file and project may start.
Launch(p) ==
    /\ phase[p] = "off"
    /\ phase' = [phase EXCEPT ![p] = "starting"]
    /\ UNCHANGED <<entries, sock, servers, children, nextOp, firstOp, scan, panel,
                   inbox, call, raced>>

\* start_control_listener, after that: binding may fail.
Listen(p) ==
    /\ phase[p] = "starting" /\ Idle(p)
    /\ phase' = [phase EXCEPT ![p] = "running"]
    /\ \E bound \in BOOLEAN : sock' = [sock EXCEPT ![p] = bound]
    /\ firstOp' = [firstOp EXCEPT ![p] = nextOp[p]]
    /\ UNCHANGED <<entries, servers, children, nextOp, scan, panel, inbox, call, raced>>

\* Whatever ends the process ends its threads and its servers' stdin.
Ended(p) ==
    /\ phase' = [phase EXCEPT ![p] = "dead"]
    /\ servers' = [servers EXCEPT ![p] = {}]
    /\ children' = [children EXCEPT ![p] = {}]
    /\ scan' = [scan EXCEPT ![p] = NoScan]
    /\ panel' = [panel EXCEPT ![p] = Closed]
    /\ inbox' = [inbox EXCEPT ![p] = <<>>]
    /\ call' = [call EXCEPT ![p] = NoCall]
    /\ UNCHANGED <<nextOp, firstOp, raced>>

\* exiting: cleanup_self, and the listener's drop.
Exit(p) ==
    /\ Free(p)
    /\ Ended(p)
    /\ entries' = {e \in entries : e.pid # p}
    /\ sock' = [sock EXCEPT ![p] = FALSE]

Crash(p) == Up(p) /\ Ended(p) /\ UNCHANGED <<entries, sock>>

-----------------------------------------------------------------------------
(* list_live: the directory is read, then each entry is looked at.         *)

\* dead is history: who had died before the scan began.
Dead == {q \in Processes : phase[q] = "dead"}
Scanning(p, goal) ==
    scan' = [scan EXCEPT ![p] = [goal |-> goal, todo |-> entries, found |-> {},
                                 condemned |-> {}, dead |-> Dead]]

\* Mutant of Probe: the prober connects to its own socket.
ProbeSelf(p, e) ==
    /\ ~Idle(p) /\ e \in scan[p].todo /\ scan[p].condemned = {}
    /\ LET seen == [scan[p] EXCEPT !.todo = @ \ {e}]
       IN  scan' = [scan EXCEPT ![p] =
               IF e \notin entries THEN seen
               ELSE IF e.pid = p \/ Connects(p) THEN [seen EXCEPT !.found = @ \cup {e}]
               ELSE [seen EXCEPT !.condemned = {e}]]
    /\ UNCHANGED <<phase, entries, sock, servers, children, nextOp, firstOp, panel,
                   inbox, call, raced>>

\* Mutant of Probe: a socket that is still in the directory is an answer.
ProbeFile(p, e) ==
    /\ ~Idle(p) /\ e \in scan[p].todo /\ scan[p].condemned = {}
    /\ LET seen == [scan[p] EXCEPT !.todo = @ \ {e}]
       IN  scan' = [scan EXCEPT ![p] =
               IF e \notin entries THEN seen
               ELSE IF e.pid = p \/ sock[e.pid] THEN [seen EXCEPT !.found = @ \cup {e}]
               ELSE [seen EXCEPT !.condemned = {e}]]
    /\ UNCHANGED <<phase, entries, sock, servers, children, nextOp, firstOp, panel,
                   inbox, call, raced>>

\* is_live: one's own entries are; of others, what answers on its socket.
\* A file that has gone meanwhile is skipped.
Probe(p, e) ==
    /\ ~Idle(p) /\ e \in scan[p].todo /\ scan[p].condemned = {}
    /\ LET seen == [scan[p] EXCEPT !.todo = @ \ {e}]
           live == e.pid = p \/ Connects(e.pid)
       IN  scan' = [scan EXCEPT ![p] =
               IF e \notin entries THEN seen
               ELSE IF live THEN [seen EXCEPT !.found = @ \cup {e}]
               ELSE [seen EXCEPT !.condemned = {e}]]
    /\ UNCHANGED <<phase, entries, sock, servers, children, nextOp, firstOp, panel,
                   inbox, call, raced>>

\* What did not answer is removed, its socket too, whatever it is by now.
Reap(p) ==
    /\ ~Idle(p) /\ scan[p].condemned # {}
    /\ entries' = entries \ scan[p].condemned
    /\ sock' = [q \in Processes |->
                    sock[q] /\ ~\E e \in scan[p].condemned : e.pid = q]
    /\ scan' = [scan EXCEPT ![p].condemned = {}]
    /\ raced' = (raced \/ \E e \in scan[p].condemned : e.op \in servers[e.pid])
    /\ UNCHANGED <<phase, servers, children, nextOp, firstOp, panel, inbox, call>>

Scanned(p) == ~Idle(p) /\ scan[p].todo = {} /\ scan[p].condemned = {}

-----------------------------------------------------------------------------
(* ensure_lsp_server_running.                                              *)

\* start_server and register.  The id is spent even if the server does not
\* start.  The entry may fail to be written, and another process that is
\* counting by now does not see it.
StartServer(p) ==
    /\ nextOp[p] <= MaxOps[p]
    /\ nextOp' = [nextOp EXCEPT ![p] = @ + 1]
    /\ \/ /\ servers' = [servers EXCEPT ![p] = @ \cup {nextOp[p]}]
          /\ children' = [children EXCEPT ![p] = @ \cup {nextOp[p]}]
          /\ \/ /\ entries' = entries \cup {Slot(p, nextOp[p])}
                /\ raced' = (raced \/ \E q \in Processes \ {p} : scan[q].goal = "start")
             \/ entries' = entries /\ raced' = TRUE
       \/ UNCHANGED <<servers, children, entries, raced>>

\* The part before the count: nothing to do, disabled, counting or starting.
EnsureServer(p) ==
    \/ /\ servers[p] # {} \/ Limit = 0
       /\ UNCHANGED <<scan, nextOp, servers, children, entries, raced>>
    \/ /\ servers[p] = {} /\ Limit \notin {0, NoLimit}
       /\ Scanning(p, "start")
       /\ UNCHANGED <<nextOp, servers, children, entries, raced>>
    \/ /\ servers[p] = {} /\ Limit = NoLimit
       /\ StartServer(p)
       /\ UNCHANGED scan

\* A file or a project is opened, or text typed: before listening, and after.
WantServer(p) ==
    /\ Up(p) /\ Idle(p) /\ servers[p] = {} /\ nextOp[p] <= MaxOps[p]
    /\ EnsureServer(p)
    /\ UNCHANGED <<phase, sock, firstOp, panel, inbox, call>>

\* Mutant of Counted: one server more than the limit.
CountedGenerous(p) ==
    /\ Scanned(p) /\ scan[p].goal = "start"
    /\ scan' = [scan EXCEPT ![p] = NoScan]
    /\ \/ /\ Cardinality(scan[p].found) > Limit
          /\ UNCHANGED <<nextOp, servers, children, entries, raced>>
       \/ /\ Cardinality(scan[p].found) <= Limit
          /\ StartServer(p)
    /\ UNCHANGED <<phase, sock, firstOp, panel, inbox, call>>

\* count_live is known.
Counted(p) ==
    /\ Scanned(p) /\ scan[p].goal = "start"
    /\ scan' = [scan EXCEPT ![p] = NoScan]
    /\ \/ /\ Cardinality(scan[p].found) >= Limit
          /\ UNCHANGED <<nextOp, servers, children, entries, raced>>
       \/ /\ Cardinality(scan[p].found) < Limit
          /\ StartServer(p)
    /\ UNCHANGED <<phase, sock, firstOp, panel, inbox, call>>

\* The server's output ends, because it died or was killed: the reader
\* thread posts ServerStopped.
ServerExits(p, op) ==
    /\ Up(p) /\ op \in children[p]
    /\ children' = [children EXCEPT ![p] = @ \ {op}]
    /\ inbox' = [inbox EXCEPT ![p] = Append(@, StoppedEvent(op))]
    /\ UNCHANGED <<phase, entries, sock, servers, nextOp, firstOp, scan, panel, call, raced>>

-----------------------------------------------------------------------------
(* The manager panel.                                                      *)

OpenPanel(p) ==
    /\ Free(p) /\ ~panel[p].open /\ p \in Managers
    /\ Scanning(p, "panel")
    /\ UNCHANGED <<phase, entries, sock, servers, children, nextOp, firstOp, panel,
                   inbox, call, raced>>

\* open_lsp_manager, or lsp_panel_stop after its own server, have their list.
Listed(p) ==
    /\ Scanned(p) /\ scan[p].goal = "panel"
    /\ scan' = [scan EXCEPT ![p] = NoScan]
    /\ panel' = [panel EXCEPT ![p] = [open |-> TRUE, shown |-> scan[p].found]]
    /\ UNCHANGED <<phase, entries, sock, servers, children, nextOp, firstOp, inbox,
                   call, raced>>

\* Escape, lsp_panel_go_to_window (a request that only raises a window), or a
\* command without an entry, or of one's own entry where that is refused.
ClosePanel(p) ==
    /\ Free(p) /\ panel[p].open
    /\ panel' = [panel EXCEPT ![p] = Closed]
    /\ UNCHANGED <<phase, entries, sock, servers, children, nextOp, firstOp, scan,
                   inbox, call, raced>>

\* lsp_panel_stop of one's own server.  The panel stays.
StopOwn(p, e) ==
    /\ Free(p) /\ e \in panel[p].shown /\ e.pid = p
    /\ servers' = [servers EXCEPT ![p] = @ \ {e.op}]
    /\ entries' = entries \ {e}
    /\ scan' = [scan EXCEPT ![p] =
           [goal |-> "panel", todo |-> entries \ {e}, found |-> {}, condemned |-> {},
            dead |-> Dead]]
    /\ UNCHANGED <<phase, sock, children, nextOp, firstOp, panel, inbox, call, raced>>

\* lsp_panel_stop and lsp_panel_move_here of another's.  Bound: one request
\* in the life of a process.
RequestStop(p, e, move) ==
    /\ Free(p) /\ e \in panel[p].shown /\ e.pid # p /\ call[p] = NoCall
    /\ call' = [call EXCEPT ![p] = [state |-> "connecting", to |-> e.pid, op |-> e.op,
                                    move |-> move]]
    /\ panel' = [panel EXCEPT ![p] = Closed]
    /\ UNCHANGED <<phase, entries, sock, servers, children, nextOp, firstOp, scan,
                   inbox, raced>>

\* Any answer ends the request, an error too; moving goes on from there.
CallEnds(p, outcome) ==
    /\ call' = [call EXCEPT ![p].state = outcome]
    /\ inbox' = IF call[p].move THEN [inbox EXCEPT ![p] = Append(@, FreedEvent)] ELSE inbox

\* send_request and handle_conn: the socket refuses, or the event is posted.
Deliver(p) ==
    /\ call[p].state = "connecting"
    /\ \/ /\ Connects(call[p].to)
          /\ call' = [call EXCEPT ![p].state = "waiting"]
          /\ inbox' = [inbox EXCEPT ![call[p].to] = Append(@, StopEvent(call[p].op, p))]
       \/ /\ ~Connects(call[p].to)
          /\ CallEnds(p, "failed")
    /\ UNCHANGED <<phase, entries, sock, servers, children, nextOp, firstOp, scan,
                   panel, raced>>

\* The five seconds of handle_conn pass, or the other process is gone.
GiveUp(p) ==
    /\ call[p].state = "waiting"
    /\ CallEnds(p, "failed")
    /\ UNCHANGED <<phase, entries, sock, servers, children, nextOp, firstOp, scan,
                   panel, raced>>

\* request_stop returns with what the other's main loop replied.
TakeReply(p) ==
    /\ call[p].state \in {"Stopped", "NotFound"}
    /\ CallEnds(p, "ended")
    /\ UNCHANGED <<phase, entries, sock, servers, children, nextOp, firstOp, scan,
                   panel, raced>>

-----------------------------------------------------------------------------
(* The main loop's events.                                                 *)

Turn(p, type) == Free(p) /\ inbox[p] # <<>> /\ Head(inbox[p]).type = type
Consumed(p)       == [inbox EXCEPT ![p] = Tail(@)]

\* Mutant of StopRequested: the entry is left to the server's end.
StopRequestedListed(p) ==
    /\ Turn(p, "LspStopRequested")
    /\ LET event  == Head(inbox[p])
           asks   == call[event.from].state = "waiting"
       IN  /\ servers' = [servers EXCEPT ![p] = @ \ {event.op}]
           /\ call' = IF asks
                      THEN [call EXCEPT ![event.from].state =
                                IF event.op \in servers[p] THEN "Stopped" ELSE "NotFound"]
                      ELSE call
    /\ inbox' = Consumed(p)
    /\ UNCHANGED <<phase, entries, sock, children, nextOp, firstOp, scan, panel, raced>>

\* The reply finds the requester waiting, or nobody.
StopRequested(p) ==
    /\ Turn(p, "LspStopRequested")
    /\ LET event  == Head(inbox[p])
           known  == event.op \in servers[p]
           asks   == call[event.from].state = "waiting"
       IN  /\ servers' = [servers EXCEPT ![p] = @ \ {event.op}]
           /\ entries' = IF known THEN entries \ {Slot(p, event.op)} ELSE entries
           /\ call' = IF asks
                      THEN [call EXCEPT ![event.from].state =
                                IF known THEN "Stopped" ELSE "NotFound"]
                      ELSE call
    /\ inbox' = Consumed(p)
    /\ UNCHANGED <<phase, sock, children, nextOp, firstOp, scan, panel, raced>>

\* Mutant of ServerStopped: the server is forgotten, its entry is not.
ServerStoppedListed(p) ==
    /\ Turn(p, "LspServerStopped")
    /\ servers' = [servers EXCEPT ![p] = @ \ {Head(inbox[p]).op}]
    /\ inbox' = Consumed(p)
    /\ UNCHANGED <<phase, entries, sock, children, nextOp, firstOp, scan, panel, call, raced>>

ServerStopped(p) ==
    /\ Turn(p, "LspServerStopped")
    /\ LET op == Head(inbox[p]).op
       IN  /\ servers' = [servers EXCEPT ![p] = @ \ {op}]
           /\ entries' = entries \ {Slot(p, op)}
    /\ inbox' = Consumed(p)
    /\ UNCHANGED <<phase, sock, children, nextOp, firstOp, scan, panel, call, raced>>

SlotFreed(p) ==
    /\ Turn(p, "LspSlotFreed") /\ nextOp[p] <= MaxOps[p]
    /\ EnsureServer(p)
    /\ inbox' = Consumed(p)
    /\ UNCHANGED <<phase, sock, firstOp, panel, call>>

-----------------------------------------------------------------------------

AllSlots == UNION {{Slot(p, op) : op \in 1 .. MaxOps[p]} : p \in Processes}

MainLoop(p) ==
    \/ \E e \in AllSlots : Probe(p, e)
    \/ Reap(p) \/ Counted(p) \/ Listed(p)
    \/ StopRequested(p) \/ ServerStopped(p) \/ SlotFreed(p)

User(p) ==
    \/ WantServer(p) \/ OpenPanel(p) \/ ClosePanel(p) \/ Exit(p)
    \/ \E e \in AllSlots : StopOwn(p, e) \/ \E move \in BOOLEAN : RequestStop(p, e, move)

Threads(p) == Deliver(p) \/ GiveUp(p) \/ TakeReply(p)

RegistryNext == \E p \in Processes :
    \/ Launch(p) \/ Listen(p) \/ Crash(p)
    \/ MainLoop(p) \/ User(p) \/ Threads(p)
    \/ \E op \in 1 .. MaxOps[p] : ServerExits(p, op)

RegistrySpec == RegistryInit /\ [][RegistryNext]_registryVars
=============================================================================
